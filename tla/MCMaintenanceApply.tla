------------------------- MODULE MCMaintenanceApply --------------------------
(* Bounds: one pin with a plain view (.python-version), one whose update      *)
(* reaches a runtime source (handoff) that the allowlist of the tool has and  *)
(* that of the workflow has not, and the integration source (action) that is  *)
(* on neither.  The inventory is computed from common.sh and the handoff,  *)
(* the archive from the inventory.  Two runs, one commit by somebody else.    *)
EXTENDS MaintenanceApply
CONSTANTS py, nginx, common, pyver, action, handoff, inventory, archive
GenerationOrder == <<pyver, action, handoff, inventory, archive>>
GeneratorOf ==
  [p \in Paths \ {common} |->
     CASE p = pyver -> "python" [] p \in {action, handoff} -> "runtime" [] OTHER -> "tests"]
ShownBy ==
  [p \in Paths \ {common} |->
     CASE p = pyver -> {py} [] p \in {action, handoff} -> {nginx} [] p = inventory -> Pins [] OTHER -> {}]
ReadBy ==
  [p \in Paths \ {common} |->
     CASE p = inventory -> {handoff} [] p = archive -> {inventory} [] OTHER -> {}]
===============================================================================
