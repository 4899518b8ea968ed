SPECIFICATION Spec
CONSTANTS
  py = py
  nginx = nginx
  common = common
  pyver = pyver
  action = action
  handoff = handoff
  inventory = inventory
  archive = archive
  NONE = NONE
  Pins = {py, nginx}
  Paths = {common, pyver, action, handoff, inventory, archive}
  Common = common
  Order <- GenerationOrder
  Generator <- GeneratorOf
  Shows <- ShownBy
  Reads <- ReadBy
  Allowed = {common, pyver, handoff, inventory, archive}
  Published = {common, pyver, inventory, archive}
  MaxRuns = 1
  MaxPushes = 0
  MaxFaults = 0
INVARIANTS RestoredOnFailure
CHECK_DEADLOCK FALSE
