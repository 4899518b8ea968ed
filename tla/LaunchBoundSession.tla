------------------------ MODULE LaunchBoundSession ------------------------
(***************************************************************************)
(* What apache_process_guard.py promises to the runners that share one     *)
(* Apache runtime directory, independent of how it is done:                *)
(*                                                                         *)
(*   - at most one session is published at a time, and a published session *)
(*     is never replaced in place;                                         *)
(*   - a session is withdrawn only when its httpd is gone or the kernel    *)
(*     has been told to kill it (no httpd runs on behind a directory that  *)
(*     looks idle);                                                        *)
(*   - a stop is acknowledged only when the httpd of that session is gone. *)
(***************************************************************************)
CONSTANTS Sessions, None

VARIABLES
    httpd,      \* [Sessions -> {"absent", "running", "doomed", "gone"}]
    published,  \* the session whose state file is visible, or None
    acked       \* the sessions for which some client received an ACK

lbsVars == <<httpd, published, acked>>

Init == /\ httpd = [s \in Sessions |-> "absent"]
        /\ published = None
        /\ acked = {}

Launch(s) == /\ httpd[s] = "absent"
             /\ httpd' = [httpd EXCEPT ![s] = "running"]
             /\ UNCHANGED <<published, acked>>

\* SIGKILL has been sent: by the supervisor's escalation, or by the kernel
\* because the supervisor died.
Doom(s) == /\ httpd[s] = "running"
           /\ httpd' = [httpd EXCEPT ![s] = "doomed"]
           /\ UNCHANGED <<published, acked>>

\* The httpd exits; a launch that fails before exec never ran at all.
End(s) == /\ httpd[s] # "gone"
          /\ httpd' = [httpd EXCEPT ![s] = "gone"]
          /\ UNCHANGED <<published, acked>>

Publish(s) == /\ published = None
              /\ httpd[s] # "absent"
              /\ published' = s
              /\ UNCHANGED <<httpd, acked>>

Withdraw(s) == /\ published = s
               /\ httpd[s] \in {"doomed", "gone"}
               /\ published' = None
               /\ UNCHANGED <<httpd, acked>>

Acknowledge(s) == /\ httpd[s] = "gone"
                  /\ acked' = acked \cup {s}
                  /\ UNCHANGED <<httpd, published>>

Next == \E s \in Sessions : \/ Launch(s) \/ Doom(s) \/ End(s)
                            \/ Publish(s) \/ Withdraw(s) \/ Acknowledge(s)

Spec == Init /\ [][Next]_lbsVars
===========================================================================
