---------------------------- MODULE FileTransfer ----------------------------
(***************************************************************************)
(* What one call of Manager.fetchRes does to the directory of its problem, *)
(* as its caller sees it: each missing file is created once at a time and  *)
(* completed or rolled back, a rollback may leave its file behind, an      *)
(* existing file is never touched, and the call succeeds only when every   *)
(* file exists and none is being written.  ResourceManager uses the same   *)
(* steps for every download; FetchRes is the implementation.               *)
(***************************************************************************)
CONSTANTS
    Keys,       \* the resource keys of the problem
    Leftovers   \* what earlier calls may have left: "full", "partial"

VARIABLES
    file,       \* file[k]: the file of resource k
    outcome     \* what the call returned

vars == <<file, outcome>>

\* "remnant": cut short in this call, and its rollback failed to remove it;
\* "partial": truncated before this call
FileStates == {"absent", "writing", "remnant", "partial", "full"}
Outcomes == {"running", "ok", "failed"}

Init ==
    /\ file \in [Keys -> {"absent"} \cup Leftovers]
    /\ outcome = "running"

Step(k, from, to) ==
    /\ outcome = "running"
    /\ file[k] = from
    /\ file' = [file EXCEPT ![k] = to]
    /\ UNCHANGED outcome

SaveBegin(k) == Step(k, "absent", "writing")
SaveEnd(k) == Step(k, "writing", "full")
SaveRollback(k) == Step(k, "writing", "absent") \/ Step(k, "writing", "remnant")

Ok ==
    /\ outcome = "running"
    /\ \A k \in Keys : file[k] \in {"full", "partial", "remnant"}
    /\ outcome' = "ok"
    /\ UNCHANGED file

Fail ==
    /\ outcome = "running"
    /\ \A k \in Keys : file[k] # "writing"
    /\ outcome' = "failed"
    /\ UNCHANGED file

Next ==
    \/ \E k \in Keys : SaveBegin(k) \/ SaveEnd(k) \/ SaveRollback(k)
    \/ Ok
    \/ Fail

(* However often transfers are repeated, the call returns. *)
Terminates == <>(outcome # "running")

SafeSpec == Init /\ [][Next]_vars

Spec == SafeSpec /\ Terminates
=============================================================================
