---------------------------- MODULE ProblemCache ----------------------------
(***************************************************************************)
(* What PrepareThenLock, its unlock closure and evictAll promise to the    *)
(* workers (src/resource/manager.go): a problem can be used as soon as it  *)
(* is published, with all of its files; it is downloaded by one call at a  *)
(* time, and only when it cannot be used; and it stays for as long as a    *)
(* worker holds it.  ResourceManager implements this.                      *)
(***************************************************************************)
CONSTANTS
    Workers,
    Problems,
    NoProblem

VARIABLES
    usable,     \* cached problems, whose files are complete
    download,   \* the problem that is being downloaded, or NoProblem
    held        \* held[w]: the problem that w has locked, or NoProblem

vars == <<usable, download, held>>

Init ==
    /\ usable = {}
    /\ download = NoProblem
    /\ held = [w \in Workers |-> NoProblem]

Take(w, p) ==
    /\ held[w] = NoProblem
    /\ held' = [held EXCEPT ![w] = p]

Lock(w, p) ==
    /\ download = NoProblem
    /\ p \in usable
    /\ Take(w, p)
    /\ UNCHANGED <<usable, download>>

StartDownload(p) ==
    /\ download = NoProblem
    /\ p \in Problems \ usable
    /\ download' = p
    /\ UNCHANGED <<usable, held>>

GiveUp ==
    /\ download # NoProblem
    /\ download' = NoProblem
    /\ UNCHANGED <<usable, held>>

Publish(w) ==
    /\ download # NoProblem
    /\ usable' = usable \cup {download}
    /\ download' = NoProblem
    /\ Take(w, download)

Unlock(w) ==
    /\ download = NoProblem
    /\ held' = [held EXCEPT ![w] = NoProblem]
    /\ UNCHANGED <<usable, download>>

Evict(p) ==
    /\ download = NoProblem
    /\ \A w \in Workers : held[w] # p
    /\ usable' = usable \ {p}
    /\ UNCHANGED <<download, held>>

(* The process dies and starts again. *)
Restart ==
    /\ usable' = {}
    /\ download' = NoProblem
    /\ held' = [w \in Workers |-> NoProblem]

Next ==
    \/ \E p \in Problems : StartDownload(p) \/ Evict(p)
    \/ GiveUp
    \/ \E w \in Workers :
        Publish(w) \/ Unlock(w) \/ \E p \in Problems : Lock(w, p)
    \/ Restart

Spec == Init /\ [][Next]_vars
=============================================================================
