------------------------------ MODULE TaskLife ------------------------------
(***************************************************************************)
(* What the backend may rely on: a task is taken by one worker, and every  *)
(* report on it carries the same conclusion.  A task that was taken may    *)
(* stay without a report for ever.  Worker implements this.                *)
(***************************************************************************)
CONSTANTS Tasks, Conclusions

VARIABLE task   \* "waiting", "taken" or the reported conclusion

Init == task = [t \in Tasks |-> "waiting"]

Take(t) == task[t] = "waiting" /\ task' = [task EXCEPT ![t] = "taken"]

Report(t, c) == task[t] = "taken" /\ task' = [task EXCEPT ![t] = c]

Next == \E t \in Tasks : Take(t) \/ \E c \in Conclusions : Report(t, c)

Spec == Init /\ [][Next]_task
=============================================================================
