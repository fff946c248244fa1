---------------------------- MODULE TaskLifecycle ----------------------------
(***************************************************************************)
(* What the dispatcher of AnalysisTask rows promises, without saying how:  *)
(* tasks are submitted, queued, started one at a time, and end as completed *)
(* or failed.  The statuses and their order are those of                   *)
(* package_analysis/models.py; the single slot is the "single-container    *)
(* execution guarantee" of tasks.run_dynamic_analysis.                     *)
(***************************************************************************)
CONSTANT Tasks

VARIABLE status

Init == status = [t \in Tasks |-> "absent"]

Submit(t) ==
    /\ status[t] = "absent"
    /\ status' = [status EXCEPT ![t] = "pending"]

Queue(t) ==
    /\ status[t] = "pending"
    /\ status' = [status EXCEPT ![t] = "queued"]

\* A queued task, or a failed one that is retried, takes the free slot.
Start(t) ==
    /\ status[t] \in {"queued", "failed"}
    /\ \A u \in Tasks : status[u] # "running"
    /\ status' = [status EXCEPT ![t] = "running"]

\* A task that was failed (timed out) while it ran may still complete.
Complete(t) ==
    /\ status[t] \in {"running", "failed"}
    /\ status' = [status EXCEPT ![t] = "completed"]

\* Some tasks fail; a completed one too, when an error follows its completion.
Fail(S) ==
    /\ \A t \in S : status[t] \in {"queued", "running", "completed", "failed"}
    /\ status' = [t \in Tasks |-> IF t \in S THEN "failed" ELSE status[t]]

\* Old tasks are deleted once they have ended.
Remove(S) ==
    /\ \A t \in S : status[t] \in {"completed", "failed"}
    /\ status' = [t \in Tasks |-> IF t \in S THEN "absent" ELSE status[t]]

Next ==
    \/ \E t \in Tasks : Submit(t) \/ Queue(t) \/ Start(t) \/ Complete(t)
    \/ \E S \in SUBSET Tasks : Fail(S) \/ Remove(S)

Spec == Init /\ [][Next]_status

=============================================================================
