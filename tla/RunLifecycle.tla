---------------------------- MODULE RunLifecycle ----------------------------
(* What the restore queue promises about the rows of restore_runs, whatever    *)
(* the worker, the watchdog, the operator and a restart do to each other: a    *)
(* row is queued at most once, leaves the queue for good, and the scratch host *)
(* carries one running restore at a time.  A row that is deleted keeps the     *)
(* status "deleted" here because its BIGSERIAL id is never handed out again.   *)
CONSTANT Runs

VARIABLE status

Terminal == {"passed", "limited", "failed", "error", "cancelled"}
Statuses == {"none", "queued", "running", "held", "deleted"} \cup Terminal

\* Rows that left the queue by being started or refused.
Left == {"running", "held"} \cup Terminal

Init == status = [r \in Runs |-> "none"]

\* New rows enter the queue.
Enqueue(S) ==
    /\ S # {}
    /\ \A r \in S : status[r] = "none"
    /\ status' = [r \in Runs |-> IF r \in S THEN "queued" ELSE status[r]]

\* A queued row is removed, or refused without being started.
Withdraw(r, s) ==
    /\ status[r] = "queued"
    /\ s \in {"deleted", "error"}
    /\ status' = [status EXCEPT ![r] = s]

\* A queued row becomes the running one: only while no other row runs.
Begin(r) ==
    /\ status[r] = "queued"
    /\ \A q \in Runs : status[q] # "running"
    /\ status' = [status EXCEPT ![r] = "running"]

\* A row that left the queue gets a verdict or is parked; it may get more than
\* one, since worker, watchdog and operator all write it, but it never runs again.
Conclude(r, s) ==
    /\ status[r] \in Left
    /\ s \in {"held"} \cup Terminal
    /\ status' = [status EXCEPT ![r] = s]

Next ==
    \/ \E S \in SUBSET Runs : Enqueue(S)
    \/ \E r \in Runs : Begin(r) \/ \E s \in Statuses : Withdraw(r, s) \/ Conclude(r, s)

Spec == Init /\ [][Next]_status
=============================================================================
