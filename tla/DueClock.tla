------------------------------- MODULE DueClock -------------------------------
(* When a VM's backup is tested again (db_restore.py, enqueue_due, drain and     *)
(* _finalize): the retry date, the last documented test and the live rows decide *)
(* what is due.  A conclusion writes the row and the date in two transactions,   *)
(* from the restore slot or from a request, and the list of due VMs is older     *)
(* than the rows made from it.  What happens on the host is in RestoreQueue.     *)
EXTENDS Naturals

CONSTANTS
    VMs,
    Runs,         \* ids of live rows; the id of a row that has ended is used again
    Slot,         \* the thread of restore_executor
    Operators,    \* threads that act on a held row
    Cadence,      \* days between two tests
    Retry,        \* restore_retry_days
    Null,         \* SQL NULL; no VM, no row
    MaxDay,       \* bound on the calendar
    MaxRestarts   \* bound on restarts

ASSUME DueAssumption ==
    /\ Cadence \in Nat /\ Retry \in Nat /\ MaxDay \in Nat /\ MaxRestarts \in Nat
    /\ Null \notin Nat /\ Null \notin VMs /\ Null \notin Runs
    /\ Slot \notin Operators

VARIABLES
    day,          \* NOW()
    enabled,      \* auto_restore_enabled
    nextRun,      \* next_run_at
    tested,       \* MAX(tested_at) of restore_tests
    passed,       \* VMs with a run whose result is passed
    row,          \* live rows of restore_runs
    last,         \* the run of a VM that ended last: its status and finished_at
    eager,        \* VMs whose policy was saved and whose eager enqueue comes next
    todo,         \* the due VMs enqueue_due has read
    work,         \* a thread's step, its row, VM and verdict
    crossed,      \* history: VMs with a conclusion that another one, a restart
                  \* or the listing of due VMs has interrupted
    restarts

clockVars == <<day, enabled, nextRun>>
rowVars   == <<row, last, passed, tested>>
vars == <<clockVars, rowVars, eager, todo, work, crossed, restarts>>

Threads == {Slot} \cup Operators
NoRow == [vm |-> Null, status |-> "none"]
Doing(step, r, v, verdict) == [step |-> step, run |-> r, vm |-> v, verdict |-> verdict]
Idle  == Doing("idle", Null, Null, "none")
CountsAsTest == {"passed", "limited"}

Init ==
    /\ day = 0 /\ enabled \in [VMs -> BOOLEAN] /\ passed = {}
    /\ nextRun = [v \in VMs |-> Null] /\ tested = [v \in VMs |-> Null]
    /\ row = [r \in Runs |-> NoRow]
    /\ last = [v \in VMs |-> [status |-> "none", day |-> 0]]
    /\ eager = {} /\ todo = {}
    /\ work = [t \in Threads |-> Idle]
    /\ crossed = {} /\ restarts = 0

LiveRows(v) == {r \in Runs : row[r].vm = v}

\* Mutant: the last test counts although a retry date is set.
DueEitherWay(v) ==
    /\ enabled[v] /\ LiveRows(v) = {}
    /\ \/ nextRun[v] # Null /\ nextRun[v] <= day
       \/ tested[v] = Null
       \/ tested[v] # Null /\ tested[v] + Cadence <= day

\* Mutant: a VM without a test compares as NULL and is not due.
DueOnceTested(v) ==
    /\ enabled[v] /\ LiveRows(v) = {}
    /\ \/ nextRun[v] # Null /\ nextRun[v] <= day
       \/ nextRun[v] = Null /\ tested[v] # Null /\ tested[v] + Cadence <= day

\* _DUE_CANDIDATE_SQL.
Due(v) ==
    /\ enabled[v] /\ LiveRows(v) = {}
    /\ \/ nextRun[v] # Null /\ nextRun[v] <= day
       \/ nextRun[v] = Null /\ tested[v] = Null
       \/ nextRun[v] = Null /\ tested[v] # Null /\ tested[v] + Cadence <= day

-----------------------------------------------------------------------------
(* Rows and dates.                                                             *)

At(t, step) == work[t].step = step
Goto(t, step) == work' = [work EXCEPT ![t] = Doing(step, Null, Null, "none")]

\* create_run, under an id nobody works on.
CreateRun(v) ==
    \E r \in Runs : /\ row[r] = NoRow /\ \A t \in Threads : work[t].run # r
                    /\ row' = [row EXCEPT ![r] = [vm |-> v, status |-> "queued"]]

\* record_run_result of a row that ends: only passed and limited document a test.
Conclude(r, v, status) ==
    /\ row' = [row EXCEPT ![r] = NoRow]
    /\ last' = [last EXCEPT ![v] = [status |-> status, day |-> day]]
    /\ tested' = IF status \in CountsAsTest THEN [tested EXCEPT ![v] = day] ELSE tested
    /\ passed' = IF status = "passed" THEN passed \cup {v} ELSE passed

Halfway(v) == \E t \in Threads : At(t, "clock") /\ work[t].vm = v

\* Thread t records its verdict; the date comes next.
Record(t, r, v, status) ==
    /\ Conclude(r, v, status)
    /\ work' = [work EXCEPT ![t] = Doing("clock", r, v, status)]
    /\ crossed' = IF Halfway(v) \/ row[r].status \notin {"running", "held"}
                    THEN crossed \cup {v} ELSE crossed
    /\ UNCHANGED <<clockVars, eager, todo, restarts>>

\* Mutant: a result that documents a test leaves the retry date alone.
RearmOnly(v, status) ==
    nextRun' = IF status = "failed" THEN [nextRun EXCEPT ![v] = day + Retry] ELSE nextRun

\* schedule_retry, or set_vm_next_run(None): the cadence governs again.
Rearm(v, status) ==
    nextRun' = [nextRun EXCEPT ![v] = IF status = "failed" THEN day + Retry ELSE Null]

SetDate(t) ==
    /\ At(t, "clock") /\ Rearm(work[t].vm, work[t].verdict)
    /\ Goto(t, IF t = Slot THEN "drain" ELSE "idle")
    /\ UNCHANGED <<day, enabled, rowVars, eager, todo, crossed, restarts>>

-----------------------------------------------------------------------------
(* The slot: enqueue_due, drain, execute.                                      *)

ListDue ==
    /\ At(Slot, "idle")
    /\ todo' = {v \in VMs : Due(v)}
    /\ Goto(Slot, "enqueue")
    /\ crossed' = crossed \cup {v \in todo' : Halfway(v)}
    /\ UNCHANGED <<clockVars, rowVars, eager, restarts>>

\* The VM is a container or has no backup the scratch host can see.
NotRestorable(v) ==
    /\ At(Slot, "enqueue") /\ v \in todo
    /\ todo' = todo \ {v}
    /\ UNCHANGED <<clockVars, rowVars, eager, work, crossed, restarts>>

Enqueue(v) ==
    /\ At(Slot, "enqueue") /\ v \in todo
    /\ todo' = todo \ {v} /\ CreateRun(v)
    /\ UNCHANGED <<clockVars, last, passed, tested, eager, work, crossed, restarts>>

\* run_restore_queue catches what a failing statement raises; the rest is not queued.
QueueFails ==
    /\ At(Slot, "enqueue") /\ todo' = {} /\ Goto(Slot, "idle")
    /\ UNCHANGED <<clockVars, rowVars, eager, crossed, restarts>>

DrainStarts ==
    /\ At(Slot, "enqueue") /\ todo = {} /\ Goto(Slot, "drain")
    /\ UNCHANGED <<clockVars, rowVars, eager, todo, crossed, restarts>>

\* Paused, a row is running, the queue is empty or nothing in it can start.
DrainEnds ==
    /\ At(Slot, "drain") /\ Goto(Slot, "idle")
    /\ UNCHANGED <<clockVars, rowVars, eager, todo, crossed, restarts>>

\* NotRunnable: the row ends as an error and nothing else happens.
Refuse(r) ==
    /\ At(Slot, "drain") /\ row[r].status = "queued"
    /\ Conclude(r, row[r].vm, "error")
    /\ UNCHANGED <<clockVars, eager, todo, work, crossed, restarts>>

Begin(r) ==
    /\ At(Slot, "drain") /\ row[r].status = "queued"
    /\ \A s \in Runs : row[s].status # "running"
    /\ row' = [row EXCEPT ![r].status = "running"]
    /\ work' = [work EXCEPT ![Slot] = Doing("test", r, row[r].vm, "none")]
    /\ UNCHANGED <<clockVars, last, passed, tested, eager, todo, crossed, restarts>>

\* _finalize; failed stands for failed and error, which it treats alike.
Verdict ==
    /\ At(Slot, "test")
    /\ \E status \in CountsAsTest \cup {"failed", "cancelled"} :
         Record(Slot, work[Slot].run, work[Slot].vm, status)

\* _finalize of a failed run with hold_on_failure: the date stays.
Hold ==
    /\ At(Slot, "test")
    /\ row' = [row EXCEPT ![work[Slot].run] = [vm |-> work[Slot].vm, status |-> "held"]]
    /\ Goto(Slot, "drain")
    /\ UNCHANGED <<clockVars, last, passed, tested, eager, todo, crossed, restarts>>

\* resume_run after a restart, which ends in _finalize.
Resume(r) ==
    /\ At(Slot, "idle") /\ row[r].status = "running"
    /\ work' = [work EXCEPT ![Slot] = Doing("test", r, row[r].vm, "none")]
    /\ UNCHANGED <<clockVars, rowVars, eager, todo, crossed, restarts>>

\* The resume cannot tell how the restore stands and leaves the row running.
LeaveRunning ==
    /\ At(Slot, "test") /\ row[work[Slot].run].status = "running" /\ Goto(Slot, "idle")
    /\ UNCHANGED <<clockVars, rowVars, eager, todo, crossed, restarts>>

-----------------------------------------------------------------------------
(* Other threads.                                                              *)

\* recover_stuck_runs, in the slot or on a sync worker.
Recover(r) ==
    /\ row[r].status = "running" /\ Conclude(r, row[r].vm, "error")
    /\ UNCHANGED <<clockVars, eager, todo, work, crossed, restarts>>

\* manual_test does not look at what is queued.
ManualTest(v) ==
    /\ CreateRun(v)
    /\ UNCHANGED <<clockVars, last, passed, tested, eager, todo, work, crossed, restarts>>

DeleteRun(r) ==
    /\ row[r].status = "queued" /\ row' = [row EXCEPT ![r] = NoRow]
    /\ UNCHANGED <<clockVars, last, passed, tested, eager, todo, work, crossed, restarts>>

SavePolicy(v) ==
    \E on \in BOOLEAN :
      /\ enabled' = [enabled EXCEPT ![v] = on]
      /\ eager' = IF on THEN eager \cup {v} ELSE eager
      /\ UNCHANGED <<day, nextRun, rowVars, todo, work, crossed, restarts>>

\* enqueue_if_never_passed, one statement.
EnqueueIfNeverPassed(v) ==
    /\ v \in eager /\ eager' = eager \ {v}
    /\ IF LiveRows(v) = {} /\ v \notin passed THEN CreateRun(v) ELSE row' = row
    /\ UNCHANGED <<clockVars, last, passed, tested, todo, work, crossed, restarts>>

\* _held_action has seen the row held and acts on it.
LookAtHeld(o, r) ==
    /\ At(o, "idle") /\ row[r].status = "held"
    /\ work' = [work EXCEPT ![o] = Doing("held", r, row[r].vm, "none")]
    /\ UNCHANGED <<clockVars, rowVars, eager, todo, crossed, restarts>>

\* promote_held (also after a green re-test) or reap_held.
HeldAction(o) ==
    /\ At(o, "held")
    /\ \E status \in {"passed", "failed"} : Record(o, work[o].run, work[o].vm, status)

\* The re-test is not green, or the action fails.
LeaveHeld(o) ==
    /\ At(o, "held") /\ Goto(o, "idle")
    /\ UNCHANGED <<clockVars, rowVars, eager, todo, crossed, restarts>>

NextDay ==
    /\ day < MaxDay /\ day' = day + 1
    /\ UNCHANGED <<enabled, nextRun, rowVars, eager, todo, work, crossed, restarts>>

Restart ==
    /\ restarts < MaxRestarts /\ restarts' = restarts + 1
    /\ work' = [t \in Threads |-> Idle] /\ todo' = {} /\ eager' = {}
    /\ crossed' = crossed \cup {v \in VMs : Halfway(v)}
    /\ UNCHANGED <<clockVars, rowVars>>

-----------------------------------------------------------------------------
SlotStep ==
    \/ ListDue \/ QueueFails \/ DrainStarts \/ DrainEnds
    \/ Verdict \/ Hold \/ LeaveRunning \/ SetDate(Slot)
    \/ \E v \in VMs : NotRestorable(v) \/ Enqueue(v)
    \/ \E r \in Runs : Refuse(r) \/ Begin(r) \/ Resume(r)

Requests ==
    \/ \E v \in VMs : ManualTest(v) \/ SavePolicy(v) \/ EnqueueIfNeverPassed(v)
    \/ \E r \in Runs : DeleteRun(r)
    \/ \E o \in Operators : HeldAction(o) \/ LeaveHeld(o) \/ SetDate(o) \/ \E r \in Runs : LookAtHeld(o, r)

Next == SlotStep \/ Requests \/ NextDay \/ Restart \/ \E r \in Runs : Recover(r)

Spec == Init /\ [][Next]_vars

\* The slot's thread goes on, the hourly loop kicks it for ever, and the backup of
\* a VM that can be restored at all is seen in some pass.
Fairness == WF_vars(SlotStep) /\ \A v \in VMs : SF_vars(Enqueue(v))

FairSpec == Spec /\ Fairness

-----------------------------------------------------------------------------
(* Properties.                                                                 *)

Days == 0 .. (MaxDay + Retry)

\* Every column, date and thread of the clock has its type.
TypeOK ==
    /\ day \in 0 .. MaxDay /\ enabled \in [VMs -> BOOLEAN] /\ passed \subseteq VMs
    /\ nextRun \in [VMs -> Days \cup {Null}] /\ tested \in [VMs -> Days \cup {Null}]
    /\ row \in [Runs -> [vm : VMs \cup {Null}, status : {"none", "queued", "running", "held"}]]
    /\ last \in [VMs -> [status : {"none", "passed", "limited", "failed", "cancelled", "error"}, day : Days]]
    /\ eager \subseteq VMs /\ todo \subseteq VMs /\ crossed \subseteq VMs
    /\ work \in [Threads -> [step : {"idle", "enqueue", "drain", "test", "clock", "held"},
                             run : Runs \cup {Null}, vm : VMs \cup {Null},
                             verdict : {"none", "passed", "limited", "failed", "cancelled"}]]
    /\ restarts \in 0 .. MaxRestarts

\* The clock queues VM v in this step.
ClockQueues(v) == v \in todo /\ v \notin todo' /\ row' # row

Waited(v, days) == last[v].day + days <= day

\* A VM whose last run documents a test is left alone for its cadence, unless a
\* conclusion of it was interrupted (_finalize, promote_held, _DUE_CANDIDATE_SQL).
CadenceKept ==
    [][\A v \in VMs \ crossed :
         ClockQueues(v) /\ last[v].status \in CountsAsTest => Waited(v, Cadence)]_vars

\* A VM whose last run was carried out and failed is left alone for the retry
\* days (_finalize, reap_held, schedule_retry).
FailedBacksOff ==
    [][\A v \in VMs \ crossed :
         ClockQueues(v) /\ last[v].status = "failed" => Waited(v, Retry)]_vars

\* The design's "a failed/error run re-enqueues after restore_retry_days", of every
\* run.  A refused or recovered run arms no date, so it fails.
RetryHonoured ==
    [][\A v \in VMs \ crossed :
         ClockQueues(v) /\ last[v].status \in {"failed", "error"} => Waited(v, Retry)]_vars

\* What should be tested: on, no live row, no retry date ahead, no recent test.
Overdue(v) ==
    /\ enabled[v] /\ LiveRows(v) = {}
    /\ nextRun[v] = Null \/ nextRun[v] <= day
    /\ tested[v] = Null \/ tested[v] + Cadence <= day

\* No VM starves (enqueue_due).
OverdueIsQueued == \A v \in VMs : Overdue(v) ~> ~Overdue(v)
=============================================================================
