---------------------------- MODULE RestoreQueue ----------------------------
(* The restore-test queue of backup-sentinel: rows of restore_runs, the single *)
(* worker slot that drains them (restore_executor), the self-heal threads of   *)
(* the sync loops, the operator's HTTP handlers, and the scratch PVE host they *)
(* all act on through API calls of their own.                                  *)
(*                                                                             *)
(* Each thread is a program counter.  A step is one database statement, one    *)
(* host call, or a run of such calls between which no other thread can change  *)
(* what the step reads or writes.  A row's columns are shared; the plan a      *)
(* thread read from them, and the owned-VMID snapshot a reap works from, are   *)
(* the thread's own and can be stale.                                          *)
(*                                                                             *)
(* A restart kills every thread; the database and the host (its guests and a   *)
(* detached qmrestore) survive it.  A call of a run's or a re-test's pipeline  *)
(* can be refused or fail at any time; an outage seen where the code handles it *)
(* otherwise (recovery, teardown, reaping, resume) spends one of MaxFaults.    *)
EXTENDS RestoreAlloc

CONSTANTS
    Runs,          \* row ids of restore_runs the run of the system may create
    NoRun,         \* no row
    Hold,          \* rows whose VM has hold_on_failure set
    Distributed,   \* rows planned disk by disk (disk_targets set)
    Healers,       \* self-heal threads: a subset of {"watchdog", "autosync"}
    Operators,     \* HTTP threads that act on held rows
    MaxJobs,       \* bound on run_restore_queue submissions waiting for the slot
    MaxFaults,     \* bound on host outages seen
    MaxRestarts    \* bound on restarts of the app

ASSUME QueueAssumption ==
    /\ NoRun \notin Runs
    /\ Hold \subseteq Runs /\ Distributed \subseteq Runs
    /\ Healers \subseteq {"watchdog", "autosync"}
    /\ "slot" \notin Operators /\ Operators \cap {"watchdog", "autosync"} = {}
    /\ MaxJobs \in Nat \ {0} /\ MaxFaults \in Nat /\ MaxRestarts \in Nat

VARIABLES
    \* --- table restore_runs and the settings row queue_paused ---------------
    status,        \* status column of each row
    env,           \* its resource columns
    cancel,        \* rows with cancel_requested
    aged,          \* running rows whose started_at is STUCK_RUN_GRACE_SECONDS ago
    evidence,      \* rows for which a restore_tests row was written
    paused,        \* restore_server.queue_paused
    \* --- scratch host -------------------------------------------------------
    vms,           \* VMIDs of its qemu guests
    lxcs,          \* VMIDs of its containers (helpers)
    copying,       \* qemu guests a detached restore task still copies and locks
    \* --- threads ------------------------------------------------------------
    pc,            \* where each thread is
    job,           \* what it is doing there
    run,           \* the row it works on
    plan,          \* the resources it believes that row has
    seen,          \* owned_vmids() as its reaper last read it
    pending,       \* rows of the drain's list_queued_runs not looked at yet
    verdict,       \* result the slot is about to record
    jobs,          \* run_restore_queue submissions waiting for the slot
    \* --- bounds -------------------------------------------------------------
    faults, restarts

rowVars    == <<status, env, cancel, aged, evidence>>
hostVars   == <<vms, lxcs, copying>>
localVars  == <<pc, job, run, plan, seen, pending, verdict>>
boundVars  == <<faults, restarts>>
vars       == <<rowVars, paused, hostVars, localVars, jobs, boundVars>>

Threads == {"slot"} \cup Healers \cup Operators

Absent   == {"none", "deleted"}          \* no such row in the table
Live     == {"running", "held"}          \* rows that own an environment
Terminal == {"passed", "limited", "failed", "error", "cancelled"}
Statuses == Absent \cup {"queued"} \cup Live \cup Terminal

\* Where the slot may be while it carries out a run.
Executing == {"clean", "sweep", "helper", "restore", "copy", "attach", "recopy",
              "unlock", "tail", "probe", "discard", "park", "unhold",
              "teardown", "owned", "reap", "record"}

Labels == Executing \cup
          {"idle", "present", "enqueue", "top", "pick", "planned",
           "orphans", "kick", "realloc", "assign", "rehelper", "reprobe", "drop"}

Jobs == {"recover", "execute", "resume", "promote", "reap", "retest"}

-----------------------------------------------------------------------------
(* Reading and writing rows.                                                   *)

\* Mutant: an UPSERT, which brings a deleted row back.
SetStatusUpsert(r, s) == [status EXCEPT ![r] = s]

\* record_run_result / update_run: an UPDATE ... WHERE id = r without a guard on
\* the status the row has; it finds nothing when the row is gone.
SetStatus(r, s) == IF status[r] \in Absent THEN status ELSE [status EXCEPT ![r] = s]

HasActive == \E r \in Runs : status[r] = "running"
HasQueued == \E r \in Runs : status[r] = "queued"

\* Mutant: the live rows are the running ones, held rows forgotten.
OwnedRunning == {env[r] : r \in {q \in Runs : status[q] = "running"}}

\* active_and_held_runs
Owned == {env[r] : r \in {q \in Runs : status[q] \in Live}}

\* Mutant: the reaper's snapshot leaves out the environments of held rows.
OwnedVmidsRunning == InUseVmids({env[r] : r \in {q \in Runs : status[q] = "running"}})

\* owned_vmids
OwnedVmids == InUseVmids(Owned)

Guests == vms \cup lxcs

\* _kick_restore_queue: submit unless the last submission is unfinished and a
\* row is running.  The bound merges submissions that wait behind each other.
Kicked(active) == IF (pc["slot"] # "idle" \/ jobs > 0) /\ active
                    THEN jobs
                    ELSE IF jobs < MaxJobs THEN jobs + 1 ELSE jobs

-----------------------------------------------------------------------------
(* Threads.                                                                    *)

Goto(t, label) == pc' = [pc EXCEPT ![t] = label]

\* Thread t returns: its local variables are gone.
Return(t, label) ==
    /\ Goto(t, label)
    /\ run' = [run EXCEPT ![t] = NoRun]
    /\ plan' = [plan EXCEPT ![t] = NoEnv]
    /\ seen' = [seen EXCEPT ![t] = {}]
    /\ job' = [job EXCEPT ![t] = "recover"]

\* A host call of the step failed.
Fault == faults < MaxFaults /\ faults' = faults + 1

NoFault == faults' = faults

\* The pipeline of the slot ended with a result: _finalize parks the environment
\* of a failed run when its VM asks for that, and tears it down otherwise.
Conclude(result) ==
    /\ verdict' = result
    /\ Goto("slot", IF result \in {"failed", "error"} /\ run["slot"] \in Hold
                      THEN "discard" ELSE "teardown")

Cancelled == run["slot"] \in cancel /\ status[run["slot"]] \notin Absent

Init ==
    /\ status = [r \in Runs |-> "none"]
    /\ env = [r \in Runs |-> NoEnv]
    /\ cancel = {} /\ aged = {} /\ evidence = {} /\ paused = FALSE
    /\ vms = {} /\ lxcs = {} /\ copying = {}
    /\ pc = [t \in Threads |-> "idle"]
    /\ job = [t \in Threads |-> "recover"]
    /\ run = [t \in Threads |-> NoRun]
    /\ plan = [t \in Threads |-> NoEnv]
    /\ seen = [t \in Threads |-> {}]
    /\ pending = {} /\ verdict = "error" /\ jobs = 0
    /\ faults = 0 /\ restarts = 0

-----------------------------------------------------------------------------
(* HTTP handlers that touch the queue, each one database statement (manual_test *)
(* kicks the slot right after its INSERT; nothing it reads can change between). *)

\* manual_test, and switching auto-restore on for a VM that never passed.
Request(r) ==
    /\ status[r] = "none"
    /\ status' = [status EXCEPT ![r] = "queued"]
    /\ jobs' = Kicked(HasActive)
    /\ UNCHANGED <<env, cancel, aged, evidence, paused, hostVars, localVars, boundVars>>

\* delete_run: only a row that is still queued.
DeleteRun(r) ==
    /\ status[r] = "queued"
    /\ status' = [status EXCEPT ![r] = "deleted"]
    /\ UNCHANGED <<env, cancel, aged, evidence, paused, hostVars, localVars, jobs, boundVars>>

\* request_cancel: only a row that is running.
RequestCancel(r) ==
    /\ status[r] = "running" /\ r \notin cancel
    /\ cancel' = cancel \cup {r}
    /\ UNCHANGED <<status, env, aged, evidence, paused, hostVars, localVars, jobs, boundVars>>

\* set_queue_paused
SetPaused ==
    /\ paused' = ~paused
    /\ UNCHANGED <<rowVars, hostVars, localVars, jobs, boundVars>>

-----------------------------------------------------------------------------
(* recover_stuck_runs, by the slot before it drains and by the self-heal       *)
(* threads at any time.  At most one row is running, so its loop is over one.   *)

AfterRecover(t) == CASE t = "slot" -> "enqueue"
                     [] t = "watchdog" -> "orphans"
                     [] OTHER -> "kick"

\* A tick of restore_queue_loop or auto_sync_loop, or the slot taking up the next
\* submitted run_restore_queue.
Wakes(t) ==
    /\ pc[t] = "idle"
    /\ IF t = "slot" THEN jobs > 0 /\ jobs' = jobs - 1 ELSE UNCHANGED jobs

\* list_runs(status="running"): the row as it is now, for a decision made later.
ScanNone(t) ==
    /\ Wakes(t) /\ ~HasActive
    /\ Goto(t, AfterRecover(t))
    /\ UNCHANGED <<rowVars, paused, hostVars, job, run, plan, seen, pending, verdict, boundVars>>

ScanRunning(t) ==
    /\ Wakes(t)
    /\ \E r \in Runs :
         /\ status[r] = "running"
         /\ run' = [run EXCEPT ![t] = r]
         /\ plan' = [plan EXCEPT ![t] = env[r]]
    /\ Goto(t, "present")
    /\ UNCHANGED <<rowVars, paused, hostVars, job, seen, pending, verdict, boundVars>>

\* Mutant: a helper left behind counts as a sign of life.
AliveWithHelper(t) == {plan[t].restore_vmid, plan[t].helper_vmid} \cap Guests # {}

\* What recover_stuck_runs takes for a sign of life: the restore VM (present_vmids).
\* The row's task_upid, its other sign, is never stored.
Alive(t) == plan[t].restore_vmid \in Guests

\* The run is left alone: the host is down, the row is fresh, or its VM is there.
LeaveRunning(t) ==
    /\ pc[t] = "present"
    /\ \/ Fault
       \/ NoFault /\ (run[t] \notin aged \/ Alive(t))
    /\ Return(t, AfterRecover(t))
    /\ UNCHANGED <<rowVars, paused, hostVars, pending, verdict, jobs, restarts>>

\* Nothing of the run is on the host: flag it cancelled and tear it down.
DeclareStuck(t) ==
    /\ pc[t] = "present"
    /\ run[t] \in aged /\ ~Alive(t)
    /\ cancel' = IF status[run[t]] = "running" THEN cancel \cup {run[t]} ELSE cancel
    /\ Goto(t, "teardown")
    /\ UNCHANGED <<status, env, aged, evidence, paused, hostVars, job, run, plan, seen,
                   pending, verdict, jobs, boundVars>>

\* A running row passes the grace period.
GraceOver(r) ==
    /\ status[r] = "running" /\ r \notin aged
    /\ aged' = aged \cup {r}
    /\ UNCHANGED <<status, env, cancel, evidence, paused, hostVars, localVars, jobs, boundVars>>

-----------------------------------------------------------------------------
(* _teardown, the same function for the worker, the self-heal and the operator. *)

\* server.reap(owned) lists the host and destroys every guest that is not in
\* owned; a failing call leaves the rest standing.
ReapGuests(owned) ==
    /\ \/ NoFault /\ vms' = vms \cap owned /\ lxcs' = lxcs \cap owned
       \/ Fault /\ \E gone \in SUBSET (Guests \ owned) : vms' = vms \ gone /\ lxcs' = lxcs \ gone
    /\ copying' = copying \cap vms'

\* Destroy the VM and the helper if they exist; a failing call loses either.
Teardown(t) ==
    /\ pc[t] = "teardown"
    /\ \/ NoFault /\ vms' = vms \ {plan[t].restore_vmid} /\ lxcs' = lxcs \ {plan[t].helper_vmid}
       \/ Fault /\ vms' \in {vms, vms \ {plan[t].restore_vmid}}
                /\ lxcs' \in {lxcs, lxcs \ {plan[t].helper_vmid}}
    /\ copying' = copying \cap vms'
    /\ Goto(t, "owned")
    /\ UNCHANGED <<rowVars, paused, job, run, plan, seen, pending, verdict, jobs, restarts>>

\* The argument of server.reap(owned_vmids()) is evaluated first ...
Snapshot(t) ==
    /\ pc[t] \in {"clean", "owned"}
    /\ seen' = [seen EXCEPT ![t] = OwnedVmids]
    /\ Goto(t, IF pc[t] = "clean" THEN "sweep" ELSE "reap")
    /\ UNCHANGED <<rowVars, paused, hostVars, job, run, plan, pending, verdict, jobs, boundVars>>

\* ... and reap works from it, however old it is by then.
Reap(t) ==
    /\ pc[t] = "reap"
    /\ ReapGuests(seen[t])
    /\ Goto(t, "record")
    /\ UNCHANGED <<rowVars, paused, job, run, plan, seen, pending, verdict, jobs, restarts>>

-----------------------------------------------------------------------------
(* _reap_orphans and the end of the watchdog's tick.                           *)

\* Mutant: the test of has_active_run inverted.
OrphansInverted ==
    /\ pc["watchdog"] = "orphans"
    /\ Goto("watchdog", IF HasActive THEN "clean" ELSE "kick")
    /\ UNCHANGED <<rowVars, paused, hostVars, job, run, plan, seen, pending, verdict, jobs, boundVars>>

\* has_active_run decides alone whether the sweep is on.
Orphans ==
    /\ pc["watchdog"] = "orphans"
    /\ Goto("watchdog", IF HasActive THEN "kick" ELSE "clean")
    /\ UNCHANGED <<rowVars, paused, hostVars, job, run, plan, seen, pending, verdict, jobs, boundVars>>

\* The orphan sweep of the watchdog, with verify_host_identity before it.
SweepOrphans ==
    /\ pc["watchdog"] = "sweep"
    /\ ReapGuests(seen["watchdog"])
    /\ Return("watchdog", "kick")
    /\ UNCHANGED <<rowVars, paused, pending, verdict, jobs, restarts>>

\* Mutant: _should_drain_now waits for an active run instead of none.
KickBusy(t) ==
    /\ pc[t] = "kick"
    /\ jobs' = IF t = "autosync" \/ (HasQueued /\ HasActive /\ ~paused) THEN Kicked(HasActive) ELSE jobs
    /\ Goto(t, "idle")
    /\ UNCHANGED <<rowVars, paused, hostVars, job, run, plan, seen, pending, verdict, boundVars>>

\* The watchdog kicks only when work waits; auto_sync_loop always does.
Kick(t) ==
    /\ pc[t] = "kick"
    /\ jobs' = IF t = "autosync" \/ (HasQueued /\ ~HasActive /\ ~paused) THEN Kicked(HasActive) ELSE jobs
    /\ Goto(t, "idle")
    /\ UNCHANGED <<rowVars, paused, hostVars, job, run, plan, seen, pending, verdict, boundVars>>

-----------------------------------------------------------------------------
(* run_restore_queue after the recovery: enqueue_due, then drain.              *)

\* enqueue_due: rows for the due VMs, one INSERT each.
EnqueueDue ==
    /\ pc["slot"] = "enqueue"
    /\ \E S \in SUBSET {r \in Runs : status[r] = "none"} :
         status' = [r \in Runs |-> IF r \in S THEN "queued" ELSE status[r]]
    /\ Goto("slot", "top")
    /\ UNCHANGED <<env, cancel, aged, evidence, paused, hostVars, job, run, plan, seen,
                   pending, verdict, jobs, boundVars>>

\* The host does not answer enqueue_due or build_plan: run_restore_queue gives up.
QueueFails ==
    /\ pc["slot"] \in {"enqueue", "pick"}
    /\ Fault
    /\ pending' = {}
    /\ Goto("slot", "idle")
    /\ UNCHANGED <<rowVars, paused, hostVars, job, run, plan, seen, verdict, jobs, restarts>>

\* Top of drain's loop: it ends when the queue is paused, busy or empty.
DrainStop ==
    /\ pc["slot"] = "top"
    /\ paused \/ HasActive \/ ~HasQueued
    /\ Goto("slot", "idle")
    /\ UNCHANGED <<rowVars, paused, hostVars, job, run, plan, seen, pending, verdict, jobs, boundVars>>

\* Otherwise it lists the queue, once for this pass.
DrainList ==
    /\ pc["slot"] = "top"
    /\ ~paused /\ ~HasActive /\ HasQueued
    /\ pending' = {r \in Runs : status[r] = "queued"}
    /\ Goto("slot", "pick")
    /\ UNCHANGED <<rowVars, paused, hostVars, job, run, plan, seen, verdict, jobs, boundVars>>

\* The VM is gone or build_plan raises NotRunnable: the row becomes an error.
Refuse(r) ==
    /\ pc["slot"] = "pick" /\ r \in pending
    /\ status' = SetStatus(r, "error")
    /\ pending' = pending \ {r}
    /\ UNCHANGED <<env, cancel, aged, evidence, paused, hostVars, pc, job, run, plan, seen,
                   verdict, jobs, boundVars>>

\* The run does not fit disk or RAM, or its storage is being benchmarked.
Skip(r) ==
    /\ pc["slot"] = "pick" /\ r \in pending /\ ~Exhausted(Owned)
    /\ pending' = pending \ {r}
    /\ UNCHANGED <<rowVars, paused, hostVars, pc, job, run, plan, seen, verdict, jobs, boundVars>>

\* Nothing was executed: no management address (or VMID, VLAN) is free, or every
\* row of the list was refused or skipped.
DrainWait ==
    /\ pc["slot"] = "pick"
    /\ pending = {} \/ Exhausted(Owned)
    /\ pending' = {}
    /\ Goto("slot", "idle")
    /\ UNCHANGED <<rowVars, paused, hostVars, job, run, plan, seen, verdict, jobs, boundVars>>

\* build_plan allocates from the live rows; the host is queried after that, so
\* the row names the resources only some calls later.
Choose(r) ==
    /\ pc["slot"] = "pick" /\ r \in pending /\ ~Exhausted(Owned)
    /\ plan' = [plan EXCEPT !["slot"] = Allocation(Owned)]
    /\ run' = [run EXCEPT !["slot"] = r]
    /\ pending' = {}
    /\ Goto("slot", "planned")
    /\ UNCHANGED <<rowVars, paused, hostVars, job, seen, verdict, jobs, boundVars>>

\* execute: the row is running and owns its environment from here on.
Start ==
    /\ pc["slot"] = "planned"
    /\ LET r == run["slot"]
       IN  /\ status' = SetStatus(r, "running")
           /\ env' = IF status[r] \in Absent THEN env ELSE [env EXCEPT ![r] = plan["slot"]]
    /\ job' = [job EXCEPT !["slot"] = "execute"]
    /\ Goto("slot", "clean")
    /\ UNCHANGED <<cancel, aged, evidence, paused, hostVars, run, plan, seen, pending,
                   verdict, jobs, boundVars>>

-----------------------------------------------------------------------------
(* execute's pipeline.  A checkpoint (should_cancel) precedes every long step.  *)
(* Any host call may be refused or fail and end the run as an error.           *)

pipelineSame == <<rowVars, paused, job, run, plan, seen, pending, jobs, restarts>>

\* server.reap(owned_vmids()) of execute.
SweepBefore ==
    /\ pc["slot"] = "sweep"
    /\ ReapGuests(seen["slot"])
    /\ \/ NoFault /\ Goto("slot", "helper") /\ UNCHANGED verdict
       \/ Fault /\ Conclude("error")
    /\ UNCHANGED pipelineSame

\* preflight_check, then provision_helper: PVE refuses a VMID that exists, and a
\* helper whose agent never answers is left on the host.
Provision ==
    /\ pc["slot"] = "helper" /\ ~Cancelled
    /\ plan["slot"].helper_vmid \notin Guests
    /\ lxcs' = lxcs \cup {plan["slot"].helper_vmid}
    /\ \/ Goto("slot", "restore") /\ UNCHANGED verdict
       \/ Conclude("error")
    /\ NoFault
    /\ UNCHANGED <<vms, copying>> /\ UNCHANGED pipelineSame

\* _start_restore_task: a detached task creates the VM, locked, and copies into
\* it.  A task the host runs but the worker never sees running (it ended at once, or
\* the look failed) ends the run.
StartRestore ==
    /\ pc["slot"] = "restore" /\ ~Cancelled /\ run["slot"] \notin Distributed
    /\ LET v == plan["slot"].restore_vmid
       IN  /\ v \notin Guests /\ vms' = vms \cup {v}
           /\ \/ copying' = copying \cup {v} /\ Goto("slot", "copy") /\ UNCHANGED verdict
              \/ copying' \in {copying, copying \cup {v}} /\ Conclude("error")
    /\ NoFault
    /\ UNCHANGED lxcs /\ UNCHANGED pipelineSame

\* _restore_distributed has no such task, and no VM until it writes the config.
StartDistributed ==
    /\ pc["slot"] = "restore" /\ ~Cancelled /\ run["slot"] \in Distributed
    /\ NoFault /\ Goto("slot", "copy")
    /\ UNCHANGED <<hostVars, verdict>> /\ UNCHANGED pipelineSame

\* _poll_task saw the task end; rewrite_nics, wait_unlocked and start follow.
Restored ==
    /\ pc["slot"] = "copy" /\ ~Cancelled
    /\ LET v == plan["slot"].restore_vmid
       IN  IF run["slot"] \in Distributed
             THEN v \notin lxcs /\ vms' = vms \cup {v}
             ELSE v \in vms \ copying /\ UNCHANGED vms
    /\ NoFault /\ Goto("slot", "probe")
    /\ UNCHANGED <<lxcs, copying, verdict>> /\ UNCHANGED pipelineSame

\* A pass of the probe loop ends the run: green needs both guests; the window can
\* close on a guest that answers partly or not at all.
Probed(result) ==
    /\ pc["slot"] = "probe" /\ ~Cancelled
    /\ result \in {"passed", "limited", "failed"}
    /\ result = "passed" => plan["slot"].restore_vmid \in vms /\ plan["slot"].helper_vmid \in lxcs
    /\ Conclude(result)
    /\ NoFault
    /\ UNCHANGED hostVars /\ UNCHANGED pipelineSame

\* RestoreCancelled at a checkpoint or in a polling loop; a restore task that is
\* running is stopped, if the host answers, before it is raised.
Abort ==
    /\ pc["slot"] \in {"helper", "restore", "copy", "probe", "recopy"} /\ Cancelled
    /\ IF pc["slot"] \in {"copy", "recopy"}
         THEN \/ NoFault /\ copying' = copying \ {plan["slot"].restore_vmid}
              \/ Fault /\ UNCHANGED copying
         ELSE NoFault /\ UNCHANGED copying
    /\ Conclude("cancelled")
    /\ UNCHANGED <<vms, lxcs>> /\ UNCHANGED pipelineSame

\* Some call of the pipeline raised: a wrong key, a VMID that exists already, a VM
\* that is gone when its task ends or is to be started, an outage.
Break ==
    /\ pc["slot"] \in {"clean", "helper", "restore", "copy", "probe"}
    /\ Conclude("error")
    /\ NoFault
    /\ UNCHANGED hostVars /\ UNCHANGED pipelineSame

-----------------------------------------------------------------------------
(* resume_run, submitted to the slot at startup for the row left running.      *)

\* The run stays running and nothing is torn down; the slot is free.
leave == Return("slot", "idle") /\ UNCHANGED <<hostVars, verdict>>

resumeSame == <<rowVars, paused, pending, jobs, restarts>>
localSame  == <<job, run, plan, seen>>

\* task_upid is never stored, so the task is looked up on the host by its VMID.
Reattach ==
    /\ pc["slot"] = "attach"
    /\ \/ NoFault /\ Goto("slot", IF plan["slot"].restore_vmid \in copying THEN "recopy" ELSE "unlock")
       \/ Fault /\ Goto("slot", "unlock")
    /\ UNCHANGED <<hostVars, verdict, localSame>> /\ UNCHANGED resumeSame

\* poll_task returns when the task ended; it raises when the task failed (its VM
\* is gone) or could not be reached for too long.  In the latter case a second
\* look decides: still locked leaves the run running, unreachable ends it.
PollEnd ==
    /\ pc["slot"] = "recopy" /\ ~Cancelled
    /\ LET v == plan["slot"].restore_vmid
       IN  \/ /\ NoFault /\ v \in vms \ copying
              /\ Goto("slot", "unlock") /\ UNCHANGED <<verdict, localSame>>
           \/ NoFault /\ v \notin vms /\ Conclude("error") /\ UNCHANGED localSame
           \/ Fault /\ Conclude("error") /\ UNCHANGED localSame
    /\ UNCHANGED hostVars /\ UNCHANGED resumeSame

PollLost ==
    /\ pc["slot"] = "recopy" /\ ~Cancelled
    /\ plan["slot"].restore_vmid \in copying
    /\ Fault /\ leave
    /\ UNCHANGED resumeSame

\* wait_unlocked: free of its lock the guest's tail goes on; a lock that does not
\* clear in time, a guest that is not there or a failing call leave the run.
Unlocked ==
    /\ pc["slot"] = "unlock"
    /\ plan["slot"].restore_vmid \in vms \ copying
    /\ NoFault /\ Goto("slot", "tail")
    /\ UNCHANGED <<hostVars, verdict, localSame>> /\ UNCHANGED resumeSame

StillLocked ==
    /\ pc["slot"] = "unlock"
    /\ \/ NoFault /\ plan["slot"].restore_vmid \notin vms \ copying
       \/ Fault
    /\ leave
    /\ UNCHANGED resumeSame

\* Rebuild the helper only when it is gone, boot the VM unless it runs, probe.
ResumeTail ==
    /\ pc["slot"] = "tail"
    /\ LET v == plan["slot"].restore_vmid
           h == plan["slot"].helper_vmid
           rebuilt == IF h \in vms THEN lxcs ELSE lxcs \cup {h}
       IN  \/ /\ v \in vms /\ h \notin vms
              /\ lxcs' = rebuilt /\ Goto("slot", "probe") /\ UNCHANGED verdict
           \/ lxcs' \in {lxcs, rebuilt} /\ Conclude("error")
    /\ NoFault
    /\ UNCHANGED <<vms, copying, localSame>> /\ UNCHANGED resumeSame

-----------------------------------------------------------------------------
(* _finalize.                                                                  *)

\* hold_on_failure: the helper is discarded (a failure is ignored) ...
Discard ==
    /\ pc["slot"] = "discard"
    /\ \/ NoFault /\ lxcs' = lxcs \ {plan["slot"].helper_vmid}
       \/ Fault /\ UNCHANGED lxcs
    /\ Goto("slot", "park")
    /\ UNCHANGED <<vms, copying, verdict, localSame>> /\ UNCHANGED resumeSame

\* ... the row becomes held ...
Park ==
    /\ pc["slot"] = "park"
    /\ status' = SetStatus(run["slot"], "held")
    /\ Goto("slot", "unhold")
    /\ UNCHANGED <<env, cancel, aged, evidence, paused, hostVars, job, run, plan, seen,
                   pending, verdict, jobs, boundVars>>

\* ... and a second UPDATE frees the helper's VMID and management address.
AfterRun == IF job["slot"] = "execute" THEN "top" ELSE "idle"

\* Mutant: NULL written as -1.
FreeHelperSentinel(r) ==
    env' = IF status[r] \in Absent THEN env
           ELSE [env EXCEPT ![r] = [@ EXCEPT !.helper_vmid = -1, !.mgmt_ip = -1]]

\* update_run(run_id, helper_vmid=None, mgmt_ip=None)
FreeHelperColumns(r) ==
    env' = IF status[r] \in Absent THEN env
           ELSE [env EXCEPT ![r] = [@ EXCEPT !.helper_vmid = Unset, !.mgmt_ip = Unset]]

Unhold ==
    /\ pc["slot"] = "unhold"
    /\ FreeHelperColumns(run["slot"])
    /\ Return("slot", AfterRun) /\ verdict' = "error"
    /\ UNCHANGED <<status, cancel, aged, evidence, paused, hostVars, pending, jobs, boundVars>>

\* Mutant: a failed restore counts as a test.
CountsFailed == {"passed", "limited", "failed"}

\* _COUNTS_AS_TEST
CountsAsTest == {"passed", "limited"}

\* record_run_result after a teardown.  A test row is written for passed and
\* limited only; reap_held keeps the failed or error a held row has as result.
Outcomes(t) ==
    CASE job[t] \in {"execute", "resume"} -> {verdict}
      [] job[t] = "recover" -> {"error"}
      [] job[t] \in {"promote", "retest"} -> {"passed"}
      [] OTHER -> CASE status[run[t]] = "held" -> {"failed", "error"}
                    [] status[run[t]] = "error" -> {"error"}
                    [] OTHER -> {"failed"}

AfterRecord(t) ==
    CASE job[t] = "recover" -> AfterRecover(t)
      [] t = "slot" -> AfterRun
      [] OTHER -> "idle"

Record(t) ==
    /\ pc[t] = "record"
    /\ \E s \in Outcomes(t) :
         /\ status' = SetStatus(run[t], s)
         /\ evidence' = IF s \in CountsAsTest THEN evidence \cup {run[t]} ELSE evidence
    /\ jobs' = IF job[t] = "recover" /\ t # "slot"
                 THEN Kicked(\E r \in Runs : status'[r] = "running") ELSE jobs
    /\ verdict' = IF t = "slot" THEN "error" ELSE verdict
    /\ Return(t, AfterRecord(t))
    /\ UNCHANGED <<env, cancel, aged, paused, hostVars, pending, boundVars>>

-----------------------------------------------------------------------------
(* _held_action: what an operator may do with a row he sees as held.  The       *)
(* handler reads the row once; by the time it acts it may no longer be held.    *)

HeldAction(t, r, action) ==
    /\ pc[t] = "idle" /\ status[r] = "held"
    /\ run' = [run EXCEPT ![t] = r]
    /\ plan' = [plan EXCEPT ![t] = env[r]]
    /\ job' = [job EXCEPT ![t] = action]
    /\ Goto(t, IF action = "retest" THEN "realloc" ELSE "teardown")
    /\ UNCHANGED <<rowVars, paused, hostVars, seen, pending, verdict, jobs, boundVars>>

\* reprovision_and_retest: a fresh helper VMID and management address ...
Realloc(t) ==
    /\ pc[t] = "realloc"
    /\ IF Exhausted(Owned)
         THEN Return(t, "idle")
         ELSE LET a == Allocation(Owned)
              IN  /\ plan' = [plan EXCEPT ![t] = [@ EXCEPT !.helper_vmid = a.helper_vmid,
                                                          !.mgmt_ip = a.mgmt_ip]]
                  /\ Goto(t, "assign") /\ UNCHANGED <<job, run, seen>>
    /\ UNCHANGED <<rowVars, paused, hostVars, pending, verdict, jobs, boundVars>>

\* ... written to the row ...
Assign(t) ==
    /\ pc[t] = "assign"
    /\ LET r == run[t]
       IN  env' = IF status[r] \in Absent THEN env
                  ELSE [env EXCEPT ![r] = [@ EXCEPT !.helper_vmid = plan[t].helper_vmid,
                                                    !.mgmt_ip = plan[t].mgmt_ip]]
    /\ Goto(t, "rehelper")
    /\ UNCHANGED <<status, cancel, aged, evidence, paused, hostVars, job, run, plan, seen,
                   pending, verdict, jobs, boundVars>>

\* ... and a helper built with them.  An exception leaves the row as it is.
Rehelper(t) ==
    /\ pc[t] = "rehelper"
    /\ LET h == plan[t].helper_vmid
       IN  \/ /\ h \notin Guests
              /\ lxcs' = lxcs \cup {h} /\ Goto(t, "reprobe") /\ UNCHANGED <<job, run, plan, seen>>
           \/ lxcs' \in {lxcs, IF h \in Guests THEN lxcs ELSE lxcs \cup {h}} /\ Return(t, "idle")
    /\ NoFault
    /\ UNCHANGED <<rowVars, paused, vms, copying, pending, verdict, jobs, restarts>>

\* retest_held: green promotes, anything else drops the helper again.
Reprobe(t) ==
    /\ pc[t] = "reprobe"
    /\ \/ /\ plan[t].restore_vmid \in vms /\ plan[t].helper_vmid \in lxcs
          /\ Goto(t, "teardown") /\ UNCHANGED <<job, run, plan, seen>>
       \/ Goto(t, "drop") /\ UNCHANGED <<job, run, plan, seen>>
       \/ Return(t, "idle")
    /\ NoFault
    /\ UNCHANGED <<rowVars, paused, hostVars, pending, verdict, jobs, restarts>>

Drop(t) ==
    /\ pc[t] = "drop"
    /\ \/ NoFault /\ lxcs' = lxcs \ {plan[t].helper_vmid}
       \/ Fault /\ UNCHANGED lxcs
    /\ FreeHelperColumns(run[t])
    /\ Return(t, "idle")
    /\ UNCHANGED <<status, cancel, aged, evidence, paused, vms, copying, pending, verdict,
                   jobs, restarts>>

-----------------------------------------------------------------------------
(* The host on its own, and a restart of the app.                              *)

\* The detached restore task ends: the guest is complete, or PVE removes it.
CopyEnds(v) ==
    /\ v \in copying
    /\ copying' = copying \ {v}
    /\ vms' \in {vms, vms \ {v}}
    /\ UNCHANGED <<rowVars, paused, lxcs, localVars, jobs, boundVars>>

\* The app is killed and started again: reconcile_and_resume_restores submits the
\* resume of a row left running before any loop or handler runs.
Restart ==
    /\ restarts < MaxRestarts /\ restarts' = restarts + 1
    /\ LET left == {r \in Runs : status[r] = "running"}
           r == CHOOSE q \in left : TRUE
       IN  /\ pc' = [t \in Threads |-> IF t = "slot" /\ left # {} THEN "attach" ELSE "idle"]
           /\ job' = [t \in Threads |-> IF t = "slot" /\ left # {} THEN "resume" ELSE "recover"]
           /\ run' = [t \in Threads |-> IF t = "slot" /\ left # {} THEN r ELSE NoRun]
           /\ plan' = [t \in Threads |-> IF t = "slot" /\ left # {} THEN env[r] ELSE NoEnv]
    /\ seen' = [t \in Threads |-> {}]
    /\ pending' = {} /\ verdict' = "error" /\ jobs' = 0
    /\ UNCHANGED <<rowVars, paused, hostVars, faults>>

-----------------------------------------------------------------------------
Heal(t) == \/ ScanNone(t) \/ ScanRunning(t) \/ LeaveRunning(t) \/ DeclareStuck(t)
           \/ Teardown(t) \/ Snapshot(t) \/ Reap(t) \/ Record(t)

Healer(t) == Heal(t) \/ Kick(t) \/ (t = "watchdog" /\ (Orphans \/ SweepOrphans))

Drain == \/ EnqueueDue \/ QueueFails \/ DrainStop \/ DrainList \/ DrainWait \/ Start
         \/ \E r \in Runs : Refuse(r) \/ Skip(r) \/ Choose(r)

Pipeline == \/ SweepBefore \/ Provision \/ StartRestore \/ StartDistributed \/ Restored \/ Abort \/ Break
            \/ \E result \in Terminal : Probed(result)
            \/ Discard \/ Park \/ Unhold

Resume == Reattach \/ PollEnd \/ PollLost \/ Unlocked \/ StillLocked \/ ResumeTail

Slot == Heal("slot") \/ Drain \/ Pipeline \/ Resume

Handler == \E r \in Runs : Request(r) \/ DeleteRun(r) \/ RequestCancel(r)

Operator(t) ==
    \/ \E r \in Runs, action \in {"promote", "reap", "retest"} : HeldAction(t, r, action)
    \/ Realloc(t) \/ Assign(t) \/ Rehelper(t) \/ Reprobe(t) \/ Drop(t)
    \/ Teardown(t) \/ Snapshot(t) \/ Reap(t) \/ Record(t)

Host == \E v \in copying : CopyEnds(v)

Next == \/ Slot \/ Handler \/ SetPaused \/ Host \/ Restart
        \/ \E t \in Healers : Healer(t)
        \/ \E t \in Operators : Operator(t)
        \/ \E r \in Runs : GraceOver(r)

Spec == Init /\ [][Next]_vars

-----------------------------------------------------------------------------
(* Properties.                                                                 *)

\* Every column, host set and thread variable has its type.
TypeOK ==
    /\ status \in [Runs -> Statuses]
    /\ env \in [Runs -> Env]
    /\ cancel \subseteq Runs /\ aged \subseteq Runs /\ evidence \subseteq Runs
    /\ paused \in BOOLEAN
    /\ vms \subseteq Nat /\ lxcs \subseteq Nat /\ copying \subseteq Nat
    /\ pc \in [Threads -> Labels]
    /\ job \in [Threads -> Jobs]
    /\ run \in [Threads -> Runs \cup {NoRun}]
    /\ plan \in [Threads -> Env]
    /\ seen \in [Threads -> SUBSET Nat]
    /\ pending \subseteq Runs
    /\ verdict \in Terminal
    /\ jobs \in Nat /\ faults \in Nat /\ restarts \in Nat

\* At most one row is running, although the worker, the resume after a restart
\* and any number of kicked drains compete for the slot (drain's has_active_run,
\* the one-worker restore_executor).
SingleRunning == \A r, q \in Runs : status[r] = "running" /\ status[q] = "running" => r = q

\* No two running or held rows name the same restore VM or the same sandbox VLAN,
\* whatever retests and doomed workers write in between: two guests never share
\* an isolated segment (restore_alloc, execute, reprovision_and_retest).
SandboxesDistinct ==
    \A r, q \in Runs : r # q /\ status[r] \in Live /\ status[q] \in Live =>
        /\ env[r].restore_vmid # env[q].restore_vmid
        /\ env[r].vlan_tag # env[q].vlan_tag

\* No two running or held rows share any VMID, VLAN tag or management address: the
\* rows are the in-use registry of the allocator (restore_alloc.allocate).
EnvironmentsDistinct ==
    \A r, q \in Runs : r # q /\ status[r] \in Live /\ status[q] \in Live =>
        /\ InUseVmids({env[r]}) \cap InUseVmids({env[q]}) = {}
        /\ InUseTags({env[r]}) \cap InUseTags({env[q]}) = {}
        /\ InUseIps({env[r]}) \cap InUseIps({env[q]}) = {}

\* Once every thread is done, a held row ties up no helper VMID and no management
\* address (_finalize, reprovision_and_retest).
HeldFreesHelper ==
    (\A t \in Threads : pc[t] = "idle") =>
        \A r \in Runs : status[r] = "held" => env[r].helper_vmid = Unset /\ env[r].mgmt_ip = Unset

\* A run that ended as an error or failure has no row in restore_tests: only a
\* passed or limited restore resets the due clock (record_run_result).
ErrorHasNoEvidence == \A r \in Runs : status[r] \in {"error", "failed"} => r \notin evidence

\* The queue implements the lifecycle of RunLifecycle: a row is started at most
\* once and only while no other runs, and no late write of the worker, a healer
\* or an operator makes a finished row queued or running again.
RL == INSTANCE RunLifecycle
Lifecycle == RL!Spec

\* The worker's own reaping and teardown, and the recovery it runs before it
\* drains, never take the VM of a held row: held rows own their environment
\* until an operator acts (owned_vmids, active_and_held_runs).
ExecutorSparesHeld ==
    [][ pc'["slot"] # pc["slot"] =>
          \A r \in Runs : status[r] = "held" /\ env[r].restore_vmid \in vms
                            => env[r].restore_vmid \in vms' ]_vars

\* The orphan sweep of the watchdog takes no guest of a running row: it runs only
\* while nothing executes (_reap_orphans, has_active_run).
SweepSparesRunning ==
    [][ pc["watchdog"] = "sweep" /\ pc'["watchdog"] # "sweep" =>
          \A r \in Runs : status[r] = "running"
                            => InUseVmids({env[r]}) \cap Guests \subseteq vms' \cup lxcs' ]_vars

\* When nothing failed and every thread is done, no guest is on the host that no
\* live row owns: each run, verdict and operator action removes what it built
\* (_finalize, _teardown, reprovision_and_retest), whoever interfered with it.
NoLeak ==
    faults = 0 /\ restarts = 0 /\ (\A t \in Threads : pc[t] = "idle") /\ (\A r \in Runs : status[r] # "deleted")
        => Guests \subseteq OwnedVmids

\* What nobody needs any more is free again, and what a live row has is its own:
\* rows, environments and the guests of the host stay in step.
EnvironmentsInOrder == EnvironmentsDistinct /\ HeldFreesHelper /\ NoLeak

\* The scheduling: each thread goes on, a restore task of the host comes to an end
\* by itself, time passes, and a queued run that is looked at again and
\* again fits the host at some point.
Fairness ==
    /\ WF_vars(Slot)
    /\ \A t \in Healers : WF_vars(Healer(t))
    /\ WF_vars(Host)
    /\ \A r \in Runs : WF_vars(GraceOver(r)) /\ SF_vars(Choose(r))

FairSpec == Spec /\ Fairness

\* A queued row leaves the queue unless the operator pauses it: the watchdog kicks
\* a drain whenever rows wait and none runs (_restore_queue_watchdog).
QueueProgress == \A r \in Runs : status[r] = "queued" ~> (status[r] # "queued" \/ paused)

\* A running row gets a result or is parked: by its worker, by the resume after a
\* restart, or by recover_stuck_runs when nothing of it is left on the host.
RunEnds == \A r \in Runs : status[r] = "running" ~> status[r] # "running"

\* A guest no live row owns is destroyed or becomes owned again: by the next run's
\* own reaper, or by the watchdog while nothing runs (_reap_orphans).
OrphansSwept ==
    \A v \in VmidFrom .. VmidTo :
        (v \in Guests /\ v \notin OwnedVmids) ~> (v \notin Guests \/ v \in OwnedVmids)

=============================================================================
