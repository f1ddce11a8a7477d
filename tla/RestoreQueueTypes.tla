-------------------------- MODULE RestoreQueueTypes --------------------------
(* What holds of the restore queue for any number of rows, VMIDs, operators,   *)
(* outages and restarts.                                                       *)
EXTENDS RestoreQueue, RestoreAllocTheorems

-----------------------------------------------------------------------------
(* Types.  A thread past its scan, its choice or its read of a held row works   *)
(* on a row; without that TypeOK is not inductive.                              *)

Rowless == {"idle", "enqueue", "top", "pick", "orphans", "kick"}

OnRow(t) == pc[t] \notin Rowless /\ ~(t = "watchdog" /\ pc[t] \in {"clean", "sweep"})

RowKnown == \A t \in Threads : OnRow(t) => run[t] \in Runs

TypeInv == TypeOK /\ RowKnown

\* The pieces a step computes have their types.
LEMMA HelperTypes ==
  ASSUME TypeOK
  PROVE  /\ \A b \in BOOLEAN : Kicked(b) \in Nat
         /\ \A r \in Runs, s \in Statuses : SetStatus(r, s) \in [Runs -> Statuses]
         /\ OwnedVmids \subseteq Nat
         /\ NoEnv \in Env
         /\ ~Exhausted(Owned) => Allocation(Owned) \in Env
<1>1. \A b \in BOOLEAN : Kicked(b) \in Nat
  BY QueueAssumption DEF TypeOK, Kicked
<1>2. \A r \in Runs, s \in Statuses : SetStatus(r, s) \in [Runs -> Statuses]
  BY DEF TypeOK, SetStatus
<1>3. OwnedVmids \subseteq Nat
  BY DEF TypeOK, OwnedVmids, InUseVmids, Owned, Env
<1>4. NoEnv \in Env
  BY DEF NoEnv, Env, Unset
<1>5. ~Exhausted(Owned) => Allocation(Owned) \in Env
  BY AllocationFresh
<1> QED BY <1>1, <1>2, <1>3, <1>4, <1>5

\* An empty queue is well typed.
LEMMA InitType == Init => TypeInv
<1> SUFFICES ASSUME Init PROVE TypeInv
  OBVIOUS
<1>1. NoEnv \in Env
  BY DEF NoEnv, Env, Unset
<1>2. TypeOK
  BY <1>1 DEF Init, TypeOK, Threads, Labels, Executing, Jobs, Statuses, Absent, Terminal
<1> QED BY <1>2 DEF Init, TypeInv, RowKnown, OnRow, Rowless

\* A reap only removes guests, and spends at most one outage.
LEMMA ReapTypes ==
  ASSUME TypeOK, NEW owned, ReapGuests(owned)
  PROVE  vms' \subseteq Nat /\ lxcs' \subseteq Nat /\ copying' \subseteq Nat /\ faults' \in Nat
<1>1. vms' \subseteq vms /\ lxcs' \subseteq lxcs /\ copying' \subseteq copying /\ faults' \in Nat
  BY DEF TypeOK, ReapGuests, Fault, NoFault
<1> QED BY <1>1 DEF TypeOK

\* Every step of a thread that recovers a stuck run, reaps and records keeps the types.
LEMMA HealType ==
  ASSUME TypeInv, NEW t \in Threads, Heal(t)
  PROVE  TypeInv'
<1> USE DEF Goto, Return, Fault, NoFault, rowVars, hostVars, localVars, boundVars
<1>0. /\ AfterRecover(t) \in Labels /\ AfterRecord(t) \in Labels
      /\ AfterRecover(t) \in Rowless /\ AfterRecord(t) \in Rowless
      /\ Outcomes(t) \subseteq Terminal /\ Terminal \subseteq Statuses
  BY DEF TypeInv, TypeOK, AfterRecover, AfterRecord, AfterRun, Outcomes, Labels, Rowless, Terminal, Statuses
<1>t. /\ OwnedVmids \subseteq Nat /\ NoEnv \in Env /\ \A b \in BOOLEAN : Kicked(b) \in Nat
      /\ \A r \in Runs, s \in Statuses : SetStatus(r, s) \in [Runs -> Statuses]
  BY HelperTypes DEF TypeInv
<1>1. CASE ScanNone(t)
  <2>1. TypeOK'
    BY <1>0, <1>1 DEF TypeInv, TypeOK, ScanNone, Wakes
  <2> QED BY <1>0, <1>1, <2>1 DEF TypeInv, TypeOK, RowKnown, OnRow, ScanNone
<1>2. CASE ScanRunning(t)
  <2>1. TypeOK'
    BY <1>2 DEF TypeInv, TypeOK, ScanRunning, Wakes, Labels
  <2> QED BY <1>2, <2>1 DEF TypeInv, TypeOK, RowKnown, OnRow, ScanRunning
<1>3. CASE LeaveRunning(t)
  <2>1. TypeOK'
    BY <1>0, <1>t, <1>3 DEF TypeInv, TypeOK, LeaveRunning, Jobs
  <2> QED BY <1>0, <1>3, <2>1 DEF TypeInv, TypeOK, RowKnown, OnRow, LeaveRunning
<1>4. CASE DeclareStuck(t)
  <2>1. TypeOK'
    BY <1>4 DEF TypeInv, TypeOK, DeclareStuck, Labels, Executing
  <2> QED BY <1>4, <2>1 DEF TypeInv, TypeOK, RowKnown, OnRow, Rowless, DeclareStuck
<1>5. CASE Teardown(t)
  <2>1. vms' \subseteq vms /\ lxcs' \subseteq lxcs /\ copying' \subseteq copying /\ faults' \in Nat
    BY <1>5 DEF TypeInv, TypeOK, Teardown
  <2>2. TypeOK'
    BY <1>5, <2>1 DEF TypeInv, TypeOK, Teardown, Labels, Executing
  <2> QED BY <1>5, <2>2 DEF TypeInv, TypeOK, RowKnown, OnRow, Rowless, Teardown
<1>6. CASE Snapshot(t)
  <2>1. TypeOK'
    BY <1>t, <1>6 DEF TypeInv, TypeOK, Snapshot, Labels, Executing
  <2> QED BY <1>6, <2>1 DEF TypeInv, TypeOK, RowKnown, OnRow, Rowless, Snapshot
<1>7. CASE Reap(t)
  <2>1. vms' \subseteq Nat /\ lxcs' \subseteq Nat /\ copying' \subseteq Nat /\ faults' \in Nat
    BY <1>7, ReapTypes DEF TypeInv, Reap
  <2>2. TypeOK'
    BY <1>7, <2>1 DEF TypeInv, TypeOK, Reap, Labels, Executing
  <2> QED BY <1>7, <2>2 DEF TypeInv, TypeOK, RowKnown, OnRow, Rowless, Reap
<1>8. CASE Record(t)
  <2>0. run[t] \in Runs
    BY <1>8 DEF TypeInv, RowKnown, OnRow, Rowless, Record
  <2>1. PICK s \in Outcomes(t) : status' = SetStatus(run[t], s) /\ evidence' \subseteq evidence \cup {run[t]}
    BY <1>8 DEF Record
  <2>2. s \in Statuses
    BY <1>0
  <2>3. status' \in [Runs -> Statuses] /\ evidence' \subseteq Runs
    BY <1>t, <2>0, <2>1, <2>2 DEF TypeInv, TypeOK
  <2>4. verdict' \in Terminal /\ jobs' \in Nat
    BY <1>t, <1>8 DEF TypeInv, TypeOK, Record, Terminal
  <2>5. TypeOK'
    BY <1>0, <1>t, <1>8, <2>3, <2>4 DEF TypeInv, TypeOK, Record, Jobs
  <2> QED BY <1>0, <1>8, <2>5 DEF TypeInv, TypeOK, RowKnown, OnRow, Record
<1> QED BY <1>1, <1>2, <1>3, <1>4, <1>5, <1>6, <1>7, <1>8 DEF Heal

\* ... of a self-heal thread that ends its tick ...
LEMMA HealerType ==
  ASSUME TypeInv, NEW t \in Healers, Healer(t)
  PROVE  TypeInv'
<1> USE DEF Goto, Return, Fault, NoFault, rowVars, hostVars, localVars, boundVars
<1>0. t \in Threads
  BY DEF Threads
<1>t. OwnedVmids \subseteq Nat /\ NoEnv \in Env /\ \A b \in BOOLEAN : Kicked(b) \in Nat
  BY HelperTypes DEF TypeInv
<1>1. CASE Heal(t)
  BY <1>0, <1>1, HealType
<1>2. CASE Kick(t)
  <2>1. HasActive \in BOOLEAN
    BY DEF HasActive
  <2>2. TypeOK'
    BY <1>0, <1>t, <1>2, <2>1 DEF TypeInv, TypeOK, Kick, Labels
  <2> QED BY <1>0, <1>2, <2>2 DEF TypeInv, TypeOK, RowKnown, OnRow, Rowless, Kick
<1>3. CASE t = "watchdog" /\ Orphans
  <2>1. TypeOK'
    BY <1>0, <1>3 DEF TypeInv, TypeOK, Orphans, Labels, Executing
  <2> QED BY <1>0, <1>3, <2>1 DEF TypeInv, TypeOK, RowKnown, OnRow, Rowless, Orphans
<1>4. CASE t = "watchdog" /\ SweepOrphans
  <2>1. vms' \subseteq Nat /\ lxcs' \subseteq Nat /\ copying' \subseteq Nat /\ faults' \in Nat
    BY <1>4, ReapTypes DEF TypeInv, SweepOrphans
  <2>2. TypeOK'
    BY <1>0, <1>t, <1>4, <2>1 DEF TypeInv, TypeOK, SweepOrphans, Labels, Jobs
  <2> QED BY <1>0, <1>4, <2>2 DEF TypeInv, TypeOK, RowKnown, OnRow, Rowless, SweepOrphans
<1> QED BY <1>1, <1>2, <1>3, <1>4 DEF Healer

\* ... of the drain, up to the row that is running ...
LEMMA DrainType ==
  ASSUME TypeInv, Drain
  PROVE  TypeInv'
<1> USE DEF Goto, Return, Fault, NoFault, rowVars, hostVars, localVars, boundVars
<1>0. "slot" \in Threads /\ "slot" # "watchdog"
  BY DEF Threads
<1>t. /\ \A r \in Runs, s \in Statuses : SetStatus(r, s) \in [Runs -> Statuses]
      /\ ~Exhausted(Owned) => Allocation(Owned) \in Env
  BY HelperTypes DEF TypeInv
<1>1. CASE EnqueueDue
  <2>1. status' \in [Runs -> Statuses]
    BY <1>1 DEF TypeInv, TypeOK, EnqueueDue, Statuses
  <2>2. TypeOK'
    BY <1>0, <1>1, <2>1 DEF TypeInv, TypeOK, EnqueueDue, Labels
  <2> QED BY <1>0, <1>1, <2>2 DEF TypeInv, TypeOK, RowKnown, OnRow, Rowless, EnqueueDue
<1>2. CASE QueueFails
  <2>1. TypeOK'
    BY <1>0, <1>2 DEF TypeInv, TypeOK, QueueFails, Labels
  <2> QED BY <1>0, <1>2, <2>1 DEF TypeInv, TypeOK, RowKnown, OnRow, Rowless, QueueFails
<1>3. CASE DrainStop
  <2>1. TypeOK'
    BY <1>0, <1>3 DEF TypeInv, TypeOK, DrainStop, Labels
  <2> QED BY <1>0, <1>3, <2>1 DEF TypeInv, TypeOK, RowKnown, OnRow, Rowless, DrainStop
<1>4. CASE DrainList
  <2>1. TypeOK'
    BY <1>0, <1>4 DEF TypeInv, TypeOK, DrainList, Labels
  <2> QED BY <1>0, <1>4, <2>1 DEF TypeInv, TypeOK, RowKnown, OnRow, Rowless, DrainList
<1>5. CASE DrainWait
  <2>1. TypeOK'
    BY <1>0, <1>5 DEF TypeInv, TypeOK, DrainWait, Labels
  <2> QED BY <1>0, <1>5, <2>1 DEF TypeInv, TypeOK, RowKnown, OnRow, Rowless, DrainWait
<1>6. CASE Start
  <2>0. run["slot"] \in Runs
    BY <1>0, <1>6 DEF TypeInv, RowKnown, OnRow, Rowless, Start
  <2>1. status' \in [Runs -> Statuses] /\ env' \in [Runs -> Env]
    BY <1>0, <1>t, <1>6, <2>0 DEF TypeInv, TypeOK, Start, Statuses, Live
  <2>2. TypeOK'
    BY <1>0, <1>6, <2>1 DEF TypeInv, TypeOK, Start, Labels, Executing, Jobs
  <2> QED BY <1>0, <1>6, <2>0, <2>2 DEF TypeInv, TypeOK, RowKnown, OnRow, Rowless, Start
<1>7. ASSUME NEW r \in Runs, Refuse(r) PROVE TypeInv'
  <2>1. status' \in [Runs -> Statuses]
    BY <1>t, <1>7 DEF Refuse, Statuses, Terminal
  <2>2. TypeOK'
    BY <1>7, <2>1 DEF TypeInv, TypeOK, Refuse
  <2> QED BY <1>7, <2>2 DEF TypeInv, TypeOK, RowKnown, OnRow, Refuse
<1>8. ASSUME NEW r \in Runs, Skip(r) PROVE TypeInv'
  <2>1. TypeOK'
    BY <1>8 DEF TypeInv, TypeOK, Skip
  <2> QED BY <1>8, <2>1 DEF TypeInv, TypeOK, RowKnown, OnRow, Skip
<1>9. ASSUME NEW r \in Runs, Choose(r) PROVE TypeInv'
  <2>1. TypeOK'
    BY <1>0, <1>t, <1>9 DEF TypeInv, TypeOK, Choose, Labels
  <2> QED BY <1>0, <1>9, <2>1 DEF TypeInv, TypeOK, RowKnown, OnRow, Choose
<1> QED BY <1>1, <1>2, <1>3, <1>4, <1>5, <1>6, <1>7, <1>8, <1>9 DEF Drain
\* ... of the pipeline of a run and its end ...
LEMMA ConcludeType ==
  ASSUME TypeInv, NEW result \in Terminal, Conclude(result)
  PROVE  /\ verdict' = result /\ verdict' \in Terminal
         /\ pc' = [pc EXCEPT !["slot"] = pc'["slot"]] /\ pc'["slot"] \in {"discard", "teardown"}
         /\ pc' \in [Threads -> Labels]
<1> "slot" \in Threads
  BY DEF Threads
<1> QED BY DEF TypeInv, TypeOK, Conclude, Goto, Labels, Executing

\* Freeing a row's helper columns leaves environments.
LEMMA FreedTyped ==
  ASSUME TypeInv, NEW r \in Runs, FreeHelperColumns(r)
  PROVE  env' \in [Runs -> Env]
<1>1. env \in [Runs -> Env] /\ env[r] \in Env BY DEF TypeInv, TypeOK
<1> DEFINE freed == [env[r] EXCEPT !.helper_vmid = Unset, !.mgmt_ip = Unset]
<1>2. freed \in Env BY <1>1 DEF Env, Unset
<1>3. env' = env \/ env' = [env EXCEPT ![r] = freed] BY <1>1 DEF FreeHelperColumns
<1> HIDE DEF freed
<1> QED BY <1>1, <1>2, <1>3

\* A step of the worker (execute, _finalize, _teardown) keeps the types.
LEMMA PipelineType ==
  ASSUME TypeInv, Pipeline
  PROVE  TypeInv'
<1> USE DEF Goto, Fault, NoFault, rowVars, hostVars, boundVars, pipelineSame
<1>0. "slot" \in Threads /\ "slot" # "watchdog" /\ NoEnv \in Env
  BY HelperTypes DEF Threads, TypeInv
<1>c. \A result \in Terminal : Conclude(result) =>
        /\ verdict' \in Terminal /\ pc' \in [Threads -> Labels]
        /\ pc' = [pc EXCEPT !["slot"] = pc'["slot"]] /\ pc'["slot"] \in {"discard", "teardown"}
  BY ConcludeType
<1>e. {"error", "cancelled", "passed", "limited", "failed"} = Terminal
  BY DEF Terminal
<1>v. plan["slot"].restore_vmid \in Nat /\ plan["slot"].helper_vmid \in Nat
  BY <1>0 DEF TypeInv, TypeOK, Env
<1>1. CASE SweepBefore
  <2>1. vms' \subseteq Nat /\ lxcs' \subseteq Nat /\ copying' \subseteq Nat /\ faults' \in Nat
    BY <1>1, ReapTypes DEF TypeInv, SweepBefore
  <2>2. /\ verdict' \in Terminal /\ pc' \in [Threads -> Labels]
        /\ pc' = [pc EXCEPT !["slot"] = pc'["slot"]]
    BY <1>0, <1>c, <1>e, <1>1 DEF TypeInv, TypeOK, SweepBefore, Labels, Executing
  <2>3. TypeOK'
    BY <1>1, <2>1, <2>2 DEF TypeInv, TypeOK, SweepBefore
  <2> QED BY <1>0, <1>1, <2>2, <2>3 DEF TypeInv, TypeOK, RowKnown, OnRow, Rowless, SweepBefore
<1>2. CASE Provision
  <2>1. /\ verdict' \in Terminal /\ pc' \in [Threads -> Labels]
        /\ pc' = [pc EXCEPT !["slot"] = pc'["slot"]]
    BY <1>0, <1>c, <1>e, <1>2 DEF TypeInv, TypeOK, Provision, Labels, Executing
  <2>2. lxcs' \subseteq Nat
    BY <1>v, <1>2 DEF TypeInv, TypeOK, Provision
  <2>3. TypeOK'
    BY <1>2, <2>1, <2>2 DEF TypeInv, TypeOK, Provision
  <2> QED BY <1>0, <1>2, <2>1, <2>3 DEF TypeInv, TypeOK, RowKnown, OnRow, Rowless, Provision
<1>3. CASE StartRestore
  <2>1. /\ verdict' \in Terminal /\ pc' \in [Threads -> Labels]
        /\ pc' = [pc EXCEPT !["slot"] = pc'["slot"]]
    BY <1>0, <1>c, <1>e, <1>3 DEF TypeInv, TypeOK, StartRestore, Labels, Executing
  <2>2. vms' \subseteq Nat /\ copying' \subseteq Nat
    BY <1>v, <1>3 DEF TypeInv, TypeOK, StartRestore
  <2>3. TypeOK'
    BY <1>3, <2>1, <2>2 DEF TypeInv, TypeOK, StartRestore
  <2> QED BY <1>0, <1>3, <2>1, <2>3 DEF TypeInv, TypeOK, RowKnown, OnRow, Rowless, StartRestore
<1>4. CASE StartDistributed
  <2>1. TypeOK'
    BY <1>0, <1>4 DEF TypeInv, TypeOK, StartDistributed, Labels, Executing
  <2> QED BY <1>0, <1>4, <2>1 DEF TypeInv, TypeOK, RowKnown, OnRow, Rowless, StartDistributed
<1>5. CASE Restored
  <2>1. vms' \subseteq Nat
    BY <1>v, <1>5 DEF TypeInv, TypeOK, Restored
  <2>2. TypeOK'
    BY <1>0, <1>5, <2>1 DEF TypeInv, TypeOK, Restored, Labels, Executing
  <2> QED BY <1>0, <1>5, <2>2 DEF TypeInv, TypeOK, RowKnown, OnRow, Rowless, Restored
<1>6. CASE Abort
  <2>1. /\ verdict' \in Terminal /\ pc' \in [Threads -> Labels]
        /\ pc' = [pc EXCEPT !["slot"] = pc'["slot"]]
    BY <1>c, <1>e, <1>6 DEF Abort
  <2>2. copying' \subseteq copying /\ faults' \in Nat
    BY <1>6 DEF TypeInv, TypeOK, Abort
  <2>3. TypeOK'
    BY <1>6, <2>1, <2>2 DEF TypeInv, TypeOK, Abort
  <2> QED BY <1>0, <1>6, <2>1, <2>3 DEF TypeInv, TypeOK, RowKnown, OnRow, Rowless, Abort
<1>7. CASE Break
  <2>1. /\ verdict' \in Terminal /\ pc' \in [Threads -> Labels]
        /\ pc' = [pc EXCEPT !["slot"] = pc'["slot"]] /\ pc'["slot"] \in {"discard", "teardown"}
    BY <1>c, <1>e, <1>7 DEF Break
  <2>2. TypeOK'
    BY <1>7, <2>1 DEF TypeInv, TypeOK, Break
  <2> QED BY <1>0, <1>7, <2>1, <2>2 DEF TypeInv, TypeOK, RowKnown, OnRow, Rowless, Break
<1>8. ASSUME NEW result \in Terminal, Probed(result) PROVE TypeInv'
  <2>1. /\ verdict' \in Terminal /\ pc' \in [Threads -> Labels]
        /\ pc' = [pc EXCEPT !["slot"] = pc'["slot"]]
    BY <1>c, <1>8 DEF Probed
  <2>2. TypeOK'
    BY <1>8, <2>1 DEF TypeInv, TypeOK, Probed
  <2> QED BY <1>0, <1>8, <2>1, <2>2 DEF TypeInv, TypeOK, RowKnown, OnRow, Rowless, Probed
<1>9. CASE Discard
  <2>1. lxcs' \subseteq lxcs /\ faults' \in Nat
    BY <1>9 DEF TypeInv, TypeOK, Discard
  <2>2. TypeOK'
    BY <1>0, <1>9, <2>1 DEF TypeInv, TypeOK, Discard, Labels, Executing, localSame, resumeSame
  <2> QED BY <1>0, <1>9, <2>2 DEF TypeInv, TypeOK, RowKnown, OnRow, Rowless, Discard, localSame
<1>10. CASE Park
  <2>1. status' \in [Runs -> Statuses]
    BY <1>0, <1>10, HelperTypes DEF TypeInv, RowKnown, OnRow, Rowless, Park, Statuses, Live
  <2>2. TypeOK'
    BY <1>0, <1>10, <2>1 DEF TypeInv, TypeOK, Park, Labels, Executing
  <2> QED BY <1>0, <1>10, <2>2 DEF TypeInv, TypeOK, RowKnown, OnRow, Rowless, Park
<1>11. CASE Unhold
  <2>1. run["slot"] \in Runs
    BY <1>0, <1>11 DEF TypeInv, RowKnown, OnRow, Rowless, Unhold
  <2>2. env' \in [Runs -> Env]
    BY <1>11, <2>1, FreedTyped DEF Unhold
  <2>3. AfterRun \in Labels /\ AfterRun \in Rowless
    BY DEF AfterRun, Labels, Rowless
  <2>4. TypeOK'
    BY <1>0, <1>e, <1>11, <2>2, <2>3 DEF TypeInv, TypeOK, Unhold, Return, Jobs
  <2> QED BY <1>0, <1>11, <2>3, <2>4 DEF TypeInv, TypeOK, RowKnown, OnRow, Unhold, Return
<1> QED BY <1>1, <1>2, <1>3, <1>4, <1>5, <1>6, <1>7, <1>8, <1>9, <1>10, <1>11 DEF Pipeline
\* ... of a resume ...
LEMMA ResumeType ==
  ASSUME TypeInv, Resume
  PROVE  TypeInv'
<1> USE DEF Goto, Fault, NoFault, rowVars, hostVars, boundVars, resumeSame, localSame
<1>0. "slot" \in Threads /\ "slot" # "watchdog" /\ NoEnv \in Env /\ "error" \in Terminal
  BY HelperTypes DEF Threads, TypeInv, Terminal
<1>c. Conclude("error") =>
        /\ verdict' \in Terminal /\ pc' \in [Threads -> Labels]
        /\ pc' = [pc EXCEPT !["slot"] = pc'["slot"]] /\ pc'["slot"] \in {"discard", "teardown"}
  BY <1>0, ConcludeType
<1>l. leave => /\ verdict' = verdict /\ UNCHANGED hostVars
               /\ pc' = [pc EXCEPT !["slot"] = "idle"] /\ run' = [run EXCEPT !["slot"] = NoRun]
               /\ plan' = [plan EXCEPT !["slot"] = NoEnv] /\ seen' = [seen EXCEPT !["slot"] = {}]
               /\ job' = [job EXCEPT !["slot"] = "recover"]
  BY DEF leave, Return
<1>1. CASE Reattach
  <2>1. TypeOK'
    BY <1>0, <1>1 DEF TypeInv, TypeOK, Reattach, Labels, Executing
  <2> QED BY <1>0, <1>1, <2>1 DEF TypeInv, TypeOK, RowKnown, OnRow, Rowless, Reattach
<1>2. CASE PollEnd
  <2>1. /\ verdict' \in Terminal /\ pc' \in [Threads -> Labels] /\ faults' \in Nat
        /\ pc' = [pc EXCEPT !["slot"] = pc'["slot"]]
    BY <1>0, <1>c, <1>2 DEF TypeInv, TypeOK, PollEnd, Labels, Executing
  <2>2. TypeOK'
    BY <1>2, <2>1 DEF TypeInv, TypeOK, PollEnd
  <2> QED BY <1>0, <1>2, <2>1, <2>2 DEF TypeInv, TypeOK, RowKnown, OnRow, Rowless, PollEnd
<1>3. CASE PollLost
  <2>0. /\ UNCHANGED <<status, env, cancel, aged, evidence, paused, vms, lxcs, copying,
                       pending, verdict, jobs, restarts>>
        /\ faults' \in Nat
    BY <1>l, <1>3 DEF TypeInv, TypeOK, PollLost
  <2>1. TypeOK'
    BY <1>0, <1>l, <1>3, <2>0 DEF TypeInv, TypeOK, PollLost, Labels, Jobs
  <2> QED BY <1>0, <1>l, <1>3, <2>1 DEF TypeInv, TypeOK, RowKnown, OnRow, Rowless, PollLost
<1>4. CASE Unlocked
  <2>1. TypeOK'
    BY <1>0, <1>4 DEF TypeInv, TypeOK, Unlocked, Labels, Executing
  <2> QED BY <1>0, <1>4, <2>1 DEF TypeInv, TypeOK, RowKnown, OnRow, Rowless, Unlocked
<1>5. CASE StillLocked
  <2>0. /\ UNCHANGED <<status, env, cancel, aged, evidence, paused, vms, lxcs, copying,
                       pending, verdict, jobs, restarts>>
        /\ faults' \in Nat
    BY <1>l, <1>5 DEF TypeInv, TypeOK, StillLocked
  <2>1. TypeOK'
    BY <1>0, <1>l, <1>5, <2>0 DEF TypeInv, TypeOK, StillLocked, Labels, Jobs
  <2> QED BY <1>0, <1>l, <1>5, <2>1 DEF TypeInv, TypeOK, RowKnown, OnRow, Rowless, StillLocked
<1>6. CASE ResumeTail
  <2>0. plan["slot"].helper_vmid \in Nat
    BY <1>0 DEF TypeInv, TypeOK, Env
  <2>1. /\ verdict' \in Terminal /\ pc' \in [Threads -> Labels]
        /\ pc' = [pc EXCEPT !["slot"] = pc'["slot"]]
    BY <1>0, <1>c, <1>6 DEF TypeInv, TypeOK, ResumeTail, Labels, Executing
  <2>2. lxcs' \subseteq lxcs \cup {plan["slot"].helper_vmid}
    BY <1>6 DEF ResumeTail
  <2>3. TypeOK'
    BY <1>6, <2>0, <2>1, <2>2 DEF TypeInv, TypeOK, ResumeTail
  <2> QED BY <1>0, <1>6, <2>1, <2>3 DEF TypeInv, TypeOK, RowKnown, OnRow, Rowless, ResumeTail
<1> QED BY <1>1, <1>2, <1>3, <1>4, <1>5, <1>6 DEF Resume

\* ... of an operator ...
LEMMA OperatorType ==
  ASSUME TypeInv, NEW t \in Operators, Operator(t)
  PROVE  TypeInv'
<1> USE DEF Goto, Return, Fault, NoFault, rowVars, hostVars, boundVars
<1>0. t \in Threads /\ NoEnv \in Env /\ t # "watchdog"
  BY HelperTypes, QueueAssumption DEF Threads, TypeInv
<1>t. ~Exhausted(Owned) => Allocation(Owned) \in Env
  BY HelperTypes DEF TypeInv
<1>h. plan[t] \in Env
  BY <1>0 DEF TypeInv, TypeOK
<1>1. ASSUME NEW r \in Runs, NEW action \in {"promote", "reap", "retest"}, HeldAction(t, r, action)
      PROVE  TypeInv'
  <2>0. action \in Jobs
    BY DEF Jobs
  <2>1. TypeOK'
    BY <1>0, <1>1, <2>0 DEF TypeInv, TypeOK, HeldAction, Labels, Executing
  <2> QED BY <1>0, <1>1, <2>1 DEF TypeInv, TypeOK, RowKnown, OnRow, Rowless, HeldAction
<1>2. CASE Realloc(t)
  <2>1. CASE Exhausted(Owned)
    <3>1. TypeOK'
      BY <1>0, <1>2, <2>1 DEF TypeInv, TypeOK, Realloc, Labels, Jobs, Return, Goto
    <3> QED BY <1>0, <1>2, <2>1, <3>1 DEF TypeInv, TypeOK, RowKnown, OnRow, Rowless, Realloc
  <2>2. CASE ~Exhausted(Owned)
    <3>0. plan' = [plan EXCEPT ![t] = [plan[t] EXCEPT !.helper_vmid = Allocation(Owned).helper_vmid,
                                                      !.mgmt_ip = Allocation(Owned).mgmt_ip]]
      BY <1>0, <1>2, <2>2 DEF Realloc, TypeInv, TypeOK
    <3>1. plan' \in [Threads -> Env]
      <4>1. [plan[t] EXCEPT !.helper_vmid = Allocation(Owned).helper_vmid,
                            !.mgmt_ip = Allocation(Owned).mgmt_ip] \in Env
        BY <1>t, <1>h, <2>2 DEF Env
      <4> QED BY <3>0, <4>1 DEF TypeInv, TypeOK
    <3>2. TypeOK'
      BY <1>0, <1>2, <2>2, <3>1 DEF TypeInv, TypeOK, Realloc, Labels
    <3> QED BY <1>0, <1>2, <2>2, <3>2 DEF TypeInv, TypeOK, RowKnown, OnRow, Rowless, Realloc
  <2> QED BY <2>1, <2>2
<1>3. CASE Assign(t)
  <2>1. env' \in [Runs -> Env]
    <3>1. run[t] \in Runs
      BY <1>0, <1>3 DEF TypeInv, RowKnown, OnRow, Rowless, Assign
    <3>2. env[run[t]] \in Env
      BY <3>1 DEF TypeInv, TypeOK
    <3>3. [env[run[t]] EXCEPT !.helper_vmid = plan[t].helper_vmid, !.mgmt_ip = plan[t].mgmt_ip] \in Env
      BY <1>h, <3>2 DEF Env
    <3>4. env' \in {env, [env EXCEPT ![run[t]] =
            [env[run[t]] EXCEPT !.helper_vmid = plan[t].helper_vmid, !.mgmt_ip = plan[t].mgmt_ip]]}
      BY <1>3, <3>1 DEF Assign, TypeInv, TypeOK
    <3> QED BY <3>1, <3>3, <3>4 DEF TypeInv, TypeOK
  <2>2. TypeOK'
    BY <1>0, <1>3, <2>1 DEF TypeInv, TypeOK, Assign, Labels
  <2> QED BY <1>0, <1>3, <2>2 DEF TypeInv, TypeOK, RowKnown, OnRow, Rowless, Assign
<1>4. CASE Rehelper(t)
  <2>1. lxcs' \subseteq lxcs \cup {plan[t].helper_vmid} /\ plan[t].helper_vmid \in Nat
    BY <1>h, <1>4 DEF Rehelper, Env
  <2>2. TypeOK'
    BY <1>0, <1>4, <2>1 DEF TypeInv, TypeOK, Rehelper, Labels, Jobs
  <2> QED BY <1>0, <1>4, <2>2 DEF TypeInv, TypeOK, RowKnown, OnRow, Rowless, Rehelper
<1>5. CASE Reprobe(t)
  <2>1. TypeOK'
    BY <1>0, <1>5 DEF TypeInv, TypeOK, Reprobe, Labels, Executing, Jobs
  <2> QED BY <1>0, <1>5, <2>1 DEF TypeInv, TypeOK, RowKnown, OnRow, Rowless, Reprobe
<1>6. CASE Drop(t)
  <2>1. lxcs' \subseteq lxcs /\ faults' \in Nat
    BY <1>6 DEF TypeInv, TypeOK, Drop
  <2>2. run[t] \in Runs
    BY <1>0, <1>6 DEF TypeInv, RowKnown, OnRow, Rowless, Drop
  <2>3. env' \in [Runs -> Env]
    BY <1>6, <2>2, FreedTyped DEF Drop
  <2>4. TypeOK'
    BY <1>0, <1>6, <2>1, <2>3 DEF TypeInv, TypeOK, Drop, Labels, Jobs
  <2> QED BY <1>0, <1>6, <2>4 DEF TypeInv, TypeOK, RowKnown, OnRow, Rowless, Drop
<1>7. CASE Teardown(t) \/ Snapshot(t) \/ Reap(t) \/ Record(t)
  BY <1>0, <1>7, HealType DEF Heal
<1> QED BY <1>1, <1>2, <1>3, <1>4, <1>5, <1>6, <1>7 DEF Operator
\* ... of a queue handler, the host, the clock and a restart.
LEMMA HandlerType ==
  ASSUME TypeInv, Handler
  PROVE  TypeInv'
<1> USE DEF rowVars, hostVars, localVars, boundVars
<1>1. ASSUME NEW r \in Runs, Request(r) PROVE TypeInv'
  <2>1. HasActive \in BOOLEAN
    BY DEF HasActive
  <2>2. jobs' \in Nat
    BY <1>1, <2>1, HelperTypes DEF TypeInv, Request
  <2>3. TypeOK'
    BY <1>1, <2>2 DEF TypeInv, TypeOK, Request, Statuses
  <2> QED BY <1>1, <2>3 DEF TypeInv, TypeOK, RowKnown, OnRow, Request
<1>2. ASSUME NEW r \in Runs, DeleteRun(r) PROVE TypeInv'
  <2>1. TypeOK'
    BY <1>2 DEF TypeInv, TypeOK, DeleteRun, Statuses, Absent
  <2> QED BY <1>2, <2>1 DEF TypeInv, TypeOK, RowKnown, OnRow, DeleteRun
<1>3. ASSUME NEW r \in Runs, RequestCancel(r) PROVE TypeInv'
  BY <1>3 DEF TypeInv, TypeOK, RowKnown, OnRow, RequestCancel
<1> QED BY <1>1, <1>2, <1>3 DEF Handler

\* The end of the process and its resume keep the types.
LEMMA RestartType ==
  ASSUME TypeInv, Restart
  PROVE  TypeInv'
<1> USE DEF rowVars, hostVars, localVars, boundVars
<1> DEFINE left == {r \in Runs : status[r] = "running"}
           back == CHOOSE q \in left : TRUE
<1>0. NoEnv \in Env /\ (left # {} => back \in Runs)
  BY HelperTypes DEF TypeInv
<1>1. /\ pc' = [t \in Threads |-> IF t = "slot" /\ left # {} THEN "attach" ELSE "idle"]
      /\ job' = [t \in Threads |-> IF t = "slot" /\ left # {} THEN "resume" ELSE "recover"]
      /\ run' = [t \in Threads |-> IF t = "slot" /\ left # {} THEN back ELSE NoRun]
      /\ plan' = [t \in Threads |-> IF t = "slot" /\ left # {} THEN env[back] ELSE NoEnv]
      /\ seen' = [t \in Threads |-> {}]
      /\ pending' = {} /\ verdict' = "error" /\ jobs' = 0 /\ restarts' = restarts + 1
      /\ UNCHANGED <<rowVars, paused, hostVars, faults>>
  BY DEF Restart
<1> HIDE DEF left, back
<1>2. left # {} => env[back] \in Env
  BY <1>0 DEF TypeInv, TypeOK
<1>3. TypeOK'
  BY <1>0, <1>1, <1>2 DEF TypeInv, TypeOK, Labels, Executing, Jobs, Terminal
<1>4. RowKnown'
  BY <1>0, <1>1 DEF RowKnown, OnRow, Rowless
<1> QED BY <1>3, <1>4 DEF TypeInv

\* Every step keeps the types.
LEMMA NextType == TypeInv /\ [Next]_vars => TypeInv'
<1> SUFFICES ASSUME TypeInv, [Next]_vars PROVE TypeInv'
  OBVIOUS
<1> USE DEF rowVars, hostVars, localVars, boundVars
<1>1. CASE Slot
  <2>1. "slot" \in Threads
    BY DEF Threads
  <2> QED BY <1>1, <2>1, HealType, DrainType, PipelineType, ResumeType DEF Slot
<1>2. CASE Handler
  BY <1>2, HandlerType
<1>3. CASE SetPaused
  BY <1>3 DEF TypeInv, TypeOK, RowKnown, OnRow, SetPaused
<1>4. ASSUME NEW v \in copying, CopyEnds(v) PROVE TypeInv'
  <2>1. vms' \subseteq vms /\ copying' \subseteq copying
    BY <1>4 DEF CopyEnds
  <2> QED BY <1>4, <2>1 DEF TypeInv, TypeOK, RowKnown, OnRow, CopyEnds
<1>5. CASE Restart
  BY <1>5, RestartType
<1>6. CASE \E t \in Healers : Healer(t)
  BY <1>6, HealerType
<1>7. CASE \E t \in Operators : Operator(t)
  BY <1>7, OperatorType
<1>8. ASSUME NEW r \in Runs, GraceOver(r) PROVE TypeInv'
  BY <1>8 DEF TypeInv, TypeOK, RowKnown, OnRow, GraceOver
<1>9. CASE UNCHANGED vars
  BY <1>9 DEF vars, TypeInv, TypeOK, RowKnown, OnRow
<1> QED BY <1>1, <1>2, <1>3, <1>4, <1>5, <1>6, <1>7, <1>8, <1>9 DEF Next, Host

\* Every column, host set and thread variable keeps its type, and a thread that
\* works on a row has one, whatever the threads, the host and restarts do.
THEOREM TypeCorrect == Spec => [](TypeOK /\ RowKnown)
<1>1. TypeInv => TypeOK /\ RowKnown
  BY DEF TypeInv
<1> QED BY <1>1, InitType, NextType, PTL DEF Spec
=============================================================================
