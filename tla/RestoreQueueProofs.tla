------------------------- MODULE RestoreQueueProofs -------------------------
(* The safety of the restore queue for any number of rows, VMIDs, operators,   *)
(* outages and restarts: one running row, the lifecycle of RunLifecycle,       *)
(* sandboxes that are never shared, held guests the executor spares, evidence  *)
(* only of tests that ended as one, whole environments that are never shared   *)
(* and a host on which nothing is left that no row owns.                       *)
EXTENDS RestoreQueueTypes

-----------------------------------------------------------------------------
(* The strengthening.                                                          *)

\* The slot works on a row it started, resumes or recovers.
Busy(t) == OnRow(t) /\ ~(t = "slot" /\ pc[t] = "planned")

\* Between drain's has_active_run and the start of the row it chose nobody else
\* makes a row running.
SlotAlone == pc["slot"] \in {"pick", "planned"} => ~HasActive

\* What drain listed is still queued, or deleted since.
PendingQueued ==
    /\ pc["slot"] = "pick" => \A r \in pending : status[r] \in {"queued", "deleted"}
    /\ pc["slot"] = "planned" => status[run["slot"]] \in {"queued", "deleted"}

\* Every other thread with a row has one that left the queue.
RowLeft == \A t \in Threads : Busy(t) => status[run[t]] \in RL!Left \cup {"deleted"}

RowInv == SingleRunning /\ SlotAlone /\ PendingQueued /\ RowLeft

Apart(e, f) == e.restore_vmid # f.restore_vmid /\ e.vlan_tag # f.vlan_tag

\* The sandbox the slot planned belongs to no live row, and stays its own until
\* the slot is done with the row: only the slot hands out restore VMs and VLANs.
SlotOwns ==
    /\ pc["slot"] = "planned" => \A r \in Runs : status[r] \in Live => Apart(env[r], plan["slot"])
    /\ Busy("slot") /\ status[run["slot"]] # "deleted" =>
         \A r \in Runs : r # run["slot"] /\ status[r] \in Live => Apart(env[r], env[run["slot"]])

SandboxInv == SandboxesDistinct /\ SlotOwns
-----------------------------------------------------------------------------
(* Most steps leave the rows' statuses and sandboxes alone and let no thread   *)
(* take up another row.                                                        *)

Quiet ==
    /\ UNCHANGED status
    /\ \A r \in Runs : env'[r].restore_vmid = env[r].restore_vmid /\ env'[r].vlan_tag = env[r].vlan_tag
    /\ \A t \in Threads : OnRow(t)' => OnRow(t) /\ run'[t] = run[t]
    /\ pc'["slot"] = "pick" => pc["slot"] = "pick" /\ pending' \subseteq pending
    /\ OnRow("slot")' => (pc'["slot"] = "planned" <=> pc["slot"] = "planned")
    /\ pc'["slot"] = "planned" => plan'["slot"] = plan["slot"]

\* Of the recovery's steps only the one that judges and the one that writes touch a row.
LEMMA HealQuiet ==
  ASSUME TypeInv, NEW t \in Threads, Heal(t), ~ScanRunning(t), ~Record(t)
  PROVE  Quiet
<1> USE DEF Goto, Return, rowVars, hostVars, localVars, boundVars, TypeInv, TypeOK, Quiet, OnRow, Rowless
<1>0. AfterRecover(t) \in {"enqueue", "orphans", "kick"}
  BY DEF AfterRecover
<1>1. CASE ScanNone(t)
  BY <1>0, <1>1 DEF ScanNone
<1>2. CASE LeaveRunning(t)
  BY <1>0, <1>2 DEF LeaveRunning
<1>3. CASE DeclareStuck(t)
  BY <1>3 DEF DeclareStuck
<1>4. CASE Teardown(t)
  BY <1>4 DEF Teardown
<1>5. CASE Snapshot(t)
  BY <1>5 DEF Snapshot
<1>6. CASE Reap(t)
  BY <1>6 DEF Reap
<1> QED BY <1>1, <1>2, <1>3, <1>4, <1>5, <1>6 DEF Heal

\* So it is for the watchdog and the hourly loop, which also sweep, kick and enqueue.
LEMMA HealerQuiet ==
  ASSUME TypeInv, NEW t \in Healers, Healer(t), ~ScanRunning(t), ~Record(t)
  PROVE  Quiet
<1> USE DEF Goto, Return, rowVars, hostVars, localVars, boundVars, TypeInv, TypeOK, Quiet, OnRow, Rowless
<1>0. t \in Threads /\ t # "slot"
  BY QueueAssumption DEF Threads
<1>1. CASE Heal(t)
  BY <1>0, <1>1, HealQuiet
<1>2. CASE Kick(t)
  BY <1>0, <1>2 DEF Kick
<1>3. CASE t = "watchdog" /\ Orphans
  BY <1>0, <1>3 DEF Orphans
<1>4. CASE t = "watchdog" /\ SweepOrphans
  BY <1>0, <1>4 DEF SweepOrphans
<1> QED BY <1>1, <1>2, <1>3, <1>4 DEF Healer

\* A drain that fails, stops, waits or skips a row leaves the rows' statuses alone.
LEMMA DrainQuiet ==
  ASSUME TypeInv, QueueFails \/ DrainStop \/ DrainWait \/ \E r \in Runs : Skip(r)
  PROVE  Quiet
<1> USE DEF Goto, rowVars, hostVars, localVars, boundVars, TypeInv, TypeOK, Quiet, OnRow, Rowless
<1>0. "slot" \in Threads
  BY DEF Threads
<1>1. CASE QueueFails
  BY <1>0, <1>1 DEF QueueFails
<1>2. CASE DrainStop
  BY <1>0, <1>2 DEF DrainStop
<1>3. CASE DrainWait
  BY <1>0, <1>3 DEF DrainWait
<1>4. ASSUME NEW r \in Runs, Skip(r) PROVE Quiet
  BY <1>4 DEF Skip
<1> QED BY <1>1, <1>2, <1>3, <1>4

\* The worker changes no status before it records its result or parks the guest.
LEMMA PipelineQuiet ==
  ASSUME TypeInv, Pipeline, ~Park
  PROVE  Quiet
<1> USE DEF Goto, rowVars, hostVars, boundVars, pipelineSame
<1>0. "slot" \in Threads /\ "slot" # "watchdog"
  BY DEF Threads
<1>c. \A result \in Terminal : Conclude(result) =>
        /\ pc' = [pc EXCEPT !["slot"] = pc'["slot"]] /\ pc'["slot"] \in {"discard", "teardown"}
  BY ConcludeType
<1>e. {"error", "cancelled", "passed", "limited", "failed"} = Terminal
  BY DEF Terminal
<1>r. TypeOK
  BY DEF TypeInv
\* A step of the slot from one place of the pipeline to another.
<1>q. ASSUME pc["slot"] \in Executing, pc' = [pc EXCEPT !["slot"] = pc'["slot"]], pc'["slot"] \in Executing,
             UNCHANGED <<status, env, run>>
      PROVE  Quiet
  BY <1>0, <1>q, <1>r DEF TypeOK, Quiet, OnRow, Rowless, Executing
<1>1. CASE SweepBefore
  <2>1. pc' = [pc EXCEPT !["slot"] = pc'["slot"]] /\ pc'["slot"] \in {"helper", "discard", "teardown"}
    BY <1>0, <1>c, <1>e, <1>r, <1>1 DEF TypeOK, SweepBefore
  <2> QED BY <1>q, <1>1, <2>1 DEF SweepBefore, Executing
<1>2. CASE Provision
  <2>1. pc' = [pc EXCEPT !["slot"] = pc'["slot"]] /\ pc'["slot"] \in {"restore", "discard", "teardown"}
    BY <1>0, <1>c, <1>e, <1>r, <1>2 DEF TypeOK, Provision
  <2> QED BY <1>q, <1>2, <2>1 DEF Provision, Executing
<1>3. CASE StartRestore
  <2>1. pc' = [pc EXCEPT !["slot"] = pc'["slot"]] /\ pc'["slot"] \in {"copy", "discard", "teardown"}
    BY <1>0, <1>c, <1>e, <1>r, <1>3 DEF TypeOK, StartRestore
  <2> QED BY <1>q, <1>3, <2>1 DEF StartRestore, Executing
<1>4. CASE StartDistributed
  <2>1. pc' = [pc EXCEPT !["slot"] = pc'["slot"]] /\ pc'["slot"] = "copy"
    BY <1>0, <1>r, <1>4 DEF TypeOK, StartDistributed
  <2> QED BY <1>q, <1>4, <2>1 DEF StartDistributed, Executing
<1>5. CASE Restored
  <2>1. pc' = [pc EXCEPT !["slot"] = pc'["slot"]] /\ pc'["slot"] = "probe"
    BY <1>0, <1>r, <1>5 DEF TypeOK, Restored
  <2> QED BY <1>q, <1>5, <2>1 DEF Restored, Executing
<1>6. CASE Abort
  <2>1. pc' = [pc EXCEPT !["slot"] = pc'["slot"]] /\ pc'["slot"] \in {"discard", "teardown"}
    BY <1>c, <1>e, <1>6 DEF Abort
  <2> QED BY <1>q, <1>6, <2>1 DEF Abort, Executing
<1>7. CASE Break
  <2>1. pc' = [pc EXCEPT !["slot"] = pc'["slot"]] /\ pc'["slot"] \in {"discard", "teardown"}
    BY <1>c, <1>e, <1>7 DEF Break
  <2> QED BY <1>q, <1>7, <2>1 DEF Break, Executing
<1>8. ASSUME NEW result \in Terminal, Probed(result) PROVE Quiet
  <2>1. pc' = [pc EXCEPT !["slot"] = pc'["slot"]] /\ pc'["slot"] \in {"discard", "teardown"}
    BY <1>c, <1>8 DEF Probed
  <2> QED BY <1>q, <1>8, <2>1 DEF Probed, Executing
<1>9. CASE Discard
  <2>1. pc' = [pc EXCEPT !["slot"] = pc'["slot"]] /\ pc'["slot"] = "park"
    BY <1>0, <1>r, <1>9 DEF TypeOK, Discard
  <2> QED BY <1>q, <1>9, <2>1 DEF Discard, Executing, localSame, resumeSame
<1>10. CASE Unhold
  <2>1. AfterRun \in {"top", "idle"}
    BY DEF AfterRun
  <2>2. \A r \in Runs : env'[r].restore_vmid = env[r].restore_vmid /\ env'[r].vlan_tag = env[r].vlan_tag
    BY <1>r, <1>10 DEF TypeOK, Env, Unhold, FreeHelperColumns
  <2> QED BY <1>0, <1>r, <1>10, <2>1, <2>2 DEF TypeOK, Unhold, Return, Quiet, OnRow, Rowless
<1> QED BY <1>1, <1>2, <1>3, <1>4, <1>5, <1>6, <1>7, <1>8, <1>9, <1>10 DEF Pipeline

\* A resume changes no status before it records its result.
LEMMA ResumeQuiet ==
  ASSUME TypeInv, Resume
  PROVE  Quiet
<1> USE DEF rowVars, resumeSame, localSame
<1>0. "slot" \in Threads /\ "slot" # "watchdog" /\ "error" \in Terminal
  BY DEF Threads, Terminal
<1>c. Conclude("error") =>
        /\ pc' = [pc EXCEPT !["slot"] = pc'["slot"]] /\ pc'["slot"] \in {"discard", "teardown"}
  BY <1>0, ConcludeType
<1>r. TypeOK
  BY DEF TypeInv
<1>1. /\ pc["slot"] \in Executing /\ UNCHANGED <<status, env>>
      /\ \/ leave
         \/ /\ pc' = [pc EXCEPT !["slot"] = pc'["slot"]] /\ pc'["slot"] \in Executing
            /\ UNCHANGED run
  <2>1. CASE Reattach
    BY <1>0, <1>r, <2>1 DEF TypeOK, Reattach, Executing, Goto
  <2>2. CASE PollEnd
    BY <1>0, <1>c, <1>r, <2>2 DEF TypeOK, PollEnd, Executing, Goto
  <2>3. CASE PollLost
    BY <2>3 DEF PollLost, Executing
  <2>4. CASE Unlocked
    BY <1>0, <1>r, <2>4 DEF TypeOK, Unlocked, Executing, Goto
  <2>5. CASE StillLocked
    BY <2>5 DEF StillLocked, Executing
  <2>6. CASE ResumeTail
    BY <1>0, <1>c, <1>r, <2>6 DEF TypeOK, ResumeTail, Executing, Goto
  <2> QED BY <2>1, <2>2, <2>3, <2>4, <2>5, <2>6 DEF Resume
<1>2. CASE leave
  BY <1>0, <1>r, <1>1, <1>2 DEF TypeOK, leave, Return, Goto, Quiet, OnRow, Rowless
<1>3. CASE ~leave
  BY <1>0, <1>r, <1>1, <1>3 DEF TypeOK, Quiet, OnRow, Rowless, Executing
<1> QED BY <1>2, <1>3

\* A re-test changes the environment of its row, not its status.
LEMMA OperatorQuiet ==
  ASSUME TypeInv, NEW t \in Operators, Realloc(t) \/ Assign(t) \/ Rehelper(t) \/ Reprobe(t) \/ Drop(t)
  PROVE  Quiet
<1> USE DEF rowVars
<1>0. t \in Threads /\ "slot" \in Threads /\ t # "slot" /\ t # "watchdog"
  BY QueueAssumption DEF Threads
<1>r. TypeOK
  BY DEF TypeInv
<1>1. /\ UNCHANGED <<status, pending>> /\ plan'["slot"] = plan["slot"]
      /\ pc[t] \in {"realloc", "assign", "rehelper", "reprobe", "drop"}
      /\ \A r \in Runs : env'[r].restore_vmid = env[r].restore_vmid /\ env'[r].vlan_tag = env[r].vlan_tag
      /\ \/ Return(t, "idle")
         \/ /\ pc' = [pc EXCEPT ![t] = pc'[t]] /\ UNCHANGED run
  <2>1. CASE Realloc(t)
    BY <1>0, <1>r, <2>1 DEF TypeOK, Realloc, Goto, Return
  <2>2. CASE Assign(t)
    <3>1. \A r \in Runs : env'[r].restore_vmid = env[r].restore_vmid /\ env'[r].vlan_tag = env[r].vlan_tag
      BY <1>r, <2>2 DEF TypeOK, Env, Assign
    <3> QED BY <1>0, <1>r, <2>2, <3>1 DEF TypeOK, Assign, Goto
  <2>3. CASE Rehelper(t)
    BY <1>0, <1>r, <2>3 DEF TypeOK, Rehelper, Goto, Return
  <2>4. CASE Reprobe(t)
    BY <1>0, <1>r, <2>4 DEF TypeOK, Reprobe, Goto, Return
  <2>5. CASE Drop(t)
    <3>1. \A r \in Runs : env'[r].restore_vmid = env[r].restore_vmid /\ env'[r].vlan_tag = env[r].vlan_tag
      BY <1>r, <2>5 DEF TypeOK, Env, Drop, FreeHelperColumns
    <3> QED BY <1>0, <1>r, <2>5, <3>1 DEF TypeOK, Drop, Return
  <2> QED BY <2>1, <2>2, <2>3, <2>4, <2>5
<1>2. CASE Return(t, "idle")
  BY <1>0, <1>r, <1>1, <1>2 DEF TypeOK, Return, Goto, Quiet, OnRow, Rowless
<1>3. CASE ~Return(t, "idle")
  BY <1>0, <1>r, <1>1, <1>3 DEF TypeOK, Quiet, OnRow, Rowless
<1> QED BY <1>2, <1>3
\* The steps that are not quiet.
LEMMA StepCases ==
  ASSUME TypeInv, [Next]_vars, ~Quiet
  PROVE  \/ Start \/ DrainList \/ EnqueueDue \/ Park \/ Restart
         \/ \E r \in Runs : Choose(r) \/ Refuse(r) \/ Request(r) \/ DeleteRun(r)
         \/ \E t \in Threads : ScanRunning(t) \/ Record(t)
         \/ \E t \in Operators, r \in Runs, action \in {"promote", "reap", "retest"} : HeldAction(t, r, action)
<1> USE DEF rowVars, hostVars, localVars, boundVars
<1>0. "slot" \in Threads /\ Healers \subseteq Threads /\ Operators \subseteq Threads
  BY DEF Threads
<1>1. CASE Slot
  BY <1>0, <1>1, HealQuiet, DrainQuiet, PipelineQuiet, ResumeQuiet DEF Slot, Drain
<1>2. CASE Handler
  <2>1. ASSUME NEW r \in Runs, RequestCancel(r) PROVE Quiet
    BY <2>1 DEF RequestCancel, Quiet, OnRow
  <2> QED BY <1>2, <2>1 DEF Handler
<1>3. CASE SetPaused
  BY <1>3 DEF SetPaused, Quiet, OnRow
<1>4. CASE Host
  BY <1>4 DEF Host, CopyEnds, Quiet, OnRow
<1>5. CASE Restart
  BY <1>5
<1>6. CASE \E t \in Healers : Healer(t)
  BY <1>0, <1>6, HealerQuiet
<1>7. CASE \E t \in Operators : Operator(t)
  <2>1. ASSUME NEW t \in Operators, Teardown(t) \/ Snapshot(t) \/ Reap(t) \/ Record(t) PROVE Quiet \/ Record(t)
    <3>1. Heal(t) /\ ~ScanRunning(t)
      BY <2>1 DEF Heal, Teardown, Snapshot, Reap, Record, ScanRunning, Wakes
    <3> QED BY <1>0, <3>1, HealQuiet
  <2> QED BY <1>0, <1>7, <2>1, OperatorQuiet DEF Operator
<1>8. CASE \E r \in Runs : GraceOver(r)
  BY <1>8 DEF GraceOver, Quiet, OnRow
<1>9. CASE UNCHANGED vars
  BY <1>9 DEF vars, Quiet, OnRow
<1> QED BY <1>1, <1>2, <1>3, <1>4, <1>5, <1>6, <1>7, <1>8, <1>9 DEF Next

\* A verdict or a parking written late changes nothing but a row that left the queue.
LEMMA WriteLeft ==
  ASSUME TypeInv, RowInv, NEW t \in Threads, Busy(t), NEW s \in Terminal \cup {"held"},
         status' = SetStatus(run[t], s)
  PROVE  /\ run[t] \in Runs
         /\ \A r \in Runs : \/ status'[r] = status[r]
                            \/ r = run[t] /\ status[r] \in RL!Left /\ status'[r] = s
<1>1. run[t] \in Runs
  BY DEF TypeInv, RowKnown, Busy
<1>2. status[run[t]] \in RL!Left \cup {"deleted"}
  BY DEF RowInv, RowLeft
<1> QED BY <1>1, <1>2 DEF SetStatus, Absent, TypeInv, TypeOK

\* What a thread writes at the end of a run, and what it leaves alone.
LEMMA Written ==
  ASSUME TypeInv, NEW t \in Threads, Record(t) \/ (t = "slot" /\ Park)
  PROVE  /\ Busy(t) /\ \E s \in Terminal \cup {"held"} : status' = SetStatus(run[t], s)
         /\ UNCHANGED <<env, pending>>
         /\ \A q \in Threads : OnRow(q)' => OnRow(q) /\ run'[q] = run[q]
         /\ pc'["slot"] \in {"pick", "planned"} => pc'["slot"] = pc["slot"] /\ plan'["slot"] = plan["slot"]
         /\ Busy("slot")' => Busy("slot")
<1> USE DEF rowVars, hostVars
<1>0. "slot" \in Threads /\ "slot" # "watchdog"
  BY DEF Threads
<1>r. TypeOK
  BY DEF TypeInv
<1>1. CASE Record(t)
  <2>1. Outcomes(t) \subseteq Terminal
    BY <1>r DEF TypeOK, Outcomes, Terminal
  <2>2. AfterRecord(t) \in {"enqueue", "orphans", "kick", "top", "idle"}
    BY DEF AfterRecord, AfterRecover, AfterRun
  <2>3. pc[t] = "record" /\ Return(t, AfterRecord(t)) /\ UNCHANGED <<env, pending>>
    BY <1>1 DEF Record
  <2>4. \E s \in Terminal \cup {"held"} : status' = SetStatus(run[t], s)
    BY <1>1, <2>1 DEF Record
  <2> QED BY <1>0, <1>r, <2>2, <2>3, <2>4 DEF TypeOK, Return, Goto, Busy, OnRow, Rowless
<1>2. CASE t = "slot" /\ Park
  BY <1>0, <1>r, <1>2 DEF TypeOK, Park, Goto, Busy, OnRow, Rowless
<1> QED BY <1>1, <1>2
-----------------------------------------------------------------------------
(* One running row.                                                            *)

\* No row runs at the start.
LEMMA RowInit == Init => RowInv
<1> SUFFICES ASSUME Init PROVE RowInv
  OBVIOUS
<1>1. /\ \A r \in Runs : status[r] = "none"
      /\ \A t \in Threads : pc[t] = "idle"
      /\ "slot" \in Threads
  BY DEF Init, Threads
<1> QED BY <1>1 DEF RowInv, SingleRunning, SlotAlone, PendingQueued, RowLeft, Busy, OnRow, Rowless

\* Every step keeps one row running at most.
LEMMA RowNext ==
  ASSUME TypeInv, RowInv, [Next]_vars
  PROVE  RowInv'
<1> USE DEF rowVars, hostVars, localVars, boundVars, RowInv
<1>0. "slot" \in Threads /\ "slot" # "watchdog" /\ Operators \subseteq Threads /\ "slot" \notin Operators
  BY QueueAssumption DEF Threads
<1>r. TypeOK /\ RowKnown
  BY DEF TypeInv
<1>L. RL!Left = {"running", "held", "passed", "limited", "failed", "error", "cancelled"}
  BY DEF RL!Left, RL!Terminal
<1>1. CASE Quiet
  <2>1. SingleRunning' /\ SlotAlone'
    BY <1>1 DEF Quiet, SingleRunning, SlotAlone, HasActive, OnRow, Rowless
  <2>2. PendingQueued'
    BY <1>0, <1>1 DEF Quiet, PendingQueued, OnRow, Rowless
  <2>3. RowLeft'
    BY <1>1 DEF Quiet, RowLeft, Busy
  <2> QED BY <2>1, <2>2, <2>3
<1>2. ASSUME NEW t \in Threads, Record(t) \/ (t = "slot" /\ Park) PROVE RowInv'
  <2>1. PICK s \in Terminal \cup {"held"} : Busy(t) /\ status' = SetStatus(run[t], s)
    BY <1>2, Written
  <2>2. \A r \in Runs : \/ status'[r] = status[r]
                        \/ status[r] \in RL!Left /\ status'[r] = s
    BY <2>1, WriteLeft
  <2>3. s \in RL!Left /\ s # "running"
    BY <1>L DEF Terminal
  <2>4. SingleRunning' /\ SlotAlone'
    BY <1>2, <2>2, <2>3, Written DEF SingleRunning, SlotAlone, HasActive
  <2>5. PendingQueued'
    BY <1>0, <1>r, <1>2, <1>L, <2>2, Written DEF PendingQueued, TypeOK, OnRow, Rowless, RowKnown
  <2>6. RowLeft'
    BY <1>2, <1>r, <2>2, <2>3, Written DEF RowLeft, Busy, RowKnown
  <2> QED BY <2>4, <2>5, <2>6
<1>3. CASE Start
  <2>0. /\ run["slot"] \in Runs /\ pc["slot"] = "planned" /\ pc' = [pc EXCEPT !["slot"] = "clean"]
        /\ status' = SetStatus(run["slot"], "running") /\ UNCHANGED run
    BY <1>0, <1>3, <1>r DEF Start, Goto, RowKnown, OnRow, Rowless
  <2>1. \A r \in Runs : status[r] # "running"
    BY <2>0 DEF SlotAlone, HasActive
  <2>2. \A r \in Runs : status'[r] = status[r] \/ (r = run["slot"] /\ status'[r] = "running")
    BY <1>r, <2>0 DEF SetStatus, TypeOK
  <2>3. pc'["slot"] = "clean" /\ \A t \in Threads \ {"slot"} : pc'[t] = pc[t]
    BY <1>0, <1>r, <2>0 DEF TypeOK
  <2>4. SingleRunning' /\ SlotAlone' /\ PendingQueued'
    BY <2>0, <2>1, <2>2, <2>3 DEF SingleRunning, SlotAlone, PendingQueued
  <2>5. status'[run["slot"]] \in {"running", "deleted"}
    BY <1>r, <2>0 DEF SetStatus, PendingQueued, TypeOK, Absent
  <2>6. RowLeft'
    BY <1>0, <1>r, <1>L, <2>0, <2>2, <2>3, <2>5 DEF RowLeft, Busy, OnRow, RowKnown
  <2> QED BY <2>4, <2>6
<1>4. CASE DrainList
  <2>0. /\ pc["slot"] = "top" /\ ~HasActive /\ UNCHANGED <<status, run>>
        /\ pc' = [pc EXCEPT !["slot"] = "pick"] /\ \A r \in pending' : status[r] = "queued"
    BY <1>4 DEF DrainList, Goto
  <2>1. pc'["slot"] = "pick" /\ \A t \in Threads \ {"slot"} : pc'[t] = pc[t]
    BY <1>0, <1>r, <2>0 DEF TypeOK
  <2> QED BY <1>0, <2>0, <2>1 DEF SingleRunning, SlotAlone, HasActive, PendingQueued, RowLeft, Busy, OnRow, Rowless
<1>5. CASE EnqueueDue
  <2>0. /\ UNCHANGED run /\ pc' = [pc EXCEPT !["slot"] = "top"]
        /\ \A r \in Runs : status'[r] = status[r] \/ (status[r] = "none" /\ status'[r] = "queued")
    BY <1>5 DEF EnqueueDue, Goto
  <2>1. pc'["slot"] = "top" /\ \A t \in Threads \ {"slot"} : pc'[t] = pc[t]
    BY <1>0, <1>r, <2>0 DEF TypeOK
  <2> QED BY <1>0, <1>r, <1>L, <2>0, <2>1
          DEF SingleRunning, SlotAlone, PendingQueued, RowLeft, Busy, OnRow, Rowless, RowKnown
<1>6. CASE Restart
  <2>0. UNCHANGED status /\ \A t \in Threads : pc'[t] = "idle" \/ (pc'[t] = "attach" /\ status[run'[t]] = "running")
    BY <1>6 DEF Restart
  <2> QED BY <1>0, <1>L, <2>0 DEF SingleRunning, SlotAlone, PendingQueued, RowLeft, Busy, OnRow, Rowless
<1>7. ASSUME NEW r \in Runs, Choose(r) PROVE RowInv'
  <2>0. /\ UNCHANGED status /\ pc["slot"] = "pick" /\ r \in pending
        /\ pc' = [pc EXCEPT !["slot"] = "planned"] /\ run' = [run EXCEPT !["slot"] = r]
    BY <1>7 DEF Choose, Goto
  <2>1. /\ pc'["slot"] = "planned" /\ run'["slot"] = r
        /\ \A t \in Threads \ {"slot"} : pc'[t] = pc[t] /\ run'[t] = run[t]
    BY <1>0, <1>r, <2>0 DEF TypeOK
  <2> QED BY <1>0, <2>0, <2>1 DEF SingleRunning, SlotAlone, HasActive, PendingQueued, RowLeft, Busy, OnRow, Rowless
<1>8. ASSUME NEW r \in Runs, Refuse(r) PROVE RowInv'
  <2>0. /\ pc["slot"] = "pick" /\ r \in pending /\ UNCHANGED <<pc, run>> /\ pending' = pending \ {r}
        /\ status' = SetStatus(r, "error")
    BY <1>8 DEF Refuse
  <2>1. status[r] \in {"queued", "deleted"}
    BY <2>0 DEF PendingQueued
  <2>2. /\ \A q \in Runs \ {r} : status'[q] = status[q]
        /\ status'[r] \in {"error", "deleted"}
    BY <1>r, <2>0, <2>1 DEF SetStatus, TypeOK, Absent
  <2>3. SingleRunning' /\ SlotAlone'
    BY <2>0, <2>2 DEF SingleRunning, SlotAlone, HasActive
  <2>4. PendingQueued'
    BY <1>r, <2>0, <2>2 DEF PendingQueued, TypeOK
  <2>5. RowLeft'
    BY <1>r, <1>L, <2>0, <2>2 DEF RowLeft, Busy, OnRow, RowKnown
  <2> QED BY <2>3, <2>4, <2>5
<1>9. ASSUME NEW r \in Runs, Request(r) \/ DeleteRun(r) PROVE RowInv'
  <2>0. UNCHANGED <<pc, run, pending>>
    BY <1>9 DEF Request, DeleteRun
  <2>1. \A q \in Runs : \/ status'[q] = status[q]
                        \/ status[q] = "none" /\ status'[q] = "queued"
                        \/ status[q] = "queued" /\ status'[q] = "deleted"
    BY <1>r, <1>9 DEF Request, DeleteRun, TypeOK
  <2>2. SingleRunning' /\ SlotAlone'
    BY <2>0, <2>1 DEF SingleRunning, SlotAlone, HasActive
  <2>3. PendingQueued'
    BY <1>0, <1>r, <2>0, <2>1 DEF PendingQueued, TypeOK, RowKnown, OnRow, Rowless
  <2>4. RowLeft'
    BY <1>r, <1>L, <2>0, <2>1 DEF RowLeft, Busy, OnRow, RowKnown
  <2> QED BY <2>2, <2>3, <2>4
<1>10. ASSUME NEW t \in Threads, ScanRunning(t) PROVE RowInv'
  <2>0. PICK r \in Runs : status[r] = "running" /\ run' = [run EXCEPT ![t] = r]
    BY <1>10 DEF ScanRunning
  <2>1. UNCHANGED <<status, pending>> /\ pc' = [pc EXCEPT ![t] = "present"]
    BY <1>10 DEF ScanRunning, Goto
  <2> QED BY <1>r, <1>L, <2>0, <2>1
          DEF TypeOK, SingleRunning, SlotAlone, HasActive, PendingQueued, RowLeft, Busy, OnRow
<1>11. ASSUME NEW t \in Operators, NEW r \in Runs, NEW action \in {"promote", "reap", "retest"},
              HeldAction(t, r, action)
       PROVE  RowInv'
  <2>1. /\ UNCHANGED <<status, pending>> /\ status[r] = "held" /\ run' = [run EXCEPT ![t] = r]
        /\ pc' = [pc EXCEPT ![t] = pc'[t]]
    BY <1>11 DEF HeldAction, Goto
  <2>2. t # "slot" /\ t \in Threads
    BY <1>0
  <2> QED BY <1>0, <1>r, <1>L, <2>1, <2>2
          DEF TypeOK, SingleRunning, SlotAlone, HasActive, PendingQueued, RowLeft, Busy, OnRow
<1> QED BY <1>0, <1>1, <1>2, <1>3, <1>4, <1>5, <1>6, <1>7, <1>8, <1>9, <1>10, <1>11, StepCases

\* One row runs at most in every reachable state.
LEMMA RowCorrect == Spec => [](TypeInv /\ RowInv)
<1>1. TypeInv /\ RowInv /\ [Next]_vars => (TypeInv /\ RowInv)'
  BY NextType, RowNext
<1> QED BY <1>1, InitType, RowInit, PTL DEF Spec

\* One row is running at most, whatever the worker, a resume, the healers, the
\* operators and restarts do in between (drain, resume_run, recover_stuck_runs).
THEOREM OneRunning == Spec => []SingleRunning
<1>1. TypeInv /\ RowInv => SingleRunning
  BY DEF RowInv
<1> QED BY <1>1, RowCorrect, PTL
-----------------------------------------------------------------------------
(* The lifecycle of a row.                                                     *)

\* The queue starts as RunLifecycle does.
LEMMA LifecycleInit == Init => RL!Init
BY DEF Init, RL!Init

\* Every step of the queue is one of RunLifecycle, or changes no status.
LEMMA LifecycleNext ==
  ASSUME TypeInv, RowInv, [Next]_vars
  PROVE  [RL!Next]_status
<1> USE DEF rowVars, hostVars, localVars, boundVars
<1>0. "slot" \in Threads /\ "slot" # "watchdog"
  BY DEF Threads
<1>r. status \in [Runs -> Statuses] /\ RowKnown
  BY DEF TypeInv, TypeOK
<1>T. RL!Terminal = Terminal /\ RL!Statuses = Statuses
  BY DEF RL!Terminal, Terminal, RL!Statuses, Statuses, Absent, Live
<1>1. CASE Quiet
  BY <1>1 DEF Quiet
<1>2. ASSUME NEW t \in Threads, Record(t) \/ (t = "slot" /\ Park) PROVE [RL!Next]_status
  <2>1. PICK s \in Terminal \cup {"held"} : Busy(t) /\ status' = SetStatus(run[t], s)
    BY <1>2, Written
  <2>2. run[t] \in Runs /\ status[run[t]] \in RL!Left \cup {"deleted"}
    BY <1>r, <2>1 DEF RowInv, RowLeft, RowKnown, Busy
  <2>3. CASE status[run[t]] \in Absent
    BY <2>1, <2>3 DEF SetStatus
  <2>4. CASE status[run[t]] \notin Absent
    <3>1. RL!Conclude(run[t], s)
      BY <1>T, <2>1, <2>2, <2>4 DEF SetStatus, Absent, RL!Conclude
    <3>2. s \in RL!Statuses
      BY <1>T DEF Statuses, Live
    <3> QED BY <2>2, <3>1, <3>2 DEF RL!Next
  <2> QED BY <2>3, <2>4
<1>3. CASE Start
  <2>1. run["slot"] \in Runs /\ pc["slot"] = "planned" /\ status' = SetStatus(run["slot"], "running")
    BY <1>0, <1>3, <1>r DEF Start, RowKnown, OnRow, Rowless
  <2>2. status[run["slot"]] \in {"queued", "deleted"} /\ \A q \in Runs : status[q] # "running"
    BY <2>1 DEF RowInv, PendingQueued, SlotAlone, HasActive
  <2>3. CASE status[run["slot"]] = "deleted"
    BY <2>1, <2>3 DEF SetStatus, Absent
  <2>4. CASE status[run["slot"]] = "queued"
    <3>1. RL!Begin(run["slot"])
      BY <2>1, <2>2, <2>4 DEF SetStatus, Absent, RL!Begin
    <3> QED BY <2>1, <3>1 DEF RL!Next
  <2> QED BY <2>2, <2>3, <2>4
<1>4. CASE EnqueueDue
  <2>1. PICK S \in SUBSET {r \in Runs : status[r] = "none"} :
          status' = [r \in Runs |-> IF r \in S THEN "queued" ELSE status[r]]
    BY <1>4 DEF EnqueueDue
  <2>2. CASE S = {}
    BY <1>r, <2>1, <2>2
  <2>3. CASE S # {}
    <3>1. RL!Enqueue(S) /\ S \in SUBSET Runs
      BY <2>1, <2>3 DEF RL!Enqueue
    <3> QED BY <3>1 DEF RL!Next
  <2> QED BY <2>2, <2>3
<1>5. ASSUME NEW r \in Runs, Request(r) PROVE [RL!Next]_status
  <2>1. status[r] = "none" /\ status' = [status EXCEPT ![r] = "queued"]
    BY <1>5 DEF Request
  <2>2. status' = [q \in Runs |-> IF q \in {r} THEN "queued" ELSE status[q]]
    BY <1>r, <2>1
  <2>3. RL!Enqueue({r}) /\ {r} \in SUBSET Runs
    BY <2>1, <2>2 DEF RL!Enqueue
  <2> QED BY <2>3 DEF RL!Next
<1>6. ASSUME NEW r \in Runs, DeleteRun(r) PROVE [RL!Next]_status
  <2>1. RL!Withdraw(r, "deleted") /\ "deleted" \in RL!Statuses
    BY <1>6 DEF DeleteRun, RL!Withdraw, RL!Statuses
  <2> QED BY <2>1 DEF RL!Next
<1>7. ASSUME NEW r \in Runs, Refuse(r) PROVE [RL!Next]_status
  <2>1. status[r] \in {"queued", "deleted"} /\ status' = SetStatus(r, "error")
    BY <1>7 DEF Refuse, RowInv, PendingQueued
  <2>2. CASE status[r] = "deleted"
    BY <2>1, <2>2 DEF SetStatus, Absent
  <2>3. CASE status[r] = "queued"
    <3>1. RL!Withdraw(r, "error") /\ "error" \in RL!Statuses
      BY <2>1, <2>3 DEF SetStatus, Absent, RL!Withdraw, RL!Statuses, RL!Terminal
    <3> QED BY <3>1 DEF RL!Next
  <2> QED BY <2>1, <2>2, <2>3
<1>8. CASE UNCHANGED status
  BY <1>8
<1>9. DrainList \/ Restart => UNCHANGED status
  BY DEF DrainList, Restart
<1>10. \A r \in Runs : Choose(r) => UNCHANGED status
  BY DEF Choose
<1>11. \A t \in Threads : ScanRunning(t) => UNCHANGED status
  BY DEF ScanRunning
<1>12. \A t \in Operators, r \in Runs, action \in {"promote", "reap", "retest"} :
          HeldAction(t, r, action) => UNCHANGED status
  BY DEF HeldAction
<1> QED BY <1>0, <1>1, <1>2, <1>3, <1>4, <1>5, <1>6, <1>7, <1>8, <1>9, <1>10, <1>11, <1>12, StepCases

\* The queue implements RunLifecycle: a row is queued once, started at most once
\* and only while no other runs, and never queued or running again afterwards,
\* whoever writes its status last (drain, execute, record_run_result).
THEOREM LifecycleCorrect == Spec => Lifecycle
<1>1. TypeInv /\ RowInv /\ [Next]_vars => [RL!Next]_status
  BY LifecycleNext
<1> QED BY <1>1, LifecycleInit, RowCorrect, PTL DEF Spec, Lifecycle, RL!Spec
-----------------------------------------------------------------------------
(* Sandboxes.                                                                  *)

\* What the slot allocates belongs to no live row.
LEMMA ChosenApart ==
  ASSUME TypeInv, ~Exhausted(Owned)
  PROVE  \A r \in Runs : status[r] \in Live => Apart(env[r], Allocation(Owned))
<1> SUFFICES ASSUME NEW r \in Runs, status[r] \in Live PROVE Apart(env[r], Allocation(Owned))
  OBVIOUS
<1>1. env[r] \in Owned
  BY DEF Owned
<1>2. env[r].restore_vmid \notin FreeVmids(Owned) /\ env[r].vlan_tag \notin FreeTags(Owned)
  <2>1. env[r].restore_vmid \in InUseVmids(Owned) \cup {Unset}
    <3> DEFINE named == {{e.restore_vmid, e.helper_vmid} : e \in Owned}
    <3>1. {env[r].restore_vmid, env[r].helper_vmid} \in named
      BY <1>1
    <3>2. InUseVmids(Owned) = (UNION named) \ {Unset}
      BY DEF InUseVmids
    <3> HIDE DEF named
    <3>3. env[r].restore_vmid \in UNION named
      BY <3>1
    <3> QED BY <3>2, <3>3
  <2>2. env[r].vlan_tag \in InUseTags(Owned) \cup {Unset}
    BY <1>1 DEF InUseTags
  <2> QED BY <2>1, <2>2, RangesAssumption DEF FreeVmids, FreeTags, Unset
<1>3. Allocation(Owned).restore_vmid \in FreeVmids(Owned) /\ Allocation(Owned).vlan_tag \in FreeTags(Owned)
  BY AllocationFresh
<1> QED BY <1>2, <1>3 DEF Apart

\* No row has a sandbox at the start.
LEMMA SandboxInit == Init => SandboxInv
<1> SUFFICES ASSUME Init PROVE SandboxInv
  OBVIOUS
<1>1. /\ \A r \in Runs : status[r] = "none"
      /\ pc["slot"] = "idle"
  BY DEF Init, Threads
<1> QED BY <1>1 DEF SandboxInv, SandboxesDistinct, SlotOwns, Live, Busy, OnRow, Rowless

\* A step after which no row is live that was not, and the slot has no row it had
\* not, keeps sandboxes apart.
LEMMA SandboxKept ==
  ASSUME TypeInv, SandboxInv,
         \A r \in Runs : status'[r] \in Live => status[r] \in Live,
         \A r \in Runs : status[r] = "deleted" => status'[r] = "deleted",
         \A r \in Runs : env'[r].restore_vmid = env[r].restore_vmid /\ env'[r].vlan_tag = env[r].vlan_tag,
         pc'["slot"] = "planned" => pc["slot"] = "planned" /\ plan'["slot"] = plan["slot"],
         Busy("slot")' => Busy("slot") /\ run'["slot"] = run["slot"]
  PROVE  SandboxInv'
<1>0. Busy("slot") => run["slot"] \in Runs
  BY DEF TypeInv, RowKnown, Busy, Threads
<1>1. SandboxesDistinct'
  BY DEF SandboxInv, SandboxesDistinct
<1>2. SlotOwns'
  BY <1>0 DEF SandboxInv, SlotOwns, Apart
<1> QED BY <1>1, <1>2 DEF SandboxInv

\* Every step keeps the sandboxes of live rows apart.
LEMMA SandboxNext ==
  ASSUME TypeInv, RowInv, SandboxInv, [Next]_vars
  PROVE  SandboxInv'
<1> USE DEF rowVars, hostVars, localVars, boundVars
<1>0. "slot" \in Threads /\ "slot" # "watchdog" /\ Operators \subseteq Threads /\ "slot" \notin Operators
  BY QueueAssumption DEF Threads
<1>r. TypeOK /\ RowKnown
  BY DEF TypeInv
<1>1. CASE Quiet
  <2>1. /\ pc'["slot"] = "planned" => pc["slot"] = "planned" /\ plan'["slot"] = plan["slot"]
        /\ Busy("slot")' => Busy("slot") /\ run'["slot"] = run["slot"]
    BY <1>0, <1>1 DEF Quiet, Busy, OnRow, Rowless
  <2> QED BY <1>1, <2>1, SandboxKept DEF Quiet
<1>2. ASSUME NEW t \in Threads, Record(t) PROVE SandboxInv'
  <2>1. PICK s \in Terminal : status' = SetStatus(run[t], s)
    <3>1. Outcomes(t) \subseteq Terminal
      BY <1>r DEF TypeOK, Outcomes, Terminal
    <3> QED BY <1>2, <3>1 DEF Record
  <2>2. \A r \in Runs : status'[r] \in Live => status[r] \in Live
    BY <1>r, <2>1 DEF SetStatus, TypeOK, Terminal, Live
  <2>3. \A r \in Runs : status[r] = "deleted" => status'[r] = "deleted"
    BY <1>r, <2>1 DEF SetStatus, TypeOK, Absent
  <2>4. UNCHANGED env /\ (pc'["slot"] = "planned" => pc["slot"] = "planned" /\ plan'["slot"] = plan["slot"])
    BY <1>2, Written
  <2>5. Busy("slot")' => Busy("slot") /\ run'["slot"] = run["slot"]
    BY <1>0, <1>2, Written DEF Busy
  <2> QED BY <2>2, <2>3, <2>4, <2>5, SandboxKept
<1>3. CASE Park
  <2>0. /\ pc["slot"] = "park" /\ pc'["slot"] = "unhold" /\ UNCHANGED <<env, run>>
        /\ status' = SetStatus(run["slot"], "held") /\ run["slot"] \in Runs
    BY <1>0, <1>r, <1>3 DEF Park, Goto, TypeOK, RowKnown, OnRow, Rowless
  <2>1. Busy("slot")
    BY <2>0 DEF Busy, OnRow, Rowless
  <2>2. \A r \in Runs : r # run["slot"] => status'[r] = status[r]
    BY <1>r, <2>0 DEF SetStatus, TypeOK
  <2>3. status[run["slot"]] \in Absent => UNCHANGED status
    BY <2>0 DEF SetStatus
  <2>4. SandboxesDistinct'
    <3>1. CASE status[run["slot"]] \in Absent
      BY <2>0, <2>3, <3>1 DEF SandboxInv, SandboxesDistinct
    <3>2. CASE status[run["slot"]] \notin Absent
      <4>1. \A r \in Runs : r # run["slot"] /\ status[r] \in Live => Apart(env[r], env[run["slot"]])
        BY <2>1, <3>2 DEF SandboxInv, SlotOwns, Absent
      <4> QED BY <2>0, <2>2, <4>1 DEF SandboxInv, SandboxesDistinct, Apart
    <3> QED BY <3>1, <3>2
  <2>5. status[run["slot"]] = "deleted" => status'[run["slot"]] = "deleted"
    BY <2>3 DEF Absent
  <2>6. SlotOwns'
    BY <2>0, <2>1, <2>2, <2>5 DEF SandboxInv, SlotOwns, Apart
  <2> QED BY <2>4, <2>6 DEF SandboxInv
<1>4. CASE Start
  <2>0. /\ pc["slot"] = "planned" /\ pc'["slot"] = "clean" /\ UNCHANGED run
        /\ status' = SetStatus(run["slot"], "running") /\ run["slot"] \in Runs
        /\ env' = IF status[run["slot"]] \in Absent THEN env ELSE [env EXCEPT ![run["slot"]] = plan["slot"]]
    BY <1>0, <1>r, <1>4 DEF Start, Goto, TypeOK, RowKnown, OnRow, Rowless
  <2>1. status[run["slot"]] \in {"queued", "deleted"}
    BY <2>0 DEF RowInv, PendingQueued
  <2>2. \A r \in Runs : status[r] \in Live => Apart(env[r], plan["slot"])
    BY <2>0 DEF SandboxInv, SlotOwns
  <2>3. CASE status[run["slot"]] = "deleted"
    <3>1. UNCHANGED <<status, env>>
      BY <2>0, <2>3 DEF SetStatus, Absent
    <3> QED BY <2>0, <2>3, <3>1 DEF SandboxInv, SandboxesDistinct, SlotOwns
  <2>4. CASE status[run["slot"]] = "queued"
    <3>1. /\ status'[run["slot"]] = "running" /\ env'[run["slot"]] = plan["slot"]
          /\ \A r \in Runs \ {run["slot"]} : status'[r] = status[r] /\ env'[r] = env[r]
      BY <1>r, <2>0, <2>4 DEF SetStatus, Absent, TypeOK
    <3>2. SandboxesDistinct'
      BY <2>0, <2>2, <3>1 DEF SandboxInv, SandboxesDistinct, Apart
    <3>3. SlotOwns'
      BY <2>0, <2>2, <3>1 DEF SlotOwns
    <3> QED BY <3>2, <3>3 DEF SandboxInv
  <2> QED BY <2>1, <2>3, <2>4
<1>5. CASE DrainList
  <2>1. UNCHANGED <<status, env>> /\ pc'["slot"] = "pick"
    BY <1>0, <1>r, <1>5 DEF DrainList, Goto, TypeOK
  <2> QED BY <2>1, SandboxKept DEF Busy, OnRow, Rowless
<1>6. CASE EnqueueDue
  <2>1. /\ UNCHANGED env /\ pc'["slot"] = "top"
        /\ \A r \in Runs : status'[r] = status[r] \/ (status[r] = "none" /\ status'[r] = "queued")
    BY <1>0, <1>r, <1>6 DEF EnqueueDue, Goto, TypeOK
  <2> QED BY <2>1, SandboxKept DEF Busy, OnRow, Rowless, Live
<1>7. ASSUME NEW r \in Runs, Choose(r) PROVE SandboxInv'
  <2>1. /\ UNCHANGED <<status, env>> /\ pc'["slot"] = "planned"
        /\ plan'["slot"] = Allocation(Owned) /\ ~Exhausted(Owned)
    BY <1>0, <1>r, <1>7 DEF Choose, Goto, TypeOK
  <2>2. SlotOwns'
    BY <2>1, ChosenApart DEF SlotOwns, Busy
  <2> QED BY <2>1, <2>2 DEF SandboxInv, SandboxesDistinct
<1>8. ASSUME NEW r \in Runs, Refuse(r) PROVE SandboxInv'
  <2>1. UNCHANGED <<env, pc>> /\ pc["slot"] = "pick" /\ status' = SetStatus(r, "error")
    BY <1>8 DEF Refuse
  <2>2. /\ \A q \in Runs : status'[q] \in Live => status[q] \in Live
        /\ \A q \in Runs : status[q] = "deleted" => status'[q] = "deleted"
    BY <1>r, <2>1 DEF SetStatus, TypeOK, Live, Absent
  <2> QED BY <2>1, <2>2, SandboxKept DEF Busy, OnRow, Rowless
<1>9. ASSUME NEW r \in Runs, Request(r) \/ DeleteRun(r) PROVE SandboxInv'
  <2>1. UNCHANGED <<env, pc, run, plan>>
    BY <1>9 DEF Request, DeleteRun
  <2>2. /\ \A q \in Runs : status'[q] \in Live => status[q] \in Live
        /\ \A q \in Runs : status[q] = "deleted" => status'[q] = "deleted"
    BY <1>r, <1>9 DEF Request, DeleteRun, TypeOK, Live
  <2> QED BY <2>1, <2>2, SandboxKept DEF Busy, OnRow
<1>10. ASSUME NEW t \in Threads, ScanRunning(t) PROVE SandboxInv'
  <2>0. PICK r \in Runs : status[r] = "running" /\ run' = [run EXCEPT ![t] = r]
                          /\ plan' = [plan EXCEPT ![t] = env[r]]
    BY <1>10 DEF ScanRunning
  <2>1. UNCHANGED <<status, env>> /\ pc' = [pc EXCEPT ![t] = "present"]
    BY <1>10 DEF ScanRunning, Goto
  <2>2. CASE t = "slot"
    <3>1. pc'["slot"] = "present" /\ run'["slot"] = r
      BY <1>0, <1>r, <2>0, <2>1, <2>2 DEF TypeOK
    <3> QED BY <2>0, <2>1, <3>1 DEF SandboxInv, SandboxesDistinct, SlotOwns, Apart, Live
  <2>3. CASE t # "slot"
    <3>1. pc'["slot"] = pc["slot"] /\ run'["slot"] = run["slot"] /\ plan'["slot"] = plan["slot"]
      BY <1>0, <1>r, <2>0, <2>1, <2>3 DEF TypeOK
    <3> QED BY <2>1, <3>1, SandboxKept DEF Busy, OnRow
  <2> QED BY <2>2, <2>3
<1>11. ASSUME NEW t \in Operators, NEW r \in Runs, NEW action \in {"promote", "reap", "retest"},
              HeldAction(t, r, action)
       PROVE  SandboxInv'
  <2>1. /\ UNCHANGED <<status, env>> /\ run' = [run EXCEPT ![t] = r]
        /\ plan' = [plan EXCEPT ![t] = env[r]] /\ pc' = [pc EXCEPT ![t] = pc'[t]]
    BY <1>11 DEF HeldAction, Goto
  <2>2. pc'["slot"] = pc["slot"] /\ run'["slot"] = run["slot"] /\ plan'["slot"] = plan["slot"]
    BY <1>0, <1>r, <2>1 DEF TypeOK
  <2> QED BY <2>1, <2>2, SandboxKept DEF Busy, OnRow
<1>12. CASE Restart
  <2>1. /\ UNCHANGED <<status, env>>
        /\ \/ pc'["slot"] = "idle"
           \/ pc'["slot"] = "attach" /\ status[run'["slot"]] = "running" /\ run'["slot"] \in Runs
    BY <1>0, <1>12 DEF Restart
  <2> QED BY <2>1 DEF SandboxInv, SandboxesDistinct, SlotOwns, Apart, Busy, OnRow, Rowless, Live
<1> QED BY <1>0, <1>1, <1>2, <1>3, <1>4, <1>5, <1>6, <1>7, <1>8, <1>9, <1>10, <1>11, <1>12, StepCases

\* No two running or held rows ever name one restore VM or one sandbox VLAN, for
\* any ranges, number of rows and operators: only the slot hands these two out,
\* and it keeps them to itself until it is done with the row, even when a healer
\* has ended the row meanwhile (allocate, execute, _finalize).
THEOREM SandboxesCorrect == Spec => []SandboxesDistinct
<1>1. (TypeInv /\ RowInv) /\ SandboxInv /\ [Next]_vars => SandboxInv'
  BY SandboxNext
<1>2. SandboxInv => SandboxesDistinct
  BY DEF SandboxInv
<1> QED BY <1>1, <1>2, SandboxInit, RowCorrect, PTL DEF Spec
-----------------------------------------------------------------------------
(* The guests of held rows.                                                    *)

\* The slot's own variables, and which steps change them: a healer or an operator
\* touches none.
Mine == <<pc["slot"], run["slot"], plan["slot"], seen["slot"]>>

\* No other thread moves what is the slot's.
LEMMA OthersAside ==
  ASSUME TypeInv, NEW t \in Threads, t # "slot", Healer(t) \/ Operator(t)
  PROVE  Mine' = Mine
<1> USE DEF Goto, Return, rowVars, hostVars, localVars, boundVars, Mine
<1>0. "slot" \in Threads BY DEF Threads
<1>r. TypeOK BY DEF TypeInv
<1>1. CASE ScanNone(t) \/ ScanRunning(t) \/ LeaveRunning(t) \/ DeclareStuck(t)
  BY <1>0, <1>r, <1>1 DEF TypeOK, ScanNone, ScanRunning, LeaveRunning, DeclareStuck
<1>2. CASE Teardown(t) \/ Snapshot(t) \/ Reap(t) \/ Record(t)
  BY <1>0, <1>r, <1>2 DEF TypeOK, Teardown, Snapshot, Reap, Record
<1>3. CASE Kick(t) \/ (t = "watchdog" /\ (Orphans \/ SweepOrphans))
  BY <1>0, <1>r, <1>3 DEF TypeOK, Kick, Orphans, SweepOrphans
<1>4. CASE \E r \in Runs, action \in {"promote", "reap", "retest"} : HeldAction(t, r, action)
  BY <1>0, <1>r, <1>4 DEF TypeOK, HeldAction
<1>5. CASE Realloc(t) \/ Assign(t) \/ Rehelper(t) \/ Reprobe(t) \/ Drop(t)
  BY <1>0, <1>r, <1>5 DEF TypeOK, Realloc, Assign, Rehelper, Reprobe, Drop
<1> QED BY <1>1, <1>2, <1>3, <1>4, <1>5 DEF Healer, Operator, Heal

\* A step of the slot: what it does to its plan, its snapshot and the guests.
SlotStep ==
    /\ OnRow("slot")' => OnRow("slot") /\ run'["slot"] = run["slot"] /\ plan'["slot"] = plan["slot"]
    /\ pc'["slot"] \notin {"sweep", "reap", "planned"}
    /\ pc["slot"] = "planned" => Start
    /\ pc["slot"] = "unhold" => ~OnRow("slot")'
    /\ \/ vms \subseteq vms'
       \/ pc["slot"] \in {"sweep", "reap"} /\ vms \cap seen["slot"] \subseteq vms'
       \/ pc["slot"] = "teardown" /\ vms \ {plan["slot"].restore_vmid} \subseteq vms'

\* A sweep leaves the guests it is told are owned.
LEMMA ReapSpares ==
  ASSUME TypeOK, NEW owned, ReapGuests(owned)
  PROVE  vms \cap owned \subseteq vms'
BY DEF ReapGuests, Guests

\* The slot's steps that do not read rows: of the self-heal, ...
LEMMA HealStep ==
  ASSUME TypeInv, Heal("slot"), ~ScanRunning("slot"), ~Snapshot("slot")
  PROVE  SlotStep
<1> USE DEF Goto, Return, rowVars, hostVars, localVars, boundVars
<1>0. "slot" \in Threads /\ "slot" # "watchdog" BY DEF Threads
<1>r. TypeOK BY DEF TypeInv
<1>a. AfterRecover("slot") = "enqueue" /\ AfterRecord("slot") \in {"enqueue", "top", "idle"}
  BY DEF AfterRecover, AfterRecord, AfterRun
<1>1. CASE ScanNone("slot") \/ LeaveRunning("slot")
  BY <1>0, <1>r, <1>a, <1>1 DEF TypeOK, SlotStep, OnRow, Rowless, ScanNone, LeaveRunning, Wakes
<1>2. CASE DeclareStuck("slot")
  BY <1>0, <1>r, <1>2 DEF TypeOK, SlotStep, OnRow, Rowless, DeclareStuck
<1>3. CASE Teardown("slot")
  BY <1>0, <1>r, <1>3 DEF TypeOK, SlotStep, OnRow, Rowless, Teardown
<1>4. CASE Reap("slot")
  <2>1. vms \cap seen["slot"] \subseteq vms' BY <1>r, <1>4, ReapSpares DEF Reap
  <2> QED BY <1>0, <1>r, <1>4, <2>1 DEF TypeOK, SlotStep, OnRow, Rowless, Reap
<1>5. CASE Record("slot")
  BY <1>0, <1>r, <1>a, <1>5 DEF TypeOK, SlotStep, OnRow, Rowless, Record
<1> QED BY <1>1, <1>2, <1>3, <1>4, <1>5 DEF Heal

\* ... of the drain, ...
LEMMA DrainStep ==
  ASSUME TypeInv, Drain, \A r \in Runs : ~Choose(r)
  PROVE  SlotStep
<1> USE DEF Goto, Return, rowVars, hostVars, localVars, boundVars
<1>0. "slot" \in Threads /\ "slot" # "watchdog" BY DEF Threads
<1>r. TypeOK BY DEF TypeInv
<1>1. CASE EnqueueDue \/ QueueFails \/ DrainStop \/ DrainList \/ DrainWait
  BY <1>0, <1>r, <1>1 DEF TypeOK, SlotStep, OnRow, Rowless, EnqueueDue, QueueFails, DrainStop, DrainList, DrainWait
<1>2. CASE Start
  BY <1>0, <1>r, <1>2 DEF TypeOK, SlotStep, OnRow, Rowless, Start
<1>3. ASSUME NEW r \in Runs, Refuse(r) \/ Skip(r) PROVE SlotStep
  BY <1>0, <1>r, <1>3 DEF TypeOK, SlotStep, OnRow, Rowless, Refuse, Skip
<1> QED BY <1>1, <1>2, <1>3 DEF Drain

\* ... of the worker, ...
LEMMA PipelineStep ==
  ASSUME TypeInv, Pipeline
  PROVE  SlotStep
<1> USE DEF Goto, rowVars, hostVars, boundVars, pipelineSame
<1>0. "slot" \in Threads /\ "slot" # "watchdog" BY DEF Threads
<1>r. TypeOK BY DEF TypeInv
<1>c. \A result \in Terminal : Conclude(result) =>
        /\ pc' = [pc EXCEPT !["slot"] = pc'["slot"]] /\ pc'["slot"] \in {"discard", "teardown"}
  BY ConcludeType
<1>e. {"error", "cancelled", "passed", "limited", "failed"} = Terminal BY DEF Terminal
\* From one place of the pipeline to another.
<1>q. ASSUME pc["slot"] \in Executing \ {"unhold"}, pc'["slot"] \in Executing \ {"sweep", "reap"}, UNCHANGED <<run, plan>>,
             vms \subseteq vms' \/ (pc["slot"] = "sweep" /\ vms \cap seen["slot"] \subseteq vms')
      PROVE  SlotStep
  BY <1>0, <1>q DEF SlotStep, OnRow, Rowless, Executing
<1>1. CASE SweepBefore
  <2>1. pc'["slot"] \in {"helper", "discard", "teardown"} BY <1>0, <1>c, <1>e, <1>r, <1>1 DEF TypeOK, SweepBefore
  <2>2. vms \cap seen["slot"] \subseteq vms' BY <1>r, <1>1, ReapSpares DEF SweepBefore
  <2> QED BY <1>q, <1>1, <2>1, <2>2 DEF SweepBefore, Executing
<1>2. CASE Provision
  <2>1. pc'["slot"] \in {"restore", "discard", "teardown"} BY <1>0, <1>c, <1>e, <1>r, <1>2 DEF TypeOK, Provision
  <2> QED BY <1>q, <1>2, <2>1 DEF Provision, Executing
<1>3. CASE StartRestore
  <2>1. pc'["slot"] \in {"copy", "discard", "teardown"} BY <1>0, <1>c, <1>e, <1>r, <1>3 DEF TypeOK, StartRestore
  <2>2. vms \subseteq vms' BY <1>3 DEF StartRestore
  <2> QED BY <1>q, <1>3, <2>1, <2>2 DEF StartRestore, Executing
<1>4. CASE StartDistributed
  <2>1. pc'["slot"] = "copy" BY <1>0, <1>r, <1>4 DEF TypeOK, StartDistributed
  <2> QED BY <1>q, <1>4, <2>1 DEF StartDistributed, Executing
<1>5. CASE Restored
  <2>1. pc'["slot"] = "probe" BY <1>0, <1>r, <1>5 DEF TypeOK, Restored
  <2>2. vms \subseteq vms' BY <1>5 DEF Restored
  <2> QED BY <1>q, <1>5, <2>1, <2>2 DEF Restored, Executing
<1>6. ASSUME NEW result \in Terminal, Probed(result) PROVE SlotStep
  <2>1. pc'["slot"] \in {"discard", "teardown"} BY <1>0, <1>c, <1>6 DEF Probed
  <2> QED BY <1>q, <1>6, <2>1 DEF Probed, Executing
<1>7. CASE Abort
  <2>1. pc'["slot"] \in {"discard", "teardown"} BY <1>0, <1>c, <1>e, <1>7 DEF Abort
  <2>2. pc["slot"] \in Executing \ {"unhold"} BY <1>7 DEF Abort, Executing
  <2> QED BY <1>q, <1>7, <2>1, <2>2 DEF Abort, Executing
<1>8. CASE Break
  <2>1. pc'["slot"] \in {"discard", "teardown"} BY <1>0, <1>c, <1>e, <1>8 DEF Break
  <2> QED BY <1>q, <1>8, <2>1 DEF Break, Executing
<1>9. CASE Discard
  <2>1. pc'["slot"] = "park" BY <1>0, <1>r, <1>9 DEF TypeOK, Discard
  <2> QED BY <1>q, <1>9, <2>1 DEF Discard, Executing, localSame
<1>10. CASE Park
  <2>1. pc'["slot"] = "unhold" BY <1>0, <1>r, <1>10 DEF TypeOK, Park
  <2> QED BY <1>q, <1>10, <2>1 DEF Park, Executing
<1>11. CASE Unhold
  <2>1. pc["slot"] = "unhold" /\ pc'["slot"] \in {"top", "idle"} /\ UNCHANGED vms
    BY <1>0, <1>r, <1>11 DEF TypeOK, Unhold, Return, AfterRun
  <2> QED BY <2>1 DEF SlotStep, OnRow, Rowless
<1> QED BY <1>1, <1>2, <1>3, <1>4, <1>5, <1>6, <1>7, <1>8, <1>9, <1>10, <1>11 DEF Pipeline

\* ... and of the resume.
LEMMA ResumeStep ==
  ASSUME TypeInv, Resume
  PROVE  SlotStep
<1> USE DEF Goto, Return, rowVars, hostVars, boundVars, resumeSame, localSame, leave
<1>0. "slot" \in Threads /\ "slot" # "watchdog" BY DEF Threads
<1>r. TypeOK BY DEF TypeInv
<1>c. \A result \in Terminal : Conclude(result) =>
        /\ pc' = [pc EXCEPT !["slot"] = pc'["slot"]] /\ pc'["slot"] \in {"discard", "teardown"}
  BY ConcludeType
<1>e. {"error", "cancelled", "passed", "limited", "failed"} = Terminal BY DEF Terminal
<1>q. ASSUME pc["slot"] \in Executing \ {"unhold"}, UNCHANGED vms,
             \/ pc'["slot"] = "idle"
             \/ pc'["slot"] \in Executing \ {"sweep", "reap"} /\ UNCHANGED <<run, plan>>
      PROVE  SlotStep
  BY <1>0, <1>q DEF SlotStep, OnRow, Rowless, Executing
<1>1. CASE Reattach
  <2>1. pc'["slot"] \in {"recopy", "unlock"} BY <1>0, <1>r, <1>1 DEF TypeOK, Reattach
  <2> QED BY <1>q, <1>1, <2>1 DEF Reattach, Executing
<1>2. CASE PollEnd
  <2>1. pc'["slot"] \in {"unlock", "discard", "teardown"} BY <1>0, <1>r, <1>c, <1>e, <1>2 DEF TypeOK, PollEnd
  <2> QED BY <1>q, <1>2, <2>1 DEF PollEnd, Executing
<1>3. CASE PollLost
  <2>1. pc'["slot"] = "idle" /\ pc["slot"] \in Executing \ {"unhold"} /\ UNCHANGED vms
    BY <1>0, <1>r, <1>3 DEF TypeOK, PollLost, Executing
  <2> QED BY <1>q, <2>1
<1>4. CASE Unlocked
  <2>1. pc'["slot"] = "tail" BY <1>0, <1>r, <1>4 DEF TypeOK, Unlocked
  <2> QED BY <1>q, <1>4, <2>1 DEF Unlocked, Executing
<1>5. CASE StillLocked
  <2>1. pc'["slot"] = "idle" /\ pc["slot"] \in Executing \ {"unhold"} /\ UNCHANGED vms
    BY <1>0, <1>r, <1>5 DEF TypeOK, StillLocked, Executing
  <2> QED BY <1>q, <2>1
<1>6. CASE ResumeTail
  <2>1. pc'["slot"] \in {"probe", "discard", "teardown"} BY <1>0, <1>r, <1>c, <1>e, <1>6 DEF TypeOK, ResumeTail
  <2> QED BY <1>q, <1>6, <2>1 DEF ResumeTail, Executing
<1> QED BY <1>1, <1>2, <1>3, <1>4, <1>5, <1>6 DEF Resume


\* The VM of the slot's plan belongs to no live row but the slot's own, that row is
\* held only at the very end, what the slot saved from its reaper includes every
\* held VM, and a live row has a VM.
PlanApart ==
    OnRow("slot") => \A r \in Runs : r # run["slot"] /\ status[r] \in Live =>
                       env[r].restore_vmid # plan["slot"].restore_vmid
ParkedLast == Busy("slot") /\ status[run["slot"]] = "held" => pc["slot"] = "unhold"
SeenHeld ==
    pc["slot"] \in {"sweep", "reap"} => \A r \in Runs : status[r] = "held" => env[r].restore_vmid \in seen["slot"]
HasVm == /\ \A r \in Runs : status[r] \in Live => env[r].restore_vmid # Unset
         /\ pc["slot"] = "planned" => plan["slot"].restore_vmid # Unset
         /\ Busy("slot") /\ status[run["slot"]] # "deleted" => env[run["slot"]].restore_vmid # Unset

HeldInv == PlanApart /\ ParkedLast /\ SeenHeld /\ HasVm

\* What an action may do to the rows and their VMs.
LEMMA RowsChange ==
  ASSUME TypeInv, RowInv, [Next]_vars
  PROVE  \A r \in Runs :
           /\ status'[r] \in Live => \/ status[r] = status'[r]
                                     \/ status'[r] = "running" /\ Start /\ r = run["slot"]
                                     \/ status'[r] = "held" /\ Park /\ r = run["slot"]
           /\ \/ env'[r].restore_vmid = env[r].restore_vmid
              \/ Start /\ r = run["slot"] /\ env'[r] = plan["slot"]
           /\ status[r] = "deleted" => status'[r] = "deleted"
<1> SUFFICES ASSUME NEW r \in Runs
    PROVE  /\ status'[r] \in Live => \/ status[r] = status'[r]
                                     \/ status'[r] = "running" /\ Start /\ r = run["slot"]
                                     \/ status'[r] = "held" /\ Park /\ r = run["slot"]
           /\ \/ env'[r].restore_vmid = env[r].restore_vmid
              \/ Start /\ r = run["slot"] /\ env'[r] = plan["slot"]
           /\ status[r] = "deleted" => status'[r] = "deleted"
  OBVIOUS
<1> USE DEF rowVars, hostVars, localVars, boundVars
<1>r. TypeOK BY DEF TypeInv
<1>1. CASE Quiet BY <1>1 DEF Quiet
<1>2. CASE UNCHANGED <<status, env>> BY <1>2
<1>3. CASE Start BY <1>r, <1>3 DEF Start, SetStatus, TypeOK, Absent
<1>4. CASE Park BY <1>r, <1>4 DEF Park, SetStatus, TypeOK, Absent
<1>5. CASE EnqueueDue BY <1>r, <1>5 DEF EnqueueDue, Live
<1>6. CASE \E t \in Threads : Record(t)
  <2>1. PICK t \in Threads : Record(t) BY <1>6
  <2>2. Outcomes(t) \subseteq Terminal BY <1>r DEF TypeOK, Outcomes, Terminal
  <2> QED BY <1>r, <2>1, <2>2 DEF Record, SetStatus, Terminal, Live, TypeOK, Absent
<1>7. CASE \E q \in Runs : Refuse(q) \/ Request(q) \/ DeleteRun(q)
  BY <1>r, <1>7 DEF Refuse, Request, DeleteRun, SetStatus, Live, TypeOK, Absent
<1>8. \/ UNCHANGED <<status, env>> \/ Quiet \/ Start \/ Park \/ EnqueueDue \/ \E t \in Threads : Record(t)
      \/ \E q \in Runs : Refuse(q) \/ Request(q) \/ DeleteRun(q)
  BY StepCases DEF DrainList, Restart, Choose, ScanRunning, HeldAction
<1> QED BY <1>1, <1>2, <1>3, <1>4, <1>5, <1>6, <1>7, <1>8

\* Each step is one of these for the slot.
LEMMA SlotCases ==
  ASSUME TypeInv, [Next]_vars
  PROVE  \/ Mine' = Mine
         \/ Slot /\ SlotStep
         \/ Restart \/ ScanRunning("slot") \/ Snapshot("slot") \/ \E r \in Runs : Choose(r)
<1> USE DEF Mine, rowVars, hostVars, localVars, boundVars
<1>1. CASE Slot BY <1>1, HealStep, DrainStep, PipelineStep, ResumeStep DEF Slot
<1>2. CASE Handler BY <1>2 DEF Handler, Request, DeleteRun, RequestCancel
<1>3. CASE SetPaused BY <1>3 DEF SetPaused
<1>4. CASE Host BY <1>4 DEF Host, CopyEnds
<1>5. CASE \E t \in Healers : Healer(t)
  <2>1. \A t \in Healers : t \in Threads /\ t # "slot" BY QueueAssumption DEF Threads
  <2> QED BY <1>5, <2>1, OthersAside
<1>6. CASE \E t \in Operators : Operator(t)
  <2>1. \A t \in Operators : t \in Threads /\ t # "slot" BY QueueAssumption DEF Threads
  <2> QED BY <1>6, <2>1, OthersAside
<1>7. CASE \E r \in Runs : GraceOver(r) BY <1>7 DEF GraceOver
<1>8. CASE UNCHANGED vars BY <1>8 DEF vars
<1> QED BY <1>1, <1>2, <1>3, <1>4, <1>5, <1>6, <1>7, <1>8 DEF Next

\* The invariant holds at the start.
LEMMA HeldInit == Init => HeldInv
<1> SUFFICES ASSUME Init PROVE HeldInv OBVIOUS
<1>1. pc["slot"] = "idle" /\ \A r \in Runs : status[r] = "none" BY DEF Init, Threads
<1> QED BY <1>1 DEF HeldInv, PlanApart, ParkedLast, SeenHeld, HasVm, Busy, OnRow, Rowless, Live

\* Every step keeps the held rows' VMs out of the slot's hands.
LEMMA HeldNext ==
  ASSUME TypeInv, RowInv, SandboxInv, HeldInv, [Next]_vars
  PROVE  HeldInv'
<1> USE DEF rowVars, hostVars, localVars, boundVars
<1>0. "slot" \in Threads /\ "slot" # "watchdog" BY DEF Threads
<1>r. TypeOK /\ RowKnown BY DEF TypeInv
<1>c. \A r \in Runs :
        /\ status'[r] \in Live => \/ status[r] = status'[r]
                                  \/ status'[r] = "running" /\ Start /\ r = run["slot"]
                                  \/ status'[r] = "held" /\ Park /\ r = run["slot"]
        /\ \/ env'[r].restore_vmid = env[r].restore_vmid
           \/ Start /\ r = run["slot"] /\ env'[r] = plan["slot"]
        /\ status[r] = "deleted" => status'[r] = "deleted"
  BY RowsChange
<1>s. Start => /\ pc["slot"] = "planned" /\ pc'["slot"] = "clean" /\ UNCHANGED <<run, plan>>
  BY <1>0, <1>r DEF Start, Goto, TypeOK
<1>p. Park => /\ pc["slot"] = "park" /\ pc'["slot"] = "unhold" /\ UNCHANGED <<run, plan>>
  BY <1>0, <1>r DEF Park, Goto, TypeOK
<1>k. OnRow("slot") => run["slot"] \in Runs BY <1>0, <1>r DEF RowKnown
\* A step that leaves the slot's row and plan as they are, or takes them away.
<1>q. ASSUME OnRow("slot")' => OnRow("slot") /\ run'["slot"] = run["slot"] /\ plan'["slot"] = plan["slot"]
      PROVE  PlanApart'
  BY <1>q, <1>c, <1>s, <1>p DEF HeldInv, PlanApart, OnRow, Rowless
<1>v. ASSUME pc'["slot"] = "planned" => \/ pc["slot"] = "planned" /\ plan'["slot"] = plan["slot"]
                                        \/ plan'["slot"].restore_vmid # Unset,
             Busy("slot")' => \/ OnRow("slot") /\ run'["slot"] = run["slot"] /\ (Busy("slot") \/ Start)
                              \/ run'["slot"] \in Runs /\ status'[run'["slot"]] = "running"
      PROVE  HasVm'
  <2>1. ASSUME NEW r \in Runs, status'[r] \in Live PROVE env'[r].restore_vmid # Unset
    <3>1. CASE Start /\ r = run["slot"] /\ env'[r] = plan["slot"]
      BY <1>s, <3>1 DEF HeldInv, HasVm
    <3>2. CASE env'[r].restore_vmid = env[r].restore_vmid
      <4>1. CASE status[r] \in Live
        BY <3>2, <4>1 DEF HeldInv, HasVm
      <4>2. CASE Start /\ r = run["slot"]
        BY <1>0, <1>r, <1>s, <2>1, <4>2 DEF Start, SetStatus, TypeOK, HeldInv, HasVm, Absent, Live
      <4>3. CASE Park /\ r = run["slot"]
        <5>1. status' = SetStatus(r, "held") /\ env' = env /\ Busy("slot")
          BY <4>3 DEF Park, Busy, OnRow, Rowless
        <5>2. status[r] # "deleted" BY <1>c, <2>1 DEF Live
        <5> QED BY <4>3, <5>1, <5>2 DEF HeldInv, HasVm
      <4> QED BY <1>c, <2>1, <4>1, <4>2, <4>3
    <3> QED BY <1>c, <3>1, <3>2
  <2>2. ASSUME Busy("slot")', status'[run'["slot"]] # "deleted" PROVE env'[run'["slot"]].restore_vmid # Unset
    <3>1. CASE run'["slot"] \in Runs /\ status'[run'["slot"]] = "running"
      BY <2>1, <3>1 DEF Live
    <3>2. CASE OnRow("slot") /\ run'["slot"] = run["slot"] /\ (Busy("slot") \/ Start)
      <4>1. run["slot"] \in Runs /\ status[run["slot"]] # "deleted" BY <1>c, <1>k, <2>2, <3>2
      <4>2. CASE Start
        <5>1. status[run["slot"]] = "queued" BY <1>s, <4>1, <4>2 DEF RowInv, PendingQueued
        <5>2. env'[run["slot"]] = plan["slot"] BY <1>r, <4>1, <4>2, <5>1 DEF Start, TypeOK, Absent
        <5> QED BY <1>s, <3>2, <4>2, <5>2 DEF HeldInv, HasVm
      <4>3. CASE ~Start /\ pc["slot"] # "planned"
        <5>1. env[run["slot"]].restore_vmid # Unset BY <3>2, <4>1, <4>3 DEF HeldInv, HasVm, Busy
        <5> QED BY <1>c, <3>2, <4>1, <4>3, <5>1
      <4> QED BY <3>2, <4>2, <4>3 DEF Busy
    <3> QED BY <1>v, <2>2, <3>1, <3>2
  <2> QED BY <1>v, <2>1, <2>2 DEF HeldInv, HasVm
<1>1. CASE Mine' = Mine
  <2>1. /\ pc'["slot"] = pc["slot"] /\ run'["slot"] = run["slot"] /\ plan'["slot"] = plan["slot"]
        /\ seen'["slot"] = seen["slot"]
    BY <1>1 DEF Mine
  <2>2. ~Start /\ ~Park BY <1>s, <1>p, <2>1
  <2>3. PlanApart' /\ HasVm' BY <1>q, <1>v, <2>1 DEF Busy, OnRow
  <2>4. ParkedLast' BY <1>c, <1>k, <2>1, <2>2 DEF HeldInv, ParkedLast, Busy, OnRow, Live
  <2>5. SeenHeld' BY <1>c, <2>1, <2>2 DEF HeldInv, SeenHeld, Live
  <2> QED BY <2>3, <2>4, <2>5 DEF HeldInv
<1>2. CASE Slot /\ SlotStep
  <2>1. /\ OnRow("slot")' => OnRow("slot") /\ run'["slot"] = run["slot"] /\ plan'["slot"] = plan["slot"]
        /\ pc'["slot"] \notin {"sweep", "reap", "planned"}
        /\ pc["slot"] = "planned" => Start
    BY <1>2 DEF SlotStep
  <2>2. PlanApart' /\ SeenHeld' BY <1>q, <2>1 DEF SeenHeld
  <2>3. HasVm' BY <1>v, <2>1 DEF Busy
  <2>4. ParkedLast'
    <3> SUFFICES ASSUME Busy("slot")', status'[run'["slot"]] = "held" PROVE pc'["slot"] = "unhold"
      BY DEF ParkedLast
    <3>1. OnRow("slot") /\ run'["slot"] = run["slot"] /\ run["slot"] \in Runs
      BY <1>k, <2>1 DEF Busy, OnRow
    <3>2. CASE Park BY <1>p, <3>2
    <3>3. CASE ~Park
      <4>1. status[run["slot"]] = "held"
        BY <1>c, <3>1, <3>3 DEF Live
      <4>2. pc["slot"] # "planned" BY <4>1 DEF RowInv, PendingQueued
      <4>3. pc["slot"] = "unhold" BY <3>1, <4>1, <4>2 DEF Busy, HeldInv, ParkedLast
      <4> QED BY <1>2, <4>3 DEF SlotStep, Busy, OnRow
    <3> QED BY <3>2, <3>3
  <2> QED BY <2>2, <2>3, <2>4 DEF HeldInv
\* Taking up a running row, after a restart or to recover it.
<1>t. ASSUME NEW r \in Runs, status[r] = "running", UNCHANGED <<status, env>>, run'["slot"] = r, plan'["slot"] = env[r],
             pc'["slot"] \in {"attach", "present"}
      PROVE  HeldInv'
  BY <1>t DEF HeldInv, PlanApart, ParkedLast, SeenHeld, HasVm, SandboxInv, SandboxesDistinct, Live
<1>3. CASE Restart
  <2>1. UNCHANGED <<status, env>> BY <1>3 DEF Restart
  <2>2. CASE pc'["slot"] = "idle"
    BY <2>1, <2>2 DEF HeldInv, PlanApart, ParkedLast, SeenHeld, HasVm, Busy, OnRow, Rowless
  <2>3. CASE pc'["slot"] # "idle"
    <3>1. PICK r \in Runs : /\ status[r] = "running" /\ run'["slot"] = r /\ plan'["slot"] = env[r]
                            /\ pc'["slot"] = "attach"
      BY <1>0, <1>3, <2>3 DEF Restart
    <3> QED BY <1>t, <2>1, <3>1
  <2> QED BY <2>2, <2>3
<1>4. CASE ScanRunning("slot")
  <2>1. PICK r \in Runs : /\ status[r] = "running" /\ run'["slot"] = r /\ plan'["slot"] = env[r]
                          /\ pc'["slot"] = "present"
    BY <1>0, <1>r, <1>4 DEF ScanRunning, TypeOK, Goto
  <2> QED BY <1>t, <1>4, <2>1 DEF ScanRunning
<1>5. CASE Snapshot("slot")
  <2>1. /\ UNCHANGED <<status, env, run, plan>> /\ pc["slot"] \in {"clean", "owned"}
        /\ pc'["slot"] \in {"sweep", "reap"} /\ seen'["slot"] = OwnedVmids
    BY <1>0, <1>r, <1>5 DEF Snapshot, TypeOK, Goto
  <2>2. \A r \in Runs : status[r] = "held" => env[r].restore_vmid \in OwnedVmids
    <3> SUFFICES ASSUME NEW r \in Runs, status[r] = "held" PROVE env[r].restore_vmid \in OwnedVmids
      OBVIOUS
    <3>1. env[r] \in Owned /\ env[r].restore_vmid # Unset BY DEF Owned, Live, HeldInv, HasVm
    <3>2. env[r].restore_vmid \in UNION {{e.restore_vmid, e.helper_vmid} : e \in Owned}
      <4>1. {env[r].restore_vmid, env[r].helper_vmid} \in {{e.restore_vmid, e.helper_vmid} : e \in Owned} BY <3>1
      <4> QED BY <4>1
    <3> QED BY <3>1, <3>2 DEF OwnedVmids, InUseVmids
  <2>3. PlanApart' /\ HasVm' BY <1>q, <1>v, <2>1 DEF Busy, OnRow, Rowless
  <2>4. SeenHeld' BY <2>1, <2>2 DEF SeenHeld
  <2>5. ParkedLast' BY <2>1 DEF HeldInv, ParkedLast, Busy, OnRow, Rowless
  <2> QED BY <2>3, <2>4, <2>5 DEF HeldInv
<1>6. ASSUME NEW r \in Runs, Choose(r) PROVE HeldInv'
  <2>1. /\ UNCHANGED <<status, env>> /\ ~Exhausted(Owned) /\ pc'["slot"] = "planned"
        /\ run'["slot"] = r /\ plan'["slot"] = Allocation(Owned)
    BY <1>0, <1>r, <1>6 DEF Choose, TypeOK, Goto
  <2>2. Allocation(Owned).restore_vmid # Unset BY <2>1, AllocationFresh, FreeInRange DEF Unset
  <2>3. PlanApart' BY <2>1, ChosenApart DEF PlanApart, Apart
  <2>4. HasVm' BY <1>v, <2>1, <2>2 DEF Busy
  <2> QED BY <2>1, <2>3, <2>4 DEF HeldInv, ParkedLast, SeenHeld, Busy
<1> QED BY <1>1, <1>2, <1>3, <1>4, <1>5, <1>6, SlotCases

\* What the slot does next spares the guest of every held row.
LEMMA HeldSpared ==
  ASSUME TypeInv, RowInv, HeldInv, [Next]_vars, pc'["slot"] # pc["slot"],
         NEW r \in Runs, status[r] = "held", env[r].restore_vmid \in vms
  PROVE  env[r].restore_vmid \in vms'
<1>0. "slot" \in Threads BY DEF Threads
<1>1. CASE Mine' = Mine BY <1>1 DEF Mine
<1>2. CASE Slot /\ SlotStep
  <2>1. CASE vms \subseteq vms' BY <2>1
  <2>2. CASE pc["slot"] \in {"sweep", "reap"} /\ vms \cap seen["slot"] \subseteq vms'
    BY <2>2 DEF HeldInv, SeenHeld
  <2>3. CASE pc["slot"] = "teardown" /\ vms \ {plan["slot"].restore_vmid} \subseteq vms'
    <3>1. Busy("slot") /\ OnRow("slot") BY <2>3 DEF Busy, OnRow, Rowless
    <3>2. r # run["slot"] BY <2>3, <3>1 DEF HeldInv, ParkedLast
    <3>3. env[r].restore_vmid # plan["slot"].restore_vmid BY <3>1, <3>2 DEF HeldInv, PlanApart, Live
    <3> QED BY <2>3, <3>3
  <2> QED BY <1>2, <2>1, <2>2, <2>3 DEF SlotStep
<1>3. CASE Restart \/ ScanRunning("slot") \/ Snapshot("slot") \/ \E q \in Runs : Choose(q)
  BY <1>3 DEF Restart, ScanRunning, Snapshot, Choose, hostVars
<1> QED BY <1>1, <1>2, <1>3, SlotCases

\* The worker's sweeps, its teardowns and the recovery it runs never destroy the
\* guest of a held row, for any number of rows and operators and whatever restarts
\* fall between its snapshot and its reaping: the row it tears down is never the
\* held one, its plan names no other live row's guest, and the snapshot it reaps
\* from holds every guest that was held when it was taken, and no row becomes held
\* while it is used (owned_vmids, _teardown, _finalize).
THEOREM HeldSurvives == Spec => ExecutorSparesHeld
<1>1. (TypeInv /\ RowInv) /\ SandboxInv /\ HeldInv /\ [Next]_vars => HeldInv'
  BY HeldNext
<1>2. TypeInv /\ RowInv /\ HeldInv /\ [Next]_vars
      => [ pc'["slot"] # pc["slot"] =>
             \A r \in Runs : status[r] = "held" /\ env[r].restore_vmid \in vms
                               => env[r].restore_vmid \in vms' ]_vars
  BY HeldSpared
<1>3. (TypeInv /\ RowInv) /\ SandboxInv /\ [Next]_vars => SandboxInv'
  BY SandboxNext
<1> QED BY <1>1, <1>2, <1>3, HeldInit, SandboxInit, RowCorrect, PTL DEF Spec, ExecutorSparesHeld
-----------------------------------------------------------------------------
(* Who moves, who takes up a row, who writes one.                              *)

\* A step moves one thread, unless the app restarts: the slot moves itself ...
LEMMA SlotMoves ==
  ASSUME TypeInv, Slot
  PROVE  pc' = [pc EXCEPT !["slot"] = pc'["slot"]]
<1> USE DEF Goto, Return, rowVars, hostVars, localVars, boundVars, pipelineSame, resumeSame, localSame, leave
<1>0. "slot" \in Threads BY DEF Threads
<1>r. pc \in [Threads -> Labels] BY DEF TypeInv, TypeOK
<1>c. \A result \in Terminal : Conclude(result) => pc' = [pc EXCEPT !["slot"] = pc'["slot"]]
  BY ConcludeType
<1>e. {"error", "cancelled", "passed", "limited", "failed"} = Terminal BY DEF Terminal
<1>1. CASE Heal("slot")
  BY <1>0, <1>r, <1>1 DEF Heal, ScanNone, ScanRunning, LeaveRunning, DeclareStuck, Teardown, Snapshot, Reap, Record
<1>2. CASE Drain
  BY <1>0, <1>r, <1>2
     DEF Drain, EnqueueDue, QueueFails, DrainStop, DrainList, DrainWait, Start, Refuse, Skip, Choose
<1>3. CASE Pipeline
  BY <1>0, <1>r, <1>c, <1>e, <1>3
     DEF Pipeline, SweepBefore, Provision, StartRestore, StartDistributed, Restored, Abort, Break, Probed,
         Discard, Park, Unhold
<1>4. CASE Resume
  BY <1>0, <1>r, <1>c, <1>e, <1>4
     DEF Resume, Reattach, PollEnd, PollLost, Unlocked, StillLocked, ResumeTail
<1> QED BY <1>1, <1>2, <1>3, <1>4 DEF Slot

\* ... and so do the other threads.
LEMMA OtherMoves ==
  ASSUME TypeInv, NEW t \in Threads, Healer(t) \/ Operator(t)
  PROVE  pc' = [pc EXCEPT ![t] = pc'[t]]
<1> USE DEF Goto, Return
<1>r. pc \in [Threads -> Labels] BY DEF TypeInv, TypeOK
<1>1. CASE Heal(t) \/ Kick(t)
  BY <1>r, <1>1 DEF Heal, ScanNone, ScanRunning, LeaveRunning, DeclareStuck, Teardown, Snapshot, Reap, Record, Kick
<1>2. CASE t = "watchdog" /\ (Orphans \/ SweepOrphans)
  BY <1>r, <1>2 DEF Orphans, SweepOrphans
<1>3. CASE Operator(t)
  BY <1>r, <1>3 DEF Operator, HeldAction, Realloc, Assign, Rehelper, Reprobe, Drop, Teardown, Snapshot, Reap, Record
<1> QED BY <1>1, <1>2, <1>3 DEF Healer

\* A thread whose place changes is the one that steps.
LEMMA Moves ==
  ASSUME TypeInv, [Next]_vars, ~Restart, NEW t \in Threads, pc'[t] # pc[t]
  PROVE  \/ t = "slot" /\ Slot
         \/ t \in Healers /\ Healer(t)
         \/ t \in Operators /\ Operator(t)
<1> USE DEF localVars
<1>r. pc \in [Threads -> Labels] BY DEF TypeInv, TypeOK
<1>1. CASE Slot BY <1>r, <1>1, SlotMoves
<1>2. CASE Handler \/ SetPaused \/ Host \/ \E r \in Runs : GraceOver(r)
  BY <1>2 DEF Handler, Request, DeleteRun, RequestCancel, SetPaused, Host, CopyEnds, GraceOver
<1>3. ASSUME NEW u \in Threads, Healer(u) \/ Operator(u), u # t PROVE FALSE
  BY <1>r, <1>3, OtherMoves
<1>4. CASE UNCHANGED vars BY <1>4 DEF vars
<1> QED BY <1>1, <1>2, <1>3, <1>4 DEF Next, Threads

\* A thread takes up a row that runs or is held, or is chosen from the queue.
LEMMA RowTaken ==
  ASSUME TypeInv, [Next]_vars, NEW t \in Threads, OnRow(t)'
  PROVE  \/ OnRow(t) /\ run'[t] = run[t]
         \/ ScanRunning(t)
         \/ t \in Operators /\ \E r \in Runs, action \in {"promote", "reap", "retest"} : HeldAction(t, r, action)
         \/ t = "slot" /\ \E r \in Runs : Choose(r)
         \/ t = "slot" /\ Restart
<1> USE DEF rowVars, hostVars, localVars, boundVars
<1>r. TypeOK BY DEF TypeInv
<1>0. "slot" \in Threads /\ "slot" # "watchdog" BY DEF Threads
<1>1. CASE Quiet BY <1>1 DEF Quiet
<1>2. CASE Start BY <1>r, <1>0, <1>2 DEF Start, Goto, TypeOK, OnRow, Rowless
<1>3. CASE DrainList \/ EnqueueDue \/ Park
  BY <1>r, <1>0, <1>3 DEF DrainList, EnqueueDue, Park, Goto, TypeOK, OnRow, Rowless
<1>4. CASE Restart BY <1>4, <1>0 DEF Restart, OnRow, Rowless
<1>5. CASE \E r \in Runs : Choose(r) BY <1>r, <1>0, <1>5 DEF Choose, Goto, TypeOK, OnRow
<1>6. CASE \E r \in Runs : Refuse(r) \/ Request(r) \/ DeleteRun(r)
  BY <1>6 DEF Refuse, Request, DeleteRun, OnRow
<1>7. CASE \E u \in Threads : ScanRunning(u) BY <1>r, <1>7 DEF ScanRunning, Goto, TypeOK, OnRow
<1>8. CASE \E u \in Threads : Record(u) BY <1>8, Written
<1>9. CASE \E u \in Operators, r \in Runs, action \in {"promote", "reap", "retest"} : HeldAction(u, r, action)
  <2>1. PICK u \in Operators, r \in Runs, action \in {"promote", "reap", "retest"} : HeldAction(u, r, action)
    BY <1>9
  <2>2. CASE u = t BY <2>1, <2>2
  <2>3. CASE u # t BY <1>r, <2>1, <2>3 DEF HeldAction, Goto, TypeOK, OnRow
  <2> QED BY <2>2, <2>3
<1> QED BY <1>1, <1>2, <1>3, <1>4, <1>5, <1>6, <1>7, <1>8, <1>9, StepCases

\* What a step writes in a row's status.
LEMMA StatusChange ==
  ASSUME TypeInv, RowInv, [Next]_vars, NEW r \in Runs
  PROVE  \/ status'[r] = status[r]
         \/ Start /\ r = run["slot"] /\ status'[r] = "running"
         \/ Park /\ r = run["slot"] /\ status'[r] = "held"
         \/ \E t \in Threads : Record(t) /\ r = run[t] /\ status'[r] \in Terminal
         \/ status[r] \in {"none", "queued"} /\ status'[r] \in {"queued", "deleted", "error"}
<1> USE DEF rowVars, hostVars, localVars, boundVars
<1>r. TypeOK BY DEF TypeInv
<1>1. CASE UNCHANGED status BY <1>1
<1>2. CASE Start BY <1>r, <1>2 DEF Start, SetStatus, TypeOK
<1>3. CASE Park BY <1>r, <1>3 DEF Park, SetStatus, TypeOK
<1>4. CASE EnqueueDue BY <1>r, <1>4 DEF EnqueueDue
<1>5. CASE \E t \in Threads : Record(t)
  <2>1. PICK t \in Threads : Record(t) BY <1>5
  <2>2. Outcomes(t) \subseteq Terminal BY <1>r DEF TypeOK, Outcomes, Terminal
  <2> QED BY <1>r, <2>1, <2>2 DEF Record, SetStatus, TypeOK
<1>6. CASE \E q \in Runs : Request(q) \/ DeleteRun(q)
  BY <1>r, <1>6 DEF Request, DeleteRun, TypeOK
<1>7. CASE \E q \in Runs : Refuse(q)
  <2>1. PICK q \in Runs : Refuse(q) BY <1>7
  <2>2. status[q] \in {"queued", "deleted"} BY <2>1 DEF Refuse, RowInv, PendingQueued
  <2> QED BY <1>r, <2>1, <2>2 DEF Refuse, SetStatus, TypeOK, Absent
<1> QED BY <1>1, <1>2, <1>3, <1>4, <1>5, <1>6, <1>7, StepCases
        DEF Quiet, DrainList, Restart, Choose, ScanRunning, HeldAction

\* Who recorded a result is done with its row.
LEMMA RecordLeaves ==
  ASSUME TypeInv, NEW t \in Threads, Record(t)
  PROVE  pc[t] = "record" /\ OnRow(t) /\ pc'[t] \in Rowless
<1>1. AfterRecord(t) \in Rowless BY DEF AfterRecord, AfterRecover, AfterRun, Rowless
<1> QED BY <1>1 DEF Record, Return, Goto, TypeInv, TypeOK, OnRow, Rowless
-----------------------------------------------------------------------------
(* Evidence.                                                                   *)

\* While no healer declares a run stuck, the slot's row runs until the slot is done
\* with it, a row an operator acts on stays held until he is, and a row with a test
\* record ended as a test.
EvidenceInv ==
    /\ \A r \in evidence : status[r] \in {"passed", "limited", "deleted"}
    /\ Busy("slot") /\ pc["slot"] # "unhold" => status[run["slot"]] \in {"running", "deleted"}
    /\ \A t \in Operators : OnRow(t) => status[run[t]] = "held"
    /\ \A t \in Healers : pc[t] \notin {"teardown", "owned", "reap", "record"}

NoneDeclared == \A t \in Healers : ~DeclareStuck(t)

\* The invariant holds at the start.
LEMMA EvidenceInit == Init => EvidenceInv
<1> SUFFICES ASSUME Init PROVE EvidenceInv OBVIOUS
<1>1. evidence = {} /\ \A t \in Threads : pc[t] = "idle" BY DEF Init
<1> QED BY <1>1 DEF EvidenceInv, Busy, OnRow, Rowless, Threads

\* Only a recording adds evidence, of the row it records.
LEMMA EvidenceChange ==
  ASSUME TypeInv, [Next]_vars
  PROVE  \/ UNCHANGED evidence
         \/ \E t \in Threads, s \in Terminal :
              /\ Record(t) /\ status' = SetStatus(run[t], s)
              /\ evidence' = IF s \in CountsAsTest THEN evidence \cup {run[t]} ELSE evidence
<1> USE DEF rowVars, pipelineSame, resumeSame
<1>1. ASSUME NEW t \in Threads, Record(t)
      PROVE  \E s \in Terminal : /\ Record(t) /\ status' = SetStatus(run[t], s)
                                 /\ evidence' = IF s \in CountsAsTest THEN evidence \cup {run[t]} ELSE evidence
  <2>1. Outcomes(t) \subseteq Terminal BY DEF TypeInv, TypeOK, Outcomes, Terminal
  <2> QED BY <1>1, <2>1 DEF Record
<1>2. ASSUME NEW t \in Threads, Heal(t), ~Record(t) PROVE UNCHANGED evidence
  BY <1>2 DEF Heal, ScanNone, ScanRunning, LeaveRunning, DeclareStuck, Teardown, Snapshot, Reap
<1>3. ASSUME NEW t \in Threads, Healer(t), ~Heal(t) PROVE UNCHANGED evidence
  BY <1>3 DEF Healer, Kick, Orphans, SweepOrphans
<1>4. ASSUME NEW t \in Threads, Operator(t), ~Record(t) PROVE UNCHANGED evidence
  BY <1>4 DEF Operator, HeldAction, Realloc, Assign, Rehelper, Reprobe, Drop, Teardown, Snapshot, Reap
<1>5. CASE Drain
  BY <1>5 DEF Drain, EnqueueDue, QueueFails, DrainStop, DrainList, DrainWait, Start, Refuse, Skip, Choose
<1>6. CASE Pipeline
  BY <1>6 DEF Pipeline, SweepBefore, Provision, StartRestore, StartDistributed, Restored, Abort, Break, Probed,
              Discard, Park, Unhold
<1>7. CASE Resume
  BY <1>7 DEF Resume, Reattach, PollEnd, PollLost, Unlocked, StillLocked, ResumeTail
<1>8. CASE Handler \/ SetPaused \/ Host \/ Restart \/ \E r \in Runs : GraceOver(r)
  BY <1>8 DEF Handler, Request, DeleteRun, RequestCancel, SetPaused, Host, CopyEnds, Restart, GraceOver
<1>9. CASE UNCHANGED vars BY <1>9 DEF vars
<1> QED BY <1>1, <1>2, <1>3, <1>4, <1>5, <1>6, <1>7, <1>8, <1>9 DEF Next, Slot, Threads

\* Every step but a declaration keeps it.
LEMMA EvidenceNext ==
  ASSUME TypeInv, RowInv, EvidenceInv, [Next]_vars, NoneDeclared,
         \A t, u \in Operators : t = u
  PROVE  EvidenceInv'
<1>0. /\ "slot" \in Threads /\ "slot" \notin Operators /\ "slot" \notin Healers
      /\ Operators \cap Healers = {} /\ "watchdog" \notin Operators
  BY QueueAssumption DEF Threads
<1>r. TypeOK /\ RowKnown BY DEF TypeInv
\* Nobody but its own thread writes the row of a busy slot or of an operator.
<1>h. \A t \in Healers : ~Record(t) BY DEF EvidenceInv, Record
<1>p. Park => /\ pc["slot"] = "park" /\ pc'["slot"] = "unhold" /\ Busy("slot")
  BY <1>0, <1>r DEF Park, Goto, TypeOK, Busy, OnRow, Rowless
<1>s. Start => pc["slot"] = "planned" /\ status[run["slot"]] \in {"queued", "deleted"}
  BY DEF Start, RowInv, PendingQueued
<1>w. \A t \in Threads : Record(t) =>
        \/ t = "slot" /\ status[run[t]] \in {"running", "deleted"} /\ pc'["slot"] \in Rowless
        \/ t \in Operators /\ status[run[t]] = "held" /\ pc'[t] \in Rowless
  BY <1>0, <1>h, RecordLeaves DEF EvidenceInv, Threads, Busy, Rowless
<1>1. \A r \in evidence' : status'[r] \in {"passed", "limited", "deleted"}
  <2> SUFFICES ASSUME NEW r \in evidence' PROVE status'[r] \in {"passed", "limited", "deleted"} OBVIOUS
  <2>1. CASE r \in evidence
    <3>1. status[r] \in {"passed", "limited", "deleted"} /\ r \in Runs BY <1>r, <2>1 DEF TypeOK, EvidenceInv
    <3>2. CASE Park /\ r = run["slot"]
      <4>1. status[r] = "deleted" BY <1>p, <3>1, <3>2 DEF EvidenceInv
      <4> QED BY <3>2, <4>1 DEF Park, SetStatus, Absent
    <3>3. ASSUME NEW t \in Threads, Record(t), r = run[t] PROVE status'[r] = status[r]
      <4>1. status[r] = "deleted" BY <1>w, <3>1, <3>3
      <4> QED BY <3>3, <4>1 DEF Record, SetStatus, Absent
    <3>4. CASE Start /\ r = run["slot"]
      <4>1. status[r] = "deleted" BY <1>s, <3>1, <3>4
      <4> QED BY <3>4, <4>1 DEF Start, SetStatus, Absent
    <3> QED BY <3>1, <3>2, <3>3, <3>4, StatusChange
  <2>2. CASE r \notin evidence
    <3>1. PICK t \in Threads, s \in Terminal :
            /\ Record(t) /\ status' = SetStatus(run[t], s)
            /\ evidence' = IF s \in CountsAsTest THEN evidence \cup {run[t]} ELSE evidence
      BY <2>2, EvidenceChange
    <3>2. r = run[t] /\ s \in {"passed", "limited"} /\ r \in Runs BY <1>r, <2>2, <3>1, RecordLeaves DEF CountsAsTest, RowKnown
    <3>3. status[r] \in {"running", "held", "deleted"} BY <1>w, <3>1, <3>2
    <3> QED BY <1>r, <3>1, <3>2, <3>3 DEF SetStatus, Absent, TypeOK
  <2> QED BY <2>1, <2>2
<1>2. ASSUME Busy("slot")', pc'["slot"] # "unhold" PROVE status'[run'["slot"]] \in {"running", "deleted"}
  <2>1. CASE OnRow("slot") /\ run'["slot"] = run["slot"] /\ ~Restart
    <3> DEFINE r == run["slot"]
    <3>0. r \in Runs BY <1>0, <1>r, <2>1 DEF RowKnown
    <3>1. CASE pc["slot"] = "planned"
      <4>1. Start
        <5>1. CASE Slot /\ SlotStep BY <3>1, <5>1 DEF SlotStep
        <5>2. CASE ScanRunning("slot") \/ Snapshot("slot") \/ \E q \in Runs : Choose(q)
          BY <3>1, <5>2 DEF ScanRunning, Snapshot, Choose, Wakes
        <5> QED BY <1>2, <2>1, <3>1, <5>1, <5>2, SlotCases DEF Mine, Busy
      <4>2. status[r] \in {"queued", "deleted"} BY <1>s, <4>1
      <4> QED BY <1>r, <2>1, <3>0, <4>1, <4>2 DEF Start, SetStatus, TypeOK, Absent
    <3>2. CASE pc["slot"] # "planned" /\ pc["slot"] # "unhold"
      <4>1. status[r] \in {"running", "deleted"} BY <2>1, <3>2 DEF EvidenceInv, Busy
      <4>2. ~Start /\ ~Park BY <1>2, <1>p, <1>s, <3>2
      <4>3. \A t \in Threads : Record(t) => r # run[t]
        BY <1>2, <1>w, <4>1 DEF Busy, OnRow
      <4> QED BY <2>1, <3>0, <4>1, <4>2, <4>3, StatusChange
    <3>3. CASE pc["slot"] = "unhold"
      <4>1. CASE Slot /\ SlotStep BY <1>2, <3>3, <4>1 DEF SlotStep, Busy, OnRow
      <4>2. CASE ScanRunning("slot") \/ Snapshot("slot") \/ \E q \in Runs : Choose(q)
        BY <3>3, <4>2 DEF ScanRunning, Snapshot, Choose, Wakes
      <4> QED BY <1>2, <2>1, <3>3, <4>1, <4>2, SlotCases DEF Mine
    <3> QED BY <3>1, <3>2, <3>3
  <2>2. CASE ScanRunning("slot") BY <1>0, <1>r, <2>2 DEF ScanRunning, TypeOK, rowVars
  <2>3. CASE \E r \in Runs : Choose(r) BY <1>0, <1>r, <1>2, <2>3 DEF Choose, Goto, TypeOK, Busy
  <2>4. CASE Restart BY <1>0, <1>2, <2>4 DEF Restart, rowVars, Busy, OnRow, Rowless
  <2> QED BY <1>0, <1>2, <2>1, <2>2, <2>3, <2>4, RowTaken DEF Busy
<1>3. ASSUME NEW t \in Operators, OnRow(t)' PROVE status'[run'[t]] = "held"
  <2>0. t \in Threads /\ t # "slot" BY <1>0 DEF Threads
  <2>1. CASE OnRow(t) /\ run'[t] = run[t]
    <3>1. status[run[t]] = "held" /\ run[t] \in Runs BY <1>r, <2>0, <2>1 DEF EvidenceInv, RowKnown
    <3>2. ~(Start /\ run[t] = run["slot"]) /\ ~(Park /\ run[t] = run["slot"])
      BY <1>p, <1>s, <3>1 DEF EvidenceInv
    <3>3. \A u \in Threads : Record(u) => run[t] # run[u]
      BY <1>3, <1>w, <3>1 DEF OnRow
    <3> QED BY <2>1, <3>1, <3>2, <3>3, StatusChange
  <2>2. CASE \E r \in Runs, action \in {"promote", "reap", "retest"} : HeldAction(t, r, action)
    BY <1>r, <2>0, <2>2 DEF HeldAction, TypeOK, rowVars
  <2>3. ~ScanRunning(t)
    <3> SUFFICES ASSUME ScanRunning(t) PROVE FALSE OBVIOUS
    <3>1. pc[t] = "idle" /\ pc'[t] = "present"
      BY <1>r, <2>0 DEF ScanRunning, Wakes, Goto, TypeOK
    <3>2. Operator(t)
      <4>1. ~Restart BY <2>0, <3>1 DEF Restart
      <4>2. t \notin Healers BY <1>0
      <4> QED BY <2>0, <3>1, <4>1, <4>2, Moves
    <3> QED BY <1>0, <1>r, <2>0, <3>1, <3>2, RecordLeaves
            DEF Operator, HeldAction, Realloc, Assign, Rehelper, Reprobe, Drop, Teardown, Snapshot, Reap,
                Goto, Return, TypeOK, Rowless
  <2> QED BY <1>3, <2>0, <2>1, <2>2, <2>3, RowTaken
<1>4. ASSUME NEW t \in Healers PROVE pc'[t] \notin {"teardown", "owned", "reap", "record"}
  <2>0. t \in Threads /\ t # "slot" /\ t \notin Operators BY <1>0 DEF Threads
  <2>1. CASE Restart BY <2>0, <2>1 DEF Restart
  <2>2. CASE pc'[t] = pc[t] BY <2>2 DEF EvidenceInv
  <2>3. CASE Healer(t)
    <3>1. pc[t] \notin {"teardown", "owned", "reap", "record"} /\ ~DeclareStuck(t)
      BY DEF EvidenceInv, NoneDeclared
    <3>2. AfterRecover(t) \in {"enqueue", "orphans", "kick"} BY DEF AfterRecover
    <3> QED BY <1>r, <2>0, <2>3, <3>1, <3>2
            DEF Healer, Heal, ScanNone, ScanRunning, LeaveRunning, Teardown, Snapshot, Reap, Record, Kick,
                Orphans, SweepOrphans, Goto, Return, TypeOK
  <2> QED BY <2>0, <2>1, <2>2, <2>3, Moves
<1> QED BY <1>1, <1>2, <1>3, <1>4 DEF EvidenceInv

\* A restore that ended as an error or failed leaves no test record, for any number
\* of rows, outages and restarts, as long as one operator acts at a time and no
\* self-heal thread declares a run stuck while its worker is still at it: either
\* writes a second result over the first, whatever that was (record_run_result has
\* no guard on the status).
THEOREM EvidenceTrue ==
  ASSUME \A t, u \in Operators : t = u
  PROVE  Spec /\ [][NoneDeclared]_vars => []ErrorHasNoEvidence
<1>1. (TypeInv /\ RowInv) /\ EvidenceInv /\ [Next]_vars /\ [NoneDeclared]_vars => EvidenceInv'
  <2>1. (TypeInv /\ RowInv) /\ EvidenceInv /\ [Next]_vars /\ NoneDeclared => EvidenceInv'
    BY EvidenceNext
  <2>2. EvidenceInv /\ UNCHANGED vars => EvidenceInv'
    BY DEF EvidenceInv, vars, rowVars, localVars, Busy, OnRow
  <2> QED BY <2>1, <2>2
<1>2. EvidenceInv => ErrorHasNoEvidence
  BY DEF EvidenceInv, ErrorHasNoEvidence
<1> QED BY <1>1, <1>2, EvidenceInit, RowCorrect, PTL DEF Spec
-----------------------------------------------------------------------------
(* Whole environments, while no re-test writes resources of its own.           *)

ApartIn(e, f) ==
    /\ InUseVmids({e}) \cap InUseVmids({f}) = {}
    /\ InUseTags({e}) \cap InUseTags({f}) = {}
    /\ InUseIps({e}) \cap InUseIps({f}) = {}

\* e names nothing that f does not name.
Within(e, f) ==
    /\ InUseVmids({e}) \subseteq InUseVmids({f})
    /\ InUseTags({e}) \subseteq InUseTags({f})
    /\ InUseIps({e}) \subseteq InUseIps({f})

\* What the slot planned, or still works with, is its own to the last address.
PlannedApart ==
    /\ pc["slot"] = "planned" => \A r \in Runs : status[r] \in Live => ApartIn(env[r], plan["slot"])
    /\ Busy("slot") /\ status[run["slot"]] # "deleted" =>
         \A r \in Runs : r # run["slot"] /\ status[r] \in Live => ApartIn(env[r], env[run["slot"]])

Untested == \A t \in Operators : pc[t] \notin {"rehelper", "reprobe", "drop"}

EnvInv == EnvironmentsDistinct /\ PlannedApart /\ Untested

NoRetest == \A t \in Operators : ~Assign(t)

\* What one environment uses.
LEMMA OneEnv ==
  ASSUME NEW e
  PROVE  /\ InUseVmids({e}) = {e.restore_vmid, e.helper_vmid} \ {Unset}
         /\ InUseTags({e}) = {e.vlan_tag} \ {Unset}
         /\ InUseIps({e}) = {e.mgmt_ip} \ {Unset}
<1>1. {{f.restore_vmid, f.helper_vmid} : f \in {e}} = {{e.restore_vmid, e.helper_vmid}} OBVIOUS
<1>2. UNION {{e.restore_vmid, e.helper_vmid}} = {e.restore_vmid, e.helper_vmid} OBVIOUS
<1>3. {f.vlan_tag : f \in {e}} = {e.vlan_tag} /\ {f.mgmt_ip : f \in {e}} = {e.mgmt_ip} OBVIOUS
<1> QED BY <1>1, <1>2, <1>3 DEF InUseVmids, InUseTags, InUseIps

\* What names less stays apart.
LEMMA ApartWithin ==
  ASSUME NEW e, NEW f, NEW e1, NEW f1, ApartIn(e, f), Within(e1, e), Within(f1, f)
  PROVE  ApartIn(e1, f1) /\ ApartIn(f1, e1)
BY DEF ApartIn, Within

\* An environment whose helper was freed names less.
LEMMA FreedWithin ==
  ASSUME NEW e \in Env
  PROVE  Within(e, e) /\ Within([e EXCEPT !.helper_vmid = Unset, !.mgmt_ip = Unset], e)
<1> DEFINE f == [e EXCEPT !.helper_vmid = Unset, !.mgmt_ip = Unset]
<1>1. /\ f.restore_vmid = e.restore_vmid /\ f.vlan_tag = e.vlan_tag
      /\ f.helper_vmid = Unset /\ f.mgmt_ip = Unset
  BY DEF Env
<1> HIDE DEF f
<1>2. Within(f, e)
  <2>1. /\ InUseVmids({f}) = {f.restore_vmid, f.helper_vmid} \ {Unset}
        /\ InUseTags({f}) = {f.vlan_tag} \ {Unset} /\ InUseIps({f}) = {f.mgmt_ip} \ {Unset}
    BY OneEnv
  <2>2. /\ InUseVmids({e}) = {e.restore_vmid, e.helper_vmid} \ {Unset}
        /\ InUseTags({e}) = {e.vlan_tag} \ {Unset} /\ InUseIps({e}) = {e.mgmt_ip} \ {Unset}
    BY OneEnv
  <2> QED BY <1>1, <2>1, <2>2 DEF Within
<1>3. Within(e, e) BY DEF Within
<1> QED BY <1>2, <1>3 DEF f

\* What a step writes in a row's environment.
LEMMA EnvChange ==
  ASSUME TypeInv, [Next]_vars, NEW r \in Runs
  PROVE  \/ env'[r] = env[r]
         \/ Start /\ r = run["slot"] /\ env'[r] = plan["slot"]
         \/ /\ Unhold /\ r = run["slot"]
            /\ env'[r] = [env[r] EXCEPT !.helper_vmid = Unset, !.mgmt_ip = Unset]
         \/ \E t \in Operators : Assign(t) \/ Drop(t)
<1> USE DEF rowVars, pipelineSame, resumeSame
<1>0. env \in [Runs -> Env] BY DEF TypeInv, TypeOK
<1>1. CASE Start BY <1>0, <1>1 DEF Start
<1>2. CASE Unhold BY <1>0, <1>2 DEF Unhold, FreeHelperColumns
<1>3. ASSUME NEW t \in Threads, Heal(t) PROVE UNCHANGED env
  BY <1>3 DEF Heal, ScanNone, ScanRunning, LeaveRunning, DeclareStuck, Teardown, Snapshot, Reap, Record
<1>4. ASSUME NEW t \in Threads, Healer(t), ~Heal(t) PROVE UNCHANGED env
  BY <1>4 DEF Healer, Kick, Orphans, SweepOrphans
<1>5. ASSUME NEW t \in Threads, Operator(t), ~Assign(t), ~Drop(t) PROVE UNCHANGED env
  BY <1>5 DEF Operator, HeldAction, Realloc, Rehelper, Reprobe, Teardown, Snapshot, Reap, Record
<1>6. CASE Drain
  BY <1>1, <1>6 DEF Drain, EnqueueDue, QueueFails, DrainStop, DrainList, DrainWait, Refuse, Skip, Choose
<1>7. CASE Pipeline
  BY <1>2, <1>7 DEF Pipeline, SweepBefore, Provision, StartRestore, StartDistributed, Restored, Abort, Break, Probed,
              Discard, Park
<1>8. CASE Resume
  BY <1>8 DEF Resume, Reattach, PollEnd, PollLost, Unlocked, StillLocked, ResumeTail
<1>9. CASE Handler \/ SetPaused \/ Host \/ Restart \/ \E q \in Runs : GraceOver(q)
  BY <1>9 DEF Handler, Request, DeleteRun, RequestCancel, SetPaused, Host, CopyEnds, Restart, GraceOver
<1>10. CASE UNCHANGED vars BY <1>10 DEF vars
<1> QED BY <1>3, <1>4, <1>5, <1>6, <1>7, <1>8, <1>9, <1>10 DEF Next, Slot, Threads

\* No operator comes past the point where a re-test would write.
LEMMA UntestedNext ==
  ASSUME TypeInv, Untested, [Next]_vars, NoRetest
  PROVE  Untested'
<1> SUFFICES ASSUME NEW t \in Operators PROVE pc'[t] \notin {"rehelper", "reprobe", "drop"}
  BY DEF Untested
<1>0. t \in Threads /\ t # "slot" /\ t \notin Healers BY QueueAssumption DEF Threads
<1>r. TypeOK BY DEF TypeInv
<1>1. CASE Restart BY <1>0, <1>1 DEF Restart
<1>2. CASE pc'[t] = pc[t] BY <1>2 DEF Untested
<1>3. CASE Operator(t)
  BY <1>0, <1>r, <1>3, RecordLeaves
     DEF Untested, NoRetest, Operator, HeldAction, Realloc, Rehelper, Reprobe, Drop, Teardown, Snapshot, Reap,
         Goto, Return, TypeOK, Rowless
<1> QED BY <1>0, <1>1, <1>2, <1>3, Moves

\* allocate returns an environment apart from every live row's.
LEMMA ChosenApartIn ==
  ASSUME TypeInv, ~Exhausted(Owned), NEW r \in Runs, status[r] \in Live
  PROVE  ApartIn(env[r], Allocation(Owned))
<1> DEFINE a == Allocation(Owned)
<1>1. env[r] \in Owned BY DEF Owned
<1>2. /\ InUseVmids({env[r]}) \subseteq InUseVmids(Owned)
      /\ InUseTags({env[r]}) \subseteq InUseTags(Owned)
      /\ InUseIps({env[r]}) \subseteq InUseIps(Owned)
  <2>1. InUseVmids({env[r]}) \subseteq InUseVmids(Owned)
    <3>0. InUseVmids({env[r]}) = {env[r].restore_vmid, env[r].helper_vmid} \ {Unset} BY OneEnv
    <3> SUFFICES ASSUME NEW v \in {env[r].restore_vmid, env[r].helper_vmid}, v # Unset PROVE v \in InUseVmids(Owned)
      BY <3>0
    <3>1. {env[r].restore_vmid, env[r].helper_vmid} \in {{e.restore_vmid, e.helper_vmid} : e \in Owned} BY <1>1
    <3>2. v \in UNION {{e.restore_vmid, e.helper_vmid} : e \in Owned} BY <3>1
    <3> QED BY <3>2 DEF InUseVmids
  <2>2. InUseTags({env[r]}) \subseteq InUseTags(Owned) BY <1>1 DEF InUseTags
  <2>3. InUseIps({env[r]}) \subseteq InUseIps(Owned) BY <1>1 DEF InUseIps
  <2> QED BY <2>1, <2>2, <2>3
<1>3. /\ a.restore_vmid \in FreeVmids(Owned) /\ a.helper_vmid \in FreeVmids(Owned)
      /\ a.vlan_tag \in FreeTags(Owned) /\ a.mgmt_ip \in FreeIps(Owned)
  BY AllocationFresh
<1> HIDE DEF a
<1>4. /\ InUseVmids({a}) = {a.restore_vmid, a.helper_vmid} \ {Unset}
      /\ InUseTags({a}) = {a.vlan_tag} \ {Unset} /\ InUseIps({a}) = {a.mgmt_ip} \ {Unset}
  BY OneEnv
<1>5. ApartIn(env[r], a) BY <1>2, <1>3, <1>4 DEF ApartIn, FreeVmids, FreeTags, FreeIps
<1> QED BY <1>5 DEF a

\* The invariant holds at the start.
LEMMA EnvInit == Init => EnvInv
<1> SUFFICES ASSUME Init PROVE EnvInv OBVIOUS
<1>1. (\A t \in Threads : pc[t] = "idle") /\ \A r \in Runs : status[r] = "none" BY DEF Init
<1> QED BY <1>1 DEF EnvInv, EnvironmentsDistinct, PlannedApart, Untested, Busy, OnRow, Rowless, Live, Threads

\* Every step but a re-test's write keeps whole environments apart.
LEMMA EnvNext ==
  ASSUME TypeInv, RowInv, EnvInv, [Next]_vars, NoRetest
  PROVE  EnvInv'
<1>0. "slot" \in Threads /\ "slot" # "watchdog" BY DEF Threads
<1>r. TypeOK /\ RowKnown BY DEF TypeInv
<1>u. Untested' BY UntestedNext DEF EnvInv
<1>k. OnRow("slot") => run["slot"] \in Runs BY <1>0, <1>r DEF RowKnown
<1>d. \A r \in Runs : status[r] = "deleted" => status'[r] = "deleted" BY RowsChange
<1>1. CASE Start
  <2>0. /\ pc["slot"] = "planned" /\ pc'["slot"] = "clean" /\ UNCHANGED run
        /\ status' = SetStatus(run["slot"], "running") /\ run["slot"] \in Runs
        /\ env' = IF status[run["slot"]] \in Absent THEN env ELSE [env EXCEPT ![run["slot"]] = plan["slot"]]
    BY <1>0, <1>r, <1>1 DEF Start, Goto, TypeOK, RowKnown, OnRow, Rowless
  <2>1. status[run["slot"]] \in {"queued", "deleted"} BY <2>0 DEF RowInv, PendingQueued
  <2>2. \A r \in Runs : status[r] \in Live => ApartIn(env[r], plan["slot"]) BY <2>0 DEF EnvInv, PlannedApart
  <2>3. CASE status[run["slot"]] = "deleted"
    <3>1. UNCHANGED <<status, env>> BY <2>0, <2>3 DEF SetStatus, Absent
    <3> QED BY <1>u, <2>0, <2>3, <3>1 DEF EnvInv, EnvironmentsDistinct, PlannedApart
  <2>4. CASE status[run["slot"]] = "queued"
    <3>1. /\ status'[run["slot"]] = "running" /\ env'[run["slot"]] = plan["slot"]
          /\ \A r \in Runs \ {run["slot"]} : status'[r] = status[r] /\ env'[r] = env[r]
      BY <1>r, <2>0, <2>4 DEF SetStatus, Absent, TypeOK
    <3>2. EnvironmentsDistinct'
      <4> SUFFICES ASSUME NEW r \in Runs, NEW q \in Runs, r # q, status'[r] \in Live, status'[q] \in Live
                   PROVE  ApartIn(env'[r], env'[q])
        BY DEF EnvironmentsDistinct, ApartIn
      <4>1. CASE r # run["slot"] /\ q # run["slot"]
        BY <3>1, <4>1 DEF EnvInv, EnvironmentsDistinct, ApartIn
      <4>2. CASE q = run["slot"]
        BY <2>2, <3>1, <4>2
      <4>3. CASE r = run["slot"]
        <5>1. ApartIn(env'[q], env'[r]) BY <2>2, <3>1, <4>3
        <5> QED BY <5>1 DEF ApartIn
      <4> QED BY <4>1, <4>2, <4>3
    <3>3. PlannedApart' BY <2>0, <2>2, <3>1 DEF PlannedApart
    <3> QED BY <1>u, <3>2, <3>3 DEF EnvInv
  <2> QED BY <2>1, <2>3, <2>4
<1>2. ASSUME NEW r \in Runs, Choose(r) PROVE EnvInv'
  <2>1. /\ UNCHANGED <<status, env>> /\ pc'["slot"] = "planned" /\ plan'["slot"] = Allocation(Owned)
        /\ ~Exhausted(Owned)
    BY <1>0, <1>r, <1>2 DEF Choose, Goto, TypeOK, rowVars
  <2>2. PlannedApart' BY <2>1, ChosenApartIn DEF PlannedApart, Busy
  <2> QED BY <1>u, <2>1, <2>2 DEF EnvInv, EnvironmentsDistinct
<1>3. CASE ScanRunning("slot") \/ Restart
  <2>1. /\ UNCHANGED <<status, env>>
        /\ \/ pc'["slot"] = "idle"
           \/ pc'["slot"] \in {"attach", "present"} /\ status[run'["slot"]] = "running" /\ run'["slot"] \in Runs
    BY <1>0, <1>r, <1>3 DEF Restart, ScanRunning, Goto, TypeOK, rowVars
  <2>2. PlannedApart'
    BY <2>1 DEF EnvInv, EnvironmentsDistinct, PlannedApart, ApartIn, Busy, OnRow, Rowless, Live
  <2> QED BY <1>u, <2>1, <2>2 DEF EnvInv, EnvironmentsDistinct
<1>4. CASE ~Start /\ ~ScanRunning("slot") /\ ~Restart /\ \A r \in Runs : ~Choose(r)
  <2>1. \A r \in Runs : Within(env'[r], env[r])
    <3> SUFFICES ASSUME NEW r \in Runs PROVE Within(env'[r], env[r]) OBVIOUS
    <3>1. \A t \in Operators : ~Assign(t) /\ ~Drop(t) BY DEF NoRetest, EnvInv, Untested, Drop
    <3>2. env[r] \in Env BY <1>r DEF TypeOK
    <3> QED BY <1>4, <3>1, <3>2, EnvChange, FreedWithin
  <2>2. Busy("slot")' => Busy("slot") /\ run'["slot"] = run["slot"]
    <3> SUFFICES ASSUME Busy("slot")' PROVE Busy("slot") /\ run'["slot"] = run["slot"] OBVIOUS
    <3>1. OnRow("slot") /\ run'["slot"] = run["slot"]
      BY <1>0, <1>4, QueueAssumption, RowTaken DEF Busy
    <3>2. pc["slot"] # "planned"
      BY <1>4, SlotCases DEF Mine, SlotStep, Snapshot, Busy
    <3> QED BY <3>1, <3>2 DEF Busy
  <2>3. pc'["slot"] = "planned" => pc["slot"] = "planned" /\ plan'["slot"] = plan["slot"]
    <3>1. Snapshot("slot") => pc'["slot"] # "planned" BY <1>0, <1>r DEF Snapshot, Goto, TypeOK
    <3> QED BY <1>4, <3>1, SlotCases DEF Mine, SlotStep
  <2>4. \A r \in Runs : status'[r] \in Live =>
          status[r] \in Live \/ (r = run["slot"] /\ Busy("slot") /\ status[r] # "deleted" /\ Park)
    <3>1. Park => Busy("slot") BY DEF Park, Busy, OnRow, Rowless
    <3> QED BY <1>4, <1>d, <3>1, RowsChange DEF Live
  <2>5. ASSUME NEW r \in Runs, NEW q \in Runs, r # q, status'[r] \in Live, status'[q] \in Live
        PROVE  ApartIn(env'[r], env'[q])
    <3>1. CASE status[r] \in Live /\ status[q] \in Live
      <4>1. ApartIn(env[r], env[q]) BY <2>5, <3>1 DEF EnvInv, EnvironmentsDistinct, ApartIn
      <4> QED BY <2>1, <4>1, ApartWithin
    <3>2. CASE status[r] \notin Live
      <4>1. ApartIn(env[q], env[r]) BY <2>4, <2>5, <3>2 DEF EnvInv, PlannedApart
      <4> QED BY <2>1, <4>1, ApartWithin
    <3>3. CASE status[q] \notin Live
      <4>1. ApartIn(env[r], env[q]) BY <2>4, <2>5, <3>3 DEF EnvInv, PlannedApart
      <4> QED BY <2>1, <4>1, ApartWithin
    <3> QED BY <3>1, <3>2, <3>3
  <2>6. EnvironmentsDistinct' BY <2>5 DEF EnvironmentsDistinct, ApartIn
  <2>7. PlannedApart'
    <3>1. ASSUME pc'["slot"] = "planned", NEW r \in Runs, status'[r] \in Live PROVE ApartIn(env'[r], plan'["slot"])
      <4>1. status[r] \in Live /\ ApartIn(env[r], plan["slot"])
        BY <2>3, <2>4, <3>1 DEF EnvInv, PlannedApart, Busy
      <4>2. Within(plan["slot"], plan["slot"]) BY DEF Within
      <4>3. ApartIn(env'[r], plan["slot"]) BY <2>1, <4>1, <4>2, ApartWithin
      <4> QED BY <2>3, <3>1, <4>3
    <3>2. ASSUME Busy("slot")', status'[run'["slot"]] # "deleted",
                 NEW r \in Runs, r # run'["slot"], status'[r] \in Live
          PROVE  ApartIn(env'[r], env'[run'["slot"]])
      <4>1. /\ Busy("slot") /\ run'["slot"] = run["slot"] /\ run["slot"] \in Runs
            /\ status[run["slot"]] # "deleted" /\ status[r] \in Live
        BY <1>d, <1>k, <2>2, <2>4, <3>2 DEF Busy
      <4>2. ApartIn(env[r], env[run["slot"]]) BY <3>2, <4>1 DEF EnvInv, PlannedApart
      <4> QED BY <2>1, <4>1, <4>2, ApartWithin
    <3> QED BY <3>1, <3>2 DEF PlannedApart
  <2> QED BY <1>u, <2>6, <2>7 DEF EnvInv
<1> QED BY <1>1, <1>2, <1>3, <1>4
-----------------------------------------------------------------------------
(* What is left on the host, while nothing fails.                              *)

Others == Threads \ {"slot"}
Ends == {"owned", "reap", "record"}
Local(t) == <<pc[t], run[t], plan[t]>>
SlotHas(r) == Busy("slot") /\ run["slot"] = r

\* No outage, no restart, no row deleted while its run was already chosen.
Calm == faults = 0 /\ restarts = 0 /\ \A r \in Runs : status[r] # "deleted"

\* The slot resumes and recovers nothing, ...
NothingResumed == pc["slot"] \notin {"present", "attach", "recopy", "unlock", "tail"}

\* ... works with what its row names, ...
OwnPlan ==
    /\ Busy("slot") => env[run["slot"]] = plan["slot"]
    /\ OnRow("slot") => plan["slot"].restore_vmid # Unset /\ plan["slot"].helper_vmid # Unset

\* ... and has the running row.
RunsInSlot == \A r \in Runs : status[r] = "running" => SlotHas(r) /\ pc["slot"] # "unhold"

\* Whoever ended the row while the slot still works on it flagged it as cancelled,
\* and so did a thread about to end it.
EndedCancelled ==
    \A r \in Runs : SlotHas(r) /\ pc["slot"] # "unhold" /\ status[r] # "running" => r \in cancel
ClosingCancelled ==
    \A t \in Others : pc[t] \in Ends \cup {"teardown"} /\ SlotHas(run[t]) /\ pc["slot"] # "unhold"
                        => run[t] \in cancel

\* Such a thread read the guests the row still names, ...
ReadRight ==
    \A t \in Others : pc[t] \in Ends \cup {"present", "teardown"} =>
        /\ plan[t].restore_vmid = env[run[t]].restore_vmid
        /\ env[run[t]].helper_vmid \in {plan[t].helper_vmid, Unset}

\* ... and once it has torn them down they do not come back.
ClosedEmpty ==
    \A t \in Others : pc[t] \in Ends /\ (status[run[t]] \in Live \/ SlotHas(run[t])) =>
        env[run[t]].restore_vmid \notin vms /\ env[run[t]].helper_vmid \notin lxcs

\* Nor do those of the slot, which leaves a VM behind only with a held row.
LeftEmpty ==
    /\ pc["slot"] \in Ends => plan["slot"].restore_vmid \notin vms /\ plan["slot"].helper_vmid \notin lxcs
    /\ pc["slot"] \in {"park", "unhold"} => plan["slot"].helper_vmid \notin lxcs
    /\ pc["slot"] = "unhold" => status[run["slot"]] = "held" \/ plan["slot"].restore_vmid \notin vms

\* A guest is a live row's or the slot's.
Accounted ==
    /\ Unset \notin vms /\ Unset \notin lxcs
    /\ \A v \in vms : \/ \E r \in Runs : status[r] \in Live /\ env[r].restore_vmid = v
                      \/ Busy("slot") /\ v = plan["slot"].restore_vmid
    /\ \A v \in lxcs : \/ \E r \in Runs : status[r] \in Live /\ env[r].helper_vmid = v
                       \/ Busy("slot") /\ v = plan["slot"].helper_vmid

Tidy == /\ NothingResumed /\ OwnPlan /\ RunsInSlot /\ EndedCancelled /\ ClosingCancelled
        /\ ReadRight /\ ClosedEmpty /\ LeftEmpty /\ Accounted

\* A held row names a helper only until the slot has freed its columns.
HelperFreed ==
    restarts = 0 => \A r \in Runs : status[r] = "held" =>
        \/ env[r].helper_vmid = Unset /\ env[r].mgmt_ip = Unset
        \/ pc["slot"] = "unhold" /\ run["slot"] = r

TidyInv == (Calm => Tidy) /\ HelperFreed

TidyStep == /\ TypeInv /\ RowInv /\ EnvInv /\ Calm /\ Tidy
            /\ [Next]_vars /\ NoRetest /\ Calm'

\* A step leaves the place, row and plan of every other thread alone, be it ...
LEMMA SlotLocal ==
  ASSUME TypeInv, Slot, NEW t \in Others
  PROVE  Local(t)' = Local(t)
<1> USE DEF Goto, Return, rowVars, hostVars, localVars, boundVars, pipelineSame, resumeSame, localSame, leave, Local, Others
<1>r. TypeOK BY DEF TypeInv
<1>c. \A result \in Terminal : Conclude(result) => pc' = [pc EXCEPT !["slot"] = pc'["slot"]]
  BY ConcludeType
<1>e. {"error", "cancelled", "passed", "limited", "failed"} = Terminal BY DEF Terminal
<1>1. CASE Heal("slot")
  BY <1>r, <1>1 DEF TypeOK, Heal, ScanNone, ScanRunning, LeaveRunning, DeclareStuck, Teardown, Snapshot, Reap, Record
<1>2. CASE Drain
  BY <1>r, <1>2
     DEF TypeOK, Drain, EnqueueDue, QueueFails, DrainStop, DrainList, DrainWait, Start, Refuse, Skip, Choose
<1>3. CASE Pipeline
  BY <1>r, <1>c, <1>e, <1>3
     DEF TypeOK, Pipeline, SweepBefore, Provision, StartRestore, StartDistributed, Restored, Abort, Break, Probed,
         Discard, Park, Unhold
<1>4. CASE Resume
  BY <1>r, <1>c, <1>e, <1>4
     DEF TypeOK, Resume, Reattach, PollEnd, PollLost, Unlocked, StillLocked, ResumeTail
<1> QED BY <1>1, <1>2, <1>3, <1>4 DEF Slot

\* ... the slot's or another thread's.
LEMMA OtherLocal ==
  ASSUME TypeInv, NEW u \in Threads, Healer(u) \/ Operator(u), NEW t \in Threads, t # u
  PROVE  Local(t)' = Local(t)
<1> USE DEF Goto, Return, rowVars, hostVars, localVars, boundVars, Local
<1>r. TypeOK BY DEF TypeInv
<1>1. CASE Heal(u) \/ Kick(u)
  BY <1>r, <1>1 DEF TypeOK, Heal, ScanNone, ScanRunning, LeaveRunning, DeclareStuck, Teardown, Snapshot, Reap, Record, Kick
<1>2. CASE u = "watchdog" /\ (Orphans \/ SweepOrphans)
  BY <1>r, <1>2 DEF TypeOK, Orphans, SweepOrphans
<1>3. CASE Operator(u)
  BY <1>r, <1>3 DEF TypeOK, Operator, HeldAction, Realloc, Assign, Rehelper, Reprobe, Drop, Teardown, Snapshot, Reap, Record
<1> QED BY <1>1, <1>2, <1>3 DEF Healer

\* So whose place, row or plan changes is the one that steps.
LEMMA Locals ==
  ASSUME TypeInv, [Next]_vars, ~Restart, NEW t \in Others, Local(t)' # Local(t)
  PROVE  (t \in Healers /\ Healer(t)) \/ (t \in Operators /\ Operator(t))
<1> USE DEF localVars
<1>0. t \in Threads /\ t # "slot" BY DEF Others
<1>1. CASE Slot BY <1>1, SlotLocal
<1>2. CASE Handler \/ SetPaused \/ Host \/ \E r \in Runs : GraceOver(r)
  BY <1>2 DEF Handler, Request, DeleteRun, RequestCancel, SetPaused, Host, CopyEnds, GraceOver, Local
<1>3. ASSUME NEW u \in Threads, Healer(u) \/ Operator(u), u # t PROVE FALSE
  BY <1>0, <1>3, OtherLocal
<1>4. CASE UNCHANGED vars BY <1>4 DEF vars, Local
<1>5. CASE \E u \in Healers : Healer(u)
  <2>1. PICK u \in Healers : Healer(u) BY <1>5
  <2>2. u = t BY <1>3, <2>1 DEF Threads
  <2> QED BY <2>1, <2>2
<1>6. CASE \E u \in Operators : Operator(u)
  <2>1. PICK u \in Operators : Operator(u) BY <1>6
  <2>2. u = t BY <1>3, <2>1 DEF Threads
  <2> QED BY <2>1, <2>2
<1> QED BY <1>1, <1>2, <1>4, <1>5, <1>6 DEF Next

\* How a thread gets to the end of a run.
LEMMA Closing ==
  ASSUME TypeInv, Untested, [Next]_vars, NoRetest, ~Restart, NEW t \in Others,
         pc'[t] \in Ends \cup {"present", "teardown"}
  PROVE  \/ /\ run'[t] = run[t] /\ plan'[t] = plan[t]
            /\ \/ pc'[t] = pc[t]
               \/ DeclareStuck(t) /\ pc[t] = "present" /\ pc'[t] = "teardown"
               \/ Teardown(t) /\ pc[t] = "teardown" /\ pc'[t] = "owned"
               \/ pc[t] \in Ends /\ pc'[t] \in Ends
         \/ \E r \in Runs :
              /\ status[r] \in {"running", "held"} /\ run'[t] = r /\ plan'[t] = env[r] /\ UNCHANGED <<status, env>>
              /\ Local("slot")' = Local("slot")
              /\ status[r] = "held" \/ pc'[t] = "present"
              /\ pc'[t] \in {"present", "teardown"}
<1> USE DEF Goto, Return, rowVars, hostVars, localVars, boundVars
<1>0. t \in Threads /\ t # "slot" /\ "slot" \in Threads BY DEF Others, Threads
<1>r. TypeOK BY DEF TypeInv
<1>a. AfterRecover(t) \in {"enqueue", "orphans", "kick"} BY DEF AfterRecover
<1>1. CASE Local(t)' = Local(t) BY <1>1 DEF Local
<1>2. CASE Heal(t) /\ ~ScanRunning(t)
  BY <1>0, <1>r, <1>a, <1>2, RecordLeaves
     DEF TypeOK, Heal, ScanNone, LeaveRunning, DeclareStuck, Teardown, Snapshot, Reap, Ends, Rowless
<1>3. CASE ScanRunning(t)
  BY <1>0, <1>r, <1>3 DEF TypeOK, ScanRunning, Local
<1>4. CASE Kick(t) \/ (t = "watchdog" /\ (Orphans \/ SweepOrphans))
  BY <1>0, <1>r, <1>4 DEF TypeOK, Kick, Orphans, SweepOrphans, Ends
<1>5. ASSUME t \in Operators, NEW r \in Runs, NEW action \in {"promote", "reap", "retest"}, HeldAction(t, r, action)
      PROVE  /\ status[r] = "held" /\ run'[t] = r /\ plan'[t] = env[r] /\ UNCHANGED <<status, env>>
             /\ Local("slot")' = Local("slot") /\ pc'[t] \in {"realloc", "teardown"}
  BY <1>0, <1>r, <1>5 DEF TypeOK, HeldAction, Local
<1>6. CASE t \in Operators /\ (Realloc(t) \/ Rehelper(t) \/ Reprobe(t) \/ Drop(t))
  BY <1>0, <1>r, <1>6 DEF TypeOK, Realloc, Rehelper, Reprobe, Drop, Untested, Ends
<1>7. CASE t \in Operators /\ (Teardown(t) \/ Snapshot(t) \/ Reap(t) \/ Record(t))
  <2>1. Heal(t) /\ ~ScanRunning(t)
    BY <1>7 DEF Heal, Teardown, Snapshot, Reap, Record, ScanRunning, Wakes
  <2> QED BY <1>2, <2>1
<1>8. \/ Local(t)' = Local(t) \/ (Heal(t) /\ ~ScanRunning(t)) \/ ScanRunning(t)
      \/ Kick(t) \/ (t = "watchdog" /\ (Orphans \/ SweepOrphans))
      \/ t \in Operators /\ \E r \in Runs, action \in {"promote", "reap", "retest"} : HeldAction(t, r, action)
      \/ t \in Operators /\ (Realloc(t) \/ Rehelper(t) \/ Reprobe(t) \/ Drop(t))
      \/ t \in Operators /\ (Teardown(t) \/ Snapshot(t) \/ Reap(t) \/ Record(t))
  BY Locals DEF Healer, Operator, NoRetest
<1>9. CASE t \in Operators /\ \E r \in Runs, action \in {"promote", "reap", "retest"} : HeldAction(t, r, action)
  BY <1>5, <1>9 DEF Ends
<1> QED BY <1>1, <1>2, <1>3, <1>4, <1>6, <1>7, <1>8, <1>9

\* Outages and restarts are counted, and no cancel request is withdrawn.
LEMMA Counted ==
  ASSUME TypeInv, [Next]_vars
  PROVE  /\ faults' \in {faults, faults + 1} /\ cancel \subseteq cancel'
         /\ restarts' = restarts \/ (Restart /\ restarts' = restarts + 1)
<1> USE DEF Fault, NoFault, rowVars, hostVars, localVars, boundVars, pipelineSame, resumeSame, ReapGuests
<1>1. ASSUME NEW t \in Threads, Heal(t) PROVE faults' \in {faults, faults + 1} /\ restarts' = restarts /\ cancel \subseteq cancel'
  BY <1>1 DEF Heal, ScanNone, ScanRunning, LeaveRunning, DeclareStuck, Teardown, Snapshot, Reap, Record
<1>2. ASSUME NEW t \in Threads, Healer(t), ~Heal(t)
      PROVE faults' \in {faults, faults + 1} /\ restarts' = restarts /\ cancel \subseteq cancel'
  BY <1>2 DEF Healer, Kick, Orphans, SweepOrphans
<1>3. ASSUME NEW t \in Threads, Operator(t) PROVE faults' \in {faults, faults + 1} /\ restarts' = restarts /\ cancel \subseteq cancel'
  BY <1>3 DEF Operator, HeldAction, Realloc, Assign, Rehelper, Reprobe, Drop, Teardown, Snapshot, Reap, Record
<1>4. CASE Drain
  BY <1>4 DEF Drain, EnqueueDue, QueueFails, DrainStop, DrainList, DrainWait, Start, Refuse, Skip, Choose
<1>5. CASE Pipeline
  BY <1>5 DEF Pipeline, SweepBefore, Provision, StartRestore, StartDistributed, Restored, Abort, Break, Probed,
              Discard, Park, Unhold
<1>6. CASE Resume
  BY <1>6 DEF Resume, Reattach, PollEnd, PollLost, Unlocked, StillLocked, ResumeTail
<1>7. CASE Handler \/ SetPaused \/ Host \/ Restart \/ \E r \in Runs : GraceOver(r)
  BY <1>7 DEF Handler, Request, DeleteRun, RequestCancel, SetPaused, Host, CopyEnds, Restart, GraceOver
<1>8. CASE UNCHANGED vars BY <1>8 DEF vars
<1> QED BY <1>1, <1>2, <1>3, <1>4, <1>5, <1>6, <1>7, <1>8 DEF Next, Slot, Threads

\* What is calm after a step was calm before it, and nothing failed in between.
LEMMA CalmBack ==
  ASSUME TypeInv, RowInv, [Next]_vars, Calm'
  PROVE  Calm /\ ~Restart /\ ~Fault
<1>1. faults \in Nat /\ restarts \in Nat BY DEF TypeInv, TypeOK
<1>2. faults = 0 /\ restarts = 0 /\ ~Restart BY <1>1, Counted DEF Calm, Restart
<1>3. ~Fault BY <1>1, <1>2 DEF Fault, Calm
<1>4. \A r \in Runs : status[r] # "deleted" BY RowsChange DEF Calm
<1> QED BY <1>2, <1>3, <1>4 DEF Calm

\* Only a run of the slot that nobody cancelled adds guests: its own.
LEMMA GuestsAdded ==
  ASSUME TypeInv, Untested, NothingResumed, [Next]_vars
  PROVE  \/ vms' \subseteq vms /\ lxcs' \subseteq lxcs
         \/ /\ Slot /\ pc["slot"] \in {"helper", "restore", "copy"} /\ ~Cancelled
            /\ UNCHANGED <<status, env>>
            /\ vms' \subseteq vms \cup {plan["slot"].restore_vmid}
            /\ lxcs' \subseteq lxcs \cup {plan["slot"].helper_vmid}
<1> USE DEF hostVars, pipelineSame, resumeSame, ReapGuests, rowVars, localSame
<1>1. ASSUME NEW t \in Threads, Heal(t) PROVE vms' \subseteq vms /\ lxcs' \subseteq lxcs
  BY <1>1 DEF Heal, ScanNone, ScanRunning, LeaveRunning, DeclareStuck, Teardown, Snapshot, Reap, Record
<1>2. ASSUME NEW t \in Threads, Healer(t), ~Heal(t) PROVE vms' \subseteq vms /\ lxcs' \subseteq lxcs
  BY <1>2 DEF Healer, Kick, Orphans, SweepOrphans
<1>3. ASSUME NEW t \in Operators, Operator(t) PROVE vms' \subseteq vms /\ lxcs' \subseteq lxcs
  BY <1>3 DEF Operator, HeldAction, Realloc, Assign, Rehelper, Reprobe, Drop, Teardown, Snapshot, Reap, Record, Untested
<1>4. CASE Drain
  BY <1>4 DEF Drain, EnqueueDue, QueueFails, DrainStop, DrainList, DrainWait, Start, Refuse, Skip, Choose
<1>5. CASE Pipeline
  <2>1. CASE SweepBefore \/ StartDistributed \/ Abort \/ Break \/ Discard \/ Park \/ Unhold
    BY <2>1 DEF SweepBefore, StartDistributed, Abort, Break, Discard, Park, Unhold
  <2>2. CASE \E result \in Terminal : Probed(result) BY <2>2 DEF Probed
  <2>3. CASE Provision BY <1>5, <2>3 DEF Provision, Slot
  <2>4. CASE StartRestore BY <1>5, <2>4 DEF StartRestore, Slot
  <2>5. CASE Restored BY <1>5, <2>5 DEF Restored, Slot
  <2> QED BY <1>5, <2>1, <2>2, <2>3, <2>4, <2>5 DEF Pipeline
<1>6. CASE Resume
  BY <1>6 DEF Resume, Reattach, PollEnd, PollLost, Unlocked, StillLocked, ResumeTail, NothingResumed
<1>7. CASE Handler \/ SetPaused \/ Host \/ Restart \/ \E r \in Runs : GraceOver(r)
  BY <1>7 DEF Handler, Request, DeleteRun, RequestCancel, SetPaused, Host, CopyEnds, Restart, GraceOver
<1>8. CASE UNCHANGED vars BY <1>8 DEF vars
<1> QED BY <1>1, <1>2, <1>3, <1>4, <1>5, <1>6, <1>7, <1>8 DEF Next, Slot, Threads

\* A slot that works on a row goes on with it until it records or has parked it, and
\* takes up another only from the queue.
LEMMA SlotGoes ==
  ASSUME TidyStep, pc'["slot"] # pc["slot"]
  PROVE  /\ pc'["slot"] \notin {"present", "attach", "recopy", "unlock", "tail"}
         /\ \/ Busy("slot") /\ Busy("slot")' /\ run'["slot"] = run["slot"] /\ plan'["slot"] = plan["slot"] /\ ~Start
            \/ Start
            \/ Record("slot")
            \/ Unhold
            \/ ~Busy("slot") /\ ~Busy("slot")'
         /\ pc'["slot"] = "unhold" => Park
         /\ pc'["slot"] = "park" => Discard
         /\ pc'["slot"] \in Ends => Teardown("slot") \/ pc["slot"] \in Ends
         /\ pc["slot"] = "unhold" => Unhold
<1> USE DEF Goto, Return, rowVars, hostVars, boundVars, pipelineSame, resumeSame, localSame, Ends
<1>0. "slot" \in Threads /\ "slot" # "watchdog" BY DEF Threads
<1>r. TypeOK /\ TypeInv /\ NothingResumed BY DEF TidyStep, TypeInv, Tidy
<1>n. ~Restart BY CalmBack DEF TidyStep
<1>1. Slot BY <1>0, <1>n, Moves, QueueAssumption DEF TidyStep
<1>c. \A result \in Terminal : Conclude(result) =>
        /\ pc' = [pc EXCEPT !["slot"] = pc'["slot"]] /\ pc'["slot"] \in {"discard", "teardown"}
  BY <1>r, ConcludeType
<1>e. {"error", "cancelled", "passed", "limited", "failed"} = Terminal BY DEF Terminal
<1>a. AfterRecover("slot") = "enqueue" /\ AfterRecord("slot") \in {"enqueue", "top", "idle"}
  BY DEF AfterRecover, AfterRecord, AfterRun
<1>2. CASE Heal("slot")
  <2>1. ~HasActive \/ pc["slot"] # "idle"
    BY DEF TidyStep, Tidy, RunsInSlot, SlotHas, Busy, OnRow, Rowless, HasActive
  <2>2. ~ScanRunning("slot") /\ ~LeaveRunning("slot") /\ ~DeclareStuck("slot")
    BY <1>r, <2>1 DEF NothingResumed, ScanRunning, LeaveRunning, DeclareStuck, Wakes, HasActive
  <2>3. CASE ScanNone("slot")
    BY <1>0, <1>r, <1>a, <2>3 DEF TypeOK, ScanNone, Wakes, Busy, OnRow, Rowless
  <2>4. CASE Teardown("slot") \/ Snapshot("slot") \/ Reap("slot")
    BY <1>0, <1>r, <2>4 DEF TypeOK, Teardown, Snapshot, Reap, Start, Busy, OnRow, Rowless
  <2>5. CASE Record("slot")
    BY <1>0, <1>r, <1>a, <2>5 DEF TypeOK, Record
  <2> QED BY <1>2, <2>2, <2>3, <2>4, <2>5 DEF Heal
<1>3. CASE Drain
  <2>1. CASE Start BY <1>0, <1>r, <2>1 DEF TypeOK, Start
  <2>2. CASE ~Start
    BY <1>0, <1>r, <1>3, <2>2
       DEF TypeOK, Drain, EnqueueDue, QueueFails, DrainStop, DrainList, DrainWait, Refuse, Skip, Choose,
           Busy, OnRow, Rowless
  <2> QED BY <2>1, <2>2
\* Within the pipeline.
<1>q. ASSUME pc["slot"] \in Executing \ {"unhold"}, UNCHANGED <<run, plan>>,
             pc'["slot"] \in Executing \ {"attach", "recopy", "unlock", "tail"},
             pc'["slot"] = "unhold" => Park, pc'["slot"] = "park" => Discard, pc'["slot"] \notin Ends
      PROVE  /\ pc'["slot"] \notin {"present", "attach", "recopy", "unlock", "tail"}
             /\ Busy("slot") /\ Busy("slot")' /\ run'["slot"] = run["slot"] /\ plan'["slot"] = plan["slot"] /\ ~Start
  BY <1>0, <1>q DEF Busy, OnRow, Rowless, Executing, Start
<1>4. CASE Pipeline
  <2>1. CASE Unhold
    <3>1. pc'["slot"] \in {"top", "idle"} BY <1>0, <1>r, <2>1 DEF TypeOK, Unhold, AfterRun
    <3> QED BY <2>1, <3>1
  <2>2. CASE ~Unhold
    <3>1. /\ pc["slot"] \in Executing \ {"unhold"} /\ UNCHANGED <<run, plan>>
          /\ pc'["slot"] \in Executing \ {"attach", "recopy", "unlock", "tail"}
          /\ pc'["slot"] = "unhold" => Park
          /\ pc'["slot"] = "park" => Discard
          /\ pc'["slot"] \notin Ends
      <4>1. CASE SweepBefore BY <1>0, <1>r, <1>c, <1>e, <4>1 DEF TypeOK, SweepBefore, Executing
      <4>2. CASE Provision BY <1>0, <1>r, <1>c, <1>e, <4>2 DEF TypeOK, Provision, Executing
      <4>3. CASE StartRestore BY <1>0, <1>r, <1>c, <1>e, <4>3 DEF TypeOK, StartRestore, Executing
      <4>4. CASE StartDistributed \/ Restored \/ Discard \/ Park
        BY <1>0, <1>r, <4>4 DEF TypeOK, StartDistributed, Restored, Discard, Park, Executing
      <4>5. CASE Abort \/ Break BY <1>0, <1>r, <1>c, <1>e, <1>r, <4>5 DEF Abort, Break, Executing
      <4>6. CASE \E result \in Terminal : Probed(result) BY <1>0, <1>r, <1>c, <4>6 DEF Probed, Executing
      <4> QED BY <1>4, <2>2, <4>1, <4>2, <4>3, <4>4, <4>5, <4>6 DEF Pipeline
    <3> QED BY <1>q, <3>1
  <2> QED BY <2>1, <2>2
<1>5. ~Resume
  BY <1>r DEF Resume, Reattach, PollEnd, PollLost, Unlocked, StillLocked, ResumeTail, NothingResumed
<1> QED BY <1>1, <1>2, <1>3, <1>4, <1>5 DEF Slot

\* The turns a step can take for the slot ...
LEMMA SlotTurn ==
  ASSUME TidyStep
  PROVE  /\ ~Restart /\ ~Fault /\ "slot" \in Threads
         /\ Busy("slot") => run["slot"] \in Runs /\ status[run["slot"]] \in RL!Left
         /\ \/ /\ Busy("slot") /\ Busy("slot")' /\ run'["slot"] = run["slot"] /\ plan'["slot"] = plan["slot"]
               /\ ~Start /\ ~Unhold /\ ~Record("slot")
            \/ Start
            \/ Record("slot") /\ ~Busy("slot")' /\ Busy("slot") /\ pc["slot"] = "record" /\ ~Start /\ ~Unhold
            \/ Unhold /\ ~Busy("slot")' /\ Busy("slot") /\ pc["slot"] = "unhold" /\ ~Start
            \/ ~Busy("slot") /\ ~Busy("slot")' /\ ~Start /\ ~Unhold /\ ~Record("slot")
         /\ pc["slot"] = "unhold" => pc'["slot"] = "unhold" \/ Unhold
         /\ pc'["slot"] = "unhold" => Park \/ pc["slot"] = "unhold"
         /\ pc'["slot"] = "park" => Discard \/ pc["slot"] = "park"
         /\ pc'["slot"] \in Ends => Teardown("slot") \/ pc["slot"] \in Ends
<1>0. "slot" \in Threads /\ "slot" # "watchdog" BY DEF Threads
<1>r. TypeOK /\ TypeInv /\ RowInv BY DEF TidyStep, TypeInv
<1>n. ~Restart /\ ~Fault BY CalmBack DEF TidyStep
<1>b. Busy("slot") => run["slot"] \in Runs /\ status[run["slot"]] \in RL!Left
  <2>1. Busy("slot") => run["slot"] \in Runs BY <1>0, <1>r DEF TypeInv, RowKnown, Busy
  <2>2. Busy("slot") => status[run["slot"]] \in RL!Left \cup {"deleted"} BY <1>0, <1>r DEF RowInv, RowLeft
  <2> QED BY <2>1, <2>2 DEF TidyStep, Calm
<1>s. Start => pc["slot"] = "planned" /\ pc'["slot"] = "clean" BY <1>0, <1>r DEF Start, Goto, TypeOK
<1>w. Record("slot") => pc["slot"] = "record" /\ Busy("slot") /\ ~Busy("slot")'
  BY <1>0, <1>r, RecordLeaves DEF Busy, OnRow, Rowless
<1>u. Unhold => pc["slot"] = "unhold" /\ Busy("slot") /\ ~Busy("slot")'
  <2>1. AfterRun \in {"top", "idle"} BY DEF AfterRun
  <2> QED BY <1>0, <1>r, <2>1 DEF Unhold, Return, Goto, TypeOK, Busy, OnRow, Rowless
<1>1. CASE pc'["slot"] # pc["slot"]
  BY <1>0, <1>n, <1>b, <1>s, <1>w, <1>u, <1>1, SlotGoes
<1>2. CASE pc'["slot"] = pc["slot"]
  <2>1. ~Start /\ ~Unhold /\ ~Record("slot")
    BY <1>s, <1>u, <1>w, <1>2 DEF Busy, OnRow
  <2>2. Busy("slot")' <=> Busy("slot") BY <1>2 DEF Busy, OnRow
  <2>3. Busy("slot") => run'["slot"] = run["slot"] /\ plan'["slot"] = plan["slot"]
    <3> SUFFICES ASSUME Busy("slot") PROVE run'["slot"] = run["slot"] /\ plan'["slot"] = plan["slot"] OBVIOUS
    <3>1. OnRow("slot")' BY <2>2 DEF Busy
    <3>2. pc["slot"] # "idle" /\ pc["slot"] # "pick" BY DEF Busy, OnRow, Rowless
    <3>3. ~ScanRunning("slot") /\ ~Snapshot("slot") /\ \A r \in Runs : ~Choose(r)
      BY <1>0, <1>2, <1>r, <3>2 DEF ScanRunning, Wakes, Snapshot, Choose, Goto, TypeOK
    <3> QED BY <1>n, <1>r, <3>1, <3>3, SlotCases DEF Mine, SlotStep, TidyStep
  <2> QED BY <1>0, <1>n, <1>b, <1>2, <2>1, <2>2, <2>3
<1> QED BY <1>1, <1>2

\* ... for a row ...
LEMMA RowTurn ==
  ASSUME TidyStep, NEW r \in Runs
  PROVE  /\ status'[r] \in Live => \/ status[r] \in Live
                                   \/ Start /\ r = run["slot"]
                                   \/ Park /\ SlotHas(r)
         /\ status[r] \in Live /\ status'[r] \notin Live => \E t \in Threads : Record(t) /\ r = run[t]
         /\ status'[r] = "running" => status[r] = "running" \/ (Start /\ r = run["slot"])
         /\ status[r] = "running" /\ status'[r] # "running" =>
               (Park /\ r = run["slot"]) \/ \E t \in Threads : Record(t) /\ r = run[t]
         /\ ~(Start /\ r = run["slot"]) =>
               /\ env'[r].restore_vmid = env[r].restore_vmid
               /\ \/ env'[r].helper_vmid = env[r].helper_vmid
                  \/ env'[r].helper_vmid = Unset /\ Unhold /\ r = run["slot"]
         /\ Start /\ r = run["slot"] =>
               /\ status[r] = "queued" /\ status'[r] = "running" /\ env'[r] = plan["slot"]
               /\ run'["slot"] = r /\ plan'["slot"] = plan["slot"] /\ Busy("slot")' /\ pc'["slot"] = "clean"
<1>0. "slot" \in Threads BY DEF Threads
<1>r. TypeOK /\ TypeInv /\ RowInv /\ [Next]_vars BY DEF TidyStep, TypeInv
<1>p. Park => Busy("slot") BY DEF Park, Busy, OnRow, Rowless
<1>1. ~(Start /\ r = run["slot"]) =>
        /\ env'[r].restore_vmid = env[r].restore_vmid
        /\ \/ env'[r].helper_vmid = env[r].helper_vmid
           \/ env'[r].helper_vmid = Unset /\ Unhold /\ r = run["slot"]
  <2>1. env[r] \in Env BY <1>r DEF TypeOK
  <2>2. \A t \in Operators : ~Assign(t) /\ ~Drop(t) BY DEF TidyStep, EnvInv, NoRetest, Untested, Drop
  <2>3. \/ env'[r] = env[r]
        \/ Start /\ r = run["slot"]
        \/ Unhold /\ r = run["slot"] /\ env'[r] = [env[r] EXCEPT !.helper_vmid = Unset, !.mgmt_ip = Unset]
    BY <1>r, <2>2, EnvChange
  <2> QED BY <2>1, <2>3 DEF Env
<1>2. ASSUME Start, r = run["slot"]
      PROVE  /\ status[r] = "queued" /\ status'[r] = "running" /\ env'[r] = plan["slot"]
             /\ run'["slot"] = r /\ plan'["slot"] = plan["slot"] /\ Busy("slot")' /\ pc'["slot"] = "clean"
  <2>1. pc["slot"] = "planned" BY <1>2 DEF Start
  <2>2. status[r] = "queued" BY <1>2, <1>r, <2>1 DEF RowInv, PendingQueued, TidyStep, Calm
  <2> QED BY <1>0, <1>r, <1>2, <2>1, <2>2 DEF Start, SetStatus, Absent, Goto, TypeOK, Busy, OnRow, Rowless
<1>3. \/ status'[r] = status[r]
      \/ Start /\ r = run["slot"] /\ status'[r] = "running"
      \/ Park /\ r = run["slot"] /\ status'[r] = "held"
      \/ \E t \in Threads : Record(t) /\ r = run[t] /\ status'[r] \in Terminal
      \/ status[r] \in {"none", "queued"} /\ status'[r] \in {"queued", "deleted", "error"}
  BY <1>r, StatusChange
<1> QED BY <1>1, <1>2, <1>3, <1>p DEF Live, Terminal, SlotHas

\* ... and for the row another thread is about to end.
LEMMA OtherRow ==
  ASSUME TidyStep, NEW t \in Others, pc[t] \in Ends \cup {"present", "teardown"}
  PROVE  run[t] \in Runs /\ status[run[t]] \in RL!Left /\ ~(Start /\ run[t] = run["slot"])
<1>0. t \in Threads /\ t # "slot" BY DEF Others
<1>1. Busy(t) BY <1>0 DEF Busy, OnRow, Rowless, Ends
<1>2. run[t] \in Runs BY <1>0, <1>1 DEF TidyStep, TypeInv, RowKnown, Busy
<1>3. status[run[t]] \in RL!Left BY <1>0, <1>1, <1>2 DEF TidyStep, RowInv, RowLeft, Calm
<1>4. ~(Start /\ run[t] = run["slot"]) BY <1>2, <1>3, RowTurn DEF RL!Left, RL!Terminal
<1> QED BY <1>2, <1>3, <1>4

\* The slot's conjuncts.
LEMMA SlotTidy ==
  ASSUME TidyStep
  PROVE  NothingResumed' /\ OwnPlan' /\ RunsInSlot' /\ EndedCancelled'
<1> USE SlotTurn
<1>0. "slot" \in Threads /\ "slot" # "watchdog" BY DEF Threads
<1>r. TypeOK /\ TypeInv /\ RowInv /\ [Next]_vars BY DEF TidyStep, TypeInv
<1>t. NothingResumed /\ OwnPlan /\ RunsInSlot /\ EndedCancelled /\ ClosingCancelled BY DEF TidyStep, Tidy
<1>1. NothingResumed'
  BY <1>t, SlotGoes DEF NothingResumed
<1>2. Busy("slot")' => env'[run'["slot"]] = plan'["slot"]
  <2> SUFFICES ASSUME Busy("slot")' PROVE env'[run'["slot"]] = plan'["slot"] OBVIOUS
  <2>1. CASE Start
    <3>1. run["slot"] \in Runs BY <1>0, <1>r, <2>1 DEF Start, TypeInv, RowKnown, OnRow, Rowless
    <3> QED BY <2>1, <3>1, RowTurn
  <2>2. CASE ~Start
    <3>1. Busy("slot") /\ run'["slot"] = run["slot"] /\ plan'["slot"] = plan["slot"] /\ ~Unhold /\ run["slot"] \in Runs
      BY <2>2
    <3>2. \A u \in Operators : ~Assign(u) /\ ~Drop(u) BY DEF TidyStep, EnvInv, NoRetest, Untested, Drop
    <3>3. env'[run["slot"]] = env[run["slot"]] BY <1>r, <2>2, <3>1, <3>2, EnvChange
    <3> QED BY <1>t, <3>1, <3>3 DEF OwnPlan
  <2> QED BY <2>1, <2>2
<1>3. OnRow("slot")' => plan'["slot"].restore_vmid # Unset /\ plan'["slot"].helper_vmid # Unset
  <2> SUFFICES ASSUME OnRow("slot")' PROVE plan'["slot"].restore_vmid # Unset /\ plan'["slot"].helper_vmid # Unset
    OBVIOUS
  <2>1. CASE \E q \in Runs : Choose(q)
    <3>1. plan'["slot"] = Allocation(Owned) /\ ~Exhausted(Owned) BY <1>0, <1>r, <2>1 DEF Choose, TypeOK
    <3> QED BY <3>1, AllocationFresh, FreeInRange DEF Unset
  <2>2. CASE \A q \in Runs : ~Choose(q)
    <3>1. ~ScanRunning("slot")
      BY <1>t DEF ScanRunning, Wakes, RunsInSlot, SlotHas, Busy, OnRow, Rowless
    <3>2. OnRow("slot") /\ plan'["slot"] = plan["slot"]
      <4>1. CASE Snapshot("slot") BY <1>0, <1>r, <4>1 DEF Snapshot, OnRow, Rowless
      <4>2. CASE ~Snapshot("slot") BY <1>r, <2>2, <3>1, <4>2, SlotCases DEF Mine, SlotStep, OnRow
      <4> QED BY <4>1, <4>2
    <3> QED BY <1>t, <3>2 DEF OwnPlan
  <2> QED BY <2>1, <2>2
<1>4. RunsInSlot'
  <2> SUFFICES ASSUME NEW r \in Runs, status'[r] = "running" PROVE SlotHas(r)' /\ pc'["slot"] # "unhold"
    BY DEF RunsInSlot
  <2>1. CASE Start /\ r = run["slot"] BY <2>1, RowTurn DEF SlotHas
  <2>2. CASE status[r] = "running"
    <3>1. SlotHas(r) /\ pc["slot"] # "unhold" BY <1>t, <2>2 DEF RunsInSlot
    <3>2. ~Park
      BY <1>r, <3>1 DEF Park, SetStatus, SlotHas, TypeOK, TidyStep, Calm, Absent
    <3>3. ~Record("slot")
      <4> SUFFICES ASSUME Record("slot") PROVE FALSE OBVIOUS
      <4>1. Outcomes("slot") \subseteq Terminal BY <1>0, <1>r DEF TypeOK, Outcomes, Terminal
      <4> QED BY <1>r, <3>1, <4>1 DEF Record, SetStatus, SlotHas, TypeOK, TidyStep, Calm, Absent, Terminal
    <3>4. ~Start BY <1>0, <3>1 DEF Start, SlotHas, Busy
    <3> QED BY <3>1, <3>2, <3>3, <3>4 DEF SlotHas
  <2> QED BY <2>1, <2>2, RowTurn
<1>5. EndedCancelled'
  <2> SUFFICES ASSUME NEW r \in Runs, SlotHas(r)', pc'["slot"] # "unhold", status'[r] # "running" PROVE r \in cancel'
    BY DEF EndedCancelled
  <2>1. ~Start
    <3> SUFFICES ASSUME Start PROVE FALSE OBVIOUS
    <3>1. run'["slot"] = run["slot"] BY DEF Start
    <3> QED BY <3>1, RowTurn DEF SlotHas
  <2>2. SlotHas(r) /\ pc["slot"] # "unhold" /\ ~Record("slot")
    BY <2>1 DEF SlotHas
  <2>3. CASE status[r] # "running" BY <1>r, <1>t, <2>2, <2>3, Counted DEF EndedCancelled
  <2>4. CASE status[r] = "running"
    <3>1. ~Park BY <1>0, <1>r DEF Park, Goto, TypeOK
    <3>2. PICK t \in Threads : Record(t) /\ r = run[t] BY <2>4, <3>1, RowTurn
    <3>3. t \in Others /\ pc[t] \in Ends BY <2>2, <3>2 DEF Others, Record, Ends
    <3>4. r \in cancel BY <1>t, <2>2, <3>2, <3>3 DEF ClosingCancelled
    <3> QED BY <1>r, <3>4, Counted
  <2> QED BY <2>3, <2>4
<1> QED BY <1>1, <1>2, <1>3, <1>4, <1>5 DEF OwnPlan

\* The conjuncts of a thread about to end a row.
LEMMA OthersTidy ==
  ASSUME TidyStep
  PROVE  ReadRight' /\ ClosingCancelled'
<1>r. TypeOK /\ TypeInv /\ RowInv /\ Untested /\ [Next]_vars /\ NoRetest BY DEF TidyStep, TypeInv, EnvInv
<1>n. ~Restart BY SlotTurn
<1>t. ReadRight /\ EndedCancelled /\ ClosingCancelled BY DEF TidyStep, Tidy
<1>1. ReadRight'
  <2> SUFFICES ASSUME NEW t \in Others, pc'[t] \in Ends \cup {"present", "teardown"}
        PROVE  /\ plan'[t].restore_vmid = env'[run'[t]].restore_vmid
               /\ env'[run'[t]].helper_vmid \in {plan'[t].helper_vmid, Unset}
    BY DEF ReadRight, Others, Threads
  <2>1. CASE \E r \in Runs : run'[t] = r /\ plan'[t] = env[r] /\ UNCHANGED <<status, env>>
    BY <2>1
  <2>2. CASE run'[t] = run[t] /\ plan'[t] = plan[t] /\ pc[t] \in Ends \cup {"present", "teardown"}
    <3>1. run[t] \in Runs /\ ~(Start /\ run[t] = run["slot"]) BY <2>2, OtherRow
    <3>2. /\ plan[t].restore_vmid = env[run[t]].restore_vmid
          /\ env[run[t]].helper_vmid \in {plan[t].helper_vmid, Unset}
      BY <1>t, <2>2 DEF ReadRight
    <3>3. /\ env'[run[t]].restore_vmid = env[run[t]].restore_vmid
          /\ env'[run[t]].helper_vmid \in {env[run[t]].helper_vmid, Unset}
      BY <3>1, RowTurn
    <3> QED BY <2>2, <3>2, <3>3
  <2> QED BY <1>r, <1>n, <2>1, <2>2, Closing
<1>2. ClosingCancelled'
  <2> SUFFICES ASSUME NEW t \in Others, pc'[t] \in Ends \cup {"teardown"}, Busy("slot")',
                      run'["slot"] = run'[t], pc'["slot"] # "unhold"
        PROVE  run'[t] \in cancel'
    BY DEF ClosingCancelled, Others, Threads, SlotHas
  <2>1. CASE /\ run'[t] = run[t]
             /\ \/ pc[t] \in Ends \cup {"teardown"}
                \/ DeclareStuck(t) /\ pc[t] = "present"
    <3>1. run[t] \in Runs /\ ~(Start /\ run[t] = run["slot"])
      BY <2>1, OtherRow
    <3>2. SlotHas(run[t]) /\ pc["slot"] # "unhold"
      <4>1. ~Start
        <5>1. Start => run'["slot"] = run["slot"] BY DEF Start
        <5> QED BY <2>1, <3>1, <5>1
      <4> QED BY <2>1, <4>1, SlotTurn DEF SlotHas
    <3>3. CASE pc[t] \in Ends \cup {"teardown"}
      BY <1>t, <1>r, <2>1, <3>2, <3>3, Counted DEF ClosingCancelled
    <3>4. CASE DeclareStuck(t)
      <4>1. CASE status[run[t]] = "running" BY <2>1, <3>4, <4>1 DEF DeclareStuck
      <4>2. CASE status[run[t]] # "running"
        BY <1>t, <1>r, <2>1, <3>1, <3>2, <4>2, Counted DEF EndedCancelled
      <4> QED BY <4>1, <4>2
    <3> QED BY <2>1, <3>3, <3>4
  <2>2. ASSUME NEW r \in Runs, status[r] = "held", run'[t] = r, UNCHANGED <<status, env>>,
               Local("slot")' = Local("slot")
        PROVE  run'[t] \in cancel'
    <3>1. SlotHas(r) /\ pc["slot"] # "unhold" BY <2>2 DEF SlotHas, Busy, OnRow, Local
    <3> QED BY <1>t, <1>r, <2>2, <3>1, Counted DEF EndedCancelled
  <2> QED BY <1>r, <1>n, <2>1, <2>2, Closing DEF Ends
<1> QED BY <1>1, <1>2

\* The guests' conjuncts: what is torn down, ...
LEMMA ClosedTidy ==
  ASSUME TidyStep
  PROVE  ClosedEmpty'
<1>r. TypeOK /\ TypeInv /\ RowInv /\ EnvInv /\ Untested /\ [Next]_vars /\ NoRetest BY DEF TidyStep, TypeInv, EnvInv
<1>n. ~Restart /\ ~Fault BY SlotTurn
<1>t. ReadRight /\ ClosingCancelled /\ ClosedEmpty /\ OwnPlan /\ Accounted /\ NothingResumed BY DEF TidyStep, Tidy
<1> SUFFICES ASSUME NEW t \in Others, pc'[t] \in Ends, status'[run'[t]] \in Live \/ (Busy("slot")' /\ run'["slot"] = run'[t])
      PROVE  env'[run'[t]].restore_vmid \notin vms' /\ env'[run'[t]].helper_vmid \notin lxcs'
  BY DEF ClosedEmpty, Others, Threads, SlotHas
<1> DEFINE r == run[t]
<1>1. run'[t] = r /\ plan'[t] = plan[t] /\ (pc[t] \in Ends \/ (Teardown(t) /\ pc[t] = "teardown"))
  BY <1>r, <1>n, Closing DEF Ends
<1>2. r \in Runs /\ status[r] \in RL!Left /\ ~(Start /\ r = run["slot"])
  BY <1>1, OtherRow
<1>3. status[r] \in Live \/ SlotHas(r)
  <2>1. CASE status'[r] \in Live BY <1>2, <2>1, RowTurn
  <2>2. CASE Busy("slot")' /\ run'["slot"] = run'[t]
    <3>1. Start => run'["slot"] = run["slot"] BY DEF Start
    <3> QED BY <1>1, <1>2, <2>2, <3>1, SlotTurn DEF SlotHas
  <2> QED BY <1>1, <2>1, <2>2
<1>4. CASE Teardown(t)
  <2>1. /\ vms' = vms \ {plan[t].restore_vmid} /\ lxcs' = lxcs \ {plan[t].helper_vmid} /\ UNCHANGED env
    BY <1>n, <1>4 DEF Teardown, rowVars
  <2>2. plan[t].restore_vmid = env[r].restore_vmid /\ env[r].helper_vmid \in {plan[t].helper_vmid, Unset}
    BY <1>t, <1>4 DEF ReadRight, Teardown
  <2> QED BY <1>t, <1>1, <2>1, <2>2 DEF Accounted
<1>5. CASE pc[t] \in Ends
  <2>1. env[r].restore_vmid \notin vms /\ env[r].helper_vmid \notin lxcs
    BY <1>t, <1>3, <1>5 DEF ClosedEmpty
  <2>2. env'[r].restore_vmid = env[r].restore_vmid /\ env'[r].helper_vmid \in {env[r].helper_vmid, Unset}
    BY <1>2, RowTurn
  <2>3. CASE vms' \subseteq vms /\ lxcs' \subseteq lxcs
    BY <1>t, <1>1, <2>1, <2>2, <2>3 DEF Accounted
  <2>4. CASE /\ pc["slot"] \in {"helper", "restore", "copy"} /\ ~Cancelled
             /\ vms' \subseteq vms \cup {plan["slot"].restore_vmid}
             /\ lxcs' \subseteq lxcs \cup {plan["slot"].helper_vmid}
    <3>0. Busy("slot") /\ OnRow("slot") BY <2>4 DEF Busy, OnRow, Rowless
    <3>1. ~SlotHas(r)
      <4> SUFFICES ASSUME SlotHas(r) PROVE FALSE OBVIOUS
      <4>1. r \in cancel BY <1>t, <1>5, <2>4 DEF ClosingCancelled
      <4>2. status[r] \notin Absent BY <1>2 DEF Absent, RL!Left, RL!Terminal
      <4> QED BY <2>4, <4>1, <4>2 DEF Cancelled, SlotHas
    <3>2. r # run["slot"] /\ status[r] \in Live BY <1>3, <3>0, <3>1 DEF SlotHas
    <3>3. ApartIn(env[r], plan["slot"])
      <4>1. run["slot"] \in Runs /\ status[run["slot"]] # "deleted" BY <3>0, SlotTurn DEF TidyStep, Calm
      <4> QED BY <1>r, <1>t, <1>2, <3>0, <3>2, <4>1 DEF EnvInv, PlannedApart, OwnPlan
    <3>4. plan["slot"].restore_vmid # Unset /\ plan["slot"].helper_vmid # Unset
      BY <1>t, <3>0 DEF OwnPlan
    <3>5. env[r].restore_vmid # plan["slot"].restore_vmid /\ env[r].helper_vmid # plan["slot"].helper_vmid
      <4>1. InUseVmids({env[r]}) = {env[r].restore_vmid, env[r].helper_vmid} \ {Unset} BY OneEnv
      <4>2. InUseVmids({plan["slot"]}) = {plan["slot"].restore_vmid, plan["slot"].helper_vmid} \ {Unset} BY OneEnv
      <4> QED BY <3>3, <3>4, <4>1, <4>2 DEF ApartIn
    <3> QED BY <1>t, <1>1, <2>1, <2>2, <2>4, <3>4, <3>5 DEF Accounted
  <2> QED BY <1>r, <1>t, <2>3, <2>4, GuestsAdded
<1> QED BY <1>1, <1>4, <1>5

\* ... what the slot leaves, ...
LEMMA LeftTidy ==
  ASSUME TidyStep
  PROVE  LeftEmpty'
<1>0. "slot" \in Threads /\ "slot" # "watchdog" BY DEF Threads
<1>r. TypeOK /\ TypeInv /\ RowInv /\ Untested /\ [Next]_vars BY DEF TidyStep, TypeInv, EnvInv
<1>t. LeftEmpty /\ ClosedEmpty /\ OwnPlan /\ NothingResumed BY DEF TidyStep, Tidy
<1>n. ~Restart /\ ~Fault BY SlotTurn
<1>k. pc'["slot"] \in Ends \cup {"park", "unhold"} =>
        /\ Busy("slot") /\ run'["slot"] = run["slot"] /\ plan'["slot"] = plan["slot"] /\ ~Start
        /\ run["slot"] \in Runs /\ status[run["slot"]] \in RL!Left
  <2>1. pc'["slot"] \in Ends \cup {"park", "unhold"} => Busy("slot")' BY DEF Busy, OnRow, Rowless, Ends
  <2>2. Start => pc'["slot"] = "clean" BY <1>0, <1>r DEF Start, Goto, TypeOK
  <2> QED BY <2>1, <2>2, SlotTurn DEF Ends
<1>g. ASSUME pc["slot"] \in Ends \cup {"park", "unhold"} PROVE vms' \subseteq vms /\ lxcs' \subseteq lxcs
  BY <1>g, <1>r, <1>t, GuestsAdded DEF Ends
<1>1. ASSUME pc'["slot"] \in Ends
      PROVE  plan'["slot"].restore_vmid \notin vms' /\ plan'["slot"].helper_vmid \notin lxcs'
  <2>1. CASE Teardown("slot")
    <3>1. vms' = vms \ {plan["slot"].restore_vmid} /\ lxcs' = lxcs \ {plan["slot"].helper_vmid}
      BY <1>n, <2>1 DEF Teardown
    <3> QED BY <1>k, <1>1, <3>1
  <2>2. CASE pc["slot"] \in Ends BY <1>g, <1>k, <1>t, <1>1, <2>2 DEF LeftEmpty
  <2> QED BY <1>1, <2>1, <2>2, SlotTurn
<1>2. ASSUME pc'["slot"] \in {"park", "unhold"} PROVE plan'["slot"].helper_vmid \notin lxcs'
  <2>1. CASE Discard
    <3>1. lxcs' = lxcs \ {plan["slot"].helper_vmid} BY <1>n, <2>1 DEF Discard
    <3> QED BY <1>k, <1>2, <3>1
  <2>2. CASE pc["slot"] \in {"park", "unhold"} BY <1>g, <1>k, <1>t, <1>2, <2>2 DEF LeftEmpty
  <2>3. Park => pc["slot"] = "park" BY DEF Park
  <2> QED BY <1>2, <2>1, <2>2, <2>3, SlotTurn
<1>3. ASSUME pc'["slot"] = "unhold" PROVE status'[run'["slot"]] = "held" \/ plan'["slot"].restore_vmid \notin vms'
  <2>0. /\ run'["slot"] = run["slot"] /\ plan'["slot"] = plan["slot"] /\ run["slot"] \in Runs
        /\ status[run["slot"]] \in RL!Left /\ Busy("slot")
    BY <1>k, <1>3
  <2>1. CASE Park
    <3>1. status[run["slot"]] \notin Absent BY <2>0 DEF Absent, RL!Left, RL!Terminal
    <3> QED BY <1>r, <2>0, <2>1, <3>1 DEF Park, SetStatus, TypeOK
  <2>2. CASE pc["slot"] = "unhold"
    <3>1. CASE plan["slot"].restore_vmid \notin vms BY <1>g, <2>0, <2>2, <3>1
    <3>2. CASE status[run["slot"]] = "held" /\ status'[run["slot"]] # "held"
      <4>1. status'[run["slot"]] \notin Live
        <5>1. status'[run["slot"]] # "running"
          BY <1>k, <1>3, <2>0, <3>2, RowTurn
        <5> QED BY <3>2, <5>1 DEF Live
      <4>2. PICK t \in Threads : Record(t) /\ run["slot"] = run[t] BY <2>0, <3>2, <4>1, RowTurn DEF Live
      <4>3. t \in Others /\ pc[t] \in Ends BY <2>2, <4>2 DEF Others, Ends, Record
      <4>4. env[run["slot"]].restore_vmid \notin vms BY <1>t, <3>2, <4>2, <4>3 DEF ClosedEmpty, Live
      <4> QED BY <1>g, <1>t, <2>0, <2>2, <4>4 DEF OwnPlan
    <3> QED BY <1>t, <2>0, <2>2, <3>1, <3>2 DEF LeftEmpty
  <2> QED BY <1>3, <2>1, <2>2, SlotTurn
<1> QED BY <1>1, <1>2, <1>3 DEF LeftEmpty

\* ... and whose the rest is.
LEMMA AccountedTidy ==
  ASSUME TidyStep
  PROVE  Accounted'
<1>0. "slot" \in Threads /\ "slot" # "watchdog" BY DEF Threads
<1>r. TypeOK /\ TypeInv /\ RowInv /\ Untested /\ [Next]_vars BY DEF TidyStep, TypeInv, EnvInv
<1>t. LeftEmpty /\ ClosedEmpty /\ OwnPlan /\ NothingResumed /\ Accounted BY DEF TidyStep, Tidy
<1>a. ASSUME ~(vms' \subseteq vms /\ lxcs' \subseteq lxcs)
      PROVE  /\ Busy("slot") /\ Busy("slot")' /\ plan'["slot"] = plan["slot"]
             /\ vms' \subseteq vms \cup {plan["slot"].restore_vmid}
             /\ lxcs' \subseteq lxcs \cup {plan["slot"].helper_vmid}
             /\ plan["slot"].restore_vmid # Unset /\ plan["slot"].helper_vmid # Unset
  <2>1. /\ pc["slot"] \in {"helper", "restore", "copy"}
        /\ vms' \subseteq vms \cup {plan["slot"].restore_vmid}
        /\ lxcs' \subseteq lxcs \cup {plan["slot"].helper_vmid}
    BY <1>r, <1>t, <1>a, GuestsAdded
  <2>2. Busy("slot") /\ OnRow("slot") BY <2>1 DEF Busy, OnRow, Rowless
  <2>3. ~Start /\ pc["slot"] # "record" /\ pc["slot"] # "unhold" BY <2>1 DEF Start
  <2> QED BY <1>t, <2>1, <2>2, <2>3, SlotTurn DEF OwnPlan
\* A live row that loses its claim has no guest any more.
<1>l. ASSUME NEW r \in Runs, status[r] \in Live
      PROVE  \/ status'[r] \in Live /\ env'[r].restore_vmid = env[r].restore_vmid
                /\ (env'[r].helper_vmid = env[r].helper_vmid \/ env[r].helper_vmid \notin lxcs)
             \/ env[r].restore_vmid \notin vms /\ env[r].helper_vmid \notin lxcs
  <2>1. CASE status'[r] \notin Live
    <3>1. PICK t \in Threads : Record(t) /\ r = run[t] BY <1>l, <2>1, RowTurn
    <3>2. pc[t] = "record" BY <3>1 DEF Record
    <3>3. CASE t = "slot"
      <4>1. Busy("slot") BY <3>2, <3>3 DEF Busy, OnRow, Rowless
      <4> QED BY <1>t, <3>1, <3>2, <3>3, <4>1 DEF OwnPlan, LeftEmpty, Ends
    <3>4. CASE t # "slot"
      BY <1>t, <1>l, <3>1, <3>2, <3>4 DEF ClosedEmpty, Others, Ends
    <3> QED BY <3>3, <3>4
  <2>2. CASE status'[r] \in Live
    <3>1. ~(Start /\ r = run["slot"])
      <4>1. Start /\ r = run["slot"] => status[r] = "queued" BY RowTurn
      <4> QED BY <1>l, <4>1 DEF Live
    <3>2. CASE Unhold /\ r = run["slot"]
      <4>1. Busy("slot") /\ pc["slot"] = "unhold" BY <3>2 DEF Unhold, Busy, OnRow, Rowless
      <4>2. env[r].helper_vmid \notin lxcs BY <1>t, <3>2, <4>1 DEF OwnPlan, LeftEmpty
      <4> QED BY <2>2, <3>1, <4>2, RowTurn
    <3> QED BY <2>2, <3>1, <3>2, RowTurn
  <2> QED BY <2>1, <2>2
\* So has the slot when it lets go of its row, unless the row is held.
<1>s. ASSUME Busy("slot")
      PROVE  \/ Busy("slot")' /\ plan'["slot"] = plan["slot"]
             \/ /\ plan["slot"].helper_vmid \notin lxcs
                /\ \/ plan["slot"].restore_vmid \notin vms
                   \/ /\ run["slot"] \in Runs /\ status[run["slot"]] \in Live
                      /\ env[run["slot"]].restore_vmid = plan["slot"].restore_vmid
  <2>1. CASE Record("slot") /\ pc["slot"] = "record" BY <1>t, <2>1 DEF LeftEmpty, Ends
  <2>2. CASE Unhold /\ pc["slot"] = "unhold"
    <3>1. run["slot"] \in Runs /\ env[run["slot"]] = plan["slot"] BY <1>t, <1>s, SlotTurn DEF OwnPlan
    <3> QED BY <1>t, <2>2, <3>1 DEF LeftEmpty, Live
  <2>3. ~Start BY <1>s DEF Start, Busy
  <2> QED BY <1>s, <2>1, <2>2, <2>3, SlotTurn
<1>1. Unset \notin vms' /\ Unset \notin lxcs'
  BY <1>a, <1>t DEF Accounted
<1>2. ASSUME NEW v \in vms'
      PROVE  \/ \E r \in Runs : status'[r] \in Live /\ env'[r].restore_vmid = v
             \/ Busy("slot")' /\ v = plan'["slot"].restore_vmid
  <2>1. CASE v \notin vms BY <1>a, <1>2, <2>1
  <2>2. ASSUME v \in vms, NEW r \in Runs, status[r] \in Live, env[r].restore_vmid = v
        PROVE  \E q \in Runs : status'[q] \in Live /\ env'[q].restore_vmid = v
    BY <1>l, <2>2
  <2>3. CASE v \in vms /\ Busy("slot") /\ v = plan["slot"].restore_vmid
    BY <1>s, <2>2, <2>3
  <2> QED BY <1>t, <2>1, <2>2, <2>3 DEF Accounted
<1>3. ASSUME NEW v \in lxcs'
      PROVE  \/ \E r \in Runs : status'[r] \in Live /\ env'[r].helper_vmid = v
             \/ Busy("slot")' /\ v = plan'["slot"].helper_vmid
  <2>1. CASE v \notin lxcs BY <1>a, <1>3, <2>1
  <2>2. ASSUME v \in lxcs, NEW r \in Runs, status[r] \in Live, env[r].helper_vmid = v
        PROVE  \E q \in Runs : status'[q] \in Live /\ env'[q].helper_vmid = v
    BY <1>l, <2>2
  <2>3. CASE v \in lxcs /\ Busy("slot") /\ v = plan["slot"].helper_vmid
    BY <1>s, <2>3
  <2> QED BY <1>t, <2>1, <2>2, <2>3 DEF Accounted
<1> QED BY <1>1, <1>2, <1>3 DEF Accounted

\* A parked row gives its helper back.
LEMMA FreedNext ==
  ASSUME TypeInv, RowInv, EnvInv, HelperFreed, [Next]_vars, NoRetest
  PROVE  HelperFreed'
<1>0. "slot" \in Threads /\ "slot" # "watchdog" BY DEF Threads
<1>r. TypeOK BY DEF TypeInv
<1> SUFFICES ASSUME restarts' = 0, NEW r \in Runs, status'[r] = "held"
      PROVE  \/ env'[r].helper_vmid = Unset /\ env'[r].mgmt_ip = Unset
             \/ pc'["slot"] = "unhold" /\ run'["slot"] = r
  BY DEF HelperFreed
<1>1. restarts = 0 /\ ~Restart
  <2>1. restarts \in Nat BY <1>r DEF TypeOK
  <2> QED BY <2>1, Counted DEF Restart
<1>2. CASE Park /\ r = run["slot"]
  BY <1>0, <1>r, <1>2 DEF Park, Goto, TypeOK
<1>3. CASE status[r] = "held"
  <2>1. ~(Start /\ r = run["slot"])
    BY <1>3 DEF Start, RowInv, PendingQueued
  <2>2. \A t \in Operators : ~Assign(t) /\ ~Drop(t) BY DEF EnvInv, NoRetest, Untested, Drop
  <2>3. \/ env'[r] = env[r]
        \/ env'[r] = [env[r] EXCEPT !.helper_vmid = Unset, !.mgmt_ip = Unset]
    BY <2>1, <2>2, EnvChange
  <2>4. env[r] \in Env BY <1>r DEF TypeOK
  <2>5. CASE env[r].helper_vmid = Unset /\ env[r].mgmt_ip = Unset BY <2>3, <2>4, <2>5 DEF Env
  <2>6. CASE pc["slot"] = "unhold" /\ run["slot"] = r
    <3>1. CASE Unhold
      <4>1. env' = [env EXCEPT ![r] = [env[r] EXCEPT !.helper_vmid = Unset, !.mgmt_ip = Unset]]
        BY <1>3, <2>6, <3>1 DEF Unhold, FreeHelperColumns, Absent
      <4>2. env'[r] = [env[r] EXCEPT !.helper_vmid = Unset, !.mgmt_ip = Unset]
        BY <1>r, <4>1 DEF TypeOK
      <4> QED BY <2>4, <4>2 DEF Env
    <3>2. CASE Mine' = Mine BY <2>6, <3>2 DEF Mine
    <3>3. CASE Slot /\ ~Unhold
      <4>1. ~Heal("slot") BY <2>6 DEF Heal, ScanNone, ScanRunning, LeaveRunning, DeclareStuck, Teardown, Snapshot, Reap, Record, Wakes
      <4>2. ~Drain
        BY <2>6 DEF Drain, EnqueueDue, QueueFails, DrainStop, DrainList, DrainWait, Start, Refuse, Skip, Choose
      <4>3. ~Pipeline
        BY <2>6, <3>3 DEF Pipeline, SweepBefore, Provision, StartRestore, StartDistributed, Restored, Abort, Break,
                          Probed, Discard, Park
      <4>4. ~Resume
        BY <2>6 DEF Resume, Reattach, PollEnd, PollLost, Unlocked, StillLocked, ResumeTail
      <4> QED BY <3>3, <4>1, <4>2, <4>3, <4>4 DEF Slot
    <3>4. ~ScanRunning("slot") /\ ~Snapshot("slot") /\ \A q \in Runs : ~Choose(q)
      BY <2>6 DEF ScanRunning, Snapshot, Choose, Wakes
    <3> QED BY <1>1, <3>1, <3>2, <3>3, <3>4, SlotCases
  <2> QED BY <1>1, <1>3, <2>5, <2>6 DEF HelperFreed
<1>4. status[r] = "held" \/ (Park /\ r = run["slot"])
  BY RowsChange DEF Live
<1> QED BY <1>2, <1>3, <1>4

\* The invariant holds at the start.
LEMMA TidyInit == Init => TidyInv
<1> SUFFICES ASSUME Init PROVE TidyInv OBVIOUS
<1>1. /\ \A t \in Threads : pc[t] = "idle"
      /\ pc["slot"] = "idle" /\ vms = {} /\ lxcs = {} /\ \A r \in Runs : status[r] = "none"
  BY DEF Init, Threads
<1>2. HelperFreed BY <1>1 DEF HelperFreed
<1>3. NothingResumed /\ OwnPlan /\ RunsInSlot /\ EndedCancelled
  BY <1>1 DEF NothingResumed, OwnPlan, RunsInSlot, EndedCancelled, SlotHas, Busy, OnRow, Rowless
<1>4. ClosingCancelled /\ ReadRight /\ ClosedEmpty /\ LeftEmpty
  BY <1>1 DEF ClosingCancelled, ReadRight, ClosedEmpty, LeftEmpty, Others, Ends
<1>5. Accounted BY <1>1 DEF Accounted
<1> QED BY <1>2, <1>3, <1>4, <1>5 DEF TidyInv, Tidy

\* Every step but a re-test's write keeps the host accounted for.
LEMMA TidyNext ==
  ASSUME TypeInv, RowInv, EnvInv, TidyInv, [Next]_vars, NoRetest
  PROVE  TidyInv'
<1>1. HelperFreed' BY FreedNext DEF TidyInv
<1>2. ASSUME Calm' PROVE Tidy'
  <2>1. Calm BY <1>2, CalmBack
  <2>2. TidyStep BY <1>2, <2>1 DEF TidyStep, TidyInv
  <2>3. NothingResumed' /\ OwnPlan' /\ RunsInSlot' /\ EndedCancelled' BY <2>2, SlotTidy
  <2>4. ReadRight' /\ ClosingCancelled' BY <2>2, OthersTidy
  <2>5. ClosedEmpty' /\ LeftEmpty' /\ Accounted' BY <2>2, ClosedTidy, LeftTidy, AccountedTidy
  <2> QED BY <2>3, <2>4, <2>5 DEF Tidy
<1> QED BY <1>1, <1>2 DEF TidyInv

\* Idle threads use nothing, so what is left on the host is a live row's.
LEMMA TidyNoLeak == TypeInv /\ TidyInv => NoLeak
<1> SUFFICES ASSUME TypeInv, TidyInv, faults = 0, restarts = 0, \A t \in Threads : pc[t] = "idle",
                    \A r \in Runs : status[r] # "deleted", NEW v \in Guests
             PROVE  v \in OwnedVmids
  BY DEF NoLeak
<1>1. Accounted /\ pc["slot"] = "idle" BY DEF TidyInv, Calm, Tidy, Threads
<1>2. \E r \in Runs : status[r] \in Live /\ v \in {env[r].restore_vmid, env[r].helper_vmid}
  BY <1>1 DEF Accounted, Guests, Busy, OnRow, Rowless
<1>3. v # Unset BY <1>1 DEF Accounted, Guests
<1>4. PICK r \in Runs : status[r] \in Live /\ v \in {env[r].restore_vmid, env[r].helper_vmid} BY <1>2
<1>5. {env[r].restore_vmid, env[r].helper_vmid} \in {{e.restore_vmid, e.helper_vmid} : e \in Owned}
  BY <1>4 DEF Owned
<1>6. v \in UNION {{e.restore_vmid, e.helper_vmid} : e \in Owned} BY <1>4, <1>5
<1> QED BY <1>3, <1>6 DEF OwnedVmids, InUseVmids

\* While no re-test writes resources of its own, live rows share no VMID, tag or
\* address, for any ranges, rows, threads, outages and restarts; and as long as
\* nothing failed, no guest is left on the host that no live row owns once all
\* threads are done, whoever ended or parked which row in between: a healer cancels
\* the run it ends, so that the slot builds nothing after that, and the slot tears
\* down what it built (allocate, _finalize, recover_stuck_runs).
THEOREM EnvironmentsKept ==
  Spec /\ [][NoRetest]_vars => [](EnvironmentsDistinct /\ NoLeak)
<1>1. (TypeInv /\ RowInv) /\ EnvInv /\ [Next]_vars /\ [NoRetest]_vars => EnvInv'
  <2>1. (TypeInv /\ RowInv) /\ EnvInv /\ [Next]_vars /\ NoRetest => EnvInv'
    BY EnvNext
  <2>2. EnvInv /\ UNCHANGED vars => EnvInv'
    BY DEF EnvInv, EnvironmentsDistinct, PlannedApart, Untested, vars, rowVars, localVars, Busy, OnRow
  <2> QED BY <2>1, <2>2
<1>2. (TypeInv /\ RowInv) /\ EnvInv /\ TidyInv /\ [Next]_vars /\ [NoRetest]_vars => TidyInv'
  <2>1. (TypeInv /\ RowInv) /\ EnvInv /\ TidyInv /\ [Next]_vars /\ NoRetest => TidyInv'
    BY TidyNext
  <2>2. TidyInv /\ UNCHANGED vars => TidyInv'
    BY DEF TidyInv, HelperFreed, Calm, Tidy, NothingResumed, OwnPlan, RunsInSlot, EndedCancelled, ClosingCancelled,
           ReadRight, ClosedEmpty, LeftEmpty, Accounted, SlotHas, Busy, OnRow, vars, rowVars, localVars, hostVars,
           boundVars
  <2> QED BY <2>1, <2>2
<1>3. EnvInv => EnvironmentsDistinct BY DEF EnvInv
<1> QED BY <1>1, <1>2, <1>3, EnvInit, TidyInit, TidyNoLeak, RowCorrect, PTL DEF Spec

\* While, besides, the app is not restarted, a parked row also gives its helper's
\* VMID and address back: environments are in order in every state (_finalize
\* parks the row first and frees its columns in a second UPDATE, between which a
\* restart leaves them in use).
THEOREM EnvironmentsTidy ==
  ASSUME MaxRestarts = 0
  PROVE  Spec /\ [][NoRetest]_vars => []EnvironmentsInOrder
<1>1. (TypeInv /\ RowInv) /\ EnvInv /\ [Next]_vars /\ [NoRetest]_vars => EnvInv'
  <2>1. (TypeInv /\ RowInv) /\ EnvInv /\ [Next]_vars /\ NoRetest => EnvInv'
    BY EnvNext
  <2>2. EnvInv /\ UNCHANGED vars => EnvInv'
    BY DEF EnvInv, EnvironmentsDistinct, PlannedApart, Untested, vars, rowVars, localVars, Busy, OnRow
  <2> QED BY <2>1, <2>2
<1>2. (TypeInv /\ RowInv) /\ EnvInv /\ HelperFreed /\ [Next]_vars /\ [NoRetest]_vars => HelperFreed'
  <2>1. (TypeInv /\ RowInv) /\ EnvInv /\ HelperFreed /\ [Next]_vars /\ NoRetest => HelperFreed'
    BY FreedNext
  <2>2. HelperFreed /\ UNCHANGED vars => HelperFreed'
    BY DEF HelperFreed, vars, rowVars, localVars, boundVars
  <2> QED BY <2>1, <2>2
<1>3. Init => restarts = 0 /\ HelperFreed
  BY DEF Init, HelperFreed
<1>4. TypeInv /\ restarts = 0 /\ [Next]_vars => (restarts = 0)'
  BY Counted DEF Restart
<1>5. restarts = 0 /\ HelperFreed => HeldFreesHelper
  BY DEF HelperFreed, HeldFreesHelper, Threads
<1> QED BY <1>1, <1>2, <1>3, <1>4, <1>5, EnvironmentsKept, EnvInit, RowCorrect, PTL DEF Spec, EnvironmentsInOrder
=============================================================================
