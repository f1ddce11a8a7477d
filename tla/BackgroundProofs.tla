--------------------------- MODULE BackgroundProofs ---------------------------
(* What holds of the work beside a restore's worker, for every value of the    *)
(* constants: the task on the scratch host, the storages of a distributed      *)
(* restore, the helper's setup, the write test, the probes and the registry    *)
(* of environments.                                                            *)
EXTENDS RestoreTask, DiskRestore, HelperSetup, PerfTest, ProbeLoop, RestoreAllocCheck,
        RestoreAllocTheorems, FiniteSetTheorems, SequenceTheorems

-----------------------------------------------------------------------------
(* RestoreTask.                                                                *)

TaskTypes ==
    /\ task \in {"none", "kicked", "running", "dead", "ok", "failed"}
    /\ old \in {"none", "running", "ok", "failed"}
    /\ copied \in Nat /\ percent \in Nat
    /\ clock \in Nat /\ movedAt \in Nat /\ since \in Nat /\ lastAt \in Nat
    /\ nics \in {"none", "source", "sandbox"}
    /\ step \in {"kick", "find", "poll", "network", "boot", "end"}
    /\ upid \in {"none", "new", "old"}

Isolated == nics = "sandbox" /\ ~locked /\ task # "running" /\ old # "running"

\* A restore that runs holds the guest's config lock, and there is one at most.
LockHeld ==
    /\ task = "running" \/ old = "running" => locked
    /\ ~(task = "running" /\ old = "running")

\* What is booted is isolated before the boot is asked for, and stays so.
IsolatedInTime ==
    /\ power => step = "end"
    /\ power \/ step = "boot" => Isolated

IsolationInv == TaskTypes /\ LockHeld /\ IsolatedInTime

\* No moment the worker has noted lies ahead of the clock, and a poll began before
\* the last progress it has seen.
PastOnly ==
    /\ movedAt <= clock /\ lastAt <= clock /\ since <= clock
    /\ step = "poll" => since <= lastAt

\* What the worker has read of its own task's log is behind the log, and nothing
\* moved after the last look unless there are lines to read; an earlier run's
\* task has the VMID to itself, so this run's has not moved.
ReadsBehind ==
    /\ step = "poll" /\ upid = "new" =>
         /\ task \in {"running", "ok", "failed"}
         /\ percent <= copied
         /\ copied <= percent => movedAt <= lastAt
    /\ old = "running" => movedAt = 0

\* A worker that has looked and goes on has found the silence within the backstop.
WithinBackstop ==
    step = "poll" /\ polled /\ ~cancel => ~stall_exceeded(clock - lastAt, percent, clock - since)

StallInv == TaskTypes /\ LockHeld /\ PastOnly /\ ReadsBehind /\ WithinBackstop
TaskInv == IsolationInv /\ StallInv

\* Nothing is copied, read or booted before the kick.
LEMMA TaskInitInv == TaskInit => TaskInv
<1> USE TaskAssumption DEF TaskInit
<1>1. ASSUME TaskInit PROVE TaskTypes
  BY <1>1 DEF TaskTypes
<1>2. ASSUME TaskInit PROVE LockHeld /\ IsolatedInTime
  BY <1>2 DEF LockHeld, IsolatedInTime
<1>3. ASSUME TaskInit PROVE PastOnly /\ ReadsBehind
  <2>1. movedAt = 0 /\ clock = 0 /\ since = 0 /\ lastAt = 0 /\ step = "kick"
    BY <1>3
  <2> QED BY <2>1 DEF PastOnly, ReadsBehind
<1>4. ASSUME TaskInit PROVE WithinBackstop
  BY <1>4 DEF WithinBackstop
<1> QED BY <1>1, <1>2, <1>3, <1>4 DEF TaskInv, IsolationInv, StallInv

\* Every step keeps the types.
LEMMA TaskStepTypes == TaskTypes /\ [TaskNext]_taskVars => TaskTypes'
<1> SUFFICES ASSUME TaskTypes, [TaskNext]_taskVars PROVE TaskTypes'
  OBVIOUS
<1> USE TaskAssumption DEF TaskTypes, hostVars, linkVars, workVars, Ends, Looks
<1>1. CASE Register
  BY <1>1 DEF Register
<1>2. CASE Advance
  BY <1>2 DEF Advance
<1>3. CASE Hang
  BY <1>3 DEF Hang
<1>4. CASE TaskEnds
  BY <1>4 DEF TaskEnds
<1>5. CASE OldEnds
  BY <1>5 DEF OldEnds
<1>6. CASE ApiToggles
  BY <1>6 DEF ApiToggles
<1>7. CASE Tick
  <2>1. clock' = clock + 1 /\ UNCHANGED <<task, old, copied, movedAt, nics, step, upid, since, lastAt, percent>>
    BY <1>7 DEF Tick
  <2> QED BY <2>1
<1>8. CASE RequestCancelTask
  BY <1>8 DEF RequestCancelTask
<1>9. CASE Kick
  BY <1>9 DEF Kick
<1>10. CASE Find
  BY <1>10 DEF Find
<1>11. CASE FindNothing
  BY <1>11 DEF FindNothing
<1>12. CASE Poll
  BY <1>12 DEF Poll
<1>13. CASE PollBlip
  BY <1>13 DEF PollBlip
<1>14. CASE StopTask
  BY <1>14 DEF StopTask
<1>15. CASE RewriteNics
  BY <1>15 DEF RewriteNics
<1>16. CASE Boot
  BY <1>16 DEF Boot
<1>17. CASE UNCHANGED taskVars
  BY <1>17 DEF taskVars
<1> QED BY <1>1, <1>2, <1>3, <1>4, <1>5, <1>6, <1>7, <1>8, <1>9, <1>10, <1>11, <1>12,
           <1>13, <1>14, <1>15, <1>16, <1>17 DEF TaskNext, TaskWorker, ScratchHost

\* Every step keeps the guest isolated from the moment its boot is decided.
LEMMA TaskStepIsolation == IsolationInv /\ [TaskNext]_taskVars => IsolationInv'
<1> SUFFICES ASSUME IsolationInv, [TaskNext]_taskVars PROVE IsolationInv'
  OBVIOUS
<1>0. TaskTypes'
  BY TaskStepTypes DEF IsolationInv
<1> SUFFICES (LockHeld /\ IsolatedInTime)'
  BY <1>0 DEF IsolationInv
<1> USE DEF IsolationInv, TaskTypes, LockHeld, IsolatedInTime, Isolated, hostVars, linkVars, workVars,
            Ends, Looks
<1>1. CASE Register
  BY <1>1 DEF Register
<1>2. CASE Advance \/ Hang \/ ApiToggles \/ Tick \/ RequestCancelTask \/ UNCHANGED taskVars
  <2>1. UNCHANGED <<task, old, nics, locked, power, step>>
    BY <1>2 DEF Advance, Hang, ApiToggles, Tick, RequestCancelTask, taskVars
  <2> QED BY <2>1
<1>3. CASE TaskEnds \/ OldEnds
  BY <1>3 DEF TaskEnds, OldEnds
<1>4. CASE Kick \/ Find \/ FindNothing
  BY <1>4 DEF Kick, Find, FindNothing
<1>5. CASE Poll
  BY <1>5 DEF Poll
<1>6. CASE PollBlip
  BY <1>6 DEF PollBlip
<1>7. CASE StopTask
  BY <1>7 DEF StopTask, Followed
<1>8. CASE RewriteNics
  BY <1>8 DEF RewriteNics
<1>9. CASE Boot
  BY <1>9 DEF Boot
<1> QED BY <1>1, <1>2, <1>3, <1>4, <1>5, <1>6, <1>7, <1>8, <1>9 DEF TaskNext, TaskWorker, ScratchHost

\* A guest runs only with its NICs in the sandbox, unlocked, and while no restore
\* of its VMID writes to its disks, whatever an earlier run left behind.
THEOREM TaskBootsIsolated == TaskSpec => []BootsIsolated
<1>1. TaskInit => IsolationInv
  BY TaskInitInv DEF TaskInv
<1>2. IsolationInv => BootsIsolated
  BY DEF IsolationInv, IsolatedInTime, Isolated, BootsIsolated
<1> QED BY <1>1, <1>2, TaskStepIsolation, PTL DEF TaskSpec

\* What has been read stays behind the log, and what was noted behind the clock.
LEMMA TaskStepReads == StallInv /\ [TaskNext]_taskVars => (PastOnly /\ ReadsBehind)'
<1> SUFFICES ASSUME StallInv, [TaskNext]_taskVars PROVE (PastOnly /\ ReadsBehind)'
  OBVIOUS
<1> USE TaskAssumption DEF StallInv, TaskTypes, LockHeld, PastOnly, ReadsBehind, hostVars, linkVars,
            workVars, Ends, Looks
<1>1. CASE Register
  BY <1>1 DEF Register
<1>2. CASE Advance
  BY <1>2 DEF Advance
<1>3. CASE Hang \/ ApiToggles \/ RequestCancelTask \/ UNCHANGED taskVars
  BY <1>3 DEF Hang, ApiToggles, RequestCancelTask, taskVars
<1>12. CASE Tick
  <2>1. clock' = clock + 1 /\ UNCHANGED <<hostVars, step, upid, since, lastAt, percent>>
    BY <1>12 DEF Tick
  <2> QED BY <2>1
<1>4. CASE TaskEnds \/ OldEnds
  BY <1>4 DEF TaskEnds, OldEnds
<1>5. CASE Kick
  BY <1>5 DEF Kick
<1>6. CASE Find
  BY <1>6 DEF Find
<1>7. CASE FindNothing
  BY <1>7 DEF FindNothing
<1>8. CASE Poll
  BY <1>8 DEF Poll
<1>9. CASE PollBlip
  BY <1>9 DEF PollBlip
<1>10. CASE StopTask
  BY <1>10 DEF StopTask, Followed
<1>11. CASE RewriteNics \/ Boot
  BY <1>11 DEF RewriteNics, Boot
<1> QED BY <1>1, <1>2, <1>3, <1>4, <1>5, <1>6, <1>7, <1>8, <1>9, <1>10, <1>11, <1>12
        DEF TaskNext, TaskWorker, ScratchHost

\* A worker that has looked has compared the silence with the backstop.
LEMMA TaskStepBackstop == StallInv /\ [TaskNext]_taskVars => WithinBackstop'
<1> SUFFICES ASSUME StallInv, [TaskNext]_taskVars,
                    step' = "poll", polled', ~cancel'
             PROVE  ~stall_exceeded(clock' - lastAt', percent', clock' - since')
  BY DEF WithinBackstop
<1> USE TaskAssumption DEF StallInv, TaskTypes, hostVars, linkVars, workVars, Ends, Looks
<1>1. CASE Register \/ Advance \/ Hang \/ TaskEnds \/ OldEnds \/ ApiToggles \/ RequestCancelTask
           \/ UNCHANGED taskVars
  BY <1>1 DEF Register, Advance, Hang, TaskEnds, OldEnds, ApiToggles, RequestCancelTask, taskVars,
              WithinBackstop
<1>2. CASE Tick \/ Kick \/ Find \/ FindNothing \/ StopTask \/ RewriteNics \/ Boot
  BY <1>2 DEF Tick, Kick, Find, FindNothing, StopTask, RewriteNics, Boot
<1>3. CASE Poll
  BY <1>3 DEF Poll
<1>4. CASE PollBlip
  BY <1>4 DEF PollBlip
<1> QED BY <1>1, <1>2, <1>3, <1>4 DEF TaskNext, TaskWorker, ScratchHost

\* Every step keeps the invariant of the stall backstop.
LEMMA TaskStepStall == TaskInv /\ [TaskNext]_taskVars => StallInv'
BY TaskStepTypes, TaskStepIsolation, TaskStepReads, TaskStepBackstop
   DEF TaskInv, IsolationInv, StallInv

\* The invariant of the copy holds throughout.
LEMMA TaskAlways == TaskSpec => []TaskInv
BY TaskInitInv, TaskStepIsolation, TaskStepStall, PTL DEF TaskSpec, TaskInv

\* The pass that ends a run as stalled sees a task that runs and has been silent
\* for longer than the floor.
LEMMA StallStep ==
  ASSUME StallInv, [TaskNext]_taskVars, ending' = "stalled", ending # "stalled"
  PROVE  Followed = "running" /\ clock - movedAt > Floor
<1> USE TaskAssumption DEF StallInv, TaskTypes, hostVars, linkVars, workVars, Ends, Looks
<1>1. Poll
  BY DEF TaskNext, TaskWorker, ScratchHost, taskVars, Register, Advance, Hang, TaskEnds, OldEnds,
         ApiToggles, Tick, RequestCancelTask, Kick, Find, FindNothing, PollBlip, StopTask,
         RewriteNics, Boot
<1>2. PICK seen \in Nat : /\ Followed = "running" /\ clock - seen > Floor
                        /\ seen = IF upid = "new" /\ copied > percent THEN clock ELSE lastAt
  BY <1>1 DEF Poll, stall_exceeded
<1>3. movedAt <= seen
  BY <1>1, <1>2 DEF Poll, Followed, PastOnly, ReadsBehind
<1> QED BY <1>2, <1>3

\* A restore that moves is never given up as stalled, however slow it is and
\* whatever the API missed.
THEOREM TaskSlowIsSpared == TaskSpec => SlowIsSpared
<1>1. TaskInv /\ [TaskNext]_taskVars
        => [ending' = "stalled" /\ ending # "stalled" =>
              Followed = "running" /\ clock - movedAt > Floor]_taskVars
  BY StallStep DEF TaskInv
<1> QED BY <1>1, TaskAlways, PTL DEF TaskSpec, SlowIsSpared

\* Half way, a factor of up to 25 allows no more silence than the time before it.
LEMMA HalfWaySilence ==
  ASSUME NEW q \in Nat, NEW e \in Nat, NEW p \in Nat, NEW k \in Nat, k <= 25, p >= 50,
         ~(q > Floor /\ q * p > e * k), q > Floor
  PROVE  q + q <= e
<1>1. q * p <= e * k /\ q * p \in Nat /\ e * k \in Nat
  OBVIOUS
<1>2. q * 50 <= q * p
  BY Z3
<1>3. e * k <= e * 25
  BY Z3
<1> QED BY <1>1, <1>2, <1>3

\* The stall backstop tells a slow restore from one that hangs; the second half of
\* this needs a factor of at most 25 (the code's default is 6).
THEOREM TaskStallsToldApart ==
  ASSUME Factor <= 25
  PROVE  TaskSpec => StallsToldApart
<1>1. TaskInv => HalfWayHangEnds
  <2> SUFFICES ASSUME TaskInv, step = "poll", polled, percent >= 50, ~cancel
               PROVE  clock - lastAt <= Larger(Floor, lastAt - since)
    BY DEF HalfWayHangEnds
  <2> USE TaskAssumption DEF TaskInv, StallInv, TaskTypes
  <2> DEFINE q == clock - lastAt
             e == clock - since
  <2>1. q \in Nat /\ e \in Nat /\ e - q = lastAt - since
    BY DEF PastOnly
  <2>2. ~(q > Floor /\ q * percent > e * Factor)
    BY DEF WithinBackstop, stall_exceeded
  <2>3. CASE q <= Floor
    BY <2>1, <2>3 DEF Larger
  <2>4. CASE q > Floor
    <3>1. q + q <= e
      <4> HIDE DEF q, e
      <4> QED BY <2>1, <2>2, <2>4, HalfWaySilence
    <3> QED BY <2>1, <3>1 DEF Larger
  <2> QED BY <2>1, <2>3, <2>4
<1> QED BY <1>1, TaskAlways, TaskSlowIsSpared, PTL DEF StallsToldApart

-----------------------------------------------------------------------------
(* DiskRestore.                                                                *)

DiskTypes ==
    /\ at \in ({"alloc", "kick", "watch"} \X Plan)
              \cup {<<"config", Disks>>, <<"rollback", 0>>, <<"end", 0>>}
    /\ volume \in [Plan -> BOOLEAN] /\ allocated \subseteq Plan
    /\ copy \in [Plan -> {"none", "running", "ok", "failed", "killed"}]
    /\ rc \in [Plan -> {"none", "0", "1"}] /\ faults \in Nat

\* Where the worker is in the plan.
Behind(d) == at[1] = "config" \/ (at[1] \in {"alloc", "kick", "watch"} /\ d < at[2])
Ahead(d) == (at[1] \in {"alloc", "kick"} /\ d >= at[2]) \/ (at[1] = "watch" /\ d > at[2])
Begun(d) == Behind(d) \/ (at[1] \in {"kick", "watch"} /\ d = at[2])

\* On a host without exit codes of earlier restores a code tells of this copy.
CodesTell ==
    stale = {} => \A d \in Plan : /\ rc[d] = "0" => copy[d] = "ok"
                                  /\ rc[d] = "1" => copy[d] = "failed"

\* The volumes follow the plan, and so do the copies.
PlanFollowed ==
    \A d \in Plan :
        /\ Begun(d) => volume[d] /\ d \in allocated
        /\ Behind(d) /\ stale = {} => copy[d] = "ok"
        /\ Ahead(d) => copy[d] = "none"

\* The worker notes each volume it makes unless a command failed.
VolumesNoted == faults = 0 => \A d \in Plan : volume[d] => d \in allocated

\* A rollback of a restore without a failing command finds no copy running, and
\* leaves no volume.
NothingRuns ==
    at[1] = "rollback" /\ faults = 0 /\ stale = {} => \A d \in Plan : copy[d] # "running"

DiskInv == DiskTypes /\ CodesTell /\ PlanFollowed /\ VolumesNoted /\ NothingRuns /\ AllOrNothing
           /\ (result = "restored" => Ended)

\* Before the first disk nothing exists.
LEMMA DiskInitInv == DiskInit => DiskInv
<1> SUFFICES ASSUME DiskInit PROVE DiskInv
  OBVIOUS
<1>1. /\ at = <<"alloc", 1>> /\ volume = [d \in Plan |-> FALSE] /\ allocated = {}
      /\ copy = [d \in Plan |-> "none"] /\ faults = 0 /\ result = ""
      /\ rc = [d \in Plan |-> IF d \in stale THEN "0" ELSE "none"]
  BY DEF DiskInit
<1>2. 1 \in Plan /\ \A d \in Plan : d \in Nat /\ d >= 1
  BY DiskAssumption DEF Plan
<1>3. DiskTypes
  BY <1>1, <1>2 DEF DiskTypes
<1>4. CodesTell /\ PlanFollowed
  <2>1. \A d \in Plan : ~Behind(d) /\ ~Begun(d)
    <3>1. at[1] = "alloc" /\ at[2] = 1
      BY <1>1
    <3> QED BY <1>2, <3>1 DEF Behind, Begun
  <2>2. \A d \in Plan : copy[d] = "none" /\ (stale = {} => rc[d] = "none")
    BY <1>1
  <2> QED BY <2>1, <2>2 DEF CodesTell, PlanFollowed
<1>5. VolumesNoted /\ NothingRuns /\ AllOrNothing /\ (result = "restored" => Ended)
  BY <1>1 DEF VolumesNoted, NothingRuns, AllOrNothing, RollbackClean, CopiesComplete, Ended
<1> QED BY <1>3, <1>4, <1>5 DEF DiskInv

\* A step of the worker that abandons the plan leaves it to the rollback.
LEMMA ToRollback ==
  ASSUME DiskInv, DiskTypes', CodesTell', VolumesNoted', at'[1] = "rollback",
         result' \in {"failed", "cancelled"},
         faults' = 0 /\ stale' = {} => \A d \in Plan : copy'[d] # "running"
  PROVE  DiskInv'
<1>1. PlanFollowed'
  BY DEF PlanFollowed, Behind, Ahead, Begun
<1>2. NothingRuns' /\ AllOrNothing' /\ (result = "restored" => Ended)'
  BY DEF NothingRuns, AllOrNothing, RollbackClean, CopiesComplete, Ended
<1> QED BY <1>1, <1>2 DEF DiskInv

\* Where the plan goes on, nothing is claimed yet of its end.
LEMMA GoesOn ==
  ASSUME DiskInv, DiskTypes', CodesTell', VolumesNoted', PlanFollowed', UNCHANGED result,
         at[1] \in {"alloc", "kick", "watch"}, at'[1] \in {"alloc", "kick", "watch", "config"}
  PROVE  DiskInv'
BY DEF DiskInv, NothingRuns, AllOrNothing, RollbackClean, CopiesComplete, Ended

\* The worker at a disk of the plan.
LEMMA AtDisk ==
  ASSUME DiskInv, NEW what \in {"alloc", "kick", "watch"}, NEW d \in Plan, At(what, d)
  PROVE  /\ at[1] = what /\ at[2] = d
         /\ \A e \in Plan : e < d => Behind(e)
         /\ \A e \in Plan : e > d => Ahead(e)
         /\ what # "watch" => Ahead(d)
         /\ what # "alloc" => Begun(d)
BY DiskAssumption DEF At, Behind, Ahead, Begun, Plan

\* One step for one disk of the plan keeps the invariant.
LEMMA DiskStep ==
  ASSUME DiskInv, NEW d \in Plan, AllocDisk(d) \/ KickDisk(d) \/ WatchDisk(d) \/ StopDisk(d)
  PROVE  DiskInv'
<1> USE DiskAssumption
<1>0. DiskTypes /\ CodesTell /\ PlanFollowed /\ VolumesNoted
  BY DEF DiskInv
<1>0a. d \in Nat /\ d >= 1 /\ d <= Disks /\ \A e \in Plan : e \in Nat /\ e >= 1 /\ e <= Disks
  BY DEF Plan
<1>1. CASE AllocDisk(d)
  <2>0. at[1] = "alloc" /\ at[2] = d /\ At("alloc", d)
    BY <1>1 DEF AllocDisk, At
  <2>1. CASE at'[1] = "rollback"
    <3>1. at' = <<"rollback", 0>> /\ result' \in {"failed", "cancelled"}
          /\ UNCHANGED <<volume, allocated, copy, rc, faults, stale>>
      BY <1>1, <2>1 DEF AllocDisk, Rollback
    <3>2. DiskTypes' /\ CodesTell' /\ VolumesNoted'
      BY <1>0, <3>1 DEF DiskTypes, CodesTell, VolumesNoted
    <3>3. stale = {} => \A e \in Plan : copy[e] # "running"
      BY <1>0, <1>0a, <2>0, AtDisk DEF PlanFollowed
    <3> QED BY <3>1, <3>2, <3>3, ToRollback
  <2>2. CASE at'[1] # "rollback"
    <3>1. /\ volume' = [volume EXCEPT ![d] = TRUE] /\ allocated' = allocated \cup {d}
          /\ at' = <<"kick", d>> /\ UNCHANGED <<result, copy, rc, faults, stale>>
      BY <1>1, <2>2 DEF AllocDisk, Rollback
    <3>2. DiskTypes' /\ CodesTell' /\ VolumesNoted'
      BY <1>0, <3>1 DEF DiskTypes, CodesTell, VolumesNoted
    <3>3. PlanFollowed'
      BY <1>0, <1>0a, <2>0, <3>1 DEF PlanFollowed, Behind, Ahead, Begun, DiskTypes
    <3> QED BY <2>0, <3>1, <3>2, <3>3, GoesOn
  <2> QED BY <2>1, <2>2
<1>2. CASE KickDisk(d)
  <2>0. at[1] = "kick" /\ at[2] = d /\ At("kick", d)
    BY <1>2 DEF KickDisk, At
  <2>1. /\ copy' = [copy EXCEPT ![d] = "running"] /\ at' = <<"watch", d>>
        /\ UNCHANGED <<volume, allocated, rc, stale, faults, result>>
    BY <1>2 DEF KickDisk
  <2>2. copy[d] = "none"
    BY <1>0, <2>0, AtDisk DEF PlanFollowed
  <2>3. DiskTypes' /\ CodesTell' /\ VolumesNoted'
    BY <1>0, <2>1, <2>2 DEF DiskTypes, CodesTell, VolumesNoted
  <2>4. PlanFollowed'
    BY <1>0, <1>0a, <2>0, <2>1 DEF PlanFollowed, Behind, Ahead, Begun, DiskTypes
  <2> QED BY <2>0, <2>1, <2>3, <2>4, GoesOn
<1>3. CASE WatchDisk(d)
  <2>0. at[1] = "watch" /\ at[2] = d /\ At("watch", d) /\ rc[d] # "none"
    BY <1>3 DEF WatchDisk, At
  <2>1. UNCHANGED <<volume, allocated, copy, rc, stale, faults>>
    BY <1>3 DEF WatchDisk
  <2>2. CASE rc[d] = "0"
    <3>1. at' = (IF d = Disks THEN <<"config", d>> ELSE <<"alloc", d + 1>>) /\ result' = result
      BY <1>3, <2>2 DEF WatchDisk, Onward
    <3>2. at' \in ({"alloc"} \X Plan) \cup {<<"config", Disks>>}
      BY <1>0a, <3>1 DEF Plan
    <3>3. DiskTypes' /\ CodesTell' /\ VolumesNoted'
      BY <1>0, <2>1, <3>2 DEF DiskTypes, CodesTell, VolumesNoted
    <3>4. stale = {} => copy[d] = "ok"
      BY <1>0, <2>2 DEF CodesTell
    <3>5. CASE d = Disks
      <4>1. at'[1] = "config"
        BY <3>1, <3>5
      <4>2. PlanFollowed'
        <5>1. \A e \in Plan : e = d \/ e < d
          BY <1>0a, <3>5
        <5>2. Begun(d) /\ \A e \in Plan : e < d => Behind(e) /\ Begun(e)
          BY <2>0, AtDisk DEF Begun
        <5>3. \A e \in Plan : volume[e] /\ e \in allocated /\ (stale = {} => copy[e] = "ok")
          BY <1>0, <3>4, <5>1, <5>2 DEF PlanFollowed
        <5> QED BY <2>1, <4>1, <5>3 DEF PlanFollowed, Ahead
      <4> QED BY <2>0, <3>1, <3>3, <4>1, <4>2, GoesOn
    <3>6. CASE d # Disks
      <4>1. at'[1] = "alloc" /\ at'[2] = d + 1
        BY <3>1, <3>6
      <4>2. PlanFollowed'
        <5>1. \A e \in Plan : e \in Int /\ (e < d + 1 <=> e < d \/ e = d) /\ (e >= d + 1 => e > d)
          BY <1>0a
        <5>2. Begun(d) /\ \A e \in Plan : e < d => Behind(e) /\ Begun(e)
          BY <2>0, AtDisk DEF Begun
        <5>3. \A e \in Plan : Begun(e)' => volume[e] /\ e \in allocated
          BY <1>0, <4>1, <5>1, <5>2 DEF PlanFollowed, Begun, Behind
        <5>4. \A e \in Plan : Behind(e)' /\ stale = {} => copy[e] = "ok"
          BY <1>0, <3>4, <4>1, <5>1, <5>2 DEF PlanFollowed, Behind
        <5>5. \A e \in Plan : Ahead(e)' => copy[e] = "none"
          BY <1>0, <2>0, <4>1, <5>1 DEF PlanFollowed, Ahead
        <5> QED BY <2>1, <5>3, <5>4, <5>5 DEF PlanFollowed
      <4> QED BY <2>0, <3>1, <3>3, <4>1, <4>2, GoesOn
    <3> QED BY <3>5, <3>6
  <2>3. CASE rc[d] # "0"
    <3>1. at' = <<"rollback", 0>> /\ result' = "failed"
      BY <1>3, <2>3 DEF WatchDisk, Rollback
    <3>2. DiskTypes' /\ CodesTell' /\ VolumesNoted'
      BY <1>0, <2>1, <3>1 DEF DiskTypes, CodesTell, VolumesNoted
    <3>3. rc[d] = "1"
      BY <1>0, <2>0, <2>3 DEF DiskTypes
    <3>4. stale = {} => \A e \in Plan : copy[e] # "running"
      BY <1>0, <1>0a, <2>0, <3>3, AtDisk DEF PlanFollowed, CodesTell
    <3> QED BY <2>1, <3>1, <3>2, <3>4, ToRollback
  <2> QED BY <2>2, <2>3
<1>4. CASE StopDisk(d)
  <2>0. at[1] = "watch" /\ at[2] = d /\ At("watch", d)
    BY <1>4 DEF StopDisk, At
  <2>1. /\ copy' = [copy EXCEPT ![d] = IF @ = "running" THEN "killed" ELSE @]
        /\ at' = <<"rollback", 0>> /\ result' = "cancelled"
        /\ UNCHANGED <<volume, allocated, rc, stale, faults>>
    BY <1>4 DEF StopDisk, Rollback
  <2>2. DiskTypes' /\ CodesTell' /\ VolumesNoted'
    BY <1>0, <2>1 DEF DiskTypes, CodesTell, VolumesNoted
  <2>3. stale = {} => \A e \in Plan : copy'[e] # "running"
    BY <1>0, <1>0a, <2>0, <2>1, AtDisk DEF PlanFollowed, DiskTypes
  <2> QED BY <2>1, <2>2, <2>3, ToRollback
<1> QED BY <1>1, <1>2, <1>3, <1>4

\* A command that fails leaves everything to the rollback, which promises nothing.
LEMMA FaultStep == ASSUME DiskInv, CommandFails PROVE DiskInv'
<1> USE DiskAssumption
<1>0. DiskTypes /\ CodesTell /\ PlanFollowed
  BY DEF DiskInv
<1>1. /\ at' = <<"rollback", 0>> /\ result' = "failed" /\ faults' = faults + 1
      /\ UNCHANGED <<allocated, rc, stale>>
  BY DEF CommandFails, Rollback
<1>2. faults' # 0
  BY <1>0, <1>1 DEF DiskTypes
<1>3. CASE /\ UNCHANGED copy
             /\ \/ UNCHANGED volume
                \/ at[1] = "alloc" /\ volume' = [volume EXCEPT ![at[2]] = TRUE]
  <2>1. volume' \in [Plan -> BOOLEAN]
    BY <1>0, <1>3 DEF DiskTypes
  <2>2. DiskTypes' /\ CodesTell'
    BY <1>0, <1>1, <1>3, <2>1 DEF DiskTypes, CodesTell
  <2> QED BY <1>1, <1>2, <2>2, ToRollback DEF VolumesNoted
<1>4. CASE at[1] = "kick" /\ copy' = [copy EXCEPT ![at[2]] = "running"] /\ UNCHANGED volume
  <2>1. at[2] \in Plan /\ At("kick", at[2])
    BY <1>0, <1>4 DEF DiskTypes, At
  <2>2. copy[at[2]] = "none"
    BY <1>0, <2>1, AtDisk DEF PlanFollowed
  <2>3. DiskTypes' /\ CodesTell'
    BY <1>0, <1>1, <1>4, <2>1, <2>2 DEF DiskTypes, CodesTell
  <2> QED BY <1>1, <1>2, <2>3, ToRollback DEF VolumesNoted
<1>5. UNCHANGED copy \/ (at[1] = "kick" /\ copy' = [copy EXCEPT ![at[2]] = "running"] /\ UNCHANGED volume)
  BY DEF CommandFails
<1>6. UNCHANGED volume
      \/ (at[1] = "alloc" /\ volume' = [volume EXCEPT ![at[2]] = TRUE])
  BY DEF CommandFails
<1> QED BY <1>3, <1>4, <1>5, <1>6

\* The config is written when every disk is behind.
LEMMA ConfigStep == ASSUME DiskInv, WriteConfig PROVE DiskInv'
<1>0. DiskTypes /\ CodesTell /\ PlanFollowed /\ VolumesNoted
  BY DEF DiskInv
<1>1. /\ at[1] = "config" /\ at' = <<"end", 0>> /\ result' = "restored"
      /\ UNCHANGED <<volume, allocated, copy, rc, stale, faults>>
  BY DEF WriteConfig, At
<1>2. DiskTypes' /\ CodesTell' /\ VolumesNoted'
  BY <1>0, <1>1 DEF DiskTypes, CodesTell, VolumesNoted
<1>3. PlanFollowed' /\ NothingRuns' /\ Ended' /\ RollbackClean'
  BY <1>1 DEF PlanFollowed, Behind, Ahead, Begun, NothingRuns, Ended, RollbackClean
<1>4. CopiesComplete'
  BY <1>0, <1>1 DEF PlanFollowed, Begun, Behind, CopiesComplete
<1> QED BY <1>2, <1>3, <1>4 DEF DiskInv, AllOrNothing

\* The rollback frees what was noted.
LEMMA FreeStep == ASSUME DiskInv, FreeVolumes PROVE DiskInv'
<1>0. DiskTypes /\ CodesTell /\ VolumesNoted /\ NothingRuns
  BY DEF DiskInv
<1>1. PICK stuck \in SUBSET {d \in allocated : copy[d] = "running"} :
        volume' = [d \in Plan |-> volume[d] /\ d \notin allocated \ stuck]
  BY DEF FreeVolumes
<1>2. /\ at[1] = "rollback" /\ at' = <<"end", 0>>
      /\ UNCHANGED <<allocated, copy, rc, stale, faults, result>>
  BY DEF FreeVolumes
<1>3. DiskTypes'
  BY <1>0, <1>1, <1>2 DEF DiskTypes
<1>4. CodesTell' /\ VolumesNoted' /\ PlanFollowed' /\ NothingRuns' /\ Ended'
  BY <1>0, <1>1, <1>2 DEF CodesTell, VolumesNoted, PlanFollowed, Behind, Ahead, Begun, NothingRuns, Ended
<1>5. RollbackClean'
  <2> SUFFICES ASSUME faults = 0, stale = {}, NEW d \in Plan PROVE ~volume'[d] /\ copy'[d] # "running"
    BY <1>2 DEF RollbackClean
  <2>1. copy[d] # "running" /\ d \notin stuck
    BY <1>0, <1>1, <1>2 DEF NothingRuns
  <2>2. volume[d] => d \in allocated
    BY <1>0 DEF VolumesNoted
  <2> QED BY <1>1, <1>2, <2>1, <2>2
<1>6. result # "restored"
  BY <1>2 DEF DiskInv, Ended
<1> QED BY <1>2, <1>3, <1>4, <1>5, <1>6 DEF DiskInv, AllOrNothing, CopiesComplete

\* A copy that ends leaves its own exit code.
LEMMA CopyStep == ASSUME DiskInv, NEW d \in Plan, CopyEnds(d) PROVE DiskInv'
<1>0. DiskTypes /\ CodesTell /\ PlanFollowed /\ NothingRuns /\ VolumesNoted
  BY DEF DiskInv
<1>1. PICK ok \in BOOLEAN :
        /\ copy' = [copy EXCEPT ![d] = IF ok THEN "ok" ELSE "failed"]
        /\ rc' = [rc EXCEPT ![d] = IF ok THEN "0" ELSE "1"]
  BY DEF CopyEnds
<1>2. copy[d] = "running" /\ UNCHANGED <<at, volume, allocated, stale, faults, result>>
  BY DEF CopyEnds
<1>3. DiskTypes' /\ CodesTell'
  BY <1>0, <1>1, <1>2 DEF DiskTypes, CodesTell
<1>4. PlanFollowed'
  BY <1>0, <1>1, <1>2 DEF PlanFollowed, DiskTypes, Behind, Ahead, Begun
<1>5. VolumesNoted' /\ NothingRuns'
  BY <1>0, <1>1, <1>2 DEF VolumesNoted, NothingRuns, DiskTypes
<1>6. AllOrNothing' /\ (result = "restored" => Ended)'
  BY <1>0, <1>1, <1>2 DEF DiskInv, AllOrNothing, RollbackClean, CopiesComplete, Ended, DiskTypes
<1> QED BY <1>3, <1>4, <1>5, <1>6 DEF DiskInv

\* A step that leaves disks, plan and result alone keeps the invariant.
LEMMA DiskRest ==
  ASSUME DiskInv, UNCHANGED <<at, volume, allocated, copy, rc, stale, faults, result>>
  PROVE  DiskInv'
BY DEF DiskInv, DiskTypes, CodesTell, PlanFollowed, Behind, Ahead, Begun, VolumesNoted, NothingRuns,
       AllOrNothing, RollbackClean, CopiesComplete, Ended

\* The distributed restore does all or leaves nothing: on a host without exit codes
\* of earlier restores the config names only complete disks, and a restore that is
\* given up without a failing command leaves no volume and no process.
THEOREM DiskAllOrNothing == DiskSpec => []AllOrNothing
<1>1. DiskInv /\ [DiskNext]_diskVars => DiskInv'
  <2> SUFFICES ASSUME DiskInv, [DiskNext]_diskVars PROVE DiskInv'
    OBVIOUS
  <2>1. CASE AskStop \/ UNCHANGED diskVars
    BY <2>1, DiskRest DEF AskStop, diskVars
  <2> QED BY <2>1, DiskStep, FaultStep, ConfigStep, FreeStep, CopyStep DEF DiskNext, DiskWorker
<1>2. DiskInv => AllOrNothing
  BY DEF DiskInv
<1> QED BY <1>1, <1>2, DiskInitInv, PTL DEF DiskSpec

-----------------------------------------------------------------------------
(* HelperSetup.                                                                *)

HelperTypes ==
    /\ setup \in {"bridge", "look", "template", "wait", "prune", "create", "start", "agent",
                  "restoring", "network", "probing", "over"}
    /\ uploading \in {"none", "running", "done", "broken"}
    /\ helperCt \in {"none", "made", "started", "serving"}
    /\ bridge = [configured |-> bridge.configured, up |-> bridge.up]

\* What a thread that nothing spoilt has made by the stage it is at.
MadeSoFar ==
    ~spoiled =>
        /\ setup = "bridge" => helperCt \in {"none", "serving"}
        /\ setup = "look" => helperCt \in {"none", "serving"} /\ bridge.up
        /\ setup \in {"template", "wait", "prune", "create", "start", "agent"} => bridge.up
        /\ setup \in {"restoring", "network", "probing"} => helperCt = "serving" /\ bridge.up

\* There is one template of each image, and a finished upload has made it whole.
TemplatesKnown ==
    /\ \A t, u \in templates : t.image = u.image => t = u
    /\ templates \subseteq [image : Nat, whole : BOOLEAN] /\ image \in Nat
    /\ uploading = "done" => \E t \in Current : t.whole
    /\ uploading \in {"running", "broken"} => setup = "wait" \/ spoiled

\* The addresses the operator entered.
AddressesKnown ==
    /\ net.ip \in 1 .. 10 /\ net.gateway \in {None} \cup MgmtAddresses
    /\ net.guest \in {None} \cup MgmtAddresses /\ net.guestPrefix \in 1 .. 4
    /\ net.gateway \in Subnet(net.ip, net.prefix) \cup {None}

SetupInv == HelperTypes /\ MadeSoFar /\ TemplatesKnown /\ AddressesKnown

\* A setup begins with nothing made.
LEMMA HelperInitInv == HelperInit => SetupInv
<1> SUFFICES ASSUME HelperInit PROVE SetupInv
  OBVIOUS
<1>1. HelperTypes /\ MadeSoFar
  BY DEF HelperInit, HelperInputs, HelperStart, HelperTypes, MadeSoFar
<1>2. TemplatesKnown
  <2>1. templates = {} \/ templates = {[image |-> 0, whole |-> TRUE]}
    BY DEF HelperInit, HelperInputs
  <2>2. uploading = "none" /\ image = 1
    BY DEF HelperInit, HelperStart
  <2>3. templates \subseteq [image : Nat, whole : BOOLEAN]
    <3>1. TRUE \in BOOLEAN /\ 0 \in Nat
      OBVIOUS
    <3>2. [image |-> 0, whole |-> TRUE] \in [image : Nat, whole : BOOLEAN]
      BY <3>1, Zenon
    <3> QED BY <2>1, <3>2, Zenon
  <2>4. \A t, u \in templates : t = u
    BY <2>1
  <2> QED BY <2>2, <2>3, <2>4 DEF TemplatesKnown
<1>3. AddressesKnown
  <2>1. net \in [ip : MgmtAddresses, prefix : {1, 2}, gateway : {None} \cup MgmtAddresses,
                 guest : {None} \cup MgmtAddresses, guestPrefix : {1, 2, 3, 4}]
    BY DEF HelperInit, HelperInputs
  <2>2. net.gateway \in Subnet(net.ip, net.prefix) \cup {None}
    BY DEF HelperInit, HelperInputs
  <2>3. /\ net.ip \in MgmtAddresses /\ net.gateway \in {None} \cup MgmtAddresses
        /\ net.guest \in {None} \cup MgmtAddresses /\ net.guestPrefix \in {1, 2, 3, 4}
    BY <2>1
  <2>4. net.ip \in 1 .. 10
    BY <2>3, HelperAssumption
  <2>5. \A p \in {1, 2, 3, 4} : p \in 1 .. 4
    OBVIOUS
  <2> QED BY <2>2, <2>3, <2>4, <2>5 DEF AddressesKnown
<1> QED BY <1>1, <1>2, <1>3 DEF SetupInv

\* Every step keeps what is known of the stages.
LEMMA HelperStepMade ==
  HelperTypes /\ MadeSoFar /\ [HelperNext]_setupVars => (HelperTypes /\ MadeSoFar)'
<1> SUFFICES ASSUME HelperTypes, MadeSoFar, [HelperNext]_setupVars PROVE (HelperTypes /\ MadeSoFar)'
  OBVIOUS
<1> USE DEF HelperTypes, MadeSoFar, Mishap, history, guestsOnHost
<1>1. CASE RunFails \/ UploadBroken \/ SetupFails \/ ProbeOver
  BY <1>1 DEF RunFails, UploadBroken, SetupFails, ProbeOver
<1>2. CASE EnsureBridge
  <2>1. /\ setup = "bridge" /\ setup' \in {"look", "template"} /\ UNCHANGED <<uploading, helperCt>>
        /\ setup' = "template" => ~resumed
    BY <1>2 DEF EnsureBridge
  <2>2. \/ bridge' = [configured |-> TRUE, up |-> TRUE] /\ UNCHANGED spoiled
        \/ bridge' = [bridge EXCEPT !.up = TRUE] /\ UNCHANGED spoiled
        \/ spoiled' = (spoiled \/ ~bridge.up) /\ UNCHANGED bridge
    BY <1>2 DEF EnsureBridge
  <2>3. bridge' = [configured |-> bridge'.configured, up |-> bridge'.up]
    BY <2>2
  <2>4. bridge'.up \/ spoiled'
    <3>1. CASE bridge' = [configured |-> TRUE, up |-> TRUE]
      BY <3>1, Zenon
    <3>2. CASE bridge' = [bridge EXCEPT !.up = TRUE]
      <4>1. bridge' = [configured |-> bridge.configured, up |-> TRUE]
        BY <3>2
      <4> QED BY <4>1, Zenon
    <3>3. CASE spoiled' = (spoiled \/ ~bridge.up) /\ UNCHANGED bridge
      BY <3>3, Zenon
    <3> QED BY <2>2, <3>1, <3>2, <3>3
  <2> QED BY <2>1, <2>2, <2>3, <2>4
<1>3. CASE ResumeLooks
  BY <1>3 DEF ResumeLooks
<1>4. CASE LookForTemplate
  BY <1>4 DEF LookForTemplate
<1>5. CASE UploadEnds
  <2>1. uploading' \in {uploading, "done", "broken"}
        /\ UNCHANGED <<setup, helperCt, bridge, spoiled>>
    BY <1>5 DEF UploadEnds
  <2> QED BY <2>1
<1>6. CASE WaitTask \/ PruneTemplates
  BY <1>6 DEF WaitTask, PruneTemplates
<1>7. CASE CreateHelper \/ StartHelper
  BY <1>7 DEF CreateHelper, StartHelper
<1>8. CASE AgentAnswers \/ Restored \/ BootRestored
  BY <1>8 DEF AgentAnswers, Restored, BootRestored
<1>9. CASE AppRestarts
  BY <1>9 DEF AppRestarts
<1>10. CASE UNCHANGED setupVars
  BY <1>10 DEF setupVars
<1> QED BY <1>1, <1>2, <1>3, <1>4, <1>5, <1>6, <1>7, <1>8, <1>9, <1>10 DEF HelperNext

\* Every step keeps what is known of the templates.
LEMMA HelperStepTemplates ==
  SetupInv /\ [HelperNext]_setupVars => (TemplatesKnown /\ AddressesKnown)'
<1> SUFFICES ASSUME SetupInv, [HelperNext]_setupVars PROVE (TemplatesKnown /\ AddressesKnown)'
  OBVIOUS
<1>0. HelperTypes /\ TemplatesKnown /\ AddressesKnown
  BY DEF SetupInv
<1>1. AddressesKnown'
  <2>1. UNCHANGED net
    BY DEF HelperNext, setupVars, RunFails, UploadBroken, SetupFails, ProbeOver, EnsureBridge, ResumeLooks,
           LookForTemplate, UploadEnds, WaitTask, PruneTemplates, CreateHelper, StartHelper,
           AgentAnswers, Restored, BootRestored, AppRestarts
  <2> QED BY <1>0, <2>1 DEF AddressesKnown, Subnet
<1> SUFFICES TemplatesKnown'
  BY <1>1
<1> USE <1>0 DEF HelperTypes, TemplatesKnown, Current, Mishap, history, guestsOnHost
<1>2. CASE RunFails \/ UploadBroken \/ SetupFails \/ ProbeOver
  BY <1>2 DEF RunFails, UploadBroken, SetupFails, ProbeOver
<1>3. CASE EnsureBridge \/ ResumeLooks
  BY <1>3 DEF EnsureBridge, ResumeLooks
<1>4. CASE LookForTemplate
  <2>1. CASE Current # {}
    BY <1>4, <2>1 DEF LookForTemplate
  <2>2. CASE Current = {}
    <3>1. /\ setup' = "wait" /\ uploading' = "running" /\ UNCHANGED <<image, spoiled>>
          /\ templates' = templates \cup {[image |-> image, whole |-> FALSE]}
      BY <1>4, <2>2 DEF LookForTemplate
    <3>2. \A t \in templates : t.image # image
      BY <2>2
    <3> DEFINE n == [image |-> image, whole |-> FALSE]
    <3>3. n \in [image : Nat, whole : BOOLEAN] /\ n.image = image
      OBVIOUS
    <3> HIDE DEF n
    <3>4. templates' = templates \cup {n}
      BY <3>1 DEF n
    <3> QED BY <3>1, <3>2, <3>3, <3>4
  <2> QED BY <2>1, <2>2
<1>5. CASE UploadEnds
  <2>1. PICK t \in {t \in templates : ~t.whole}, how \in {"done", "broken"} :
         /\ templates' = (templates \ {t}) \cup (IF how = "done" THEN {[t EXCEPT !.whole = TRUE]} ELSE {})
         /\ uploading' = IF uploading = "running" /\ t.image = image THEN how ELSE uploading
    BY <1>5 DEF UploadEnds
  <2>2. UNCHANGED <<image, setup, spoiled>>
    BY <1>5 DEF UploadEnds
  <2>3. t \in templates /\ t.image \in Nat /\ ~t.whole
    BY <2>1
  <2> DEFINE w == [t EXCEPT !.whole = TRUE]
  <2>4. w \in [image : Nat, whole : BOOLEAN] /\ w.image = t.image /\ w.whole
    BY <2>3
  <2> HIDE DEF w
  <2>5. templates' \subseteq (templates \ {t}) \cup {w}
    BY <2>1 DEF w
  <2>6. \A u \in templates \ {t} : u.image # t.image
    BY <2>3
  <2>7. uploading' = "done" => \E u \in templates' : u.image = image /\ u.whole
    <3>1. CASE uploading = "done"
      BY <2>1, <2>3, <3>1
    <3>2. CASE uploading = "running" /\ t.image = image /\ how = "done"
      BY <2>1, <2>4, <3>2 DEF w
    <3> QED BY <2>1, <3>1, <3>2
  <2> QED BY <2>1, <2>2, <2>4, <2>5, <2>6, <2>7
<1>6. CASE WaitTask
  BY <1>6 DEF WaitTask
<1>7. CASE PruneTemplates
  BY <1>7 DEF PruneTemplates
<1>8. CASE CreateHelper \/ StartHelper \/ AgentAnswers \/ Restored \/ BootRestored
  BY <1>8 DEF CreateHelper, StartHelper, AgentAnswers, Restored, BootRestored
<1>9. CASE AppRestarts
  <2>1. uploading' = "none" /\ UNCHANGED templates /\ image' \in 1 .. MaxImages
    BY <1>9 DEF AppRestarts
  <2> QED BY <2>1, HelperAssumption
<1>10. CASE UNCHANGED setupVars
  BY <1>10 DEF setupVars
<1> QED BY <1>2, <1>3, <1>4, <1>5, <1>6, <1>7, <1>8, <1>9, <1>10 DEF HelperNext

\* The least host of a nonempty set of addresses is one of it.
LEMMA LeastHost == ASSUME NEW S \in SUBSET (0 .. 15), S # {} PROVE Min(S) \in S
<1>1. S \subseteq Nat
  OBVIOUS
<1>2. Lowest(S) \in S /\ \A y \in S : Lowest(S) <= y
  BY <1>1, LowestIsLeast
<1>3. \E x \in S : \A y \in S : x <= y
  BY <1>2
<1> QED BY <1>3 DEF Min

\* The address of the sandbox leg is an address, and lies in the leg's network.
LEMMA SandboxAddress == AddressesKnown => SandboxIp \in 0 .. 15 /\ SandboxIp \in SandboxNet
<1> SUFFICES ASSUME AddressesKnown PROVE SandboxIp \in 0 .. 15 /\ SandboxIp \in SandboxNet
  OBVIOUS
<1>1. CASE net.guest = None
  <2>1. Fallback = {12, 13, 14, 15}
    BY DEF Fallback
  <2>2. Max(Fallback) = 15
    BY <2>1 DEF Max
  <2>3. UsableHosts(Fallback) \in {Fallback, Fallback \ {Min(Fallback), Max(Fallback)}}
    BY DEF UsableHosts
  <2>4. Min(Fallback) = 12
    BY <2>1 DEF Min
  <2>5. Max({13, 14}) = 14 /\ Fallback \ {12, 15} = {13, 14}
    BY <2>1 DEF Max
  <2>6. Max(UsableHosts(Fallback)) \in {14, 15}
    BY <2>2, <2>3, <2>4, <2>5
  <2> QED BY <1>1, <2>1, <2>6 DEF SandboxIp, SandboxNet
<1>2. CASE net.guest # None
  <2>1. net.guest \in 1 .. 10
    BY <1>2, HelperAssumption DEF AddressesKnown
  <2> DEFINE H == Subnet(net.guest, net.guestPrefix)
             others == UsableHosts(H) \ {net.guest}
  <2>2. others \subseteq 0 .. 15
    BY DEF UsableHosts, Subnet
  <2>3. sandbox_host_ip \in 0 .. 15
    <3>1. CASE others = {}
      BY <2>1, <3>1 DEF sandbox_host_ip
    <3>2. CASE others # {}
      BY <2>2, <3>2, LeastHost DEF sandbox_host_ip
    <3> QED BY <3>1, <3>2
  <2>4. SandboxIp = sandbox_host_ip /\ SandboxNet = Subnet(SandboxIp, net.guestPrefix)
    BY <1>2 DEF SandboxIp, SandboxNet
  <2> QED BY <2>3, <2>4 DEF Subnet
<1> QED BY <1>1, <1>2

\* What the helper's addresses promise holds for every choice of the operator's.
LEMMA LegsReach == AddressesKnown => StartedIsReached
<1> SUFFICES ASSUME AddressesKnown,
                    \/ SandboxNet \cap MgmtNet = {}
                    \/ SandboxNet = MgmtNet /\ SandboxIp \notin {net.ip, net.gateway}
             PROVE  Reachable
  BY DEF StartedIsReached
<1>1. SandboxIp \in 0 .. 15 /\ SandboxIp \in SandboxNet
  BY SandboxAddress
<1>2. net.ip \in MgmtNet
  BY DEF AddressesKnown, MgmtNet, Subnet
<1>3. net.gateway \in MgmtNet \/ net.gateway = None
  BY DEF AddressesKnown, MgmtNet
<1>4. CASE SandboxNet \cap MgmtNet = {}
  <2>1. SandboxIp \notin {net.ip, net.gateway}
    BY <1>1, <1>2, <1>3, <1>4 DEF None
  <2>2. SandboxNet # MgmtNet
    BY <1>1, <1>4
  <2>3. SandboxLeg = SandboxNet
    BY <2>2 DEF SandboxLeg
  <2> QED BY <1>4, <2>1, <2>3 DEF Reachable
<1>5. CASE SandboxNet = MgmtNet /\ SandboxIp \notin {net.ip, net.gateway}
  <2>1. SandboxLeg = {SandboxIp}
    BY <1>5 DEF SandboxLeg
  <2> QED BY <1>5, <2>1 DEF Reachable
<1> QED BY <1>4, <1>5

\* A probe goes through a helper that works: made from a whole template, reached by
\* the app, and on its leg of a bridge that is up.
THEOREM HelperAlwaysServes == HelperSpec => []HelperServes
<1>1. SetupInv /\ [HelperNext]_setupVars => SetupInv'
  BY HelperStepMade, HelperStepTemplates DEF SetupInv
<1>2. SetupInv => HelperServes
  <2> SUFFICES ASSUME SetupInv PROVE HelperServes
    OBVIOUS
  <2>1. ProbedThroughHelper
    BY DEF SetupInv, MadeSoFar, ProbedThroughHelper
  <2>2. MadeFromWhole
    BY DEF SetupInv, TemplatesKnown, HelperTypes, MadeFromWhole
  <2> QED BY <2>1, <2>2, LegsReach DEF SetupInv, HelperServes
<1> QED BY <1>1, <1>2, HelperInitInv, PTL DEF HelperSpec

-----------------------------------------------------------------------------
(* RestoreAllocCheck.                                                          *)

\* Every row names a guest and a tag of the ranges; a helper and an address may be
\* missing.
OwnedTypes ==
    /\ owned \subseteq Env
    /\ \A e \in owned : e.restore_vmid # Unset /\ e.vlan_tag # Unset

AllocInv == OwnedTypes /\ Disjoint

\* What is free is held by no row, and is not the missing value.
LEMMA FreeIsFresh ==
  ASSUME NEW e \in owned
  PROVE  /\ \A v \in FreeVmids(owned) : v # Unset /\ v # e.restore_vmid /\ v # e.helper_vmid
         /\ \A v \in FreeTags(owned) : v # Unset /\ v # e.vlan_tag
         /\ \A v \in FreeIps(owned) : v # Unset /\ v # e.mgmt_ip
<1>1. /\ \A v \in FreeVmids(owned) : v # 0
      /\ \A v \in FreeTags(owned) : v # 0
      /\ \A v \in FreeIps(owned) : v # 0
  BY FreeInRange
<1>2. \A v \in FreeVmids(owned) : v # e.restore_vmid /\ v # e.helper_vmid
  <2>1. {e.restore_vmid, e.helper_vmid} \in {{f.restore_vmid, f.helper_vmid} : f \in owned}
    OBVIOUS
  <2>2. {e.restore_vmid, e.helper_vmid} \subseteq UNION {{f.restore_vmid, f.helper_vmid} : f \in owned}
    BY <2>1
  <2> QED BY <1>1, <2>2 DEF FreeVmids, InUseVmids, Unset
<1>3. \A v \in FreeTags(owned) : v # e.vlan_tag
  BY <1>1 DEF FreeTags, InUseTags, Unset
<1>4. \A v \in FreeIps(owned) : v # e.mgmt_ip
  BY <1>1 DEF FreeIps, InUseIps, Unset
<1> QED BY <1>1, <1>2, <1>3, <1>4 DEF Unset

\* No guest, tag or address is in two environments, and none names one guest twice,
\* whatever order allocations, parkings, re-tests and releases come in.
THEOREM EnvironmentsDisjoint == AllocSpec => []Disjoint
<1>1. AllocInit => AllocInv
  BY DEF AllocInit, AllocInv, OwnedTypes, Disjoint
<1>2. AllocInv /\ [AllocNext]_owned => AllocInv'
  <2> SUFFICES ASSUME AllocInv, AllocNext PROVE AllocInv'
    BY DEF AllocInv, OwnedTypes, Disjoint
  <2> USE DEF AllocInv, OwnedTypes
  <2>1. CASE Acquire
    <3> DEFINE n == Allocation(owned)
    <3>1. /\ n \in Env /\ n.restore_vmid \in FreeVmids(owned) /\ n.helper_vmid \in FreeVmids(owned)
          /\ n.restore_vmid # n.helper_vmid /\ n.vlan_tag \in FreeTags(owned)
          /\ n.mgmt_ip \in FreeIps(owned)
      BY <2>1, AllocationFresh DEF Acquire
    <3>2. owned' = owned \cup {n}
      BY <2>1 DEF Acquire
    <3>3. n.restore_vmid # Unset /\ n.vlan_tag # Unset
      BY <3>1, FreeInRange DEF Unset
    <3> HIDE DEF n
    <3>4. \A e \in owned : /\ {e.restore_vmid, e.helper_vmid} \cap {n.restore_vmid, n.helper_vmid} = {}
                           /\ e.vlan_tag # n.vlan_tag /\ e.mgmt_ip # n.mgmt_ip
      BY <3>1, FreeIsFresh
    <3> QED BY <3>1, <3>2, <3>3, <3>4 DEF Disjoint
  <2>2. ASSUME NEW e \in owned, Park(e) PROVE AllocInv'
    <3> DEFINE n == [e EXCEPT !.helper_vmid = Unset, !.mgmt_ip = Unset]
    <3>1. e \in Env /\ Unset \in Nat
      BY DEF Unset
    <3>2. /\ n \in Env /\ n.restore_vmid = e.restore_vmid /\ n.vlan_tag = e.vlan_tag
          /\ n.helper_vmid = Unset /\ n.mgmt_ip = Unset
      BY <3>1 DEF Env
    <3>3. owned' = (owned \ {e}) \cup {n}
      BY <2>2 DEF Park
    <3> HIDE DEF n
    <3> QED BY <3>2, <3>3 DEF Disjoint
  <2>3. ASSUME NEW e \in owned, Retest(e) PROVE AllocInv'
    <3> DEFINE h == Allocation(owned).helper_vmid
               a == Allocation(owned).mgmt_ip
               n == [e EXCEPT !.helper_vmid = h, !.mgmt_ip = a]
    <3>1. h \in FreeVmids(owned) /\ a \in FreeIps(owned)
      BY <2>3, AllocationFresh DEF Retest
    <3>2. owned' = (owned \ {e}) \cup {n}
      BY <2>3 DEF Retest
    <3>3. h \in Nat /\ a \in Nat /\ e \in Env
      BY <3>1, FreeInRange
    <3> HIDE DEF h, a
    <3>4. /\ n \in Env /\ n.restore_vmid = e.restore_vmid /\ n.vlan_tag = e.vlan_tag
          /\ n.helper_vmid = h /\ n.mgmt_ip = a
      BY <3>3 DEF Env
    <3> HIDE DEF n
    <3>5. \A f \in owned : h # f.restore_vmid /\ h # f.helper_vmid /\ a # f.mgmt_ip
      BY <3>1, FreeIsFresh
    <3> QED BY <3>2, <3>4, <3>5 DEF Disjoint
  <2>4. ASSUME NEW e \in owned, Release(e) PROVE AllocInv'
    BY <2>4 DEF Release, Disjoint
  <2> QED BY <2>1, <2>2, <2>3, <2>4 DEF AllocNext
<1>3. AllocInv => Disjoint
  BY DEF AllocInv
<1> QED BY <1>1, <1>2, <1>3, PTL DEF AllocSpec

-----------------------------------------------------------------------------
(* PerfTest.                                                                   *)

DecidesStart(q) == req[q].step \in {"mark", "clear"}

PerfTypes ==
    /\ req \in [Requests -> [step : {"idle", "mark", "clear", "cancel"}, on : Storages \cup {NoStorage}]]
    /\ bench \in [Requests -> [step : {"none", "start", "fio", "reset", "stopped"},
                               on : Storages \cup {NoStorage}]]
    /\ \A q \in Requests : /\ DecidesStart(q) => req[q].on \in Storages
                           /\ q \in OnNow => bench[q].on \in Storages
    /\ marker \in Storages \cup {NoStorage}
    /\ looked \subseteq Storages /\ restoreOn \subseteq Storages
    /\ looked # {} => restoreOn = {}
    /\ restoreOn # {} => \E s \in restoreOn : listed = {s}
    /\ restoreOn = {} => listed = {}
    /\ crashes \in Nat

\* While no two decisions have overlapped, the marker names the one test, and the
\* one decision that is open was taken on what is still so.
OneAtATime ==
    ~raced =>
        /\ \A p, q \in Requests : /\ DecidesStart(p) /\ DecidesStart(q) => p = q
                                  /\ p \in OnNow /\ q \in OnNow => p = q
                                  /\ ~(DecidesStart(p) /\ q \in OnNow)
        /\ \A q \in Requests :
             /\ DecidesStart(q) => looked = {} /\ req[q].on \notin listed
             /\ q \in OnNow => marker = bench[q].on /\ bench[q].on \notin listed
             /\ req[q].step = "clear" => marker = req[q].on
        /\ marker \notin looked

\* The cancel key names a test that is on only if its cancel was asked for.
KeyIsAsked ==
    \A q \in Requests : /\ q \in OnNow /\ cancelKey = bench[q].on => q \in asked
                        /\ bench[q].step = "stopped" => q \in asked

\* What is on the host belongs to a test whose fio may run.
HostOwned ==
    crashes = 0 /\ ~spoilt /\ ~raced =>
        /\ \A v \in volumes : \E q \in Requests : bench[q].step = "fio" /\ v = <<bench[q].on, q>>
        /\ \A q \in fio : q \in Requests /\ bench[q].step = "fio"

PerfInv == PerfTypes /\ OneAtATime /\ KeyIsAsked /\ HostOwned

\* A host without tests satisfies the invariant.
LEMMA PerfInitInv == PerfInit => PerfInv
BY DEF PerfInit, PerfInv, PerfTypes, OneAtATime, KeyIsAsked, HostOwned, DecidesStart, OnNow,
       NoRequest, NoBench

\* What leaves the decisions to start, the tests and the host alone keeps all but
\* what the cancel key promises.
LEMMA SameDecisions ==
  ASSUME PerfInv, NEW q \in Requests,
         req' \in [Requests -> [step : {"idle", "mark", "clear", "cancel"}, on : Storages \cup {NoStorage}]],
         \A p \in Requests : p # q => req'[p] = req[p],
         ~DecidesStart(q), ~DecidesStart(q)',
         UNCHANGED <<marker, bench, volumes, fio, looked, restoreOn, listed, raced, spoilt, crashes>>,
         KeyIsAsked'
  PROVE  PerfInv'
<1>1. /\ \A p \in Requests : /\ DecidesStart(p)' <=> DecidesStart(p)
                             /\ DecidesStart(p) => req'[p] = req[p]
                             /\ req'[p].step = "clear" => req[p].step = "clear"
      /\ OnNow' = OnNow
  BY DEF DecidesStart, OnNow
<1>2. PerfTypes'
  BY <1>1 DEF PerfInv, PerfTypes
<1>3. OneAtATime'
  <2> SUFFICES ASSUME ~raced PROVE OneAtATime'
    BY DEF OneAtATime
  <2>1. \A p \in Requests : req'[p].step = "clear" => DecidesStart(p)
    BY <1>1 DEF DecidesStart
  <2> QED BY <1>1, <2>1 DEF PerfInv, OneAtATime
<1>4. HostOwned'
  BY DEF PerfInv, HostOwned
<1> QED BY <1>2, <1>3, <1>4 DEF PerfInv

\* A test that is on and goes from stage to stage disturbs nobody else.
LEMMA SameTest ==
  ASSUME PerfInv, NEW q \in Requests, NEW x \in {"fio", "reset", "stopped"}, q \in OnNow,
         bench' = [bench EXCEPT ![q].step = x], x = "stopped" => q \in asked,
         UNCHANGED <<marker, cancelKey, req, looked, restoreOn, listed, asked, raced, crashes>>,
         HostOwned'
  PROVE  PerfInv'
<1>1. /\ bench' \in [Requests -> [step : {"none", "start", "fio", "reset", "stopped"},
                                   on : Storages \cup {NoStorage}]]
      /\ \A p \in Requests : bench'[p].on = bench[p].on /\ (p # q => bench'[p] = bench[p])
      /\ bench'[q].step = x
  BY DEF PerfInv, PerfTypes
<1>2. OnNow' = OnNow
  BY <1>1 DEF OnNow
<1>3. PerfTypes'
  BY <1>1, <1>2 DEF PerfInv, PerfTypes, DecidesStart
<1>4. OneAtATime' /\ KeyIsAsked'
  BY <1>1, <1>2 DEF PerfInv, OneAtATime, KeyIsAsked, DecidesStart
<1> QED BY <1>3, <1>4 DEF PerfInv

\* A request that decides to start a test, and one that starts it.
LEMMA PerfStarts ==
  ASSUME PerfInv, NEW q \in Requests,
         (\E s \in Storages : StartLook(q, s)) \/ StartMark(q) \/ StartClear(q)
  PROVE  PerfInv'
<1> USE PerfAssumption DEF PerfInv, keyState, hostState, queueState
<1>1. ASSUME NEW s \in Storages, StartLook(q, s) PROVE PerfInv'
  <2>1. /\ req' = [req EXCEPT ![q] = [step |-> "mark", on |-> s]]
        /\ raced' = (raced \/ Deciding) /\ ~raced /\ marker = NoStorage /\ s \notin listed
        /\ UNCHANGED <<marker, cancelKey, bench, volumes, fio, looked, restoreOn, listed, asked, spoilt,
                       crashes>>
    BY <1>1 DEF StartLook
  <2>2. PerfTypes'
    BY <2>1 DEF PerfTypes, DecidesStart, OnNow
  <2>3. OneAtATime'
    <3> SUFFICES ASSUME ~Deciding PROVE OneAtATime'
      BY <2>1 DEF OneAtATime
    <3>1. looked = {} /\ \A p \in Requests : ~DecidesStart(p)
      BY DEF Deciding, DecidesStart
    <3>2. \A p \in Requests : p \notin OnNow
      BY <2>1 DEF OneAtATime, PerfTypes
    <3>3. \A p \in Requests : p # q => req'[p] = req[p]
      BY <2>1 DEF PerfTypes
    <3>4. req'[q] = [step |-> "mark", on |-> s]
      BY <2>1 DEF PerfTypes
    <3>5. \A p \in Requests : DecidesStart(p)' => p = q
      BY <3>1, <3>3 DEF DecidesStart
    <3>6. \A p \in Requests : req'[p].step # "clear"
      BY <3>1, <3>3, <3>4 DEF DecidesStart
    <3>7. \A p \in Requests : p \notin OnNow'
      BY <2>1, <3>2 DEF OnNow
    <3> QED BY <2>1, <3>1, <3>4, <3>5, <3>6, <3>7 DEF OneAtATime
  <2>4. KeyIsAsked' /\ HostOwned'
    BY <2>1 DEF KeyIsAsked, HostOwned, OnNow
  <2> QED BY <2>2, <2>3, <2>4
<1>2. CASE StartMark(q)
  <2>1. /\ req[q].step = "mark" /\ marker' = req[q].on /\ req' = [req EXCEPT ![q].step = "clear"]
        /\ UNCHANGED <<cancelKey, bench, volumes, fio, looked, restoreOn, listed, asked, raced, spoilt,
                       crashes>>
    BY <1>2 DEF StartMark
  <2>2. \A p \in Requests : DecidesStart(p)' <=> DecidesStart(p)
    BY <2>1 DEF DecidesStart, PerfTypes
  <2>3. \A p \in Requests : req'[p].on = req[p].on
    BY <2>1 DEF PerfTypes
  <2>4. PerfTypes'
    BY <2>1, <2>2, <2>3 DEF PerfTypes, OnNow
  <2>5. OneAtATime'
    <3> SUFFICES ASSUME ~raced PROVE OneAtATime'
      BY <2>1 DEF OneAtATime
    <3>1. DecidesStart(q) /\ looked = {}
      BY <2>1 DEF DecidesStart, OneAtATime
    <3>2. \A p \in Requests : req'[p].step = "clear" => p = q
      BY <2>2, <3>1 DEF OneAtATime, DecidesStart
    <3>3. \A p \in Requests : p \notin OnNow /\ p \notin OnNow'
      BY <2>1, <3>1 DEF OneAtATime, OnNow
    <3> QED BY <2>1, <2>2, <2>3, <3>1, <3>2, <3>3 DEF OneAtATime
  <2>6. KeyIsAsked' /\ HostOwned'
    BY <2>1 DEF KeyIsAsked, HostOwned, OnNow
  <2> QED BY <2>4, <2>5, <2>6
<1>3. CASE StartClear(q)
  <2>1. /\ req[q].step = "clear" /\ cancelKey' = NoStorage
        /\ req' = [req EXCEPT ![q] = NoRequest]
        /\ bench' = [bench EXCEPT ![q] = [step |-> "start", on |-> req[q].on]]
        /\ asked' = asked \ {q}
        /\ UNCHANGED <<marker, volumes, fio, looked, restoreOn, listed, raced, spoilt, crashes>>
    BY <1>3 DEF StartClear
  <2>2. DecidesStart(q) /\ req[q].on \in Storages
    BY <2>1 DEF DecidesStart, PerfTypes
  <2>3. PerfTypes'
    <3>1. req' \in [Requests -> [step : {"idle", "mark", "clear", "cancel"}, on : Storages \cup {NoStorage}]]
      BY <2>1 DEF PerfTypes, NoRequest
    <3>2. bench' \in [Requests -> [step : {"none", "start", "fio", "reset", "stopped"},
                                   on : Storages \cup {NoStorage}]]
      BY <2>1, <2>2 DEF PerfTypes
    <3>3. \A p \in Requests : /\ DecidesStart(p)' => req'[p].on \in Storages
                              /\ p \in OnNow' => bench'[p].on \in Storages
      BY <2>1, <2>2 DEF PerfTypes, DecidesStart, OnNow, NoRequest
    <3> QED BY <2>1, <3>1, <3>2, <3>3 DEF PerfTypes
  <2>4. OneAtATime'
    <3> SUFFICES ASSUME ~raced PROVE OneAtATime'
      BY <2>1 DEF OneAtATime
    <3>1. /\ looked = {} /\ marker = req[q].on /\ req[q].on \notin listed
          /\ \A p \in Requests : p \notin OnNow /\ (DecidesStart(p) => p = q)
      BY <2>1, <2>2 DEF OneAtATime
    <3>2. \A p \in Requests : p # q => req'[p] = req[p] /\ bench'[p] = bench[p]
      BY <2>1 DEF PerfTypes
    <3>3. req'[q] = NoRequest /\ bench'[q] = [step |-> "start", on |-> req[q].on]
      BY <2>1 DEF PerfTypes
    <3>4. \A p \in Requests : ~DecidesStart(p)'
      BY <3>1, <3>2, <3>3 DEF DecidesStart, NoRequest
    <3>5. \A p \in Requests : p \in OnNow' => p = q
      BY <3>1, <3>2 DEF OnNow
    <3>6. \A p \in Requests : req'[p].step # "clear"
      BY <3>4 DEF DecidesStart
    <3> QED BY <2>1, <3>1, <3>3, <3>4, <3>5, <3>6 DEF OneAtATime
  <2>5. KeyIsAsked'
    BY <2>1, <2>2, <2>3 DEF KeyIsAsked, OnNow, PerfTypes
  <2>6. HostOwned'
    <3> SUFFICES ASSUME crashes = 0, ~spoilt, ~raced PROVE HostOwned'
      BY <2>1 DEF HostOwned
    <3>1. \A p \in Requests : bench[p].step # "fio"
      BY <2>2 DEF OneAtATime, OnNow
    <3>2. volumes = {} /\ fio = {}
      BY <3>1 DEF HostOwned
    <3> QED BY <2>1, <3>2 DEF HostOwned
  <2> QED BY <2>3, <2>4, <2>5, <2>6
<1> QED BY <1>1, <1>2, <1>3

\* A cancel is read and saved.
LEMMA PerfCancels ==
  ASSUME PerfInv, NEW q \in Requests, CancelLook(q) \/ CancelSave(q)
  PROVE  PerfInv'
<1> USE PerfAssumption DEF PerfInv, keyState, hostState, queueState
<1>1. CASE CancelLook(q)
  <2>1. /\ req[q].step = "idle" /\ req' = [req EXCEPT ![q] = [step |-> "cancel", on |-> marker]]
        /\ UNCHANGED <<marker, cancelKey, bench, volumes, fio, looked, restoreOn, listed, asked, raced,
                       spoilt, crashes>>
    BY <1>1 DEF CancelLook
  <2>2. req' \in [Requests -> [step : {"idle", "mark", "clear", "cancel"}, on : Storages \cup {NoStorage}]]
    BY <2>1 DEF PerfTypes
  <2>3. \A p \in Requests : /\ p # q => req'[p] = req[p]
                            /\ ~DecidesStart(q) /\ ~DecidesStart(q)' /\ req'[q].step # "clear"
    BY <2>1 DEF PerfTypes, DecidesStart
  <2>4. KeyIsAsked'
    BY <2>1 DEF KeyIsAsked, OnNow
  <2> QED BY <2>1, <2>2, <2>3, <2>4, SameDecisions
<1>2. CASE CancelSave(q)
  <2>1. /\ req[q].step = "cancel" /\ req' = [req EXCEPT ![q] = NoRequest] /\ cancelKey' = req[q].on
        /\ asked' = asked \cup {b \in OnNow : bench[b].on = req[q].on}
        /\ UNCHANGED <<marker, bench, volumes, fio, looked, restoreOn, listed, raced, spoilt, crashes>>
    BY <1>2 DEF CancelSave
  <2>2. req' \in [Requests -> [step : {"idle", "mark", "clear", "cancel"}, on : Storages \cup {NoStorage}]]
    BY <2>1 DEF PerfTypes, NoRequest
  <2>3. \A p \in Requests : /\ p # q => req'[p] = req[p]
                            /\ ~DecidesStart(q) /\ ~DecidesStart(q)' /\ req'[q].step # "clear"
    BY <2>1 DEF PerfTypes, DecidesStart, NoRequest
  <2>4. KeyIsAsked'
    BY <2>1 DEF KeyIsAsked, OnNow
  <2> QED BY <2>1, <2>2, <2>3, <2>4, SameDecisions
<1> QED BY <1>1, <1>2

\* The test's thread: volumes and fio come, and are cleaned up.
LEMMA PerfBenches ==
  ASSUME PerfInv, NEW q \in Requests,
         BenchStart(q) \/ \E how \in {"result", "none", "cancelled"} : BenchEnds(q, how)
  PROVE  PerfInv'
<1> USE PerfAssumption DEF keyState, hostState, queueState
<1>0. PerfTypes /\ OneAtATime /\ KeyIsAsked /\ HostOwned
  BY DEF PerfInv
<1>1. q \in OnNow
  BY DEF BenchStart, BenchEnds, OnNow
<1>2. ~raced => \A p \in Requests : p # q => bench[p].step = "none"
  BY <1>0, <1>1 DEF OneAtATime, OnNow
<1>3. CASE BenchStart(q)
  <2>1. /\ bench[q].step = "start"
        /\ UNCHANGED <<marker, cancelKey, req, looked, restoreOn, listed, asked, raced, spoilt, crashes>>
    BY <1>3 DEF BenchStart
  <2>2. crashes = 0 /\ ~spoilt /\ ~raced => volumes = {} /\ fio = {}
    <3> SUFFICES ASSUME crashes = 0, ~spoilt, ~raced PROVE volumes = {} /\ fio = {}
      OBVIOUS
    <3>1. \A p \in Requests : bench[p].step # "fio"
      BY <1>2, <2>1
    <3> QED BY <1>0, <3>1 DEF HostOwned
  <2>3. CASE /\ volumes' \subseteq volumes \cup {<<bench[q].on, q>>} /\ fio' = fio \cup {q}
             /\ bench' = [bench EXCEPT ![q].step = "fio"]
    <3>1. bench'[q].step = "fio" /\ bench'[q].on = bench[q].on
      BY <1>0, <2>3 DEF PerfTypes
    <3>2. HostOwned'
      BY <2>1, <2>2, <2>3, <3>1 DEF HostOwned
    <3> QED BY <1>1, <2>1, <2>3, <3>2, SameTest
  <2>4. CASE /\ volumes' \subseteq volumes /\ UNCHANGED fio
             /\ bench' = [bench EXCEPT ![q].step = "reset"]
    <3>1. HostOwned'
      BY <2>1, <2>2, <2>4 DEF HostOwned
    <3> QED BY <1>1, <2>1, <2>4, <3>1, SameTest
  <2> QED BY <1>3, <2>3, <2>4 DEF BenchStart
<1>4. ASSUME NEW how \in {"result", "none", "cancelled"}, BenchEnds(q, how) PROVE PerfInv'
  <2> DEFINE x == IF how = "cancelled" THEN "stopped" ELSE "reset"
  <2>1. /\ bench[q].step = "fio" /\ bench' = [bench EXCEPT ![q].step = x]
        /\ how = "cancelled" => cancelKey = bench[q].on
        /\ UNCHANGED <<marker, cancelKey, req, looked, restoreOn, listed, asked, raced, crashes>>
    BY <1>4 DEF BenchEnds
  <2>2. x \in {"fio", "reset", "stopped"} /\ (x = "stopped" => q \in asked)
    BY <1>0, <1>1, <2>1 DEF KeyIsAsked
  <2>3. HostOwned'
    <3> SUFFICES ASSUME crashes = 0, ~spoilt', ~raced PROVE HostOwned'
      BY <2>1 DEF HostOwned
    <3>1. fio' = fio \ {q} /\ volumes' = volumes \ {<<bench[q].on, q>>} /\ UNCHANGED spoilt
      BY <1>4 DEF BenchEnds, CleanUp
    <3>2. \A p \in Requests : bench[p].step = "fio" => p = q
      BY <1>2
    <3>3. fio' = {} /\ volumes' = {}
      BY <1>0, <3>1, <3>2 DEF HostOwned
    <3> QED BY <3>3 DEF HostOwned
  <2> HIDE DEF x
  <2> QED BY <1>1, <2>1, <2>2, <2>3, SameTest
<1> QED BY <1>3, <1>4

\* The end of a test takes marker and cancel back; fio may end by itself before.
LEMMA PerfResets ==
  ASSUME PerfInv, NEW q \in Requests, BenchReset(q) \/ FioEnds(q)
  PROVE  PerfInv'
<1> USE PerfAssumption DEF keyState, hostState, queueState
<1>0. PerfTypes /\ OneAtATime /\ KeyIsAsked /\ HostOwned
  BY DEF PerfInv
<1>1. CASE BenchReset(q)
  <2>1. /\ bench[q].step \in {"reset", "stopped"} /\ bench' = [bench EXCEPT ![q] = NoBench]
        /\ marker' = NoStorage /\ cancelKey' = NoStorage
        /\ UNCHANGED <<req, volumes, fio, looked, restoreOn, listed, asked, raced, spoilt, crashes>>
    BY <1>1 DEF BenchReset
  <2>2. q \in OnNow
    BY <2>1 DEF OnNow
  <2>3. /\ bench' \in [Requests -> [step : {"none", "start", "fio", "reset", "stopped"},
                                     on : Storages \cup {NoStorage}]]
        /\ bench'[q] = NoBench /\ \A p \in Requests : p # q => bench'[p] = bench[p]
    BY <1>0, <2>1 DEF PerfTypes, NoBench
  <2>4. \A p \in Requests : p \in OnNow' => p \in OnNow /\ p # q
    BY <2>3 DEF OnNow, NoBench
  <2>5. PerfTypes'
    BY <1>0, <2>1, <2>3, <2>4 DEF PerfTypes, DecidesStart
  <2>6. OneAtATime'
    <3> SUFFICES ASSUME ~raced PROVE OneAtATime'
      BY <2>1 DEF OneAtATime
    <3>1. \A p \in Requests : p \notin OnNow' /\ ~DecidesStart(p)
      BY <1>0, <2>2, <2>4 DEF OneAtATime
    <3>2. \A p \in Requests : req[p].step # "clear"
      BY <3>1 DEF DecidesStart
    <3>3. NoStorage \notin looked
      BY <1>0 DEF PerfTypes
    <3> QED BY <2>1, <3>1, <3>2, <3>3 DEF OneAtATime, DecidesStart
  <2>7. KeyIsAsked'
    BY <1>0, <2>1, <2>3, <2>4, <2>5 DEF KeyIsAsked, PerfTypes, NoBench
  <2>8. HostOwned'
    BY <1>0, <2>1, <2>3 DEF HostOwned
  <2> QED BY <2>5, <2>6, <2>7, <2>8 DEF PerfInv
<1>2. CASE FioEnds(q)
  BY <1>0, <1>2 DEF FioEnds, PerfInv, PerfTypes, OneAtATime, KeyIsAsked, HostOwned, DecidesStart, OnNow
<1> QED BY <1>1, <1>2

\* The queue looks at the marker, begins a restore and ends it; the app dies.
LEMMA PerfQueue ==
  ASSUME PerfInv, (\E S \in SUBSET Storages : DrainLook(S)) \/ RestoreBegins \/ RestoreOver \/ PerfCrash
  PROVE  PerfInv'
<1> USE PerfAssumption DEF keyState, hostState, queueState
<1>0. PerfTypes /\ OneAtATime /\ KeyIsAsked /\ HostOwned
  BY DEF PerfInv
<1>1. ASSUME NEW S \in SUBSET Storages, DrainLook(S) PROVE PerfInv'
  <2>1. /\ restoreOn = {} /\ marker \notin S /\ looked' = S /\ raced' = (raced \/ Deciding)
        /\ UNCHANGED <<marker, cancelKey, req, bench, volumes, fio, restoreOn, listed, asked, spoilt,
                       crashes>>
    BY <1>1 DEF DrainLook
  <2>2. PerfTypes' /\ KeyIsAsked' /\ HostOwned'
    BY <1>0, <2>1 DEF PerfTypes, KeyIsAsked, HostOwned, OnNow, DecidesStart
  <2>3. OneAtATime'
    <3> SUFFICES ASSUME ~raced, ~Deciding PROVE OneAtATime'
      BY <2>1 DEF OneAtATime
    <3>1. \A p \in Requests : ~DecidesStart(p)
      BY DEF Deciding, DecidesStart
    <3> QED BY <1>0, <2>1, <3>1 DEF OneAtATime, DecidesStart, OnNow
  <2> QED BY <2>2, <2>3 DEF PerfInv
<1>2. CASE RestoreBegins
  <2>1. /\ looked # {} /\ restoreOn' = looked /\ looked' = {}
        /\ UNCHANGED <<marker, cancelKey, req, bench, volumes, fio, asked, raced, spoilt, crashes>>
    BY <1>2 DEF RestoreBegins
  <2>2. PICK s \in looked : listed' = {s}
    BY <1>2 DEF RestoreBegins
  <2>3. PerfTypes' /\ KeyIsAsked' /\ HostOwned'
    BY <1>0, <2>1, <2>2 DEF PerfTypes, KeyIsAsked, HostOwned, OnNow, DecidesStart
  <2>4. OneAtATime'
    BY <1>0, <2>1, <2>2 DEF OneAtATime, DecidesStart, OnNow
  <2> QED BY <2>3, <2>4 DEF PerfInv
<1>3. CASE RestoreOver
  BY <1>0, <1>3 DEF RestoreOver, PerfInv, PerfTypes, OneAtATime, KeyIsAsked, HostOwned, OnNow, DecidesStart
<1>4. CASE PerfCrash
  <2>1. /\ req' = [q \in Requests |-> NoRequest] /\ bench' = [q \in Requests |-> NoBench] /\ looked' = {}
        /\ crashes' = crashes + 1
        /\ UNCHANGED <<marker, cancelKey, volumes, fio, restoreOn, listed, asked, raced, spoilt>>
    BY <1>4 DEF PerfCrash
  <2>2. \A q \in Requests : /\ req'[q].step = "idle" /\ bench'[q].step = "none"
                            /\ ~DecidesStart(q)' /\ q \notin OnNow'
    BY <2>1 DEF NoRequest, NoBench, DecidesStart, OnNow
  <2>3. PerfTypes'
    <3>1. /\ req' \in [Requests -> [step : {"idle", "mark", "clear", "cancel"}, on : Storages \cup {NoStorage}]]
          /\ bench' \in [Requests -> [step : {"none", "start", "fio", "reset", "stopped"},
                                       on : Storages \cup {NoStorage}]]
      BY <2>1 DEF NoRequest, NoBench
    <3> QED BY <1>0, <2>1, <2>2, <3>1 DEF PerfTypes
  <2>4. OneAtATime' /\ KeyIsAsked'
    BY <2>1, <2>2 DEF OneAtATime, KeyIsAsked
  <2>5. crashes' # 0
    BY <1>0, <2>1 DEF PerfTypes
  <2> QED BY <2>3, <2>4, <2>5 DEF PerfInv, HostOwned
<1> QED BY <1>1, <1>2, <1>3, <1>4

\* Every step keeps the invariant of the write test.
LEMMA PerfStep == PerfInv /\ [PerfNext]_perfVars => PerfInv'
<1>1. ASSUME PerfInv, UNCHANGED perfVars PROVE PerfInv'
  BY <1>1 DEF perfVars, PerfInv, PerfTypes, OneAtATime, KeyIsAsked, HostOwned, DecidesStart, OnNow
<1>2. ASSUME PerfInv, NEW q \in Requests, NEW s \in Storages, StartLook(q, s) PROVE PerfInv'
  BY <1>2, PerfStarts
<1>3. ASSUME PerfInv, NEW q \in Requests, CancelLook(q) \/ Requesting(q) \/ Benching(q) \/ FioEnds(q)
      PROVE  PerfInv'
  <2>1. CASE CancelLook(q)
    BY <1>3, <2>1, PerfCancels
  <2>2. CASE Requesting(q)
    BY <1>3, <2>2, PerfStarts, PerfCancels DEF Requesting
  <2>3. CASE Benching(q)
    BY <1>3, <2>3, PerfBenches, PerfResets DEF Benching
  <2>4. CASE FioEnds(q)
    BY <1>3, <2>4, PerfResets
  <2> QED BY <1>3, <2>1, <2>2, <2>3, <2>4
<1>4. PerfInv /\ PerfNext => PerfInv'
  BY <1>2, <1>3, PerfQueue DEF PerfNext
<1> QED BY <1>1, <1>4

\* A set whose members are all the same has one at most.
LEMMA AtMostOne ==
  ASSUME NEW S, \A x, y \in S : x = y
  PROVE  Cardinality(S) <= 1
<1>1. CASE S = {}
  BY <1>1, FS_EmptySet
<1>2. ASSUME NEW x \in S PROVE Cardinality(S) <= 1
  <2>1. S = {x}
    BY <1>2
  <2> QED BY <2>1, FS_Singleton
<1> QED BY <1>1, <1>2

\* A finite set with at most one member has no other.
LEMMA OnlyMember ==
  ASSUME NEW S, IsFiniteSet(S), Cardinality(S) <= 1, NEW x \in S, NEW y \in S
  PROVE  x = y
<1> SUFFICES ASSUME x # y PROVE FALSE
  OBVIOUS
<1>1. IsFiniteSet({x}) /\ Cardinality({x}) = 1
  BY FS_Singleton
<1>2. Cardinality({x} \cup {y}) = Cardinality({x}) + 1
  BY <1>1, FS_AddElement
<1>3. {x} \cup {y} \subseteq S
  OBVIOUS
<1>4. Cardinality({x} \cup {y}) <= Cardinality(S) /\ Cardinality(S) \in Nat
  BY <1>3, FS_Subset, FS_CardinalityType
<1> QED BY <1>1, <1>2, <1>4

\* A write test runs by itself, ends for its own reasons only, and then nothing of it
\* is left on the host.
THEOREM PerfTestsOrderly == PerfSpec => [](BenchmarkAlone /\ CancelsOwn /\ NothingLeftOnHost)
<1>1. PerfInv => BenchmarkAlone
  <2> SUFFICES ASSUME PerfInv, ~raced
               PROVE  /\ Cardinality(OnNow) <= 1
                      /\ Cardinality(restoreOn) <= 1 => \A q \in OnNow : bench[q].on \notin restoreOn
    BY DEF BenchmarkAlone
  <2>1. \A p, q \in OnNow : p = q
    BY DEF PerfInv, OneAtATime, OnNow
  <2>2. ASSUME Cardinality(restoreOn) <= 1, NEW q \in OnNow, bench[q].on \in restoreOn PROVE FALSE
    <3>1. IsFiniteSet(restoreOn)
      BY PerfAssumption, FS_Subset DEF PerfInv, PerfTypes
    <3>2. PICK s \in restoreOn : listed = {s}
      BY <2>2 DEF PerfInv, PerfTypes
    <3>3. bench[q].on = s
      BY <2>2, <3>1, <3>2, OnlyMember
    <3>4. bench[q].on \notin listed
      BY <2>2 DEF PerfInv, OneAtATime, OnNow
    <3> QED BY <3>2, <3>3, <3>4
  <2> QED BY <2>1, <2>2, AtMostOne
<1>2. PerfInv => CancelsOwn
  BY DEF PerfInv, KeyIsAsked, CancelsOwn
<1>3. PerfInv => NothingLeftOnHost
  BY DEF PerfInv, HostOwned, NothingLeftOnHost, OnNow
<1> QED BY <1>1, <1>2, <1>3, PerfInitInv, PerfStep, PTL DEF PerfSpec

-----------------------------------------------------------------------------
(* ProbeLoop.                                                                  *)

ProbeTypes ==
    /\ guest \in [ips : (SUBSET Addresses) \ {{}}, open : SUBSET Services]
    /\ stage \in {"pass", "setup", "judge", "over"}
    /\ passes \in 0 .. MaxPasses
    /\ todo \in Seq(Int) /\ discovered \in Seq(Int) /\ override \in Int

Entries(s) == {s[i] : i \in DOMAIN s}

\* An error is the end, and comes with the last pass.
ErrorLast == verdict = "error" => stage = "over" /\ passes = MaxPasses

\* What the agent has told still describes the guest, and every address it told is
\* to be set up, to be probed, or the helper's own.
TargetsKept ==
    said => /\ override = Dhcp /\ guest.ips \subseteq Entries(discovered)
            /\ steady /\ stage \in {"setup", "judge"} => guest.ips \subseteq Entries(todo) \cup pending \cup legs

\* A verdict rests on what the guest answered in this pass.
ChecksTrue ==
    stage = "judge" =>
        /\ todo = <<>>
        /\ ~selfProbed => pending \cap legs = {}
        /\ steady => \A ip \in Reach : checks[ip] = IF ip \in pending THEN Answers(ip) ELSE {}

ProbeInv == ProbeTypes /\ ErrorLast /\ TargetsKept /\ ChecksTrue

\* Taking the first entry off a list loses no other.
LEMMA HeadAndTail ==
  ASSUME NEW s \in Seq(Int), s # <<>>
  PROVE  /\ Tail(s) \in Seq(Int) /\ Head(s) \in Int
         /\ Entries(s) \subseteq {Head(s)} \cup Entries(Tail(s))
<1>1. Len(s) \in Nat /\ Len(s) > 0 /\ DOMAIN s = 1 .. Len(s)
  OBVIOUS
<1>2. Tail(s) \in Seq(Int) /\ Head(s) = s[1] /\ Head(s) \in Int
  BY <1>1
<1>3. DOMAIN Tail(s) = 1 .. (Len(s) - 1) /\ \A i \in 1 .. (Len(s) - 1) : Tail(s)[i] = s[i + 1]
  BY <1>1
<1>4. ASSUME NEW i \in DOMAIN s, i # 1 PROVE s[i] \in Entries(Tail(s))
  <2>1. i - 1 \in 1 .. (Len(s) - 1) /\ Tail(s)[i - 1] = s[i]
    BY <1>1, <1>3, <1>4
  <2> QED BY <1>3, <2>1 DEF Entries
<1> QED BY <1>1, <1>2, <1>4 DEF Entries

\* What the agent reports is a list of exactly the guest's addresses.
LEMMA ReportsList ==
  ASSUME NEW S \in SUBSET Addresses, NEW s \in Reports(S)
  PROVE  s \in Seq(Int) /\ Entries(s) = S
<1>1. PICK t \in [1 .. Hosts -> S], n \in 1 .. Hosts : s = SubSeq(t, 1, n)
  BY DEF Reports, Orders
<1>2. Addresses \subseteq Int /\ Hosts \in Nat
  BY ProbeAssumption DEF Addresses
<1>3. n \in Nat /\ \A i \in 1 .. n : i \in 1 .. Hosts
  BY <1>2
<1>6. \A i \in 1 .. Hosts : t[i] \in Int
  BY <1>2
<1>4. s \in Seq(Int)
  BY <1>1, <1>3, <1>6, SubSeqProperties
<1>5. Entries(s) = S
  BY DEF Reports, Entries
<1> QED BY <1>4, <1>5

\* Before the first pass nothing is claimed.
LEMMA ProbeInitInv == ProbeInit => ProbeInv
<1> SUFFICES ASSUME ProbeInit PROVE ProbeInv
  OBVIOUS
<1>1. /\ guest \in [ips : (SUBSET Addresses) \ {{}}, open : {Services, {"icmp"}}]
      /\ stage = "pass" /\ passes = 0 /\ discovered = <<>> /\ todo = <<>> /\ verdict = "none" /\ ~said
      /\ override \in {Dhcp} \cup Addresses
  BY DEF ProbeInit
<1>2. {Services, {"icmp"}} \subseteq SUBSET Services
  BY DEF Services
<1>3. guest \in [ips : (SUBSET Addresses) \ {{}}, open : SUBSET Services]
  BY <1>1, <1>2
<1>4. 0 \in 0 .. MaxPasses /\ <<>> \in Seq(Int) /\ {Dhcp} \cup Addresses \subseteq Int
  BY ProbeAssumption DEF Dhcp, Addresses
<1> QED BY <1>1, <1>3, <1>4 DEF ProbeInv, ProbeTypes, ErrorLast, TargetsKept, ChecksTrue

\* A pass begins with the addresses it shall probe.
LEMMA ProbeBegins ==
  ASSUME ProbeInv, NEW targets \in Seq(Int), Begins(targets), discovered' \in Seq(Int),
         said' => /\ override = Dhcp /\ guest.ips \subseteq Entries(discovered')
                  /\ guest.ips \subseteq Entries(targets)
  PROVE  ProbeInv'
<1>1. /\ stage = "pass" /\ stage' = "setup" /\ todo' = targets /\ pending' = {}
      /\ passes' = (IF passes < MaxPasses THEN passes + 1 ELSE passes)
      /\ UNCHANGED <<guest, dead, override, legs, verdict>>
  BY DEF Begins, guestVars
<1>2. ProbeTypes'
  BY <1>1, ProbeAssumption DEF ProbeInv, ProbeTypes
<1>3. ErrorLast' /\ ChecksTrue'
  BY <1>1 DEF ProbeInv, ErrorLast, ChecksTrue
<1>4. TargetsKept'
  BY <1>1 DEF TargetsKept
<1> QED BY <1>2, <1>3, <1>4 DEF ProbeInv

\* The guest's moves, the operator's cancel and the steps of a pass.
LEMMA ProbeStepInv == ProbeInv /\ [ProbeNext]_probeVars => ProbeInv'
<1> SUFFICES ASSUME ProbeInv, [ProbeNext]_probeVars PROVE ProbeInv'
  OBVIOUS
<1> USE ProbeAssumption DEF guestVars, ghostVars
<1>0. ProbeTypes /\ ErrorLast /\ TargetsKept /\ ChecksTrue
  BY DEF ProbeInv
<1>1. CASE GuestChanges
  <2>1. /\ stage # "over" /\ steady' = FALSE /\ said' = (said /\ guest'.ips = guest.ips)
        /\ UNCHANGED <<override, legs, stage, passes, discovered, todo, pending, checks, verdict, selfProbed>>
    BY <1>1 DEF GuestChanges
  <2>2. guest' \in [ips : (SUBSET Addresses) \ {{}}, open : SUBSET Services]
    <3>1. CASE UNCHANGED guest
      BY <1>0, <3>1 DEF ProbeTypes
    <3>2. ASSUME NEW s \in Services,
                 guest' = [guest EXCEPT !.open = IF s \in @ THEN @ \ {s} ELSE @ \cup {s}]
          PROVE  guest' \in [ips : (SUBSET Addresses) \ {{}}, open : SUBSET Services]
      BY <1>0, <3>2 DEF ProbeTypes
    <3>3. ASSUME NEW i \in (SUBSET Addresses) \ {{}}, guest' = [guest EXCEPT !.ips = i]
          PROVE  guest' \in [ips : (SUBSET Addresses) \ {{}}, open : SUBSET Services]
      BY <1>0, <3>3 DEF ProbeTypes
    <3> QED BY <1>1, <3>1, <3>2, <3>3 DEF GuestChanges
  <2>3. TargetsKept'
    BY <1>0, <2>1 DEF TargetsKept
  <2>4. ProbeTypes' /\ ErrorLast' /\ ChecksTrue'
    BY <1>0, <2>1, <2>2 DEF ProbeTypes, ErrorLast, ChecksTrue
  <2> QED BY <2>3, <2>4 DEF ProbeInv
<1>2. CASE BeginOverride
  <2>1. Begins(<<override>>) /\ override # Dhcp /\ UNCHANGED <<discovered, said, override>>
    BY <1>2 DEF BeginOverride, Begins
  <2>2. ~said
    BY <1>0, <2>1 DEF TargetsKept
  <2>3. <<override>> \in Seq(Int) /\ discovered' \in Seq(Int)
    BY <1>0, <2>1 DEF ProbeTypes
  <2> QED BY <2>1, <2>2, <2>3, ProbeBegins
<1>3. CASE BeginReported
  <2>1. PICK s \in Reports(guest.ips) : discovered' = s /\ Begins(s)
    BY <1>3 DEF BeginReported
  <2>2. guest.ips \in SUBSET Addresses /\ override = Dhcp
    BY <1>0, <1>3 DEF ProbeTypes, BeginReported
  <2>3. s \in Seq(Int) /\ Entries(s) = guest.ips
    BY <2>1, <2>2, ReportsList
  <2> QED BY <2>1, <2>2, <2>3, ProbeBegins
<1>4. CASE BeginRemembered
  <2> DEFINE targets == IF discovered = <<>> THEN <<Dhcp>> ELSE discovered
  <2>1. Begins(targets) /\ UNCHANGED <<discovered, said>> /\ override = Dhcp
    BY <1>4 DEF BeginRemembered
  <2>2. targets \in Seq(Int)
    BY <1>0 DEF ProbeTypes, Dhcp
  <2>3. said => guest.ips \subseteq Entries(discovered) /\ guest.ips \subseteq Entries(targets)
    <3> SUFFICES ASSUME said PROVE guest.ips \subseteq Entries(discovered) /\ discovered # <<>>
      OBVIOUS
    <3>1. guest.ips \subseteq Entries(discovered) /\ guest.ips # {}
      BY <1>0 DEF TargetsKept, ProbeTypes
    <3> QED BY <3>1 DEF Entries
  <2> HIDE DEF targets
  <2> QED BY <1>0, <2>1, <2>2, <2>3, ProbeBegins DEF ProbeTypes
<1>5. CASE CancelSeen
  BY <1>0, <1>5 DEF CancelSeen, ProbeInv, ProbeTypes, ErrorLast, TargetsKept, ChecksTrue
<1>6. CASE SetUpTarget
  <2>1. /\ stage = "setup" /\ todo # <<>> /\ legs' = legs \cup {Beside(Head(todo))}
        /\ pending' = (IF Head(todo) \in legs' THEN pending ELSE pending \cup {Head(todo)})
        /\ todo' = Tail(todo)
        /\ UNCHANGED <<guest, dead, override, stage, passes, discovered, checks, verdict, said, steady>>
    BY <1>6 DEF SetUpTarget
  <2>2. /\ todo' \in Seq(Int)
        /\ Entries(todo) \subseteq {Head(todo)} \cup Entries(todo')
    BY <1>0, <2>1, HeadAndTail DEF ProbeTypes
  <2>3. TargetsKept'
    BY <1>0, <2>1, <2>2 DEF TargetsKept
  <2>4. ProbeTypes' /\ ErrorLast' /\ ChecksTrue'
    BY <1>0, <2>1, <2>2 DEF ProbeTypes, ErrorLast, ChecksTrue
  <2> QED BY <2>3, <2>4 DEF ProbeInv
<1>7. CASE ProbeTargets
  <2>1. /\ stage = "setup" /\ stage' = "judge" /\ todo = <<>>
        /\ checks' = [ip \in Reach |-> IF ip \in pending THEN Answers(ip) ELSE {}]
        /\ selfProbed' = (selfProbed \/ pending \cap legs # {})
        /\ UNCHANGED <<guest, dead, override, legs, passes, discovered, todo, pending, verdict, said, steady>>
    BY <1>7 DEF ProbeTargets
  <2>2. ChecksTrue'
    BY <2>1 DEF ChecksTrue, Answers
  <2>3. TargetsKept' /\ ProbeTypes' /\ ErrorLast'
    BY <1>0, <2>1 DEF TargetsKept, ProbeTypes, ErrorLast
  <2> QED BY <2>2, <2>3 DEF ProbeInv
<1>8. CASE PassFails
  BY <1>0, <1>8 DEF PassFails, ProbeInv, ProbeTypes, ErrorLast, TargetsKept, ChecksTrue
<1>9. CASE Judge
  <2>1. /\ verdict' = classify_multi(checks) /\ stage' \in {"over", "pass"}
        /\ UNCHANGED <<guest, dead, override, legs, passes, discovered, todo, pending, said, steady>>
    BY <1>9 DEF Judge
  <2>2. verdict' # "error"
    BY <2>1 DEF classify_multi
  <2> QED BY <1>0, <2>1, <2>2 DEF ProbeInv, ProbeTypes, ErrorLast, TargetsKept, ChecksTrue
<1>10. CASE AskCancel
  BY <1>0, <1>10 DEF AskCancel, ProbeInv, ProbeTypes, ErrorLast, TargetsKept, ChecksTrue, Answers
<1>11. CASE UNCHANGED probeVars
  BY <1>0, <1>11 DEF probeVars, ProbeInv, ProbeTypes, ErrorLast, TargetsKept, ChecksTrue, Answers
<1> QED BY <1>1, <1>2, <1>3, <1>4, <1>5, <1>6, <1>7, <1>8, <1>9, <1>10, <1>11 DEF ProbeNext, ProbeStep

\* Only Judge leaves the stage of the verdict, and only Judge passes a run.
LEMMA OnlyJudge ==
  ASSUME ProbeInv, ProbeNext,
         (stage = "judge" /\ stage' # "judge") \/ (stage' = "over" /\ verdict' = "passed")
  PROVE  Judge
BY DEF ProbeInv, ProbeTypes, ProbeNext, ProbeStep, guestVars, ghostVars, GuestChanges, BeginOverride,
       BeginReported, BeginRemembered, Begins, CancelSeen, SetUpTarget, ProbeTargets, PassFails, AskCancel

\* Who finds the guest alive and every port open was answered by the guest.
LEMMA GreenIsAnswered ==
  ASSUME ProbeInv, stage = "judge", steady, ~selfProbed, classify_multi(checks) = "passed"
  PROVE  ~dead /\ Ports \subseteq guest.open /\ guest.ips \cap pending # {}
<1>1. /\ pending \cap legs = {}
      /\ \A ip \in Reach : checks[ip] = IF ip \in pending THEN Answers(ip) ELSE {}
  BY DEF ProbeInv, ChecksTrue
<1>2. ASSUME NEW ip \in Reach, NEW a \in checks[ip]
      PROVE  ip \in pending /\ ip \in guest.ips /\ ~dead /\ a \in guest.open \cup {"arp"}
  <2>1. ip \in pending /\ a \in Answers(ip)
    BY <1>1, <1>2
  <2> QED BY <1>1, <2>1 DEF Answers
<1>3. Alive(checks) /\ OpenPorts(checks) = Ports
  BY DEF classify_multi
<1>4. ~dead /\ guest.ips \cap pending # {}
  BY <1>2, <1>3 DEF Alive
<1>5. ASSUME NEW p \in Ports PROVE p \in guest.open
  <2>1. PICK ip \in Reach : p \in checks[ip]
    BY <1>3 DEF OpenPorts
  <2> QED BY <1>2, <2>1, ProbeAssumption
<1> QED BY <1>4, <1>5

\* A guest that answers everything at an address the agent told is found green.
LEMMA AnsweredIsGreen ==
  ASSUME ProbeInv, stage = "judge", steady, said, ~dead, guest.open = Services, legs \cap guest.ips = {}
  PROVE  classify_multi(checks) = "passed"
<1>1. PICK ip \in guest.ips : ip \in Reach
  BY DEF ProbeInv, ProbeTypes, Reach
<1>2. ip \in pending
  BY <1>1 DEF ProbeInv, TargetsKept, ChecksTrue, Entries
<1>3. checks[ip] = Services \cup {"arp"}
  BY <1>1, <1>2 DEF ProbeInv, ChecksTrue, Answers
<1>4. Alive(checks)
  BY <1>1, <1>3 DEF Alive
<1>5. OpenPorts(checks) = Ports
  BY <1>1, <1>3 DEF OpenPorts, Services
<1> QED BY <1>4, <1>5 DEF classify_multi

\* A run passes only if the guest itself answered, and a guest the agent once
\* described passes as soon as it answers everything; an error ends a run with its
\* window only.
THEOREM ProbeVerdictTrue == ProbeSpec => PassedAnswers /\ UpGuestPasses /\ []ErrorAtTheEnd
<1>1. ProbeSpec => []ProbeInv
  BY ProbeInitInv, ProbeStepInv, PTL DEF ProbeSpec
<1>2. ProbeInv /\ [ProbeNext]_probeVars
        => [stage' = "over" /\ verdict' = "passed" /\ steady /\ ~selfProbed =>
              ~dead /\ Ports \subseteq guest.open /\ guest.ips \cap pending # {}]_probeVars
  <2> SUFFICES ASSUME ProbeInv, ProbeNext, stage' = "over", verdict' = "passed", steady, ~selfProbed
               PROVE  ~dead /\ Ports \subseteq guest.open /\ guest.ips \cap pending # {}
    OBVIOUS
  <2>1. stage = "judge" /\ classify_multi(checks) = "passed"
    BY OnlyJudge DEF Judge
  <2> QED BY <2>1, GreenIsAnswered
<1>3. ProbeInv /\ [ProbeNext]_probeVars
        => [stage = "judge" /\ stage' # "judge" /\ steady /\ said /\ ~dead /\ guest.open = Services
              /\ legs \cap guest.ips = {} => verdict' = "passed"]_probeVars
  <2> SUFFICES ASSUME ProbeInv, ProbeNext, stage = "judge", stage' # "judge", steady, said, ~dead,
                      guest.open = Services, legs \cap guest.ips = {}
               PROVE  verdict' = "passed"
    OBVIOUS
  <2>1. verdict' = classify_multi(checks)
    BY OnlyJudge DEF Judge
  <2> QED BY <2>1, AnsweredIsGreen
<1>4. ProbeInv => ErrorAtTheEnd
  BY DEF ProbeInv, ErrorLast, ErrorAtTheEnd
<1> QED BY <1>1, <1>2, <1>3, <1>4, PTL DEF ProbeSpec, PassedAnswers, UpGuestPasses

\* What a step of the walk makes of the sequence before it.
WalkStep(from, used, g, n) ==
    IF n < from THEN <<>> ELSE IF n \in used THEN g[n - 1] ELSE Append(g[n - 1], n)

\* A walk of k steps.
Steps(from, used, k, g) == g = [n \in 0 .. k |-> WalkStep(from, used, g, n)]

\* There is one of every length, ...
LEMMA StepsExist ==
  ASSUME NEW from \in Nat \ {0}, NEW used
  PROVE  \A k \in Nat : \E g : Steps(from, used, k, g)
<1> DEFINE bad == {k \in Nat : ~\E g : Steps(from, used, k, g)}
<1> SUFFICES ASSUME bad # {} PROVE FALSE OBVIOUS
<1>1. PICK k \in bad : \A j \in bad : k <= j BY LowestIsLeast
<1>2. CASE k = 0
  <2> DEFINE g == [n \in 0 .. 0 |-> <<>>]
  <2>1. \A n \in 0 .. 0 : WalkStep(from, used, g, n) = <<>> BY DEF WalkStep
  <2>2. g = [n \in 0 .. 0 |-> WalkStep(from, used, g, n)] BY <2>1
  <2>3. Steps(from, used, 0, g) BY <2>2 DEF Steps
  <2> QED BY <1>2, <2>3
<1>3. CASE k # 0
  <2>0. k \in Nat /\ k - 1 \in Nat BY <1>3
  <2>1. PICK g : Steps(from, used, k - 1, g) BY <1>1, <2>0
  <2> DEFINE h == [n \in 0 .. k |-> IF n = k THEN WalkStep(from, used, g, k) ELSE g[n]]
  <2>2. ASSUME NEW n \in 0 .. k PROVE h[n] = WalkStep(from, used, h, n)
    <3>1. h[n] = WalkStep(from, used, g, n)
      <4>1. CASE n = k BY <4>1
      <4>2. CASE n # k BY <2>0, <2>1, <4>2 DEF Steps
      <4> QED BY <4>1, <4>2
    <3>2. n >= from => n - 1 \in 0 .. k /\ n - 1 # k BY <2>0
    <3>3. n >= from => h[n - 1] = g[n - 1] BY <3>2
    <3> HIDE DEF h
    <3> QED BY <3>1, <3>3 DEF WalkStep
  <2>3. Steps(from, used, k, h) BY <2>2 DEF Steps
  <2> QED BY <2>3
<1> QED BY <1>2, <1>3

\* ... and they agree as far as they go.
LEMMA StepsAgree ==
  ASSUME NEW from \in Nat \ {0}, NEW used, NEW k \in Nat, NEW l \in Nat, k <= l,
         NEW g, Steps(from, used, k, g), NEW h, Steps(from, used, l, h)
  PROVE  \A n \in 0 .. k : g[n] = h[n]
<1> DEFINE bad == {n \in 0 .. k : g[n] # h[n]}
<1> SUFFICES ASSUME bad # {} PROVE FALSE OBVIOUS
<1>1. PICK n \in bad : \A j \in bad : n <= j
  <2>1. bad \subseteq Nat OBVIOUS
  <2> QED BY <2>1, LowestIsLeast
<1>2. n \in 0 .. k /\ n \in 0 .. l /\ g[n] # h[n] OBVIOUS
<1>3. g[n] = WalkStep(from, used, g, n) /\ h[n] = WalkStep(from, used, h, n) BY <1>2 DEF Steps
<1>4. n >= from => n - 1 \in 0 .. k /\ ~(n <= n - 1) BY <1>2
<1>5. n >= from => g[n - 1] = h[n - 1] BY <1>1, <1>4
<1> QED BY <1>2, <1>3, <1>5 DEF WalkStep

\* So the walk is what its definition says.
LEMMA WalkSteps ==
  ASSUME NEW from \in Nat \ {0}, NEW used
  PROVE  \A n \in Nat : Walk(from, used)[n] = WalkStep(from, used, Walk(from, used), n)
<1> DEFINE to(k) == CHOOSE g : Steps(from, used, k, g)
           w == [n \in Nat |-> to(n)[n]]
<1>1. \A k \in Nat : Steps(from, used, k, to(k)) BY StepsExist
<1>2. ASSUME NEW n \in Nat PROVE w[n] = WalkStep(from, used, w, n)
  <2>1. w[n] = WalkStep(from, used, to(n), n)
    <3>1. Steps(from, used, n, to(n)) /\ n \in 0 .. n /\ w[n] = to(n)[n] BY <1>1
    <3> HIDE DEF to, w
    <3> QED BY <3>1 DEF Steps
  <2>2. CASE n < from BY <2>1, <2>2 DEF WalkStep
  <2>3. CASE n >= from
    <3>1. n - 1 \in Nat /\ n - 1 <= n /\ n - 1 \in 0 .. n - 1 BY <2>3
    <3>2. Steps(from, used, n, to(n)) /\ Steps(from, used, n - 1, to(n - 1)) BY <1>1, <3>1
    <3> HIDE DEF to
    <3>3. to(n - 1)[n - 1] = to(n)[n - 1] BY <3>1, <3>2, StepsAgree
    <3>4. w[n - 1] = to(n)[n - 1] BY <3>1, <3>3
    <3> HIDE DEF w
    <3> QED BY <2>1, <2>3, <3>4 DEF WalkStep
  <2> QED BY <2>2, <2>3
<1>3. w = [n \in Nat |-> WalkStep(from, used, w, n)] BY <1>2
<1>4. Walk(from, used) = CHOOSE g : g = [n \in Nat |-> WalkStep(from, used, g, n)]
  BY DEF Walk, WalkStep
<1> HIDE DEF w
<1>5. Walk(from, used) = [n \in Nat |-> WalkStep(from, used, Walk(from, used), n)]
  BY <1>3, <1>4
<1> QED BY <1>5

\* The sequence a walk has collected: the free values, lowest first.
Collects(s, free) ==
    /\ s \in Seq(Nat)
    /\ Len(s) = 0 => free = {}
    /\ Len(s) >= 1 => s[1] \in free /\ \A y \in free : s[1] <= y
    /\ Len(s) = 1 => free = {s[1]}
    /\ Len(s) >= 2 => s[2] \in free \ {s[1]} /\ \A y \in free \ {s[1]} : s[2] <= y

\* The walk collects the free values of its range.
LEMMA WalkCollects ==
  ASSUME NEW from \in Nat \ {0}, NEW used
  PROVE  \A to \in Nat : Collects(Unused(from, to, used), (from .. to) \ used)
<1> DEFINE s(n) == Walk(from, used)[n]
           free(n) == (from .. n) \ used
           bad == {n \in Nat : ~Collects(s(n), free(n))}
<1> SUFFICES ASSUME bad # {} PROVE FALSE BY DEF Unused
<1>1. PICK n \in bad : \A j \in bad : n <= j BY LowestIsLeast
<1>2. s(n) = WalkStep(from, used, Walk(from, used), n) BY WalkSteps
<1>3. CASE n < from
  <2>1. s(n) = <<>> /\ free(n) = {} BY <1>2, <1>3 DEF WalkStep
  <2> HIDE DEF s, free
  <2>2. Collects(s(n), free(n)) BY <2>1 DEF Collects
  <2> QED BY <1>1, <2>2
<1>4. CASE n >= from
  <2>1. n \in Nat /\ n - 1 \in Nat /\ ~(n <= n - 1) BY <1>4
  <2>2. Collects(s(n - 1), free(n - 1)) BY <1>1, <2>1
  <2>3. CASE n \in used
    <3>1. s(n) = s(n - 1) BY <1>2, <1>4, <2>3 DEF WalkStep
    <3>2. free(n) = free(n - 1) BY <2>1, <2>3
    <3> QED BY <1>1, <2>2, <3>1, <3>2
  <2>4. CASE n \notin used
    <3>1. s(n) = Append(s(n - 1), n) BY <1>2, <1>4, <2>4 DEF WalkStep
    <3>2. free(n) = free(n - 1) \cup {n} /\ \A y \in free(n - 1) : y \in Nat /\ y < n BY <1>4, <2>1, <2>4
    <3>0. ~Collects(s(n), free(n)) BY <1>1
    <3> HIDE DEF s, free
    <3>3. /\ s(n) \in Seq(Nat) /\ Len(s(n)) = Len(s(n - 1)) + 1 /\ s(n)[Len(s(n - 1)) + 1] = n
          /\ \A i \in 1 .. Len(s(n - 1)) : s(n)[i] = s(n - 1)[i]
      BY <2>1, <2>2, <3>1 DEF Collects
    <3>4. CASE Len(s(n - 1)) = 0
      <4>1. free(n) = {n} /\ Len(s(n)) = 1 /\ s(n)[1] = n BY <2>2, <3>2, <3>3, <3>4 DEF Collects
      <4>2. \A y \in free(n) : s(n)[1] <= y BY <2>1, <4>1
      <4>3. s(n)[1] \in free(n) /\ free(n) = {s(n)[1]} /\ Len(s(n)) # 0 /\ ~(Len(s(n)) >= 2) BY <4>1
      <4> QED BY <3>0, <3>3, <4>2, <4>3 DEF Collects
    <3>5. CASE Len(s(n - 1)) = 1
      <4>1. /\ free(n - 1) = {s(n)[1]} /\ Len(s(n)) = 2 /\ s(n)[2] = n
        BY <2>2, <3>3, <3>5 DEF Collects
      <4>2. s(n)[1] \in Nat /\ s(n)[1] < n /\ free(n) = {s(n)[1], n} BY <3>2, <4>1
      <4> QED BY <2>1, <3>0, <3>3, <4>1, <4>2 DEF Collects
    <3>6. CASE Len(s(n - 1)) >= 2
      <4>1. /\ Len(s(n)) >= 3 /\ s(n)[1] = s(n - 1)[1] /\ s(n)[2] = s(n - 1)[2] BY <2>2, <3>3, <3>6 DEF Collects
      <4>2. /\ s(n)[1] \in free(n - 1) /\ \A y \in free(n - 1) : s(n)[1] <= y
            /\ s(n)[2] \in free(n - 1) \ {s(n)[1]} /\ \A y \in free(n - 1) \ {s(n)[1]} : s(n)[2] <= y
        BY <2>2, <3>6, <4>1 DEF Collects
      <4> QED BY <2>1, <3>0, <3>2, <3>3, <4>1, <4>2 DEF Collects
    <3>7. Len(s(n - 1)) \in Nat BY <2>2 DEF Collects
    <3> QED BY <3>4, <3>5, <3>6, <3>7
  <2> QED BY <2>3, <2>4
<1> QED BY <1>3, <1>4

\* What is the lowest of a set is what is least in it.
LEMMA LowestIs ==
  ASSUME NEW S, S \subseteq Nat, NEW x \in S, \A y \in S : x <= y
  PROVE  Lowest(S) = x
<1>1. Lowest(S) \in S /\ \A y \in S : Lowest(S) <= y BY LowestIsLeast
<1>2. Lowest(S) <= x /\ x <= Lowest(S) /\ Lowest(S) \in Nat /\ x \in Nat BY <1>1
<1> QED BY <1>2

\* allocate finds what a walk of each range finds, for any registry.
LEMMA AllocationWalks == WalkAgrees
<1> DEFINE ids == Unused(VmidFrom, VmidTo, InUseVmids(owned))
           tags == Unused(VlanFrom, VlanTo, InUseTags(owned))
           ips == Unused(IpFrom, IpTo, InUseIps(owned))
<1>1. /\ Collects(ids, FreeVmids(owned)) /\ Collects(tags, FreeTags(owned)) /\ Collects(ips, FreeIps(owned))
  BY RangesAssumption, WalkCollects DEF FreeVmids, FreeTags, FreeIps
<1>2. /\ FreeVmids(owned) \subseteq Nat /\ FreeTags(owned) \subseteq Nat /\ FreeIps(owned) \subseteq Nat
  BY FreeInRange
<1>3. Len(ids) \in Nat /\ Len(tags) \in Nat /\ Len(ips) \in Nat BY <1>1 DEF Collects
<1> HIDE DEF ids, tags, ips
<1>4. /\ Len(ids) < 2 <=> \A v \in FreeVmids(owned) : FreeVmids(owned) = {v}
      /\ Len(tags) < 1 <=> FreeTags(owned) = {}
      /\ Len(ips) < 1 <=> FreeIps(owned) = {}
  <2>1. Len(ids) < 2 => \A v \in FreeVmids(owned) : FreeVmids(owned) = {v}
    <3>1. Len(ids) = 0 => FreeVmids(owned) = {} BY <1>1 DEF Collects
    <3>2. Len(ids) = 1 => FreeVmids(owned) = {ids[1]} BY <1>1, Zenon DEF Collects
    <3>3. Len(ids) < 2 => Len(ids) = 0 \/ Len(ids) = 1 BY <1>3
    <3>4. Len(ids) = 1 => \A v \in FreeVmids(owned) : v = ids[1] BY <3>2
    <3> QED BY <3>1, <3>2, <3>3, <3>4, Zenon
  <2>2. Len(ids) >= 2 => ids[1] \in FreeVmids(owned) /\ ids[2] \in FreeVmids(owned) /\ ids[1] # ids[2]
    BY <1>1, <1>3 DEF Collects
  <2>3. Len(ids) >= 2 => ~\A v \in FreeVmids(owned) : FreeVmids(owned) = {v} BY <2>2
  <2>4. (Len(tags) < 1 <=> FreeTags(owned) = {}) /\ (Len(ips) < 1 <=> FreeIps(owned) = {})
    BY <1>1, <1>3 DEF Collects
  <2> QED BY <1>3, <2>1, <2>3, <2>4
<1>5. ASSUME Len(ids) >= 2, Len(tags) >= 1, Len(ips) >= 1
      PROVE  Allocation(owned) = [restore_vmid |-> ids[1], helper_vmid |-> ids[2],
                                  vlan_tag |-> tags[1], mgmt_ip |-> ips[1]]
  <2>1. /\ ids[1] \in FreeVmids(owned) /\ \A y \in FreeVmids(owned) : ids[1] <= y
        /\ ids[2] \in FreeVmids(owned) \ {ids[1]} /\ \A y \in FreeVmids(owned) \ {ids[1]} : ids[2] <= y
        /\ tags[1] \in FreeTags(owned) /\ \A y \in FreeTags(owned) : tags[1] <= y
        /\ ips[1] \in FreeIps(owned) /\ \A y \in FreeIps(owned) : ips[1] <= y
    BY <1>1, <1>3, <1>5 DEF Collects
  <2>2. Lowest(FreeVmids(owned)) = ids[1] BY <1>2, <2>1, LowestIs
  <2>3. Lowest(FreeVmids(owned) \ {ids[1]}) = ids[2] BY <1>2, <2>1, LowestIs
  <2>4. Lowest(FreeTags(owned)) = tags[1] /\ Lowest(FreeIps(owned)) = ips[1] BY <1>2, <2>1, LowestIs
  <2> QED BY <2>2, <2>3, <2>4 DEF Allocation
<1>6. /\ Len(ids) < 2 \/ Len(tags) < 1 \/ Len(ips) < 1 => Exhausted(owned)
      /\ ~(Len(ids) < 2 \/ Len(tags) < 1 \/ Len(ips) < 1) => ~Exhausted(owned)
  BY <1>4 DEF Exhausted
<1> QED BY <1>3, <1>5, <1>6 DEF WalkAgrees, ids, tags, ips

\* AllocatesRight (_two_lowest_free, _lowest_free, allocate, update_run): for any ranges
\* and any order of allocations, parkings, re-tests and releases, what is handed out is
\* what a walk of the ranges finds, and nobody else's.
THEOREM AllocationsRight == AllocSpec => []AllocatesRight
BY EnvironmentsDisjoint, AllocationWalks, PTL DEF AllocatesRight
=============================================================================
