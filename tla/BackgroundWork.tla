--------------------------- MODULE BackgroundWork ---------------------------
(***************************************************************************)
(* What the background threads carry out: the sync of a cluster's guests   *)
(* and backups (ClusterSync), and what a test restore goes through on the  *)
(* scratch host: its environment (RestoreAllocCheck), its helper container *)
(* (HelperSetup), the restore task and the boot (RestoreTask) or the disk  *)
(* by disk restore (DiskRestore), and beside it the write-performance test *)
(* (PerfTest).                                                             *)
(* A behaviour is one of one part, chosen at the start; the others rest.   *)
(***************************************************************************)
EXTENDS ClusterSync, RestoreAllocCheck, RestoreTask, DiskRestore, PerfTest, HelperSetup

VARIABLE part

\* What a part may begin with is chosen only where it is the one that runs.
WorkInit ==
  /\ part \in {"sync", "alloc", "task", "disks", "perf", "helper"}
  /\ onPve \in (IF part = "sync" THEN SUBSET Guests ELSE {{}})
  /\ usage \in (IF part = "sync" THEN BOOLEAN ELSE {FALSE})
  /\ old \in (IF part = "task" THEN {"none", "running"} ELSE {"none"})
  /\ stale \in (IF part = "disks" /\ Leftover THEN SUBSET Plan ELSE {{}})
  /\ IF part = "helper" THEN HelperInputs
     ELSE /\ net = [ip |-> None] /\ bridge = [up |-> FALSE] /\ templates = {}
  /\ SyncInit /\ AllocInit /\ TaskInit /\ DiskInit /\ PerfInit /\ HelperStart

SyncPart == part = "sync" /\ SyncNext
            /\ UNCHANGED <<part, owned, taskVars, diskVars, perfVars, setupVars>>
AllocPart == part = "alloc" /\ AllocNext
             /\ UNCHANGED <<part, syncVars, taskVars, diskVars, perfVars, setupVars>>
TaskPart == part = "task" /\ TaskNext
            /\ UNCHANGED <<part, syncVars, owned, diskVars, perfVars, setupVars>>
DiskPart == part = "disks" /\ DiskNext
            /\ UNCHANGED <<part, syncVars, owned, taskVars, perfVars, setupVars>>
PerfPart == part = "perf" /\ PerfNext
            /\ UNCHANGED <<part, syncVars, owned, taskVars, diskVars, setupVars>>
HelperPart == part = "helper" /\ HelperNext
              /\ UNCHANGED <<part, syncVars, owned, taskVars, diskVars, perfVars>>

WorkNext == SyncPart \/ AllocPart \/ TaskPart \/ DiskPart \/ PerfPart \/ HelperPart

\* The fairness of the modules; a part that rests owes nothing.
WorkFairness ==
  /\ WF_syncVars(part = "sync" /\ StartSync("auto")) /\ \A t \in Syncers : WF_syncVars(part = "sync" /\ SyncStep(t))
  /\ WF_taskVars(part = "task" /\ TaskWorker) /\ WF_taskVars(part = "task" /\ Tick)
  /\ \A q \in Requests : /\ WF_perfVars(part = "perf" /\ Requesting(q))
                          /\ WF_perfVars(part = "perf" /\ Benching(q))

WorkSpec == WorkInit /\ WorkFairness
            /\ [][WorkNext]_<<part, syncVars, owned, taskVars, diskVars, perfVars, setupVars>>
=============================================================================
