-------------------------------- MODULE Loops --------------------------------
(***************************************************************************)
(* What comes round again until something outside has changed.  The hourly *)
(* round of syncs keeps up to date the rows of backups still running       *)
(* (BackupRows) and the replication jobs of the diagrams (SyncJobs), and   *)
(* tells of outages and sends the reports (AutoLoop).  The verification of *)
(* a restored guest probes it pass by pass (ProbeLoop).                    *)
(* A behaviour is one of one part, chosen at the start; the others rest.   *)
(***************************************************************************)
EXTENDS BackupRows, SyncJobs, AutoLoop, ProbeLoop

VARIABLE part

\* What a part may begin with is chosen only where it is the one that runs.
RoundInit ==
  /\ part \in {"rows", "jobs", "loop", "probe"}
  /\ pve \in (IF part = "loop" THEN BOOLEAN ELSE {TRUE})
  /\ override \in (IF part = "probe" THEN {Dhcp} \cup Addresses ELSE {Dhcp})
  /\ guest \in (IF part = "probe"
                  THEN [ips : (SUBSET Addresses) \ {{}}, open : {Services, {"icmp"}}]
                  ELSE {[ips |-> Addresses, open |-> Services]})
  /\ RowInit /\ JobInit /\ LoopInit /\ ProbeInit

RowPart == part = "rows" /\ RowNext /\ UNCHANGED <<part, jobVars, loopVars, probeVars>>
JobPart == part = "jobs" /\ JobNext /\ UNCHANGED <<part, rowVars, loopVars, probeVars>>
LoopPart == part = "loop" /\ LoopNext /\ UNCHANGED <<part, rowVars, jobVars, probeVars>>
ProbePart == part = "probe" /\ ProbeNext /\ UNCHANGED <<part, rowVars, jobVars, loopVars>>

RoundNext == RowPart \/ JobPart \/ LoopPart \/ ProbePart

\* The fairness of the modules; a part that rests owes nothing.
RoundFairness ==
  /\ WF_rowVars(part = "rows" /\ Hour) /\ WF_rowVars(part = "rows" /\ ReadSources)
  /\ SF_rowVars(StoreListed) /\ SF_rowVars(CleanUpStubs) /\ SF_rowVars(EnrichFromLogs)
  /\ WF_jobVars(part = "jobs" /\ (HourlyAsks \/ HourlyStores \/ HourlyBuilds \/ HourlySaves))
  /\ WF_jobVars(part = "jobs" /\ Click) /\ WF_jobVars(part = "jobs" /\ PbsGoesOrComes /\ ~reachable)
  /\ \A p \in Pollers :
       WF_jobVars(part = "jobs" /\ (PollAsks(p) \/ PollStores(p) \/ PollBuilds(p) \/ PollSaves(p)))
  /\ WF_loopVars(part = "loop" /\ LoopStep)
  /\ WF_probeVars(part = "probe" /\ ProbeStep)

RoundSpec == RoundInit /\ [][RoundNext]_<<part, rowVars, jobVars, loopVars, probeVars>> /\ RoundFairness
=============================================================================
