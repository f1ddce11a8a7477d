------------------------------ MODULE SyncJobs ------------------------------
(***************************************************************************)
(* How a page knows that a PBS replication (a PBS sync job) is running.    *)
(* The background sync stores what each PBS says of its jobs and rebuilds  *)
(* every cluster's diagram from the tables; between two syncs the pages'   *)
(* polls ask the PBS themselves, seldom, and store and rebuild when a job  *)
(* has started or ended (web/sync.py, services/topology_store.py).  One    *)
(* PBS with one job; its runs are numbered, 0 is none.                     *)
(***************************************************************************)
EXTENDS Naturals, FiniteSets

CONSTANTS Pollers, MaxRuns, Every, MaxClicks
ASSUME SyncJobAssumption ==
  /\ MaxRuns \in Nat /\ Every \in Nat \ {0} /\ MaxClicks \in Nat

AtRest == [at |-> "rest", before |-> 0, seen |-> 0, built |-> 0]

VARIABLES
  job, runs, reachable, \* the PBS: the run under way, runs so far, whether it answers
  stored, diagram,      \* the tables' running_upid; the stored diagram's
  clicks, checkedAt,    \* time; when a poll last set out to ask (_jobs_checked)
  poll, hourly,         \* the polls and the background sync
  askedAt               \* history: when a poll last asked the PBS

jobVars == <<job, runs, reachable, stored, diagram, clicks, checkedAt, poll, hourly, askedAt>>
pbsVars == <<job, runs, reachable>>

JobInit ==
  /\ job = 0 /\ runs = 0 /\ reachable = TRUE /\ stored = 0 /\ diagram = 0
  /\ clicks = Every /\ checkedAt = 0 /\ askedAt = 0
  /\ poll = [p \in Pollers |-> AtRest] /\ hourly = AtRest

-----------------------------------------------------------------------------
(* The PBS and time.                                                       *)

JobStartsOrEnds ==
  /\ \/ job # 0 /\ job' = 0 /\ runs' = runs
     \/ job = 0 /\ runs < MaxRuns /\ job' = runs + 1 /\ runs' = runs + 1
  /\ UNCHANGED <<reachable, stored, diagram, clicks, checkedAt, poll, hourly, askedAt>>

\* It cannot be reached for a while, before the last runs of its job.
PbsGoesOrComes ==
  /\ reachable' = ~reachable /\ (reachable => runs < MaxRuns)
  /\ UNCHANGED <<job, runs, stored, diagram, clicks, checkedAt, poll, hourly, askedAt>>

\* Time is bounded: the last click stands for any later time.  A poll that has
\* set out asks at once.
Click ==
  /\ clicks < MaxClicks /\ clicks' = clicks + 1
  /\ \A p \in Pollers : poll[p].at # "ask"
  /\ UNCHANGED <<pbsVars, stored, diagram, checkedAt, poll, hourly, askedAt>>

-----------------------------------------------------------------------------
(* A page's poll: refresh_sync_job_states.                                 *)

\* Nobody asked lately: marked at once, under the lock, then the stored state
\* is read.  Beyond the bound enough time has always passed.
PollSetsOut(p) ==
  /\ poll[p].at = "rest"
  /\ clicks - checkedAt >= Every \/ clicks = MaxClicks
  /\ poll' = [poll EXCEPT ![p] = [AtRest EXCEPT !.at = "ask", !.before = stored]]
  /\ checkedAt' = clicks
  /\ UNCHANGED <<pbsVars, stored, diagram, clicks, hourly, askedAt>>

\* The PBS is asked; if it does not answer, the next poll asks again.
PollAsks(p) ==
  /\ poll[p].at = "ask" /\ askedAt' = clicks
  /\ poll' = [poll EXCEPT ![p] =
       IF reachable /\ job # poll[p].before THEN [@ EXCEPT !.at = "store", !.seen = job] ELSE AtRest]
  /\ UNCHANGED <<pbsVars, stored, diagram, clicks, checkedAt, hourly>>

\* A job started or ended: stored (record_sync_jobs) and the diagrams rebuilt.
PollStores(p) ==
  /\ poll[p].at = "store" /\ stored' = poll[p].seen
  /\ poll' = [poll EXCEPT ![p].at = "build"]
  /\ UNCHANGED <<pbsVars, diagram, clicks, checkedAt, hourly, askedAt>>

PollBuilds(p) ==
  /\ poll[p].at = "build"
  /\ poll' = [poll EXCEPT ![p] = [AtRest EXCEPT !.at = "save", !.built = stored]]
  /\ UNCHANGED <<pbsVars, stored, diagram, clicks, checkedAt, hourly, askedAt>>

PollSaves(p) ==
  /\ poll[p].at = "save" /\ diagram' = poll[p].built
  /\ poll' = [poll EXCEPT ![p] = AtRest]
  /\ UNCHANGED <<pbsVars, stored, clicks, checkedAt, hourly, askedAt>>

-----------------------------------------------------------------------------
(* The background sync: record_sync_jobs while the PBS is synced, and at    *)
(* the end, however the jobs are, topology_store.refresh_all.              *)

HourlyAsks ==
  /\ hourly.at = "rest"
  /\ hourly' = IF reachable THEN [AtRest EXCEPT !.at = "store", !.seen = job]
               ELSE [AtRest EXCEPT !.at = "build"]
  /\ UNCHANGED <<pbsVars, stored, diagram, clicks, checkedAt, poll, askedAt>>

HourlyStores ==
  /\ hourly.at = "store" /\ stored' = hourly.seen /\ hourly' = [hourly EXCEPT !.at = "build"]
  /\ UNCHANGED <<pbsVars, diagram, clicks, checkedAt, poll, askedAt>>

\* Mutant of HourlyBuilds: the diagrams are rebuilt only when a job changed.
HourlyBuildsChanged ==
  /\ hourly.at = "build"
  /\ hourly' = [AtRest EXCEPT !.at = "save", !.built = IF stored = hourly.seen THEN diagram ELSE stored]
  /\ UNCHANGED <<pbsVars, stored, diagram, clicks, checkedAt, poll, askedAt>>

HourlyBuilds ==
  /\ hourly.at = "build" /\ hourly' = [AtRest EXCEPT !.at = "save", !.built = stored]
  /\ UNCHANGED <<pbsVars, stored, diagram, clicks, checkedAt, poll, askedAt>>

HourlySaves ==
  /\ hourly.at = "save" /\ diagram' = hourly.built /\ hourly' = AtRest
  /\ UNCHANGED <<pbsVars, stored, clicks, checkedAt, poll, askedAt>>

-----------------------------------------------------------------------------

JobNext ==
  \/ JobStartsOrEnds \/ PbsGoesOrComes \/ Click
  \/ HourlyAsks \/ HourlyStores \/ HourlyBuilds \/ HourlySaves
  \/ \E p \in Pollers : PollSetsOut(p) \/ PollAsks(p) \/ PollStores(p) \/ PollBuilds(p) \/ PollSaves(p)

\* Syncs come round, an open page polls, what has begun is carried on, and the
\* PBS is reached again.
JobFairness ==
  /\ WF_jobVars(HourlyAsks \/ HourlyStores \/ HourlyBuilds \/ HourlySaves)
  /\ WF_jobVars(Click) /\ WF_jobVars(PbsGoesOrComes /\ ~reachable)
  /\ \A p \in Pollers : WF_jobVars(PollAsks(p) \/ PollStores(p) \/ PollBuilds(p) \/ PollSaves(p))
JobSpec == JobInit /\ [][JobNext]_jobVars /\ JobFairness

-----------------------------------------------------------------------------

\* Once the job's last run has begun, or ended, the tables and the diagram come
\* to say so and go on saying so, whichever of polls and sync read the PBS, the
\* tables and wrote the diagram in which order.
DiagramSettles == <>[](runs = MaxRuns => (stored = job /\ diagram = job))

\* However many pages are open, their polls ask a PBS about its jobs at most
\* once in Every.
AskedSparingly ==
  [][\A p \in Pollers : (poll[p].at = "ask" /\ poll'[p].at # "ask" /\ clicks < MaxClicks)
                          => askedAt = 0 \/ clicks - askedAt >= Every]_jobVars

\* The diagrams follow the jobs although the PBS is asked seldom.
DiagramFollows == DiagramSettles /\ AskedSparingly
=============================================================================
