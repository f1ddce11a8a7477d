# Verification of backup-sentinel

backup-sentinel watches Proxmox VE clusters and their backups, and proves that
the backups are worth something: it restores them, one VM at a time, onto a
scratch PVE host, boots each in an isolated VLAN, probes it through a helper
container, records the verdict and removes everything again. This directory
holds TLA+ models of that code, TLC configurations that check them and proofs
that TLAPS checks. `PROJECT.json` lists the components, the runs, the mutants
each property is tested with, the source lines each definition stands for, the
hazards and the theorems.

All paths below are relative to the repository (`app/...` is `src/app/...`).

## 1. Inventory

| component | state | operations | modelled |
|---|---|---|---|
| Restore queue: `web/sync.py` (executors, self-heal, kicks, resume), `services/restore_orchestrator.py` (due rows, drain, plans, recovery, re-test), `services/restore_worker.py` (pipeline, finalize, held actions), `db_restore.py` (rows) | table `restore_runs`, `restore_tests`, setting `queue_paused` | enqueue, manual test, delete, cancel, pause, drain, execute, finalize, resume, recover stuck, sweep orphans, promote / re-test / reap a held row | `RestoreQueue` |
| Allocator: `services/restore_alloc.py` | none of its own: running and held rows are the registry | `allocate` | `RestoreAlloc` |
| Scratch host client: `services/restore_server.py` | guests, containers, volumes, templates and tasks of the host | create, poll, stop, destroy, list, reap; restore task, distributed restore, helper, benchmark | host calls of `RestoreQueue`; `RestoreTask`, `DiskRestore`, `HelperSetup`, `PerfTest` |
| Benchmark: `services/restore_perf.py` | three settings rows, one daemon thread | start, cancel, run | `PerfTest` |
| Due clock: `db_restore.py`, `restore_orchestrator.enqueue_due`, `routes_restore.py` | policies (`next_run_at`, cadence), test rows | which VM is due, enqueue, eager enqueue, retry date, cadence | `DueClock` |
| Placement: `services/restore_pack.py`, fit checks of plan and drain | none | choose a storage, pack disks, fit disk and RAM | `TargetChoice` |
| Probe: `restore_probe.py`, `_probe_loop`; helper agent: `restore_helper_agent.py` | addresses of the helper's leg, what the agent reported | routes, ARP and port probes, verdict | `ProbeLoop` |
| Host settings: `restore_config.py`, the forms of `routes_restore.py` | settings rows, the host's key and token | save, test, clear the key, pin on first use, renew the token | `HostSettings` |
| Cluster sync: `web/sync.py`, `db_clusters.py`, `db_reports.py` | `syncing_clusters`, clusters, VMs, events | manual and hourly sync, inventory, dedup, prune; stubs of running backups, task logs | `ClusterSync`, `BackupRows` |
| API clients and parsers: `proxmox.py`, `pbs.py`, `api_client.py`, `proxmox_progress.py` | kept-alive connections, a progress cache, log positions | get, retry, write; cached progress, log pages; jobs and HA rules | `ApiCalls`, `ProgressCache`, `TaskLogReader`, `BackupJobs` |
| Topology: `pbs_topology.py`, `topology_store.py`, job states in `web/sync.py` | stored diagrams, `_jobs_checked` | follow jobs, lay out columns, refresh | `Topology`, `SyncJobs` |
| Backup status, governance: `backup_status.py`, `db_governance.py` | none | severity, copies, verification, due tests, charts | `Governance` |
| Notifications: `notifications.py`, `db_notifications.py` | an in-memory queue and timer under a lock, dedup table | claim, send, flush, defer | `Notifications` |
| Reports, hourly loop: `web/sync.py`, `report_archive.py`, `weekly_report.py` | archive, last week sent, outage marks | overdue alert, monthly and weekly report | `AutoLoop`; their rendering is not |
| Web application: `main.py`, `web/*.py` | sessions in the database | pages, forms | the handlers that change what the modules hold |
| Settings, crypto, themes, i18n, browser code, scripts | settings rows | parse, format, draw | no |

### How the components interact

The process runs one asyncio loop and two thread pools. `sync_executor` has
several workers and carries the hourly `auto_sync_loop` and the short
`restore_queue_loop`; both end in self-heal calls. `restore_executor` has one
worker, "the slot", which runs `run_restore_queue` (recover, enqueue what is
due, drain) and, after a restart, `resume_run`. HTTP handlers run in FastAPI's
pool; some of them start daemon threads (the benchmark) or fill a cache behind
their answer (live progress, on two small pools of its own). All of them share
the database, where every call is a transaction of its own, and the scratch
host, reached by SSH and the PVE API. No lock spans two calls.

```
 HTTP handlers --INSERT/UPDATE--> restore_runs <--SELECT/UPDATE-- slot (drain, execute, resume)
      |                               ^                               |
      | re-test / reap / promote      | recover, sweep                | create, poll, destroy
      v                               |                               v
  scratch host <---- destroy ---- self-heal threads            scratch host
      ^--- detached restore, copy and upload tasks survive a restart of the app ---^

 PVE, PBS --listings, logs--> hourly loop, manual sync --rows--> vms, backup_events
      ^                              |                               |
      | progress, job states         | outage, reports               | judged on each page
 page polls -----> caches, diagrams  +--> mail, Gotify queue         +--> what is due
```

### What is hard about it

* The slot, two self-heal threads and the operator write one row with plain
  `UPDATE ... WHERE id = %s`; nobody looks at the status it replaces.
* `reap(owned_vmids())` destroys every guest that is not in a snapshot, and the
  snapshot is older than the destroys.
* The restore is a task on the host that outlives the process. After a restart
  the row says running, the guests are there in any combination, and the
  worker is gone. VMIDs are used again, so an earlier task may be in the way.
* Environments have no reservation: between `allocate()` and the UPDATE that
  names its result nothing holds the values.
* Recovery runs next to the worker it takes for dead, on the same guests.
* A sync deletes what the sources do not list; a source that could not be read
  lists nothing, and two syncs of one cluster may overlap.
* The row of a backup is written by the listing of a running backup, by its
  log and by the listing of the finished one, in any order.
* Almost every alert, report, diagram and benchmark is "look, do, note": the
  process can stop, or somebody else write, in each gap.

### What makes each component correct

* Rows: one runs at a time; a row is started once and never again; a failed
  restore leaves no test record; a running row ends; a queued row is drained.
* Environments: two live rows never share a VMID, VLAN or address (two restored
  VMs in one VLAN see each other); a parked row gives back what it does not need.
* Host: nothing stays that no row owns; nothing of a live row is destroyed but
  by its own run or its operator.
* Allocator: lowest free values, gives up exactly when a range is exhausted.
* Restore task: a slow one is spared, a hanging one ends, a cancel ends it; the
  guest boots only with its NICs in the sandbox and its disks complete.
* Distributed restore: every disk, or nothing left on the host.
* Probe: the verdict is about the guest, and the loop comes to one.
* Benchmark: never on a storage a restore writes to, and the other way round.
* Placement: refuses only what fits nowhere, starts only what has room.
* Due clock: no VM starves, none is tested at every tick, failed tests back off.
* Sync: guests are forgotten when no source shows them or a backup of them any
  more; rows end up saying what the sources say. (The documentation asks for
  sources that were reachable; the code takes what a source leaves out without an
  error for gone, see section 3.)
* Judgement: what makes a guest look better was done for it, with three exceptions
  that `Governance` names, one of them against the code's own comment.
* Notifications, reports: the queue and its timers lose nothing as long as the
  settings can be read, and nothing is sent twice.

## 2. Modules

The restore queue, with proofs:

* `RestoreAlloc` - ranges, rows' resource columns, `Exhausted` and `Allocation`.
  No variables; every other module of the queue extends it.
* `RestoreAllocCheck` - allocations, parkings, re-tests and releases in any
  order over one registry, to check the allocator against a walk of its ranges.
* `RunLifecycle` - the abstract specification: the status of each row, with
  `Enqueue`, `Withdraw`, `Begin` (only while nothing runs) and `Conclude`.
* `RestoreQueue` - the threads, the rows and the host.
* `DueClock` - when a VM is tested again: rows of a VM, its last verdict, its
  dates. It stands beside `RestoreQueue`, which knows rows and not VMs: what is
  one step here (the drain's choice, the restore) is spelled out there.
* `RestoreAllocTheorems`, `RestoreQueueTypes`, `RestoreQueueProofs` - proofs of
  the allocator and the queue; `DueClock` is among `DecisionProofs`.

What `RestoreQueue` takes for one step of a run, each on its own:

* `TargetChoice` - build_plan's and the drain's choices (`Skip`, `Refuse`).
* `HelperSetup` - bridge, legs, template, container and agent (`Provision`).
* `RestoreTask` - kick, find, poll, stall backstop, NICs, lock and boot
  (`StartRestore`, `Restored`).
* `DiskRestore` - `_restore_distributed` (`StartDistributed`).
* `ProbeLoop` - `_probe_loop` with the helper agent and a guest that changes
  (`Probed`).
* `PerfTest` - the benchmark beside drain and restores.
* `HostSettings` - the settings all of them read.
* `BackgroundProofs` - proofs of `HelperSetup`, `RestoreTask`, `DiskRestore`,
  `ProbeLoop`, `PerfTest` and `RestoreAllocCheck`.

What the pages show and where it comes from:

* `ClusterSync` - two syncs of one cluster over sources that come and go.
* `BackupRows` - the row of one backup, from placeholder to result.
* `ApiCalls`, `ProgressCache`, `TaskLogReader` - calls, cached progress, logs
  read page by page while they grow.
* `BackupJobs` - what the cluster's backup jobs and HA rules say of a guest.
* `Topology`, `SyncJobs` - the diagram of copies, and when it is built anew.
* `Governance` - how a guest is judged.
* `AutoLoop` - overdue alert, monthly and weekly report.
* `Outbox`, `Notifications` - the abstract alert queue and the one with dedup
  table, timers and flushing threads; proofs in `NotificationsProofs`.
* `ClusterSyncProofs` - proofs of `ClusterSync`.
* `ExchangeProofs` - proofs of `ApiCalls`, `ProgressCache`, `TaskLogReader`,
  `BackupRows`, `SyncJobs` and `AutoLoop`.
* `DecisionProofs` - proofs of `DueClock`, `HostSettings`, `TargetChoice`,
  `BackupJobs` and `Governance`.

Four modules compose others for TLC. `Decisions` (what is worked out from stored
data), `Loops` (what comes round again: the hourly round, the passes of a probe),
`Exchanges` (what goes over the network) and `BackgroundWork` (what background threads carry out)
extend their modules and add one variable, `part`: a behaviour is one of one
part, chosen at the start, and the other parts rest. The parts meet only
through data each module takes from outside as an arbitrary input, so their
product would multiply states and add no behaviour; where two components do act
on the same state at the same time (queue, operator and healers; benchmark,
drain and restore; polls and sync; loop, syncs and reports page) they are in one
module. Each part keeps its own initial states and its own fairness.

### RestoreQueue and the code

| variable | code |
|---|---|
| `status`, `env`, `cancel`, `aged` | columns `status`; `restore_vmid`, `helper_vmid`, `vlan_tag`, `mgmt_ip`; `cancel_requested`; `started_at` against `STUCK_RUN_GRACE_SECONDS` |
| `evidence` | rows of `restore_tests` |
| `paused` | setting `restore_server.queue_paused` |
| `vms`, `lxcs`, `copying` | qemu guests and containers of the host; guests a restore task copies into and locks |
| `pc`, `job`, `run`, `plan`, `seen` | where a thread is, in whose service, on which row, with what it read of that row, and the last `owned_vmids()` of its reaper |
| `pending`, `verdict` | the drain's list of queued rows; the result `_finalize` will record |
| `jobs` | submissions that wait in `restore_executor` |
| `faults`, `restarts` | how much of two bounds is spent |

| actions | code |
|---|---|
| `Request`, `DeleteRun`, `RequestCancel`, `SetPaused` | handlers of `routes_restore.py` |
| `ScanNone`, `ScanRunning`, `LeaveRunning`, `DeclareStuck`, `GraceOver` | `recover_stuck_runs` |
| `Teardown`, `Snapshot`, `Reap`, `Record` | `_teardown`, `owned_vmids`, `server.reap`, `record_run_result` |
| `Orphans`, `SweepOrphans`, `Kick` | `_reap_orphans`, `_kick_restore_queue`, `_restore_queue_watchdog` |
| `EnqueueDue`, `DrainStop`, `DrainList`, `Refuse`, `Skip`, `Choose`, `DrainWait`, `QueueFails`, `Start` | `enqueue_due`, `drain`, `build_plan` |
| `SweepBefore`, `Provision`, `StartRestore`, `StartDistributed`, `Restored`, `Probed`, `Abort`, `Break` | `execute` |
| `Discard`, `Park`, `Unhold` | `_finalize` with `hold_on_failure` |
| `Reattach`, `PollEnd`, `PollLost`, `Unlocked`, `StillLocked`, `ResumeTail` | `resume_run` |
| `HeldAction`, `Realloc`, `Assign`, `Rehelper`, `Reprobe`, `Drop` | `promote_held`, `reap_held`, `retest_held`, `reprovision_and_retest` |
| `CopyEnds`, `Restart` | the host's own task; `reconcile_and_resume_restores` |

How the abstraction was chosen:

* A step is one statement, one host call, or a run of calls between which no
  other thread can change what it reads or writes. `execute`'s checkpoint and
  `preflight_check` belong to `Provision`; NIC rewrite, unlock wait and start
  belong to `Restored`; the two listings of `reap` are one.
* `Start` writes the VLAN tag and the VMIDs in the UPDATE that makes the row
  running, as `update_run` does.
* A row that is deleted keeps the status `deleted`: the id is never used again
  and an UPDATE of it changes nothing (`SetStatus`). The slot carries out a row
  that is deleted under it; the model does the same.
* `Park` gives the helper of a held row back, as `_finalize` does
  (`restore_worker.py:272`). The design keeps it standing for re-tests
  (`docs/superpowers/specs/2026-10-30-automated-restore-testing-design.md:318`, `:425`);
  code and model rebuild it (`Realloc`, `Rehelper`).
* The queue's order is left out: `Choose` takes any row of the pass, which
  includes the one the code takes. `Refuse` and `Skip` are what the plan, the
  fit checks and the benchmark decide.
* Loops over the running rows of `recover_stuck_runs` and
  `reconcile_and_resume_restores` are over one row, by `OneRunning` below.
* `task_upid` is not among the columns `update_run` accepts, so the code's
  second sign of life and the shortcut of the resume never apply; `Alive` looks
  at the restore VM only.
* Submissions beyond `MaxJobs` are merged with one that already waits: both do
  the same and the slot takes them one after the other.
* Failing calls of a run's pipeline are free (`Break`). An outage where the code
  handles it differently - recovery, teardown, reaping, resume - spends one of
  `MaxFaults`.
* Removing a VM from the inventory, which cascades to its rows, is left out, and
  the configuration of the scratch host is present throughout.

### DueClock and the code

| variable | code |
|---|---|
| `enabled`, `nextRun` | `vm_policies.auto_restore_enabled`, `next_run_at` |
| `tested`, `passed` | `MAX(restore_tests.tested_at)` of a VM; whether it has a run with result `passed` |
| `row`, `last` | its queued, running and held rows; the row that ended last and when |
| `todo` | what `due_auto_restore_candidates` returned and is not yet inserted |
| `work` | what the slot and each held-row request are doing, on which row |
| `eager` | policies saved, with the eager enqueue still to come |
| `crossed` | history only: VMs of which a conclusion was interrupted |

| actions | code |
|---|---|
| `ListDue`, `NotRestorable`, `Enqueue`, `QueueFails` | `enqueue_due`, `create_run` |
| `DrainStarts`, `DrainEnds`, `Refuse`, `Begin` | `drain` |
| `Verdict`, `Hold`, `SetDate`, `Resume`, `LeaveRunning` | `_finalize` of `execute` and `resume_run` |
| `Recover` | `recover_stuck_runs` |
| `ManualTest`, `DeleteRun`, `SavePolicy`, `EnqueueIfNeverPassed` | handlers of `routes_restore.py` |
| `LookAtHeld`, `HeldAction`, `LeaveHeld` | `_held_action` with `promote_held`, `reap_held` |

* A conclusion is two steps, `Record` and `SetDate`, because `record_run_result`
  and `set_vm_next_run` are two transactions. Between them a restart, the
  listing of due VMs or a second conclusion of the same VM (two rows, or two
  requests on one held row) can get in; `crossed` collects those VMs, and the two
  properties about dates are about the others. It is written, never read.
* Time is in days, the unit of cadence and retry; a day has any number of passes.
* A verdict `failed` stands for the worker's `failed` and `error`, which
  `_finalize` treats alike; `error` is what the drain and the recovery write.
* Live rows have ids that are used again; rows that have ended are kept as `last`.
* Whether a failed run is held, whether a VM is restorable and what a pass may
  start are free choices.

### Notifications and the code

| variable | code |
|---|---|
| `claimed` | keys of `notification_dedup` younger than a day |
| `quiet` | `_in_quiet_hours()` |
| `pc`, `alert` | a thread between `_should_send` and `send_gotify`, and its message |
| `queue`, `timer` | `_gotify_queue`, `_gotify_timer` |
| `waiting`, `fired` | `threading.Timer` threads that run down, and those that wait for `_gotify_lock` |
| `batch` | what a flushing thread has taken and sends outside the lock |
| `raised`, `outcome` | calls so far, and what became of each: told, refused by Gotify, dropped, or lost where the settings could not be read |
| `abandoned` | history only: a flush has ended on its settings read and no alert has been queued since |

| actions | code |
|---|---|
| `Suppress`, `Claim`, `ClaimFails`, `Expire` | `_should_send`, `try_claim_dedup` |
| `Drop`, `SendFails`, `QueueUp` | `send_gotify` with Gotify off, with settings that cannot be read, and otherwise; `_schedule_gotify_flush` |
| `Fire`, `FlushNothing`, `FlushFails`, `Defer`, `Take`, `Deliver` | the timer, `_flush_gotify_queue`, `_send_gotify_raw` |
| `QuietBegins`, `QuietEnds`, `Restart` | the settings and the clock; the end of the process |

`cancel()` takes a timer out of `waiting`; one in `fired` is beyond it. The queue
is a set because messages are told apart by key and number and the order of a
batch is layout. Mail, which is sent in the caller, is left out.

Three reads of the settings table can raise. `send_gotify` reads after the key was
claimed (`notifications.py:207`): `SendFails` ends the alert and leaves the claim.
The flush reads after it has set `_gotify_timer` to None (`:126`): `FlushFails` ends
the timer's thread and leaves the queue. `_send_gotify_raw` reads after the batch
was taken: `Deliver` may end with the outcome `unread`. After `FlushFails` the queue
waits for the next alert, whose `QueueUp` starts a timer for all of it; this is
`Stranded`, the exception in `NoneStranded` and `QueueFlushed`.

### RestoreTask, DiskRestore, HelperSetup

`RestoreTask`: `task`, `old`, `copied`, `hung`, `locked`, `nics`, `power` are the
host's; `step`, `upid`, `since`, `lastAt`, `percent` are the locals of
`_start_restore_task` and `_poll_task`; `polled` says that the worker has looked
since the clock moved, because it looks every few seconds and the clock counts
in larger units.

| actions | code in `services/restore_server.py` |
|---|---|
| `Kick`, `Find`, `FindNothing` | `_start_restore_task`, `find_running_restore_upid` |
| `Poll`, `PollBlip`, `StopTask` | `_poll_task` with `stall_exceeded`, a failing look, `stop_task` |
| `RewriteNics`, `Boot` | `rewrite_nics`, `wait_unlocked`, `start` |
| `Register`, `Advance`, `Hang`, `TaskEnds`, `OldEnds`, `ApiToggles`, `Tick`, `RequestCancelTask` | the host's tasks, its API, time, the operator |

`DiskRestore`: `volume`, `copy`, `rc`, `config` are the host's, `at` and
`allocated` the worker's. `AllocDisk`, `KickDisk`, `WatchDisk`, `StopDisk`,
`WriteConfig`, `FreeVolumes` are the steps of `_restore_distributed` and
`_pbs_restore_disk`; `CommandFails` is an SSH command that fails. With
`Leftover` the side file of an earlier restore of the same VMID may still hold
an exit code.

`HelperSetup`: `net` holds the settings of the two legs, four bits an address,
so that subnets of every size and every overlap occur. `EnsureBridge`,
`LookForTemplate`, `UploadEnds`, `WaitTask`, `PruneTemplates`, `CreateHelper`,
`StartHelper`, `AgentAnswers`, `SetupFails` are `ensure_sandbox_bridge`,
`ensure_helper_template` and `provision_helper`; `ResumeLooks`, `BootRestored`
`resume_run`; `AppRestarts` ends the process, and the host may reboot
meanwhile. `spoiled` is history.

### ProbeLoop, PerfTest, TargetChoice, HostSettings

| module | actions | code |
|---|---|---|
| `ProbeLoop` | `BeginOverride`, `BeginReported`, `BeginRemembered`, `CancelSeen`, `Judge` | `_probe_loop`, `classify_multi` |
| | `SetUpTarget`, `ProbeTargets`, `PassFails` | `_ensure_reachable`, `probe_targets` of the agent, `_agent_post` |
| | `GuestChanges`, `AskCancel` | the guest, the operator |
| `PerfTest` | `StartLook`, `StartMark`, `StartClear`, `CancelLook`, `CancelSave` | `restore_perf.start`, `cancel` |
| | `BenchStart`, `FioEnds`, `CleanUp`, `BenchEnds`, `BenchReset` | `_run`, `benchmark_storage_write` |
| | `DrainLook`, `RestoreBegins`, `RestoreOver`, `PerfCrash` | `drain`, `execute`, `_finalize`, the end of the process |
| `TargetChoice` | `ChooseTarget`, `DisksUnknown`, `Pack`, `Packed` | `choose_target_storage`, `build_plan`, `pack_disks` |
| | `SpaceChanges`, `Check` | other guests; `_fits_disk`, `_fits_ram` of the drain |
| `HostSettings` | `BeginForm`, `BeginStorages`, `BeginClear`, `BeginTest` | handlers of `routes_restore.py` |
| | `Scan`, `ScanFails`, `ReadKey`, `WriteKey`, `MakeToken`, `NoToken` | `ensure_host_key_pinned`, `set_host_key`, `create_api_token` |
| | `ReadBeforeSave`, `SaveFails`, `Write`, `Reinstall` | `restore_config.save`; the host installed anew |

History: `said`, `steady`, `selfProbed` in `ProbeLoop`, `raced`, `spoilt`, `asked`
in `PerfTest`, `cleared`, `spoiled` in `HostSettings`. `start` and
the drain look at each other's marks and set their own in two statements, so
their decisions can cross; `raced` notes that they did, and no further decision
is begun. `BenchmarkAlone` says that nothing but such a crossing, a cancel and a
restart included, brings a benchmark and a restore onto one storage.

### ClusterSync, BackupRows, SyncJobs, AutoLoop

| module | actions | code |
|---|---|---|
| `ClusterSync` | `StartSync`, `TakeSync`, `FinishSync`, `SyncBreaks` | `sync_cluster`, `sync_all_clusters`, `background_sync` |
| | `FetchInventory`, `FetchFails`, `StoreInventory` | `fetch_cluster_inventory`, `sync_cluster_inventory` |
| | `StorePveBackups`, `FetchPbs`, `StorePbsBackups` | `sync_cluster_backups`, `fetch_pbs_datastores`, `fetch_pbs_backups`, `_dedup_pbs_events`, `sync_backup_events_for_source` |
| | `StoreLastBackup`, `Prune` | `update_vm_last_backup_from_events`, `prune_gone_vms_without_backups` |
| | `GuestComesOrGoes`, `BackupWritten`, `BackupDeleted`, `SourceToggles`, `ProgramRestarts` | the world |
| `BackupRows` | `ReadSources`, `StoreListed`, `CleanUpStubs`, `EnrichFromLogs`, `SyncStops` | `sync_cluster_backups`, `cleanup_stale_inprogress_backups`, `enrich_backup_events_from_task_logs` |
| | `Starts`, `Ends`, `Expires`, `Hour` | vzdump, retention, time |
| `SyncJobs` | `PollSetsOut`, `PollAsks`, `PollStores`, `PollBuilds`, `PollSaves` | `refresh_sync_job_states` |
| | `HourlyAsks`, `HourlyStores`, `HourlyBuilds`, `HourlySaves` | `record_sync_jobs`, `topology_store.refresh_all` |
| `AutoLoop` | `LoopSyncs`, `ManualSync`, `OverdueLook`, `OverdueTell`, `OverdueMark` | `auto_sync_loop`, `notify_overdue_cluster_syncs` |
| | `MonthLook`, `MonthWrite`, `MonthWriteFails`, `MonthMail` | `auto_generate_monthly_report`, `generate_archived_report` |
| | `WeekLook`, `WeekSend`, `WeekNote` | `send_weekly_report_if_due` |
| | `ManualReport`, `DeleteReport`, `LoopRestarts`, `SomethingToggles`, `TimePasses` | the reports page, the end of the process, the world |

History: `watch` in `ClusterSync` (what held all along since a sync began: a
sync can only be judged by a world that did not change under it), `askedAt` in
`SyncJobs`, `slips`, `misled`, `toldOf`, `mailed`, `sentIn` in `AutoLoop` (`misled`:
outages that began while the one before was told of and so bear its mark).

In `ClusterSync` a source fails in one of two ways. Those of `Failing` answer with
an error, which the code notices: the sync ends, or removes and prunes nothing of
theirs. Those of `Silent` answer without one and leave out what their token may not
see: PVE some or all of its guests, PVE its storages, the PBS its datastores. The
code takes such an answer for the whole, except that PVE showing no guest at all
forbids the prune (`web/sync.py:189`); `Listings`, `Asked` and `ViaPbs` do the same.

### ApiCalls, ProgressCache, TaskLogReader, BackupJobs, Topology, Governance

| module | actions | code |
|---|---|---|
| `ApiCalls` | `BeginRead`, `BeginWrite`, `Reconnect`, `NoConnection`, `SendsIntoClosed`, `ReadAnswered`, `ReadCut`, `WriteAnswered`, `WriteUnsent`, `WriteCut` | `api_get`, `api_send`, `_pooled`, `_send`, `_send_body` |
| `ProgressCache` | `AskCached`, `Peek`, `FetchStarts`, `NodesAsked`, `FetchStores`, `FetchRaises`, `FetchEnds` | `running_backup_progress_cached`, `_peek`, `_refresh_future`, `_refresh` |
| `TaskLogReader` | `LookBegins`, `LookOnward`, `LookBack`, `LookFails` | `_read_task_log`, `_with_lines` |
| `BackupJobs` | `ReadJob`, `ReadRule`, `ReadGroups` | `infer_backup_kind_by_vmid`, `job_storages_by_vmid`, `fetch_ha` |
| `Topology` | `Primary`, `OwnStores`, `OwnStore`, `Follow`, `Followed` | `build_topology` with `reach` and `walk` |
| | `SearchCycles`, `EnterRoot`, `SearchOn`, `Leave`, `FirstColumn`, `Push`, `RoundEnds` | `_layers` |
| `Governance` | `DayPasses`, `BackupRuns`, `GuestGone`, `TestRecorded`, and what becomes of a row: `Copied`, `Verified`, `Pruned` | the world; what the page says of it are operators, named as in `vm_governance_rows` and `backup_status.py` |

The last three model code without state of its own. `BackupJobs` and `Topology`
turn its loops into steps over inputs chosen at the start and compare the
result with a definition that has no loop (in `Topology`, `looked` counts the
jobs the loop at hand has gone through, `round` the rounds of `_layers`, which the
code limits to the number of datastores reached); `Governance` lets the world change
and says what such a change may do to the judgement. A body that is not JSON, which
`api_get` refuses without a repeat (`api_client.py:241`), is left out of `ApiCalls`,
and `TaskLogReader` takes each row of a log for a line, where `_extract_log_lines`
drops rows without text. In `ApiCalls` `refusals`,
`done`, `fine` are history, in `ProgressCache` `served`; in `TaskLogReader`
`replaced` belongs to the world.

## 3. Runs

Each property is checked again under every mutant of `PROJECT.json`, a change
of one definition that a plausible bug would make; TLC must then refute it. A
property of a run that has several parts, each with a name and a comment of its
own in the module, is their conjunction.

| run | what it has | properties |
|---|---|---|
| `queue_progress` | two rows (one held on failure), three VMIDs, two tags, one address, watchdog, fairness | `TypeOK`; `EnvironmentsInOrder` (`EnvironmentsDistinct`, `HeldFreesHelper`, `NoLeak`); `QueueProgress` |
| `queue_restart` | two rows (one held, one distributed), hourly healer, one outage, one restart | `ExecutorSparesHeld`, `Lifecycle` |
| `queue_operator` | two rows, an operator | `SandboxesDistinct`, `ErrorHasNoEvidence` |
| `run_ends` | one row, watchdog, one restart, fairness | `RunEnds`, `OrphansSwept` |
| `decisions`: due clock | one VM with two live rows, an operator, days 0 to 3, cadence two, retry one, one restart | `CadenceKept`, `FailedBacksOff`, `OverdueIsQueued` |
| - target | two storages of sizes 1 to 4 with any free space, some of them not reported, up to three disks | `TargetSound` (`RefusedOnlyIfImpossible`, `StartedHasRoom`) |
| - settings | two pages, two hosts that may be installed anew, three requests | `TokenWorks`, `PinnedUntilCleared` |
| - jobs | two guests and a deleted one; two backup jobs or three HA rules in any order, or groups | `GuestAsConfigured` (`KindByRules`, `KindAndStorages`, `StrictRuleFirst`) |
| - guest | three days, two backups on three servers, windows of no day and of one | `BetterForCause` (`BetterForDeeds`, `DaysAddUp`, `FailureCounts`); `ViewsAgree` (`CoverageAdds`, `ChartsAgree`) |
| - diagram | three datastores on two servers; up to two sync jobs with namespaces or up to three without, in any order | `WalkFollowsData` (`NoneMissing`, `NoneInvented`); `ColumnsInOrder` (`BackClosesCycle`, `LayersAscend`, `MainTargetFirst`) |
| `loops`: rows | two backups, four hours, syncs that stop anywhere | `RowsEndTrue` (`FinishedIsKept`, `SuccessIsShown`, `NoneRunsForEver`, `DetailsBeforeDone`) |
| - jobs | two polls, the hourly sync, one run of the replication job, six clicks | `DiagramFollows` (`DiagramSettles`, `AskedSparingly`) |
| - loop | one cluster, up or down at the start, two weeks, two months, two faults or acts by hand | `OutageTold`; `ArrivesOnce` (`SentOnce`, `WeeklyArrives`) |
| - probe | three addresses, two ports, two passes, two changes of the guest | `VerdictTrue` (`PassedAnswers`, `UpGuestPasses`, `ErrorAtTheEnd`, `ProbeEnds`) |
| `exchanges`: calls | two calls, two repeats, three changes of the server's mood | `RepeatsWell` (`IdleCloseHarmless`, `RefusedAskedOnce`, `WriteDoneOnce`) |
| - cache | two clusters, two callers and any number of peeks, one thread in each pool, three seconds | `CallersServed` (`CallersAnswered`, `FetchNotRestarted`, `ServedRecent`) |
| - log | seven lines, pages of two, three looks | `SectionIsCurrent` |
| - alerts | three alerts of one key, two callers, three timers, one restart, settings that cannot be read at any time | `AlertsKept` (`NoneStranded`, `ClaimBacked`), `HandedOverOnce`, `QueueFlushed` |
| `background_work`: sync | one guest, two start times, two overlapping syncs, three changes of the world, sources that fail or leave things out | `PruneExact` (`PruneJustified`, `GoneArePruned`), `CompleteSyncIsTrue` |
| - alloc | seven VMIDs, four tags, three addresses | `AllocatesRight` (`WalkAgrees`, `Disjoint`) |
| - task | an earlier task or none, four marks, six ticks, one outage, factor 6 as configured | `BootsIsolated`, `CancelEnds`; `StallsToldApart` (`SlowIsSpared`, `HalfWayHangEnds`) |
| - disks | three disks, exit codes of an earlier restore or none, one failing command | `AllOrNothing` (`RollbackClean`, `CopiesComplete`) |
| - perf | one storage, two requests, the drain and a restore, one restart | `TestsOrderly` (`BenchmarkAlone`, `CancelsOwn`, `NothingLeftOnHost`, `MarkerFreed`) |
| - helper | three management addresses, two images, two restarts, one failure of the host | `HelperServes` (`ProbedThroughHelper`, `StartedIsReached`, `MadeFromWhole`) |
| `sweep_races_run` | one row, watchdog | `SweepSparesRunning` is violated |
| `resume_wedges` | one row, one outage, one restart, fairness | `RunEnds` is violated |
| `retest_collides` | two rows, an operator | `EnvironmentsDistinct` is violated |
| `retry_ignored` | one VM, an operator | `RetryHonoured` is violated |

### Why the bounds are enough

* Restore queue: the hazards are races of at most three threads over at most two
  rows: one that is parked and one that runs, or one running row that two threads
  take for theirs. Two rows and two environments make every pairing possible, and
  a third row would only wait. One outage and one restart are put anywhere in a
  run; the recovery and the resume then start from every combination of guests.
  `queue_progress` has one address and three VMIDs for two rows, so the second
  row really waits until the parked one has given its helper and address back. No
  symmetry is used: `Hold` and `Distributed` tell the rows apart, and symmetry is
  unsound for liveness.
* Due clock: VMs meet only through the slot, which takes one row at a time; the
  races are between two rows of one VM, and the days hold a failure, its retry and
  a whole cadence after it.
* Target: two storages and three disks are the smallest case where the first
  storage that fits is the wrong one and the packing has to go back.
* Settings: two pages that read before either writes; three requests are a form,
  a clearing and a second form.
* Jobs and diagram: order matters between two jobs of one guest and between a
  preference and two strict rules; three sync jobs close a circle of three, and the
  third datastore is of a server that may stand apart. Backups are followed
  through five jobs in a row; none of the inputs needs more.
* Guest: a day more than each window, so everything runs out within the run.
* Rows: two backups a period apart, and a clean-up that is younger than the
  second; everything older is alike. Jobs of a PBS: one run that starts and ends
  under two polls and the hourly sync.
* Loop: two week ends and a month end, and two faults put anywhere.
* Calls: the second call meets what the first has left of the connection. Cache:
  one thread in each pool, and two clusters, so that fetches wait for one another.
  Log: three pages and a line, so that heads lie on and beside page borders.
* Alerts: three timers are one that runs down, one that has fired and waits, and
  one that sends; dedup keys are independent of one another, and three alerts of
  a key are one that is suppressed or expired between two that are queued.
* Sync: guests and the guests' rows are independent of one another except in the
  test for an empty listing, for which other guests are taken to be listed; three
  changes are a backup, its loss and a source that goes or loses a right.
* Task: marks at the start, below and at the half and at the end, where the
  backstop's rule changes. Disks: the one that fails has a disk before and one
  after it. Benchmark: two requests on one storage. Probe: the guest's address,
  the helper's and one to move to; a pass that fails and a last one. Helper:
  subnets of all sizes in four bits, so that they lie apart, overlap or agree.

### Deadlock

Deadlock checking is on in the runs of `RestoreQueue` and `DueClock`, where
`SetPaused` or `SavePolicy` is always enabled, so what it shows there is little;
`RunEnds` and `QueueProgress` are the properties about getting stuck. The four
composed runs switch it off, because parts of them come to their end: a restore
is booted or given up, a probe has a verdict, a plan is made, a diagram is
drawn. That they do not stop before is what `CancelEnds`, `ProbeEnds`,
`CallersAnswered`, `GoneArePruned` and `DiagramSettles` are about.

### Fairness

Of `RestoreQueue`, and why the code justifies it:

* `WF(Slot)`, `WF(Healer(t))`: threads of a pool go on; host calls have timeouts;
  `restore_queue_loop` ticks for ever and catches every exception.
* `WF(Host)`: a restore task of the host comes to an end by itself. (One that
  hangs is the business of `RestoreTask`, where it need not end.)
* `WF(GraceOver(r))`: time passes.
* `SF(Choose(r))`: a queued row that the drain looks at again and again is at
  some point chosen. The code takes rows in queue order and skips those that do
  not fit, so this assumes that a row fits some time; a VM larger than the
  target storage is skipped for ever, which is what the code means to do.

Of the others:

* `DueClock`: `WF(SlotStep)`, as above; `SF(Enqueue(v))`, since a VM that no pass
  finds restorable is never queued, which is what the code means.
* `Notifications`: timers run down and their threads go on (`WF(Fire)`,
  `WF(Flush)`, `WF(Deliver)`); quiet hours end, and since a deferred flush comes
  back every ten minutes one of them falls outside and is finished there (`SF` of
  firing and of `Take`). Alerts that arrive less than five minutes apart for ever
  would postpone the flush for ever; the model has finitely many.
* `RestoreTask`: `WF(TaskWorker)`, `WF(Tick)`: the worker goes on and time passes;
  nothing is assumed of the host's task, which may hang for ever.
* `PerfTest`: `WF(Requesting(q))`, `WF(Benching(q))`; fio ends or is stopped.
* `ProbeLoop`: `WF(ProbeStep)`: each probe has a timeout.
* `ClusterSync`: `WF(StartSync("auto"))`, the loop comes round every hour, and
  `WF(SyncStep(t))`. Sources may stay away for ever; `GoneArePruned` is about the
  time when they are back.
* `BackupRows`: `WF` of time and of the first read; `SF(StoreListed)`,
  `SF(CleanUpStubs)`, `SF(EnrichFromLogs)`: a sync may be cut off at any step, but
  not every sync at the same.
* `SyncJobs`: `WF` of the steps of the hourly sync and of each poll, of time, and
  of the PBS coming back. Nobody has to poll.
* `ProgressCache`: `SF(FetchStarts)`, `SF(NodesAsked)`, because both pools serve in
  the order of submission; `WF` of a fetch's other steps, whose requests have
  timeouts.
* `AutoLoop`: `WF(LoopStep)`.

Nothing is assumed of operators, requests, new alerts and restarts. A part of a
composed run that rests owes nothing.

### What some properties leave out

Four promises are narrower than one would like, because the code breaks the wider
one; where a document or a comment of the repository makes the wider one, the list
below quotes it.

* `BetterForCause`: three exceptions, `FailureLapses`, `FailureRemoved` and
  `LastOnPbsRemoved`. Each is needed: without it TLC refutes the property.
* `GuestAsConfigured`: `KindAndStorages` says what each of the two readings of the
  jobs says and so by how much they differ.
* `OutageTold`: outages in `misled`. `AlertsKept`, `QueueFlushed`: `Stranded`.
* `PruneExact`: what a source leaves out without an error counts as gone, and two
  overlapping syncs are promised nothing but that they never wedge the cluster.

The others that leave something out: `ErrorHasNoEvidence` is checked without self-heal
threads, so the late recovery of the list below is no case of it. `TokenWorks` is
about requests one after another of which none fails after making a token
(`spoiled`). `VerdictTrue` leaves out a helper that answers itself (`selfProbed`),
`TestsOrderly` decisions that cross (`raced`), `CadenceKept` and `FailedBacksOff`
conclusions that are interrupted (`crossed`), `HelperServes` helpers cut off half
built (`spoiled`) and subnets that overlap without being equal, `CompleteSyncIsTrue`
syncs that could not read everything.

### What the violated runs show

* `sweep_races_run`: the watchdog's sweep asks `has_active_run` once, then
  verifies the host key, reads the owned VMIDs, lists and destroys. A run that
  the slot starts in between is not in the snapshot and loses its helper or its
  VM (`web/sync.py:681`).
* `resume_wedges`: a resume that cannot reach the host, or does not see the
  guest unlock, leaves the row running for a "next resume pass"
  (`restore_worker.py:481`), but the only pass is at startup. The restored VM is
  on the host, `recover_stuck_runs` takes it for a sign of life, and the row
  blocks the queue until the app restarts.
* `retest_collides`: a re-test allocates in an HTTP thread while the slot plans;
  both take the same helper VMID and address.
* `retry_ignored`: a row that the drain refuses, or that the recovery ends, is an
  error that arms no retry date. The VM stays due, and each pass queues it again
  and refuses it again (`restore_orchestrator.py:493`, `:908`), while the design
  says that a failed or errored run is queued again after `restore_retry_days`.

### Hazards without a property

Each hazard of `PROJECT.json` has a property. These are known and have none:

* A crash between the UPDATE to `held` and the one that clears the helper's
  columns keeps both reserved while the row is held (`restore_worker.py:285`).
* The helper of a re-test does not come up: the row keeps its VMID and address
  (`restore_orchestrator.py:819`).
* Two operators act on one held row; the second works on what the first has
  destroyed (`routes_restore.py:624`).
* `promote_held` records a pass without a new probe (`restore_worker.py:381`).
* `reorder_queue` writes positions for the rows the page showed
  (`db_restore.py:227`).
* Two pages that find the cache of `sync_progress.py:74` too old both ask the PBS.
* The last look before a resume records an error can fail itself
  (`restore_worker.py:532`).
* The benchmark's marker outlives a restart of the app (`restore_perf.py:171`).

### Seen while modelling, without a run

Restores:

* Recovery judges by an old listing and writes `error` whatever the row has
  become: a run that passed meanwhile keeps its test record under the status
  error. `ErrorHasNoEvidence` is therefore checked without self-heal threads.
* A row deleted between the drain's listing and its start is carried out all the
  same; its result goes nowhere.
* The resume's last look at a failed poll can fail itself; then a guest into
  which a task still copies is destroyed and the run ends as an error.
* `_start_restore_task` looks for a running task of its VMID. VMIDs are used
  again, so it can adopt the task of an earlier run that was given up (comment at
  `restore_server.py:1344`).
* `tests/test_restore_server.py:290` calls ten hours without progress a stall "at
  that rate"; early in a slow restore the backstop waits longer than that.
* The distributed restore has no stall backstop. Its exit codes lie in files
  named after VMID and disk, and one of an earlier run that was not removed ends
  the wait at once. An SSH failure while a disk is copied rolls back under a
  `pbs-restore` that still runs, and a rollback leaves a written config.
* `resume_run` asks only whether the helper exists: one that a restart or a reboot
  of the host left half made or stopped is kept, and the run ends as an error.
  `exists()` is false when the API fails, which leads to a second creation.
* A template whose upload a restart cut off is taken for whole, and `_wait_task`
  returns without a word after 120 looks.
* `sandbox_host_ip` may pick the gateway or the helper's own management address
  when the guest's subnet is the management subnet; `helper_legs` tests whether
  the subnets are equal, not whether they overlap.
* The helper takes an address beside each target, which can be another address of
  the guest or a target of its own.
* `choose_target_storage` takes the first storage with as much space as needed,
  `_fits_disk` then wants a fifth more; it takes no free space at all for an
  unknown one.
* A row names one target storage, so the benchmark does not see the others of a
  distributed run, and `start` and the drain look and mark in two statements.
* `perf_running` is cleared by the benchmark's own thread only; after a restart
  the marker stays and the runs onto that storage are skipped.
* Two requests that change the host's settings overwrite each other. A token
  renewed by a form that then fails to validate is lost. A form that changes the
  host and leaves the key empty keeps the old host's key and token.

Due clock and alerts:

* A cancelled run clears the retry date ("cadence governs again"), so an automatic
  run that the operator cancels is queued again by the next pass if the VM was
  due, and a manual test that is cancelled undoes the back-off of an earlier
  failure.
* Between `record_run_result` and the date that goes with it the VM looks due: a
  listing or a restart there skips the retry days.
* The dedup key is claimed before the alert is sent. A request that fails, Gotify
  switched off or a restart with a full queue keep the claim, and the key stays
  silent for a day (`notifications.py:43` speaks of alerts that were sent). So does a
  settings read of `send_gotify` that fails (`:207` to `:62`): the alert is neither
  queued nor dropped.
* The flush clears `_gotify_timer` and then reads the settings (`:123`, `:126` to
  `:74`). If that read fails, the timer's thread ends, and the queue has no timer
  until the next alert is queued; a restart before that loses it.
* A timer that fired late sets `_gotify_timer` to None and so forgets a newer timer;
  nobody can cancel that one any more, and later alerts go out before their five
  minutes are over. None is lost by that.
* When an outage ends while it is told of, and the next begins before that is noted
  (`web/sync.py:561`), the next one bears its mark and is never told of, where
  `docs/user-docs-en.md:238` promises an alert once per outage.
* The report of a month is not made when the app is down, or fails, in the hour
  after the month's end (`user-docs-en.md:156` promises it each month). A mail
  that fails is not sent again, and a report deleted by hand is mailed again.

Syncs and what the pages say:

* A source that answers with a part of its backups has the others marked as
  removed until the next complete answer, and that can cost a guest its rows. A
  PBS whose token may see no datastore, or fewer, reads as a PBS without their backups
  (`pbs.py:106`, `:254`); PVE may show the guests and not the storages
  (`proxmox.py:543`) without an error, and only an error or an empty list of guests
  forbids the prune (`web/sync.py:189`). A guest that is gone and whose backups are
  there is then deleted with its test history, where `docs/user-docs-en.md:106` lets
  that happen only if every node, storage and datastore was reachable, and
  `db_clusters.py:138` only if every source was fully readable.
* A backup job over a pool, or limited to a node, counts for every guest where the
  kind is worked out (`proxmox.py:373`) and for its own guests only where the
  storages are (`proxmox.py:418`, `:424`): a guest outside it shows as daily or weekly
  and is written nowhere. `docs/user-docs-en.md:100` counts a pool and a node among
  what a job selects its guests by.
* Two syncs of a cluster can overlap, because the guard is looked at and set in
  two statements and the one that ends first clears it; one may then mark a
  guest as missing, or prune it, that the other has just inserted. A VMID that
  is used again is taken for the same guest.
* Events of one minute on a file storage and on a PBS share a row. The
  deduplication drops what PVE lists of a guest when any registered PBS has a
  snapshot of it within an hour, and the place of what was dropped is not
  stored, although `update_backup_event_storages` is meant to get all.
* The clean-up deletes the placeholder of a backup that really failed when a
  success follows within 36 hours.
* A failed verification stops counting after seven days (`db_governance.py:154`)
  although no backup has verified since. The comment at `:351` and
  `docs/user-docs-en.md:98` let it count until a later backup has verified. It also
  goes with the backup it was found in. The copy of a weekly backup counts for
  seven days, its age warns after seven and a half. `is_problem` asks for a copy
  status that does not occur. A schedule "sat,sun" counts as daily. The encryption
  share is rounded and may say 100 %.
* A diagram that two builders write at once can stay stale until the next sync.
* The share of a running backup that a page shows may fall after a restart, and
  its age counts from when it was stored, not from when it was asked for.

## 4. Proofs

The theorems hold for every value of the constants that satisfies the
assumption named with each, all of which TLC evaluates in a run. Those of a
module that `Decisions`, `Loops`, `Exchanges` or `BackgroundWork` composes
are about that module's own specification, which is its part there.

### The restore queue

`RangesAssumption`: ranges of naturals, none starting at `Unset`; they may be
empty or reversed. `QueueAssumption`: no row is `NoRun`, thread names differ,
bounds are naturals. There may be any number of rows, operators, outages and
restarts.

* `AllocationFresh` (`RestoreAllocTheorems`): for every registry, what `allocate`
  returns lies in the ranges, names two guests and uses nothing a live row
  holds. It rests on a least-element lemma for sets of naturals.
* `AllocationsRight` (`BackgroundProofs`): `AllocSpec => []AllocatesRight`.
  `AllocationWalks` shows that the lowest free values are what a walk of the range
  collects, by the first number for which a walk would not; the other half is
  `EnvironmentsDisjoint`, inductive with the ranges of the columns (`AllocInv`).
* `TypeCorrect` (`RestoreQueueTypes`): `Spec => []TypeOK`. `TypeOK` is not
  inductive: `Record` and `Start` index `status` by `run[t]`, which may be
  `NoRun`. `TypeInv` adds `RowKnown`: a thread past its scan, choice or read has
  a row. One lemma per group of actions.
* `OneRunning` (`RestoreQueueProofs`): `Spec => []SingleRunning`. No run lists it,
  because `Lifecycle`, whose `Begin` needs that nothing runs, implies it. The
  inductive invariant `RowInv` adds to it:
  - `SlotAlone` - while the slot lists, picks and starts, no row is running: the
    `has_active_run` it read stays true, because only the slot makes rows run;
  - `PendingQueued` - what it has still to look at was queued and only it starts
    rows;
  - `RowLeft` - a row some thread works on has left the queue, so no late write
    touches a queued row.
* `LifecycleCorrect`: `Spec => RL!Spec`. Under `RowInv` every step changes the
  rows as one step of `RunLifecycle` does, or leaves them. `StepCases` sorts the
  actions into those that leave `status` (`Quiet`) and the few that write it.
* `SandboxesCorrect`: `Spec => []SandboxesDistinct`. The slot is the only thread
  that gives a row a restore VMID and a VLAN, and it starts one row at a time;
  `SlotOwns` says that what it has allocated but not yet written is in no live
  row, which `AllocationFresh` gives when it allocates, and which nothing breaks
  because re-tests write helper VMIDs and addresses only. The same argument fails
  for those two, as `retest_collides` shows.
* `HeldSurvives`: `Spec => ExecutorSparesHeld`. `HeldInv` speaks of what the slot
  decided or read earlier: what it plans is no other live row's guest
  (`PlanApart`), it has parked its row only when nothing but the freeing of the
  columns is left (`ParkedLast`), the snapshot it reaps from holds the guest of
  every row that is held now (`SeenHeld`), and such a row names one (`HasVm`).
* `EvidenceTrue`: `Spec => []ErrorHasNoEvidence` if at most one operator acts and
  no healer declares a run stuck (`NoneDeclared`). `EvidenceInv` adds that the slot's
  row runs until the slot is done with it and that a row an operator acts on is
  held until he is. A second operator, or a healer, writes its result over the
  first one's (section 3).
* `EnvironmentsKept`: as long as no re-test writes resources (`NoRetest`), whole
  environments of live rows are apart (`EnvInv`, `PlannedApart`), and nothing
  unowned is left once all threads rest and nothing failed. `EnvironmentsTidy` is
  `EnvironmentsInOrder` under the same condition and without a restart: between a
  row's parking and the write that takes the helper off it, a restart leaves the
  helper reserved, which the part `HeldFreesHelper` denies. `TidyInv` accounts for
  each guest: it is a live row's, or the slot's, which will destroy it
  (`Accounted`), for as long as nothing failed and nothing is resumed; a healer
  that ends the slot's row cancels it, so that the slot builds nothing more
  (`EndedCancelled`).

### What the queue takes for one step

* `PlacedWhereItFits` (`TargetAssumption`: naturals, at least one storage): any
  number of storages and of disks, of any size. The search of `pack_disks` passes
  a way to place the disks when it has tried, where the two part, a later storage
  (`PastWay`). `TargetInv` says that no way passed fits: `PlaceNext` passes only
  ways that put the next disk where there is no room for it beside the earlier
  ones (`NoRoomNoWay`), `TakeBack` none that was not passed before, and when the
  search gives up all are passed. Room is counted with a sum over disks; that a
  sum grows with its set (`SumGrows`) comes from the smallest set for which it
  would not.
* `TaskBootsIsolated`, `TaskSlowIsSpared`, `TaskStallsToldApart`
  (`TaskAssumption`; any sizes, rates and lost polls): `IsolationInv` - a restore
  that runs holds the guest's lock, and there is one at most (`LockHeld`); what is
  booted was isolated before the boot was asked for (`IsolatedInTime`).
  `StallInv` relates what the worker has read of its task's log to the log. That a
  hang past the half ends in time needs a factor of at most 25: the default is 6
  (`models.py:136`), the form takes 1 to 100, and with a larger one a task at half
  may be silent for longer than it has run.
* `DiskAllOrNothing`: `DiskInv` relates volumes, copies and exit codes to the
  worker's place in the plan (`PlanFollowed`, `VolumesNoted`, `CodesTell`). The
  property itself speaks of hosts without exit codes of earlier restores and, for
  the rollback, of restores in which no command fails.
* `HelperAlwaysServes`: `SetupInv` carries what each stage has made so far and that
  addresses and templates are the ones chosen for this helper.
* `PerfTestsOrderly`, `ProbeVerdictTrue`: the three safety parts of
  `TestsOrderly` and of `VerdictTrue`. `PerfInv`: one benchmark is decided on or
  under way at most (`OneAtATime`), and what it left on the host is its own
  (`HostOwned`). `ProbeInv`: no address the guest told is lost on its way through
  the lists of a pass (`TargetsKept`), and what is judged are the answers of this
  pass (`ChecksTrue`). Ports are neither `icmp` nor `arp`, which are checks of
  their own.
* `PinSurvives`, `TokenStaysValid` (`None` is no key, token or settings row):
  `PinInv` says of every request what it has in hand and will write (`Hand`);
  `TokenInv` adds, while requests come one after another and none failed with a
  new token in hand, that the token which counts - stored, or about to be - is
  the last its host gave out.
* `RestsAfterTest`, `RestsAfterFailure`: `Spec => CadenceKept`,
  `Spec => FailedBacksOff`, from `DueAssumption` (naturals; `Null` is no VM, row or
  day). Both are about a step and need an invariant about everything before it,
  `ClockInv`: whatever is in `todo` has waited (`ListedWaited`), because nothing can
  conclude a run of a listed VM before it is inserted (`Listed`: its rows are
  queued at most, and a thread that holds a row of it concludes what is no longer
  held, which is an interruption); and when it was listed its date agreed with its
  last verdict (`Dates`), which holds once the thread that recorded the verdict has
  written the date, as the only one to do so (`Verdicts`).

### What the pages show

* `SyncTellsTruth` and `OnlyGoneArePruned` (`ClusterSyncProofs`): any number of
  guests, minutes and changes of the world while a sync reads it. `AloneTrue`
  says that a thread that runs alone is the only one in its steps; `Seen` relates
  each thing it has read to the watch kept of the world meanwhile; `Keyed` and
  `Fresh` say that rows are one per key and seen by this sync. The first needs
  that PVE dates a snapshot at most one of the model's minutes off (`Lag <= 1`):
  these stand for the hours that `_dedup_pbs_events` compares, and what PVE dates
  further off is stored beside the PBS's own entry. The second speaks of what the
  sources showed all along, whether they failed or left things out in between; that
  what they leave out is not gone is not promised, because the code takes it so.
* `CallsRepeatedWell`: `ApiInv` counts what a write has done on the server before
  it was told of (`NotYetTold`). `OneFetchForAll`: the safety parts of
  `CallersServed`; `CacheInv` says of each caller and fetch when it asked.
* `SectionStaysCurrent`: logs and pages of any length. `LogInv` says that what the
  reader keeps is a stretch of the log from its last head on, each page
  the next stretch; lemmas join and cut stretches.
* `FinishedRowsKept`, `PbsAskedSparingly`, `LoopSendsOnce`: the safety parts of
  `DiagramFollows` and `ArrivesOnce`, and two of `RowsEndTrue`. `JobInv`: one
  poll at most has set out to ask, after the interval (`SetOut`). `LoopInv` counts,
  beside what was sent, what the loop still owes (`TellInv`, `MailInv`, `WeekInv`):
  both together are at most one, but for restarts and deleted reports.
* `JobsInAnyOrder`: `JobsInv` reads off what the jobs taken so far say, in terms
  of sets, for the kind and for the storages, which differ by pools and nodes.
* `PagesAgree`, `OnlyDeedsHeal`: `JudgeTypes` and the monotony of each level of the
  judgement. A guest cannot be judged better by a step that neither is a deed nor
  lets go of a failed verification or of its last backup on PBS, because then the
  set of rows, and with it each `Latest`, only shrinks or grows older (`VerifiedHold`,
  `CopyHealsNot`, `LossHealsNot`, `DayNeverHeals`, `RunHealsNot`).
* `AnyDiagramReadsOnward` and `DiagramReadsOnward`: `ColumnsInOrder` for any
  targets, sync jobs, namespaces and number of datastores (of two servers, as
  the model has them), the first without the inputs of the run. `SearchInv`:
  what the search has open is a path of sync jobs without a repetition
  (`StackIsPath`), so an edge back onto it closes a circle (`BackCloses`), and
  the target with most guests, the first root, is left last of all it leads to
  (`MainFirst`). What the search has left can be numbered so that every other
  edge goes down, with no more numbers than datastores (`Ranks`); each round of
  `_layers` settles the columns of one number more (`Settled`). So as many
  rounds as datastores, which is all the code allows, leave no edge that would
  still push.
* `AnyWalkFollowsData` and `WalkFollowsItsData`: `NoneMissing` for any targets,
  jobs, namespaces and depth, and both directions with references that have no
  bound on the jobs in a row. `CoverInv`: of everything met, either it is still
  queued or the first jobs, up to the one looked at, have been followed from
  there (`Applied`); so what was met covers a set that the jobs do not lead out
  of but deeper than `_MAX_NS_DEPTH` (`NothingMissed`). `CarryInv`: every set of
  backups that has what PVE writes and is closed under the jobs has all that is
  queued (`NothingInvented`). The two rest on what `_map_ns` does to all backups
  below a namespace: where one lands is below where the namespace lands
  (`LandsBelow`), and all that is below there came from below (`LandsFrom`).
* `TimerBehindQueue`, `ClaimsBacked` and, of the two, `NoAlertForgotten`, which
  states `AlertsKept`, and `OutboxImplemented` (`NotificationsProofs`):
  `HandedOverOnce` for any number of threads, timers and keys, from
  `NotifyAssumption`. The invariant is `PlaceInv`: a message is with its caller, in
  the queue, in one batch or has an outcome, and these exclude each other. Settings
  reads fail at any time. `TimerBehindQueue` therefore has the exception `Stranded`,
  which only `FlushFails` brings about and the next `QueueUp` ends. `ClaimsBacked`
  counts an alert lost on such a read among those whose end is known, and shows
  that the queue adds no other.
* `ClockTypes`, `NotifyTypes`: the type invariants of these modules.

### Only model-checked

* `NoneInvented`, the part of `WalkFollowsData` that says its bounded reference
  already holds something for each job shown: with more jobs in a row, or deeper
  namespaces, than the run has, the backup that accounts for a job may lie beyond
  the bounds. `NothingInvented` says it without them.
* `EnvironmentsInOrder` where operators re-test or the app restarts: two of its
  parts are false there (`retest_collides`, and the restart above).
* Liveness under fairness, which needs ENABLED: `QueueProgress`, `RunEnds`,
  `OrphansSwept`, `OverdueIsQueued`, `QueueFlushed`, `CancelEnds`, `OutageTold`, and
  the liveness parts of `RowsEndTrue`, `DiagramFollows`, `ArrivesOnce`,
  `CallersServed`, `TestsOrderly`, `VerdictTrue` and `PruneExact`.

The library's induction theorems take the statement as a parameter, which the
provers cannot fill in. Where a proof here needs induction over numbers or
finite sets, it takes a least counterexample (`LowestIsLeast`, `SmallestSet`) and
refutes it; that a recursive function exists at all is proved the same way
(`StepsExist`, `SumsExist`).

## 5. Plan

Done: the restore queue with its allocator, due clock and alert queue, each with
proofs; each step of a restore that the queue takes for one; settings, benchmark,
placement; the syncs with what they keep up to date and what the pages say of it.

Proved: the safety properties of every module, but for what section 4 lists as
only model-checked.

Next, for every value of the constants: what a re-test keeps, that is
`EnvironmentsDistinct` as long as nobody allocates between its reading and its
writing.

Not modelled, because no state's interleaving or order hangs on it, or because it
is checked better by tests of single functions: rendering, PDF and mail layout;
the parsing of PVE, PBS and shell output; encryption of settings, sessions and
themes; browser code, scripts and migrations; the network diagnosis, fio's rates
and the encryption audit. Left out although they have state: the order of the
queue, which `Choose` covers by taking any row; the cache of `sync_progress.py`,
whose entries are told apart by task and overwritten with newer ones; the
removal of a VM from the inventory, which cascades to its rows.
