----------------------------- MODULE RestoreTask -----------------------------
(* The copy of one restore run on the scratch host: _start_restore_task kicks  *)
(* qmrestore in the background and looks for its task, _poll_task follows the  *)
(* task's status and log to its end, a cancel or the stall backstop, and the   *)
(* tail rewrites the NICs, waits for the config lock and boots the guest.  The *)
(* VMID is reused: a task of an earlier run that was given up may still run.   *)
(* The poller looks many times per unit of the clock.                          *)
EXTENDS Integers

CONSTANTS
    Marks,        \* percentages the task's log shows, 0 and 100 among them
    Factor,       \* config stall_backstop_factor
    Floor,        \* stall_exceeded's floor_seconds, in units of the clock
    Appear,       \* deadline_seconds of _start_restore_task, in units
    MaxClock,     \* bound on the clock
    MaxOutages    \* bound on the times the host's API goes away

ASSUME TaskAssumption ==
    /\ Marks \subseteq 0 .. 100 /\ {0, 100} \subseteq Marks
    /\ {Factor, Floor, Appear, MaxClock, MaxOutages} \subseteq Nat

VARIABLES
    task,      \* this run's PVE task, seen by the host
    old,       \* the task of an earlier run with the same VMID
    copied,    \* percent the log of this run's task has reached ...
    movedAt,   \* ... and when it got there
    hung,      \* the task has stopped moving without ending
    locked,    \* the guest's config lock
    nics,      \* the guest's NICs: "none" without a config, "source", "sandbox"
    power,     \* the guest runs
    up,        \* the API answers
    outages,   \* times it went away
    clock,
    step,      \* where the worker is
    upid,      \* the task it follows: "none", "new" or "old"
    since,     \* start of the current wait: the kick, then the poll
    lastAt,    \* last_progress_at
    percent,   \* last_percent
    polled,    \* it has looked since the clock moved
    cancel,    \* the operator's cancel request
    ending    \* "" while the worker goes on

hostVars == <<task, old, copied, movedAt, hung, locked, nics, power>>
linkVars == <<up, outages>>
workVars == <<step, upid, since, lastAt, percent, polled, ending>>
taskVars == <<hostVars, linkVars, clock, workVars, cancel>>

Larger(a, b) == IF a > b THEN a ELSE b

\* The adaptive backstop, without the division: quiet > max(floor, factor * what
\* one percent has taken so far).
stall_exceeded(quiet, pct, elapsed) ==
    /\ quiet > Floor
    /\ IF pct <= 0 THEN quiet > elapsed * Factor ELSE quiet * pct > elapsed * Factor

TaskInit ==
    /\ task = "none" /\ old \in {"none", "running"}
    /\ copied = 0 /\ movedAt = 0 /\ hung = FALSE
    /\ locked = (old = "running") /\ nics = "none" /\ power = FALSE
    /\ up = TRUE /\ outages = 0 /\ clock = 0
    /\ step = "kick" /\ upid = "none" /\ since = 0 /\ lastAt = 0 /\ percent = 0
    /\ polled = FALSE /\ cancel = FALSE /\ ending = ""

-----------------------------------------------------------------------------
(* The host.                                                                   *)

\* The kicked command becomes a task; on a VMID that is taken it fails instead.
Register ==
    /\ task = "kicked"
    /\ IF old = "running" \/ nics # "none"
         THEN task' = "dead" /\ UNCHANGED <<locked, movedAt>>
         ELSE \/ task' = "running" /\ locked' = TRUE /\ movedAt' = clock
              \/ task' = "dead" /\ UNCHANGED <<locked, movedAt>>
    /\ UNCHANGED <<old, copied, hung, nics, power, linkVars, clock, workVars, cancel>>

Advance ==
    /\ task = "running" /\ ~hung
    /\ \E m \in Marks : m > copied /\ copied' = m
    /\ movedAt' = clock
    /\ UNCHANGED <<task, old, hung, locked, nics, power, linkVars, clock, workVars, cancel>>

Hang ==
    /\ task = "running" /\ ~hung /\ hung' = TRUE
    /\ UNCHANGED <<task, old, copied, movedAt, locked, nics, power, linkVars, clock, workVars, cancel>>

\* A task ends: the guest is complete, or PVE discards it and may leave the lock.
TaskEnds ==
    /\ task = "running" /\ ~hung
    /\ \/ /\ copied = 100
          /\ task' = "ok" /\ locked' = FALSE /\ nics' = "source"
       \/ task' = "failed" /\ locked' \in BOOLEAN /\ UNCHANGED nics
    /\ UNCHANGED <<old, copied, movedAt, hung, power, linkVars, clock, workVars, cancel>>

OldEnds ==
    /\ old = "running"
    /\ \/ old' = "ok" /\ locked' = FALSE /\ nics' = "source"
       \/ old' = "failed" /\ locked' = FALSE /\ UNCHANGED nics
    /\ UNCHANGED <<task, copied, movedAt, hung, power, linkVars, clock, workVars, cancel>>

ApiToggles ==
    /\ \/ up /\ outages < MaxOutages /\ up' = FALSE /\ outages' = outages + 1
       \/ ~up /\ up' = TRUE /\ UNCHANGED outages
    /\ UNCHANGED <<hostVars, clock, workVars, cancel>>

\* Time passes while the worker waits; it has looked at least once in between.
Tick ==
    /\ clock < MaxClock /\ polled /\ ending = ""
    /\ clock' = clock + 1 /\ polled' = FALSE
    /\ UNCHANGED <<hostVars, linkVars, step, upid, since, lastAt, percent, ending, cancel>>

RequestCancelTask ==
    /\ ~cancel /\ cancel' = TRUE
    /\ UNCHANGED <<hostVars, linkVars, clock, workVars>>

-----------------------------------------------------------------------------
(* The worker.                                                                 *)

Ends(result) == step' = "end" /\ ending' = result /\ UNCHANGED <<upid, since, lastAt, percent, polled>>
Looks == polled' = TRUE /\ UNCHANGED <<step, upid, since, lastAt, percent, ending>>

\* nohup pvesh create ... -archive ..., as root, in the background.
Kick ==
    /\ step = "kick"
    /\ task' = "kicked" /\ step' = "find" /\ since' = clock
    /\ UNCHANGED <<old, copied, movedAt, hung, locked, nics, power, linkVars, clock,
                   upid, lastAt, percent, polled, ending, cancel>>

\* A running restore task of this VMID, the newest: polled from here on.
Find ==
    /\ step = "find" /\ up
    /\ task = "running" \/ old = "running"
    /\ upid' = IF task = "running" THEN "new" ELSE "old"
    /\ step' = "poll" /\ since' = clock /\ lastAt' = clock /\ percent' = 0 /\ polled' = FALSE
    /\ UNCHANGED <<hostVars, linkVars, clock, ending, cancel>>

\* None yet: look again in two seconds, for two minutes; an API error ends the run.
FindNothing ==
    /\ step = "find"
    /\ IF ~up \/ (task # "running" /\ old # "running" /\ clock - since >= Appear)
         THEN Ends("error")
         ELSE task # "running" /\ old # "running" /\ Looks
    /\ UNCHANGED <<hostVars, linkVars, clock, cancel>>

Followed == IF upid = "new" THEN task ELSE old

\* Mutant: the backstop is asked before the new lines are read.
PollStallFirst ==
    /\ step = "poll" /\ ~cancel /\ up
    /\ LET lines == upid = "new" /\ copied > percent
       IN  /\ lastAt' = IF lines THEN clock ELSE lastAt
           /\ percent' = IF lines THEN copied ELSE percent
           /\ polled' = TRUE
           /\ \/ Followed = "ok" /\ step' = "network" /\ UNCHANGED ending
              \/ Followed = "failed" /\ step' = "end" /\ ending' = "error"
              \/ /\ Followed = "running"
                 /\ IF stall_exceeded(clock - lastAt, percent, clock - since)
                      THEN step' = "end" /\ ending' = "stalled"
                      ELSE UNCHANGED <<step, ending>>
    /\ UNCHANGED <<hostVars, linkVars, clock, upid, since, cancel>>

\* One pass: status and new log lines, then the end of the task, then the backstop.
Poll ==
    /\ step = "poll" /\ ~cancel /\ up
    /\ LET lines == upid = "new" /\ copied > percent
           at == IF lines THEN clock ELSE lastAt
           pct == IF lines THEN copied ELSE percent
       IN  /\ lastAt' = at /\ percent' = pct /\ polled' = TRUE
           /\ \/ Followed = "ok" /\ step' = "network" /\ UNCHANGED ending
              \/ Followed = "failed" /\ step' = "end" /\ ending' = "error"
              \/ /\ Followed = "running"
                 /\ IF stall_exceeded(clock - at, pct, clock - since)
                      THEN step' = "end" /\ ending' = "stalled"
                      ELSE UNCHANGED <<step, ending>>
    /\ UNCHANGED <<hostVars, linkVars, clock, upid, since, cancel>>

\* A blip is ridden out for as long as the backstop allows.
PollBlip ==
    /\ step = "poll" /\ ~cancel /\ ~up
    /\ IF stall_exceeded(clock - lastAt, percent, clock - since) THEN Ends("unreachable") ELSE Looks
    /\ UNCHANGED <<hostVars, linkVars, clock, cancel>>

\* Mutant: the stop is tried again until the host answers.
StopTaskInsists ==
    /\ step = "poll" /\ cancel /\ up
    /\ task' = IF task = "running" /\ upid = "new" THEN "failed" ELSE task
    /\ Ends("cancelled")
    /\ UNCHANGED <<old, copied, movedAt, hung, locked, nics, power, linkVars, clock, cancel>>

\* stop_task asks PVE to stop the task and waits half a minute for it; a host that
\* does not answer is not waited for.
StopTask ==
    /\ step = "poll" /\ cancel
    /\ \/ ~up /\ UNCHANGED hostVars
       \/ /\ up
          /\ \/ Followed # "running" /\ UNCHANGED hostVars
             \/ /\ Followed = "running" /\ upid = "new"
                /\ \/ task' = "failed" /\ locked' \in BOOLEAN
                   \/ UNCHANGED <<task, locked>>
                /\ UNCHANGED <<old, copied, movedAt, hung, nics, power>>
             \/ /\ Followed = "running" /\ upid = "old"
                /\ \/ old' = "failed" /\ locked' = FALSE
                   \/ UNCHANGED <<old, locked>>
                /\ UNCHANGED <<task, copied, movedAt, hung, nics, power>>
    /\ Ends("cancelled")
    /\ UNCHANGED <<linkVars, clock, cancel>>

\* Mutant: a config that cannot be written is logged and the boot goes on.
RewriteNicsBestEffort ==
    /\ step = "network"
    /\ nics' = (IF up /\ nics # "none" /\ ~locked THEN "sandbox" ELSE nics)
    /\ step' = "boot" /\ UNCHANGED <<upid, since, lastAt, percent, polled, ending>>
    /\ UNCHANGED <<task, old, copied, movedAt, hung, locked, power, linkVars, clock, cancel>>

\* rewrite_nics: every NIC to the sandbox bridge and tag, CD-ROMs out, passthrough
\* off.  PVE refuses a config that is missing or locked.
RewriteNics ==
    /\ step = "network"
    /\ IF cancel THEN Ends("cancelled") /\ UNCHANGED nics
       ELSE IF up /\ nics # "none" /\ ~locked
         THEN nics' = "sandbox" /\ step' = "boot"
              /\ UNCHANGED <<upid, since, lastAt, percent, polled, ending>>
         ELSE Ends("error") /\ UNCHANGED nics
    /\ UNCHANGED <<task, old, copied, movedAt, hung, locked, power, linkVars, clock, cancel>>

\* wait_unlocked and start: a lock that stays, like any API error, ends the run.
Boot ==
    /\ step = "boot"
    /\ IF up /\ ~locked
         THEN power' = TRUE /\ step' = "end" /\ ending' = "booted"
              /\ UNCHANGED <<upid, since, lastAt, percent, polled>>
         ELSE Ends("error") /\ UNCHANGED power
    /\ UNCHANGED <<task, old, copied, movedAt, hung, locked, nics, linkVars, clock, cancel>>

TaskWorker == Kick \/ Find \/ FindNothing \/ Poll \/ PollBlip \/ StopTask \/ RewriteNics \/ Boot
ScratchHost == Register \/ Advance \/ Hang \/ TaskEnds \/ OldEnds \/ ApiToggles

TaskNext == TaskWorker \/ ScratchHost \/ Tick \/ RequestCancelTask
TaskSpec == TaskInit /\ [][TaskNext]_taskVars

\* The worker's thread goes on and time passes; the host owes it nothing.
TaskFairness == WF_taskVars(TaskWorker) /\ WF_taskVars(Tick)
TaskFairSpec == TaskSpec /\ TaskFairness

-----------------------------------------------------------------------------
(* Properties.                                                                 *)

\* A restore that moves is never given up as stalled, however slow it is and
\* whatever the API missed: it has been silent for longer than the floor
\* (_poll_task, stall_exceeded).
SlowIsSpared ==
    [][ending' = "stalled" /\ ending # "stalled" =>
         Followed = "running" /\ clock - movedAt > Floor]_taskVars

\* A task that hangs once it has done half is given up before the time it has had
\* so far has passed again, reachable or not (_poll_task, stall_exceeded).
HalfWayHangEnds ==
    step = "poll" /\ polled /\ percent >= 50 /\ ~cancel =>
        clock - lastAt <= Larger(Floor, lastAt - since)

\* A guest runs only with its NICs in the sandbox, unlocked, and while no restore
\* writes to its disks, an earlier run's included (rewrite_nics, wait_unlocked).
BootsIsolated ==
    power => nics = "sandbox" /\ ~locked /\ task # "running" /\ old # "running"

\* The operator's cancel ends the run wherever it is, with the host away and with a
\* task that hangs; only a guest that is about to boot gets through
\* (_poll_task, should_cancel).
CancelEnds == cancel ~> ending # ""

\* The stall backstop tells a slow restore from one that hangs: it spares the first
\* and ends the second.
StallsToldApart == SlowIsSpared /\ []HalfWayHangEnds
=============================================================================
