------------------------------ MODULE PerfTest ------------------------------
(* The write-performance test of the scratch host's storages (restore_perf and *)
(* benchmark_storage_write).  Which test runs and which one shall stop are two *)
(* keys of app_settings; web requests and the queue look at them before they   *)
(* start a test or a restore, in a statement of their own.                     *)
EXTENDS FiniteSets, Naturals

CONSTANTS
    Storages, NoStorage,
    Requests,       \* web threads; a test runs in a thread its request starts
    MaxCrashes      \* bound on restarts of the app

ASSUME PerfAssumption ==
    /\ NoStorage \notin Storages /\ IsFiniteSet(Storages)
    /\ IsFiniteSet(Requests) /\ MaxCrashes \in Nat

VARIABLES
    marker,         \* restore_server.perf_running
    cancelKey,      \* restore_server.perf_cancel
    req,            \* request -> [step, on]
    bench,          \* the test thread it started -> [step, on]
    volumes,        \* volumes under the sentinel VMID: <<storage, request>>
    fio,            \* tests whose fio runs on the host
    looked,         \* storages of the plan the drain found free, {} outside it
    restoreOn,      \* storages the running restore writes to ...
    listed,         \* ... and those its row names
    asked,          \* tests that were on when a cancel was saved
    raced,          \* two decisions were open at once; none begins after that
    spoilt,         \* the command that cleans up failed once
    crashes

perfVars == <<marker, cancelKey, req, bench, volumes, fio, looked, restoreOn, listed,
              asked, raced, spoilt, crashes>>

NoRequest == [step |-> "idle", on |-> NoStorage]
NoBench == [step |-> "none", on |-> NoStorage]

PerfInit ==
    /\ marker = NoStorage /\ cancelKey = NoStorage
    /\ req = [q \in Requests |-> NoRequest] /\ bench = [q \in Requests |-> NoBench]
    /\ volumes = {} /\ fio = {} /\ looked = {} /\ restoreOn = {} /\ listed = {}
    /\ asked = {} /\ raced = FALSE /\ spoilt = FALSE /\ crashes = 0

Deciding == looked # {} \/ \E q \in Requests : req[q].step \in {"mark", "clear"}
OnNow == {q \in Requests : bench[q].step # "none"}

hostState == <<volumes, fio>>
queueState == <<looked, restoreOn, listed>>
keyState == <<marker, cancelKey>>

-----------------------------------------------------------------------------
(* Requests.                                                                   *)

\* start: no test runs and no running restore names this storage.
StartLook(q, s) ==
    /\ ~raced /\ req[q].step = "idle" /\ bench[q].step = "none"
    /\ marker = NoStorage /\ s \notin listed
    /\ req' = [req EXCEPT ![q] = [step |-> "mark", on |-> s]]
    /\ raced' = (raced \/ Deciding)
    /\ UNCHANGED <<keyState, bench, hostState, queueState, asked, spoilt, crashes>>

StartMark(q) ==
    /\ req[q].step = "mark"
    /\ marker' = req[q].on /\ req' = [req EXCEPT ![q].step = "clear"]
    /\ UNCHANGED <<cancelKey, bench, hostState, queueState, asked, raced, spoilt, crashes>>

\* The second statement clears the cancel, then the thread starts.
StartClear(q) ==
    /\ req[q].step = "clear"
    /\ cancelKey' = NoStorage
    /\ req' = [req EXCEPT ![q] = NoRequest]
    /\ bench' = [bench EXCEPT ![q] = [step |-> "start", on |-> req[q].on]]
    /\ asked' = asked \ {q}
    /\ UNCHANGED <<marker, hostState, queueState, raced, spoilt, crashes>>

\* cancel: the test of this storage is on ...
CancelLook(q) ==
    /\ req[q].step = "idle" /\ marker # NoStorage
    /\ req' = [req EXCEPT ![q] = [step |-> "cancel", on |-> marker]]
    /\ UNCHANGED <<keyState, bench, hostState, queueState, asked, raced, spoilt, crashes>>

\* ... and shall stop.
CancelSave(q) ==
    /\ req[q].step = "cancel"
    /\ cancelKey' = req[q].on
    /\ asked' = asked \cup {b \in OnNow : bench[b].on = req[q].on}
    /\ req' = [req EXCEPT ![q] = NoRequest]
    /\ UNCHANGED <<marker, bench, hostState, queueState, raced, spoilt, crashes>>

-----------------------------------------------------------------------------
(* A test.                                                                     *)

Of(s) == {v \in volumes : v[1] = s}

\* Leaked volumes of the storage go, a volume is allocated, fio starts detached; or
\* one of these commands fails, at the latest after the alloc, which is undone.
BenchStart(q) ==
    /\ bench[q].step = "start"
    /\ LET s == bench[q].on
           held == {v \in Of(s) : v[2] \in fio}    \* a volume in use may not be freed
       IN  \E stay \in SUBSET held :
             \/ /\ volumes' = (volumes \ (Of(s) \ stay)) \cup {<<s, q>>}
                /\ fio' = fio \cup {q} /\ bench' = [bench EXCEPT ![q].step = "fio"]
             \/ /\ volumes' = volumes \ (Of(s) \ stay)
                /\ bench' = [bench EXCEPT ![q].step = "reset"] /\ UNCHANGED fio
    /\ UNCHANGED <<keyState, req, queueState, asked, raced, spoilt, crashes>>

FioEnds(q) ==
    /\ q \in fio /\ fio' = fio \ {q}
    /\ UNCHANGED <<keyState, req, bench, volumes, queueState, asked, raced, spoilt, crashes>>

\* One command stops fio, frees the volume and removes the files; its failure is
\* logged.
CleanUp(q, how) ==
    \/ fio' = fio \ {q} /\ volumes' = volumes \ {<<bench[q].on, q>>} /\ UNCHANGED spoilt
    \/ spoilt' = TRUE /\ UNCHANGED hostState

\* Each poll looks at the cancel key first; then a result, or none by the deadline.
BenchEnds(q, how) ==
    /\ bench[q].step = "fio"
    /\ how = "cancelled" <=> cancelKey = bench[q].on
    /\ CleanUp(q, how)
    /\ bench' = [bench EXCEPT ![q].step = IF how = "cancelled" THEN "stopped" ELSE "reset"]
    /\ UNCHANGED <<keyState, req, queueState, asked, raced, crashes>>

\* Mutant: a test that was stopped resets nothing.
BenchResetUnlessStopped(q) ==
    /\ bench[q].step \in {"reset", "stopped"}
    /\ IF bench[q].step = "reset" THEN marker' = NoStorage /\ cancelKey' = NoStorage
                                  ELSE UNCHANGED keyState
    /\ bench' = [bench EXCEPT ![q] = NoBench]
    /\ UNCHANGED <<req, hostState, queueState, asked, raced, spoilt, crashes>>

\* _reset_live, whatever the result.
BenchReset(q) ==
    /\ bench[q].step \in {"reset", "stopped"}
    /\ marker' = NoStorage /\ cancelKey' = NoStorage
    /\ bench' = [bench EXCEPT ![q] = NoBench]
    /\ UNCHANGED <<req, hostState, queueState, asked, raced, spoilt, crashes>>

-----------------------------------------------------------------------------
(* The queue, and the end of the process.                                      *)

\* drain: the test is not on a storage of this plan.
DrainLook(S) ==
    /\ ~raced /\ looked = {} /\ restoreOn = {} /\ S # {} /\ marker \notin S
    /\ looked' = S /\ raced' = (raced \/ Deciding)
    /\ UNCHANGED <<keyState, req, bench, hostState, restoreOn, listed, asked, spoilt, crashes>>

\* execute: the row becomes running and names the plan's one target storage.
RestoreBegins ==
    /\ looked # {}
    /\ restoreOn' = looked /\ looked' = {} /\ \E s \in looked : listed' = {s}
    /\ UNCHANGED <<keyState, req, bench, hostState, asked, raced, spoilt, crashes>>

RestoreOver ==
    /\ restoreOn # {} /\ restoreOn' = {} /\ listed' = {}
    /\ UNCHANGED <<keyState, req, bench, hostState, looked, asked, raced, spoilt, crashes>>

\* Threads are gone; the keys, the row and what runs on the host stay.
PerfCrash ==
    /\ crashes < MaxCrashes /\ crashes' = crashes + 1
    /\ req' = [q \in Requests |-> NoRequest] /\ bench' = [q \in Requests |-> NoBench]
    /\ looked' = {}
    /\ UNCHANGED <<keyState, hostState, restoreOn, listed, asked, raced, spoilt>>

Requesting(q) == StartMark(q) \/ StartClear(q) \/ CancelSave(q)
Benching(q) == BenchStart(q) \/ BenchReset(q) \/ \E how \in {"result", "none", "cancelled"} : BenchEnds(q, how)

PerfNext ==
    \/ \E q \in Requests : \/ \E s \in Storages : StartLook(q, s)
                           \/ CancelLook(q) \/ Requesting(q) \/ Benching(q) \/ FioEnds(q)
    \/ \E S \in SUBSET Storages : DrainLook(S)
    \/ RestoreBegins \/ RestoreOver \/ PerfCrash

PerfSpec == PerfInit /\ [][PerfNext]_perfVars

\* Threads go on.
PerfFairness == \A q \in Requests : WF_perfVars(Requesting(q)) /\ WF_perfVars(Benching(q))

PerfFairSpec == PerfSpec /\ PerfFairness

-----------------------------------------------------------------------------
(* Properties.                                                                 *)

\* As long as no two decisions overlap, one test runs at a time, and none on the
\* storage of a restore that writes to one (start, drain).
BenchmarkAlone ==
    ~raced => /\ Cardinality(OnNow) <= 1
              /\ Cardinality(restoreOn) <= 1 => \A q \in OnNow : bench[q].on \notin restoreOn

\* A test is stopped only by a request that was saved while it was on, however late
\* a cancel of an earlier test comes (start, cancel, _reset_live).
CancelsOwn == \A q \in Requests : bench[q].step = "stopped" => q \in asked

\* When no test runs, no volume and no fio of one is left on the host, unless the
\* app died or the cleaning command failed (benchmark_storage_write: "fio is always
\* stopped and the volume always freed").
NothingLeftOnHost ==
    crashes = 0 /\ ~spoilt /\ ~raced /\ OnNow = {} => volumes = {} /\ fio = {}

\* The marker of a test is taken back, however the test ends (_run, _reset_live).
MarkerFreed == marker # NoStorage ~> marker = NoStorage \/ crashes > 0

\* A write test runs by itself, ends for its own reasons only, and then nothing of it
\* is left, neither on the host nor in the settings.
TestsOrderly == []BenchmarkAlone /\ []CancelsOwn /\ []NothingLeftOnHost /\ MarkerFreed
=============================================================================
