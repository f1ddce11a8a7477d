---------------------------- MODULE BackupRows -----------------------------
(***************************************************************************)
(* The row of a backup that is seen while it still runs.  A source lists   *)
(* a running backup without a size; the sync stores it as a stub.  Later   *)
(* syncs find the finished backup under the same start, or never again     *)
(* (db_reports.py, web/sync.py: enrich_backup_events_from_task_logs).      *)
(* Three things decide what becomes of the stub: the next listing, the     *)
(* vzdump task log, and a clean-up of stubs that are old or followed by a  *)
(* successful backup.                                                      *)
(*                                                                         *)
(* One guest, its backups started every Period hours; hours are counted.   *)
(***************************************************************************)
EXTENDS Naturals, FiniteSets

CONSTANTS Backups, Period, StaleHours, JoinHours, RetryHours, MaxHour
ASSUME RowAssumption ==
  /\ Backups \in Nat \ {0} /\ Period \in Nat \ {0} /\ MaxHour \in Nat
  /\ StaleHours \in Nat /\ JoinHours \in Nat /\ RetryHours \in Nat

Runs == 1 .. Backups
StartOf(r) == (r - 1) * Period
NoRow == [kind |-> "none", status |-> "ok", ended |-> FALSE, gone |-> FALSE, details |-> FALSE]

VARIABLES
  hour, run,          \* the hour; each backup: none, running, ok, failed
  kept, ended,        \* which backups the storage still lists; when each task ended
  row, handled,       \* the rows; the tasks processed
  syncPc, list        \* the sync: where it is and what it was shown

rowVars == <<hour, run, kept, ended, row, handled, syncPc, list>>
worldVars == <<hour, run, kept, ended>>

RowInit ==
  /\ hour = 0 /\ run = [r \in Runs |-> "none"] /\ kept = {} /\ ended = [r \in Runs |-> 0]
  /\ row = [r \in Runs |-> NoRow] /\ handled = {}
  /\ syncPc = "rest" /\ list = {}

-----------------------------------------------------------------------------
(* The world: backups run, succeed or fail, their logs come and go.        *)

Starts(r) ==
  /\ run[r] = "none" /\ hour = StartOf(r) /\ \A q \in Runs : run[q] # "running"
  /\ run' = [run EXCEPT ![r] = "running"] /\ kept' = kept \cup {r}
  /\ UNCHANGED <<hour, ended, row, handled, syncPc, list>>

\* A failed backup leaves nothing, or an incomplete snapshot that is still listed.
Ends(r) ==
  /\ run[r] = "running"
  /\ \/ run' = [run EXCEPT ![r] = "ok"] /\ kept' = kept
     \/ run' = [run EXCEPT ![r] = "failed"] /\ kept' \in {kept, kept \ {r}}
  /\ ended' = [ended EXCEPT ![r] = hour]
  /\ UNCHANGED <<hour, row, handled, syncPc, list>>

\* Retention removes a finished backup.
Expires(r) ==
  /\ r \in kept /\ run[r] = "ok" /\ kept' = kept \ {r}
  /\ UNCHANGED <<hour, run, ended, row, handled, syncPc, list>>

\* A backup that is due at this hour starts in it, unless another still runs;
\* at MaxHour the hours stop.
Hour ==
  /\ hour < MaxHour /\ hour' = hour + 1
  /\ \A r \in Runs : StartOf(r) = hour => run[r] # "none" \/ \E q \in Runs : run[q] = "running"
  /\ UNCHANGED <<run, kept, ended, row, handled, syncPc, list>>

-----------------------------------------------------------------------------
(* The sync.                                                               *)

\* What the sources list: each backup, and whether it has a size yet.
Listed == {[run |-> r, real |-> run[r] = "ok"] : r \in kept}

ReadSources ==
  /\ syncPc = "rest" /\ syncPc' = "store" /\ list' = Listed
  /\ UNCHANGED <<worldVars, row, handled>>

\* The upsert: a size, once known, stays, and makes the row ok; without one a
\* row that was marked failed stays failed.
Merged(old, real) ==
  [kind |-> IF real \/ old.kind = "real" THEN "real" ELSE "stub",
   status |-> IF real \/ old.status # "failed" THEN "ok" ELSE "failed",
   ended |-> old.ended, gone |-> FALSE, details |-> old.details]

\* Rows of backups no longer listed are marked removed.
StoreListed ==
  /\ syncPc = "store" /\ syncPc' = "clean"
  /\ row' = [r \in Runs |->
       IF \E e \in list : e.run = r THEN Merged(row[r], [run |-> r, real |-> TRUE] \in list)
       ELSE IF row[r].kind = "none" THEN row[r] ELSE [row[r] EXCEPT !.gone = TRUE]]
  /\ list' = {} /\ UNCHANGED <<worldVars, handled>>

Present(r) == row[r].kind # "none" /\ ~row[r].gone
Followed(r) ==
  \E q \in Runs : /\ Present(q) /\ row[q].kind = "real" /\ row[q].status = "ok"
                  /\ StartOf(q) > StartOf(r) /\ StartOf(q) < StartOf(r) + JoinHours

\* Mutant of CleanUpStubs: an old stub is left to the logs.
CleanUpStubsFollowed ==
  /\ syncPc = "clean" /\ syncPc' = "logs"
  /\ row' = [r \in Runs |->
       IF Present(r) /\ row[r].kind = "stub" /\ Followed(r) THEN NoRow ELSE row[r]]
  /\ UNCHANGED <<worldVars, handled, list>>

\* cleanup_stale_inprogress_backups: a stub followed by a successful backup is
\* deleted, another that is older than StaleHours has failed.
CleanUpStubs ==
  /\ syncPc = "clean" /\ syncPc' = "logs"
  /\ row' = [r \in Runs |->
       IF ~Present(r) \/ row[r].kind # "stub" THEN row[r]
       ELSE IF Followed(r) THEN NoRow
       ELSE IF ~row[r].ended /\ row[r].status # "failed" /\ StartOf(r) + StaleHours < hour
            THEN [row[r] EXCEPT !.status = "failed", !.ended = TRUE] ELSE row[r]]
  /\ UNCHANGED <<worldVars, handled, list>>

\* A task is done with when its backup had a row, or it ended over RetryHours ago.
Processed(r) == run[r] = "failed" \/ row[r].kind # "none" \/ hour > ended[r] + RetryHours

\* The logs of ended tasks not processed yet are read as far as the nodes
\* answer (they may never: a log can be rotated away).  A successful run gives
\* its row the details, a failed one ends the stub it left.
EnrichFromLogs ==
  /\ syncPc = "logs" /\ syncPc' = "rest"
  /\ \E found \in SUBSET ({r \in Runs : run[r] \in {"ok", "failed"}} \ handled) :
       /\ row' = [r \in Runs |->
            IF r \notin found \/ row[r].kind = "none" THEN row[r]
            ELSE IF run[r] = "ok" THEN [row[r] EXCEPT !.details = TRUE]
            ELSE IF row[r].kind = "stub" /\ ~row[r].ended /\ row[r].status # "failed"
                 THEN [row[r] EXCEPT !.status = "failed", !.ended = TRUE] ELSE row[r]]
       /\ handled' = handled \cup {r \in found : Processed(r)}
  /\ UNCHANGED <<worldVars, list>>

\* The sync fails, or the program restarts: what was stored stays.
SyncStops ==
  /\ syncPc # "rest" /\ syncPc' = "rest" /\ list' = {}
  /\ UNCHANGED <<worldVars, row, handled>>

-----------------------------------------------------------------------------

SyncGoesOn == ReadSources \/ StoreListed \/ CleanUpStubs \/ EnrichFromLogs
RowNext ==
  \/ \E r \in Runs : Starts(r) \/ Ends(r) \/ Expires(r)
  \/ Hour \/ SyncGoesOn \/ SyncStops

\* Syncs come round and mostly succeed: each step is taken again and again.
RowFairness ==
  /\ WF_rowVars(Hour) /\ SF_rowVars(StoreListed) /\ SF_rowVars(CleanUpStubs)
  /\ SF_rowVars(EnrichFromLogs) /\ WF_rowVars(ReadSources)
RowSpec == RowInit /\ [][RowNext]_rowVars /\ RowFairness

-----------------------------------------------------------------------------

\* What the pages show as running (vm_governance_rows, list_backup_events).
ShownRunning(r) == Present(r) /\ row[r].kind = "stub" /\ row[r].status # "failed" /\ ~row[r].ended

\* A finished backup is never lost again: its row is neither dropped nor turned
\* into a failure, by the clean-up of stubs or by the log of another run.
FinishedIsKept ==
  [][\A r \in Runs : row[r].kind = "real" /\ row[r].status = "ok" =>
       row'[r].kind = "real" /\ row'[r].status = "ok"]_rowVars

\* A backup that succeeded is shown as a success in the end, however long it
\* ran and whatever its stub was taken for, unless retention removes it.
SuccessIsShown ==
  \A r \in Runs : (run[r] = "ok" /\ r \in kept) ~>
                    ((row[r].kind = "real" /\ row[r].status = "ok") \/ r \notin kept)

\* A backup that is over does not stay shown as running, even if its log is
\* never read and the source still lists what it left.
NoneRunsForEver == \A r \in Runs : (run[r] = "failed" /\ ShownRunning(r)) ~> ~ShownRunning(r)

\* The log of a successful backup is set aside only once its row has the
\* details, or the backup was not to be seen for RetryHours.
DetailsBeforeDone ==
  [][\A r \in Runs : (run[r] = "ok" /\ r \in handled' \ handled) =>
       row'[r].details \/ hour > ended[r] + RetryHours]_rowVars

\* A backup's row comes to say what became of the backup, with its details, and
\* goes on saying so.
RowsEndTrue == FinishedIsKept /\ SuccessIsShown /\ NoneRunsForEver /\ DetailsBeforeDone
=============================================================================
