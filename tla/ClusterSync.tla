---------------------------- MODULE ClusterSync ----------------------------
(***************************************************************************)
(* One cluster's backup sync (web/sync.py, sync_cluster_backups): what PVE *)
(* and the registered PBS are asked, how their answers become rows of vms  *)
(* and backup_events, which rows are marked removed, and when a guest and  *)
(* all that is known of it is deleted.  Two threads run it: the hourly     *)
(* loop and a background sync started by a page or by a registering agent. *)
(* Both look at one in-memory set of clusters being synced.                *)
(*                                                                         *)
(* A backup lies on a file storage ("dir"), on the PBS this cluster has    *)
(* registered ("reg"), or on a PBS only PVE knows ("alien").  A row is     *)
(* keyed by guest and start minute.  PVE dates the snapshots of a PBS Lag  *)
(* minutes later than the PBS does; a minute here is also the hour that    *)
(* _dedup_pbs_events compares, as if no two backups of a guest began       *)
(* within one.  Guests besides those of Guests exist and never change, so  *)
(* that PVE lists none only when its token may see none.                   *)
(*                                                                         *)
(* A source fails in one of two ways: it answers with an error, or it      *)
(* answers without one and leaves out what its token may not see.  The     *)
(* code notices the first and takes the second for the whole.              *)
(***************************************************************************)
EXTENDS Naturals, FiniteSets, FiniteSetsExt

CONSTANTS Guests, FileStarts, SnapshotStarts, Lag, MaxChanges

\* Backups of one guest on a file storage and on a PBS never start in the same
\* minute (a row would keep only one of its sources).
ASSUME SyncAssumption ==
  /\ FileStarts \subseteq Nat /\ SnapshotStarts \subseteq Nat /\ Lag \in Nat /\ MaxChanges \in Nat
  /\ FileStarts \cap (SnapshotStarts \cup {m + Lag : m \in SnapshotStarts}) = {}

Syncers == {"auto", "manual"}
Minutes == FileStarts \cup SnapshotStarts \cup {m + Lag : m \in SnapshotStarts}
Copies == [guest : Guests, start : FileStarts, place : {"dir"}]
          \cup [guest : Guests, start : SnapshotStarts, place : {"reg", "alien"}]
Failing == {"pve", "dir", "alien", "reg"}
\* PVE leaves out guests, PVE leaves out its storages, the registered PBS leaves
\* out its datastores.
Silent == {"guests", "storages", "datastores"}
Absent == [source |-> "none", gone |-> FALSE, places |-> {}]
Resting == [pc |-> "idle", known |-> {}, present |-> {}, listed |-> {},
            direct |-> {}, complete |-> TRUE, blocked |-> FALSE]
Unwatched == [guests |-> {}, copies |-> {}, still |-> TRUE, alone |-> TRUE]

VARIABLES
  onPve, copies, down, changes, \* the world: guests, their backups, what fails or is left out
  vms, rows, newest, usage,     \* the database: guests, backups by start, last_backup_at, datastores seen
  syncing, sync,                \* the set of running syncs, each thread's work
  watch                         \* history: what was there to be seen all along since a sync began

world == <<onPve, copies, down, changes>>
tables == <<vms, rows, newest, usage>>
syncVars == <<world, tables, syncing, sync, watch>>

SyncInit ==
  /\ onPve \in SUBSET Guests /\ copies = {} /\ down = {} /\ changes = 0
  /\ vms = [g \in Guests |-> "none"] /\ newest = [g \in Guests |-> 0]
  /\ rows = [g \in Guests |-> [m \in Minutes |-> Absent]]
  /\ usage \in BOOLEAN
  /\ syncing = FALSE /\ sync = [t \in Syncers |-> Resting]
  /\ watch = [t \in Syncers |-> Unwatched]

Working(t) == sync[t].pc \notin {"idle", "take"}

-----------------------------------------------------------------------------
(* The world.                                                              *)

\* What the sources do not leave out; they may still fail.
ShownGuests == IF "guests" \in down THEN {} ELSE onPve
ShownCopies == {c \in copies : (IF c.place = "reg" THEN "datastores" ELSE "storages") \notin down}

\* What happens to the world is remembered for each sync under way.
Witnessed ==
  watch' = [t \in Syncers |->
    IF Working(t) THEN [watch[t] EXCEPT !.guests = @ \cap ShownGuests', !.copies = @ \cap ShownCopies',
                                    !.still = FALSE]
    ELSE Unwatched]

\* The world changes a bounded number of times.
Changes ==
  /\ changes < MaxChanges /\ changes' = changes + 1
  /\ Witnessed
  /\ UNCHANGED <<tables, syncing, sync>>

\* A guest is created (or moves here), or is deleted from PVE.
GuestComesOrGoes ==
  /\ \E g \in Guests : onPve' = IF g \in onPve THEN onPve \ {g} ELSE onPve \cup {g}
  /\ UNCHANGED <<copies, down>> /\ Changes

\* A job writes a backup, or a sync job copies one to another PBS.
BackupWritten ==
  /\ \E c \in Copies \ copies :
       /\ c.guest \in onPve \/ \E d \in copies : d.guest = c.guest /\ d.start = c.start
       /\ copies' = copies \cup {c}
  /\ UNCHANGED <<onPve, down>> /\ Changes

\* Retention, or an administrator, deletes a backup.
BackupDeleted ==
  /\ \E c \in copies : copies' = copies \ {c}
  /\ UNCHANGED <<onPve, down>> /\ Changes

\* A source cannot be read any more, or its token loses a right; or either is back.
SourceToggles ==
  /\ \E s \in Failing \cup Silent : down' = IF s \in down THEN down \ {s} ELSE down \cup {s}
  /\ UNCHANGED <<onPve, copies>> /\ Changes

\* The program restarts: the threads and the set of running syncs are gone.
ProgramRestarts ==
  /\ changes < MaxChanges /\ changes' = changes + 1
  /\ sync' = [t \in Syncers |-> Resting] /\ syncing' = FALSE
  /\ watch' = [t \in Syncers |-> Unwatched]
  /\ UNCHANGED <<onPve, copies, down, tables>>

-----------------------------------------------------------------------------
(* What the sources answer.                                                *)

\* The storages PVE names and is asked for, all but the PBS storages read directly.
Asked == IF "storages" \in down THEN {} ELSE {"dir", "alien"} \cup (IF usage THEN {} ELSE {"reg"})

\* The backups PVE lists for the guests of vmids: of each storage it can read; a
\* PBS storage dates them Lag later.
ViaPve(vmids) ==
  LET shown == {c \in copies : c.place \in Asked \ down /\ c.guest \in vmids}
  IN {[guest |-> c.guest, minute |-> IF c.place = "dir" THEN c.start ELSE c.start + Lag,
       place |-> c.place, viaPve |-> TRUE] : c \in shown}

\* The backups in the datastores the registered PBS shows.
ViaPbs(vmids) == IF "datastores" \in down THEN {} ELSE
  {[guest |-> c.guest, minute |-> c.start, place |-> c.place, viaPve |-> FALSE] :
     c \in {d \in copies : d.place = "reg" /\ d.guest \in vmids}}

FromPve(events) == {e \in events : e.place = "dir"}

\* _dedup_pbs_events: a snapshot PVE passed on is dropped when the PBS itself
\* reported one of the same guest in the same hour, the one before or after.
Deduplicated(events) ==
  {e \in events : e.viaPve =>
     ~\E d \in events : ~d.viaPve /\ d.guest = e.guest /\ d.minute \in e.minute - 1 .. e.minute + 1}

\* sync_backup_events_for_source: the events' rows are written, those of the
\* source that were not among them are marked removed.
Upserted(old, events, source, mark) ==
  [g \in Guests |-> [m \in Minutes |->
     LET hit == \E e \in events : e.guest = g /\ e.minute = m
         row == old[g][m]
     IN IF vms[g] = "none" THEN row
        ELSE IF hit THEN [row EXCEPT !.source = IF row.source = "pbs" THEN "pbs" ELSE source,
                                     !.gone = FALSE]
        ELSE IF mark /\ row.source = source THEN [row EXCEPT !.gone = TRUE] ELSE row]]

\* update_backup_event_storages: where each backup was seen this time.
Located(old, events) ==
  [g \in Guests |-> [m \in Minutes |->
     IF old[g][m].source = "none" THEN old[g][m]
     ELSE [old[g][m] EXCEPT !.places = {e.place : e \in {x \in events : x.guest = g /\ x.minute = m}}]]]

Live(g) == {m \in Minutes : rows[g][m].source # "none" /\ ~rows[g][m].gone}
Newest(minutes) == Max(minutes \cup {0})

-----------------------------------------------------------------------------
(* The syncs.  A thread asks whether the cluster is being synced and, in a  *)
(* second statement, says that it is.                                      *)

\* What a page or an agent starts counts among the bounded changes.
StartSync(t) ==
  /\ sync[t].pc = "idle" /\ ~syncing
  /\ sync' = [sync EXCEPT ![t].pc = "take"]
  /\ changes' = IF t = "manual" THEN changes + 1 ELSE changes
  /\ changes' <= MaxChanges
  /\ UNCHANGED <<onPve, copies, down, tables, syncing, watch>>

\* The sync begins; the guests known so far are read first.
TakeSync(t) ==
  /\ sync[t].pc = "take"
  /\ syncing' = TRUE
  /\ sync' = [sync EXCEPT ![t].pc = "read", ![t].known = {g \in Guests : vms[g] # "none"}]
  /\ LET others == {u \in Syncers \ {t} : Working(u)}
     IN watch' = [u \in Syncers |->
          IF u = t THEN [guests |-> ShownGuests, copies |-> ShownCopies, still |-> TRUE,
                          alone |-> others = {}]
          ELSE [watch[u] EXCEPT !.alone = @ /\ u \notin others]]
  /\ UNCHANGED <<world, tables>>

\* A sync ends, with or without success: the cluster is free again.
Leave(t) ==
  /\ sync' = [sync EXCEPT ![t] = Resting] /\ syncing' = FALSE
  /\ watch' = [watch EXCEPT ![t] = Unwatched]

\* What PVE lists of its guests: all, or, where its token may not see all of
\* them, some or none at all.
Listings ==
  IF "guests" \notin down THEN [present : {onPve}, none : {FALSE}]
  ELSE [present : SUBSET onPve, none : {FALSE}] \cup [present : {{}}, none : {TRUE}]

\* What a sync knows after PVE answered.
Read(t, listing, blocked) ==
  /\ sync' = [sync EXCEPT ![t].pc = "store", ![t].present = listing.present,
                          ![t].listed = ViaPve(listing.present \cup sync[t].known),
                          ![t].blocked = blocked]
  /\ UNCHANGED <<world, tables, syncing, watch>>

\* Mutant of FetchInventory: an unreadable storage does not forbid it.
FetchInventoryTrusting(t) ==
  /\ sync[t].pc = "read" /\ "pve" \notin down
  /\ \E listing \in Listings : Read(t, listing, listing.none)

\* PVE is asked for guests, storages and their backups.  A storage that cannot
\* be read, or not one guest, forbids deleting guests this time; a storage PVE
\* does not name is not missed.
FetchInventory(t) ==
  /\ sync[t].pc = "read" /\ "pve" \notin down
  /\ \E listing \in Listings : Read(t, listing, listing.none \/ Asked \cap down # {})

\* PVE cannot be asked: the sync has failed.
FetchFails(t) ==
  /\ sync[t].pc = "read" /\ "pve" \in down
  /\ Leave(t) /\ UNCHANGED <<world, tables>>

\* sync_cluster_inventory: guests listed are there, others known are missing.
StoreInventory(t) ==
  /\ sync[t].pc = "store"
  /\ vms' = [g \in Guests |-> IF g \in sync[t].present THEN "there"
                              ELSE IF vms[g] = "none" THEN "none" ELSE "missing"]
  /\ newest' = [g \in Guests |->
       LET read == {e.minute : e \in {x \in sync[t].listed : x.guest = g}}
       IN IF g \in sync[t].present /\ read # {} THEN Newest(read) ELSE newest[g]]
  /\ sync' = [sync EXCEPT ![t].pc = "pve"]
  /\ UNCHANGED <<world, rows, usage, syncing, watch>>

\* The backups on file storages are stored; those not listed are marked
\* removed, whether or not each storage could be read.
StorePveBackups(t) ==
  /\ sync[t].pc = "pve"
  /\ rows' = Upserted(rows, FromPve(sync[t].listed), "pve", TRUE)
  /\ sync' = [sync EXCEPT ![t].pc = "ask"]
  /\ UNCHANGED <<world, vms, newest, usage, syncing, watch>>

\* The registered PBS is asked; the usage of the datastores it shows is noted on
\* the way, so that the next sync reads them only here.  One that shows none
\* counts as read completely.
FetchPbs(t) ==
  /\ sync[t].pc = "ask"
  /\ IF "reg" \in down
     THEN /\ sync' = [sync EXCEPT ![t].pc = "pbs", ![t].complete = FALSE, ![t].blocked = TRUE]
          /\ usage' = usage
     ELSE /\ sync' = [sync EXCEPT ![t].pc = "pbs",
                                  ![t].direct = ViaPbs(sync[t].present \cup sync[t].known)]
          /\ usage' = ("datastores" \notin down)
  /\ UNCHANGED <<world, vms, rows, newest, syncing, watch>>

PbsEvents(t) == Deduplicated((sync[t].listed \ FromPve(sync[t].listed)) \cup sync[t].direct)

\* Snapshots are stored, those not listed marked removed if the PBS was read
\* completely, and each row gets the places where it was seen.
StorePbsBackups(t) ==
  /\ sync[t].pc = "pbs"
  /\ rows' = Located(Upserted(rows, PbsEvents(t), "pbs", sync[t].complete),
                     FromPve(sync[t].listed) \cup PbsEvents(t))
  /\ sync' = [sync EXCEPT ![t] = [Resting EXCEPT !.pc = "last", !.blocked = sync[t].blocked]]
  /\ UNCHANGED <<world, vms, newest, usage, syncing, watch>>

\* Mutant of StoreLastBackup: without a backup the old date stays.
StoreLastBackupKept(t) ==
  /\ sync[t].pc = "last"
  /\ newest' = [g \in Guests |-> IF Live(g) = {} THEN newest[g] ELSE Newest(Live(g))]
  /\ sync' = [sync EXCEPT ![t].pc = "prune"]
  /\ UNCHANGED <<world, vms, rows, usage, syncing, watch>>

\* update_vm_last_backup_from_events.
StoreLastBackup(t) ==
  /\ sync[t].pc = "last"
  /\ newest' = [g \in Guests |-> Newest(Live(g))]
  /\ sync' = [sync EXCEPT ![t].pc = "prune"]
  /\ UNCHANGED <<world, vms, rows, usage, syncing, watch>>

\* prune_gone_vms_without_backups: a missing guest without a backup is deleted
\* with all that belongs to it, unless a source could not be read.
Prune(t) ==
  /\ sync[t].pc = "prune"
  /\ LET gone == {g \in Guests : ~sync[t].blocked /\ vms[g] = "missing" /\ Live(g) = {}}
     IN /\ vms' = [g \in Guests |-> IF g \in gone THEN "none" ELSE vms[g]]
        /\ rows' = [g \in Guests |-> IF g \in gone THEN [m \in Minutes |-> Absent] ELSE rows[g]]
        /\ newest' = [g \in Guests |-> IF g \in gone THEN 0 ELSE newest[g]]
  /\ sync' = [sync EXCEPT ![t].pc = "end"]
  /\ UNCHANGED <<world, usage, syncing, watch>>

\* The checks that follow only send messages; then the sync has succeeded.
FinishSync(t) == sync[t].pc = "end" /\ Leave(t) /\ UNCHANGED <<world, tables>>

\* A statement fails half-way (the database): what was written stays.
SyncBreaks(t) ==
  /\ Working(t) /\ changes < MaxChanges /\ changes' = changes + 1
  /\ Leave(t) /\ UNCHANGED <<onPve, copies, down, tables>>

-----------------------------------------------------------------------------

SyncStep(t) ==
  \/ TakeSync(t) \/ FetchInventory(t) \/ FetchFails(t) \/ StoreInventory(t)
  \/ StorePveBackups(t) \/ FetchPbs(t) \/ StorePbsBackups(t) \/ StoreLastBackup(t)
  \/ Prune(t) \/ FinishSync(t)

SyncNext ==
  \/ GuestComesOrGoes \/ BackupWritten \/ BackupDeleted \/ SourceToggles \/ ProgramRestarts
  \/ \E t \in Syncers : StartSync(t) \/ SyncStep(t) \/ SyncBreaks(t)

\* The hourly loop comes round; a sync that has begun is carried on.
SyncFairness ==
  WF_syncVars(StartSync("auto")) /\ \A t \in Syncers : WF_syncVars(SyncStep(t))

SyncSpec == SyncInit /\ [][SyncNext]_syncVars /\ SyncFairness

-----------------------------------------------------------------------------

\* A guest's rows are deleted only by a sync in which PVE showed no such guest all
\* along and no source showed a backup of it all along, not even one that could
\* not be read in between.  What a source leaves out without an error counts as
\* gone: a token that loses its rights can cost a guest its rows though its backups
\* are there (pbs.py:106 and proxmox.py:543 report no error, sync.py:189 asks for
\* nothing else).  Two overlapping syncs give no such promise: one may hold a list of
\* guests the other's insertions are newer than (prune_gone_vms_without_backups).
PruneJustified ==
  [][\A g \in Guests : vms[g] # "none" /\ vms'[g] = "none" =>
       \E t \in Syncers : /\ sync[t].pc = "prune" /\ sync'[t].pc = "end"
                          /\ watch[t].alone =>
                               g \notin watch[t].guests /\ ~\E c \in watch[t].copies : c.guest = g]_syncVars

\* When a sync that read every source, and to which none left anything out, has run
\* alone and nothing changed under it, the rows are the backups there are: each one
\* not marked removed stands for a backup, each backup has its row with its place,
\* and last_backup_at is the newest.  A snapshot on an unregistered PBS may be merged
\* into one of the registered PBS made within an hour.
CompleteSyncIsTrue ==
  [][\A t \in Syncers :
       (/\ sync[t].pc = "end" /\ sync'[t].pc = "idle" /\ changes' = changes
        /\ watch[t].still /\ watch[t].alone /\ ~sync[t].blocked /\ down \cap Silent = {}) =>
       \A g \in Guests : vms[g] # "none" =>
         /\ newest[g] = Newest(Live(g))
         /\ \A m \in Live(g) : \E c \in copies :
              c.guest = g /\ m = IF c.place = "alien" THEN c.start + Lag ELSE c.start
         /\ \A c \in copies : c.guest = g =>
              LET m == IF c.place = "alien" THEN c.start + Lag ELSE c.start
              IN \/ m \in Live(g) /\ c.place \in rows[g][m].places
                 \/ c.place = "alien" /\ \E d \in copies :
                      d.guest = g /\ d.place = "reg" /\ d.start \in m - 1 .. m + 1]_syncVars

\* A guest that is gone, with its last backup, is forgotten once every source
\* can be read: no failed, refused or restarted sync keeps the cluster from
\* being synced again.
GoneArePruned ==
  \A g \in Guests :
    (changes = MaxChanges /\ down = {} /\ g \notin onPve /\ ~\E c \in copies : c.guest = g)
      ~> vms[g] = "none"

\* A guest is forgotten when it is gone with all its backups, and by a sync on its
\* own only when no source showed it or a backup of it all along.
PruneExact == PruneJustified /\ GoneArePruned
=============================================================================
