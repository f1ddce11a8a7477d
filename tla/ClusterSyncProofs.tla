-------------------------- MODULE ClusterSyncProofs --------------------------
(* What a sync of one cluster promises for every set of guests and of backups, *)
(* whatever changes, fails or restarts meanwhile: it deletes only what is gone *)
(* and, undisturbed, writes down what there is.                                *)
EXTENDS ClusterSync, TLAPS

-----------------------------------------------------------------------------
(* The strengthening: what a thread that runs alone has seen, at each of its   *)
(* steps.  Another thread at work takes that from it, so that nothing is said  *)
(* of two that overlap.                                                        *)

Events == [guest : Guests, minute : Minutes, place : {"dir", "reg", "alien"}, viaPve : BOOLEAN]

\* The minutes of the snapshots of a PBS, however they are dated.
SnapshotMinutes == SnapshotStarts \cup {m + Lag : m \in SnapshotStarts}

SyncTypes ==
    /\ onPve \subseteq Guests /\ copies \subseteq Copies
    /\ vms \in [Guests -> {"none", "there", "missing"}]
    /\ rows \in [Guests -> [Minutes -> [source : {"none", "pve", "pbs"}, gone : BOOLEAN,
                                        places : SUBSET {"dir", "reg", "alien"}]]]
    /\ sync \in [Syncers -> [pc : {"idle", "take", "read", "store", "pve", "ask", "pbs", "last", "prune", "end"},
                             known : SUBSET Guests, present : SUBSET Guests, listed : SUBSET Events,
                             direct : SUBSET Events, complete : BOOLEAN, blocked : BOOLEAN]]
    /\ watch \in [Syncers -> [guests : SUBSET Guests, copies : SUBSET Copies, still : BOOLEAN,
                              alone : BOOLEAN]]

\* Rows and events of file storages and of snapshots never meet in a minute.
Keyed ==
    /\ \A g \in Guests, m \in Minutes : /\ rows[g][m].source = "pve" => m \in FileStarts
                                        /\ rows[g][m].source = "pbs" => m \in SnapshotMinutes
    /\ \A t \in Syncers :
         /\ \A e \in sync[t].listed : IF e.place = "dir" THEN e.minute \in FileStarts
                                                        ELSE e.minute \in SnapshotMinutes
         /\ \A e \in sync[t].direct : e.place = "reg" /\ e.minute \in SnapshotMinutes

Stage(t, pcs) == sync[t].pc \in pcs
Alone(t) == Working(t) /\ watch[t].alone
AloneTrue == \A t, u \in Syncers : Alone(t) /\ Working(u) => u = t

Known(g) == vms[g] # "none"
AskedFor(t) == sync[t].known \cup sync[t].present

\* What the watch remembers is still so.
SeenWorld(t) ==
    /\ watch[t].guests \subseteq ShownGuests /\ watch[t].copies \subseteq ShownCopies
    /\ watch[t].still => watch[t].copies = ShownCopies

\* Whom the thread asks about, and who is missing.
SeenGuests(t) ==
    /\ Stage(t, {"read"}) => ~sync[t].blocked
    /\ Stage(t, {"read", "store"}) => sync[t].known = {g \in Guests : Known(g)}
    /\ Stage(t, {"pve", "ask", "pbs"}) => \A g \in Guests : Known(g) <=> g \in AskedFor(t)
    /\ Stage(t, {"store"}) /\ ~sync[t].blocked => watch[t].guests \subseteq sync[t].present
    /\ Stage(t, {"pve", "ask", "pbs", "last", "prune", "end"}) /\ ~sync[t].blocked =>
         \A g \in Guests : vms[g] = "missing" => g \notin watch[t].guests

\* The event that PVE makes of a copy.
Shows(e, c) ==
    e.guest = c.guest /\ e.place = c.place /\ e.minute = IF c.place = "dir" THEN c.start ELSE c.start + Lag

\* What PVE listed.
SeenListed(t) ==
    Stage(t, {"store", "pve", "ask", "pbs"}) =>
        /\ \A e \in sync[t].listed : e.viaPve /\ (watch[t].still => \E c \in copies : Shows(e, c))
        /\ ~sync[t].blocked =>
             \A c \in watch[t].copies : c.place # "reg" /\ c.guest \in AskedFor(t) =>
                 \E e \in sync[t].listed : Shows(e, c)

\* What the registered PBS listed.
SeenDirect(t) ==
    /\ Stage(t, {"read", "store", "pve", "ask"}) => sync[t].complete /\ sync[t].direct = {}
    /\ Stage(t, {"pbs"}) =>
        /\ ~sync[t].blocked => sync[t].complete
        /\ \A e \in sync[t].direct :
             ~e.viaPve /\ (watch[t].still =>
                \E c \in copies : c.place = "reg" /\ c.guest = e.guest /\ c.start = e.minute)
        /\ ~sync[t].blocked =>
             \A c \in watch[t].copies : c.place = "reg" /\ c.guest \in AskedFor(t) =>
                 \E e \in sync[t].direct : e.guest = c.guest /\ e.minute = c.start

\* The rows of file storages once they are stored.
SeenFiles(t) ==
    Stage(t, {"ask", "pbs"}) /\ ~sync[t].blocked => \A g \in Guests : Known(g) =>
        /\ \A c \in watch[t].copies : c.guest = g /\ c.place = "dir" =>
             rows[g][c.start].source = "pve" /\ ~rows[g][c.start].gone
        /\ watch[t].still => \A m \in Minutes : rows[g][m].source = "pve" /\ ~rows[g][m].gone =>
             \E c \in copies : c.guest = g /\ c.place = "dir" /\ c.start = m

\* The minute of a copy's row.
RowMinute(c) == IF c.place = "alien" THEN c.start + Lag ELSE c.start

\* The rows once all are stored: each copy has its row with its place, or the row of
\* a copy on the registered PBS stands for it; each row has its copy.
SeenRows(t) ==
    Stage(t, {"last", "prune", "end"}) /\ ~sync[t].blocked => \A g \in Guests : Known(g) =>
        /\ \A c \in watch[t].copies : c.guest = g =>
             \/ RowMinute(c) \in Live(g) /\ c.place \in rows[g][RowMinute(c)].places
             \/ /\ c.place = "alien"
                /\ \E m \in Live(g) : /\ m \in RowMinute(c) - 1 .. RowMinute(c) + 1
                                      /\ watch[t].still => \E d \in copies :
                                           d.guest = g /\ d.place = "reg" /\ d.start = m
        /\ watch[t].still /\ watch[t].copies = copies /\ Lag <= 1 =>
             \A m \in Live(g) : \E c \in copies : c.guest = g /\ m = RowMinute(c)

SeenNewest(t) ==
    Stage(t, {"prune", "end"}) => \A g \in Guests : Known(g) => newest[g] = Newest(Live(g))

Seen(t) == /\ SeenWorld(t) /\ SeenGuests(t) /\ SeenListed(t) /\ SeenDirect(t)
           /\ SeenFiles(t) /\ SeenRows(t) /\ SeenNewest(t)

\* A thread that has not begun has read nothing.
Fresh == \A t \in Syncers : Stage(t, {"idle", "take"}) => 
    ~sync[t].blocked /\ sync[t].complete /\ sync[t].direct = {}

ClusterInv == SyncTypes /\ Keyed /\ Fresh /\ AloneTrue /\ \A t \in Syncers : Alone(t) => Seen(t)

\* The work of a thread goes on: the others wait.
GoesOn(t) ==
    /\ Working(t) /\ Working(t)' /\ watch' = watch
    /\ \A u \in Syncers \ {t} : sync'[u] = sync[u]

\* While one thread works, no other is alone: what the others have seen need not hold.
LEMMA OneIsAlone ==
  ASSUME ClusterInv, NEW t \in Syncers, GoesOn(t), Alone(t) => Seen(t)'
  PROVE  AloneTrue' /\ \A u \in Syncers : Alone(u)' => Seen(u)'
<1>1. \A u \in Syncers : Working(u)' <=> Working(u) BY DEF GoesOn, Working
<1>2. \A u \in Syncers : Alone(u)' <=> Alone(u) BY <1>1 DEF GoesOn, Alone
<1>3. AloneTrue' BY <1>1, <1>2 DEF AloneTrue, ClusterInv
<1>4. ASSUME NEW u \in Syncers, Alone(u) PROVE u = t BY <1>4 DEF ClusterInv, AloneTrue, GoesOn
<1> QED BY <1>2, <1>3, <1>4

\* The minutes of a copy's row, and of the event PVE makes of it.
LEMMA MinutesOfCopies ==
  ASSUME NEW c \in Copies
  PROVE  /\ c.guest \in Guests /\ c.place \in {"dir", "reg", "alien"} /\ c.start \in Nat
         /\ c.place = "dir" => c.start \in FileStarts
         /\ c.place # "dir" => c.start \in SnapshotStarts /\ c.start + Lag \in SnapshotMinutes
         /\ RowMinute(c) \in Minutes /\ RowMinute(c) \in Nat
<1>1. /\ c.guest \in Guests
      /\ \/ c.place = "dir" /\ c.start \in FileStarts
         \/ c.place \in {"reg", "alien"} /\ c.start \in SnapshotStarts
  BY DEF Copies
<1>2. c.start \in Nat /\ c.start + Lag \in Nat
  <2>1. FileStarts \subseteq Nat /\ SnapshotStarts \subseteq Nat /\ Lag \in Nat BY SyncAssumption
  <2>2. c.start \in Nat BY <1>1, <2>1
  <2> QED BY <2>1, <2>2
<1>3. c.place # "dir" => c.start + Lag \in {m + Lag : m \in SnapshotStarts} BY <1>1
<1>4. RowMinute(c) \in Minutes BY <1>1, <1>3 DEF RowMinute, Minutes
<1>5. RowMinute(c) \in Nat BY <1>2 DEF RowMinute
<1> QED BY <1>1, <1>2, <1>3, <1>4, <1>5 DEF SnapshotMinutes

\* Minutes are numbers, and of one kind only.
LEMMA MinutesTold ==
  /\ Minutes \subseteq Nat /\ Minutes = FileStarts \cup SnapshotMinutes
  /\ FileStarts \cap SnapshotMinutes = {}
<1> DEFINE late == {m + Lag : m \in SnapshotStarts}
<1>1. late \subseteq Nat BY SyncAssumption
<1>2. SnapshotMinutes = SnapshotStarts \cup late /\ Minutes = FileStarts \cup SnapshotStarts \cup late
  BY DEF Minutes, SnapshotMinutes
<1>3. FileStarts \cap (SnapshotStarts \cup late) = {} BY SyncAssumption
<1> HIDE DEF late
<1> QED BY <1>1, <1>2, <1>3, SyncAssumption

\* What is shown is there, and with all rights it is all there is.
LEMMA ShownFacts ==
  /\ ShownGuests \subseteq onPve /\ ShownCopies \subseteq copies
  /\ down \cap Silent = {} => ShownCopies = copies
BY DEF ShownGuests, ShownCopies, Silent

\* It changes only with the world.
LEMMA ShownSame ==
  ASSUME UNCHANGED <<onPve, copies, down>> PROVE UNCHANGED <<ShownGuests, ShownCopies>>
BY DEF ShownGuests, ShownCopies

\* What PVE lists: events of copies, and of every copy it shows and can read.
LEMMA ViaPveLists ==
  ASSUME SyncTypes, NEW asked \in SUBSET Guests
  PROVE  /\ ViaPve(asked) \subseteq Events
         /\ \A e \in ViaPve(asked) : /\ e.viaPve
                                     /\ IF e.place = "dir" THEN e.minute \in FileStarts
                                                           ELSE e.minute \in SnapshotMinutes
                                     /\ \E c \in copies : Shows(e, c)
         /\ \A c \in copies : c.guest \in asked /\ c.place \in Asked \ down =>
              \E e \in ViaPve(asked) : Shows(e, c)
<1> DEFINE minute(c) == IF c.place = "dir" THEN c.start ELSE c.start + Lag
           event(c) == [guest |-> c.guest, minute |-> minute(c), place |-> c.place, viaPve |-> TRUE]
           shown == {c \in copies : c.place \in Asked \ down /\ c.guest \in asked}
<1>1. ViaPve(asked) = {event(c) : c \in shown} BY DEF ViaPve
<1>2. ASSUME NEW c \in copies
      PROVE  /\ event(c) \in Events /\ event(c).viaPve /\ Shows(event(c), c)
             /\ IF event(c).place = "dir" THEN event(c).minute \in FileStarts
                                          ELSE event(c).minute \in SnapshotMinutes
  <2>1. c \in Copies BY DEF SyncTypes
  <2>2. minute(c) \in Minutes /\ IF c.place = "dir" THEN minute(c) \in FileStarts ELSE minute(c) \in SnapshotMinutes
    BY <2>1, MinutesOfCopies, MinutesTold
  <2>3. Shows(event(c), c) BY DEF Shows
  <2>4. event(c) \in Events BY <2>1, <2>2, MinutesOfCopies DEF Events
  <2> QED BY <2>2, <2>3, <2>4
<1>3. shown \subseteq copies OBVIOUS
<1>4. \A c \in copies : c.guest \in asked /\ c.place \in Asked \ down => c \in shown OBVIOUS
<1> HIDE DEF event, shown
<1>5. \A e \in ViaPve(asked) : \E c \in copies : e = event(c) BY <1>1, <1>3
<1>6. \A e \in ViaPve(asked) : /\ e \in Events /\ e.viaPve
                               /\ IF e.place = "dir" THEN e.minute \in FileStarts
                                                     ELSE e.minute \in SnapshotMinutes
                               /\ \E c \in copies : Shows(e, c)
  <2> SUFFICES ASSUME NEW e \in ViaPve(asked)
               PROVE  /\ e \in Events /\ e.viaPve
                      /\ IF e.place = "dir" THEN e.minute \in FileStarts ELSE e.minute \in SnapshotMinutes
                      /\ \E c \in copies : Shows(e, c)
    OBVIOUS
  <2>1. PICK c \in copies : e = event(c) BY <1>5
  <2> QED BY <2>1, <1>2
<1>7. \A c \in copies : c.guest \in asked /\ c.place \in Asked \ down => \E e \in ViaPve(asked) : Shows(e, c)
  BY <1>1, <1>2, <1>4
<1> QED BY <1>6, <1>7

\* What the registered PBS lists: events of the copies it holds, and of each it shows.
LEMMA ViaPbsLists ==
  ASSUME SyncTypes, NEW asked \in SUBSET Guests
  PROVE  /\ ViaPbs(asked) \subseteq Events
         /\ \A e \in ViaPbs(asked) :
              /\ ~e.viaPve /\ e.place = "reg" /\ e.minute \in SnapshotMinutes
              /\ \E c \in copies : c.place = "reg" /\ c.guest = e.guest /\ c.start = e.minute
         /\ \A c \in ShownCopies : c.guest \in asked /\ c.place = "reg" =>
              \E e \in ViaPbs(asked) : e.guest = c.guest /\ e.minute = c.start
<1> DEFINE event(c) == [guest |-> c.guest, minute |-> c.start, place |-> c.place, viaPve |-> FALSE]
           held == {d \in copies : d.place = "reg" /\ d.guest \in asked}
<1>1. ViaPbs(asked) = IF "datastores" \in down THEN {} ELSE {event(c) : c \in held} BY DEF ViaPbs
<1>2. ASSUME NEW c \in held
      PROVE  /\ event(c) \in Events /\ ~event(c).viaPve /\ event(c).place = "reg"
             /\ event(c).minute \in SnapshotMinutes
             /\ c.place = "reg" /\ c.guest = event(c).guest /\ c.start = event(c).minute
  <2>1. c \in Copies /\ c.place = "reg" BY DEF SyncTypes
  <2>2. c.start \in SnapshotMinutes BY <2>1, MinutesOfCopies DEF SnapshotMinutes
  <2>3. c.start \in Minutes BY <2>2, MinutesTold
  <2> QED BY <2>1, <2>2, <2>3, MinutesOfCopies DEF Events
<1> HIDE DEF event
<1>3. \A e \in ViaPbs(asked) : /\ e \in Events /\ ~e.viaPve /\ e.place = "reg" /\ e.minute \in SnapshotMinutes
                               /\ \E c \in copies : c.place = "reg" /\ c.guest = e.guest /\ c.start = e.minute
  <2> SUFFICES ASSUME NEW e \in ViaPbs(asked)
               PROVE  /\ e \in Events /\ ~e.viaPve /\ e.place = "reg" /\ e.minute \in SnapshotMinutes
                      /\ \E c \in copies : c.place = "reg" /\ c.guest = e.guest /\ c.start = e.minute
    OBVIOUS
  <2>1. PICK c \in held : e = event(c) BY <1>1
  <2> QED BY <2>1, <1>2
<1>4. \A c \in ShownCopies : c.guest \in asked /\ c.place = "reg" =>
        \E e \in ViaPbs(asked) : e.guest = c.guest /\ e.minute = c.start
  <2> SUFFICES ASSUME NEW c \in ShownCopies, c.guest \in asked, c.place = "reg"
               PROVE  \E e \in ViaPbs(asked) : e.guest = c.guest /\ e.minute = c.start
    OBVIOUS
  <2>1. c \in held /\ "datastores" \notin down BY DEF ShownCopies
  <2>2. event(c) \in ViaPbs(asked) BY <1>1, <2>1
  <2> QED BY <2>1, <2>2, <1>2
<1> QED BY <1>3, <1>4

\* The threads at rest.
LEMMA RestingTyped ==
  /\ Resting.pc = "idle" /\ Resting.listed = {} /\ Resting.direct = {}
  /\ ~Resting.blocked /\ Resting.complete
  /\ Resting \in [pc : {"idle", "take", "read", "store", "pve", "ask", "pbs", "last", "prune", "end"},
                  known : SUBSET Guests, present : SUBSET Guests, listed : SUBSET Events,
                  direct : SUBSET Events, complete : BOOLEAN, blocked : BOOLEAN]
  /\ Unwatched \in [guests : SUBSET Guests, copies : SUBSET Copies, still : BOOLEAN, alone : BOOLEAN]
BY DEF Resting, Unwatched

\* At the start every thread rests.
LEMMA ClusterStarts == SyncInit => ClusterInv
<1> SUFFICES ASSUME SyncInit PROVE ClusterInv OBVIOUS
<1>1. SyncTypes
  <2>1. Absent \in [source : {"none", "pve", "pbs"}, gone : BOOLEAN, places : SUBSET {"dir", "reg", "alien"}]
    BY DEF Absent
  <2>2. rows \in [Guests -> [Minutes -> [source : {"none", "pve", "pbs"}, gone : BOOLEAN,
                                         places : SUBSET {"dir", "reg", "alien"}]]]
    BY <2>1 DEF SyncInit
  <2> QED BY <2>2, RestingTyped DEF SyncInit, SyncTypes
<1>2. Keyed
  <2>1. \A g \in Guests, m \in Minutes : rows[g][m].source = "none" BY DEF SyncInit, Absent
  <2> QED BY <2>1, RestingTyped DEF SyncInit, Keyed
<1>3. \A t \in Syncers : ~Working(t) BY RestingTyped DEF SyncInit, Working
<1>4. Fresh BY RestingTyped DEF SyncInit, Fresh
<1> QED BY <1>1, <1>2, <1>3, <1>4 DEF ClusterInv, AloneTrue, Alone

Row == [source : {"none", "pve", "pbs"}, gone : BOOLEAN, places : SUBSET {"dir", "reg", "alien"}]

\* Rows are of the kinds their minutes have.
RowsKeyed(table) ==
    /\ table \in [Guests -> [Minutes -> Row]]
    /\ \A g \in Guests, m \in Minutes : /\ table[g][m].source = "pve" => m \in FileStarts
                                        /\ table[g][m].source = "pbs" => m \in SnapshotMinutes

\* What writing events does to the rows of known guests.
RowsWritten(new, events, source, mark) ==
    \A g \in Guests, m \in Minutes : vms[g] # "none" =>
      LET hit == \E e \in events : e.guest = g /\ e.minute = m
          row == rows[g][m]
      IN /\ hit => ~new[g][m].gone /\ new[g][m].source = source
         /\ ~hit => new[g][m].source = row.source
         /\ ~hit /\ mark /\ row.source = source => new[g][m].gone
         /\ ~hit /\ row.source # source => new[g][m].gone = row.gone

\* Rows that are written keep their kinds and their keys.
LEMMA RowsTyped ==
  ASSUME SyncTypes, Keyed, NEW events \in SUBSET Events, NEW source \in {"pve", "pbs"}, NEW mark \in BOOLEAN,
         \A e \in events : e.minute \in (IF source = "pve" THEN FileStarts ELSE SnapshotMinutes)
  PROVE  LET new == Upserted(rows, events, source, mark)
         IN /\ RowsKeyed(new)
            /\ RowsWritten(new, events, source, mark)
<1> DEFINE new == Upserted(rows, events, source, mark)
           hit(g, m) == \E e \in events : e.guest = g /\ e.minute = m
           cell(g, m) == IF vms[g] = "none" THEN rows[g][m]
                         ELSE IF hit(g, m)
                              THEN [rows[g][m] EXCEPT !.source = IF rows[g][m].source = "pbs" THEN "pbs" ELSE source,
                                                      !.gone = FALSE]
                         ELSE IF mark /\ rows[g][m].source = source THEN [rows[g][m] EXCEPT !.gone = TRUE]
                         ELSE rows[g][m]
<1>1. new = [g \in Guests |-> [m \in Minutes |-> cell(g, m)]] BY DEF Upserted
<1>2. ASSUME NEW g \in Guests, NEW m \in Minutes
      PROVE  /\ cell(g, m) \in Row
             /\ cell(g, m).source = "pve" => m \in FileStarts
             /\ cell(g, m).source = "pbs" => m \in SnapshotMinutes
             /\ vms[g] # "none" =>
                  /\ hit(g, m) => ~cell(g, m).gone /\ cell(g, m).source = source
                  /\ ~hit(g, m) => cell(g, m).source = rows[g][m].source
                  /\ ~hit(g, m) /\ mark /\ rows[g][m].source = source => cell(g, m).gone
                  /\ ~hit(g, m) /\ rows[g][m].source # source => cell(g, m).gone = rows[g][m].gone
  <2>1. rows[g][m] \in Row BY DEF SyncTypes, Row
  <2>2. /\ rows[g][m].source = "pve" => m \in FileStarts
        /\ rows[g][m].source = "pbs" => m \in SnapshotMinutes
    BY DEF Keyed
  <2>3. hit(g, m) => m \in (IF source = "pve" THEN FileStarts ELSE SnapshotMinutes) OBVIOUS
  <2>4. hit(g, m) /\ rows[g][m].source = "pbs" => source = "pbs" BY <2>2, <2>3, MinutesTold
  <2> HIDE DEF hit
  <2>5. CASE vms[g] = "none" BY <2>1, <2>2, <2>5
  <2>6. CASE vms[g] # "none" /\ hit(g, m)
    <3>1. cell(g, m) = [rows[g][m] EXCEPT !.source = source, !.gone = FALSE] BY <2>4, <2>6
    <3> QED BY <2>1, <2>3, <2>6, <3>1 DEF Row
  <2>7. CASE vms[g] # "none" /\ ~hit(g, m) /\ mark /\ rows[g][m].source = source
    <3>1. cell(g, m) = [rows[g][m] EXCEPT !.gone = TRUE] BY <2>7
    <3> QED BY <2>1, <2>2, <2>7, <3>1 DEF Row
  <2>8. CASE vms[g] # "none" /\ ~hit(g, m) /\ ~(mark /\ rows[g][m].source = source)
    <3>1. cell(g, m) = rows[g][m] BY <2>8
    <3> HIDE DEF cell
    <3> QED BY <2>1, <2>2, <2>8, <3>1
  <2> QED BY <2>5, <2>6, <2>7, <2>8
<1>3. \A g \in Guests, m \in Minutes : new[g][m] = cell(g, m)
  <2> HIDE DEF cell, new
  <2> QED BY <1>1
<1>4. new \in [Guests -> [Minutes -> Row]]
  <2>1. \A g \in Guests, m \in Minutes : cell(g, m) \in Row BY <1>2
  <2> HIDE DEF cell
  <2> QED BY <1>1, <2>1
<1> HIDE DEF cell, new
<1>5. \A g \in Guests, m \in Minutes : /\ new[g][m].source = "pve" => m \in FileStarts
                                       /\ new[g][m].source = "pbs" => m \in SnapshotMinutes
  BY <1>2, <1>3
<1>6. ASSUME NEW g \in Guests, NEW m \in Minutes, vms[g] # "none"
      PROVE  /\ hit(g, m) => ~new[g][m].gone /\ new[g][m].source = source
             /\ ~hit(g, m) => new[g][m].source = rows[g][m].source
             /\ ~hit(g, m) /\ mark /\ rows[g][m].source = source => new[g][m].gone
             /\ ~hit(g, m) /\ rows[g][m].source # source => new[g][m].gone = rows[g][m].gone
  BY <1>2, <1>3, <1>6
<1> QED BY <1>4, <1>5, <1>6 DEF new, RowsKeyed, RowsWritten

\* The events of the snapshots, after those told twice are dropped.
LEMMA SnapshotEvents ==
  ASSUME SyncTypes, Keyed, NEW t \in Syncers
  PROVE  LET all == (sync[t].listed \ FromPve(sync[t].listed)) \cup sync[t].direct
         IN /\ PbsEvents(t) \subseteq all /\ FromPve(sync[t].listed) \subseteq sync[t].listed
            /\ PbsEvents(t) \in SUBSET Events /\ FromPve(sync[t].listed) \in SUBSET Events
            /\ \A e \in PbsEvents(t) : e.minute \in SnapshotMinutes
            /\ \A e \in FromPve(sync[t].listed) : e.place = "dir" /\ e.minute \in FileStarts
            /\ \A e \in all : e.viaPve =>
                 \/ e \in PbsEvents(t)
                 \/ \E d \in all : ~d.viaPve /\ d.guest = e.guest /\ d.minute \in e.minute - 1 .. e.minute + 1
            /\ \A e \in all : ~e.viaPve => e \in PbsEvents(t)
            /\ \A e \in PbsEvents(t) : e.viaPve =>
                 ~\E d \in all : ~d.viaPve /\ d.guest = e.guest /\ d.minute \in e.minute - 1 .. e.minute + 1
<1> DEFINE all == (sync[t].listed \ FromPve(sync[t].listed)) \cup sync[t].direct
<1>1. sync[t].listed \in SUBSET Events /\ sync[t].direct \in SUBSET Events BY DEF SyncTypes
<1>2. \A e \in sync[t].listed : e \in FromPve(sync[t].listed) <=> e.place = "dir" BY DEF FromPve
<1>3. FromPve(sync[t].listed) \subseteq sync[t].listed BY DEF FromPve
<1>4. \A e \in all : e.minute \in SnapshotMinutes BY <1>2 DEF Keyed
<1>5. \A e \in FromPve(sync[t].listed) : e.place = "dir" /\ e.minute \in FileStarts
  BY <1>2, <1>3 DEF Keyed
<1>6. PbsEvents(t) = {e \in all : e.viaPve =>
        ~\E d \in all : ~d.viaPve /\ d.guest = e.guest /\ d.minute \in e.minute - 1 .. e.minute + 1}
  BY DEF PbsEvents, Deduplicated
<1>7. all \subseteq Events BY <1>1
<1> HIDE DEF all
<1>8. PbsEvents(t) \subseteq all BY <1>6
<1> QED BY <1>1, <1>3, <1>4, <1>5, <1>6, <1>7, <1>8 DEF all

Thread == [pc : {"idle", "take", "read", "store", "pve", "ask", "pbs", "last", "prune", "end"},
           known : SUBSET Guests, present : SUBSET Guests, listed : SUBSET Events,
           direct : SUBSET Events, complete : BOOLEAN, blocked : BOOLEAN]
Watch == [guests : SUBSET Guests, copies : SUBSET Copies, still : BOOLEAN, alone : BOOLEAN]

\* A thread's events are of the kinds their sources have.
KeyedThread(work) ==
    /\ \A e \in work.listed : IF e.place = "dir" THEN e.minute \in FileStarts ELSE e.minute \in SnapshotMinutes
    /\ \A e \in work.direct : e.place = "reg" /\ e.minute \in SnapshotMinutes

\* Telling where each backup was seen changes nothing else of its row.
LEMMA LocatedTyped ==
  ASSUME NEW old \in [Guests -> [Minutes -> Row]], NEW events \in SUBSET Events
  PROVE  LET new == Located(old, events)
         IN /\ new \in [Guests -> [Minutes -> Row]]
            /\ \A g \in Guests, m \in Minutes :
                 /\ new[g][m].source = old[g][m].source /\ new[g][m].gone = old[g][m].gone
                 /\ old[g][m].source # "none" =>
                      \A e \in events : e.guest = g /\ e.minute = m => e.place \in new[g][m].places
<1> DEFINE places(g, m) == {e.place : e \in {x \in events : x.guest = g /\ x.minute = m}}
           cell(g, m) == IF old[g][m].source = "none" THEN old[g][m] ELSE [old[g][m] EXCEPT !.places = places(g, m)]
           new == Located(old, events)
<1>1. new = [g \in Guests |-> [m \in Minutes |-> cell(g, m)]] BY DEF Located
<1>2. ASSUME NEW g \in Guests, NEW m \in Minutes
      PROVE  /\ cell(g, m) \in Row
             /\ cell(g, m).source = old[g][m].source /\ cell(g, m).gone = old[g][m].gone
             /\ old[g][m].source # "none" =>
                  \A e \in events : e.guest = g /\ e.minute = m => e.place \in cell(g, m).places
  <2>1. old[g][m] \in Row OBVIOUS
  <2>2. places(g, m) \in SUBSET {"dir", "reg", "alien"} BY DEF Events
  <2>3. \A e \in events : e.guest = g /\ e.minute = m => e.place \in places(g, m) OBVIOUS
  <2> HIDE DEF places
  <2> QED BY <2>1, <2>2, <2>3 DEF Row
<1>3. \A g \in Guests, m \in Minutes : new[g][m] = cell(g, m) BY <1>1
<1>4. new \in [Guests -> [Minutes -> Row]]
  <2>1. \A g \in Guests, m \in Minutes : cell(g, m) \in Row BY <1>2
  <2> HIDE DEF cell
  <2> QED BY <1>1, <2>1
<1> HIDE DEF cell, new
<1> QED BY <1>2, <1>3, <1>4 DEF new

\* What PVE lists of its guests: all it may show, and it says when that is none.
LEMMA ListedFacts ==
  ASSUME SyncTypes, NEW listing \in Listings
  PROVE  /\ listing.present \in SUBSET Guests /\ listing.none \in BOOLEAN
         /\ ShownGuests \subseteq listing.present
<1>1. listing.present \subseteq onPve /\ listing.none \in BOOLEAN BY DEF Listings
<1>2. "guests" \notin down => listing.present = onPve BY DEF Listings
<1> QED BY <1>1, <1>2 DEF ShownGuests, SyncTypes

\* What happens in the world leaves the types and the keys.
LEMMA WorldTyped ==
  ASSUME SyncTypes, Keyed, GuestComesOrGoes \/ BackupWritten \/ BackupDeleted \/ SourceToggles
  PROVE  SyncTypes' /\ Keyed'
<1>1. UNCHANGED <<tables, sync>> BY DEF GuestComesOrGoes, BackupWritten, BackupDeleted, SourceToggles, Changes
<1>2. onPve' \subseteq Guests /\ copies' \subseteq Copies
  BY DEF GuestComesOrGoes, BackupWritten, BackupDeleted, SourceToggles, Changes, SyncTypes
<1>3. watch' \in [Syncers -> Watch]
  <2>1. Witnessed BY DEF GuestComesOrGoes, BackupWritten, BackupDeleted, SourceToggles, Changes
  <2>2. watch \in [Syncers -> Watch] BY DEF SyncTypes, Watch
  <2>3. ASSUME NEW t \in Syncers
        PROVE  (IF Working(t) THEN [watch[t] EXCEPT !.guests = @ \cap ShownGuests', !.copies = @ \cap ShownCopies',
                                                    !.still = FALSE]
                ELSE Unwatched) \in Watch
    <3>1. watch[t] \in Watch BY <2>2
    <3>2. [watch[t] EXCEPT !.guests = @ \cap ShownGuests', !.copies = @ \cap ShownCopies', !.still = FALSE] \in Watch
      BY <3>1 DEF Watch
    <3>3. Unwatched \in Watch BY RestingTyped DEF Watch
    <3> QED BY <3>2, <3>3
  <2> QED BY <2>1, <2>3 DEF Witnessed
<1> QED BY <1>1, <1>2, <1>3 DEF SyncTypes, Keyed, tables, Watch

\* What a thread does to its own work and to what is watched.
LEMMA ThreadTyped ==
  ASSUME SyncTypes, Keyed, NEW t \in Syncers, NEW work \in Thread, KeyedThread(work),
         sync' = [sync EXCEPT ![t] = work], UNCHANGED <<onPve, copies, down>>,
         vms' \in [Guests -> {"none", "there", "missing"}],
         RowsKeyed(rows'),
         watch' \in [Syncers -> Watch]
  PROVE  SyncTypes' /\ Keyed'
<1>1. sync \in [Syncers -> Thread] BY DEF SyncTypes, Thread
<1>2. sync' \in [Syncers -> Thread] /\ sync'[t] = work /\ \A u \in Syncers \ {t} : sync'[u] = sync[u] BY <1>1
<1>3. \A u \in Syncers : KeyedThread(sync'[u]) BY <1>2 DEF Keyed, KeyedThread
<1>4. SyncTypes' BY <1>2 DEF SyncTypes, Thread, Row, Watch, RowsKeyed
<1>5. Keyed' BY <1>3 DEF Keyed, KeyedThread, RowsKeyed
<1> QED BY <1>4, <1>5

\* The same when neither the tables nor what is watched changes.
LEMMA ThreadTypedAlone ==
  ASSUME SyncTypes, Keyed, NEW t \in Syncers, NEW work \in Thread, KeyedThread(work),
         sync' = [sync EXCEPT ![t] = work], UNCHANGED <<onPve, copies, down, vms, rows>>,
         watch' \in [Syncers -> Watch]
  PROVE  SyncTypes' /\ Keyed'
<1>1. vms' \in [Guests -> {"none", "there", "missing"}] BY DEF SyncTypes
<1>2. RowsKeyed(rows') BY DEF SyncTypes, Keyed, Row, RowsKeyed
<1> QED BY <1>1, <1>2, ThreadTyped

\* A thread at another step, its lists as they were.
LEMMA ThreadSteps ==
  ASSUME SyncTypes, Keyed, NEW t \in Syncers
  PROVE  /\ sync[t] \in Thread /\ KeyedThread(sync[t]) /\ watch \in [Syncers -> Watch]
         /\ Resting \in Thread /\ KeyedThread(Resting)
         /\ [watch EXCEPT ![t] = Unwatched] \in [Syncers -> Watch]
BY RestingTyped DEF SyncTypes, Keyed, KeyedThread, Thread, Watch

\* Every step keeps the types, and rows of file storages apart from snapshots'.
LEMMA ClusterTyped == SyncTypes /\ Keyed /\ [SyncNext]_syncVars => SyncTypes' /\ Keyed'
<1> SUFFICES ASSUME SyncTypes, Keyed, [SyncNext]_syncVars PROVE SyncTypes' /\ Keyed' OBVIOUS
<1>1. CASE UNCHANGED syncVars
  BY <1>1 DEF syncVars, world, tables, SyncTypes, Keyed
<1>2. CASE GuestComesOrGoes \/ BackupWritten \/ BackupDeleted \/ SourceToggles BY <1>2, WorldTyped
<1>3. CASE ProgramRestarts
  <2>1. /\ sync' = [t \in Syncers |-> Resting] /\ watch' = [t \in Syncers |-> Unwatched]
        /\ UNCHANGED <<onPve, copies, down, vms, rows>>
    BY <1>3 DEF ProgramRestarts, tables
  <2>2. \A t \in Syncers : sync'[t] = Resting BY <2>1
  <2>3. SyncTypes' BY <2>1, RestingTyped DEF SyncTypes
  <2>4. Keyed' BY <2>1, <2>2, RestingTyped DEF Keyed
  <2> QED BY <2>3, <2>4
<1>4. ASSUME NEW t \in Syncers, StartSync(t) \/ SyncStep(t) \/ SyncBreaks(t) PROVE SyncTypes' /\ Keyed'
  <2> DEFINE Good(work) == work \in Thread /\ KeyedThread(work) /\ sync' = [sync EXCEPT ![t] = work]
  <2>1. /\ sync[t] \in Thread /\ KeyedThread(sync[t]) /\ watch \in [Syncers -> Watch] /\ sync \in [Syncers -> Thread]
        /\ Resting \in Thread /\ KeyedThread(Resting) /\ [watch EXCEPT ![t] = Unwatched] \in [Syncers -> Watch]
    BY ThreadSteps DEF SyncTypes, Thread
  <2>2. UNCHANGED <<onPve, copies, down>>
    BY <1>4 DEF StartSync, SyncStep, SyncBreaks, TakeSync, FetchInventory, FetchFails, StoreInventory,
                StorePveBackups, FetchPbs, StorePbsBackups, StoreLastBackup, Prune, FinishSync, Read, world
  <2>3. ASSUME NEW pc \in {"take", "read", "store", "pve", "ask", "pbs", "last", "prune", "end"},
               NEW known \in SUBSET Guests
        PROVE  /\ [sync[t] EXCEPT !.pc = pc, !.known = known] \in Thread
               /\ KeyedThread([sync[t] EXCEPT !.pc = pc, !.known = known])
               /\ [sync[t] EXCEPT !.pc = pc] \in Thread /\ KeyedThread([sync[t] EXCEPT !.pc = pc])
    BY <2>1 DEF Thread, KeyedThread
  <2>4. CASE StartSync(t)
    <3>1. sync' = [sync EXCEPT ![t] = [sync[t] EXCEPT !.pc = "take"]] /\ UNCHANGED <<vms, rows, watch>>
      BY <2>1, <2>4 DEF StartSync, tables
    <3> QED BY <2>1, <2>2, <2>3, <3>1, ThreadTypedAlone
  <2>5. CASE TakeSync(t)
    <3> DEFINE known == {g \in Guests : vms[g] # "none"}
    <3>1. sync' = [sync EXCEPT ![t] = [sync[t] EXCEPT !.pc = "read", !.known = known]] /\ UNCHANGED <<vms, rows>>
      BY <2>1, <2>5 DEF TakeSync, tables
    <3>2. watch' \in [Syncers -> Watch]
      <4> DEFINE others == {u \in Syncers \ {t} : Working(u)}
                 taken == [guests |-> ShownGuests, copies |-> ShownCopies, still |-> TRUE, alone |-> others = {}]
                 seen(u) == IF u = t THEN taken ELSE [watch[u] EXCEPT !.alone = @ /\ u \notin others]
      <4>1. watch' = [u \in Syncers |-> seen(u)] BY <2>5 DEF TakeSync
      <4>2. taken \in Watch BY ShownFacts DEF Watch, SyncTypes
      <4>3. \A u \in Syncers : [watch[u] EXCEPT !.alone = @ /\ u \notin others] \in Watch BY <2>1 DEF Watch
      <4>4. \A u \in Syncers : seen(u) \in Watch BY <4>2, <4>3
      <4> HIDE DEF seen
      <4> QED BY <4>1, <4>4
    <3>3. known \in SUBSET Guests OBVIOUS
    <3> HIDE DEF known
    <3> QED BY <2>1, <2>2, <2>3, <3>1, <3>2, <3>3, ThreadTypedAlone
  <2>6. CASE FetchInventory(t)
    <3>1. PICK present \in SUBSET Guests, blocked \in BOOLEAN :
            sync' = [sync EXCEPT ![t] = [sync[t] EXCEPT !.pc = "store", !.present = present,
                                           !.listed = ViaPve(present \cup sync[t].known), !.blocked = blocked]]
      <4>1. PICK listing \in Listings : Read(t, listing, listing.none \/ Asked \cap down # {})
        BY <2>6 DEF FetchInventory
      <4> DEFINE found == listing.present
                 barred == listing.none \/ Asked \cap down # {}
      <4>2. found \in SUBSET Guests /\ barred \in BOOLEAN BY ListedFacts
      <4>3. sync' = [sync EXCEPT ![t] = [sync[t] EXCEPT !.pc = "store", !.present = found,
                                           !.listed = ViaPve(found \cup sync[t].known), !.blocked = barred]]
        BY <2>1, <4>1 DEF Read
      <4> HIDE DEF found, barred
      <4> QED BY <4>2, <4>3
    <3> DEFINE listed == ViaPve(present \cup sync[t].known)
               work == [sync[t] EXCEPT !.pc = "store", !.present = present, !.listed = listed, !.blocked = blocked]
    <3>2. sync[t].known \in SUBSET Guests BY <2>1 DEF Thread
    <3>3. listed \subseteq Events /\ \A e \in listed : IF e.place = "dir" THEN e.minute \in FileStarts
                                                                    ELSE e.minute \in SnapshotMinutes
      BY <3>2, ViaPveLists
    <3>4. sync' = [sync EXCEPT ![t] = work] /\ UNCHANGED <<vms, rows, watch>>
      BY <2>6, <3>1 DEF FetchInventory, Read, tables
    <3> HIDE DEF listed
    <3>5. work \in Thread /\ KeyedThread(work) BY <2>1, <3>3 DEF Thread, KeyedThread
    <3> HIDE DEF work
    <3> QED BY <2>1, <2>2, <3>4, <3>5, ThreadTypedAlone
  <2>7. CASE FetchFails(t) \/ FinishSync(t) \/ SyncBreaks(t)
    <3>1. /\ sync' = [sync EXCEPT ![t] = Resting] /\ watch' = [watch EXCEPT ![t] = Unwatched]
          /\ UNCHANGED <<vms, rows>>
      BY <2>7 DEF FetchFails, FinishSync, SyncBreaks, Leave, tables
    <3> QED BY <2>1, <2>2, <3>1, ThreadTypedAlone
  <2>8. CASE StoreInventory(t)
    <3>1. /\ sync' = [sync EXCEPT ![t] = [sync[t] EXCEPT !.pc = "pve"]] /\ UNCHANGED <<rows, watch>>
          /\ vms' \in [Guests -> {"none", "there", "missing"}]
      BY <2>1, <2>8 DEF StoreInventory
    <3>2. RowsKeyed(rows') BY <3>1 DEF SyncTypes, Keyed, Row, RowsKeyed
    <3> QED BY <2>1, <2>2, <2>3, <3>1, <3>2, ThreadTyped
  <2>9. CASE StorePveBackups(t)
    <3> DEFINE events == FromPve(sync[t].listed)
    <3>1. /\ sync' = [sync EXCEPT ![t] = [sync[t] EXCEPT !.pc = "ask"]] /\ UNCHANGED <<vms, watch>>
          /\ rows' = Upserted(rows, events, "pve", TRUE)
      BY <2>1, <2>9 DEF StorePveBackups
    <3>2. events \in SUBSET Events /\ \A e \in events : e.minute \in FileStarts BY SnapshotEvents
    <3> HIDE DEF events
    <3>3. RowsKeyed(rows')
      <4>1. \A e \in events : e.minute \in (IF "pve" = "pve" THEN FileStarts ELSE SnapshotMinutes) BY <3>2
      <4> QED BY <3>1, <3>2, <4>1, RowsTyped
    <3>4. vms' \in [Guests -> {"none", "there", "missing"}] BY <3>1 DEF SyncTypes
    <3> QED BY <2>1, <2>2, <2>3, <3>1, <3>3, <3>4, ThreadTyped
  <2>10. CASE FetchPbs(t)
    <3> DEFINE direct == ViaPbs(sync[t].present \cup sync[t].known)
               failed == [sync[t] EXCEPT !.pc = "pbs", !.complete = FALSE, !.blocked = TRUE]
               read == [sync[t] EXCEPT !.pc = "pbs", !.direct = direct]
    <3>1. /\ sync' = [sync EXCEPT ![t] = failed] \/ sync' = [sync EXCEPT ![t] = read]
          /\ UNCHANGED <<vms, rows, watch>>
      BY <2>1, <2>10 DEF FetchPbs
    <3>2. sync[t].present \in SUBSET Guests /\ sync[t].known \in SUBSET Guests BY <2>1 DEF Thread
    <3>3. direct \subseteq Events /\ \A e \in direct : e.place = "reg" /\ e.minute \in SnapshotMinutes
      BY <3>2, ViaPbsLists
    <3> HIDE DEF direct
    <3>4. failed \in Thread /\ KeyedThread(failed) BY <2>1 DEF Thread, KeyedThread
    <3>5. read \in Thread /\ KeyedThread(read) BY <2>1, <3>3 DEF Thread, KeyedThread
    <3> HIDE DEF failed, read
    <3> QED BY <2>1, <2>2, <3>1, <3>4, <3>5, ThreadTypedAlone
  <2>11. CASE StorePbsBackups(t)
    <3> DEFINE events == PbsEvents(t)
               new == Upserted(rows, events, "pbs", sync[t].complete)
               seen == FromPve(sync[t].listed) \cup events
               work == [Resting EXCEPT !.pc = "last", !.blocked = sync[t].blocked]
    <3>1. /\ sync' = [sync EXCEPT ![t] = work] /\ UNCHANGED <<vms, watch>>
          /\ rows' = Located(new, seen)
      BY <2>1, <2>11 DEF StorePbsBackups
    <3>2. events \in SUBSET Events /\ \A e \in events : e.minute \in SnapshotMinutes BY SnapshotEvents
    <3>3. seen \subseteq Events BY SnapshotEvents
    <3>4. RowsKeyed(new)
      <4>1. \A e \in events : e.minute \in (IF "pbs" = "pve" THEN FileStarts ELSE SnapshotMinutes) BY <3>2
      <4>2. sync[t].complete \in BOOLEAN BY <2>1 DEF Thread
      <4> HIDE DEF events
      <4> QED BY <3>2, <4>1, <4>2, RowsTyped
    <3> HIDE DEF new, seen
    <3>5. /\ rows' \in [Guests -> [Minutes -> Row]]
          /\ \A g \in Guests, m \in Minutes : rows'[g][m].source = new[g][m].source
      BY <3>1, <3>3, <3>4, LocatedTyped DEF RowsKeyed
    <3>6. RowsKeyed(rows') BY <3>4, <3>5 DEF RowsKeyed
    <3>7. work \in Thread /\ KeyedThread(work)
      BY <2>1, RestingTyped DEF Thread, KeyedThread
    <3>8. vms' \in [Guests -> {"none", "there", "missing"}] BY <3>1 DEF SyncTypes
    <3> HIDE DEF work
    <3> QED BY <2>1, <2>2, <3>1, <3>6, <3>7, <3>8, ThreadTyped
  <2>12. CASE StoreLastBackup(t)
    <3>1. sync' = [sync EXCEPT ![t] = [sync[t] EXCEPT !.pc = "prune"]] /\ UNCHANGED <<vms, rows, watch>>
      BY <2>1, <2>12 DEF StoreLastBackup
    <3> QED BY <2>1, <2>2, <2>3, <3>1, ThreadTypedAlone
  <2>13. CASE Prune(t)
    <3> DEFINE gone == {g \in Guests : ~sync[t].blocked /\ vms[g] = "missing" /\ Live(g) = {}}
    <3>1. /\ sync' = [sync EXCEPT ![t] = [sync[t] EXCEPT !.pc = "end"]] /\ UNCHANGED watch
          /\ vms' = [g \in Guests |-> IF g \in gone THEN "none" ELSE vms[g]]
          /\ rows' = [g \in Guests |-> IF g \in gone THEN [m \in Minutes |-> Absent] ELSE rows[g]]
      BY <2>1, <2>13 DEF Prune
    <3> HIDE DEF gone
    <3>2. vms' \in [Guests -> {"none", "there", "missing"}] BY <3>1 DEF SyncTypes
    <3>3. Absent \in Row /\ Absent.source = "none" BY DEF Absent, Row
    <3>4. rows \in [Guests -> [Minutes -> Row]] BY DEF SyncTypes, Row
    <3>5. rows' \in [Guests -> [Minutes -> Row]] BY <3>1, <3>3, <3>4
    <3>6. \A g \in Guests, m \in Minutes : /\ rows'[g][m].source = "pve" => m \in FileStarts
                                           /\ rows'[g][m].source = "pbs" => m \in SnapshotMinutes
      BY <3>1, <3>3 DEF Keyed
    <3> QED BY <2>1, <2>2, <2>3, <3>1, <3>2, <3>5, <3>6, ThreadTyped DEF RowsKeyed
  <2> QED BY <1>4, <2>4, <2>5, <2>6, <2>7, <2>8, <2>9, <2>10, <2>11, <2>12, <2>13 DEF SyncStep
<1> QED BY <1>1, <1>2, <1>3, <1>4 DEF SyncNext

-----------------------------------------------------------------------------

\* A thread about which nothing changes has still seen what it has seen.
LEMMA SeenStays ==
  ASSUME NEW t \in Syncers, Seen(t), sync'[t] = sync[t], watch'[t] = watch[t],
         UNCHANGED <<onPve, copies, down, vms, rows, newest>>
  PROVE  Seen(t)'
<1>1. SeenWorld(t)' BY ShownSame DEF Seen, SeenWorld
<1>2. SeenGuests(t)' BY DEF Seen, SeenGuests, Stage, Known, AskedFor
<1>3. SeenListed(t)' BY DEF Seen, SeenListed, Stage, AskedFor
<1>4. SeenDirect(t)' BY DEF Seen, SeenDirect, Stage, AskedFor
<1>5. SeenFiles(t)' BY DEF Seen, SeenFiles, Stage, Known
<1>6. SeenRows(t)' BY DEF Seen, SeenRows, Stage, Known, Live
<1>7. SeenNewest(t)' BY DEF Seen, SeenNewest, Stage, Known, Live
<1> QED BY <1>1, <1>2, <1>3, <1>4, <1>5, <1>6, <1>7 DEF Seen

\* The world changes: the watch remembers what is still so.
LEMMA WorldSeen ==
  ASSUME ClusterInv, GuestComesOrGoes \/ BackupWritten \/ BackupDeleted \/ SourceToggles
  PROVE  Fresh' /\ AloneTrue' /\ \A t \in Syncers : Alone(t)' => Seen(t)'
<1>1. UNCHANGED <<vms, rows, newest, sync>> /\ Witnessed
  BY DEF GuestComesOrGoes, BackupWritten, BackupDeleted, SourceToggles, Changes, tables
<1>2. ASSUME NEW t \in Syncers, Working(t)
      PROVE  /\ watch'[t].guests = watch[t].guests \cap ShownGuests'
             /\ watch'[t].copies = watch[t].copies \cap ShownCopies'
             /\ ~watch'[t].still /\ watch'[t].alone = watch[t].alone
  BY <1>1, <1>2 DEF Witnessed, ClusterInv, SyncTypes
<1>3. \A t \in Syncers : Working(t)' <=> Working(t) BY <1>1 DEF Working
<1>4. \A t \in Syncers : Alone(t)' <=> Alone(t) BY <1>2, <1>3 DEF Alone
<1>5. AloneTrue' BY <1>3, <1>4 DEF AloneTrue, ClusterInv
<1>6. Fresh' BY <1>1 DEF Fresh, ClusterInv, Stage
<1>7. ASSUME NEW t \in Syncers, Alone(t)' PROVE Seen(t)'
  <2>1. Working(t) /\ Seen(t) BY <1>4, <1>7 DEF ClusterInv, Alone
  <2>2. SeenWorld(t)' BY <1>2, <2>1 DEF SeenWorld
  <2>3. SeenGuests(t)' BY <1>1, <1>2, <2>1 DEF Seen, SeenGuests, Stage, Known, AskedFor
  <2>4. SeenListed(t)' BY <1>1, <1>2, <2>1 DEF Seen, SeenListed, Stage, AskedFor
  <2>5. SeenDirect(t)' BY <1>1, <1>2, <2>1 DEF Seen, SeenDirect, Stage, AskedFor
  <2>6. SeenFiles(t)' BY <1>1, <1>2, <2>1 DEF Seen, SeenFiles, Stage, Known
  <2>7. SeenRows(t)' BY <1>1, <1>2, <2>1 DEF Seen, SeenRows, Stage, Known, Live
  <2>8. SeenNewest(t)' BY <1>1, <1>2, <2>1 DEF Seen, SeenNewest, Stage, Known, Live
  <2> QED BY <2>2, <2>3, <2>4, <2>5, <2>6, <2>7, <2>8 DEF Seen
<1> QED BY <1>5, <1>6, <1>7

\* A sync that is asked for has not begun; one that ends leaves the others as they are.
LEMMA EndsSeen ==
  ASSUME ClusterInv, NEW t \in Syncers, StartSync(t) \/ FetchFails(t) \/ FinishSync(t) \/ SyncBreaks(t)
  PROVE  Fresh' /\ AloneTrue' /\ \A u \in Syncers : Alone(u)' => Seen(u)'
<1>1. /\ UNCHANGED <<onPve, copies, down, vms, rows, newest>> /\ ~Working(t)'
      /\ \A u \in Syncers \ {t} : sync'[u] = sync[u] /\ watch'[u] = watch[u]
      /\ ~sync'[t].blocked /\ sync'[t].complete /\ sync'[t].direct = {}
  <2>1. CASE StartSync(t)
    BY <2>1 DEF StartSync, tables, Working, ClusterInv, SyncTypes, Fresh, Stage
  <2>2. CASE FetchFails(t) \/ FinishSync(t) \/ SyncBreaks(t)
    <3>1. /\ sync' = [sync EXCEPT ![t] = Resting] /\ watch' = [watch EXCEPT ![t] = Unwatched]
          /\ UNCHANGED <<onPve, copies, down, vms, rows, newest>>
      BY <2>2 DEF FetchFails, FinishSync, SyncBreaks, Leave, tables, world
    <3>2. sync'[t] = Resting /\ \A u \in Syncers \ {t} : sync'[u] = sync[u] /\ watch'[u] = watch[u]
      BY <3>1 DEF ClusterInv, SyncTypes
    <3> QED BY <3>1, <3>2, RestingTyped DEF Working
  <2> QED BY <2>1, <2>2
<1>2. \A u \in Syncers : Working(u)' => u # t /\ Working(u) BY <1>1 DEF Working
<1>3. \A u \in Syncers : Alone(u)' => u # t /\ Alone(u) BY <1>1, <1>2 DEF Alone
<1>4. AloneTrue' BY <1>2, <1>3 DEF AloneTrue, ClusterInv
<1>5. Fresh' BY <1>1 DEF Fresh, ClusterInv, Stage
<1>6. ASSUME NEW u \in Syncers, Alone(u)' PROVE Seen(u)'
  BY <1>1, <1>3, <1>6, SeenStays DEF ClusterInv
<1> QED BY <1>4, <1>5, <1>6

\* The program restarts: no thread works.
LEMMA RestartSeen ==
  ASSUME ProgramRestarts
  PROVE  Fresh' /\ AloneTrue' /\ \A t \in Syncers : ~Alone(t)'
<1>1. \A t \in Syncers : sync'[t] = Resting BY DEF ProgramRestarts
<1>2. \A t \in Syncers : ~Working(t)' BY <1>1, RestingTyped DEF Working
<1> QED BY <1>1, <1>2, RestingTyped DEF Fresh, AloneTrue, Alone, Stage

\* A sync begins: it is alone if no other works, and then no other is alone any more.
LEMMA TakeSeen ==
  ASSUME ClusterInv, NEW t \in Syncers, TakeSync(t)
  PROVE  Fresh' /\ AloneTrue' /\ \A u \in Syncers : Alone(u)' => Seen(u)'
<1> DEFINE others == {u \in Syncers \ {t} : Working(u)}
<1>1. /\ UNCHANGED <<onPve, copies, down, vms, rows, newest>> /\ sync[t].pc = "take"
      /\ sync' = [sync EXCEPT ![t].pc = "read", ![t].known = {g \in Guests : vms[g] # "none"}]
  BY DEF TakeSync, tables, world
<1>2. /\ sync'[t].pc = "read" /\ sync'[t].known = {g \in Guests : vms[g] # "none"}
      /\ sync'[t].blocked = sync[t].blocked /\ sync'[t].complete = sync[t].complete
      /\ sync'[t].direct = sync[t].direct
      /\ \A u \in Syncers \ {t} : sync'[u] = sync[u]
  BY <1>1 DEF ClusterInv, SyncTypes
<1>3. watch' = [u \in Syncers |->
        IF u = t THEN [guests |-> ShownGuests, copies |-> ShownCopies, still |-> TRUE, alone |-> others = {}]
        ELSE [watch[u] EXCEPT !.alone = @ /\ u \notin others]]
  BY DEF TakeSync
<1>4. watch'[t] = [guests |-> ShownGuests, copies |-> ShownCopies, still |-> TRUE, alone |-> others = {}] BY <1>3
<1>5. \A u \in Syncers \ {t} : watch'[u].alone => u \notin others
  <2>1. ASSUME NEW u \in Syncers \ {t} PROVE watch'[u] = [watch[u] EXCEPT !.alone = @ /\ u \notin others]
    BY <1>3
  <2>2. \A u \in Syncers : watch[u] \in [guests : SUBSET Guests, copies : SUBSET Copies, still : BOOLEAN,
                                        alone : BOOLEAN]
    BY DEF ClusterInv, SyncTypes
  <2> HIDE DEF others
  <2> QED BY <2>1, <2>2
<1>6. \A u \in Syncers \ {t} : Working(u)' => u \in others BY <1>2 DEF Working
<1>7. \A u \in Syncers : Alone(u)' => u = t BY <1>5, <1>6 DEF Alone
<1>8. Alone(t)' => others = {}
  <2>1. watch'[t].alone = (others = {}) BY <1>4
  <2> HIDE DEF others
  <2> QED BY <2>1 DEF Alone
<1>9. AloneTrue' BY <1>6, <1>7, <1>8 DEF AloneTrue
<1>10. ~sync[t].blocked /\ sync[t].complete /\ sync[t].direct = {} BY <1>1 DEF ClusterInv, Fresh, Stage
<1>11. Fresh' BY <1>2 DEF Fresh, ClusterInv, Stage
<1>12. Seen(t)'
  <2>1. SeenWorld(t)' BY <1>1, <1>4, ShownSame DEF SeenWorld
  <2>2. SeenGuests(t)' BY <1>1, <1>2, <1>10 DEF SeenGuests, Stage, Known
  <2>3. SeenDirect(t)' BY <1>2, <1>10 DEF SeenDirect, Stage
  <2>4. SeenListed(t)' /\ SeenFiles(t)' /\ SeenRows(t)' /\ SeenNewest(t)'
    BY <1>2 DEF SeenListed, SeenFiles, SeenRows, SeenNewest, Stage
  <2> QED BY <2>1, <2>2, <2>3, <2>4 DEF Seen
<1> QED BY <1>7, <1>9, <1>11, <1>12

-----------------------------------------------------------------------------

\* What a thread's step leaves of the rest.
LEMMA StepGoesOn ==
  ASSUME ClusterInv, NEW t \in Syncers, NEW work, work.pc \notin {"idle", "take"}, Working(t),
         sync' = [sync EXCEPT ![t] = work], watch' = watch
  PROVE  GoesOn(t) /\ Fresh' /\ sync'[t] = work
<1>1. sync'[t] = work /\ \A u \in Syncers \ {t} : sync'[u] = sync[u] BY DEF ClusterInv, SyncTypes
<1> QED BY <1>1 DEF GoesOn, Fresh, ClusterInv, Stage, Working

\* PVE has listed guests and backups: of everything it could read, all.
LEMMA InventorySeen ==
  ASSUME ClusterInv, NEW t \in Syncers, FetchInventory(t), Alone(t)
  PROVE  Seen(t)'
<1>0. PICK listing \in Listings : Read(t, listing, listing.none \/ Asked \cap down # {})
  BY DEF FetchInventory
<1> DEFINE present == listing.present
           blocked == listing.none \/ Asked \cap down # {}
<1>1. sync[t].pc = "read" /\ UNCHANGED <<onPve, copies, down, vms, rows, newest, watch>>
  BY <1>0 DEF FetchInventory, Read, tables, world
<1>2. /\ sync'[t].pc = "store" /\ sync'[t].present = present /\ sync'[t].blocked = blocked
      /\ sync'[t].listed = ViaPve(present \cup sync[t].known)
      /\ sync'[t].known = sync[t].known /\ sync'[t].complete = sync[t].complete
      /\ sync'[t].direct = sync[t].direct
  BY <1>0 DEF Read, ClusterInv, SyncTypes
<1>3. Seen(t) BY DEF ClusterInv
<1>4. SeenWorld(t)' BY <1>1, <1>3, ShownSame DEF Seen, SeenWorld
<1>5. ~blocked => Asked \cap down = {} OBVIOUS
<1> HIDE DEF blocked
<1>6. SeenGuests(t)'
  <2>1. watch[t].guests \subseteq present BY <1>3, ListedFacts DEF ClusterInv, Seen, SeenWorld
  <2> HIDE DEF present
  <2> QED BY <1>1, <1>2, <1>3, <2>1 DEF Seen, SeenGuests, Stage, Known
<1>7. SeenListed(t)'
  <2> DEFINE all == present \cup sync[t].known
  <2>1. all \in SUBSET Guests BY ListedFacts DEF ClusterInv, SyncTypes
  <2>2. /\ \A e \in ViaPve(all) : e.viaPve /\ \E c \in copies : Shows(e, c)
        /\ \A c \in copies : c.guest \in all /\ c.place \in Asked \ down => \E e \in ViaPve(all) : Shows(e, c)
    BY <2>1, ViaPveLists DEF ClusterInv
  <2>3. /\ watch[t].copies \subseteq copies
        /\ \A c \in watch[t].copies : c.place # "reg" => "storages" \notin down
    BY <1>3, ShownFacts DEF Seen, SeenWorld, ShownCopies
  <2>4. \A c \in copies : c.place \in {"dir", "reg", "alien"} BY MinutesOfCopies DEF ClusterInv, SyncTypes
  <2>5. AskedFor(t)' = all BY <1>2 DEF AskedFor
  <2> HIDE DEF present, all
  <2>6. sync'[t].listed = ViaPve(all) BY <1>2 DEF all
  <2>7. \A e \in sync'[t].listed : e.viaPve /\ \E c \in copies : Shows(e, c) BY <2>2, <2>6
  <2>8. ~blocked => \A c \in watch[t].copies : c.place # "reg" /\ c.guest \in all =>
                       \E e \in sync'[t].listed : Shows(e, c)
    <3>1. \A c \in watch[t].copies : c.place # "reg" => c.place \in Asked BY <2>3, <2>4 DEF Asked
    <3> QED BY <1>5, <2>2, <2>3, <2>6, <3>1
  <2> QED BY <1>1, <1>2, <2>5, <2>7, <2>8 DEF SeenListed, Shows
<1>8. SeenDirect(t)' BY <1>1, <1>2, <1>3 DEF Seen, SeenDirect, Stage
<1>9. SeenFiles(t)' /\ SeenRows(t)' /\ SeenNewest(t)' BY <1>2 DEF SeenFiles, SeenRows, SeenNewest, Stage
<1> QED BY <1>4, <1>6, <1>7, <1>8, <1>9 DEF Seen

\* The guests are stored: those known are those asked about.
LEMMA GuestsStoredSeen ==
  ASSUME ClusterInv, NEW t \in Syncers, StoreInventory(t), Alone(t)
  PROVE  Seen(t)'
<1>1. /\ sync[t].pc = "store" /\ UNCHANGED <<onPve, copies, down, rows, watch>>
      /\ vms' = [g \in Guests |-> IF g \in sync[t].present THEN "there"
                                  ELSE IF vms[g] = "none" THEN "none" ELSE "missing"]
  BY DEF StoreInventory, world
<1>2. /\ sync'[t].pc = "pve" /\ sync'[t].present = sync[t].present /\ sync'[t].blocked = sync[t].blocked
      /\ sync'[t].listed = sync[t].listed /\ sync'[t].known = sync[t].known
      /\ sync'[t].complete = sync[t].complete /\ sync'[t].direct = sync[t].direct
  BY DEF StoreInventory, ClusterInv, SyncTypes
<1>3. Seen(t) BY DEF ClusterInv
<1>4. SeenWorld(t)' BY <1>1, <1>3, ShownSame DEF Seen, SeenWorld
<1>5. SeenGuests(t)'
  <2>1. sync[t].known = {g \in Guests : Known(g)} /\ (~sync[t].blocked => watch[t].guests \subseteq sync[t].present)
    BY <1>1, <1>3 DEF Seen, SeenGuests, Stage
  <2>2. \A g \in Guests : vms'[g] # "none" <=> g \in sync[t].known \cup sync[t].present
    BY <1>1, <2>1 DEF Known
  <2>3. \A g \in Guests : vms'[g] = "missing" => g \notin sync[t].present BY <1>1
  <2> QED BY <1>1, <1>2, <2>1, <2>2, <2>3 DEF SeenGuests, Stage, Known, AskedFor
<1>6. SeenListed(t)' BY <1>1, <1>2, <1>3 DEF Seen, SeenListed, Stage, AskedFor
<1>7. SeenDirect(t)' BY <1>1, <1>2, <1>3 DEF Seen, SeenDirect, Stage
<1>8. SeenFiles(t)' /\ SeenRows(t)' /\ SeenNewest(t)' BY <1>2 DEF SeenFiles, SeenRows, SeenNewest, Stage
<1> QED BY <1>4, <1>5, <1>6, <1>7, <1>8 DEF Seen

\* The backups on file storages are stored: they are the rows of their kind.
LEMMA FilesStoredSeen ==
  ASSUME ClusterInv, NEW t \in Syncers, StorePveBackups(t), Alone(t)
  PROVE  Seen(t)'
<1> DEFINE events == FromPve(sync[t].listed)
<1>1. /\ sync[t].pc = "pve" /\ UNCHANGED <<onPve, copies, down, vms, newest, watch>>
      /\ rows' = Upserted(rows, events, "pve", TRUE)
  BY DEF StorePveBackups, world
<1>2. /\ sync'[t].pc = "ask" /\ sync'[t].present = sync[t].present /\ sync'[t].blocked = sync[t].blocked
      /\ sync'[t].listed = sync[t].listed /\ sync'[t].known = sync[t].known
      /\ sync'[t].complete = sync[t].complete /\ sync'[t].direct = sync[t].direct
  BY DEF StorePveBackups, ClusterInv, SyncTypes
<1>3. Seen(t) /\ SyncTypes /\ Keyed BY DEF ClusterInv
<1>4. SeenWorld(t)' BY <1>1, <1>3, ShownSame DEF Seen, SeenWorld
<1>5. SeenGuests(t)' BY <1>1, <1>2, <1>3 DEF Seen, SeenGuests, Stage, Known, AskedFor
<1>6. SeenListed(t)' BY <1>1, <1>2, <1>3 DEF Seen, SeenListed, Stage, AskedFor
<1>7. SeenDirect(t)' BY <1>1, <1>2, <1>3 DEF Seen, SeenDirect, Stage
<1>8. SeenFiles(t)'
  <2>1. /\ events \in SUBSET Events /\ events \subseteq sync[t].listed
        /\ \A e \in events : e.place = "dir" /\ e.minute \in FileStarts
    BY <1>3, SnapshotEvents
  <2>2. \A e \in sync[t].listed : e.place = "dir" => e \in events BY DEF FromPve
  <2>3. \A e \in events : e.minute \in (IF "pve" = "pve" THEN FileStarts ELSE SnapshotMinutes) BY <2>1
  <2> HIDE DEF events
  <2> DEFINE hit(g, m) == \E e \in events : e.guest = g /\ e.minute = m
  <2>4. ASSUME NEW g \in Guests, NEW m \in Minutes, Known(g)
        PROVE  /\ hit(g, m) => ~rows'[g][m].gone /\ rows'[g][m].source = "pve"
               /\ ~hit(g, m) => rows'[g][m].source = rows[g][m].source
               /\ ~hit(g, m) /\ rows[g][m].source = "pve" => rows'[g][m].gone
    <3>1. RowsWritten(Upserted(rows, events, "pve", TRUE), events, "pve", TRUE) BY <1>3, <2>1, <2>3, RowsTyped
    <3> QED BY <1>1, <2>4, <3>1 DEF RowsWritten, Known
  <2>5. \A g \in Guests : Known(g)' <=> Known(g) BY <1>1 DEF Known
  <2>6. \A g \in Guests : Known(g) => g \in AskedFor(t) BY <1>1, <1>3 DEF Seen, SeenGuests, Stage
  <2>7. watch[t].copies \subseteq copies /\ copies \subseteq Copies
    BY <1>3, ShownFacts DEF Seen, SeenWorld, SyncTypes
  <2>8. ASSUME ~sync[t].blocked, NEW g \in Guests, Known(g), NEW c \in watch[t].copies,
               c.guest = g, c.place = "dir"
        PROVE  rows'[g][c.start].source = "pve" /\ ~rows'[g][c.start].gone
    <3>1. PICK e \in sync[t].listed : Shows(e, c)
      BY <1>1, <1>3, <2>6, <2>8 DEF Seen, SeenListed, Stage
    <3>2. e \in events /\ e.guest = g /\ e.minute = c.start BY <2>2, <2>8, <3>1 DEF Shows
    <3>3. c.start \in Minutes BY <2>7, <2>8, MinutesOfCopies, MinutesTold
    <3> QED BY <2>4, <2>8, <3>2, <3>3
  <2>9. ASSUME watch[t].still, NEW g \in Guests, Known(g), NEW m \in Minutes,
               rows'[g][m].source = "pve", ~rows'[g][m].gone
        PROVE  \E c \in copies : c.guest = g /\ c.place = "dir" /\ c.start = m
    <3>1. PICK e \in events : e.guest = g /\ e.minute = m BY <2>4, <2>9
    <3>2. PICK c \in copies : Shows(e, c)
      BY <1>1, <1>3, <2>1, <2>9 DEF Seen, SeenListed, Stage
    <3> QED BY <2>1, <3>1, <3>2 DEF Shows
  <2> QED BY <1>1, <1>2, <2>5, <2>8, <2>9 DEF SeenFiles
<1>9. SeenRows(t)' /\ SeenNewest(t)' BY <1>2 DEF SeenRows, SeenNewest, Stage
<1> QED BY <1>4, <1>5, <1>6, <1>7, <1>8, <1>9 DEF Seen

\* The registered PBS has listed what it holds, or deleting is forbidden.
LEMMA PbsFetchedSeen ==
  ASSUME ClusterInv, NEW t \in Syncers, FetchPbs(t), Alone(t)
  PROVE  Seen(t)'
<1> DEFINE all == sync[t].present \cup sync[t].known
<1>1. sync[t].pc = "ask" /\ UNCHANGED <<onPve, copies, down, vms, rows, newest, watch>>
  BY DEF FetchPbs, world
<1>2. /\ sync'[t].pc = "pbs" /\ sync'[t].present = sync[t].present
      /\ sync'[t].listed = sync[t].listed /\ sync'[t].known = sync[t].known
      /\ \/ sync'[t].blocked /\ ~sync'[t].complete /\ sync'[t].direct = sync[t].direct
         \/ /\ sync'[t].blocked = sync[t].blocked /\ sync'[t].complete = sync[t].complete
            /\ sync'[t].direct = ViaPbs(all)
  BY DEF FetchPbs, ClusterInv, SyncTypes
<1>3. Seen(t) /\ SyncTypes BY DEF ClusterInv
<1>4. SeenWorld(t)' BY <1>1, <1>3, ShownSame DEF Seen, SeenWorld
<1>5. SeenGuests(t)' BY <1>1, <1>2, <1>3 DEF Seen, SeenGuests, Stage, Known, AskedFor
<1>6. SeenListed(t)' BY <1>1, <1>2, <1>3 DEF Seen, SeenListed, Stage, AskedFor
<1>7. SeenFiles(t)' BY <1>1, <1>2, <1>3 DEF Seen, SeenFiles, Stage, Known
<1>8. SeenDirect(t)'
  <2>1. all \in SUBSET Guests /\ AskedFor(t) = all BY <1>3 DEF SyncTypes, AskedFor
  <2>2. /\ \A e \in ViaPbs(all) :
             ~e.viaPve /\ \E c \in copies : c.place = "reg" /\ c.guest = e.guest /\ c.start = e.minute
        /\ \A c \in ShownCopies : c.guest \in all /\ c.place = "reg" =>
             \E e \in ViaPbs(all) : e.guest = c.guest /\ e.minute = c.start
    BY <1>3, <2>1, ViaPbsLists
  <2>3. sync[t].complete /\ sync[t].direct = {} BY <1>1, <1>3 DEF Seen, SeenDirect, Stage
  <2>4. watch[t].copies \subseteq ShownCopies BY <1>3 DEF Seen, SeenWorld
  <2>5. AskedFor(t)' = all BY <1>2 DEF AskedFor
  <2> HIDE DEF all
  <2>6. CASE sync'[t].blocked /\ ~sync'[t].complete /\ sync'[t].direct = sync[t].direct
    BY <1>2, <2>3, <2>6 DEF SeenDirect, Stage
  <2>7. CASE sync'[t].complete = sync[t].complete /\ sync'[t].direct = ViaPbs(all)
    BY <1>1, <1>2, <2>2, <2>3, <2>4, <2>5, <2>7 DEF SeenDirect, Stage
  <2> QED BY <1>2, <2>6, <2>7 DEF all
<1>9. SeenRows(t)' /\ SeenNewest(t)' BY <1>2 DEF SeenRows, SeenNewest, Stage
<1> QED BY <1>4, <1>5, <1>6, <1>7, <1>8, <1>9 DEF Seen

\* The snapshots are stored: every backup has its row with its place, or one on the
\* registered PBS stands for it, and every row not marked removed has its backup.
LEMMA SnapshotsStoredSeen ==
  ASSUME ClusterInv, NEW t \in Syncers, StorePbsBackups(t), Alone(t)
  PROVE  Seen(t)'
<1> DEFINE files == FromPve(sync[t].listed)
           events == PbsEvents(t)
           all == (sync[t].listed \ files) \cup sync[t].direct
           complete == sync[t].complete
           new == Upserted(rows, events, "pbs", complete)
           hit(g, m) == \E e \in events : e.guest = g /\ e.minute = m
           present(g, m) == rows'[g][m].source # "none" /\ ~rows'[g][m].gone
<1>1. /\ sync[t].pc = "pbs" /\ UNCHANGED <<onPve, copies, down, vms, newest, watch>>
      /\ rows' = Located(new, files \cup events)
  BY DEF StorePbsBackups, world
<1>2. sync'[t].pc = "last" /\ sync'[t].blocked = sync[t].blocked
  BY RestingTyped DEF StorePbsBackups, ClusterInv, SyncTypes, Resting
<1>3. Seen(t) /\ SyncTypes /\ Keyed BY DEF ClusterInv
<1>4. SeenWorld(t)' BY <1>1, <1>3, ShownSame DEF Seen, SeenWorld
<1>5. SeenGuests(t)' BY <1>1, <1>2, <1>3 DEF Seen, SeenGuests, Stage, Known
<1>6. SeenListed(t)' /\ SeenDirect(t)' /\ SeenFiles(t)' /\ SeenNewest(t)'
  BY <1>2 DEF SeenListed, SeenDirect, SeenFiles, SeenNewest, Stage
<1>7. /\ events \in SUBSET Events /\ events \subseteq all
      /\ files \in SUBSET Events /\ files \subseteq sync[t].listed
      /\ \A e \in events : e.minute \in SnapshotMinutes
      /\ \A e \in files : e.place = "dir" /\ e.minute \in FileStarts
      /\ \A e \in all : e.viaPve =>
           e \in events \/ \E d \in all : ~d.viaPve /\ d.guest = e.guest /\ d.minute \in e.minute - 1 .. e.minute + 1
      /\ \A e \in all : ~e.viaPve => e \in events
      /\ \A e \in events : e.viaPve =>
           ~\E d \in all : ~d.viaPve /\ d.guest = e.guest /\ d.minute \in e.minute - 1 .. e.minute + 1
  BY <1>3, SnapshotEvents
<1>8. \A e \in sync[t].listed : e.place = "dir" <=> e \in files BY DEF FromPve
<1>9. complete \in BOOLEAN BY <1>3 DEF SyncTypes
<1>10. \A e \in all : e \in sync[t].direct \/ (e \in sync[t].listed /\ e.place # "dir") BY <1>8
<1>11. \A e \in sync[t].listed : e.place # "dir" => e \in all BY <1>8, <1>7
<1>12. sync[t].direct \subseteq all OBVIOUS
<1> HIDE DEF files, events, all, complete, hit
<1>13. RowsKeyed(new) /\ RowsWritten(new, events, "pbs", complete)
  <2>1. \A e \in events : e.minute \in (IF "pbs" = "pve" THEN FileStarts ELSE SnapshotMinutes) BY <1>7
  <2> QED BY <1>3, <1>7, <1>9, <2>1, RowsTyped
<1> HIDE DEF new
<1>14. \A g \in Guests, m \in Minutes :
         /\ rows'[g][m].source = new[g][m].source /\ rows'[g][m].gone = new[g][m].gone
         /\ rows'[g][m].source # "none" =>
              \A e \in files \cup events : e.guest = g /\ e.minute = m => e.place \in rows'[g][m].places
  <2>1. new \in [Guests -> [Minutes -> Row]] BY <1>13 DEF RowsKeyed
  <2>2. files \cup events \in SUBSET Events BY <1>7
  <2>3. \A g \in Guests, m \in Minutes :
          /\ rows'[g][m].source = new[g][m].source /\ rows'[g][m].gone = new[g][m].gone
          /\ new[g][m].source # "none" =>
               \A e \in files \cup events : e.guest = g /\ e.minute = m => e.place \in rows'[g][m].places
    BY <1>1, <2>1, <2>2, LocatedTyped
  <2> QED BY <2>3
<1>15. ASSUME NEW g \in Guests, NEW m \in Minutes, Known(g)
       PROVE  /\ hit(g, m) => ~rows'[g][m].gone /\ rows'[g][m].source = "pbs"
              /\ ~hit(g, m) => rows'[g][m].source = rows[g][m].source
              /\ ~hit(g, m) /\ complete /\ rows[g][m].source = "pbs" => rows'[g][m].gone
              /\ ~hit(g, m) /\ rows[g][m].source # "pbs" => rows'[g][m].gone = rows[g][m].gone
  BY <1>13, <1>14, <1>15 DEF RowsWritten, Known, hit
<1>16. \A g \in Guests : /\ Live(g)' = {m \in Minutes : present(g, m)} /\ (Known(g)' <=> Known(g))
  BY <1>1 DEF Live, Known
<1>17. \A g \in Guests : Known(g) => g \in AskedFor(t) BY <1>1, <1>3 DEF Seen, SeenGuests, Stage
<1>18. watch[t].copies \subseteq copies /\ copies \subseteq Copies
  BY <1>3, ShownFacts DEF Seen, SeenWorld, SyncTypes
<1>19. ~sync[t].blocked => complete BY <1>1, <1>3 DEF Seen, SeenDirect, Stage, complete
<1>20. \A e \in sync[t].direct :
         ~e.viaPve /\ (watch[t].still => \E c \in copies : c.place = "reg" /\ c.guest = e.guest /\ c.start = e.minute)
  BY <1>1, <1>3 DEF Seen, SeenDirect, Stage
<1>21. ~sync[t].blocked => \A c \in watch[t].copies : c.place = "reg" /\ c.guest \in AskedFor(t) =>
         \E e \in sync[t].direct : e.guest = c.guest /\ e.minute = c.start
  BY <1>1, <1>3 DEF Seen, SeenDirect, Stage
<1>22. \A e \in sync[t].listed : e.viaPve /\ (watch[t].still => \E c \in copies : Shows(e, c))
  BY <1>1, <1>3 DEF Seen, SeenListed, Stage
<1>23. ~sync[t].blocked => \A c \in watch[t].copies : c.place # "reg" /\ c.guest \in AskedFor(t) =>
         \E e \in sync[t].listed : Shows(e, c)
  BY <1>1, <1>3 DEF Seen, SeenListed, Stage
<1>24. \A e \in events : e.minute \in Minutes BY <1>7, MinutesTold
<1>25. ASSUME ~sync[t].blocked, NEW g \in Guests, Known(g), NEW c \in watch[t].copies, c.guest = g
       PROVE  \/ present(g, RowMinute(c)) /\ c.place \in rows'[g][RowMinute(c)].places
              \/ /\ c.place = "alien"
                 /\ \E m \in Minutes : /\ present(g, m) /\ m \in RowMinute(c) - 1 .. RowMinute(c) + 1
                                       /\ watch[t].still => \E d \in copies :
                                            d.guest = g /\ d.place = "reg" /\ d.start = m
  <2>1. /\ c.place \in {"dir", "reg", "alien"} /\ RowMinute(c) \in Minutes
        /\ c.place = "dir" => c.start \in FileStarts
    BY <1>18, MinutesOfCopies
  <2>2. CASE c.place = "dir"
    <3>1. RowMinute(c) = c.start BY <2>2 DEF RowMinute
    <3>2. rows[g][c.start].source = "pve" /\ ~rows[g][c.start].gone
      BY <1>1, <1>3, <1>25, <2>2 DEF Seen, SeenFiles, Stage
    <3>3. ~hit(g, c.start) BY <1>7, <2>1, <2>2, MinutesTold DEF hit
    <3>4. present(g, c.start) BY <1>15, <1>25, <2>1, <3>1, <3>2, <3>3
    <3>5. PICK e \in sync[t].listed : Shows(e, c) BY <1>17, <1>23, <1>25, <2>2
    <3>6. e \in files /\ e.guest = g /\ e.minute = c.start /\ e.place = c.place
      BY <1>8, <1>25, <2>2, <3>5 DEF Shows
    <3> QED BY <1>14, <2>1, <3>1, <3>4, <3>6
  <2>3. CASE c.place = "reg"
    <3>1. RowMinute(c) = c.start BY <2>3 DEF RowMinute
    <3>2. PICK e \in sync[t].direct : e.guest = c.guest /\ e.minute = c.start BY <1>17, <1>21, <1>25, <2>3
    <3>3. e \in events BY <1>7, <1>12, <1>20
    <3>4. hit(g, c.start) BY <1>25, <3>2, <3>3 DEF hit
    <3>5. present(g, c.start) BY <1>15, <1>25, <2>1, <3>1, <3>4
    <3>6. e.place = "reg" BY <1>3 DEF Keyed
    <3> QED BY <1>14, <1>25, <2>1, <2>3, <3>1, <3>2, <3>3, <3>5, <3>6
  <2>4. CASE c.place = "alien"
    <3>1. RowMinute(c) = c.start + Lag BY <2>4 DEF RowMinute
    <3>2. PICK e \in sync[t].listed : Shows(e, c) BY <1>17, <1>23, <1>25, <2>4
    <3>3. e \in all /\ e.viaPve /\ e.guest = g /\ e.minute = RowMinute(c) /\ e.place = "alien"
      BY <1>11, <1>22, <1>25, <2>4, <3>1, <3>2 DEF Shows
    <3>4. CASE e \in events
      <4>1. hit(g, RowMinute(c)) BY <3>3, <3>4 DEF hit
      <4>2. present(g, RowMinute(c)) BY <1>15, <1>25, <2>1, <4>1
      <4> QED BY <1>14, <2>1, <2>4, <3>3, <3>4, <4>2
    <3>5. CASE e \notin events
      <4>1. PICK d \in all : ~d.viaPve /\ d.guest = g /\ d.minute \in RowMinute(c) - 1 .. RowMinute(c) + 1
        BY <1>7, <3>3, <3>5
      <4>2. d \in events /\ d.minute \in Minutes BY <1>7, <1>24, <4>1
      <4>3. d \in sync[t].direct BY <1>10, <1>22, <4>1
      <4>4. present(g, d.minute)
        <5>1. hit(g, d.minute) BY <4>1, <4>2 DEF hit
        <5> QED BY <1>15, <1>25, <4>2, <5>1
      <4>5. watch[t].still => \E x \in copies : x.guest = g /\ x.place = "reg" /\ x.start = d.minute
        BY <1>20, <4>1, <4>3
      <4> QED BY <2>4, <4>1, <4>2, <4>4, <4>5
    <3> QED BY <3>4, <3>5
  <2> QED BY <2>1, <2>2, <2>3, <2>4
<1>26. ASSUME ~sync[t].blocked, watch[t].still, watch[t].copies = copies, Lag <= 1,
              NEW g \in Guests, Known(g), NEW m \in Minutes, present(g, m)
       PROVE  \E c \in copies : c.guest = g /\ m = RowMinute(c)
  <2>1. CASE hit(g, m)
    <3>1. PICK e \in events : e.guest = g /\ e.minute = m BY <2>1 DEF hit
    <3>2. e \in all BY <1>7
    <3>3. CASE e \in sync[t].direct BY <1>20, <1>26, <3>1, <3>3 DEF RowMinute
    <3>4. CASE e \in sync[t].listed /\ e.place # "dir"
      <4>1. PICK c \in copies : Shows(e, c) BY <1>22, <1>26, <3>4
      <4>2. /\ c.guest = g /\ c.place # "dir" /\ m = c.start + Lag /\ c.start \in Nat
            /\ c.place \in {"dir", "reg", "alien"}
        BY <1>18, <3>1, <3>4, <4>1, MinutesOfCopies DEF Shows
      <4>3. ASSUME c.place = "reg" PROVE FALSE
        <5>1. PICK d \in sync[t].direct : d.guest = g /\ d.minute = c.start
          BY <1>17, <1>18, <1>21, <1>26, <4>2, <4>3
        <5>2. d \in all /\ ~d.viaPve BY <1>12, <1>20
        <5>3. c.start \in m - 1 .. m + 1 BY <1>26, <4>2, SyncAssumption
        <5>4. e.viaPve BY <1>22, <3>4
        <5> QED BY <1>7, <3>1, <5>1, <5>2, <5>3, <5>4
      <4> QED BY <4>2, <4>3 DEF RowMinute
    <3> QED BY <1>10, <3>2, <3>3, <3>4
  <2>2. CASE ~hit(g, m)
    <3>1. rows[g][m].source \in {"none", "pve", "pbs"} BY <1>3 DEF SyncTypes
    <3>2. rows[g][m].source = "pve" /\ ~rows[g][m].gone BY <1>15, <1>19, <1>26, <2>2, <3>1
    <3> QED BY <1>1, <1>3, <1>26, <3>2 DEF Seen, SeenFiles, Stage, RowMinute
  <2> QED BY <2>1, <2>2
<1>27. SeenRows(t)'
  <2> HIDE DEF present
  <2> SUFFICES ASSUME ~sync[t].blocked, NEW g \in Guests, Known(g)
               PROVE  /\ \A c \in watch[t].copies : c.guest = g =>
                          \/ RowMinute(c) \in Live(g)' /\ c.place \in rows'[g][RowMinute(c)].places
                          \/ /\ c.place = "alien"
                             /\ \E m \in Live(g)' : /\ m \in RowMinute(c) - 1 .. RowMinute(c) + 1
                                                    /\ watch[t].still => \E d \in copies :
                                                         d.guest = g /\ d.place = "reg" /\ d.start = m
                      /\ watch[t].still /\ watch[t].copies = copies /\ Lag <= 1 =>
                           \A m \in Live(g)' : \E c \in copies : c.guest = g /\ m = RowMinute(c)
    <3>1. watch'[t] = watch[t] /\ copies' = copies /\ sync'[t].blocked = sync[t].blocked BY <1>1, <1>2
    <3> QED BY <1>16, <3>1 DEF SeenRows
  <2>1. \A m \in Minutes : m \in Live(g)' <=> present(g, m) BY <1>16
  <2>2. \A m \in Live(g)' : m \in Minutes BY DEF Live
  <2>3. \A c \in watch[t].copies : RowMinute(c) \in Minutes BY <1>18, MinutesOfCopies
  <2>4. \A c \in watch[t].copies : c.guest = g =>
          \/ RowMinute(c) \in Live(g)' /\ c.place \in rows'[g][RowMinute(c)].places
          \/ /\ c.place = "alien"
             /\ \E m \in Live(g)' : /\ m \in RowMinute(c) - 1 .. RowMinute(c) + 1
                                    /\ watch[t].still => \E d \in copies :
                                         d.guest = g /\ d.place = "reg" /\ d.start = m
    BY <1>25, <2>1, <2>3
  <2>5. watch[t].still /\ watch[t].copies = copies /\ Lag <= 1 =>
          \A m \in Live(g)' : \E c \in copies : c.guest = g /\ m = RowMinute(c)
    BY <1>26, <2>1, <2>2
  <2> QED BY <2>4, <2>5
<1> QED BY <1>4, <1>5, <1>6, <1>27 DEF Seen

\* last_backup_at is the newest of the rows.
LEMMA LastBackupSeen ==
  ASSUME ClusterInv, NEW t \in Syncers, StoreLastBackup(t), Alone(t)
  PROVE  Seen(t)'
<1>1. /\ sync[t].pc = "last" /\ UNCHANGED <<onPve, copies, down, vms, rows, watch>>
      /\ newest' = [g \in Guests |-> Newest(Live(g))]
  BY DEF StoreLastBackup, world
<1>2. sync'[t].pc = "prune" /\ sync'[t].blocked = sync[t].blocked
  BY DEF StoreLastBackup, ClusterInv, SyncTypes
<1>3. Seen(t) BY DEF ClusterInv
<1>4. \A g \in Guests : Live(g)' = Live(g) BY <1>1 DEF Live
<1>5. SeenWorld(t)' BY <1>1, <1>3, ShownSame DEF Seen, SeenWorld
<1>6. SeenGuests(t)' BY <1>1, <1>2, <1>3 DEF Seen, SeenGuests, Stage
<1>7. SeenListed(t)' /\ SeenDirect(t)' /\ SeenFiles(t)'
  BY <1>2 DEF SeenListed, SeenDirect, SeenFiles, Stage
<1>8. SeenRows(t)' BY <1>1, <1>2, <1>3 DEF Seen, SeenRows, Stage, Known, Live
<1>9. SeenNewest(t)'
  <2>1. \A g \in Guests : newest'[g] = Newest(Live(g)) BY <1>1
  <2>2. \A g \in Guests : newest'[g] = Newest(Live(g))' BY <1>4, <2>1
  <2> QED BY <2>2 DEF SeenNewest
<1> QED BY <1>5, <1>6, <1>7, <1>8, <1>9 DEF Seen

\* Guests are forgotten: the rows of those that are left are as they were.
LEMMA PruneSeen ==
  ASSUME ClusterInv, NEW t \in Syncers, Prune(t), Alone(t)
  PROVE  Seen(t)'
<1> DEFINE gone == {g \in Guests : ~sync[t].blocked /\ vms[g] = "missing" /\ Live(g) = {}}
<1>1. /\ sync[t].pc = "prune" /\ UNCHANGED <<onPve, copies, down, watch>>
      /\ vms' = [g \in Guests |-> IF g \in gone THEN "none" ELSE vms[g]]
      /\ rows' = [g \in Guests |-> IF g \in gone THEN [m \in Minutes |-> Absent] ELSE rows[g]]
      /\ newest' = [g \in Guests |-> IF g \in gone THEN 0 ELSE newest[g]]
  BY DEF Prune, world
<1>2. sync'[t].pc = "end" /\ sync'[t].blocked = sync[t].blocked
  BY DEF Prune, ClusterInv, SyncTypes
<1>3. Seen(t) BY DEF ClusterInv
<1> HIDE DEF gone
<1>4. ASSUME NEW g \in Guests, vms'[g] # "none"
      PROVE  vms'[g] = vms[g] /\ rows'[g] = rows[g] /\ newest'[g] = newest[g] /\ Live(g)' = Live(g) /\ Known(g)
  BY <1>1, <1>4 DEF Live, Known
<1>5. SeenWorld(t)' BY <1>1, <1>3, ShownSame DEF Seen, SeenWorld
<1>6. SeenGuests(t)'
  <2>1. \A g \in Guests : vms'[g] = "missing" => vms[g] = "missing" BY <1>4
  <2> QED BY <1>1, <1>2, <1>3, <2>1 DEF Seen, SeenGuests, Stage
<1>7. SeenListed(t)' /\ SeenDirect(t)' /\ SeenFiles(t)'
  BY <1>2 DEF SeenListed, SeenDirect, SeenFiles, Stage
<1>8. \A g \in Guests : Known(g)' => vms'[g] # "none" BY DEF Known
<1>9. SeenRows(t)'
  <2>1. watch'[t] = watch[t] /\ copies' = copies /\ sync'[t].blocked = sync[t].blocked BY <1>1, <1>2
  <2>2. SeenRows(t) /\ Stage(t, {"last", "prune", "end"}) BY <1>1, <1>3 DEF Seen, Stage
  <2> QED BY <1>4, <1>8, <2>1, <2>2 DEF SeenRows
<1>10. SeenNewest(t)'
  <2>1. SeenNewest(t) /\ Stage(t, {"prune", "end"}) BY <1>1, <1>3 DEF Seen, Stage
  <2>2. \A g \in Guests : Known(g)' => newest'[g] = Newest(Live(g))' BY <1>4, <1>8, <2>1 DEF SeenNewest
  <2> QED BY <2>2 DEF SeenNewest
<1> QED BY <1>5, <1>6, <1>7, <1>9, <1>10 DEF Seen

\* The work of a thread that goes on is recognised by its new step.
LEMMA WorkGoesOn ==
  ASSUME ClusterInv, NEW t \in Syncers,
         \/ FetchInventory(t) \/ StoreInventory(t) \/ StorePveBackups(t) \/ FetchPbs(t)
         \/ StorePbsBackups(t) \/ StoreLastBackup(t) \/ Prune(t)
  PROVE  GoesOn(t) /\ Fresh'
<1>1. sync \in [Syncers -> Thread] BY DEF ClusterInv, SyncTypes, Thread
<1>2. /\ Working(t) /\ watch' = watch
      /\ \E work : /\ sync' = [sync EXCEPT ![t] = work]
                   /\ work.pc \in {"store", "pve", "ask", "pbs", "last", "prune", "end"}
  <2> DEFINE work == sync'[t]
  <2>1. Working(t) /\ watch' = watch
    BY DEF FetchInventory, StoreInventory, StorePveBackups, FetchPbs, StorePbsBackups, StoreLastBackup, Prune,
           Read, Working
  <2>2. work.pc \in {"store", "pve", "ask", "pbs", "last", "prune", "end"}
    <3>1. CASE FetchInventory(t)
      <4>1. PICK listing \in Listings : Read(t, listing, listing.none \/ Asked \cap down # {})
        BY <3>1 DEF FetchInventory
      <4> QED BY <1>1, <4>1 DEF Read
    <3>2. CASE StoreInventory(t) BY <1>1, <3>2 DEF StoreInventory
    <3>3. CASE StorePveBackups(t) BY <1>1, <3>3 DEF StorePveBackups
    <3>4. CASE FetchPbs(t)
      <4>1. CASE sync' = [sync EXCEPT ![t].pc = "pbs", ![t].complete = FALSE, ![t].blocked = TRUE]
        BY <1>1, <4>1
      <4>2. CASE sync' = [sync EXCEPT ![t].pc = "pbs", ![t].direct = ViaPbs(sync[t].present \cup sync[t].known)]
        BY <1>1, <4>2
      <4> QED BY <3>4, <4>1, <4>2 DEF FetchPbs
    <3>5. CASE StorePbsBackups(t)
      <4>1. work = [Resting EXCEPT !.pc = "last", !.blocked = sync[t].blocked]
        BY <1>1, <3>5 DEF StorePbsBackups
      <4> HIDE DEF work
      <4> QED BY <4>1 DEF Resting
    <3>6. CASE StoreLastBackup(t) BY <1>1, <3>6 DEF StoreLastBackup
    <3>7. CASE Prune(t)
      <4>1. sync' = [sync EXCEPT ![t].pc = "end"] BY <3>7 DEF Prune
      <4> QED BY <1>1, <4>1
    <3> QED BY <3>1, <3>2, <3>3, <3>4, <3>5, <3>6, <3>7
  <2>3. sync' = [sync EXCEPT ![t] = work]
    BY <1>1 DEF FetchInventory, StoreInventory, StorePveBackups, FetchPbs, StorePbsBackups, StoreLastBackup, Prune,
                Read
  <2> HIDE DEF work
  <2> QED BY <2>1, <2>2, <2>3
<1>3. PICK work : /\ sync' = [sync EXCEPT ![t] = work]
                  /\ work.pc \in {"store", "pve", "ask", "pbs", "last", "prune", "end"}
  BY <1>2
<1> QED BY <1>2, <1>3, StepGoesOn

\* Every step keeps what a thread that is alone has seen.
LEMMA ClusterKeeps == ClusterInv /\ [SyncNext]_syncVars => ClusterInv'
<1> SUFFICES ASSUME ClusterInv, [SyncNext]_syncVars PROVE ClusterInv' OBVIOUS
<1>1. SyncTypes' /\ Keyed' BY ClusterTyped DEF ClusterInv
<1>2. Fresh' /\ AloneTrue' /\ \A u \in Syncers : Alone(u)' => Seen(u)'
  <2>1. CASE UNCHANGED syncVars
    <3>1. UNCHANGED <<sync, watch, onPve, copies, down, vms, rows, newest>> BY <2>1 DEF syncVars, world, tables
    <3>2. \A u \in Syncers : Alone(u)' <=> Alone(u) BY <3>1 DEF Alone, Working
    <3>3. \A u \in Syncers : Alone(u)' => Seen(u)' BY <3>1, <3>2, SeenStays DEF ClusterInv
    <3> QED BY <3>1, <3>2, <3>3 DEF ClusterInv, Fresh, Stage, AloneTrue, Working
  <2>2. CASE GuestComesOrGoes \/ BackupWritten \/ BackupDeleted \/ SourceToggles BY <2>2, WorldSeen
  <2>3. CASE ProgramRestarts BY <2>3, RestartSeen
  <2>4. ASSUME NEW t \in Syncers, StartSync(t) \/ SyncStep(t) \/ SyncBreaks(t)
        PROVE  Fresh' /\ AloneTrue' /\ \A u \in Syncers : Alone(u)' => Seen(u)'
    <3>1. CASE StartSync(t) \/ FetchFails(t) \/ FinishSync(t) \/ SyncBreaks(t) BY <3>1, EndsSeen
    <3>2. CASE TakeSync(t) BY <3>2, TakeSeen
    <3>3. CASE \/ FetchInventory(t) \/ StoreInventory(t) \/ StorePveBackups(t) \/ FetchPbs(t)
               \/ StorePbsBackups(t) \/ StoreLastBackup(t) \/ Prune(t)
      <4>1. GoesOn(t) /\ Fresh' BY <3>3, WorkGoesOn
      <4>2. Alone(t) => Seen(t)'
        BY <3>3, InventorySeen, GuestsStoredSeen, FilesStoredSeen, PbsFetchedSeen, SnapshotsStoredSeen,
           LastBackupSeen, PruneSeen
      <4> QED BY <4>1, <4>2, OneIsAlone
    <3> QED BY <2>4, <3>1, <3>2, <3>3 DEF SyncStep
  <2> QED BY <2>1, <2>2, <2>3, <2>4 DEF SyncNext
<1> QED BY <1>1, <1>2 DEF ClusterInv

\* The invariant holds in every reachable state.
LEMMA ClusterInvHolds == SyncSpec => []ClusterInv
BY ClusterStarts, ClusterKeeps, PTL DEF SyncSpec

\* PruneJustified (prune_gone_vms_without_backups): whatever changes while it works, a sync
\* that runs alone forgets only guests that PVE did not show all along and of which no
\* source showed a backup all along, whether or not it could be read: what is left out
\* without an error, of the guests, the storages or the datastores, counts as gone.
THEOREM OnlyGoneArePruned == SyncSpec => PruneJustified
<1>1. ClusterInv /\ [SyncNext]_syncVars =>
        [\A g \in Guests : vms[g] # "none" /\ vms'[g] = "none" =>
           \E t \in Syncers : /\ sync[t].pc = "prune" /\ sync'[t].pc = "end"
                              /\ watch[t].alone =>
                                   g \notin watch[t].guests /\ ~\E c \in watch[t].copies : c.guest = g]_syncVars
  <2> SUFFICES ASSUME ClusterInv, SyncNext, NEW g \in Guests, vms[g] # "none", vms'[g] = "none"
               PROVE  \E t \in Syncers :
                        /\ sync[t].pc = "prune" /\ sync'[t].pc = "end"
                        /\ watch[t].alone =>
                             g \notin watch[t].guests /\ ~\E c \in watch[t].copies : c.guest = g
    OBVIOUS
  <2>1. PICK t \in Syncers : Prune(t)
    <3>1. vms' # vms OBVIOUS
    <3>2. ~\E t \in Syncers : StoreInventory(t) BY DEF StoreInventory, ClusterInv, SyncTypes
    <3> QED BY <3>1, <3>2 DEF SyncNext, SyncStep, GuestComesOrGoes, BackupWritten, BackupDeleted, SourceToggles,
              ProgramRestarts, Changes, StartSync, SyncBreaks, TakeSync, FetchInventory, FetchFails,
              StorePveBackups, FetchPbs, StorePbsBackups, StoreLastBackup, FinishSync, Leave, Read, tables
  <2>2. /\ sync[t].pc = "prune" /\ sync'[t].pc = "end"
        /\ ~sync[t].blocked /\ vms[g] = "missing" /\ Live(g) = {}
    BY <2>1 DEF Prune, ClusterInv, SyncTypes
  <2>3. ASSUME watch[t].alone PROVE g \notin watch[t].guests /\ ~\E c \in watch[t].copies : c.guest = g
    <3>1. Seen(t) /\ Known(g) BY <2>2, <2>3 DEF ClusterInv, Alone, Working, Known
    <3>2. g \notin watch[t].guests BY <2>2, <3>1 DEF Seen, SeenGuests, Stage
    <3>3. ~\E c \in watch[t].copies : c.guest = g
      BY <2>2, <3>1 DEF Seen, SeenRows, Stage
    <3> QED BY <3>2, <3>3
  <2> QED BY <2>2, <2>3
<1> QED BY <1>1, ClusterInvHolds, PTL DEF SyncSpec, PruneJustified

\* CompleteSyncIsTrue (sync_cluster_backups): at the end of an undisturbed sync that read
\* every source, and to which none left anything out, the rows are the backups there are, if PVE dates a snapshot at most one
\* minute of the model off, the hour before or after that _dedup_pbs_events looks at.
THEOREM SyncTellsTruth == ASSUME Lag <= 1 PROVE SyncSpec => CompleteSyncIsTrue
<1>1. ClusterInv =>
        \A t \in Syncers :
           (/\ sync[t].pc = "end" /\ sync'[t].pc = "idle" /\ changes' = changes
            /\ watch[t].still /\ watch[t].alone /\ ~sync[t].blocked /\ down \cap Silent = {}) =>
           \A g \in Guests : vms[g] # "none" =>
             /\ newest[g] = Newest(Live(g))
             /\ \A m \in Live(g) : \E c \in copies :
                  c.guest = g /\ m = IF c.place = "alien" THEN c.start + Lag ELSE c.start
             /\ \A c \in copies : c.guest = g =>
                  LET m == IF c.place = "alien" THEN c.start + Lag ELSE c.start
                  IN \/ m \in Live(g) /\ c.place \in rows[g][m].places
                     \/ c.place = "alien" /\ \E d \in copies :
                          d.guest = g /\ d.place = "reg" /\ d.start \in m - 1 .. m + 1
  <2> SUFFICES ASSUME ClusterInv, NEW t \in Syncers, sync[t].pc = "end", watch[t].still, watch[t].alone,
                      ~sync[t].blocked, down \cap Silent = {}, NEW g \in Guests, vms[g] # "none"
               PROVE  /\ newest[g] = Newest(Live(g))
                      /\ \A m \in Live(g) : \E c \in copies : c.guest = g /\ m = RowMinute(c)
                      /\ \A c \in copies : c.guest = g =>
                           \/ RowMinute(c) \in Live(g) /\ c.place \in rows[g][RowMinute(c)].places
                           \/ c.place = "alien" /\ \E d \in copies :
                                d.guest = g /\ d.place = "reg" /\ d.start \in RowMinute(c) - 1 .. RowMinute(c) + 1
    BY DEF RowMinute
  <2>1. Seen(t) /\ Known(g) /\ watch[t].copies = copies
    <3>1. Seen(t) BY DEF ClusterInv, Alone, Working
    <3> QED BY <3>1, ShownFacts DEF Seen, SeenWorld, Known
  <2>2. newest[g] = Newest(Live(g)) BY <2>1 DEF Seen, SeenNewest, Stage
  <2>3. \A m \in Live(g) : \E c \in copies : c.guest = g /\ m = RowMinute(c)
    BY <2>1 DEF Seen, SeenRows, Stage
  <2>4. \A c \in copies : c.guest = g =>
          \/ RowMinute(c) \in Live(g) /\ c.place \in rows[g][RowMinute(c)].places
          \/ c.place = "alien" /\ \E d \in copies :
               d.guest = g /\ d.place = "reg" /\ d.start \in RowMinute(c) - 1 .. RowMinute(c) + 1
    BY <2>1 DEF Seen, SeenRows, Stage
  <2> QED BY <2>2, <2>3, <2>4
<1> QED BY <1>1, ClusterInvHolds, PTL DEF SyncSpec, CompleteSyncIsTrue
=============================================================================
