--------------------------- MODULE TaskLogReader ---------------------------
(***************************************************************************)
(* How the progress of a running backup is read from its task's log        *)
(* (services/proxmox_progress.py, _read_task_log).  One task backs up many *)
(* guests, one after another; its log grows to thousands of lines while it *)
(* is read page by page.  Between two looks only the lines read so far and *)
(* the section of the guest then running are kept.                            *)
(*                                                                         *)
(* A line is its number; those of heads are "Starting Backup of VM ...".   *)
(* PVE reports the log's length with a page, or does not (counted).        *)
(***************************************************************************)
EXTENDS Integers, Sequences, SequencesExt, FiniteSetsExt

CONSTANTS LogPage, MaxLines, MaxLooks
ASSUME LogAssumption == LogPage \in Nat \ {0} /\ MaxLines \in Nat /\ MaxLooks \in Nat

VARIABLES
  lines, heads, counted, looks, \* the log: its length, its section heads; the looks so far
  replaced,                     \* it is another log than the one read last
  taskLog,                      \* _TaskLog: lines read, the running guest's section
  reading, base, first, tail, end, total \* the look under way (_read_task_log's variables)

logVars == <<lines, heads, counted, replaced, looks, taskLog, reading, base, first, tail, end, total>>
logWorld == <<lines, heads, counted>>
Unread == [read |-> 0, section |-> <<>>]

LogInit ==
  /\ lines = 0 /\ heads = {} /\ counted \in BOOLEAN /\ replaced = FALSE /\ looks = 0 /\ taskLog = Unread
  /\ reading = "no" /\ base = Unread /\ first = <<>> /\ tail = <<>> /\ end = 0 /\ total = 0

\* The job writes on: a line of the running guest, or the head of the next.
LogGrows ==
  /\ lines < (IF replaced THEN taskLog.read - 1 ELSE MaxLines) /\ lines' = lines + 1
  /\ heads' \in {heads, heads \cup {lines + 1}}
  /\ UNCHANGED <<counted, replaced, looks, taskLog, reading, base, first, tail, end, total>>

\* Another log stands in its place between two looks; it can be told by being
\* shorter than what was read.
LogReplaced ==
  /\ reading = "no" /\ counted /\ taskLog.read > 0 /\ ~replaced /\ replaced' = TRUE
  /\ lines' \in 0 .. taskLog.read - 1 /\ heads' = {}
  /\ UNCHANGED <<counted, looks, taskLog, reading, base, first, tail, end, total>>

\* get_page(start, limit): the lines after the first `start` ones.
Page(start, limit) == [i \in 1 .. Max({0, Min({limit, lines - start})}) |-> start + i]
HasHead(page) == \E i \in DOMAIN page : page[i] \in heads

\* Mutant of WithLines: the section starts at the first head among the lines.
WithLinesFirst(section, new) ==
  LET found == {i \in DOMAIN new : new[i] \in heads}
  IN IF found = {} THEN section \o new ELSE SubSeq(new, Min(found), Len(new))

\* _with_lines: from the last head among the new lines, or the section goes on.
WithLines(section, new) ==
  LET found == {i \in DOMAIN new : new[i] \in heads}
  IN IF found = {} THEN section \o new ELSE SubSeq(new, Max(found), Len(new))

LookOver ==
  reading' = "no" /\ base' = Unread /\ first' = <<>> /\ tail' = <<>> /\ end' = 0 /\ total' = 0

\* The look is over; its work is kept for the next one.
LookDone(section, new, read) ==
  /\ taskLog' = [read |-> read, section |-> WithLines(section, new)] /\ replaced' = FALSE
  /\ LookOver

\* A look begins with one page after what was read, or with the first one when
\* the log turns out to be another.  (PVE's "no content" is an empty log.)
LookBegins ==
  /\ reading = "no" /\ looks < MaxLooks /\ looks' = looks + 1
  /\ LET known == IF counted /\ lines < taskLog.read THEN Unread ELSE taskLog
         page == Page(known.read, LogPage)
         floor == known.read + Len(page)
     IN CASE ~counted /\ Len(page) = LogPage ->
               /\ reading' = "onward" /\ base' = known /\ first' = page
               /\ UNCHANGED <<replaced, taskLog, tail, end, total>>
          [] counted /\ lines > floor ->
               /\ reading' = "back" /\ base' = known /\ first' = page /\ end' = lines /\ total' = lines
               /\ UNCHANGED <<replaced, taskLog, tail>>
          [] OTHER -> LookDone(known.section, page, floor)
  /\ UNCHANGED logWorld

\* Without a line count: page by page until one is not full.
LookOnward ==
  /\ reading = "onward"
  /\ LET page == Page(base.read + Len(first), LogPage)
     IN IF Len(page) = LogPage
        THEN /\ first' = first \o page
             /\ UNCHANGED <<replaced, taskLog, reading, base, tail, end, total>>
        ELSE LookDone(base.section, first \o page, base.read + Len(first \o page))
  /\ UNCHANGED <<logWorld, looks>>

\* More new lines than a page: back from the end to the running guest's head,
\* past the guests that are done, or down to where the first page ended.
LookBack ==
  /\ reading = "back"
  /\ LET floor == base.read + Len(first)
         start == Max({floor, end - LogPage})
         page == Page(start, end - start)
     IN IF HasHead(page) THEN LookDone(base.section, page \o tail, total)
        ELSE IF start = floor THEN LookDone(base.section, first \o page \o tail, total)
        ELSE /\ tail' = page \o tail /\ end' = start
             /\ UNCHANGED <<replaced, taskLog, reading, base, first, total>>
  /\ UNCHANGED <<logWorld, looks>>

\* PVE does not answer: the look is given up, what was kept before stays.
LookFails ==
  /\ reading # "no" /\ LookOver
  /\ UNCHANGED <<logWorld, replaced, looks, taskLog>>

LogNext == LogGrows \/ LogReplaced \/ LookBegins \/ LookOnward \/ LookBack \/ LookFails
LogSpec == LogInit /\ [][LogNext]_logVars

-----------------------------------------------------------------------------

\* The kept section is the log's, as far as it was read: from the last head on,
\* no line missing, doubled or of another guest, however the log grew between
\* the pages.  Percent, rate and VMID shown are taken from it.
SectionIsCurrent ==
  ~replaced =>
  LET read == {h \in heads : h <= taskLog.read}
      from == IF read = {} THEN 1 ELSE Max(read)
  IN taskLog.section = [i \in 1 .. taskLog.read - from + 1 |-> from + i - 1]
=============================================================================
