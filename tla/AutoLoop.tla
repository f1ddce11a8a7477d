------------------------------ MODULE AutoLoop ------------------------------
(***************************************************************************)
(* What the hourly loop does after each round of syncs (web/sync.py,       *)
(* auto_sync_loop): it tells of a cluster that could not be synced for a   *)
(* day, archives and mails the report of the month before, and sends the   *)
(* weekly report.  Each is a look at the database, something done outside  *)
(* it, and a note that it is done; the loop may stop between any two, and  *)
(* syncs and the reports page change the same rows meanwhile.              *)
(*                                                                         *)
(* One cluster.  Time is counted in ticks; its weeks and months are        *)
(* WeekTicks and MonthTicks long, the first tick of a week is the Monday   *)
(* before the hour of sending.                                             *)
(***************************************************************************)
EXTENDS Naturals

CONSTANTS WeekTicks, MonthTicks, Overdue, MaxTicks, MaxFaults
ASSUME LoopAssumption ==
  /\ WeekTicks \in Nat \ {0} /\ MonthTicks \in Nat \ {0}
  /\ Overdue \in Nat \ {0} /\ MaxTicks \in Nat /\ MaxFaults \in Nat

\* Time begins in month 1 of week 1.
Month(t) == 1 + t \div MonthTicks
Week(t) == 1 + t \div WeekTicks
MondayMorning(t) == t % WeekTicks = 0
Months == 0 .. Month(MaxTicks)
Weeks == 1 .. Week(MaxTicks)
Outages == 1 .. MaxFaults + 1

VARIABLES
  tick, faults,           \* time; how much has gone wrong or been changed by hand
  pve, email, mailing,    \* the cluster answers; email is switched on; mail gets through
  since, outage, marked,  \* last_pve_sync_failure_started_at, its number, told of it
  archive, lastWeek,      \* monthly_reports; weekly_report_last_week
  pass, held,             \* where the loop is, and the outage or week it has in hand
  slips,                  \* history: restarts of the loop and reports deleted by hand
  misled,                 \* history: outages that bear the mark of the one before
  toldOf, mailed, sentIn  \* history: alerts per outage, mails per month and per week

loopVars == <<tick, faults, pve, email, mailing, since, outage, marked, archive, lastWeek,
              pass, held, slips, misled, toldOf, mailed, sentIn>>
outsideVars == <<tick, faults, pve, email, mailing>>
outageVars == <<since, outage, marked>>
countVars == <<slips, misled, toldOf, mailed, sentIn>>

LoopInit ==
  /\ tick = 1 /\ faults = 0 /\ pve \in BOOLEAN /\ email = TRUE /\ mailing = TRUE
  /\ since = 0 /\ outage = 0 /\ marked = FALSE
  /\ archive = {[month |-> 0, mode |-> "auto"]} /\ lastWeek = 1
  /\ pass = "rest" /\ held = 0 /\ slips = 0 /\ misled = {}
  /\ toldOf = [o \in Outages |-> 0] /\ mailed = [m \in Months |-> 0]
  /\ sentIn = [w \in Weeks |-> 0]

-----------------------------------------------------------------------------
(* The world, the settings page and the reports page.                      *)

TimePasses ==
  /\ tick < MaxTicks /\ tick' = tick + 1
  /\ UNCHANGED <<faults, pve, email, mailing, outageVars, archive, lastWeek, pass, held, countVars>>

Fault == faults < MaxFaults /\ faults' = faults + 1

SomethingToggles ==
  /\ Fault
  /\ \/ pve' = ~pve /\ UNCHANGED <<email, mailing>>
     \/ email' = ~email /\ UNCHANGED <<pve, mailing>>
     \/ mailing' = ~mailing /\ UNCHANGED <<pve, email>>
  /\ UNCHANGED <<tick, outageVars, archive, lastWeek, pass, held, countVars>>

\* The button on the reports page: a report of everything up to now, archived
\* under the current month.
ManualReport ==
  /\ archive' = archive \cup {[month |-> Month(tick), mode |-> "manual"]}
  /\ UNCHANGED <<outsideVars, outageVars, lastWeek, pass, held, countVars>>

DeleteReport ==
  /\ Fault /\ slips' = slips + 1 /\ \E r \in archive : archive' = archive \ {r}
  /\ UNCHANGED <<tick, pve, email, mailing, outageVars, lastWeek, pass, held, misled, toldOf, mailed, sentIn>>

\* The program restarts; the loop begins anew.
LoopRestarts ==
  /\ Fault /\ slips' = slips + 1 /\ pass' = "rest" /\ held' = 0
  /\ UNCHANGED <<tick, pve, email, mailing, outageVars, archive, lastWeek, misled, toldOf, mailed, sentIn>>

-----------------------------------------------------------------------------
(* Syncs, as far as the outage of the cluster goes.                        *)

\* update_cluster_sync_status: a success ends the outage, the first failure
\* begins one.  A mark older than the outage does not count.
SyncResult ==
  IF pve THEN since' = 0 /\ marked' = FALSE /\ outage' = outage
  ELSE IF since = 0 THEN since' = tick /\ marked' = FALSE /\ outage' = outage + 1
  ELSE UNCHANGED outageVars

ManualSync ==
  /\ SyncResult
  /\ UNCHANGED <<outsideVars, archive, lastWeek, pass, held, countVars>>

LoopSyncs ==
  /\ pass = "rest" /\ SyncResult /\ pass' = "overdue"
  /\ UNCHANGED <<outsideVars, archive, lastWeek, held, countVars>>

-----------------------------------------------------------------------------
(* notify_overdue_cluster_syncs.                                           *)

IsOverdue == since # 0 /\ tick >= since + Overdue

\* Mutant of OverdueLook: it is noted before it is told.
OverdueLookNotes ==
  /\ pass = "overdue"
  /\ IF IsOverdue /\ ~marked THEN pass' = "tell" /\ held' = outage /\ marked' = TRUE
     ELSE pass' = "month" /\ held' = held /\ marked' = marked
  /\ UNCHANGED <<outsideVars, since, outage, archive, lastWeek, countVars>>

OverdueLook ==
  /\ pass = "overdue"
  /\ IF IsOverdue /\ ~marked THEN pass' = "tell" /\ held' = outage
     ELSE pass' = "month" /\ held' = held
  /\ UNCHANGED <<outsideVars, outageVars, archive, lastWeek, countVars>>

OverdueTell ==
  /\ pass = "tell" /\ toldOf' = [toldOf EXCEPT ![held] = @ + 1] /\ pass' = "mark"
  /\ UNCHANGED <<outsideVars, outageVars, archive, lastWeek, held, mailed, sentIn, slips, misled>>

\* The mark is a time: it counts for the outage there is now, if there is one,
\* also where that one began after the look and was not told of.
OverdueMark ==
  /\ pass = "mark" /\ marked' = (since # 0) /\ pass' = "month" /\ held' = 0
  /\ misled' = IF since # 0 /\ outage # held THEN misled \cup {outage} ELSE misled
  /\ UNCHANGED <<outsideVars, since, outage, archive, lastWeek, slips, toldOf, mailed, sentIn>>

-----------------------------------------------------------------------------
(* auto_generate_monthly_report.                                           *)

\* Any report archived under the month before will do.
MonthLook ==
  /\ pass = "month"
  /\ IF \E r \in archive : r.month = Month(tick) - 1 THEN pass' = "week" /\ held' = 0
     ELSE pass' = "write" /\ held' = Month(tick) - 1
  /\ UNCHANGED <<outsideVars, outageVars, archive, lastWeek, countVars>>

\* generate_archived_report: the files, then the row.
MonthWrite ==
  /\ pass = "write" /\ pass' = "mail"
  /\ archive' = archive \cup {[month |-> held, mode |-> "auto"]}
  /\ UNCHANGED <<outsideVars, outageVars, lastWeek, held, toldOf, mailed, sentIn, slips, misled>>

\* The files cannot be written: next hour again.
MonthWriteFails ==
  /\ pass = "write" /\ Fault /\ pass' = "week" /\ held' = 0
  /\ UNCHANGED <<tick, pve, email, mailing, outageVars, archive, lastWeek, countVars>>

\* Sent once, whether or not it gets through.
MonthMail ==
  /\ pass = "mail" /\ pass' = "week" /\ held' = 0
  /\ mailed' = IF email /\ mailing THEN [mailed EXCEPT ![held] = @ + 1] ELSE mailed
  /\ UNCHANGED <<outsideVars, outageVars, archive, lastWeek, toldOf, sentIn, slips, misled>>

-----------------------------------------------------------------------------
(* send_weekly_report_if_due.                                              *)

Due == ~MondayMorning(tick) /\ Week(tick) # lastWeek

\* A week without email counts as handled.
WeekLook ==
  /\ pass = "week"
  /\ IF Due /\ email THEN pass' = "send" /\ held' = Week(tick) /\ lastWeek' = lastWeek
     ELSE pass' = "rest" /\ held' = 0 /\ lastWeek' = IF Due THEN Week(tick) ELSE lastWeek
  /\ UNCHANGED <<outsideVars, outageVars, archive, countVars>>

\* Mutant of WeekSend: what did not get through is noted as sent.
WeekSendAnyway ==
  /\ pass = "send" /\ pass' = "note"
  /\ sentIn' = IF email /\ mailing THEN [sentIn EXCEPT ![held] = @ + 1] ELSE sentIn
  /\ UNCHANGED <<outsideVars, outageVars, archive, lastWeek, held, toldOf, mailed, slips, misled>>

WeekSend ==
  /\ pass = "send"
  /\ IF email /\ mailing THEN sentIn' = [sentIn EXCEPT ![held] = @ + 1] /\ pass' = "note" /\ held' = held
     ELSE sentIn' = sentIn /\ pass' = "rest" /\ held' = 0
  /\ UNCHANGED <<outsideVars, outageVars, archive, lastWeek, toldOf, mailed, slips, misled>>

WeekNote ==
  /\ pass = "note" /\ lastWeek' = held /\ pass' = "rest" /\ held' = 0
  /\ UNCHANGED <<outsideVars, outageVars, archive, countVars>>

-----------------------------------------------------------------------------

LoopStep ==
  \/ LoopSyncs \/ OverdueLook \/ OverdueTell \/ OverdueMark \/ MonthLook \/ MonthWrite
  \/ MonthWriteFails \/ MonthMail \/ WeekLook \/ WeekSend \/ WeekNote
LoopNext ==
  \/ TimePasses \/ SomethingToggles \/ ManualReport \/ DeleteReport \/ LoopRestarts
  \/ ManualSync \/ LoopStep

\* The loop comes round and goes on.
LoopFairness == WF_loopVars(LoopStep)
LoopSpec == LoopInit /\ [][LoopNext]_loopVars /\ LoopFairness

-----------------------------------------------------------------------------

\* An alert, a monthly or a weekly report is not sent twice, but for a restart
\* between sending and noting it and for a report deleted by hand: not by the
\* hours the loop comes round, nor by the syncs and reports between its steps.
SentOnce ==
  /\ \A o \in DOMAIN toldOf : toldOf[o] <= 1 + slips
  /\ \A m \in Months : mailed[m] <= 1 + slips
  /\ \A w \in Weeks : sentIn[w] <= 1 + slips

\* An outage that has lasted too long is told of or ends, whenever the loop is
\* restarted and whatever is synced by hand, except one: that which begins while
\* the one before is being told of and so bears its mark
\* (notify_overdue_cluster_syncs, mark_cluster_sync_overdue_notified).
OutageTold ==
  \A o \in Outages :
    (outage = o /\ IsOverdue) ~> (toldOf[o] > 0 \/ outage # o \/ since = 0 \/ o \in misled)

\* A week's report the loop has begun to send arrives, if mail gets through
\* again in that week and email is not switched off.
WeeklyArrives ==
  \A w \in Weeks :
    []((pass = "send" /\ held = w) =>
         (<>(sentIn[w] > 0) \/ <>(~email) \/ []<>(~mailing \/ Week(tick) # w)))

\* The report of a week arrives, and no report and no alert twice.
ArrivesOnce == []SentOnce /\ WeeklyArrives
=============================================================================
