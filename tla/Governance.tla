----------------------------- MODULE Governance -----------------------------
(* How a guest is judged on the pages: vm_governance_rows reads its backups    *)
(* and restore tests and rates the age of the last backup, the copies on       *)
(* several servers, the verification and the next restore test.  Time passes,  *)
(* backups run, fail, are copied, verified and pruned, the guest is deleted.   *)
(* Times are days; a backup is on PBS (and may be copied to a second) or not.  *)
EXTENDS Naturals, FiniteSets, FiniteSetsExt

CONSTANTS
    Warn, Critical,            \* age of the last backup that warns, that is critical
    CopyWindow, SlowWindow,    \* COPY_WINDOW_DAYS, WEEKLY_COPY_WINDOW_DAYS
    FailedWindow, VerifyAge,   \* days a failed verification counts, VERIFY_MAX_AGE_DAYS
    Interval, Lead,            \* days between restore tests, days it warns ahead
    MaxDays, MaxBackups

ASSUME GovernanceAssumption ==
    /\ Warn \in Nat /\ Critical \in Nat /\ Warn < Critical
    /\ CopyWindow \in Nat /\ SlowWindow \in Nat /\ CopyWindow <= SlowWindow
    /\ FailedWindow \in Nat /\ VerifyAge \in Nat /\ Lead \in Nat /\ Interval \in Nat \ {0}
    /\ MaxDays \in Nat /\ MaxBackups \in Nat

VARIABLES
    today,
    backups,     \* the guest's rows of backup_events
    testDays,    \* days of its restore tests
    policy,      \* backup_policy_override, or "unknown": no override and no job
    required,    \* restore_required
    gone         \* missing_since is set

judgedVars == <<today, backups, testDays, policy, required, gone>>

Servers == {"pbs1", "pbs2", "nas"}
Backup(d, outcome, server, verify) ==
    [day |-> d, status |-> outcome, on |-> {server}, removed |-> FALSE, verify |-> verify]

-----------------------------------------------------------------------------
(* What vm_governance_rows reads.                                              *)

Latest(S) == IF S = {} THEN 0 ELSE Max({b.day : b \in S})

\* status = 'ok', not removed, and larger than a stub.
Kept == {b \in backups : b.status = "ok" /\ ~b.removed}
OnPbs(b) == b.on # {"nas"}

CopyLatest == [s \in {t \in Servers : \E b \in Kept : t \in b.on} |-> Latest({b \in Kept : s \in b.on})]

last_verified_at == Latest({b \in Kept : b.verify = "ok"})
verify_failed_at == Latest({b \in Kept : b.verify = "failed" /\ b.day + FailedWindow >= today})
has_pbs == \E b \in Kept : OnPbs(b)

\* A deleted guest is listed as long as a backup remains.
ListedGuest == ~gone \/ Kept # {}

status_backup_kind ==
    IF gone THEN "none" ELSE IF policy = "unknown" THEN "unconfigured" ELSE policy

\* assess_backup_status; "unconfigured" counts as daily.
backup_severity ==
    IF status_backup_kind = "none" THEN "ok"
    ELSE IF Kept = {} THEN "critical"
    ELSE LET age == today - Latest(Kept) IN
         IF age >= Critical THEN "critical" ELSE IF age >= Warn THEN "warning" ELSE "ok"

\* copy_windows: longer where a weekly job writes, here the second PBS.
Window(s) == IF s = "pbs2" THEN SlowWindow ELSE CopyWindow
copy_count == Cardinality({s \in DOMAIN CopyLatest : CopyLatest[s] + Window(s) >= today})

copy_status ==
    IF gone \/ copy_count = 0 THEN "none" ELSE IF copy_count >= 2 THEN "ok" ELSE "single"

\* Mutant: any later backup ends a failed verification.
VerifyStatusByBackup ==
    IF gone \/ ~has_pbs THEN "none"
    ELSE IF verify_failed_at > 0 /\ verify_failed_at >= Latest({b \in Kept : OnPbs(b)}) THEN "critical"
    ELSE IF last_verified_at = 0 \/ today - last_verified_at > VerifyAge THEN "warning" ELSE "ok"

verify_status ==
    IF gone \/ ~has_pbs THEN "none"
    ELSE IF verify_failed_at > 0 /\ verify_failed_at >= last_verified_at THEN "critical"
    ELSE IF last_verified_at = 0 \/ today - last_verified_at > VerifyAge THEN "warning" ELSE "ok"

TestRequired == required /\ status_backup_kind # "none"
restore_due_status ==
    LET age == today - Max(testDays) IN
    IF ~TestRequired THEN "ok" ELSE IF testDays = {} THEN "open"
    ELSE IF age >= Interval THEN "critical"
    ELSE IF age >= Max({1, Interval - Lead}) THEN "warning" ELSE "ok"

Rank(s) == CASE s = "critical" -> 2 [] s = "warning" -> 1 [] OTHER -> 0
overall_status == IF gone THEN 0 ELSE Max({Rank(backup_severity), Rank(copy_status), Rank(verify_status)})

is_problem ==
    \/ backup_severity \in {"critical", "warning"} \/ restore_due_status = "critical"
    \/ verify_status \in {"critical", "warning"} \/ copy_status = "warning"

\* restore_test_coverage of this one guest.
restore_test_coverage ==
    [required |-> IF ListedGuest /\ TestRequired THEN 1 ELSE 0,
     ok |-> IF ListedGuest /\ TestRequired /\ restore_due_status = "ok" THEN 1 ELSE 0,
     overdue |-> IF ListedGuest /\ restore_due_status \in {"open", "warning", "critical"} THEN 1 ELSE 0]

\* vm_backup_sparkline_data: the dot of a day in the table.
Dot(d) ==
    LET rows == {b \in backups : b.day = d}
    IN  IF \E b \in rows : b.status = "ok" /\ ~b.removed THEN "ok"
        ELSE IF \E b \in rows : b.status = "ok" THEN "deleted"
        ELSE IF \E b \in rows : b.status = "failed" THEN "failed" ELSE "none"

\* Mutant: stubs are not left out.
BarWithStubs(d) ==
    LET rows == {b \in backups : b.day = d}
    IN  IF rows = {} THEN "none"
        ELSE IF \E b \in rows : b.status \in {"ok", "stub"} /\ ~b.removed THEN "ok"
        ELSE IF \E b \in rows : b.status \in {"ok", "stub"} THEN "deleted" ELSE "failed"

\* vm_backup_history: the bar of a day in the guest's charts.
Bar(d) ==
    LET rows == {b \in backups : b.day = d /\ b.status # "stub"}
    IN  IF rows = {} THEN "none"
        ELSE IF \E b \in rows : b.status = "ok" /\ ~b.removed THEN "ok"
        ELSE IF \E b \in rows : b.status = "ok" THEN "deleted" ELSE "failed"

-----------------------------------------------------------------------------
(* What happens to the guest.                                                  *)

JudgeInit ==
    /\ today = 1 /\ backups = {} /\ testDays = {} /\ gone = FALSE
    /\ policy \in {"daily", "none", "unknown"} /\ required \in BOOLEAN

\* Only backups and copies change the rows; policy and tests as below.
Row == UNCHANGED <<today, testDays, policy, required, gone>>

DayPasses == today < MaxDays /\ today' = today + 1
             /\ UNCHANGED <<backups, testDays, policy, required, gone>>

\* A backup ends, fails, or its stub is written; a failed run and a stub are rows too.
BackupRuns ==
    /\ Cardinality(backups) < MaxBackups /\ ~gone
    /\ \E o \in {"ok", "failed", "stub"}, s \in {"pbs1", "nas"} :
         backups' = backups \cup {Backup(today, o, s, "none")}
    /\ Row

Changed(b, c) == backups' = (backups \ {b}) \cup {c} /\ Row

Copied(b) == b \in Kept /\ OnPbs(b) /\ Changed(b, [b EXCEPT !.on = @ \cup {"pbs2"}])
Verified(b) == /\ b \in Kept /\ OnPbs(b)
               /\ \E v \in {"ok", "failed"} \ {b.verify} : Changed(b, [b EXCEPT !.verify = v])
Pruned(b) == b \in Kept /\ Changed(b, [b EXCEPT !.removed = TRUE])

\* The guest is deleted from PVE, or is back.
GuestGone == gone' = ~gone /\ UNCHANGED <<today, backups, testDays, policy, required>>

\* create_restore_test, from the form with a date, or from a run.
TestRecorded == /\ testDays = {} /\ \E d \in 1 .. today : testDays' = {d}
                /\ UNCHANGED <<today, backups, policy, required, gone>>

JudgeNext == DayPasses \/ BackupRuns \/ GuestGone \/ TestRecorded
             \/ \E b \in backups : Copied(b) \/ Verified(b) \/ Pruned(b)

JudgeSpec == JudgeInit /\ [][JudgeNext]_judgedVars

-----------------------------------------------------------------------------
(* Properties.                                                                 *)

\* Three things make a guest look better though nothing was done for it.  A failed
\* verification counts for FailedWindow days only: the query of vm_governance_rows drops
\* older ones, where the comment in _protection_status and the user documentation let it
\* count until a later backup has verified.  It goes with the backup it was found in.
\* And a guest with no backup left on PBS is not expected to have verified ones.
FailureLapses == today' # today /\ verify_failed_at' < verify_failed_at
FailureRemoved == \E b \in Kept : b.verify = "failed" /\ Pruned(b)
LastOnPbsRemoved == has_pbs /\ ~has_pbs' /\ \E b \in Kept : Pruned(b)

\* What is done for a guest: a new backup that is kept, a copy, a verification; or it is
\* deleted or back, and judged by other rules.
Deed == \/ BackupRuns /\ Kept' # Kept
        \/ GuestGone
        \/ \E b \in Kept : Copied(b) \/ Verified(b)

\* A guest is judged better only for a deed or by one of the three exceptions: not for
\* another day, another backup that is lost, a failed run, a stub or a restore test.
\* (That the guest's variables change comes first to spare the judging where they rest.)
BetterForDeeds ==
    [][~UNCHANGED judgedVars /\ overall_status' < overall_status =>
         Deed \/ FailureLapses \/ FailureRemoved \/ LastOnPbsRemoved]_judgedVars

\* Another day never brings a restore test back in order, and takes a guest off the list
\* of problems only if a failed verification of it lapses (restore_due, is_problem).
DaysAddUp ==
    [][today' # today => /\ Rank(restore_due_status') >= Rank(restore_due_status)
                         /\ is_problem => is_problem' \/ FailureLapses]_judgedVars

\* A guest shown with a failed verification is shown so until the failed backup itself or
\* one as late verifies, the failure lapses or goes with its backup, or the guest is
\* deleted; a newer backup alone is not enough (_protection_status: "backed up" alone says
\* nothing).
FailureCounts ==
    [][~UNCHANGED judgedVars /\ verify_status = "critical" /\ verify_status' # "critical" =>
         \/ (\E b \in Kept : Verified(b)) /\ last_verified_at' >= verify_failed_at
         \/ FailureLapses \/ FailureRemoved \/ GuestGone]_judgedVars

\* Each guest that is to be tested is either in order or due, and no other counts:
\* the numbers of the report add up (restore_test_coverage).
CoverageAdds ==
    restore_test_coverage.ok + restore_test_coverage.overdue = restore_test_coverage.required

\* The table and the charts of one guest show the same of each day
\* (vm_backup_history: "Like the table sparkline").
ChartsAgree == \A d \in 1 .. today : Dot(d) = Bar(d)

\* What makes the judgement of a guest better is done for it, except where a failed
\* verification lapses after FailedWindow days or a backup PBS had is removed.
BetterForCause == BetterForDeeds /\ DaysAddUp /\ FailureCounts

\* What different pages say of one guest does not contradict itself.
ViewsAgree == CoverageAdds /\ ChartsAgree
=============================================================================
