----------------------------- MODULE BackupJobs -----------------------------
(* What the sync learns of a guest from the settings of its cluster            *)
(* (proxmox.py): how often the backup jobs save it (infer_backup_kind_by_vmid),*)
(* where they write it (job_storages_by_vmid), and where HA may run it         *)
(* (fetch_ha).  Each job and each rule is an action, in the order PVE lists    *)
(* them, which is any.                                                         *)
EXTENDS Naturals, Sequences, SequencesExt, FiniteSets, FiniteSetsExt

CONSTANTS
    Guests, Deleted,       \* guests of the cluster; guests a job still names
    MaxBackupJobs, MaxRules

ASSUME JobsAssumption == /\ Guests \cap Deleted = {} /\ Guests # {}
                         /\ MaxBackupJobs \in Nat /\ MaxRules \in Nat

VARIABLES
    backupJobs,             \* jobs of the cluster
    rules, groups,          \* HA: its rules, or in an older PVE the guests' groups
    kind, specific,         \* result and specific of infer_backup_kind_by_vmid
    written,                \* job_storages_by_vmid: guest -> storages
    placement,              \* placement_by_sid: guest -> placement and its rule
    nth                     \* jobs or rules gone through

scheduleVars == <<backupJobs, rules, groups, kind, specific, written, placement, nth>>

All == {}                \* the empty text
Named == Guests \cup Deleted

\* What of a schedule's text counts: a word like "daily", the names of week days
\* in it ("mon..fri" has two), and whether it is a time of any day.
Schedules == [word : {"daily"}, days : {0}, anyDay : {FALSE}]
             \cup [word : {""}, days : {0}, anyDay : BOOLEAN]
             \cup [word : {""}, days : {1, 2}, anyDay : {FALSE}]

\* A job names guests, or takes all but some, of a pool or of a node.  Of the jobs and
\* rules that are switched off one stands for all.
Jobs ==
    LET naming == [on : {TRUE}, schedule : Schedules, vmid : {{g, h} : g, h \in Named},
                   exclude : {{}}, only : {Named}, storage : {"s1"}]
        taking == [on : {TRUE}, schedule : Schedules, vmid : {All}, exclude : {{}, {Min(Guests)}},
                   only : {Named, {Min(Guests)}}, storage : {"s1", "none"}]
    IN  naming \cup taking \cup {[j EXCEPT !.on = FALSE] : j \in {CHOOSE j \in naming : j.schedule.word = "daily"}}
Rules ==
    LET valid == [on : {TRUE}, negative : BOOLEAN, strict : BOOLEAN, guests : {{g, h} : g, h \in Guests}]
    IN  valid \cup {[on |-> FALSE, negative |-> FALSE, strict |-> TRUE, guests |-> Guests]}

JobsInputs ==
    \/ backupJobs \in BoundedSeq(Jobs, MaxBackupJobs) /\ rules = <<>> /\ groups = {}
    \/ backupJobs = <<>> /\ rules \in BoundedSeq(Rules, MaxRules) /\ groups = {}
    \/ backupJobs = <<>> /\ rules = <<>> /\ groups \in SUBSET Guests

JobsStart ==
    /\ kind = [g \in Named |-> "none"] /\ specific = {} /\ written = [g \in Named |-> {}]
    /\ placement = [g \in Guests |-> [is |-> "any", rule |-> 0]] /\ nth = 0

JobsInit == JobsInputs /\ JobsStart

-----------------------------------------------------------------------------
(* Backup jobs.                                                                *)

\* classify_schedule.
classify_schedule(s) ==
    IF s.word = "daily" \/ s.days >= 2 \/ (s.days = 0 /\ s.anyDay) THEN "daily" ELSE "weekly"

Specific(j) == j.vmid # All
expand_job_vmids(j) == (IF Specific(j) THEN j.vmid ELSE Guests) \ j.exclude

\* Mutant: the job that names a guest adds to what the others said.
KindAdded(j, g) ==
    IF g \in specific /\ ~Specific(j) THEN kind[g]
    ELSE IF classify_schedule(j.schedule) = "daily" \/ kind[g] = "none"
           THEN classify_schedule(j.schedule) ELSE kind[g]

\* A job that names the guest goes before one that takes all, then daily before weekly.
Kind(j, g) ==
    LET k == classify_schedule(j.schedule)
        first == IF Specific(j) THEN g \notin specific ELSE kind[g] = "none"
    IN  IF g \in specific /\ ~Specific(j) THEN kind[g]
        ELSE IF first \/ k = "daily" THEN k ELSE kind[g]

ReadJob ==
    LET j == backupJobs[nth + 1]
        takes == expand_job_vmids(j)
    IN  /\ nth < Len(backupJobs) /\ nth' = nth + 1
        /\ IF ~j.on THEN UNCHANGED <<kind, specific, written>>
           ELSE /\ kind' = [g \in Named |-> IF g \in takes THEN Kind(j, g) ELSE kind[g]]
                /\ specific' = IF Specific(j) THEN specific \cup takes ELSE specific
                /\ written' = [g \in Named |-> IF g \in takes \cap Guests \cap j.only /\ j.storage # "none"
                                                 THEN written[g] \cup {j.storage} ELSE written[g]]
        /\ UNCHANGED <<backupJobs, rules, groups, placement>>

-----------------------------------------------------------------------------
(* HA.                                                                         *)

Affinity(r) == IF r.negative THEN (IF r.strict THEN "never" ELSE "avoid")
               ELSE IF r.strict THEN "only" ELSE "prefer"

\* The first rule, but a strict one goes before a preference.
Supersedes(r, known) == known.is = "any" \/ (r.strict /\ known.is \in {"prefer", "avoid"})

ReadRule ==
    LET r == rules[nth + 1]
    IN  /\ nth < Len(rules) /\ nth' = nth + 1
        /\ placement' = [g \in Guests |->
                           IF r.on /\ g \in r.guests /\ Supersedes(r, placement[g])
                             THEN [is |-> Affinity(r), rule |-> nth + 1] ELSE placement[g]]
        /\ UNCHANGED <<backupJobs, rules, groups, kind, specific, written>>

\* An older PVE has no rules but groups, restricted or not.
ReadGroups ==
    /\ rules = <<>> /\ backupJobs = <<>> /\ nth = 0 /\ nth' = 1
    /\ \E restricted \in BOOLEAN : placement' =
         [g \in Guests |-> IF g \in groups THEN [is |-> IF restricted THEN "only" ELSE "prefer", rule |-> 0]
                            ELSE placement[g]]
    /\ UNCHANGED <<backupJobs, rules, groups, kind, specific, written>>

JobsNext == ReadJob \/ ReadRule \/ ReadGroups
JobsSpec == JobsInit /\ [][JobsNext]_scheduleVars

-----------------------------------------------------------------------------
(* Properties.                                                                 *)

SavedBy(g, named) ==
    {classify_schedule(backupJobs[i].schedule) :
        i \in {i \in 1 .. nth : LET j == backupJobs[i] IN j.on /\ Specific(j) = named /\ g \in expand_job_vmids(j)}}

\* How often a guest is saved does not depend on the order of the jobs: those that
\* name it decide, else those that take all; one daily job among them is enough
\* (infer_backup_kind_by_vmid: "Resolution rules").
KindByRules ==
    backupJobs # <<>> =>
      \A g \in Named : LET says == IF SavedBy(g, TRUE) # {} THEN SavedBy(g, TRUE) ELSE SavedBy(g, FALSE)
                       IN  kind[g] = IF says = {} THEN "none" ELSE IF "daily" \in says THEN "daily" ELSE "weekly"

\* The jobs gone through that take a guest, and those of them that write it somewhere:
\* they name a storage, and the guest exists and is of their pool or node.
Savers(g) == {i \in 1 .. nth : backupJobs[i].on /\ g \in expand_job_vmids(backupJobs[i])}
Writers(g) == {i \in Savers(g) : g \in Guests \cap backupJobs[i].only /\ backupJobs[i].storage # "none"}

\* The two readings of the jobs differ, and by this much: a guest counts as backed up if
\* any job takes it, also one limited to a pool or a node the guest is not of
\* (infer_backup_kind_by_vmid looks at neither), but is shown with the storages of those
\* jobs alone that write it (job_storages_by_vmid does look).  A guest that only the jobs
\* of other pools and nodes take is therefore daily or weekly and written nowhere.
KindAndStorages ==
    backupJobs # <<>> =>
      \A g \in Named : /\ kind[g] # "none" <=> Savers(g) # {}
                      /\ written[g] = {backupJobs[i].storage : i \in Writers(g)}

\* A guest is shown with the first strict rule that names it, and with a preference
\* only if there is no strict one (fetch_ha: "keep the first strict one").
StrictRuleFirst ==
    \A g \in Guests :
        LET for == {i \in 1 .. nth : rules # <<>> /\ rules[i].on /\ g \in rules[i].guests}
            strict == {i \in for : rules[i].strict}
        IN  for # {} => placement[g] = LET i == Min(IF strict # {} THEN strict ELSE for)
                                       IN  [is |-> Affinity(rules[i]), rule |-> i]

\* What is said of a guest follows from the jobs and rules that take it, in whichever
\* order PVE lists them; a pool or node binds where a job writes, not how often it saves.
GuestAsConfigured == KindByRules /\ KindAndStorages /\ StrictRuleFirst
=============================================================================
