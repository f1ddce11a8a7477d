---------------------------- MODULE DecisionProofs ----------------------------
(* Proofs about what is decided from the stored data: when a VM is tested       *)
(* (DueClock), how the scratch host is reached (HostSettings), what jobs and    *)
(* rules say of a guest (BackupJobs), how it is judged (Governance), where it   *)
(* is restored to (TargetChoice), and how the diagram of its copies is laid out *)
(* (Topology).                                                                  *)
EXTENDS DueClock, HostSettings, BackupJobs, Governance, TargetChoice, Topology,
        FiniteSetTheorems, SequenceTheorems, WellFoundedInduction, TLAPS

-----------------------------------------------------------------------------
(* DueClock: a conclusion that nothing interrupts leaves row, test record and   *)
(* date in agreement, and the listing keeps that until the row.                 *)
Busy(t) == work[t].step \in {"test", "clock", "held"}

\* Only the slot tests and lists, only operators act on held rows, and a thread
\* past its choice has a row and a VM.
WorkKnown ==
    \A t \in Threads :
        /\ Busy(t) => work[t].run \in Runs /\ work[t].vm \in VMs
        /\ At(t, "held") => t # Slot
        /\ work[t].step \in {"enqueue", "drain", "test"} => t = Slot

\* A row belongs to the VM its workers took it for.
RowKept ==
    /\ \A r \in Runs : row[r].status # "none" => row[r].vm \in VMs
    /\ \A t \in Threads, r \in Runs :
         Busy(t) /\ work[t].run = r /\ row[r].status # "none" => row[r].vm = work[t].vm
    /\ \A t, u \in Threads :
         Busy(t) /\ Busy(u) /\ work[t].run = work[u].run => work[t].vm = work[u].vm

\* While the due VMs are queued, no row of one of them gets further than the queue.
Listed ==
    \A v \in todo : /\ At(Slot, "enqueue")
                    /\ \A r \in Runs : row[r].vm = v => row[r].status = "queued"

\* A thread that has still to write the date is the only one, and its verdict is
\* the last one but for an error that armed nothing.
Verdicts ==
    \A v \in VMs \ crossed, t \in Threads : At(t, "clock") /\ work[t].vm = v =>
        /\ last[v].status \in {work[t].verdict, "error"}
        /\ \A u \in Threads : At(u, "clock") /\ work[u].vm = v => u = t

\* Otherwise the date agrees with the last verdict.
Dates ==
    \A v \in VMs \ crossed :
        /\ last[v].status \in CountsAsTest => tested[v] = last[v].day
        /\ last[v].status = "failed" /\ ~Halfway(v) =>
             nextRun[v] # Null /\ last[v].day + Retry <= nextRun[v]
        /\ last[v].status \in CountsAsTest /\ ~Halfway(v) => nextRun[v] = Null

Past == \A v \in VMs : last[v].day <= day

\* What has been listed has waited.
ListedWaited ==
    \A v \in todo \ crossed :
        /\ last[v].status = "failed" => Waited(v, Retry)
        /\ last[v].status \in CountsAsTest => Waited(v, Cadence)

ClockInv == TypeOK /\ WorkKnown /\ RowKept /\ Listed /\ Verdicts /\ Dates /\ Past /\ ListedWaited

-----------------------------------------------------------------------------
\* The empty tables satisfy the clock's invariant.
LEMMA InitInv == Init => ClockInv
<1> SUFFICES ASSUME Init PROVE ClockInv
  OBVIOUS
<1> USE DueAssumption DEF Init, NoRow, Idle, Doing
<1>1. TypeOK
  BY DEF TypeOK, Days, Threads
<1>2. WorkKnown /\ RowKept /\ Listed
  BY DEF WorkKnown, RowKept, Listed, Busy, At
<1>3. Verdicts /\ Dates /\ Past /\ ListedWaited
  BY DEF Verdicts, Dates, Past, ListedWaited, At, CountsAsTest
<1> QED BY <1>1, <1>2, <1>3 DEF ClockInv

\* Rows are added to the queue or taken from it; nothing else moves on.
LEMMA QueueInv ==
  ASSUME ClockInv,
         \/ \E v \in VMs : NotRestorable(v) \/ Enqueue(v)
         \/ \E v \in VMs : ManualTest(v) \/ SavePolicy(v) \/ EnqueueIfNeverPassed(v)
         \/ \E r \in Runs : DeleteRun(r)
  PROVE  ClockInv'
<1> USE DueAssumption DEF ClockInv, rowVars, clockVars
<1>1. /\ UNCHANGED <<day, nextRun, last, passed, tested, work, crossed, restarts>>
      /\ todo' \subseteq todo /\ enabled' \in [VMs -> BOOLEAN] /\ eager' \subseteq VMs
  BY DEF NotRestorable, Enqueue, ManualTest, SavePolicy, EnqueueIfNeverPassed, DeleteRun, TypeOK
<1>2. \/ row' = row
      \/ \E v \in VMs : CreateRun(v)
      \/ \E r \in Runs : row[r].status = "queued" /\ row' = [row EXCEPT ![r] = NoRow]
  BY DEF NotRestorable, Enqueue, ManualTest, SavePolicy, EnqueueIfNeverPassed, DeleteRun
<1>3. CASE row' = row
  BY <1>1, <1>3 DEF TypeOK, WorkKnown, RowKept, Listed, Verdicts, Dates, Past, ListedWaited,
                    Busy, At, Halfway, Waited
<1>4. Verdicts' /\ Dates' /\ Past' /\ ListedWaited' /\ WorkKnown'
  BY <1>1 DEF Verdicts, Dates, Past, ListedWaited, WorkKnown, Busy, At, Halfway, Waited
<1>5. ASSUME NEW v \in VMs, CreateRun(v) PROVE TypeOK' /\ RowKept' /\ Listed'
  <2> PICK r \in Runs : /\ \A t \in Threads : work[t].run # r
                        /\ row' = [row EXCEPT ![r] = [vm |-> v, status |-> "queued"]]
    BY <1>5 DEF CreateRun
  <2>1. TypeOK'
    BY <1>1 DEF TypeOK
  <2>2. RowKept' /\ Listed'
    BY <1>1 DEF TypeOK, RowKept, Listed, Busy, At
  <2> QED BY <2>1, <2>2
<1>6. ASSUME NEW r \in Runs, row[r].status = "queued", row' = [row EXCEPT ![r] = NoRow]
      PROVE  TypeOK' /\ RowKept' /\ Listed'
  <2>1. TypeOK'
    BY <1>1, <1>6 DEF TypeOK, NoRow
  <2>2. RowKept' /\ Listed'
    BY <1>1, <1>6 DEF TypeOK, RowKept, Listed, Busy, At, NoRow
  <2> QED BY <2>1, <2>2
<1> QED BY <1>2, <1>3, <1>4, <1>5, <1>6

\* The listing takes VMs without a live row that have waited.
LEMMA ListInv ==
  ASSUME ClockInv, ListDue
  PROVE  ClockInv'
<1> USE DueAssumption DEF ClockInv, rowVars, clockVars
<1>1. /\ UNCHANGED <<day, enabled, nextRun, row, last, passed, tested, eager, restarts>>
      /\ At(Slot, "idle") /\ todo' = {v \in VMs : Due(v)}
      /\ work' = [work EXCEPT ![Slot] = Doing("enqueue", Null, Null, "none")]
      /\ crossed' = crossed \cup {v \in todo' : Halfway(v)}
  BY DEF ListDue, Goto
<1>2. Slot \in Threads
  BY DEF Threads
<1>3. TypeOK' /\ WorkKnown' /\ RowKept'
  BY <1>1, <1>2 DEF TypeOK, WorkKnown, RowKept, Busy, At, Doing
<1>4. Listed'
  BY <1>1, <1>2 DEF Listed, Due, LiveRows, TypeOK, At, Doing
<1>5. \A v \in VMs : Halfway(v)' <=> Halfway(v)
  BY <1>1, <1>2 DEF Halfway, At, Doing, TypeOK
<1>6. Verdicts' /\ Dates' /\ Past'
  <2>1. Dates' /\ Past'
    BY <1>1, <1>5 DEF Dates, Past
  <2>2. Verdicts'
    BY <1>1, <1>2 DEF Verdicts, At, Doing, TypeOK
  <2> QED BY <2>1, <2>2
<1>7. ListedWaited'
  <2> SUFFICES ASSUME NEW v \in VMs, Due(v), v \notin crossed, ~Halfway(v)
               PROVE  /\ last[v].status = "failed" => Waited(v, Retry)
                      /\ last[v].status \in CountsAsTest => Waited(v, Cadence)
    BY <1>1 DEF ListedWaited, Waited
  <2> QED BY DEF Dates, Due, Waited, TypeOK, Days, CountsAsTest
<1> QED BY <1>3, <1>4, <1>6, <1>7

\* A thread that is not between row and date moves on: dates and verdicts stay.
LEMMA StillAgrees ==
  ASSUME ClockInv, NEW t \in Threads, NEW w, w.step # "clock", ~At(t, "clock"),
         work' = [work EXCEPT ![t] = w],
         todo' \subseteq todo, UNCHANGED <<day, nextRun, last, tested, crossed>>
  PROVE  Verdicts' /\ Dates' /\ Past' /\ ListedWaited'
<1> USE DEF ClockInv
<1>1. \A v \in VMs : Halfway(v)' <=> Halfway(v)
  BY DEF Halfway, At, TypeOK
<1>2. Verdicts'
  BY DEF Verdicts, At, TypeOK
<1>3. Dates' /\ Past' /\ ListedWaited'
  BY <1>1 DEF Dates, Past, ListedWaited, Waited
<1> QED BY <1>2, <1>3

\* Once the slot has left the listing, nothing is listed.
LEMMA NothingListed ==
  ASSUME ClockInv, ~At(Slot, "enqueue")
  PROVE  todo = {}
  BY DEF ClockInv, Listed

\* A thread puts its row down.
LEMMA PutDownInv ==
  ASSUME ClockInv,
         \/ DrainStarts \/ DrainEnds \/ QueueFails \/ LeaveRunning
         \/ \E o \in Operators : LeaveHeld(o)
  PROVE  ClockInv'
<1> USE DueAssumption DEF ClockInv, rowVars, clockVars
<1>1. /\ UNCHANGED <<day, enabled, nextRun, row, last, passed, tested, eager, crossed, restarts>>
      /\ todo' \subseteq todo
      /\ \E t \in Threads, to \in {"drain", "idle"} :
           /\ Goto(t, to) /\ ~At(t, "clock") /\ (to = "drain" => t = Slot)
           /\ t = Slot => todo' = {}
  <2>1. CASE DrainStarts
    BY <2>1 DEF DrainStarts, Threads, At
  <2>2. CASE DrainEnds
    <3>1. todo = {}
      BY <2>2, NothingListed DEF DrainEnds, At
    <3> QED BY <2>2, <3>1 DEF DrainEnds, Threads, At
  <2>3. CASE LeaveRunning
    <3>1. todo = {}
      BY <2>3, NothingListed DEF LeaveRunning, At
    <3> QED BY <2>3, <3>1 DEF LeaveRunning, Threads, At
  <2>4. CASE QueueFails
    BY <2>4 DEF QueueFails, Threads, At
  <2>5. CASE \E o \in Operators : LeaveHeld(o)
    BY <2>5 DEF LeaveHeld, Threads, At
  <2> QED BY <2>1, <2>2, <2>3, <2>4, <2>5
<1>2. PICK t \in Threads, to \in {"drain", "idle"} :
        /\ work' = [work EXCEPT ![t] = Doing(to, Null, Null, "none")]
        /\ ~At(t, "clock") /\ (to = "drain" => t = Slot) /\ (t = Slot => todo' = {})
  BY <1>1 DEF Goto
<1>3. Verdicts' /\ Dates' /\ Past' /\ ListedWaited'
  BY <1>1, <1>2, StillAgrees DEF Doing
<1>4. TypeOK' /\ WorkKnown' /\ RowKept' /\ Listed'
  BY <1>1, <1>2 DEF TypeOK, WorkKnown, RowKept, Listed, Busy, At, Doing
<1> QED BY <1>3, <1>4

\* A thread takes a row up, which the slot may set running.
LEMMA TakeUpInv ==
  ASSUME ClockInv, NEW r \in Runs,
         Begin(r) \/ Resume(r) \/ \E o \in Operators : LookAtHeld(o, r)
  PROVE  ClockInv'
<1> USE DueAssumption DEF ClockInv, rowVars, clockVars
<1>1. /\ UNCHANGED <<day, enabled, nextRun, last, passed, tested, eager, todo, crossed, restarts>>
      /\ row[r].status # "none"
      /\ row' = row \/ (At(Slot, "drain") /\ row' = [row EXCEPT ![r].status = "running"])
  <2>1. CASE Begin(r)
    BY <2>1 DEF Begin
  <2>2. CASE Resume(r)
    BY <2>2 DEF Resume
  <2>3. CASE \E o \in Operators : LookAtHeld(o, r)
    BY <2>3 DEF LookAtHeld
  <2> QED BY <2>1, <2>2, <2>3
<1>2. PICK t \in Threads, to \in {"test", "held"} :
        /\ work' = [work EXCEPT ![t] = Doing(to, r, row[r].vm, "none")]
        /\ ~At(t, "clock") /\ (to = "test" <=> t = Slot) /\ (t = Slot => ~At(Slot, "enqueue"))
  BY DEF Begin, Resume, LookAtHeld, Threads, At
<1>3. t = Slot \/ At(Slot, "drain") => todo = {}
  BY <1>2, NothingListed DEF At
<1>4. Verdicts' /\ Dates' /\ Past' /\ ListedWaited'
  BY <1>1, <1>2, StillAgrees DEF Doing
<1>5. row[r].vm \in VMs
  BY <1>1 DEF RowKept
<1> HIDE DEF ClockInv
<1>6. /\ row' \in [Runs -> [vm : VMs \cup {Null}, status : {"none", "queued", "running", "held"}]]
      /\ \A s \in Runs : row'[s].vm = row[s].vm /\ (row'[s].status # "none" <=> row[s].status # "none")
  <2>1. CASE row' = row
    BY <2>1 DEF ClockInv, TypeOK
  <2>2. CASE row' = [row EXCEPT ![r].status = "running"]
    BY <1>1, <2>2 DEF ClockInv, TypeOK
  <2> QED BY <1>1, <2>1, <2>2
<1>7. TypeOK' /\ WorkKnown' /\ RowKept'
  <2> USE DEF ClockInv
  <2>1. TypeOK'
    BY <1>1, <1>2, <1>5, <1>6 DEF TypeOK, Doing
  <2>2. WorkKnown'
    BY <1>1, <1>2, <1>5 DEF TypeOK, WorkKnown, Busy, At, Doing
  <2>3. RowKept'
    BY <1>1, <1>2, <1>5, <1>6 DEF TypeOK, RowKept, Busy, At, Doing
  <2> QED BY <2>1, <2>2, <2>3
<1>8. Listed'
  BY <1>1, <1>2, <1>3 DEF ClockInv, TypeOK, Listed, At, Doing
<1> QED BY <1>4, <1>7, <1>8 DEF ClockInv

\* Parking a failed guest keeps the clock's invariant (_finalize, hold_on_failure).
LEMMA HoldInv ==
  ASSUME ClockInv, Hold
  PROVE  ClockInv'
<1> USE DueAssumption DEF ClockInv, rowVars, clockVars
<1>1. /\ UNCHANGED <<day, enabled, nextRun, last, passed, tested, eager, todo, crossed, restarts>>
      /\ At(Slot, "test") /\ Slot \in Threads
      /\ row' = [row EXCEPT ![work[Slot].run] = [vm |-> work[Slot].vm, status |-> "held"]]
      /\ work' = [work EXCEPT ![Slot] = Doing("drain", Null, Null, "none")]
  BY DEF Hold, Goto, Threads
<1>2. todo = {}
  BY <1>1, NothingListed DEF At
<1>3. work[Slot].run \in Runs /\ work[Slot].vm \in VMs
  BY <1>1 DEF WorkKnown, Busy, At
<1>4. Verdicts' /\ Dates' /\ Past' /\ ListedWaited'
  BY <1>1, StillAgrees DEF Doing, At
<1>5. TypeOK' /\ WorkKnown' /\ Listed'
  BY <1>1, <1>2, <1>3 DEF TypeOK, WorkKnown, Listed, Busy, At, Doing
<1>6. RowKept'
  BY <1>1, <1>3 DEF TypeOK, RowKept, Busy, At, Doing
<1> QED BY <1>4, <1>5, <1>6

\* A row ends as an error and arms nothing.
LEMMA ErrorInv ==
  ASSUME ClockInv, NEW r \in Runs, Refuse(r) \/ Recover(r)
  PROVE  ClockInv'
<1> USE DueAssumption DEF ClockInv, rowVars, clockVars
<1> DEFINE v == row[r].vm
<1>1. /\ UNCHANGED <<day, enabled, nextRun, tested, passed, eager, todo, work, crossed, restarts>>
      /\ row' = [row EXCEPT ![r] = NoRow] /\ row[r].status # "none"
      /\ last' = [last EXCEPT ![v] = [status |-> "error", day |-> day]]
  BY DEF Refuse, Recover, Conclude, CountsAsTest
<1>2. v \in VMs
  BY <1>1 DEF RowKept
<1>3. TypeOK'
  BY <1>1, <1>2 DEF TypeOK, NoRow, Days
<1>4. WorkKnown' /\ RowKept' /\ Listed'
  BY <1>1 DEF TypeOK, WorkKnown, RowKept, Listed, Busy, At, NoRow
<1>5. Verdicts'
  BY <1>1, <1>2 DEF TypeOK, Verdicts, At
<1>6. Dates' /\ Past' /\ ListedWaited'
  BY <1>1, <1>2 DEF TypeOK, Dates, Past, ListedWaited, Halfway, Waited, At, CountsAsTest, Days
<1> QED BY <1>3, <1>4, <1>5, <1>6

\* A verdict is recorded: of a VM that is not listed, or in the way of another.
LEMMA RecordInv ==
  ASSUME ClockInv, NEW t \in Threads, NEW status \in CountsAsTest \cup {"failed", "cancelled"},
         At(t, "test") \/ At(t, "held"), Record(t, work[t].run, work[t].vm, status)
  PROVE  ClockInv'
<1> USE DueAssumption DEF ClockInv, rowVars, clockVars
<1> PICK r \in Runs, v \in VMs : r = work[t].run /\ v = work[t].vm
  BY DEF WorkKnown, Busy, At
<1>1. /\ UNCHANGED <<day, enabled, nextRun, eager, todo, restarts>>
      /\ row' = [row EXCEPT ![r] = NoRow]
      /\ last' = [last EXCEPT ![v] = [status |-> status, day |-> day]]
      /\ tested' = IF status \in CountsAsTest THEN [tested EXCEPT ![v] = day] ELSE tested
      /\ passed' = IF status = "passed" THEN passed \cup {v} ELSE passed
      /\ work' = [work EXCEPT ![t] = Doing("clock", r, v, status)]
      /\ crossed' = IF Halfway(v) \/ row[r].status \notin {"running", "held"}
                      THEN crossed \cup {v} ELSE crossed
  BY DEF Record, Conclude
<1>2. /\ Busy(t)
      /\ t = Slot => todo = {}
  BY NothingListed DEF WorkKnown, Busy, At
<1>3. v \in todo => v \in crossed'
  BY <1>1, <1>2 DEF RowKept, Listed
<1>4. TypeOK'
  BY <1>1, <1>2 DEF TypeOK, NoRow, Days, Doing, CountsAsTest
<1>5. WorkKnown'
  BY <1>1, <1>2 DEF TypeOK, WorkKnown, Busy, At, Doing
<1>6. RowKept'
  BY <1>1, <1>2 DEF TypeOK, RowKept, Busy, At, Doing, NoRow
<1>7. Listed'
  BY <1>1, <1>2 DEF TypeOK, Listed, At, Doing, NoRow
<1>8. Verdicts'
  BY <1>1, <1>2 DEF TypeOK, Verdicts, Halfway, At, Doing
<1>9. /\ Halfway(v)'
      /\ \A x \in VMs \ {v} : Halfway(x)' <=> Halfway(x)
  BY <1>1, <1>2 DEF TypeOK, Halfway, Busy, At, Doing
<1>10. Dates'
  BY <1>1, <1>2, <1>9 DEF TypeOK, Dates
<1>11. Past' /\ ListedWaited'
  BY <1>1, <1>2, <1>3 DEF TypeOK, Past, ListedWaited, Waited, Days
<1> QED BY <1>4, <1>5, <1>6, <1>7, <1>8, <1>10, <1>11

\* The date is written, by the only thread that has one to write.
LEMMA DateInv ==
  ASSUME ClockInv, NEW t \in Threads, SetDate(t)
  PROVE  ClockInv'
<1> USE DueAssumption DEF ClockInv, rowVars
<1> PICK v \in VMs : v = work[t].vm
  BY DEF SetDate, WorkKnown, Busy, At
<1> PICK status : status = work[t].verdict
  OBVIOUS
<1> PICK to \in {"drain", "idle"} : to = IF t = Slot THEN "drain" ELSE "idle"
  OBVIOUS
<1>1. /\ UNCHANGED <<day, enabled, row, last, passed, tested, eager, todo, crossed, restarts>>
      /\ At(t, "clock")
      /\ nextRun' = [nextRun EXCEPT ![v] = IF status = "failed" THEN day + Retry ELSE Null]
      /\ work' = [work EXCEPT ![t] = Doing(to, Null, Null, "none")]
  BY DEF SetDate, Rearm, Goto
<1>2. (t = Slot => todo = {}) /\ (to = "drain" => t = Slot)
  BY <1>1, NothingListed DEF WorkKnown, Busy, At
<1>3. TypeOK'
  <2>1. day + Retry \in Days
    BY DEF TypeOK, Days
  <2> QED BY <1>1, <1>2, <2>1 DEF TypeOK, Doing
<1>4. WorkKnown' /\ RowKept' /\ Listed'
  BY <1>1, <1>2 DEF TypeOK, WorkKnown, RowKept, Listed, Busy, At, Doing
<1>5. Verdicts' /\ Past' /\ ListedWaited'
  BY <1>1, <1>2 DEF TypeOK, Verdicts, Past, ListedWaited, Waited, At, Doing
<1>6. \A x \in VMs \ {v} : Halfway(x)' <=> Halfway(x)
  BY <1>1, <1>2 DEF TypeOK, Halfway, At, Doing
<1>7. v \notin crossed => last[v].status \in {status, "error"}
  BY <1>1, <1>2 DEF Verdicts
<1>8. Dates'
  BY <1>1, <1>2, <1>6, <1>7 DEF TypeOK, Dates, Past, Days, CountsAsTest
<1> QED BY <1>3, <1>4, <1>5, <1>8

\* Time passes, and a restart interrupts what is halfway.
LEMMA TimeInv ==
  ASSUME ClockInv, NextDay \/ Restart
  PROVE  ClockInv'
<1> USE DueAssumption DEF ClockInv, rowVars, clockVars
<1>1. CASE NextDay
  <2>1. TypeOK' /\ WorkKnown' /\ RowKept' /\ Listed' /\ Verdicts'
    BY <1>1 DEF NextDay, TypeOK, WorkKnown, RowKept, Listed, Verdicts, Busy, At, Days
  <2>2. Dates' /\ Past' /\ ListedWaited'
    BY <1>1 DEF NextDay, TypeOK, Dates, Past, ListedWaited, Waited, Halfway, At, Days
  <2> QED BY <2>1, <2>2
<1>2. CASE Restart
  <2>1. TypeOK' /\ WorkKnown' /\ RowKept' /\ Listed' /\ Verdicts'
    BY <1>2 DEF Restart, TypeOK, WorkKnown, RowKept, Listed, Verdicts, Busy, At, Idle, Doing
  <2>2. Dates' /\ Past' /\ ListedWaited'
    BY <1>2 DEF Restart, Dates, Past, ListedWaited
  <2> QED BY <2>1, <2>2
<1> QED BY <1>1, <1>2

-----------------------------------------------------------------------------
\* Every step keeps the clock's invariant.
LEMMA NextInv == ClockInv /\ [Next]_vars => ClockInv'
<1> SUFFICES ASSUME ClockInv, [Next]_vars PROVE ClockInv'
  OBVIOUS
<1>1. CASE UNCHANGED vars
  BY <1>1 DEF vars, clockVars, rowVars, ClockInv, TypeOK, WorkKnown, RowKept, Listed, Verdicts,
              Dates, Past, ListedWaited, Busy, At, Halfway, Waited
<1>2. CASE SlotStep
  <2>1. CASE Verdict
    BY <2>1, RecordInv DEF Verdict, Threads
  <2>2. CASE SetDate(Slot)
    BY <2>2, DateInv DEF Threads
  <2> QED BY <1>2, <2>1, <2>2, QueueInv, ListInv, PutDownInv, TakeUpInv, HoldInv, ErrorInv DEF SlotStep
<1>3. CASE Requests
  <2>1. ASSUME NEW o \in Operators, HeldAction(o) PROVE ClockInv'
    BY <2>1, RecordInv DEF HeldAction, Threads, CountsAsTest
  <2>2. ASSUME NEW o \in Operators, SetDate(o) PROVE ClockInv'
    BY <2>2, DateInv DEF Threads
  <2> QED BY <1>3, <2>1, <2>2, QueueInv, PutDownInv, TakeUpInv DEF Requests
<1> QED BY <1>1, <1>2, <1>3, TimeInv, ErrorInv DEF Next

\* The clock's invariant holds in every reachable state.
LEMMA InvHolds == Spec => []ClockInv
  BY InitInv, NextInv, PTL DEF Spec

\* Every column and every thread of the clock keeps its type.
THEOREM ClockTypes == Spec => []TypeOK
<1>1. ClockInv => TypeOK
  BY DEF ClockInv
<1> QED BY <1>1, InvHolds, PTL

\* A VM that has passed rests for its cadence (_DUE_CANDIDATE_SQL, set_vm_next_run),
\* with any number of VMs, rows, requests and restarts.
THEOREM RestsAfterTest == Spec => CadenceKept
<1>1. ClockInv => \A v \in VMs \ crossed :
                    ClockQueues(v) /\ last[v].status \in CountsAsTest => Waited(v, Cadence)
  BY DEF ClockInv, ListedWaited, ClockQueues
<1> QED BY <1>1, InvHolds, PTL DEF CadenceKept

\* A VM whose run was carried out and failed rests for the retry days
\* (schedule_retry).
THEOREM RestsAfterFailure == Spec => FailedBacksOff
<1>1. ClockInv => \A v \in VMs \ crossed :
                    ClockQueues(v) /\ last[v].status = "failed" => Waited(v, Retry)
  BY DEF ClockInv, ListedWaited, ClockQueues
<1> QED BY <1>1, InvHolds, PTL DEF FailedBacksOff

-----------------------------------------------------------------------------
(* HostSettings.                                                               *)

\* A key some host did show, and settings that may be stored.
Shown(p) == p \in Addresses \X Nat /\ p[2] <= keys[p[1]]
StoredWell(s) == s \in HostConfigs /\ s.token # None /\ (s.pin # None => Shown(s.pin))

HostActs == {"none", "form", "storages", "clear", "test"}
HostSteps == {"none", "scan", "readKey", "writeKey", "token", "save", "write"}
HostForms == [host : Addresses \cup {None}, pin : OfHost, token : OfHost]

SettingsTypes ==
    /\ keys \in [Addresses -> Nat] /\ valid \in [Addresses -> Nat]
    /\ act \in [Clients -> HostActs] /\ step \in [Clients -> HostSteps]
    /\ form \in [Clients -> HostForms] /\ read \in [Clients -> HostConfigs \cup {None}]
    /\ cleared \in BOOLEAN /\ spoiled \in BOOLEAN

\* What a request that does a and is at step s holds: its form f, what it read r.
Hand(a, s, f, r) ==
    /\ a = "none" <=> s = "none"
    /\ a \in {"storages", "clear", "test"} => config # None
    /\ a \in {"form", "test"} \/ s \in {"scan", "token", "save", "write"} => f.host \in Addresses
    /\ s = "scan" => a \in {"form", "test"}
    /\ s = "token" => a = "form"
    /\ s \in {"save", "write"} => a \in {"form", "storages"}
    /\ s \in {"readKey", "writeKey"} => (a = "clear" /\ f.pin = None) \/ (a \in {"form", "test"} /\ Shown(f.pin))
    /\ s = "writeKey" => StoredWell(r)
    /\ s = "save" => /\ f.pin # None => Shown(f.pin)
                     /\ f.pin = None \/ f.token = None => config # None
    /\ s = "write" => /\ f.token # None /\ (f.pin # None => Shown(f.pin))
                      /\ ~cleared => f.pin # None

PinKept == config # None => StoredWell(config) /\ (~cleared => config.pin # None)
PinInv == SettingsTypes /\ PinKept /\ \A c \in Clients : Hand(act[c], step[c], form[c], read[c])

\* Once there are settings there are some for good, keys are replaced by newer ones.
LEMMA HandStays ==
  ASSUME SettingsTypes, NEW a, NEW s, NEW f, NEW r, Hand(a, s, f, r),
         keys' \in [Addresses -> Nat], \A h \in Addresses : keys[h] <= keys'[h],
         config # None => config' # None, cleared => cleared'
  PROVE  Hand(a, s, f, r)'
<1>1. ASSUME NEW p, Shown(p) PROVE Shown(p)'
  <2>1. p[1] \in Addresses /\ p[2] \in Nat /\ p[2] <= keys[p[1]] BY <1>1 DEF Shown
  <2>2. keys[p[1]] \in Nat /\ keys'[p[1]] \in Nat /\ keys[p[1]] <= keys'[p[1]] BY <2>1 DEF SettingsTypes
  <2> QED BY <1>1, <2>1, <2>2 DEF Shown
<1>2. ASSUME NEW t, StoredWell(t) PROVE StoredWell(t)' BY <1>1, <1>2 DEF StoredWell
<1> QED BY <1>1, <1>2 DEF Hand

\* One request goes on, and what the others need not notice.
GoesOn(c, a, s, f, r) ==
    /\ act' = [act EXCEPT ![c] = a] /\ step' = [step EXCEPT ![c] = s]
    /\ form' = [form EXCEPT ![c] = f] /\ read' = [read EXCEPT ![c] = r]
Steady ==
    /\ UNCHANGED keys /\ valid' \in [Addresses -> Nat] /\ cleared' \in BOOLEAN /\ spoiled' \in BOOLEAN
    /\ config # None => config' # None
    /\ cleared => cleared'
    /\ PinKept'

\* A client that only goes on with its own request, whose hand keeps to the pins,
\* keeps the invariant.
LEMMA OneGoesOn ==
  ASSUME PinInv, NEW c \in Clients, NEW a \in HostActs, NEW s \in HostSteps, NEW f \in HostForms,
         NEW r \in HostConfigs \cup {None},
         GoesOn(c, a, s, f, r), Steady, Hand(a, s, f, r)'
  PROVE  PinInv'
<1>1. SettingsTypes' BY DEF PinInv, SettingsTypes, GoesOn, Steady
<1>2. ASSUME NEW d \in Clients PROVE Hand(act[d], step[d], form[d], read[d])'
  <2>1. CASE d = c
    <3>1. act'[d] = a /\ step'[d] = s /\ form'[d] = f /\ read'[d] = r
      BY <2>1 DEF PinInv, SettingsTypes, GoesOn
    <3> QED BY <3>1 DEF Hand
  <2>2. CASE d # c
    <3>1. PICK a1, s1, f1, r1 : a1 = act[d] /\ s1 = step[d] /\ f1 = form[d] /\ r1 = read[d] OBVIOUS
    <3>2. SettingsTypes /\ Hand(a1, s1, f1, r1) BY <3>1 DEF PinInv
    <3>3. keys' \in [Addresses -> Nat] /\ \A h \in Addresses : keys[h] <= keys'[h]
      BY DEF PinInv, SettingsTypes, Steady
    <3>4. Hand(a1, s1, f1, r1)' BY <3>2, <3>3, HandStays DEF Steady
    <3>5. act'[d] = a1 /\ step'[d] = s1 /\ form'[d] = f1 /\ read'[d] = r1
      BY <2>2, <3>1 DEF PinInv, SettingsTypes, GoesOn
    <3> QED BY <3>4, <3>5 DEF Hand
  <2> QED BY <2>1, <2>2
<1> QED BY <1>1, <1>2 DEF PinInv, Steady

\* A request that begins, and one that is over.
LEMMA StartActKeepsPins ==
  ASSUME PinInv, NEW c \in Clients, NEW a \in HostActs, NEW s \in HostSteps, NEW f \in HostForms,
         StartAct(c, a, s, f), UNCHANGED keys, Hand(a, s, f, read[c])
  PROVE  PinInv'
<1>1. /\ act' = [act EXCEPT ![c] = a] /\ step' = [step EXCEPT ![c] = s] /\ form' = [form EXCEPT ![c] = f]
      /\ UNCHANGED <<config, keys, valid, read, cleared>> /\ spoiled' \in BOOLEAN
  <2>1. spoiled' = (spoiled \/ Working # {}) BY DEF StartAct
  <2>2. spoiled' \in BOOLEAN BY <2>1, Zenon
  <2> QED BY <2>2 DEF StartAct, Go, hostVars
<1>2. PICK r : r = read[c] OBVIOUS
<1>3. r \in HostConfigs \cup {None} /\ GoesOn(c, a, s, f, r)
  BY <1>1, <1>2 DEF PinInv, SettingsTypes, GoesOn
<1>4. PinKept' BY <1>1 DEF PinInv, PinKept, StoredWell, Shown
<1>5. Hand(a, s, f, r)' BY <1>1, <1>2 DEF Hand, StoredWell, Shown
<1>6. Steady BY <1>1, <1>4 DEF PinInv, SettingsTypes, Steady
<1> QED BY <1>3, <1>5, <1>6, OneGoesOn

\* The empty form is a form.
LEMMA BlankIsForm == Blank \in HostForms
BY DEF Blank, Settings, HostForms, OfHost

\* The end of a request touches no pin.
LEMMA OverKeepsPins ==
  ASSUME PinInv, NEW c \in Clients, Over(c), Steady
  PROVE  PinInv'
<1>1. GoesOn(c, "none", "none", Blank, None) BY DEF Over, Go, GoesOn
<1>2. Hand("none", "none", Blank, None)' BY DEF Hand
<1>3. "none" \in HostActs /\ "none" \in HostSteps BY DEF HostActs, HostSteps
<1> QED BY <1>1, <1>2, <1>3, BlankIsForm, OneGoesOn

\* What is stored is a settings row or nothing.
LEMMA StoredTyped ==
  ASSUME PinInv
  PROVE  /\ Stored.pin \in OfHost /\ Stored.token \in OfHost
         /\ config # None => config \in HostForms /\ config \in HostConfigs /\ Stored = config
         /\ Stored.token # None => config # None
BY DEF PinInv, PinKept, StoredWell, Stored, Blank, Settings, HostConfigs, HostForms, OfHost

\* A host's key can be shown and is a key.
LEMMA KeyIsShown ==
  ASSUME PinInv, NEW h \in Addresses
  PROVE  Shown(KeyOf(h)) /\ KeyOf(h) # None /\ KeyOf(h) \in OfHost
BY SettingsAssumption DEF PinInv, SettingsTypes, Shown, KeyOf, OfHost

\* Opening a request touches no pin.
LEMMA BeginKeepsPins ==
  ASSUME PinInv, NEW c \in Clients,
         BeginForm(c) \/ BeginStorages(c) \/ BeginClear(c) \/ BeginTest(c), UNCHANGED keys
  PROVE  PinInv'
<1> USE DEF HostActs, HostSteps
<1>1. CASE BeginForm(c)
  <2>1. PICK h \in Addresses, renew \in BOOLEAN, typed \in {None} \cup {KeyOf(a) : a \in Addresses} :
          IF renew \/ Stored.token = None
            THEN LET pin == IF typed = None THEN Stored.pin ELSE typed
                 IN  StartAct(c, "form", IF pin = None THEN "scan" ELSE "token", Settings(h, pin, None))
            ELSE StartAct(c, "form", "save", Settings(h, typed, None))
    BY <1>1 DEF BeginForm
  <2>2. typed \in OfHost /\ (typed # None => Shown(typed)) BY KeyIsShown DEF OfHost
  <2> DEFINE pin == IF typed = None THEN Stored.pin ELSE typed
             s == IF pin = None THEN "scan" ELSE "token"
  <2>3. pin \in OfHost BY <2>2, StoredTyped
  <2>4. CASE renew \/ Stored.token = None
    <3>1. StartAct(c, "form", s, Settings(h, pin, None)) BY <2>1, <2>4
    <3>2. s \in {"scan", "token"} OBVIOUS
    <3> HIDE DEF pin, s
    <3>3. Settings(h, pin, None) \in HostForms BY <2>3 DEF Settings, HostForms, OfHost
    <3>4. Hand("form", s, Settings(h, pin, None), read[c]) BY <3>2 DEF Hand, Settings
    <3> QED BY <3>1, <3>2, <3>3, <3>4, StartActKeepsPins
  <2>5. CASE ~(renew \/ Stored.token = None)
    <3>1. StartAct(c, "form", "save", Settings(h, typed, None)) BY <2>1, <2>5
    <3>2. Settings(h, typed, None) \in HostForms BY <2>2 DEF Settings, HostForms, OfHost
    <3>3. config # None BY <2>5, StoredTyped
    <3>4. Hand("form", "save", Settings(h, typed, None), read[c]) BY <2>2, <3>3 DEF Hand, Settings
    <3> QED BY <3>1, <3>2, <3>4, StartActKeepsPins
  <2> QED BY <2>4, <2>5
<1>2. CASE BeginStorages(c)
  <2>1. config # None /\ StartAct(c, "storages", "save", config) BY <1>2 DEF BeginStorages
  <2>2. config \in HostForms BY <2>1, StoredTyped
  <2>3. StoredWell(config) BY <2>1 DEF PinInv, PinKept
  <2>4. Hand("storages", "save", config, read[c]) BY <2>1, <2>3 DEF Hand, StoredWell, HostConfigs
  <2> QED BY <2>1, <2>2, <2>4, StartActKeepsPins
<1>3. CASE BeginClear(c)
  <2>1. config # None /\ StartAct(c, "clear", "readKey", Blank) BY <1>3 DEF BeginClear
  <2>2. Hand("clear", "readKey", Blank, read[c]) BY <2>1 DEF Hand, Blank, Settings
  <2> QED BY <2>1, <2>2, BlankIsForm, StartActKeepsPins
<1>4. CASE BeginTest(c)
  <2>1. config # None /\ StartAct(c, "test", "scan", config) BY <1>4 DEF BeginTest
  <2>2. config \in HostForms /\ config \in HostConfigs BY <2>1, StoredTyped
  <2>3. Hand("test", "scan", config, read[c]) BY <2>1, <2>2 DEF Hand, HostConfigs
  <2> QED BY <2>1, <2>2, <2>3, StartActKeepsPins
<1> QED BY <1>1, <1>2, <1>3, <1>4

\* No step of a request drops a pin nobody cleared.
LEMMA RequestKeepsPins ==
  ASSUME PinInv, NEW c \in Clients, Request(c)
  PROVE  PinInv'
<1> DEFINE a == act[c]
           f == form[c]
           r == read[c]
<1>1. a \in HostActs /\ f \in HostForms /\ r \in HostConfigs \cup {None} BY DEF PinInv, SettingsTypes
<1>2. Hand(a, step[c], f, r) BY DEF PinInv
<1> SUFFICES ASSUME NEW a1 \in HostActs, NEW f1 \in HostForms, NEW r1 \in HostConfigs \cup {None},
                    NEW s1, a1 = act[c], f1 = form[c], r1 = read[c], s1 = step[c], Hand(a1, s1, f1, r1)
             PROVE  PinInv'
  BY <1>1, <1>2
<1> HIDE DEF a, f, r
<1> USE DEF HostActs, HostSteps
<1>3. /\ act = [act EXCEPT ![c] = a1] /\ form = [form EXCEPT ![c] = f1] /\ read = [read EXCEPT ![c] = r1]
  BY DEF PinInv, SettingsTypes
<1>4. ASSUME UNCHANGED <<keys, valid, cleared, config>>, spoiled' \in BOOLEAN PROVE Steady
  BY <1>4 DEF PinInv, PinKept, StoredWell, Shown, Steady, SettingsTypes
<1>5. ASSUME UNCHANGED <<config, hostVars, cleared, spoiled>> PROVE Steady /\ UNCHANGED keys
  BY <1>4, <1>5 DEF hostVars, PinInv, SettingsTypes
<1>7. CASE BeginForm(c) \/ BeginStorages(c) \/ BeginClear(c) \/ BeginTest(c)
  <2>1. UNCHANGED keys
    BY <1>7 DEF BeginForm, BeginStorages, BeginClear, BeginTest, StartAct, hostVars
  <2> QED BY <1>7, <2>1, BeginKeepsPins
<1>8. CASE Scan(c)
  <2>1. s1 = "scan" /\ UNCHANGED <<config, hostVars, act, read, cleared, spoiled>> BY <1>8 DEF Scan
  <2>2. f1.host \in Addresses /\ a1 \in {"form", "test"} BY <2>1 DEF Hand
  <2>3. UNCHANGED keys /\ Steady BY <2>1, <1>5
  <2>4. CASE /\ form' = [form EXCEPT ![c].pin = KeyOf(form[c].host)]
             /\ step' = [step EXCEPT ![c] = "readKey"]
    <3>0. PICK k : k = KeyOf(f1.host) OBVIOUS
    <3> DEFINE g == [f1 EXCEPT !.pin = k]
    <3>1. form' = [form EXCEPT ![c] = g] BY <2>4, <3>0
    <3>2. k \in OfHost /\ Shown(k) BY <2>2, <3>0, KeyIsShown
    <3>3. g \in HostForms /\ g.pin = k /\ g.host = f1.host BY <3>2 DEF HostForms
    <3> HIDE DEF g
    <3>4. Shown(g.pin)'
      <4>1. Shown(k)' BY <2>3, <3>2 DEF Shown
      <4> QED BY <3>3, <4>1 DEF Shown
    <3>6. GoesOn(c, a1, "readKey", g, r1) BY <1>3, <2>1, <2>4, <3>1 DEF GoesOn
    <3>5. Hand(a1, "readKey", g, r1)' BY <2>1, <2>2, <3>3, <3>4 DEF Hand
    <3> QED BY <2>3, <3>3, <3>5, <3>6, OneGoesOn
  <2>5. CASE a1 = "form" /\ step' = [step EXCEPT ![c] = "token"] /\ UNCHANGED form
    <3>1. Hand(a1, "token", f1, r1)' BY <2>2, <2>5 DEF Hand
    <3>2. GoesOn(c, a1, "token", f1, r1) BY <1>3, <2>1, <2>5 DEF GoesOn
    <3> QED BY <2>3, <3>1, <3>2, OneGoesOn
  <2> QED BY <1>8, <2>4, <2>5 DEF Scan, Go
<1>9. CASE ScanFails(c) \/ NoToken(c)
  <2>1. Over(c) /\ UNCHANGED <<config, hostVars, cleared, spoiled>> BY <1>9 DEF ScanFails, NoToken
  <2> QED BY <1>5, <2>1, OverKeepsPins
<1>10. CASE ReadKey(c)
  <2>1. /\ s1 = "readKey" /\ read' = [read EXCEPT ![c] = config]
        /\ UNCHANGED <<config, hostVars, act, form, cleared, spoiled>>
        /\ step' = [step EXCEPT ![c] = IF config = None THEN "token" ELSE "writeKey"]
    BY <1>10 DEF ReadKey, Go
  <2>2. UNCHANGED keys /\ Steady BY <2>1, <1>5
  <2>3. config \in HostConfigs \cup {None} BY StoredTyped
  <2>4. PICK r2 \in HostConfigs \cup {None} : r2 = config BY <2>3
  <2>5. CASE config = None
    <3>1. a1 = "form" BY <2>1, <2>5 DEF Hand
    <3>2. Hand(a1, "token", f1, r2)' BY <2>1, <3>1 DEF Hand
    <3>3. GoesOn(c, a1, "token", f1, r2) BY <1>3, <2>1, <2>4, <2>5 DEF GoesOn
    <3> QED BY <2>2, <3>2, <3>3, OneGoesOn
  <2>6. CASE config # None
    <3>1. StoredWell(r2) BY <2>4, <2>6 DEF PinInv, PinKept
    <3>2. Hand(a1, "writeKey", f1, r2)' BY <2>1, <2>2, <3>1 DEF Hand, StoredWell, Shown
    <3>3. GoesOn(c, a1, "writeKey", f1, r2) BY <1>3, <2>1, <2>4, <2>6 DEF GoesOn
    <3> QED BY <2>2, <3>2, <3>3, OneGoesOn
  <2> QED BY <2>5, <2>6
<1>11. CASE WriteKey(c)
  <2>1. /\ s1 = "writeKey" /\ config' = [r1 EXCEPT !.pin = f1.pin] /\ UNCHANGED <<hostVars, spoiled>>
        /\ IF a1 = "form" THEN Go(c, "token") /\ read' = [read EXCEPT ![c] = None] /\ UNCHANGED <<act, form>>
           ELSE Over(c)
    BY <1>11 DEF WriteKey
  <2>2. cleared' = (cleared \/ act[c] = "clear") BY <1>11 DEF WriteKey
  <2>3. cleared' \in BOOLEAN BY <2>2, Zenon
  <2>4. (cleared => cleared') /\ (act[c] = "clear" => cleared') BY <2>2, Zenon
  <2>5. StoredWell(r1) /\ ((a1 = "clear" /\ f1.pin = None) \/ (a1 \in {"form", "test"} /\ Shown(f1.pin)))
    BY <2>1 DEF Hand
  <2>6. f1.pin \in OfHost BY DEF HostForms
  <2>7. config' \in HostConfigs /\ config'.token = r1.token /\ config'.pin = f1.pin
    BY <2>1, <2>5, <2>6 DEF HostConfigs, StoredWell
  <2>8. config' # None BY <2>7, SettingsAssumption
  <2>9. UNCHANGED keys /\ valid' \in [Addresses -> Nat] /\ spoiled' \in BOOLEAN
    BY <2>1 DEF hostVars, PinInv, SettingsTypes
  <2>10. ASSUME Shown(f1.pin) PROVE f1.pin # None /\ Shown(f1.pin)'
    BY <2>9, <2>10, SettingsAssumption DEF Shown
  <2>11. CASE a1 = "form"
    <3>1. PinKept' BY <2>5, <2>7, <2>8, <2>10, <2>11 DEF PinKept, StoredWell
    <3>2. Hand(a1, "token", f1, None)' BY <1>2, <2>11 DEF Hand
    <3>3. step' = [step EXCEPT ![c] = "token"] BY <2>1, <2>11 DEF Go
    <3>4. GoesOn(c, a1, "token", f1, None) BY <1>3, <2>1, <2>11, <3>3 DEF GoesOn
    <3>5. Steady BY <2>3, <2>4, <2>8, <2>9, <3>1 DEF Steady
    <3> QED BY <3>2, <3>4, <3>5, OneGoesOn
  <2>12. CASE a1 # "form"
    <3>1. PinKept'
      <4>1. CASE a1 = "clear"
        <5>1. cleared' BY <2>4, <4>1
        <5>2. config'.pin = None BY <2>5, <2>7, <4>1
        <5> QED BY <2>5, <2>7, <5>1, <5>2 DEF PinKept, StoredWell
      <4>2. CASE a1 # "clear" BY <2>5, <2>7, <2>8, <2>10, <4>2 DEF PinKept, StoredWell
      <4> QED BY <4>1, <4>2
    <3>2. Steady BY <2>3, <2>4, <2>8, <2>9, <3>1 DEF Steady
    <3> QED BY <2>1, <2>12, <3>2, OverKeepsPins
  <2> QED BY <2>11, <2>12
<1>12. CASE MakeToken(c)
  <2> DEFINE h == f1.host
  <2>0. PICK t : t = <<h, valid'[h]>> OBVIOUS
  <2> DEFINE g == [f1 EXCEPT !.token = t]
  <2>1. /\ s1 = "token" /\ f1.pin = KeyOf(h) /\ valid' = [valid EXCEPT ![h] = @ + 1]
        /\ form' = [form EXCEPT ![c].token = <<h, valid'[h]>>] /\ step' = [step EXCEPT ![c] = "save"]
        /\ UNCHANGED <<config, keys, act, read, cleared, spoiled>>
    BY <1>12 DEF MakeToken, Go
  <2>2. h \in Addresses /\ a1 = "form" BY <2>1 DEF Hand
  <2>3. valid' \in [Addresses -> Nat] BY <2>1, <2>2 DEF PinInv, SettingsTypes
  <2>4. t \in Addresses \X Nat BY <2>0, <2>2, <2>3
  <2>5. form' = [form EXCEPT ![c] = g] BY <2>0, <2>1
  <2>6. g \in HostForms /\ g.pin = f1.pin /\ g.host = h /\ g.token # None
    BY <2>4, SettingsAssumption DEF HostForms, OfHost
  <2>7. Shown(f1.pin) /\ f1.pin # None BY <2>1, <2>2, KeyIsShown
  <2>8. Steady BY <2>1, <2>3 DEF Steady, PinInv, SettingsTypes, PinKept, StoredWell, Shown
  <2>9. GoesOn(c, a1, "save", g, r1) BY <1>3, <2>1, <2>5 DEF GoesOn
  <2> HIDE DEF g
  <2>10. Shown(g.pin)' BY <2>1, <2>6, <2>7 DEF Shown
  <2>11. Hand(a1, "save", g, r1)' BY <2>1, <2>2, <2>6, <2>7, <2>10 DEF Hand
  <2> QED BY <2>6, <2>8, <2>9, <2>11, OneGoesOn
<1>13. CASE ReadBeforeSave(c)
  <2>0. PICK g : g = Keep(f1, Stored) OBVIOUS
  <2>1. /\ s1 = "save" /\ form' = [form EXCEPT ![c] = g] /\ step' = [step EXCEPT ![c] = "write"]
        /\ UNCHANGED <<config, hostVars, act, read, cleared, spoiled>>
    BY <1>13, <2>0 DEF ReadBeforeSave, Go
  <2>2. UNCHANGED keys /\ Steady BY <2>1, <1>5
  <2>3. /\ g \in HostForms /\ g.host = f1.host
        /\ g.pin = (IF f1.pin = None THEN Stored.pin ELSE f1.pin)
        /\ g.token = (IF f1.token = None THEN Stored.token ELSE f1.token)
    BY <2>0, StoredTyped DEF Keep, HostForms
  <2>4. /\ f1.pin # None => Shown(f1.pin)
        /\ f1.pin = None \/ f1.token = None => config # None
    BY <2>1 DEF Hand
  <2>5. config # None => Stored = config /\ config.token # None /\ (config.pin # None => Shown(config.pin))
                         /\ (~cleared => config.pin # None)
    BY StoredTyped DEF PinInv, PinKept, StoredWell
  <2>6. g.token # None /\ (g.pin # None => Shown(g.pin)) /\ (~cleared => g.pin # None)
    BY <2>3, <2>4, <2>5
  <2>7. f1.host \in Addresses /\ a1 \in {"form", "storages"} /\ (a1 = "storages" => config # None)
    BY <2>1 DEF Hand
  <2>8. g.pin # None => Shown(g.pin)' BY <2>2, <2>6 DEF Shown
  <2>9. Hand(a1, "write", g, r1)' BY <2>1, <2>3, <2>6, <2>7, <2>8 DEF Hand
  <2>10. GoesOn(c, a1, "write", g, r1) BY <1>3, <2>1 DEF GoesOn
  <2> QED BY <2>2, <2>3, <2>9, <2>10, OneGoesOn
<1>14. CASE SaveFails(c)
  <2>1. Over(c) /\ UNCHANGED <<config, hostVars, cleared>> BY <1>14 DEF SaveFails
  <2>2. spoiled' \in BOOLEAN
    <3>1. spoiled' = (spoiled \/ form[c].token # None) BY <1>14 DEF SaveFails
    <3> QED BY <3>1, Zenon
  <2>3. Steady BY <1>4, <2>1, <2>2 DEF hostVars
  <2> QED BY <2>1, <2>3, OverKeepsPins
<1>15. CASE Write(c)
  <2>1. /\ s1 = "write" /\ config' = f1 /\ UNCHANGED <<hostVars, cleared, spoiled>>
        /\ IF a1 = "form" /\ f1.pin = None
             THEN act' = [act EXCEPT ![c] = "test"] /\ Go(c, "scan") /\ UNCHANGED <<form, read>>
             ELSE Over(c)
    BY <1>15 DEF Write
  <2>2. /\ f1.host \in Addresses /\ f1.token # None /\ (f1.pin # None => Shown(f1.pin))
        /\ ~cleared => f1.pin # None
    BY <2>1 DEF Hand
  <2>3. f1 \in HostConfigs BY <2>2 DEF HostForms, HostConfigs
  <2>4. config' # None BY <2>1, <2>3, SettingsAssumption
  <2>5. PinKept' BY <2>1, <2>2, <2>3, <2>4 DEF PinKept, StoredWell, Shown, hostVars
  <2>6. Steady BY <2>1, <2>4, <2>5 DEF Steady, PinInv, SettingsTypes, hostVars
  <2>7. CASE a1 = "form" /\ f1.pin = None
    <3>1. act' = [act EXCEPT ![c] = "test"] /\ step' = [step EXCEPT ![c] = "scan"] /\ UNCHANGED <<form, read>>
      BY <2>1, <2>7 DEF Go
    <3>2. Hand("test", "scan", f1, r1)' BY <2>2, <2>4 DEF Hand
    <3>3. GoesOn(c, "test", "scan", f1, r1) BY <1>3, <3>1 DEF GoesOn
    <3> QED BY <2>6, <3>2, <3>3, OneGoesOn
  <2>8. CASE ~(a1 = "form" /\ f1.pin = None)
    <3>1. Over(c) BY <2>1, <2>8
    <3> QED BY <2>6, <3>1, OverKeepsPins
  <2> QED BY <2>7, <2>8
<1> QED BY <1>7, <1>8, <1>9, <1>10, <1>11, <1>12, <1>13, <1>14, <1>15 DEF Request

\* The invariant holds in every reachable state.
LEMMA PinInvHolds == SettingsSpec => []PinInv
<1>1. SettingsInit => PinInv
  <2> SUFFICES ASSUME SettingsInit PROVE PinInv OBVIOUS
  <2>1. SettingsTypes BY BlankIsForm DEF SettingsInit, SettingsTypes, HostActs, HostSteps
  <2>2. PinKept BY DEF SettingsInit, PinKept
  <2>3. ASSUME NEW c \in Clients PROVE Hand(act[c], step[c], form[c], read[c])
    BY DEF SettingsInit, Hand
  <2> QED BY <2>1, <2>2, <2>3 DEF PinInv
<1>2. PinInv /\ [SettingsNext]_settingsVars => PinInv'
  <2> SUFFICES ASSUME PinInv, [SettingsNext]_settingsVars PROVE PinInv' OBVIOUS
  <2>1. CASE UNCHANGED settingsVars
    <3>1. SettingsTypes' BY <2>1 DEF settingsVars, PinInv, SettingsTypes
    <3>2. PinKept' BY <2>1 DEF settingsVars, PinInv, PinKept, StoredWell, Shown
    <3>3. ASSUME NEW c \in Clients PROVE Hand(act[c], step[c], form[c], read[c])'
      <4>1. Hand(act[c], step[c], form[c], read[c]) BY DEF PinInv
      <4> QED BY <2>1, <4>1 DEF settingsVars, Hand, StoredWell, Shown
    <3> QED BY <3>1, <3>2, <3>3 DEF PinInv
  <2>2. CASE Reinstall
    <3>1. /\ UNCHANGED <<config, act, step, form, read, cleared>> /\ spoiled' = TRUE
          /\ \E a \in Addresses : /\ keys' = [keys EXCEPT ![a] = @ + 1]
                                 /\ valid' = [valid EXCEPT ![a] = @ + 1]
      BY <2>2 DEF Reinstall
    <3>2. SettingsTypes' BY <3>1 DEF PinInv, SettingsTypes
    <3>3. keys' \in [Addresses -> Nat] /\ \A h \in Addresses : keys[h] <= keys'[h]
      BY <3>1 DEF PinInv, SettingsTypes
    <3>4. PinKept'
      <4>1. ASSUME config # None, config.pin # None PROVE Shown(config.pin)'
        <5>1. PICK p : p = config.pin OBVIOUS
        <5>2. Shown(p) BY <4>1, <5>1 DEF PinInv, PinKept, StoredWell
        <5>3. p[1] \in Addresses /\ keys[p[1]] <= keys'[p[1]] /\ p[2] \in Nat
              /\ keys[p[1]] \in Nat /\ keys'[p[1]] \in Nat
          BY <3>3, <5>2 DEF Shown, PinInv, SettingsTypes
        <5> QED BY <3>1, <5>1, <5>2, <5>3 DEF Shown
      <4> QED BY <3>1, <4>1 DEF PinInv, PinKept, StoredWell
    <3>5. ASSUME NEW c \in Clients PROVE Hand(act[c], step[c], form[c], read[c])'
      <4>1. PICK a, s, f, r : a = act[c] /\ s = step[c] /\ f = form[c] /\ r = read[c] OBVIOUS
      <4>2. SettingsTypes /\ Hand(a, s, f, r) BY <4>1 DEF PinInv
      <4>3. Hand(a, s, f, r)' BY <3>1, <3>3, <4>2, HandStays
      <4> QED BY <3>1, <4>1, <4>3 DEF Hand
    <3> QED BY <3>2, <3>4, <3>5 DEF PinInv
  <2> QED BY <2>1, <2>2, RequestKeepsPins DEF SettingsNext
<1> QED BY <1>1, <1>2, PTL DEF SettingsSpec

\* PinnedUntilCleared (restore_config.py, routes_restore.py), for any number of requests and
\* addresses: whatever requests overlap, settings that are stored have a token and, as long
\* as nobody cleared it, a host key some host did show.
THEOREM PinSurvives == SettingsSpec => []PinnedUntilCleared
<1>1. PinInv => PinnedUntilCleared BY DEF PinInv, PinKept, StoredWell, Shown, PinnedUntilCleared
<1> QED BY <1>1, PinInvHolds, PTL

\* The token that counts: of the settings a request is about to write, or of those stored.
TokenGood(t) == t # None => t[2] = valid[t[1]]
Made(c) == step[c] = "write" \/ (step[c] = "save" /\ form[c].token # None)
TokenInv ==
    ~spoiled =>
        /\ \A c, d \in Clients : act[c] # "none" /\ act[d] # "none" => c = d
        /\ \A c \in Clients : Made(c) => TokenGood(form[c].token)
        /\ (\A c \in Clients : ~Made(c)) /\ config # None => TokenGood(config.token)
        /\ \A c \in Clients : step[c] = "writeKey" => read[c] = config

\* It is enough to look at the one request that goes on.
LEMMA OnlyOneToLookAt ==
  ASSUME PinInv, PinInv', NEW c \in Clients,
         \A d \in Clients \ {c} : act[d] = "none" /\ act'[d] = "none",
         Made(c)' => TokenGood(form[c].token)',
         ~Made(c)' /\ config' # None => TokenGood(config.token)',
         step'[c] = "writeKey" => read'[c] = config'
  PROVE  TokenInv'
<1>1. ASSUME NEW d \in Clients, d # c PROVE step'[d] = "none"
  <2>1. act'[d] = "none" BY <1>1
  <2>2. Hand(act[d], step[d], form[d], read[d])' BY DEF PinInv
  <2> QED BY <2>1, <2>2 DEF Hand
<1>2. \A d \in Clients : d # c => ~Made(d)' BY <1>1 DEF Made
<1>3. \A d \in Clients : Made(d)' => TokenGood(form[d].token)' BY <1>2
<1>4. (\A d \in Clients : ~Made(d)') /\ config' # None => TokenGood(config.token)' OBVIOUS
<1>5. \A d \in Clients : step'[d] = "writeKey" => read'[d] = config' BY <1>1
<1>6. \A d, e \in Clients : act'[d] # "none" /\ act'[e] # "none" => d = e OBVIOUS
<1> QED BY <1>3, <1>4, <1>5, <1>6 DEF TokenInv

\* No step of a request parts the token from its host, unless it spoils it.
LEMMA RequestKeepsToken ==
  ASSUME PinInv, PinInv', TokenInv, NEW c \in Clients, Request(c), ~spoiled'
  PROVE  TokenInv'
<1> USE DEF PinInv, SettingsTypes
<1>1. CASE BeginForm(c) \/ BeginStorages(c) \/ BeginClear(c) \/ BeginTest(c)
  <2>1. PICK a, s, f : /\ StartAct(c, a, s, f) /\ (s = "save" => f.token = None \/ (config # None /\ f = config))
                       /\ s \in {"scan", "token", "save", "readKey"} /\ UNCHANGED hostVars
    <3>1. CASE BeginForm(c)
      <4>1. PICK h \in Addresses, renew \in BOOLEAN, typed \in {None} \cup {KeyOf(x) : x \in Addresses} :
              IF renew \/ Stored.token = None
                THEN LET pin == IF typed = None THEN Stored.pin ELSE typed
                     IN  StartAct(c, "form", IF pin = None THEN "scan" ELSE "token", Settings(h, pin, None))
                ELSE StartAct(c, "form", "save", Settings(h, typed, None))
        BY <3>1 DEF BeginForm
      <4> DEFINE pin == IF typed = None THEN Stored.pin ELSE typed
                 s == IF pin = None THEN "scan" ELSE "token"
      <4>2. CASE renew \/ Stored.token = None
        <5>1. StartAct(c, "form", s, Settings(h, pin, None)) BY <4>1, <4>2
        <5>2. s \in {"scan", "token"} OBVIOUS
        <5> HIDE DEF s, pin
        <5> QED BY <5>1, <5>2 DEF StartAct
      <4>3. CASE ~(renew \/ Stored.token = None)
        <5>1. StartAct(c, "form", "save", Settings(h, typed, None)) BY <4>1, <4>3
        <5>2. Settings(h, typed, None).token = None BY DEF Settings
        <5> QED BY <5>1, <5>2 DEF StartAct
      <4> QED BY <4>2, <4>3
    <3>2. CASE BeginStorages(c) BY <3>2 DEF BeginStorages, StartAct
    <3>3. CASE BeginClear(c) BY <3>3 DEF BeginClear, StartAct
    <3>4. CASE BeginTest(c) BY <3>4 DEF BeginTest, StartAct
    <3> QED BY <1>1, <3>1, <3>2, <3>3, <3>4
  <2>2. ~spoiled /\ Working = {}
    <3>1. spoiled' = (spoiled \/ Working # {}) BY <2>1 DEF StartAct
    <3> QED BY <3>1, Zenon
  <2>3. /\ act' = [act EXCEPT ![c] = a] /\ step' = [step EXCEPT ![c] = s] /\ form' = [form EXCEPT ![c] = f]
        /\ UNCHANGED <<config, valid>>
    BY <2>1 DEF StartAct, Go, hostVars
  <2>4. \A d \in Clients : act[d] = "none" BY <2>2 DEF Working
  <2>5. \A d \in Clients : ~Made(d)
    <3>1. ASSUME NEW d \in Clients PROVE step[d] = "none"
      <4>1. Hand(act[d], step[d], form[d], read[d]) OBVIOUS
      <4> QED BY <2>4, <4>1 DEF Hand
    <3> QED BY <3>1 DEF Made
  <2>6. config # None => TokenGood(config.token) BY <2>2, <2>5 DEF TokenInv
  <2>7. step'[c] = s /\ form'[c] = f BY <2>3
  <2>8. Made(c)' => TokenGood(form[c].token)' BY <2>1, <2>3, <2>6, <2>7 DEF Made, TokenGood
  <2>9. ~Made(c)' /\ config' # None => TokenGood(config.token)' BY <2>3, <2>6 DEF TokenGood
  <2>10. step'[c] # "writeKey" BY <2>1, <2>7
  <2>11. \A d \in Clients \ {c} : act[d] = "none" /\ act'[d] = "none" BY <2>3, <2>4
  <2> QED BY <2>8, <2>9, <2>10, <2>11, OnlyOneToLookAt
<1>2. CASE ~(BeginForm(c) \/ BeginStorages(c) \/ BeginClear(c) \/ BeginTest(c))
  <2>1. step[c] # "none" /\ \A d \in Clients \ {c} : act'[d] = act[d]
    BY <1>2 DEF Request, Scan, ScanFails, ReadKey, WriteKey, MakeToken, NoToken, ReadBeforeSave, SaveFails, Write,
                Over
  <2>2. ~spoiled
    <3>1. CASE SaveFails(c)
      <4>1. spoiled' = (spoiled \/ form[c].token # None) BY <3>1 DEF SaveFails
      <4> QED BY <4>1, Zenon
    <3>2. CASE ~SaveFails(c)
      <4>1. spoiled' = spoiled
        BY <1>2, <3>2 DEF Request, Scan, ScanFails, ReadKey, WriteKey, MakeToken, NoToken, ReadBeforeSave, Write
      <4> QED BY <4>1
    <3> QED BY <3>1, <3>2
  <2>3. Hand(act[c], step[c], form[c], read[c]) OBVIOUS
  <2>4. act[c] # "none" BY <2>1, <2>3 DEF Hand
  <2>5. \A d \in Clients \ {c} : act[d] = "none" /\ act'[d] = "none"
    BY <2>1, <2>2, <2>4 DEF TokenInv
  <2>6. \A d \in Clients \ {c} : ~Made(d)
    <3>1. ASSUME NEW d \in Clients \ {c} PROVE step[d] = "none"
      <4>1. Hand(act[d], step[d], form[d], read[d]) OBVIOUS
      <4> QED BY <2>5, <4>1 DEF Hand
    <3> QED BY <3>1 DEF Made
  <2>7. /\ Made(c) => TokenGood(form[c].token)
        /\ ~Made(c) /\ config # None => TokenGood(config.token)
        /\ step[c] = "writeKey" => read[c] = config
    BY <2>2, <2>6 DEF TokenInv
  <2> HIDE DEF PinInv
  <2> SUFFICES /\ Made(c)' => TokenGood(form[c].token)'
               /\ ~Made(c)' /\ config' # None => TokenGood(config.token)'
               /\ step'[c] = "writeKey" => read'[c] = config'
    BY <2>5, OnlyOneToLookAt
  <2> USE DEF PinInv
  <2>8. CASE Scan(c)
    <3>1. UNCHANGED <<config, valid>> /\ step[c] = "scan" /\ step'[c] \in {"readKey", "token"}
      BY <2>8 DEF Scan, Go, hostVars
    <3> QED BY <2>7, <3>1 DEF Made, TokenGood
  <2>9. CASE ScanFails(c) \/ NoToken(c)
    <3>1. UNCHANGED <<config, valid>> /\ step[c] \in {"scan", "token"} /\ step'[c] = "none"
      BY <2>9 DEF ScanFails, NoToken, Over, Go, hostVars
    <3> QED BY <2>7, <3>1 DEF Made, TokenGood
  <2>10. CASE ReadKey(c)
    <3>1. UNCHANGED <<config, valid>> /\ step[c] = "readKey" /\ step'[c] \in {"token", "writeKey"} /\ read'[c] = config
      BY <2>10 DEF ReadKey, Go, hostVars
    <3> QED BY <2>7, <3>1 DEF Made, TokenGood
  <2>11. CASE WriteKey(c)
    <3>1. /\ UNCHANGED valid /\ step[c] = "writeKey" /\ step'[c] \in {"token", "none"}
          /\ config' = [read[c] EXCEPT !.pin = form[c].pin]
      BY <2>11 DEF WriteKey, Over, Go, hostVars
    <3>2. read[c] = config /\ StoredWell(read[c]) BY <2>3, <2>7, <3>1 DEF Hand
    <3>3. config'.token = config.token /\ config # None
      BY <3>1, <3>2, SettingsAssumption DEF StoredWell, HostConfigs
    <3>4. TokenGood(config.token) BY <2>7, <3>1, <3>3 DEF Made
    <3> QED BY <3>1, <3>3, <3>4 DEF Made, TokenGood
  <2>12. CASE MakeToken(c)
    <3>1. /\ step'[c] = "save" /\ form'[c].token = <<form[c].host, valid'[form[c].host]>>
      BY <2>12 DEF MakeToken, Go, HostForms
    <3>2. step[c] = "token" BY <2>12 DEF MakeToken
    <3>3. form'[c].token # None
      <4>1. form[c].host \in Addresses BY <2>3, <3>2 DEF Hand
      <4>2. valid'[form[c].host] \in Nat BY <4>1
      <4> QED BY <3>1, <4>1, <4>2, SettingsAssumption
    <3> QED BY <3>1, <3>3 DEF Made, TokenGood
  <2>13. CASE ReadBeforeSave(c)
    <3>1. UNCHANGED <<config, valid>> /\ step[c] = "save" /\ step'[c] = "write" /\ form'[c] = Keep(form[c], Stored)
      BY <2>13 DEF ReadBeforeSave, Go, hostVars
    <3>2. form'[c].token = IF form[c].token = None THEN Stored.token ELSE form[c].token
      BY <3>1 DEF Keep, HostForms
    <3>3. CASE form[c].token = None
      <4>1. config # None BY <2>3, <3>1, <3>3 DEF Hand
      <4>2. TokenGood(config.token) /\ Stored = config BY <2>7, <3>1, <3>3, <4>1 DEF Made, Stored
      <4> QED BY <3>1, <3>2, <3>3, <4>2 DEF Made, TokenGood
    <3>4. CASE form[c].token # None
      <4>1. TokenGood(form[c].token) BY <2>7, <3>1, <3>4 DEF Made
      <4> QED BY <3>1, <3>2, <3>4, <4>1 DEF Made, TokenGood
    <3> QED BY <3>3, <3>4
  <2>14. CASE SaveFails(c)
    <3>1. UNCHANGED <<config, valid>> /\ step[c] = "save" /\ step'[c] = "none"
      BY <2>14 DEF SaveFails, Over, Go, hostVars
    <3>2. form[c].token = None
      <4>1. spoiled' = (spoiled \/ form[c].token # None) BY <2>14 DEF SaveFails
      <4> QED BY <4>1, Zenon
    <3> QED BY <2>7, <3>1, <3>2 DEF Made, TokenGood
  <2>15. CASE Write(c)
    <3>1. UNCHANGED valid /\ step[c] = "write" /\ step'[c] \in {"scan", "none"} /\ config' = form[c]
      BY <2>15 DEF Write, Over, Go, hostVars
    <3>2. TokenGood(form[c].token) BY <2>7, <3>1 DEF Made
    <3> QED BY <3>1, <3>2 DEF Made, TokenGood
  <2> QED BY <1>2, <2>8, <2>9, <2>10, <2>11, <2>12, <2>13, <2>14, <2>15 DEF Request
<1> QED BY <1>1, <1>2

\* TokenWorks (save_restore_server, restore_config.save, set_host_key), for any number of
\* requests and addresses: as long as requests come one after another and none fails after it
\* made a token, the stored token is the last one made on its host.
THEOREM TokenStaysValid == SettingsSpec => []TokenWorks
<1>1. SettingsInit => TokenInv BY DEF SettingsInit, TokenInv, Made
<1>2. PinInv /\ PinInv' /\ TokenInv /\ [SettingsNext]_settingsVars => TokenInv'
  <2> SUFFICES ASSUME PinInv, PinInv', TokenInv, [SettingsNext]_settingsVars PROVE TokenInv' OBVIOUS
  <2>1. CASE UNCHANGED settingsVars BY <2>1 DEF settingsVars, TokenInv, TokenGood, Made
  <2>2. CASE Reinstall BY <2>2 DEF Reinstall, TokenInv
  <2>3. ASSUME NEW c \in Clients, Request(c) PROVE TokenInv'
    <3>1. CASE spoiled' BY <3>1 DEF TokenInv
    <3>2. CASE ~spoiled' BY <2>3, <3>2, RequestKeepsToken
    <3> QED BY <3>1, <3>2
  <2> QED BY <2>1, <2>2, <2>3 DEF SettingsNext
<1>3. PinInv /\ TokenInv => TokenWorks
  <2> SUFFICES ASSUME PinInv, TokenInv, ~spoiled, Working = {}, config # None, config.token # None
               PROVE  config.token[2] = valid[config.token[1]]
    BY DEF TokenWorks
  <2>1. ASSUME NEW c \in Clients PROVE ~Made(c)
    <3>1. act[c] = "none" BY DEF Working
    <3>2. Hand(act[c], step[c], form[c], read[c]) BY DEF PinInv
    <3> QED BY <3>1, <3>2 DEF Hand, Made
  <2> QED BY <2>1 DEF TokenInv, TokenGood
<1> QED BY <1>1, <1>2, <1>3, PinInvHolds, PTL DEF SettingsSpec

-----------------------------------------------------------------------------
(* BackupJobs.                                                                 *)

\* The smallest of some numbers from 1 on is one of them.
LEMMA SmallestIsThere ==
  ASSUME NEW n \in Nat, NEW S, S \subseteq 1 .. n, S # {}
  PROVE  Min(S) \in S /\ \A y \in S : Min(S) <= y
<1>1. S \subseteq Nat OBVIOUS
<1>2. PICK x \in S : \A y \in S : ~(<<y, x>> \in OpToRel(<, Nat))
  BY <1>1, WFMin, NatLessThanWellFounded
<1>3. ASSUME NEW y \in S, ~(x <= y) PROVE FALSE
  <2>1. x \in Nat /\ y \in Nat /\ y < x BY <1>1, <1>3
  <2>2. <<y, x>> \in OpToRel(<, Nat) BY <2>1 DEF OpToRel
  <2> QED BY <1>2, <2>2
<1>4. \A y \in S : x <= y BY <1>3
<1> QED BY <1>4 DEF Min

\* A number after all of them does not change the smallest.
LEMMA SmallestStays ==
  ASSUME NEW n \in Nat, NEW S, S \subseteq 1 .. n
  PROVE  Min(S \cup {n + 1}) = IF S = {} THEN n + 1 ELSE Min(S)
<1> DEFINE T == S \cup {n + 1}
<1>1. T \subseteq 1 .. n + 1 /\ T # {} OBVIOUS
<1>2. Min(T) \in T /\ \A y \in T : Min(T) <= y
  <2> HIDE DEF T
  <2>1. n + 1 \in Nat OBVIOUS
  <2> QED BY <1>1, <2>1, SmallestIsThere
<1>3. CASE S = {} BY <1>2, <1>3
<1>4. CASE S # {}
  <2>1. Min(S) \in S /\ \A y \in S : Min(S) <= y BY <1>4, SmallestIsThere
  <2>2. Min(T) <= Min(S) /\ Min(S) \in 1 .. n BY <1>2, <2>1
  <2>3. Min(T) # n + 1 BY <2>2
  <2>4. Min(T) \in S BY <1>2, <2>3
  <2>5. Min(S) <= Min(T) BY <2>1, <2>4
  <2>6. Min(T) \in 1 .. n BY <2>4
  <2>7. Min(T) = Min(S)
    <3> HIDE DEF T
    <3> QED BY <2>2, <2>5, <2>6
  <2> QED BY <1>4, <2>7
<1> QED BY <1>3, <1>4

\* Job i saves the guest, and names it, or takes all of them.
ByName(g, i) == backupJobs[i].on /\ Specific(backupJobs[i]) /\ g \in expand_job_vmids(backupJobs[i])
TakesAll(g, i) == backupJobs[i].on /\ ~Specific(backupJobs[i]) /\ g \in expand_job_vmids(backupJobs[i])
How(i) == classify_schedule(backupJobs[i].schedule)

Split == \A g : /\ SavedBy(g, TRUE) = {How(i) : i \in {i \in 1 .. nth : ByName(g, i)}}
                /\ SavedBy(g, FALSE) = {How(i) : i \in {i \in 1 .. nth : TakesAll(g, i)}}

\* How a guest is saved, by the jobs that name it and by those that take all.
LEMMA SaversSplit == Split
<1> SUFFICES ASSUME NEW g
             PROVE  /\ SavedBy(g, TRUE) = {How(i) : i \in {i \in 1 .. nth : ByName(g, i)}}
                    /\ SavedBy(g, FALSE) = {How(i) : i \in {i \in 1 .. nth : TakesAll(g, i)}}
  BY DEF Split
<1>1. \A i : (Specific(backupJobs[i]) = TRUE <=> Specific(backupJobs[i]))
             /\ (Specific(backupJobs[i]) = FALSE <=> ~Specific(backupJobs[i]))
  BY Zenon DEF Specific
<1> HIDE DEF Specific
<1>2. {i \in 1 .. nth : LET j == backupJobs[i] IN j.on /\ Specific(j) = TRUE /\ g \in expand_job_vmids(j)}
        = {i \in 1 .. nth : ByName(g, i)}
  BY <1>1, Zenon DEF ByName
<1>3. {i \in 1 .. nth : LET j == backupJobs[i] IN j.on /\ Specific(j) = FALSE /\ g \in expand_job_vmids(j)}
        = {i \in 1 .. nth : TakesAll(g, i)}
  BY <1>1, Zenon DEF TakesAll
<1> QED BY <1>2, <1>3, Zenon DEF SavedBy, How

\* A guest that some job names is marked as such.
MarkedByName == backupJobs # <<>> => \A g \in Named : g \in specific <=> SavedBy(g, TRUE) # {}
\* Without a rule that names it, a guest may run anywhere.
FreeWithoutRule ==
    \A g \in Guests : rules # <<>> /\ (\A i \in 1 .. nth : ~(rules[i].on /\ g \in rules[i].guests))
                        => placement[g].is = "any"

JobsInv ==
    /\ nth \in Nat /\ (backupJobs = <<>> \/ rules = <<>>)
    /\ MarkedByName /\ KindByRules /\ KindAndStorages /\ FreeWithoutRule /\ StrictRuleFirst

Weighed(S) == IF S = {} THEN "none" ELSE IF "daily" \in S THEN "daily" ELSE "weekly"

\* One more job is weighed as the rules say, whatever the others said.
LEMMA KindFollows ==
  ASSUME NEW j, NEW g, NEW N, NEW T, N \subseteq {"daily", "weekly"}, T \subseteq {"daily", "weekly"},
         g \in specific <=> N # {}, kind[g] = Weighed(IF N # {} THEN N ELSE T)
  PROVE  LET c == classify_schedule(j.schedule)
         IN  /\ c \in {"daily", "weekly"}
             /\ Specific(j) => Kind(j, g) = Weighed(N \cup {c})
             /\ ~Specific(j) => Kind(j, g) = Weighed(IF N # {} THEN N ELSE T \cup {c})
<1>1. PICK c : c = classify_schedule(j.schedule) OBVIOUS
<1>2. c \in {"daily", "weekly"} BY <1>1 DEF classify_schedule
<1>3. ASSUME Specific(j) PROVE Kind(j, g) = Weighed(N \cup {c})
  <2>1. Kind(j, g) = IF N = {} \/ c = "daily" THEN c ELSE kind[g]
    BY <1>1, <1>3 DEF Kind
  <2>2. CASE N = {} BY <1>2, <2>1, <2>2 DEF Weighed
  <2>3. CASE N # {} BY <1>2, <2>1, <2>3 DEF Weighed
  <2> QED BY <2>2, <2>3
<1>4. ASSUME ~Specific(j) PROVE Kind(j, g) = Weighed(IF N # {} THEN N ELSE T \cup {c})
  <2>1. Kind(j, g) = IF N # {} THEN kind[g] ELSE IF kind[g] = "none" \/ c = "daily" THEN c ELSE kind[g]
    BY <1>1, <1>4 DEF Kind
  <2>2. CASE N # {} BY <2>1, <2>2
  <2>3. CASE N = {}
    <3>1. kind[g] = Weighed(T) /\ Kind(j, g) = IF kind[g] = "none" \/ c = "daily" THEN c ELSE kind[g]
      BY <2>1, <2>3
    <3>2. Kind(j, g) = Weighed(T \cup {c}) BY <1>2, <3>1 DEF Weighed
    <3> QED BY <2>3, <3>2
  <2> QED BY <2>2, <2>3
<1> QED BY <1>1, <1>2, <1>3, <1>4

\* The next job of the cluster.
LEMMA JobRead == ASSUME JobsInv, ReadJob PROVE JobsInv'
<1>1. /\ nth \in Nat /\ nth' = nth + 1 /\ backupJobs # <<>> /\ rules = <<>>
      /\ UNCHANGED <<backupJobs, rules, groups, placement>>
  <2>1. nth \in Nat /\ nth < Len(backupJobs) /\ nth' = nth + 1 BY DEF ReadJob, JobsInv
  <2>2. backupJobs # <<>> BY <2>1
  <2> QED BY <2>1, <2>2 DEF ReadJob, JobsInv
<1>2. PICK j, N, T : /\ j = backupJobs[nth + 1]
                     /\ N = [g \in Named |-> SavedBy(g, TRUE)] /\ T = [g \in Named |-> SavedBy(g, FALSE)]
  OBVIOUS
<1>3. PICK c, takes : c = classify_schedule(j.schedule) /\ takes = expand_job_vmids(j) OBVIOUS
<1>4. ASSUME NEW g \in Named PROVE N[g] \subseteq {"daily", "weekly"} /\ T[g] \subseteq {"daily", "weekly"}
  <2>1. N[g] = SavedBy(g, TRUE) /\ T[g] = SavedBy(g, FALSE) BY <1>2
  <2>2. \A i : How(i) \in {"daily", "weekly"} BY DEF How, classify_schedule
  <2>3. /\ N[g] = {How(i) : i \in {i \in 1 .. nth : ByName(g, i)}}
        /\ T[g] = {How(i) : i \in {i \in 1 .. nth : TakesAll(g, i)}}
    BY <2>1, SaversSplit DEF Split
  <2> QED BY <2>2, <2>3
<1>5. ASSUME NEW g \in Named
      PROVE  /\ SavedBy(g, TRUE)' = IF j.on /\ Specific(j) /\ g \in takes THEN N[g] \cup {c} ELSE N[g]
             /\ SavedBy(g, FALSE)' = IF j.on /\ ~Specific(j) /\ g \in takes THEN T[g] \cup {c} ELSE T[g]
  <2>1. \A i \in 1 .. nth' : i \in 1 .. nth \/ i = nth + 1 BY <1>1
  <2>2. \A i : (ByName(g, i)' <=> ByName(g, i)) /\ (TakesAll(g, i)' <=> TakesAll(g, i)) /\ How(i)' = How(i)
    BY <1>1 DEF ByName, TakesAll, How
  <2>3. nth + 1 \in 1 .. nth' /\ 1 .. nth \subseteq 1 .. nth' BY <1>1
  <2>4. How(nth + 1) = c /\ (ByName(g, nth + 1) <=> j.on /\ Specific(j) /\ g \in takes)
        /\ (TakesAll(g, nth + 1) <=> j.on /\ ~Specific(j) /\ g \in takes)
    BY <1>2, <1>3 DEF How, ByName, TakesAll
  <2>5. SavedBy(g, TRUE)' = {How(i) : i \in {i \in 1 .. nth' : ByName(g, i)}}
        /\ SavedBy(g, FALSE)' = {How(i) : i \in {i \in 1 .. nth' : TakesAll(g, i)}}
    <3>1. Split' BY SaversSplit, PTL
    <3>2. /\ SavedBy(g, TRUE)' = {How(i)' : i \in {i \in 1 .. nth' : ByName(g, i)'}}
          /\ SavedBy(g, FALSE)' = {How(i)' : i \in {i \in 1 .. nth' : TakesAll(g, i)'}}
      BY <3>1 DEF Split
    <3> QED BY <2>2, <3>2
  <2>6. N[g] = {How(i) : i \in {i \in 1 .. nth : ByName(g, i)}}
        /\ T[g] = {How(i) : i \in {i \in 1 .. nth : TakesAll(g, i)}}
    BY <1>2, SaversSplit DEF Split
  <2>7. SavedBy(g, TRUE)' = IF j.on /\ Specific(j) /\ g \in takes THEN N[g] \cup {c} ELSE N[g]
    BY <2>1, <2>3, <2>4, <2>5, <2>6
  <2>8. SavedBy(g, FALSE)' = IF j.on /\ ~Specific(j) /\ g \in takes THEN T[g] \cup {c} ELSE T[g]
    BY <2>1, <2>3, <2>4, <2>5, <2>6
  <2> QED BY <2>7, <2>8
<1>6. ASSUME NEW g \in Named
      PROVE  /\ g \in specific <=> N[g] # {}
             /\ kind[g] = Weighed(IF N[g] # {} THEN N[g] ELSE T[g])
  <2>1. N[g] = SavedBy(g, TRUE) /\ T[g] = SavedBy(g, FALSE) BY <1>2
  <2>2. g \in specific <=> SavedBy(g, TRUE) # {} BY <1>1 DEF JobsInv, MarkedByName
  <2>3. kind[g] = Weighed(IF SavedBy(g, TRUE) # {} THEN SavedBy(g, TRUE) ELSE SavedBy(g, FALSE))
    BY <1>1 DEF JobsInv, KindByRules, Weighed
  <2> QED BY <2>1, <2>2, <2>3
<1>7. ASSUME NEW g \in Named
      PROVE  /\ g \in specific' <=> SavedBy(g, TRUE)' # {}
             /\ kind'[g] = Weighed(IF SavedBy(g, TRUE)' # {} THEN SavedBy(g, TRUE)' ELSE SavedBy(g, FALSE)')
             /\ kind[g] # "none" => kind'[g] # "none"
             /\ j.on /\ g \in takes => kind'[g] # "none"
  <2>1. /\ c \in {"daily", "weekly"}
        /\ Specific(j) => Kind(j, g) = Weighed(N[g] \cup {c})
        /\ ~Specific(j) => Kind(j, g) = Weighed(IF N[g] # {} THEN N[g] ELSE T[g] \cup {c})
    BY <1>3, <1>4, <1>6, KindFollows
  <2>2. \A S : Weighed(S) = "none" <=> S = {} BY DEF Weighed
  <2>3. CASE ~j.on
    <3>1. kind' = kind /\ specific' = specific BY <1>2, <2>3 DEF ReadJob
    <3> QED BY <1>5, <1>6, <2>3, <3>1
  <2>4. CASE j.on /\ g \notin takes
    <3>1. kind'[g] = kind[g] BY <1>2, <1>3, <2>4 DEF ReadJob
    <3>2. g \in specific' <=> g \in specific BY <1>2, <1>3, <2>4 DEF ReadJob
    <3> QED BY <1>5, <1>6, <2>4, <3>1, <3>2
  <2>5. CASE j.on /\ g \in takes /\ Specific(j)
    <3>1. kind'[g] = Kind(j, g) /\ g \in specific' BY <1>2, <1>3, <2>5 DEF ReadJob
    <3>2. SavedBy(g, TRUE)' = N[g] \cup {c} BY <1>5, <2>5
    <3>3. N[g] \cup {c} # {} OBVIOUS
    <3> QED BY <2>1, <2>2, <2>5, <3>1, <3>2, <3>3
  <2>6. CASE j.on /\ g \in takes /\ ~Specific(j)
    <3>1. kind'[g] = Kind(j, g) /\ specific' = specific BY <1>2, <1>3, <2>6 DEF ReadJob
    <3>2. SavedBy(g, TRUE)' = N[g] /\ SavedBy(g, FALSE)' = T[g] \cup {c} BY <1>5, <2>6
    <3>3. T[g] \cup {c} # {} OBVIOUS
    <3> QED BY <1>6, <2>1, <2>2, <2>6, <3>1, <3>2, <3>3
  <2> QED BY <2>3, <2>4, <2>5, <2>6
<1>8. MarkedByName' /\ KindByRules'
  <2>1. MarkedByName' BY <1>7 DEF MarkedByName, Named
  <2>2. KindByRules' BY <1>7 DEF KindByRules, Weighed, Named
  <2> QED BY <2>1, <2>2
<1>9. KindAndStorages'
  <2> SUFFICES ASSUME NEW g \in Named
               PROVE  /\ kind'[g] # "none" <=> Savers(g)' # {}
                      /\ written'[g] = {backupJobs[i].storage : i \in Writers(g)'}
    BY <1>1 DEF KindAndStorages, Named
  <2>1. /\ \A i \in 1 .. nth' : i \in 1 .. nth \/ i = nth + 1
        /\ nth + 1 \in 1 .. nth' /\ nth + 1 \notin 1 .. nth /\ 1 .. nth \subseteq 1 .. nth'
    BY <1>1
  <2>2. /\ kind[g] # "none" <=> Savers(g) # {}
        /\ written[g] = {backupJobs[i].storage : i \in Writers(g)}
    BY <1>1 DEF JobsInv, KindAndStorages
  <2>3. PICK S, W, J, n : S = Savers(g) /\ W = Writers(g) /\ J = backupJobs /\ n = nth + 1 OBVIOUS
  <2>4. PICK writes : writes = (g \in Guests \cap j.only /\ j.storage # "none") OBVIOUS
  <2>5. J[n] = j /\ J = backupJobs' BY <1>1, <1>2, <2>3
  <2>6. Savers(g)' = IF j.on /\ g \in takes THEN S \cup {n} ELSE S
    <3>1. S = {i \in 1 .. nth : J[i].on /\ g \in expand_job_vmids(J[i])} BY <2>3 DEF Savers
    <3>2. Savers(g)' = {i \in 1 .. nth' : J[i].on /\ g \in expand_job_vmids(J[i])}
      BY <2>5 DEF Savers, expand_job_vmids, Specific
    <3>3. takes = expand_job_vmids(J[n]) BY <1>3, <2>5
    <3> HIDE DEF expand_job_vmids
    <3> QED BY <2>1, <2>3, <2>5, <3>1, <3>2, <3>3
  <2>7. Writers(g)' = IF j.on /\ g \in takes /\ writes THEN W \cup {n} ELSE W
    <3>1. W = {i \in S : g \in Guests \cap J[i].only /\ J[i].storage # "none"} BY <2>3 DEF Writers
    <3>2. PICK X : X = Savers(g)' OBVIOUS
    <3>3. Writers(g)' = {i \in X : g \in Guests \cap J[i].only /\ J[i].storage # "none"}
      BY <2>5, <3>2 DEF Writers
    <3>4. X = IF j.on /\ g \in takes THEN S \cup {n} ELSE S BY <2>6, <3>2
    <3> QED BY <2>4, <2>5, <3>1, <3>3, <3>4
  <2>8. kind'[g] # "none" <=> Savers(g)' # {}
    <3>1. CASE j.on /\ g \in takes BY <1>7, <2>6, <3>1
    <3>2. CASE ~(j.on /\ g \in takes)
      <4>1. kind'[g] = kind[g] BY <1>2, <1>3, <3>2 DEF ReadJob
      <4> QED BY <2>2, <2>3, <2>6, <3>2, <4>1
    <3> QED BY <3>1, <3>2
  <2>9. written'[g] = {J[i].storage : i \in Writers(g)'}
    <3>1. CASE j.on /\ g \in takes /\ writes
      <4>1. written'[g] = written[g] \cup {j.storage} BY <1>2, <1>3, <2>4, <3>1 DEF ReadJob
      <4> QED BY <2>2, <2>3, <2>5, <2>7, <3>1, <4>1
    <3>2. CASE ~(j.on /\ g \in takes /\ writes)
      <4>1. written'[g] = written[g] BY <1>2, <1>3, <2>4, <3>2 DEF ReadJob
      <4> QED BY <2>2, <2>3, <2>7, <3>2, <4>1
    <3> QED BY <3>1, <3>2
  <2> QED BY <2>3, <2>8, <2>9
<1>10. FreeWithoutRule' /\ StrictRuleFirst'
  BY <1>1 DEF FreeWithoutRule, StrictRuleFirst
<1> QED BY <1>1, <1>8, <1>9, <1>10 DEF JobsInv

\* The next rule of the cluster.
LEMMA RuleRead == ASSUME JobsInv, ReadRule PROVE JobsInv'
<1>1. /\ nth \in Nat /\ nth' = nth + 1 /\ rules # <<>> /\ backupJobs = <<>>
      /\ UNCHANGED <<backupJobs, rules, groups, kind, specific, written>>
  <2>1. nth \in Nat /\ nth < Len(rules) /\ nth' = nth + 1 BY DEF ReadRule, JobsInv
  <2>2. rules # <<>> BY <2>1
  <2> QED BY <2>1, <2>2 DEF ReadRule, JobsInv
<1>2. MarkedByName' /\ KindByRules' /\ KindAndStorages'
  BY <1>1 DEF JobsInv, MarkedByName, KindByRules, KindAndStorages, Named
<1>3. PICK r, n, R : r = rules[nth + 1] /\ n = nth /\ R = rules OBVIOUS
<1>4. ASSUME NEW g \in Guests
      PROVE  LET for == {i \in 1 .. n + 1 : R[i].on /\ g \in R[i].guests}
                 strict == {i \in for : R[i].strict}
             IN  /\ for = {} => placement'[g].is = "any"
                 /\ for # {} => placement'[g] = LET i == Min(IF strict # {} THEN strict ELSE for)
                                                IN  [is |-> Affinity(R[i]), rule |-> i]
  <2> DEFINE was == {i \in 1 .. n : R[i].on /\ g \in R[i].guests}
             wasStrict == {i \in was : R[i].strict}
             for == {i \in 1 .. n + 1 : R[i].on /\ g \in R[i].guests}
             strict == {i \in for : R[i].strict}
             hit == r.on /\ g \in r.guests
             Said(i) == [is |-> Affinity(R[i]), rule |-> i]
             Goal == /\ for = {} => placement'[g].is = "any"
                     /\ for # {} => placement'[g] = IF strict # {} THEN Said(Min(strict)) ELSE Said(Min(for))
  <2>1. /\ n \in Nat /\ n + 1 \in 1 .. n + 1 /\ n + 1 \notin 1 .. n
        /\ \A i \in 1 .. n + 1 : i \in 1 .. n \/ i = n + 1
        /\ \A i \in 1 .. n : i \in 1 .. n + 1
    BY <1>1, <1>3
  <2>2. r = R[n + 1] BY <1>3
  <2>3. placement'[g] = IF hit /\ Supersedes(r, placement[g]) THEN Said(n + 1) ELSE placement[g]
    BY <1>3 DEF ReadRule
  <2>4. /\ was = {} => placement[g].is = "any"
        /\ was # {} => placement[g] = IF wasStrict # {} THEN Said(Min(wasStrict)) ELSE Said(Min(was))
    <3>1. was = {} => placement[g].is = "any" BY <1>1, <1>3 DEF JobsInv, FreeWithoutRule
    <3>2. was # {} => placement[g] = Said(Min(IF wasStrict # {} THEN wasStrict ELSE was))
      <4>1. was = {i \in 1 .. nth : rules # <<>> /\ rules[i].on /\ g \in rules[i].guests} BY <1>1, <1>3
      <4> HIDE DEF was
      <4> QED BY <1>3, <4>1 DEF JobsInv, StrictRuleFirst
    <3>3. (IF wasStrict # {} THEN Said(Min(wasStrict)) ELSE Said(Min(was)))
            = Said(Min(IF wasStrict # {} THEN wasStrict ELSE was))
      <4> HIDE DEF Said, was, wasStrict
      <4> QED OBVIOUS
    <3> HIDE DEF Said, was, wasStrict
    <3> QED BY <3>1, <3>2, <3>3
  <2>5. for = (IF hit THEN was \cup {n + 1} ELSE was) BY <2>1, <2>2
  <2>6. strict = (IF hit /\ r.strict THEN wasStrict \cup {n + 1} ELSE wasStrict) BY <2>1, <2>2, <2>5
  <2>7. was \subseteq 1 .. n /\ wasStrict \subseteq was OBVIOUS
  <2>8. /\ \A i \in wasStrict : R[i].strict /\ i \in was
        /\ \A i \in was : R[i].strict => i \in wasStrict
    OBVIOUS
  <2> HIDE DEF was, wasStrict, for, strict, hit
  <2>9. /\ was # {} => Min(was) \in was
        /\ wasStrict # {} => Min(wasStrict) \in wasStrict
    BY <2>1, <2>7, SmallestIsThere
  <2>10. /\ Min(was \cup {n + 1}) = IF was = {} THEN n + 1 ELSE Min(was)
         /\ Min(wasStrict \cup {n + 1}) = IF wasStrict = {} THEN n + 1 ELSE Min(wasStrict)
    BY <2>1, <2>7, SmallestStays
  <2> HIDE DEF Said
  <2>11. ASSUME ~hit PROVE Goal
    <3>1. for = was /\ strict = wasStrict /\ placement'[g] = placement[g] BY <2>3, <2>5, <2>6, <2>11
    <3> QED BY <2>4, <3>1
  <2>12. ASSUME hit /\ was = {} PROVE Goal
    <3>1. placement'[g] = Said(n + 1) BY <2>3, <2>4, <2>12 DEF Supersedes
    <3>2. wasStrict = {} /\ for = {n + 1} BY <2>5, <2>7, <2>12
    <3>3. Min(for) = n + 1
      <4>1. for = was \cup {n + 1} BY <2>5, <2>12
      <4> QED BY <2>10, <2>12, <4>1
    <3>4. strict # {} => Min(strict) = n + 1
      <4>1. strict # {} => strict = wasStrict \cup {n + 1} BY <2>6, <3>2
      <4> QED BY <2>10, <3>2, <4>1
    <3> QED BY <3>1, <3>2, <3>3, <3>4
  <2>13. ASSUME hit /\ was # {} /\ wasStrict # {} PROVE Goal
    <3>1. placement[g] = Said(Min(wasStrict)) /\ R[Min(wasStrict)].strict BY <2>4, <2>8, <2>9, <2>13
    <3>2. ~Supersedes(r, placement[g]) BY <3>1 DEF Supersedes, Affinity, Said
    <3>3. placement'[g] = Said(Min(wasStrict)) BY <2>3, <3>1, <3>2
    <3>4. strict # {} /\ Min(strict) = Min(wasStrict) BY <2>6, <2>10, <2>13
    <3>5. for # {} BY <2>5, <2>13
    <3> QED BY <3>3, <3>4, <3>5
  <2>14. ASSUME hit /\ was # {} /\ wasStrict = {} PROVE Goal
    <3>1. placement[g] = Said(Min(was)) /\ ~R[Min(was)].strict BY <2>4, <2>8, <2>9, <2>14
    <3>2. placement[g].is \in {"prefer", "avoid"} BY <3>1 DEF Affinity, Said
    <3>3. Supersedes(r, placement[g]) <=> r.strict BY <3>2 DEF Supersedes
    <3>4. for # {} /\ Min(for) = Min(was)
      <4>1. for = was \cup {n + 1} BY <2>5, <2>14
      <4> QED BY <2>10, <2>14, <4>1
    <3>5. ASSUME r.strict PROVE Goal
      <4>1. placement'[g] = Said(n + 1) BY <2>3, <2>14, <3>3, <3>5
      <4>2. strict = wasStrict \cup {n + 1} BY <2>6, <2>14, <3>5
      <4>3. strict # {} /\ Min(strict) = n + 1 BY <2>10, <2>14, <4>2
      <4> QED BY <3>4, <4>1, <4>3
    <3>6. ASSUME ~r.strict PROVE Goal
      <4>1. placement'[g] = Said(Min(was)) BY <2>3, <3>1, <3>3, <3>6
      <4>2. strict = {} BY <2>6, <2>14, <3>6
      <4> QED BY <3>4, <4>1, <4>2
    <3> QED BY <3>5, <3>6
  <2>15. Goal
    <3> HIDE DEF Goal
    <3> QED BY <2>11, <2>12, <2>13, <2>14
  <2>16. (IF strict # {} THEN Said(Min(strict)) ELSE Said(Min(for))) = Said(Min(IF strict # {} THEN strict ELSE for))
    OBVIOUS
  <2> QED BY <2>15, <2>16 DEF for, strict, Said
<1>5. FreeWithoutRule' BY <1>1, <1>3, <1>4 DEF FreeWithoutRule
<1>6. StrictRuleFirst'
  <2> SUFFICES ASSUME NEW g \in Guests
      PROVE  LET for == {i \in 1 .. nth' : rules' # <<>> /\ rules'[i].on /\ g \in rules'[i].guests}
                 strict == {i \in for : rules'[i].strict}
             IN  for # {} => placement'[g] = LET i == Min(IF strict # {} THEN strict ELSE for)
                                             IN  [is |-> Affinity(rules'[i]), rule |-> i]
    BY DEF StrictRuleFirst
  <2>1. {i \in 1 .. nth' : rules' # <<>> /\ rules'[i].on /\ g \in rules'[i].guests}
          = {i \in 1 .. n + 1 : R[i].on /\ g \in R[i].guests} /\ rules' = R
    BY <1>1, <1>3
  <2> QED BY <1>4, <2>1
<1> QED BY <1>1, <1>2, <1>5, <1>6 DEF JobsInv

\* GuestAsConfigured (infer_backup_kind_by_vmid, job_storages_by_vmid, fetch_ha), for any
\* lists of jobs and rules: what is said of a guest follows from those that take it, in
\* whichever order PVE lists them.  A job limited to a pool or a node says how often of
\* every guest it takes, and where to only of those of the pool or node.
THEOREM JobsInAnyOrder == JobsSpec => []GuestAsConfigured
<1>1. JobsInit => JobsInv
  <2> SUFFICES ASSUME JobsInit PROVE JobsInv OBVIOUS
  <2>1. nth = 0 /\ (backupJobs = <<>> \/ rules = <<>>) BY DEF JobsInit, JobsInputs, JobsStart
  <2>2. /\ \A g \in Named : kind[g] = "none" /\ written[g] = {} /\ g \notin specific
        /\ \A g \in Guests : placement[g].is = "any"
    BY DEF JobsInit, JobsStart
  <2>3. 1 .. nth = {} BY <2>1
  <2>4. \A g : SavedBy(g, TRUE) = {} /\ SavedBy(g, FALSE) = {} BY <2>3 DEF SavedBy
  <2>5. MarkedByName /\ KindByRules /\ KindAndStorages
    BY <2>2, <2>3, <2>4 DEF MarkedByName, KindByRules, KindAndStorages, Savers, Writers
  <2>6. FreeWithoutRule /\ StrictRuleFirst BY <2>2, <2>3 DEF FreeWithoutRule, StrictRuleFirst
  <2> QED BY <2>1, <2>5, <2>6 DEF JobsInv
<1>2. JobsInv /\ [JobsNext]_scheduleVars => JobsInv'
  <2> SUFFICES ASSUME JobsInv, [JobsNext]_scheduleVars PROVE JobsInv' OBVIOUS
  <2>1. CASE UNCHANGED scheduleVars
    <3>1. UNCHANGED <<backupJobs, rules, groups, kind, specific, written, placement, nth>>
      BY <2>1 DEF scheduleVars
    <3>2. \A g : SavedBy(g, TRUE)' = SavedBy(g, TRUE) /\ SavedBy(g, FALSE)' = SavedBy(g, FALSE)
      BY <3>1, Zenon DEF SavedBy
    <3>3. MarkedByName' /\ KindByRules' BY <3>1, <3>2 DEF JobsInv, MarkedByName, KindByRules, Named
    <3>4. KindAndStorages' /\ FreeWithoutRule'
      BY <3>1 DEF JobsInv, KindAndStorages, Savers, Writers, FreeWithoutRule, Named
    <3>5. StrictRuleFirst' BY <3>1 DEF JobsInv, StrictRuleFirst
    <3> QED BY <3>1, <3>3, <3>4, <3>5 DEF JobsInv
  <2>2. CASE ReadJob BY <2>2, JobRead
  <2>3. CASE ReadRule BY <2>3, RuleRead
  <2>4. CASE ReadGroups
    <3>1. /\ nth' = 1 /\ rules = <<>> /\ backupJobs = <<>>
          /\ UNCHANGED <<backupJobs, rules, groups, kind, specific, written>>
      BY <2>4 DEF ReadGroups
    <3> QED BY <3>1 DEF JobsInv, MarkedByName, KindByRules, KindAndStorages, FreeWithoutRule, StrictRuleFirst
  <2> QED BY <2>1, <2>2, <2>3, <2>4 DEF JobsNext
<1>3. JobsInv => GuestAsConfigured BY DEF JobsInv, GuestAsConfigured
<1> QED BY <1>1, <1>2, <1>3, PTL DEF JobsSpec

-----------------------------------------------------------------------------
(* Governance.                                                                 *)

Backups == [day : Nat, status : {"ok", "failed", "stub"}, on : SUBSET Servers, removed : BOOLEAN,
            verify : {"none", "ok", "failed"}]
JudgeTypes ==
    /\ today \in Nat \ {0} /\ backups \subseteq Backups /\ testDays \subseteq 1 .. today
    /\ \A b \in backups : b.day \in 1 .. today
    /\ gone \in BOOLEAN /\ required \in BOOLEAN /\ policy \in {"daily", "none", "unknown"}

\* The types hold in every reachable state.
LEMMA JudgeTypesHold == JudgeSpec => []JudgeTypes
<1>1. JudgeInit => JudgeTypes
  <2> SUFFICES ASSUME JudgeInit PROVE JudgeTypes OBVIOUS
  <2>1. gone \in BOOLEAN /\ required \in BOOLEAN BY Zenon DEF JudgeInit
  <2>2. today = 1 /\ backups = {} /\ testDays = {} /\ policy \in {"daily", "none", "unknown"} BY DEF JudgeInit
  <2> QED BY <2>1, <2>2 DEF JudgeTypes
<1>2. JudgeTypes /\ [JudgeNext]_judgedVars => JudgeTypes'
  <2> SUFFICES ASSUME JudgeTypes, [JudgeNext]_judgedVars PROVE JudgeTypes' OBVIOUS
  <2> USE DEF JudgeTypes
  <2>1. CASE UNCHANGED judgedVars BY <2>1 DEF judgedVars
  <2>2. CASE DayPasses
    <3>1. today' = today + 1 /\ UNCHANGED <<backups, testDays, policy>> BY <2>2 DEF DayPasses
    <3>2. gone' \in BOOLEAN /\ required' \in BOOLEAN BY <2>2, Zenon DEF DayPasses
    <3> QED BY <3>1, <3>2
  <2>3. CASE BackupRuns
    <3>1. PICK o \in {"ok", "failed", "stub"}, s \in {"pbs1", "nas"} :
            backups' = backups \cup {Backup(today, o, s, "none")}
      BY <2>3 DEF BackupRuns
    <3> DEFINE b == Backup(today, o, s, "none")
    <3>2. b \in Backups /\ b.day = today
      <4>1. {s} \in SUBSET Servers BY DEF Servers
      <4> QED BY <4>1 DEF Backup, Backups
    <3> HIDE DEF b
    <3>3. backups' = backups \cup {b} /\ UNCHANGED <<today, testDays, policy>>
      BY <2>3, <3>1 DEF BackupRuns, Row, b
    <3>4. gone' \in BOOLEAN /\ required' \in BOOLEAN BY <2>3, Zenon DEF BackupRuns, Row
    <3> QED BY <3>2, <3>3, <3>4
  <2>4. CASE GuestGone
    <3>1. gone' \in BOOLEAN BY <2>4, Zenon DEF GuestGone
    <3> QED BY <2>4, <3>1 DEF GuestGone
  <2>5. CASE TestRecorded BY <2>5 DEF TestRecorded
  <2>6. ASSUME NEW b \in backups, Copied(b) \/ Verified(b) \/ Pruned(b) PROVE JudgeTypes'
    <3>1. PICK c : c \in Backups /\ c.day = b.day /\ Changed(b, c)
      <4>1. CASE Copied(b)
        <5>1. [b EXCEPT !.on = @ \cup {"pbs2"}] \in Backups
          <6>1. b \in Backups OBVIOUS
          <6>2. b.on \cup {"pbs2"} \in SUBSET Servers BY <6>1 DEF Backups, Servers
          <6> QED BY <6>1, <6>2 DEF Backups
        <5>2. [b EXCEPT !.on = @ \cup {"pbs2"}].day = b.day BY DEF Backups
        <5> QED BY <4>1, <5>1, <5>2 DEF Copied
      <4>2. CASE Verified(b)
        <5>1. PICK v \in {"ok", "failed"} : Changed(b, [b EXCEPT !.verify = v]) BY <4>2 DEF Verified
        <5>2. [b EXCEPT !.verify = v] \in Backups /\ [b EXCEPT !.verify = v].day = b.day BY DEF Backups
        <5> QED BY <5>1, <5>2
      <4>3. CASE Pruned(b)
        <5>1. [b EXCEPT !.removed = TRUE] \in Backups /\ [b EXCEPT !.removed = TRUE].day = b.day BY DEF Backups
        <5> QED BY <4>3, <5>1 DEF Pruned
      <4> QED BY <2>6, <4>1, <4>2, <4>3
    <3> QED BY <3>1 DEF Changed, Row
  <2> QED BY <2>1, <2>2, <2>3, <2>4, <2>5, <2>6 DEF JudgeNext
<1> QED BY <1>1, <1>2, PTL DEF JudgeSpec

\* ViewsAgree (restore_test_coverage, vm_backup_sparkline_data, vm_backup_history), for any
\* windows and any number of backups: the numbers of the report add up, and the table and the
\* charts show the same of each day.
THEOREM PagesAgree == JudgeSpec => []ViewsAgree
<1>1. JudgeTypes => CoverageAdds
  <2>1. restore_due_status \in {"ok", "open", "critical", "warning"} BY DEF restore_due_status
  <2>2. ~TestRequired => restore_due_status = "ok" BY DEF restore_due_status
  <2> DEFINE okay == IF ListedGuest /\ TestRequired /\ restore_due_status = "ok" THEN 1 ELSE 0
             due == IF ListedGuest /\ restore_due_status \in {"open", "warning", "critical"} THEN 1 ELSE 0
             all == IF ListedGuest /\ TestRequired THEN 1 ELSE 0
  <2>3. okay + due = all
    <3> HIDE DEF restore_due_status
    <3>1. CASE ~ListedGuest BY <3>1
    <3>2. CASE ListedGuest /\ ~TestRequired BY <2>2, <3>2
    <3>3. CASE ListedGuest /\ TestRequired BY <2>1, <3>3
    <3> QED BY <3>1, <3>2, <3>3
  <2>4. /\ restore_test_coverage.ok = okay /\ restore_test_coverage.overdue = due
        /\ restore_test_coverage.required = all
    BY DEF restore_test_coverage
  <2> QED BY <2>3, <2>4 DEF CoverageAdds
<1>2. JudgeTypes => ChartsAgree
  <2> SUFFICES ASSUME JudgeTypes, NEW d \in 1 .. today PROVE Dot(d) = Bar(d) BY DEF ChartsAgree
  <2> DEFINE rows == {b \in backups : b.day = d}
             bars == {b \in backups : b.day = d /\ b.status # "stub"}
  <2>1. \A b \in rows : b.status \in {"ok", "failed", "stub"} BY DEF JudgeTypes, Backups
  <2>2. \A b : b \in bars <=> b \in rows /\ b.status # "stub" OBVIOUS
  <2>3. Dot(d) = IF \E b \in rows : b.status = "ok" /\ ~b.removed THEN "ok"
                 ELSE IF \E b \in rows : b.status = "ok" THEN "deleted"
                 ELSE IF \E b \in rows : b.status = "failed" THEN "failed" ELSE "none"
    BY DEF Dot
  <2>4. Bar(d) = IF bars = {} THEN "none"
                 ELSE IF \E b \in bars : b.status = "ok" /\ ~b.removed THEN "ok"
                 ELSE IF \E b \in bars : b.status = "ok" THEN "deleted" ELSE "failed"
    BY DEF Bar
  <2> HIDE DEF rows, bars
  <2>5. (\E b \in rows : b.status = "ok" /\ ~b.removed) <=> (\E b \in bars : b.status = "ok" /\ ~b.removed)
    BY <2>2
  <2>6. (\E b \in rows : b.status = "ok") <=> (\E b \in bars : b.status = "ok") BY <2>2
  <2>7. bars = {} <=> ~\E b \in rows : b.status \in {"ok", "failed"} BY <2>1, <2>2
  <2> QED BY <2>3, <2>4, <2>5, <2>6, <2>7
<1>3. JudgeTypes => ViewsAgree BY <1>1, <1>2 DEF ViewsAgree
<1> QED BY <1>3, JudgeTypesHold, PTL

\* The largest of some numbers up to n is one of them.
LEMMA LargestIsThere ==
  ASSUME NEW n \in Nat, NEW S, S \subseteq 0 .. n, S # {}
  PROVE  Max(S) \in S /\ \A y \in S : y <= Max(S)
<1> DEFINE gaps == {n - y : y \in S}
<1>1. gaps \subseteq Nat OBVIOUS
<1>2. PICK y \in S : TRUE OBVIOUS
<1>3. n - y \in gaps OBVIOUS
<1>4. PICK g \in gaps : \A k \in gaps : ~(<<k, g>> \in OpToRel(<, Nat))
  BY <1>1, <1>3, WFMin, NatLessThanWellFounded
<1>5. ASSUME NEW k \in gaps, ~(g <= k) PROVE FALSE
  <2> HIDE DEF gaps
  <2>1. g \in Nat /\ k \in Nat /\ k < g BY <1>1, <1>5
  <2>2. <<k, g>> \in OpToRel(<, Nat) BY <2>1 DEF OpToRel
  <2> QED BY <1>4, <2>2
<1>6. PICK x \in S : g = n - x OBVIOUS
<1>7. \A z \in S : x >= z
  <2> TAKE z \in S
  <2>1. n - z \in gaps OBVIOUS
  <2>2. g <= n - z BY <1>5, <2>1
  <2> QED BY <1>6, <2>2
<1>8. Max(S) \in S /\ \A z \in S : Max(S) >= z BY <1>7 DEF Max
<1>9. \A z \in S : z \in Nat OBVIOUS
<1> QED BY <1>8, <1>9

\* What Latest returns for rows up to a day.
LEMMA LatestIsLargest ==
  ASSUME NEW n \in Nat, NEW S, \A b \in S : b.day \in 1 .. n
  PROVE  /\ Latest(S) \in 0 .. n
         /\ \A b \in S : b.day <= Latest(S)
         /\ S # {} => \E b \in S : Latest(S) = b.day
         /\ S = {} => Latest(S) = 0
<1>1. CASE S = {} BY <1>1 DEF Latest
<1>2. CASE S # {}
  <2> DEFINE D == {b.day : b \in S}
  <2>1. D \subseteq 0 .. n /\ D # {}
    <3>1. D # {} BY <1>2
    <3>2. D \subseteq 0 .. n
      <4> SUFFICES ASSUME NEW b \in S PROVE b.day \in 0 .. n OBVIOUS
      <4>1. b.day \in 1 .. n OBVIOUS
      <4> QED BY <4>1
    <3> QED BY <3>1, <3>2
  <2>2. Latest(S) = Max(D) BY <1>2 DEF Latest
  <2>3. Max(D) \in D /\ \A y \in D : y <= Max(D)
    <3> HIDE DEF D
    <3> QED BY <2>1, LargestIsThere
  <2>4. \A b \in S : b.day \in D OBVIOUS
  <2>5. \E b \in S : Max(D) = b.day BY <2>3
  <2> HIDE DEF D
  <2> QED BY <1>2, <2>1, <2>2, <2>3, <2>4, <2>5
<1> QED BY <1>1, <1>2

\* With fewer rows the latest is no later.
LEMMA LatestOfFewer ==
  ASSUME NEW n \in Nat, NEW S, NEW T, S \subseteq T, \A b \in T : b.day \in 1 .. n
  PROVE  Latest(S) <= Latest(T)
<1>1. \A b \in S : b.day \in 1 .. n OBVIOUS
<1>2. /\ Latest(S) \in 0 .. n /\ (S # {} => \E b \in S : Latest(S) = b.day) /\ (S = {} => Latest(S) = 0)
  BY <1>1, LatestIsLargest
<1>3. Latest(T) \in 0 .. n /\ \A b \in T : b.day <= Latest(T) BY LatestIsLargest
<1>4. CASE S = {} BY <1>2, <1>3, <1>4
<1>5. CASE S # {}
  <2>1. PICK b \in S : Latest(S) = b.day BY <1>2, <1>5
  <2> QED BY <1>3, <2>1
<1> QED BY <1>4, <1>5

Levels == {"ok", "none", "open", "single", "warning", "critical"}

\* A rank is 0, 1 or 2.
LEMMA RankIsLevel == \A s \in Levels : Rank(s) \in 0 .. 2
BY DEF Levels, Rank

\* The worse of the parts, the worse the whole.
LEMMA WorstOfWorse ==
  ASSUME NEW a \in 0 .. 2, NEW b \in 0 .. 2, NEW c \in 0 .. 2,
         NEW d \in 0 .. 2, NEW e \in 0 .. 2, NEW f \in 0 .. 2, a <= d, b <= e, c <= f
  PROVE  Max({d, e, f}) >= Max({a, b, c}) /\ Max({a, b, c}) \in 0 .. 2
<1>1. Max({a, b, c}) \in {a, b, c}
  <2>1. {a, b, c} \subseteq 0 .. 2 /\ {a, b, c} # {} OBVIOUS
  <2> QED BY <2>1, LargestIsThere
<1>2. Max({d, e, f}) \in {d, e, f} /\ \A y \in {d, e, f} : y <= Max({d, e, f})
  <2>1. {d, e, f} \subseteq 0 .. 2 /\ {d, e, f} # {} OBVIOUS
  <2> QED BY <2>1, LargestIsThere
<1> QED BY <1>1, <1>2

\* Each part of the verdict is a level; the copies never fail a guest.
LEMMA PartsAreLevels ==
  /\ backup_severity \in Levels /\ verify_status \in Levels /\ restore_due_status \in Levels
  /\ Rank(copy_status) = 0 /\ copy_status # "warning"
BY DEF backup_severity, verify_status, restore_due_status, copy_status, Rank, Levels

\* What of a guest counts for its judgement: the rows that are kept.
LEMMA KeptDays == JudgeTypes => Kept \subseteq Backups /\ today \in Nat \ {0} /\ \A b \in Kept : b.day \in 1 .. today
BY DEF JudgeTypes, Kept

Verifieds == {b \in Kept : b.verify = "ok"}
Fails == {b \in Kept : b.verify = "failed" /\ b.day + FailedWindow >= today}

\* The days the verdict is judged by are days of the past.
LEMMA JudgedDays ==
  ASSUME JudgeTypes
  PROVE  /\ last_verified_at = Latest(Verifieds) /\ verify_failed_at = Latest(Fails)
         /\ Latest(Kept) \in 0 .. today /\ Latest(Verifieds) \in 0 .. today /\ Latest(Fails) \in 0 .. today
         /\ Kept # {} => Latest(Kept) \in 1 .. today
<1>1. today \in Nat /\ \A b \in Kept : b.day \in 1 .. today BY KeptDays
<1>2. last_verified_at = Latest(Verifieds) /\ verify_failed_at = Latest(Fails)
  BY DEF last_verified_at, verify_failed_at, Verifieds, Fails
<1>3. /\ \A b \in Verifieds : b.day \in 1 .. today
      /\ \A b \in Fails : b.day \in 1 .. today
  BY <1>1 DEF Verifieds, Fails
<1>4. /\ Latest(Kept) \in 0 .. today
      /\ Kept # {} => \E b \in Kept : Latest(Kept) = b.day
  BY <1>1, LatestIsLargest
<1>5. Latest(Verifieds) \in 0 .. today BY <1>1, <1>3, LatestIsLargest
<1>6. Latest(Fails) \in 0 .. today BY <1>1, <1>3, LatestIsLargest
<1>7. Kept # {} => Latest(Kept) \in 1 .. today BY <1>1, <1>4
<1> QED BY <1>2, <1>4, <1>5, <1>6, <1>7

\* The whole is judged as its parts.
LEMMA WholeOfParts ==
  ASSUME NEW g, gone = g, gone' = g, Rank(backup_severity') >= Rank(backup_severity),
         Rank(verify_status') >= Rank(verify_status)
  PROVE  overall_status' >= overall_status
<1>1. Rank(backup_severity) \in 0 .. 2 /\ Rank(verify_status) \in 0 .. 2 /\ Rank(copy_status) = 0
  BY PartsAreLevels, RankIsLevel
<1>2. backup_severity' \in Levels /\ verify_status' \in Levels
  BY DEF backup_severity, verify_status, Levels
<1>3. Rank(copy_status') = 0 BY DEF copy_status, Rank
<1>4. PICK a, b, c, d : /\ a = Rank(backup_severity) /\ b = Rank(verify_status)
                        /\ c = Rank(backup_severity') /\ d = Rank(verify_status')
  OBVIOUS
<1>5. a \in 0 .. 2 /\ b \in 0 .. 2 BY <1>1, <1>4
<1>6. c \in 0 .. 2 /\ d \in 0 .. 2 BY <1>2, <1>4, RankIsLevel
<1>7. 0 \in 0 .. 2 /\ a <= c /\ b <= d /\ 0 <= 0 BY <1>4, <1>5, <1>6
<1>8. Max({c, 0, d}) >= Max({a, 0, b}) BY <1>5, <1>6, <1>7, WorstOfWorse
<1>9. overall_status = IF g THEN 0 ELSE Max({a, 0, b}) BY <1>1, <1>4 DEF overall_status
<1>10. overall_status' = IF g THEN 0 ELSE Max({c, 0, d}) BY <1>3, <1>4 DEF overall_status
<1> QED BY <1>8, <1>9, <1>10

\* A day later, with the same rows, tests and policy, no part is judged better,
\* unless a failed verification counts no longer.
LEMMA DayNeverHeals ==
  ASSUME JudgeTypes, JudgeTypes', DayPasses
  PROVE  /\ Rank(backup_severity') >= Rank(backup_severity)
         /\ Rank(restore_due_status') >= Rank(restore_due_status)
         /\ \/ FailureLapses
            \/ /\ Rank(verify_status') >= Rank(verify_status)
               /\ verify_status = "critical" => verify_status' = "critical"
<1>1. today' = today + 1 /\ UNCHANGED <<backups, testDays, policy, required, gone>> BY DEF DayPasses
<1>2. today \in Nat /\ testDays \subseteq 1 .. today BY DEF JudgeTypes
<1>3. PICK k, l, v, f, h :
        /\ k = Kept /\ l = Latest(Kept) /\ v = last_verified_at /\ f = verify_failed_at /\ h = verify_failed_at'
  OBVIOUS
<1>4. l \in 0 .. today /\ v \in 0 .. today /\ f \in 0 .. today BY <1>3, JudgedDays
<1>5. k = Kept' BY <1>1, <1>3 DEF Kept
<1>6. l = Latest(Kept') /\ v = last_verified_at' BY <1>3, <1>5 DEF last_verified_at
<1>7. h \in Nat
  <2>1. PICK S, n : S = {b \in Kept' : b.verify = "failed" /\ b.day + FailedWindow >= today'} /\ n = today'
    OBVIOUS
  <2>2. n \in Nat /\ \A b \in S : b.day \in 1 .. n BY <2>1 DEF JudgeTypes, Kept
  <2>3. Latest(S) \in 0 .. n BY <2>2, LatestIsLargest
  <2> QED BY <1>3, <2>1, <2>2, <2>3 DEF verify_failed_at
<1>8. Rank(backup_severity') >= Rank(backup_severity)
  <2>1. PICK policed : policed = status_backup_kind /\ policed = status_backup_kind'
    BY <1>1 DEF status_backup_kind
  <2>2. backup_severity = IF policed = "none" THEN "ok" ELSE IF k = {} THEN "critical"
          ELSE IF today - l >= Critical THEN "critical" ELSE IF today - l >= Warn THEN "warning" ELSE "ok"
    BY <1>3, <2>1 DEF backup_severity
  <2>3. backup_severity' = IF policed = "none" THEN "ok" ELSE IF k = {} THEN "critical"
          ELSE IF today' - l >= Critical THEN "critical" ELSE IF today' - l >= Warn THEN "warning" ELSE "ok"
    BY <1>5, <1>6, <2>1 DEF backup_severity
  <2>4. Critical \in Nat /\ Warn \in Nat BY GovernanceAssumption DEF GovernanceAssumption
  <2> QED BY <1>1, <1>2, <1>4, <2>2, <2>3, <2>4 DEF Rank
<1>9. ASSUME ~FailureLapses
      PROVE  /\ Rank(verify_status') >= Rank(verify_status)
             /\ verify_status = "critical" => verify_status' = "critical"
  <2>0. h >= f
    <3>1. ~(h < f) BY <1>1, <1>2, <1>3, <1>9 DEF FailureLapses
    <3> QED BY <1>4, <1>7, <3>1
  <2>1. has_pbs' <=> has_pbs BY <1>1 DEF has_pbs, Kept
  <2>2. CASE gone \/ ~has_pbs
    <3>1. gone' \/ ~has_pbs' BY <1>1, <2>1, <2>2
    <3>2. verify_status = "none" /\ verify_status' = "none" BY <2>2, <3>1, Zenon DEF verify_status
    <3> QED BY <3>2 DEF Rank
  <2>3. CASE ~(gone \/ ~has_pbs)
    <3>1. ~(gone' \/ ~has_pbs') BY <1>1, <2>1, <2>3
    <3>2. verify_status = IF f > 0 /\ f >= v THEN "critical"
            ELSE IF v = 0 \/ today - v > VerifyAge THEN "warning" ELSE "ok"
      BY <1>3, <2>3 DEF verify_status
    <3>3. verify_status' = IF h > 0 /\ h >= v THEN "critical"
            ELSE IF v = 0 \/ today' - v > VerifyAge THEN "warning" ELSE "ok"
      BY <1>3, <1>6, <3>1 DEF verify_status
    <3>4. VerifyAge \in Nat /\ h \in Nat BY <1>7, GovernanceAssumption DEF GovernanceAssumption
    <3> QED BY <1>1, <1>2, <1>4, <2>0, <3>2, <3>3, <3>4 DEF Rank
  <2> QED BY <2>2, <2>3
<1>10. Rank(restore_due_status') >= Rank(restore_due_status)
  <2> DEFINE m == Max(testDays)
             c == Max({1, Interval - Lead})
             Aged(t) == IF testDays = {} THEN "open" ELSE IF t - m >= Interval THEN "critical"
                       ELSE IF t - m >= c THEN "warning" ELSE "ok"
  <2>1. TestRequired' <=> TestRequired BY <1>1 DEF TestRequired, status_backup_kind
  <2>2. restore_due_status = IF ~TestRequired THEN "ok" ELSE Aged(today) BY DEF restore_due_status
  <2>3. restore_due_status' = IF ~TestRequired' THEN "ok" ELSE Aged(today')
    BY <1>1 DEF restore_due_status
  <2>4. Interval \in Nat /\ c \in Int
    <3>1. Interval \in Nat /\ Interval - Lead \in Int BY GovernanceAssumption DEF GovernanceAssumption
    <3>2. \A x, y \in Int : Max({x, y}) \in Int BY DEF Max
    <3> QED BY <3>1, <3>2
  <2>5. Rank(Aged(today')) >= Rank(Aged(today))
    <3>1. CASE testDays = {} BY <3>1 DEF Rank
    <3>2. CASE testDays # {}
      <4>1. m \in 0 .. today
        <5>1. testDays \subseteq 0 .. today BY <1>2
        <5>2. m \in testDays BY <1>2, <3>2, <5>1, LargestIsThere
        <5> QED BY <5>1, <5>2
      <4> HIDE DEF m, c
      <4> QED BY <1>1, <1>2, <2>4, <3>2, <4>1 DEF Rank
    <3> QED BY <3>1, <3>2
  <2> HIDE DEF Aged
  <2> QED BY <2>1, <2>2, <2>3, <2>5 DEF Rank
<1> QED BY <1>8, <1>9, <1>10

\* A backup that is lost makes no part look better, unless its verification
\* failed or it was the last one on PBS.
LEMMA LossHealsNot ==
  ASSUME JudgeTypes, NEW b \in Kept, Pruned(b), b.verify # "failed", has_pbs' = has_pbs
  PROVE  /\ Rank(backup_severity') >= Rank(backup_severity)
         /\ Rank(verify_status') >= Rank(verify_status)
         /\ verify_status = "critical" => verify_status' = "critical"
<1>1. Row /\ backups' = (backups \ {b}) \cup {[b EXCEPT !.removed = TRUE]} BY DEF Pruned, Changed
<1>2. today \in Nat /\ Kept \subseteq Backups /\ \A d \in Kept : d.day \in 1 .. today BY KeptDays
<1>3. Kept' = Kept \ {b}
  <2>1. [b EXCEPT !.removed = TRUE].removed BY <1>2 DEF Backups
  <2> QED BY <1>1, <2>1 DEF Kept
<1>4. PICK k, l, v, f, n : /\ k = Kept /\ l = Latest(Kept) /\ v = last_verified_at /\ f = verify_failed_at /\ n = today
  OBVIOUS
<1>5. PICK k2, l2, v2 : /\ k2 = Kept' /\ l2 = Latest(Kept') /\ v2 = last_verified_at'
  OBVIOUS
<1>6. today' = n /\ (gone' <=> gone) /\ UNCHANGED <<policy, gone>> BY <1>1, <1>4 DEF Row
<1>7. l \in 0 .. n /\ v \in 0 .. n /\ f \in 0 .. n BY <1>4, JudgedDays
<1>8. n \in Nat /\ k2 = k \ {b} /\ b \in k /\ \A d \in k : d.day \in 1 .. n BY <1>2, <1>3, <1>4, <1>5
<1>9. l2 <= l /\ l2 \in 0 .. n
  <2>1. l = Latest(k) /\ l2 = Latest(k2) /\ k2 \subseteq k BY <1>4, <1>5, <1>8
  <2>2. \A d \in k2 : d.day \in 1 .. n BY <1>8
  <2>3. Latest(k2) <= Latest(k) BY <1>8, LatestOfFewer
  <2>4. Latest(k2) \in 0 .. n BY <1>8, <2>2, LatestIsLargest
  <2> QED BY <2>1, <2>3, <2>4
<1>10. v2 <= v /\ v2 \in 0 .. n
  <2>1. PICK A, B : A = {d \in k : d.verify = "ok"} /\ B = {d \in k2 : d.verify = "ok"} OBVIOUS
  <2>2. v = Latest(A) /\ v2 = Latest(B) BY <1>4, <1>5, <2>1 DEF last_verified_at
  <2>3. B \subseteq A /\ \A d \in A : d.day \in 1 .. n BY <1>8, <2>1
  <2>4. Latest(B) <= Latest(A) BY <1>8, <2>3, LatestOfFewer
  <2>5. \A d \in B : d.day \in 1 .. n BY <2>3
  <2>6. Latest(B) \in 0 .. n BY <1>8, <2>5, LatestIsLargest
  <2> QED BY <2>2, <2>4, <2>6
<1>11. verify_failed_at' = f
  <2>1. {d \in k2 : d.verify = "failed" /\ d.day + FailedWindow >= n}
          = {d \in k : d.verify = "failed" /\ d.day + FailedWindow >= n}
    BY <1>8
  <2> QED BY <1>4, <1>5, <1>6, <2>1 DEF verify_failed_at
<1>12. Rank(backup_severity') >= Rank(backup_severity)
  <2>1. PICK policed : policed = status_backup_kind /\ policed = status_backup_kind'
    BY <1>6 DEF status_backup_kind
  <2>2. backup_severity = IF policed = "none" THEN "ok" ELSE IF n - l >= Critical THEN "critical"
          ELSE IF n - l >= Warn THEN "warning" ELSE "ok"
    BY <1>4, <1>8, <2>1 DEF backup_severity
  <2>3. backup_severity' = IF policed = "none" THEN "ok" ELSE IF k2 = {} THEN "critical"
          ELSE IF n - l2 >= Critical THEN "critical" ELSE IF n - l2 >= Warn THEN "warning" ELSE "ok"
    BY <1>5, <1>6, <2>1 DEF backup_severity
  <2>4. Critical \in Nat /\ Warn \in Nat BY GovernanceAssumption DEF GovernanceAssumption
  <2> QED BY <1>7, <1>8, <1>9, <2>2, <2>3, <2>4 DEF Rank
<1>13. /\ Rank(verify_status') >= Rank(verify_status)
       /\ verify_status = "critical" => verify_status' = "critical"
  <2>1. CASE gone \/ ~has_pbs
    <3>1. gone' \/ ~has_pbs' BY <1>6, <2>1
    <3>2. verify_status = "none" /\ verify_status' = "none" BY <2>1, <3>1, Zenon DEF verify_status
    <3> QED BY <3>2 DEF Rank
  <2>2. CASE ~(gone \/ ~has_pbs)
    <3>1. ~(gone' \/ ~has_pbs') BY <1>6, <2>2
    <3>2. verify_status = IF f > 0 /\ f >= v THEN "critical"
            ELSE IF v = 0 \/ n - v > VerifyAge THEN "warning" ELSE "ok"
      BY <1>4, <2>2 DEF verify_status
    <3>3. verify_status' = IF f > 0 /\ f >= v2 THEN "critical"
            ELSE IF v2 = 0 \/ n - v2 > VerifyAge THEN "warning" ELSE "ok"
      BY <1>5, <1>6, <1>11, <3>1 DEF verify_status
    <3>4. VerifyAge \in Nat BY GovernanceAssumption DEF GovernanceAssumption
    <3> QED BY <1>7, <1>8, <1>10, <3>2, <3>3, <3>4 DEF Rank
  <2> QED BY <2>1, <2>2
<1> QED BY <1>12, <1>13

\* Only a backup on PBS has been verified.
VerifiedOnPbs == \A b \in backups : b.verify # "none" => OnPbs(b)

LEMMA VerifiedHold == JudgeSpec => []VerifiedOnPbs
<1>1. JudgeInit => VerifiedOnPbs BY DEF JudgeInit, VerifiedOnPbs
<1>2. JudgeTypes /\ VerifiedOnPbs /\ [JudgeNext]_judgedVars => VerifiedOnPbs'
  <2> SUFFICES ASSUME JudgeTypes, VerifiedOnPbs, [JudgeNext]_judgedVars PROVE VerifiedOnPbs' OBVIOUS
  <2>1. CASE UNCHANGED backups BY <2>1 DEF VerifiedOnPbs, OnPbs
  <2>2. CASE BackupRuns
    <3>1. PICK o \in {"ok", "failed", "stub"}, s \in {"pbs1", "nas"} :
            backups' = backups \cup {Backup(today, o, s, "none")}
      BY <2>2 DEF BackupRuns
    <3>2. Backup(today, o, s, "none").verify = "none" BY DEF Backup
    <3> QED BY <3>1, <3>2 DEF VerifiedOnPbs, OnPbs
  <2>3. ASSUME NEW b \in backups, Copied(b) \/ Verified(b) \/ Pruned(b) PROVE VerifiedOnPbs'
    <3>1. PICK c : Changed(b, c) /\ (c.verify # "none" => OnPbs(c))
      <4>1. b \in Backups BY DEF JudgeTypes
      <4>2. CASE Copied(b)
        <5>1. [b EXCEPT !.on = @ \cup {"pbs2"}].on = b.on \cup {"pbs2"} BY <4>1 DEF Backups
        <5>2. OnPbs([b EXCEPT !.on = @ \cup {"pbs2"}]) BY <5>1 DEF OnPbs
        <5> QED BY <4>2, <5>2 DEF Copied
      <4>3. CASE Verified(b)
        <5>1. PICK v : Changed(b, [b EXCEPT !.verify = v]) /\ OnPbs(b) BY <4>3 DEF Verified
        <5>2. [b EXCEPT !.verify = v].on = b.on BY <4>1 DEF Backups
        <5> QED BY <5>1, <5>2 DEF OnPbs
      <4>4. CASE Pruned(b)
        <5>1. [b EXCEPT !.removed = TRUE].on = b.on /\ [b EXCEPT !.removed = TRUE].verify = b.verify
          BY <4>1 DEF Backups
        <5> QED BY <4>4, <5>1 DEF Pruned, OnPbs, VerifiedOnPbs
      <4> QED BY <2>3, <4>2, <4>3, <4>4
    <3> QED BY <3>1 DEF Changed, VerifiedOnPbs, OnPbs
  <2> QED BY <2>1, <2>2, <2>3 DEF JudgeNext, judgedVars, DayPasses, GuestGone, TestRecorded
<1> QED BY <1>1, <1>2, JudgeTypesHold, PTL DEF JudgeSpec

\* A judgement is a level.
LEMMA OverallIsLevel == overall_status \in 0 .. 2
<1>1. Rank(backup_severity) \in 0 .. 2 /\ Rank(verify_status) \in 0 .. 2 /\ Rank(copy_status) = 0
  BY PartsAreLevels, RankIsLevel
<1>2. PICK a, b : a = Rank(backup_severity) /\ b = Rank(verify_status) OBVIOUS
<1>3. Max({a, 0, b}) \in 0 .. 2
  <2>1. 0 \in 0 .. 2 /\ a \in 0 .. 2 /\ b \in 0 .. 2 /\ a <= a /\ 0 <= 0 /\ b <= b BY <1>1, <1>2
  <2> QED BY <2>1, WorstOfWorse
<1> QED BY <1>1, <1>2, <1>3 DEF overall_status

\* What a run leaves as it was: all, if no backup is kept, and always a failed verification.
LEMMA RunHealsNot ==
  ASSUME JudgeTypes, BackupRuns
  PROVE  /\ Kept' = Kept => overall_status' = overall_status
         /\ verify_status = "critical" => verify_status' = "critical"
<1>1. PICK x : backups' = backups \cup {x} /\ x.verify = "none"
  <2>1. PICK o \in {"ok", "failed", "stub"}, s \in {"pbs1", "nas"} :
          backups' = backups \cup {Backup(today, o, s, "none")}
    BY DEF BackupRuns
  <2>2. Backup(today, o, s, "none").verify = "none" BY DEF Backup
  <2> QED BY <2>1, <2>2
<1>2. UNCHANGED <<today, testDays, policy, required, gone>> BY DEF BackupRuns, Row
<1>3. PICK k, k2, n, g : k = Kept /\ k2 = Kept' /\ n = today /\ n = today' /\ g = gone /\ g = gone'
  BY <1>2
<1>4. ASSUME Kept' = Kept PROVE overall_status' = overall_status
  <2>1. k2 = k BY <1>3, <1>4
  <2>2. backup_severity' = backup_severity
    <3>1. status_backup_kind' = status_backup_kind BY <1>2 DEF status_backup_kind
    <3> QED BY <1>2, <1>4, <3>1 DEF backup_severity
  <2>3. verify_status' = verify_status
    <3>1. last_verified_at' = last_verified_at BY <1>4 DEF last_verified_at
    <3>2. verify_failed_at' = verify_failed_at BY <1>2, <1>4 DEF verify_failed_at
    <3>3. has_pbs' <=> has_pbs BY <1>4 DEF has_pbs
    <3> QED BY <1>2, <3>1, <3>2, <3>3 DEF verify_status
  <2>4. Rank(copy_status) = 0 BY PartsAreLevels
  <2>5. Rank(copy_status') = 0 BY DEF copy_status, Rank
  <2> QED BY <1>2, <2>2, <2>3, <2>4, <2>5 DEF overall_status
<1>5. ASSUME verify_status = "critical" PROVE verify_status' = "critical"
  <2>1. ~gone /\ has_pbs /\ verify_failed_at > 0 /\ verify_failed_at >= last_verified_at
    BY <1>5 DEF verify_status
  <2>2. k \subseteq k2 /\ \A b \in k2 : b.verify # "none" => b \in k BY <1>1, <1>3 DEF Kept
  <2>3. ~gone' /\ has_pbs' BY <1>2, <1>3, <2>1, <2>2 DEF has_pbs
  <2>4. {b \in k2 : b.verify = "ok"} = {b \in k : b.verify = "ok"} BY <2>2
  <2>5. {b \in k2 : b.verify = "failed" /\ b.day + FailedWindow >= n}
          = {b \in k : b.verify = "failed" /\ b.day + FailedWindow >= n}
    BY <2>2
  <2>6. last_verified_at' = last_verified_at BY <1>3, <2>4 DEF last_verified_at
  <2>7. verify_failed_at' = verify_failed_at BY <1>3, <2>5 DEF verify_failed_at
  <2> QED BY <2>1, <2>3, <2>6, <2>7 DEF verify_status
<1> QED BY <1>4, <1>5

\* A row that is rewritten: what it counts for before and after.
LEMMA RowRewritten ==
  ASSUME JudgeTypes, NEW b \in Kept, NEW c \in Backups, Changed(b, c), OnPbs(c),
         ~c.removed, c.status = "ok", c.day = b.day
  PROVE  /\ Kept' = (Kept \ {b}) \cup {c} /\ has_pbs' /\ c \in Kept'
         /\ today' = today /\ gone' = gone
         /\ \A d \in Kept' : d.day \in 1 .. today
<1>1. Row /\ backups' = (backups \ {b}) \cup {c} BY DEF Changed
<1>2. Kept' = (Kept \ {b}) \cup {c} BY <1>1 DEF Kept
<1>3. c \in Kept' BY <1>2
<1>4. has_pbs' BY <1>3 DEF has_pbs, OnPbs
<1>5. \A d \in Kept' : d.day \in 1 .. today BY <1>2, KeptDays
<1> QED BY <1>1, <1>2, <1>3, <1>4, <1>5 DEF Row

\* A copy changes nothing about the verification.
LEMMA CopyHealsNot ==
  ASSUME JudgeTypes, NEW b \in Kept, Copied(b), verify_status = "critical"
  PROVE  verify_status' = "critical"
<1>1. PICK c : c = [b EXCEPT !.on = @ \cup {"pbs2"}] OBVIOUS
<1>2. b \in Backups /\ b.status = "ok" /\ ~b.removed BY KeptDays DEF Kept
<1>3. c \in Backups /\ c.on = b.on \cup {"pbs2"} /\ c.day = b.day /\ c.verify = b.verify
      /\ c.status = "ok" /\ ~c.removed
  <2>1. b.on \cup {"pbs2"} \in SUBSET Servers BY <1>2 DEF Backups, Servers
  <2> QED BY <1>1, <1>2, <2>1 DEF Backups
<1>4. OnPbs(c) /\ Changed(b, c) BY <1>1, <1>3 DEF OnPbs, Copied
<1>5. /\ Kept' = (Kept \ {b}) \cup {c} /\ has_pbs' /\ today' = today /\ gone' = gone
  BY <1>3, <1>4, RowRewritten
<1>6. ~gone /\ verify_failed_at > 0 /\ verify_failed_at >= last_verified_at BY DEF verify_status
<1>7. \A P, Q : (\A d \in P : d # b => d \in Q) /\ (\A d \in Q : d # c => d \in P)
                 /\ (b \in P <=> c \in Q) /\ (c \in P => c \in Q) /\ (b \in Q => b \in P)
                 => Latest(Q) = Latest(P)
  <2> SUFFICES ASSUME NEW P, NEW Q, \A d \in P : d # b => d \in Q, \A d \in Q : d # c => d \in P,
                      b \in P <=> c \in Q
               PROVE  Latest(Q) = Latest(P)
    OBVIOUS
  <2>1. {d.day : d \in P} = {d.day : d \in Q} BY <1>3
  <2>2. P = {} <=> Q = {} BY <2>1
  <2> QED BY <2>1, <2>2 DEF Latest
<1>8. PICK k, k2, n : k = Kept /\ k2 = Kept' /\ n = today /\ n = today' BY <1>5
<1>9. k2 = (k \ {b}) \cup {c} /\ b \in k BY <1>5, <1>8
<1>10. Latest({d \in k2 : d.verify = "ok"}) = Latest({d \in k : d.verify = "ok"})
  <2>1. PICK P, Q : P = {d \in k : d.verify = "ok"} /\ Q = {d \in k2 : d.verify = "ok"} OBVIOUS
  <2> QED BY <1>3, <1>7, <1>9, <2>1
<1>11. Latest({d \in k2 : d.verify = "failed" /\ d.day + FailedWindow >= n})
         = Latest({d \in k : d.verify = "failed" /\ d.day + FailedWindow >= n})
  <2>1. PICK P, Q : /\ P = {d \in k : d.verify = "failed" /\ d.day + FailedWindow >= n}
                    /\ Q = {d \in k2 : d.verify = "failed" /\ d.day + FailedWindow >= n}
    OBVIOUS
  <2> QED BY <1>3, <1>7, <1>9, <2>1
<1>12. last_verified_at' = last_verified_at BY <1>8, <1>10 DEF last_verified_at
<1>13. verify_failed_at' = verify_failed_at BY <1>8, <1>11 DEF verify_failed_at
<1> QED BY <1>5, <1>6, <1>12, <1>13 DEF verify_status

\* A verification heals the failure only if it succeeds on a backup as late.
LEMMA VerifyHealsLater ==
  ASSUME JudgeTypes, NEW b \in Kept, Verified(b), verify_status = "critical",
         ~(last_verified_at' >= verify_failed_at)
  PROVE  verify_status' = "critical"
<1>1. PICK w \in {"ok", "failed"} \ {b.verify} : Changed(b, [b EXCEPT !.verify = w]) /\ OnPbs(b)
  BY DEF Verified
<1>2. PICK c : c = [b EXCEPT !.verify = w] OBVIOUS
<1>3. b \in Backups /\ b.status = "ok" /\ ~b.removed BY KeptDays DEF Kept
<1>4. c \in Backups /\ c.on = b.on /\ c.day = b.day /\ c.verify = w /\ c.status = "ok" /\ ~c.removed
  BY <1>2, <1>3 DEF Backups
<1>5. OnPbs(c) /\ Changed(b, c) BY <1>1, <1>2, <1>4 DEF OnPbs
<1>6. /\ Kept' = (Kept \ {b}) \cup {c} /\ has_pbs' /\ today' = today /\ gone' = gone
      /\ \A d \in Kept' : d.day \in 1 .. today
  BY <1>4, <1>5, RowRewritten
<1>7. ~gone /\ verify_failed_at > 0 /\ verify_failed_at >= last_verified_at BY DEF verify_status
<1>8. PICK k, k2, n, v, f, v2, f2 :
        /\ k = Kept /\ k2 = Kept' /\ n = today /\ n = today'
        /\ v = last_verified_at /\ f = verify_failed_at /\ v2 = last_verified_at' /\ f2 = verify_failed_at'
  BY <1>6
<1>9. PICK V, F, V2, F2 :
        /\ V = {d \in k : d.verify = "ok"} /\ V2 = {d \in k2 : d.verify = "ok"}
        /\ F = {d \in k : d.verify = "failed" /\ d.day + FailedWindow >= n}
        /\ F2 = {d \in k2 : d.verify = "failed" /\ d.day + FailedWindow >= n}
  OBVIOUS
<1>10. v = Latest(V) /\ f = Latest(F) /\ v2 = Latest(V2) /\ f2 = Latest(F2)
  BY <1>8, <1>9 DEF last_verified_at, verify_failed_at
<1>11. /\ n \in Nat /\ k2 = (k \ {b}) \cup {c} /\ b \in k
       /\ \A d \in k : d.day \in 1 .. n
       /\ \A d \in k2 : d.day \in 1 .. n
  BY <1>6, <1>8, KeptDays
<1>12. /\ \A d \in V : d.day \in 1 .. n
       /\ \A d \in F : d.day \in 1 .. n
       /\ \A d \in V2 : d.day \in 1 .. n
       /\ \A d \in F2 : d.day \in 1 .. n
  BY <1>9, <1>11
<1>13. v \in 0 .. n /\ v2 \in 0 .. n /\ f2 \in 0 .. n BY <1>10, <1>11, <1>12, LatestIsLargest
<1>14. f \in 0 .. n /\ (F # {} => \E d \in F : f = d.day) /\ (F = {} => f = 0)
  BY <1>10, <1>11, <1>12, LatestIsLargest
<1>15. f > 0 /\ f >= v /\ v2 < f BY <1>7, <1>8, <1>13, <1>14
<1>16. PICK e \in F : f = e.day BY <1>14, <1>15
<1>17. e # b
  <2>1. CASE w = "failed" BY <1>1, <1>9, <2>1
  <2>2. CASE w = "ok"
    <3>1. c \in V2 BY <1>4, <1>9, <1>11, <2>2
    <3>2. \A d \in V2 : d.day <= v2 BY <1>10, <1>11, <1>12, LatestIsLargest
    <3>3. b.day <= v2 /\ b.day \in 1 .. n BY <1>4, <1>11, <3>1, <3>2
    <3> QED BY <1>13, <1>14, <1>15, <1>16, <3>3
  <2> QED BY <2>1, <2>2
<1>18. e \in F2 BY <1>9, <1>11, <1>16, <1>17
<1>19. \A d \in F2 : d.day <= f2 BY <1>10, <1>11, <1>12, LatestIsLargest
<1>20. f2 > 0 /\ f2 >= v2 BY <1>13, <1>14, <1>15, <1>16, <1>18, <1>19
<1> QED BY <1>6, <1>7, <1>8, <1>20 DEF verify_status

\* BetterForCause (vm_governance_rows, _protection_status, be_latest, be_verify), for any
\* windows and any number of backups: what makes a guest look better is a kept backup, a
\* copy or a verification, or that it was deleted or is back - or one of the exceptions
\* FailureLapses, FailureRemoved and LastOnPbsRemoved, in which nothing was done for it.
\* The first of them is the code's seven days, against the comment in _protection_status.
THEOREM OnlyDeedsHeal == JudgeSpec => BetterForCause
<1>1. ASSUME JudgeTypes, JudgeTypes', DayPasses
      PROVE  /\ FailureLapses \/ overall_status' >= overall_status
             /\ Rank(restore_due_status') >= Rank(restore_due_status)
             /\ is_problem => is_problem' \/ FailureLapses
             /\ verify_status = "critical" => verify_status' = "critical" \/ FailureLapses
  <2>1. /\ Rank(backup_severity') >= Rank(backup_severity)
        /\ Rank(restore_due_status') >= Rank(restore_due_status)
        /\ \/ FailureLapses
           \/ /\ Rank(verify_status') >= Rank(verify_status)
              /\ verify_status = "critical" => verify_status' = "critical"
    BY <1>1, DayNeverHeals
  <2>2. ASSUME ~FailureLapses PROVE overall_status' >= overall_status
    <3>1. PICK g : gone = g /\ gone' = g BY <1>1 DEF DayPasses
    <3> QED BY <2>1, <2>2, <3>1, WholeOfParts
  <2>3. ASSUME is_problem, ~FailureLapses PROVE is_problem'
    <3>1. copy_status # "warning" BY PartsAreLevels
    <3>2. \/ backup_severity \in {"critical", "warning"} \/ restore_due_status = "critical"
          \/ verify_status \in {"critical", "warning"}
      BY <2>3, <3>1, Zenon DEF is_problem
    <3>3. backup_severity' \in Levels /\ verify_status' \in Levels /\ restore_due_status' \in Levels
      BY DEF backup_severity, verify_status, restore_due_status, Levels
    <3>4. \/ backup_severity' \in {"critical", "warning"} \/ restore_due_status' = "critical"
          \/ verify_status' \in {"critical", "warning"}
      <4>1. CASE backup_severity \in {"critical", "warning"}
        BY <2>1, <3>3, <4>1 DEF Rank, Levels
      <4>2. CASE verify_status \in {"critical", "warning"}
        BY <2>1, <2>3, <3>3, <4>2 DEF Rank, Levels
      <4>3. CASE restore_due_status = "critical"
        BY <2>1, <3>3, <4>3 DEF Rank, Levels
      <4> QED BY <3>2, <4>1, <4>2, <4>3
    <3> QED BY <3>4, Zenon DEF is_problem
  <2> QED BY <2>1, <2>2, <2>3
<1>2. ASSUME JudgeTypes, VerifiedOnPbs, NEW b \in Kept, Pruned(b)
      PROVE  /\ overall_status' >= overall_status \/ FailureRemoved \/ LastOnPbsRemoved
             /\ verify_status = "critical" => verify_status' = "critical" \/ FailureRemoved
  <2>1. CASE b.verify = "failed" BY <1>2, <2>1 DEF FailureRemoved
  <2>2. CASE b.verify # "failed" /\ has_pbs' = has_pbs
    <3>1. /\ Rank(backup_severity') >= Rank(backup_severity) /\ Rank(verify_status') >= Rank(verify_status)
          /\ verify_status = "critical" => verify_status' = "critical"
      BY <1>2, <2>2, LossHealsNot
    <3>2. PICK g : gone = g /\ gone' = g BY <1>2 DEF Pruned, Changed, Row
    <3>3. overall_status' >= overall_status BY <3>1, <3>2, WholeOfParts
    <3> QED BY <3>1, <3>3
  <2>3. CASE b.verify # "failed" /\ has_pbs' # has_pbs
    <3>1. /\ Kept' \subseteq Kept
          /\ \A d \in Kept : d # b => d \in Kept'
      <4>1. b \in Backups BY <1>2, KeptDays
      <4>2. [b EXCEPT !.removed = TRUE].removed BY <4>1 DEF Backups
      <4> QED BY <1>2, <4>2 DEF Pruned, Changed, Kept
    <3>2. has_pbs' => has_pbs BY <3>1 DEF has_pbs, OnPbs
    <3>3. (has_pbs \in BOOLEAN) /\ (has_pbs' \in BOOLEAN) BY DEF has_pbs
    <3>4. LastOnPbsRemoved BY <1>2, <2>3, <3>2, <3>3 DEF LastOnPbsRemoved
    <3>5. verify_status # "critical"
      <4> SUFFICES ASSUME verify_failed_at > 0 PROVE FALSE BY DEF verify_status
      <4>1. Fails # {} BY JudgedDays, <1>2 DEF Latest
      <4>2. PICK e \in Kept : e.verify = "failed" BY <4>1 DEF Fails
      <4>3. e \in Kept' /\ OnPbs(e) BY <1>2, <2>3, <3>1, <4>2 DEF VerifiedOnPbs, Kept
      <4>4. has_pbs' BY <4>3 DEF has_pbs, OnPbs
      <4> QED BY <3>4, <4>4 DEF LastOnPbsRemoved
    <3> QED BY <3>4, <3>5
  <2> QED BY <2>1, <2>2, <2>3
<1>3. ASSUME JudgeTypes, TestRecorded
      PROVE  overall_status' = overall_status /\ verify_status' = verify_status
  <2>1. UNCHANGED <<today, backups, policy, required, gone>> BY <1>3 DEF TestRecorded
  <2>2. Kept' = Kept BY <2>1 DEF Kept
  <2>3. verify_status' = verify_status
    <3>1. last_verified_at' = last_verified_at BY <2>2 DEF last_verified_at
    <3>2. verify_failed_at' = verify_failed_at BY <2>1, <2>2 DEF verify_failed_at
    <3>3. has_pbs' <=> has_pbs BY <2>2 DEF has_pbs
    <3> QED BY <2>1, <3>1, <3>2, <3>3 DEF verify_status
  <2>4. backup_severity' = backup_severity
    <3>1. status_backup_kind' = status_backup_kind BY <2>1 DEF status_backup_kind
    <3> QED BY <2>1, <2>2, <3>1 DEF backup_severity
  <2>5. Rank(copy_status) = 0 BY PartsAreLevels
  <2>6. Rank(copy_status') = 0 BY DEF copy_status, Rank
  <2> QED BY <2>1, <2>3, <2>4, <2>5, <2>6 DEF overall_status
<1>4. \A b \in backups : Copied(b) \/ Verified(b) \/ Pruned(b) => b \in Kept
  BY DEF Copied, Verified, Pruned
<1>5. overall_status \in 0 .. 2 /\ overall_status' \in 0 .. 2
  <2>1. overall_status \in 0 .. 2 BY OverallIsLevel
  <2>2. (overall_status \in 0 .. 2)' BY OverallIsLevel, PTL
  <2> QED BY <2>1, <2>2
<1>6. ASSUME JudgeTypes, JudgeTypes', VerifiedOnPbs, JudgeNext, overall_status' < overall_status
      PROVE  Deed \/ FailureLapses \/ FailureRemoved \/ LastOnPbsRemoved
  <2>1. PICK o, p : o = overall_status /\ p = overall_status' OBVIOUS
  <2>2. ~(p >= o) /\ p # o BY <1>5, <1>6, <2>1
  <2>3. CASE DayPasses BY <1>1, <1>6, <2>1, <2>2, <2>3
  <2>4. CASE BackupRuns BY <1>6, <2>1, <2>2, <2>4, RunHealsNot DEF Deed
  <2>5. CASE GuestGone BY <2>5 DEF Deed
  <2>6. CASE TestRecorded BY <1>3, <1>6, <2>1, <2>2, <2>6
  <2>7. ASSUME NEW b \in backups, Copied(b) \/ Verified(b) PROVE Deed BY <1>4, <2>7 DEF Deed
  <2>8. ASSUME NEW b \in backups, Pruned(b) PROVE FailureRemoved \/ LastOnPbsRemoved
    BY <1>2, <1>4, <1>6, <2>1, <2>2, <2>8
  <2> QED BY <1>6, <2>3, <2>4, <2>5, <2>6, <2>7, <2>8 DEF JudgeNext
<1>7. ASSUME JudgeTypes, JudgeTypes', JudgeNext, today' # today
      PROVE  /\ Rank(restore_due_status') >= Rank(restore_due_status)
             /\ is_problem => is_problem' \/ FailureLapses
  <2>1. DayPasses
    BY <1>7 DEF JudgeNext, BackupRuns, Row, GuestGone, TestRecorded, Copied, Verified, Pruned, Changed
  <2> QED BY <1>1, <1>7, <2>1
<1>8. ASSUME JudgeTypes, JudgeTypes', VerifiedOnPbs, JudgeNext,
             verify_status = "critical", verify_status' # "critical"
      PROVE  \/ (\E b \in Kept : Verified(b)) /\ last_verified_at' >= verify_failed_at
             \/ FailureLapses \/ FailureRemoved \/ GuestGone
  <2>1. CASE DayPasses BY <1>1, <1>8, <2>1
  <2>2. CASE BackupRuns BY <1>8, <2>2, RunHealsNot
  <2>3. CASE TestRecorded BY <1>3, <1>8, <2>3
  <2>4. ASSUME NEW b \in backups, Copied(b) PROVE FALSE BY <1>4, <1>8, <2>4, CopyHealsNot
  <2>5. ASSUME NEW b \in backups, Verified(b)
        PROVE  (\E d \in Kept : Verified(d)) /\ last_verified_at' >= verify_failed_at
    BY <1>4, <1>8, <2>5, VerifyHealsLater
  <2>6. ASSUME NEW b \in backups, Pruned(b) PROVE FailureRemoved BY <1>2, <1>4, <1>8, <2>6
  <2> QED BY <1>8, <2>1, <2>2, <2>3, <2>4, <2>5, <2>6 DEF JudgeNext
<1>9. JudgeTypes /\ JudgeTypes' /\ VerifiedOnPbs /\ [JudgeNext]_judgedVars
        => [~UNCHANGED judgedVars /\ overall_status' < overall_status =>
              Deed \/ FailureLapses \/ FailureRemoved \/ LastOnPbsRemoved]_judgedVars
  BY <1>6
<1>10. JudgeTypes /\ JudgeTypes' /\ [JudgeNext]_judgedVars
        => [today' # today => /\ Rank(restore_due_status') >= Rank(restore_due_status)
                              /\ is_problem => is_problem' \/ FailureLapses]_judgedVars
  BY <1>7
<1>11. JudgeTypes /\ JudgeTypes' /\ VerifiedOnPbs /\ [JudgeNext]_judgedVars
        => [~UNCHANGED judgedVars /\ verify_status = "critical" /\ verify_status' # "critical" =>
              \/ (\E b \in Kept : Verified(b)) /\ last_verified_at' >= verify_failed_at
              \/ FailureLapses \/ FailureRemoved \/ GuestGone]_judgedVars
  BY <1>8
<1> QED BY <1>9, <1>10, <1>11, JudgeTypesHold, VerifiedHold, PTL
     DEF JudgeSpec, BetterForCause, BetterForDeeds, DaysAddUp, FailureCounts

-----------------------------------------------------------------------------
(* TargetChoice: sums over sets of disks.                                      *)

\* A finite set of sets has one no other of them is part of.
LEMMA SmallestSet ==
  ASSUME NEW D, IsFiniteSet(D), NEW Sets \in SUBSET (SUBSET D), Sets # {}
  PROVE  \E A \in Sets : \A B \in Sets : B \subseteq A => B = A
<1> DEFINE sizes == {Cardinality(A) : A \in Sets}
<1>1. \A A \in Sets : IsFiniteSet(A) /\ Cardinality(A) \in Nat BY FS_Subset, FS_CardinalityType
<1>2. sizes \subseteq Nat /\ sizes # {} BY <1>1
<1>3. PICK n \in sizes : \A k \in sizes : ~(<<k, n>> \in OpToRel(<, Nat))
  <2> HIDE DEF sizes
  <2> QED BY <1>2, WFMin, NatLessThanWellFounded
<1>4. PICK A \in Sets : n = Cardinality(A) OBVIOUS
<1>5. ASSUME NEW B \in Sets, B \subseteq A, B # A PROVE FALSE
  <2>1. Cardinality(B) \in Nat /\ Cardinality(A) \in Nat /\ Cardinality(B) < Cardinality(A)
    BY <1>1, <1>5, FS_Subset
  <2>2. <<Cardinality(B), n>> \in OpToRel(<, Nat) BY <1>4, <2>1 DEF OpToRel
  <2>3. Cardinality(B) \in sizes OBVIOUS
  <2> QED BY <1>3, <2>2, <2>3
<1> QED BY <1>5

\* The sizes of the disks in S together.
Sum(d, S) == SumOf(S, LAMBDA i : d[i])

\* SumOf takes one disk at a time.
AnyOf(s) == CHOOSE x \in s : TRUE
Added(d, g, s) == IF s = {} THEN 0 ELSE d[AnyOf(s)] + g[s \ {AnyOf(s)}]

\* Sums of all parts of A.
Sums(d, A, g) == g = [s \in SUBSET A |-> Added(d, g, s)]

\* A sum is what such sums say of the whole.
LEMMA SumChosen ==
  ASSUME NEW d, NEW A
  PROVE  Sum(d, A) = (CHOOSE g : Sums(d, A, g))[A]
BY DEF Sum, Sums, SumOf, MapThenSumSet, MapThenFoldSet, Added, AnyOf

\* Sums of parts agree as far as they go.
LEMMA SumsAgree ==
  ASSUME NEW d, NEW B, IsFiniteSet(B), NEW A \in SUBSET B, NEW g, Sums(d, A, g), NEW h, Sums(d, B, h)
  PROVE  \A s \in SUBSET A : g[s] = h[s]
<1> DEFINE bad == {s \in SUBSET A : g[s] # h[s]}
<1> SUFFICES ASSUME bad # {} PROVE FALSE OBVIOUS
<1>1. PICK s \in bad : \A t \in bad : t \subseteq s => t = s
  <2>1. bad \in SUBSET (SUBSET B) OBVIOUS
  <2> HIDE DEF bad
  <2> QED BY <2>1, SmallestSet
<1>2. s \in SUBSET A /\ s \in SUBSET B /\ g[s] # h[s] OBVIOUS
<1>3. g[s] = Added(d, g, s) /\ h[s] = Added(d, h, s) BY <1>2 DEF Sums
<1>4. s # {} BY <1>2, <1>3 DEF Added
<1>5. s \ {AnyOf(s)} \subseteq s /\ s \ {AnyOf(s)} # s BY <1>4 DEF AnyOf
<1>6. g[s \ {AnyOf(s)}] = h[s \ {AnyOf(s)}] BY <1>1, <1>2, <1>5
<1> QED BY <1>2, <1>3, <1>6 DEF Added

\* Such sums exist, ...
LEMMA SumsExist ==
  ASSUME NEW d, NEW D, IsFiniteSet(D)
  PROVE  \A A \in SUBSET D : \E g : Sums(d, A, g)
<1> DEFINE bad == {A \in SUBSET D : ~\E g : Sums(d, A, g)}
<1> SUFFICES ASSUME bad # {} PROVE FALSE OBVIOUS
<1>1. PICK A \in bad : \A B \in bad : B \subseteq A => B = A
  <2>1. bad \in SUBSET (SUBSET D) OBVIOUS
  <2> HIDE DEF bad
  <2> QED BY <2>1, SmallestSet
<1> DEFINE c(B) == CHOOSE g : Sums(d, B, g)
           less(s) == s \ {AnyOf(s)}
           h == [s \in SUBSET A |-> IF s = {} THEN 0 ELSE d[AnyOf(s)] + c(less(s))[less(s)]]
<1>2. \A B \in SUBSET A : B # A => Sums(d, B, c(B))
  <2>1. \A B \in SUBSET A : B # A => \E g : Sums(d, B, g) BY <1>1
  <2> QED BY <2>1
<1>3. ASSUME NEW s \in SUBSET A PROVE h[s] = Added(d, h, s)
  <2>1. CASE s = {} BY <2>1 DEF Added
  <2>2. CASE s # {}
    <3> DEFINE t == less(s)
    <3>1. AnyOf(s) \in s BY <2>2 DEF AnyOf
    <3>2. t \in SUBSET A /\ t # A BY <3>1
    <3>3. c(t)[t] = Added(d, c(t), t)
      <4>1. Sums(d, t, c(t)) BY <1>2, <3>2
      <4> HIDE DEF c, t
      <4> QED BY <4>1 DEF Sums
    <3>4. c(t)[t] = h[t]
      <4>1. CASE t = {}
        <5>1. Added(d, c(t), t) = 0 /\ h[t] = 0 BY <3>2, <4>1 DEF Added
        <5> QED BY <3>3, <5>1
      <4>2. CASE t # {}
        <5>0. AnyOf(t) \in t BY <4>2 DEF AnyOf
        <5>1. less(t) \in SUBSET t /\ less(t) \in SUBSET A /\ less(t) # A BY <3>2, <5>0
        <5>2. Added(d, c(t), t) = d[AnyOf(t)] + c(t)[less(t)] BY <4>2 DEF Added
        <5>3. h[t] = d[AnyOf(t)] + c(less(t))[less(t)] BY <3>2, <4>2
        <5>4. c(less(t))[less(t)] = c(t)[less(t)]
          <6>1. Sums(d, t, c(t)) /\ Sums(d, less(t), c(less(t))) BY <1>2, <3>2, <5>1
          <6>2. IsFiniteSet(t) BY <3>2, FS_Subset
          <6> HIDE DEF c, t, less
          <6> QED BY <5>1, <6>1, <6>2, SumsAgree
        <5> QED BY <3>3, <5>2, <5>3, <5>4
      <4> QED BY <4>1, <4>2
    <3>5. h[s] = d[AnyOf(s)] + c(t)[t] BY <2>2
    <3> QED BY <2>2, <3>4, <3>5 DEF Added
  <2> QED BY <2>1, <2>2
<1>4. Sums(d, A, h)
  <2> HIDE DEF c, less
  <2> QED BY <1>3 DEF Sums
<1> QED BY <1>4

\* ... and a sum is one disk's size and the sum of the rest.
LEMMA SumSplits ==
  ASSUME NEW d, NEW A, IsFiniteSet(A)
  PROVE  Sum(d, A) = IF A = {} THEN 0 ELSE d[AnyOf(A)] + Sum(d, A \ {AnyOf(A)})
<1> DEFINE c(B) == CHOOSE g : Sums(d, B, g)
           B == A \ {AnyOf(A)}
<1>1. Sums(d, A, c(A)) /\ Sums(d, B, c(B))
  <2>1. (\E g : Sums(d, A, g)) /\ \E g : Sums(d, B, g) BY SumsExist
  <2> QED BY <2>1
<1>2. Sum(d, A) = c(A)[A] /\ Sum(d, B) = c(B)[B] BY SumChosen
<1> HIDE DEF c
<1>3. c(A)[B] = c(B)[B]
  <2>1. B \in SUBSET A /\ B \in SUBSET B /\ IsFiniteSet(A) OBVIOUS
  <2> HIDE DEF B
  <2>2. ASSUME NEW g, NEW h, Sums(d, B, g), Sums(d, A, h) PROVE \A s \in SUBSET B : g[s] = h[s]
    BY <2>1, <2>2, SumsAgree
  <2>3. \A s \in SUBSET B : c(B)[s] = c(A)[s] BY <1>1, <2>2
  <2> QED BY <2>1, <2>3
<1>4. c(A)[A] = Added(d, c(A), A) BY <1>1 DEF Sums
<1> QED BY <1>2, <1>3, <1>4 DEF Added

\* It is a natural, ...
LEMMA SumNat ==
  ASSUME NEW D, IsFiniteSet(D), NEW d \in [D -> Nat], NEW A \in SUBSET D
  PROVE  Sum(d, A) \in Nat
<1> DEFINE bad == {s \in SUBSET D : Sum(d, s) \notin Nat}
<1> SUFFICES ASSUME bad # {} PROVE FALSE OBVIOUS
<1>1. PICK s \in bad : \A t \in bad : t \subseteq s => t = s
  <2>1. bad \in SUBSET (SUBSET D) OBVIOUS
  <2> HIDE DEF bad
  <2> QED BY <2>1, SmallestSet
<1>2. IsFiniteSet(s) /\ s \in SUBSET D /\ Sum(d, s) \notin Nat BY FS_Subset
<1>3. s # {}
  <2>1. Sum(d, {}) = 0 BY FS_EmptySet, SumSplits
  <2> QED BY <1>2, <2>1
<1>4. AnyOf(s) \in s BY <1>3 DEF AnyOf
<1>5. Sum(d, s \ {AnyOf(s)}) \in Nat BY <1>1, <1>2, <1>4
<1>6. Sum(d, s) = d[AnyOf(s)] + Sum(d, s \ {AnyOf(s)}) BY <1>2, <1>3, SumSplits
<1> QED BY <1>2, <1>4, <1>5, <1>6

\* ... whichever disk is counted first, ...
LEMMA SumWithout ==
  ASSUME NEW D, IsFiniteSet(D), NEW d \in [D -> Nat], NEW A \in SUBSET D, NEW x \in A
  PROVE  Sum(d, A) = d[x] + Sum(d, A \ {x})
<1> DEFINE bad == {s \in SUBSET D : \E y \in s : Sum(d, s) # d[y] + Sum(d, s \ {y})}
<1> SUFFICES ASSUME bad # {} PROVE FALSE OBVIOUS
<1>1. PICK s \in bad : \A t \in bad : t \subseteq s => t = s
  <2>1. bad \in SUBSET (SUBSET D) OBVIOUS
  <2> HIDE DEF bad
  <2> QED BY <2>1, SmallestSet
<1>2. PICK y \in s : Sum(d, s) # d[y] + Sum(d, s \ {y}) OBVIOUS
<1>3. IsFiniteSet(s) /\ s \in SUBSET D /\ s # {} BY <1>2, FS_Subset
<1> DEFINE p == AnyOf(s)
<1>4. p \in s BY <1>3 DEF AnyOf
<1>5. Sum(d, s) = d[p] + Sum(d, s \ {p}) BY <1>3, SumSplits
<1>6. p # y BY <1>2, <1>5
<1>7. Sum(d, s \ {p}) = d[y] + Sum(d, (s \ {p}) \ {y})
  <2>1. s \ {p} \in SUBSET D /\ s \ {p} \notin bad /\ y \in s \ {p} BY <1>1, <1>3, <1>4, <1>6
  <2> QED BY <2>1
<1>8. Sum(d, s \ {y}) = d[p] + Sum(d, (s \ {y}) \ {p})
  <2>1. s \ {y} \in SUBSET D /\ s \ {y} \notin bad /\ p \in s \ {y} BY <1>1, <1>3, <1>4, <1>6
  <2> QED BY <2>1
<1>9. Sum(d, (s \ {p}) \ {y}) = Sum(d, (s \ {y}) \ {p})
  <2>1. (s \ {p}) \ {y} = (s \ {y}) \ {p} OBVIOUS
  <2> HIDE DEF p, bad
  <2> QED BY <2>1
<1>10. /\ d[p] \in Nat /\ d[y] \in Nat /\ Sum(d, (s \ {p}) \ {y}) \in Nat
  BY <1>2, <1>3, <1>4, SumNat
<1> HIDE DEF bad, p
<1> QED BY <1>2, <1>5, <1>7, <1>8, <1>9, <1>10

\* ... and more disks are no less.
LEMMA SumGrows ==
  ASSUME NEW D, IsFiniteSet(D), NEW d \in [D -> Nat], NEW A \in SUBSET D, NEW B \in SUBSET A
  PROVE  Sum(d, B) <= Sum(d, A)
<1> DEFINE bad == {s \in SUBSET A : B \subseteq s /\ ~(Sum(d, B) <= Sum(d, s))}
<1> SUFFICES ASSUME bad # {} PROVE FALSE OBVIOUS
<1>1. PICK s \in bad : \A t \in bad : t \subseteq s => t = s
  <2>1. bad \in SUBSET (SUBSET D) OBVIOUS
  <2> HIDE DEF bad
  <2> QED BY <2>1, SmallestSet
<1>2. s \in SUBSET D /\ B \in SUBSET D /\ Sum(d, s) \in Nat /\ Sum(d, B) \in Nat BY SumNat
<1>3. s # B BY <1>2
<1>4. PICK x \in s : x \notin B BY <1>3
<1>5. s \ {x} \notin bad /\ s \ {x} \in SUBSET A /\ B \subseteq s \ {x} BY <1>1, <1>4
<1>6. Sum(d, B) <= Sum(d, s \ {x}) BY <1>5
<1>7. Sum(d, s) = d[x] + Sum(d, s \ {x}) BY <1>2, SumWithout
<1>8. d[x] \in Nat /\ Sum(d, s \ {x}) \in Nat BY <1>2, SumNat
<1>9. ~(Sum(d, B) <= Sum(d, s)) OBVIOUS
<1> HIDE DEF bad
<1> QED BY <1>2, <1>6, <1>7, <1>8, <1>9

-----------------------------------------------------------------------------
(* TargetChoice: the search.                                                   *)

TargetTypes ==
    /\ total \in [Ticked -> Nat] /\ avail \in [Ticked -> Nat] /\ target \in [Ticked -> Nat]
    /\ listed \subseteq Ticked /\ disks \in Seq(Nat) /\ needed \in Nat
    /\ placed \in Seq(Ticked) /\ Len(placed) <= Len(disks) /\ next \in Nat \ {0}

Ways == [DOMAIN disks -> Ticked]
PutOn(f, s) == {i \in DOMAIN disks : f[i] = s}
Fits(f) == \A s \in Ticked : total[s] >= Sum(disks, PutOn(f, s))

\* The search is past f: where they part, f takes the earlier storage.
PastWay(f) ==
    \E k \in 1 .. Len(placed) + 1 :
        /\ k <= Len(disks)
        /\ \A i \in 1 .. k - 1 : f[i] = placed[i]
        /\ f[k] < IF k <= Len(placed) THEN placed[k] ELSE next

\* The search through the capacities passes no way that fits, so that none does when
\* it ends; and what is started has room.
TargetInv ==
    /\ TargetTypes
    /\ at = "total" => \A f \in Ways : PastWay(f) => ~Fits(f)
    /\ verdict = "refused" /\ disks # <<>> => \A f \in Ways : ~Fits(f)
    /\ verdict = "started" => at = "end" /\ StartedHasRoom

\* The disks are a function of finitely many places.
LEMMA DisksFinite ==
  ASSUME TargetTypes
  PROVE  /\ IsFiniteSet(DOMAIN disks) /\ disks \in [DOMAIN disks -> Nat]
         /\ DOMAIN disks = 1 .. Len(disks) /\ DOMAIN placed = 1 .. Len(placed)
         /\ DOMAIN placed \subseteq DOMAIN disks
<1>1. Len(disks) \in Nat /\ Len(placed) \in Nat /\ DOMAIN disks = 1 .. Len(disks) /\ DOMAIN placed = 1 .. Len(placed)
  BY DEF TargetTypes
<1>2. IsFiniteSet(DOMAIN disks) BY <1>1, FS_Interval
<1> QED BY <1>1, <1>2 DEF TargetTypes

\* A guest is given with what its disks need; nothing is placed or judged.
LEMMA TargetStarts == TargetInit => TargetInv
<1> SUFFICES ASSUME TargetInit PROVE TargetInv OBVIOUS
<1> USE TargetAssumption DEF TargetInit, TargetInputs, TargetStart
<1>1. disks \in Seq(Nat)
  <2>1. disks \in UNION {[1 .. m -> 1 .. MaxSpace - 1] : m \in 0 .. MaxDisks} BY DEF BoundedSeq, SeqOf
  <2>2. PICK m \in 0 .. MaxDisks : disks \in [1 .. m -> 1 .. MaxSpace - 1] BY <2>1
  <2> QED BY <2>2
<1>2. total \in [Ticked -> Nat] /\ avail \in [Ticked -> Nat] OBVIOUS
<1>3. listed \subseteq Ticked BY DEF Ticked
<1>4. target \in [Ticked -> Nat] BY DEF Nothing
<1>5. needed \in Nat
  <2>0. Len(disks) \in Nat /\ DOMAIN disks = 1 .. Len(disks) BY <1>1
  <2>1. IsFiniteSet(DOMAIN disks) /\ disks \in [DOMAIN disks -> Nat]
    <3>1. IsFiniteSet(1 .. Len(disks)) BY <2>0, FS_Interval
    <3> QED BY <1>1, <2>0, <3>1
  <2>2. Sum(disks, DOMAIN disks) \in Nat BY <2>1, SumNat
  <2>3. Whole = Sum(disks, DOMAIN disks) BY DEF Whole, Sum
  <2> QED BY <2>2, <2>3
<1>6. placed \in Seq(Ticked) /\ Len(placed) <= Len(disks) /\ next \in Nat \ {0} BY <1>1
<1> QED BY <1>1, <1>2, <1>3, <1>4, <1>5, <1>6 DEF TargetInv, TargetTypes

\* What is left of a storage.
LEMMA LeftIs ==
  ASSUME NEW s
  PROVE  Left(s) = Space[s] - Sum(disks, {i \in DOMAIN placed : placed[i] = s})
BY DEF Left, Sum

\* A storage without room for the next disk has none for any way that begins so.
LEMMA NoRoomNoWay ==
  ASSUME TargetTypes, at = "total", Len(placed) < Len(disks), next \in Ticked,
         Left(next) < disks[Len(placed) + 1],
         NEW f \in Ways, \A i \in 1 .. Len(placed) : f[i] = placed[i], f[Len(placed) + 1] = next
  PROVE  ~Fits(f)
<1> DEFINE k == Len(placed) + 1
           A == PutOn(f, next)
           B == {i \in DOMAIN placed : placed[i] = next}
<1>1. /\ IsFiniteSet(DOMAIN disks) /\ disks \in [DOMAIN disks -> Nat]
      /\ DOMAIN disks = 1 .. Len(disks) /\ DOMAIN placed = 1 .. Len(placed)
      /\ Len(disks) \in Nat /\ Len(placed) \in Nat
  BY DisksFinite DEF TargetTypes
<1>2. A \in SUBSET DOMAIN disks /\ k \in A /\ B \in SUBSET (A \ {k}) /\ A \ {k} \in SUBSET DOMAIN disks
  BY <1>1 DEF PutOn
<1>3. Left(next) = total[next] - Sum(disks, B) BY LeftIs DEF Space
<1> HIDE DEF A, B
<1>4. /\ Sum(disks, A) = disks[k] + Sum(disks, A \ {k})
      /\ Sum(disks, B) <= Sum(disks, A \ {k})
      /\ Sum(disks, A \ {k}) \in Nat /\ Sum(disks, B) \in Nat /\ disks[k] \in Nat
  <2>1. B \in SUBSET DOMAIN disks BY <1>2
  <2>2. disks[k] \in Nat BY <1>1, <1>2
  <2>3. Sum(disks, A) = disks[k] + Sum(disks, A \ {k}) BY <1>1, <1>2, SumWithout
  <2>4. Sum(disks, B) <= Sum(disks, A \ {k}) BY <1>1, <1>2, SumGrows
  <2>5. Sum(disks, A \ {k}) \in Nat /\ Sum(disks, B) \in Nat BY <1>1, <1>2, <2>1, SumNat
  <2> QED BY <2>2, <2>3, <2>4, <2>5
<1>5. total[next] \in Nat BY DEF TargetTypes
<1>6. total[next] < Sum(disks, A) BY <1>3, <1>4, <1>5
<1> QED BY <1>5, <1>4, <1>6 DEF Fits, A

\* What is before the last of a sequence.
LEMMA FrontTyped ==
  ASSUME NEW S, NEW s \in Seq(S), Len(s) >= 1
  PROVE  /\ SubSeq(s, 1, Len(s) - 1) \in Seq(S) /\ Len(SubSeq(s, 1, Len(s) - 1)) = Len(s) - 1
         /\ \A i \in 1 .. Len(s) - 1 : SubSeq(s, 1, Len(s) - 1)[i] = s[i]
<1> DEFINE n == Len(s) - 1
           t == SubSeq(s, 1, n)
<1>1. n \in Nat /\ n \in Int /\ 1 \in Int /\ \A i \in 1 .. n : s[i] \in S OBVIOUS
<1> HIDE DEF n
<1>2. /\ t \in Seq(S) /\ Len(t) = IF 1 <= n THEN n - 1 + 1 ELSE 0
      /\ \A i \in 1 .. n - 1 + 1 : t[i] = s[1 + i - 1]
  BY <1>1, SubSeqProperties
<1> HIDE DEF t
<1>3. Len(t) = n BY <1>1, <1>2
<1>4. \A i \in 1 .. n : t[i] = s[i]
  <2>1. n - 1 + 1 = n /\ \A i \in 1 .. n : 1 + i - 1 = i BY <1>1
  <2> QED BY <1>2, <2>1
<1> QED BY <1>2, <1>3, <1>4 DEF t, n

\* Every step keeps the types.
LEMMA TargetTyped ==
  ASSUME TargetTypes, TargetNext
  PROVE  TargetTypes'
<1> USE TargetAssumption DEF TargetTypes, guestVars
<1>0. /\ IsFiniteSet(DOMAIN disks) /\ disks \in [DOMAIN disks -> Nat] /\ DOMAIN placed \subseteq DOMAIN disks
      /\ Len(disks) \in Nat /\ Len(placed) \in Nat
  BY DisksFinite
<1>1. CASE ChooseTarget
  <2>1. \A s \in Ticked : Onto(s) \in [Ticked -> Nat] BY DEF Onto, Nothing
  <2>2. 1 \in Ticked BY DEF Ticked
  <2>3. \A S \in SUBSET Ticked : First(S) \in Ticked
    <3>1. ASSUME NEW S \in SUBSET Ticked, S # {} PROVE Min(S) \in Ticked
      <4>1. S \subseteq 1 .. Storages /\ Storages \in Nat BY DEF Ticked
      <4>2. Min(S) \in S BY <3>1, <4>1, SmallestIsThere
      <4> QED BY <4>2
    <3> QED BY <2>2, <3>1 DEF First
  <2>4. target' \in [Ticked -> Nat]
    <3>1. {s \in listed : avail[s] >= needed} \in SUBSET Ticked OBVIOUS
    <3> QED BY <1>1, <2>1, <2>2, <2>3, <3>1 DEF ChooseTarget
  <2> QED BY <1>1, <2>4 DEF ChooseTarget
<1>2. CASE DisksUnknown BY <1>2 DEF DisksUnknown
<1>3. CASE Pack
  <2>1. CASE GiveUp BY <1>0, <2>1 DEF GiveUp
  <2>2. CASE placed # <<>> /\ TakeBack
    <3>1. Len(placed) >= 1 BY <1>0, <2>2
    <3> DEFINE shorter == SubSeq(placed, 1, Len(placed) - 1)
    <3>2. placed' = shorter /\ next' = placed[Len(placed)] + 1 /\ UNCHANGED <<total, listed, disks, needed, avail, target>>
      BY <2>2 DEF TakeBack, Front, Last
    <3>3. shorter \in Seq(Ticked) /\ Len(shorter) = Len(placed) - 1 BY <3>1, FrontTyped
    <3>4. placed[Len(placed)] \in Ticked BY <1>0, <3>1
    <3>5. placed[Len(placed)] \in Nat BY <3>4 DEF Ticked
    <3>6. Len(placed') <= Len(disks)
      <4>1. Len(placed') = Len(placed) - 1 BY <3>2, <3>3
      <4>2. Len(placed) <= Len(disks) OBVIOUS
      <4> QED BY <1>0, <4>1, <4>2
    <3>7. next' \in Nat \ {0} BY <3>2, <3>5
    <3> HIDE DEF shorter
    <3> QED BY <3>2, <3>3, <3>6, <3>7
  <2>3. CASE next <= Storages /\ Len(placed) < Len(disks) /\ PlaceHere
    <3>1. next \in Ticked BY <2>3 DEF Ticked
    <3>2. Append(placed, next) \in Seq(Ticked) /\ Len(Append(placed, next)) = Len(placed) + 1 BY <3>1
    <3> QED BY <1>0, <2>3, <3>2 DEF PlaceHere
  <2>4. CASE PlaceNext BY <2>4 DEF PlaceNext
  <2>5. next > Storages \/ next <= Storages OBVIOUS
  <2> QED BY <1>3, <2>1, <2>2, <2>3, <2>4, <2>5, Zenon DEF Pack, NoPlace
<1>4. CASE Packed
  <2> DEFINE put(s) == {i \in DOMAIN placed : placed[i] = s}
  <2>1. \A s \in Ticked : Sum(disks, put(s)) \in Nat
    <3>1. \A s : put(s) \in SUBSET DOMAIN disks BY <1>0
    <3> HIDE DEF put
    <3> QED BY <1>0, <3>1, SumNat
  <2>2. Onto(1) \in [Ticked -> Nat] BY DEF Onto, Nothing
  <2>3. target' = IF at = "total" THEN Onto(1) ELSE [s \in Ticked |-> Sum(disks, put(s))]
    BY <1>4 DEF Packed, Sum
  <2>4. target' \in [Ticked -> Nat]
    <3> HIDE DEF put
    <3> QED BY <2>1, <2>2, <2>3
  <2>5. UNCHANGED <<total, listed, disks, needed, avail, placed, next>> BY <1>4 DEF Packed
  <2> QED BY <2>4, <2>5
<1>5. CASE SpaceChanges BY <1>5 DEF SpaceChanges
<1>6. CASE Check BY <1>6 DEF Check
<1> QED BY <1>1, <1>2, <1>3, <1>4, <1>5, <1>6 DEF TargetNext

\* No way that fits is passed.
LEMMA SearchPassesNone ==
  ASSUME TargetInv, at = "total", TargetNext, at' = "total"
  PROVE  \A f \in Ways : PastWay(f)' => ~Fits(f)
<1> USE TargetAssumption DEF TargetInv
<1> SUFFICES ASSUME NEW f \in Ways, PastWay(f)', Fits(f) PROVE FALSE OBVIOUS
<1>0. /\ DOMAIN disks = 1 .. Len(disks) /\ DOMAIN placed = 1 .. Len(placed) /\ f \in [1 .. Len(disks) -> Ticked]
      /\ Len(disks) \in Nat /\ Len(placed) \in Nat /\ next \in Nat /\ placed \in Seq(Ticked)
  BY DisksFinite DEF TargetTypes, Ways
<1>1. ~PastWay(f) OBVIOUS
<1>p. ASSUME NEW j \in 1 .. Len(placed) + 1, j <= Len(disks), \A i \in 1 .. j - 1 : f[i] = placed[i],
             f[j] < IF j <= Len(placed) THEN placed[j] ELSE next
      PROVE  FALSE
  BY <1>1, <1>p DEF PastWay
<1>2. Pack /\ UNCHANGED disks
  BY DEF TargetNext, ChooseTarget, DisksUnknown, Packed, SpaceChanges, Check, Packing, Pack, NoPlace, GiveUp, TakeBack,
         PlaceHere, PlaceNext, guestVars
<1>3. Len(placed) < Len(disks) BY <1>2 DEF Pack
<1>4. PICK k \in 1 .. Len(placed') + 1 :
        /\ k <= Len(disks) /\ \A i \in 1 .. k - 1 : f[i] = placed'[i]
        /\ f[k] < IF k <= Len(placed') THEN placed'[k] ELSE next'
  BY <1>2 DEF PastWay
<1>5. \A i \in 1 .. Len(disks) : f[i] \in Nat /\ f[i] >= 1 /\ f[i] <= Storages BY <1>0 DEF Ticked
<1>6. CASE GiveUp
  BY <1>0, <1>4, <1>5, <1>6 DEF GiveUp
<1>7. CASE next > Storages /\ placed # <<>> /\ TakeBack
  <2>1. /\ Len(placed) >= 1 /\ placed' = SubSeq(placed, 1, Len(placed) - 1) /\ next' = placed[Len(placed)] + 1
    BY <1>0, <1>7 DEF TakeBack, Front, Last
  <2>2. Len(placed') = Len(placed) - 1 /\ \A i \in 1 .. Len(placed) - 1 : placed'[i] = placed[i]
    BY <1>0, <2>1
  <2>3. k <= Len(placed) /\ \A i \in 1 .. k - 1 : f[i] = placed[i] BY <1>0, <1>4, <2>2
  <2>4. placed[Len(placed)] \in Nat /\ \A i \in 1 .. Len(placed) : placed[i] \in Nat BY <1>0, <2>1 DEF Ticked
  <2>0. k \in Nat BY <1>0, <2>2
  <2>5. CASE k <= Len(placed) - 1
    <3>1. f[k] < placed[k] BY <1>4, <2>2, <2>5
    <3>2. k \in 1 .. Len(placed) + 1 /\ k <= Len(placed) BY <1>0, <2>3, <2>5
    <3> QED BY <1>p, <1>4, <2>3, <3>1, <3>2
  <2>6. CASE k = Len(placed)
    <3>1. f[k] <= placed[k] BY <1>3, <1>4, <1>5, <2>1, <2>2, <2>4, <2>6
    <3>5. k \in 1 .. Len(placed) + 1 /\ k <= Len(placed) BY <1>0, <2>3, <2>6
    <3>2. CASE f[k] < placed[k] BY <1>p, <1>4, <2>3, <3>2, <3>5
    <3>3. CASE f[k] = placed[k]
      <4>1. \A i \in 1 .. Len(placed) : f[i] = placed[i] BY <1>0, <2>3, <2>6, <3>3
      <4>2. f[Len(placed) + 1] < next BY <1>0, <1>3, <1>5, <1>7
      <4>3. Len(placed) + 1 \in 1 .. Len(placed) + 1 /\ Len(placed) + 1 <= Len(disks) /\ ~(Len(placed) + 1 <= Len(placed))
        BY <1>0, <1>3
      <4>4. \A i \in 1 .. (Len(placed) + 1) - 1 : f[i] = placed[i] BY <1>0, <4>1
      <4> QED BY <1>p, <4>2, <4>3, <4>4
    <3>4. f[k] \in Nat /\ placed[k] \in Nat BY <1>4, <1>5, <2>4, <2>6
    <3> QED BY <3>1, <3>2, <3>3, <3>4
  <2>7. k <= Len(placed) - 1 \/ k = Len(placed)
    <3>1. k <= Len(placed) BY <2>3
    <3>2. Len(placed) \in Nat /\ k \in Nat BY <1>0, <2>0
    <3> QED BY <3>1, <3>2
  <2> QED BY <2>5, <2>6, <2>7
<1>8. CASE next <= Storages /\ Left(next) >= disks[Len(placed) + 1] /\ PlaceHere
  <2>1. placed' = Append(placed, next) /\ next' = 1 BY <1>8 DEF PlaceHere
  <2>2. Len(placed') = Len(placed) + 1 /\ placed'[Len(placed) + 1] = next /\ \A i \in 1 .. Len(placed) : placed'[i] = placed[i]
    BY <1>0, <2>1
  <2>3. k <= Len(placed) + 1 BY <1>0, <1>4, <1>5, <2>1, <2>2
  <2>4. \A i \in 1 .. k - 1 : f[i] = placed[i] BY <1>0, <1>4, <2>2, <2>3
  <2>5. f[k] < IF k <= Len(placed) THEN placed[k] ELSE next BY <1>0, <1>4, <2>2, <2>3
  <2>6. k \in 1 .. Len(placed) + 1 BY <1>0, <1>4, <2>3
  <2> QED BY <1>p, <1>4, <2>4, <2>5, <2>6
<1>9. CASE next <= Storages /\ ~(Left(next) >= disks[Len(placed) + 1]) /\ PlaceNext
  <2>1. placed' = placed /\ next' = next + 1 BY <1>9 DEF PlaceNext
  <2>2. CASE k <= Len(placed) BY <1>0, <1>1, <1>4, <2>1, <2>2 DEF PastWay
  <2>3. CASE k = Len(placed) + 1
    <3>1. f[k] < next + 1 /\ \A i \in 1 .. Len(placed) : f[i] = placed[i] BY <1>0, <1>4, <2>1, <2>3
    <3>2. CASE f[k] < next BY <1>0, <1>1, <1>4, <2>1, <2>3, <3>2 DEF PastWay
    <3>3. CASE f[k] = next
      <4>1. next \in Ticked BY <1>5, <1>4, <3>3 DEF Ticked
      <4>2. Left(next) < disks[Len(placed) + 1]
        <5>1. Left(next) \in Int
          <6> DEFINE B == {i \in DOMAIN placed : placed[i] = next}
          <6>1. B \in SUBSET DOMAIN disks BY DisksFinite
          <6> HIDE DEF B
          <6>2. Sum(disks, B) \in Nat BY <6>1, DisksFinite, SumNat
          <6>3. total[next] \in Nat BY <4>1 DEF TargetTypes
          <6>4. Left(next) = total[next] - Sum(disks, B) BY LeftIs DEF Space, B
          <6> QED BY <6>2, <6>3, <6>4
        <5>2. disks[Len(placed) + 1] \in Nat BY <1>0, <1>3 DEF TargetTypes
        <5> QED BY <1>9, <5>1, <5>2
      <4> QED BY <1>3, <2>3, <3>1, <3>3, <4>1, <4>2, NoRoomNoWay
    <3> QED BY <1>0, <1>4, <1>5, <3>1, <3>2, <3>3
  <2> QED BY <1>0, <1>4, <2>1, <2>2, <2>3
<1> QED BY <1>0, <1>2, <1>6, <1>7, <1>8, <1>9 DEF Pack, NoPlace

\* Every step keeps the invariant.
LEMMA TargetKeeps ==
  ASSUME TargetInv, TargetNext
  PROVE  TargetInv'
<1> USE TargetAssumption DEF TargetInv
<1>0. /\ DOMAIN disks = 1 .. Len(disks) /\ Len(disks) \in Nat /\ Len(placed) \in Nat /\ next \in Nat \ {0}
      /\ UNCHANGED <<total, listed, disks, needed>> /\ (Ways = Ways)' /\ Ways' = Ways /\ \A f : Fits(f)' = Fits(f)
  <2>1. UNCHANGED <<total, listed, disks, needed>>
    BY DEF TargetNext, ChooseTarget, DisksUnknown, Pack, Packed, SpaceChanges, Check, NoPlace, GiveUp, TakeBack,
         PlaceHere, PlaceNext, guestVars
  <2>2. \A f : Fits(f)' = Fits(f) BY <2>1 DEF Fits, PutOn
  <2> QED BY <2>1, <2>2, DisksFinite DEF TargetTypes, Ways
<1>1. TargetTypes' BY TargetTyped
<1>2. at' = "total" => \A f \in Ways' : PastWay(f)' => ~Fits(f)'
  <2>1. CASE at = "total" BY <1>0, <2>1, SearchPassesNone
  <2>2. CASE at # "total" /\ at' = "total"
    <3>1. placed' = <<>> /\ next' = 1
      BY <2>2 DEF TargetNext, ChooseTarget, DisksUnknown, Pack, Packed, SpaceChanges, Check, NoPlace, GiveUp, TakeBack,
                  PlaceHere, PlaceNext
    <3>2. ASSUME NEW f \in Ways PROVE ~PastWay(f)'
      <4>1. \A i \in 1 .. Len(disks) : f[i] \in Nat /\ f[i] >= 1 BY <1>0 DEF Ways, Ticked
      <4> QED BY <1>0, <3>1, <4>1 DEF PastWay
    <3> QED BY <1>0, <3>2
  <2> QED BY <2>1, <2>2
<1>3. verdict' = "refused" /\ disks' # <<>> => \A f \in Ways' : ~Fits(f)'
  <2>1. CASE verdict = "refused" BY <1>0, <2>1
  <2>2. CASE verdict # "refused" /\ verdict' = "refused" /\ disks # <<>>
    <3>1. at = "total" /\ placed = <<>> /\ next > Storages
      BY <2>2 DEF TargetNext, ChooseTarget, DisksUnknown, Pack, Packed, SpaceChanges, Check, NoPlace, GiveUp, TakeBack,
                  PlaceHere, PlaceNext, Packing
    <3>2. ASSUME NEW f \in Ways PROVE PastWay(f)
      <4>1. 1 \in 1 .. Len(disks) BY <1>0, <2>2 DEF TargetTypes
      <4>2. f[1] \in Nat /\ f[1] <= Storages BY <1>0, <4>1 DEF Ways, Ticked
      <4>3. f[1] < next BY <1>0, <3>1, <4>2
      <4>4. Len(placed) = 0 BY <3>1
      <4> QED BY <4>1, <4>3, <4>4 DEF PastWay
    <3> QED BY <1>0, <3>1, <3>2
  <2> QED BY <1>0, <2>1, <2>2
<1>4. verdict' = "started" => at' = "end" /\ StartedHasRoom'
  <2>1. CASE verdict = "started"
    <3>1. at = "end" BY <2>1
    <3>2. FALSE BY <3>1 DEF TargetNext, ChooseTarget, DisksUnknown, Pack, Packing, Packed, SpaceChanges, Check
    <3> QED BY <3>2
  <2>2. CASE verdict # "started" /\ verdict' = "started"
    <3>1. /\ at' = "end" /\ UNCHANGED <<avail, target>>
          /\ \A s \in Ticked : target[s] > 0 => FitsDisk(s)
      BY <2>2 DEF TargetNext, ChooseTarget, DisksUnknown, Pack, Packed, SpaceChanges, Check, NoPlace, GiveUp, TakeBack,
                  PlaceHere, PlaceNext
    <3>2. ASSUME NEW s \in listed, target[s] > 0, avail[s] > 0 PROVE avail[s] > target[s]
      <4>1. s \in Ticked /\ target[s] \in Nat /\ avail[s] \in Nat BY DEF TargetTypes
      <4>2. avail[s] * 5 >= target[s] * 6 BY <3>1, <3>2, <4>1 DEF FitsDisk
      <4> QED BY <3>2, <4>1, <4>2
    <3> QED BY <1>0, <3>1, <3>2 DEF StartedHasRoom
  <2> QED BY <2>1, <2>2
<1> QED BY <1>1, <1>2, <1>3, <1>4

\* TargetSound (choose_target_storage, plan_distribution, pack_disks, fits_disk), for any
\* number of storages and disks of any size: a restore is refused only if no arrangement of
\* its disks fits, and started only where it has room.
THEOREM PlacedWhereItFits == TargetSpec => []TargetSound
<1>1. TargetInv /\ [TargetNext]_targetVars => TargetInv'
  <2> SUFFICES ASSUME TargetInv, [TargetNext]_targetVars PROVE TargetInv' OBVIOUS
  <2>1. CASE UNCHANGED targetVars
    BY <2>1 DEF TargetInv, TargetTypes, Ways, PastWay, Fits, PutOn, StartedHasRoom, targetVars
  <2> QED BY <2>1, TargetKeeps
<1>2. TargetInv => TargetSound
  <2> SUFFICES ASSUME TargetInv PROVE TargetSound OBVIOUS
  <2>1. RefusedOnlyIfImpossible BY DEF TargetInv, RefusedOnlyIfImpossible, Ways, Fits, PutOn, Sum
  <2>2. StartedHasRoom BY DEF TargetInv, StartedHasRoom
  <2> QED BY <2>1, <2>2 DEF TargetSound
<1> QED BY <1>1, <1>2, TargetStarts, PTL DEF TargetSpec

-----------------------------------------------------------------------------
(* Topology: the search leaves no cycle among the edges it keeps, so they can be *)
(* ranked, and the rounds over them bring the columns to rest rank by rank.      *)
Src(k) == jobs[drawn[k]].src
Dst(k) == jobs[drawn[k]].dst

\* Any jobs between any namespaces, and any targets.
AnyInputs ==
    /\ jobs \in Seq(Job(Seq(Names))) /\ DOMAIN targets \subseteq Stores
    /\ \A s \in DOMAIN targets : targets[s].vms \in Nat /\ targets[s].ns \in Seq(Names)

\* What is drawn and still to be followed leads from datastore to datastore of the diagram.
FlowInv ==
    /\ AnyInputs
    /\ reached \subseteq Stores /\ (doing # "primary" => Used \subseteq reached)
    /\ queue \in Seq(Stores \X Seq(Names)) /\ \A k \in 1 .. Len(queue) : queue[k][1] \in reached
    /\ drawn \in Seq(DOMAIN jobs) /\ \A k \in 1 .. Len(drawn) : Src(k) \in reached /\ Dst(k) \in reached
    /\ looked \in Nat

\* The stack of the search is a path without a repetition.
StackIsPath ==
    /\ path \in Seq([node : Stores, rest : SUBSET Nat])
    /\ \A k \in 1 .. Len(path) :
         path[k].node \in reached \ done /\ path[k].rest \subseteq Out(path[k].node)
    /\ \A k, l \in 1 .. Len(path) : path[k].node = path[l].node => k = l
    /\ \A k \in 1 .. Len(path) - 1 :
         \E e \in DOMAIN drawn : Src(e) = path[k].node /\ Dst(e) = path[k + 1].node

\* An edge the search has looked at closes a cycle or leads to what is left, or up the stack.
LookedAt ==
    \A k \in 1 .. Len(path) : \A e \in Out(path[k].node) \ path[k].rest :
        \/ drawn[e] \in back \/ Dst(e) \in done
        \/ k < Len(path) /\ Dst(e) = path[k + 1].node

\* What is left can be ranked: every edge that closes no cycle leads to a lower rank.
Ranks(rank) ==
    /\ rank \in [done -> 0 .. Cardinality(done) - 1]
    /\ \A e \in DOMAIN drawn : Src(e) \in done /\ drawn[e] \notin back =>
         Dst(e) \in done /\ rank[Dst(e)] < rank[Src(e)]

BackCloses == \A i \in back : Leads(jobs[i].dst, jobs[i].src, ToSet(drawn))

\* The main target is where the search begins, and none of its edges closes a cycle.
Main(m) == m \in Stores /\ \A t \in Stores \ {m} : Vms(m) > Vms(t)
MainFirst ==
    /\ \A m \in Stores \ done : Main(m) =>
         (path = <<>> /\ done = {}) \/ (path # <<>> /\ path[1].node = m)
    /\ \A i \in back : Main(jobs[i].src) => jobs[i].dst = jobs[i].src

Untouched == path = <<>> /\ done = {} /\ back = {}

SearchInv ==
    /\ doing \in {"primary", "own"} => Untouched
    /\ done \subseteq reached /\ StackIsPath /\ LookedAt /\ BackCloses /\ MainFirst
    /\ \E rank : Ranks(rank)

\* In a round every copy down to its rank stands after its source; these come to rest first.
Stands(e) == layer[Src(e)] < layer[Dst(e)]
Settled(rank) ==
    \A e \in DOMAIN drawn : drawn[e] \notin back =>
        /\ rank[Dst(e)] >= Cardinality(reached) - round => Stands(e)
        /\ e <= looked /\ rank[Dst(e)] + 1 >= Cardinality(reached) - round => Stands(e)
        /\ e <= looked /\ ~changed => Stands(e)

ColumnInv ==
    /\ doing \in {"columns", "drawn"} => done = reached /\ layer \in [reached -> Nat]
    /\ doing = "columns" => /\ round \in Nat /\ looked <= Len(drawn)
                            /\ \E rank : Ranks(rank) /\ Settled(rank)
    /\ doing = "drawn" => \A e \in DOMAIN drawn : drawn[e] \notin back => Stands(e)

DiagramInv == FlowInv /\ SearchInv /\ ColumnInv

-----------------------------------------------------------------------------

LEMMA NamespacesTyped == Namespaces \subseteq Seq(Names)
<1>1. RootNs \in Seq(Names) BY DEF RootNs
<1>2. \A n \in Names : <<n>> \in Seq(Names) OBVIOUS
<1>3. \A n \in Namespaces : n = RootNs \/ \E m \in Names : n = <<m>> BY DEF Namespaces
<1> QED BY <1>1, <1>2, <1>3

LEMMA InputsTyped ==
  ASSUME TopologyInputs
  PROVE  AnyInputs
<1> USE TopologyAssumption
<1>1. /\ RootNs \in Seq(Names) /\ Namespaces \subseteq Seq(Names)
      /\ 1 \in Stores /\ 2 \in Stores
  BY NamespacesTyped DEF Stores, Namespaces
<1>a. PICK S : S = Job(Seq(Names)) OBVIOUS
<1>b. Job(Namespaces) \subseteq S /\ Job({RootNs}) \subseteq S BY <1>1, <1>a DEF Job
<1>2. CASE /\ jobs \in BoundedSeq(Job(Namespaces), NsJobs)
           /\ \E n \in Namespaces : targets = [t \in {1} |-> [ns |-> n, vms |-> 2]]
  <2>1. jobs \in Seq(S)
    <3>1. PICK m \in 0 .. NsJobs : jobs \in [1 .. m -> Job(Namespaces)] BY <1>2 DEF BoundedSeq, SeqOf
    <3>2. jobs \in [1 .. m -> S] BY <1>b, <3>1
    <3> QED BY <3>2
  <2>2. PICK n \in Namespaces : targets = [t \in {1} |-> [ns |-> n, vms |-> 2]] BY <1>2
  <2>3. n \in Seq(Names) BY <1>1
  <2> QED BY <1>1, <1>a, <2>1, <2>2, <2>3 DEF AnyInputs
<1>3. ASSUME NEW k \in 0 .. MaxJobs, NEW J \in kSubset(k, Job({RootNs})), jobs \in SetToSeqs(J),
             NEW s \in {1, 2}, NEW v \in {0, 2, 3},
             targets = [t \in {1, s} |-> [ns |-> RootNs, vms |-> IF t = 1 THEN 2 ELSE v]]
      PROVE  AnyInputs
  <2>1. jobs \in Seq(S)
    <3>1. Cardinality(J) \in Nat /\ J \subseteq Job({RootNs}) BY DEF kSubset
    <3>2. jobs \in [1 .. Cardinality(J) -> J] BY <1>3 DEF SetToSeqs
    <3>3. jobs \in [1 .. Cardinality(J) -> S] BY <1>b, <3>1, <3>2
    <3> QED BY <3>1, <3>3
  <2>2. DOMAIN targets = {1, s} BY <1>3
  <2>3. \A t \in {1, s} : targets[t].vms \in Nat /\ targets[t].ns = RootNs BY <1>3
  <2> QED BY <1>1, <1>a, <2>1, <2>2, <2>3 DEF AnyInputs
<1> QED BY <1>2, <1>3 DEF TopologyInputs

\* A search that has not begun is as it should be.
LEMMA FreshSearch == Untouched => SearchInv
<1> SUFFICES ASSUME Untouched PROVE SearchInv OBVIOUS
<1>1. done \subseteq reached /\ StackIsPath /\ LookedAt /\ BackCloses /\ MainFirst
  BY DEF Untouched, StackIsPath, LookedAt, BackCloses, MainFirst
<1>2. Ranks([s \in {} |-> 0])
  BY DEF Untouched, Ranks
<1> QED BY <1>1, <1>2 DEF SearchInv

LEMMA DiagramStarts == AnyInputs /\ TopologyStart => DiagramInv
<1> SUFFICES ASSUME AnyInputs, TopologyStart PROVE DiagramInv OBVIOUS
<1>1. FlowInv
  <2>1. doing = "primary" /\ reached = {} /\ queue = <<>> /\ drawn = <<>> /\ looked = 0
    BY DEF TopologyStart
  <2> QED BY <2>1 DEF FlowInv
<1>2. Untouched /\ doing = "primary" BY DEF TopologyStart, Untouched
<1>3. SearchInv BY <1>2, FreshSearch
<1> QED BY <1>1, <1>2, <1>3 DEF DiagramInv, ColumnInv

-----------------------------------------------------------------------------
LEMMA MapNsTyped ==
  ASSUME NEW d \in Seq(Names), NEW j \in Job(Seq(Names)) PROVE MapNs(d, j) \subseteq Seq(Names)
<1>1. j.sns \in Seq(Names) /\ j.dns \in Seq(Names) BY DEF Job
<1>2. PICK a : a = Len(j.sns) + 1 OBVIOUS
<1>3. a \in Nat \ {0} BY <1>1, <1>2
<1>4. SubSeq(d, a, Len(d)) \in Seq(Names)
  <2>1. \A k \in a .. Len(d) : d[k] \in Names BY <1>3
  <2> QED BY <1>3, <2>1
<1>5. j.dns \o SubSeq(d, a, Len(d)) \in Seq(Names) BY <1>1, <1>4
<1> QED BY <1>1, <1>2, <1>5 DEF MapNs

LEMMA ReachTyped ==
  ASSUME FlowInv, NEW s \in Stores, NEW ns \in Seq(Names), Reach(s, ns)
  PROVE  /\ reached' = reached \cup {s} /\ reached' \subseteq Stores
         /\ queue' \in Seq(Stores \X Seq(Names)) /\ \A k \in 1 .. Len(queue') : queue'[k][1] \in reached'
<1>1. reached' = reached \cup {s} BY DEF Reach
<1>2. reached' \subseteq Stores BY <1>1 DEF FlowInv
<1>3. CASE queue' = queue BY <1>1, <1>2, <1>3 DEF FlowInv
<1>4. CASE queue' = Append(queue, <<s, ns>>)
  <2>1. queue \in Seq(Stores \X Seq(Names)) /\ <<s, ns>> \in Stores \X Seq(Names) BY DEF FlowInv
  <2>2. PICK P : P = Stores \X Seq(Names) OBVIOUS
  <2>3. queue \in Seq(P) /\ <<s, ns>> \in P BY <2>1, <2>2
  <2>4. queue' \in Seq(P) /\ Len(queue') = Len(queue) + 1 BY <1>4, <2>3
  <2>5. \A k \in 1 .. Len(queue') : queue'[k] = IF k <= Len(queue) THEN queue[k] ELSE <<s, ns>>
    BY <1>4, <2>3, <2>4
  <2>6. \A k \in 1 .. Len(queue') : queue'[k][1] \in reached'
    <3> SUFFICES ASSUME NEW k \in 1 .. Len(queue') PROVE queue'[k][1] \in reached' OBVIOUS
    <3>1. CASE k <= Len(queue)
      <4>1. k \in 1 .. Len(queue) BY <2>3, <2>4, <3>1
      <4> QED BY <1>1, <2>5, <3>1, <4>1 DEF FlowInv
    <3>2. CASE ~(k <= Len(queue)) BY <1>1, <2>5, <3>2
    <3> QED BY <3>1, <3>2
  <2> QED BY <1>1, <1>2, <2>2, <2>4, <2>6
<1> QED BY <1>3, <1>4 DEF Reach

\* What is drawn may be followed further only while there is a walk.
LEMMA FollowTyped == ASSUME FlowInv, Follow PROVE FlowInv'
<1>1. PICK i, here : i = looked + 1 /\ here = Head(queue) OBVIOUS
<1>2. /\ i \in DOMAIN jobs /\ i \in Nat /\ looked' = i
      /\ UNCHANGED <<jobs, targets, doing>>
  BY <1>1 DEF Follow, FlowInv, inputs
<1>3. here \in Stores \X Seq(Names) /\ here[1] \in reached
  <2>1. PICK P : P = Stores \X Seq(Names) OBVIOUS
  <2>2. queue \in Seq(P) /\ queue # <<>> BY <2>1 DEF Follow, FlowInv
  <2>3. here = queue[1] /\ 1 \in 1 .. Len(queue) BY <1>1, <2>2
  <2>4. here \in P BY <2>2, <2>3
  <2> QED BY <2>1, <2>3, <2>4 DEF FlowInv
<1>4. Used' = Used BY <1>2 DEF Used
<1>5. PICK J : J = Job(Seq(Names)) OBVIOUS
<1>6. jobs \in Seq(J) BY <1>5 DEF FlowInv, AnyInputs
<1>7. jobs[i] \in Job(Seq(Names)) BY <1>2, <1>5, <1>6
<1>8. CASE jobs[i].src = here[1] /\ MapNs(here[2], jobs[i]) # {}
  <2>1. PICK ns \in MapNs(here[2], jobs[i]) : Reach(jobs[i].dst, ns) BY <1>1, <1>8 DEF Follow
  <2>2. ns \in Seq(Names) BY <1>3, <1>7, MapNsTyped
  <2>3. jobs[i].dst \in Stores BY <1>7 DEF Job
  <2>4. /\ reached' = reached \cup {jobs[i].dst} /\ reached' \subseteq Stores
        /\ queue' \in Seq(Stores \X Seq(Names)) /\ \A k \in 1 .. Len(queue') : queue'[k][1] \in reached'
    BY <2>1, <2>2, <2>3, ReachTyped
  <2>5. drawn' = drawn \/ drawn' = Append(drawn, i) BY <1>1, <1>8 DEF Follow
  <2>6. drawn' \in Seq(DOMAIN jobs) /\ \A k \in 1 .. Len(drawn') : Src(k)' \in reached' /\ Dst(k)' \in reached'
    <3>1. drawn \in Seq(DOMAIN jobs) /\ \A k \in 1 .. Len(drawn) : Src(k) \in reached /\ Dst(k) \in reached
      BY DEF FlowInv
    <3>2. CASE drawn' = drawn BY <1>2, <2>4, <3>1, <3>2 DEF Src, Dst
    <3>3. CASE drawn' = Append(drawn, i)
      <4>1. drawn' \in Seq(DOMAIN jobs) /\ Len(drawn') = Len(drawn) + 1 BY <1>2, <3>1, <3>3
      <4>2. \A k \in 1 .. Len(drawn') : drawn'[k] = IF k <= Len(drawn) THEN drawn[k] ELSE i
        BY <1>2, <3>1, <3>3, <4>1
      <4> SUFFICES ASSUME NEW k \in 1 .. Len(drawn') PROVE Src(k)' \in reached' /\ Dst(k)' \in reached'
        BY <4>1
      <4>3. Src(k)' = jobs[drawn'[k]].src /\ Dst(k)' = jobs[drawn'[k]].dst BY <1>2 DEF Src, Dst
      <4>4. CASE k <= Len(drawn)
        <5>1. k \in 1 .. Len(drawn) /\ drawn'[k] = drawn[k] BY <3>1, <4>1, <4>2, <4>4
        <5> QED BY <2>4, <3>1, <4>3, <5>1 DEF Src, Dst
      <4>5. CASE ~(k <= Len(drawn))
        <5>1. drawn'[k] = i BY <4>2, <4>5
        <5> QED BY <1>3, <1>8, <2>4, <4>3, <5>1
      <4> QED BY <4>4, <4>5
    <3> QED BY <2>5, <3>2, <3>3
  <2> QED BY <1>2, <1>4, <2>4, <2>6 DEF FlowInv, AnyInputs
<1>9. CASE ~(jobs[i].src = here[1] /\ MapNs(here[2], jobs[i]) # {})
  <2>1. UNCHANGED <<queue, reached, drawn>> BY <1>1, <1>9 DEF Follow
  <2> QED BY <1>2, <1>4, <2>1 DEF FlowInv, AnyInputs, Src, Dst
<1> QED BY <1>8, <1>9

LEMMA FlowKeeps == ASSUME FlowInv, [TopologyNext]_topologyVars PROVE FlowInv'
<1>1. UNCHANGED <<jobs, targets>> /\ Used' = Used
  <2>1. UNCHANGED inputs
    BY DEF TopologyNext, Primary, OwnStore, Follow, Followed, OwnStores, SearchCycles, EnterRoot,
           Leave, SearchOn, FirstColumn, Push, RoundEnds, topologyVars
  <2> QED BY <2>1 DEF inputs, Used
<1>2. CASE Primary \/ OwnStore
  <2>1. UNCHANGED <<drawn, doing, looked>> BY <1>2 DEF Primary, OwnStore
  <2>2. PICK s \in Stores, ns \in Seq(Names) : Reach(s, ns)
    <3>1. CASE Primary
      <4>1. PICK s \in Used \ reached : Reach(s, targets[s].ns) BY <3>1 DEF Primary
      <4>2. s \in DOMAIN targets BY <4>1 DEF Used
      <4> QED BY <4>1, <4>2 DEF FlowInv, AnyInputs
    <3>2. CASE OwnStore
      <4>1. PICK s \in Aside \ reached : Reach(s, RootNs) BY <3>2 DEF OwnStore
      <4>2. s \in Stores /\ RootNs \in Seq(Names) BY <4>1 DEF Aside, RootNs
      <4> QED BY <4>1, <4>2
    <3> QED BY <1>2, <3>1, <3>2
  <2>3. /\ reached' = reached \cup {s} /\ reached' \subseteq Stores
        /\ queue' \in Seq(Stores \X Seq(Names)) /\ \A k \in 1 .. Len(queue') : queue'[k][1] \in reached'
    BY <2>2, ReachTyped
  <2> QED BY <1>1, <2>1, <2>3 DEF FlowInv, AnyInputs, Src, Dst
<1>3. CASE Follow BY <1>3, FollowTyped
<1>4. CASE Followed
  <2>1. UNCHANGED <<drawn, doing, reached>> /\ looked' = 0 /\ queue' = Tail(queue) /\ queue # <<>>
    BY <1>4 DEF Followed
  <2>2. PICK P : P = Stores \X Seq(Names) OBVIOUS
  <2>3. queue \in Seq(P) /\ \A k \in 1 .. Len(queue) : queue[k][1] \in reached BY <2>2 DEF FlowInv
  <2>4. /\ queue' \in Seq(P) /\ Len(queue') = Len(queue) - 1
        /\ \A k \in 1 .. Len(queue') : queue'[k] = queue[k + 1]
    BY <2>1, <2>3
  <2>5. \A k \in 1 .. Len(queue') : queue'[k][1] \in reached BY <2>3, <2>4
  <2> QED BY <1>1, <2>1, <2>2, <2>4, <2>5 DEF FlowInv, AnyInputs, Src, Dst
<1>5. CASE \/ OwnStores \/ SearchCycles \/ EnterRoot \/ Leave \/ SearchOn \/ FirstColumn
           \/ Push \/ RoundEnds \/ UNCHANGED topologyVars
  <2>1. UNCHANGED <<drawn, reached, queue>>
    BY <1>5 DEF OwnStores, SearchCycles, EnterRoot, Leave, SearchOn, FirstColumn, Push, RoundEnds,
                topologyVars, walkVars
  <2>2. looked' \in {looked, 0, looked + 1}
    BY <1>5 DEF OwnStores, SearchCycles, EnterRoot, Leave, SearchOn, FirstColumn, Push, RoundEnds,
                topologyVars
  <2>3. looked' \in Nat BY <2>2 DEF FlowInv
  <2>4. doing' # "primary" => Used \subseteq reached
    BY <1>5 DEF OwnStores, SearchCycles, EnterRoot, Leave, SearchOn, FirstColumn, Push, RoundEnds,
                topologyVars, FlowInv, Walks
  <2> QED BY <1>1, <2>1, <2>3, <2>4 DEF FlowInv, AnyInputs, Src, Dst
<1> QED BY <1>2, <1>3, <1>4, <1>5 DEF TopologyNext

-----------------------------------------------------------------------------
\* While the search runs, what it searches stays.
LEMMA SearchFrame ==
  ASSUME UNCHANGED <<inputs, walkVars>>
  PROVE  /\ jobs' = jobs /\ drawn' = drawn /\ reached' = reached
         /\ \A s : Out(s)' = Out(s)
         /\ \A e : Src(e)' = Src(e) /\ Dst(e)' = Dst(e)
         /\ \A m : Main(m)' <=> Main(m)
         /\ \A i : Main(jobs[i].src)' <=> Main(jobs[i].src)
         /\ \A a, b, S : Leads(a, b, S)' <=> Leads(a, b, S)
<1>1. jobs' = jobs /\ targets' = targets /\ drawn' = drawn /\ reached' = reached BY DEF inputs, walkVars
<1>2. Used' = Used BY <1>1 DEF Used
<1>3. \A s : Vms(s)' = Vms(s) BY <1>1, <1>2 DEF Vms
<1>4. \A m : Main(m)' <=> Main(m) BY <1>3 DEF Main
<1>5. \A a, b, S : Leads(a, b, S)' <=> Leads(a, b, S) BY <1>1 DEF Leads
<1>6. \A i : Main(jobs[i].src)' <=> Main(jobs[i].src)
  <2>1. \A i : Vms(jobs[i].src)' = Vms(jobs[i].src) BY <1>1, <1>2 DEF Vms
  <2> QED BY <1>1, <1>3, <2>1 DEF Main
<1> QED BY <1>1, <1>4, <1>5, <1>6 DEF Out, Src, Dst

\* The stack holds each datastore at most once.
LEMMA StackShort == ASSUME FlowInv, StackIsPath PROVE Len(path) \in 0 .. MaxStores
<1>1. PICK n \in Nat : n = Len(path) BY DEF StackIsPath
<1>2. \A k \in 1 .. n : path[k].node \in Stores BY <1>1 DEF FlowInv, StackIsPath
<1>3. \A k, l \in 1 .. n : path[k].node = path[l].node => k = l BY <1>1 DEF StackIsPath
<1>4. PICK f : f = [k \in 1 .. n |-> path[k].node] OBVIOUS
<1>5. f \in Injection(1 .. n, Stores) BY <1>2, <1>3, <1>4 DEF Injection, IsInjective
<1>6. IsFiniteSet(Stores) /\ Cardinality(Stores) = MaxStores
  BY TopologyAssumption, FS_Interval DEF Stores
<1>7. Cardinality(1 .. n) = n BY FS_Interval
<1>8. n <= MaxStores BY <1>5, <1>6, <1>7, FS_Injection
<1> QED BY <1>1, <1>8, TopologyAssumption

\* An edge from the top of the stack down into it closes a cycle.
LEMMA StackCloses ==
  ASSUME FlowInv, StackIsPath, path # <<>>, NEW a \in OnPath
  PROVE  Leads(a, Last(path).node, ToSet(drawn))
<1>1. PICK n : n = Len(path) OBVIOUS
<1>2. n \in 1 .. MaxStores /\ DOMAIN path = 1 .. n
  <2>1. path \in Seq([node : Stores, rest : SUBSET Nat]) BY DEF StackIsPath
  <2>2. n # 0 /\ DOMAIN path = 1 .. n BY <1>1, <2>1
  <2> QED BY <1>1, <2>2, StackShort
<1>3. PICK k \in 1 .. n : path[k].node = a BY <1>2 DEF OnPath, ToSet
<1>4. PICK m : m = n - k + 1 OBVIOUS
<1>5. m \in 1 .. MaxStores /\ m \in Nat /\ \A l \in 1 .. m : k + l - 1 \in 1 .. n
  BY <1>2, <1>3, <1>4, TopologyAssumption
<1>6. PICK p : p = [l \in 1 .. m |-> path[k + l - 1].node] OBVIOUS
<1>7. p \in [1 .. m -> Stores]
  <2>1. \A l \in 1 .. n : path[l].node \in Stores BY <1>1 DEF FlowInv, StackIsPath
  <2> QED BY <1>5, <1>6, <2>1
<1>8. p[1] = a /\ p[m] = Last(path).node
  <2>1. 1 \in 1 .. m /\ m \in 1 .. m BY <1>5
  <2>2. k + 1 - 1 = k /\ k + m - 1 = n BY <1>2, <1>3, <1>4
  <2> QED BY <1>1, <1>3, <1>6, <2>1, <2>2 DEF Last
<1>9. ASSUME NEW l \in 1 .. m - 1
      PROVE  \E j \in ToSet(drawn) : jobs[j].src = p[l] /\ jobs[j].dst = p[l + 1]
  <2>1. PICK h : h = k + l - 1 OBVIOUS
  <2>2. h \in 1 .. n - 1 /\ l \in 1 .. m /\ l + 1 \in 1 .. m /\ h + 1 = k + (l + 1) - 1
    BY <1>2, <1>3, <1>4, <1>5, <2>1
  <2>3. PICK e \in DOMAIN drawn : Src(e) = path[h].node /\ Dst(e) = path[h + 1].node
    BY <1>1, <2>2 DEF StackIsPath
  <2>4. p[l] = path[h].node /\ p[l + 1] = path[h + 1].node BY <1>6, <2>1, <2>2
  <2>5. drawn[e] \in ToSet(drawn) BY <2>3 DEF ToSet
  <2> QED BY <2>3, <2>4, <2>5 DEF Src, Dst
<1> QED BY <1>5, <1>7, <1>8, <1>9 DEF Leads

-----------------------------------------------------------------------------
(* The steps of the search.                                                    *)

LEMMA RootEntered == ASSUME FlowInv, SearchInv, EnterRoot PROVE SearchInv'
<1>1. /\ UNCHANGED <<inputs, walkVars>> /\ doing' = "cycles" /\ path = <<>>
      /\ done' = done /\ back' = back
  BY DEF EnterRoot
<1>2. PICK s \in reached \ done : /\ \A t \in (reached \ done) \ {s} : Before(s, t)
                                  /\ path' = <<Entered(s)>>
  BY DEF EnterRoot
<1>3. /\ reached' = reached /\ drawn' = drawn /\ jobs' = jobs
      /\ \A t : Out(t)' = Out(t)
      /\ \A e : Src(e)' = Src(e) /\ Dst(e)' = Dst(e)
      /\ \A m : Main(m)' <=> Main(m)
      /\ \A i : Main(jobs[i].src)' <=> Main(jobs[i].src)
      /\ \A a, b, S : Leads(a, b, S)' <=> Leads(a, b, S)
  BY <1>1, SearchFrame
<1>4. s \in Stores /\ Out(s) \subseteq Nat
  <2>1. s \in Stores BY DEF FlowInv
  <2>2. DOMAIN drawn \subseteq Nat BY DEF FlowInv
  <2> QED BY <2>1, <2>2 DEF Out
<1>5. Len(path') = 1 /\ path'[1].node = s /\ path'[1].rest = Out(s) BY <1>2 DEF Entered
<1>6. StackIsPath'
  <2>1. path' \in Seq([node : Stores, rest : SUBSET Nat]) BY <1>2, <1>4 DEF Entered
  <2>2. \A k \in 1 .. Len(path') : k = 1 BY <1>5
  <2>3. \A k \in 1 .. Len(path') - 1 : FALSE BY <1>5
  <2> QED BY <1>1, <1>2, <1>3, <1>5, <2>1, <2>2, <2>3 DEF StackIsPath
<1>7. LookedAt'
  <2>1. \A k \in 1 .. Len(path') : k = 1 BY <1>5
  <2>2. \A k \in 1 .. Len(path') : (Out(path[k].node) \ path[k].rest)' = {}
    BY <1>3, <1>5, <2>1 DEF Out
  <2> QED BY <2>2 DEF LookedAt
<1>8. BackCloses' BY <1>1, <1>3 DEF BackCloses, SearchInv
<1>9. MainFirst'
  <2>1. ASSUME NEW m \in Stores \ done, Main(m) PROVE s = m
    <3>1. \A t \in Stores : Vms(t) \in Nat BY DEF FlowInv, AnyInputs, Vms, Used
    <3>2. m \in Used
      <4>1. PICK t \in Stores \ {m} : TRUE
        <5>1. 1 \in Stores /\ 2 \in Stores BY TopologyAssumption DEF Stores
        <5> QED BY <5>1
      <4>2. Vms(m) > Vms(t) /\ Vms(t) \in Nat /\ Vms(m) \in Nat BY <2>1, <3>1, <4>1 DEF Main
      <4>3. Vms(m) # 0 BY <4>2
      <4> QED BY <4>3 DEF Vms
    <3>3. m \in reached BY <3>2 DEF FlowInv, EnterRoot
    <3>4. ASSUME s # m PROVE FALSE
      <4>1. Before(s, m) BY <1>2, <2>1, <3>3, <3>4
      <4>2. Vms(m) > Vms(s) BY <1>4, <2>1, <3>4 DEF Main
      <4>3. Vms(m) \in Nat /\ Vms(s) \in Nat BY <1>4, <2>1, <3>1
      <4> QED BY <3>2, <4>1, <4>2, <4>3 DEF Before
    <3> QED BY <3>4
  <2>2. \A m \in Stores \ done' : Main(m)' => path' # <<>> /\ path'[1].node = m
    BY <1>1, <1>2, <1>3, <1>5, <2>1
  <2>3. \A i \in back' : Main(jobs[i].src)' => jobs'[i].dst = jobs'[i].src
    BY <1>1, <1>3 DEF SearchInv, MainFirst
  <2> QED BY <2>2, <2>3 DEF MainFirst
<1>10. \E rank : Ranks(rank)'
  <2>1. PICK rank : Ranks(rank) BY DEF SearchInv
  <2>2. Ranks(rank)' BY <1>1, <1>3, <2>1 DEF Ranks
  <2> QED BY <2>2
<1>11. done' \subseteq reached' BY <1>1, <1>3 DEF SearchInv
<1> QED BY <1>1, <1>6, <1>7, <1>8, <1>9, <1>10, <1>11 DEF SearchInv

\* A datastore without a further edge is left, and ranked above all left before.
LEMMA TopLeft == ASSUME FlowInv, SearchInv, Leave PROVE SearchInv'
<1>1. /\ UNCHANGED <<inputs, walkVars>> /\ doing' = "cycles" /\ back' = back
      /\ path # <<>> /\ Last(path).rest = {}
      /\ path' = Front(path) /\ done' = done \cup {Last(path).node}
  BY DEF Leave
<1>2. /\ reached' = reached /\ drawn' = drawn /\ jobs' = jobs
      /\ \A t : Out(t)' = Out(t)
      /\ \A e : Src(e)' = Src(e) /\ Dst(e)' = Dst(e)
      /\ \A m : Main(m)' <=> Main(m)
      /\ \A i : Main(jobs[i].src)' <=> Main(jobs[i].src)
      /\ \A a, b, S : Leads(a, b, S)' <=> Leads(a, b, S)
  BY <1>1, SearchFrame
<1>3. PICK R : R = [node : Stores, rest : SUBSET Nat] OBVIOUS
<1>4. path \in Seq(R) BY <1>3 DEF SearchInv, StackIsPath
<1>5. PICK n : n = Len(path) OBVIOUS
<1>6. n \in Nat \ {0} BY <1>1, <1>4, <1>5
<1>7. PICK top : top = path[n].node OBVIOUS
<1>8. /\ path' \in Seq(R) /\ Len(path') = n - 1
      /\ \A k \in 1 .. n - 1 : path'[k] = path[k]
      /\ path[n].rest = {} /\ done' = done \cup {top}
  BY <1>1, <1>4, <1>5, <1>6, <1>7 DEF Front, Last
<1>9. /\ \A k \in 1 .. n : path[k].node \in reached \ done /\ path[k].rest \subseteq Out(path[k].node)
      /\ \A k, l \in 1 .. n : path[k].node = path[l].node => k = l
      /\ \A k \in 1 .. n - 1 : \E e \in DOMAIN drawn : Src(e) = path[k].node /\ Dst(e) = path[k + 1].node
  BY <1>5 DEF SearchInv, StackIsPath
<1>10. top \in reached \ done BY <1>6, <1>7, <1>9
<1>11. done \subseteq reached /\ done' \subseteq reached' BY <1>2, <1>8, <1>10 DEF SearchInv
<1>12. StackIsPath'
  <2>1. ASSUME NEW k \in 1 .. n - 1
        PROVE  path[k].node \in reached' \ done' /\ path[k].rest \subseteq Out(path[k].node)
    <3>1. k \in 1 .. n /\ n \in 1 .. n /\ k # n BY <1>6
    <3>2. path[k].node # top BY <1>7, <1>9, <3>1
    <3> QED BY <1>2, <1>8, <1>9, <3>1, <3>2
  <2>2. \A k \in 1 .. n - 1 : path'[k].node \in reached' \ done' /\ path'[k].rest \subseteq Out(path[k].node)'
    <3> SUFFICES ASSUME NEW k \in 1 .. n - 1
                 PROVE  path'[k].node \in reached' \ done' /\ path'[k].rest \subseteq Out(path[k].node)'
      OBVIOUS
    <3>1. path'[k] = path[k] BY <1>8
    <3>2. Out(path[k].node)' = Out(path[k].node) BY <1>2, <3>1 DEF Out
    <3> QED BY <2>1, <3>1, <3>2
  <2>3. \A k, l \in 1 .. n - 1 : path'[k].node = path'[l].node => k = l
    <3>1. \A k \in 1 .. n - 1 : k \in 1 .. n BY <1>6
    <3> QED BY <1>8, <1>9, <3>1
  <2>4. \A k \in 1 .. n - 1 - 1 :
          \E e \in DOMAIN drawn' : Src(e)' = path'[k].node /\ Dst(e)' = path'[k + 1].node
    <3> SUFFICES ASSUME NEW k \in 1 .. n - 1 - 1
                 PROVE  \E e \in DOMAIN drawn' : Src(e)' = path'[k].node /\ Dst(e)' = path'[k + 1].node
      OBVIOUS
    <3>1. k \in 1 .. n - 1 /\ k + 1 \in 1 .. n - 1 BY <1>6
    <3> QED BY <1>2, <1>8, <1>9, <3>1
  <2> QED BY <1>3, <1>8, <2>2, <2>3, <2>4 DEF StackIsPath
<1>13. LookedAt'
  <2> SUFFICES ASSUME NEW k \in 1 .. n - 1, NEW e \in Out(path[k].node) \ path[k].rest
               PROVE  drawn[e] \in back \/ Dst(e) \in done' \/ (k < n - 1 /\ Dst(e) = path'[k + 1].node)
    <3>1. \A k \in 1 .. n - 1 : (Out(path[k].node) \ path[k].rest)' = Out(path[k].node) \ path[k].rest
      BY <1>2, <1>8 DEF Out
    <3> QED BY <1>1, <1>2, <1>8, <3>1 DEF LookedAt
  <2>1. k \in 1 .. n BY <1>6
  <2>2. drawn[e] \in back \/ Dst(e) \in done \/ (k < n /\ Dst(e) = path[k + 1].node)
    BY <1>5, <2>1 DEF SearchInv, LookedAt
  <2>3. CASE k = n - 1
    <3>1. k + 1 = n BY <1>6, <2>3
    <3> QED BY <1>7, <1>8, <2>2, <3>1
  <2>4. CASE k < n - 1
    <3>1. k + 1 \in 1 .. n - 1 BY <1>6, <2>4
    <3> QED BY <1>8, <2>2, <2>4, <3>1
  <2> QED BY <1>6, <2>3, <2>4
<1>14. BackCloses' BY <1>1, <1>2 DEF BackCloses, SearchInv
<1>15. MainFirst'
  <2>1. ASSUME NEW m \in Stores \ done', Main(m) PROVE path' # <<>> /\ path'[1].node = m
    <3>1. m # top /\ m \in Stores \ done BY <1>8, <2>1
    <3>2. path[1].node = m BY <1>1, <2>1, <3>1 DEF SearchInv, MainFirst
    <3>3. n # 1 BY <1>7, <3>1, <3>2
    <3>4. 1 \in 1 .. n - 1 BY <1>6, <3>3
    <3> QED BY <1>8, <3>2, <3>4
  <2>2. \A i \in back' : Main(jobs[i].src)' => jobs'[i].dst = jobs'[i].src
    BY <1>1, <1>2 DEF SearchInv, MainFirst
  <2> QED BY <1>2, <2>1, <2>2 DEF MainFirst
<1>16. \E rank : Ranks(rank)'
  <2>1. PICK rank : Ranks(rank) BY DEF SearchInv
  <2>2. PICK c \in Nat : c = Cardinality(done) /\ Cardinality(done') = c + 1
    <3>1. IsFiniteSet(reached)
      <4>1. IsFiniteSet(Stores)
        <5>1. 1 \in Int /\ MaxStores \in Int BY TopologyAssumption
        <5> QED BY <5>1, FS_Interval DEF Stores
      <4> QED BY <4>1, FS_Subset DEF FlowInv
    <3>2. IsFiniteSet(done) BY <1>11, <3>1, FS_Subset
    <3>3. Cardinality(done) \in Nat /\ Cardinality(done \cup {top}) = Cardinality(done) + 1
      BY <1>10, <3>2, FS_CardinalityType, FS_AddElement
    <3> QED BY <1>8, <3>3
  <2>3. PICK up : up = [t \in done' |-> IF t \in done THEN rank[t] ELSE c] OBVIOUS
  <2>4. \A t \in done : rank[t] \in 0 .. c - 1 BY <2>1, <2>2 DEF Ranks
  <2>5. up \in [done' -> 0 .. c] BY <2>2, <2>3, <2>4
  <2>6. ASSUME NEW e \in DOMAIN drawn, Src(e) \in done', drawn[e] \notin back
        PROVE  Dst(e) \in done' /\ up[Dst(e)] < up[Src(e)]
    <3>1. CASE Src(e) \in done
      <4>1. Dst(e) \in done /\ rank[Dst(e)] < rank[Src(e)] BY <2>1, <2>6, <3>1 DEF Ranks
      <4> QED BY <1>8, <2>3, <3>1, <4>1
    <3>2. CASE Src(e) = top
      <4>1. e \in Out(top) BY <3>2 DEF Out, Src
      <4>2. Dst(e) \in done
        <5>1. n \in 1 .. n /\ ~(n < n) BY <1>6
        <5>2. e \in Out(path[n].node) \ path[n].rest BY <1>7, <1>8, <4>1
        <5> QED BY <1>5, <2>6, <5>1, <5>2 DEF SearchInv, LookedAt
      <4>3. up[Dst(e)] = rank[Dst(e)] /\ rank[Dst(e)] \in 0 .. c - 1 /\ Dst(e) \in done'
        BY <1>8, <2>3, <2>4, <4>2
      <4>4. up[Src(e)] = c BY <1>8, <1>10, <2>3, <3>2
      <4> QED BY <2>2, <4>3, <4>4
    <3> QED BY <1>8, <2>6, <3>1, <3>2
  <2>7. Ranks(up)'
    <3>1. Cardinality(done') - 1 = c BY <2>2
    <3> QED BY <1>1, <1>2, <2>5, <2>6, <3>1 DEF Ranks
  <2> QED BY <2>7
<1> QED BY <1>1, <1>11, <1>12, <1>13, <1>14, <1>15, <1>16 DEF SearchInv

\* The next edge is looked at: it closes a cycle, or leads on, or to what is left.
LEMMA EdgeSearched == ASSUME FlowInv, SearchInv, SearchOn PROVE SearchInv'
<1>1. /\ UNCHANGED <<inputs, walkVars>> /\ doing' = "cycles" /\ done' = done
      /\ path # <<>> /\ Last(path).rest # {}
  BY DEF SearchOn
<1>2. /\ reached' = reached /\ drawn' = drawn /\ jobs' = jobs
      /\ \A t : Out(t)' = Out(t)
      /\ \A e : Src(e)' = Src(e) /\ Dst(e)' = Dst(e)
      /\ \A m : Main(m)' <=> Main(m)
      /\ \A i : Main(jobs[i].src)' <=> Main(jobs[i].src)
      /\ \A a, b, S : Leads(a, b, S)' <=> Leads(a, b, S)
  BY <1>1, SearchFrame
<1>3. PICK R : R = [node : Stores, rest : SUBSET Nat] OBVIOUS
<1>4. path \in Seq(R) BY <1>3 DEF SearchInv, StackIsPath
<1>5. PICK n : n = Len(path) OBVIOUS
<1>6. n \in Nat \ {0} /\ DOMAIN path = 1 .. n BY <1>1, <1>4, <1>5
<1>7. PICK top, rest : top = path[n].node /\ rest = path[n].rest OBVIOUS
<1>8. /\ \A k \in 1 .. n : path[k].node \in reached \ done /\ path[k].rest \subseteq Out(path[k].node)
      /\ \A k, l \in 1 .. n : path[k].node = path[l].node => k = l
      /\ \A k \in 1 .. n - 1 : \E e \in DOMAIN drawn : Src(e) = path[k].node /\ Dst(e) = path[k + 1].node
  BY <1>5 DEF SearchInv, StackIsPath
<1>9. /\ path[n] \in R /\ top \in reached \ done /\ top \in Stores
      /\ rest \subseteq Out(top) /\ rest # {} /\ rest \subseteq Nat
  <2>1. n \in 1 .. n BY <1>6
  <2>2. path[n] \in R BY <1>4, <1>5, <2>1
  <2> QED BY <1>1, <1>3, <1>5, <1>7, <1>8, <2>1, <2>2 DEF Last
<1>10. PICK e0 : e0 = Min(rest) OBVIOUS
<1>11. e0 \in rest
  <2>1. drawn \in Seq(DOMAIN jobs) BY DEF FlowInv
  <2>2. Len(drawn) \in Nat /\ rest \subseteq 1 .. Len(drawn) BY <1>9, <2>1 DEF Out
  <2> QED BY <1>9, <1>10, <2>2, SmallestIsThere
<1>12. PICK i, dst : i = drawn[e0] /\ dst = jobs[i].dst OBVIOUS
<1>13. /\ e0 \in DOMAIN drawn /\ Src(e0) = top /\ Dst(e0) = dst /\ jobs[i].src = top
  BY <1>9, <1>11, <1>12 DEF Out, Src, Dst
<1>14. dst \in reached /\ dst \in Stores
  <2>1. e0 \in 1 .. Len(drawn)
    <3>1. drawn \in Seq(DOMAIN jobs) BY DEF FlowInv
    <3> QED BY <1>13, <3>1
  <2> QED BY <1>13, <2>1 DEF FlowInv
<1>15. PICK after : after = [path EXCEPT ![Len(path)].rest = rest \ {e0}] OBVIOUS
<1>16. /\ after \in Seq(R) /\ Len(after) = n
       /\ \A k \in 1 .. n : after[k].node = path[k].node
       /\ \A k \in 1 .. n : after[k].rest = IF k = n THEN rest \ {e0} ELSE path[k].rest
  <2>1. PICK p : p = [path[n] EXCEPT !.rest = rest \ {e0}] OBVIOUS
  <2>2. p \in R /\ p.node = top /\ p.rest = rest \ {e0} BY <1>3, <1>7, <1>9, <2>1
  <2>3. after = [k \in 1 .. n |-> IF k = n THEN p ELSE path[k]] BY <1>5, <1>6, <1>15, <2>1
  <2>4. \A k \in 1 .. n : after[k] \in R /\ after[k] = IF k = n THEN p ELSE path[k]
    BY <1>4, <1>5, <2>2, <2>3
  <2>5. after \in Seq(R) /\ Len(after) = n BY <1>6, <2>3, <2>4
  <2> QED BY <1>7, <2>2, <2>4, <2>5
<1>17. /\ back' = (IF dst \in OnPath THEN back \cup {i} ELSE back)
       /\ path' = IF dst \in OnPath \cup done THEN after ELSE Append(after, Entered(dst))
  <2>1. Last(path).rest = rest /\ i = drawn[Min(Last(path).rest)] /\ dst = jobs[drawn[Min(Last(path).rest)]].dst
    BY <1>5, <1>7, <1>10, <1>12 DEF Last
  <2> QED BY <1>10, <1>12, <1>15, <2>1 DEF SearchOn
<1>18. OnPath = {path[k].node : k \in 1 .. n} BY <1>6 DEF OnPath, ToSet
<1>19. done \subseteq reached /\ done' \subseteq reached' BY <1>1, <1>2 DEF SearchInv
<1>20. PICK fresh : fresh = (dst \notin OnPath \cup done) OBVIOUS
<1>21. /\ path' \in Seq(R) /\ Len(path') = IF fresh THEN n + 1 ELSE n
       /\ \A k \in 1 .. n : path'[k].node = path[k].node
       /\ \A k \in 1 .. n : path'[k].rest = IF k = n THEN rest \ {e0} ELSE path[k].rest
       /\ fresh => path'[n + 1].node = dst /\ path'[n + 1].rest = Out(dst)
  <2>1. CASE ~fresh BY <1>16, <1>17, <1>20, <2>1
  <2>2. CASE fresh
    <3>1. PICK p : p = Entered(dst) OBVIOUS
    <3>2. p.node = dst /\ p.rest = Out(dst) BY <3>1 DEF Entered
    <3>3. Out(dst) \subseteq Nat
      <4>1. DOMAIN drawn \subseteq Nat BY DEF FlowInv
      <4> QED BY <4>1 DEF Out
    <3>4. p \in R BY <1>3, <1>14, <3>1, <3>3 DEF Entered
    <3>5. path' = Append(after, p) BY <1>17, <1>20, <2>2, <3>1
    <3>6. path' \in Seq(R) /\ Len(path') = n + 1 BY <1>16, <3>4, <3>5
    <3>7. (\A k \in 1 .. n : path'[k] = after[k]) /\ path'[n + 1] = p BY <1>6, <1>16, <3>4, <3>5
    <3> QED BY <1>16, <2>2, <3>2, <3>6, <3>7
  <2> QED BY <2>1, <2>2
<1>22. StackIsPath'
  <2>1. \A k \in 1 .. Len(path') : k \in 1 .. n \/ (fresh /\ k = n + 1) BY <1>6, <1>21
  <2>2. ASSUME NEW k \in 1 .. Len(path')
        PROVE  path'[k].node \in reached' \ done' /\ path'[k].rest \subseteq Out(path[k].node)'
    <3>1. Out(path[k].node)' = {e \in DOMAIN drawn : jobs[drawn[e]].src = path'[k].node} BY <1>2 DEF Out
    <3>2. CASE k \in 1 .. n
      <4>1. path'[k].rest \subseteq path[k].rest BY <1>7, <1>21, <3>2
      <4> QED BY <1>1, <1>2, <1>8, <1>21, <3>1, <3>2, <4>1 DEF Out
    <3>3. CASE fresh /\ k = n + 1
      <4>1. dst \notin done BY <1>20, <3>3
      <4> QED BY <1>1, <1>2, <1>14, <1>21, <3>1, <3>3, <4>1 DEF Out
    <3> QED BY <2>1, <3>2, <3>3
  <2>3. ASSUME NEW k \in 1 .. Len(path'), NEW l \in 1 .. Len(path'), path'[k].node = path'[l].node
        PROVE  k = l
    <3>1. fresh => \A m \in 1 .. n : path'[m].node # path'[n + 1].node BY <1>18, <1>20, <1>21
    <3>2. CASE k \in 1 .. n /\ l \in 1 .. n BY <1>8, <1>21, <2>3, <3>2
    <3>3. CASE k \in 1 .. n /\ l = n + 1 /\ fresh BY <2>3, <3>1, <3>3
    <3>4. CASE l \in 1 .. n /\ k = n + 1 /\ fresh BY <2>3, <3>1, <3>4
    <3> QED BY <2>1, <3>2, <3>3, <3>4
  <2>4. ASSUME NEW k \in 1 .. Len(path') - 1
        PROVE  \E e \in DOMAIN drawn' : Src(e)' = path'[k].node /\ Dst(e)' = path'[k + 1].node
    <3>1. CASE k \in 1 .. n - 1
      <4>1. k \in 1 .. n /\ k + 1 \in 1 .. n BY <1>6, <3>1
      <4>2. PICK e \in DOMAIN drawn : Src(e) = path[k].node /\ Dst(e) = path[k + 1].node BY <1>8, <3>1
      <4> QED BY <1>2, <1>21, <4>1, <4>2
    <3>2. CASE k = n /\ fresh
      <4>1. path'[k].node = top /\ path'[k + 1].node = dst BY <1>6, <1>7, <1>21, <3>2
      <4> QED BY <1>2, <1>13, <4>1
    <3> QED BY <1>6, <1>21, <3>1, <3>2
  <2> QED BY <1>3, <1>21, <2>2, <2>3, <2>4 DEF StackIsPath
<1>23. LookedAt'
  <2>1. ASSUME NEW k \in 1 .. Len(path'), NEW e \in (Out(path[k].node) \ path[k].rest)'
        PROVE  drawn[e] \in back' \/ Dst(e) \in done \/ (k < Len(path') /\ Dst(e) = path'[k + 1].node)
    <3>1. e \in DOMAIN drawn /\ jobs[drawn[e]].src = path'[k].node /\ e \notin path'[k].rest
      BY <1>2 DEF Out
    <3>2. back \subseteq back' BY <1>17
    <3>3. CASE k \in 1 .. n /\ e \in path[k].rest
      <4>1. k = n /\ e = e0 BY <1>7, <1>21, <3>1, <3>3
      <4>2. drawn[e] = i /\ Dst(e) = dst BY <1>12, <1>13, <4>1
      <4>3. CASE dst \in OnPath BY <1>17, <4>2, <4>3
      <4>4. CASE dst \in done BY <4>2, <4>4
      <4>5. CASE fresh
        <5>1. k < Len(path') /\ path'[k + 1].node = dst BY <1>6, <1>21, <4>1, <4>5
        <5> QED BY <4>2, <5>1
      <4> QED BY <1>20, <4>3, <4>4, <4>5
    <3>4. CASE k \in 1 .. n /\ e \notin path[k].rest
      <4>1. e \in Out(path[k].node) \ path[k].rest BY <1>21, <3>1, <3>4 DEF Out
      <4>2. drawn[e] \in back \/ Dst(e) \in done \/ (k < n /\ Dst(e) = path[k + 1].node)
        BY <1>5, <3>4, <4>1 DEF SearchInv, LookedAt
      <4>3. k < n => k + 1 \in 1 .. n /\ k < Len(path') BY <1>6, <1>21, <3>4
      <4> QED BY <1>21, <3>2, <4>2, <4>3
    <3>5. CASE ~(k \in 1 .. n)
      <4>1. fresh /\ k = n + 1 BY <1>6, <1>21, <3>5
      <4>2. path'[k].node = dst /\ path'[k].rest = Out(dst) BY <1>21, <4>1
      <4> QED BY <3>1, <4>2 DEF Out
    <3> QED BY <3>3, <3>4, <3>5
  <2> QED BY <1>1, <1>2, <2>1 DEF LookedAt
<1>24. BackCloses'
  <2>1. dst \in OnPath => Leads(dst, top, ToSet(drawn))
    <3>1. Last(path).node = top BY <1>5, <1>7 DEF Last
    <3> QED BY <1>1, <3>1, StackCloses DEF SearchInv
  <2>2. \A k \in back' : Leads(jobs[k].dst, jobs[k].src, ToSet(drawn))
    BY <1>12, <1>13, <1>17, <2>1 DEF SearchInv, BackCloses
  <2>3. \A k : Leads(jobs[k].dst, jobs[k].src, ToSet(drawn))' <=> Leads(jobs[k].dst, jobs[k].src, ToSet(drawn))
    BY <1>2 DEF Leads
  <2> QED BY <1>2, <2>2, <2>3 DEF BackCloses
<1>25. MainFirst'
  <2>1. 1 \in 1 .. n /\ path'[1].node = path[1].node /\ path' # <<>>
    <3>1. 1 \in 1 .. n /\ Len(path') # 0 BY <1>6, <1>21
    <3> QED BY <1>21, <3>1
  <2>2. \A m \in Stores \ done' : Main(m)' => path' # <<>> /\ path'[1].node = m
    BY <1>1, <1>2, <2>1 DEF SearchInv, MainFirst
  <2>3. ASSUME Main(top), dst \in OnPath PROVE dst = top
    <3>1. path[1].node = top BY <1>1, <1>9, <2>3 DEF SearchInv, MainFirst
    <3>2. n = 1
      <4>1. n \in 1 .. n BY <1>6
      <4> QED BY <1>7, <1>8, <2>1, <3>1, <4>1
    <3> QED BY <1>7, <1>18, <2>3, <3>2
  <2>4. \A k \in back' : Main(jobs[k].src) => jobs[k].dst = jobs[k].src
    BY <1>12, <1>13, <1>17, <2>3 DEF SearchInv, MainFirst
  <2>5. \A k \in back' : Main(jobs[k].src)' => jobs'[k].dst = jobs'[k].src
    BY <1>2, <2>4
  <2> QED BY <2>2, <2>5 DEF MainFirst
<1>26. \E rank : Ranks(rank)'
  <2>1. PICK rank : Ranks(rank) BY DEF SearchInv
  <2>2. back \subseteq back' BY <1>17
  <2>3. Ranks(rank)' BY <1>1, <1>2, <2>1, <2>2 DEF Ranks
  <2> QED BY <2>3
<1> QED BY <1>1, <1>19, <1>22, <1>23, <1>24, <1>25, <1>26 DEF SearchInv

LEMMA SearchStays ==
  ASSUME SearchInv, UNCHANGED <<inputs, walkVars, searchVars>>,
         doing' \in {"primary", "own"} => doing' = doing
  PROVE  SearchInv'
<1>1. path' = path /\ done' = done /\ back' = back BY DEF searchVars
<1>2. /\ reached' = reached /\ drawn' = drawn /\ jobs' = jobs
      /\ \A t : Out(t)' = Out(t)
      /\ \A e : Src(e)' = Src(e) /\ Dst(e)' = Dst(e)
      /\ \A m : Main(m)' <=> Main(m)
      /\ \A i : Main(jobs[i].src)' <=> Main(jobs[i].src)
      /\ \A a, b, S : Leads(a, b, S)' <=> Leads(a, b, S)
  BY SearchFrame
<1>3. \A k : Out(path[k].node)' = Out(path[k].node) BY <1>1, <1>2 DEF Out
<1>4. StackIsPath' BY <1>1, <1>2, <1>3 DEF SearchInv, StackIsPath
<1>5. LookedAt' BY <1>1, <1>2, <1>3 DEF SearchInv, LookedAt
<1>6. BackCloses'
  <2>1. \A k : Leads(jobs[k].dst, jobs[k].src, ToSet(drawn))' <=> Leads(jobs[k].dst, jobs[k].src, ToSet(drawn))
    BY <1>2 DEF Leads
  <2> QED BY <1>1, <1>2, <2>1 DEF SearchInv, BackCloses
<1>7. MainFirst' BY <1>1, <1>2 DEF SearchInv, MainFirst
<1>8. \E rank : Ranks(rank)'
  <2>1. PICK rank : Ranks(rank) BY DEF SearchInv
  <2>2. Ranks(rank)' BY <1>1, <1>2, <2>1 DEF Ranks
  <2> QED BY <2>2
<1>9. doing' \in {"primary", "own"} => Untouched' BY <1>1 DEF SearchInv, Untouched
<1>10. done' \subseteq reached' BY <1>1, <1>2 DEF SearchInv
<1> QED BY <1>4, <1>5, <1>6, <1>7, <1>8, <1>9, <1>10 DEF SearchInv

LEMMA SearchKeeps == ASSUME FlowInv, SearchInv, [TopologyNext]_topologyVars PROVE SearchInv'
<1>1. ASSUME Untouched, UNCHANGED searchVars PROVE SearchInv'
  <2>1. Untouched' BY <1>1 DEF Untouched, searchVars
  <2> QED BY <2>1, FreshSearch, PTL
<1>2. CASE Primary \/ OwnStore \/ Follow \/ Followed \/ OwnStores \/ SearchCycles
  <2>1. doing \in {"primary", "own"} /\ UNCHANGED searchVars
    BY <1>2 DEF Primary, OwnStore, Follow, Followed, OwnStores, SearchCycles, Walks
  <2> QED BY <1>1, <2>1 DEF SearchInv
<1>3. CASE EnterRoot BY <1>3, RootEntered
<1>4. CASE Leave BY <1>4, TopLeft
<1>5. CASE SearchOn BY <1>5, EdgeSearched
<1>6. CASE FirstColumn \/ Push \/ RoundEnds \/ UNCHANGED topologyVars
  <2>1. UNCHANGED <<inputs, walkVars, searchVars>>
    BY <1>6 DEF FirstColumn, Push, RoundEnds, topologyVars
  <2>2. doing' = doing \/ doing' \in {"columns", "drawn"}
    BY <1>6 DEF FirstColumn, Push, RoundEnds, topologyVars
  <2> QED BY <2>1, <2>2, SearchStays
<1> QED BY <1>2, <1>3, <1>4, <1>5, <1>6 DEF TopologyNext

-----------------------------------------------------------------------------
(* The columns come to rest in order of rank, one rank or more in each round.  *)

\* What _layers relies on: the edges that remain can be ranked by fewer numbers
\* than there are datastores.
LEMMA Ranked ==
  ASSUME FlowInv, NEW rank, Ranks(rank), done = reached
  PROVE  /\ Cardinality(reached) \in Nat
         /\ \A e \in DOMAIN drawn : drawn[e] \notin back =>
              /\ rank[Src(e)] \in 0 .. Cardinality(reached) - 1
              /\ rank[Dst(e)] \in 0 .. Cardinality(reached) - 1
              /\ rank[Dst(e)] < rank[Src(e)]
              /\ Src(e) \in reached /\ Dst(e) \in reached /\ e \in Nat
<1>1. Cardinality(reached) \in Nat
  <2>1. 1 \in Int /\ MaxStores \in Int BY TopologyAssumption
  <2>2. IsFiniteSet(Stores) BY <2>1, FS_Interval DEF Stores
  <2>3. IsFiniteSet(reached) BY <2>2, FS_Subset DEF FlowInv
  <2> QED BY <2>3, FS_CardinalityType
<1>2. DOMAIN drawn = 1 .. Len(drawn) /\ DOMAIN drawn \subseteq Nat
  <2>1. drawn \in Seq(DOMAIN jobs) BY DEF FlowInv
  <2> QED BY <2>1
<1>3. ASSUME NEW e \in DOMAIN drawn, drawn[e] \notin back
      PROVE  /\ rank[Src(e)] \in 0 .. Cardinality(reached) - 1
             /\ rank[Dst(e)] \in 0 .. Cardinality(reached) - 1
             /\ rank[Dst(e)] < rank[Src(e)]
             /\ Src(e) \in reached /\ Dst(e) \in reached /\ e \in Nat
  <2>1. Src(e) \in reached /\ Dst(e) \in reached /\ e \in Nat BY <1>2 DEF FlowInv
  <2>2. \A t \in reached : rank[t] \in 0 .. Cardinality(reached) - 1 BY DEF Ranks
  <2> QED BY <1>3, <2>1, <2>2 DEF Ranks
<1> QED BY <1>1, <1>3

LEMMA ColumnsBegin == ASSUME DiagramInv, FirstColumn PROVE ColumnInv'
<1>1. /\ UNCHANGED <<inputs, walkVars, searchVars>> /\ doing' = "columns" /\ looked' = 0
      /\ layer' = [s \in reached |-> 1] /\ round' = 1 /\ changed' = FALSE /\ done = reached
  BY DEF FirstColumn, DiagramInv, SearchInv
<1>2. /\ reached' = reached /\ drawn' = drawn /\ done' = done /\ back' = back
      /\ \A e : Src(e)' = Src(e) /\ Dst(e)' = Dst(e)
  BY <1>1, SearchFrame DEF searchVars
<1>3. PICK rank : Ranks(rank) BY DEF DiagramInv, SearchInv
<1>4. Ranks(rank)' BY <1>2, <1>3 DEF Ranks
<1>5. PICK c : c = Cardinality(reached) OBVIOUS
<1>6. c \in Nat /\ \A e \in DOMAIN drawn : drawn[e] \notin back =>
        rank[Src(e)] \in 0 .. c - 1 /\ rank[Dst(e)] < rank[Src(e)] /\ rank[Dst(e)] \in 0 .. c - 1 /\ e \in Nat
  BY <1>1, <1>3, <1>5, Ranked DEF DiagramInv
<1>7. Settled(rank)'
  <2> SUFFICES ASSUME NEW e \in DOMAIN drawn, drawn[e] \notin back
               PROVE  ~(rank[Dst(e)] >= c - 1) /\ ~(e <= 0)
    BY <1>1, <1>2, <1>5 DEF Settled
  <2>1. e # 0
    <3>1. drawn \in Seq(DOMAIN jobs) BY DEF DiagramInv, FlowInv
    <3> QED BY <3>1
  <2>2. PICK a, b : a = rank[Src(e)] /\ b = rank[Dst(e)] OBVIOUS
  <2>3. a \in 0 .. c - 1 /\ b \in 0 .. c - 1 /\ b < a /\ e \in Nat BY <1>6, <2>2
  <2>4. ~(b >= c - 1) BY <1>6, <2>3
  <2> QED BY <2>1, <2>2, <2>3, <2>4
<1>8. drawn \in Seq(DOMAIN jobs) BY DEF DiagramInv, FlowInv
<1>9. looked' <= Len(drawn') /\ round' \in Nat BY <1>1, <1>2, <1>8
<1>10. layer' \in [reached' -> Nat] BY <1>1, <1>2
<1> QED BY <1>1, <1>2, <1>4, <1>7, <1>9, <1>10 DEF ColumnInv

LEMMA EdgePushes == ASSUME DiagramInv, Push PROVE ColumnInv'
<1>1. /\ UNCHANGED <<inputs, walkVars, searchVars>> /\ doing = "columns" /\ doing' = "columns"
      /\ looked < Len(drawn) /\ looked' = looked + 1 /\ round' = round
  BY DEF Push
<1>2. /\ reached' = reached /\ drawn' = drawn /\ done' = done /\ back' = back
      /\ \A e : Src(e)' = Src(e) /\ Dst(e)' = Dst(e)
  BY <1>1, SearchFrame DEF searchVars
<1>3. done = reached /\ layer \in [reached -> Nat] /\ round \in Nat /\ looked \in Nat
  BY <1>1 DEF DiagramInv, ColumnInv, FlowInv
<1>4. PICK rank : Ranks(rank) /\ Settled(rank) BY <1>1 DEF DiagramInv, ColumnInv
<1>5. Ranks(rank)' BY <1>2, <1>4 DEF Ranks
<1>6. PICK c : c = Cardinality(reached) OBVIOUS
<1>7. c \in Nat /\ \A e \in DOMAIN drawn : drawn[e] \notin back =>
        /\ rank[Src(e)] \in 0 .. c - 1 /\ rank[Dst(e)] \in 0 .. c - 1 /\ rank[Dst(e)] < rank[Src(e)]
        /\ Src(e) \in reached /\ Dst(e) \in reached /\ e \in Nat
  BY <1>3, <1>4, <1>6, Ranked DEF DiagramInv
<1>8. PICK now : now = looked + 1 OBVIOUS
<1>9. /\ now \in DOMAIN drawn /\ now \in Nat /\ Src(now) \in reached /\ Dst(now) \in reached
      /\ looked' <= Len(drawn')
  <2>1. drawn \in Seq(DOMAIN jobs) BY DEF DiagramInv, FlowInv
  <2>2. now \in 1 .. Len(drawn) BY <1>1, <1>3, <1>8, <2>1
  <2> QED BY <1>1, <1>2, <1>8, <2>1, <2>2 DEF DiagramInv, FlowInv
<1>10. PICK pushes : pushes = (drawn[now] \notin back /\ layer[Dst(now)] < layer[Src(now)] + 1) OBVIOUS
<1>11. /\ pushes => layer' = [layer EXCEPT ![Dst(now)] = layer[Src(now)] + 1] /\ changed' = TRUE
       /\ ~pushes => layer' = layer /\ changed' = changed
  BY <1>8, <1>10 DEF Push, Src, Dst
<1>12. layer' \in [reached' -> Nat]
  <2>1. layer[Src(now)] + 1 \in Nat BY <1>3, <1>9
  <2> QED BY <1>2, <1>3, <1>9, <1>11, <2>1
<1>13. \A e \in DOMAIN drawn : drawn[e] \notin back =>
         /\ rank[Dst(e)] >= c - round => layer[Src(e)] < layer[Dst(e)]
         /\ e <= looked /\ rank[Dst(e)] + 1 >= c - round => layer[Src(e)] < layer[Dst(e)]
         /\ e <= looked /\ ~changed => layer[Src(e)] < layer[Dst(e)]
  BY <1>4, <1>6 DEF Settled, Stands
<1>14. ASSUME NEW e \in DOMAIN drawn, drawn[e] \notin back
       PROVE  /\ rank[Dst(e)] >= c - round => layer'[Src(e)] < layer'[Dst(e)]
              /\ e <= now /\ rank[Dst(e)] + 1 >= c - round => layer'[Src(e)] < layer'[Dst(e)]
              /\ e <= now /\ ~changed' => layer'[Src(e)] < layer'[Dst(e)]
  <2>1. e \in Nat /\ Src(e) \in reached /\ Dst(e) \in reached BY <1>7, <1>14
  <2>2. e <= now => e <= looked \/ e = now BY <1>3, <1>8, <2>1
  <2>3. PICK s, d : s = layer[Src(e)] /\ d = layer[Dst(e)] OBVIOUS
  <2>4. s \in Nat /\ d \in Nat BY <1>3, <2>1, <2>3
  <2>5. CASE ~pushes
    <3>1. layer' = layer /\ changed' = changed BY <1>11, <2>5
    <3>2. ASSUME e = now PROVE s < d
      <4>1. s = layer[Src(now)] /\ d = layer[Dst(now)] /\ drawn[now] \notin back BY <1>14, <2>3, <3>2
      <4>2. ~(d < s + 1) BY <1>10, <2>5, <4>1
      <4> QED BY <2>4, <4>2
    <3> QED BY <1>13, <1>14, <2>2, <2>3, <3>1, <3>2
  <2>6. CASE pushes
    <3>1. changed' = TRUE BY <1>11, <2>6
    <3>2. PICK u, v, x : u = layer[Src(now)] /\ v = Dst(now) /\ x = layer[Dst(now)] OBVIOUS
    <3>3. u \in Nat /\ x \in Nat /\ x < u + 1 /\ drawn[now] \notin back /\ v \in reached
      BY <1>3, <1>9, <1>10, <2>6, <3>2
    <3>4. \A t \in reached : layer'[t] = IF t = v THEN u + 1 ELSE layer[t] BY <1>3, <1>11, <2>6, <3>2, <3>3
    <3>5. rank[v] + 0 < c - round /\ rank[v] \in 0 .. c - 1 /\ Src(now) # v
      <4>1. ~(rank[v] >= c - round) /\ rank[v] \in 0 .. c - 1
        <5>1. ~(layer[Src(now)] < layer[Dst(now)]) BY <3>2, <3>3
        <5> QED BY <1>7, <1>9, <1>13, <3>2, <3>3, <5>1
      <4>2. Src(now) # v
        <5>1. rank[Dst(now)] < rank[Src(now)] /\ rank[Src(now)] \in Nat BY <1>7, <1>9, <3>3
        <5> QED BY <3>2, <5>1
      <4> QED BY <1>3, <1>7, <4>1, <4>2
    <3>6. CASE Src(e) = v
      <4>1. rank[Dst(e)] < rank[v] /\ rank[Dst(e)] \in 0 .. c - 1 BY <1>7, <1>14, <3>6
      <4>2. PICK a, b : a = rank[Dst(e)] /\ b = rank[v] OBVIOUS
      <4>3. a < b /\ b < c - round /\ a \in Nat /\ b \in Nat BY <3>5, <4>1, <4>2
      <4>4. ~(a >= c - round) /\ ~(a + 1 >= c - round) BY <1>3, <1>7, <4>3
      <4> QED BY <3>1, <4>2, <4>4
    <3>7. CASE Src(e) # v /\ Dst(e) = v
      <4>1. layer'[Src(e)] = s /\ layer'[Dst(e)] = u + 1 /\ d = x BY <2>1, <2>3, <3>2, <3>4, <3>7
      <4>2. s < d => s < u + 1 BY <2>4, <3>3, <4>1
      <4>3. e = now => s = u BY <2>3, <3>2
      <4>4. u < u + 1 BY <3>3
      <4> QED BY <1>13, <1>14, <2>2, <2>3, <3>1, <4>1, <4>2, <4>3, <4>4
    <3>8. CASE Src(e) # v /\ Dst(e) # v
      <4>1. layer'[Src(e)] = s /\ layer'[Dst(e)] = d /\ e # now BY <2>1, <2>3, <3>2, <3>4, <3>8
      <4> QED BY <1>13, <1>14, <2>2, <2>3, <3>1, <4>1
    <3> QED BY <3>6, <3>7, <3>8
  <2> QED BY <2>5, <2>6
<1>15. Settled(rank)' BY <1>1, <1>2, <1>6, <1>8, <1>14 DEF Settled, Stands
<1> QED BY <1>1, <1>2, <1>3, <1>5, <1>9, <1>12, <1>15 DEF ColumnInv

LEMMA RoundsEnd == ASSUME DiagramInv, RoundEnds PROVE ColumnInv'
<1>1. /\ UNCHANGED <<inputs, walkVars, searchVars, layer>> /\ doing = "columns" /\ looked = Len(drawn)
      /\ \/ /\ ~changed \/ round = Cardinality(reached)
            /\ doing' = "drawn"
         \/ /\ doing' = "columns" /\ looked' = 0 /\ round' = round + 1 /\ changed' = FALSE
  BY DEF RoundEnds
<1>2. /\ reached' = reached /\ drawn' = drawn /\ done' = done /\ back' = back /\ layer' = layer
      /\ \A e : Src(e)' = Src(e) /\ Dst(e)' = Dst(e)
  BY <1>1, SearchFrame DEF searchVars
<1>3. done = reached /\ layer \in [reached -> Nat] /\ round \in Nat
  BY <1>1 DEF DiagramInv, ColumnInv
<1>4. PICK rank : Ranks(rank) /\ Settled(rank) BY <1>1 DEF DiagramInv, ColumnInv
<1>5. Ranks(rank)' BY <1>2, <1>4 DEF Ranks
<1>6. PICK c : c = Cardinality(reached) OBVIOUS
<1>7. c \in Nat /\ \A e \in DOMAIN drawn : drawn[e] \notin back => rank[Dst(e)] \in 0 .. c - 1 /\ e \in Nat
  BY <1>3, <1>4, <1>6, Ranked DEF DiagramInv
<1>8. \A e \in DOMAIN drawn : drawn[e] \notin back =>
        /\ rank[Dst(e)] + 1 >= c - round => Stands(e)
        /\ ~changed => Stands(e)
  <2>1. drawn \in Seq(DOMAIN jobs) BY DEF DiagramInv, FlowInv
  <2>2. \A e \in DOMAIN drawn : e <= looked BY <1>1, <2>1
  <2> QED BY <1>4, <1>6, <2>2 DEF Settled
<1>9. \A e : Stands(e)' <=> Stands(e) BY <1>2 DEF Stands
<1>10. CASE doing' = "drawn"
  <2>1. ~changed \/ round = c BY <1>1, <1>6, <1>10
  <2>2. ASSUME NEW e \in DOMAIN drawn, drawn[e] \notin back PROVE Stands(e)
    <3>1. round = c => rank[Dst(e)] + 1 >= c - round
      <4>1. PICK b : b = rank[Dst(e)] OBVIOUS
      <4>2. b \in 0 .. c - 1 BY <1>7, <2>2, <4>1
      <4>3. round = c => b + 1 >= c - round BY <1>3, <1>7, <4>2
      <4> QED BY <4>1, <4>3
    <3> QED BY <1>8, <2>1, <2>2, <3>1
  <2> QED BY <1>2, <1>3, <1>9, <1>10, <2>2 DEF ColumnInv
<1>11. CASE doing' = "columns" /\ looked' = 0 /\ round' = round + 1 /\ changed' = FALSE
  <2>1. ASSUME NEW e \in DOMAIN drawn, drawn[e] \notin back
        PROVE  (rank[Dst(e)] >= c - (round + 1) => Stands(e)) /\ ~(e <= 0)
    <3>1. e # 0
      <4>1. drawn \in Seq(DOMAIN jobs) BY DEF DiagramInv, FlowInv
      <4> QED BY <4>1
    <3>2. PICK b : b = rank[Dst(e)] OBVIOUS
    <3>3. b \in 0 .. c - 1 /\ e \in Nat BY <1>7, <2>1, <3>2
    <3>4. b >= c - (round + 1) => b + 1 >= c - round BY <1>3, <1>7, <3>3
    <3> QED BY <1>8, <2>1, <3>1, <3>2, <3>3, <3>4
  <2>2. Settled(rank)' BY <1>2, <1>6, <1>9, <1>11, <2>1 DEF Settled
  <2>3. looked' <= Len(drawn') /\ round' \in Nat
    <3>1. drawn \in Seq(DOMAIN jobs) BY DEF DiagramInv, FlowInv
    <3> QED BY <1>2, <1>3, <1>11, <3>1
  <2> QED BY <1>2, <1>3, <1>5, <1>11, <2>2, <2>3 DEF ColumnInv
<1> QED BY <1>1, <1>10, <1>11

LEMMA ColumnKeeps == ASSUME DiagramInv, [TopologyNext]_topologyVars PROVE ColumnInv'
<1>1. CASE \/ Primary \/ OwnStore \/ Follow \/ Followed \/ OwnStores \/ SearchCycles
           \/ EnterRoot \/ Leave \/ SearchOn
  <2>1. doing' \in {"primary", "own", "cycles"}
    BY <1>1 DEF Primary, OwnStore, Follow, Followed, OwnStores, SearchCycles, EnterRoot, Leave, SearchOn, Walks
  <2> QED BY <2>1 DEF ColumnInv
<1>2. CASE FirstColumn BY <1>2, ColumnsBegin
<1>3. CASE Push BY <1>3, EdgePushes
<1>4. CASE RoundEnds BY <1>4, RoundsEnd
<1>5. CASE UNCHANGED topologyVars
  <2>1. UNCHANGED <<jobs, doing, looked, reached, drawn, done, back, layer, round, changed>>
    BY <1>5 DEF topologyVars, inputs, walkVars, searchVars, columnVars
  <2>2. \A e : Src(e)' = Src(e) /\ Dst(e)' = Dst(e) /\ (Stands(e)' <=> Stands(e))
    BY <2>1 DEF Src, Dst, Stands
  <2>3. \A rank : (Ranks(rank)' <=> Ranks(rank)) /\ (Settled(rank)' <=> Settled(rank))
    BY <2>1, <2>2 DEF Ranks, Settled
  <2> QED BY <2>1, <2>2, <2>3 DEF DiagramInv, ColumnInv
<1> QED BY <1>1, <1>2, <1>3, <1>4, <1>5 DEF TopologyNext

\* The same for any inputs at all, not only those TopologyInputs enumerates.
LEMMA DiagramInvHolds == AnyInputs /\ TopologyStart /\ [][TopologyNext]_topologyVars => []DiagramInv
<1>1. DiagramInv /\ [TopologyNext]_topologyVars => DiagramInv'
  <2> SUFFICES ASSUME DiagramInv, [TopologyNext]_topologyVars PROVE DiagramInv' OBVIOUS
  <2>1. FlowInv' BY FlowKeeps DEF DiagramInv
  <2>2. SearchInv' BY SearchKeeps DEF DiagramInv
  <2>3. ColumnInv' BY ColumnKeeps
  <2> QED BY <2>1, <2>2, <2>3 DEF DiagramInv
<1> QED BY <1>1, DiagramStarts, PTL

LEMMA OrderFollows == DiagramInv => ColumnsInOrder
<1> SUFFICES ASSUME DiagramInv, doing = "drawn" PROVE ColumnsInOrder
  BY DEF ColumnsInOrder, BackClosesCycle, LayersAscend, MainTargetFirst
<1>1. BackClosesCycle BY DEF DiagramInv, SearchInv, BackCloses, BackClosesCycle
<1>2. ASSUME NEW i \in ToSet(drawn) \ back PROVE layer[jobs[i].src] < layer[jobs[i].dst]
  <2>1. PICK e \in DOMAIN drawn : drawn[e] = i BY DEF ToSet
  <2> QED BY <1>2, <2>1 DEF DiagramInv, ColumnInv, Stands, Src, Dst
<1>3. LayersAscend BY <1>2 DEF LayersAscend
<1>4. ASSUME NEW i \in ToSet(drawn), jobs[i].src # jobs[i].dst,
             \A t \in Stores \ {jobs[i].src} : Vms(jobs[i].src) > Vms(t)
      PROVE  layer[jobs[i].src] < layer[jobs[i].dst]
  <2>1. jobs[i].src \in Stores
    <3>1. PICK e \in DOMAIN drawn : drawn[e] = i BY DEF ToSet
    <3>2. drawn \in Seq(DOMAIN jobs) BY DEF DiagramInv, FlowInv
    <3>3. e \in 1 .. Len(drawn) BY <3>1, <3>2
    <3>4. Src(e) \in Stores BY <3>3 DEF DiagramInv, FlowInv
    <3> QED BY <3>1, <3>4 DEF Src
  <2>2. i \notin back BY <1>4, <2>1 DEF DiagramInv, SearchInv, MainFirst, Main
  <2> QED BY <1>2, <2>2
<1>5. MainTargetFirst BY <1>4 DEF MainTargetFirst
<1> QED BY <1>1, <1>3, <1>5 DEF ColumnsInOrder

\* ColumnsInOrder (_layers), for any datastores, targets and sync jobs: each copy
\* stands after its source but for the edges that close a cycle, as many rounds as
\* there are datastores are enough, and the main target stands before what it backs
\* up with mutually.
THEOREM AnyDiagramReadsOnward ==
  AnyInputs /\ TopologyStart /\ [][TopologyNext]_topologyVars => []ColumnsInOrder
BY DiagramInvHolds, OrderFollows, PTL

\* The same of the inputs the run enumerates.
THEOREM DiagramReadsOnward == TopologySpec => []ColumnsInOrder
<1>1. TopologyInit => AnyInputs /\ TopologyStart BY InputsTyped DEF TopologyInit
<1> QED BY <1>1, AnyDiagramReadsOnward, PTL DEF TopologySpec

-----------------------------------------------------------------------------
(* Topology: what is queued stands for the backups at its namespace and below. *)

LEMMA PrefixIs ==
  ASSUME NEW a \in Seq(Names), NEW b \in Seq(Names)
  PROVE  IsPrefix(a, b) <=> Len(a) <= Len(b) /\ \A k \in 1 .. Len(a) : a[k] = b[k]
<1>1. Len(a) \in Nat /\ Len(b) \in Nat OBVIOUS
<1>2. SubSeq(a, 1, Len(a)) = a OBVIOUS
<1>3. ASSUME Len(a) <= Len(b)
      PROVE  /\ SubSeq(b, 1, Len(a)) \in Seq(Names) /\ Len(SubSeq(b, 1, Len(a))) = Len(a)
             /\ \A k \in 1 .. Len(a) : SubSeq(b, 1, Len(a))[k] = b[k]
  <2>1. \A k \in 1 .. Len(a) : b[k] \in Names BY <1>1, <1>3
  <2> QED BY <1>1, <1>3, <2>1
<1>4. CASE Len(a) <= Len(b)
  <2>1. PICK c : c = SubSeq(b, 1, Len(a)) OBVIOUS
  <2>2. a = c <=> \A k \in 1 .. Len(a) : a[k] = c[k] BY <1>3, <1>4, <2>1
  <2> QED BY <1>2, <1>3, <1>4, <2>1, <2>2 DEF IsPrefix
<1> QED BY <1>4 DEF IsPrefix

\* The backup g, of a namespace below a, is put below d.
Put(d, a, g) == d \o SubSeq(g, Len(a) + 1, Len(g))

IsPut(p, d, a, g) ==
    /\ p \in Seq(Names) /\ Len(p) = Len(d) + (Len(g) - Len(a))
    /\ \A k \in 1 .. Len(p) : p[k] = IF k <= Len(d) THEN d[k] ELSE g[(k - Len(d)) + Len(a)]

LEMMA PutIs ==
  ASSUME NEW d \in Seq(Names), NEW a \in Seq(Names), NEW g \in Seq(Names), Len(a) <= Len(g)
  PROVE  IsPut(Put(d, a, g), d, a, g)
<1>1. PICK n, m : n = Len(a) /\ m = Len(g) OBVIOUS
<1>2. n \in Nat /\ m \in Nat /\ n <= m BY <1>1
<1>3. PICK t : t = SubSeq(g, n + 1, m) OBVIOUS
<1>4. \A k \in n + 1 .. m : g[k] \in Names BY <1>1, <1>2
<1>5. t \in Seq(Names) /\ Len(t) = m - n /\ \A k \in 1 .. m - n : t[k] = g[n + k]
  BY <1>2, <1>3, <1>4
<1>6. PICK p : p = d \o t OBVIOUS
<1>b. t \in Seq(Names) BY <1>5
<1>a. p \in Seq(Names) /\ Len(p) = Len(d) + Len(t) BY <1>6, <1>b, ConcatProperties
<1>7. p \in Seq(Names) /\ Len(p) = Len(d) + (m - n) BY <1>5, <1>a
<1>8. \A k \in 1 .. Len(p) : p[k] = IF k <= Len(d) THEN d[k] ELSE t[k - Len(d)]
  BY <1>2, <1>5, <1>6, <1>7
<1>9. ASSUME NEW k \in 1 .. Len(p), ~(k <= Len(d)) PROVE t[k - Len(d)] = g[(k - Len(d)) + n]
  <2>1. k - Len(d) \in 1 .. m - n BY <1>2, <1>7, <1>9
  <2>2. n + (k - Len(d)) = (k - Len(d)) + n BY <1>2, <2>1
  <2> QED BY <1>5, <2>1, <2>2
<1>10. Put(d, a, g) = p BY <1>1, <1>3, <1>6 DEF Put
<1> QED BY <1>1, <1>7, <1>8, <1>9, <1>10 DEF IsPut

\* Where a backup lands, is below where the namespace above it lands.
LEMMA LandsBelow ==
  ASSUME NEW d \in Seq(Names), NEW g \in Seq(Names), NEW j \in Job(Seq(Names)),
         IsPrefix(d, g), IsPrefix(j.sns, g)
  PROVE  \E l \in MapNs(d, j) : l \in Seq(Names) /\ IsPrefix(l, Put(j.dns, j.sns, g))
<1>1. PICK a \in Seq(Names), b \in Seq(Names) : a = j.sns /\ b = j.dns BY DEF Job
<1>2. /\ Len(a) <= Len(g) /\ \A k \in 1 .. Len(a) : a[k] = g[k]
      /\ Len(d) <= Len(g) /\ \A k \in 1 .. Len(d) : d[k] = g[k]
  BY <1>1, PrefixIs
<1>3. PICK m : m = Put(b, a, g) OBVIOUS
<1>b. IsPut(m, b, a, g) BY <1>2, <1>3, PutIs
<1>4. /\ m \in Seq(Names) /\ Len(m) = Len(b) + (Len(g) - Len(a))
      /\ \A k \in 1 .. Len(m) : m[k] = IF k <= Len(b) THEN b[k] ELSE g[(k - Len(b)) + Len(a)]
  BY <1>b DEF IsPut
<1>5. CASE Len(a) <= Len(d)
  <2>1. IsPrefix(a, d)
    <3>1. \A k \in 1 .. Len(a) : a[k] = d[k] BY <1>2, <1>5
    <3> QED BY <1>5, <3>1, PrefixIs
  <2>2. PICK l : l = Put(b, a, d) OBVIOUS
  <2>a. IsPut(l, b, a, d) BY <1>5, <2>2, PutIs
  <2>3. /\ l \in Seq(Names) /\ Len(l) = Len(b) + (Len(d) - Len(a))
        /\ \A k \in 1 .. Len(l) : l[k] = IF k <= Len(b) THEN b[k] ELSE d[(k - Len(b)) + Len(a)]
    BY <2>a DEF IsPut
  <2>4. Len(l) <= Len(m) BY <1>2, <1>4, <2>3
  <2>5. ASSUME NEW k \in 1 .. Len(l) PROVE l[k] = m[k]
    <3>1. k \in 1 .. Len(m) BY <1>4, <2>3, <2>4
    <3>2. CASE k <= Len(b) BY <1>4, <2>3, <3>1, <3>2
    <3>3. CASE ~(k <= Len(b))
      <4>1. (k - Len(b)) + Len(a) \in 1 .. Len(d) BY <2>3, <3>3
      <4> QED BY <1>2, <1>4, <2>3, <3>1, <3>3, <4>1
    <3> QED BY <3>2, <3>3
  <2>6. IsPrefix(l, m) BY <1>4, <2>3, <2>4, <2>5, PrefixIs
  <2>7. l \in MapNs(d, j) BY <1>1, <2>1, <2>2 DEF MapNs, Put
  <2> QED BY <1>1, <1>3, <2>3, <2>6, <2>7
<1>6. CASE ~(Len(a) <= Len(d))
  <2>1. Len(d) <= Len(a) /\ ~IsPrefix(a, d) BY <1>6, PrefixIs
  <2>2. IsPrefix(d, a)
    <3>1. \A k \in 1 .. Len(d) : a[k] = d[k] BY <1>2, <2>1
    <3> QED BY <2>1, <3>1, PrefixIs
  <2>a. IsPrefix(d, j.sns) /\ ~IsPrefix(j.sns, d) BY <1>1, <2>1, <2>2
  <2>b. MapNs(d, j) = {j.dns} BY <2>a DEF MapNs
  <2>3. b \in MapNs(d, j) BY <1>1, <2>b
  <2>c. Len(b) <= Len(m)
    <3>1. Len(a) <= Len(g) /\ Len(m) = Len(b) + (Len(g) - Len(a)) BY <1>2, <1>4
    <3> QED BY <3>1
  <2>d. \A k \in 1 .. Len(b) : k \in 1 .. Len(m) /\ k <= Len(b) BY <1>4, <2>c
  <2>4. Len(b) <= Len(m) /\ \A k \in 1 .. Len(b) : b[k] = m[k] BY <1>4, <2>c, <2>d
  <2>5. IsPrefix(b, m) BY <1>4, <2>4, PrefixIs
  <2> QED BY <1>1, <1>3, <2>3, <2>5
<1> QED BY <1>5, <1>6

\* And what is below there, was put there from below the namespace or what the job takes.
LEMMA LandsFrom ==
  ASSUME NEW d \in Seq(Names), NEW h \in Seq(Names), NEW j \in Job(Seq(Names)),
         NEW l \in MapNs(d, j), l \in Seq(Names), IsPrefix(l, h)
  PROVE  \E g \in Seq(Names) : IsPrefix(d, g) /\ IsPrefix(j.sns, g) /\ Put(j.dns, j.sns, g) = h
<1>1. PICK a \in Seq(Names), b \in Seq(Names) : a = j.sns /\ b = j.dns BY DEF Job
<1>2. Len(l) <= Len(h) /\ \A k \in 1 .. Len(l) : l[k] = h[k] BY PrefixIs
<1>3. ASSUME NEW c \in Seq(Names), IsPrefix(a, c), IsPrefix(d, c), l = Put(b, a, c)
      PROVE  \E g \in Seq(Names) : IsPrefix(d, g) /\ IsPrefix(a, g) /\ Put(b, a, g) = h
  <2>1. PICK g : g = Put(c, l, h) OBVIOUS
  <2>2. IsPut(g, c, l, h) BY <1>2, <2>1, PutIs
  <2>3. /\ g \in Seq(Names) /\ Len(g) = Len(c) + (Len(h) - Len(l))
        /\ \A k \in 1 .. Len(g) : g[k] = IF k <= Len(c) THEN c[k] ELSE h[(k - Len(c)) + Len(l)]
    BY <2>2 DEF IsPut
  <2>4. Len(a) <= Len(c) /\ \A k \in 1 .. Len(a) : a[k] = c[k] BY <1>3, PrefixIs
  <2>5. Len(d) <= Len(c) /\ \A k \in 1 .. Len(d) : d[k] = c[k] BY <1>3, PrefixIs
  <2>6. Len(c) <= Len(g)
    <3>1. Len(l) <= Len(h) /\ Len(g) = Len(c) + (Len(h) - Len(l)) BY <1>2, <2>3
    <3> QED BY <3>1
  <2>c. \A k \in 1 .. Len(c) : k \in 1 .. Len(g) /\ k <= Len(c) BY <2>3, <2>6
  <2>7. \A k \in 1 .. Len(c) : g[k] = c[k] BY <2>3, <2>c
  <2>8. IsPrefix(a, g)
    <3>1. Len(a) <= Len(g) /\ \A k \in 1 .. Len(a) : a[k] = g[k] BY <2>3, <2>4, <2>6, <2>7
    <3> QED BY <2>3, <3>1, PrefixIs
  <2>9. IsPrefix(d, g)
    <3>1. Len(d) <= Len(g) /\ \A k \in 1 .. Len(d) : d[k] = g[k] BY <2>3, <2>5, <2>6, <2>7
    <3> QED BY <2>3, <3>1, PrefixIs
  <2>10. IsPut(l, b, a, c) BY <1>3, <2>4, PutIs
  <2>11. /\ Len(l) = Len(b) + (Len(c) - Len(a))
         /\ \A k \in 1 .. Len(l) : l[k] = IF k <= Len(b) THEN b[k] ELSE c[(k - Len(b)) + Len(a)]
    BY <2>10 DEF IsPut
  <2>12. PICK m : m = Put(b, a, g) OBVIOUS
  <2>13. Len(a) <= Len(g) BY <2>3, <2>4, <2>6
  <2>14. IsPut(m, b, a, g) BY <2>3, <2>12, <2>13, PutIs
  <2>15. /\ m \in Seq(Names) /\ Len(m) = Len(b) + (Len(g) - Len(a))
         /\ \A k \in 1 .. Len(m) : m[k] = IF k <= Len(b) THEN b[k] ELSE g[(k - Len(b)) + Len(a)]
    BY <2>14 DEF IsPut
  <2>16. Len(m) = Len(h)
    <3>1. Len(g) = Len(c) + (Len(h) - Len(l)) BY <2>3
    <3>2. Len(l) = Len(b) + (Len(c) - Len(a)) BY <2>11
    <3>3. Len(m) = Len(b) + (Len(g) - Len(a)) BY <2>15
    <3>4. Len(a) \in Nat /\ Len(b) \in Nat /\ Len(c) \in Nat /\ Len(h) \in Nat /\ Len(l) \in Nat OBVIOUS
    <3>5. \A A, B, C, H, L \in Nat : L = B + (C - A) => B + ((C + (H - L)) - A) = H OBVIOUS
    <3>6. Len(b) + ((Len(c) + (Len(h) - Len(l))) - Len(a)) = Len(h) BY <3>2, <3>4, <3>5
    <3> QED BY <3>1, <3>3, <3>6
  <2>17. ASSUME NEW k \in 1 .. Len(m) PROVE m[k] = h[k]
    <3>1. CASE k <= Len(b)
      <4>1. k \in 1 .. Len(l) BY <2>4, <2>11, <3>1
      <4> QED BY <1>2, <2>11, <2>15, <3>1, <4>1
    <3>2. CASE ~(k <= Len(b))
      <4>1. PICK n : n = (k - Len(b)) + Len(a) OBVIOUS
      <4>2. n \in 1 .. Len(g) BY <2>3, <2>15, <3>2, <4>1
      <4>3. m[k] = g[n] BY <2>15, <3>2, <4>1
      <4>4. CASE n <= Len(c)
        <5>1. k \in 1 .. Len(l) BY <2>11, <3>2, <4>1, <4>4
        <5>2. l[k] = c[n] BY <2>11, <3>2, <4>1, <5>1
        <5> QED BY <1>2, <2>3, <4>2, <4>3, <4>4, <5>1, <5>2
      <4>5. CASE ~(n <= Len(c))
        <5>1. g[n] = h[(n - Len(c)) + Len(l)] BY <2>3, <4>2, <4>5
        <5>2. (n - Len(c)) + Len(l) = k BY <2>11, <4>1
        <5> QED BY <4>3, <5>1, <5>2
      <4> QED BY <4>4, <4>5
    <3> QED BY <3>1, <3>2
  <2>18. m = h BY <2>15, <2>16, <2>17, SeqEqual
  <2> QED BY <2>3, <2>8, <2>9, <2>12, <2>18
<1>4. CASE IsPrefix(a, d)
  <2>1. IsPrefix(d, d) BY PrefixIs
  <2>2. l = Put(b, a, d) BY <1>1, <1>4 DEF MapNs, Put
  <2> QED BY <1>1, <1>3, <1>4, <2>1, <2>2
<1>5. CASE ~IsPrefix(a, d)
  <2>1. ~IsPrefix(j.sns, d) BY <1>1, <1>5
  <2>2. IsPrefix(d, j.sns) /\ l = j.dns BY <2>1 DEF MapNs
  <2>3. IsPrefix(a, a) /\ IsPrefix(d, a) BY <1>1, <2>2, PrefixIs
  <2>4. l = Put(b, a, a)
    <3>1. l = b BY <1>1, <2>2
    <3>2. SubSeq(a, Len(a) + 1, Len(a)) = <<>> OBVIOUS
    <3>3. b \o <<>> = b OBVIOUS
    <3> QED BY <3>1, <3>2, <3>3 DEF Put
  <2> QED BY <1>1, <1>3, <2>3, <2>4
<1> QED BY <1>4, <1>5

-----------------------------------------------------------------------------
\* All backups L that PVE writes below its targets, that lie in the datastores shown
\* besides, or that jobs make of these.
Carries(L) ==
    /\ \A s \in Used, g \in Seq(Names) : IsPrefix(targets[s].ns, g) => <<s, g>> \in L
    /\ doing # "primary" => Aside \X Seq(Names) \subseteq L
    /\ \A p \in L, i \in DOMAIN jobs : Takes(i, p) => Moved(i, p) \in L

\* What is queued or drawn stands for some of them.
QueuedIn(L) ==
    \A k \in 1 .. Len(queue), g \in Seq(Names) :
        IsPrefix(queue[k][2], g) => <<queue[k][1], g>> \in L
DrawnFrom(L) == \A k \in DOMAIN drawn : \E p \in L : Takes(drawn[k], p)

CarryInv ==
    \A L \in SUBSET (Stores \X Seq(Names)) : Carries(L) => QueuedIn(L) /\ DrawnFrom(L)

\* The first n jobs have been followed from there.
Applied(v, n) ==
    \A i \in 1 .. n, l \in Seq(Names) : jobs[i].src = v[1] /\ l \in MapNs(v[2], jobs[i]) =>
        i \in ToSet(drawn) /\ (Len(l) <= MaxNsDepth => <<jobs[i].dst, l>> \in visited)

\* What was met before is followed, or will be.
CoverInv ==
    /\ visited \subseteq Stores \X Seq(Names)
    /\ \A s \in Used \cap reached :
         Len(targets[s].ns) <= MaxNsDepth => <<s, targets[s].ns>> \in visited
    /\ doing # "primary" => \A s \in Aside \cap reached : <<s, RootNs>> \in visited
    /\ \A v \in visited : (\E k \in 1 .. Len(queue) : queue[k] = v) \/ Applied(v, Len(jobs))
    /\ queue # <<>> => Applied(queue[1], looked)
    /\ queue = <<>> /\ doing \in {"primary", "own"} => looked = 0
    /\ doing \notin {"primary", "own"} => queue = <<>> /\ Aside \subseteq reached

LEMMA MovedIsPut == \A i, p : Moved(i, p) = <<jobs[i].dst, Put(jobs[i].dns, jobs[i].sns, p[2])>>
BY DEF Moved, Put

LEMMA ReachQueues ==
  ASSUME FlowInv, NEW s \in Stores, NEW ns \in Seq(Names), Reach(s, ns)
  PROVE  /\ \A k \in 1 .. Len(queue) : k \in 1 .. Len(queue') /\ queue'[k] = queue[k]
         /\ \A k \in 1 .. Len(queue') : k \in 1 .. Len(queue) \/ queue'[k] = <<s, ns>>
         /\ visited \subseteq visited' /\ visited' \subseteq visited \cup {<<s, ns>>}
         /\ Len(ns) <= MaxNsDepth => <<s, ns>> \in visited'
         /\ \A v \in visited' \ visited : \E k \in 1 .. Len(queue') : queue'[k] = v
<1>1. PICK P : P = Stores \X Seq(Names) OBVIOUS
<1>2. queue \in Seq(P) /\ <<s, ns>> \in P BY <1>1 DEF FlowInv
<1>3. Len(ns) \in Nat /\ MaxNsDepth \in Nat BY TopologyAssumption
<1>4. CASE <<s, ns>> \in visited \/ Len(ns) > MaxNsDepth
  <2>1. UNCHANGED <<visited, queue>> BY <1>4 DEF Reach
  <2>2. Len(ns) <= MaxNsDepth => <<s, ns>> \in visited BY <1>3, <1>4
  <2> QED BY <2>1, <2>2
<1>5. CASE ~(<<s, ns>> \in visited \/ Len(ns) > MaxNsDepth)
  <2>1. visited' = visited \cup {<<s, ns>>} /\ queue' = Append(queue, <<s, ns>>) BY <1>5 DEF Reach
  <2>2. queue' \in Seq(P) /\ Len(queue') = Len(queue) + 1 BY <1>2, <2>1
  <2>3. \A k \in 1 .. Len(queue') : queue'[k] = IF k <= Len(queue) THEN queue[k] ELSE <<s, ns>>
    BY <1>2, <2>1, <2>2
  <2>4. /\ \A k \in 1 .. Len(queue) : k \in 1 .. Len(queue') /\ k <= Len(queue)
        /\ \A k \in 1 .. Len(queue') : k \in 1 .. Len(queue) \/ ~(k <= Len(queue))
        /\ Len(queue') \in 1 .. Len(queue') /\ ~(Len(queue') <= Len(queue))
    BY <1>2, <2>2
  <2>5. queue'[Len(queue')] = <<s, ns>> BY <2>3, <2>4
  <2>6. \A k \in 1 .. Len(queue) : k \in 1 .. Len(queue') /\ queue'[k] = queue[k] BY <2>3, <2>4
  <2>7. \A k \in 1 .. Len(queue') : k \in 1 .. Len(queue) \/ queue'[k] = <<s, ns>> BY <2>3, <2>4
  <2>8. \A v \in visited' \ visited : \E k \in 1 .. Len(queue') : queue'[k] = v
    BY <2>1, <2>4, <2>5
  <2> QED BY <2>1, <2>6, <2>7, <2>8
<1> QED BY <1>4, <1>5

\* What a step of the walk takes up stands for backups that are carried.
LEMMA ReachCarries ==
  ASSUME FlowInv, NEW s \in Stores, NEW ns \in Seq(Names), Reach(s, ns),
         NEW L, QueuedIn(L), \A g \in Seq(Names) : IsPrefix(ns, g) => <<s, g>> \in L
  PROVE  QueuedIn(L)'
<1> SUFFICES ASSUME NEW k \in 1 .. Len(queue'), NEW g \in Seq(Names), IsPrefix(queue'[k][2], g)
             PROVE  <<queue'[k][1], g>> \in L
  BY DEF QueuedIn
<1>1. /\ \A n \in 1 .. Len(queue) : n \in 1 .. Len(queue') /\ queue'[n] = queue[n]
      /\ \A n \in 1 .. Len(queue') : n \in 1 .. Len(queue) \/ queue'[n] = <<s, ns>>
  BY ReachQueues
<1>2. CASE k \in 1 .. Len(queue) BY <1>1, <1>2 DEF QueuedIn
<1>3. CASE queue'[k] = <<s, ns>> BY <1>3
<1> QED BY <1>1, <1>2, <1>3

\* The head of the queue and the job the walk looks at from there.
LEMMA Looking ==
  ASSUME FlowInv, Follow
  PROVE  \E i \in 1 .. Len(jobs), s \in Stores, d \in Seq(Names) :
           /\ i = looked + 1 /\ looked' = i /\ i \in DOMAIN jobs /\ jobs[i] \in Job(Seq(Names))
           /\ 1 \in 1 .. Len(queue) /\ queue[1] = <<s, d>> /\ Head(queue) = <<s, d>>
<1>1. PICK i : i = looked + 1 OBVIOUS
<1>2. PICK J : J = Job(Seq(Names)) OBVIOUS
<1>3. jobs \in Seq(J) /\ looked \in Nat BY <1>2 DEF FlowInv, AnyInputs
<1>4. looked < Len(jobs) /\ looked' = looked + 1 /\ queue # <<>> BY DEF Follow
<1>5. i \in 1 .. Len(jobs) /\ looked' = i BY <1>1, <1>3, <1>4
<1>6. i \in DOMAIN jobs /\ jobs[i] \in Job(Seq(Names)) BY <1>2, <1>3, <1>5
<1>7. PICK P : P = Stores \X Seq(Names) OBVIOUS
<1>8. queue \in Seq(P) BY <1>7 DEF FlowInv
<1>9. 1 \in 1 .. Len(queue) /\ Head(queue) = queue[1] /\ queue[1] \in P BY <1>4, <1>8
<1>10. PICK s \in Stores, d \in Seq(Names) : queue[1] = <<s, d>> BY <1>7, <1>9
<1> QED BY <1>1, <1>5, <1>6, <1>9, <1>10

LEMMA FollowCarries ==
  ASSUME FlowInv, Follow, NEW L \in SUBSET (Stores \X Seq(Names)), Carries(L), QueuedIn(L), DrawnFrom(L)
  PROVE  QueuedIn(L)' /\ DrawnFrom(L)'
<1>1. PICK i \in 1 .. Len(jobs), s \in Stores, d \in Seq(Names) :
        /\ i = looked + 1 /\ looked' = i /\ i \in DOMAIN jobs /\ jobs[i] \in Job(Seq(Names))
        /\ 1 \in 1 .. Len(queue) /\ queue[1] = <<s, d>> /\ Head(queue) = <<s, d>>
  BY Looking
<1>2. UNCHANGED jobs BY DEF Follow, inputs
<1>3. CASE ~(jobs[i].src = s /\ MapNs(d, jobs[i]) # {})
  <2>1. UNCHANGED <<queue, drawn>> BY <1>1, <1>3 DEF Follow
  <2> QED BY <1>2, <2>1 DEF QueuedIn, DrawnFrom, Takes
<1>4. CASE jobs[i].src = s /\ MapNs(d, jobs[i]) # {}
  <2>1. PICK ns \in MapNs(d, jobs[i]) : Reach(jobs[i].dst, ns) BY <1>1, <1>4 DEF Follow
  <2>2. ns \in Seq(Names) /\ jobs[i].dst \in Stores BY <1>1, MapNsTyped DEF Job
  <2>3. ASSUME NEW h \in Seq(Names), IsPrefix(ns, h)
        PROVE  /\ <<jobs[i].dst, h>> \in L
               /\ \E p \in L : Takes(i, p)
    <3>1. PICK g \in Seq(Names) : /\ IsPrefix(d, g) /\ IsPrefix(jobs[i].sns, g)
                                  /\ Put(jobs[i].dns, jobs[i].sns, g) = h
      BY <1>1, <2>2, <2>3, LandsFrom
    <3>2. <<s, g>> \in L BY <1>1, <3>1 DEF QueuedIn
    <3>3. Takes(i, <<s, g>>) BY <1>4, <3>1 DEF Takes
    <3>4. Moved(i, <<s, g>>) = <<jobs[i].dst, h>> BY <3>1, MovedIsPut
    <3>5. Moved(i, <<s, g>>) \in L BY <1>1, <3>2, <3>3 DEF Carries
    <3> QED BY <3>2, <3>3, <3>4, <3>5
  <2>4. QueuedIn(L)' BY <2>1, <2>2, <2>3, ReachCarries
  <2>5. IsPrefix(ns, ns) BY <2>2, PrefixIs
  <2>6. \E p \in L : Takes(i, p) BY <2>2, <2>3, <2>5
  <2>7. \A k \in DOMAIN drawn' : drawn'[k] = i \/ (k \in DOMAIN drawn /\ drawn'[k] = drawn[k])
    <3>1. drawn' = drawn \/ drawn' = Append(drawn, i) BY <1>1, <1>4 DEF Follow
    <3>2. drawn \in Seq(DOMAIN jobs) BY DEF FlowInv
    <3>3. CASE drawn' = Append(drawn, i)
      <4>1. /\ DOMAIN drawn = 1 .. Len(drawn) /\ DOMAIN drawn' = 1 .. (Len(drawn) + 1)
            /\ \A k \in 1 .. Len(drawn) : drawn'[k] = drawn[k]
            /\ drawn'[Len(drawn) + 1] = i
        BY <3>2, <3>3
      <4>2. \A k \in 1 .. (Len(drawn) + 1) : k \in 1 .. Len(drawn) \/ k = Len(drawn) + 1 BY <3>2
      <4> QED BY <4>1, <4>2
    <3>4. CASE drawn' = drawn BY <3>4
    <3> QED BY <3>1, <3>3, <3>4
  <2>8. DrawnFrom(L)' BY <1>2, <2>6, <2>7 DEF DrawnFrom, Takes
  <2> QED BY <2>4, <2>8
<1> QED BY <1>3, <1>4

LEMMA CarryKeeps == ASSUME FlowInv, CarryInv, [TopologyNext]_topologyVars PROVE CarryInv'
<1> SUFFICES ASSUME NEW L \in SUBSET (Stores \X Seq(Names)), Carries(L)'
             PROVE  QueuedIn(L)' /\ DrawnFrom(L)'
  BY DEF CarryInv, Stores
<1>1. UNCHANGED inputs /\ (doing # "primary" => doing' # "primary" /\ UNCHANGED involved)
  BY DEF TopologyNext, Primary, OwnStore, Follow, Followed, OwnStores, SearchCycles, EnterRoot,
         Leave, SearchOn, FirstColumn, Push, RoundEnds, topologyVars, walkVars
<1>2. UNCHANGED <<jobs, targets, unlimited>> /\ Used' = Used BY <1>1 DEF inputs, Used
<1>3. Carries(L)
  <2>1. doing # "primary" => Aside' = Aside BY <1>1, <1>2 DEF Aside
  <2>2. doing # "primary" => Aside \X Seq(Names) \subseteq L BY <1>1, <2>1 DEF Carries
  <2>3. \A s \in Used, g \in Seq(Names) : IsPrefix(targets[s].ns, g) => <<s, g>> \in L
    BY <1>2 DEF Carries
  <2>4. \A p \in L, i \in DOMAIN jobs : Takes(i, p) => Moved(i, p) \in L
    BY <1>2 DEF Carries, Takes, Moved
  <2> QED BY <2>2, <2>3, <2>4 DEF Carries
<1>4. QueuedIn(L) /\ DrawnFrom(L) BY <1>3 DEF CarryInv
<1>5. CASE Primary
  <2>1. PICK s \in Used : Reach(s, targets[s].ns) BY <1>5 DEF Primary
  <2>2. s \in Stores /\ targets[s].ns \in Seq(Names) BY <2>1 DEF FlowInv, AnyInputs, Used
  <2>3. \A g \in Seq(Names) : IsPrefix(targets[s].ns, g) => <<s, g>> \in L BY <1>3, <2>1 DEF Carries
  <2>4. QueuedIn(L)' BY <1>4, <2>1, <2>2, <2>3, ReachCarries
  <2>5. UNCHANGED drawn BY <1>5 DEF Primary
  <2> QED BY <1>2, <1>4, <2>4, <2>5 DEF DrawnFrom, Takes
<1>6. CASE OwnStore
  <2>1. PICK s \in Aside : Reach(s, RootNs) BY <1>6 DEF OwnStore
  <2>2. s \in Stores /\ RootNs \in Seq(Names) BY <2>1 DEF Aside, RootNs
  <2>3. \A g \in Seq(Names) : <<s, g>> \in L BY <1>3, <1>6, <2>1 DEF Carries, OwnStore
  <2>4. QueuedIn(L)' BY <1>4, <2>1, <2>2, <2>3, ReachCarries
  <2>5. UNCHANGED drawn BY <1>6 DEF OwnStore
  <2> QED BY <1>2, <1>4, <2>4, <2>5 DEF DrawnFrom, Takes
<1>7. CASE Follow BY <1>3, <1>4, <1>7, FollowCarries
<1>8. CASE Followed
  <2>1. UNCHANGED drawn /\ queue' = Tail(queue) /\ queue # <<>> BY <1>8 DEF Followed
  <2>2. PICK P : P = Stores \X Seq(Names) OBVIOUS
  <2>3. queue \in Seq(P) BY <2>2 DEF FlowInv
  <2>4. \A k \in 1 .. Len(queue') : k + 1 \in 1 .. Len(queue) /\ queue'[k] = queue[k + 1]
    BY <2>1, <2>3
  <2> QED BY <1>2, <1>4, <2>1, <2>4 DEF QueuedIn, DrawnFrom, Takes
<1>9. CASE \/ OwnStores \/ SearchCycles \/ EnterRoot \/ Leave \/ SearchOn \/ FirstColumn
           \/ Push \/ RoundEnds \/ UNCHANGED topologyVars
  <2>1. UNCHANGED <<drawn, queue>>
    BY <1>9 DEF OwnStores, SearchCycles, EnterRoot, Leave, SearchOn, FirstColumn, Push, RoundEnds,
                topologyVars, walkVars
  <2> QED BY <1>2, <1>4, <2>1 DEF QueuedIn, DrawnFrom, Takes
<1> QED BY <1>5, <1>6, <1>7, <1>8, <1>9 DEF TopologyNext

-----------------------------------------------------------------------------
\* More that is met takes nothing back.
LEMMA AppliedStays ==
  ASSUME NEW v, NEW n, Applied(v, n), UNCHANGED jobs, visited \subseteq visited',
         ToSet(drawn) \subseteq ToSet(drawn)'
  PROVE  Applied(v, n)'
BY DEF Applied

\* A step that takes up a datastore and a namespace keeps to what was met.
LEMMA ReachCovers ==
  ASSUME FlowInv, CoverInv, NEW s \in Stores, NEW ns \in Seq(Names), Reach(s, ns),
         UNCHANGED jobs, ToSet(drawn) \subseteq ToSet(drawn)'
  PROVE  /\ visited' \subseteq Stores \X Seq(Names)
         /\ \A v \in visited' : (\E k \in 1 .. Len(queue') : queue'[k] = v) \/ Applied(v, Len(jobs))'
         /\ \A v, n : Applied(v, n) => Applied(v, n)'
<1>1. /\ \A k \in 1 .. Len(queue) : k \in 1 .. Len(queue') /\ queue'[k] = queue[k]
      /\ visited \subseteq visited' /\ visited' \subseteq visited \cup {<<s, ns>>}
      /\ \A v \in visited' \ visited : \E k \in 1 .. Len(queue') : queue'[k] = v
  BY ReachQueues
<1>2. \A v, n : Applied(v, n) => Applied(v, n)' BY <1>1, AppliedStays
<1>3. visited' \subseteq Stores \X Seq(Names) BY <1>1 DEF CoverInv
<1>4. ASSUME NEW v \in visited'
      PROVE  (\E k \in 1 .. Len(queue') : queue'[k] = v) \/ Applied(v, Len(jobs))'
  <2>1. CASE v \in visited
    <3>1. CASE \E k \in 1 .. Len(queue) : queue[k] = v BY <1>1, <3>1
    <3>2. CASE Applied(v, Len(jobs)) BY <1>2, <3>2
    <3> QED BY <2>1, <3>1, <3>2 DEF CoverInv
  <2>2. CASE v \notin visited BY <1>1, <2>2
  <2> QED BY <2>1, <2>2
<1> QED BY <1>2, <1>3, <1>4

\* What the walk starts from is met as soon as it is reached.
LEMMA StartCovers ==
  ASSUME FlowInv, CoverInv, Primary \/ OwnStore
  PROVE  CoverInv'
<1>1. UNCHANGED <<jobs, targets, unlimited, drawn, doing, looked, involved>>
  BY DEF Primary, OwnStore, inputs
<1>2. PICK s \in Stores, ns \in Seq(Names) :
        /\ Reach(s, ns) /\ s \notin reached
        /\ s \in Used /\ doing = "primary" => ns = targets[s].ns
        /\ doing # "primary" => ns = RootNs /\ Used \subseteq reached
  <2>1. CASE Primary
    <3>1. PICK s \in Used \ reached : Reach(s, targets[s].ns) BY <2>1 DEF Primary
    <3>2. s \in Stores /\ targets[s].ns \in Seq(Names) BY <3>1 DEF FlowInv, AnyInputs, Used
    <3> QED BY <2>1, <3>1, <3>2 DEF Primary
  <2>2. CASE OwnStore
    <3>1. PICK s \in Aside \ reached : Reach(s, RootNs) BY <2>2 DEF OwnStore
    <3>2. s \in Stores /\ RootNs \in Seq(Names) BY <3>1 DEF Aside, RootNs
    <3> QED BY <2>2, <3>1, <3>2 DEF OwnStore, FlowInv
  <2> QED BY <2>1, <2>2
<1>3. Used' = Used /\ Aside' = Aside BY <1>1 DEF Used, Aside
<1>4. reached' = reached \cup {s} BY <1>2 DEF Reach
<1>5. /\ visited \subseteq visited' /\ (Len(ns) <= MaxNsDepth => <<s, ns>> \in visited')
      /\ \A k \in 1 .. Len(queue) : k \in 1 .. Len(queue') /\ queue'[k] = queue[k]
      /\ \A k \in 1 .. Len(queue') : k \in 1 .. Len(queue) \/ queue'[k] = <<s, ns>>
  BY <1>2, ReachQueues
<1>6. /\ visited' \subseteq Stores \X Seq(Names)
      /\ \A v \in visited' : (\E k \in 1 .. Len(queue') : queue'[k] = v) \/ Applied(v, Len(jobs))'
      /\ \A v, n : Applied(v, n) => Applied(v, n)'
  BY <1>1, <1>2, ReachCovers
<1>7. \A t \in Used' \cap reached' :
        Len(targets'[t].ns) <= MaxNsDepth => <<t, targets'[t].ns>> \in visited'
  <2> SUFFICES ASSUME NEW t \in Used \cap (reached \cup {s}), Len(targets[t].ns) <= MaxNsDepth
               PROVE  <<t, targets[t].ns>> \in visited'
    BY <1>1, <1>3, <1>4
  <2>1. CASE t \in reached BY <1>5, <2>1 DEF CoverInv
  <2>2. CASE t \notin reached BY <1>2, <1>5, <2>2
  <2> QED BY <2>1, <2>2
<1>8. doing' # "primary" => \A t \in Aside' \cap reached' : <<t, RootNs>> \in visited'
  <2> SUFFICES ASSUME doing # "primary", NEW t \in Aside \cap (reached \cup {s})
               PROVE  <<t, RootNs>> \in visited'
    BY <1>1, <1>3, <1>4
  <2>1. CASE t \in reached BY <1>5, <2>1 DEF CoverInv
  <2>2. CASE t = s
    <3>1. ns = RootNs /\ Len(RootNs) = 0 BY <1>2 DEF RootNs
    <3>2. Len(ns) <= MaxNsDepth BY <3>1, TopologyAssumption
    <3> QED BY <1>5, <2>2, <3>1, <3>2
  <2> QED BY <2>1, <2>2
<1>9. (queue # <<>> => Applied(queue[1], looked))'
  <2>1. CASE queue # <<>>
    <3>1. PICK P : P = Stores \X Seq(Names) OBVIOUS
    <3>2. queue \in Seq(P) BY <3>1 DEF FlowInv
    <3>3. 1 \in 1 .. Len(queue) BY <2>1, <3>2
    <3>4. Applied(queue[1], looked) BY <2>1 DEF CoverInv
    <3>5. queue'[1] = queue[1] BY <1>5, <3>3
    <3>6. \A v : v = queue[1] => Applied(v, looked)
      BY <3>4
    <3>7. \A v : Applied(v, looked) => Applied(v, looked)' BY <1>1, <1>6 DEF Applied
    <3>8. \A v : v = queue'[1] => Applied(v, looked)' BY <3>5, <3>6, <3>7
    <3> QED BY <3>8
  <2>2. CASE queue = <<>>
    <3>1. doing \in {"primary", "own"} BY DEF Primary, OwnStore
    <3>2. looked' = 0 BY <1>1, <2>2, <3>1 DEF CoverInv
    <3> QED BY <3>2 DEF Applied
  <2> QED BY <2>1, <2>2
<1>10. queue' = <<>> => queue = <<>>
  <2>1. PICK P : P = Stores \X Seq(Names) OBVIOUS
  <2>2. queue \in Seq(P) BY <2>1 DEF FlowInv
  <2>3. queue # <<>> => 1 \in 1 .. Len(queue) BY <2>2
  <2>4. queue # <<>> => 1 \in 1 .. Len(queue') BY <1>5, <2>3
  <2> QED BY <2>4
<1>11. doing \in {"primary", "own"} BY DEF Primary, OwnStore
<1> QED BY <1>1, <1>6, <1>7, <1>8, <1>9, <1>10, <1>11 DEF CoverInv

\* The jobs followed so far, with the one the walk looks at.
LEMMA FollowCovers == ASSUME FlowInv, CoverInv, Follow PROVE CoverInv'
<1>1. PICK i \in 1 .. Len(jobs), s \in Stores, d \in Seq(Names) :
        /\ i = looked + 1 /\ looked' = i /\ i \in DOMAIN jobs /\ jobs[i] \in Job(Seq(Names))
        /\ 1 \in 1 .. Len(queue) /\ queue[1] = <<s, d>> /\ Head(queue) = <<s, d>>
  BY Looking
<1>2. UNCHANGED <<jobs, targets, unlimited, doing, involved>> BY DEF Follow, inputs
<1>3. Used' = Used /\ Aside' = Aside BY <1>2 DEF Used, Aside
<1>4. /\ doing \in {"primary", "own"} /\ queue # <<>> /\ Used \subseteq reached
      /\ doing = "own" => Aside \subseteq reached
  BY DEF Follow, Walks, FlowInv
<1>5. Applied(<<s, d>>, looked) BY <1>1, <1>4 DEF CoverInv
<1>6. \A n \in 1 .. i : n \in 1 .. looked \/ n = i BY <1>1 DEF FlowInv
<1>7. CASE ~(jobs[i].src = s /\ MapNs(d, jobs[i]) # {})
  <2>1. UNCHANGED <<queue, visited, reached, drawn>> BY <1>1, <1>7 DEF Follow
  <2>2. \A v, n : Applied(v, n) => Applied(v, n)' BY <1>2, <2>1 DEF Applied
  <2>3. Applied(<<s, d>>, i) BY <1>5, <1>6, <1>7 DEF Applied
  <2>4. Applied(queue[1], looked)'
    <3>1. \A v : v = queue'[1] => Applied(v, i) BY <1>1, <2>1, <2>3
    <3> QED BY <1>1, <1>2, <2>1, <3>1 DEF Applied
  <2> QED BY <1>2, <1>3, <1>4, <2>1, <2>2, <2>4 DEF CoverInv
<1>8. CASE jobs[i].src = s /\ MapNs(d, jobs[i]) # {}
  <2>1. PICK ns \in MapNs(d, jobs[i]) : Reach(jobs[i].dst, ns) BY <1>1, <1>8 DEF Follow
  <2>2. ns \in Seq(Names) /\ jobs[i].dst \in Stores BY <1>1, MapNsTyped DEF Job
  <2>3. \A l \in MapNs(d, jobs[i]) : l = ns BY <2>1 DEF MapNs
  <2>4. i \in ToSet(drawn)' /\ ToSet(drawn) \subseteq ToSet(drawn)'
    <3>1. drawn' = IF i \in ToSet(drawn) THEN drawn ELSE Append(drawn, i) BY <1>1, <1>8 DEF Follow
    <3>2. drawn \in Seq(DOMAIN jobs) BY DEF FlowInv
    <3>3. CASE drawn' = Append(drawn, i)
      <4>1. /\ DOMAIN drawn = 1 .. Len(drawn) /\ DOMAIN drawn' = 1 .. (Len(drawn) + 1)
            /\ \A k \in 1 .. Len(drawn) : drawn'[k] = drawn[k]
            /\ drawn'[Len(drawn) + 1] = i
        BY <3>2, <3>3
      <4>2. Len(drawn) + 1 \in 1 .. (Len(drawn) + 1)
            /\ \A k \in 1 .. Len(drawn) : k \in 1 .. (Len(drawn) + 1)
        BY <3>2
      <4> QED BY <4>1, <4>2 DEF ToSet
    <3>4. CASE i \in ToSet(drawn) /\ drawn' = drawn BY <3>4
    <3> QED BY <3>1, <3>3, <3>4
  <2>5. /\ visited' \subseteq Stores \X Seq(Names)
        /\ \A v \in visited' : (\E k \in 1 .. Len(queue') : queue'[k] = v) \/ Applied(v, Len(jobs))'
        /\ \A v, n : Applied(v, n) => Applied(v, n)'
    BY <1>2, <2>1, <2>2, <2>4, ReachCovers
  <2>6. /\ visited \subseteq visited' /\ (Len(ns) <= MaxNsDepth => <<jobs[i].dst, ns>> \in visited')
        /\ \A k \in 1 .. Len(queue) : k \in 1 .. Len(queue') /\ queue'[k] = queue[k]
    BY <2>1, <2>2, ReachQueues
  <2>7. 1 \in 1 .. Len(queue') /\ queue'[1] = <<s, d>> BY <1>1, <2>6
  <2>9. ASSUME NEW n \in 1 .. i, NEW l \in Seq(Names), jobs[n].src = s, l \in MapNs(d, jobs[n])
        PROVE  n \in ToSet(drawn)' /\ (Len(l) <= MaxNsDepth => <<jobs[n].dst, l>> \in visited')
    <3>1. CASE n \in 1 .. looked
      <4>1. n \in ToSet(drawn) /\ (Len(l) <= MaxNsDepth => <<jobs[n].dst, l>> \in visited)
        BY <1>5, <2>9, <3>1 DEF Applied
      <4> QED BY <2>4, <2>6, <4>1
    <3>2. CASE n = i BY <2>3, <2>4, <2>6, <2>9, <3>2
    <3> QED BY <1>6, <3>1, <3>2
  <2>10. Applied(queue[1], looked)'
    <3> SUFFICES ASSUME NEW n \in 1 .. looked', NEW l \in Seq(Names),
                        jobs'[n].src = queue'[1][1], l \in MapNs(queue'[1][2], jobs'[n])
                 PROVE  n \in ToSet(drawn)' /\ (Len(l) <= MaxNsDepth => <<jobs'[n].dst, l>> \in visited')
      BY DEF Applied, MapNs
    <3>1. n \in 1 .. i /\ jobs'[n] = jobs[n] BY <1>1, <1>2
    <3>2. jobs[n].src = s /\ l \in MapNs(d, jobs[n]) BY <2>7, <3>1
    <3> QED BY <2>9, <3>1, <3>2
  <2>11. reached \subseteq reached' /\ reached' = reached \cup {jobs[i].dst} BY <2>1 DEF Reach
  <2>12. \A t \in Used' \cap reached' :
           Len(targets'[t].ns) <= MaxNsDepth => <<t, targets'[t].ns>> \in visited'
    BY <1>2, <1>3, <1>4, <2>6 DEF CoverInv
  <2>13. doing' # "primary" => \A t \in Aside' \cap reached' : <<t, RootNs>> \in visited'
    BY <1>2, <1>3, <1>4, <2>6 DEF CoverInv
  <2>14. queue' # <<>>
    <3>1. PICK P : P = Stores \X Seq(Names) OBVIOUS
    <3>2. queue' \in Seq(P) BY <2>1, <2>2, <3>1, ReachTyped
    <3> QED BY <2>7, <3>2
  <2> QED BY <1>2, <1>4, <2>5, <2>10, <2>12, <2>13, <2>14 DEF CoverInv
<1> QED BY <1>7, <1>8

LEMMA CoverKeeps == ASSUME FlowInv, CoverInv, [TopologyNext]_topologyVars PROVE CoverInv'
<1>1. CASE Primary \/ OwnStore BY <1>1, StartCovers
<1>2. CASE Follow BY <1>2, FollowCovers
<1>3. CASE Followed
  <2>1. /\ UNCHANGED <<jobs, targets, unlimited, doing, visited, reached, involved, drawn>>
        /\ looked' = 0 /\ looked = Len(jobs) /\ queue' = Tail(queue) /\ queue # <<>>
        /\ doing \in {"primary", "own"}
    BY <1>3 DEF Followed, inputs, Walks
  <2>2. Used' = Used /\ Aside' = Aside BY <2>1 DEF Used, Aside
  <2>3. PICK P : P = Stores \X Seq(Names) OBVIOUS
  <2>4. queue \in Seq(P) BY <2>3 DEF FlowInv
  <2>5. /\ \A k \in 1 .. Len(queue) : k = 1 \/ k - 1 \in 1 .. Len(queue')
        /\ \A k \in 1 .. Len(queue') : queue'[k] = queue[k + 1]
    BY <2>1, <2>4
  <2>6. \A v, n : Applied(v, n) => Applied(v, n)' BY <2>1 DEF Applied
  <2>7. Applied(queue[1], Len(jobs)) BY <2>1 DEF CoverInv
  <2>8. ASSUME NEW v \in visited
        PROVE  (\E k \in 1 .. Len(queue') : queue'[k] = v) \/ Applied(v, Len(jobs))
    <3>1. CASE \E k \in 1 .. Len(queue) : queue[k] = v
      <4>1. PICK k \in 1 .. Len(queue) : queue[k] = v BY <3>1
      <4>2. CASE k = 1
        <5>1. \A w : w = queue[1] => Applied(w, Len(jobs)) BY <2>7
        <5> QED BY <4>1, <4>2, <5>1
      <4>3. CASE k # 1
        <5>1. k - 1 \in 1 .. Len(queue') BY <2>5, <4>3
        <5>2. queue'[k - 1] = queue[(k - 1) + 1] BY <2>5, <5>1
        <5>3. (k - 1) + 1 = k OBVIOUS
        <5> QED BY <4>1, <5>1, <5>2, <5>3
      <4> QED BY <4>2, <4>3
    <3>2. CASE Applied(v, Len(jobs)) BY <3>2
    <3> QED BY <3>1, <3>2 DEF CoverInv
  <2>9. Applied(queue[1], looked)' BY <2>1 DEF Applied
  <2>10. \A v \in visited' : (\E k \in 1 .. Len(queue') : queue'[k] = v) \/ Applied(v, Len(jobs))'
    BY <2>1, <2>6, <2>8
  <2> QED BY <2>1, <2>2, <2>9, <2>10 DEF CoverInv
<1>4. CASE OwnStores
  <2>1. /\ UNCHANGED <<jobs, targets, visited, reached, drawn, queue, looked>> /\ queue = <<>>
        /\ doing = "primary" /\ doing' = "own" /\ involved' = {ServerOf(s) : s \in reached}
    BY <1>4 DEF OwnStores, inputs
  <2>2. Used' = Used BY <2>1 DEF Used
  <2>3. Aside' \cap reached = {} BY <2>1 DEF Aside
  <2>4. \A v, n : Applied(v, n) => Applied(v, n)' BY <2>1 DEF Applied
  <2> QED BY <2>1, <2>2, <2>3, <2>4 DEF CoverInv
<1>5. CASE \/ SearchCycles \/ EnterRoot \/ Leave \/ SearchOn \/ FirstColumn \/ Push \/ RoundEnds
           \/ UNCHANGED topologyVars
  <2>1. UNCHANGED <<jobs, targets, unlimited, visited, reached, involved, drawn, queue>>
    BY <1>5 DEF SearchCycles, EnterRoot, Leave, SearchOn, FirstColumn, Push, RoundEnds,
                topologyVars, walkVars, inputs
  <2>2. Used' = Used /\ Aside' = Aside BY <2>1 DEF Used, Aside
  <2>3. \A v, n : Applied(v, n) => Applied(v, n)' BY <2>1 DEF Applied
  <2>4. doing' # "primary" => doing # "primary"
    BY <1>5 DEF SearchCycles, EnterRoot, Leave, SearchOn, FirstColumn, Push, RoundEnds, topologyVars
  <2>5. doing' \in {"primary", "own"} => UNCHANGED <<doing, looked>>
    BY <1>5 DEF SearchCycles, EnterRoot, Leave, SearchOn, FirstColumn, Push, RoundEnds, topologyVars
  <2>6. doing' \notin {"primary", "own"} => queue = <<>> /\ Aside \subseteq reached
    BY <1>5 DEF SearchCycles, EnterRoot, Leave, SearchOn, FirstColumn, Push, RoundEnds, topologyVars,
                Walks, CoverInv
  <2>7. queue # <<>> => Applied(queue[1], looked)'
    <3>1. queue # <<>> => UNCHANGED looked BY <2>5, <2>6
    <3>2. queue # <<>> => Applied(queue[1], looked) BY DEF CoverInv
    <3> QED BY <2>1, <3>1, <3>2 DEF Applied
  <2> QED BY <2>1, <2>2, <2>3, <2>4, <2>5, <2>6, <2>7 DEF CoverInv
<1> QED BY <1>1, <1>2, <1>3, <1>4, <1>5 DEF TopologyNext

\* The backups that what was met stands for.
Covered == {p \in Stores \X Seq(Names) :
              \E ns \in Seq(Names) : <<p[1], ns>> \in visited /\ IsPrefix(ns, p[2])}

LEMMA CoveredIsFollowed ==
  ASSUME FlowInv, CoverInv, doing = "drawn",
         NEW p \in Covered, NEW i \in DOMAIN jobs, Takes(i, p)
  PROVE  /\ i \in ToSet(drawn) /\ Moved(i, p) \in Stores \X Seq(Names)
         /\ Len(Moved(i, p)[2]) <= MaxNsDepth => Moved(i, p) \in Covered
<1>1. PICK s \in Stores, g \in Seq(Names), d \in Seq(Names) :
        p = <<s, g>> /\ <<s, d>> \in visited /\ IsPrefix(d, g)
  <2>1. PICK s \in Stores, g \in Seq(Names) : p = <<s, g>> BY DEF Covered
  <2>2. PICK d \in Seq(Names) : <<p[1], d>> \in visited /\ IsPrefix(d, p[2]) BY DEF Covered
  <2> QED BY <2>1, <2>2
<1>2. PICK J : J = Job(Seq(Names)) OBVIOUS
<1>3. jobs \in Seq(J) BY <1>2 DEF FlowInv, AnyInputs
<1>4. i \in 1 .. Len(jobs) /\ jobs[i] \in Job(Seq(Names)) BY <1>2, <1>3
<1>5. jobs[i].src = s /\ IsPrefix(jobs[i].sns, g) BY <1>1 DEF Takes
<1>6. PICK m : m = Put(jobs[i].dns, jobs[i].sns, g) OBVIOUS
<1>7. Moved(i, p) = <<jobs[i].dst, m>> BY <1>1, <1>6, MovedIsPut
<1>8. m \in Seq(Names) /\ jobs[i].dst \in Stores
  <2>1. jobs[i].dns \in Seq(Names) /\ jobs[i].sns \in Seq(Names) /\ jobs[i].dst \in Stores
    BY <1>4 DEF Job
  <2>2. Len(jobs[i].sns) <= Len(g) BY <1>5, <2>1, PrefixIs
  <2>3. IsPut(m, jobs[i].dns, jobs[i].sns, g) BY <1>6, <2>1, <2>2, PutIs
  <2> QED BY <2>1, <2>3 DEF IsPut
<1>9. PICK l \in MapNs(d, jobs[i]) : l \in Seq(Names) /\ IsPrefix(l, m)
  BY <1>1, <1>4, <1>5, <1>6, LandsBelow
<1>10. Applied(<<s, d>>, Len(jobs))
  <2>1. queue = <<>> BY DEF CoverInv
  <2>2. ~ \E k \in 1 .. Len(queue) : queue[k] = <<s, d>> BY <2>1
  <2> QED BY <1>1, <2>2 DEF CoverInv
<1>11. i \in ToSet(drawn) /\ (Len(l) <= MaxNsDepth => <<jobs[i].dst, l>> \in visited)
  BY <1>4, <1>5, <1>9, <1>10 DEF Applied
<1>12. ASSUME Len(m) <= MaxNsDepth PROVE Moved(i, p) \in Covered
  <2>1. Len(l) <= Len(m) BY <1>8, <1>9, PrefixIs
  <2>2. Len(l) <= MaxNsDepth BY <1>8, <1>9, <1>12, <2>1, TopologyAssumption
  <2>3. <<jobs[i].dst, l>> \in visited BY <1>11, <2>2
  <2>4. PICK q : q = <<jobs[i].dst, m>> OBVIOUS
  <2>5. q \in Stores \X Seq(Names) /\ q[1] = jobs[i].dst /\ q[2] = m BY <1>8, <2>4
  <2>6. q \in Covered BY <1>9, <2>3, <2>5 DEF Covered
  <2> QED BY <1>7, <2>4, <2>6
<1> QED BY <1>7, <1>8, <1>11, <1>12

LEMMA StartsCovered ==
  ASSUME FlowInv, CoverInv, doing = "drawn", NEW s \in Stores, NEW g \in Seq(Names),
         Len(g) <= MaxNsDepth, (s \in Used /\ IsPrefix(targets[s].ns, g)) \/ s \in Aside
  PROVE  <<s, g>> \in Covered
<1>1. CASE s \in Used /\ IsPrefix(targets[s].ns, g)
  <2>1. s \in reached /\ targets[s].ns \in Seq(Names) BY <1>1 DEF FlowInv, AnyInputs, Used
  <2>2. Len(targets[s].ns) <= Len(g) BY <1>1, <2>1, PrefixIs
  <2>3. Len(targets[s].ns) <= MaxNsDepth BY <2>1, <2>2, TopologyAssumption
  <2>4. <<s, targets[s].ns>> \in visited BY <1>1, <2>1, <2>3 DEF CoverInv
  <2> QED BY <1>1, <2>1, <2>4 DEF Covered
<1>2. CASE s \in Aside
  <2>1. <<s, RootNs>> \in visited BY <1>2 DEF CoverInv
  <2>2. RootNs \in Seq(Names) /\ Len(RootNs) = 0 BY DEF RootNs
  <2>3. IsPrefix(RootNs, g)
    <3>1. Len(RootNs) <= Len(g) /\ \A k \in 1 .. Len(RootNs) : RootNs[k] = g[k] BY <2>2
    <3> QED BY <2>2, <3>1, PrefixIs
  <2> QED BY <2>1, <2>2, <2>3 DEF Covered
<1> QED BY <1>1, <1>2

LEMMA CarriedCovered ==
  ASSUME FlowInv, CoverInv, doing = "drawn", NEW S \in SUBSET Covered
  PROVE  Carried(S) \subseteq Covered
<1> SUFFICES ASSUME NEW q \in Carried(S), q \notin S PROVE q \in Covered OBVIOUS
<1>1. PICK i \in DOMAIN jobs, p \in S : Takes(i, p) /\ q = Moved(i, p) /\ Len(q[2]) <= MaxNsDepth
  BY DEF Carried
<1> QED BY <1>1, CoveredIsFollowed

LEMMA LyingCovered == ASSUME FlowInv, CoverInv, doing = "drawn" PROVE Lying \subseteq Covered
<1>1. PICK S : S = Written \cup (Aside \X Groups) OBVIOUS
<1>2. \A g \in Groups : g \in Seq(Names) /\ Len(g) <= MaxNsDepth
  <2> SUFFICES ASSUME NEW g \in Groups PROVE g \in Seq(Names) /\ Len(g) <= MaxNsDepth OBVIOUS
  <2>1. PICK n \in 0 .. MaxNsDepth : g \in [1 .. n -> Names] BY DEF Groups, BoundedSeq, SeqOf
  <2>2. n \in Nat /\ n <= MaxNsDepth BY <2>1, TopologyAssumption
  <2> QED BY <2>1, <2>2
<1>3. S \subseteq Covered
  <2> SUFFICES ASSUME NEW p \in S PROVE p \in Covered OBVIOUS
  <2>1. CASE p \in Written
    <3>1. PICK s \in Used, g \in Groups : p = <<s, g>> /\ IsPrefix(targets[s].ns, g)
      BY <2>1 DEF Written
    <3>2. s \in Stores BY DEF Used, FlowInv, AnyInputs
    <3> QED BY <1>2, <3>1, <3>2, StartsCovered
  <2>2. CASE p \in Aside \X Groups
    <3>1. PICK s \in Aside, g \in Groups : p = <<s, g>> BY <2>2
    <3>2. s \in Stores BY DEF Aside
    <3> QED BY <1>2, <3>1, <3>2, StartsCovered
  <2> QED BY <1>1, <2>1, <2>2
<1>4. Carried(S) \subseteq Covered BY <1>3, CarriedCovered
<1>5. Carried(Carried(S)) \subseteq Covered BY <1>4, CarriedCovered
<1>6. Carried(Carried(Carried(S))) \subseteq Covered BY <1>5, CarriedCovered
<1>7. Carried(Carried(Carried(Carried(S)))) \subseteq Covered BY <1>6, CarriedCovered
<1>8. Carried(Carried(Carried(Carried(Carried(S))))) \subseteq Covered BY <1>7, CarriedCovered
<1> QED BY <1>1, <1>8 DEF Lying, Spread

\* Reference without bounds on the jobs in a row: a set of places of backups that has
\* what PVE writes and what lies besides, as deep as namespaces go, and all that jobs
\* make of these.  No job that takes something of it is missing.
NothingMissed ==
    doing = "drawn" =>
        \E C \in SUBSET (Stores \X Seq(Names)) :
            /\ \A s \in Stores, g \in Seq(Names) :
                 (s \in Used /\ IsPrefix(targets[s].ns, g)) \/ s \in Aside =>
                   (Len(g) <= MaxNsDepth => <<s, g>> \in C)
            /\ \A p \in C, i \in DOMAIN jobs : Takes(i, p) =>
                 /\ i \in ToSet(drawn)
                 /\ Len(Moved(i, p)[2]) <= MaxNsDepth => Moved(i, p) \in C

\* And each job shown takes something of every such set, without a bound on the depth.
NothingInvented ==
    doing = "drawn" =>
        \A L \in SUBSET (Stores \X Seq(Names)) : Carries(L) => DrawnFrom(L)

LEMMA WalkInvHolds ==
  AnyInputs /\ TopologyStart /\ [][TopologyNext]_topologyVars => [](FlowInv /\ CarryInv /\ CoverInv)
<1>1. AnyInputs /\ TopologyStart => CarryInv /\ CoverInv
  <2> SUFFICES ASSUME AnyInputs, TopologyStart PROVE CarryInv /\ CoverInv OBVIOUS
  <2>1. /\ doing = "primary" /\ queue = <<>> /\ visited = {} /\ reached = {} /\ drawn = <<>>
        /\ looked = 0
    BY DEF TopologyStart
  <2>2. CarryInv BY <2>1 DEF CarryInv, QueuedIn, DrawnFrom
  <2>3. CoverInv BY <2>1 DEF CoverInv
  <2> QED BY <2>2, <2>3
<1>2. FlowInv /\ CarryInv /\ [TopologyNext]_topologyVars => CarryInv' BY CarryKeeps
<1>3. FlowInv /\ CoverInv /\ [TopologyNext]_topologyVars => CoverInv' BY CoverKeeps
<1>4. DiagramInv => FlowInv BY DEF DiagramInv
<1> QED BY <1>1, <1>2, <1>3, <1>4, DiagramInvHolds, PTL

\* The walk (build_topology, _map_ns), for any datastores, targets, jobs and namespaces:
\* a job is shown if it takes what lies in one of the targets or besides, or what jobs
\* make of it through namespaces of at most MaxNsDepth levels, and only if it takes such
\* a thing at all.  NoneMissing is a part of WalkFollowsData.
THEOREM AnyWalkFollowsData ==
  AnyInputs /\ TopologyStart /\ [][TopologyNext]_topologyVars
  => [](NoneMissing /\ NothingMissed /\ NothingInvented)
<1>1. ASSUME FlowInv, CoverInv PROVE NoneMissing
  <2> SUFFICES ASSUME doing = "drawn", NEW i \in DOMAIN jobs, NEW p \in Lying, Takes(i, p)
               PROVE  i \in ToSet(drawn)
    BY DEF NoneMissing
  <2>1. p \in Covered BY <1>1, LyingCovered
  <2> QED BY <1>1, <2>1, CoveredIsFollowed
<1>2. ASSUME FlowInv, CoverInv PROVE NothingMissed
  <2> SUFFICES ASSUME doing = "drawn"
               PROVE  /\ Covered \subseteq Stores \X Seq(Names)
                      /\ \A s \in Stores, g \in Seq(Names) :
                           (s \in Used /\ IsPrefix(targets[s].ns, g)) \/ s \in Aside =>
                             (Len(g) <= MaxNsDepth => <<s, g>> \in Covered)
                      /\ \A p \in Covered, i \in DOMAIN jobs : Takes(i, p) =>
                           /\ i \in ToSet(drawn)
                           /\ Len(Moved(i, p)[2]) <= MaxNsDepth => Moved(i, p) \in Covered
    BY DEF NothingMissed
  <2>1. Covered \subseteq Stores \X Seq(Names) BY DEF Covered
  <2> QED BY <1>2, <2>1, StartsCovered, CoveredIsFollowed
<1>3. CarryInv => NothingInvented BY DEF CarryInv, NothingInvented
<1> QED BY <1>1, <1>2, <1>3, WalkInvHolds, PTL

THEOREM WalkFollowsItsData == TopologySpec => [](NoneMissing /\ NothingMissed /\ NothingInvented)
<1>1. TopologyInit => AnyInputs /\ TopologyStart BY InputsTyped DEF TopologyInit
<1> QED BY <1>1, AnyWalkFollowsData, PTL DEF TopologySpec
==============================================================================
