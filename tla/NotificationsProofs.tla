------------------------- MODULE NotificationsProofs -------------------------
(* What holds of the alert queue for any number of keys, alerts, callers,      *)
(* timers and restarts.                                                        *)
EXTENDS Notifications, TLAPS

-----------------------------------------------------------------------------
(* Where a message is.  It is carried by the caller that raised it, then queued, *)
(* then in the batch of one thread, then known to Gotify or the log: the places  *)
(* exclude each other, which is what makes a hand-over unique.                   *)

\* An idle caller carries nothing, any other a message of its own that it raised.
CallersOwn ==
    /\ \A c \in Callers : pc[c] = "idle" => alert[c] = NoMessage
    /\ \A c \in Callers : pc[c] = "send" => alert[c] \in raised
    /\ \A c, d \in Callers : alert[c] = alert[d] /\ alert[c] # NoMessage => c = d

\* A message past its caller was raised, and is past the caller for good.
Passed ==
    \A m \in Messages : m \in queue \/ outcome[m] # "none" \/ (\E t \in Timers : m \in batch[t]) =>
        m \in raised /\ \A c \in Callers : alert[c] # m

\* What is queued or in a batch has no outcome yet and is in one place only.
Exclusive ==
    /\ \A m \in queue : outcome[m] = "none" /\ \A t \in Timers : m \notin batch[t]
    /\ \A t \in Timers : \A m \in batch[t] : outcome[m] = "none"
    /\ \A t, u \in Timers : \A m \in batch[t] : m \in batch[u] => t = u

\* A timer runs down or has fired, and carries no batch until it has flushed.
TimersEmpty ==
    /\ waiting \cap fired = {}
    /\ \A t \in waiting \cup fired : batch[t] = {}

PlaceInv == CallersOwn /\ Passed /\ Exclusive /\ TimersEmpty

NotifyInv == TypeOK /\ PlaceInv

\* Nothing is queued at the start.
LEMMA InitInv == Init => NotifyInv
<1> SUFFICES ASSUME Init PROVE NotifyInv
  OBVIOUS
<1>1. TypeOK
  BY NotifyAssumption DEF Init, TypeOK, Outcomes
<1>2. PlaceInv
  BY DEF Init, PlaceInv, CallersOwn, Passed, Exclusive, TimersEmpty
<1> QED BY <1>1, <1>2 DEF NotifyInv

\* A caller's step keeps every message in one place.
LEMMA CallInv ==
  ASSUME NotifyInv, NEW c \in Callers, Call(c)
  PROVE  NotifyInv'
<1> USE NotifyAssumption DEF NotifyInv, flushVars
<1>1. CASE \E m \in Messages : Suppress(c, m)
  <2> PICK m \in Messages : Suppress(c, m)
    BY <1>1
  <2>1. TypeOK'
    BY DEF TypeOK, Suppress, Raise
  <2>2. PlaceInv'
    BY DEF TypeOK, PlaceInv, CallersOwn, Passed, Exclusive, TimersEmpty, Suppress, Raise
  <2> QED BY <2>1, <2>2
<1>2. CASE \E m \in Messages : Claim(c, m) \/ ClaimFails(c, m)
  <2> PICK m \in Messages : Claim(c, m) \/ ClaimFails(c, m)
    BY <1>2
  <2>0. /\ m \notin raised /\ raised' = raised \cup {m}
        /\ pc' = [pc EXCEPT ![c] = "send"] /\ alert' = [alert EXCEPT ![c] = m]
        /\ claimed' \subseteq claimed \cup {Key(m)}
        /\ UNCHANGED <<quiet, queue, timer, waiting, fired, batch, outcome, abandoned, restarts>>
    BY DEF Claim, ClaimFails, Raise, Carry
  <2>1. TypeOK'
    <3>1. Key(m) \in Keys
      BY DEF Messages, Key
    <3> QED BY <2>0, <3>1 DEF TypeOK
  <2>2. \A d \in Callers : alert[d] # m
    BY <2>0 DEF TypeOK, PlaceInv, CallersOwn
  <2>3. CallersOwn'
    BY <2>0, <2>2 DEF TypeOK, PlaceInv, CallersOwn
  <2>4. Passed'
    BY <2>0, <2>2 DEF TypeOK, PlaceInv, Passed
  <2>5. Exclusive' /\ TimersEmpty'
    BY <2>0 DEF PlaceInv, Exclusive, TimersEmpty
  <2> QED BY <2>1, <2>3, <2>4, <2>5 DEF PlaceInv
<1>3. CASE Drop(c) \/ SendFails(c)
  <2> PICK fate \in {"dropped", "unread"} : GiveUp(c, fate)
    BY <1>3 DEF Drop, SendFails
  <2>0. /\ pc[c] = "send" /\ outcome' = [outcome EXCEPT ![alert[c]] = fate]
        /\ pc' = [pc EXCEPT ![c] = "idle"] /\ alert' = [alert EXCEPT ![c] = NoMessage]
        /\ UNCHANGED <<claimed, quiet, raised, queue, timer, waiting, fired, batch, abandoned, restarts>>
    BY DEF GiveUp, Carry
  <2>1. alert[c] \in raised /\ alert[c] \in Messages
    BY <2>0 DEF TypeOK, PlaceInv, CallersOwn
  <2>2. TypeOK'
    BY <2>0, <2>1 DEF TypeOK, Outcomes
  <2>3. CallersOwn'
    BY <2>0 DEF TypeOK, PlaceInv, CallersOwn
  <2>4. Passed'
    BY <2>0, <2>1 DEF TypeOK, PlaceInv, CallersOwn, Passed
  <2>5. Exclusive' /\ TimersEmpty'
    BY <2>0, <2>1 DEF TypeOK, PlaceInv, Passed, Exclusive, TimersEmpty
  <2> QED BY <2>2, <2>3, <2>4, <2>5 DEF PlaceInv
<1>4. CASE QueueUp(c)
  <2>0. /\ pc[c] = "send" /\ queue' = queue \cup {alert[c]}
        /\ pc' = [pc EXCEPT ![c] = "idle"] /\ alert' = [alert EXCEPT ![c] = NoMessage]
        /\ UNCHANGED <<claimed, quiet, raised, fired, batch, outcome, restarts>>
    BY <1>4 DEF QueueUp, Carry
  <2>1. PICK t \in Free : /\ timer' = t /\ waiting' = (waiting \ {timer}) \cup {t}
                          /\ abandoned' = FALSE
    BY <1>4 DEF QueueUp, Reschedule
  <2>2. alert[c] \in raised /\ alert[c] \in Messages
    BY <2>0 DEF TypeOK, PlaceInv, CallersOwn
  <2>3. TypeOK'
    BY <2>0, <2>1, <2>2 DEF TypeOK, Free
  <2>4. CallersOwn'
    BY <2>0 DEF TypeOK, PlaceInv, CallersOwn
  <2>5. Passed'
    BY <2>0, <2>2 DEF TypeOK, PlaceInv, CallersOwn, Passed
  <2>6. Exclusive' /\ TimersEmpty'
    BY <2>0, <2>1, <2>2 DEF TypeOK, PlaceInv, Passed, Exclusive, TimersEmpty, Free
  <2> QED BY <2>3, <2>4, <2>5, <2>6 DEF PlaceInv
<1> QED BY <1>1, <1>2, <1>3, <1>4 DEF Call

\* A timer's step keeps every message in one place.
LEMMA TimerInv ==
  ASSUME NotifyInv, NEW t \in Timers, Fire(t) \/ Flush(t) \/ Deliver(t)
  PROVE  NotifyInv'
<1> USE NotifyAssumption DEF NotifyInv, callVars
<1>1. CASE Fire(t) \/ FlushNothing(t) \/ FlushFails(t) \/ Defer(t)
  <2>0. /\ UNCHANGED <<quiet, claimed, raised, pc, alert, queue, batch, outcome, restarts>>
        /\ timer' \in Timers \cup {NoTimer} /\ fired' \subseteq fired \cup {t}
        /\ waiting' \subseteq Timers /\ abandoned' \in BOOLEAN
    BY <1>1 DEF TypeOK, Fire, FlushNothing, FlushFails, Defer, Free
  <2>1. waiting' \cap fired' = {} /\ \A u \in waiting' \cup fired' : batch[u] = {}
    BY <1>1 DEF PlaceInv, TimersEmpty, Fire, FlushNothing, FlushFails, Defer, Free
  <2>2. TypeOK'
    BY <2>0 DEF TypeOK
  <2>3. PlaceInv'
    BY <2>0, <2>1 DEF PlaceInv, CallersOwn, Passed, Exclusive, TimersEmpty
  <2> QED BY <2>2, <2>3
<1>2. CASE Take(t)
  <2>0. /\ t \in fired /\ batch' = [batch EXCEPT ![t] = queue] /\ queue' = {}
        /\ fired' = fired \ {t} /\ timer' = NoTimer
        /\ UNCHANGED <<quiet, claimed, raised, pc, alert, waiting, outcome, abandoned, restarts>>
    BY <1>2 DEF Take
  <2>1. t \notin waiting /\ batch[t] = {}
    BY <2>0 DEF PlaceInv, TimersEmpty
  <2>2. TypeOK'
    BY <2>0 DEF TypeOK
  <2>3. CallersOwn' /\ TimersEmpty'
    BY <2>0, <2>1 DEF TypeOK, PlaceInv, CallersOwn, TimersEmpty
  <2>4. Passed'
    BY <2>0 DEF TypeOK, PlaceInv, Passed
  <2>5. Exclusive'
    BY <2>0, <2>1 DEF TypeOK, PlaceInv, Exclusive
  <2> QED BY <2>2, <2>3, <2>4, <2>5 DEF PlaceInv
<1>3. CASE Deliver(t)
  <2>0. /\ batch' = [batch EXCEPT ![t] = {}]
        /\ \E result \in {"told", "failed", "unread"} :
             outcome' = [m \in Messages |-> IF m \in batch[t] THEN result ELSE outcome[m]]
        /\ UNCHANGED <<quiet, claimed, raised, pc, alert, queue, timer, waiting, fired, abandoned,
                       restarts>>
    BY <1>3 DEF Deliver
  <2> PICK result \in {"told", "failed", "unread"} :
             outcome' = [m \in Messages |-> IF m \in batch[t] THEN result ELSE outcome[m]]
    BY <2>0
  <2>1. TypeOK'
    BY <2>0 DEF TypeOK, Outcomes
  <2>2. CallersOwn' /\ TimersEmpty'
    BY <2>0 DEF TypeOK, PlaceInv, CallersOwn, TimersEmpty
  <2>3. Passed'
    BY <2>0 DEF TypeOK, PlaceInv, Passed
  <2>4. Exclusive'
    BY <2>0 DEF TypeOK, PlaceInv, Exclusive
  <2> QED BY <2>1, <2>2, <2>3, <2>4 DEF PlaceInv
<1> QED BY <1>1, <1>2, <1>3 DEF Flush

\* Every step keeps each message in one place.
LEMMA NextInv == NotifyInv /\ [Next]_vars => NotifyInv'
<1> SUFFICES ASSUME NotifyInv, [Next]_vars PROVE NotifyInv'
  OBVIOUS
<1> USE DEF NotifyInv
<1>1. CASE \E c \in Callers : Call(c)
  BY <1>1, CallInv
<1>2. CASE \E t \in Timers : Fire(t) \/ Flush(t) \/ Deliver(t)
  BY <1>2, TimerInv
<1>3. CASE (\E k \in Keys : Expire(k)) \/ QuietBegins \/ QuietEnds \/ UNCHANGED vars
  <2>0. /\ claimed' \subseteq claimed /\ quiet' \in BOOLEAN
        /\ UNCHANGED <<raised, pc, alert, queue, timer, waiting, fired, batch, outcome, abandoned,
                       restarts>>
    BY <1>3 DEF TypeOK, Expire, QuietBegins, QuietEnds, vars, callVars, flushVars
  <2>1. TypeOK'
    BY <2>0 DEF TypeOK
  <2>2. PlaceInv'
    BY <2>0 DEF PlaceInv, CallersOwn, Passed, Exclusive, TimersEmpty
  <2> QED BY <2>1, <2>2
<1>4. CASE Restart
  <2>0. /\ pc' = [c \in Callers |-> "idle"] /\ alert' = [c \in Callers |-> NoMessage]
        /\ queue' = {} /\ waiting' = {} /\ fired' = {} /\ timer' = NoTimer
        /\ batch' = [t \in Timers |-> {}] /\ restarts' = restarts + 1 /\ abandoned' = FALSE
        /\ UNCHANGED <<claimed, quiet, raised, outcome>>
    BY <1>4 DEF Restart
  <2>1. TypeOK'
    <3>1. pc' \in [Callers -> {"idle", "send"}] /\ alert' \in [Callers -> Messages \cup {NoMessage}]
      BY <2>0
    <3>2. batch' \in [Timers -> SUBSET Messages] /\ restarts' \in Nat
      BY <2>0 DEF TypeOK
    <3> QED BY <2>0, <3>1, <3>2 DEF TypeOK
  <2>2. PlaceInv'
    BY <2>0, NotifyAssumption DEF TypeOK, PlaceInv, CallersOwn, Passed, Exclusive, TimersEmpty
  <2> QED BY <2>1, <2>2
<1> QED BY <1>1, <1>2, <1>3, <1>4 DEF Next

\* Each message is in one place in every reachable state.
LEMMA InvHolds == Spec => []NotifyInv
  BY InitInv, NextInv, PTL DEF Spec

-----------------------------------------------------------------------------

\* Every variable keeps its type (notifications.py, db_notifications.try_claim_dedup).
THEOREM NotifyTypes == Spec => []TypeOK
<1>1. NotifyInv => TypeOK
  BY DEF NotifyInv
<1> QED BY <1>1, InvHolds, PTL

\* A queued message is left without a timer that will look at it only by a flush that
\* could not read the settings, and only until the next alert: whoever else empties a
\* timer's place either empties the queue or starts another timer
\* (_schedule_gotify_flush, _flush_gotify_queue).
THEOREM TimerBehindQueue == Spec => []NoneStranded
<1>1. Init => NoneStranded
  BY DEF Init, NoneStranded
<1>2. NotifyInv /\ NoneStranded /\ [Next]_vars => NoneStranded'
  <2> SUFFICES ASSUME NotifyInv, NoneStranded, [Next]_vars PROVE NoneStranded'
    OBVIOUS
  <2>1. CASE \E c \in Callers : Call(c)
    <3> PICK c \in Callers : Call(c)
      BY <2>1
    <3>1. CASE QueueUp(c)
      BY <3>1 DEF QueueUp, Reschedule, NoneStranded, Stranded
    <3>2. CASE ~QueueUp(c)
      BY <3>2 DEF Call, Suppress, Claim, ClaimFails, Drop, SendFails, GiveUp, flushVars,
                     NoneStranded, Stranded
    <3> QED BY <3>1, <3>2
  <2>2. CASE \E t \in Timers : Fire(t) \/ Flush(t) \/ Deliver(t)
    BY <2>2 DEF Fire, Flush, FlushNothing, FlushFails, Defer, Take, Deliver, NoneStranded, Stranded
  <2>3. CASE (\E k \in Keys : Expire(k)) \/ QuietBegins \/ QuietEnds \/ Restart \/ UNCHANGED vars
    BY <2>3 DEF Expire, QuietBegins, QuietEnds, Restart, vars, flushVars, NoneStranded,
                Stranded
  <2> QED BY <2>1, <2>2, <2>3 DEF Next
<1> QED BY <1>1, <1>2, InvHolds, PTL DEF Spec

-----------------------------------------------------------------------------
(* Refinement of Outbox.                                                       *)

\* The place of a message and the sets Outbox moves.
LEMMA PlaceFacts ==
  ASSUME NotifyInv
  PROVE  /\ \A m \in Sending : outcome[m] = "none" /\ m \notin queue
         /\ \A m \in queue : outcome[m] = "none"
         /\ Sending \subseteq Messages /\ queue \subseteq Messages
         /\ OB!At("queued") = queue
         /\ OB!At("sending") = Sending
<1> USE DEF NotifyInv
<1>1. \A m \in Sending : \E t \in Timers : m \in batch[t]
  BY DEF Sending
<1>2. /\ \A m \in Sending : outcome[m] = "none" /\ m \notin queue
      /\ \A m \in queue : outcome[m] = "none"
      /\ Sending \subseteq Messages /\ queue \subseteq Messages
  BY <1>1 DEF TypeOK, PlaceInv, Exclusive
<1>3. OB!At("queued") = queue /\ OB!At("sending") = Sending
  BY <1>2 DEF OB!At, Place
<1> QED BY <1>2, <1>3

\* A step that keeps outcomes, queue and batches moves no message.
LEMMA PlaceSame ==
  ASSUME UNCHANGED <<outcome, queue, batch>>
  PROVE  UNCHANGED Place
  BY DEF Place, Sending

\* A caller's step accepts its message, or moves none.
LEMMA CallPlace ==
  ASSUME NotifyInv, NEW c \in Callers, Call(c)
  PROVE  [OB!Next]_Place
<1> USE DEF NotifyInv, flushVars
<1>1. CASE \E m \in Messages : Suppress(c, m) \/ Claim(c, m) \/ ClaimFails(c, m)
  BY <1>1, PlaceSame DEF Suppress, Claim, ClaimFails
<1> DEFINE m == alert[c]
<1>2. ASSUME pc[c] = "send"
      PROVE  /\ m \in Messages /\ m \notin queue /\ m \notin Sending
             /\ outcome[m] = "none" /\ Place[m] = "out"
  <2>1. m \in Messages
    BY <1>2 DEF TypeOK, PlaceInv, CallersOwn
  <2>2. m \notin queue /\ outcome[m] = "none" /\ \A t \in Timers : m \notin batch[t]
    BY <2>1 DEF PlaceInv, Passed
  <2> QED BY <2>1, <2>2 DEF Place, Sending
<1>3. CASE Drop(c) \/ SendFails(c)
  <2> PICK fate \in {"dropped", "unread"} : GiveUp(c, fate)
    BY <1>3 DEF Drop, SendFails
  <2>1. /\ pc[c] = "send" /\ outcome' = [outcome EXCEPT ![m] = fate]
        /\ UNCHANGED <<queue, batch>>
    BY DEF GiveUp
  <2>2. Sending' = Sending
    BY <2>1 DEF Sending
  <2>3. \A x \in Messages : Place'[x] = Place[x]
    BY <1>2, <2>1, <2>2 DEF TypeOK, Place
  <2> QED BY <2>3 DEF Place
<1>4. CASE QueueUp(c)
  <2>1. pc[c] = "send" /\ queue' = queue \cup {m} /\ UNCHANGED <<outcome, batch>>
    BY <1>4 DEF QueueUp
  <2>2. Sending' = Sending
    BY <2>1 DEF Sending
  <2>3. Place' = [x \in Messages |-> IF x \in {m} THEN "queued" ELSE Place[x]]
    BY <1>2, <2>1, <2>2 DEF TypeOK, Place
  <2>4. OB!Accept(m)
    BY <1>2, <2>1, <2>3 DEF OB!Accept, OB!Move
  <2> QED BY <1>2, <2>1, <2>4 DEF OB!Next
<1> QED BY <1>1, <1>3, <1>4 DEF Call

\* A timer's step takes the whole queue, reports a batch, or moves nothing.
LEMMA TimerPlace ==
  ASSUME NotifyInv, NEW t \in Timers, Fire(t) \/ Flush(t) \/ Deliver(t)
  PROVE  [OB!Next]_Place
<1> USE DEF NotifyInv, callVars
<1>1. CASE Fire(t) \/ FlushNothing(t) \/ FlushFails(t) \/ Defer(t)
  BY <1>1, PlaceSame DEF Fire, FlushNothing, FlushFails, Defer
<1>2. CASE Take(t)
  <2>1. /\ t \in fired /\ queue # {} /\ queue' = {} /\ outcome' = outcome
        /\ batch' = [batch EXCEPT ![t] = queue]
    BY <1>2 DEF Take
  <2>2. Sending' = Sending \cup queue
    <3>1. batch[t] = {}
      BY <2>1 DEF PlaceInv, TimersEmpty
    <3>2. \A u \in Timers : batch'[u] = IF u = t THEN queue ELSE batch[u]
      BY <2>1 DEF TypeOK
    <3>3. Sending' = UNION {batch'[u] : u \in Timers}
      BY DEF Sending
    <3> QED BY <3>1, <3>2, <3>3 DEF Sending
  <2>3. Place' = [x \in Messages |-> IF x \in queue THEN "sending" ELSE Place[x]]
    BY <2>1, <2>2, PlaceFacts DEF Place
  <2>4. OB!TakeAll
    BY <2>1, <2>3, PlaceFacts DEF OB!TakeAll, OB!Move
  <2> QED BY <2>4 DEF OB!Next
<1>3. CASE Deliver(t)
  <2>1. /\ batch[t] # {} /\ batch[t] \subseteq Sending
        /\ batch' = [batch EXCEPT ![t] = {}] /\ queue' = queue
    BY <1>3 DEF Deliver, Sending
  <2> PICK result \in {"told", "failed", "unread"} :
             outcome' = [m \in Messages |-> IF m \in batch[t] THEN result ELSE outcome[m]]
    BY <1>3 DEF Deliver
  <2>2. Sending' = Sending \ batch[t]
    <3>1. \A u \in Timers : batch'[u] = IF u = t THEN {} ELSE batch[u]
      BY <2>1 DEF TypeOK
    <3>2. \A u \in Timers : u # t => batch[u] \cap batch[t] = {}
      BY DEF PlaceInv, Exclusive
    <3>3. Sending' = UNION {batch'[u] : u \in Timers}
      BY DEF Sending
    <3> QED BY <3>1, <3>2, <3>3 DEF Sending
  <2>3. Place' = [x \in Messages |-> IF x \in batch[t]
                                       THEN IF result = "told" THEN "told" ELSE "out"
                                       ELSE Place[x]]
    BY <2>1, <2>2, PlaceFacts DEF Place
  <2>4. OB!Report(batch[t])
    BY <2>1, <2>3, PlaceFacts DEF OB!Report, OB!Move
  <2>5. batch[t] \in SUBSET Messages
    BY DEF TypeOK
  <2> QED BY <2>4, <2>5 DEF OB!Next
<1> QED BY <1>1, <1>2, <1>3 DEF Flush

\* The queue and its timers implement Outbox, step by step: a message is handed over
\* once, with all that waits beside it, although any number of timer threads flush
\* and callers append in between (send_gotify, _flush_gotify_queue).
THEOREM OutboxImplemented == Spec => HandedOverOnce
<1>1. Init => OB!Init
  BY DEF Init, OB!Init, Place, Sending
<1>2. NotifyInv /\ [Next]_vars => [OB!Next]_Place
  <2> SUFFICES ASSUME NotifyInv, [Next]_vars PROVE [OB!Next]_Place
    OBVIOUS
  <2>1. CASE \E c \in Callers : Call(c)
    BY <2>1, CallPlace
  <2>2. CASE \E t \in Timers : Fire(t) \/ Flush(t) \/ Deliver(t)
    BY <2>2, TimerPlace
  <2>3. CASE (\E k \in Keys : Expire(k)) \/ QuietBegins \/ QuietEnds \/ UNCHANGED vars
    BY <2>3, PlaceSame DEF Expire, QuietBegins, QuietEnds, vars, flushVars
  <2>4. CASE Restart
    <3>1. queue' = {} /\ batch' = [t \in Timers |-> {}] /\ outcome' = outcome
      BY <2>4 DEF Restart
    <3>2. Sending' = {}
      BY <3>1 DEF Sending
    <3>3. Place' = [x \in Messages |-> IF x \in queue \cup Sending THEN "out" ELSE Place[x]]
      BY <3>1, <3>2, PlaceFacts DEF Place
    <3>4. OB!Crash
      BY <3>3, PlaceFacts DEF OB!Crash, OB!Move
    <3> QED BY <3>4 DEF OB!Next
  <2> QED BY <2>1, <2>2, <2>3, <2>4 DEF Next
<1> QED BY <1>1, <1>2, InvHolds, PTL DEF Spec, HandedOverOnce, OB!Spec

-----------------------------------------------------------------------------

OnWay(m) == m \in Carried \cup queue \cup Sending \/ outcome[m] # "none"

\* No step but a restart makes an alert that is on its way disappear.
LEMMA StaysOnWay ==
  ASSUME NotifyInv, [Next]_vars, ~Restart, NEW m \in Messages, OnWay(m)
  PROVE  OnWay(m)'
<1> USE DEF NotifyInv
<1>0. m # NoMessage
  BY NotifyAssumption
<1>1. CASE \E d \in Callers : Call(d)
  <2> PICK d \in Callers : Call(d)
    BY <1>1
  <2>1. CASE \E c \in Callers : alert[c] = m
    <3> PICK c \in Callers : alert[c] = m
      BY <2>1
    <3>1. pc[c] = "send"
      BY <1>0 DEF TypeOK, PlaceInv, CallersOwn
    <3>2. CASE d = c
      <4>1. Drop(c) \/ SendFails(c) \/ QueueUp(c)
        BY <3>1, <3>2 DEF Call, Suppress, Claim, ClaimFails, Raise
      <4>2. Drop(c) \/ SendFails(c) => outcome'[m] # "none"
        BY DEF Drop, SendFails, GiveUp, TypeOK
      <4>3. QueueUp(c) => m \in queue'
        BY DEF QueueUp
      <4> QED BY <4>1, <4>2, <4>3 DEF OnWay
    <3>3. CASE d # c
      <4>1. alert'[c] = m
        BY <3>3 DEF Call, Suppress, Claim, ClaimFails, Drop, SendFails, GiveUp, QueueUp, Carry, TypeOK
      <4> QED BY <1>0, <4>1 DEF OnWay, Carried
    <3> QED BY <3>2, <3>3
  <2>2. CASE \A c \in Callers : alert[c] # m
    <3>1. queue \subseteq queue' /\ batch' = batch /\ (outcome[m] # "none" => outcome'[m] # "none")
      BY DEF Call, Suppress, Claim, ClaimFails, Drop, SendFails, GiveUp, QueueUp, flushVars, TypeOK
    <3>2. Sending' = Sending
      BY <3>1 DEF Sending
    <3>3. m \notin Carried
      BY <2>2 DEF Carried
    <3> QED BY <3>1, <3>2, <3>3 DEF OnWay
  <2> QED BY <2>1, <2>2
<1>2. CASE \E t \in Timers : Fire(t) \/ Flush(t) \/ Deliver(t)
  <2> PICK t \in Timers : Fire(t) \/ Flush(t) \/ Deliver(t)
    BY <1>2
  <2>0. Carried' = Carried
    BY DEF Fire, Flush, FlushNothing, FlushFails, Defer, Take, Deliver, callVars, Carried
  <2>1. CASE Fire(t) \/ FlushNothing(t) \/ FlushFails(t) \/ Defer(t)
    <3>1. UNCHANGED <<queue, batch, outcome>>
      BY <2>1 DEF Fire, FlushNothing, FlushFails, Defer
    <3> QED BY <2>0, <3>1 DEF OnWay, Sending
  <2>2. CASE Take(t)
    <3>1. /\ batch[t] = {} /\ outcome' = outcome
          /\ \A u \in Timers : batch'[u] = IF u = t THEN queue ELSE batch[u]
      BY <2>2 DEF Take, TypeOK, PlaceInv, TimersEmpty
    <3>2. Sending \cup queue \subseteq Sending'
      BY <3>1 DEF Sending
    <3> QED BY <2>0, <3>1, <3>2 DEF OnWay
  <2>3. CASE Deliver(t)
    <3>1. /\ queue' = queue /\ (outcome[m] # "none" \/ m \in batch[t] => outcome'[m] # "none")
          /\ \A u \in Timers : batch'[u] = IF u = t THEN {} ELSE batch[u]
      BY <2>3 DEF Deliver, TypeOK
    <3>2. Sending \ batch[t] \subseteq Sending'
      BY <3>1 DEF Sending
    <3> QED BY <2>0, <3>1, <3>2 DEF OnWay
  <2> QED BY <2>1, <2>2, <2>3 DEF Flush
<1>3. CASE (\E k \in Keys : Expire(k)) \/ QuietBegins \/ QuietEnds \/ UNCHANGED vars
  <2>1. UNCHANGED <<alert, queue, batch, outcome>>
    BY <1>3 DEF Expire, QuietBegins, QuietEnds, vars, callVars, flushVars
  <2> QED BY <2>1 DEF OnWay, Carried, Sending
<1> QED BY <1>1, <1>2, <1>3 DEF Next

\* As long as the process lives, a claimed key stands for an alert that is on its way,
\* or that was told, refused, dropped with Gotify switched off, or ended by a failed
\* reading of the settings: no interleaving of callers and timers loses it in between
\* (_should_send, send_gotify, _flush_gotify_queue).
THEOREM ClaimsBacked == Spec => []ClaimBacked
<1>1. Init => ClaimBacked
  BY DEF Init, ClaimBacked
<1>2. NotifyInv /\ ClaimBacked /\ [Next]_vars => ClaimBacked'
  <2> SUFFICES ASSUME NotifyInv, ClaimBacked, [Next]_vars PROVE ClaimBacked'
    OBVIOUS
  <2>1. CASE Restart
    <3>1. restarts' # 0
      BY <2>1 DEF Restart, NotifyInv, TypeOK
    <3> QED BY <3>1 DEF ClaimBacked
  <2>2. CASE ~Restart
    <3>1. restarts' = restarts
      BY <2>2 DEF Next, Call, Suppress, Claim, ClaimFails, Drop, SendFails, GiveUp, QueueUp, Fire, Flush,
                  FlushNothing, FlushFails, Defer, Take, Deliver, Expire, QuietBegins, QuietEnds, vars
    <3> SUFFICES ASSUME restarts = 0, NEW k \in claimed'
                 PROVE  \E m \in Messages : Key(m) = k /\ OnWay(m)'
      BY <3>1 DEF ClaimBacked, OnWay
    <3>2. CASE k \in claimed
      <4> PICK m \in Messages : Key(m) = k /\ OnWay(m)
        BY <3>2 DEF ClaimBacked, OnWay
      <4> QED BY <2>2, StaysOnWay
    <3>3. CASE k \notin claimed
      <4>1. PICK c \in Callers, m \in Messages : Claim(c, m)
        BY <2>2, <3>3 DEF Next, Call, Suppress, ClaimFails, Drop, SendFails, GiveUp, QueueUp, Fire, Flush,
                          FlushNothing, FlushFails, Defer, Take, Deliver, Expire, QuietBegins, QuietEnds, vars, callVars
      <4>2. Key(m) = k /\ alert'[c] = m
        BY <3>3, <4>1 DEF Claim, Carry, NotifyInv, TypeOK
      <4>3. m # NoMessage
        BY NotifyAssumption
      <4> QED BY <4>2, <4>3 DEF OnWay, Carried
    <3> QED BY <3>2, <3>3
  <2> QED BY <2>1, <2>2
<1> QED BY <1>1, <1>2, InvHolds, PTL DEF Spec

\* Callers and timers forget no alert among themselves: what waits has a timer or a
\* flush that could not read the settings behind it, and a claimed key has its alert
\* or what became of it (_should_send, _flush_gotify_queue).
THEOREM NoAlertForgotten == Spec => []AlertsKept
BY TimerBehindQueue, ClaimsBacked, PTL DEF AlertsKept
=============================================================================
