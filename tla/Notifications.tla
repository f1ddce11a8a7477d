---------------------------- MODULE Notifications ----------------------------
(* Gotify alerts (notifications.py): the dedup table, the in-memory queue and   *)
(* the timer that flushes it.  Sync workers and the restore slot raise alerts;  *)
(* every threading.Timer is a thread of its own.  _gotify_lock makes queueing   *)
(* and the first half of a flush one step each, but cancel() cannot stop a      *)
(* timer that has fired and waits for the lock, and the request to Gotify is    *)
(* made outside the lock.  Both ends read the settings from the database, which *)
(* can fail: the exception ends the caller's alert or the timer's thread.       *)
EXTENDS Naturals

CONSTANTS
    Keys,          \* dedup keys
    Rounds,        \* bound: calls of the notify helper of one key
    Callers,       \* threads that raise alerts
    Timers,        \* bound: timer threads alive at once
    NoMessage, NoTimer,
    MaxRestarts    \* bound on restarts of the app

\* The n-th alert raised for key k.
Messages == Keys \X (1 .. Rounds)

ASSUME NotifyAssumption ==
    /\ Rounds \in Nat /\ MaxRestarts \in Nat
    /\ NoMessage \notin Messages /\ NoTimer \notin Timers

VARIABLES
    claimed,       \* keys with a row in notification_dedup younger than 24 h
    quiet,         \* _in_quiet_hours()
    raised,        \* calls made so far
    pc, alert,     \* where a caller is, and the message it carries
    queue,         \* _gotify_queue; the order of a batch is layout
    timer,         \* _gotify_timer
    waiting,       \* timers that run down
    fired,         \* timers that wait for _gotify_lock
    batch,         \* what a flushing thread took out of the queue
    outcome,       \* what became of a message at Gotify or in the log
    abandoned,     \* history: a flush ended on its settings read, no alert queued since
    restarts

callVars  == <<claimed, raised, pc, alert>>
flushVars == <<timer, waiting, fired, batch, abandoned>>
vars == <<quiet, callVars, queue, flushVars, outcome, restarts>>

Key(m) == m[1]

\* "unread": lost where the settings could not be read.
Outcomes == {"none", "told", "failed", "dropped", "unread"}

Init ==
    /\ claimed = {} /\ raised = {} /\ queue = {} /\ waiting = {} /\ fired = {}
    /\ quiet \in BOOLEAN
    /\ pc = [c \in Callers |-> "idle"] /\ alert = [c \in Callers |-> NoMessage]
    /\ timer = NoTimer
    /\ batch = [t \in Timers |-> {}]
    /\ outcome = [m \in Messages |-> "none"]
    /\ abandoned = FALSE /\ restarts = 0

-----------------------------------------------------------------------------
(* Raising an alert.                                                           *)

Raise(c, m) == pc[c] = "idle" /\ m \notin raised /\ raised' = raised \cup {m}

Carry(c, m, label) == pc' = [pc EXCEPT ![c] = label] /\ alert' = [alert EXCEPT ![c] = m]

\* try_claim_dedup: one INSERT ... ON CONFLICT.  The key was claimed within a day.
Suppress(c, m) ==
    /\ Raise(c, m) /\ Key(m) \in claimed
    /\ UNCHANGED <<claimed, quiet, pc, alert, queue, flushVars, outcome, restarts>>

\* It was not.
Claim(c, m) ==
    /\ Raise(c, m) /\ Key(m) \notin claimed
    /\ claimed' = claimed \cup {Key(m)}
    /\ Carry(c, m, "send")
    /\ UNCHANGED <<quiet, queue, flushVars, outcome, restarts>>

\* _should_send allows the alert when the statement fails.
ClaimFails(c, m) ==
    /\ Raise(c, m) /\ Carry(c, m, "send")
    /\ UNCHANGED <<claimed, quiet, queue, flushVars, outcome, restarts>>

GiveUp(c, fate) ==
    /\ pc[c] = "send"
    /\ outcome' = [outcome EXCEPT ![alert[c]] = fate]
    /\ Carry(c, NoMessage, "idle")
    /\ UNCHANGED <<claimed, quiet, raised, queue, flushVars, restarts>>

\* send_gotify with Gotify switched off (the operator may flip the switch at any time).
Drop(c) == GiveUp(c, "dropped")

\* _is_enabled raises: the caller logs it and goes on, the key stays claimed.
SendFails(c) == GiveUp(c, "unread")

\* Timers that do not exist at the moment.
Free == {t \in Timers \ (waiting \cup fired) : batch[t] = {}}

\* Mutant: a timer that exists already is stopped and no new one is started.
RescheduleOnce ==
    /\ abandoned' = FALSE
    /\ IF timer = NoTimer
         THEN \E t \in Free : timer' = t /\ waiting' = waiting \cup {t}
         ELSE timer' = NoTimer /\ waiting' = waiting \ {timer}

\* _schedule_gotify_flush: cancel the timer, which stops it only while it runs
\* down, and start a new one.
Reschedule ==
    /\ abandoned' = FALSE
    /\ \E t \in Free : timer' = t /\ waiting' = (waiting \ {timer}) \cup {t}

\* send_gotify with Gotify switched on, under the lock.
QueueUp(c) ==
    /\ pc[c] = "send"
    /\ queue' = queue \cup {alert[c]}
    /\ Reschedule
    /\ Carry(c, NoMessage, "idle")
    /\ UNCHANGED <<claimed, quiet, raised, fired, batch, outcome, restarts>>

-----------------------------------------------------------------------------
(* Flushing.                                                                   *)

Fire(t) ==
    /\ t \in waiting
    /\ waiting' = waiting \ {t} /\ fired' = fired \cup {t}
    /\ UNCHANGED <<quiet, callVars, queue, timer, batch, outcome, abandoned, restarts>>

FlushNothing(t) ==
    /\ t \in fired /\ queue = {}
    /\ fired' = fired \ {t} /\ timer' = NoTimer
    /\ UNCHANGED <<quiet, callVars, queue, waiting, batch, outcome, abandoned, restarts>>

\* Mutant: the deferred flush is left to the next alert.
DeferForgets(t) ==
    /\ t \in fired /\ queue # {} /\ quiet
    /\ fired' = fired \ {t} /\ timer' = NoTimer
    /\ UNCHANGED <<quiet, callVars, queue, waiting, batch, outcome, abandoned, restarts>>

\* _in_quiet_hours raises, with the reference to the timer already cleared: the
\* thread ends and starts no other.
FlushFails(t) ==
    /\ t \in fired /\ queue # {}
    /\ fired' = fired \ {t} /\ timer' = NoTimer /\ abandoned' = TRUE
    /\ UNCHANGED <<quiet, callVars, queue, waiting, batch, outcome, restarts>>

\* Quiet hours: a new timer tries again.
Defer(t) ==
    /\ t \in fired /\ queue # {} /\ quiet
    /\ \E n \in Free \cup {t} : timer' = n /\ waiting' = waiting \cup {n}
    /\ fired' = fired \ {t}
    /\ UNCHANGED <<quiet, callVars, queue, batch, outcome, abandoned, restarts>>

\* Mutant: the queue is copied and not cleared.
TakeCopy(t) ==
    /\ t \in fired /\ queue # {} /\ ~quiet
    /\ batch' = [batch EXCEPT ![t] = queue]
    /\ fired' = fired \ {t} /\ timer' = NoTimer
    /\ UNCHANGED <<quiet, callVars, queue, waiting, outcome, abandoned, restarts>>

\* The whole queue becomes the batch of this thread.
Take(t) ==
    /\ t \in fired /\ queue # {} /\ ~quiet
    /\ batch' = [batch EXCEPT ![t] = queue]
    /\ queue' = {}
    /\ fired' = fired \ {t} /\ timer' = NoTimer
    /\ UNCHANGED <<quiet, callVars, waiting, outcome, abandoned, restarts>>

\* _send_gotify_raw: one request, outside the lock; a failure is logged, an
\* exception of the settings read ends the thread.  The batch is gone either way.
Deliver(t) ==
    /\ batch[t] # {}
    /\ \E result \in {"told", "failed", "unread"} :
         outcome' = [m \in Messages |-> IF m \in batch[t] THEN result ELSE outcome[m]]
    /\ batch' = [batch EXCEPT ![t] = {}]
    /\ UNCHANGED <<quiet, callVars, queue, timer, waiting, fired, abandoned, restarts>>

-----------------------------------------------------------------------------
(* Time and restarts.                                                          *)

\* A claim is a day old.
Expire(k) ==
    /\ k \in claimed
    /\ claimed' = claimed \ {k}
    /\ UNCHANGED <<quiet, raised, pc, alert, queue, flushVars, outcome, restarts>>

QuietBegins == ~quiet /\ quiet' = TRUE /\ UNCHANGED <<callVars, queue, flushVars, outcome, restarts>>
QuietEnds   == quiet /\ quiet' = FALSE /\ UNCHANGED <<callVars, queue, flushVars, outcome, restarts>>

\* The process ends: queue, timers and threads are gone, the table stays.
Restart ==
    /\ restarts < MaxRestarts /\ restarts' = restarts + 1
    /\ pc' = [c \in Callers |-> "idle"] /\ alert' = [c \in Callers |-> NoMessage]
    /\ queue' = {} /\ waiting' = {} /\ fired' = {} /\ timer' = NoTimer
    /\ batch' = [t \in Timers |-> {}] /\ abandoned' = FALSE
    /\ UNCHANGED <<claimed, quiet, raised, outcome>>

-----------------------------------------------------------------------------
Call(c) == \/ \E m \in Messages : Suppress(c, m) \/ Claim(c, m) \/ ClaimFails(c, m)
           \/ Drop(c) \/ SendFails(c) \/ QueueUp(c)

Flush(t) == FlushNothing(t) \/ FlushFails(t) \/ Defer(t) \/ Take(t)

Next == \/ \E c \in Callers : Call(c)
        \/ \E t \in Timers : Fire(t) \/ Flush(t) \/ Deliver(t)
        \/ \E k \in Keys : Expire(k)
        \/ QuietBegins \/ QuietEnds \/ Restart

Spec == Init /\ [][Next]_vars

\* Timers run down and their threads go on, quiet hours end, and as the retry of a
\* deferred flush comes every ten minutes, one falls outside them and finishes
\* there.
Fairness ==
    /\ \A t \in Timers : WF_vars(Fire(t)) /\ WF_vars(Flush(t)) /\ WF_vars(Deliver(t))
    /\ WF_vars(QuietEnds)
    /\ SF_vars(\E t \in Timers : ~quiet /\ Fire(t))
    /\ SF_vars(\E t \in Timers : Take(t))

FairSpec == Spec /\ Fairness

-----------------------------------------------------------------------------
(* Properties.                                                                 *)

\* Every message, timer and caller has its type.
TypeOK ==
    /\ claimed \subseteq Keys /\ quiet \in BOOLEAN
    /\ raised \subseteq Messages /\ queue \subseteq Messages
    /\ pc \in [Callers -> {"idle", "send"}]
    /\ alert \in [Callers -> Messages \cup {NoMessage}]
    /\ timer \in Timers \cup {NoTimer}
    /\ waiting \subseteq Timers /\ fired \subseteq Timers
    /\ batch \in [Timers -> SUBSET Messages]
    /\ outcome \in [Messages -> Outcomes]
    /\ abandoned \in BOOLEAN /\ restarts \in Nat

\* A queued message is left without a timer only where a flush could not read the
\* settings and no alert has come since: the next one brings a timer for all that
\* waits.  A late timer that clears the reference to a newer one (whichever runs
\* sets _gotify_timer to None), a cancel that comes too late and the deferring in
\* quiet hours strand nothing (_schedule_gotify_flush, _flush_gotify_queue).
Stranded == waiting \cup fired = {} /\ abandoned
NoneStranded == queue # {} => waiting \cup fired # {} \/ Stranded

Sending == UNION {batch[t] : t \in Timers}
Carried == {alert[c] : c \in Callers} \ {NoMessage}

\* As long as the process lives, a claimed key stands for an alert of its own that is
\* on its way or met one of four ends: told, refused by Gotify, dropped with Gotify
\* switched off, or lost where the settings could not be read, outside the queue's
\* reach.  In between the queue and its timers lose none, so what dedup silences for
\* a day was not lost there (_should_send, send_gotify, _flush_gotify_queue).
ClaimBacked ==
    restarts = 0 => \A k \in claimed : \E m \in Messages :
        /\ Key(m) = k
        /\ m \in Carried \cup queue \cup Sending \/ outcome[m] # "none"

\* An accepted alert waits where a timer, or after a failed reading of the settings
\* the next alert, will find it, and a claimed key has its alert.
AlertsKept == NoneStranded /\ ClaimBacked

Place == [m \in Messages |-> IF outcome[m] = "told" THEN "told"
                             ELSE IF m \in Sending THEN "sending"
                             ELSE IF m \in queue THEN "queued" ELSE "out"]

\* The queue and its timers implement Outbox: a message is handed over once, with
\* all that waits beside it, and only a restart loses it (send_gotify,
\* _flush_gotify_queue).
OB == INSTANCE Outbox WITH place <- Place
HandedOverOnce == OB!Spec

\* A queued message leaves the queue, through any number of quiet hours, or the last
\* flush there was could not read the settings; from the next alert on, the same is
\* promised of both (_flush_gotify_queue).
QueueFlushed == queue # {} ~> (queue = {} \/ Stranded)
=============================================================================
