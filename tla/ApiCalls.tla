------------------------------ MODULE ApiCalls ------------------------------
(***************************************************************************)
(* One thread's calls of a PVE or PBS (services/api_client.py).  Reads go  *)
(* over the connection the thread keeps open to that server and are asked  *)
(* again after trouble that may pass; writes go over a connection of their *)
(* own and are sent once.                                                  *)
(***************************************************************************)
EXTENDS Naturals

CONSTANTS MaxRetries, MaxTroubles, MaxCalls
ASSUME ApiAssumption == MaxRetries \in Nat /\ MaxTroubles \in Nat /\ MaxCalls \in Nat

Moods == {"well", "busy", "refusing", "certless", "down"}
NoCall == [kind |-> "none", retries |-> 0, first |-> TRUE]

VARIABLES
  mood, troubles,    \* the server, and how often it has changed or a line was cut
  sock, peer,        \* the thread's side of the kept connection, the server's side
  call, calls,       \* the call under way, calls so far
  refusals,          \* history: how often the server has refused it
  done,              \* history: changes the server made for it
  fine,              \* history: the server was well all along the call
  told               \* what the caller got: its answer, a refusal, a failure

apiVars == <<mood, troubles, sock, peer, call, calls, refusals, done, fine, told>>
historyVars == <<refusals, done, fine>>

ApiInit ==
  /\ mood = "well" /\ troubles = 0 /\ sock = FALSE /\ peer = FALSE
  /\ call = NoCall /\ calls = 0 /\ told = "nothing"
  /\ refusals = 0 /\ done = 0 /\ fine = TRUE

-----------------------------------------------------------------------------
(* The server.                                                             *)

MoodChanges ==
  /\ troubles < MaxTroubles /\ troubles' = troubles + 1
  /\ mood' \in Moods \ {mood} /\ fine' = (fine /\ call.kind = "none")
  /\ UNCHANGED <<sock, peer, call, calls, refusals, done, told>>

\* It closes a connection that was idle for a while; nobody hears of it.
IdleClose == peer /\ peer' = FALSE /\ UNCHANGED <<mood, troubles, sock, call, calls, historyVars, told>>

-----------------------------------------------------------------------------
(* The calls.                                                              *)

Begin(kind, retries) ==
  /\ call.kind = "none" /\ calls < MaxCalls /\ calls' = calls + 1
  /\ call' = [kind |-> kind, retries |-> retries, first |-> TRUE]
  /\ refusals' = 0 /\ done' = 0 /\ fine' = (mood = "well") /\ told' = "nothing"
  /\ UNCHANGED <<mood, troubles, sock, peer>>

BeginRead == \E r \in 0 .. MaxRetries : Begin("read", r)
BeginWrite == Begin("write", 0)

Tell(answer) == call' = NoCall /\ told' = answer

\* A read is tried again after trouble that may pass, a few times.
TryAgain(passing, answer) ==
  IF passing /\ call.retries > 0
  THEN call' = [call EXCEPT !.retries = @ - 1, !.first = TRUE] /\ told' = told
  ELSE Tell(answer)

\* The kept connection turned out to be closed: a new one, at once, and once.
Reconnect ==
  IF call.first THEN call' = [call EXCEPT !.first = FALSE] /\ told' = told
  ELSE TryAgain(TRUE, "failure")

\* No connection: nobody answers, which may pass, or without a certificate
\* that holds, which does not.
NoConnection ==
  /\ call.kind = "read" /\ ~sock /\ mood \in {"certless", "down"}
  /\ TryAgain(mood = "down", "failure")
  /\ UNCHANGED <<mood, troubles, sock, peer, calls, historyVars>>

\* A read over the kept connection that the server has closed, or whose server
\* is gone.
SendsIntoClosed ==
  /\ call.kind = "read" /\ sock /\ (~peer \/ mood = "down")
  /\ sock' = FALSE /\ Reconnect
  /\ UNCHANGED <<mood, troubles, peer, calls, historyVars>>

Through == mood # "down" /\ IF sock THEN peer ELSE mood # "certless"

\* The server takes the request, over the kept or a new connection, and
\* answers; it may close the connection with it.
ReadAnswered ==
  /\ call.kind = "read" /\ Through
  /\ refusals' = refusals + (IF mood = "refusing" THEN 1 ELSE 0)
  /\ sock' \in BOOLEAN /\ peer' = sock'
  /\ CASE mood = "busy" -> TryAgain(TRUE, "failure")
       [] mood = "refusing" -> TryAgain(FALSE, "refusal")
       [] OTHER -> Tell("answer")
  /\ UNCHANGED <<mood, troubles, calls, done, fine>>

\* The line is cut while the server works on a read: a closed connection or
\* silence until the time-out.  Only the first is worth another connection.
ReadCut ==
  /\ call.kind = "read" /\ Through
  /\ troubles < MaxTroubles /\ troubles' = troubles + 1 /\ fine' = FALSE
  /\ sock' = FALSE /\ peer' = FALSE
  /\ IF sock THEN Reconnect \/ TryAgain(TRUE, "failure") ELSE TryAgain(TRUE, "failure")
  /\ UNCHANGED <<mood, calls, refusals, done>>

\* Mutant of WriteLost: the write is sent once more.
WriteLostRepeats ==
  IF call.first THEN call' = [call EXCEPT !.first = FALSE] /\ told' = told ELSE Tell("failure")

\* A write without an answer has failed, whatever the server made of it.
WriteLost == Tell("failure")

\* A write over a connection of its own: taken and answered, or refused, or it
\* does not get through, or its answer does not.
WriteAnswered ==
  /\ call.kind = "write" /\ mood \in {"well", "busy", "refusing"}
  /\ IF mood = "well" THEN Tell("answer") /\ done' = done + 1 ELSE Tell("refusal") /\ done' = done
  /\ UNCHANGED <<mood, troubles, sock, peer, calls, refusals, fine>>

WriteUnsent ==
  /\ call.kind = "write" /\ mood \in {"certless", "down"}
  /\ Tell("failure")
  /\ UNCHANGED <<mood, troubles, sock, peer, calls, historyVars>>

WriteCut ==
  /\ call.kind = "write" /\ mood = "well"
  /\ troubles < MaxTroubles /\ troubles' = troubles + 1 /\ fine' = FALSE
  /\ done' = done + 1 /\ WriteLost
  /\ UNCHANGED <<mood, sock, peer, calls, refusals>>

-----------------------------------------------------------------------------

Answered ==
  NoConnection \/ SendsIntoClosed \/ ReadAnswered \/ ReadCut \/ WriteAnswered \/ WriteUnsent \/ WriteCut
ApiNext == MoodChanges \/ IdleClose \/ BeginRead \/ BeginWrite \/ Answered
ApiSpec == ApiInit /\ [][ApiNext]_apiVars

-----------------------------------------------------------------------------

\* A connection that the server closed while it was idle never fails a read,
\* not even one that is to be tried once: a read of a server that is well gets
\* its answer.
IdleCloseHarmless == (call.kind = "none" /\ fine) => told \in {"nothing", "answer"}

\* A server that refuses (a wrong token, a missing right) is asked once, not
\* again and again.
RefusedAskedOnce == refusals <= 1

\* A write (start a restore, destroy a guest) is done at most once, and what
\* the caller is told is true: done if answered, not done if refused.
WriteDoneOnce ==
  /\ done <= 1
  /\ (told = "refusal" => done = 0)

\* Calls are repeated where that does no harm, and only there.
RepeatsWell == IdleCloseHarmless /\ RefusedAskedOnce /\ WriteDoneOnce
=============================================================================
