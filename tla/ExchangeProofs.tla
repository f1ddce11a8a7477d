--------------------------- MODULE ExchangeProofs ---------------------------
(***************************************************************************)
(* Proofs about the components that talk to the outside world through the *)
(* clients and keep something of what they heard: the repeated call, the  *)
(* shared progress cache, the reader of a growing task log, the rows of   *)
(* running backups, the diagram's sync jobs and the hourly loop.  TLC     *)
(* checks the same properties on small instances in the runs exchanges    *)
(* and loops.                                                             *)
(***************************************************************************)
EXTENDS ApiCalls, ProgressCache, TaskLogReader, BackupRows, SyncJobs, AutoLoop,
        SequenceTheorems, WellFoundedInduction, TLAPS
-----------------------------------------------------------------------------
(* ApiCalls.                                                                   *)

ApiTypes ==
    /\ mood \in Moods /\ troubles \in Nat /\ calls \in Nat
    /\ call \in [kind : {"none", "read", "write"}, retries : Nat, first : BOOLEAN]
    /\ refusals \in Nat /\ done \in Nat
    /\ told \in {"nothing", "answer", "refusal", "failure"}

\* A call under way has not been refused, has done nothing and has told nothing.
NotYetTold == call.kind # "none" => refusals = 0 /\ done = 0 /\ told = "nothing"

\* While all is well, a read that has lost its kept connection has a new one.
WellAllAlong ==
    fine /\ call.kind # "none" =>
        /\ mood = "well"
        /\ call.kind = "read" /\ ~call.first => ~sock

ApiInv == ApiTypes /\ NotYetTold /\ WellAllAlong /\ RepeatsWell

\* What trying again and telling do to the call.
LEMMA TryAgainDoes ==
  ASSUME ApiTypes, NEW passing \in BOOLEAN, NEW answer \in {"failure", "refusal"}, TryAgain(passing, answer)
  PROVE  \/ /\ passing /\ told' = told /\ call'.first /\ call'.kind = call.kind
            /\ call' \in [kind : {"none", "read", "write"}, retries : Nat, first : BOOLEAN]
         \/ call' = NoCall /\ told' = answer
<1>1. CASE passing /\ call.retries > 0
  <2>1. call' = [call EXCEPT !.retries = @ - 1, !.first = TRUE] /\ told' = told BY <1>1 DEF TryAgain
  <2>2. call.retries - 1 \in Nat BY <1>1 DEF ApiTypes
  <2> QED BY <1>1, <2>1, <2>2 DEF ApiTypes
<1>2. CASE ~(passing /\ call.retries > 0)
  <2>1. Tell(answer) BY <1>2 DEF TryAgain
  <2> QED BY <2>1 DEF Tell
<1> QED BY <1>1, <1>2

\* No call is a call of its own kind.
LEMMA NoCallTyped == NoCall \in [kind : {"none", "read", "write"}, retries : Nat, first : BOOLEAN] /\ NoCall.kind = "none"
BY DEF NoCall

\* A call that goes on, or is told something that a well server does not say.
LEMMA ApiGoesOn ==
  ASSUME ApiInv, call.kind # "none", UNCHANGED <<mood, troubles, calls, refusals, done>>,
         fine' => fine,
         \/ /\ call' \in [kind : {"none", "read", "write"}, retries : Nat, first : BOOLEAN]
            /\ call'.kind = call.kind /\ told' = told /\ (fine' /\ call.kind = "read" /\ ~call'.first => ~sock')
         \/ call' = NoCall /\ told' = "answer"
         \/ call' = NoCall /\ told' = "failure" /\ ~fine'
         \/ call' = NoCall /\ told' = "refusal" /\ ~fine'
  PROVE  ApiInv'
<1>1. ApiTypes' BY NoCallTyped DEF ApiInv, ApiTypes
<1>2. NotYetTold' BY NoCallTyped DEF ApiInv, NotYetTold
<1>3. WellAllAlong' BY NoCallTyped DEF ApiInv, WellAllAlong
<1>4. refusals = 0 /\ done = 0 BY DEF ApiInv, NotYetTold
<1>5. RepeatsWell'
  BY <1>4, NoCallTyped DEF RepeatsWell, IdleCloseHarmless, RefusedAskedOnce, WriteDoneOnce
<1> QED BY <1>1, <1>2, <1>3, <1>5 DEF ApiInv

\* The invariant of the retries holds at the start ...
LEMMA ApiStarts == ApiInit => ApiInv
BY NoCallTyped DEF ApiInit, ApiInv, ApiTypes, NotYetTold, WellAllAlong, RepeatsWell, IdleCloseHarmless,
   RefusedAskedOnce, WriteDoneOnce, Moods

\* ... and every step keeps it.
LEMMA ApiKeeps == ApiInv /\ [ApiNext]_apiVars => ApiInv'
<1> SUFFICES ASSUME ApiInv, [ApiNext]_apiVars PROVE ApiInv' OBVIOUS
<1> DEFINE Calls == [kind : {"none", "read", "write"}, retries : Nat, first : BOOLEAN]
<1>0. /\ call \in Calls /\ (call.kind = "none" \/ (refusals = 0 /\ done = 0 /\ told = "nothing"))
      /\ fine /\ call.kind # "none" => mood = "well" /\ (call.kind = "read" /\ ~call.first => ~sock)
  BY DEF ApiInv, ApiTypes, NotYetTold, WellAllAlong
<1>1. CASE UNCHANGED apiVars
  BY <1>1 DEF apiVars, ApiInv, ApiTypes, NotYetTold, WellAllAlong, RepeatsWell, IdleCloseHarmless,
     RefusedAskedOnce, WriteDoneOnce
<1>2. CASE MoodChanges
  <2>1. /\ mood' \in Moods /\ troubles' \in Nat /\ (fine' => fine /\ call.kind = "none")
        /\ UNCHANGED <<call, calls, refusals, done, told>>
    <3>1. fine' = (fine /\ call.kind = "none") BY <1>2 DEF MoodChanges
    <3>2. fine' => fine /\ call.kind = "none" BY <3>1, Zenon
    <3>3. mood' \in Moods /\ troubles' \in Nat /\ UNCHANGED <<call, calls, refusals, done, told>>
      BY <1>2 DEF MoodChanges, ApiInv, ApiTypes
    <3> QED BY <3>2, <3>3
  <2> QED BY <2>1 DEF ApiInv, ApiTypes, NotYetTold, WellAllAlong, RepeatsWell, IdleCloseHarmless,
     RefusedAskedOnce, WriteDoneOnce
<1>3. CASE IdleClose
  BY <1>3 DEF IdleClose, historyVars, ApiInv, ApiTypes, NotYetTold, WellAllAlong, RepeatsWell, IdleCloseHarmless,
     RefusedAskedOnce, WriteDoneOnce
<1>4. CASE BeginRead \/ BeginWrite
  <2>1. PICK kind \in {"read", "write"}, retries \in Nat : Begin(kind, retries)
    <3>1. 0 .. MaxRetries \subseteq Nat OBVIOUS
    <3> QED BY <1>4, <3>1 DEF BeginRead, BeginWrite
  <2>2. call' = [kind |-> kind, retries |-> retries, first |-> TRUE] BY <2>1 DEF Begin
  <2>3. call' \in Calls /\ call'.kind # "none" /\ call'.first BY <2>2
  <2>4. /\ refusals' = 0 /\ done' = 0 /\ told' = "nothing" /\ calls' = calls + 1 /\ UNCHANGED <<mood, troubles>>
        /\ fine' => mood = "well"
    BY <2>1 DEF Begin
  <2> QED BY <2>3, <2>4 DEF ApiInv, ApiTypes, NotYetTold, WellAllAlong, RepeatsWell, IdleCloseHarmless,
     RefusedAskedOnce, WriteDoneOnce
<1>5. CASE NoConnection
  <2>1. /\ call.kind = "read" /\ mood # "well" /\ UNCHANGED <<mood, troubles, calls, refusals, done, fine>>
        /\ TryAgain(mood = "down", "failure")
    BY <1>5 DEF NoConnection, historyVars
  <2>2. ~fine' BY <1>0, <2>1
  <2>3. \/ call' \in Calls /\ call'.kind = call.kind /\ told' = told
        \/ call' = NoCall /\ told' = "failure"
    BY <2>1, TryAgainDoes DEF ApiInv
  <2> QED BY <2>1, <2>2, <2>3, ApiGoesOn
<1>6. CASE SendsIntoClosed
  <2>1. /\ call.kind = "read" /\ sock /\ ~sock' /\ UNCHANGED <<mood, troubles, calls, refusals, done, fine>>
        /\ Reconnect
    BY <1>6 DEF SendsIntoClosed, historyVars
  <2>2. CASE call.first
    <3>1. call' = [call EXCEPT !.first = FALSE] /\ told' = told BY <2>1, <2>2 DEF Reconnect
    <3>2. call' \in Calls /\ call'.kind = call.kind BY <1>0, <3>1
    <3> QED BY <2>1, <3>1, <3>2, ApiGoesOn
  <2>3. CASE ~call.first
    <3>1. TryAgain(TRUE, "failure") BY <2>1, <2>3 DEF Reconnect
    <3>2. ~fine' BY <1>0, <2>1, <2>3
    <3>3. \/ call' \in Calls /\ call'.kind = call.kind /\ told' = told
          \/ call' = NoCall /\ told' = "failure"
      BY <3>1, TryAgainDoes DEF ApiInv
    <3> QED BY <2>1, <3>2, <3>3, ApiGoesOn
  <2> QED BY <2>2, <2>3
<1>7. CASE ReadAnswered
  <2>1. /\ call.kind = "read" /\ UNCHANGED <<mood, troubles, calls, done, fine>>
        /\ refusals' = refusals + (IF mood = "refusing" THEN 1 ELSE 0)
    BY <1>7 DEF ReadAnswered
  <2>2. CASE mood = "busy"
    <3>1. TryAgain(TRUE, "failure") BY <1>7, <2>2 DEF ReadAnswered
    <3>2. refusals' = refusals /\ ~fine' BY <1>0, <2>1, <2>2 DEF ApiInv, ApiTypes
    <3>3. \/ call' \in Calls /\ call'.kind = call.kind /\ told' = told
          \/ call' = NoCall /\ told' = "failure"
      BY <3>1, TryAgainDoes DEF ApiInv
    <3> QED BY <2>1, <3>2, <3>3, ApiGoesOn
  <2>3. CASE mood = "refusing"
    <3>1. TryAgain(FALSE, "refusal") BY <1>7, <2>3 DEF ReadAnswered
    <3>2. refusals' = 1 /\ done' = 0 /\ ~fine' BY <1>0, <2>1, <2>3
    <3>3. call' = NoCall /\ told' = "refusal" BY <3>1, TryAgainDoes DEF ApiInv
    <3> QED BY <2>1, <3>2, <3>3, NoCallTyped
         DEF ApiInv, ApiTypes, NotYetTold, WellAllAlong, RepeatsWell, IdleCloseHarmless, RefusedAskedOnce,
             WriteDoneOnce
  <2>4. CASE mood \notin {"busy", "refusing"}
    <3>1. call' = NoCall /\ told' = "answer" BY <1>7, <2>4 DEF ReadAnswered, Tell
    <3>2. refusals' = refusals BY <2>1, <2>4 DEF ApiInv, ApiTypes
    <3> QED BY <2>1, <3>1, <3>2, ApiGoesOn
  <2> QED BY <2>2, <2>3, <2>4
<1>8. CASE ReadCut
  <2>1. /\ call.kind = "read" /\ UNCHANGED <<mood, calls, refusals, done>> /\ ~fine' /\ troubles' = troubles + 1
        /\ Reconnect \/ TryAgain(TRUE, "failure")
    BY <1>8 DEF ReadCut
  <2>2. \/ call' \in Calls /\ call'.kind = call.kind /\ told' = told
        \/ call' = NoCall /\ told' = "failure"
    <3>1. CASE TryAgain(TRUE, "failure") BY <3>1, TryAgainDoes DEF ApiInv
    <3>2. CASE Reconnect /\ call.first BY <1>0, <3>2 DEF Reconnect
    <3>3. CASE Reconnect /\ ~call.first BY <3>1, <3>3 DEF Reconnect
    <3> QED BY <2>1, <3>1, <3>2, <3>3
  <2>3. troubles' \in Nat BY <2>1 DEF ApiInv, ApiTypes
  <2> QED BY <1>0, <2>1, <2>2, <2>3, NoCallTyped
       DEF ApiInv, ApiTypes, NotYetTold, WellAllAlong, RepeatsWell, IdleCloseHarmless, RefusedAskedOnce,
           WriteDoneOnce
<1>9. CASE WriteAnswered \/ WriteUnsent \/ WriteCut
  <2>1. /\ call.kind = "write" /\ call' = NoCall /\ UNCHANGED <<mood, calls, refusals>> /\ (fine' => fine)
        /\ troubles' \in Nat
        /\ \/ told' = "answer" /\ done' = done + 1
           \/ told' = "refusal" /\ done' = done /\ mood # "well"
           \/ told' = "failure" /\ done' = done /\ mood # "well"
           \/ told' = "failure" /\ done' = done + 1 /\ ~fine'
    BY <1>9 DEF WriteAnswered, WriteUnsent, WriteCut, WriteLost, Tell, historyVars, ApiInv, ApiTypes
  <2>2. refusals = 0 /\ done = 0 BY <1>0, <2>1
  <2>3. fine' => told' = "answer" BY <1>0, <2>1
  <2> QED BY <2>1, <2>2, <2>3, NoCallTyped
       DEF ApiInv, ApiTypes, NotYetTold, WellAllAlong, RepeatsWell, IdleCloseHarmless, RefusedAskedOnce,
           WriteDoneOnce
<1> QED BY <1>1, <1>2, <1>3, <1>4, <1>5, <1>6, <1>7, <1>8, <1>9 DEF ApiNext, Answered

\* RepeatsWell (api_client.py), for any number of retries, troubles and calls: no idle close
\* fails a read of a well server, a refusal is not asked again, and a write is done at most
\* once and never when the caller is told it was refused.
THEOREM CallsRepeatedWell == ApiSpec => []RepeatsWell
<1>1. ApiInv => RepeatsWell BY DEF ApiInv
<1> QED BY <1>1, ApiStarts, ApiKeeps, PTL DEF ApiSpec

-----------------------------------------------------------------------------
(* ProgressCache.                                                              *)

CacheTypes ==
    /\ seconds \in Nat /\ cached \in [Watched -> Nat]
    /\ inflight \subseteq Watched
    /\ fetch \in [Watched -> {"none", "queued", "running", "asking", "over", "raised"}]
    /\ caller \in [Askers -> [on : Watched \cup {"nothing"}, at : Nat]]

\* A fetch is registered while it lasts; what it has just stored is as new as any wish.
FetchesTrue ==
    /\ \A c \in Watched : fetch[c] # "none" => c \in inflight
    /\ \A c \in Watched : fetch[c] = "over" => cached[c] = seconds
    /\ \A w \in Askers : caller[w].at <= seconds

CacheInv == CacheTypes /\ FetchesTrue /\ ServedRecent

\* Of the callers that wait some one asked earliest.
LEMMA FirstOfCallers ==
  ASSUME CacheTypes, NEW waiting, waiting \subseteq Askers, waiting # {}
  PROVE  \E w \in waiting : \A v \in waiting : caller[v].at >= caller[w].at
<1> DEFINE times == {caller[w].at : w \in waiting}
<1>1. times \subseteq Nat /\ times # {} BY DEF CacheTypes
<1>2. PICK x \in times : \A y \in times : ~(<<y, x>> \in OpToRel(<, Nat))
  BY <1>1, WFMin, NatLessThanWellFounded
<1>3. \A y \in times : x <= y
  <2> SUFFICES ASSUME NEW y \in times, ~(x <= y) PROVE FALSE OBVIOUS
  <2> HIDE DEF times
  <2>1. x \in Nat /\ y \in Nat /\ y < x BY <1>1
  <2>2. <<y, x>> \in OpToRel(<, Nat) BY <2>1 DEF OpToRel
  <2> QED BY <1>2, <2>2
<1>4. PICK w \in waiting : x = caller[w].at OBVIOUS
<1>5. \A v \in waiting : caller[v].at \in times /\ caller[v].at \in Nat BY DEF CacheTypes
<1>6. x \in Nat BY <1>1
<1> HIDE DEF times
<1> QED BY <1>3, <1>4, <1>5, <1>6

\* _refresh_future: one fetch, registered.
LEMMA RefreshedDoes ==
  ASSUME CacheInv, NEW c \in Watched, Refreshed(c)
  PROVE  /\ inflight' \subseteq Watched
         /\ fetch' \in [Watched -> {"none", "queued", "running", "asking", "over", "raised"}]
         /\ \A d \in Watched : fetch'[d] # "none" => d \in inflight'
         /\ \A d \in Watched : fetch'[d] = fetch[d] \/ (fetch[d] = "none" /\ fetch'[d] = "queued")
<1>1. CASE c \in inflight BY <1>1 DEF Refreshed, CacheInv, CacheTypes, FetchesTrue
<1>2. CASE c \notin inflight
  <2>1. inflight' = inflight \cup {c} /\ fetch' = [fetch EXCEPT ![c] = "queued"] BY <1>2 DEF Refreshed
  <2>2. fetch[c] = "none" BY <1>2 DEF CacheInv, FetchesTrue
  <2> QED BY <2>1, <2>2 DEF CacheInv, CacheTypes, FetchesTrue
<1> QED BY <1>1, <1>2

\* The invariant of the cache holds at the start, ...
LEMMA CacheStarts == CacheInit => CacheInv
<1> SUFFICES ASSUME CacheInit PROVE CacheInv OBVIOUS
<1>1. CacheTypes BY CacheAssumption DEF CacheInit, CacheTypes, Never, NoCaller
<1>2. FetchesTrue BY DEF CacheInit, FetchesTrue, NoCaller
<1>3. ServedRecent BY CacheAssumption DEF CacheInit, ServedRecent
<1> QED BY <1>1, <1>2, <1>3 DEF CacheInv

\* ... every step keeps it, ...
LEMMA CacheKeeps == CacheInv /\ [CacheNext]_cacheVars => CacheInv'
<1> SUFFICES ASSUME CacheInv, [CacheNext]_cacheVars PROVE CacheInv' OBVIOUS
<1>0. CacheTypes /\ FetchesTrue /\ ServedRecent BY DEF CacheInv
<1>1. CASE UNCHANGED cacheVars
  BY <1>0, <1>1 DEF cacheVars, CacheInv, CacheTypes, FetchesTrue, ServedRecent
<1>2. ASSUME NEW w \in Askers, NEW c \in Watched, AskCached(w, c) PROVE CacheInv'
  <2>1. CASE Recent(c)
    <3>1. served' = Age(c) /\ Age(c) < MaxAge /\ UNCHANGED <<seconds, cached, inflight, fetch, caller>>
      BY <1>2, <2>1 DEF AskCached, Recent
    <3> QED BY <1>0, <3>1 DEF CacheInv, CacheTypes, FetchesTrue, ServedRecent
  <2>2. CASE ~Recent(c)
    <3>1. /\ Refreshed(c) /\ caller' = [caller EXCEPT ![w] = [on |-> c, at |-> seconds]]
          /\ UNCHANGED <<seconds, cached, served>>
      BY <1>2, <2>2 DEF AskCached
    <3>2. caller' \in [Askers -> [on : Watched \cup {"nothing"}, at : Nat]] BY <1>0, <3>1 DEF CacheTypes
    <3>3. \A v \in Askers : caller'[v].at <= seconds BY <1>0, <3>1 DEF CacheTypes, FetchesTrue
    <3>4. CacheTypes' BY <1>0, <3>1, <3>2, RefreshedDoes DEF CacheTypes
    <3>5. FetchesTrue' BY <1>0, <3>1, <3>3, RefreshedDoes DEF FetchesTrue
    <3> QED BY <1>0, <3>1, <3>4, <3>5 DEF CacheInv, ServedRecent
  <2> QED BY <2>1, <2>2
<1>3. ASSUME NEW c \in Watched, Peek(c) PROVE CacheInv'
  <2>1. Refreshed(c) /\ UNCHANGED <<seconds, cached, caller, served>> BY <1>3 DEF Peek
  <2>2. CacheTypes' BY <1>0, <2>1, RefreshedDoes DEF CacheTypes
  <2>3. FetchesTrue' BY <1>0, <2>1, RefreshedDoes DEF FetchesTrue
  <2> QED BY <1>0, <2>1, <2>2, <2>3 DEF CacheInv, ServedRecent
<1>4. ASSUME NEW c \in Watched, FetchStarts(c) \/ NodesAsked(c) \/ FetchRaises(c) PROVE CacheInv'
  <2>1. /\ fetch[c] # "none" /\ UNCHANGED <<seconds, cached, inflight, caller, served>>
        /\ \E to \in {"running", "asking", "raised"} : fetch' = [fetch EXCEPT ![c] = to]
    BY <1>4 DEF FetchStarts, NodesAsked, FetchRaises
  <2>2. CacheTypes' BY <1>0, <2>1 DEF CacheTypes
  <2>3. FetchesTrue' BY <1>0, <2>1 DEF CacheTypes, FetchesTrue
  <2> QED BY <1>0, <2>1, <2>2, <2>3 DEF CacheInv, ServedRecent
<1>5. ASSUME NEW c \in Watched, FetchStores(c) PROVE CacheInv'
  <2>1. /\ fetch[c] # "none" /\ UNCHANGED <<seconds, inflight, caller, served>>
        /\ fetch' = [fetch EXCEPT ![c] = "over"] /\ cached' = [cached EXCEPT ![c] = seconds]
    BY <1>5 DEF FetchStores
  <2>2. CacheTypes' BY <1>0, <2>1 DEF CacheTypes
  <2>3. FetchesTrue' BY <1>0, <2>1 DEF CacheTypes, FetchesTrue
  <2> QED BY <1>0, <2>1, <2>2, <2>3 DEF CacheInv, ServedRecent
<1>6. ASSUME NEW c \in Watched, FetchEnds(c) PROVE CacheInv'
  <2> DEFINE waiting == {w \in Askers : caller[w].on = c}
             earliest == CHOOSE w \in waiting : \A v \in waiting : caller[v].at >= caller[w].at
  <2>1. /\ fetch[c] \in {"over", "raised"} /\ UNCHANGED <<seconds, cached>>
        /\ inflight' = inflight \ {c} /\ fetch' = [fetch EXCEPT ![c] = "none"]
        /\ caller' = [w \in Askers |-> IF w \in waiting THEN NoCaller ELSE caller[w]]
        /\ served' = IF waiting = {} \/ fetch[c] = "raised" THEN served
                     ELSE IF cached[c] >= caller[earliest].at THEN 0 ELSE caller[earliest].at - cached[c]
    BY <1>6 DEF FetchEnds
  <2>2. \A w \in Askers : caller'[w] \in {caller[w], NoCaller} BY <2>1
  <2>3. NoCaller \in [on : Watched \cup {"nothing"}, at : Nat] /\ NoCaller.at = 0 BY DEF NoCaller
  <2>4. caller' \in [Askers -> [on : Watched \cup {"nothing"}, at : Nat]] BY <1>0, <2>1, <2>3 DEF CacheTypes
  <2>5. CacheTypes' BY <1>0, <2>1, <2>4 DEF CacheTypes
  <2>6. FetchesTrue' BY <1>0, <2>1, <2>2, <2>3 DEF CacheTypes, FetchesTrue
  <2>7. ServedRecent'
    <3>1. CASE waiting = {} \/ fetch[c] = "raised" BY <1>0, <2>1, <3>1 DEF ServedRecent
    <3>2. CASE waiting # {} /\ fetch[c] = "over"
      <4>1. earliest \in waiting
        <5>1. waiting \subseteq Askers OBVIOUS
        <5>2. \E w \in waiting : \A v \in waiting : caller[v].at >= caller[w].at
          BY <1>0, <3>2, <5>1, FirstOfCallers
        <5> QED BY <5>2
      <4>2. cached[c] >= caller[earliest].at BY <1>0, <3>2, <4>1 DEF FetchesTrue, CacheTypes
      <4>3. served' = 0 BY <2>1, <3>2, <4>2
      <4> QED BY <4>3, CacheAssumption DEF ServedRecent
    <3> QED BY <2>1, <3>1, <3>2
  <2> QED BY <2>5, <2>6, <2>7 DEF CacheInv
<1>7. CASE Second
  <2>1. /\ \A c \in Watched : fetch[c] # "over"
        /\ seconds' = seconds + 1 /\ UNCHANGED <<cached, inflight, fetch, caller, served>>
    BY <1>7 DEF Second
  <2>2. CacheTypes' BY <1>0, <2>1 DEF CacheTypes
  <2>3. FetchesTrue' BY <1>0, <2>1 DEF CacheTypes, FetchesTrue
  <2> QED BY <1>0, <2>1, <2>2, <2>3 DEF CacheInv, ServedRecent
<1> QED BY <1>1, <1>2, <1>3, <1>4, <1>5, <1>6, <1>7 DEF CacheNext

\* ... so it holds in every reachable state.
LEMMA CacheInvHolds == CacheSpec => []CacheInv
BY CacheStarts, CacheKeeps, PTL DEF CacheSpec

\* FetchNotRestarted and ServedRecent (_refresh_future, running_backup_progress_cached), for
\* any number of clusters, callers and threads: no second fetch of a cluster begins beside
\* one that lasts, and no caller is given data older than it asked for.
THEOREM OneFetchForAll == CacheSpec => FetchNotRestarted /\ []ServedRecent
<1>1. CacheInv /\ [CacheNext]_cacheVars =>
        [\A c \in Watched : fetch[c] \in {"running", "asking", "over", "raised"} => fetch'[c] # "queued"]_cacheVars
  <2> SUFFICES ASSUME CacheInv, CacheNext, NEW c \in Watched, fetch[c] \in {"running", "asking", "over", "raised"}
               PROVE  fetch'[c] # "queued"
    OBVIOUS
  <2>1. fetch \in [Watched -> {"none", "queued", "running", "asking", "over", "raised"}]
    BY DEF CacheInv, CacheTypes
  <2>2. CASE \E d \in Watched : Refreshed(d) BY <2>2, RefreshedDoes
  <2>3. CASE UNCHANGED fetch BY <2>1, <2>3
  <2>4. CASE \E d \in Watched : \/ FetchStarts(d) \/ NodesAsked(d) \/ FetchStores(d)
                                \/ FetchRaises(d) \/ FetchEnds(d)
    BY <2>1, <2>4 DEF FetchStarts, NodesAsked, FetchStores, FetchRaises, FetchEnds
  <2> QED BY <2>2, <2>3, <2>4 DEF CacheNext, AskCached, Peek, Second
<1>2. CacheInv => ServedRecent BY DEF CacheInv
<1> QED BY <1>1, <1>2, CacheInvHolds, PTL DEF CacheSpec, FetchNotRestarted

-----------------------------------------------------------------------------
(* TaskLogReader.  Whatever a look has read is one stretch of the log.         *)

\* The lines a + 1 to b, the last section head up to line r, and what is to be
\* kept once r lines are read.
Stretch(a, b) == [i \in 1 .. b - a |-> a + i]
HeadsUpTo(hs, r) == {h \in hs : h <= r}
From(hs, r) == IF HeadsUpTo(hs, r) = {} THEN 1 ELSE Max(HeadsUpTo(hs, r))
Current(hs, section, r) == section = Stretch(From(hs, r) - 1, r)

\* A non-empty set of lines has a last one.
LEMMA MaxIsThere ==
  ASSUME NEW n \in Nat, NEW S, S \subseteq 1 .. n, S # {}
  PROVE  Max(S) \in S /\ \A y \in S : y <= Max(S)
<1> DEFINE gaps == {n - y : y \in S}
<1>1. gaps \subseteq Nat /\ gaps # {}
  <2>1. gaps \subseteq Nat OBVIOUS
  <2>2. PICK y \in S : TRUE OBVIOUS
  <2>3. n - y \in gaps OBVIOUS
  <2> QED BY <2>1, <2>3
<1>2. PICK g \in gaps : \A k \in gaps : ~(<<k, g>> \in OpToRel(<, Nat))
  BY <1>1, WFMin, NatLessThanWellFounded
<1>3. \A k \in gaps : g <= k
  <2> SUFFICES ASSUME NEW k \in gaps, ~(g <= k) PROVE FALSE OBVIOUS
  <2> HIDE DEF gaps
  <2>1. g \in Nat /\ k \in Nat /\ k < g BY <1>1
  <2>2. <<k, g>> \in OpToRel(<, Nat) BY <2>1 DEF OpToRel
  <2> QED BY <1>2, <2>2
<1>4. PICK x \in S : g = n - x OBVIOUS
<1>5. \A y \in S : x >= y
  <2> TAKE y \in S
  <2>1. g <= n - y BY <1>3
  <2> QED BY <1>4, <2>1
<1>6. \E z \in S : \A y \in S : z >= y BY <1>5
<1>7. Max(S) \in S /\ \A y \in S : Max(S) >= y BY <1>6 DEF Max
<1>8. \A y \in S : y \in Nat OBVIOUS
<1> QED BY <1>7, <1>8

\* A number that is known to be the greatest is the one Max finds.
LEMMA MaxIsThat ==
  ASSUME NEW S, S \subseteq Int, NEW x \in S, \A y \in S : y <= x
  PROVE  Max(S) = x
<1>1. \A y \in S : x >= y OBVIOUS
<1>2. Max(S) \in S /\ \A y \in S : Max(S) >= y BY <1>1 DEF Max
<1>3. Max(S) \in Int /\ x \in Int /\ Max(S) >= x /\ Max(S) <= x BY <1>2
<1> QED BY <1>3

\* A stretch of lines counts on from the line before it, ...
LEMMA StretchProperties ==
  ASSUME NEW a \in Nat, NEW b \in Nat, a <= b
  PROVE  /\ Stretch(a, b) \in Seq(Nat) /\ Len(Stretch(a, b)) = b - a
         /\ DOMAIN Stretch(a, b) = 1 .. b - a
         /\ \A i \in 1 .. b - a : Stretch(a, b)[i] = a + i
<1>1. b - a \in Nat OBVIOUS
<1>2. Stretch(a, b) \in [1 .. b - a -> Nat] BY DEF Stretch
<1> QED BY <1>1, <1>2 DEF Stretch

\* ... two of them that meet are one, ...
LEMMA StretchesJoin ==
  ASSUME NEW a \in Nat, NEW b \in Nat, NEW c \in Nat, a <= b, b <= c
  PROVE  Stretch(a, b) \o Stretch(b, c) = Stretch(a, c)
<1>1. /\ Stretch(a, b) \in Seq(Nat) /\ Len(Stretch(a, b)) = b - a
      /\ \A i \in 1 .. b - a : Stretch(a, b)[i] = a + i
  BY StretchProperties
<1>2. /\ Stretch(b, c) \in Seq(Nat) /\ Len(Stretch(b, c)) = c - b
      /\ \A i \in 1 .. c - b : Stretch(b, c)[i] = b + i
  BY StretchProperties
<1>3. a <= c /\ Stretch(a, c) \in Seq(Nat) /\ Len(Stretch(a, c)) = c - a
      /\ \A i \in 1 .. c - a : Stretch(a, c)[i] = a + i
  BY StretchProperties
<1> DEFINE s == Stretch(a, b)
           t == Stretch(b, c)
           u == Stretch(a, c)
<1> HIDE DEF s, t, u
<1>4. s \o t \in Seq(Nat) /\ Len(s \o t) = Len(s) + Len(t) BY <1>1, <1>2, ConcatProperties DEF s, t
<1>5. Len(s \o t) = Len(u) BY <1>1, <1>2, <1>3, <1>4 DEF s, t, u
<1>6. ASSUME NEW i \in 1 .. Len(s \o t) PROVE (s \o t)[i] = u[i]
  <2>1. (s \o t)[i] = IF i <= Len(s) THEN s[i] ELSE t[i - Len(s)]
    BY <1>1, <1>2, <1>4, ConcatProperties DEF s, t
  <2>2. CASE i <= Len(s) BY <1>1, <1>3, <1>5, <2>1, <2>2 DEF s, u
  <2>3. CASE i > Len(s)
    <3>1. i - Len(s) \in 1 .. c - b BY <1>1, <1>2, <1>4, <2>3 DEF s, t
    <3> QED BY <1>1, <1>2, <1>3, <1>5, <2>1, <2>3, <3>1 DEF s, t, u
  <2> QED BY <1>1, <2>2, <2>3 DEF s
<1>7. s \o t = u BY <1>3, <1>4, <1>5, <1>6, SeqEqual DEF u
<1> QED BY <1>7 DEF s, t, u

\* ... and the rest of one is one.
LEMMA StretchCut ==
  ASSUME NEW a \in Nat, NEW b \in Nat, a <= b, NEW k \in 1 .. b - a
  PROVE  SubSeq(Stretch(a, b), k, b - a) = Stretch(a + k - 1, b)
<1> DEFINE s == Stretch(a, b)
           u == Stretch(a + k - 1, b)
           v == SubSeq(s, k, b - a)
<1>1. s \in Seq(Nat) /\ Len(s) = b - a /\ \A i \in 1 .. b - a : s[i] = a + i BY StretchProperties
<1>2. a + k - 1 \in Nat /\ a + k - 1 <= b OBVIOUS
<1>3. u \in Seq(Nat) /\ Len(u) = b - (a + k - 1) /\ \A i \in 1 .. b - (a + k - 1) : u[i] = a + k - 1 + i
  BY <1>2, StretchProperties
<1> HIDE DEF s, u
<1>4. /\ v \in Seq(Nat) /\ Len(v) = (b - a) - k + 1
      /\ \A i \in 1 .. (b - a) - k + 1 : v[i] = s[k + i - 1]
  <2>1. k \in 1 .. Len(s) /\ b - a \in k - 1 .. Len(s) BY <1>1
  <2> QED BY <1>1, <2>1, SubSeqProperties
<1> HIDE DEF v
<1>5. Len(v) = Len(u) BY <1>3, <1>4
<1>6. \A i \in 1 .. Len(v) : v[i] = u[i] BY <1>1, <1>3, <1>4
<1> QED BY <1>3, <1>4, <1>5, <1>6, SeqEqual DEF s, u, v

\* A section begins at a line of the log, or after its last.
LEMMA FromTyped ==
  ASSUME lines \in Nat, heads \subseteq 1 .. lines, NEW r \in Nat
  PROVE  From(heads, r) \in Nat \ {0} /\ From(heads, r) <= r + 1
<1>1. CASE HeadsUpTo(heads, r) = {} BY <1>1 DEF From
<1>2. CASE HeadsUpTo(heads, r) # {}
  <2>1. HeadsUpTo(heads, r) \subseteq 1 .. lines BY DEF HeadsUpTo
  <2>2. Max(HeadsUpTo(heads, r)) \in HeadsUpTo(heads, r) BY <1>2, <2>1, MaxIsThere
  <2>3. Max(HeadsUpTo(heads, r)) \in 1 .. lines /\ Max(HeadsUpTo(heads, r)) <= r BY <2>1, <2>2 DEF HeadsUpTo
  <2> QED BY <1>2, <2>3 DEF From
<1> QED BY <1>1, <1>2

\* What WithLines makes of a current section and the lines from c on, where
\* nothing was left out before c or a head follows.
LEMMA WithLinesCurrent ==
  ASSUME lines \in Nat, heads \subseteq 1 .. lines,
         NEW a \in Nat, NEW c \in Nat, NEW b \in Nat, a <= c, c <= b, b <= lines,
         NEW section, Current(heads, section, a),
         c = a \/ \E h \in heads : c < h /\ h <= b
  PROVE  Current(heads, WithLines(section, Stretch(c, b)), b)
<1> DEFINE new == Stretch(c, b)
           found == {i \in DOMAIN new : new[i] \in heads}
<1>1. Len(new) = b - c /\ DOMAIN new = 1 .. b - c /\ \A i \in 1 .. b - c : new[i] = c + i
  BY StretchProperties
<1>2. found = {i \in 1 .. b - c : c + i \in heads} BY <1>1
<1>3. WithLines(section, new) = IF found = {} THEN section \o new ELSE SubSeq(new, Max(found), Len(new))
  BY DEF WithLines
<1> HIDE DEF found
<1>4. CASE found = {}
  <2>1. ASSUME NEW h \in heads, c < h, h <= b PROVE FALSE
    <3>1. h - c \in 1 .. b - c /\ c + (h - c) = h BY <2>1
    <3> QED BY <1>2, <1>4, <3>1
  <2>2. c = a BY <2>1
  <2>3. HeadsUpTo(heads, b) = HeadsUpTo(heads, a)
    <3>1. ASSUME NEW h \in heads, h <= b PROVE h <= a BY <2>1, <2>2, <3>1
    <3>2. ASSUME NEW h \in heads, h <= a PROVE h <= b
      <4>1. h \in Nat OBVIOUS
      <4> QED BY <4>1, <3>2
    <3> QED BY <3>1, <3>2 DEF HeadsUpTo
  <2>4. From(heads, b) = From(heads, a) BY <2>3 DEF From
  <2>5. From(heads, a) - 1 \in Nat /\ From(heads, a) - 1 <= a BY FromTyped
  <2>6. Stretch(From(heads, a) - 1, a) \o Stretch(a, b) = Stretch(From(heads, a) - 1, b)
    BY <2>2, <2>5, StretchesJoin
  <2> QED BY <1>3, <1>4, <2>2, <2>4, <2>6 DEF Current
<1>5. CASE found # {}
  <2>1. b - c \in Nat /\ found \subseteq 1 .. b - c BY <1>2
  <2>2. Max(found) \in found /\ \A i \in found : i <= Max(found) BY <1>5, <2>1, MaxIsThere
  <2> DEFINE k == Max(found)
  <2>3. k \in 1 .. b - c /\ c + k \in heads BY <1>2, <2>1, <2>2
  <2> HIDE DEF k
  <2>4. From(heads, b) = c + k
    <3>1. c + k \in HeadsUpTo(heads, b) BY <2>3 DEF HeadsUpTo
    <3>2. ASSUME NEW h \in HeadsUpTo(heads, b) PROVE h <= c + k
      <4>1. h \in heads /\ h <= b /\ h \in Nat BY DEF HeadsUpTo
      <4>2. CASE h <= c BY <4>1, <4>2, <2>3
      <4>3. CASE h > c
        <5>1. h - c \in 1 .. b - c /\ c + (h - c) = h BY <4>1, <4>3
        <5>2. h - c \in found BY <1>2, <4>1, <5>1
        <5>3. h - c <= k BY <2>2, <5>2 DEF k
        <5> QED BY <2>3, <4>1, <5>3
      <4> QED BY <4>1, <4>2, <4>3
    <3>3. HeadsUpTo(heads, b) \subseteq Int
      <4>1. \A h \in heads : h \in Int OBVIOUS
      <4> QED BY <4>1 DEF HeadsUpTo
    <3>4. Max(HeadsUpTo(heads, b)) = c + k BY <3>1, <3>2, <3>3, MaxIsThat
    <3> QED BY <3>1, <3>4 DEF From
  <2>5. SubSeq(new, k, b - c) = Stretch(c + k - 1, b) BY <2>3, StretchCut
  <2>6. WithLines(section, new) = SubSeq(new, k, b - c) BY <1>1, <1>3, <1>5 DEF k
  <2>7. From(heads, b) - 1 = c + k - 1 BY <2>3, <2>4
  <2>8. WithLines(section, new) = Stretch(From(heads, b) - 1, b) BY <2>5, <2>6, <2>7
  <2> QED BY <2>8 DEF Current
<1> QED BY <1>4, <1>5

\* A page is the stretch that follows, as long as was asked for or up to the
\* log's end.
LEMMA PageIsStretch ==
  ASSUME lines \in Nat, NEW start \in Nat, NEW limit \in Nat, start <= lines
  PROVE  \E stop \in Nat :
           /\ start <= stop /\ stop <= lines /\ stop <= start + limit
           /\ stop = start + limit \/ stop = lines
           /\ Page(start, limit) = Stretch(start, stop)
<1> DEFINE n == IF limit <= lines - start THEN limit ELSE lines - start
<1>1. n \in Nat OBVIOUS
<1>2. Min({limit, lines - start}) = n
  <2>1. \E x \in {limit, lines - start} : \A y \in {limit, lines - start} : x =< y
    BY DEF n
  <2>2. /\ Min({limit, lines - start}) \in {limit, lines - start}
        /\ \A y \in {limit, lines - start} : Min({limit, lines - start}) =< y
    BY <2>1 DEF Min
  <2> QED BY <2>2
<1> HIDE DEF n
<1>3. Max({0, n}) = n
  <2>1. {0, n} \subseteq Int /\ n \in {0, n} /\ \A y \in {0, n} : y <= n BY <1>1
  <2> QED BY <2>1, MaxIsThat
<1>4. Page(start, limit) = Stretch(start, start + n)
  <2>1. (start + n) - start = n BY <1>1
  <2> QED BY <1>2, <1>3, <2>1 DEF Page, Stretch
<1>5. start + n \in Nat /\ start <= start + n /\ start + n <= lines /\ start + n <= start + limit
      /\ (start + n = start + limit \/ start + n = lines)
  BY DEF n
<1> QED BY <1>4, <1>5

\* Lines written later do not change the section of those read.
LEMMA GrowthKeepsCurrent ==
  ASSUME lines \in Nat, heads \subseteq 1 .. lines, NEW hs \in {heads, heads \cup {lines + 1}},
         NEW r \in Nat, r <= lines, NEW section, Current(heads, section, r)
  PROVE  Current(hs, section, r)
<1>1. ~(lines + 1 <= r) OBVIOUS
<1>2. HeadsUpTo(hs, r) = HeadsUpTo(heads, r) BY <1>1 DEF HeadsUpTo
<1> QED BY <1>2 DEF Current, From

LogTypes ==
  /\ lines \in Nat /\ heads \subseteq 1 .. lines
  /\ counted \in BOOLEAN /\ replaced \in BOOLEAN /\ taskLog.read \in Nat
\* What was kept is of this log, or longer than it.
KeptTrue ==
  /\ ~replaced => taskLog.read <= lines /\ Current(heads, taskLog.section, taskLog.read)
  /\ replaced => counted /\ lines < taskLog.read
\* A look has a current section to go on from, the stretch after it, and a
\* stretch that ends where the log did, up to a gap between the two.
BaseTrue == base.read \in Nat /\ Current(heads, base.section, base.read)
FirstTrue(f) == f \in Nat /\ base.read <= f /\ f <= lines /\ first = Stretch(base.read, f)
TailTrue(f) ==
  /\ end \in Nat /\ total \in Nat /\ f <= end /\ end <= total /\ total <= lines
  /\ tail = Stretch(end, total)
LookTrue ==
  /\ reading \notin {"onward", "back"} => tail = <<>>
  /\ reading \in {"onward", "back"} => BaseTrue
  /\ reading = "onward" => \E f \in Nat : FirstTrue(f)
  /\ reading = "back" => \E f \in Nat : FirstTrue(f) /\ TailTrue(f)
LogInv == LogTypes /\ KeptTrue /\ LookTrue

\* A look that ends with the lines up to b, from the section's head or from where
\* the last one stopped, keeps what is known current.
LEMMA LookDoneKeeps ==
  ASSUME LogInv, UNCHANGED logWorld,
         NEW a \in Nat, NEW c \in Nat, NEW b \in Nat, a <= c, c <= b, b <= lines,
         NEW section, Current(heads, section, a), c = a \/ \E h \in heads : c < h /\ h <= b,
         LookDone(section, Stretch(c, b), b)
  PROVE  LogInv'
<1>1. /\ taskLog' = [read |-> b, section |-> WithLines(section, Stretch(c, b))]
      /\ replaced' = FALSE /\ reading' = "no" /\ tail' = <<>>
  BY DEF LookDone, LookOver
<1>2. lines' = lines /\ heads' = heads /\ counted' = counted BY DEF logWorld
<1>3. lines \in Nat /\ heads \subseteq 1 .. lines /\ counted \in BOOLEAN BY DEF LogInv, LogTypes
<1>4. Current(heads, WithLines(section, Stretch(c, b)), b) BY <1>3, WithLinesCurrent
<1>5. LogTypes' BY <1>1, <1>2, <1>3 DEF LogTypes
<1>6. KeptTrue' BY <1>1, <1>2, <1>4 DEF KeptTrue
<1>7. LookTrue' BY <1>1 DEF LookTrue
<1> QED BY <1>5, <1>6, <1>7 DEF LogInv

\* The log and the looks at it keep the invariant: new lines, ...
LEMMA LogGrowsKeeps == LogInv /\ LogGrows => LogInv'
<1> SUFFICES ASSUME LogInv, LogGrows PROVE LogInv' OBVIOUS
<1>1. /\ lines' = lines + 1 /\ heads' \in {heads, heads \cup {lines + 1}}
      /\ counted' = counted /\ replaced' = replaced /\ taskLog' = taskLog /\ reading' = reading
      /\ base' = base /\ first' = first /\ tail' = tail /\ end' = end /\ total' = total
      /\ replaced => lines < taskLog.read - 1
  BY DEF LogGrows
<1>2. lines \in Nat /\ heads \subseteq 1 .. lines BY DEF LogInv, LogTypes
<1>3. LogTypes' BY <1>1 DEF LogInv, LogTypes
<1>4. KeptTrue'
  <2>1. CASE replaced BY <1>1, <1>2, <2>1 DEF LogInv, LogTypes, KeptTrue
  <2>2. CASE ~replaced
    <3>1. taskLog.read \in Nat /\ taskLog.read <= lines /\ Current(heads, taskLog.section, taskLog.read)
      BY <2>2 DEF LogInv, LogTypes, KeptTrue
    <3>2. Current(heads', taskLog.section, taskLog.read) BY <1>1, <1>2, <3>1, GrowthKeepsCurrent
    <3> QED BY <1>1, <1>2, <2>2, <3>1, <3>2 DEF KeptTrue
  <2> QED BY <2>1, <2>2
<1>5. \A f \in Nat : FirstTrue(f) => FirstTrue(f)' BY <1>1, <1>2 DEF FirstTrue
<1>6. \A f \in Nat : TailTrue(f) => TailTrue(f)' BY <1>1, <1>2 DEF TailTrue
<1>7. ASSUME BaseTrue, NEW f \in Nat, FirstTrue(f) PROVE BaseTrue'
  <2>1. base.read \in Nat /\ base.read <= lines /\ Current(heads, base.section, base.read)
    BY <1>2, <1>7 DEF BaseTrue, FirstTrue
  <2>2. Current(heads', base.section, base.read) BY <1>1, <1>2, <2>1, GrowthKeepsCurrent
  <2> QED BY <1>1, <2>1, <2>2 DEF BaseTrue
<1>8. LookTrue'
  <2>1. CASE reading = "onward"
    <3>1. PICK f \in Nat : BaseTrue /\ FirstTrue(f) BY <2>1 DEF LogInv, LookTrue
    <3>2. BaseTrue' /\ FirstTrue(f)' BY <1>5, <1>7, <3>1
    <3> QED BY <1>1, <2>1, <3>2 DEF LookTrue
  <2>2. CASE reading = "back"
    <3>1. PICK f \in Nat : BaseTrue /\ FirstTrue(f) /\ TailTrue(f) BY <2>2 DEF LogInv, LookTrue
    <3>2. BaseTrue' /\ FirstTrue(f)' /\ TailTrue(f)' BY <1>5, <1>6, <1>7, <3>1
    <3> QED BY <1>1, <2>2, <3>2 DEF LookTrue
  <2>3. CASE reading \notin {"onward", "back"} BY <1>1, <2>3 DEF LogInv, LookTrue
  <2> QED BY <2>1, <2>2, <2>3
<1> QED BY <1>3, <1>4, <1>8 DEF LogInv

\* ... another task's log, ...
LEMMA LogReplacedKeeps == LogInv /\ LogReplaced => LogInv'
<1> SUFFICES ASSUME LogInv, LogReplaced PROVE LogInv' OBVIOUS
<1>1. /\ reading = "no" /\ counted /\ replaced' = TRUE /\ lines' \in 0 .. taskLog.read - 1 /\ heads' = {}
      /\ counted' = counted /\ taskLog' = taskLog /\ reading' = reading /\ tail' = tail
  BY DEF LogReplaced
<1>2. LogTypes' BY <1>1 DEF LogInv, LogTypes
<1>3. KeptTrue' BY <1>1 DEF LogInv, LogTypes, KeptTrue
<1>4. LookTrue' BY <1>1 DEF LogInv, LookTrue
<1> QED BY <1>2, <1>3, <1>4 DEF LogInv

\* ... the first page of a look, ...
LEMMA LookBeginsKeeps == LogInv /\ LookBegins => LogInv'
<1> SUFFICES ASSUME LogInv, LookBegins PROVE LogInv' OBVIOUS
<1> DEFINE known == IF counted /\ lines < taskLog.read THEN Unread ELSE taskLog
           page == Page(known.read, LogPage)
           floor == known.read + Len(page)
<1>1. lines \in Nat /\ heads \subseteq 1 .. lines /\ LogPage \in Nat
  BY LogAssumption DEF LogInv, LogTypes
<1>2. known.read \in Nat /\ known.read <= lines /\ Current(heads, known.section, known.read)
  <2>1. CASE counted /\ lines < taskLog.read
    <3>1. known = Unread BY <2>1
    <3>2. HeadsUpTo(heads, 0) = {}
      <4>1. \A h \in heads : h \in Nat /\ ~(h <= 0) BY <1>1
      <4> QED BY <4>1 DEF HeadsUpTo
    <3>3. From(heads, 0) = 1 BY <3>2 DEF From
    <3>4. Stretch(0, 0) = <<>> BY DEF Stretch
    <3>5. Current(heads, <<>>, 0) BY <3>3, <3>4 DEF Current
    <3> QED BY <1>1, <3>1, <3>5 DEF Unread
  <2>2. CASE ~(counted /\ lines < taskLog.read)
    <3>1. ~replaced BY <2>2 DEF LogInv, KeptTrue
    <3> QED BY <2>2, <3>1 DEF LogInv, LogTypes, KeptTrue
  <2> QED BY <2>1, <2>2
<1>3. UNCHANGED logWorld BY DEF LookBegins
<1>4. lines' = lines /\ heads' = heads /\ counted' = counted BY <1>3 DEF logWorld
<1>5. \/ /\ reading' = "onward" /\ base' = known /\ first' = page /\ UNCHANGED <<replaced, taskLog>>
      \/ /\ reading' = "back" /\ base' = known /\ first' = page /\ end' = lines /\ total' = lines
         /\ UNCHANGED <<replaced, taskLog, tail>> /\ lines > floor /\ reading = "no"
      \/ LookDone(known.section, page, floor)
  BY DEF LookBegins
<1> HIDE DEF known
<1>6. PICK stop \in Nat : known.read <= stop /\ stop <= lines /\ page = Stretch(known.read, stop)
  BY <1>1, <1>2, PageIsStretch
<1>7. Len(page) = stop - known.read /\ floor = stop
  <2>1. Len(Stretch(known.read, stop)) = stop - known.read BY <1>2, <1>6, StretchProperties
  <2> HIDE DEF page
  <2> QED BY <1>2, <1>6, <2>1
<1> HIDE DEF page, floor
<1>8. LogTypes' \/ LookDone(known.section, page, floor) BY <1>4, <1>5 DEF LogInv, LogTypes
<1>9. KeptTrue' \/ LookDone(known.section, page, floor) BY <1>4, <1>5 DEF LogInv, KeptTrue
<1>10. CASE reading' = "onward" /\ base' = known /\ first' = page
  <2>1. BaseTrue' BY <1>2, <1>4, <1>10 DEF BaseTrue
  <2>2. FirstTrue(stop)' BY <1>2, <1>4, <1>6, <1>10 DEF FirstTrue
  <2>3. LookTrue' BY <1>10, <2>1, <2>2 DEF LookTrue
  <2> QED BY <1>5, <1>8, <1>9, <1>10, <2>3 DEF LogInv, LookDone, LookOver
<1>11. CASE reading' = "back" /\ base' = known /\ first' = page /\ end' = lines /\ total' = lines
            /\ tail' = tail /\ reading = "no"
  <2>1. BaseTrue' BY <1>2, <1>4, <1>11 DEF BaseTrue
  <2>2. FirstTrue(stop)' BY <1>2, <1>4, <1>6, <1>11 DEF FirstTrue
  <2>3. TailTrue(stop)'
    <3>1. Stretch(lines, lines) = <<>>
      <4>1. lines - lines = 0 BY <1>1
      <4> QED BY <4>1 DEF Stretch
    <3>2. tail' = Stretch(lines, lines) BY <1>11, <3>1 DEF LogInv, LookTrue
    <3> QED BY <1>1, <1>4, <1>6, <1>11, <3>2 DEF TailTrue
  <2>4. LookTrue' BY <1>11, <2>1, <2>2, <2>3 DEF LookTrue
  <2> QED BY <1>5, <1>8, <1>9, <1>11, <2>4 DEF LogInv, LookDone, LookOver
<1>12. CASE LookDone(known.section, page, floor)
  <2>1. LookDone(known.section, Stretch(known.read, stop), stop) BY <1>6, <1>7, <1>12
  <2> QED BY <1>2, <1>3, <1>6, <2>1, LookDoneKeeps
<1> QED BY <1>5, <1>10, <1>11, <1>12

\* ... the next page of one that reads on, ...
LEMMA LookOnwardKeeps == LogInv /\ LookOnward => LogInv'
<1> SUFFICES ASSUME LogInv, LookOnward PROVE LogInv' OBVIOUS
<1> DEFINE page == Page(base.read + Len(first), LogPage)
<1>1. lines \in Nat /\ LogPage \in Nat BY LogAssumption DEF LogInv, LogTypes
<1>2. PICK f \in Nat : BaseTrue /\ FirstTrue(f) BY DEF LogInv, LookTrue, LookOnward
<1>3. /\ base.read \in Nat /\ Current(heads, base.section, base.read)
      /\ base.read <= f /\ f <= lines /\ first = Stretch(base.read, f)
  BY <1>2 DEF BaseTrue, FirstTrue
<1>4. base.read + Len(first) = f
  <2>1. Len(first) = f - base.read BY <1>3, StretchProperties
  <2> QED BY <1>3, <2>1
<1>5. PICK stop \in Nat : f <= stop /\ stop <= lines /\ page = Stretch(f, stop)
  BY <1>1, <1>3, <1>4, PageIsStretch
<1>6. first \o page = Stretch(base.read, stop)
  <2>1. Stretch(base.read, f) \o Stretch(f, stop) = Stretch(base.read, stop) BY <1>3, <1>5, StretchesJoin
  <2> HIDE DEF page
  <2> QED BY <1>3, <1>5, <2>1
<1>7. base.read <= stop /\ base.read + Len(first \o page) = stop
  <2>1. base.read <= stop BY <1>3, <1>5
  <2>2. Len(Stretch(base.read, stop)) = stop - base.read BY <1>3, <2>1, StretchProperties
  <2> HIDE DEF page
  <2>3. Len(first \o page) = stop - base.read BY <1>6, <2>2
  <2> QED BY <1>3, <2>1, <2>3
<1>8. UNCHANGED logWorld BY DEF LookOnward
<1>9. lines' = lines /\ heads' = heads /\ counted' = counted BY <1>8 DEF logWorld
<1>10. CASE Len(page) = LogPage
  <2>1. /\ first' = first \o page /\ reading = "onward"
        /\ UNCHANGED <<replaced, taskLog, reading, base, tail, end, total>>
    BY <1>10 DEF LookOnward
  <2> HIDE DEF page
  <2>2. BaseTrue' BY <1>3, <1>9, <2>1 DEF BaseTrue
  <2>3. FirstTrue(stop)' BY <1>5, <1>6, <1>7, <1>9, <2>1 DEF FirstTrue
  <2>4. LookTrue' BY <2>1, <2>2, <2>3 DEF LookTrue
  <2>5. LogTypes' /\ KeptTrue' BY <1>9, <2>1 DEF LogInv, LogTypes, KeptTrue
  <2> QED BY <2>4, <2>5 DEF LogInv
<1>11. CASE Len(page) # LogPage
  <2>1. LookDone(base.section, first \o page, base.read + Len(first \o page)) BY <1>11 DEF LookOnward
  <2> HIDE DEF page
  <2>2. LookDone(base.section, Stretch(base.read, stop), stop) BY <1>6, <1>7, <2>1
  <2> QED BY <1>3, <1>5, <1>7, <1>8, <2>2, LookDoneKeeps
<1> QED BY <1>10, <1>11

\* ... and the page before, of one that searches back for the head.
LEMMA LookBackKeeps == LogInv /\ LookBack => LogInv'
<1> SUFFICES ASSUME LogInv, LookBack PROVE LogInv' OBVIOUS
<1> DEFINE floor == base.read + Len(first)
           start == Max({floor, end - LogPage})
           page == Page(start, end - start)
<1>1. lines \in Nat /\ LogPage \in Nat /\ LogPage > 0 BY LogAssumption DEF LogInv, LogTypes
<1>2. PICK f \in Nat : BaseTrue /\ FirstTrue(f) /\ TailTrue(f) BY DEF LogInv, LookTrue, LookBack
<1>3. /\ base.read \in Nat /\ Current(heads, base.section, base.read)
      /\ base.read <= f /\ f <= lines /\ first = Stretch(base.read, f)
      /\ end \in Nat /\ total \in Nat /\ f <= end /\ end <= total /\ total <= lines
      /\ tail = Stretch(end, total)
  BY <1>2 DEF BaseTrue, FirstTrue, TailTrue
<1>4. floor = f
  <2>1. Len(first) = f - base.read BY <1>3, StretchProperties
  <2> QED BY <1>3, <2>1
<1>5. UNCHANGED logWorld BY DEF LookBack
<1>6. lines' = lines /\ heads' = heads /\ counted' = counted BY <1>5 DEF logWorld
<1>7. /\ reading = "back"
      /\ IF HasHead(page) THEN LookDone(base.section, page \o tail, total)
         ELSE IF start = floor THEN LookDone(base.section, first \o page \o tail, total)
         ELSE /\ tail' = page \o tail /\ end' = start
              /\ UNCHANGED <<replaced, taskLog, reading, base, first, total>>
  BY DEF LookBack
<1> HIDE DEF floor
<1>8. start \in Nat /\ f <= start /\ start <= end
  <2>1. CASE f >= end - LogPage
    <3>1. {f, end - LogPage} \subseteq Int /\ f \in {f, end - LogPage} /\ \A y \in {f, end - LogPage} : y <= f
      BY <1>1, <1>3, <2>1
    <3>2. start = f BY <1>4, <3>1, MaxIsThat
    <3> HIDE DEF start
    <3> QED BY <1>3, <3>2
  <2>2. CASE f < end - LogPage
    <3>1. /\ {f, end - LogPage} \subseteq Int /\ end - LogPage \in {f, end - LogPage}
          /\ \A y \in {f, end - LogPage} : y <= end - LogPage
      BY <1>1, <1>3, <2>2
    <3>2. start = end - LogPage BY <1>4, <3>1, MaxIsThat
    <3> HIDE DEF start
    <3> QED BY <1>1, <1>3, <2>2, <3>2
  <2> QED BY <1>1, <1>3, <2>1, <2>2
<1> HIDE DEF start
<1>9. page = Stretch(start, end)
  <2>1. end - start \in Nat /\ start <= lines /\ start + (end - start) = end BY <1>1, <1>3, <1>8
  <2>2. PICK stop \in Nat : /\ start <= stop /\ stop <= lines /\ stop <= start + (end - start)
                            /\ stop = start + (end - start) \/ stop = lines
                            /\ page = Stretch(start, stop)
    BY <1>1, <1>8, <2>1, PageIsStretch
  <2>3. stop = end BY <1>1, <1>3, <2>1, <2>2
  <2> QED BY <2>2, <2>3
<1> HIDE DEF page
<1>10. page \o tail = Stretch(start, total) BY <1>3, <1>8, <1>9, StretchesJoin
<1>11. start <= total /\ base.read <= start BY <1>3, <1>8
<1>12. CASE HasHead(page)
  <2>1. LookDone(base.section, Stretch(start, total), total) BY <1>7, <1>10, <1>12
  <2>2. PICK i \in DOMAIN page : page[i] \in heads BY <1>12 DEF HasHead
  <2>3. i \in 1 .. end - start /\ page[i] = start + i BY <1>3, <1>8, <1>9, <2>2, StretchProperties
  <2>4. start < page[i] /\ page[i] <= total BY <1>3, <1>8, <2>3
  <2>5. \E h \in heads : start < h /\ h <= total BY <2>2, <2>4
  <2> QED BY <1>3, <1>5, <1>8, <1>11, <2>1, <2>5, LookDoneKeeps
<1>13. CASE ~HasHead(page) /\ start = floor
  <2>1. LookDone(base.section, first \o page \o tail, total) BY <1>7, <1>13
  <2>2. first \o page = Stretch(base.read, end) BY <1>3, <1>4, <1>9, <1>13, StretchesJoin
  <2>3. base.read <= end /\ base.read <= total BY <1>3
  <2>4. first \o page \o tail = Stretch(base.read, total)
    <3>1. Stretch(base.read, end) \o Stretch(end, total) = Stretch(base.read, total)
      BY <1>3, <2>3, StretchesJoin
    <3> QED BY <1>3, <2>2, <3>1
  <2>5. LookDone(base.section, Stretch(base.read, total), total) BY <2>1, <2>4
  <2> QED BY <1>3, <1>5, <2>3, <2>5, LookDoneKeeps
<1>14. CASE ~HasHead(page) /\ start # floor
  <2>1. /\ tail' = page \o tail /\ end' = start /\ reading' = "back"
        /\ UNCHANGED <<replaced, taskLog, base, first, total>>
    BY <1>7, <1>14
  <2>2. BaseTrue' BY <1>3, <1>6, <2>1 DEF BaseTrue
  <2>3. FirstTrue(f)' BY <1>3, <1>6, <2>1 DEF FirstTrue
  <2>4. TailTrue(f)' BY <1>3, <1>6, <1>8, <1>10, <1>11, <2>1 DEF TailTrue
  <2>5. LookTrue' BY <2>1, <2>2, <2>3, <2>4 DEF LookTrue
  <2>6. LogTypes' /\ KeptTrue' BY <1>6, <2>1 DEF LogInv, LogTypes, KeptTrue
  <2> QED BY <2>5, <2>6 DEF LogInv
<1> QED BY <1>12, <1>13, <1>14

\* So it holds in every reachable state.
LEMMA LogInvHolds == LogSpec => []LogInv
<1>1. LogInit => LogInv
  <2> SUFFICES ASSUME LogInit PROVE LogInv OBVIOUS
  <2>1. LogTypes BY DEF LogInit, LogTypes, Unread
  <2>2. HeadsUpTo(heads, 0) = {} BY DEF LogInit, HeadsUpTo
  <2>3. From(heads, 0) = 1 BY <2>2 DEF From
  <2>4. Stretch(0, 0) = <<>> BY DEF Stretch
  <2>5. Current(heads, <<>>, 0) BY <2>3, <2>4 DEF Current
  <2>6. KeptTrue BY <2>5 DEF LogInit, KeptTrue, Unread
  <2>7. LookTrue BY DEF LogInit, LookTrue
  <2> QED BY <2>1, <2>6, <2>7 DEF LogInv
<1>2. LogInv /\ [LogNext]_logVars => LogInv'
  <2> SUFFICES ASSUME LogInv, [LogNext]_logVars PROVE LogInv' OBVIOUS
  <2>1. CASE LookFails
    <3>1. UNCHANGED <<logWorld, replaced, taskLog>> /\ reading' = "no" /\ tail' = <<>>
      BY <2>1 DEF LookFails, LookOver
    <3>2. LogTypes' /\ KeptTrue' BY <3>1 DEF LogInv, LogTypes, KeptTrue, logWorld
    <3>3. LookTrue' BY <3>1 DEF LookTrue
    <3> QED BY <3>2, <3>3 DEF LogInv
  <2>2. CASE UNCHANGED logVars
    BY <2>2 DEF logVars, LogInv, LogTypes, KeptTrue, LookTrue, BaseTrue, FirstTrue, TailTrue
  <2> QED BY <2>1, <2>2, LogGrowsKeeps, LogReplacedKeeps, LookBeginsKeeps, LookOnwardKeeps, LookBackKeeps
       DEF LogNext
<1> QED BY <1>1, <1>2, PTL DEF LogSpec

\* SectionIsCurrent (services/proxmox_progress.py, _read_task_log), for pages of any size and
\* logs of any length: the section kept is the log's from the last head on, with no line
\* missing, doubled or of another guest, however the log grows between the pages.
THEOREM SectionStaysCurrent == LogSpec => []SectionIsCurrent
<1>1. LogInv => SectionIsCurrent
  <2> SUFFICES ASSUME LogInv, ~replaced PROVE SectionIsCurrent BY DEF SectionIsCurrent
  <2> DEFINE r == taskLog.read
             from == From(heads, r)
  <2>1. r \in Nat /\ Current(heads, taskLog.section, r) /\ lines \in Nat /\ heads \subseteq 1 .. lines
    BY DEF LogInv, LogTypes, KeptTrue
  <2>2. from \in Nat \ {0} /\ from <= r + 1 BY <2>1, FromTyped
  <2>3. taskLog.section = [i \in 1 .. r - (from - 1) |-> (from - 1) + i]
    BY <2>1 DEF Current, Stretch
  <2>4. from = IF {h \in heads : h <= taskLog.read} = {} THEN 1 ELSE Max({h \in heads : h <= taskLog.read})
    BY DEF From, HeadsUpTo
  <2> HIDE DEF from
  <2>5. r - (from - 1) = r - from + 1 /\ \A i \in 1 .. r - from + 1 : (from - 1) + i = from + i - 1
    BY <2>1, <2>2
  <2>6. taskLog.section = [i \in 1 .. r - from + 1 |-> from + i - 1] BY <2>3, <2>5
  <2> QED BY <2>4, <2>6 DEF SectionIsCurrent
<1> QED BY <1>1, LogInvHolds, PTL

-----------------------------------------------------------------------------
(* BackupRows.                                                                 *)

BackupRow == [kind : {"none", "stub", "real"}, status : {"ok", "failed"}, ended : BOOLEAN,
              gone : BOOLEAN, details : BOOLEAN]

RowTypes == row \in [Runs -> BackupRow]

\* No row is a row of its own kind.
LEMMA NoRowTyped == NoRow \in BackupRow
BY DEF NoRow, BackupRow

\* What each step of the sync makes of a row.
LEMMA RowSteps ==
  ASSUME RowTypes, [RowNext]_rowVars, NEW r \in Runs
  PROVE  \/ row'[r] = row[r]
         \/ StoreListed /\ row'[r] \in {Merged(row[r], TRUE), Merged(row[r], FALSE)}
         \/ StoreListed /\ row'[r] = [row[r] EXCEPT !.gone = TRUE]
         \/ row[r].kind = "stub" /\ CleanUpStubs
              /\ row'[r] \in {NoRow, [row[r] EXCEPT !.status = "failed", !.ended = TRUE]}
         \/ run[r] = "ok" /\ EnrichFromLogs /\ row'[r] = [row[r] EXCEPT !.details = TRUE]
         \/ row[r].kind = "stub" /\ EnrichFromLogs
              /\ row'[r] = [row[r] EXCEPT !.status = "failed", !.ended = TRUE]
<1>1. CASE UNCHANGED row BY <1>1
<1>2. CASE StoreListed
  <2>1. row'[r] = IF \E e \in list : e.run = r THEN Merged(row[r], [run |-> r, real |-> TRUE] \in list)
                  ELSE IF row[r].kind = "none" THEN row[r] ELSE [row[r] EXCEPT !.gone = TRUE]
    BY <1>2 DEF StoreListed
  <2> DEFINE known == [run |-> r, real |-> TRUE] \in list
  <2>3. Merged(row[r], known) \in {Merged(row[r], TRUE), Merged(row[r], FALSE)}
    <3>1. CASE known
      <4>1. known = TRUE BY <3>1
      <4>2. Merged(row[r], known) = Merged(row[r], TRUE) BY <4>1
      <4> HIDE DEF known
      <4> QED BY <4>2
    <3>2. CASE ~known
      <4>1. known = FALSE BY <3>2
      <4>2. Merged(row[r], known) = Merged(row[r], FALSE) BY <4>1
      <4> HIDE DEF known
      <4> QED BY <4>2
    <3> QED BY <3>1, <3>2
  <2> QED BY <1>2, <2>1, <2>3
<1>3. CASE CleanUpStubs
  <2>1. row'[r] = IF ~Present(r) \/ row[r].kind # "stub" THEN row[r]
                  ELSE IF Followed(r) THEN NoRow
                  ELSE IF ~row[r].ended /\ row[r].status # "failed" /\ StartOf(r) + StaleHours < hour
                       THEN [row[r] EXCEPT !.status = "failed", !.ended = TRUE] ELSE row[r]
    BY <1>3 DEF CleanUpStubs
  <2> QED BY <1>3, <2>1
<1>4. CASE EnrichFromLogs
  <2>1. PICK found \in SUBSET ({q \in Runs : run[q] \in {"ok", "failed"}} \ handled) :
          row' = [q \in Runs |->
            IF q \notin found \/ row[q].kind = "none" THEN row[q]
            ELSE IF run[q] = "ok" THEN [row[q] EXCEPT !.details = TRUE]
            ELSE IF row[q].kind = "stub" /\ ~row[q].ended /\ row[q].status # "failed"
                 THEN [row[q] EXCEPT !.status = "failed", !.ended = TRUE] ELSE row[q]]
    BY <1>4 DEF EnrichFromLogs
  <2> QED BY <1>4, <2>1
<1> QED BY <1>1, <1>2, <1>3, <1>4
     DEF RowNext, rowVars, worldVars, Starts, Ends, Expires, Hour, SyncGoesOn, ReadSources, SyncStops

\* A merged row keeps its kind, and a size once known stays and makes it a success.
LEMMA MergedKeeps ==
  ASSUME NEW old \in BackupRow, NEW real \in BOOLEAN
  PROVE  /\ Merged(old, real) \in BackupRow
         /\ old.kind = "real" /\ old.status = "ok" =>
              Merged(old, real).kind = "real" /\ Merged(old, real).status = "ok"
BY DEF BackupRow, Merged

\* The types hold in every reachable state.
LEMMA RowTypesHold == RowSpec => []RowTypes
<1>1. RowInit => RowTypes BY NoRowTyped DEF RowInit, RowTypes
<1>2. RowTypes /\ [RowNext]_rowVars => RowTypes'
  <2> SUFFICES ASSUME RowTypes, [RowNext]_rowVars PROVE RowTypes' OBVIOUS
  <2>1. ASSUME NEW r \in Runs PROVE row'[r] \in BackupRow
    <3>1. row[r] \in BackupRow BY DEF RowTypes
    <3>2. /\ [row[r] EXCEPT !.gone = TRUE] \in BackupRow /\ [row[r] EXCEPT !.details = TRUE] \in BackupRow
          /\ [row[r] EXCEPT !.status = "failed", !.ended = TRUE] \in BackupRow
      BY <3>1 DEF BackupRow
    <3>3. Merged(row[r], TRUE) \in BackupRow /\ Merged(row[r], FALSE) \in BackupRow BY <3>1, MergedKeeps
    <3> QED BY <3>1, <3>2, <3>3, NoRowTyped, RowSteps
  <2>2. row' = [r \in Runs |-> row'[r]]
    <3>1. CASE UNCHANGED row BY <3>1 DEF RowTypes
    <3>2. CASE StoreListed \/ CleanUpStubs \/ EnrichFromLogs
      BY <3>2 DEF StoreListed, CleanUpStubs, EnrichFromLogs
    <3> QED BY <3>1, <3>2
         DEF RowNext, rowVars, worldVars, Starts, Ends, Expires, Hour, SyncGoesOn, ReadSources, SyncStops
  <2> QED BY <2>1, <2>2 DEF RowTypes
<1> QED BY <1>1, <1>2, PTL DEF RowSpec

\* FinishedIsKept and DetailsBeforeDone (db_reports.py, web/sync.py), for any number of
\* backups, whenever their rows are read and whatever time limits are set: a finished backup
\* stays one, and its log is not set aside before its row has the details.
THEOREM FinishedRowsKept == RowSpec => FinishedIsKept /\ DetailsBeforeDone
<1>1. RowTypes /\ [RowNext]_rowVars =>
        [\A r \in Runs : row[r].kind = "real" /\ row[r].status = "ok" =>
           row'[r].kind = "real" /\ row'[r].status = "ok"]_rowVars
  <2> SUFFICES ASSUME RowTypes, [RowNext]_rowVars, NEW r \in Runs, row[r].kind = "real", row[r].status = "ok"
               PROVE  row'[r].kind = "real" /\ row'[r].status = "ok"
    OBVIOUS
  <2>1. row[r] \in BackupRow BY DEF RowTypes
  <2>2. CASE row'[r] = row[r] BY <2>2
  <2>3. CASE row'[r] = [row[r] EXCEPT !.gone = TRUE] BY <2>1, <2>3 DEF BackupRow
  <2>4. CASE row'[r] = [row[r] EXCEPT !.details = TRUE] BY <2>1, <2>4 DEF BackupRow
  <2>5. CASE row'[r] \in {Merged(row[r], TRUE), Merged(row[r], FALSE)}
    <3>1. ASSUME NEW real \in BOOLEAN
          PROVE  Merged(row[r], real).kind = "real" /\ Merged(row[r], real).status = "ok"
      BY <2>1, MergedKeeps
    <3>2. CASE row'[r] = Merged(row[r], TRUE) BY <3>1, <3>2
    <3>3. CASE row'[r] = Merged(row[r], FALSE) BY <3>1, <3>3
    <3> QED BY <2>5, <3>2, <3>3
  <2> QED BY <2>2, <2>3, <2>4, <2>5, RowSteps
<1>2. RowTypes /\ [RowNext]_rowVars =>
        [\A r \in Runs : (run[r] = "ok" /\ r \in handled' \ handled) =>
           row'[r].details \/ hour > ended[r] + RetryHours]_rowVars
  <2> SUFFICES ASSUME RowTypes, RowNext, NEW r \in Runs, run[r] = "ok", r \in handled' \ handled,
                      ~(hour > ended[r] + RetryHours)
               PROVE  row'[r].details
    OBVIOUS
  <2>1. EnrichFromLogs
    BY DEF RowNext, worldVars, Starts, Ends, Expires, Hour, SyncGoesOn, ReadSources, SyncStops, StoreListed,
           CleanUpStubs
  <2>2. PICK found \in SUBSET ({q \in Runs : run[q] \in {"ok", "failed"}} \ handled) :
          /\ row' = [q \in Runs |->
               IF q \notin found \/ row[q].kind = "none" THEN row[q]
               ELSE IF run[q] = "ok" THEN [row[q] EXCEPT !.details = TRUE]
               ELSE IF row[q].kind = "stub" /\ ~row[q].ended /\ row[q].status # "failed"
                    THEN [row[q] EXCEPT !.status = "failed", !.ended = TRUE] ELSE row[q]]
          /\ handled' = handled \cup {q \in found : Processed(q)}
    BY <2>1 DEF EnrichFromLogs
  <2>3. r \in found /\ Processed(r) BY <2>2
  <2>4. row[r].kind # "none" BY <2>3 DEF Processed
  <2>5. row'[r] = [row[r] EXCEPT !.details = TRUE] BY <2>2, <2>3, <2>4
  <2>6. row[r] \in BackupRow BY DEF RowTypes
  <2> QED BY <2>5, <2>6 DEF BackupRow
<1> QED BY <1>1, <1>2, RowTypesHold, PTL DEF RowSpec, FinishedIsKept, DetailsBeforeDone

-----------------------------------------------------------------------------
(* SyncJobs.                                                                   *)

Looks == [at : {"rest", "ask", "store", "build", "save"}, before : Nat, seen : Nat, built : Nat]

JobTypes ==
    /\ clicks \in Nat /\ checkedAt \in Nat /\ askedAt \in Nat
    /\ job \in Nat /\ runs \in Nat /\ stored \in Nat
    /\ poll \in [Pollers -> Looks] /\ hourly \in Looks

\* A poll that has set out asks at once and, while time goes on, alone.
SetOut ==
    /\ askedAt <= checkedAt /\ checkedAt <= clicks
    /\ \A p \in Pollers : poll[p].at = "ask" =>
         /\ checkedAt = clicks
         /\ clicks < MaxClicks =>
              /\ askedAt = 0 \/ clicks - askedAt >= Every
              /\ \A q \in Pollers : poll[q].at = "ask" => q = p

JobInv == JobTypes /\ SetOut

\* A look at rest is a look.
LEMMA AtRestTyped == AtRest \in Looks /\ AtRest.at = "rest"
BY DEF AtRest, Looks

\* The invariant of the looks holds at the start, ...
LEMMA JobStarts == JobInit => JobInv
BY AtRestTyped, SyncJobAssumption DEF JobInit, JobInv, JobTypes, SetOut

\* Steps that neither begin nor end a poll's question.
LEMMA NobodyAsks ==
  ASSUME JobInv, JobTypes', UNCHANGED <<clicks, checkedAt, askedAt>>,
         \A p \in Pollers : poll'[p].at = "ask" => poll[p].at = "ask"
  PROVE  JobInv'
BY DEF JobInv, SetOut

\* ... every step keeps it, ...
LEMMA JobKeeps == JobInv /\ [JobNext]_jobVars => JobInv'
<1> SUFFICES ASSUME JobInv, [JobNext]_jobVars PROVE JobInv' OBVIOUS
<1>0. JobTypes /\ SetOut BY DEF JobInv
<1>1. CASE UNCHANGED jobVars
  <2>1. UNCHANGED <<clicks, checkedAt, askedAt, job, runs, stored, poll, hourly>> BY <1>1 DEF jobVars, pbsVars
  <2> QED BY <1>0, <2>1 DEF JobInv, JobTypes, SetOut
<1>2. CASE JobStartsOrEnds \/ PbsGoesOrComes
  <2>1. job' \in Nat /\ runs' \in Nat /\ UNCHANGED <<clicks, checkedAt, askedAt, stored, poll, hourly>>
    BY <1>0, <1>2 DEF JobStartsOrEnds, PbsGoesOrComes, JobTypes
  <2>2. JobTypes' BY <1>0, <2>1 DEF JobTypes
  <2> QED BY <2>1, <2>2, NobodyAsks
<1>3. CASE Click
  <2>1. /\ clicks' = clicks + 1 /\ \A p \in Pollers : poll[p].at # "ask"
        /\ UNCHANGED <<job, runs, checkedAt, askedAt, stored, poll, hourly>>
    BY <1>3 DEF Click, pbsVars
  <2>2. JobTypes' BY <1>0, <2>1 DEF JobTypes
  <2>3. SetOut' BY <1>0, <2>1 DEF SetOut, JobTypes
  <2> QED BY <2>2, <2>3 DEF JobInv
<1>4. CASE HourlyAsks \/ HourlyStores \/ HourlyBuilds \/ HourlySaves
  <2>1. UNCHANGED <<clicks, checkedAt, askedAt, job, runs, poll>>
    BY <1>4 DEF HourlyAsks, HourlyStores, HourlyBuilds, HourlySaves, pbsVars
  <2>2. stored' \in Nat
    BY <1>0, <1>4 DEF HourlyAsks, HourlyStores, HourlyBuilds, HourlySaves, JobTypes, Looks
  <2>3. hourly' \in Looks
    <3>1. CASE HourlyAsks
      <4>1. hourly' \in {[AtRest EXCEPT !.at = "store", !.seen = job], [AtRest EXCEPT !.at = "build"]}
        BY <3>1 DEF HourlyAsks
      <4>2. [AtRest EXCEPT !.at = "store", !.seen = job] \in Looks BY <1>0 DEF AtRest, Looks, JobTypes
      <4>3. [AtRest EXCEPT !.at = "build"] \in Looks BY DEF AtRest, Looks
      <4> QED BY <4>1, <4>2, <4>3
    <3>2. CASE HourlyStores BY <1>0, <3>2 DEF HourlyStores, JobTypes, Looks
    <3>3. CASE HourlyBuilds
      <4>1. hourly' = [AtRest EXCEPT !.at = "save", !.built = stored] BY <3>3 DEF HourlyBuilds
      <4> QED BY <1>0, <4>1 DEF AtRest, Looks, JobTypes
    <3>4. CASE HourlySaves BY <3>4, AtRestTyped DEF HourlySaves
    <3> QED BY <1>4, <3>1, <3>2, <3>3, <3>4
  <2>4. JobTypes' BY <1>0, <2>1, <2>2, <2>3 DEF JobTypes
  <2> QED BY <2>1, <2>4, NobodyAsks
<1>5. ASSUME NEW p \in Pollers, PollSetsOut(p) PROVE JobInv'
  <2>1. /\ clicks - checkedAt >= Every \/ clicks = MaxClicks
        /\ poll' = [poll EXCEPT ![p] = [AtRest EXCEPT !.at = "ask", !.before = stored]]
        /\ checkedAt' = clicks /\ UNCHANGED <<clicks, job, runs, stored, hourly, askedAt>>
    BY <1>5 DEF PollSetsOut, pbsVars
  <2>2. [AtRest EXCEPT !.at = "ask", !.before = stored] \in Looks BY <1>0 DEF AtRest, Looks, JobTypes
  <2>3. JobTypes' BY <1>0, <2>1, <2>2 DEF JobTypes
  <2>4. clicks < MaxClicks => clicks - askedAt >= Every /\ \A q \in Pollers : poll[q].at # "ask"
    BY <1>0, <2>1, SyncJobAssumption DEF JobTypes, SetOut
  <2>5. \A q \in Pollers \ {p} : poll'[q] = poll[q] BY <1>0, <2>1 DEF JobTypes
  <2>6. SetOut' BY <1>0, <2>1, <2>4, <2>5 DEF SetOut, JobTypes
  <2> QED BY <2>3, <2>6 DEF JobInv
<1>6. ASSUME NEW p \in Pollers, PollAsks(p) PROVE JobInv'
  <2>1. /\ poll[p].at = "ask" /\ askedAt' = clicks
        /\ poll' = [poll EXCEPT ![p] = IF reachable /\ job # poll[p].before
                                       THEN [poll[p] EXCEPT !.at = "store", !.seen = job] ELSE AtRest]
        /\ UNCHANGED <<clicks, checkedAt, job, runs, stored, hourly>>
    BY <1>0, <1>6 DEF PollAsks, pbsVars, JobTypes
  <2>2. [poll[p] EXCEPT !.at = "store", !.seen = job] \in Looks BY <1>0 DEF Looks, JobTypes
  <2>3. [poll[p] EXCEPT !.at = "store", !.seen = job].at = "store" BY <1>0 DEF Looks, JobTypes
  <2>4. JobTypes' BY <1>0, <2>1, <2>2, AtRestTyped DEF JobTypes
  <2>5. poll'[p].at # "ask" /\ \A q \in Pollers \ {p} : poll'[q] = poll[q]
    BY <1>0, <2>1, <2>3, AtRestTyped DEF JobTypes
  <2>6. checkedAt = clicks /\ (clicks < MaxClicks => \A q \in Pollers : poll[q].at = "ask" => q = p)
    BY <1>0, <2>1 DEF SetOut
  <2>7. SetOut' BY <1>0, <2>1, <2>5, <2>6 DEF SetOut, JobTypes
  <2> QED BY <2>4, <2>7 DEF JobInv
<1>7. ASSUME NEW p \in Pollers, PollStores(p) \/ PollBuilds(p) \/ PollSaves(p) PROVE JobInv'
  <2>1. /\ UNCHANGED <<clicks, checkedAt, askedAt, job, runs, hourly>>
        /\ stored' \in Nat
    BY <1>0, <1>7 DEF PollStores, PollBuilds, PollSaves, pbsVars, JobTypes, Looks
  <2>2. \E look \in Looks : look.at # "ask" /\ poll' = [poll EXCEPT ![p] = look]
    <3>1. CASE PollStores(p)
      <4>1. poll' = [poll EXCEPT ![p] = [poll[p] EXCEPT !.at = "build"]] BY <1>0, <3>1 DEF PollStores, JobTypes
      <4>2. [poll[p] EXCEPT !.at = "build"] \in Looks /\ [poll[p] EXCEPT !.at = "build"].at = "build"
        BY <1>0 DEF Looks, JobTypes
      <4> QED BY <4>1, <4>2
    <3>2. CASE PollBuilds(p)
      <4>1. [AtRest EXCEPT !.at = "save", !.built = stored] \in Looks
            /\ [AtRest EXCEPT !.at = "save", !.built = stored].at = "save"
        BY <1>0 DEF AtRest, Looks, JobTypes
      <4> QED BY <3>2, <4>1 DEF PollBuilds
    <3>3. CASE PollSaves(p) BY <3>3, AtRestTyped DEF PollSaves
    <3> QED BY <1>7, <3>1, <3>2, <3>3
  <2>3. JobTypes' BY <1>0, <2>1, <2>2 DEF JobTypes
  <2>4. \A q \in Pollers : poll'[q].at = "ask" => poll[q].at = "ask" BY <1>0, <2>2 DEF JobTypes
  <2> QED BY <2>1, <2>3, <2>4, NobodyAsks
<1> QED BY <1>1, <1>2, <1>3, <1>4, <1>5, <1>6, <1>7 DEF JobNext

\* ... so it holds in every reachable state.
LEMMA JobInvHolds == JobSpec => []JobInv
BY JobStarts, JobKeeps, PTL DEF JobSpec

\* AskedSparingly (refresh_sync_job_states), for any number of open pages: between two
\* questions to a PBS lies at least Every.
THEOREM PbsAskedSparingly == JobSpec => AskedSparingly
<1>1. JobInv => \A p \in Pollers :
        (poll[p].at = "ask" /\ poll'[p].at # "ask" /\ clicks < MaxClicks)
          => askedAt = 0 \/ clicks - askedAt >= Every
  BY DEF JobInv, SetOut
<1> QED BY <1>1, JobInvHolds, PTL DEF JobSpec, AskedSparingly
\* Weeks and months do not run backwards.
LEMMA DivGrows ==
  ASSUME NEW a \in Nat, NEW n \in Nat \ {0}
  PROVE  a \div n \in Nat /\ (a + 1) \div n \in Nat /\ a \div n <= (a + 1) \div n
<1> DEFINE q == a \div n
           p == (a + 1) \div n
<1>1. q \in Nat /\ p \in Nat OBVIOUS
<1>2. n * q <= a /\ a < n * q + n OBVIOUS
<1>3. n * p <= a + 1 /\ a + 1 < n * p + n OBVIOUS
<1> HIDE DEF q, p
<1>4. ASSUME p < q PROVE FALSE
  <2>1. PICK d \in Nat : q = p + 1 + d BY <1>1, <1>4
  <2>2. n * q = n * p + n + n * d BY <2>1, <1>1
  <2>3. n * d >= 0 BY <2>1
  <2>4. n * q \in Nat /\ n * p \in Nat /\ n * d \in Nat BY <1>1, <2>1
  <2> QED BY <1>2, <1>3, <2>2, <2>3, <2>4
<1> QED BY <1>1, <1>4 DEF q, p

-----------------------------------------------------------------------------
(* AutoLoop.  What the loop still may send counts as sent already.             *)

LoopTypes ==
  /\ tick \in Nat /\ since \in Nat /\ outage \in Nat /\ lastWeek \in Nat /\ held \in Nat /\ slips \in Nat
  /\ marked \in BOOLEAN
  /\ toldOf \in [Outages -> Nat] /\ mailed \in [Months -> Nat] /\ sentIn \in [Weeks -> Nat]

\* An outage to come, one not marked yet, and the one about to be told of.
ToldOwed(o) ==
  IF \/ o > outage
     \/ o = outage /\ since # 0 /\ ~marked /\ pass # "mark"
     \/ pass = "tell" /\ held = o
  THEN 1 ELSE 0
TellInv ==
  /\ pass \in {"tell", "mark"} => held <= outage
  /\ \A o \in Outages : toldOf[o] + ToldOwed(o) <= 1 + slips

\* A month without a report, and the one about to be mailed.
ReportOwed(m) == IF \A r \in archive : r.month # m THEN 1 ELSE 0
MailOwed(m) == IF pass = "mail" /\ held = m THEN 1 ELSE 0
MailInv ==
  /\ pass = "write" => held < Month(tick) /\ \A r \in archive : r.month # held
  /\ \A m \in Months : mailed[m] + ReportOwed(m) + MailOwed(m) <= 1 + slips

\* A week after the last one noted, unless it is about to be noted.
WeekOwed(w) == IF w > lastWeek /\ ~(pass = "note" /\ held = w) THEN 1 ELSE 0
WeekInv ==
  /\ lastWeek <= Week(tick)
  /\ pass \in {"send", "note"} => lastWeek < held /\ held <= Week(tick)
  /\ \A w \in Weeks : sentIn[w] + WeekOwed(w) <= 1 + slips

LoopInv == LoopTypes /\ TellInv /\ MailInv /\ WeekInv

\* Months and weeks are counted from one and never run back.
LEMMA TimeTyped ==
  ASSUME tick \in Nat
  PROVE  /\ Month(tick) \in Nat \ {0} /\ Week(tick) \in Nat \ {0}
         /\ Month(tick + 1) \in Nat /\ Week(tick + 1) \in Nat
         /\ Month(tick) <= Month(tick + 1) /\ Week(tick) <= Week(tick + 1)
BY LoopAssumption, DivGrows DEF Month, Week

\* A counter that is raised stays one.
LEMMA OneMore ==
  ASSUME NEW D, NEW f \in [D -> Nat], NEW x PROVE [f EXCEPT ![x] = @ + 1] \in [D -> Nat]
<1> DEFINE g == [f EXCEPT ![x] = @ + 1]
<1>1. g = [y \in D |-> g[y]] OBVIOUS
<1>2. ASSUME NEW y \in D PROVE g[y] \in Nat
  <2>1. CASE y = x BY <2>1
  <2>2. CASE y # x BY <2>2
  <2> QED BY <2>1, <2>2
<1> HIDE DEF g
<1>3. g \in [D -> Nat] BY <1>1, <1>2
<1> QED BY <1>3 DEF g

\* Every step of the loop keeps its types, ...
LEMMA LoopTypesStep == LoopTypes /\ [LoopNext]_loopVars => LoopTypes'
<1> SUFFICES ASSUME LoopTypes, [LoopNext]_loopVars PROVE LoopTypes' OBVIOUS
<1> USE DEF LoopTypes, outsideVars, outageVars, countVars
<1>0. Month(tick) - 1 \in Nat /\ Week(tick) \in Nat BY TimeTyped
<1>1. ASSUME SyncResult PROVE since' \in Nat /\ outage' \in Nat /\ marked' \in BOOLEAN
  <2>0. marked' \in BOOLEAN
    <3>1. marked' = FALSE \/ marked' = marked BY <1>1, Zenon DEF SyncResult
    <3> QED BY <3>1
  <2>1. CASE pve
    <3>1. since' = 0 /\ outage' = outage BY <1>1, <2>1 DEF SyncResult
    <3> QED BY <2>0, <3>1
  <2>2. CASE ~pve /\ since = 0
    <3>1. since' = tick /\ outage' = outage + 1 BY <1>1, <2>2 DEF SyncResult
    <3> QED BY <2>0, <3>1
  <2>3. CASE ~pve /\ since # 0 BY <1>1, <2>3 DEF SyncResult
  <2> QED BY <2>1, <2>2, <2>3
<1>2. CASE UNCHANGED loopVars BY <1>2 DEF loopVars
<1>3. CASE TimePasses BY <1>3 DEF TimePasses
<1>4. CASE SomethingToggles BY <1>4 DEF SomethingToggles
<1>5. CASE ManualReport BY <1>5 DEF ManualReport
<1>6. CASE DeleteReport BY <1>6 DEF DeleteReport
<1>7. CASE LoopRestarts BY <1>7 DEF LoopRestarts
<1>8. CASE ManualSync BY <1>1, <1>8 DEF ManualSync
<1>9. CASE LoopSyncs BY <1>1, <1>9 DEF LoopSyncs
<1>10. CASE OverdueLook BY <1>10 DEF OverdueLook
<1>11. CASE OverdueTell
  <2>1. toldOf' = [toldOf EXCEPT ![held] = @ + 1] BY <1>11 DEF OverdueTell
  <2>2. toldOf' \in [Outages -> Nat] BY <2>1, OneMore
  <2> QED BY <2>2, <1>11 DEF OverdueTell
<1>12. CASE OverdueMark
  <2>1. marked' \in BOOLEAN BY <1>12, Zenon DEF OverdueMark
  <2> QED BY <2>1, <1>12 DEF OverdueMark
<1>13. CASE MonthLook BY <1>0, <1>13 DEF MonthLook
<1>14. CASE MonthWrite BY <1>14 DEF MonthWrite
<1>15. CASE MonthWriteFails BY <1>15 DEF MonthWriteFails
<1>16. CASE MonthMail
  <2>1. mailed' \in {mailed, [mailed EXCEPT ![held] = @ + 1]} BY <1>16 DEF MonthMail
  <2>2. mailed' \in [Months -> Nat] BY <2>1
  <2> QED BY <2>2, <1>16 DEF MonthMail
<1>17. CASE WeekLook BY <1>0, <1>17 DEF WeekLook
<1>18. CASE WeekSend BY <1>18 DEF WeekSend
<1>19. CASE WeekNote BY <1>19 DEF WeekNote
<1> QED BY <1>2, <1>3, <1>4, <1>5, <1>6, <1>7, <1>8, <1>9, <1>10, <1>11, <1>12, <1>13, <1>14, <1>15,
           <1>16, <1>17, <1>18, <1>19 DEF LoopNext, LoopStep

\* ... what was told of an outage, ...
LEMMA TellInvStep == LoopTypes /\ TellInv /\ [LoopNext]_loopVars => TellInv'
<1> SUFFICES ASSUME LoopTypes, TellInv, [LoopNext]_loopVars PROVE TellInv' OBVIOUS
<1> USE DEF LoopTypes, TellInv, ToldOwed
\* Steps that leave the outage and its alerts alone.
<1>1. ASSUME UNCHANGED <<outageVars, toldOf>>, slips' \in {slips, slips + 1}, pass # "mark",
             pass' \notin {"tell", "mark"}
      PROVE  TellInv'
  BY <1>1 DEF outageVars
<1>2. ASSUME UNCHANGED <<outageVars, toldOf, pass, held>>, slips' \in {slips, slips + 1}
      PROVE  TellInv'
  BY <1>2 DEF outageVars
\* A sync ends an outage, begins the next one, or finds it going on.
<1>4. CASE LoopRestarts BY <1>4 DEF LoopRestarts, outageVars
<1>5. CASE OverdueLook
  <2>1. CASE IsOverdue /\ ~marked BY <1>5, <2>1 DEF OverdueLook, IsOverdue, outageVars, countVars
  <2>2. CASE ~(IsOverdue /\ ~marked) BY <1>1, <1>5, <2>2 DEF OverdueLook, countVars
  <2> QED BY <2>1, <2>2
<1>6. CASE OverdueTell BY <1>6 DEF OverdueTell, outageVars
<1>7. CASE OverdueMark
  <2>1. since # 0 => marked' BY <1>7, Zenon DEF OverdueMark
  <2> QED BY <1>7, <2>1 DEF OverdueMark, countVars
<1>8. CASE TimePasses \/ SomethingToggles \/ ManualReport \/ DeleteReport \/ UNCHANGED loopVars
  <2>1. CASE TimePasses BY <1>2, <2>1 DEF TimePasses, countVars
  <2>2. CASE SomethingToggles BY <1>2, <2>2 DEF SomethingToggles, countVars
  <2>3. CASE ManualReport BY <1>2, <2>3 DEF ManualReport, countVars
  <2>4. CASE DeleteReport BY <1>2, <2>4 DEF DeleteReport
  <2>5. CASE UNCHANGED loopVars BY <1>2, <2>5 DEF loopVars
  <2> QED BY <1>8, <2>1, <2>2, <2>3, <2>4, <2>5
\* A sync ends an outage, begins the next one, or finds it going on.
<1>9. CASE ManualSync \/ LoopSyncs
  <2>1. /\ SyncResult /\ UNCHANGED <<toldOf, slips>>
        /\ (pass' = pass /\ held' = held) \/ (pass = "rest" /\ pass' = "overdue")
    <3>1. CASE ManualSync BY <3>1 DEF ManualSync, countVars
    <3>2. CASE LoopSyncs BY <3>2 DEF LoopSyncs, countVars
    <3> QED BY <1>9, <3>1, <3>2
  <2>2. CASE pve BY <2>1, <2>2 DEF SyncResult
  <2>3. CASE ~pve /\ since = 0
    <3>1. \A o \in Outages : o \in Nat BY LoopAssumption DEF Outages
    <3> QED BY <2>1, <2>3, <3>1 DEF SyncResult
  <2>4. CASE ~pve /\ since # 0 BY <2>1, <2>4 DEF SyncResult, outageVars
  <2> QED BY <2>2, <2>3, <2>4
<1>10. CASE MonthLook BY <1>1, <1>10 DEF MonthLook, countVars
<1>11. CASE MonthWrite \/ MonthWriteFails \/ MonthMail
  BY <1>1, <1>11 DEF MonthWrite, MonthWriteFails, MonthMail, countVars
<1>12. CASE WeekLook BY <1>1, <1>12 DEF WeekLook, countVars
<1>13. CASE WeekSend \/ WeekNote BY <1>1, <1>13 DEF WeekSend, WeekNote, countVars
<1> QED BY <1>4, <1>5, <1>6, <1>7, <1>8, <1>9, <1>10, <1>11, <1>12, <1>13 DEF LoopNext, LoopStep

\* ... what was mailed for a month, ...
LEMMA MailInvStep == LoopTypes /\ MailInv /\ [LoopNext]_loopVars => MailInv'
<1> SUFFICES ASSUME LoopTypes, MailInv, [LoopNext]_loopVars PROVE MailInv' OBVIOUS
<1> USE DEF LoopTypes, MailInv, ReportOwed, MailOwed
<1>0. Month(tick) \in Nat /\ Month(tick) <= Month(tick + 1) BY TimeTyped
<1>1. ASSUME UNCHANGED <<archive, mailed>>, slips' \in {slips, slips + 1}, pass' \notin {"write", "mail"}
      PROVE  MailInv'
  BY <1>1
<1>2. ASSUME UNCHANGED <<tick, archive, mailed, pass, held, slips>> PROVE MailInv'
  BY <1>2 DEF Month
<1>3. CASE TimePasses
  <2>1. Month(tick)' = Month(tick + 1) BY <1>3 DEF TimePasses, Month
  <2>2. Month(tick + 1) \in Nat BY TimeTyped, <1>3 DEF TimePasses
  <2> QED BY <1>0, <1>3, <2>1, <2>2 DEF TimePasses, countVars
<1>4. CASE ManualReport
  <2>1. Month(tick)' = Month(tick) BY <1>4 DEF ManualReport, outsideVars, Month
  <2> QED BY <1>0, <1>4, <2>1 DEF ManualReport, countVars
<1>5. CASE DeleteReport
  <2>1. Month(tick)' = Month(tick) BY <1>5 DEF DeleteReport, Month
  <2> QED BY <1>5, <2>1 DEF DeleteReport
<1>6. CASE MonthLook
  <2>1. CASE \E r \in archive : r.month = Month(tick) - 1
    BY <1>1, <1>6, <2>1 DEF MonthLook, countVars
  <2>2. CASE ~\E r \in archive : r.month = Month(tick) - 1
    <3>1. Month(tick)' = Month(tick) BY <1>6 DEF MonthLook, outsideVars, Month
    <3> QED BY <1>0, <1>6, <2>2, <3>1 DEF MonthLook, countVars
  <2> QED BY <2>1, <2>2
<1>7. CASE MonthWrite
  <2>1. /\ pass = "write" /\ pass' = "mail" /\ UNCHANGED <<held, mailed, slips>>
        /\ archive' = archive \cup {[month |-> held, mode |-> "auto"]}
    BY <1>7 DEF MonthWrite
  <2>2. ReportOwed(held) = 1 BY <2>1
  <2>3. ASSUME NEW m \in Months PROVE ReportOwed(m)' <= ReportOwed(m) BY <2>1
  <2>4. ReportOwed(held)' = 0
    <3>1. [month |-> held, mode |-> "auto"] \in archive' BY <2>1
    <3> QED BY <2>1, <3>1
  <2>5. \A m \in Months : ReportOwed(m) \in {0, 1} /\ ReportOwed(m)' \in {0, 1} OBVIOUS
  <2> HIDE DEF ReportOwed
  <2> QED BY <2>1, <2>2, <2>3, <2>4, <2>5
<1>8. CASE MonthMail
  <2>1. CASE email /\ mailing BY <1>8, <2>1 DEF MonthMail
  <2>2. CASE ~(email /\ mailing) BY <1>8, <2>2 DEF MonthMail
  <2> QED BY <2>1, <2>2
<1>9. CASE SomethingToggles \/ ManualSync \/ UNCHANGED loopVars
  BY <1>2, <1>9 DEF SomethingToggles, ManualSync, loopVars, outsideVars, countVars
<1>10. CASE LoopSyncs \/ LoopRestarts BY <1>1, <1>10 DEF LoopSyncs, LoopRestarts, countVars
<1>11. CASE OverdueLook BY <1>1, <1>11 DEF OverdueLook, countVars
<1>12. CASE OverdueTell \/ OverdueMark BY <1>1, <1>12 DEF OverdueTell, OverdueMark, countVars
<1>13. CASE MonthWriteFails BY <1>1, <1>13 DEF MonthWriteFails, countVars
<1>14. CASE WeekLook BY <1>1, <1>14 DEF WeekLook, countVars
<1>15. CASE WeekSend \/ WeekNote BY <1>1, <1>15 DEF WeekSend, WeekNote, countVars
<1> QED BY <1>3, <1>4, <1>5, <1>6, <1>7, <1>8, <1>9, <1>10, <1>11, <1>12, <1>13, <1>14, <1>15
     DEF LoopNext, LoopStep

\* ... and for a week.
LEMMA WeekInvStep == LoopTypes /\ WeekInv /\ [LoopNext]_loopVars => WeekInv'
<1> SUFFICES ASSUME LoopTypes, WeekInv, [LoopNext]_loopVars PROVE WeekInv' OBVIOUS
<1> USE DEF LoopTypes, WeekInv, WeekOwed
<1>0. Week(tick) \in Nat /\ Week(tick + 1) \in Nat /\ Week(tick) <= Week(tick + 1) BY TimeTyped
<1>a. Weeks \subseteq Nat BY DEF Weeks
<1>1. ASSUME UNCHANGED <<tick, lastWeek, sentIn>>, slips' = slips, pass \notin {"send", "note"},
             pass' \notin {"send", "note"}
      PROVE  WeekInv'
  BY <1>1, <1>a DEF Week
<1>2. ASSUME UNCHANGED <<tick, lastWeek, sentIn, pass, held>>, slips' \in {slips, slips + 1} PROVE WeekInv'
  BY <1>2, <1>a DEF Week
<1>3. CASE TimePasses
  <2>1. Week(tick)' = Week(tick + 1) BY <1>3 DEF TimePasses, Week
  <2> QED BY <1>0, <1>a, <1>3, <2>1 DEF TimePasses, countVars
<1>4. CASE LoopRestarts
  <2>1. Week(tick)' = Week(tick) BY <1>4 DEF LoopRestarts, Week
  <2> QED BY <1>a, <1>4, <2>1 DEF LoopRestarts
<1>5. CASE WeekLook
  <2>1. Week(tick)' = Week(tick) BY <1>5 DEF WeekLook, outsideVars, Week
  <2>2. CASE Due /\ email BY <1>0, <1>a, <1>5, <2>1, <2>2 DEF WeekLook, Due, countVars
  <2>3. CASE ~(Due /\ email) BY <1>0, <1>a, <1>5, <2>1, <2>3 DEF WeekLook, countVars
  <2> QED BY <2>2, <2>3
<1>6. CASE WeekSend
  <2>1. Week(tick)' = Week(tick) BY <1>6 DEF WeekSend, outsideVars, Week
  <2>2. CASE email /\ mailing BY <1>a, <1>6, <2>1, <2>2 DEF WeekSend
  <2>3. CASE ~(email /\ mailing) BY <1>a, <1>6, <2>1, <2>3 DEF WeekSend
  <2> QED BY <2>2, <2>3
<1>7. CASE WeekNote
  <2>1. Week(tick)' = Week(tick) BY <1>7 DEF WeekNote, outsideVars, Week
  <2> QED BY <1>a, <1>7, <2>1 DEF WeekNote, countVars
<1>8. CASE SomethingToggles \/ ManualReport \/ DeleteReport \/ ManualSync \/ UNCHANGED loopVars
  BY <1>2, <1>8 DEF SomethingToggles, ManualReport, DeleteReport, ManualSync, loopVars, outsideVars, countVars
<1>9. CASE LoopSyncs BY <1>1, <1>9 DEF LoopSyncs, outsideVars, countVars
<1>10. CASE OverdueLook BY <1>1, <1>10 DEF OverdueLook, outsideVars, countVars
<1>11. CASE OverdueTell \/ OverdueMark BY <1>1, <1>11 DEF OverdueTell, OverdueMark, outsideVars, countVars
<1>12. CASE MonthLook BY <1>1, <1>12 DEF MonthLook, outsideVars, countVars
<1>13. CASE MonthWrite \/ MonthWriteFails \/ MonthMail
  BY <1>1, <1>13 DEF MonthWrite, MonthWriteFails, MonthMail, outsideVars, countVars
<1> QED BY <1>3, <1>4, <1>5, <1>6, <1>7, <1>8, <1>9, <1>10, <1>11, <1>12, <1>13 DEF LoopNext, LoopStep

\* The invariant holds in every reachable state.
LEMMA LoopInvHolds == LoopSpec => []LoopInv
<1>1. LoopInit => LoopInv
  <2> SUFFICES ASSUME LoopInit PROVE LoopInv OBVIOUS
  <2>1. LoopTypes BY LoopAssumption DEF LoopInit, LoopTypes
  <2>2. TellInv BY DEF LoopInit, TellInv, ToldOwed
  <2>3. MailInv BY DEF LoopInit, MailInv, ReportOwed, MailOwed
  <2>4. Week(1) \in Nat \ {0} BY LoopAssumption, DivGrows DEF Week
  <2>5. WeekInv BY <2>4 DEF LoopInit, WeekInv, WeekOwed, Weeks
  <2> QED BY <2>1, <2>2, <2>3, <2>5 DEF LoopInv
<1>2. LoopInv /\ [LoopNext]_loopVars => LoopInv'
  BY LoopTypesStep, TellInvStep, MailInvStep, WeekInvStep DEF LoopInv
<1> QED BY <1>1, <1>2, PTL DEF LoopSpec

\* SentOnce (web/sync.py, auto_sync_loop), for weeks and months of any length and any number
\* of faults: an alert, a monthly and a weekly report is sent once, and once more at most for
\* each restart of the loop and each report deleted by hand.
THEOREM LoopSendsOnce == LoopSpec => []SentOnce
<1>1. LoopInv => SentOnce
  <2> SUFFICES ASSUME LoopInv PROVE SentOnce OBVIOUS
  <2>1. \A o \in DOMAIN toldOf : toldOf[o] <= 1 + slips
    BY DEF LoopInv, LoopTypes, TellInv, ToldOwed
  <2>2. \A m \in Months : mailed[m] <= 1 + slips
    BY DEF LoopInv, LoopTypes, MailInv, ReportOwed, MailOwed
  <2>3. \A w \in Weeks : sentIn[w] <= 1 + slips
    BY DEF LoopInv, LoopTypes, WeekInv, WeekOwed
  <2> QED BY <2>1, <2>2, <2>3 DEF SentOnce
<1> QED BY <1>1, LoopInvHolds, PTL
=============================================================================
