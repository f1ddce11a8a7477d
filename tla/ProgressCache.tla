--------------------------- MODULE ProgressCache ---------------------------
(***************************************************************************)
(* Who asks PVE for the running backups of a cluster, and who is answered  *)
(* from memory (services/proxmox_progress.py, "Cached access").  Pages     *)
(* peek: they take what is there and have it refreshed behind them; the    *)
(* status endpoint and the sync wait for data at most MaxAge old.  Askers *)
(* that find it stale at the same time share one fetch.  Fetches run on    *)
(* one thread pool and ask the nodes on another.                           *)
(***************************************************************************)
EXTENDS Naturals, FiniteSets

CONSTANTS Watched, Askers, FetchThreads, NodeThreads, MaxAge, PeekAge, MaxSeconds
ASSUME CacheAssumption ==
  /\ FetchThreads \in Nat \ {0} /\ NodeThreads \in Nat \ {0}
  /\ MaxAge \in Nat \ {0} /\ PeekAge \in Nat /\ PeekAge >= MaxAge /\ MaxSeconds \in Nat

Never == MaxSeconds + 1
NoCaller == [on |-> "nothing", at |-> 0]

VARIABLES
  seconds,
  cached,   \* _cache: when each cluster's result was stored (Never: no entry)
  inflight, \* _inflight: the clusters with a registered fetch
  fetch,    \* the fetch itself: none, queued, running, asking, over, raised
  caller,   \* whom each caller waits for, and since when
  served    \* history: the age of what the last waiting caller was given

cacheVars == <<seconds, cached, inflight, fetch, caller, served>>

CacheInit ==
  /\ seconds = 0 /\ cached = [c \in Watched |-> Never] /\ inflight = {}
  /\ fetch = [c \in Watched |-> "none"] /\ caller = [w \in Askers |-> NoCaller] /\ served = 0

Age(c) == IF cached[c] = Never THEN Never ELSE seconds - cached[c]

\* _refresh_future, under the lock: the running fetch is joined, or one is
\* submitted and registered before anyone else can look.
Refreshed(c) ==
  IF c \in inflight THEN UNCHANGED <<inflight, fetch>>
  ELSE /\ inflight' = inflight \cup {c}
       /\ fetch' = [fetch EXCEPT ![c] = "queued"]

Recent(c) == Age(c) < MaxAge

\* running_backup_progress_cached: recent data at once, or wait for a fetch.
AskCached(w, c) ==
  /\ caller[w] = NoCaller
  /\ IF Recent(c) THEN served' = Age(c) /\ UNCHANGED <<inflight, fetch, caller>>
     ELSE /\ Refreshed(c) /\ caller' = [caller EXCEPT ![w] = [on |-> c, at |-> seconds]]
          /\ served' = served
  /\ UNCHANGED <<seconds, cached>>

\* running_backup_progress_peek: never waits; stale data are refreshed behind it.
Peek(c) ==
  /\ Age(c) >= MaxAge /\ Refreshed(c)
  /\ UNCHANGED <<seconds, cached, caller, served>>

Busy(states) == Cardinality({c \in Watched : fetch[c] \in states})

\* A thread of the fetch pool takes up a fetch.
FetchStarts(c) ==
  /\ fetch[c] = "queued" /\ Busy({"running", "asking", "over", "raised"}) < FetchThreads
  /\ fetch' = [fetch EXCEPT ![c] = "running"]
  /\ UNCHANGED <<seconds, cached, inflight, caller, served>>

\* Mutant of NodeThreadFree: the nodes are asked on the fetches' own pool.
NodeThreadFreeShared == Busy({"running", "asking", "over", "raised"}) < FetchThreads

NodeThreadFree == Busy({"asking"}) < NodeThreads

\* The nodes and tasks are asked on the other pool.
NodesAsked(c) ==
  /\ fetch[c] = "running" /\ NodeThreadFree
  /\ fetch' = [fetch EXCEPT ![c] = "asking"]
  /\ UNCHANGED <<seconds, cached, inflight, caller, served>>

\* They have answered, or not (then the result is marked incomplete): stored.
FetchStores(c) ==
  /\ fetch[c] = "asking"
  /\ fetch' = [fetch EXCEPT ![c] = "over"] /\ cached' = [cached EXCEPT ![c] = seconds]
  /\ UNCHANGED <<seconds, inflight, caller, served>>

\* Something unforeseen is raised: nothing is stored, the waiting callers get it.
FetchRaises(c) ==
  /\ fetch[c] = "asking"
  /\ fetch' = [fetch EXCEPT ![c] = "raised"]
  /\ UNCHANGED <<seconds, cached, inflight, caller, served>>

\* The finally clause; then the future is done and all who wait for it go on.
FetchEnds(c) ==
  /\ fetch[c] \in {"over", "raised"}
  /\ inflight' = inflight \ {c} /\ fetch' = [fetch EXCEPT ![c] = "none"]
  /\ LET waiting == {w \in Askers : caller[w].on = c}
     IN /\ caller' = [w \in Askers |-> IF w \in waiting THEN NoCaller ELSE caller[w]]
        /\ served' = IF waiting = {} \/ fetch[c] = "raised" THEN served
                     ELSE LET w == CHOOSE w \in waiting : \A v \in waiting : caller[v].at >= caller[w].at
                          IN IF cached[c] >= caller[w].at THEN 0 ELSE caller[w].at - cached[c]
  /\ UNCHANGED <<seconds, cached>>

\* Between storing and the finally clause no time passes that counts.
Second ==
  /\ \A c \in Watched : fetch[c] # "over"
  /\ seconds < MaxSeconds /\ seconds' = seconds + 1
  /\ UNCHANGED <<cached, inflight, fetch, caller, served>>

CacheNext ==
  \/ \E w \in Askers, c \in Watched : AskCached(w, c)
  \/ \E c \in Watched : \/ Peek(c) \/ FetchStarts(c) \/ NodesAsked(c)
                        \/ FetchStores(c) \/ FetchRaises(c) \/ FetchEnds(c)
  \/ Second

\* Both pools serve their queues in order, so that whoever waits has his turn;
\* a node answers or its time is over.
CacheFairness ==
  \A c \in Watched : /\ SF_cacheVars(FetchStarts(c)) /\ SF_cacheVars(NodesAsked(c))
                     /\ WF_cacheVars(FetchStores(c) \/ FetchRaises(c)) /\ WF_cacheVars(FetchEnds(c))
CacheSpec == CacheInit /\ [][CacheNext]_cacheVars /\ CacheFairness

-----------------------------------------------------------------------------

\* A fetch that has begun stays the only one of its cluster until it is over:
\* two at once would read one task's log into one state.
FetchNotRestarted ==
  [][\A c \in Watched : fetch[c] \in {"running", "asking", "over", "raised"} => fetch'[c] # "queued"]_cacheVars

\* A caller that waits is answered, whether the fetch succeeds or not and
\* however many clusters are fetched at once.
CallersAnswered == \A w \in Askers : caller[w] # NoCaller ~> caller[w] = NoCaller

\* What a waiting caller is given was stored at most MaxAge before it asked.
ServedRecent == served < MaxAge

\* Everyone who waits for the progress of backups is given it, fresh enough, and
\* by one fetch for all.
CallersServed == CallersAnswered /\ FetchNotRestarted /\ []ServedRecent
=============================================================================
