----------------------------- MODULE Exchanges -----------------------------
(***************************************************************************)
(* What is exchanged with other servers: calls of an API (ApiCalls), the   *)
(* live progress of backups, its cache (ProgressCache) and its reader of   *)
(* task logs (TaskLogReader), and the messages for Gotify (Notifications). *)
(* A behaviour is one of one part, chosen at the start; the others rest.   *)
(***************************************************************************)
EXTENDS ApiCalls, ProgressCache, TaskLogReader, Notifications

VARIABLE part

\* What a part may begin with is chosen only where it is the one that runs.
ExchangeInit ==
  /\ part \in {"calls", "cache", "log", "alerts"}
  /\ counted \in (IF part = "log" THEN BOOLEAN ELSE {FALSE})
  /\ quiet \in (IF part = "alerts" THEN BOOLEAN ELSE {FALSE})
  /\ ApiInit /\ CacheInit /\ LogInit /\ Init

CallsPart == part = "calls" /\ ApiNext /\ UNCHANGED <<part, cacheVars, logVars, vars>>
CachePart == part = "cache" /\ CacheNext /\ UNCHANGED <<part, apiVars, logVars, vars>>
LogPart == part = "log" /\ LogNext /\ UNCHANGED <<part, apiVars, cacheVars, vars>>
AlertPart == part = "alerts" /\ Next /\ UNCHANGED <<part, apiVars, cacheVars, logVars>>

ExchangeNext == CallsPart \/ CachePart \/ LogPart \/ AlertPart

\* The fairness of the modules: what it asks of a part that rests is not enabled.
ExchangeSpec == ExchangeInit /\ [][ExchangeNext]_<<part, apiVars, cacheVars, logVars, vars>>
                /\ CacheFairness /\ Fairness
=============================================================================
