------------------------------ MODULE ProbeLoop ------------------------------
(* The verification of a booted guest: _probe_loop looks for the addresses the *)
(* guest agent reports, remembers them, and asks the helper container again    *)
(* and again until a pass is green or the window is over.  The helper takes an *)
(* address beside each target, pins a route to the target and probes only what *)
(* the kernel would send over the isolated leg.  The guest boots, moves its  *)
(* mind and dies while this goes on.                                           *)
EXTENDS Integers, Sequences

CONSTANTS
    Hosts,        \* host addresses of the guest's subnet, 1 .. Hosts
    Ports,        \* TCP ports the run requires
    MaxPasses,    \* passes that begin within the window
    MaxGuestChanges    \* bound on the guest's moves

ASSUME ProbeAssumption ==
    /\ Hosts \in Nat \ {0, 1} /\ MaxPasses \in Nat \ {0} /\ MaxGuestChanges \in Nat
    /\ Ports \cap {"icmp", "arp"} = {}

Addresses == 1 .. Hosts
Dhcp == 0            \* the one address dnsmasq hands out, in the fallback range
Services == Ports \cup {"icmp"}

VARIABLES
    guest,        \* [ips, open]: addresses of its real NICs, services that answer
    dead,         \* it does not run: no service, no ARP
    moves,
    override,     \* address the operator set, or 0
    legs,         \* addresses of the helper's sandbox leg
    stage,           \* where the worker and the helper are
    passes,
    discovered,   \* addresses the agent reported last
    todo, pending,\* targets of this pass still to set up, and to be probed
    checks,       \* address -> what answered in this pass
    verdict,      \* result
    stopping,     \* cancel_requested
    said,         \* the agent reported what the guest has now
    steady,       \* the guest did not change since the pass began
    selfProbed    \* the helper probed an address of its own

probeVars == <<guest, dead, moves, override, legs, stage, passes, discovered, todo, pending,
               checks, verdict, stopping, said, steady, selfProbed>>
guestVars == <<guest, dead, moves, override>>
ghostVars == <<said, steady, selfProbed>>

Reach == Addresses \cup {Dhcp}

\* sandbox_host_ip, _ensure_reachable: the lowest host of the target's subnet that
\* is not the target; the fallback range has no target of its own.
Beside(ip) == IF ip = Dhcp THEN -1 ELSE IF ip = 1 THEN 2 ELSE 1

ProbeInit ==
    /\ guest \in [ips : (SUBSET Addresses) \ {{}}, open : {Services, {"icmp"}}]
    /\ dead = TRUE /\ moves = 0
    /\ override \in {Dhcp} \cup Addresses
    /\ legs = {IF override = Dhcp THEN -2 ELSE Beside(override)}
    /\ stage = "pass" /\ passes = 0 /\ discovered = <<>> /\ todo = <<>> /\ pending = {}
    /\ checks = <<>> /\ verdict = "none" /\ stopping = FALSE
    /\ said = FALSE /\ steady = FALSE /\ selfProbed = FALSE

\* The guest boots or stops, or starts or loses a service or an address.
GuestChanges ==
    /\ stage # "over" /\ moves < MaxGuestChanges /\ moves' = moves + 1
    /\ \/ dead' = ~dead /\ UNCHANGED guest
       \/ /\ \E s \in Services : guest' = [guest EXCEPT !.open = IF s \in @ THEN @ \ {s} ELSE @ \cup {s}]
          /\ UNCHANGED dead
       \/ /\ \E i \in (SUBSET Addresses) \ {{}} : i # guest.ips /\ guest' = [guest EXCEPT !.ips = i]
          /\ UNCHANGED dead
    /\ steady' = FALSE /\ said' = (said /\ guest'.ips = guest.ips)
    /\ UNCHANGED <<override, legs, stage, passes, discovered, todo, pending, checks, verdict,
                   stopping, selfProbed>>

-----------------------------------------------------------------------------
(* One pass of the worker.                                                     *)

\* The orders the agent may report a set of addresses in.
Orders(S) == {SubSeq(s, 1, n) : s \in [1 .. Hosts -> S], n \in 1 .. Hosts}
Reports(S) == {s \in Orders(S) : /\ {s[i] : i \in DOMAIN s} = S
                                 /\ \A i, j \in DOMAIN s : i # j => s[i] # s[j]}

Begins(targets) ==
    /\ stage = "pass" /\ ~stopping
    /\ todo' = targets /\ pending' = {} /\ checks' = [ip \in Reach |-> {}]
    /\ stage' = "setup" /\ steady' = TRUE
    /\ passes' = (IF passes < MaxPasses THEN passes + 1 ELSE passes)
    /\ UNCHANGED <<guestVars, legs, verdict, stopping, selfProbed>>

CancelSeen ==
    /\ stage = "pass" /\ stopping
    /\ stage' = "over" /\ verdict' = "cancelled"
    /\ UNCHANGED <<guestVars, legs, passes, discovered, todo, pending, checks, stopping, ghostVars>>

\* The operator's address: the agent is not asked.
BeginOverride == override # Dhcp /\ Begins(<<override>>) /\ UNCHANGED <<discovered, said>>

\* guest_agent_nics: the addresses of the NICs in the VM's config.
BeginReported ==
    /\ override = Dhcp /\ ~dead
    /\ \E s \in Reports(guest.ips) : discovered' = s /\ Begins(s)
    /\ said' = TRUE

\* It does not answer in time: the addresses reported last, or the one of our DHCP.
BeginRemembered ==
    /\ override = Dhcp
    /\ Begins(IF discovered = <<>> THEN <<Dhcp>> ELSE discovered)
    /\ UNCHANGED <<discovered, said>>

-----------------------------------------------------------------------------
(* The helper.                                                                 *)

\* _ensure_reachable, then _route_via_sbx: the helper takes the address beside the
\* target; a target that is an address of the helper itself is local, not routed
\* over the leg, and refused.
SetUpTarget ==
    /\ stage = "setup" /\ todo # <<>>
    /\ legs' = legs \cup {Beside(Head(todo))}
    /\ pending' = (IF Head(todo) \in legs' THEN pending ELSE pending \cup {Head(todo)})
    /\ todo' = Tail(todo)
    /\ UNCHANGED <<guestVars, stage, passes, discovered, checks, verdict, stopping, ghostVars>>

\* Who answers at an address: the helper, if it is its own by now, or the guest.
Answers(ip) ==
    IF ip \in legs THEN {"icmp"}
    ELSE IF ip \in guest.ips /\ ~dead THEN guest.open \cup {"arp"} ELSE {}

\* Phase 2: all probes at once, and the answer reaches the app.
ProbeTargets ==
    /\ stage = "setup" /\ todo = <<>>
    /\ checks' = [ip \in Reach |-> IF ip \in pending THEN Answers(ip) ELSE {}]
    /\ selfProbed' = (selfProbed \/ pending \cap legs # {})
    /\ stage' = "judge"
    /\ UNCHANGED <<guestVars, legs, passes, discovered, todo, pending, verdict, stopping, said, steady>>

\* The request fails or takes too long: the next pass, or the error after the last.
PassFails ==
    /\ stage = "setup"
    /\ IF passes < MaxPasses THEN stage' = "pass" /\ verdict' = "limited"
                             ELSE stage' = "over" /\ verdict' = "error"
    /\ UNCHANGED <<guestVars, legs, passes, discovered, todo, pending, checks, stopping, ghostVars>>

-----------------------------------------------------------------------------
(* The verdict.                                                                *)

Alive(c) == \E ip \in Reach : c[ip] \cap {"icmp", "arp"} # {}
OpenPorts(c) == {p \in Ports : \E ip \in Reach : p \in c[ip]}

\* Mutant: one open port is enough.
ClassifyAny(c) ==
    IF Alive(c) /\ (Ports = {} \/ OpenPorts(c) # {}) THEN "passed"
    ELSE IF Alive(c) \/ OpenPorts(c) # {} THEN "limited" ELSE "failed"

\* A check is green if any of the addresses passed it.
classify_multi(c) ==
    IF Alive(c) /\ OpenPorts(c) = Ports THEN "passed"
    ELSE IF Alive(c) \/ OpenPorts(c) # {} THEN "limited" ELSE "failed"

\* Green ends the loop, and so does the window.
Judge ==
    /\ stage = "judge"
    /\ verdict' = classify_multi(checks)
    /\ stage' = (IF verdict' = "passed" \/ passes = MaxPasses THEN "over" ELSE "pass")
    /\ UNCHANGED <<guestVars, legs, passes, discovered, todo, pending, checks, stopping, ghostVars>>

AskCancel ==
    /\ ~stopping /\ stage # "over" /\ stopping' = TRUE
    /\ UNCHANGED <<guestVars, legs, stage, passes, discovered, todo, pending, checks, verdict, ghostVars>>

ProbeStep ==
    \/ BeginOverride \/ BeginReported \/ BeginRemembered \/ CancelSeen
    \/ SetUpTarget \/ ProbeTargets \/ PassFails \/ Judge

ProbeNext == ProbeStep \/ GuestChanges \/ AskCancel
ProbeSpec == ProbeInit /\ [][ProbeNext]_probeVars
ProbeFairSpec == ProbeSpec /\ WF_probeVars(ProbeStep)

-----------------------------------------------------------------------------
(* Properties.                                                                 *)

\* A run that passed was answered by the guest: at some address of its own it was
\* alive, and every port was open, in one pass - unless the helper had taken one of
\* the guest's addresses (_ensure_reachable, classify_multi).
PassedAnswers ==
    [][stage' = "over" /\ verdict' = "passed" /\ steady /\ ~selfProbed =>
         ~dead /\ Ports \subseteq guest.open /\ guest.ips \cap pending # {}]_probeVars

\* A guest the agent once described passes in the first whole pass in which it
\* answers everything, although the agent is silent by then (_probe_loop,
\* discovered).
UpGuestPasses ==
    [][stage = "judge" /\ stage' # "judge" /\ steady /\ said /\ ~dead /\ guest.open = Services
         /\ legs \cap guest.ips = {} => verdict' = "passed"]_probeVars

\* A pass that fails before the last leaves the run its other passes: the run ends
\* as an error only with the window (_probe_loop: "only a failure on the last pass
\* before the window closes is raised").
ErrorAtTheEnd == verdict = "error" => passes = MaxPasses

\* The loop ends, whatever the guest, the agent and the helper do.
ProbeEnds == stage = "setup" ~> stage = "over"

\* The probe comes to a verdict, and the verdict is true: passed exactly if the
\* guest answered, an error only when the window is over.
VerdictTrue == PassedAnswers /\ UpGuestPasses /\ []ErrorAtTheEnd /\ ProbeEnds
=============================================================================
