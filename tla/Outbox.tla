------------------------------- MODULE Outbox -------------------------------
(* What the batching of Gotify messages promises: an accepted message waits in *)
(* the queue, leaves it together with everything that waits there, is handed   *)
(* to Gotify once and never goes back.  Only the end of the process loses it.  *)
CONSTANT Messages

VARIABLE place

Move(S, p) == place' = [m \in Messages |-> IF m \in S THEN p ELSE place[m]]

At(p) == {m \in Messages : place[m] = p}

Init == place = [m \in Messages |-> "out"]

Accept(m) == place[m] = "out" /\ Move({m}, "queued")

TakeAll == At("queued") # {} /\ Move(At("queued"), "sending")

\* One request carries a batch: Gotify gets all of it or nothing.
Report(S) ==
    /\ S # {} /\ S \subseteq At("sending")
    /\ Move(S, "told") \/ Move(S, "out")

Crash == Move(At("queued") \cup At("sending"), "out")

Next == TakeAll \/ Crash \/ (\E m \in Messages : Accept(m)) \/ \E S \in SUBSET Messages : Report(S)

Spec == Init /\ [][Next]_place
=============================================================================
