--------------------------- MODULE RequestOutcome ---------------------------
(***************************************************************************)
(* What the retransmission timer promises its users: the context that was  *)
(* handed over with a packet comes back exactly once, either to the thread *)
(* that received the answer or to the callback that reports the failure.   *)
(***************************************************************************)
CONSTANT Pkt

VARIABLE outcome

Init == outcome = [p \in Pkt |-> "none"]

Move(p, from, to) ==
    /\ outcome[p] = from
    /\ outcome' = [outcome EXCEPT ![p] = to]

Start(p) == Move(p, "none", "waiting")

Answer(p) == Move(p, "waiting", "answered")

GiveUp(p) == Move(p, "waiting", "gaveup")

Next == \E p \in Pkt : Start(p) \/ Answer(p) \/ GiveUp(p)

Spec == Init /\ [][Next]_outcome
=============================================================================
