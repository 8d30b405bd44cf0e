--------------------------- MODULE MCReplication ----------------------------
(* Small instances of DcsReplication for TLC. *)
EXTENDS DcsReplication

CONSTANTS n1, n2, n3

V(known, cluster, hosted, forward) ==
  [known |-> known, cluster |-> cluster, hosted |-> hosted, forward |-> forward]

(* A domain hosted here and on a peer, on peers only, while forwarding to a   *)
(* node that received it, with every host down, and unknown.                  *)
PairViews == {V(TRUE, {n1, n2}, TRUE, {}), V(TRUE, {n2}, FALSE, {}),
              V(TRUE, {n1}, TRUE, {n2}), V(TRUE, {}, TRUE, {}),
              V(FALSE, {}, FALSE, {})}

(* The same, replicated three ways. *)
TripleViews == {V(TRUE, {n1, n2, n3}, TRUE, {}), V(TRUE, {n1, n2}, TRUE, {n3})}
=============================================================================
