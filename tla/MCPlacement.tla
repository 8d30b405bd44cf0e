---------------------------- MODULE MCPlacement ----------------------------
(* Three nodes, of which a leads; b and c are interchangeable.             *)
EXTENDS DcsPlacement

CONSTANTS a, b, c

\* Of two initial states that differ in the names of b and c, one is enough.
MCInit == PlacementInit /\ (c \in st[a].hosts => b \in st[a].hosts)

MCSpec == MCInit /\ [][PlacementNext]_vars /\ PlacementFairness
=============================================================================
