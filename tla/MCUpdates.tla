------------------------------ MODULE MCUpdates ------------------------------
(***************************************************************************)
(* An instance of DcsUpdates for TLC: every kind of message to one client, *)
(* with two changes and two troubles anywhere; the broadcast table and the *)
(* gateways, where the clients interact, also to two clients.              *)
(***************************************************************************)
EXTENDS DcsUpdates

CONSTANTS c, d

Scenario(kinds, clients, vers, troubles) ==
    [kind : kinds, clients : {clients}, ver : vers, troubles : {troubles}]

MCScenarios ==
    Scenario(Kinds \ {"resolve"}, {c}, {0}, 2)
        \cup Scenario({"resolve"}, {c}, {1}, 2)
        \cup Scenario({"bcast", "gateways"}, {c, d}, {1}, 1)
=============================================================================
