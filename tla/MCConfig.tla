------------------------------ MODULE MCConfig ------------------------------
(***************************************************************************)
(* Instances of DcsSync: two or three nodes, one or two domains, two       *)
(* VNIDs, and for each scenario a script of the console and the troubles   *)
(* that may befall it.                                                     *)
(***************************************************************************)
EXTENDS DcsSync

CONSTANTS n1, n2, n3, d1, d2, v1, v2, g1, sn1

MCObj(k, d, v, w) == [k |-> k, d |-> d, v |-> v, w |-> w, sn |-> sn1]
dom1 == MCObj("domain", d1, v1, v1)
net1 == MCObj("network", d1, v1, v1)
net2 == MCObj("network", d1, v2, v2)
pol12 == MCObj("policy", d1, v1, v2)
sub1 == MCObj("subnet", d1, v1, v1)
other == MCObj("untracked", d1, v1, v1)
MCObject == {dom1, net1, net2, pol12, sub1, other}

Put(o) == [o |-> o, tomb |-> FALSE, act |-> Allow]
Deny(o) == [o |-> o, tomb |-> FALSE, act |-> Drop]
Del(o) == [o |-> o, tomb |-> TRUE, act |-> Allow]

Typed(c, d, v, w) == [c |-> c, d |-> d, v |-> v, w |-> w, tt |-> 0, act |-> Drop,
                      g |-> g1, sn |-> sn1, add |-> TRUE]

MCScenario(script, old, up, hosts, may, most, cli) ==
    [script |-> script, old |-> old, up |-> up, hosts |-> hosts, may |-> may, most |-> most,
     cli |-> cli]

Networked == <<Put(dom1), Put(net1), Put(net2)>>
MCScenarios == {
    \* Requests get lost between the nodes, objects cannot be got.
    MCScenario(Networked \o <<Deny(pol12)>>, 3, {n1, n2}, 1, {"lost", "getfail"}, 2, {}),
    \* Three nodes: a request may have reached one of them.
    MCScenario(<<Put(dom1), Put(net1), Put(sub1)>>, 3, {n1, n2, n3}, 2, {"lost"}, 1, {}),
    \* Changes of the same object, blank ones, two at the same time.
    MCScenario(<<Put(dom1), Put(net1), Put(other), Put(net2), Put(pol12), Del(net1)>>, 4,
               {n1, n2}, 2, {"collide", "leader"}, 1, {}),
    MCScenario(<<Put(dom1), Put(net1), Put(other), Del(net1), Del(dom1)>>, 3,
               {n1, n2}, 1, {"leader", "lost"}, 1, {}),
    \* An object changes again between its version and the object being got.
    MCScenario(<<Put(dom1), Put(net1), Put(other), Put(net2), Put(net1)>>, 4,
               {n1, n2}, 1, {}, 0, {}),
    \* A node loses the role, a client asks for a VNID, a domain moves.
    MCScenario(Networked \o <<Deny(pol12), Put(sub1)>>, 5, {n1, n2}, 1, {"role", "move"}, 1, {}),
    MCScenario(Networked \o <<Deny(pol12), Del(net1)>>, 4, {n1, n2}, 1, {"ask"}, 1, {}),
    MCScenario(<<Put(dom1), Put(net1), Put(sub1)>>, 3, {n1, n2}, 1, {"ask", "rereg"}, 2, {}),
    \* Commands at the nodes.
    MCScenario(<<Put(dom1), Put(net1), Put(sub1)>>, 3, {n1, n2}, 1, {"cli", "lost"}, 2,
               {Typed("dvg_add", d2, v1, v1), Typed("dvg_add", d1, v2, v2),
                Typed("dvg_delete", d1, v1, v1), Typed("domain_add", d2, v1, v1),
                Typed("domain_delete", d1, v1, v1), Typed("ip_subnet_flush", d1, v1, v1),
                Typed("policy_add", d1, v1, v2), Typed("gateway_update", d1, v1, v1)}),
    MCScenario(<<Put(dom1), Put(net1), Put(sub1)>>, 3, {n1}, 1, {"cli"}, 3,
               {Typed("gateway_update", d1, v1, v1), Typed("gateway_clear", d1, v1, v1),
                Typed("policy_delete", d1, v1, v1), Typed("domains_clear", d1, v1, v1),
                Typed("domain_deactivate", d1, v1, v1), Typed("ip_subnet_add", d1, v1, v1),
                Typed("ip_subnet_delete", d1, v1, v1)}) }
=============================================================================
