---------------------------- MODULE MCRequests -----------------------------
(* Small instances of DcsRequests for TLC. *)
EXTENDS DcsRequests

CONSTANTS host1, host2, c, g, r1, r2

T(who) == {<<"tunnel", x>> : x \in who}
Strict == [dedicated |-> TRUE, allow |-> TRUE, big |-> TRUE]
Open == [dedicated |-> FALSE, allow |-> TRUE, big |-> FALSE]

Pair(reg, s, first, second) ==
    [serving |-> {host1, host2}, troubles |-> 1, reg |-> reg, site |-> s,
     ops |-> [r \in {r1, r2} |-> IF r = r1 THEN first ELSE second]]

(* A registration of the switch with a request of the gateway.  The        *)
(* machine is at the gateway, or nothing is registered, or the gateway is  *)
(* a receiver of the global scope; the default server host1 serves the     *)
(* domain, or knows nothing of it.                                         *)
MCScenarios ==
    LET held == T({c, g}) \cup {<<"endpoint", g>>}
        scope == T({c, g}) \cup {<<"join", g>>}
        R(op, who) == <<op, "vm_ip", who>>
    IN  {Pair(held, s, R("endpoint", c), <<op, key, g>>) :
            s \in {Strict, Open}, op \in Lookup, key \in {"vm_ip", "vm_mac"}}
        \cup {Pair(held, Open, R("endpoint", c), R(op2, g)) :
                op2 \in {"endpoint", "unendpoint", "untunnel", "migration"}}
        \cup {Pair({}, s, R("tunnel", g), <<op, key, c>>) :
                s \in {Strict, Open}, op \in Lookup, key \in {"vm_ip", "gw_ip", "gw_mac"}}
        \cup {Pair({}, Open, R("tunnel", g), R(op, g)) :
                op \in List \cup {"endpoint", "sender", "join", "leave"}}
        \cup {Pair(scope, Open, R("untunnel", g), R("scope", c)),
              Pair(scope, Open, R("sender", c), R("unsender", c)),
              Pair(scope, Open, R("join", c), R("leave", g))}
        \cup {[Pair(held, Open, R("endpoint", c), R("locate", g))
                 EXCEPT !.serving = {host2}]}
=============================================================================
