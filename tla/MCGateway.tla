----------------------------- MODULE MCGateway -----------------------------
(* OdgwGateway on small vocabularies of requests: one or two gateways with
   one network card, addresses in the networks 1 and 2, VNIDs 1 to 3, VLANs
   5 and 6. *)
EXTENDS OdgwGateway

CONSTANTS east, west

MCGateways == {east, west}
MCMacs == <<"mac1">>

Idle == [k \in {} |-> {}]
Alone(ask) == [n \in MCGateways |-> IF n = east THEN ask ELSE Idle]

Rule(ip, dom, port) == [ip |-> ip, dom |-> dom, port |-> port, real |-> 1, pip |-> 1]
Pool(ip, dom, mc) == [ip |-> ip, dom |-> dom, ports |-> "pool", tenant |-> mc, mc |-> mc]

(* A pool and rules on the addresses of one network. *)
Publishing ==
    [ask |-> Alone([dpses |-> {1},
                    service_ipv4s |-> {<<11, 19, 0, "dovetunnel">>},
                    service_ipv4 |-> {11},
                    svc_ext_vips |-> {<<Pool(15, 1, 0), 15, 0>>},
                    svc_ext_vip |-> {<<15, 15, 0>>},
                    service_rules |-> {Rule(15, 2, 1), Rule(17, 1, 1), Rule(17, 1, 2)},
                    service_rule |-> {Rule(15, 2, 1), Rule(17, 1, 1), Rule(17, 1, 2)}]),
     faults |-> {}, trouble |-> 0, boots |-> FALSE, frozen |-> FALSE]

(* Own addresses on a VLAN and off it, maps on the same VLAN, external
   addresses that depend on them. *)
Vlans ==
    [ask |-> Alone([service_ipv4s |-> {<<21, 29, 5, "other">>, <<22, 28, 0, "other">>},
                    service_ipv4 |-> {21, 22},
                    svc_ext_vips |-> {<<Pool(25, 1, 0), 25, 0>>},
                    svc_ext_vip |-> {<<25, 25, 0>>},
                    service_vlanmaps |-> {<<1, 5>>, <<1, 6>>, <<2, 6>>},
                    service_vlanmap |-> {<<1, 5>>, <<2, 6>>}]),
     faults |-> {}, trouble |-> 0, boots |-> FALSE, frozen |-> FALSE]

(* Tunnels of VNIDs that are external, mapped and shared, and the tunnel
   address and the DCS changing under them. *)
Tunnels ==
    [ask |-> Alone([dpses |-> {1}, dcs_info |-> {1, 2}, tick |-> {},
                    service_ipv4s |-> {<<11, 19, 0, "dovetunnel">>},
                    service_ipv4 |-> {11},
                    svc_ext_vips |-> {<<Pool(15, 1, 2), 15, 0>>, <<Pool(0, 2, 2), 0, 0>>},
                    svc_ext_vip |-> {<<15, 15, 0>>, <<0, 0, 2>>},
                    service_vlanmaps |-> {<<1, 5>>, <<3, 6>>},
                    service_vlanmap |-> {<<3, 6>>},
                    service_subnets |-> {<<1, 1, "shared">>}, service_subnet |-> {<<1, 1>>},
                    network |-> {<<1, 2, 0>>, <<2, 2, 1>>}]),
     faults |-> {}, trouble |-> 0, boots |-> FALSE, frozen |-> FALSE]

(* The service and its card go while addresses are there or come. *)
Dismantling ==
    [ask |-> Alone([services |-> {"external"}, service |-> {<<"DELETE", FALSE, 0>>, <<"PUT", TRUE, 0>>},
                    service_nics |-> {"mac1"}, service_nic |-> {"mac1"},
                    service_ipv4s |-> {<<11, 19, 0, "external">>},
                    service_ipv4 |-> {11},
                    service_rules |-> {Rule(17, 1, 1)},
                    service_rule |-> {Rule(17, 1, 1)},
                    service_vlanmaps |-> {<<1, 5>>, <<1, 6>>}]),
     faults |-> {}, trouble |-> 0, boots |-> FALSE, frozen |-> FALSE]

(* Every step of a request may fail once. *)
Failing ==
    [ask |-> Alone([dpses |-> {1}, tick |-> {},
                    service_ipv4s |-> {<<11, 19, 0, "dovetunnel">>},
                    service_ipv4 |-> {11},
                    svc_ext_vips |-> {<<Pool(15, 1, 2), 15, 0>>},
                    svc_ext_vip |-> {<<15, 15, 0>>},
                    service_vlanmaps |-> {<<1, 5>>},
                    service_vlanmap |-> {<<1, 5>>},
                    service_rules |-> {Rule(17, 1, 1)},
                    service_rule |-> {Rule(17, 1, 1)}]),
     faults |-> {"dps_server_add", "dps_protocol_client_send", "check_register_tunnel",
                 "check_dregister_tunnel", "CMD_ADD_EXTVIP", "CMD_DEL_IPV4", "CMD_START",
                 "delete_svc_extipv4", "get_vlan_of_pubalias", "get_fwd_rule_count",
                 "update_svc_table_extipv4", "is_vnid_empty_intenant", "CMD_SET_SVC"},
     trouble |-> 1, boots |-> FALSE, frozen |-> FALSE]

(* A configuration is saved, the gateway restarts, the file is loaded. *)
Saving ==
    [ask |-> Alone([save |-> {}, dpses |-> {1},
                    service_ipv4s |-> {<<11, 19, 0, "dovetunnel">>, <<21, 29, 5, "other">>},
                    svc_ext_vips |-> {<<Pool(15, 1, 2), 15, 0>>, <<Pool(25, 2, 2), 25, 0>>},
                    service_rules |-> {Rule(17, 1, 1), Rule(17, 1, 2)},
                    service_vlanmaps |-> {<<1, 5>>, <<1, 6>>},
                    service_subnets |-> {<<1, 1, "shared">>}]),
     faults |-> {}, trouble |-> 1, boots |-> TRUE, frozen |-> TRUE]

(* Two gateways for one multicast VNID. *)
Competing ==
    [ask |-> [n \in MCGateways |->
                 LET ip == IF n = east THEN 11 ELSE 12
                 IN  [dpses |-> {1}, tick |-> {}, lists |-> {},
                      service_ipv4s |-> {<<ip, 19, 0, "dovetunnel">>},
                      service_ipv4 |-> IF n = west THEN {ip} ELSE {},
                      mcasts_external |-> {<<3, ip>>},
                      network |-> IF n = east THEN {<<3, 0, 1>>} ELSE {}]],
     faults |-> {}, trouble |-> 0, boots |-> FALSE, frozen |-> FALSE]

MCScenarios == {Publishing, Vlans, Tunnels, Dismantling, Failing, Saving, Competing}
=============================================================================
