----------------------------- MODULE OdgwTable -----------------------------
(***************************************************************************)
(* The state of one DOVE gateway and the functions of dgadmutil.c that     *)
(* change it.  The gateway keeps one service table (GLB_SVC_TABLE, bridge   *)
(* "APBR") and mirrors it in four other places, none of which it reads     *)
(* back: the kernel module (told by netlink messages), the aliases of the  *)
(* bridge, the route tables of the host, and the tunnels and addresses it   *)
(* registers with the DCS.  A request is a sequence of calls of the         *)
(* functions below, so every one of them is an operator from a gateway g    *)
(* to a gateway, or to [st, g] when its callers look at the result.         *)
(*                                                                         *)
(* Lists are arrays of slots, as in the code: an empty slot holds zeroes    *)
(* and is compared like any other.  An address is a number whose tens are   *)
(* its network, 0 is no address.  g.bad names the one step that fails in    *)
(* the request being served (the lock of the table stays taken when the    *)
(* function of that name wants it, or the netlink or UDP send fails).       *)
(***************************************************************************)
EXTENDS Integers, FiniteSets

CONSTANTS
    MAX_IFIPV4_ADDRESS,   \* usable slots of ifipv4List, and aliases per device
    MAX_EXTIPV4_ADDRESS, MAX_FWDRULE, MAX_DVMAP, MAX_VLANS,
    MAX_VNID_SUBNETS, MAX_EXT_VNIDS, MAX_DOMIANS, MAX_IF_MACS,
    MAX_NEXTHOPS          \* usable slots of nexthop_list

INVALID_DOMAIN_ID == 99
NoAddress == 98

(* The entries of the lists, empty. *)
NoIf     == [ip |-> 0, nh |-> 0, vlan |-> 0]
NoExt    == [ip |-> 0, dom |-> 0, ports |-> "none", tenant |-> 0, mc |-> 0]
NoRule   == [ip |-> 0, dom |-> 0, port |-> 0, real |-> 0, pip |-> 0]
NoDv     == [dom |-> INVALID_DOMAIN_ID, vlans |-> [v \in 1..MAX_VLANS |-> 0]]
NoSubnet == [vnid |-> 0, ip |-> 0, mode |-> "dedicated"]
NoMcast  == [vnid |-> 0, ip |-> 0, master |-> 0]
NoShared == [vnid |-> 0, tenant |-> 0, mc |-> 0]

Empty(n, e) == [i \in 1..n |-> e]

Net(ip) == ip \div 10

(* What memset and the INVALID_DOMAIN_ID loops leave of the table. *)
reset_global_svctable(g) ==
    [g EXCEPT !.svc = FALSE, !.type = "none", !.macs = {},
              !.ifip = Empty(MAX_IFIPV4_ADDRESS, NoIf),
              !.ext = Empty(MAX_EXTIPV4_ADDRESS, NoExt),
              !.rule = Empty(MAX_FWDRULE, NoRule),
              !.dv = Empty(MAX_DVMAP, NoDv),
              !.subnet = Empty(MAX_VNID_SUBNETS, NoSubnet),
              !.mcast = Empty(MAX_EXT_VNIDS, NoMcast),
              !.shared = Empty(MAX_DOMIANS, NoShared),
              !.tdove = 0, !.rt = {}]

(* The gateway before the table is reset: nothing configured, no DCS known.
   ids counts the entries of service_map the REST server has given out.    *)
NoGateway ==
    [svc |-> FALSE, ids |-> 0, type |-> "none", app |-> "none", macs |-> {}, ifip |-> <<>>,
     ext |-> <<>>, rule |-> <<>>, dv |-> <<>>, subnet |-> <<>>, mcast |-> <<>>,
     shared |-> <<>>, tdove |-> 0, dove |-> 0, extif |-> 0, run |-> FALSE,
     dps |-> 0, lib |-> 0, got |-> FALSE,
     alias |-> {}, vdev |-> {}, nh |-> {}, rt |-> {},
     kip |-> {}, kext |-> {}, krule |-> {}, kdv |-> {}, kvnid |-> {},
     ktype |-> "none", krun |-> FALSE,
     reg |-> {}, vip |-> {}, join |-> {}, bad |-> ""]

Done(g) == [st |-> 0, g |-> g]
Refused(g) == [st |-> 1, g |-> g]

Where(l, P(_)) == {i \in DOMAIN l : P(l[i])}
First(S) == CHOOSE i \in S : \A j \in S : i <= j

(* The entry of l a loop with a break finds, or the given default. *)
Find(l, P(_), default) ==
    IF Where(l, P) = {} THEN default ELSE l[First(Where(l, P))]

(* Overwrite the first slot of l that P holds of, if there is one. *)
Overwrite(l, P(_), e) ==
    IF Where(l, P) = {} THEN l ELSE [l EXCEPT ![First(Where(l, P))] = e]

(* dgwy_svc_table_get with the retries of its callers: 1 the lock is still
   taken, 0 no table of that name, 2 found.                                *)
dgwy_svc_table_get(g, caller) ==
    IF g.svc THEN IF g.bad = caller THEN 1 ELSE 2 ELSE 0

Has(g, caller) == dgwy_svc_table_get(g, caller) = 2

(* dgwy_nl_send_message: the kernel module takes the message, or the request
   has the one failed send.                                                *)
dgwy_nl_send_message(g, cmd, sent) ==
    IF g.bad = cmd THEN Refused(g) ELSE Done(sent)
-----------------------------------------------------------------------------
(* Requests to the DCS: without a server in the client library the send
   fails, and the gateway notes that it knows no DCS.                      *)
dps_protocol_client_send(g, sent) ==
    IF g.lib = 0 \/ g.bad = "dps_protocol_client_send"
    THEN [g EXCEPT !.got = FALSE] ELSE sent

dove_dps_tunnel_register(g, kind, vnid) ==
    dps_protocol_client_send(g, [g EXCEPT !.reg = @ \cup {<<vnid, kind, g.dove>>}])

dove_dps_tunnel_deregister(g, kind, vnid) ==
    dps_protocol_client_send(g, [g EXCEPT !.reg = @ \ {<<vnid, kind, g.dove>>}])

dgwy_register_vip_location(g, vnid, vip) ==
    dps_protocol_client_send(g, [g EXCEPT !.vip = @ \cup {<<vnid, vip>>}])

dgwy_deregister_vip_location(g, vnid, vip) ==
    dps_protocol_client_send(g, [g EXCEPT !.vip = @ \ {<<vnid, vip>>}])

send_ext_mcast_recv_join(g, vnid, joins) ==
    IF g.dps = 0 \/ g.app = "none" THEN g
    ELSE dps_protocol_client_send(g,
             [g EXCEPT !.join = IF joins THEN @ \cup {vnid} ELSE @ \ {vnid}])

(* The calls one loop over a list makes, for the entries in S at once: the
   sends of one loop all go out or all fail.                               *)
RegisterAll(g, kind, S) ==
    IF S = {} THEN g
    ELSE dps_protocol_client_send(g, [g EXCEPT !.reg = @ \cup {<<v, kind, g.dove>> : v \in S}])

DeregisterAll(g, kind, S) ==
    IF S = {} THEN g
    ELSE dps_protocol_client_send(g, [g EXCEPT !.reg = @ \ {<<v, kind, g.dove>> : v \in S}])

dove_mcast_dcs_vgw_all_recv_leave(g) ==
    LET S == {g.dv[i].dom : i \in DOMAIN g.dv} \ {INVALID_DOMAIN_ID}
    IN  IF ~Has(g, "dove_mcast_dcs_vgw_all_recv_leave") \/ g.dove = 0 \/ S = {}
           \/ g.dps = 0 \/ g.app = "none" THEN g
        ELSE dps_protocol_client_send(g, [g EXCEPT !.join = @ \ S])

(* The VNIDs each list asks a tunnel for. *)
ExtVnids(g) == {g.ext[i].dom : i \in Where(g.ext, LAMBDA e : e.ip # 0)} \ {0}
VlanVnids(g) == {g.dv[i].dom : i \in DOMAIN g.dv} \ {INVALID_DOMAIN_ID}
McastVnids(g) == {g.mcast[i].vnid : i \in DOMAIN g.mcast} \ {0}
SharedVnids(g) == {g.shared[i].vnid : i \in DOMAIN g.shared} \ {0}
Pips(g) == {<<g.rule[i].dom, g.rule[i].pip>> :
               i \in Where(g.rule, LAMBDA r : r.ip # 0 /\ r.pip # 0)}
Masters(g) == {g.mcast[i].vnid : i \in Where(g.mcast, LAMBDA m : m.master = 1)} \ {0}
-----------------------------------------------------------------------------
(* The type of the service, in the table, in g_APPBRIDGE_type and in the
   kernel.  A type for a table that does not exist creates it.             *)
create_new_svc_entry(g, type) == [g EXCEPT !.svc = TRUE, !.type = type]

update_svc_table_type(g, type) ==
    CASE dgwy_svc_table_get(g, "update_svc_table_type") = 1 -> Refused(g)
      [] dgwy_svc_table_get(g, "update_svc_table_type") = 2 -> Done([g EXCEPT !.type = type])
      [] OTHER -> Done(create_new_svc_entry(g, type))

dgwy_ctrl_set_svc_type(g, cmd, type) ==
    LET t == IF cmd = "CMD_DEL_SVC" THEN Done(g) ELSE update_svc_table_type(g, type)
        h == [t.g EXCEPT !.app = type]
    IN  IF t.st # 0 THEN t
        ELSE dgwy_nl_send_message(h, cmd, [h EXCEPT !.ktype = type])

SetType(g, type) == dgwy_ctrl_set_svc_type(g, "CMD_SET_SVC", type).g

(* Registering what the table asks for again: run when the tunnel address or
   the DCS changes, and by the control task every sixth tick.              *)
check_register_tunnel(g) ==
    LET up == g.dove # 0
        a  == IF up THEN RegisterAll(RegisterAll(RegisterAll(RegisterAll(g,
                  "ext", ExtVnids(g)), "vlan", VlanVnids(g)),
                  "ext", McastVnids(g)), "ext", SharedVnids(g)) ELSE g
        b  == IF up /\ Masters(g) # {} /\ g.dps # 0 /\ g.app # "none"
              THEN dps_protocol_client_send(a, [a EXCEPT !.join = @ \cup Masters(g)]) ELSE a
        c  == IF Pips(g) = {} THEN b
              ELSE dps_protocol_client_send(b, [b EXCEPT !.vip = @ \cup Pips(g)])
        is_external == up /\ ExtVnids(g) \cup McastVnids(g) \cup SharedVnids(g) # {}
        is_vlan == up /\ VlanVnids(g) # {}
    IN  IF ~Has(g, "check_register_tunnel") THEN g
        ELSE SetType(c, CASE is_external /\ is_vlan -> "extvlan"
                          [] is_external /\ ~is_vlan -> "external"
                          [] ~is_external /\ is_vlan -> "vlan"
                          [] OTHER -> "none")

(* Mutant of check_dregister_tunnel: the external tunnel stays. *)
DregisterTunnelKeeps(g, vnid) ==
    IF ~Has(g, "check_dregister_tunnel") \/ \E i \in DOMAIN g.dv : g.dv[i].dom = vnid THEN g
    ELSE dove_dps_tunnel_deregister(g, "vlan", g.subnet[1].vnid)

(* Withdrawing the tunnels of a VNID the lists no longer name.  The external
   one looks at ext and shared entries only.  The VLAN one is withdrawn for
   dvList[MAX_DVMAP].domain, which in the packed table is the VNID of the
   first subnet, and not for the VNID that was looked up.                   *)
check_dregister_tunnel(g, vnid) ==
    LET named == (\E i \in DOMAIN g.ext : g.ext[i].dom = vnid)
                 \/ (\E i \in DOMAIN g.shared : g.shared[i].vnid = vnid)
        a == IF named THEN g ELSE dove_dps_tunnel_deregister(g, "ext", vnid)
    IN  IF ~Has(g, "check_dregister_tunnel") THEN g
        ELSE IF \E i \in DOMAIN g.dv : g.dv[i].dom = vnid THEN a
        ELSE dove_dps_tunnel_deregister(a, "vlan", a.subnet[1].vnid)

check_del_tep(g) ==
    IF ~Has(g, "check_del_tep") THEN g
    ELSE DeregisterAll(DeregisterAll(DeregisterAll(DeregisterAll(g,
             "ext", McastVnids(g)), "ext", SharedVnids(g)), "ext",
             {g.ext[i].dom : i \in Where(g.ext, LAMBDA e : e.ip # 0)}), "vlan", VlanVnids(g))
-----------------------------------------------------------------------------
(* The tunnel address (dovenet), the external address and the bridge's
   aliases, addressed <<ip, vlan>>.                                        *)
update_svc_dovenet_ipv4(g, ip) ==
    IF Has(g, "update_svc_dovenet_ipv4") THEN [g EXCEPT !.tdove = ip] ELSE g

dgwy_ctrl_set_dovenet_ipv4(g, ip) ==
    LET h == check_register_tunnel([update_svc_dovenet_ipv4(g, ip) EXCEPT !.dove = ip])
    IN  dgwy_nl_send_message(h, "CMD_DOVNET_IPV4", h)

dgwy_ctrl_set_external_ipv4(g, ip) ==
    LET h == check_register_tunnel([g EXCEPT !.extif = ip])
    IN  dgwy_nl_send_message(h, "CMD_EXTIF_IPV4", h)

is_ipv4_on(g, ip) == <<ip, 0>> \in g.alias
is_ipv4_on_vlan(g, ip, vlan) == <<ip, vlan>> \in g.alias
IsOn(g, ip, vlan) == IF vlan = 0 THEN is_ipv4_on(g, ip) ELSE is_ipv4_on_vlan(g, ip, vlan)

(* nexthop_list and the route table named after the next hop. *)
add_ipv4_nexthop_table(g, nh) ==
    IF \/ ~Has(g, "add_ipv4_nexthop_table")
       \/ nh \in g.nh
       \/ Cardinality(g.nh) >= MAX_NEXTHOPS
    THEN g
    ELSE [g EXCEPT !.nh = @ \cup {nh}, !.rt = @ \cup {nh}]

add_ipv4_nexthop_table_with_vlan(g, nh) == add_ipv4_nexthop_table(g, nh)

(* The route table stays while another address of the network is in the
   list; the address being removed still is.                               *)
rem_ipv4_nexthop(g, ip) ==
    LET here == Where(g.ifip, LAMBDA e : e.ip = ip)
        nh   == g.ifip[First(here)].nh
    IN  IF ~Has(g, "rem_ipv4_nexthop") \/ here = {}
           \/ Cardinality(Where(g.ifip, LAMBDA e : Net(e.ip) = Net(ip))) > 1
        THEN g
        ELSE [g EXCEPT !.nh = @ \ {nh}, !.rt = @ \ {nh}]

rem_ipv4_nexthop_with_vlan(g, ip) == rem_ipv4_nexthop(g, ip)

(* An address that is already an alias, or finds no free alias, is not added. *)
NewAlias(g, ip, vlan) ==
    /\ <<ip, vlan>> \notin g.alias
    /\ Cardinality({a \in g.alias : a[2] = vlan}) < MAX_IFIPV4_ADDRESS

chk_add_svc_ipv4(g, ip, nh, iptype) ==
    LET h == [g EXCEPT !.alias = @ \cup {<<ip, 0>>}]
    IN  IF ~NewAlias(g, ip, 0) THEN g
        ELSE IF iptype = "IP_TYPE_EXT_VIP" THEN h ELSE add_ipv4_nexthop_table(h, nh)

chk_add_svc_ipv4_with_vlan(g, ip, nh, iptype, vlan) ==
    LET d == [g EXCEPT !.vdev = @ \cup {vlan}]
        h == [d EXCEPT !.alias = @ \cup {<<ip, vlan>>}]
    IN  IF ~NewAlias(g, ip, vlan) THEN d
        ELSE IF iptype = "IP_TYPE_EXT_VIP" THEN h ELSE add_ipv4_nexthop_table_with_vlan(h, nh)

(* Removing the tunnel address withdraws everything registered with it. *)
AfterAddress(g, ip) ==
    CASE ip = g.dove ->
            dgwy_ctrl_set_dovenet_ipv4(check_del_tep(dove_mcast_dcs_vgw_all_recv_leave(g)), 0).g
      [] ip # g.dove /\ ip = g.extif -> dgwy_ctrl_set_external_ipv4(g, 0).g
      [] OTHER -> g

chk_rem_svc_ipv4(g, ip) ==
    AfterAddress(IF is_ipv4_on(g, ip)
                 THEN rem_ipv4_nexthop([g EXCEPT !.alias = @ \ {<<ip, 0>>}], ip)
                 ELSE g, ip)

chk_rem_svc_ipv4_with_vlan(g, ip, vlan) ==
    AfterAddress(IF is_ipv4_on_vlan(g, ip, vlan)
                 THEN rem_ipv4_nexthop_with_vlan([g EXCEPT !.alias = @ \ {<<ip, vlan>>}], ip)
                 ELSE g, ip)

(* The interface address in whose network a public address lies. *)
IfOf(g, ip) == Find(g.ifip, LAMBDA e : e.ip # 0 /\ Net(e.ip) = Net(ip), NoIf)

(* A busy table answers -1, which as an address is not zero. *)
get_extipv4_for_extmcast_vnid(g, ip) ==
    CASE dgwy_svc_table_get(g, "get_extipv4_for_extmcast_vnid") = 0 -> 0
      [] dgwy_svc_table_get(g, "get_extipv4_for_extmcast_vnid") = 1 -> NoAddress
      [] OTHER -> IfOf(g, ip).ip

(* A table that is missing or busy answers -1, an address in no network 0. *)
get_vlan_of_pubalias(g, ip) ==
    [st |-> IF Has(g, "get_vlan_of_pubalias") THEN 0 ELSE 1, vlan |-> IfOf(g, ip).vlan]

check_add_pubipv4_alias(g, ip) ==
    IF ~Has(g, "check_add_pubipv4_alias") \/ IfOf(g, ip) = NoIf THEN Refused(g)
    ELSE Done(chk_add_svc_ipv4(g, ip, IfOf(g, ip).nh, "IP_TYPE_EXT_VIP"))

check_add_pubipv4_alias_with_vlan(g, ip) ==
    LET e == IfOf(g, ip)
    IN  IF ~Has(g, "check_add_pubipv4_alias") \/ e = NoIf \/ e.vlan = 0 THEN Refused(g)
        ELSE Done(chk_add_svc_ipv4_with_vlan(g, ip, e.nh, "IP_TYPE_EXT_VIP", e.vlan))

check_rem_pubipv4_alias(g, ip) == [g EXCEPT !.alias = @ \ {<<ip, 0>>}]
check_rem_pubipv4_alias_with_vlan(g, ip, vlan) == [g EXCEPT !.alias = @ \ {<<ip, vlan>>}]

AddAlias(g, ip, vlan) ==
    IF vlan = 0 THEN check_add_pubipv4_alias(g, ip) ELSE check_add_pubipv4_alias_with_vlan(g, ip)
RemAlias(g, ip, vlan) ==
    IF vlan = 0 THEN check_rem_pubipv4_alias(g, ip)
    ELSE check_rem_pubipv4_alias_with_vlan(g, ip, vlan)
-----------------------------------------------------------------------------
(* The lists of the table and the kernel messages that follow a change. *)
Put(l, free(_), e) == [l EXCEPT ![First(Where(l, free))] = e]

update_svc_table_ifipv4(g, e) ==
    IF \/ ~Has(g, "update_svc_table_ifipv4")
       \/ \E i \in DOMAIN g.ifip : g.ifip[i].ip = e.ip
       \/ \A i \in DOMAIN g.ifip : g.ifip[i].ip # 0
    THEN Refused(g)
    ELSE Done([g EXCEPT !.ifip = Put(@, LAMBDA x : x.ip = 0, e)])

(* An address with a mask and a next hop goes to the table, one without
   (a public address) only to the kernel.                                  *)
dgwy_ctrl_svc_ipv4(g, cmd, e) ==
    LET t == IF cmd = "CMD_ADD_IPV4" /\ e.nh # 0 THEN update_svc_table_ifipv4(g, e) ELSE Done(g)
    IN  IF t.st # 0 THEN t
        ELSE dgwy_nl_send_message(t.g, cmd,
                 [t.g EXCEPT !.kip = IF cmd = "CMD_ADD_IPV4" THEN @ \cup {e.ip} ELSE @ \ {e.ip}])

(* A first external or shared VNID turns the service external too. *)
BecomeExternal(g) ==
    CASE g.type = "vlan" -> SetType(g, "extvlan")
      [] g.type = "none" -> SetType(g, "external")
      [] OTHER -> g

update_svc_table_extipv4(g, e) ==
    IF \/ ~Has(g, "update_svc_table_extipv4")
       \/ \E i \in DOMAIN g.ext : g.ext[i] = e
       \/ \A i \in DOMAIN g.ext : g.ext[i].ip # 0
    THEN Refused(g)
    ELSE Done(BecomeExternal([g EXCEPT !.ext = Put(@, LAMBDA x : x.ip = 0, e)]))

(* The EXTERNAL tunnel is registered for the entry's VNID whatever the
   command: a deletion carries VNID 0.                                     *)
dgwy_ctrl_svc_extipv4(g, cmd, e) ==
    LET t == IF cmd = "CMD_ADD_EXTVIP" THEN update_svc_table_extipv4(g, e) ELSE Done(g)
        h == IF t.g.dove # 0 THEN dove_dps_tunnel_register(t.g, "ext", e.dom) ELSE t.g
    IN  IF t.st # 0 THEN t
        ELSE dgwy_nl_send_message(h, cmd,
                 [h EXCEPT !.kext = IF cmd = "CMD_ADD_EXTVIP" THEN @ \cup {e.ip} ELSE @ \ {e.ip}])

update_svc_table_macs(g, mac) ==
    IF \/ ~Has(g, "update_svc_table_macs")
       \/ mac \in g.macs
       \/ Cardinality(g.macs) >= MAX_IF_MACS
    THEN Refused(g) ELSE Done([g EXCEPT !.macs = @ \cup {mac}])

dgwy_ctrl_svc_macs(g, cmd, mac) ==
    LET t == IF cmd = "CMD_ADD_IFMAC" THEN update_svc_table_macs(g, mac) ELSE Done(g)
    IN  IF t.st # 0 THEN t ELSE dgwy_nl_send_message(t.g, cmd, t.g)

update_svc_table_fwdrule(g, r) ==
    IF \/ ~Has(g, "update_svc_table_fwdrule")
       \/ \E i \in DOMAIN g.rule : g.rule[i] = r
       \/ \A i \in DOMAIN g.rule : g.rule[i].ip # 0
    THEN Refused(g) ELSE Done([g EXCEPT !.rule = Put(@, LAMBDA x : x.ip = 0, r)])

dgwy_ctrl_fwd_rule(g, cmd, r) ==
    LET t == IF cmd = "CMD_ADD_FWD_RULE" THEN update_svc_table_fwdrule(g, r) ELSE Done(g)
        h == IF cmd = "CMD_ADD_FWD_RULE" THEN dgwy_register_vip_location(t.g, r.dom, r.pip) ELSE t.g
        k == {<<r.dom, r.ip, r.port>>}
    IN  IF t.st # 0 THEN t
        ELSE dgwy_nl_send_message(h, cmd,
                 [h EXCEPT !.krule = IF cmd = "CMD_ADD_FWD_RULE" THEN @ \cup k ELSE @ \ k])

(* vlans[0] of the slot a new mapping takes is set; the slot's others are
   what it held before.                                                    *)
AddDv(g, dom, vlan) ==
    LET i == First(Where(g.dv, LAMBDA x : x.dom = INVALID_DOMAIN_ID))
        h == [g EXCEPT !.dv[i].dom = dom, !.dv[i].vlans[1] = vlan]
    IN  CASE g.type = "external" -> SetType(h, "extvlan")
          [] g.type = "none" -> SetType(h, "vlan")
          [] OTHER -> h

update_svc_table_dvlist(g, cmd, dom, vlan) ==
    LET here == Where(g.dv, LAMBDA x : x.dom = dom)
        i    == First(here)
        gap  == Where(g.dv[i].vlans, LAMBDA v : v = 0)
    IN  CASE ~Has(g, "update_svc_table_dvlist") -> Refused(g)
          [] Has(g, "update_svc_table_dvlist") /\ here = {} ->
                IF cmd = "CMD_SET_DOMAIN_VLAN" /\ INVALID_DOMAIN_ID \in {g.dv[j].dom : j \in DOMAIN g.dv}
                THEN Done(AddDv(g, dom, vlan)) ELSE Refused(g)
          [] OTHER ->
                IF cmd = "CMD_DEL_DOMAIN_VLAN"
                THEN Done(send_ext_mcast_recv_join([g EXCEPT !.dv[i] = NoDv], dom, FALSE))
                ELSE IF (\E j \in DOMAIN g.dv[i].vlans : g.dv[i].vlans[j] = vlan) \/ gap = {}
                THEN Refused(g)
                ELSE Done([g EXCEPT !.dv[i].vlans[First(gap)] = vlan])

(* vconfig rem: the VLAN device goes, and the aliases on it. *)
VlanDown(g, vlan) ==
    IF vlan = 0 THEN g
    ELSE [g EXCEPT !.vdev = @ \ {vlan}, !.alias = {a \in @ : a[2] # vlan}]

(* A deletion looks for tunnels to withdraw before the mapping is gone. *)
dgwy_ctrl_svc_domain_vlans(g, cmd, dom, vlan) ==
    LET adds == cmd = "CMD_SET_DOMAIN_VLAN"
        t == update_svc_table_dvlist(IF adds THEN g ELSE check_dregister_tunnel(g, dom), cmd, dom, vlan)
        was == Find(g.dv, LAMBDA x : x.dom = dom, NoDv).vlans[1]
        d == IF adds THEN [t.g EXCEPT !.vdev = @ \cup {vlan}] ELSE VlanDown(t.g, was)
        h == IF adds /\ d.dove # 0 THEN dove_dps_tunnel_register(d, "vlan", dom) ELSE d
    IN  IF t.st # 0 THEN t
        ELSE dgwy_nl_send_message(h, cmd, [h EXCEPT !.kdv = IF adds THEN @ \cup {dom} ELSE @ \ {dom}])

dgwy_ctrl_set_global(g, cmd) ==
    LET h == [g EXCEPT !.run = (cmd = "CMD_START")]
    IN  dgwy_nl_send_message(h, cmd, [h EXCEPT !.krun = h.run]).g

Stopped(g) == dgwy_ctrl_set_global(g, "CMD_STOP")
Started(g) == dgwy_ctrl_set_global(g, "CMD_START")

update_svc_table_mtu(g) == IF Has(g, "update_svc_table_mtu") THEN Done(g) ELSE Refused(g)

dgwy_ctrl_set_svc_mtu(g) ==
    IF update_svc_table_mtu(g).st # 0 THEN Refused(g) ELSE dgwy_nl_send_message(g, "CMD_MTU", g)

(* The DCS this gateway asks.  The one it already has is taken to be in use,
   whatever has happened to its requests since.                            *)
dgwy_add_dps_server(g, dps) ==
    LET h == [g EXCEPT !.dps = dps, !.got = TRUE]
    IN  CASE g.dps # 0 /\ g.dps = dps -> Done(g)
          [] g.dps # dps /\ g.bad = "dps_server_add" -> Refused(h)
          [] OTHER -> Done(check_register_tunnel([h EXCEPT !.lib = dps]))
-----------------------------------------------------------------------------
(* What the kernel is told of a VNID: one state for its subnets and for the
   part it plays in external multicast.                                    *)
VnidInfo(g, vnid, state) ==
    dgwy_nl_send_message(g, "CMD_VNID_INFO",
        [g EXCEPT !.kvnid = {k \in @ : k[1] # vnid} \cup {<<vnid, state>>}])

update_svc_table_ext_mcast_vnid(g, vnid, ip, oper) ==
    LET SameVnid(m) == m.vnid = vnid
        Free(m) == m.vnid = 0
        slot == CASE oper /\ Where(g.mcast, SameVnid) # {} ->
                        [g.mcast EXCEPT ![First(Where(g.mcast, SameVnid))].ip = ip]
                  [] oper /\ Where(g.mcast, SameVnid) = {} ->
                        Overwrite(g.mcast, Free, [vnid |-> vnid, ip |-> ip, master |-> 0])
                  [] OTHER -> Overwrite(g.mcast, SameVnid, NoMcast)
        h == [g EXCEPT !.mcast = slot]
    IN  CASE ~Has(g, "update_svc_table_ext_mcast_vnid") -> g
          [] Has(g, "update_svc_table_ext_mcast_vnid") /\ g.dove = 0 -> h
          [] OTHER -> IF oper THEN dove_dps_tunnel_register(h, "ext", vnid)
                      ELSE dove_dps_tunnel_deregister(h, "ext", vnid)

dgwy_ctrl_set_ext_mcast_vnid(g, vnid, ip) ==
    LET own == get_extipv4_for_extmcast_vnid(g, ip)
    IN  IF own = 0 THEN Refused(g)
        ELSE VnidInfo(update_svc_table_ext_mcast_vnid(g, vnid, own, TRUE), vnid, "slave")

dgwy_ctrl_unset_ext_mcast_vnid(g, vnid) ==
    VnidInfo(update_svc_table_ext_mcast_vnid(g, vnid, 0, FALSE), vnid, "none")

dgwy_ctrl_ext_mcast_master_state(g, vnid, master) ==
    VnidInfo(g, vnid, IF master THEN "master" ELSE "slave").g

update_svc_vnid_info(g, vnid, ip, mode, oper) ==
    LET Same(s) == s.ip = ip /\ s.vnid = vnid
        e == [vnid |-> vnid, ip |-> ip, mode |-> mode]
    IN  CASE ~Has(g, "update_svc_vnid_info") -> g
          [] Has(g, "update_svc_vnid_info") /\ ~oper -> [g EXCEPT !.subnet = Overwrite(@, Same, NoSubnet)]
          [] OTHER -> [g EXCEPT !.subnet =
                          IF Where(@, Same) # {} THEN Overwrite(@, Same, e)
                          ELSE Overwrite(@, LAMBDA s : s.ip = 0, e)]

dgwy_ctrl_add_vnid_info(g, vnid, ip, mode) ==
    VnidInfo(update_svc_vnid_info(g, vnid, ip, mode, TRUE), vnid, mode)

(* -1, from a busy table, counts as empty. *)
is_vnid_subnet_empty(g, vnid) ==
    Has(g, "is_vnid_subnet_empty") => \A i \in DOMAIN g.subnet : g.subnet[i].vnid # vnid

dgwy_ctrl_del_vnid_info(g, vnid, ip) ==
    LET h == update_svc_vnid_info(g, vnid, ip, "dedicated", FALSE)
    IN  IF is_vnid_subnet_empty(h, vnid) THEN VnidInfo(h, vnid, "dedicated") ELSE Done(h)
=============================================================================
