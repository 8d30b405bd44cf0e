----------------------------- MODULE OdgwAdmin -----------------------------
(***************************************************************************)
(* The operations an administrator (through the CLI) and the controller    *)
(* (through REST) have on a DOVE gateway: dgadmin_generic_api.c.  Each is   *)
(* an operator from the gateway g and the arguments of the call to [st, g]: *)
(* st 0 is DOVE_STATUS_OK.  The steps keep the order of the calls in the    *)
(* code, and a step whose result the code drops is followed by the next.    *)
(***************************************************************************)
EXTENDS OdgwTable, SequencesExt

(* for(i = 0; i < n; i++) if(P) Body, over the gateway the body changes. *)
ForSlots(g, n, P(_, _), Body(_, _)) ==
    LET RECURSIVE From(_, _)
        From(h, i) == IF i > n THEN h
                      ELSE CHOOSE k \in {From(x, i + 1) : x \in {IF P(h, i) THEN Body(h, i) ELSE h}} : TRUE
    IN  From(g, 1)

(* n calls, one after the other. *)
InTurn(g, n, Call(_, _)) == ForSlots(g, n, LAMBDA h, i : TRUE, Call)

Ok(b, g) == [st |-> IF b THEN 0 ELSE 1, g |-> g]

(* The service, its type and its network cards.  Without its bridge it is
   not added.                                                              *)
api_dgadmin_add_service_type(g, type) ==
    IF g.bad = "chk_start_svc" THEN Refused(g)
    ELSE dgwy_ctrl_set_svc_type([g EXCEPT !.app = type], "CMD_ADD_SVC", type)

api_dgadmin_set_service_type(g, type) ==
    IF g.bad = "chk_start_svc" THEN Refused(g)
    ELSE dgwy_ctrl_set_svc_type([g EXCEPT !.app = type], "CMD_SET_SVC", type)

api_dgadmin_add_service_nic_auto(g, mac) == Done(dgwy_ctrl_svc_macs(g, "CMD_ADD_IFMAC", mac).g)

api_dgadmin_set_service_mtu(g) == dgwy_ctrl_set_svc_mtu(g)

api_dgadmin_start_gateway(g) == Done(dgwy_ctrl_set_global(g, "CMD_START"))
api_dgadmin_stop_gateway(g) == Done(dgwy_ctrl_set_global(g, "CMD_STOP"))

api_dgadmin_add_allmacs(g, macs) ==
    FoldLeft(LAMBDA h, m : api_dgadmin_add_service_nic_auto(h, m).g, g, macs)

api_dgadmin_init_appliance(g, macs) ==
    Started(api_dgadmin_set_service_mtu(
        api_dgadmin_add_allmacs(api_dgadmin_add_service_type(g, "none").g, macs)).g)

check_nic_in_service(g) ==
    CASE dgwy_svc_table_get(g, "check_nic_in_service") = 0 -> FALSE
      [] dgwy_svc_table_get(g, "check_nic_in_service") = 1 -> TRUE
      [] OTHER -> g.macs # {}

(* The slot of a mapping is marked free; its VLANs stay in it. *)
reset_service(g) ==
    IF ~Has(g, "reset_service") THEN g
    ELSE [g EXCEPT !.svc = FALSE, !.type = "none", !.macs = {},
                   !.dv = [i \in DOMAIN @ |-> [@[i] EXCEPT !.dom = INVALID_DOMAIN_ID]],
                   !.ifip = [i \in DOMAIN @ |-> NoIf],
                   !.ext = [i \in DOMAIN @ |-> NoExt],
                   !.rule = [i \in DOMAIN @ |-> NoRule]]

api_dgadmin_del_service_type(g) ==
    LET t == dgwy_ctrl_set_svc_type(Stopped(g), "CMD_DEL_SVC", "none")
    IN  IF check_nic_in_service(g) THEN Refused(g)
        ELSE Ok(t.st = 0, Started(reset_service(t.g)))

api_dgadmin_add_service_nic(g, mac) ==
    Ok(g.bad # "chk_mac_add_bridge", dgwy_ctrl_svc_macs(g, "CMD_ADD_IFMAC", mac).g)

delete_svc_nic(g, mac) == IF Has(g, "delete_svc_nic") THEN [g EXCEPT !.macs = @ \ {mac}] ELSE g

check_nic_in_ipv4(g) ==
    CASE dgwy_svc_table_get(g, "check_nic_in_ipv4") = 0 -> FALSE
      [] dgwy_svc_table_get(g, "check_nic_in_ipv4") = 1 -> TRUE
      [] OTHER -> \E i \in DOMAIN g.ifip : g.ifip[i].ip # 0

api_dgadmin_del_service_nic(g, mac) ==
    IF check_nic_in_ipv4(g) THEN Refused(g)
    ELSE Ok(g.bad # "chk_mac_rem_bridge",
            Started(delete_svc_nic(dgwy_ctrl_svc_macs(Stopped(g), "CMD_DEL_IFMAC", mac).g, mac)))
-----------------------------------------------------------------------------
(* The addresses of the gateway itself.  The alias and its routes are added
   before the table is asked whether it can take the address.              *)
AddAddress(g, e, iptype) ==
    dgwy_ctrl_svc_ipv4(IF e.vlan = 0 THEN chk_add_svc_ipv4(g, e.ip, e.nh, iptype)
                       ELSE chk_add_svc_ipv4_with_vlan(g, e.ip, e.nh, iptype, e.vlan),
                       "CMD_ADD_IPV4", e)

api_dgadmin_add_service_ipv4(g, e) == AddAddress(g, e, "IP_TYPE_EXTERNAL")
api_dgadmin_add_dovenet_svc_ipv4(g, e) == AddAddress(g, e, "IP_TYPE_DOVE_TEP")

internal_dgadmin_add_service_ipv4(g, ip) ==
    dgwy_ctrl_svc_ipv4(g, "CMD_ADD_IPV4", [NoIf EXCEPT !.ip = ip]).g

internal_dgadmin_rem_service_ipv4(g, ip) ==
    dgwy_ctrl_svc_ipv4(g, "CMD_DEL_IPV4", [NoIf EXCEPT !.ip = ip]).g

get_svc_ipv4_vlan(g, ip) ==
    [st |-> IF Has(g, "get_svc_ipv4_vlan") THEN 0 ELSE 1,
     vlan |-> Find(g.ifip, LAMBDA e : e.ip = ip, NoIf).vlan]

get_svc_ipv4_matching_vlan(g, vlan) ==
    Has(g, "get_svc_ipv4_matching_vlan") => \E i \in DOMAIN g.ifip : g.ifip[i].vlan = vlan

delete_svc_ipv4(g, ip) ==
    IF Has(g, "delete_svc_ipv4")
    THEN [g EXCEPT !.ifip = Overwrite(@, LAMBDA e : e.ip = ip, NoIf)] ELSE g

(* An address is in use while an external address lies in its network; one
   the table does not hold is reported as in use too.                      *)
check_ipv4_in_extvip(g, ip) ==
    CASE dgwy_svc_table_get(g, "check_ipv4_in_extvip") = 0 -> FALSE
      [] dgwy_svc_table_get(g, "check_ipv4_in_extvip") = 1 -> TRUE
      [] OTHER -> \/ \A i \in DOMAIN g.ifip : g.ifip[i].ip # ip
                  \/ \E i \in DOMAIN g.ext : Net(g.ext[i].ip) = Net(ip)

api_dgadmin_del_service_ipv4(g, ip) ==
    LET v    == get_svc_ipv4_vlan(g, ip)
        here == v.st = 0 /\ IsOn(g, ip, v.vlan)
        stop == Stopped(g)
        off  == IF v.vlan = 0 THEN chk_rem_svc_ipv4(stop, ip)
                ELSE chk_rem_svc_ipv4_with_vlan(stop, ip, v.vlan)
        k    == dgwy_ctrl_svc_ipv4(off, "CMD_DEL_IPV4", [NoIf EXCEPT !.ip = ip])
        gone == delete_svc_ipv4(k.g, ip)
        last == v.vlan # 0 /\ ~get_svc_ipv4_matching_vlan(gone, v.vlan)
    IN  IF check_ipv4_in_extvip(g, ip) THEN Refused(g)
        ELSE IF ~here THEN Refused(Started(stop))
        ELSE Ok(k.st = 0, Started(IF last THEN VlanDown(gone, v.vlan) ELSE gone))
-----------------------------------------------------------------------------
(* External addresses: the address is an alias of the bridge in the network
   of one of the gateway's own, the kernel is told of it, and it becomes an
   entry of extipv4List.                                                   *)
ExtEntry(ip, dom, ports, tenant, mc) ==
    [ip |-> ip, dom |-> dom, ports |-> ports, tenant |-> tenant, mc |-> mc]

(* port_max - port_min > PORT_POOL_SZ is the pool "wide". *)
api_dgadmin_add_service_pubipv4(g, e) ==
    LET v == get_vlan_of_pubalias(g, e.ip)
        a == AddAlias(g, e.ip, v.vlan)
        h == internal_dgadmin_add_service_ipv4(a.g, e.ip)
    IN  IF e.ports = "wide" \/ v.st # 0 \/ a.st # 0 THEN Refused(g)
        ELSE IF ~IsOn(h, e.ip, v.vlan) THEN Refused(h)
        ELSE dgwy_ctrl_svc_extipv4(h, "CMD_ADD_EXTVIP", e)

(* The first entry with that address goes, whichever VNID it belongs to. *)
ExtAt(g, ip) == Find(g.ext, LAMBDA e : e.ip = ip, NoExt)

delete_svc_extipv4(g, ip) ==
    LET h == [g EXCEPT !.ext = Overwrite(@, LAMBDA e : e.ip = ip, NoExt)]
    IN  IF ~Has(g, "delete_svc_extipv4") THEN g
        ELSE IF ExtAt(g, ip).dom = 0 THEN h ELSE check_dregister_tunnel(h, ExtAt(g, ip).dom)

(* Whether a tenant has no external address and no shared VNID left; the
   question also withdraws the tunnels of the VNID in the first slot.      *)
is_vnid_empty_intenant(g, tenant) ==
    [empty |-> \/ ~Has(g, "is_vnid_empty_intenant")
               \/ /\ \A i \in DOMAIN g.ext : g.ext[i].tenant # tenant
                  /\ \A i \in DOMAIN g.shared : g.shared[i].tenant # tenant,
     g |-> IF Has(g, "is_vnid_empty_intenant") THEN check_dregister_tunnel(g, g.ext[1].dom) ELSE g]

check_extvip_in_fwd_rule(g, ip) ==
    CASE dgwy_svc_table_get(g, "check_extvip_in_fwd_rule") = 0 -> FALSE
      [] dgwy_svc_table_get(g, "check_extvip_in_fwd_rule") = 1 -> TRUE
      [] OTHER -> \E i \in DOMAIN g.rule : g.rule[i].ip = ip

api_dgadmin_unset_ext_mcast_vnid(g, vnid) == dgwy_ctrl_unset_ext_mcast_vnid(g, vnid)

(* Kernel, table and, with the tenant's last entry, its multicast VNID. *)
DropEntry(g, ip) ==
    LET was  == IF Has(g, "delete_svc_extipv4") THEN ExtAt(g, ip) ELSE NoExt
        k    == dgwy_ctrl_svc_extipv4(g, "CMD_DEL_EXTVIP", [NoExt EXCEPT !.ip = ip])
        left == is_vnid_empty_intenant(delete_svc_extipv4(k.g, ip), was.tenant)
    IN  Ok(k.st = 0, IF left.empty /\ (was.tenant # 0 \/ was.mc # 0)
                     THEN api_dgadmin_unset_ext_mcast_vnid(left.g, was.mc).g ELSE left.g)

(* Mutant of api_dgadmin_del_service_pubipv4: rules on the address do not count. *)
DelPubipv4UnderRule(g, ip) ==
    LET v == get_vlan_of_pubalias(g, ip)
        stop == Stopped(g)
        off  == RemAlias(internal_dgadmin_rem_service_ipv4(stop, ip), ip, v.vlan)
        d    == DropEntry(off, ip)
    IN  IF v.st # 0 THEN Refused(g)
        ELSE IF ~IsOn(g, ip, v.vlan) THEN Refused(Started(stop))
        ELSE Ok(d.st = 0, Started(d.g))

api_dgadmin_del_service_pubipv4(g, ip) ==
    LET v == get_vlan_of_pubalias(g, ip)
        stop == Stopped(g)
        off  == RemAlias(internal_dgadmin_rem_service_ipv4(stop, ip), ip, v.vlan)
        d    == DropEntry(off, ip)
    IN  IF check_extvip_in_fwd_rule(g, ip) \/ v.st # 0 THEN Refused(g)
        ELSE IF ~IsOn(g, ip, v.vlan) THEN Refused(Started(stop))
        ELSE Ok(d.st = 0, Started(d.g))
-----------------------------------------------------------------------------
(* Forwarding rules.  A rule on an address that is not up brings it up, with
   an external entry of its own; a rule on one that is up only adds itself,
   and one for the whole address (port and protocol 0) is refused there.   *)
dgadmin_add_service_fwdrule(g, r, vlan) ==
    LET a == AddAlias(g, r.ip, vlan)
        h == internal_dgadmin_add_service_ipv4(a.g, r.ip)
        x == dgwy_ctrl_svc_extipv4(h, "CMD_ADD_EXTVIP", ExtEntry(r.ip, r.dom, "none", 0, 0))
    IN  IF IsOn(g, r.ip, vlan)
        THEN IF r.port = 0 THEN Refused(g) ELSE Done(dgwy_ctrl_fwd_rule(g, "CMD_ADD_FWD_RULE", r).g)
        ELSE IF a.st # 0 THEN Refused(g)
        ELSE IF ~IsOn(h, r.ip, vlan) THEN Refused(h)
        ELSE IF x.st # 0 THEN x
        ELSE Done(dgwy_ctrl_fwd_rule(x.g, "CMD_ADD_FWD_RULE", r).g)

dgadmin_add_service_fwdrule_with_vlan(g, r, vlan) == dgadmin_add_service_fwdrule(g, r, vlan)

api_dgadmin_add_service_fwdrule(g, r) ==
    LET v == get_vlan_of_pubalias(g, r.ip)
    IN  IF v.st # 0 THEN Refused(g)
        ELSE IF v.vlan = 0 THEN dgadmin_add_service_fwdrule(g, r, 0)
        ELSE dgadmin_add_service_fwdrule_with_vlan(g, r, v.vlan)

(* Mutant of SameRule: the port is not compared. *)
SameRuleAnyPort(x, r) == x.dom = r.dom /\ x.ip = r.ip

SameRule(x, r) == x.dom = r.dom /\ x.ip = r.ip /\ x.port = r.port

fwdrule_pip_deregister(g, pip, dom) == dgwy_deregister_vip_location(g, dom, pip)

delete_svc_fwd_rule(g, r) ==
    LET here == Where(g.rule, LAMBDA x : SameRule(x, r))
        i == First(here)
    IN  IF ~Has(g, "delete_svc_fwd_rule") \/ here = {} THEN g
        ELSE [fwdrule_pip_deregister(g, g.rule[i].pip, r.dom) EXCEPT !.rule[i] = NoRule]

is_there_fwd_rule_matching(g, r) ==
    Has(g, "is_there_fwd_rule_matching") /\ \E i \in DOMAIN g.rule : SameRule(g.rule[i], r)

(* The rules of the same VNID on the address. *)
get_fwd_rule_count(g, r) ==
    [st |-> IF Has(g, "get_fwd_rule_count") THEN 0 ELSE 1,
     n |-> Cardinality(Where(g.rule, LAMBDA x : x.dom = r.dom /\ x.ip = r.ip))]

AddressOff(g, ip, vlan) == RemAlias(internal_dgadmin_rem_service_ipv4(g, ip), ip, vlan)

DropRule(g, r, last) ==
    LET k == delete_svc_fwd_rule(dgwy_ctrl_fwd_rule(g, "CMD_DEL_FWD_RULE", r).g, r)
        x == dgwy_ctrl_svc_extipv4(k, "CMD_DEL_EXTVIP", [NoExt EXCEPT !.ip = r.ip]).g
    IN  IF last THEN delete_svc_extipv4(x, r.ip) ELSE k

(* The last rule of a VNID on an address takes the address with it. *)
dgadmin_del_service_fwdrule(g, r, vlan) ==
    LET stop == Stopped(g)
        n    == get_fwd_rule_count(stop, r)
        h    == IF n.n = 1 THEN AddressOff(stop, r.ip, vlan) ELSE stop
    IN  IF ~is_there_fwd_rule_matching(g, r) THEN Done(g)
        ELSE IF ~IsOn(g, r.ip, vlan) \/ n.st # 0 THEN Done(Started(stop))
        ELSE Done(Started(DropRule(h, r, n.n <= 1)))

dgadmin_del_service_fwdrule_with_vlan(g, r, vlan) == dgadmin_del_service_fwdrule(g, r, vlan)

api_dgadmin_del_service_fwdrule(g, r) ==
    LET v == get_vlan_of_pubalias(g, r.ip)
    IN  IF v.st # 0 THEN Refused(g)
        ELSE IF v.vlan = 0 THEN dgadmin_del_service_fwdrule(g, r, 0)
        ELSE dgadmin_del_service_fwdrule_with_vlan(g, r, v.vlan)

(* The same for a VNID that goes away: the rule goes whether or not its
   address is up, and an unknown count (-1) is taken for the last rule.    *)
api_dgadmin_del_service_fwdrule_force(g, r) ==
    LET v    == get_vlan_of_pubalias(g, r.ip)
        vlan == IF v.st # 0 THEN 0 ELSE v.vlan
        n    == get_fwd_rule_count(g, r)
        last == n.st # 0 \/ n.n <= 1
        stop == Stopped(g)
        h    == IF last /\ IsOn(stop, r.ip, vlan) THEN AddressOff(stop, r.ip, vlan) ELSE stop
    IN  Started(DropRule(h, r, last))
-----------------------------------------------------------------------------
(* VLAN maps, subnets, shared VNIDs, external multicast, tunnel address. *)
api_dgadmin_add_domain_vlan(g, dom, vlan) ==
    dgwy_ctrl_svc_domain_vlans(g, "CMD_SET_DOMAIN_VLAN", dom, vlan)

api_dgadmin_del_domain_vlan(g, dom, vlan) ==
    LET d == dgwy_ctrl_svc_domain_vlans(Stopped(g), "CMD_DEL_DOMAIN_VLAN", dom, vlan)
    IN  Ok(d.st = 0, Started(d.g))

api_dgadmin_add_vnid_subnetv4(g, vnid, ip, mode) == dgwy_ctrl_add_vnid_info(g, vnid, ip, mode)
api_dgadmin_del_vnid_subnetv4(g, vnid, ip) == dgwy_ctrl_del_vnid_info(g, vnid, ip)

update_svc_table_extsharedvnids(g, s, action) ==
    LET Same(x) == x.vnid = s.vnid
        here == Where(g.shared, Same)
        was  == g.shared[First(here)]
        left == is_vnid_empty_intenant([g EXCEPT !.shared = Overwrite(@, Same, NoShared)], was.tenant)
        free == Where(g.shared, LAMBDA x : x.vnid = 0)
    IN  CASE ~Has(g, "update_svc_table_extsharedvnids") -> Refused(g)
          [] Has(g, "update_svc_table_extsharedvnids") /\ ~action /\ here # {} ->
                Done(IF left.empty /\ was.mc # 0
                     THEN api_dgadmin_unset_ext_mcast_vnid(left.g, was.mc).g ELSE left.g)
          [] Has(g, "update_svc_table_extsharedvnids") /\ action /\ here = {} /\ free # {} ->
                Done(BecomeExternal([g EXCEPT !.shared[First(free)] = s]))
          [] OTHER -> Refused(g)

dgwy_ctrl_extshared_vnids(g, s, cmd) ==
    LET t == update_svc_table_extsharedvnids(g, s, cmd = "CMD_ADD_EXT_SHARED")
    IN  IF t.st # 0 THEN t
        ELSE IF cmd = "CMD_ADD_EXT_SHARED"
        THEN Done(IF t.g.dove # 0 THEN dove_dps_tunnel_register(t.g, "ext", s.vnid) ELSE t.g)
        ELSE Done(check_register_tunnel(check_dregister_tunnel(t.g, s.vnid)))

api_dgadmin_add_extshared_vnids(g, s) == dgwy_ctrl_extshared_vnids(g, s, "CMD_ADD_EXT_SHARED")
api_dgadmin_del_extshared_vnids(g, vnid) ==
    dgwy_ctrl_extshared_vnids(g, [NoShared EXCEPT !.vnid = vnid], "CMD_DEL_EXT_SHARED")

(* The alias added for a multicast VNID is not taken down again. *)
api_dgadmin_set_ext_mcast_vnid(g, vnid, ip) ==
    LET v == get_vlan_of_pubalias(g, ip)
        a == AddAlias(g, ip, v.vlan)
    IN  IF v.st # 0 \/ a.st # 0 THEN Refused(g) ELSE dgwy_ctrl_set_ext_mcast_vnid(a.g, vnid, ip)

api_dgadmin_set_dove_net_ipv4(g, ip) == dgwy_ctrl_set_dovenet_ipv4(g, ip)
api_dgadmin_set_ext_net_ipv4(g, ip) == dgwy_ctrl_set_external_ipv4(g, ip)
api_dgadmin_add_dps_server(g, dps) == dgwy_add_dps_server(g, dps)
-----------------------------------------------------------------------------
(* Everything of one VNID, list by list. *)
check_del_all_fwdrules(g, vnid) ==
    ForSlots(g, MAX_FWDRULE, LAMBDA h, i : h.rule[i].dom = vnid,
             LAMBDA h, i : api_dgadmin_del_service_fwdrule_force(h, h.rule[i]))

(* Only the entries that came with a multicast VNID. *)
check_del_all_extvip(g, vnid) ==
    LET Body(h, i) ==
            LET ip == h.ext[i].ip
                v == get_vlan_of_pubalias(h, ip)
                vlan == IF v.st # 0 THEN 0 ELSE v.vlan
            IN  DropEntry(IF IsOn(h, ip, vlan) THEN AddressOff(h, ip, vlan) ELSE h, ip).g
    IN  ForSlots(g, MAX_EXTIPV4_ADDRESS, LAMBDA h, i : h.ext[i].dom = vnid /\ h.ext[i].mc # 0, Body)

check_del_all_subnets(g, vnid) ==
    ForSlots(g, MAX_VNID_SUBNETS, LAMBDA h, i : h.subnet[i].vnid = vnid,
             LAMBDA h, i : api_dgadmin_del_vnid_subnetv4(h, vnid, h.subnet[i].ip).g)

check_del_all_extshared(g, vnid) ==
    IF Where(g.shared, LAMBDA x : x.vnid = vnid) = {} THEN g
    ELSE api_dgadmin_del_extshared_vnids(g, vnid).g

check_del_all_vlanmap(g, vnid) ==
    ForSlots(g, MAX_DVMAP, LAMBDA h, i : h.dv[i].dom = vnid,
             LAMBDA h, i : dgwy_ctrl_svc_domain_vlans(h, "CMD_DEL_DOMAIN_VLAN", vnid, h.dv[i].vlans[1]).g)

api_dgadmin_del_vnid(g, vnid) ==
    LET Call(h, i) == CASE i = 1 -> check_del_all_fwdrules(h, vnid)
                        [] i = 2 -> check_del_all_extshared(h, vnid)
                        [] i = 3 -> check_del_all_extvip(h, vnid)
                        [] i = 4 -> check_del_all_subnets(h, vnid)
                        [] i = 5 -> check_del_all_vlanmap(h, vnid)
    IN  Done(InTurn(g, 5, Call))

api_dgadmin_del_extmcastvnid(g, vnid, tenant) ==
    LET left == is_vnid_empty_intenant(g, tenant)
    IN  Done(IF left.empty THEN dgwy_ctrl_unset_ext_mcast_vnid(left.g, vnid).g ELSE left.g)
=============================================================================
