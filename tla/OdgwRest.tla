------------------------------ MODULE OdgwRest ------------------------------
(***************************************************************************)
(* The REST server of the gateway (dgadmin_rest_req_handler.c, over the     *)
(* wrappers of dgadmin_rest_api.c) and the configuration file of the CLI    *)
(* (cli/src/service.c).  A handler is an operator from the gateway and the  *)
(* decoded body or URI to [st, g], st being the HTTP status it answers.     *)
(* A malformed request is answered 400 by every handler before anything is  *)
(* called and is left out.                                                  *)
(***************************************************************************)
EXTENDS OdgwAdmin

MAX_SERVICE_TABLES == 2
HTTP_OK == 200
HTTP_CREATED == 201
HTTP_BADREQUEST == 400
HTTP_EXPECTATIONFAILED == 417

Answer(r, good, bad) == [st |-> IF r.st = 0 THEN good ELSE bad, g |-> r.g]

(* The DCS node this gateway asks. *)
dgw_rest_api_create_dps(g, dps) == api_dgadmin_add_dps_server(g, dps)
dgw_req_handler_dpses(g, dps) == Answer(dgw_rest_api_create_dps(g, dps), HTTP_CREATED, HTTP_BADREQUEST)

(* The service. *)
dgw_rest_api_create_service(g, type) ==
    IF type \in {"external", "vlan", "extvlan"} THEN api_dgadmin_add_service_type(g, type)
    ELSE Refused(g)

dgw_rest_api_del_service(g) == api_dgadmin_del_service_type(g)

(* service_map gives a service an id; the ids themselves are never compared. *)
alloc_service_id(g) == [g EXCEPT !.ids = @ + 1]
free_service_id(g) == [g EXCEPT !.ids = IF @ = 0 THEN 0 ELSE @ - 1]

dgw_req_handler_services(g, type) ==
    LET r == dgw_rest_api_create_service(alloc_service_id(g), type)
    IN  IF g.ids = MAX_SERVICE_TABLES THEN [st |-> HTTP_BADREQUEST, g |-> g]
        ELSE Answer(IF r.st = 0 THEN r ELSE Refused(free_service_id(r.g)), HTTP_CREATED, HTTP_BADREQUEST)

(* -1 leaves the MTU, or the running state, as it is. *)
dgw_rest_api_set_service(g, mtu, start) ==
    LET m == IF mtu THEN api_dgadmin_set_service_mtu(g) ELSE Done(g)
        h == IF start = 1 THEN Started(m.g) ELSE Stopped(m.g)
    IN  IF m.st # 0 \/ start = -1 THEN m
        ELSE Ok(g.bad # (IF start = 1 THEN "CMD_START" ELSE "CMD_STOP"), h)

(* PUT and DELETE.  The id is given back before the service is known to go. *)
dgw_req_handler_service(g, method, mtu, start) ==
    Answer(IF method = "PUT" THEN dgw_rest_api_set_service(g, mtu, start)
           ELSE dgw_rest_api_del_service(free_service_id(g)), HTTP_OK, HTTP_BADREQUEST)

dgw_rest_api_create_service_nic(g, mac) == api_dgadmin_add_service_nic(g, mac)
dgw_req_handler_service_nics(g, mac) ==
    Answer(dgw_rest_api_create_service_nic(g, mac), HTTP_CREATED, HTTP_BADREQUEST)

dgw_rest_api_del_service_nic(g, mac) == api_dgadmin_del_service_nic(g, mac)
dgw_req_handler_service_nic(g, mac) ==
    Answer(dgw_rest_api_del_service_nic(g, mac), HTTP_OK, HTTP_EXPECTATIONFAILED)
-----------------------------------------------------------------------------
(* The gateway's own addresses: e is the entry, type what it is for. *)
dgw_rest_api_set_ipv4_type(g, ip, type) ==
    CASE type = "dovetunnel" -> api_dgadmin_set_dove_net_ipv4(g, ip)
      [] type = "external" -> api_dgadmin_set_ext_net_ipv4(g, ip)
      [] OTHER -> Done(g)

dgw_rest_api_create_service_ipv4(g, e, type) ==
    IF type = "dovetunnel" THEN api_dgadmin_add_dovenet_svc_ipv4(g, e)
    ELSE api_dgadmin_add_service_ipv4(g, e)

(* The address is created; whether its type could be set is not looked at. *)
dgw_req_handler_service_ipv4s(g, e, type) ==
    LET c == dgw_rest_api_create_service_ipv4(g, e, type)
    IN  Answer(IF c.st # 0 THEN c ELSE Done(dgw_rest_api_set_ipv4_type(c.g, e.ip, type).g),
               HTTP_CREATED, HTTP_BADREQUEST)

dgw_rest_api_del_service_ipv4(g, ip) == api_dgadmin_del_service_ipv4(g, ip)
dgw_req_handler_service_ipv4(g, ip) ==
    Answer(dgw_rest_api_del_service_ipv4(g, ip), HTTP_OK, HTTP_EXPECTATIONFAILED)
-----------------------------------------------------------------------------
(* A range of external addresses, created one by one: an address that cannot
   be added is passed over.  e.ip is the first, max the last.              *)
dgw_rest_api_create_service_external_vip(g, e, max) ==
    Done(FoldLeft(LAMBDA h, i : api_dgadmin_add_service_pubipv4(h, [e EXCEPT !.ip = @ + i - 1]).g,
                  g, [i \in 1..(max + 1 - e.ip) |-> i]))

(* Deleting stops at the first address that cannot be deleted. *)
dgw_rest_api_del_service_external_vip(g, min, max) ==
    FoldLeft(LAMBDA r, i : IF r.st # 0 THEN r ELSE api_dgadmin_del_service_pubipv4(r.g, min + i - 1),
             Done(g), [i \in 1..(max + 1 - min) |-> i])

dgw_rest_api_set_mcast_external(g, vnid, ip) == api_dgadmin_set_ext_mcast_vnid(g, vnid, ip)
dgw_req_handler_serivce_mcasts_external(g, vnid, ip) ==
    Answer(dgw_rest_api_set_mcast_external(g, vnid, ip), HTTP_CREATED, HTTP_BADREQUEST)

(* A request without a range makes its VNID one that shares the external
   addresses of its tenant; with or without one, the tenant's multicast VNID
   is set, and no step after the first decides the answer.                 *)
dgw_req_handler_svc_ext_vips(g, e, max, ext_ip) ==
    LET s == api_dgadmin_add_extshared_vnids(g, [vnid |-> e.dom, tenant |-> e.tenant, mc |-> e.mc]).g
        v == dgw_rest_api_create_service_external_vip(g, e, max).g
    IN  [st |-> HTTP_CREATED,
         g  |-> IF e.ip = 0
                THEN IF ext_ip = 0 THEN s ELSE dgw_rest_api_set_mcast_external(s, e.mc, ext_ip).g
                ELSE dgw_rest_api_set_mcast_external(v, e.mc, e.ip).g]

(* The deletion of a sharing VNID is carried out and answered 400. *)
dgw_req_handler_svc_ext_vip(g, min, max, vnid) ==
    IF min = 0 THEN [st |-> HTTP_BADREQUEST, g |-> api_dgadmin_del_extshared_vnids(g, vnid).g]
    ELSE Answer(dgw_rest_api_del_service_external_vip(g, min, max), HTTP_OK, HTTP_EXPECTATIONFAILED)
-----------------------------------------------------------------------------
(* Forwarding rules, VLAN maps, subnets, whole networks. *)
dgw_rest_api_create_service_rule(g, r) == api_dgadmin_add_service_fwdrule(g, r)
dgw_req_handler_service_rules(g, r) ==
    Answer(dgw_rest_api_create_service_rule(g, r), HTTP_CREATED, HTTP_BADREQUEST)

dgw_rest_api_del_service_rule(g, r) == api_dgadmin_del_service_fwdrule(g, r)
dgw_req_handler_service_rule(g, r) ==
    Answer(dgw_rest_api_del_service_rule(g, r), HTTP_OK, HTTP_BADREQUEST)

dgw_rest_api_create_service_vlan_map(g, dom, vlan) == api_dgadmin_add_domain_vlan(g, dom, vlan)
dgw_req_handler_service_vlanmaps(g, dom, vlan) ==
    Answer(dgw_rest_api_create_service_vlan_map(g, dom, vlan), HTTP_CREATED, HTTP_BADREQUEST)

dgw_rest_api_del_service_vlan_map(g, dom, vlan) == api_dgadmin_del_domain_vlan(g, dom, vlan)
dgw_req_handler_service_vlanmap(g, dom, vlan) ==
    Answer(dgw_rest_api_del_service_vlan_map(g, dom, vlan), HTTP_OK, HTTP_EXPECTATIONFAILED)

dgw_rest_api_set_service_subnet(g, vnid, ip, type) ==
    api_dgadmin_add_vnid_subnetv4(g, vnid, ip, IF type = "shared" THEN "shared" ELSE "dedicated")
dgw_req_handler_service_subnets(g, vnid, ip, type) ==
    Answer(dgw_rest_api_set_service_subnet(g, vnid, ip, type), HTTP_CREATED, HTTP_BADREQUEST)

dgw_rest_api_del_service_subnet(g, vnid, ip) == api_dgadmin_del_vnid_subnetv4(g, vnid, ip)
dgw_req_handler_service_subnet(g, vnid, ip) ==
    Answer(dgw_rest_api_del_service_subnet(g, vnid, ip), HTTP_OK, HTTP_EXPECTATIONFAILED)

dgw_rest_api_del_network(g, netid, tenant, type) ==
    IF type = 0 THEN api_dgadmin_del_vnid(g, netid) ELSE api_dgadmin_del_extmcastvnid(g, netid, tenant)
dgw_req_handler_network(g, netid, tenant, type) ==
    Answer(dgw_rest_api_del_network(g, netid, tenant, type), HTTP_OK, HTTP_BADREQUEST)
-----------------------------------------------------------------------------
(* The configuration file holds the table, the DCS and the running state. *)
Config(g) == [type |-> g.type, svc |-> g.svc, ifip |-> g.ifip, macs |-> g.macs, ext |-> g.ext,
              rule |-> g.rule, dv |-> g.dv, tdove |-> g.tdove, subnet |-> g.subnet,
              mcast |-> g.mcast, dps |-> g.dps, run |-> g.run]

call_add_type(g, c) == api_dgadmin_set_service_type(g, c.type).g

(* The VLAN of an address is not handed on: the address comes back untagged. *)
call_svc_addressv4(g, c) ==
    ForSlots(g, MAX_IFIPV4_ADDRESS, LAMBDA h, i : c.ifip[i].ip # 0,
             LAMBDA h, i : api_dgadmin_add_service_ipv4(h, [c.ifip[i] EXCEPT !.vlan = 0]).g)

call_svc_ifmacs(g, c) ==
    FoldLeft(LAMBDA h, m : api_dgadmin_add_service_nic(h, m).g, g, SetToSeq(c.macs))

(* Pools only, without their tenant and multicast VNID. *)
call_svc_extipv4(g, c) ==
    ForSlots(g, MAX_EXTIPV4_ADDRESS, LAMBDA h, i : c.ext[i].ip # 0 /\ c.ext[i].ports # "none",
             LAMBDA h, i : api_dgadmin_add_service_pubipv4(h, [c.ext[i] EXCEPT !.tenant = 0, !.mc = 0]).g)

(* Without the internal address the rule had. *)
call_svc_fwdrule(g, c) ==
    ForSlots(g, MAX_FWDRULE, LAMBDA h, i : c.rule[i].ip # 0,
             LAMBDA h, i : api_dgadmin_add_service_fwdrule(h, [c.rule[i] EXCEPT !.pip = 0]).g)

(* Mutant of call_svc_domain_vlans: only the first VLAN of a map. *)
DomainVlansFirst(g, c) ==
    ForSlots(g, MAX_DVMAP, LAMBDA h, i : c.dv[i].dom # INVALID_DOMAIN_ID,
             LAMBDA h, i : api_dgadmin_add_domain_vlan(h, c.dv[i].dom, c.dv[i].vlans[1]).g)

call_svc_domain_vlans(g, c) ==
    LET Vlans(h, i) == ForSlots(h, MAX_VLANS, LAMBDA x, j : c.dv[i].vlans[j] # 0,
                           LAMBDA x, j : api_dgadmin_add_domain_vlan(x, c.dv[i].dom, c.dv[i].vlans[j]).g)
    IN  ForSlots(g, MAX_DVMAP, LAMBDA h, i : c.dv[i].dom # INVALID_DOMAIN_ID, Vlans)

call_set_mtu(g) == api_dgadmin_set_service_mtu(g).g

call_set_dove_net_ipv4(g, c) == api_dgadmin_set_dove_net_ipv4(g, c.tdove).g

call_add_vnid_subnetv4(g, c) ==
    ForSlots(g, MAX_VNID_SUBNETS, LAMBDA h, i : c.subnet[i].ip # 0,
             LAMBDA h, i : api_dgadmin_add_vnid_subnetv4(h, c.subnet[i].vnid, c.subnet[i].ip, c.subnet[i].mode).g)

call_add_ext_mcast_vnid(g, c) ==
    ForSlots(g, MAX_EXT_VNIDS, LAMBDA h, i : c.mcast[i].vnid # 0,
             LAMBDA h, i : api_dgadmin_set_ext_mcast_vnid(h, c.mcast[i].vnid, c.mcast[i].ip).g)

(* The table is emptied in memory only, then filled by the same operations an
   administrator has; the VNIDs that share external addresses do not come back. *)
load_config(g, c) ==
    LET r == [reset_global_svctable(g) EXCEPT !.run = c.run]
        d == dgwy_add_dps_server(r, c.dps).g
        Call(h, i) == CASE i = 1 -> call_add_type(h, c)
                        [] i = 2 -> call_svc_addressv4(h, c)
                        [] i = 3 -> call_svc_ifmacs(h, c)
                        [] i = 4 -> call_svc_extipv4(h, c)
                        [] i = 5 -> call_svc_fwdrule(h, c)
                        [] i = 6 -> call_svc_domain_vlans(h, c)
                        [] i = 7 -> call_set_mtu(h)
                        [] i = 8 -> call_set_dove_net_ipv4(h, c)
                        [] i = 9 -> call_add_vnid_subnetv4(h, c)
                        [] i = 10 -> call_add_ext_mcast_vnid(h, c)
        v == InTurn(d, 10, Call)
    IN  IF ~c.svc THEN d ELSE IF c.run THEN Started(v) ELSE Stopped(v)
=============================================================================
