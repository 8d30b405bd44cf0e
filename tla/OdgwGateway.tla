---------------------------- MODULE OdgwGateway ----------------------------
(***************************************************************************)
(* DOVE gateways at work: the requests of the controller and the commands  *)
(* of an administrator reach each of them in any order, the control task    *)
(* renews registrations and asks for the gateways of its multicast VNIDs,   *)
(* steps of a request fail, and gateways reboot.  The DCS is what the       *)
(* gateways registered there (g.reg), and the lists it answers may be old   *)
(* when they arrive.                                                        *)
(*                                                                         *)
(* A request is one step: the table is read and written in many short      *)
(* critical sections, but requests come from one REST thread (and the CLI,  *)
(* which is not used at the same time here).                                *)
(*                                                                         *)
(* gh is history, read by the properties only.                              *)
(***************************************************************************)
EXTENDS OdgwRest, TLC

CONSTANTS
    Gateways,     \* the gateways
    Macs,         \* the network cards each has, as a sequence
    Scenarios,    \* what may be asked: [ask, faults, trouble, boots, frozen], see Ask
    MaxLists      \* answers of the DCS on their way to one gateway

VARIABLES gw, file, list, sc, trouble, gh

gvars == <<gw, file, list, sc, trouble, gh>>

(* The arguments requests of that kind come with, at gateway n. *)
Ask(n, kind) == IF kind \in DOMAIN sc.ask[n] THEN sc.ask[n][kind] ELSE {}

(* What a gateway is after a start: registrations outlive it at the DCS. *)
Booted(g) ==
    api_dgadmin_init_appliance(
        reset_global_svctable([NoGateway EXCEPT !.reg = g.reg, !.vip = g.vip, !.join = g.join]), Macs)
-----------------------------------------------------------------------------
(* History, per gateway and since its start: contested addresses (two uses at
   a time), networks whose own addresses differed in VLAN or in next hop, VLANs
   with two uses, tunnels that may have been withdrawn while wanted (cut) or
   kept while unwanted (kept), the maps asked for, multicast VNIDs the kernel
   was told of again (told) or that were dropped by a master (dropped), the last
   list of each (seen), and other events (was).  arg holds what the request
   came with.                                                              *)
NoHistory == [contested |-> {}, nets |-> {}, hops |-> {}, vlans |-> {}, cut |-> {}, kept |-> {},
              asked |-> {}, told |-> {}, dropped |-> {}, seen |-> {}, was |-> {}]

Addresses(g) == ({g.ext[i].ip : i \in DOMAIN g.ext} \cup {g.rule[i].ip : i \in DOMAIN g.rule}) \ {0}
OwnAddresses(g) == {g.ifip[i].ip : i \in DOMAIN g.ifip} \ {0}

(* Two external entries, rules of two VNIDs, a rule and a pool, or an entry
   for an address of the gateway itself.                                   *)
Contested(g) ==
    {ip \in Addresses(g) :
        \/ ip \in OwnAddresses(g)
        \/ Cardinality(Where(g.ext, LAMBDA e : e.ip = ip)) > 1
        \/ Cardinality({g.rule[i].dom : i \in Where(g.rule, LAMBDA r : r.ip = ip)}) > 1
        \/ /\ \E i \in DOMAIN g.ext : g.ext[i].ip = ip /\ g.ext[i].ports # "none"
           /\ \E i \in DOMAIN g.rule : g.rule[i].ip = ip}

Differ(g, f) ==
    {Net(g.ifip[p[1]].ip) : p \in {q \in (DOMAIN g.ifip) \X (DOMAIN g.ifip) :
        /\ g.ifip[q[1]].ip # 0 /\ g.ifip[q[2]].ip # 0
        /\ Net(g.ifip[q[1]].ip) = Net(g.ifip[q[2]].ip)
        /\ g.ifip[q[1]][f] # g.ifip[q[2]][f]}}

MapVlans(g) == UNION {{g.dv[i].vlans[j] : j \in 1..MAX_VLANS} :
                      i \in Where(g.dv, LAMBDA d : d.dom # INVALID_DOMAIN_ID)} \ {0}
IfVlans(g) == {g.ifip[i].vlan : i \in DOMAIN g.ifip} \ {0}

(* The tunnels the table asks for, as the DCS should know them. *)
Wanted(g) ==
    IF g.dove = 0 \/ ~g.svc THEN {}
    ELSE {<<v, "ext", g.dove>> : v \in ExtVnids(g) \cup McastVnids(g) \cup SharedVnids(g)}
         \cup {<<v, "vlan", g.dove>> : v \in VlanVnids(g)}

(* VNIDs that are external in two ways. *)
TwiceExternal(g) == McastVnids(g) \cap (ExtVnids(g) \cup SharedVnids(g))

(* Requests that look for tunnels to withdraw, and that tell the kernel the
   state of a VNID.                                                        *)
Withdrawing == {"svc_ext_vip", "service_rule", "service_vlanmap", "network"}
Telling == {"svc_ext_vips", "mcasts_external", "service_subnets", "service_subnet", "load", "network"}

Events(kind, g, k, f) ==
    (IF f # "" THEN {f} ELSE {}) \cup (IF g.svc /\ ~k.svc THEN {"deleted"} ELSE {})
    \cup (IF kind = "load" THEN {"load"} ELSE {})
    \cup (IF kind = "service_ipv4s" /\ g.macs = {} THEN {"no card"} ELSE {})
    \cup (IF kind \in {"service_ipv4s", "load"} /\ Cardinality(g.nh) = MAX_NEXTHOPS THEN {"no slot"} ELSE {})

Note(h, kind, arg, g, k, f) ==
    LET heard == IF kind = "extgw" THEN arg ELSE {}
        maps == IF kind = "service_vlanmaps" THEN arg ELSE {}
    IN
    [h EXCEPT
       !.contested = (@ \cap (Addresses(k) \cup {t[1] : t \in k.alias})) \cup Contested(k),
       !.nets = @ \cup Differ(k, "vlan"), !.hops = @ \cup Differ(k, "nh"),
       !.vlans = @ \cup (MapVlans(k) \cap IfVlans(k)),
       !.cut = IF f # "" THEN Wanted(k)
               ELSE IF kind = "tick" THEN {}
               ELSE (@ \cap Wanted(k))
                    \cup (IF kind \in Withdrawing
                          THEN Wanted(k) \cap ({<<g.subnet[1].vnid, "vlan", g.dove>>}
                                               \cup {<<v, "ext", g.dove>> : v \in TwiceExternal(g)})
                          ELSE {}),
       !.kept = IF f # "" \/ kind = "load" \/ k.svc # g.svc THEN k.reg
                ELSE (@ \cap k.reg) \cup {r \in k.reg : r[2] = "vlan" /\ r[1] \notin VlanVnids(k)},
       !.asked = {t \in @ \cup maps : t[1] \in VlanVnids(k)},
       !.told = (@ \cup (IF kind \in Telling THEN Masters(g) ELSE {})) \cap McastVnids(k),
       !.dropped = (@ \cup (IF k.app = "none" THEN Masters(g) ELSE Masters(g) \ McastVnids(k))) \cap k.join,
       !.seen = {t \in heard \cup {u \in @ : \A l \in heard : l[1] # u[1]} : t[1] \in McastVnids(k)},
       !.was = @ \cup Events(kind, g, k, f)]
-----------------------------------------------------------------------------
GwInit ==
    /\ sc \in Scenarios
    /\ trouble = sc.trouble
    /\ gw = [n \in Gateways |-> Booted(NoGateway)]
    /\ file = [n \in Gateways |-> <<>>]
    /\ list = [n \in Gateways |-> {}]
    /\ gh = [n \in Gateways |-> NoHistory]

(* Gateway n carries out Op, asked for with arg; one step of it may fail. *)
Becomes(n, kind, arg, Op(_)) ==
    \E f \in {""} \cup (IF trouble > 0 THEN sc.faults ELSE {}) :
        LET k == [Op([gw[n] EXCEPT !.bad = f]).g EXCEPT !.bad = ""]
        IN  /\ f # "" => k # Op(gw[n]).g
            /\ gw' = [gw EXCEPT ![n] = k]
            /\ gh' = [gh EXCEPT ![n] = Note(@, kind, arg, gw[n], k, f)]
            /\ trouble' = IF f = "" THEN trouble ELSE trouble - 1

Serve(n, kind, Op(_, _)) ==
    /\ sc.frozen => file[n] = <<>>
    /\ \E a \in Ask(n, kind) : Becomes(n, kind, {a}, LAMBDA g : Op(g, a))
    /\ UNCHANGED <<file, list, sc>>

Dpses(n) == Serve(n, "dpses", LAMBDA g, a : dgw_req_handler_dpses(g, a))
Services(n) == Serve(n, "services", LAMBDA g, a : dgw_req_handler_services(g, a))

(* start and mtu of a PUT that does not name them are not initialised. *)
Service(n) == Serve(n, "service", LAMBDA g, a : dgw_req_handler_service(g, a[1], a[2], a[3]))

ServiceNics(n) == Serve(n, "service_nics", LAMBDA g, a : dgw_req_handler_service_nics(g, a))
ServiceNic(n) == Serve(n, "service_nic", LAMBDA g, a : dgw_req_handler_service_nic(g, a))
ServiceIpv4s(n) ==
    Serve(n, "service_ipv4s", LAMBDA g, a :
        dgw_req_handler_service_ipv4s(g, [ip |-> a[1], nh |-> a[2], vlan |-> a[3]], a[4]))
ServiceIpv4(n) == Serve(n, "service_ipv4", LAMBDA g, a : dgw_req_handler_service_ipv4(g, a))
SvcExtVips(n) == Serve(n, "svc_ext_vips", LAMBDA g, a : dgw_req_handler_svc_ext_vips(g, a[1], a[2], a[3]))
SvcExtVip(n) == Serve(n, "svc_ext_vip", LAMBDA g, a : dgw_req_handler_svc_ext_vip(g, a[1], a[2], a[3]))
ServiceRules(n) == Serve(n, "service_rules", LAMBDA g, a : dgw_req_handler_service_rules(g, a))
ServiceRule(n) == Serve(n, "service_rule", LAMBDA g, a : dgw_req_handler_service_rule(g, a))
ServiceVlanmaps(n) ==
    Serve(n, "service_vlanmaps", LAMBDA g, a : dgw_req_handler_service_vlanmaps(g, a[1], a[2]))
ServiceVlanmap(n) ==
    Serve(n, "service_vlanmap", LAMBDA g, a : dgw_req_handler_service_vlanmap(g, a[1], a[2]))
ServiceSubnets(n) ==
    Serve(n, "service_subnets", LAMBDA g, a : dgw_req_handler_service_subnets(g, a[1], a[2], a[3]))
ServiceSubnet(n) ==
    Serve(n, "service_subnet", LAMBDA g, a : dgw_req_handler_service_subnet(g, a[1], a[2]))
McastsExternal(n) ==
    Serve(n, "mcasts_external", LAMBDA g, a : dgw_req_handler_serivce_mcasts_external(g, a[1], a[2]))
Network(n) == Serve(n, "network", LAMBDA g, a : dgw_req_handler_network(g, a[1], a[2], a[3]))
-----------------------------------------------------------------------------
(* The control task: registrations are renewed every sixth tick; while no DCS
   is known the DMC is asked for one, and hands out one of sc.dcs.         *)
Tick(n) ==
    /\ "tick" \in DOMAIN sc.ask[n]
    /\ Becomes(n, "tick", {}, LAMBDA g : Done(check_register_tunnel(g)))
    /\ UNCHANGED <<file, list, sc>>

dgwy_dmc_dcs_info_resp(n) ==
    /\ ~gw[n].got
    /\ \E d \in Ask(n, "dcs_info") : Becomes(n, "dcs_info", {}, LAMBDA g : dgw_rest_api_create_dps(g, d))
    /\ UNCHANGED <<file, list, sc>>

(* Every fourth tick the gateways of each multicast VNID are asked for.  The
   answer holds what is registered when the DCS makes it.                   *)
Registered(v) == {t[3] : t \in {r \in UNION {gw[m].reg : m \in Gateways} : r[1] = v /\ r[2] = "ext"}}

update_domain_bcast(n) ==
    /\ "lists" \in DOMAIN sc.ask[n]
    /\ gw[n].svc /\ gw[n].lib # 0
    /\ \E v \in McastVnids(gw[n]) :
         /\ Cardinality(list[n] \cup {<<v, Registered(v)>>}) <= MaxLists
         /\ list' = [list EXCEPT ![n] = @ \cup {<<v, Registered(v)>>}]
    /\ UNCHANGED <<gw, file, sc, trouble, gh>>

(* The highest tunnel address of the list is the master of the VNID. *)
Highest(S) == CHOOSE t \in S : \A u \in S : u <= t

MasterSlot(g, i, master) ==
    LET v == g.mcast[i].vnid
        k == IF master # (g.mcast[i].master = 1) THEN dgwy_ctrl_ext_mcast_master_state(g, v, master) ELSE g
        j == IF master \/ g.mcast[i].master = 1 THEN send_ext_mcast_recv_join(k, v, master) ELSE k
    IN  [j EXCEPT !.mcast[i].master = IF master THEN 1 ELSE 0]

(* Mutant of handle_dps_extgw_reply_lst: any gateway on the list is the master. *)
ReplyListAnyMaster(g, v, teps) ==
    IF teps = {} \/ ~g.svc THEN g
    ELSE ForSlots(g, MAX_EXT_VNIDS, LAMBDA h, i : h.mcast[i].vnid = v,
                  LAMBDA h, i : MasterSlot(h, i, teps \cap {a[1] : a \in h.alias} # {}))

handle_dps_extgw_reply_lst(g, v, teps) ==
    IF teps = {} \/ ~g.svc THEN g
    ELSE ForSlots(g, MAX_EXT_VNIDS, LAMBDA h, i : h.mcast[i].vnid = v,
                  LAMBDA h, i : MasterSlot(h, i, Highest(teps) \in {a[1] : a \in h.alias}))

ExtGwReply(n) ==
    \E m \in list[n] :
        /\ Becomes(n, "extgw", {m}, LAMBDA g : Done(handle_dps_extgw_reply_lst(g, m[1], m[2])))
        /\ list' = [list EXCEPT ![n] = @ \ {m}]
        /\ UNCHANGED <<file, sc>>
-----------------------------------------------------------------------------
(* The CLI saves the configuration and loads it again. *)
save_tofile(n) ==
    /\ "save" \in DOMAIN sc.ask[n]
    /\ file[n] = <<>>
    /\ file' = [file EXCEPT ![n] = <<Config(gw[n])>>]
    /\ UNCHANGED <<gw, list, sc, trouble, gh>>

Load(n) ==
    /\ file[n] # <<>> /\ "load" \notin gh[n].was
    /\ Becomes(n, "load", {}, LAMBDA g : Done(load_config(g, file[n][1])))
    /\ UNCHANGED <<file, list, sc>>

(* A reboot, by power or because the DMC no longer knows the gateway. *)
Reboot(n) ==
    /\ trouble > 0 /\ sc.boots
    /\ trouble' = trouble - 1
    /\ gw' = [gw EXCEPT ![n] = Booted(gw[n])]
    /\ list' = [list EXCEPT ![n] = {}]
    /\ gh' = [gh EXCEPT ![n] = [NoHistory EXCEPT !.kept = gw[n].reg, !.dropped = gw[n].join]]
    /\ UNCHANGED <<file, sc>>

GwNext ==
    \E n \in Gateways :
        \/ Dpses(n) \/ Services(n) \/ Service(n) \/ ServiceNics(n) \/ ServiceNic(n)
        \/ ServiceIpv4s(n) \/ ServiceIpv4(n) \/ SvcExtVips(n) \/ SvcExtVip(n)
        \/ ServiceRules(n) \/ ServiceRule(n) \/ ServiceVlanmaps(n) \/ ServiceVlanmap(n)
        \/ ServiceSubnets(n) \/ ServiceSubnet(n) \/ McastsExternal(n) \/ Network(n)
        \/ Tick(n) \/ dgwy_dmc_dcs_info_resp(n) \/ update_domain_bcast(n) \/ ExtGwReply(n)
        \/ save_tofile(n) \/ Load(n) \/ Reboot(n)

Spec == GwInit /\ [][GwNext]_gvars
-----------------------------------------------------------------------------
(* An external address with one use is an alias of the bridge and known to the
   kernel for as long as an entry or a rule holds it.  Deleting an entry or
   the last rule of a VNID takes the address down without asking whether it has
   another use, and a VLAN device that goes takes its addresses with it.    *)
UncontestedAddressUp ==
    \A n \in Gateways : \A ip \in Addresses(gw[n]) :
        \/ /\ \E v \in {0} \cup gw[n].vdev : <<ip, v>> \in gw[n].alias
           /\ ip \in gw[n].kip \/ gh[n].was # {}
        \/ ip \in gh[n].contested \/ "delete_svc_extipv4" \in gh[n].was
        \/ Net(ip) \in gh[n].nets
        \/ IfOf(gw[n], ip).vlan \in gh[n].vlans

(* The next hop of an own address keeps its slot and its route table while the
   address is there, and no longer.                                        *)
HopsFollowAddresses ==
    \A n \in Gateways : LET g == gw[n]
                            used == {g.ifip[i].nh : i \in DOMAIN g.ifip} \ {0} IN
        gh[n].was = {} => /\ used \subseteq g.nh \cap g.rt
                          /\ \A h \in g.nh \ used : Net(h) \in gh[n].hops

(* The VLANs of a VNID's map are VLANs that were asked for since the map is
   there: a slot that is used again holds nothing of its last map.          *)
MapsAsAsked ==
    \A n \in Gateways : gh[n].was = {} => \A i \in DOMAIN gw[n].dv : \A j \in 1..MAX_VLANS :
        LET d == gw[n].dv[i]
        IN  d.dom # INVALID_DOMAIN_ID /\ d.vlans[j] # 0 => <<d.dom, d.vlans[j]>> \in gh[n].asked

(* The host of a gateway follows the service table: its external addresses are
   up, its next hops are there while an address needs them, and a map has only
   the VLANs that were asked for (update_svc_table_dvlist and the functions
   that give out and take back aliases and next hops).                     *)
HostFollowsTable == UncontestedAddressUp /\ HopsFollowAddresses /\ MapsAsAsked

(* A tunnel the table asks for is registered at the DCS.  Until the next
   renewal it may not be when a deletion withdrew it: the VLAN tunnel of the
   first subnet's VNID, an external one of a VNID that is external in two ways. *)
WantedRegistered ==
    \A n \in Gateways : gw[n].lib = 0 \/ Wanted(gw[n]) \subseteq gw[n].reg \cup gh[n].cut

(* A tunnel the table no longer asks for is withdrawn from the DCS.  VLAN
   tunnels are not: a deletion looks before the map is gone.               *)
UnwantedWithdrawn ==
    \A n \in Gateways : \A r \in gw[n].reg :
        r[3] = gw[n].dove /\ r[1] # 0 => r \in Wanted(gw[n]) \cup gh[n].kept

(* The DCS knows the tunnels the service table asks for and no others
   (check_register_tunnel, check_dregister_tunnel and the renewals).       *)
RegistrationsFollowTable == WantedRegistered /\ UnwantedWithdrawn

(* Without a failed step, a deleted service or a load, the kernel module has
   what the table has.                                                     *)
KernelHasTable ==
    \A n \in Gateways : LET g == gw[n] IN gh[n].was = {} =>
        /\ g.kdv = VlanVnids(g) /\ g.krun = g.run /\ g.ktype = g.type
        /\ \A ip \in (g.kext \cup {k[2] : k \in g.krule} \cup Addresses(g)) \ gh[n].contested :
              /\ (ip \in g.kext) => \E i \in DOMAIN g.ext : g.ext[i].ip = ip
              /\ {k \in g.krule : k[2] = ip}
                   = {<<g.rule[i].dom, ip, g.rule[i].port>> : i \in Where(g.rule, LAMBDA r : r.ip = ip)}

(* What the kernel takes to be the master of a multicast VNID is. *)
KernelKnowsMaster ==
    \A n \in Gateways : \A v \in Masters(gw[n]) :
        gh[n].was # {} \/ v \in gh[n].told \/ <<v, "master">> \in gw[n].kvnid

(* A service goes only when nothing it set up is left: cards go after the own
   addresses, own addresses after the external ones of their network.      *)
DeletedLeavesNothing ==
    \A n \in Gateways : LET g == gw[n] IN
        ~g.svc /\ gh[n].was \subseteq {"deleted", "no slot"} /\ gh[n].contested = {}
        => g.kext = {} /\ g.krule = {} /\ {t \in g.alias : t[1] \in g.kip} = {}

(* The kernel module, which is only told of changes and never asked, has what
   the service table has: its maps, addresses and rules, the multicast VNIDs
   it is master of, and nothing of a deleted service.                      *)
KernelMirrorsTable == KernelHasTable /\ KernelKnowsMaster /\ DeletedLeavesNothing

(* Only a master receives the multicast of a VNID for the outside. *)
JoinedIsMaster ==
    \A n \in Gateways : gh[n].was = {} => gw[n].join \subseteq Masters(gw[n]) \cup gh[n].dropped

(* Gateways that go by the same list do not both take themselves for the
   master of a multicast VNID.  An empty list leaves everyone as they are.  *)
OneMasterPerList ==
    \A n, m \in Gateways : \A t \in gh[n].seen \cap gh[m].seen :
        n # m /\ t[2] # {} => t[1] \notin Masters(gw[n]) \cap Masters(gw[m])

(* The multicast of a VNID is received for the outside by one gateway of those
   that go by the same list (handle_dps_extgw_reply_lst).                  *)
MastersSound == JoinedIsMaster /\ OneMasterPerList

(* What a configuration file keeps of a service table. *)
Saved(c) ==
    [own |-> {<<c.ifip[i].ip, c.ifip[i].nh>> : i \in DOMAIN c.ifip} \ {<<0, 0>>},
     cards |-> c.macs, tunnel |-> c.tdove, runs |-> c.run,
     pools |-> {<<c.ext[i].ip, c.ext[i].dom>> : i \in Where(c.ext, LAMBDA e : e.ports # "none")},
     rules |-> {<<c.rule[i].ip, c.rule[i].dom, c.rule[i].port>> : i \in DOMAIN c.rule} \ {<<0, 0, 0>>},
     maps |-> {<<c.dv[i].dom, {c.dv[i].vlans[j] : j \in 1..MAX_VLANS}>> :
                  i \in Where(c.dv, LAMBDA d : d.dom # INVALID_DOMAIN_ID)},
     subnets |-> {c.subnet[i] : i \in DOMAIN c.subnet} \ {NoSubnet}]

(* A configuration that is saved and loaded after a restart, by the calls a
   request makes (call_svc_* of service.c), comes back.                    *)
LoadRestores ==
    [][\A n \in Gateways :
         /\ gh[n].was = {} /\ gh'[n].was = {"load"} /\ gw[n].alias = {} /\ gw[n].dps = 0
         => Saved(gw'[n]) = Saved(file[n][1])]_gvars
=============================================================================
