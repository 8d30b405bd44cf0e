------------------------------ MODULE DcsTenant ------------------------------
(***************************************************************************)
(* The configuration a server holds: domains, networks (VNIDs), policies,  *)
(* external gateways and subnets, and every operation on it: the routines  *)
(* of controller_protocol_handler.py, the C functions of                   *)
(* controller_interface.c that call them, rest_api.c above those, and the  *)
(* REST handlers and CLI commands at the top.                              *)
(*                                                                         *)
(* An operation takes the configuration t and returns it changed, with a   *)
(* status (R) or an HTTP code (Reply).  Of an address, a mask, a ttl or a  *)
(* name only the identity is kept.  Endpoints are DcsReplication's; here   *)
(* only stray is left of them: the VNIDs with an address that is in none   *)
(* of their subnets.  What a running transfer is told of each change is    *)
(* DcsMassTransfer's.                                                      *)
(***************************************************************************)
EXTENDS Naturals, FiniteSets, FiniteSetsExt

CONSTANTS Domain, Vnid, Gateway, Subnet, Traffic, None

Allow == "allow"
Drop == "drop"

(* An entry of Policy_Hash_DVG, for traffic from the VNID s to the VNID e. *)
Policy == [d : Domain, tt : Traffic, s : Vnid, e : Vnid, act : {Allow, Drop}]

(* DpsCollection: the hash tables of the server, and whether the global    *)
(* lock was left locked (stuck).                                           *)
Config == [
    started : BOOLEAN, stuck : BOOLEAN,
    dom : SUBSET Domain,                    \* Domain_Hash
    own : [Vnid -> Domain \cup {None}],     \* VNID_Hash
    glob : SUBSET (Domain \X Vnid),         \* Domain_Hash_Global
    dvg : SUBSET (Domain \X Vnid),          \* DVG_Hash of each domain
    pol : SUBSET Policy,
    gw : SUBSET (Vnid \X Gateway),
    sub : SUBSET (Vnid \X Subnet),          \* IP_Subnet_List of each VNID
    dsub : SUBSET (Domain \X Subnet),       \* IP_Subnet_List of each domain
    rec : [Vnid -> Domain \cup {None}],     \* VNID_Recovery
    rereg : SUBSET Vnid,                    \* VNID_Reregistration
    stray : SUBSET Vnid]

Fresh(domains, stray) ==
    [started |-> TRUE, stuck |-> FALSE, dom |-> domains,
     own |-> [v \in Vnid |-> None], glob |-> {}, dvg |-> {}, pol |-> {},
     gw |-> {}, sub |-> {}, dsub |-> {}, rec |-> [v \in Vnid |-> None],
     rereg |-> {}, stray |-> stray]

R(t, s) == [t |-> t, s |-> s]
Reply(t, code) == [t |-> t, code |-> code]

-----------------------------------------------------------------------------
(* DVG.delete: the VNID with its policies, gateways and subnets.           *)
DVG_delete(t, d, v) ==
    [t EXCEPT !.dvg = @ \ {<<d, v>>},
              !.own[v] = None,
              !.pol = {p \in @ : p.d # d \/ v \notin {p.s, p.e}},
              !.gw = {x \in @ : x[1] # v},
              !.sub = {x \in @ : x[1] # v},
              !.stray = @ \ {v}]

(* Domain.delete: the tables of the domain are emptied; the VNIDs are      *)
(* taken from VNID_Hash only when the domain is deleted for good.          *)
Domain_Clear(t, d, for_good) ==
    LET vs == {v \in Vnid : <<d, v>> \in t.dvg}
    IN  [t EXCEPT !.dom = @ \ {d},
                  !.dvg = {x \in @ : x[1] # d},
                  !.own = [v \in Vnid |-> IF for_good /\ v \in vs THEN None ELSE @[v]],
                  !.pol = {p \in @ : p.d # d},
                  !.gw = {x \in @ : x[1] \notin vs},
                  !.sub = {x \in @ : x[1] \notin vs},
                  !.dsub = {x \in @ : x[1] # d},
                  !.stray = @ \ vs]

(* The constructor of a policy: it replaces an entry with the same key.    *)
Policy_New(t, d, tt, s, e, act) ==
    [t EXCEPT !.pol = {p \in @ : <<p.d, p.tt, p.s, p.e>> # <<d, tt, s, e>>}
                      \cup {[d |-> d, tt |-> tt, s |-> s, e |-> e, act |-> act]}]

Policy_update(t, d, tt, s, e, act) ==
    [t EXCEPT !.pol = {IF <<p.d, p.tt, p.s, p.e>> = <<d, tt, s, e>>
                       THEN [p EXCEPT !.act = act] ELSE p : p \in @}]

HasPolicy(t, d, tt, s, e) ==
    \E p \in t.pol : <<p.d, p.tt, p.s, p.e>> = <<d, tt, s, e>>

(* Policy.delete: for a policy of a VNID with itself the restoring update  *)
(* is called with three arguments where it takes two, and raises: the      *)
(* policy stays as it is.                                                  *)
Policy_delete(t, d, tt, s, e) ==
    IF s = e THEN t
    ELSE [t EXCEPT !.pol = {p \in @ : <<p.d, p.tt, p.s, p.e>> # <<d, tt, s, e>>}]

(* IPSubnetList.get compares with two names it does not define; every call *)
(* ends in the exception and answers NOT_FOUND.                            *)
IPSubnetList_get(list, s) == "NOT_FOUND"

-----------------------------------------------------------------------------
(* Mutant of Dvg_Add: without the test that the VNID is another domain's.  *)
DvgAddTakesOver(t, d, v) ==
    LET t1 == [t EXCEPT !.own[v] = d, !.glob = @ \cup {<<d, v>>}]
        t2 == [t1 EXCEPT !.dvg = @ \cup {<<d, v>>},
                         !.pol = @ \cup {[d |-> d, tt |-> tt, s |-> v, e |-> v,
                                          act |-> Allow] :
                                         tt \in Traffic}]
    IN  IF d \notin t.dom \/ <<d, v>> \in t.dvg THEN R(t1, "OK") ELSE R(t2, "OK")

(* A VNID of another domain is refused; the VNID is entered in both hash   *)
(* tables; a server with the domain also makes the VNID object, with an    *)
(* allow policy to itself for each type of traffic.                        *)
Dvg_Add(t, d, v) ==
    LET t1 == [t EXCEPT !.own[v] = d, !.glob = @ \cup {<<d, v>>}]
        t2 == [t1 EXCEPT !.dvg = @ \cup {<<d, v>>},
                         !.pol = {p \in @ : ~(p.d = d /\ p.s = v /\ p.e = v)} \cup
                                 {[d |-> d, tt |-> tt, s |-> v, e |-> v,
                                   act |-> Allow] :
                                  tt \in Traffic}]
    IN  IF t.own[v] \notin {None, d} THEN R(t, "EXISTS")
        ELSE IF d \notin t.dom \/ <<d, v>> \in t.dvg THEN R(t1, "OK")
        ELSE R(t2, "OK")

(* The answer to a query: a VNID of a domain that is here and lacks it is  *)
(* queued for the timer; a domain that no server has (nodes) is recovered, *)
(* which is DcsPlacement's.                                                *)
Dvg_Add_Query(t, d, v, nodes) ==
    IF d \notin t.dom
    THEN IF nodes = {} THEN R(t, "OK") ELSE Dvg_Add(t, d, v)
    ELSE R(IF <<d, v>> \in t.dvg THEN t ELSE [t EXCEPT !.rec[v] = d], "OK")

Dvg_Delete(t, v) ==
    LET d == t.own[v]
        t1 == IF d \in t.dom /\ <<d, v>> \in t.dvg THEN DVG_delete(t, d, v) ELSE t
    IN  R([t1 EXCEPT !.own[v] = None,
                     !.glob = IF d = None THEN @ ELSE @ \ {<<d, v>>},
                     !.rereg = @ \ {v}], "OK")

Dvg_Validate(t, d, v) ==
    IF d \notin t.dom THEN "INVALID_DOMAIN"
    ELSE IF <<d, v>> \in t.dvg THEN "OK" ELSE "INVALID_DVG"

Dvg_GetAllIds(t, d) == {v \in Vnid : d \in t.dom /\ <<d, v>> \in t.dvg}

(* The last lock section of Policy_Add: had_s and had_e say whether the    *)
(* objects of the two VNIDs were there when it read them.                  *)
Policy_Enter(t, d, tt, s, e, act, had_s, had_e) ==
    IF HasPolicy(t, d, tt, s, e) THEN R(Policy_update(t, d, tt, s, e, act), "OK")
    ELSE IF had_s /\ had_e THEN R(Policy_New(t, d, tt, s, e, act), "OK")
    ELSE R(t, "NO_RESOURCES")

(* The objects of the two VNIDs are read first.  For one that is missing   *)
(* the lock is released and the VNID added, but the object is not read     *)
(* again: the policy can only be made by a second call.                    *)
Policy_Add(t, d, tt, s, e, act) ==
    LET has_s == <<d, s>> \in t.dvg
        r1 == IF has_s THEN R(t, "OK") ELSE Dvg_Add(t, d, s)
        has_e == <<d, e>> \in r1.t.dvg
        r2 == IF has_e THEN R(r1.t, "OK") ELSE Dvg_Add(r1.t, d, e)
    IN  IF d \notin t.dom THEN R(t, "INVALID_DOMAIN")
        ELSE IF r1.s # "OK" THEN r1
        ELSE IF r2.s # "OK" THEN r2
        ELSE Policy_Enter(r2.t, d, tt, s, e, act, has_s, has_e)

Policy_Delete(t, d, tt, s, e) ==
    R(IF d \in t.dom THEN Policy_delete(t, d, tt, s, e) ELSE t, "OK")

Policy_Get(t, d, tt, s, e) ==
    IF d \in t.dom /\ HasPolicy(t, d, tt, s, e) THEN "OK" ELSE "INVALID_POLICY"

Policy_GetAllIds(t, d, tt) ==
    {<<p.s, p.e>> : p \in {x \in t.pol : d \in t.dom /\ x.d = d /\ x.tt = tt}}

(* What the gateway and subnet routines look up first.                     *)
Found(t, v) ==
    IF t.own[v] = None THEN "INVALID_DVG"
    ELSE IF t.own[v] \notin t.dom THEN "INVALID_DOMAIN"
    ELSE IF <<t.own[v], v>> \notin t.dvg THEN "INVALID_DVG"
    ELSE "OK"

External_Gateway_Add(t, v, g) ==
    R(IF Found(t, v) = "OK" THEN [t EXCEPT !.gw = @ \cup {<<v, g>>}] ELSE t, Found(t, v))
External_Gateway_Delete(t, v, g) ==
    R(IF Found(t, v) = "OK" THEN [t EXCEPT !.gw = @ \ {<<v, g>>}] ELSE t, Found(t, v))
External_Gateway_Clear(t, v) ==
    R(IF Found(t, v) = "OK" THEN [t EXCEPT !.gw = {x \in @ : x[1] # v}] ELSE t,
      Found(t, v))
External_Gateway_Validate(t, v, g) ==
    IF Found(t, v) # "OK" THEN Found(t, v)
    ELSE IF <<v, g>> \in t.gw THEN "OK" ELSE "INVALID_PARAMETER"
External_Gateway_GetAllIds(t, v) ==
    {g \in Gateway : Found(t, v) = "OK" /\ <<v, g>> \in t.gw}

(* DVG.ip_subnet_add: the VNID's list and the domain's.  The first subnet  *)
(* has the addresses of the endpoints looked up again, and the status of   *)
(* the last lookup is the result.                                          *)
DVG_ip_subnet_add(t, d, v, s) ==
    LET first == {x \in t.sub : x[1] = v} = {}
        clash == <<d, s>> \in t.dsub /\ IPSubnetList_get(t.dsub, s) = "OK"
    IN  IF clash THEN R(t, "INVALID_PARAMETER")
        ELSE R([t EXCEPT !.sub = @ \cup {<<v, s>>},
                         !.dsub = @ \cup {<<d, s>>},
                         !.stray = IF first THEN @ \ {v} ELSE @],
               IF first /\ v \in t.stray THEN "NOT_FOUND" ELSE "OK")

(* A subnet of a domain that is here ends with an unset result, which is   *)
(* an exception to the C function.                                         *)
IP_Subnet_Add(t, type, id, s) ==
    IF type = "domain" THEN R(t, IF id \in t.dom THEN "EXCEPTION" ELSE "INVALID_DOMAIN")
    ELSE IF Found(t, id) # "OK" THEN R(t, "INVALID_DVG")
    ELSE DVG_ip_subnet_add(t, t.own[id], id, s)

(* DVG.ip_subnet_delete: goes on only when the lookup finds the subnet.    *)
DVG_ip_subnet_delete(t, d, v, s) ==
    IF IPSubnetList_get(t.sub, s) # "OK" THEN t
    ELSE [t EXCEPT !.sub = @ \ {<<v, s>>}, !.dsub = @ \ {<<d, s>>}]

IP_Subnet_Delete(t, type, id, s) ==
    R(IF type = "vnid" /\ Found(t, id) = "OK"
      THEN DVG_ip_subnet_delete(t, t.own[id], id, s) ELSE t, "OK")

IP_Subnet_Get(t, type, id, s) ==
    IF type = "domain"
    THEN IF id \in t.dom THEN IPSubnetList_get(t.dsub, s) ELSE "INVALID_DOMAIN"
    ELSE IF Found(t, id) = "OK" THEN IPSubnetList_get(t.sub, s) ELSE "INVALID_DVG"

(* IPSubnetList.flush empties the list and returns a name that is not      *)
(* defined; the exception leaves the global lock locked.                   *)
IP_Subnet_Flush(t, id) ==
    IF Found(t, id) # "OK" THEN R(t, "INVALID_DVG")
    ELSE R([t EXCEPT !.sub = {x \in @ : x[1] # id}, !.stuck = TRUE], "EXCEPTION")

-----------------------------------------------------------------------------
RECURSIVE AddAll(_, _, _)
AddAll(t, d, vs) ==
    IF vs = {} THEN R(t, "OK")
    ELSE LET v == CHOOSE x \in vs : TRUE
             r == Dvg_Add(t, d, v)
         IN  IF r.s = "OK" THEN AddAll(r.t, d, vs \ {v}) ELSE r

(* The domain object goes with its VNIDs, then what is left of them in the *)
(* two global tables.                                                      *)
Domain_Delete(t, d) ==
    LET t1 == IF d \in t.dom THEN Domain_Clear(t, d, TRUE) ELSE t
        vs == {v \in Vnid : <<d, v>> \in t1.glob}
    IN  R([t1 EXCEPT !.own = [v \in Vnid |-> IF v \in vs THEN None ELSE @[v]],
                     !.glob = {x \in @ : x[1] # d},
                     !.rereg = @ \ vs], "OK")

(* The domain is made if it is not there, with every VNID known of it.     *)
Domain_Add_Local(t, d) ==
    LET r == AddAll([t EXCEPT !.dom = @ \cup {d}], d, {v \in Vnid : <<d, v>> \in t.glob})
    IN  IF r.s = "OK" THEN r ELSE R(Domain_Delete(r.t, d).t, r.s)

(* Outside a transfer; a VNID's place in the global tables stays.          *)
Domain_Deactivate(t, d) ==
    IF d \notin t.dom THEN R(t, "OK")
    ELSE R([Domain_Clear(t, d, FALSE) EXCEPT
                !.rereg = @ \ {v \in Vnid : <<d, v>> \in t.dvg}], "OK")

Domain_Delete_All_Local(t) ==
    [FoldSet(LAMBDA d, u : Domain_Deactivate(u, d).t, t, t.dom) EXCEPT !.dom = {}]

Domain_Validate(t, d) == IF d \in t.dom THEN "OK" ELSE "INVALID_DOMAIN"
Domain_GetAllIds(t) == t.dom

(* Delete, from Stop, and Start.  VNID_Recovery is not cleared.            *)
Delete(t) ==
    [Domain_Delete_All_Local([t EXCEPT !.rereg = {}]) EXCEPT
        !.started = FALSE, !.own = [v \in Vnid |-> None], !.glob = {}]
Start(t) == [t EXCEPT !.started = TRUE]

-----------------------------------------------------------------------------
(* controller_interface.c: one function per operation, which calls the     *)
(* routine of the same name; an exception of the routine is NO_MEMORY.     *)
Called(r) == IF r.s = "EXCEPTION" THEN R(r.t, "NO_MEMORY") ELSE r

dvg_add(t, d, v, query, nodes) ==
    IF query THEN Dvg_Add_Query(t, d, v, nodes) ELSE Dvg_Add(t, d, v)
dvg_delete(t, v) == Dvg_Delete(t, v)
dvg_validate(t, d, v) == R(t, Dvg_Validate(t, d, v))
dvg_getallids(t, d) == Dvg_GetAllIds(t, d)
show_vnid_info(t, v) == R(t, IF Found(t, v) = "OK" THEN "OK" ELSE "INVALID_DVG")
domains_clear(t) == R(Domain_Delete_All_Local(t), "OK")
domain_validate(t, d) == R(t, Domain_Validate(t, d))
domain_getallids(t) == Domain_GetAllIds(t)
domain_show(t, d) == R(t, Domain_Validate(t, d))
policy_add(t, d, tt, s, e, act) == Policy_Add(t, d, tt, s, e, act)
policy_delete(t, d, tt, s, e) == Policy_Delete(t, d, tt, s, e)
policy_get(t, d, tt, s, e) == R(t, Policy_Get(t, d, tt, s, e))
policy_getallids(t, d, tt) == Policy_GetAllIds(t, d, tt)
gateway_update(t, v, g, add) ==
    IF add THEN External_Gateway_Add(t, v, g) ELSE External_Gateway_Delete(t, v, g)
gateway_clear(t, v) == External_Gateway_Clear(t, v)
gateway_validate(t, v, g) == R(t, External_Gateway_Validate(t, v, g))
gateway_getallids(t, v) == External_Gateway_GetAllIds(t, v)
ip_subnet_add(t, type, id, s) == Called(IP_Subnet_Add(t, type, id, s))
ip_subnet_delete(t, type, id, s) == IP_Subnet_Delete(t, type, id, s)
ip_subnet_get(t, type, id, s) == R(t, IP_Subnet_Get(t, type, id, s))
ip_subnet_flush(t, id) == Called(IP_Subnet_Flush(t, id))

dcs_controller_interface_stop(t) == Delete(t)
dcs_controller_interface_start(t) == Start(t)

(* Nothing but the location of the console is served before the start.     *)
dps_controller_data_msg(t, res) == IF t.started THEN res ELSE R(t, "INACTIVE")

-----------------------------------------------------------------------------
(* rest_api.c.                                                             *)
dps_rest_api_domain_validate(t, d) == dps_controller_data_msg(t, domain_validate(t, d)).s
dps_rest_api_create_domain(t, d) == dps_controller_data_msg(t, Domain_Add_Local(t, d))
dps_rest_api_del_domain(t, d) == dps_controller_data_msg(t, Domain_Delete(t, d))
dps_rest_api_create_dvg(t, d, v, query, nodes) ==
    dps_controller_data_msg(t, dvg_add(t, d, v, query, nodes))
dps_rest_api_del_dvg(t, v) == dps_controller_data_msg(t, dvg_delete(t, v))
dps_rest_api_get_domain(t, d) == dps_controller_data_msg(t, domain_validate(t, d)).s
dps_rest_api_get_domain_all(t) == IF t.started THEN domain_getallids(t) ELSE {}
dps_rest_api_get_dvg(t, d, v) == dps_controller_data_msg(t, dvg_validate(t, d, v)).s
dps_rest_api_get_dvg_all(t, d) == IF t.started THEN dvg_getallids(t, d) ELSE {}
dps_rest_api_get_policy(t, d, tt, s, e) ==
    dps_controller_data_msg(t, policy_get(t, d, tt, s, e)).s
dps_rest_api_del_policy(t, d, tt, s, e) ==
    dps_controller_data_msg(t, policy_delete(t, d, tt, s, e))
dps_rest_api_create_policy(t, d, tt, s, e, act) ==
    dps_controller_data_msg(t, policy_add(t, d, tt, s, e, act))

(* A missing or ill-typed field of the body stops before the call.         *)
dps_rest_api_create_policy_from_jdata(t, d, q) ==
    IF q.malformed THEN R(t, "INVALID_PARAMETER")
    ELSE dps_rest_api_create_policy(t, d, q.tt, q.s, q.e, q.act)
dps_rest_api_update_policy(t, d, q) ==
    IF dps_rest_api_get_policy(t, d, q.tt, q.s, q.e) # "OK" THEN R(t, "INVALID_POLICY")
    ELSE IF q.malformed THEN R(t, "INVALID_PARAMETER")
    ELSE dps_rest_api_create_policy(t, d, q.tt, q.s, q.e, q.act)
dps_rest_api_get_policies_all(t, d) ==
    IF t.started THEN [tt \in Traffic |-> policy_getallids(t, d, tt)]
                 ELSE [tt \in Traffic |-> {}]
dps_rest_api_get_gateway_all(t, v) == IF t.started THEN gateway_getallids(t, v) ELSE {}
dps_rest_api_create_gateway(t, v, g) ==
    dps_controller_data_msg(t, gateway_update(t, v, g, TRUE))
dps_rest_api_get_gateway(t, v, g) == dps_controller_data_msg(t, gateway_validate(t, v, g)).s
dps_rest_api_del_gateway_all(t, v) == dps_controller_data_msg(t, gateway_clear(t, v))
dps_rest_api_del_gateway(t, v, g) ==
    dps_controller_data_msg(t, gateway_update(t, v, g, FALSE))
dps_rest_api_create_ipsubnet(t, type, id, s) ==
    dps_controller_data_msg(t, ip_subnet_add(t, type, id, s))
dps_rest_api_del_ipsubnet(t, type, id, s) ==
    dps_controller_data_msg(t, ip_subnet_delete(t, type, id, s))
dps_rest_api_get_ipsubnet(t, type, id, s) ==
    dps_controller_data_msg(t, ip_subnet_get(t, type, id, s)).s

-----------------------------------------------------------------------------
(* rest_req_handler.c.  A request is a method m, the resource its URI      *)
(* names, what the body says, and whether the body is malformed.           *)
Request == [m : {"GET", "PUT", "POST", "DELETE"},
            uri : {"domains", "domain", "dvgs", "dvg", "policies", "policy",
                   "gateways", "gateway", "vsubnet", "dsubnet"},
            d : Domain, v : Vnid, tt : Traffic, s : Vnid, e : Vnid,
            act : {Allow, Drop}, g : Gateway, sn : Subnet, malformed : BOOLEAN]

Answer(r, code) == Reply(r.t, IF r.s = "OK" THEN code ELSE 400)

dps_req_handler_domains(t, q) ==
    IF q.m = "GET" THEN Reply(t, 200)
    ELSE IF q.m # "POST" \/ q.malformed THEN Reply(t, IF q.m = "POST" THEN 400 ELSE 405)
    ELSE LET r == dps_rest_api_create_domain(t, q.d)
         IN  Reply(r.t, IF r.s = "OK" /\ dps_rest_api_get_domain(r.t, q.d) = "OK"
                        THEN 201 ELSE 400)

dps_req_handler_domain(t, q) ==
    IF q.m = "GET" THEN Answer(R(t, dps_rest_api_get_domain(t, q.d)), 200)
    ELSE IF q.m = "DELETE" THEN Answer(dps_rest_api_del_domain(t, q.d), 200)
    ELSE IF q.m # "PUT" THEN Reply(t, 405)
    ELSE IF q.malformed THEN Reply(t, 400)
    ELSE Answer(dps_controller_data_msg(t, Domain_Add_Local(t, q.d)), 200)

dps_req_handler_dvgs(t, q) ==
    IF q.m = "GET" THEN Reply(t, 200)
    ELSE IF q.m # "POST" THEN Reply(t, 405)
    ELSE IF q.malformed THEN Reply(t, 400)
    ELSE Answer(dps_rest_api_create_dvg(t, q.d, q.v, FALSE, {}), 201)

(* The PUT does not look at the body.                                      *)
dps_req_handler_dvg(t, q) ==
    IF q.m = "GET" THEN Answer(R(t, dps_rest_api_get_dvg(t, q.d, q.v)), 200)
    ELSE IF q.m = "PUT" THEN Answer(dps_rest_api_create_dvg(t, q.d, q.v, FALSE, {}), 200)
    ELSE IF q.m = "DELETE" THEN Answer(dps_rest_api_del_dvg(t, q.v), 200)
    ELSE Reply(t, 405)

dps_req_handler_policies(t, q) ==
    IF dps_rest_api_domain_validate(t, q.d) # "OK" THEN Reply(t, 400)
    ELSE IF q.m = "GET" THEN Reply(t, 200)
    ELSE IF q.m # "POST" THEN Reply(t, 405)
    ELSE LET r == dps_rest_api_create_policy_from_jdata(t, q.d, q)
         IN  Reply(r.t, IF /\ r.s = "OK"
                           /\ dps_rest_api_get_policy(r.t, q.d, q.tt, q.s, q.e) = "OK"
                        THEN 201 ELSE 400)

(* The PUT of a policy: by its key in the body.                            *)
policy_put(t, q) ==
    IF q.malformed THEN Reply(t, 400)
    ELSE IF dps_rest_api_get_policy(t, q.d, q.tt, q.s, q.e) = "OK"
    THEN Answer(dps_rest_api_update_policy(t, q.d, q), 200)
    ELSE Answer(dps_rest_api_create_policy(t, q.d, q.tt, q.s, q.e, q.act), 201)

(* The code that takes the key from the URI is compiled out: a GET and a   *)
(* DELETE are for the VNIDs 0 and 0, which no policy has.                  *)
dps_req_handler_policy(t, q) ==
    IF dps_rest_api_domain_validate(t, q.d) # "OK" THEN Reply(t, 400)
    ELSE IF q.m = "GET" THEN Reply(t, 400)
    ELSE IF q.m = "PUT" THEN policy_put(t, q)
    ELSE IF q.m = "DELETE" THEN Reply(t, 200)
    ELSE Reply(t, 405)

dps_req_handler_gateways(t, q) ==
    IF q.m = "GET" THEN Reply(t, 200)
    ELSE IF q.m = "DELETE" THEN Answer(dps_rest_api_del_gateway_all(t, q.v), 200)
    ELSE IF q.m # "POST" THEN Reply(t, 405)
    ELSE IF q.malformed THEN Reply(t, 400)
    ELSE LET r == dps_rest_api_create_gateway(t, q.v, q.g)
         IN  Reply(r.t, IF r.s = "OK" /\ dps_rest_api_get_gateway(r.t, q.v, q.g) = "OK"
                        THEN 201 ELSE 400)

dps_req_handler_gateway(t, q) ==
    IF q.m = "GET" THEN Answer(R(t, dps_rest_api_get_gateway(t, q.v, q.g)), 200)
    ELSE IF q.m = "DELETE" THEN Answer(dps_rest_api_del_gateway(t, q.v, q.g), 200)
    ELSE Reply(t, 405)

(* The address and mask of a GET and a DELETE are never set; whatever they *)
(* are, the lookup does not find them.                                     *)
dps_req_handler_ipsubnet(t, q) ==
    LET type == IF q.uri = "vsubnet" THEN "vnid" ELSE "domain"
        id == IF q.uri = "vsubnet" THEN q.v ELSE q.d
    IN  IF q.m = "GET" THEN Answer(R(t, dps_rest_api_get_ipsubnet(t, type, id, q.sn)), 200)
        ELSE IF q.m = "DELETE" THEN Answer(dps_rest_api_del_ipsubnet(t, type, id, q.sn), 200)
        ELSE IF q.m # "PUT" THEN Reply(t, 405)
        ELSE IF q.malformed THEN Reply(t, 400)
        ELSE Answer(dps_rest_api_create_ipsubnet(t, type, id, q.sn), 201)

(* The table of callbacks the server sets up.                              *)
http_server_main(t, q) ==
    CASE q.uri = "domains" -> dps_req_handler_domains(t, q)
      [] q.uri = "domain" -> dps_req_handler_domain(t, q)
      [] q.uri = "dvgs" -> dps_req_handler_dvgs(t, q)
      [] q.uri = "dvg" -> dps_req_handler_dvg(t, q)
      [] q.uri = "policies" -> dps_req_handler_policies(t, q)
      [] q.uri = "policy" -> dps_req_handler_policy(t, q)
      [] q.uri = "gateways" -> dps_req_handler_gateways(t, q)
      [] q.uri = "gateway" -> dps_req_handler_gateway(t, q)
      [] q.uri \in {"vsubnet", "dsubnet"} -> dps_req_handler_ipsubnet(t, q)

-----------------------------------------------------------------------------
(* cluster_rest_req_handler.c: what the node a domain moves to is sent.    *)

(* The result of the single VNIDs is not looked at.                        *)
dps_req_handler_domain_vnid_listing(t, m, d, vs) ==
    Reply(FoldSet(LAMBDA v, u : dps_controller_data_msg(u,
                      IF m = "PUT" THEN dvg_add(u, d, v, FALSE, {}) ELSE dvg_delete(u, v)).t,
                  t, vs), 200)

(* Both stop at the first entry that fails.                                *)
dps_req_handler_domain_bulk_policy(t, d, ps) ==
    LET r == FoldSet(LAMBDA p, u : IF u.s # "OK" THEN u
                                   ELSE dps_rest_api_create_policy(u.t, d, p.tt, p.s, p.e, p.act),
                     R(t, "OK"), ps)
    IN  Answer(r, 200)

dps_req_handler_domain_bulk_ip4subnets(t, xs) ==
    LET r == FoldSet(LAMBDA x, u : IF u.s # "OK" THEN u
                                   ELSE dps_rest_api_create_ipsubnet(u.t, "vnid", x[1], x[2]),
                     R(t, "OK"), xs)
    IN  Answer(r, 200)

-----------------------------------------------------------------------------
(* The commands of the console of a node, data_objects.c of the CLI.       *)
Command == [c : {"domain_add", "domain_delete", "domains_clear", "domain_deactivate",
                 "dvg_add", "dvg_delete", "policy_add", "policy_delete",
                 "gateway_update", "gateway_clear", "ip_subnet_add",
                 "ip_subnet_delete", "ip_subnet_flush"},
            d : Domain, v : Vnid, w : Vnid, tt : Traffic, act : {Allow, Drop},
            g : Gateway, sn : Subnet, add : BOOLEAN]

cli_domain_add(t, k) == dps_controller_data_msg(t, Domain_Add_Local(t, k.d))
cli_domain_delete(t, k) == dps_controller_data_msg(t, Domain_Delete(t, k.d))
cli_domains_clear(t) == dps_controller_data_msg(t, domains_clear(t))
cli_domain_deactivate(t, k) == dps_controller_data_msg(t, Domain_Deactivate(t, k.d))
cli_dvg_add(t, k) == dps_controller_data_msg(t, dvg_add(t, k.d, k.v, FALSE, {}))
cli_dvg_delete(t, k) == dps_controller_data_msg(t, dvg_delete(t, k.v))
cli_policy_add(t, k) == dps_controller_data_msg(t, policy_add(t, k.d, k.tt, k.v, k.w, k.act))
cli_policy_delete(t, k) == dps_controller_data_msg(t, policy_delete(t, k.d, k.tt, k.v, k.w))
cli_gateway_update(t, k) == dps_controller_data_msg(t, gateway_update(t, k.v, k.g, k.add))
cli_gateway_clear(t, k) == dps_controller_data_msg(t, gateway_clear(t, k.v))
cli_ip_subnet_add(t, k) == dps_controller_data_msg(t, ip_subnet_add(t, "vnid", k.v, k.sn))
cli_ip_subnet_delete(t, k) ==
    dps_controller_data_msg(t, ip_subnet_delete(t, "vnid", k.v, k.sn))
cli_ip_subnet_flush(t, k) == dps_controller_data_msg(t, ip_subnet_flush(t, k.v))

cli_data_object_callback(t, k) ==
    CASE k.c = "domain_add" -> cli_domain_add(t, k)
      [] k.c = "domain_delete" -> cli_domain_delete(t, k)
      [] k.c = "domains_clear" -> cli_domains_clear(t)
      [] k.c = "domain_deactivate" -> cli_domain_deactivate(t, k)
      [] k.c = "dvg_add" -> cli_dvg_add(t, k)
      [] k.c = "dvg_delete" -> cli_dvg_delete(t, k)
      [] k.c = "policy_add" -> cli_policy_add(t, k)
      [] k.c = "policy_delete" -> cli_policy_delete(t, k)
      [] k.c = "gateway_update" -> cli_gateway_update(t, k)
      [] k.c = "gateway_clear" -> cli_gateway_clear(t, k)
      [] k.c = "ip_subnet_add" -> cli_ip_subnet_add(t, k)
      [] k.c = "ip_subnet_delete" -> cli_ip_subnet_delete(t, k)
      [] k.c = "ip_subnet_flush" -> cli_ip_subnet_flush(t, k)
=============================================================================
