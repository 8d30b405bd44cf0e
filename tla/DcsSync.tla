------------------------------- MODULE DcsSync -------------------------------
(***************************************************************************)
(* How the configuration kept at the console reaches the nodes of a DCS    *)
(* cluster (rest_sync.c, rest_main.c, rest_forward.c), and the two other   *)
(* ways it changes: a node that meets an unknown VNID asks the console for *)
(* it (DVG_Recovery_Routine), and someone types a command on the console   *)
(* of a node (cli/src/data_objects.c).                                     *)
(*                                                                         *)
(* Every four seconds the leader walks through the change versions from    *)
(* the cluster's version on (DmcChanges): it asks for the object at a      *)
(* version, gets the object, and sends itself a PUT or DELETE of it, which *)
(* its own HTTP server forwards to every node concerned, one after the     *)
(* other, and carries out itself last.  A node that carried one out takes  *)
(* the version in the body for its own, and the cluster's version follows  *)
(* the highest version a node has reported.                                *)
(*                                                                         *)
(* Who hosts a domain (host) is DcsPlacement's; it is one map here.        *)
(***************************************************************************)
EXTENDS DcsTenant, DmcChanges, SequencesExt

CONSTANTS
    Node,
    Object,      \* the console's objects: [k, d, v, w, sn], see Uri
    Scenarios,   \* what the console does and what may go wrong, see Scenario
    NoObject

Kinds == {"domain", "network", "policy", "subnet", "untracked"}
Troubles == {"lost", "getfail", "collide", "role", "leader", "ask", "cli", "move", "rereg"}

(* script: the console's changes in order, old of them made before the     *)
(* cluster starts; may: the troubles of Troubles that may happen, most of  *)
(* them in all; cli: the commands typed.                                   *)
Scenario == [script : Seq([o : Object, tomb : BOOLEAN, act : {Allow, Drop}]), old : Nat,
             up : SUBSET Node, hosts : Nat, may : SUBSET Troubles, most : Nat,
             cli : SUBSET Command]

VARIABLES
    sc,          \* the scenario
    dmc,         \* the console's changes, DmcChanges
    action,      \* action[o]: the action of a policy at the console
    done,        \* how much of the script is done
    cfg,         \* cfg[n]: the configuration of the node, DcsTenant
    ver,         \* ver[n]: the three versions of the node, see Versions
    leader,
    host,        \* host[d]: the nodes listed for a domain
    sync,        \* sync[n]: the sync thread, and the request it has sent
    work,        \* work[n]: the timer thread recovering a VNID
    net,         \* VNIDs told to the other nodes, in flight
    why,         \* why[o]: why an object may not be as the console has it
    left         \* troubles left

vars == <<sc, dmc, action, done, cfg, ver, leader, host, sync, work, net, why, left>>

(* own: dmc_config_version of the node; py: that of the cluster; c: its    *)
(* copy cluster_config_version.                                            *)
Versions == [own : Nat, py : Nat, c : Nat]

(* pc "query": about to ask for version v; "get": about to get object o;   *)
(* "fwd": the request goes to the nodes of todo.                           *)
SyncThread == [pc : {"idle", "query", "get", "fwd"}, v : Nat, start : Nat, next : Nat,
               o : Object \cup {NoObject}, del : BOOLEAN, act : {Allow, Drop},
               body : Nat, todo : SUBSET Node, did : BOOLEAN]
Asleep == [pc |-> "idle", v |-> 0, start |-> 0, next |-> 0, o |-> NoObject,
           del |-> FALSE, act |-> Allow, body |-> 0, todo |-> {}, did |-> FALSE]

Recovery == [pc : {"idle", "ask", "add", "subnets", "end"}, v : Vnid \cup {None},
             todo : SUBSET (Traffic \X Vnid \X Vnid),
             key : (Traffic \X Vnid \X Vnid) \cup {None}, act : {Allow, Drop}]
Resting == [pc |-> "idle", v |-> None, todo |-> {}, key |-> None, act |-> Allow]

Exists(o) == dmc.last[o] > 0 /\ ~dmc.tomb[o]

(* The domain an object is in, and the networks it is about.               *)
Parents(o) == {p \in Object \ {o} : /\ p.k \in {"domain", "network"} /\ p.d = o.d
                                    /\ p.k = "network" => o.k # "domain" /\ p.v \in {o.v, o.w}}

Init ==
    /\ sc \in Scenarios
    /\ done = sc.old
    /\ dmc = FoldLeft(LAMBDA x, e : ChangeObject(x, e.o, e.tomb), NoChanges(Object),
                      SubSeq(sc.script, 1, sc.old))
    /\ action = FoldLeft(LAMBDA x, e : [x EXCEPT ![e.o] = e.act], [o \in Object |-> Allow],
                         SubSeq(sc.script, 1, sc.old))
    /\ cfg = [n \in Node |-> [Fresh({}, {}) EXCEPT !.started = n \in sc.up]]
    /\ ver = [n \in Node |-> [own |-> 0, py |-> 0, c |-> 0]]
    /\ leader \in sc.up
    /\ host = [d \in Domain |-> {}]
    /\ sync = [n \in Node |-> Asleep]
    /\ work = [n \in Node |-> Resting]
    /\ net = {}
    /\ why = [o \in Object |-> {}]
    /\ left = sc.most

Trouble(kind) == kind \in sc.may /\ left > 0 /\ left' = left - 1
Blame(objects, cause) == [o \in Object |-> IF o \in objects THEN why[o] \cup {cause} ELSE why[o]]

-----------------------------------------------------------------------------
(* The console.                                                            *)
Change ==
    /\ done < Len(sc.script)
    /\ LET e == sc.script[done + 1]
       IN  /\ dmc' = ChangeObject(dmc, e.o, e.tomb)
           /\ action' = [action EXCEPT ![e.o] = e.act]
    /\ done' = done + 1
    /\ UNCHANGED <<sc, cfg, ver, leader, host, sync, work, net, why, left>>

Collide ==
    /\ Trouble("collide")
    /\ done + 1 < Len(sc.script)
    /\ LET e == sc.script[done + 1]
           f == sc.script[done + 2]
       IN  /\ e.o # f.o
           /\ dmc' = ChangeAtOnce(dmc, e.o, e.tomb, f.o, f.tomb)
           /\ action' = [action EXCEPT ![e.o] = e.act, ![f.o] = f.act]
           /\ why' = Blame({f.o}, "collided")
    /\ done' = done + 2
    /\ UNCHANGED <<sc, cfg, ver, leader, host, sync, work, net>>

-----------------------------------------------------------------------------
(* The request a change becomes.                                           *)
Uri(o) == CASE o.k = "domain" -> "domain" [] o.k = "network" -> "dvg"
            [] o.k = "policy" -> "policy" [] o.k = "subnet" -> "vsubnet"
RequestFor(o, del, act) ==
    [m |-> IF del THEN "DELETE" ELSE "PUT", uri |-> Uri(o), d |-> o.d, v |-> o.v,
     tt |-> CHOOSE tt \in Traffic : TRUE, s |-> o.v, e |-> o.w, act |-> act,
     g |-> CHOOSE g \in Gateway : TRUE, sn |-> o.sn, malformed |-> FALSE]

(* The change_version in the body of a request: that of the object's last  *)
(* change.  Putting the version asked for in its place fails, as the value *)
(* is not a JSON object.                                                   *)
dps_rest_sync_update_change_version_to_current(o) == dmc.last[o]
dps_rest_sync_version_get_from_req(s) == IF s.del THEN {} ELSE {s.body}
dps_rest_sync_delete_indicated_in_req(o) == dmc.tomb[o]

(* A node with the global lock left locked never answers.                  *)
Answers(n) == ~cfg[n].stuck
(* Without the role the REST handlers find nothing started.                *)
Carried(n, q) == http_server_main(cfg[n], q)
dps_rest_sync_dmc_agent(code) == code \in {200, 201}

(* Node_Heartbeat, for a version reported by a node: the cluster's version *)
(* and its copy only follow a higher one.                                  *)
Raised(w, version) == IF w.py < version THEN [w EXCEPT !.py = version, !.c = version] ELSE w
Node_Heartbeat(w, version) == Raised([w EXCEPT !.own = version], version)

(* http_request_dispatch of a node that carries the request out: on        *)
(* success the version in the body is the node's; a DELETE has no body.    *)
http_request_version_update(w, code, s) ==
    IF dps_rest_sync_version_get_from_req(s) # {} /\ code \in {200, 201}
    THEN Node_Heartbeat(w, s.body) ELSE w

(* The nodes a request is forwarded to.  A PUT of a domain nobody hosts    *)
(* goes to the least loaded nodes; a network, and every DELETE of a        *)
(* network or domain, to all; the rest to the nodes of its domain, which   *)
(* for a subnet is that of its VNID.                                       *)
dps_rest_forward_get_domainid(n, o) ==
    IF o.k = "subnet" THEN cfg[n].own[o.v] ELSE o.d
Targets(n, o, del) ==
    LET d == dps_rest_forward_get_domainid(n, o)
    IN  IF d = None THEN {}
        ELSE IF o.k = "network" \/ (o.k = "domain" /\ del) THEN {sc.up}
        ELSE IF o.k = "domain" /\ host[d] = {}
        THEN {S \in SUBSET sc.up : Cardinality(S) = sc.hosts}
        ELSE {host[d]} \ {{}}

-----------------------------------------------------------------------------
(* The sync thread, dps_rest_sync_process.                                 *)

dps_rest_sync_cluster_version_get(n) == ver[n].c

(* Mutant of dps_rest_sync_main: starts at the version it already has.     *)
MainFromCurrent(n) ==
    LET first == dps_rest_sync_cluster_version_get(n)
    IN  /\ sync[n].pc = "idle"
        /\ n = leader /\ cfg[n].started
        /\ versionExists(dmc, first)
        /\ sync' = [sync EXCEPT ![n] = [Asleep EXCEPT !.pc = "query", !.v = first, !.start = first]]
        /\ UNCHANGED <<sc, dmc, action, done, cfg, ver, leader, host, work, net, why, left>>

(* A round starts after the cluster's version; one that finds no change    *)
(* changes nothing.                                                        *)
dps_rest_sync_main(n) ==
    LET first == dps_rest_sync_cluster_version_get(n) + 1
    IN  /\ sync[n].pc = "idle"
        /\ n = leader /\ cfg[n].started
        /\ versionExists(dmc, first)
        /\ sync' = [sync EXCEPT ![n] = [Asleep EXCEPT !.pc = "query", !.v = first, !.start = first]]
        /\ UNCHANGED <<sc, dmc, action, done, cfg, ver, leader, host, work, net, why, left>>

Pause(n) == sync' = [sync EXCEPT ![n] = Asleep]
GoOn(n) == sync' = [sync EXCEPT ![n] = [Asleep EXCEPT !.pc = "query", !.v = sync[n].next,
                                                      !.start = sync[n].start]]

(* The answer for a version: the object, its method and the next version.  *)
dps_rest_sync_version_resp_parser(s) ==
    LET o == dmc.db[s.v]
    IN  [s EXCEPT !.next = NextChange(dmc, s.v), !.o = o, !.del = dmc.tomb[o]]

(* The role and the leader are looked at before each version.  No answer,  *)
(* or one without content, ends the round; an object that is not for the   *)
(* DCS has a blank URI, and only raises the copy of the version.           *)
dps_rest_sync_version_query(n) ==
    LET s == sync[n]
        s1 == dps_rest_sync_version_resp_parser(s)
    IN  /\ s.pc = "query"
        /\ IF n # leader \/ ~versionExists(dmc, s.v)
           THEN Pause(n) /\ UNCHANGED <<ver, why>>
           ELSE /\ why' = Blame(PassedOver(dmc, s.v), "passed over")
                /\ IF s1.o.k = "untracked"
                   THEN /\ ver' = IF s.v > s.start THEN [ver EXCEPT ![n].c = s.v] ELSE ver
                        /\ sync' = [sync EXCEPT ![n] =
                              [Asleep EXCEPT !.pc = "query", !.v = s1.next, !.start = s.start]]
                   ELSE /\ sync' = [sync EXCEPT ![n] = [s1 EXCEPT !.pc = "get"]]
                        /\ UNCHANGED ver
        /\ UNCHANGED <<sc, dmc, action, done, cfg, leader, host, work, net, left>>

(* The object as it is now.  If it cannot be got the version is passed.    *)
dps_rest_sync_target_uri_get(n) ==
    LET s == sync[n]
        del == s.del \/ dps_rest_sync_delete_indicated_in_req(s.o)
    IN  /\ s.pc = "get"
        /\ \E T \in Targets(n, s.o, del) \cup {{}} :
              /\ T = {} => Targets(n, s.o, del) = {}
              /\ sync' = [sync EXCEPT ![n].pc = "fwd", ![n].del = del, ![n].act = action[s.o],
                                      ![n].todo = T,
                                      ![n].body = dps_rest_sync_update_change_version_to_current(s.o)]
              /\ host' = IF s.o.k # "domain" THEN host
                         ELSE [host EXCEPT ![s.o.d] = IF del THEN {} ELSE T]
        /\ why' = IF dmc.last[s.o] < s.next THEN why
                  ELSE Blame({dmc.db[k] : k \in s.next .. dmc.last[s.o]} \ {s.o}, "overtaken")
        /\ UNCHANGED <<sc, dmc, action, done, cfg, ver, leader, work, net, left>>

GetFails(n) ==
    /\ sync[n].pc = "get"
    /\ Trouble("getfail")
    /\ why' = Blame({sync[n].o}, "not got")
    /\ GoOn(n)
    /\ UNCHANGED <<sc, dmc, action, done, cfg, ver, leader, host, work, net>>

(* Mutant of Failed: a PUT does not end the round.                         *)
FailedGoesOn(n, w, applied) ==
    LET s == sync[n]
    IN  /\ GoOn(n)
        /\ ver' = IF s.del THEN [w EXCEPT ![n] = Node_Heartbeat(w[n], s.v)] ELSE w
        /\ why' = IF s.del THEN Blame({s.o}, "not deleted everywhere")
                  ELSE IF applied THEN Blame({s.o}, "partly done") ELSE why

(* The request has failed.  A PUT ends the round, to be tried again in the *)
(* next one; a DELETE counts as done.                                      *)
Failed(n, w, applied) ==
    LET s == sync[n]
    IN  IF s.del
        THEN /\ GoOn(n)
             /\ ver' = [w EXCEPT ![n] = Node_Heartbeat(w[n], s.v)]
             /\ why' = Blame({s.o}, "not deleted everywhere")
        ELSE /\ Pause(n)
             /\ ver' = w
             /\ why' = IF applied THEN Blame({s.o}, "partly done") ELSE why

(* dps_rest_forward_sequence_process: the other nodes, one by one; the     *)
(* first failure is the answer.                                            *)
dps_rest_forward_sequence_process(n, m) ==
    LET s == sync[n]
        r == Carried(m, RequestFor(s.o, s.del, s.act))
        w == [ver EXCEPT ![m] = http_request_version_update(ver[m], r.code, s)]
    IN  /\ s.pc = "fwd" /\ m \in s.todo \ {n}
        /\ Answers(m)
        /\ cfg' = [cfg EXCEPT ![m] = r.t]
        /\ IF dps_rest_sync_dmc_agent(r.code)
           THEN /\ sync' = [sync EXCEPT ![n].todo = @ \ {m}, ![n].did = TRUE]
                /\ ver' = w
                /\ UNCHANGED why
           ELSE Failed(n, w, s.did)
        /\ UNCHANGED <<sc, dmc, action, done, leader, host, work, net, left>>

(* The request or the answer is lost.                                      *)
ForwardTimesOut(n, m) ==
    LET s == sync[n]
        r == Carried(m, RequestFor(s.o, s.del, s.act))
        w == [ver EXCEPT ![m] = http_request_version_update(ver[m], r.code, s)]
    IN  /\ s.pc = "fwd" /\ m \in s.todo \ {n}
        /\ Answers(m) /\ Trouble("lost")
        /\ \E arrives \in BOOLEAN :
              /\ cfg' = IF arrives THEN [cfg EXCEPT ![m] = r.t] ELSE cfg
              /\ Failed(n, IF arrives THEN w ELSE ver, s.did \/ arrives)
        /\ UNCHANGED <<sc, dmc, action, done, leader, host, work, net>>

(* A node that never answers.                                              *)
ForwardUnanswered(n, m) ==
    /\ sync[n].pc = "fwd" /\ m \in sync[n].todo \ {n}
    /\ ~Answers(m)
    /\ Failed(n, ver, sync[n].did)
    /\ UNCHANGED <<sc, dmc, action, done, cfg, leader, host, work, net, left>>

(* The node itself comes last, if it is one of the nodes; without any node *)
(* the request is never answered.                                          *)
http_request_dispatch(n) ==
    LET s == sync[n]
        r == Carried(n, RequestFor(s.o, s.del, s.act))
        w == [ver EXCEPT ![n] = http_request_version_update(ver[n], r.code, s)]
        after == IF s.del THEN [w EXCEPT ![n] = Node_Heartbeat(w[n], s.v)] ELSE w
    IN  /\ s.pc = "fwd" /\ s.todo \subseteq {n}
        /\ IF s.todo = {}
           THEN /\ UNCHANGED cfg
                /\ IF s.did
                   THEN /\ GoOn(n) /\ UNCHANGED why
                        /\ ver' = IF s.del THEN [ver EXCEPT ![n] = Node_Heartbeat(ver[n], s.v)]
                                  ELSE ver
                   ELSE Failed(n, ver, FALSE)
           ELSE IF ~Answers(n) THEN Failed(n, ver, s.did) /\ UNCHANGED cfg
           ELSE /\ cfg' = [cfg EXCEPT ![n] = r.t]
                /\ IF dps_rest_sync_dmc_agent(r.code) THEN GoOn(n) /\ ver' = after /\ UNCHANGED why
                   ELSE Failed(n, w, s.did)
        /\ UNCHANGED <<sc, dmc, action, done, leader, host, work, net, left>>

-----------------------------------------------------------------------------
(* The cluster.                                                            *)

(* A node reports its version to the leader, which tells all nodes its own.*)
NodeHeartbeat(m) ==
    LET w == [ver EXCEPT ![leader] = Raised(@, ver[m].own)]
    IN  /\ m \in sc.up
        /\ ver' = [n \in Node |-> IF n \in sc.up THEN Raised(w[n], w[leader].py) ELSE w[n]]
        /\ ver' # ver
        /\ UNCHANGED <<sc, dmc, action, done, cfg, leader, host, sync, work, net, why, left>>

(* The request the old leader has sent goes on; a policy that comes late   *)
(* makes the VNIDs it is about anew.                                       *)
LeaderChanges ==
    /\ Trouble("leader")
    /\ leader' \in sc.up \ {leader}
    /\ why' = IF sync[leader].o = NoObject THEN why
              ELSE Blame({sync[leader].o} \cup Parents(sync[leader].o), "leader changed")
    /\ UNCHANGED <<sc, dmc, action, done, cfg, ver, host, sync, work, net>>

(* dcs_set_service_role: the role is taken from a node and given to it     *)
(* again.  Its configuration and the cluster's version go, its own version *)
(* stays.  Not while its sync thread or timer thread is at work.           *)
dcs_set_service_role(n) ==
    /\ Trouble("role")
    /\ n \in sc.up /\ sync[n].pc = "idle" /\ work[n].pc = "idle"
    /\ cfg' = [cfg EXCEPT ![n] = dcs_controller_interface_start(dcs_controller_interface_stop(@))]
    /\ ver' = [ver EXCEPT ![n].py = 0, ![n].c = 0]
    /\ host' = [d \in Domain |-> host[d] \ {n}]
    /\ why' = Blame({o \in Object : dmc.last[o] > 0}, "role taken")
    /\ UNCHANGED <<sc, dmc, action, done, leader, sync, work, net>>

(* What a node that has a domain sends of it: the VNIDs, the policies and  *)
(* the subnets, a request each.                                            *)
dps_cluster_vnid_replication(from, to, d) ==
    dps_req_handler_domain_vnid_listing(to, "PUT", d, dps_rest_api_get_dvg_all(from, d)).t
dps_cluster_bulk_policy_replication(from, to, d) ==
    dps_req_handler_domain_bulk_policy(to, d, {p \in from.pol : p.d = d}).t
dps_cluster_bulk_ip4subnet_replication(from, to, d) ==
    dps_req_handler_domain_bulk_ip4subnets(to, {x \in from.sub : from.own[x[1]] = d})

(* A domain is given to one more node.  The target has told already that   *)
(* it is ready; the changes meanwhile are DcsMassTransfer's.               *)
MoveDomain(m, n, d) ==
    LET from == cfg[m]
        t0 == dps_rest_api_create_domain(cfg[n], d).t
        t1 == dps_cluster_vnid_replication(from, t0, d)
        t2 == dps_cluster_bulk_policy_replication(from, t1, d)
        t3 == dps_cluster_bulk_ip4subnet_replication(from, t2, d)
    IN  /\ Trouble("move")
        /\ m \in host[d] /\ n \in sc.up \ host[d] /\ d \in from.dom /\ d \notin cfg[n].dom
        /\ \A k \in Node : sync[k].pc # "fwd"
        /\ Answers(n)
        /\ t3.code = 200
        /\ cfg' = [cfg EXCEPT ![n] = t3.t]
        /\ host' = [host EXCEPT ![d] = @ \cup {n}]
        /\ UNCHANGED <<sc, dmc, action, done, ver, leader, sync, work, net, why>>

-----------------------------------------------------------------------------
(* A client of a node uses a VNID the node does not know: the console is   *)
(* asked, and its answer queues the VNID for the timer.                    *)
Networks(d) == {o \in Object : o.k = "network" /\ o.d = d /\ Exists(o)}
dps_process_vnids(n, o) ==
    /\ Trouble("ask")
    /\ n \in sc.up /\ cfg[n].started /\ Answers(n)
    /\ o.k = "network" /\ Exists(o)
    /\ cfg[n].own[o.v] = None
    /\ cfg' = [cfg EXCEPT ![n] =
          FoldSet(LAMBDA x, t : dps_rest_api_create_dvg(t, x.d, x.v, TRUE, host[x.d]).t,
                  dps_rest_api_create_dvg(@, o.d, o.v, TRUE, host[o.d]).t,
                  Networks(o.d) \ {o})]
    /\ UNCHANGED <<sc, dmc, action, done, ver, leader, host, sync, work, net, why>>

(* DVG_Recovery_Routine by VNID_Recovery_Timeout, first part: the VNID is  *)
(* made, if its domain is still here.                                      *)
DVG_Recovery_Routine(n) ==
    /\ work[n].pc = "idle" /\ cfg[n].started /\ Answers(n)
    /\ \E v \in Vnid :
         LET d == cfg[n].rec[v]
             others == Dvg_GetAllIds(cfg[n], d) \ {v}
         IN  /\ d # None
             /\ IF d \notin cfg[n].dom
                THEN /\ work' = [work EXCEPT ![n] = [Resting EXCEPT !.pc = "end", !.v = v]]
                     /\ UNCHANGED <<cfg, why>>
                ELSE /\ cfg' = [cfg EXCEPT ![n] = Dvg_Add(@, d, v).t]
                     /\ why' = Blame({o \in Object : o.k = "network" /\ o.v = v /\ ~Exists(o)},
                                     "recovered")
                     /\ work' = [work EXCEPT ![n] =
                          [Resting EXCEPT !.pc = "ask", !.v = v,
                             !.todo = {<<tt, v, v>> : tt \in Traffic} \cup
                                      {<<tt, v, x>> : tt \in Traffic, x \in others} \cup
                                      {<<tt, x, v>> : tt \in Traffic, x \in others}]]
    /\ UNCHANGED <<sc, dmc, action, done, ver, leader, host, sync, net, left>>

PolicyObject(d, key) ==
    {o \in Object : o.k = "policy" /\ o.d = d /\ <<o.v, o.w>> = <<key[2], key[3]>>
                    /\ Exists(o) /\ key[1] = CHOOSE tt \in Traffic : TRUE}

(* One policy is asked for; what the console does not have is not added.   *)
dps_query_dmc_policy_info(n) ==
    /\ work[n].pc = "ask"
    /\ LET d == cfg[n].rec[work[n].v]
       IN  IF work[n].todo = {} \/ ~cfg[n].started
           THEN work' = [work EXCEPT ![n].pc = IF cfg[n].started THEN "subnets" ELSE "end"]
           ELSE LET key == CHOOSE k \in work[n].todo : TRUE
                IN  IF PolicyObject(d, key) = {}
                    THEN work' = [work EXCEPT ![n].todo = @ \ {key}]
                    ELSE work' = [work EXCEPT ![n].todo = @ \ {key}, ![n].pc = "add",
                                     ![n].key = key,
                                     ![n].act = action[CHOOSE o \in PolicyObject(d, key) : TRUE]]
    /\ UNCHANGED <<sc, dmc, action, done, cfg, ver, leader, host, sync, net, why, left>>

(* The answer is put in, whatever has happened to the policy meanwhile.    *)
AddRecoveredPolicy(n) ==
    LET d == cfg[n].rec[work[n].v]
        k == work[n].key
        stale == {o \in Object : o.k = "policy" /\ <<o.v, o.w>> = <<k[2], k[3]>>
                                 /\ (~Exists(o) \/ action[o] # work[n].act)}
        nets == {o \in Object : o.k = "network" /\ o.v \in {k[2], k[3]} /\ ~Exists(o)}
    IN  /\ work[n].pc = "add" /\ Answers(n)
        /\ cfg' = [cfg EXCEPT ![n] = dps_controller_data_msg(@,
                      policy_add(@, d, k[1], k[2], k[3], work[n].act)).t]
        /\ why' = Blame(stale \cup nets, "recovered")
        /\ work' = [work EXCEPT ![n].pc = "ask", ![n].key = None, ![n].act = Allow]
        /\ UNCHANGED <<sc, dmc, action, done, ver, leader, host, sync, net, left>>

dps_process_vnid_subnets(n) ==
    LET v == work[n].v
        found == {o \in Object : o.k = "subnet" /\ o.v = v /\ Exists(o)}
    IN  /\ work[n].pc = "subnets" /\ Answers(n)
        /\ cfg' = [cfg EXCEPT ![n] =
              FoldSet(LAMBDA o, t : dps_rest_api_create_ipsubnet(t, "vnid", v, o.sn).t, @, found)]
        /\ work' = [work EXCEPT ![n].pc = "end"]
        /\ UNCHANGED <<sc, dmc, action, done, ver, leader, host, sync, net, why, left>>

(* The switches are asked to register their endpoints again; if that fails *)
(* it is kept for a later recovery.  The entry goes in any case, also one  *)
(* that was made for the VNID meanwhile.                                   *)
RecoveryEnds(n) ==
    /\ work[n].pc = "end" /\ Answers(n)
    /\ \/ cfg' = [cfg EXCEPT ![n].rec[work[n].v] = None, ![n].rereg = {}] /\ UNCHANGED left
       \/ /\ Trouble("rereg")
          /\ cfg' = [cfg EXCEPT ![n].rec[work[n].v] = None, ![n].rereg = @ \cup {work[n].v}]
    /\ work' = [work EXCEPT ![n] = Resting]
    /\ UNCHANGED <<sc, dmc, action, done, ver, leader, host, sync, net, why>>

-----------------------------------------------------------------------------
(* A command typed at a node.  The other nodes are told of a VNID that     *)
(* comes or goes and of a domain that goes.                                *)
Tell(op, n, d, v) == {[op |-> op, to |-> m, d |-> d, v |-> v] : m \in sc.up \ {n}}

(* The domain of the VNID is looked up first; an unknown VNID is not told. *)
dps_cluster_send_vnid_existence_to_all_nodes(t, n, v, add) ==
    IF t.own[v] = None THEN {} ELSE Tell(IF add THEN "vnid_add" ELSE "vnid_delete", n, t.own[v], v)

(* For a deletion the others are told before it is done here.              *)
CliSends(n, k, r) ==
    CASE k.c = "dvg_add" /\ r.s = "OK" ->
            dps_cluster_send_vnid_existence_to_all_nodes(r.t, n, k.v, TRUE)
      [] k.c = "dvg_delete" ->
            dps_cluster_send_vnid_existence_to_all_nodes(cfg[n], n, k.v, FALSE)
      [] k.c = "domain_delete" -> Tell("domain_delete", n, k.d, k.v)
      [] OTHER -> {}

CliHosts(n, k) ==
    [d \in Domain |->
        IF k.c = "domain_add" /\ d = k.d THEN host[d] \cup {n}
        ELSE IF k.c = "domain_delete" /\ d = k.d THEN {}
        ELSE IF k.c = "domains_clear" \/ (k.c = "domain_deactivate" /\ d = k.d)
        THEN host[d] \ {n} ELSE host[d]]

Touches(k, o) ==
    \/ k.c \in {"domain_add", "domain_delete", "domains_clear", "domain_deactivate"} /\ o.d = k.d
    \/ k.c \in {"dvg_add", "dvg_delete", "policy_add"} /\ k.v \in {o.v, o.w}
    \/ k.c \in {"policy_add", "policy_delete"} /\ o.k = "policy" /\ <<o.v, o.w>> = <<k.v, k.w>>
    \/ k.c = "ip_subnet_add" /\ o.k = "subnet" /\ <<o.v, o.sn>> = <<k.v, k.sn>>
    \/ k.c = "ip_subnet_flush"

CliCommand(n, k) ==
    LET r == cli_data_object_callback(cfg[n], k)
    IN  /\ k \in sc.cli
        /\ Trouble("cli")
        /\ n \in sc.up /\ Answers(n)
        /\ cfg' = [cfg EXCEPT ![n] = r.t]
        /\ net' = net \cup CliSends(n, k, r)
        /\ host' = CliHosts(n, k)
        /\ why' = Blame({o \in Object : Touches(k, o)}, "command")
        /\ UNCHANGED <<sc, dmc, action, done, ver, leader, sync, work>>

ToldRequest(m) ==
    [m |-> IF m.op = "vnid_add" THEN "POST" ELSE "DELETE",
     uri |-> CASE m.op = "vnid_add" -> "dvgs" [] m.op = "vnid_delete" -> "dvg"
               [] m.op = "domain_delete" -> "domain",
     d |-> m.d, v |-> m.v, tt |-> CHOOSE tt \in Traffic : TRUE, s |-> m.v, e |-> m.v,
     act |-> Allow, g |-> CHOOSE g \in Gateway : TRUE, sn |-> CHOOSE x \in Subnet : TRUE,
     malformed |-> FALSE]

(* Each is a request of its own, and they overtake each other.             *)
Told(m) ==
    /\ m \in net /\ Answers(m.to)
    /\ cfg' = [cfg EXCEPT ![m.to] = Carried(m.to, ToldRequest(m)).t]
    /\ net' = net \ {m}
    /\ UNCHANGED <<sc, dmc, action, done, ver, leader, host, sync, work, why, left>>

NotTold(m) ==
    /\ m \in net
    /\ \/ ~Answers(m.to) /\ UNCHANGED left
       \/ Answers(m.to) /\ Trouble("lost")
    /\ net' = net \ {m}
    /\ UNCHANGED <<sc, dmc, action, done, cfg, ver, leader, host, sync, work, why>>

-----------------------------------------------------------------------------
SyncStep(n) ==
    \/ dps_rest_sync_main(n) \/ dps_rest_sync_version_query(n) \/ dps_rest_sync_target_uri_get(n)
    \/ http_request_dispatch(n)
    \/ \E m \in Node : dps_rest_forward_sequence_process(n, m) \/ ForwardUnanswered(n, m)

TimerStep(n) ==
    \/ DVG_Recovery_Routine(n) \/ dps_query_dmc_policy_info(n) \/ AddRecoveredPolicy(n)
    \/ dps_process_vnid_subnets(n) \/ RecoveryEnds(n)

Next ==
    \/ Change \/ Collide \/ LeaderChanges
    \/ \E n \in Node :
         \/ SyncStep(n) \/ GetFails(n) \/ TimerStep(n)
         \/ NodeHeartbeat(n) \/ dcs_set_service_role(n)
         \/ \E m \in Node : ForwardTimesOut(n, m)
         \/ \E m \in Node, d \in Domain : MoveDomain(m, n, d)
         \/ \E o \in Object : dps_process_vnids(n, o)
         \/ \E k \in sc.cli : CliCommand(n, k)
    \/ \E m \in net : Told(m) \/ NotTold(m)

(* The threads go on, heartbeats arrive, and requests end, at the latest   *)
(* when they time out.                                                     *)
Spec ==
    /\ Init /\ [][Next]_vars
    /\ WF_vars(Change) /\ WF_vars(\E n \in Node : NodeHeartbeat(n))
    /\ \A n \in Node : WF_vars(SyncStep(n)) /\ WF_vars(TimerStep(n))

-----------------------------------------------------------------------------
(* The values of the variables are of their types, and a version is one    *)
(* the console has given.                                                  *)
SyncTypeOK ==
    /\ sc \in Scenarios /\ done \in 0 .. Len(sc.script) /\ left \in 0 .. sc.most
    /\ \A n \in Node : cfg[n] \in Config /\ ver[n] \in Versions
    /\ \A n \in Node : {ver[n].own, ver[n].py, ver[n].c} \subseteq 0 .. Len(dmc.db)
    /\ \A n \in Node : sync[n] \in SyncThread /\ work[n] \in Recovery
    /\ leader \in Node /\ host \in [Domain -> SUBSET Node]

(* The tables of a node fit together (DpsCollection): a VNID object is in  *)
(* a domain that is here and in both global tables under that domain, a    *)
(* VNID is listed under one domain, and a policy, gateway or subnet        *)
(* belongs to VNIDs that have an object.                                   *)
TenantConsistent ==
    \A n \in Node :
        LET t == cfg[n]
        IN  /\ \A x \in t.dvg : x[1] \in t.dom /\ t.own[x[2]] = x[1] /\ x \in t.glob
            /\ \A x \in t.glob : t.own[x[2]] = x[1]
            /\ \A p \in t.pol : <<p.d, p.s>> \in t.dvg /\ <<p.d, p.e>> \in t.dvg
            /\ \A x \in t.gw \cup t.sub : <<t.own[x[1]], x[1]>> \in t.dvg

(* What the console has of an object is what the node has.                 *)
AsConsole(n, o) ==
    LET t == cfg[n]
        here == <<o.d, o.v>> \in t.dvg
    IN  CASE o.k = "domain" -> IF dmc.tomb[o] THEN o.d \notin t.dom
                               ELSE host[o.d] # {} /\ (n \in host[o.d] => o.d \in t.dom)
          [] o.k = "network" -> IF dmc.tomb[o] THEN t.own[o.v] # o.d
                                ELSE t.own[o.v] = o.d /\ (o.d \in t.dom => here)
          [] o.k = "policy" -> IF dmc.tomb[o] THEN TRUE
                               ELSE here /\ <<o.d, o.w>> \in t.dvg =>
                                    \E p \in t.pol : <<p.d, p.s, p.e, p.act>> =
                                                     <<o.d, o.v, o.w, action[o]>>
          [] o.k = "subnet" -> dmc.tomb[o] \/ (here => <<o.v, o.sn>> \in t.sub)
          [] o.k = "untracked" -> TRUE

Quiet == \A n \in Node : sync[n].pc = "idle" /\ work[n].pc = "idle"
                         /\ \A v \in Vnid : cfg[n].rec[v] = None

(* Once the cluster's version has passed an object's last change, every    *)
(* node has the object as the console has it, unless one of the causes the *)
(* code leaves open has met the object (why): the console's answer led     *)
(* past it, it could not be got, its change had the same version as        *)
(* another, a PUT had reached some nodes and raised the version, a DELETE  *)
(* failed somewhere, the object changed while it was carried out, a new    *)
(* leader was elected meanwhile, a node lost its configuration, a recovery *)
(* put back what was gone, or a command changed it.                        *)
MissedForCause ==
    Quiet => \A o \in Object :
        /\ dmc.last[o] \in 1 .. ver[leader].c /\ why[o] = {}
        /\ \A p \in Parents(o) : Exists(p) /\ why[p] = {}
        => \A n \in sc.up : AsConsole(n, o)

(* The version a round starts from is only given back with the role        *)
(* (init.c), over versions with a blank URI, which raise the copy of       *)
(* rest_sync.c and not the version it follows, or by such a version, when  *)
(* an object that changed meanwhile had already raised it further.         *)
VersionBackOverBlank ==
    [][\A n \in Node : ver'[n].c < ver[n].c =>
           \/ ver'[n].c = 0
           \/ dmc.db[ver'[n].c].k = "untracked" /\ sync[n].v = ver'[n].c
           \/ \A k \in ver'[n].c + 1 .. ver[n].c : dmc.db[k].k = "untracked"]_vars

(* Whoever is leader in the end, the version of its rounds (c) or at least *)
(* the cluster's (py) reaches the last change, or the rounds end before an *)
(* object that some node refuses or does not answer for.  With py alone    *)
(* every round repeats the last changes.                                   *)
Refused(o) ==
    LET d == dps_rest_forward_get_domainid(leader, o)
    IN  \/ d = None \/ (o.k \in {"policy", "subnet"} /\ host[d] = {})
        \/ \E n \in sc.up : ~Answers(n) \/ ~dps_rest_sync_dmc_agent(Carried(n, RequestFor(o, FALSE, action[o])).code)
CatchesUp ==
    <>[](\/ Len(dmc.db) \in {ver[leader].c, ver[leader].py}
         \/ \E k \in ver[leader].c + 1 .. Len(dmc.db) :
              dmc.db[k].k # "untracked" /\ Refused(dmc.db[k])
         \/ dmc.db[Len(dmc.db)].k = "untracked")

(* No VNID stays queued for recovery (VNID_Recovery) for ever, unless the  *)
(* lock of the node was left locked.                                       *)
Recovered ==
    <>[](\A n \in Node : cfg[n].stuck \/ \A v \in Vnid : cfg[n].rec[v] = None)

(* The rounds of the leader and the recoveries of the nodes come to rest.  *)
SyncSettles == CatchesUp /\ Recovered
=============================================================================
