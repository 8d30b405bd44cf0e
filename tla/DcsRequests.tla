----------------------------- MODULE DcsRequests -----------------------------
(***************************************************************************)
(* How the servers of a cluster answer the requests of DPS clients (the    *)
(* switches and gateways) about one domain with one VNID                   *)
(* (client_protocol_interface.c and client_protocol_handler.py).           *)
(*                                                                         *)
(* Every datagram goes through dps_protocol_send_to_server: a node that    *)
(* does not serve the domain passes a client's request on to a random node *)
(* its map lists; a node that serves it calls the handler of the message   *)
(* type.  The check and the handler take the interpreter lock separately,  *)
(* so the domain can be deactivated between them: a datagram that passed   *)
(* the check waits in cur[n].  Lookups are answered from the node's own    *)
(* data.  Registrations are applied on every node the map lists; the node  *)
(* that got the request answers when all of them did (DcsReplication has   *)
(* the details of the tracker).  A status of RETRY is never sent.          *)
(*                                                                         *)
(* reg is what a node's domain knows: the tunnels, the one virtual machine *)
(* ("endpoint"), the senders and receivers of one multicast group; "dead"  *)
(* are receivers of the global scope whose tunnel object was deleted.      *)
(***************************************************************************)
EXTENDS Naturals

CONSTANTS
    Node, Client, Request, NoOne,
    Gateway,        \* the clients that are external gateways
    Default,        \* the server a client knows for every VNID
    Scenarios,      \* the hosts and what they know at the start, the settings
                    \* of the domain, the operation, key and client of every
                    \* request, and how many troubles may happen
    MaxTries

Kind == {"tunnel", "endpoint", "sender", "join", "dead"}
Key == {"vm_ip", "vm_mac", "gw_ip", "gw_mac"}
Registration == {"tunnel", "untunnel", "endpoint", "unendpoint",
                 "sender", "unsender", "join", "leave"}
Lookup == {"locate", "policy"}
List == {"implicit", "gateways", "broadcast", "scope", "policies"}
Op == Registration \cup Lookup \cup List \cup {"migration"}

ASSUME RequestsAssumption ==
    /\ Gateway \subseteq Client /\ Default \in Node
    /\ NoOne \notin Node \cup Client /\ Node \cap Client = {}
    /\ MaxTries \in Nat \ {0}
    /\ \A x \in Scenarios :
         /\ x.serving \subseteq Node /\ x.troubles \in Nat
         /\ \A r \in Request :
              x.ops[r][1] \in Op /\ x.ops[r][2] \in Key /\ x.ops[r][3] \in Client
         /\ x.reg \subseteq Kind \X Client
         /\ \A c \in Client : <<"endpoint", c>> \in x.reg => <<"tunnel", c>> \in x.reg

VARIABLES srv, cur, net, track, req, cache, site,
          trouble,    \* how many more moves and faults may happen (bound),
                      \* and whether one happened (history)
          told,   \* history: the nodes a registration was sent to, not moved since
          why     \* history: what may keep a request from being answered

vars == <<srv, cur, net, track, req, cache, site, trouble, told, why>>

Server ==
    [started : BOOLEAN, vnid : BOOLEAN, ask : BOOLEAN,
     dom : {"none", "inactive", "active"}, hosts : SUBSET Node,
     reg : SUBSET (Kind \X Client)]

(* The message of the client protocol: type, query id, who sent it last,   *)
(* the transaction type (here the kind), and the status and payload of a   *)
(* reply.                                                                  *)
dps_client_data_t ==
    [kind : {"request", "update", "ack", "reply", "notice"}, r : Request,
     try : 1 .. MaxTries, from : Node \cup Client, to : Node \cup Client,
     st : {"none", "retry", "invalid_domain", "invalid_dst_ip", "invalid_euid",
           "invalid_tunnel", "no_route", "no_memory", "undefined"},
     what : {"nothing", "tunnel", "first", "undefined", "gateway", "external",
             "list", "zero"},
     who : SUBSET Client]

Datagram(kind, r, try, from, to) ==
    [kind |-> kind, r |-> r, try |-> try, from |-> from, to |-> to,
     st |-> "none", what |-> "nothing", who |-> {}]

Answer(st, what, who) == [st |-> st, what |-> what, who |-> who]
Only(st) == Answer(st, "nothing", {})

Having(s, kind) == {c \in Client : <<kind, c>> \in s.reg}
Active == {n \in Node : srv[n].started /\ srv[n].dom = "active"}

RequestsTypeOK ==
    /\ srv \in [Node -> Server]
    /\ cur \in [Node -> SUBSET dps_client_data_t]
    /\ \A n \in Node : \A m, d \in cur[n] : m = d
    /\ net \subseteq dps_client_data_t
    /\ \A t \in track : t.at \in Node /\ t.r \in Request /\ t.left \subseteq Node
    /\ \A r \in Request :
          /\ req[r].state \in {"new", "open", "done", "gaveup"}
          /\ req[r].op \in Op /\ req[r].key \in Key /\ req[r].tries \in 0 .. MaxTries
          /\ req[r].earlier \subseteq Request
    /\ cache \in [Client -> Node \cup {NoOne}]
    /\ trouble \in [left : Nat, seen : BOOLEAN]
    /\ told \in [Request -> SUBSET Node]

----------------------------------------------------------------------------
(* The lookups.  s is the node's state; an answer has a status and a       *)
(* payload.                                                                *)

(* The address is nobody's: a dedicated subnet has no way out, any other   *)
(* destination goes to the external gateways of the domain.                *)
Endpoint_Not_Found(s) ==
    LET gws == Having(s, "tunnel") \cap Gateway
    IN  IF site.dedicated THEN Only("invalid_dst_ip")
        ELSE IF gws = {} THEN Only("no_route")
        ELSE Answer("none", "external", gws)

Found(s) == Answer("none", "tunnel", Having(s, "endpoint"))

\* Mutant of Endpoint_Location_vIP: the domain need not be active.
LocateInactive(s, key) ==
    IF s.dom = "none" THEN Only("invalid_domain")
    ELSE IF key = "vm_ip" /\ Having(s, "endpoint") # {} THEN Found(s)
    ELSE IF key = "gw_ip" THEN Answer("none", "gateway", {})
    ELSE Endpoint_Not_Found(s)

Endpoint_Location_vIP(s, key) ==
    IF s.dom = "none" THEN Only("invalid_domain")
    ELSE IF s.dom = "inactive" THEN Only("retry")
    ELSE IF key = "vm_ip" /\ Having(s, "endpoint") # {} THEN Found(s)
    ELSE IF key = "gw_ip" THEN Answer("none", "gateway", {})
    ELSE Endpoint_Not_Found(s)

Endpoint_Location_vMac(s, key) ==
    IF s.dom = "none" THEN Only("invalid_domain")
    ELSE IF s.dom = "inactive" THEN Only("retry")
    ELSE IF key = "vm_mac" /\ Having(s, "endpoint") # {} THEN Found(s)
    ELSE IF key = "gw_mac" THEN Answer("none", "gateway", {})
    ELSE Only("invalid_euid")

(* Without a policy that allows it the traffic is dropped.                 *)
Policy_Resolution_vIP(s, key) ==
    IF s.dom = "none" THEN Only("invalid_domain")
    ELSE IF s.dom = "inactive" THEN Only("retry")
    ELSE IF key = "vm_ip" /\ Having(s, "endpoint") # {}
    THEN IF site.allow THEN Found(s) ELSE Answer("none", "nothing", {})
    ELSE IF key = "gw_ip" THEN Answer("none", "gateway", {})
    ELSE Endpoint_Not_Found(s)

(* The error path returns more fields than the caller parses, which leaves *)
(* the caller's status uninitialised.                                      *)
Policy_Resolution_vMac(s, key) ==
    IF s.dom = "active" /\ key = "vm_mac" /\ Having(s, "endpoint") # {}
    THEN IF site.allow THEN Found(s) ELSE Answer("none", "nothing", {})
    ELSE Only("undefined")

Implicit_Gateway_List(s) ==
    IF s.dom = "none" THEN Only("invalid_domain")
    ELSE Answer("none", "gateway", {})

Broadcast_List(s) ==
    IF s.dom = "none" THEN Only("invalid_domain")
    ELSE Answer("none", "list", Having(s, "tunnel"))

Gateway_List(s) ==
    IF s.dom = "none" THEN Only("invalid_domain")
    ELSE Answer("none", "list", Having(s, "tunnel") \cap Gateway)

(* Any one receiver of the global scope is the designated gateway.  One    *)
(* whose tunnel was deleted has no address left.                           *)
Multicast_Global_Scope_Get(s) ==
    IF s.dom = "none" THEN {Only("invalid_domain")}
    ELSE IF Having(s, "join") \cup Having(s, "dead") = {}
    THEN {Only("no_route")}
    ELSE {Answer("none", "list", {c}) : c \in Having(s, "join")}
         \cup {Answer("none", "zero", {}) : c \in Having(s, "dead")}

(* The C handlers.  Each gives the answers it may send; NoMemory is the     *)
(* answer when the interpreter cannot build the arguments or the result.   *)
NoMemory == Only("no_memory")

(* A request without an IP address asks for the MAC address.               *)
EndpointQuery(s, key) ==
    IF key \in {"vm_ip", "gw_ip"} THEN Endpoint_Location_vIP(s, key)
    ELSE Endpoint_Location_vMac(s, key)

(* A tunnel list too long for the static message goes into an allocated    *)
(* one; when that fails only the first tunnel is sent.                     *)
dps_msg_endpoint_request(s, key) ==
    LET a == EndpointQuery(s, key)
    IN  {a, NoMemory}
        \cup (IF site.big /\ a.what = "tunnel" THEN {[a EXCEPT !.what = "first"]}
              ELSE {})

PolicyQuery(s, key) ==
    IF key \in {"vm_ip", "gw_ip"} THEN Policy_Resolution_vIP(s, key)
    ELSE Policy_Resolution_vMac(s, key)

(* The same list is built here, but the static message is sent all the     *)
(* same, and its tunnel list was never filled in.                          *)
dps_msg_policy_request(s, key) ==
    LET a == PolicyQuery(s, key)
    IN  {IF site.big /\ a.what = "tunnel" THEN [a EXCEPT !.what = "undefined"]
         ELSE a, NoMemory}
        \cup (IF a.st = "undefined" THEN {Only("retry")} ELSE {})

dps_msg_implicit_gateway_request(s) == {Implicit_Gateway_List(s), NoMemory}
dps_msg_gateway_request(s) == {Gateway_List(s), NoMemory}
dps_msg_broadcast_list_request(s) == {Broadcast_List(s), NoMemory}
dps_msg_multicast_global_scope_request(s) ==
    Multicast_Global_Scope_Get(s) \cup {NoMemory}

(* The policies go out as an unsolicited table of the VNID, and only to a  *)
(* client that has a tunnel in it.                                         *)
Policy_Updates_Send_To(s, c) ==
    IF s.dom # "none" /\ c \in Having(s, "tunnel")
    THEN Answer("none", "list", {}) ELSE Only("retry")
dps_msg_vnid_policy_request(s, c) == {Policy_Updates_Send_To(s, c)}

(* A migrating machine: the client of the source tunnel gets the policy of *)
(* the machine's new place, unasked.  The sender of the event gets nothing. *)
pIP_Get_DPS_Client(s) == Having(s, "tunnel")
vIP_Get_DVG(s) == s.dom = "active" /\ Having(s, "endpoint") # {}
dps_msg_vm_migration_event(s) ==
    IF pIP_Get_DPS_Client(s) # {} /\ vIP_Get_DVG(s)
    THEN {[c |-> c, a |-> a] :
            c \in pIP_Get_DPS_Client(s), a \in dps_msg_policy_request(s, "vm_ip")}
    ELSE {}

Answers(s, r) ==
    IF req[r].op = "locate" THEN dps_msg_endpoint_request(s, req[r].key)
    ELSE IF req[r].op = "policy" THEN dps_msg_policy_request(s, req[r].key)
    ELSE IF req[r].op = "implicit" THEN dps_msg_implicit_gateway_request(s)
    ELSE IF req[r].op = "gateways" THEN dps_msg_gateway_request(s)
    ELSE IF req[r].op = "broadcast" THEN dps_msg_broadcast_list_request(s)
    ELSE IF req[r].op = "scope" THEN dps_msg_multicast_global_scope_request(s)
    ELSE dps_msg_vnid_policy_request(s, req[r].by)

----------------------------------------------------------------------------
(* The registrations: what they leave in reg, and their status.  They ask  *)
(* only whether the domain exists here, not whether it is active.          *)

Registered(reg, st) == [reg |-> reg, st |-> st]

(* A client that is the owner of the machine's tunnel already, or takes it *)
(* over from another one; a delete by anyone else is ignored.              *)
Endpoint_Update(s, c, add) ==
    IF s.dom = "none" THEN Registered(s.reg, "invalid_domain")
    ELSE IF c \notin Having(s, "tunnel") THEN Registered(s.reg, "invalid_tunnel")
    ELSE IF add
    THEN Registered((s.reg \ {<<"endpoint", d>> : d \in Client})
                      \cup {<<"endpoint", c>>}, "none")
    ELSE Registered(s.reg \ {<<"endpoint", c>>}, "none")

Tunnel_Register(s, c) ==
    IF s.dom = "none" THEN Registered(s.reg, "invalid_domain")
    ELSE Registered(s.reg \cup {<<"tunnel", c>>}, "none")

(* The last address of a tunnel takes the tunnel with its machines and     *)
(* group memberships, but the global scope keeps the deleted object.       *)
Tunnel_Unregister(s, c) ==
    IF s.dom = "none" THEN Registered(s.reg, "invalid_domain")
    ELSE Registered({x \in s.reg : x[2] # c \/ x[1] = "dead"}
                      \cup {<<"dead", x[2]>> : x \in s.reg \cap {<<"join", c>>}},
                    "none")

(* The parts that the four multicast operations share: the tunnel must be  *)
(* known.                                                                  *)
Multicast_Get_Objects(s, c) ==
    IF s.dom = "none" THEN "invalid_domain"
    ELSE IF c \notin Having(s, "tunnel") THEN "invalid_dst_ip" ELSE "none"

Multicast_Sender_Register(s, c) ==
    LET st == Multicast_Get_Objects(s, c)
    IN  Registered(IF st = "none" THEN s.reg \cup {<<"sender", c>>} ELSE s.reg, st)
Multicast_Sender_Unregister(s, c) ==
    LET st == Multicast_Get_Objects(s, c)
    IN  Registered(IF st = "none" THEN s.reg \ {<<"sender", c>>} ELSE s.reg, st)
Multicast_Receiver_Register(s, c) ==
    LET st == Multicast_Get_Objects(s, c)
    IN  Registered(IF st = "none" THEN s.reg \cup {<<"join", c>>} ELSE s.reg, st)
Multicast_Receiver_Unregister(s, c) ==
    LET st == Multicast_Get_Objects(s, c)
    IN  Registered(IF st = "none" THEN s.reg \ {<<"join", c>>} ELSE s.reg, st)

dps_msg_endpoint_update(s, op, c) == Endpoint_Update(s, c, op = "endpoint")
dps_msg_tunnel_register(s, op, c) ==
    IF op = "tunnel" THEN Tunnel_Register(s, c) ELSE Tunnel_Unregister(s, c)
dps_msg_multicast_sender_register(s, op, c) ==
    IF op = "sender" THEN Multicast_Sender_Register(s, c)
    ELSE Multicast_Sender_Unregister(s, c)
dps_msg_multicast_receiver_register(s, op, c) ==
    IF op = "join" THEN Multicast_Receiver_Register(s, c)
    ELSE Multicast_Receiver_Unregister(s, c)

Apply(s, op, c) ==
    IF op \in {"endpoint", "unendpoint"} THEN dps_msg_endpoint_update(s, op, c)
    ELSE IF op \in {"tunnel", "untunnel"} THEN dps_msg_tunnel_register(s, op, c)
    ELSE IF op \in {"sender", "unsender"}
    THEN dps_msg_multicast_sender_register(s, op, c)
    ELSE dps_msg_multicast_receiver_register(s, op, c)

----------------------------------------------------------------------------
(* A datagram at a node.                                                   *)

TroubleIf(happens) ==
    /\ happens => trouble.left > 0
    /\ trouble' = IF happens THEN [left |-> trouble.left - 1, seen |-> TRUE] ELSE trouble

Blame(r, reason) == why' = [why EXCEPT ![r] = @ \cup {reason}]

(* A reply goes to the client that asked, however often the request was    *)
(* passed on; the answer to a replicated update goes to the node that      *)
(* sent it.                                                                *)
dps_form_endpoint_update_reply(m) ==
    IF m.kind = "request" THEN req[m.r].by ELSE m.from

Reply(n, m, a) ==
    [Datagram(IF m.kind = "request" THEN "reply" ELSE "ack", m.r, m.try, n,
              dps_form_endpoint_update_reply(m))
        EXCEPT !.st = a.st, !.what = a.what, !.who = a.who]

(* Messages with status RETRY are not sent.                                *)
dps_msg_send_inline(d) == IF d.st = "retry" THEN {} ELSE {d}

Silent(d) == IF d.st = "retry" THEN {"silent"} ELSE {}

\* Mutant of Domain_Get_Random_Remote_Node: any other node of the cluster.
AnyOtherNode(n) == Node \ {n}

(* A random other node of the map, as far as this node knows it.           *)
Domain_Get_Random_Remote_Node(n) == srv[n].hosts \ {n}

dps_msg_forward_if_necessary(n, m) ==
    \E h \in Domain_Get_Random_Remote_Node(n) :
        /\ net' = (net \ {m}) \cup {[m EXCEPT !.from = n, !.to = h]}
        /\ UNCHANGED <<srv, cur, why>>

(* The VNID is looked up; an unknown one will be asked for.                *)
Is_VNID_Handled_Locally(n) ==
    IF ~srv[n].vnid THEN "unknown"
    ELSE IF srv[n].dom = "active" THEN "local" ELSE "remote"

(* Which message types are passed on: what a client asks, not what the     *)
(* servers say to each other.                                              *)
dps_msg_functions_init(m) == m.kind = "request"

dps_protocol_send_to_server(n, m) ==
    LET where == Is_VNID_Handled_Locally(n)
        drop == \/ ~srv[n].started \/ where = "unknown"
                \/ /\ where = "remote"
                   /\ ~dps_msg_functions_init(m) \/ Domain_Get_Random_Remote_Node(n) = {}
    IN  /\ m \in net /\ m.to = n /\ cur[n] = {}
        /\ \/ /\ drop
              /\ srv' = [srv EXCEPT ![n].ask =
                           @ \/ (srv[n].started /\ where = "unknown")]
              /\ net' = net \ {m} /\ UNCHANGED cur /\ Blame(m.r, "unserved")
           \/ /\ ~drop /\ where = "remote" /\ dps_msg_forward_if_necessary(n, m)
           \/ /\ ~drop /\ where = "local"
              /\ cur' = [cur EXCEPT ![n] = {m}]
              /\ net' = net \ {m} /\ UNCHANGED <<srv, why>>
        /\ UNCHANGED <<track, req, cache, site, trouble, told>>

(* The handler of a lookup or list request.                                *)
AnswerRequest(n, m) ==
    /\ req[m.r].op \in Lookup \cup List
    /\ \E a \in Answers(srv[n], m.r) :
         LET d == Reply(n, m, a)
         IN  /\ TroubleIf(a = NoMemory)
             /\ net' = net \cup dps_msg_send_inline(d)
             /\ why' = [why EXCEPT ![m.r] = @ \cup Silent(d)]
    /\ UNCHANGED <<srv, track, told>>

(* The handler of a migration event.                                       *)
PassMigration(n, m) ==
    /\ req[m.r].op = "migration"
    /\ LET notices == dps_msg_vm_migration_event(srv[n])
       IN  \/ /\ notices = {} /\ UNCHANGED <<net, trouble>>
           \/ \E x \in notices :
                /\ TroubleIf(x.a = NoMemory)
                /\ net' = net \cup dps_msg_send_inline(
                       [Datagram("notice", m.r, m.try, n, x.c)
                          EXCEPT !.st = x.a.st, !.what = x.a.what, !.who = x.a.who])
    /\ Blame(m.r, "silent") /\ UNCHANGED <<srv, track, told>>

\* Mutant of ReplicationDetermineDPSNodes: only the local copy.
LocalOnly(n, m) == IF srv[n].dom = "none" THEN {} ELSE {n}

(* Who applies a registration: the nodes of the map when a client sent it, *)
(* this node alone when another server did.                                *)
ReplicationDetermineDPSNodes(n, m) ==
    IF m.kind = "request" THEN srv[n].hosts
    ELSE IF srv[n].dom = "none" THEN {} ELSE {n}

dps_update_replicate(n, m) ==
    {Datagram("update", m.r, m.try, n, h) :
        h \in ReplicationDetermineDPSNodes(n, m) \ {n}}

\* Mutant of Register: answered as soon as it was applied here.
RegisterHastily(n, m) ==
    \E fails \in BOOLEAN :
    LET nodes == ReplicationDetermineDPSNodes(n, m)
        here == n \in nodes /\ ~fails
        res == Apply(srv[n], req[m.r].op, req[m.r].by)
        ok == here => res.st = "none"
        left == IF here THEN nodes \ {n} ELSE nodes
        now == nodes # {} /\ here
    IN  /\ req[m.r].op \in Registration /\ m.kind \in {"request", "update"}
        /\ fails => n \in nodes
        /\ TroubleIf(fails)
        /\ srv' = IF here THEN [srv EXCEPT ![n].reg = res.reg] ELSE srv
        /\ told' = IF m.kind = "request" THEN [told EXCEPT ![m.r] = @ \cup nodes]
                   ELSE told
        /\ net' = net \cup dps_update_replicate(n, m)
                      \cup (IF now THEN {Reply(n, m, Only(res.st))} ELSE {})
        /\ track' = IF now \/ m.kind = "update" \/ nodes = {} THEN track
                    ELSE track \cup {[at |-> n, r |-> m.r, try |-> m.try,
                                      left |-> left]}
        /\ why' = [why EXCEPT ![m.r] = @ \cup
                     (IF nodes = {} \/ fails THEN {"silent"} ELSE {})]

(* The handler of a registration: sent to the other nodes, applied here,   *)
(* answered at once when that was refused or nobody else is concerned.     *)
(* When memory is short here nothing is applied and the local answer never *)
(* comes.                                                                  *)
Register(n, m) ==
    \E fails \in BOOLEAN :
    LET nodes == ReplicationDetermineDPSNodes(n, m)
        here == n \in nodes /\ ~fails
        res == Apply(srv[n], req[m.r].op, req[m.r].by)
        ok == here => res.st = "none"
        left == IF here THEN nodes \ {n} ELSE nodes
        now == nodes # {} /\ (~ok \/ left = {})
    IN  /\ req[m.r].op \in Registration /\ m.kind \in {"request", "update"}
        /\ fails => n \in nodes
        /\ TroubleIf(fails)
        /\ srv' = IF here THEN [srv EXCEPT ![n].reg = res.reg] ELSE srv
        /\ told' = IF m.kind = "request" THEN [told EXCEPT ![m.r] = @ \cup nodes]
                   ELSE told
        /\ net' = net \cup dps_update_replicate(n, m)
                      \cup (IF now THEN {Reply(n, m, Only(res.st))} ELSE {})
        /\ track' = IF now \/ m.kind = "update" \/ nodes = {} THEN track
                    ELSE track \cup {[at |-> n, r |-> m.r, try |-> m.try,
                                      left |-> left]}
        /\ why' = [why EXCEPT ![m.r] = @ \cup
                     (IF nodes = {} \/ fails THEN {"silent"} ELSE {})]

(* A replica answered: the first error, or the last success, is the        *)
(* answer of the client.  The tracker may be gone.                         *)
dps_msg_update_reply(n, m) ==
    LET mine == {t \in track : t.at = n /\ t.r = m.r /\ t.try = m.try
                                /\ m.from \in t.left}
        rest == {[t EXCEPT !.left = @ \ {m.from}] : t \in mine}
        over == m.st # "none" \/ \A t \in rest : t.left = {}
    IN  /\ m.kind = "ack"
        /\ track' = (track \ mine) \cup (IF over THEN {} ELSE rest)
        /\ net' = net \cup (IF over /\ mine # {}
                            THEN {Reply(n, [m EXCEPT !.kind = "request"], Only(m.st))}
                            ELSE {})
        /\ UNCHANGED <<srv, trouble, told, why>>

Handle(n) ==
    \E m \in cur[n] :
        /\ cur' = [cur EXCEPT ![n] = {}]
        /\ UNCHANGED <<req, cache, site>>
        /\ \/ AnswerRequest(n, m)
           \/ PassMigration(n, m)
           \/ Register(n, m)
           \/ dps_msg_update_reply(n, m)

(* The replication timer gives up on replicas that did not answer; the     *)
(* answer would be RETRY, so there is none.  It does so early only when    *)
(* the network is slow.                                                    *)
ReplicationTimeout(t) ==
    LET pending == \E m \in net \cup UNION {cur[n] : n \in Node} :
                      m.r = t.r /\ m.try = t.try /\ m.kind \in {"update", "ack"}
    IN  /\ t \in track
        /\ TroubleIf(pending)
        /\ track' = track \ {t}
        /\ Blame(t.r, "silent")
        /\ UNCHANGED <<srv, cur, net, req, cache, site, told>>

----------------------------------------------------------------------------
(* The clients: a request goes to the server last heard of, or to the      *)
(* default one, and is repeated to the same server until it is answered    *)
(* or was sent too often (RawProtoTimer).                                  *)

dps_find_server(c) == IF cache[c] = NoOne THEN Default ELSE cache[c]

Issue(r) ==
    /\ req[r].state = "new"
    /\ LET h == dps_find_server(req[r].by)
       IN  /\ req' = [req EXCEPT ![r] =
                 [@ EXCEPT !.state = "open", !.to = h, !.tries = 1,
                           !.earlier = {q \in Request : req[q].state = "done"}]]
           /\ net' = net \cup {Datagram("request", r, 1, req[r].by, h)}
    /\ UNCHANGED <<srv, cur, track, cache, site, trouble, told, why>>

InFlight(r) ==
    \/ \E m \in net \cup UNION {cur[n] : n \in Node} : m.r = r
    \/ \E t \in track : t.r = r

Resend(r) ==
    /\ req[r].state = "open" /\ req[r].tries < MaxTries
    /\ TroubleIf(InFlight(r))
    /\ req' = [req EXCEPT ![r].tries = @ + 1]
    /\ net' = net \cup {Datagram("request", r, req[r].tries + 1, req[r].by, req[r].to)}
    /\ UNCHANGED <<srv, cur, track, cache, site, told, why>>

(* The client reports the request as unanswered and forgets the server.    *)
dps_req_new_dps_node(r) ==
    /\ req[r].state = "open" /\ req[r].tries = MaxTries /\ ~InFlight(r)
    /\ req' = [req EXCEPT ![r].state = "gaveup"]
    /\ cache' = [cache EXCEPT ![req[r].by] = NoOne]
    /\ UNCHANGED <<srv, cur, net, track, site, trouble, told, why>>

(* Whatever a server sends makes it the server of this VNID.               *)
Receive(m) ==
    /\ m \in net /\ m.to \in Client
    /\ net' = net \ {m}
    /\ cache' = [cache EXCEPT ![m.to] = m.from]
    /\ req' = IF m.kind = "reply" /\ m.to = req[m.r].by /\ req[m.r].state = "open"
              THEN [req EXCEPT ![m.r].state = "done", ![m.r].ans = m] ELSE req
    /\ UNCHANGED <<srv, cur, track, site, trouble, told, why>>

----------------------------------------------------------------------------
(* What happens around the requests.                                       *)

(* The map of a node learns which nodes serve the domain (DcsPlacement).   *)
MapTrue(n) ==
    /\ srv[n].hosts # Active
    /\ srv' = [srv EXCEPT ![n].hosts = Active]
    /\ UNCHANGED <<cur, net, track, req, cache, site, trouble, told, why>>

(* The console answers which domain the VNID belongs to.                   *)
VNID_Query_Timeout(n) ==
    /\ srv[n].ask
    /\ srv' = [srv EXCEPT ![n].ask = FALSE, ![n].vnid = TRUE]
    /\ UNCHANGED <<cur, net, track, req, cache, site, trouble, told, why>>

(* A copy of the domain becomes active with what an active one knows       *)
(* (DcsMassTransfer), or with what it kept.                                *)
Activate(n) ==
    /\ TroubleIf(TRUE) /\ srv[n].dom # "active"
    /\ \E reg \in (IF Active = {} THEN {srv[n].reg} ELSE {srv[h].reg : h \in Active}) :
         srv' = [srv EXCEPT ![n].dom = "active", ![n].vnid = TRUE, ![n].reg = reg]
    /\ told' = [r \in Request |-> told[r] \ {n}]
    /\ UNCHANGED <<cur, net, track, req, cache, site, why>>

Deactivate(n) ==
    /\ TroubleIf(TRUE) /\ srv[n].dom = "active"
    /\ \/ srv' = [srv EXCEPT ![n].dom = "inactive"]
       \/ srv' = [srv EXCEPT ![n].dom = "none", ![n].reg = {}]
    /\ told' = [r \in Request |-> told[r] \ {n}]
    /\ UNCHANGED <<cur, net, track, req, cache, site, why>>

dcs_protocol_handler_stop(n) ==
    /\ TroubleIf(TRUE) /\ srv[n].started
    /\ srv' = [srv EXCEPT ![n].started = FALSE]
    /\ UNCHANGED <<cur, net, track, req, cache, site, told, why>>

dcs_protocol_handler_start(n) ==
    /\ ~srv[n].started
    /\ srv' = [srv EXCEPT ![n].started = TRUE]
    /\ UNCHANGED <<cur, net, track, req, cache, site, trouble, told, why>>

Lose(m) ==
    /\ m \in net /\ TroubleIf(TRUE) /\ net' = net \ {m}
    /\ Blame(m.r, "lost")
    /\ UNCHANGED <<srv, cur, track, req, cache, site, told>>

RequestsInit ==
    /\ \E x \in Scenarios :
         /\ srv = [n \in Node |->
              [started |-> TRUE, vnid |-> n \in x.serving, ask |-> FALSE,
               dom |-> IF n \in x.serving THEN "active" ELSE "none",
               hosts |-> x.serving, reg |-> IF n \in x.serving THEN x.reg ELSE {}]]
         /\ site = x.site
         /\ trouble = [left |-> x.troubles, seen |-> FALSE]
         /\ req = [r \in Request |->
              [state |-> "new", op |-> x.ops[r][1], key |-> x.ops[r][2],
               by |-> x.ops[r][3], to |-> Default, tries |-> 0, earlier |-> {},
               ans |-> NoOne]]
    /\ cur = [n \in Node |-> {}] /\ net = {} /\ track = {}
    /\ cache = [c \in Client |-> NoOne]
    /\ told = [r \in Request |-> {}] /\ why = [r \in Request |-> {}]

ServerStep ==
    \/ \E n \in Node, m \in net : dps_protocol_send_to_server(n, m)
    \/ \E n \in Node : Handle(n)
    \/ \E t \in track : ReplicationTimeout(t)

ClientStep ==
    \/ \E r \in Request : Issue(r) \/ Resend(r) \/ dps_req_new_dps_node(r)
    \/ \E m \in net : Receive(m)

AroundStep ==
    \/ \E n \in Node : \/ MapTrue(n) \/ VNID_Query_Timeout(n)
                       \/ Activate(n) \/ Deactivate(n)
                       \/ dcs_protocol_handler_stop(n) \/ dcs_protocol_handler_start(n)
    \/ \E m \in net : Lose(m)

RequestsNext == ServerStep \/ ClientStep \/ AroundStep

RequestsFairness ==
    /\ \A n \in Node :
         /\ WF_vars(\E m \in net : dps_protocol_send_to_server(n, m))
         /\ WF_vars(Handle(n)) /\ WF_vars(MapTrue(n))

RequestsSpec == RequestsInit /\ [][RequestsNext]_vars /\ RequestsFairness

----------------------------------------------------------------------------
(* Properties.                                                             *)

Moves(op) == op \in {"endpoint", "unendpoint", "untunnel"}

(* The answer says that every host has applied a registration only when it *)
(* is a success: one that the coordinator refuses was sent to the others   *)
(* before, and is answered while they still have it before them.           *)
Before(q, r) == q \in req[r].earlier /\ req[q].ans.st = "none"

(* A registration can undo another one unless it was answered before the   *)
(* other began; one that was repeated may have a copy still on its way.    *)
MayUndo(q, r) ==
    /\ q # r /\ Moves(req[q].op) /\ req[q].state # "new"
    /\ ~Before(q, r) \/ req[q].tries > 1

(* A lookup that a client issues after the registration of the machine     *)
(* was answered without error, and that is answered by any of the nodes    *)
(* the registration was sent to, names the new tunnel, unless that node's  *)
(* copy was replaced since: the coordinator answers only when every one    *)
(* of them has applied it (dps_msg_update_reply).  A registration that     *)
(* overlaps, or a repeated copy of an older one, may have moved the        *)
(* machine again, for nothing orders the updates of two coordinators.      *)
FreshAnswer ==
    \A q, r \in Request :
        (/\ req[q].state = "done" /\ req[q].ans.what \in {"tunnel", "first", "external"}
         /\ req[q].op \in Lookup /\ req[q].key \in {"vm_ip", "vm_mac"}
         /\ r \in req[q].earlier /\ req[r].op = "endpoint" /\ req[r].ans.st = "none"
         /\ req[r].tries = 1
         /\ req[q].ans.from \in told[r]
         /\ ~\E x \in Request : MayUndo(x, r))
        => req[q].ans.what # "external" /\ req[q].ans.who = {req[r].by}

Quiet == net = {} /\ track = {} /\ \A n \in Node : cur[n] = {}

(* As long as no datagram was lost or late, no node was moved, and of any  *)
(* two registrations one was answered without error before the other was   *)
(* issued, the hosts know the same once everything has been delivered.     *)
(* Otherwise they need not: each host applies the updates in the order it  *)
(* gets them, and one that was refused at the coordinator, whose tunnel is *)
(* registered next, may be accepted at another host.                       *)
ReplicasAgree ==
    (Quiet /\ ~trouble.seen
     /\ \A q, r \in Request :
          (/\ q # r /\ {req[q].op, req[r].op} \subseteq Registration
           /\ req[q].state # "new" /\ req[r].state # "new")
          => Before(q, r) \/ Before(r, q))
    => \A m, n \in Active : srv[m].reg = srv[n].reg

(* A client gives up only on a request that something stood in the way of: *)
(* a datagram of it was lost, it or its replicas met a node that could not *)
(* serve it, or its answer was RETRY or of a kind nobody sends.            *)
GivenUpForAReason ==
    \A r \in Request : req[r].state = "gaveup" => why[r] # {}

(* Where a machine is, is never answered from a copy that is not active,   *)
(* although the domain may be deactivated between the check of the VNID    *)
(* and the handler; and the tunnels of an answer are registered there.     *)
AnswersAreCurrent ==
    [][\A d \in net' \ net :
          (d.kind = "reply" /\ d.st = "none" /\ req[d.r].op \in Lookup)
          => srv[d.from].dom = "active" /\ d.who \subseteq Having(srv[d.from], "tunnel")]_vars

(* A request that is passed on from node to node does not travel for ever, *)
(* although nothing counts its hops: as soon as the maps are true it meets *)
(* a host, or a node that knows of none.                                   *)
ForwardingSettles ==
    \A r \in Request :
        (\E m \in net : m.kind = "request" /\ m.r = r)
        ~> ~(\E m \in net : m.kind = "request" /\ m.r = r)
=============================================================================
