------------------------- MODULE DcsRequestsProofs --------------------------
(***************************************************************************)
(* What the answers of the servers are worth, for any number of nodes,     *)
(* clients, requests and tries and whatever the scenario: a lookup after a *)
(* successful registration of the machine names its new tunnel             *)
(* (FreshAnswer), hosts that were left alone agree (ReplicasAgree), and    *)
(* where a machine is, is answered from active copies only                 *)
(* (AnswersAreCurrent).                                                    *)
(*                                                                         *)
(* The three rest on what becomes of one try of one request: it is one     *)
(* datagram until a host takes it, at most one update per host after that, *)
(* and a success only when no update of it is left (FlowInv).              *)
(***************************************************************************)
EXTENDS DcsRequests, TLAPS

\* A leaf that names no prover is tried with Zenon, then with SMT.
USE ZenonT(20), SMTT(20)

----------------------------------------------------------------------------
(* The inductive invariant                                                 *)

\* The datagrams that are on their way or before a handler
Msgs == net \cup UNION {cur[n] : n \in Node}

\* The request of a client, and the tracker of a coordinator
ReqRecord ==
  [state : {"new", "open", "done", "gaveup"}, op : Op, key : Key, by : Client,
   to : Node, tries : 0 .. MaxTries, earlier : SUBSET Request,
   ans : dps_client_data_t \cup {NoOne}]

Tracker == [at : Node, r : Request, try : 1 .. MaxTries, left : SUBSET Node]

Typed ==
  /\ srv \in [Node -> Server] /\ cur \in [Node -> SUBSET dps_client_data_t]
  /\ \A n \in Node : \A m, d \in cur[n] : m = d
  /\ net \subseteq dps_client_data_t /\ track \subseteq Tracker
  /\ req \in [Request -> ReqRecord] /\ told \in [Request -> SUBSET Node]
  /\ cache \in [Client -> Node \cup {NoOne}]
  /\ trouble \in [left : Nat, seen : BOOLEAN]

\* Two datagrams of the same try of the same request
SameTry(m, d) == m.r = d.r /\ m.try = d.try

\* A success: the reply in m
Success(m) == m.kind = "reply" /\ m.st = "none"

\* One try: one request datagram, then one update for every other host, then
\* the acknowledgement of that host, then a success if there is one.
Compatible(m, d) ==
  SameTry(m, d) =>
    /\ m.kind = "request" =>
         /\ d.kind = "request" => d = m
         /\ d.kind \notin {"update", "ack"} /\ ~ Success(d)
    /\ m.kind = "update" =>
         /\ d.kind = "update" /\ d.to = m.to => d = m
         /\ d.kind = "ack" => d.from # m.to
         /\ ~ Success(d)

\* The tracker waits for whoever has an update before it.
Awaited(m, t) ==
  SameTry(m, t) => m.kind # "request" /\ (m.kind = "update" => m.to \in t.left)

\* Servers get requests, updates and acknowledgements, clients get replies
\* and notices; updates, acknowledgements and trackers belong to registrations;
\* what exists of a request belongs to a try its client made.
Proper(m) ==
  /\ m.kind \in {"request", "update", "ack"} => m.to \in Node
  /\ m.kind \in {"reply", "notice"} => m.to \in Client
  /\ m.kind # "request" => m.from \in Node
  /\ m.kind \in {"update", "ack"} => req[m.r].op \in Registration
  /\ req[m.r].state # "new" /\ m.try <= req[m.r].tries

ProperTracker(t) ==
  req[t.r].op \in Registration /\ req[t.r].state # "new" /\ t.try <= req[t.r].tries

ProperRequest(r) ==
  /\ req[r].state = "new" => req[r].tries = 0 /\ told[r] = {} /\ req[r].earlier = {}
  /\ req[r].state # "new" => req[r].tries >= 1
  /\ req[r].state = "done" =>
       /\ req[r].ans \in dps_client_data_t /\ req[r].ans.r = r
       /\ req[r].ans.kind = "reply" /\ req[r].ans.try <= req[r].tries
  /\ \A q \in req[r].earlier : req[q].state = "done"

\* A request or an update is on its way or before one handler.
Placed ==
  \A n \in Node : \A m \in cur[n] :
    m.to = n /\ (m.kind \in {"request", "update"} => m \notin net)

\* A request of the first try has not been registered anywhere.
Untold == \A m \in Msgs : m.kind = "request" /\ req[m.r].tries = 1 => told[m.r] = {}

\* Nothing of a try that was answered with success is still to be applied.
Answered ==
  \A r \in Request :
    req[r].state = "done" /\ req[r].ans.st = "none" =>
      \A m \in Msgs : m.kind \in {"request", "update"} => ~ SameTry(m, req[r].ans)

FlowInv ==
  /\ Placed /\ Untold /\ Answered
  /\ \A m \in Msgs : Proper(m)
  /\ \A t \in track : ProperTracker(t)
  /\ \A r \in Request : ProperRequest(r)
  /\ \A m, d \in Msgs : Compatible(m, d)
  /\ \A m \in Msgs : \A t \in track : Awaited(m, t)

\* Nothing registered later or repeatedly can have moved the machine again.
Alone(r) ==
  /\ req[r].op = "endpoint" /\ req[r].tries = 1
  /\ \A x \in Request : ~ MayUndo(x, r)

\* Host h is known to have applied the registration r.
Applied(h, r) ==
  \/ \E m \in Msgs : m.kind = "ack" /\ m.r = r /\ m.from = h /\ m.st = "none"
  \/ \E t \in track : t.r = r /\ h \notin t.left
  \/ \E m \in Msgs : m.r = r /\ Success(m)
  \/ req[r].state = "done" /\ req[r].ans.st = "none"

\* The machines a set of registrations has, and the tunnels
In(reg, kind) == {c \in Client : <<kind, c>> \in reg}

AppliedInv ==
  \A r \in Request : \A h \in told[r] :
    Alone(r) /\ Applied(h, r) => In(srv[h].reg, "endpoint") = {req[r].by}

\* The answer d to a lookup issued after the success of r is true of r.
Names(d, r) ==
  (/\ d.what \in {"tunnel", "first", "external"}
   /\ req[d.r].op \in Lookup /\ req[d.r].key \in {"vm_ip", "vm_mac"}
   /\ r \in req[d.r].earlier /\ req[r].ans.st = "none"
   /\ Alone(r) /\ d.from \in told[r])
  => d.what # "external" /\ d.who = {req[r].by}

FreshInv ==
  /\ \A d \in net : d.kind = "reply" => \A r \in Request : Names(d, r)
  /\ \A q \in Request : req[q].state = "done" => \A r \in Request : Names(req[q].ans, r)

\* The machine is behind a registered tunnel.
Housed(reg) == In(reg, "endpoint") \subseteq In(reg, "tunnel")
HousedInv == \A n \in Node : Housed(srv[n].reg)

\* Without trouble: the hosts and the maps are those of the start, and every
\* datagram belongs to the latest try.
CalmInv ==
  ~ trouble.seen =>
    /\ \A n \in Node :
         /\ srv[n].started /\ srv[n].hosts = Active
         /\ srv[n].dom = "active" => srv[n].vnid
         /\ cur[n] # {} => srv[n].dom = "active"
    /\ \A m \in Msgs :
         m.try = req[m.r].tries /\ (m.kind = "update" => m.to \in Active)
    /\ \A t \in track : t.try = req[t.r].tries
    /\ \A r \in Request : req[r].state = "done" => req[r].ans.try = req[r].tries

\* Of any two registrations one was answered without error before the other
\* was issued.
Ordered ==
  \A q, r \in Request :
    (/\ q # r /\ {req[q].op, req[r].op} \subseteq Registration
     /\ req[q].state # "new" /\ req[r].state # "new")
    => Before(q, r) \/ Before(r, q)

\* Host h has an update before it.
Due(h) == \E m \in Msgs : m.kind = "update" /\ m.to = h

\* Hosts differ by the one registration that is under way.
AgreeInv ==
  ~ trouble.seen /\ Ordered =>
    /\ \A g, h \in Active : (Due(g) <=> Due(h)) => srv[g].reg = srv[h].reg
    /\ \A m \in Msgs : m.kind = "update" =>
         \A h \in Active : ~ Due(h) =>
           srv[h].reg = Apply(srv[m.to], req[m.r].op, req[m.r].by).reg

IInv ==
  /\ Typed /\ FlowInv /\ AppliedInv /\ FreshInv /\ HousedInv /\ CalmInv /\ AgreeInv

\* What a step of anyone leaves of the requests
ReqKept ==
  \A r \in Request :
    /\ req'[r].op = req[r].op /\ req'[r].key = req[r].key /\ req'[r].by = req[r].by
    /\ req[r].tries <= req'[r].tries
    /\ req[r].state # "new" => req'[r].state # "new" /\ req'[r].earlier = req[r].earlier
    /\ req[r].state = "done" => req'[r] = req[r]

----------------------------------------------------------------------------
(* The answers to lookups                                                  *)

LEMMA HavingIn == ASSUME NEW s, NEW kind PROVE Having(s, kind) = In(s.reg, kind)
  BY DEF Having, In

AnswerType ==
  [st : {"none", "retry", "invalid_domain", "invalid_dst_ip", "invalid_euid",
         "invalid_tunnel", "no_route", "no_memory", "undefined"},
   what : {"nothing", "tunnel", "first", "undefined", "gateway", "external",
           "list", "zero"},
   who : SUBSET Client]

\* What a lookup in state s may say: it is typed; without an error it comes
\* from an active domain and names registered tunnels; when the machine is
\* with b, no other place is named.
Sound(a, s, key) ==
  /\ a \in AnswerType
  /\ a.st = "none" => s.dom = "active"
  /\ a.st = "none" /\ Housed(s.reg) => a.who \subseteq Having(s, "tunnel")
  /\ \A b : /\ Having(s, "endpoint") = {b} /\ key \in {"vm_ip", "vm_mac"}
            /\ a.what \in {"tunnel", "first", "external"}
            => a.what # "external" /\ a.who = {b}

LEMMA AnswerIs ==
  ASSUME NEW st, NEW what, NEW who
  PROVE  /\ Answer(st, what, who).st = st /\ Answer(st, what, who).what = what
         /\ Answer(st, what, who).who = who
         /\ Only(st).st = st /\ Only(st).what = "nothing" /\ Only(st).who = {}
  BY DEF Answer, Only

LEMMA OnlySound ==
  ASSUME NEW s, NEW key,
         NEW st \in {"retry", "invalid_domain", "invalid_dst_ip", "invalid_euid", "no_route",
                     "no_memory", "undefined"}
  PROVE  Sound(Only(st), s, key)
  BY DEF Sound, Only, Answer, AnswerType

LEMMA HavingClients == ASSUME NEW s, NEW kind PROVE Having(s, kind) \subseteq Client
  BY DEF Having

LEMMA FoundSound ==
  ASSUME NEW s, NEW key, s.dom = "active" PROVE Sound(Found(s), s, key)
  BY HavingClients, HavingIn DEF Sound, Found, Answer, AnswerType, Housed

LEMMA NothingSound ==
  ASSUME NEW s, NEW key, s.dom = "active"
  PROVE  Sound(Answer("none", "gateway", {}), s, key) /\ Sound(Answer("none", "nothing", {}), s, key)
  BY DEF Sound, Answer, AnswerType

LEMMA NotFoundSound ==
  ASSUME NEW s, NEW key, s.dom = "active",
         key \in {"vm_ip", "vm_mac"} => Having(s, "endpoint") = {}
  PROVE  Sound(Endpoint_Not_Found(s), s, key)
  <1> DEFINE gws == Having(s, "tunnel") \cap Gateway
  <1>1. gws \subseteq Client /\ gws \subseteq Having(s, "tunnel")
    BY HavingClients
  <1>2. Endpoint_Not_Found(s) \in {Only("invalid_dst_ip"), Only("no_route"),
                                   Answer("none", "external", gws)}
    BY DEF Endpoint_Not_Found
  <1>3. \A b : key \in {"vm_ip", "vm_mac"} => Having(s, "endpoint") # {b}
    OBVIOUS
  <1>4. Sound(Answer("none", "external", gws), s, key)
    <2> HIDE DEF gws
    <2> QED
      BY <1>1, <1>3 DEF Sound, Answer, AnswerType
  <1> QED
    BY <1>2, <1>4, OnlySound

LEMMA EndpointQuerySound ==
  ASSUME NEW s \in Server, NEW key \in Key PROVE Sound(EndpointQuery(s, key), s, key)
  <1>1. s.dom \in {"none", "inactive", "active"}
    BY DEF Server
  <1>2. CASE key \in {"vm_ip", "gw_ip"}
    <2>1. EndpointQuery(s, key) = Endpoint_Location_vIP(s, key)
      BY <1>2 DEF EndpointQuery
    <2>2. CASE s.dom # "active"
      BY <1>1, <2>1, <2>2, OnlySound DEF Endpoint_Location_vIP
    <2>3. CASE s.dom = "active" /\ key = "vm_ip" /\ Having(s, "endpoint") # {}
      BY <2>1, <2>3, FoundSound DEF Endpoint_Location_vIP
    <2>4. CASE s.dom = "active" /\ key = "gw_ip"
      BY <2>1, <2>4, NothingSound DEF Endpoint_Location_vIP
    <2>5. CASE s.dom = "active" /\ key = "vm_ip" /\ Having(s, "endpoint") = {}
      BY <2>1, <2>5, NotFoundSound DEF Endpoint_Location_vIP
    <2> QED
      BY <1>2, <2>2, <2>3, <2>4, <2>5
  <1>3. CASE key \in {"vm_mac", "gw_mac"}
    <2>1. EndpointQuery(s, key) = Endpoint_Location_vMac(s, key)
      BY <1>3 DEF EndpointQuery
    <2>2. CASE s.dom # "active"
      BY <1>1, <2>1, <2>2, OnlySound DEF Endpoint_Location_vMac
    <2>3. CASE s.dom = "active" /\ key = "vm_mac" /\ Having(s, "endpoint") # {}
      BY <2>1, <2>3, FoundSound DEF Endpoint_Location_vMac
    <2>4. CASE s.dom = "active" /\ key = "gw_mac"
      BY <2>1, <2>4, NothingSound DEF Endpoint_Location_vMac
    <2>5. CASE s.dom = "active" /\ key = "vm_mac" /\ Having(s, "endpoint") = {}
      BY <2>1, <2>5, OnlySound DEF Endpoint_Location_vMac
    <2> QED
      BY <1>3, <2>2, <2>3, <2>4, <2>5
  <1> QED
    BY <1>2, <1>3 DEF Key

LEMMA PolicyQuerySound ==
  ASSUME NEW s \in Server, NEW key \in Key PROVE Sound(PolicyQuery(s, key), s, key)
  <1>1. s.dom \in {"none", "inactive", "active"}
    BY DEF Server
  <1>2. CASE key \in {"vm_ip", "gw_ip"}
    <2>1. PolicyQuery(s, key) = Policy_Resolution_vIP(s, key)
      BY <1>2 DEF PolicyQuery
    <2>2. CASE s.dom # "active"
      BY <1>1, <2>1, <2>2, OnlySound DEF Policy_Resolution_vIP
    <2>3. CASE s.dom = "active" /\ key = "vm_ip" /\ Having(s, "endpoint") # {}
      BY <2>1, <2>3, FoundSound, NothingSound DEF Policy_Resolution_vIP
    <2>4. CASE s.dom = "active" /\ key = "gw_ip"
      BY <2>1, <2>4, NothingSound DEF Policy_Resolution_vIP
    <2>5. CASE s.dom = "active" /\ key = "vm_ip" /\ Having(s, "endpoint") = {}
      BY <2>1, <2>5, NotFoundSound DEF Policy_Resolution_vIP
    <2> QED
      BY <1>2, <2>2, <2>3, <2>4, <2>5
  <1>3. CASE key \in {"vm_mac", "gw_mac"}
    <2>1. PolicyQuery(s, key) = Policy_Resolution_vMac(s, key)
      BY <1>3 DEF PolicyQuery
    <2>2. CASE s.dom = "active" /\ key = "vm_mac" /\ Having(s, "endpoint") # {}
      BY <2>1, <2>2, FoundSound, NothingSound DEF Policy_Resolution_vMac
    <2>3. CASE ~ (s.dom = "active" /\ key = "vm_mac" /\ Having(s, "endpoint") # {})
      BY <2>1, <2>3, OnlySound DEF Policy_Resolution_vMac
    <2> QED
      BY <2>2, <2>3
  <1> QED
    BY <1>2, <1>3 DEF Key

\* A list that did not fit is cut or left out.
LEMMA CutSound ==
  ASSUME NEW s, NEW key, NEW a, Sound(a, s, key), a.what = "tunnel"
  PROVE  Sound([a EXCEPT !.what = "first"], s, key) /\ Sound([a EXCEPT !.what = "undefined"], s, key)
  <1>1. a \in AnswerType
    BY DEF Sound
  <1>2. \A w \in {"first", "undefined"} :
          /\ [a EXCEPT !.what = w] \in AnswerType
          /\ [a EXCEPT !.what = w].st = a.st /\ [a EXCEPT !.what = w].who = a.who
          /\ [a EXCEPT !.what = w].what = w
    BY <1>1 DEF AnswerType
  <1> QED
    BY <1>2 DEF Sound

LEMMA LookupSound ==
  ASSUME NEW s \in Server, NEW key \in Key,
         NEW a \in dps_msg_endpoint_request(s, key) \cup dps_msg_policy_request(s, key)
  PROVE  Sound(a, s, key)
  <1>1. CASE a \in dps_msg_endpoint_request(s, key)
    <2> DEFINE q == EndpointQuery(s, key)
    <2>1. a = q \/ a = NoMemory \/ (q.what = "tunnel" /\ a = [q EXCEPT !.what = "first"])
      BY <1>1 DEF dps_msg_endpoint_request
    <2>2. Sound(q, s, key) /\ Sound(NoMemory, s, key)
      BY EndpointQuerySound, OnlySound DEF NoMemory
    <2>3. q.what = "tunnel" => Sound([q EXCEPT !.what = "first"], s, key)
      BY <2>2, CutSound
    <2> QED
      BY <2>1, <2>2, <2>3
  <1>2. CASE a \in dps_msg_policy_request(s, key)
    <2> DEFINE q == PolicyQuery(s, key)
    <2>1. \/ a = q \/ a = NoMemory \/ a = Only("retry")
          \/ (q.what = "tunnel" /\ a = [q EXCEPT !.what = "undefined"])
      BY <1>2 DEF dps_msg_policy_request
    <2>2. Sound(q, s, key) /\ Sound(NoMemory, s, key) /\ Sound(Only("retry"), s, key)
      BY PolicyQuerySound, OnlySound DEF NoMemory
    <2>3. q.what = "tunnel" => Sound([q EXCEPT !.what = "undefined"], s, key)
      BY <2>2, CutSound
    <2> QED
      BY <2>1, <2>2, <2>3
  <1> QED
    BY <1>1, <1>2

\* The answer to any request is typed.
LEMMA AnswersTyped ==
  ASSUME Typed, NEW s \in Server, NEW r \in Request, req[r].op \in Lookup \cup List
  PROVE  Answers(s, r) \subseteq AnswerType
  <1>0. req[r].op \in Op /\ req[r].key \in Key
    BY DEF Typed, ReqRecord
  <1>1. \A st \in {"none", "retry", "invalid_domain", "no_route", "no_memory"} :
          /\ Only(st) \in AnswerType
          /\ \A what \in {"nothing", "gateway", "list", "zero"} : \A who \in SUBSET Client :
               Answer(st, what, who) \in AnswerType
    BY DEF Only, Answer, AnswerType
  <1>2. \A kind : Having(s, kind) \in SUBSET Client /\ Having(s, kind) \cap Gateway \in SUBSET Client
    BY HavingClients
  <1>3. {} \in SUBSET Client /\ NoMemory \in AnswerType
    BY <1>1 DEF NoMemory
  <1>4. CASE req[r].op \in Lookup
    <2>1. Answers(s, r) \subseteq dps_msg_endpoint_request(s, req[r].key)
                                    \cup dps_msg_policy_request(s, req[r].key)
      BY <1>4 DEF Answers, Lookup
    <2> QED
      BY <1>0, <2>1, LookupSound DEF Sound
  <1>5. CASE req[r].op = "implicit"
    <2>1. Answers(s, r) = dps_msg_implicit_gateway_request(s)
      BY <1>5 DEF Answers
    <2> QED
      BY <2>1, <1>1, <1>3 DEF dps_msg_implicit_gateway_request, Implicit_Gateway_List
  <1>6. CASE req[r].op = "gateways"
    <2>1. Answers(s, r) = dps_msg_gateway_request(s)
      BY <1>6 DEF Answers
    <2> QED
      BY <2>1, <1>1, <1>2, <1>3 DEF dps_msg_gateway_request, Gateway_List
  <1>7. CASE req[r].op = "broadcast"
    <2>1. Answers(s, r) = dps_msg_broadcast_list_request(s)
      BY <1>7 DEF Answers
    <2> QED
      BY <2>1, <1>1, <1>2, <1>3 DEF dps_msg_broadcast_list_request, Broadcast_List
  <1>8. CASE req[r].op = "scope"
    <2>1. Answers(s, r) = dps_msg_multicast_global_scope_request(s)
      BY <1>8 DEF Answers
    <2>2. \A c \in Client : {c} \in SUBSET Client
      OBVIOUS
    <2>3. Multicast_Global_Scope_Get(s) \subseteq AnswerType
      BY <1>1, <1>2, <1>3, <2>2 DEF Multicast_Global_Scope_Get
    <2> QED
      BY <1>3, <2>1, <2>3 DEF dps_msg_multicast_global_scope_request
  <1>9. CASE req[r].op = "policies"
    <2>1. Answers(s, r) = dps_msg_vnid_policy_request(s, req[r].by)
      BY <1>9 DEF Answers
    <2> QED
      BY <2>1, <1>1, <1>3 DEF dps_msg_vnid_policy_request, Policy_Updates_Send_To
  <1> QED
    BY <1>4, <1>5, <1>6, <1>7, <1>8, <1>9 DEF List

----------------------------------------------------------------------------
(* The registrations                                                       *)

LEMMA RegisteredIs ==
  ASSUME NEW reg, NEW st PROVE Registered(reg, st).reg = reg /\ Registered(reg, st).st = st
  BY DEF Registered

ApplyStatus == {"none", "invalid_domain", "invalid_tunnel", "invalid_dst_ip"}

\* The five ways in which a registration changes what a node knows
With(reg, kind, c) == reg \cup {<<kind, c>>}
Without(reg, kind, c) == reg \ {<<kind, c>>}
MovedTo(reg, c) == (reg \ {<<"endpoint", d>> : d \in Client}) \cup {<<"endpoint", c>>}
Untunnelled(reg, c) == {x \in reg : x[2] # c \/ x[1] = "dead"}
                         \cup {<<"dead", x[2]>> : x \in reg \cap {<<"join", c>>}}

\* What Apply leaves, one line per handler
LEMMA ApplyIs ==
  ASSUME NEW s, NEW op \in Registration, NEW c \in Client
  PROVE  /\ Apply(s, op, c).st \in ApplyStatus
         /\ Apply(s, op, c).st = "none" => s.dom # "none"
         /\ \/ Apply(s, op, c).reg = s.reg /\ Apply(s, op, c).st # "none"
            \/ /\ op = "endpoint" /\ Apply(s, op, c).st = "none" /\ c \in Having(s, "tunnel")
               /\ Apply(s, op, c).reg = MovedTo(s.reg, c)
            \/ /\ op = "unendpoint" /\ Apply(s, op, c).st = "none"
               /\ Apply(s, op, c).reg = Without(s.reg, "endpoint", c)
            \/ /\ op = "tunnel" /\ Apply(s, op, c).st = "none"
               /\ Apply(s, op, c).reg = With(s.reg, "tunnel", c)
            \/ /\ op = "untunnel" /\ Apply(s, op, c).st = "none"
               /\ Apply(s, op, c).reg = Untunnelled(s.reg, c)
            \/ /\ op \in {"sender", "unsender", "join", "leave"} /\ Apply(s, op, c).st = "none"
               /\ \E kind \in {"sender", "join"} :
                    \/ Apply(s, op, c).reg = With(s.reg, kind, c)
                    \/ Apply(s, op, c).reg = Without(s.reg, kind, c)
  <1>1. CASE op \in {"endpoint", "unendpoint"}
    <2>1. Apply(s, op, c) = Endpoint_Update(s, c, op = "endpoint")
      BY <1>1 DEF Apply, dps_msg_endpoint_update
    <2> QED
      BY <1>1, <2>1, SMT DEF Endpoint_Update, Registered, ApplyStatus, With, Without,
                               MovedTo, Untunnelled
  <1>2. CASE op \in {"tunnel", "untunnel"}
    <2>1. Apply(s, op, c) = IF op = "tunnel" THEN Tunnel_Register(s, c) ELSE Tunnel_Unregister(s, c)
      BY <1>2 DEF Apply, dps_msg_tunnel_register
    <2> QED
      BY <1>2, <2>1, SMT DEF Tunnel_Register, Tunnel_Unregister, Registered, ApplyStatus,
                               With, Without, MovedTo, Untunnelled
  <1>3. CASE op \in {"sender", "unsender"}
    <2>1. Apply(s, op, c) = IF op = "sender" THEN Multicast_Sender_Register(s, c)
                            ELSE Multicast_Sender_Unregister(s, c)
      BY <1>3 DEF Apply, dps_msg_multicast_sender_register
    <2> QED
      BY <1>3, <2>1, SMT DEF Multicast_Sender_Register, Multicast_Sender_Unregister,
         Multicast_Get_Objects, Registered, ApplyStatus, With, Without, MovedTo, Untunnelled
  <1>4. CASE op \in {"join", "leave"}
    <2>1. Apply(s, op, c) = IF op = "join" THEN Multicast_Receiver_Register(s, c)
                            ELSE Multicast_Receiver_Unregister(s, c)
      BY <1>4 DEF Apply, dps_msg_multicast_receiver_register
    <2> QED
      BY <1>4, <2>1, SMT DEF Multicast_Receiver_Register, Multicast_Receiver_Unregister,
         Multicast_Get_Objects, Registered, ApplyStatus, With, Without, MovedTo, Untunnelled
  <1> QED
    BY <1>1, <1>2, <1>3, <1>4 DEF Registration

\* A registration is typed and keeps machines behind registered tunnels, moves
\* the machine only if it is one that may, moves it to its client when it
\* succeeds, and does the same to equal copies.
LEMMA ApplyTyped ==
  ASSUME NEW s, NEW op \in Registration, NEW c \in Client, s.reg \subseteq Kind \X Client
  PROVE  Apply(s, op, c).reg \subseteq Kind \X Client
  <1>1. \A kind \in Kind : \A d \in Client : <<kind, d>> \in Kind \X Client
    OBVIOUS
  <1>2. \A kind \in {"endpoint", "tunnel", "dead", "sender", "join"} :
          <<kind, c>> \in Kind \X Client
    BY <1>1 DEF Kind
  <1>3. \A x \in s.reg \cap {<<"join", c>>} : <<"dead", x[2]>> = <<"dead", c>>
    OBVIOUS
  <1>4. \A kind \in {"endpoint", "tunnel", "dead", "sender", "join"} :
          /\ With(s.reg, kind, c) \subseteq Kind \X Client
          /\ Without(s.reg, kind, c) \subseteq Kind \X Client
    BY <1>2 DEF With, Without
  <1>5. MovedTo(s.reg, c) \subseteq Kind \X Client
    BY <1>2 DEF MovedTo
  <1>6. Untunnelled(s.reg, c) \subseteq Kind \X Client
    BY <1>2, <1>3 DEF Untunnelled
  <1> QED
    BY <1>4, <1>5, <1>6, ApplyIs, SMT

\* What becomes of the machine and of the tunnels
LEMMA InOther ==
  ASSUME NEW reg, NEW kind, NEW k, k # kind, NEW c
  PROVE  In(With(reg, k, c), kind) = In(reg, kind) /\ In(Without(reg, k, c), kind) = In(reg, kind)
  <1>1. \A d : <<kind, d>> # <<k, c>>
    BY SMT
  <1> QED
    BY <1>1 DEF In, With, Without

LEMMA InMoved ==
  ASSUME NEW reg, NEW c \in Client
  PROVE  /\ In(MovedTo(reg, c), "endpoint") = {c}
         /\ In(MovedTo(reg, c), "tunnel") = In(reg, "tunnel")
  <1> DEFINE all == {<<"endpoint", d>> : d \in Client}
             new == (reg \ all) \cup {<<"endpoint", c>>}
  <1>1. \A d \in Client : <<"endpoint", d>> \in all
    OBVIOUS
  <1>2. \A d : <<"endpoint", d>> = <<"endpoint", c>> => d = c
    BY SMT
  <1>3. \A d : <<"tunnel", d>> \notin all /\ <<"tunnel", d>> # <<"endpoint", c>>
    BY SMT
  <1> HIDE DEF all
  <1>4. In(new, "endpoint") = {c}
    BY <1>1, <1>2 DEF In
  <1>5. In(new, "tunnel") = In(reg, "tunnel")
    BY <1>3 DEF In
  <1> QED
    BY <1>4, <1>5 DEF all, MovedTo

LEMMA UntunnelHoused ==
  ASSUME NEW reg, NEW c \in Client, Housed(reg)
  PROVE  Housed(Untunnelled(reg, c))
  <1> DEFINE kept == {x \in reg : x[2] # c \/ x[1] = "dead"}
             dead == {<<"dead", x[2]>> : x \in reg \cap {<<"join", c>>}}
  <1>1. \A kind \in {"endpoint", "tunnel"} : \A d :
          <<kind, d>> \in kept <=> <<kind, d>> \in reg /\ d # c
    BY SMT
  <1>2. \A kind \in {"endpoint", "tunnel"} : \A d : <<kind, d>> \notin dead
    BY SMT
  <1> HIDE DEF kept, dead
  <1>3. \A kind \in {"endpoint", "tunnel"} : \A d :
          <<kind, d>> \in kept \cup dead <=> <<kind, d>> \in reg /\ d # c
    BY <1>1, <1>2
  <1>4. \A d \in Client : <<"endpoint", d>> \in reg => <<"tunnel", d>> \in reg
    BY DEF Housed, In
  <1>5. Housed(kept \cup dead)
    BY <1>3, <1>4 DEF Housed, In
  <1> QED
    BY <1>5 DEF kept, dead, Untunnelled

LEMMA ApplyHoused ==
  ASSUME NEW s, NEW op \in Registration, NEW c \in Client, Housed(s.reg)
  PROVE  Housed(Apply(s, op, c).reg)
  <1>1. In(s.reg, "endpoint") \subseteq In(s.reg, "tunnel")
    BY DEF Housed
  <1>2. c \in Having(s, "tunnel") => Housed(MovedTo(s.reg, c))
    BY InMoved, HavingIn DEF Housed
  <1>3. Housed(Without(s.reg, "endpoint", c))
    <2>1. In(Without(s.reg, "endpoint", c), "tunnel") = In(s.reg, "tunnel")
      BY InOther, SMT
    <2>2. In(Without(s.reg, "endpoint", c), "endpoint") \subseteq In(s.reg, "endpoint")
      BY DEF In, Without
    <2> QED
      BY <1>1, <2>1, <2>2 DEF Housed
  <1>4. Housed(With(s.reg, "tunnel", c))
    <2>1. In(With(s.reg, "tunnel", c), "endpoint") = In(s.reg, "endpoint")
      BY InOther, SMT
    <2>2. In(s.reg, "tunnel") \subseteq In(With(s.reg, "tunnel", c), "tunnel")
      BY DEF In, With
    <2> QED
      BY <1>1, <2>1, <2>2 DEF Housed
  <1>5. \A kind \in {"sender", "join"} :
          Housed(With(s.reg, kind, c)) /\ Housed(Without(s.reg, kind, c))
    BY <1>1, InOther, SMT DEF Housed
  <1> QED
    BY ApplyIs, UntunnelHoused, <1>2, <1>3, <1>4, <1>5, SMT

LEMMA ApplyEndpoint ==
  ASSUME NEW s, NEW op, op = "endpoint", NEW c \in Client,
         Apply(s, op, c).st = "none" \/ In(s.reg, "endpoint") = {c}
  PROVE  In(Apply(s, op, c).reg, "endpoint") = {c}
  <1>1. op \in Registration
    BY DEF Registration
  <1>2. \/ Apply(s, op, c).reg = s.reg /\ Apply(s, op, c).st # "none"
        \/ Apply(s, op, c).reg = MovedTo(s.reg, c)
    BY <1>1, ApplyIs, SMT
  <1> QED
    BY <1>2, InMoved, SMT

LEMMA ApplyStays ==
  ASSUME NEW s, NEW op \in Registration, NEW c \in Client, ~ Moves(op)
  PROVE  In(Apply(s, op, c).reg, "endpoint") = In(s.reg, "endpoint")
  <1>1. op \notin {"endpoint", "unendpoint", "untunnel"}
    BY DEF Moves
  <1>2. \/ Apply(s, op, c).reg = s.reg
        \/ \E kind \in {"sender", "join", "tunnel"} :
             \/ Apply(s, op, c).reg = With(s.reg, kind, c)
             \/ Apply(s, op, c).reg = Without(s.reg, kind, c)
    BY <1>1, ApplyIs, SMT
  <1> QED
    BY <1>2, InOther, SMT

LEMMA ApplySame ==
  ASSUME NEW s, NEW t, NEW op, NEW c, s.dom = t.dom, s.reg = t.reg
  PROVE  Apply(s, op, c) = Apply(t, op, c)
  <1>1. \A kind : Having(s, kind) = Having(t, kind)
    BY DEF Having
  <1>2. Endpoint_Update(s, c, op = "endpoint") = Endpoint_Update(t, c, op = "endpoint")
    BY <1>1 DEF Endpoint_Update
  <1>3. /\ Tunnel_Register(s, c) = Tunnel_Register(t, c)
        /\ Tunnel_Unregister(s, c) = Tunnel_Unregister(t, c)
    BY DEF Tunnel_Register, Tunnel_Unregister
  <1>4. Multicast_Get_Objects(s, c) = Multicast_Get_Objects(t, c)
    BY <1>1 DEF Multicast_Get_Objects
  <1>5. /\ Multicast_Sender_Register(s, c) = Multicast_Sender_Register(t, c)
        /\ Multicast_Sender_Unregister(s, c) = Multicast_Sender_Unregister(t, c)
    BY <1>4 DEF Multicast_Sender_Register, Multicast_Sender_Unregister
  <1>6. /\ Multicast_Receiver_Register(s, c) = Multicast_Receiver_Register(t, c)
        /\ Multicast_Receiver_Unregister(s, c) = Multicast_Receiver_Unregister(t, c)
    BY <1>4 DEF Multicast_Receiver_Register, Multicast_Receiver_Unregister
  <1> QED
    BY <1>2, <1>3, <1>5, <1>6 DEF Apply, dps_msg_endpoint_update, dps_msg_tunnel_register,
       dps_msg_multicast_sender_register, dps_msg_multicast_receiver_register

----------------------------------------------------------------------------
(* Datagrams and requests                                                  *)

LEMMA MsgIs ==
  ASSUME NEW m \in dps_client_data_t
  PROVE  /\ m.kind \in {"request", "update", "ack", "reply", "notice"}
         /\ m.r \in Request /\ m.try \in 1 .. MaxTries /\ m.try \in Nat /\ m.try >= 1
         /\ m.from \in Node \cup Client /\ m.to \in Node \cup Client
         /\ m.who \subseteq Client
  <1>1. /\ m.kind \in {"request", "update", "ack", "reply", "notice"}
        /\ m.r \in Request /\ m.try \in 1 .. MaxTries
        /\ m.from \in Node \cup Client /\ m.to \in Node \cup Client
        /\ m.who \in SUBSET Client
    BY DEF dps_client_data_t
  <1>2. m.try \in Nat /\ m.try >= 1
    BY <1>1, RequestsAssumption, SMT
  <1> QED
    BY <1>1, <1>2

LEMMA MsgsIs ==
  ASSUME NEW d
  PROVE  d \in Msgs <=> d \in net \/ \E n \in Node : d \in cur[n]
  BY DEF Msgs

LEMMA MsgsTyped ==
  ASSUME Typed, NEW m \in Msgs PROVE m \in dps_client_data_t
  <1>1. /\ net \subseteq dps_client_data_t
        /\ \A n \in Node : cur[n] \subseteq dps_client_data_t
    BY DEF Typed
  <1> QED
    BY <1>1, MsgsIs

LEMMA ReqIs ==
  ASSUME Typed, NEW r \in Request
  PROVE  /\ req[r] \in ReqRecord /\ DOMAIN req = Request
         /\ req[r].state \in {"new", "open", "done", "gaveup"}
         /\ req[r].op \in Op /\ req[r].key \in Key /\ req[r].by \in Client
         /\ req[r].to \in Node /\ req[r].tries \in 0 .. MaxTries /\ req[r].tries \in Nat
         /\ req[r].earlier \subseteq Request
  <1>1. req[r] \in ReqRecord /\ DOMAIN req = Request
    BY DEF Typed
  <1>2. /\ req[r].state \in {"new", "open", "done", "gaveup"}
        /\ req[r].op \in Op /\ req[r].key \in Key /\ req[r].by \in Client
        /\ req[r].to \in Node /\ req[r].tries \in 0 .. MaxTries
        /\ req[r].earlier \in SUBSET Request
    BY <1>1 DEF ReqRecord
  <1>3. req[r].tries \in Nat
    BY <1>2, RequestsAssumption, SMT
  <1> QED
    BY <1>1, <1>2, <1>3

LEMMA SrvIs ==
  ASSUME Typed, NEW n \in Node
  PROVE  /\ srv[n] \in Server /\ DOMAIN srv = Node
         /\ srv[n].started \in BOOLEAN /\ srv[n].vnid \in BOOLEAN /\ srv[n].ask \in BOOLEAN
         /\ srv[n].dom \in {"none", "inactive", "active"}
         /\ srv[n].hosts \in SUBSET Node /\ srv[n].reg \in SUBSET (Kind \X Client)
  <1>1. srv[n] \in Server /\ DOMAIN srv = Node
    BY DEF Typed
  <1> QED
    BY <1>1 DEF Server

LEMMA TrackerIs ==
  ASSUME Typed, NEW t \in track
  PROVE  /\ t \in Tracker /\ t.at \in Node /\ t.r \in Request /\ t.try \in 1 .. MaxTries
         /\ t.left \in SUBSET Node /\ t.try \in Nat /\ t.try >= 1
  <1>1. t \in Tracker
    BY DEF Typed
  <1>2. t.at \in Node /\ t.r \in Request /\ t.try \in 1 .. MaxTries /\ t.left \in SUBSET Node
    BY <1>1 DEF Tracker
  <1>3. t.try \in Nat /\ t.try >= 1
    BY <1>2, RequestsAssumption, SMT
  <1> QED
    BY <1>1, <1>2, <1>3

LEMMA DatagramIs ==
  ASSUME NEW kind \in {"request", "update", "ack", "reply", "notice"}, NEW r \in Request,
         NEW try \in 1 .. MaxTries, NEW from \in Node \cup Client, NEW to \in Node \cup Client
  PROVE  /\ Datagram(kind, r, try, from, to) \in dps_client_data_t
         /\ Datagram(kind, r, try, from, to).kind = kind
         /\ Datagram(kind, r, try, from, to).r = r
         /\ Datagram(kind, r, try, from, to).try = try
         /\ Datagram(kind, r, try, from, to).from = from
         /\ Datagram(kind, r, try, from, to).to = to
  <1>1. {} \in SUBSET Client
    OBVIOUS
  <1> QED
    BY <1>1 DEF Datagram, dps_client_data_t

\* A datagram with another status and payload
LEMMA FilledIs ==
  ASSUME NEW d \in dps_client_data_t, NEW a \in AnswerType
  PROVE  LET e == [d EXCEPT !.st = a.st, !.what = a.what, !.who = a.who]
         IN  /\ e \in dps_client_data_t
             /\ e.kind = d.kind /\ e.r = d.r /\ e.try = d.try /\ e.from = d.from /\ e.to = d.to
             /\ e.st = a.st /\ e.what = a.what /\ e.who = a.who
  <1>1. /\ a.st \in {"none", "retry", "invalid_domain", "invalid_dst_ip", "invalid_euid",
                     "invalid_tunnel", "no_route", "no_memory", "undefined"}
        /\ a.what \in {"nothing", "tunnel", "first", "undefined", "gateway", "external",
                       "list", "zero"}
        /\ a.who \in SUBSET Client
    BY DEF AnswerType
  <1> QED
    BY <1>1 DEF dps_client_data_t

LEMMA ReplyIs ==
  ASSUME Typed, NEW n \in Node, NEW m \in dps_client_data_t, NEW a \in AnswerType
  PROVE  LET d == Reply(n, m, a)
         IN  /\ d \in dps_client_data_t
             /\ m.kind = "request" => d.kind = "reply" /\ d.to = req[m.r].by
             /\ m.kind # "request" => d.kind = "ack" /\ d.to = m.from
             /\ d.r = m.r /\ d.try = m.try /\ d.from = n
             /\ d.st = a.st /\ d.what = a.what /\ d.who = a.who
  <1> DEFINE kind == IF m.kind = "request" THEN "reply" ELSE "ack"
             to == dps_form_endpoint_update_reply(m)
             e == Datagram(kind, m.r, m.try, n, to)
  <1>1. /\ m.kind = "request" => kind = "reply" /\ to = req[m.r].by
        /\ m.kind # "request" => kind = "ack" /\ to = m.from
        /\ kind \in {"request", "update", "ack", "reply", "notice"}
    BY DEF dps_form_endpoint_update_reply
  <1>2. m.r \in Request /\ m.try \in 1 .. MaxTries /\ m.from \in Node \cup Client
    BY MsgIs
  <1>3. to \in Node \cup Client
    BY <1>1, <1>2, ReqIs
  <1>4. n \in Node \cup Client
    OBVIOUS
  <1> HIDE DEF kind, to
  <1>5. /\ e \in dps_client_data_t /\ e.kind = kind /\ e.r = m.r /\ e.try = m.try
        /\ e.from = n /\ e.to = to
    BY <1>1, <1>2, <1>3, <1>4, DatagramIs, SMT
  <1>6. Reply(n, m, a) = [e EXCEPT !.st = a.st, !.what = a.what, !.who = a.who]
    BY DEF Reply, kind, to
  <1> HIDE DEF e
  <1> DEFINE d == [e EXCEPT !.st = a.st, !.what = a.what, !.who = a.who]
  <1>7. /\ d \in dps_client_data_t
        /\ d.kind = e.kind /\ d.r = e.r /\ d.try = e.try /\ d.from = e.from /\ d.to = e.to
        /\ d.st = a.st /\ d.what = a.what /\ d.who = a.who
    BY <1>5, FilledIs
  <1> HIDE DEF d
  <1>8. Reply(n, m, a) = d
    BY <1>6 DEF d
  <1> QED
    BY <1>1, <1>5, <1>7, <1>8

----------------------------------------------------------------------------
(* What the steps leave of a request                                       *)

LEMMA FlowParts ==
  ASSUME FlowInv
  PROVE  /\ Placed /\ Untold /\ Answered
         /\ \A m \in Msgs : Proper(m)
         /\ \A t \in track : ProperTracker(t)
         /\ \A r \in Request : ProperRequest(r)
         /\ \A m, d \in Msgs : Compatible(m, d)
         /\ \A m \in Msgs : \A t \in track : Awaited(m, t)
  BY DEF FlowInv

LEMMA ProperKept ==
  ASSUME Typed, Typed', ReqKept, NEW m \in dps_client_data_t, Proper(m)
  PROVE  Proper(m)'
  <1>1. m.r \in Request /\ m.try \in Nat
    BY MsgIs
  <1>2. /\ req'[m.r].op = req[m.r].op /\ req[m.r].tries <= req'[m.r].tries
        /\ req[m.r].state # "new" => req'[m.r].state # "new"
    BY <1>1 DEF ReqKept
  <1>3. req[m.r].tries \in Nat
    BY <1>1, ReqIs
  <1>4. req'[m.r].tries \in Nat
    <2>1. req' \in [Request -> ReqRecord]
      BY DEF Typed
    <2>2. req'[m.r].tries \in 0 .. MaxTries
      BY <1>1, <2>1 DEF ReqRecord
    <2> QED
      BY <2>2, RequestsAssumption, SMT
  <1>5. m.try <= req[m.r].tries
    BY DEF Proper
  <1>6. m.try <= req'[m.r].tries
    BY <1>1, <1>2, <1>3, <1>4, <1>5, SMT
  <1> QED
    BY <1>2, <1>6 DEF Proper

LEMMA ProperTrackerKept ==
  ASSUME Typed, Typed', ReqKept, NEW t \in track, ProperTracker(t)
  PROVE  ProperTracker(t)'
  <1>1. t.r \in Request /\ t.try \in Nat
    BY TrackerIs
  <1>2. /\ req'[t.r].op = req[t.r].op /\ req[t.r].tries <= req'[t.r].tries
        /\ req[t.r].state # "new" => req'[t.r].state # "new"
    BY <1>1 DEF ReqKept
  <1>3. req[t.r].tries \in Nat
    BY <1>1, ReqIs
  <1>4. req'[t.r].tries \in Nat
    <2>1. req' \in [Request -> ReqRecord]
      BY DEF Typed
    <2>2. req'[t.r].tries \in 0 .. MaxTries
      BY <1>1, <2>1 DEF ReqRecord
    <2> QED
      BY <2>2, RequestsAssumption, SMT
  <1>5. t.try <= req[t.r].tries
    BY DEF ProperTracker
  <1>6. t.try <= req'[t.r].tries
    BY <1>1, <1>2, <1>3, <1>4, <1>5, SMT
  <1> QED
    BY <1>2, <1>6 DEF ProperTracker

\* A step that leaves the requests alone
LEMMA ReqSame ==
  ASSUME Typed, req' = req PROVE ReqKept
  <1>1. \A r \in Request : req[r].tries <= req[r].tries
    <2> SUFFICES ASSUME NEW r \in Request PROVE req[r].tries <= req[r].tries
      OBVIOUS
    <2>1. req[r].tries \in Nat
      BY ReqIs
    <2> QED
      BY <2>1, SMT
  <1> QED
    BY <1>1 DEF ReqKept

LEMMA AloneKept ==
  ASSUME Typed, Typed', \A q \in Request : ProperRequest(q), ReqKept,
         NEW r \in Request, req[r].state # "new", Alone(r)'
  PROVE  Alone(r)
  <1>1. /\ req'[r].op = req[r].op /\ req[r].tries <= req'[r].tries
        /\ req'[r].earlier = req[r].earlier
    BY DEF ReqKept
  <1>2. req[r].tries \in Nat /\ req[r].tries >= 1 /\ req'[r].tries = 1
    BY ReqIs DEF ProperRequest, Alone
  <1>3. req[r].tries = 1
    BY <1>1, <1>2, SMT
  <1>4. ASSUME NEW x \in Request, MayUndo(x, r) PROVE FALSE
    <2>1. x # r /\ Moves(req[x].op) /\ req[x].state # "new"
      BY <1>4 DEF MayUndo
    <2>2. x # r /\ Moves(req'[x].op) /\ req'[x].state # "new"
      BY <2>1 DEF ReqKept
    <2>3. CASE ~ Before(x, r)
      <3>1. x \in req[r].earlier => req'[x] = req[x]
        BY DEF ProperRequest, ReqKept
      <3>2. ~ Before(x, r)'
        BY <1>1, <2>3, <3>1 DEF Before
      <3> QED
        BY <2>2, <3>2, <1>4 DEF MayUndo, Alone
    <2>4. CASE req[x].tries > 1
      <3>1. req[x].tries \in Nat /\ req[x].tries <= req'[x].tries
        BY ReqIs DEF ReqKept
      <3>2. req'[x].tries \in Nat
        <4>1. req' \in [Request -> ReqRecord]
          BY DEF Typed
        <4>2. req'[x].tries \in 0 .. MaxTries
          BY <4>1 DEF ReqRecord
        <4> QED
          BY <4>2, RequestsAssumption, SMT
      <3>3. req'[x].tries > 1
        BY <2>4, <3>1, <3>2, SMT
      <3> QED
        BY <2>2, <3>3, <1>4 DEF MayUndo, Alone
    <2> QED
      BY <1>4, <2>3, <2>4 DEF MayUndo
  <1> QED
    BY <1>1, <1>3, <1>4 DEF Alone

\* The only try of a request is its first.
LEMMA OnlyTry ==
  ASSUME Typed, NEW m \in dps_client_data_t, Proper(m), req[m.r].tries = 1
  PROVE  m.try = 1
  <1>1. m.try \in Nat /\ m.try >= 1
    BY MsgIs
  <1>2. m.try <= 1
    BY DEF Proper
  <1> QED
    BY <1>1, <1>2, SMT

\* As long as a registration of one try is to be applied, it is not answered
\* with success.
LEMMA NoSuccessYet ==
  ASSUME Typed, FlowInv, NEW m \in Msgs, m.kind \in {"request", "update"},
         req[m.r].tries = 1
  PROVE  ~ (req[m.r].state = "done" /\ req[m.r].ans.st = "none")
  <1> SUFFICES ASSUME req[m.r].state = "done", req[m.r].ans.st = "none" PROVE FALSE
    OBVIOUS
  <1>1. m \in dps_client_data_t /\ m.r \in Request
    BY MsgsTyped, MsgIs
  <1>2. m.try = 1
    BY <1>1, OnlyTry, FlowParts
  <1> DEFINE a == req[m.r].ans
  <1>3. a \in dps_client_data_t /\ a.r = m.r /\ a.try <= req[m.r].tries
    BY <1>1, FlowParts DEF ProperRequest
  <1>4. a.try \in Nat /\ a.try >= 1
    BY <1>3, MsgIs
  <1>5. a.try = 1
    BY <1>3, <1>4, SMT
  <1>6. SameTry(m, a)
    BY <1>2, <1>3, <1>5 DEF SameTry
  <1> QED
    BY <1>1, <1>6, FlowParts DEF Answered

\* What is to be applied does not move the machine of a registration that
\* nothing can undo.
LEMMA NoUndo ==
  ASSUME Typed, FlowInv, NEW m \in Msgs, m.kind \in {"request", "update"},
         NEW r \in Request, Alone(r), m.r # r
  PROVE  ~ Moves(req[m.r].op)
  <1> SUFFICES ASSUME Moves(req[m.r].op) PROVE FALSE
    OBVIOUS
  <1>1. m \in dps_client_data_t /\ m.r \in Request
    BY MsgsTyped, MsgIs
  <1>2. req[m.r].state # "new" /\ m.try <= req[m.r].tries
    BY FlowParts DEF Proper
  <1>3. Before(m.r, r) /\ ~ (req[m.r].tries > 1)
    BY <1>1, <1>2 DEF Alone, MayUndo
  <1>4. req[m.r].state = "done" /\ req[m.r].ans.st = "none"
    BY <1>3, FlowParts DEF Before, ProperRequest
  <1>5. req[m.r].tries = 1
    <2>1. req[m.r].tries \in Nat /\ m.try \in Nat /\ m.try >= 1
      BY <1>1, ReqIs, MsgIs
    <2> QED
      BY <1>2, <1>3, <2>1, SMT
  <1> QED
    BY <1>4, <1>5, NoSuccessYet

----------------------------------------------------------------------------
(* One try of one request                                                  *)

\* Old datagrams and trackers stay as they are to each other.
LEMMA FlowFrom ==
  ASSUME Typed, Typed', FlowInv, ReqKept,
         NEW old, old \subseteq Msgs, NEW new, NEW newt,
         Msgs' \subseteq old \cup new, track' \subseteq track \cup newt,
         Placed', Untold', Answered', \A r \in Request : ProperRequest(r)',
         \A d \in new : Proper(d)', \A t \in newt : ProperTracker(t)',
         \A d \in new : \A x \in old \cup new : Compatible(d, x) /\ Compatible(x, d),
         \A d \in new : \A t \in track \cup newt : Awaited(d, t),
         \A x \in old : \A t \in newt : Awaited(x, t)
  PROVE  FlowInv'
  <1>0. /\ \A m \in Msgs : Proper(m)
        /\ \A t \in track : ProperTracker(t)
        /\ \A m, d \in Msgs : Compatible(m, d)
        /\ \A m \in Msgs : \A t \in track : Awaited(m, t)
    BY FlowParts
  <1>1. \A m \in Msgs' : Proper(m)'
    <2> SUFFICES ASSUME NEW m \in Msgs' PROVE Proper(m)'
      OBVIOUS
    <2>1. CASE m \in new
      BY <2>1
    <2>2. CASE m \in old
      BY <1>0, <2>2, ProperKept, MsgsTyped
    <2> QED
      BY <2>1, <2>2
  <1>2. \A t \in track' : ProperTracker(t)'
    BY <1>0, ProperTrackerKept
  <1>3. \A m, d \in Msgs' : Compatible(m, d)
    BY <1>0
  <1>4. \A m \in Msgs' : \A t \in track' : Awaited(m, t)
    BY <1>0
  <1> QED
    BY <1>1, <1>2, <1>3, <1>4 DEF FlowInv, Compatible, Awaited, SameTry, Success

LEMMA ProperRequestSame ==
  ASSUME FlowInv, req' = req,
         \A r \in Request : req[r].state = "new" => told'[r] \subseteq told[r]
  PROVE  \A r \in Request : ProperRequest(r)'
  <1>1. \A r \in Request : ProperRequest(r)
    BY FlowParts
  <1> QED
    BY <1>1 DEF ProperRequest

\* A step that only takes away
LEMMA FlowLess ==
  ASSUME Typed, Typed', FlowInv, req' = req, Msgs' \subseteq Msgs, track' \subseteq track,
         \A r \in Request : told'[r] \subseteq told[r], Placed'
  PROVE  FlowInv'
  <1>1. ReqKept
    BY ReqSame
  <1>2. Untold'
    <2> SUFFICES ASSUME NEW m \in Msgs', m.kind = "request", req[m.r].tries = 1
                 PROVE  told'[m.r] = {}
      BY DEF Untold
    <2>1. m \in Msgs /\ m.r \in Request
      BY MsgsTyped, MsgIs
    <2>2. told[m.r] = {}
      BY <2>1, FlowParts DEF Untold
    <2> QED
      BY <2>1, <2>2
  <1>3. Answered'
    BY FlowParts DEF Answered
  <1>4. \A r \in Request : ProperRequest(r)'
    BY ProperRequestSame
  <1> DEFINE none == {}
  <1>5. /\ Msgs' \subseteq Msgs \cup none /\ track' \subseteq track \cup none
        /\ \A d \in none : FALSE
    OBVIOUS
  <1> HIDE DEF none
  <1> QED
    BY <1>1, <1>2, <1>3, <1>4, <1>5, FlowFrom

\* A node takes a request: what it makes of it is of the same try.
LEMMA FlowTaken ==
  ASSUME Typed, Typed', FlowInv, req' = req, Placed',
         NEW m \in Msgs, m.kind = "request", NEW new, NEW newt,
         Msgs' \subseteq (Msgs \ {m}) \cup new, track' \subseteq track \cup newt,
         \A d \in new : Proper(d) /\ SameTry(d, m),
         \A t \in newt : ProperTracker(t) /\ SameTry(m, t),
         \A d, e \in new : Compatible(d, e),
         \A d \in new : \A t \in newt : Awaited(d, t),
         \A r \in Request : r # m.r => told'[r] = told[r],
         told'[m.r] = told[m.r] \/ \A d \in new : d.kind # "request"
  PROVE  FlowInv'
  <1> DEFINE old == Msgs \ {m}
  <1>0. /\ m \in dps_client_data_t /\ m.r \in Request
        /\ \A d \in Msgs : d \in dps_client_data_t
    BY MsgsTyped, MsgIs
  <1>1. ReqKept
    BY ReqSame
  <1>2. \A x \in old : SameTry(x, m) =>
          x.kind \notin {"request", "update", "ack"} /\ ~ Success(x)
    <2> SUFFICES ASSUME NEW x \in old, SameTry(x, m)
                 PROVE  x.kind \notin {"request", "update", "ack"} /\ ~ Success(x)
      OBVIOUS
    <2>1. Compatible(m, x) /\ SameTry(m, x)
      BY FlowParts DEF SameTry
    <2> QED
      BY <2>1 DEF Compatible
  <1>3. Untold'
    <2> SUFFICES ASSUME NEW x \in Msgs', x.kind = "request", req[x.r].tries = 1
                 PROVE  told'[x.r] = {}
      BY DEF Untold
    <2>1. CASE x \in old
      <3>1. told[x.r] = {} /\ x.r \in Request
        BY <1>0, <2>1, FlowParts, MsgIs DEF Untold
      <3>2. x.r # m.r
        <4> SUFFICES ASSUME x.r = m.r PROVE FALSE
          OBVIOUS
        <4>1. x.try = 1 /\ m.try = 1
          BY <1>0, <2>1, OnlyTry, FlowParts
        <4>2. SameTry(x, m)
          BY <4>1 DEF SameTry
        <4> QED
          BY <1>2, <2>1, <4>2
      <3> QED
        BY <3>1, <3>2
    <2>2. CASE x \in new
      <3>1. x.r = m.r
        BY <2>2 DEF SameTry
      <3>2. told[m.r] = {}
        BY <3>1, FlowParts DEF Untold
      <3> QED
        BY <2>2, <3>1, <3>2
    <2> QED
      BY <2>1, <2>2
  <1>4. Answered'
    <2> SUFFICES ASSUME NEW r \in Request, req[r].state = "done", req[r].ans.st = "none",
                        NEW x \in Msgs', x.kind \in {"request", "update"}, SameTry(x, req[r].ans)
                 PROVE  FALSE
      BY DEF Answered, SameTry
    <2>1. CASE x \in old
      BY <2>1, FlowParts DEF Answered
    <2>2. CASE x \in new
      <3>1. SameTry(m, req[r].ans)
        BY <2>2 DEF SameTry
      <3> QED
        BY <3>1, FlowParts DEF Answered
    <2> QED
      BY <2>1, <2>2
  <1>5. \A r \in Request : ProperRequest(r)'
    <2>1. req[m.r].state # "new"
      BY FlowParts DEF Proper
    <2> QED
      BY <2>1, ProperRequestSame
  <1>6. /\ \A d \in new : Proper(d)'
        /\ \A t \in newt : ProperTracker(t)'
    BY DEF Proper, ProperTracker
  <1>7. \A d \in new : \A x \in old : Compatible(d, x) /\ Compatible(x, d)
    <2> SUFFICES ASSUME NEW d \in new, NEW x \in old PROVE Compatible(d, x) /\ Compatible(x, d)
      OBVIOUS
    <2>1. SameTry(d, m)
      OBVIOUS
    <2>2. SameTry(d, x) \/ SameTry(x, d) => SameTry(x, m)
      BY <2>1 DEF SameTry
    <2>3. CASE SameTry(x, m)
      BY <1>2, <2>3 DEF Compatible
    <2>4. CASE ~ SameTry(x, m)
      BY <2>2, <2>4 DEF Compatible
    <2> QED
      BY <2>3, <2>4
  <1>8. \A d \in new : \A t \in track : Awaited(d, t)
    <2> SUFFICES ASSUME NEW d \in new, NEW t \in track PROVE Awaited(d, t)
      OBVIOUS
    <2>1. SameTry(d, m) /\ Awaited(m, t)
      BY FlowParts
    <2>2. ~ SameTry(m, t)
      BY <2>1 DEF Awaited
    <2>3. ~ SameTry(d, t)
      BY <2>1, <2>2 DEF SameTry
    <2> QED
      BY <2>3 DEF Awaited
  <1>9. \A x \in old : \A t \in newt : Awaited(x, t)
    <2> SUFFICES ASSUME NEW x \in old, NEW t \in newt, SameTry(x, t)
                 PROVE  x.kind # "request" /\ x.kind # "update"
      BY DEF Awaited
    <2>1. SameTry(x, m)
      BY DEF SameTry
    <2> QED
      BY <1>2, <2>1
  <1>10. old \subseteq Msgs
    OBVIOUS
  <1> HIDE DEF old
  <1>11. Msgs' \subseteq old \cup new
    BY DEF old
  <1>12. \A d \in new : \A x \in old \cup new : Compatible(d, x) /\ Compatible(x, d)
    BY <1>7
  <1>13. \A d \in new : \A t \in track \cup newt : Awaited(d, t)
    BY <1>8
  <1> QED
    BY <1>1, <1>3, <1>4, <1>5, <1>6, <1>9, <1>10, <1>11, <1>12, <1>13, FlowFrom

\* A host takes an update, and acknowledges it if it applied it.
LEMMA FlowApplied ==
  ASSUME Typed, Typed', FlowInv, req' = req, told' = told, track' = track, Placed',
         NEW m \in Msgs, m.kind = "update", NEW new,
         Msgs' \subseteq (Msgs \ {m}) \cup new,
         \A d \in new : Proper(d) /\ SameTry(d, m) /\ d.kind = "ack" /\ d.from = m.to
  PROVE  FlowInv'
  <1> DEFINE old == Msgs \ {m}
  <1>1. ReqKept
    BY ReqSame
  <1>2. \A x \in old : SameTry(x, m) =>
          x.kind # "request" /\ (x.kind = "update" => x.to # m.to)
    <2> SUFFICES ASSUME NEW x \in old, SameTry(x, m)
                 PROVE  x.kind # "request" /\ (x.kind = "update" => x.to # m.to)
      OBVIOUS
    <2>1. Compatible(m, x) /\ SameTry(m, x) /\ Compatible(x, m)
      BY FlowParts DEF SameTry
    <2> QED
      BY <2>1 DEF Compatible
  <1>3. Untold'
    BY FlowParts DEF Untold
  <1>4. Answered'
    BY FlowParts DEF Answered
  <1>5. \A r \in Request : ProperRequest(r)'
    BY ProperRequestSame
  <1>6. \A d \in new : Proper(d)'
    BY DEF Proper
  <1>7. \A d \in new : \A x \in old : Compatible(d, x) /\ Compatible(x, d)
    <2> SUFFICES ASSUME NEW d \in new, NEW x \in old PROVE Compatible(d, x) /\ Compatible(x, d)
      OBVIOUS
    <2>1. SameTry(d, m) /\ d.kind = "ack" /\ d.from = m.to
      OBVIOUS
    <2>2. SameTry(x, d) => SameTry(x, m)
      BY <2>1 DEF SameTry
    <2>3. Compatible(d, x)
      BY <2>1 DEF Compatible
    <2>4. Compatible(x, d)
      BY <1>2, <2>1, <2>2 DEF Compatible, Success
    <2> QED
      BY <2>3, <2>4
  <1>8. \A d, e \in new : Compatible(d, e)
    BY DEF Compatible
  <1>9. \A d \in new : \A t \in track : Awaited(d, t)
    BY DEF Awaited
  <1>10. old \subseteq Msgs
    OBVIOUS
  <1> HIDE DEF old
  <1>11. Msgs' \subseteq old \cup new
    BY DEF old
  <1>12. \A d \in new : \A x \in old \cup new : Compatible(d, x) /\ Compatible(x, d)
    BY <1>7, <1>8
  <1> DEFINE none == {}
  <1>13. /\ track' \subseteq track \cup none /\ \A t \in none : ProperTracker(t)'
         /\ \A d \in new : \A t \in track \cup none : Awaited(d, t)
         /\ \A x \in old : \A t \in none : Awaited(x, t)
    BY <1>9
  <1> HIDE DEF none
  <1> QED
    BY <1>1, <1>3, <1>4, <1>5, <1>6, <1>10, <1>11, <1>12, <1>13, FlowFrom

\* The coordinator takes an acknowledgement: it waits for one host less, or
\* answers when it waits for no other.
LEMMA FlowReplied ==
  ASSUME Typed, Typed', FlowInv, req' = req, told' = told, Placed',
         NEW m \in Msgs, m.kind = "ack", NEW new, NEW newt,
         Msgs' \subseteq Msgs \cup new, track' \subseteq track \cup newt,
         \A t \in newt : \E s \in track :
            s.r = t.r /\ s.try = t.try /\ SameTry(m, t) /\ t.left = s.left \ {m.from},
         \A d \in new :
            /\ Proper(d) /\ SameTry(d, m) /\ d.kind = "reply"
            /\ d.st = "none" => \E s \in track : SameTry(m, s) /\ s.left \subseteq {m.from}
  PROVE  FlowInv'
  <1>1. ReqKept
    BY ReqSame
  <1>2. \A x \in Msgs : SameTry(x, m) =>
          x.kind # "request" /\ (x.kind = "update" => x.to # m.from)
    BY FlowParts DEF Compatible
  <1>3. Untold'
    BY FlowParts DEF Untold
  <1>4. Answered'
    BY FlowParts DEF Answered
  <1>5. \A r \in Request : ProperRequest(r)'
    BY ProperRequestSame
  <1>6. \A d \in new : Proper(d)'
    BY DEF Proper
  <1>7. \A t \in newt : ProperTracker(t)'
    <2> SUFFICES ASSUME NEW t \in newt PROVE ProperTracker(t)'
      OBVIOUS
    <2>1. PICK s \in track : s.r = t.r /\ s.try = t.try
      OBVIOUS
    <2>2. ProperTracker(s)
      BY FlowParts
    <2> QED
      BY <2>1, <2>2 DEF ProperTracker
  <1>8. \A d \in new : \A x \in Msgs : Compatible(x, d)
    <2> SUFFICES ASSUME NEW d \in new, NEW x \in Msgs, SameTry(x, d)
                 PROVE  /\ x.kind # "request"
                        /\ x.kind = "update" => d.kind = "reply" /\ ~ Success(d)
      BY DEF Compatible
    <2>1. SameTry(x, m)
      BY DEF SameTry
    <2>2. ASSUME x.kind = "update", Success(d) PROVE FALSE
      <3>1. PICK s \in track : SameTry(m, s) /\ s.left \subseteq {m.from}
        BY <2>2 DEF Success
      <3>2. SameTry(x, s) /\ Awaited(x, s)
        BY <2>1, <3>1, FlowParts DEF SameTry
      <3>3. x.to \in s.left
        BY <2>2, <3>2 DEF Awaited
      <3> QED
        BY <1>2, <2>1, <2>2, <3>1, <3>3
    <2> QED
      BY <1>2, <2>1, <2>2
  <1>9. \A d \in new : \A x \in Msgs \cup new : Compatible(d, x)
    BY DEF Compatible
  <1>10. \A d \in new : \A x \in Msgs \cup new : Compatible(d, x) /\ Compatible(x, d)
    BY <1>8, <1>9
  <1>11. \A d \in new : \A t \in track \cup newt : Awaited(d, t)
    BY DEF Awaited
  <1>12. \A x \in Msgs : \A t \in newt : Awaited(x, t)
    <2> SUFFICES ASSUME NEW x \in Msgs, NEW t \in newt PROVE Awaited(x, t)
      OBVIOUS
    <2>1. PICK s \in track :
            s.r = t.r /\ s.try = t.try /\ SameTry(m, t) /\ t.left = s.left \ {m.from}
      OBVIOUS
    <2>2. Awaited(x, s)
      BY FlowParts
    <2>3. SameTry(x, t) => SameTry(x, s) /\ SameTry(x, m)
      BY <2>1 DEF SameTry
    <2> QED
      BY <1>2, <2>1, <2>2, <2>3 DEF Awaited
  <1> QED
    BY <1>1, <1>3, <1>4, <1>5, <1>6, <1>7, <1>10, <1>11, <1>12, FlowFrom

\* A client sends a request: nothing of that try exists.
LEMMA FlowAsked ==
  ASSUME Typed, Typed', FlowInv, ReqKept, told' = told, track' = track, cur' = cur,
         NEW r \in Request, \A q \in Request \ {r} : req'[q] = req[q],
         NEW d \in dps_client_data_t, net' = net \cup {d},
         d.kind = "request", d.r = r, d.try > req[r].tries, Proper(d)',
         req'[r].state = "open", req'[r].tries = 1 => told[r] = {}, ProperRequest(r)'
  PROVE  FlowInv'
  <1>0. \A x \in Msgs : x \in dps_client_data_t /\ x.r \in Request /\ x.try \in Nat
    BY MsgsTyped, MsgIs
  <1>1. req[r].tries \in Nat /\ d.try \in Nat
    BY ReqIs, MsgIs
  <1>2. \A x \in Msgs : ~ SameTry(x, d)
    <2> SUFFICES ASSUME NEW x \in Msgs, SameTry(x, d) PROVE FALSE
      OBVIOUS
    <2>1. x.r = r /\ x.try = d.try /\ x.try <= req[r].tries
      BY FlowParts DEF SameTry, Proper
    <2> QED
      BY <1>0, <1>1, <2>1, SMT
  <1>3. \A t \in track : ~ SameTry(d, t)
    <2> SUFFICES ASSUME NEW t \in track, SameTry(d, t) PROVE FALSE
      OBVIOUS
    <2>1. t.r = r /\ t.try = d.try /\ t.try <= req[r].tries
      BY FlowParts DEF SameTry, ProperTracker
    <2> QED
      BY <1>1, <2>1, SMT
  <1>4. Msgs' \subseteq Msgs \cup {d}
    BY DEF Msgs
  <1>5. Placed'
    <2> SUFFICES ASSUME NEW n \in Node, NEW m \in cur[n]
                 PROVE  m.to = n /\ (m.kind \in {"request", "update"} => m \notin net \cup {d})
      BY DEF Placed
    <2>1. m.to = n /\ (m.kind \in {"request", "update"} => m \notin net)
      BY FlowParts DEF Placed
    <2>2. m \in Msgs
      BY MsgsIs
    <2>3. m # d
      BY <1>2, <2>2 DEF SameTry
    <2> QED
      BY <2>1, <2>3
  <1>6. Untold'
    <2> SUFFICES ASSUME NEW m \in Msgs', m.kind = "request", req'[m.r].tries = 1
                 PROVE  told[m.r] = {}
      BY DEF Untold
    <2>1. CASE m.r = r
      BY <2>1
    <2>2. CASE m.r # r
      <3>1. m \in Msgs
        BY <1>4, <2>2
      <3> QED
        BY <1>0, <2>2, <3>1, FlowParts DEF Untold
    <2> QED
      BY <2>1, <2>2
  <1>7. Answered'
    <2> SUFFICES ASSUME NEW q \in Request, req'[q].state = "done", req'[q].ans.st = "none",
                        NEW m \in Msgs', m.kind \in {"request", "update"},
                        SameTry(m, req'[q].ans)
                 PROVE  FALSE
      BY DEF Answered, SameTry
    <2>1. q # r /\ req'[q] = req[q]
      OBVIOUS
    <2>2. req[q].ans.r = q
      BY <2>1, FlowParts, SMT DEF ProperRequest
    <2>3. m # d
      BY <2>1, <2>2 DEF SameTry
    <2> QED
      BY <1>4, <2>1, <2>3, FlowParts DEF Answered
  <1>8. \A q \in Request : ProperRequest(q)'
    <2> SUFFICES ASSUME NEW q \in Request, q # r PROVE ProperRequest(q)'
      OBVIOUS
    <2>1. ProperRequest(q) /\ req'[q] = req[q]
      BY FlowParts
    <2>2. \A p \in req[q].earlier : req'[p].state = "done"
      <3>1. \A p \in req[q].earlier : p \in Request /\ req[p].state = "done"
        BY <2>1, ReqIs DEF ProperRequest
      <3> QED
        BY <3>1 DEF ReqKept
    <2> QED
      BY <2>1, <2>2 DEF ProperRequest
  <1>9. Compatible(d, d) /\ \A x \in Msgs : Compatible(d, x) /\ Compatible(x, d)
    <2>1. Compatible(d, d)
      BY DEF Compatible, Success
    <2>2. \A x \in Msgs : ~ SameTry(d, x)
      BY <1>2 DEF SameTry
    <2> QED
      BY <1>2, <2>1, <2>2 DEF Compatible
  <1>10. \A t \in track : Awaited(d, t)
    BY <1>3 DEF Awaited
  <1> DEFINE new == {d}
             none == {}
  <1>11. /\ Msgs' \subseteq Msgs \cup new /\ track' \subseteq track \cup none
         /\ \A e \in new : e = d
         /\ \A t \in none : FALSE
    BY <1>4
  <1> HIDE DEF new, none
  <1>12. /\ \A e \in new : Proper(e)'
         /\ \A e \in new : \A x \in Msgs \cup new : Compatible(e, x) /\ Compatible(x, e)
         /\ \A e \in new : \A t \in track \cup none : Awaited(e, t)
    BY <1>9, <1>10, <1>11
  <1> QED
    BY <1>5, <1>6, <1>7, <1>8, <1>11, <1>12, FlowFrom

\* A client takes the answer to a request, or reports it as unanswered.
LEMMA FlowSettled ==
  ASSUME Typed, Typed', FlowInv, ReqKept, told' = told, track' = track, Msgs' \subseteq Msgs,
         Placed', NEW r \in Request, \A q \in Request \ {r} : req'[q] = req[q],
         req[r].state = "open", req'[r].state \in {"done", "gaveup"},
         req'[r].tries = req[r].tries,
         req'[r].state = "done" =>
           /\ req'[r].ans \in Msgs /\ req'[r].ans.r = r /\ req'[r].ans.kind = "reply"
  PROVE  FlowInv'
  <1>1. Untold'
    <2> SUFFICES ASSUME NEW m \in Msgs', m.kind = "request", req'[m.r].tries = 1
                 PROVE  told[m.r] = {}
      BY DEF Untold
    <2>1. m \in Msgs /\ m.r \in Request
      BY MsgsTyped, MsgIs
    <2>2. req'[m.r].tries = req[m.r].tries
      BY <2>1
    <2> QED
      BY <2>1, <2>2, FlowParts DEF Untold
  <1>2. Answered'
    <2> SUFFICES ASSUME NEW q \in Request, req'[q].state = "done", req'[q].ans.st = "none",
                        NEW m \in Msgs', m.kind \in {"request", "update"},
                        SameTry(m, req'[q].ans)
                 PROVE  FALSE
      BY DEF Answered, SameTry
    <2>1. CASE q = r
      <3>1. Compatible(m, req'[r].ans) /\ Success(req'[r].ans)
        BY <2>1, FlowParts DEF Success
      <3> QED
        BY <2>1, <3>1 DEF Compatible
    <2>2. CASE q # r
      BY <2>2, FlowParts DEF Answered
    <2> QED
      BY <2>1, <2>2
  <1>3. \A q \in Request : ProperRequest(q)'
    <2> SUFFICES ASSUME NEW q \in Request PROVE ProperRequest(q)'
      OBVIOUS
    <2>1. ProperRequest(q) /\ req'[q].earlier = req[q].earlier
      BY FlowParts DEF ReqKept
    <2>2. \A p \in req[q].earlier : req'[p].state = "done"
      <3>1. \A p \in req[q].earlier : p \in Request /\ req[p].state = "done"
        BY <2>1, ReqIs DEF ProperRequest
      <3> QED
        BY <3>1 DEF ReqKept
    <2>3. CASE q # r
      BY <2>1, <2>2, <2>3 DEF ProperRequest
    <2>4. CASE q = r
      <3>1. req[r].tries >= 1
        BY <2>1, <2>4 DEF ProperRequest
      <3>2. req'[r].state = "done" =>
              req'[r].ans \in dps_client_data_t /\ req'[r].ans.try <= req[r].tries
        BY MsgsTyped, FlowParts DEF Proper
      <3> QED
        BY <2>1, <2>2, <2>4, <3>1, <3>2 DEF ProperRequest
    <2> QED
      BY <2>3, <2>4
  <1> DEFINE none == {}
  <1>4. /\ Msgs' \subseteq Msgs \cup none /\ track' \subseteq track \cup none
        /\ \A d \in none : FALSE
    OBVIOUS
  <1> HIDE DEF none
  <1> QED
    BY <1>1, <1>2, <1>3, <1>4, FlowFrom

----------------------------------------------------------------------------
(* What the other parts of the invariant ask of a step                     *)

LEMMA NewTried == ASSUME FlowInv, NEW r \in Request, told[r] # {} PROVE req[r].state # "new"
  BY FlowParts DEF ProperRequest

LEMMA AppliedKept ==
  ASSUME Typed, Typed', FlowInv, ReqKept, AppliedInv,
         \A r \in Request : \A h \in told'[r] : req[r].op = "endpoint" =>
           /\ h \in told[r] /\ In(srv'[h].reg, "endpoint") = In(srv[h].reg, "endpoint")
           /\ Applied(h, r)' => Applied(h, r)
  PROVE  AppliedInv'
  <1> SUFFICES ASSUME NEW r \in Request, NEW h \in told'[r], Alone(r)', Applied(h, r)'
               PROVE  In(srv'[h].reg, "endpoint") = {req'[r].by}
    BY DEF AppliedInv, In
  <1>1. req'[r].op = req[r].op /\ req'[r].by = req[r].by
    BY DEF ReqKept
  <1>2. req[r].op = "endpoint"
    BY <1>1 DEF Alone
  <1>3. h \in told[r] /\ Applied(h, r)
    BY <1>2
  <1>4. Alone(r)
    <2>1. req[r].state # "new"
      BY <1>3, NewTried
    <2> QED
      BY <2>1, AloneKept, FlowParts
  <1>5. In(srv[h].reg, "endpoint") = {req[r].by}
    BY <1>3, <1>4 DEF AppliedInv
  <1> QED
    BY <1>1, <1>2, <1>5

\* Nothing new says that a registration was applied.
LEMMA AppliedLess ==
  ASSUME NEW r \in Request, NEW h,
         \A d \in Msgs' : d.r = r /\ (d.kind = "ack" \/ Success(d)) => d \in Msgs,
         \A t \in track' : t.r = r => t \in track,
         \/ req'[r] = req[r] \/ req'[r].state # "done"
         \/ req'[r].ans \in Msgs /\ req'[r].ans.r = r /\ req'[r].ans.kind = "reply",
         Applied(h, r)'
  PROVE  Applied(h, r)
  <1>1. CASE \E m \in Msgs' : m.kind = "ack" /\ m.r = r /\ m.from = h /\ m.st = "none"
    BY <1>1 DEF Applied
  <1>2. CASE \E t \in track' : t.r = r /\ h \notin t.left
    BY <1>2 DEF Applied
  <1>3. CASE \E m \in Msgs' : m.r = r /\ Success(m)
    BY <1>3 DEF Applied
  <1>4. CASE req'[r].state = "done" /\ req'[r].ans.st = "none"
    BY <1>4 DEF Applied, Success
  <1> QED
    BY <1>1, <1>2, <1>3, <1>4 DEF Applied, Success

LEMMA NamesKept ==
  ASSUME Typed, Typed', FlowInv, ReqKept, NEW d, d.r \in Request, req[d.r].state # "new",
         NEW r \in Request, Names(d, r),
         Alone(r) /\ req[r].state = "done" /\ req[r].ans.st = "none" => told'[r] \subseteq told[r]
  PROVE  Names(d, r)'
  <1>1. /\ req'[d.r].op = req[d.r].op /\ req'[d.r].key = req[d.r].key
        /\ req'[d.r].earlier = req[d.r].earlier /\ req'[r].by = req[r].by
    BY DEF ReqKept
  <1> SUFFICES ASSUME d.what \in {"tunnel", "first", "external"},
                      req'[d.r].op \in Lookup, req'[d.r].key \in {"vm_ip", "vm_mac"},
                      r \in req'[d.r].earlier, req'[r].ans.st = "none", Alone(r)',
                      d.from \in told'[r]
               PROVE  d.what # "external" /\ d.who = {req'[r].by}
    BY DEF Names
  <1>2. req[r].state = "done"
    BY <1>1, FlowParts, SMT DEF ProperRequest
  <1>3. req'[r] = req[r]
    BY <1>2 DEF ReqKept
  <1>4. Alone(r)
    BY <1>2, AloneKept, FlowParts
  <1> QED
    BY <1>1, <1>2, <1>3, <1>4 DEF Names

LEMMA FreshKept ==
  ASSUME Typed, Typed', FlowInv, ReqKept, FreshInv,
         \A r \in Request :
           Alone(r) /\ req[r].state = "done" /\ req[r].ans.st = "none" => told'[r] \subseteq told[r],
         \A d \in net' : d.kind = "reply" => d \in net \/ \A r \in Request : Names(d, r)',
         \A q \in Request : req'[q].state = "done" =>
           \/ req[q].state = "done"
           \/ req'[q].ans \in net /\ req'[q].ans.kind = "reply"
  PROVE  FreshInv'
  <1>1. \A d \in net : d \in Msgs /\ d.r \in Request /\ req[d.r].state # "new"
    <2> SUFFICES ASSUME NEW d \in net PROVE d \in Msgs /\ d.r \in Request /\ req[d.r].state # "new"
      OBVIOUS
    <2>1. d \in Msgs
      BY MsgsIs
    <2> QED
      BY <2>1, MsgsTyped, MsgIs, FlowParts DEF Proper
  <1>2. \A d \in net : d.kind = "reply" => \A r \in Request : Names(d, r)'
    <2> SUFFICES ASSUME NEW d \in net, d.kind = "reply", NEW r \in Request PROVE Names(d, r)'
      OBVIOUS
    <2>1. Names(d, r)
      BY DEF FreshInv
    <2> QED
      BY <1>1, <2>1, NamesKept
  <1>3. \A d \in net' : d.kind = "reply" => \A r \in Request : Names(d, r)'
    BY <1>2
  <1>4. \A q \in Request : \A a : req'[q].state = "done" /\ a = req'[q].ans =>
          \A r \in Request : Names(a, r)'
    <2> SUFFICES ASSUME NEW q \in Request, NEW a, req'[q].state = "done", a = req'[q].ans,
                        NEW r \in Request
                 PROVE  Names(a, r)'
      OBVIOUS
    <2>1. CASE req[q].state = "done"
      <3>1. a = req[q].ans /\ a.r = q
        BY <2>1, FlowParts, SMT DEF ReqKept, ProperRequest
      <3>2. Names(a, r)
        BY <2>1, <3>1 DEF FreshInv
      <3> QED
        BY <2>1, <3>1, <3>2, NamesKept
    <2>2. CASE a \in net /\ a.kind = "reply"
      BY <1>2, <2>2
    <2> QED
      BY <2>1, <2>2
  <1> QED
    BY <1>3, <1>4 DEF FreshInv, Names

\* A step that is no trouble leaves the hosts and the maps as they are.
Steady ==
  ~ trouble'.seen =>
    /\ ~ trouble.seen
    /\ \A n \in Node :
         /\ srv'[n].started = srv[n].started /\ srv'[n].dom = srv[n].dom
         /\ srv'[n].hosts = srv[n].hosts /\ (srv[n].vnid => srv'[n].vnid)

LEMMA ActiveKept == ASSUME Steady, ~ trouble'.seen PROVE Active' = Active
  BY DEF Steady, Active

LEMMA CalmKept ==
  ASSUME Typed, CalmInv, Steady,
         ~ trouble'.seen =>
           /\ \A n \in Node : cur'[n] # {} => cur[n] # {} \/ srv[n].dom = "active"
           /\ \A m \in Msgs' :
                m.try = req'[m.r].tries /\ (m.kind = "update" => m.to \in Active)
           /\ \A t \in track' : t.try = req'[t.r].tries
           /\ \A r \in Request : req'[r].state = "done" => req'[r].ans.try = req'[r].tries
  PROVE  CalmInv'
  <1> SUFFICES ASSUME ~ trouble'.seen
               PROVE  /\ \A n \in Node :
                           /\ srv'[n].started /\ srv'[n].hosts = Active'
                           /\ srv'[n].dom = "active" => srv'[n].vnid
                           /\ cur'[n] # {} => srv'[n].dom = "active"
                      /\ \A m \in Msgs' :
                           m.try = req'[m.r].tries /\ (m.kind = "update" => m.to \in Active')
                      /\ \A t \in track' : t.try = req'[t.r].tries
                      /\ \A r \in Request : req'[r].state = "done" => req'[r].ans.try = req'[r].tries
    BY DEF CalmInv
  <1>1. Active' = Active
    BY ActiveKept
  <1>2. \A n \in Node : /\ srv[n].started /\ srv[n].hosts = Active
                        /\ srv[n].dom = "active" => srv[n].vnid
                        /\ cur[n] # {} => srv[n].dom = "active"
    BY DEF CalmInv, Steady
  <1> QED
    BY <1>1, <1>2 DEF Steady

\* A step of a server: what it sends or notes is of a try it got.
LEMMA CalmServed ==
  ASSUME Typed, FlowInv, CalmInv, Steady, req' = req, NEW new, NEW newt,
         Msgs' \subseteq Msgs \cup new, track' \subseteq track \cup newt,
         \A d \in new : /\ \E m \in Msgs : SameTry(d, m)
                        /\ d.kind = "update" => \E n \in Node : d.to \in srv[n].hosts,
         \A t \in newt : \E m \in Msgs : SameTry(m, t),
         ~ trouble'.seen => \A n \in Node : cur'[n] # {} => cur[n] # {} \/ srv[n].dom = "active"
  PROVE  CalmInv'
  <1>1. ASSUME ~ trouble'.seen
        PROVE  /\ \A n \in Node : srv[n].hosts = Active
               /\ \A m \in Msgs : m.try = req[m.r].tries /\ (m.kind = "update" => m.to \in Active)
               /\ \A t \in track : t.try = req[t.r].tries
               /\ \A r \in Request : req[r].state = "done" => req[r].ans.try = req[r].tries
    BY <1>1 DEF CalmInv, Steady
  <1>2. ASSUME ~ trouble'.seen
        PROVE  /\ \A d \in new : d.try = req[d.r].tries /\ (d.kind = "update" => d.to \in Active)
               /\ \A t \in newt : t.try = req[t.r].tries
    BY <1>1, <1>2, SMT DEF SameTry
  <1>3. ~ trouble'.seen =>
           /\ \A n \in Node : cur'[n] # {} => cur[n] # {} \/ srv[n].dom = "active"
           /\ \A m \in Msgs' :
                m.try = req'[m.r].tries /\ (m.kind = "update" => m.to \in Active)
           /\ \A t \in track' : t.try = req'[t.r].tries
           /\ \A r \in Request : req'[r].state = "done" => req'[r].ans.try = req'[r].tries
    BY <1>1, <1>2
  <1> QED
    BY <1>3, CalmKept

LEMMA OrderedKept ==
  ASSUME Typed, FlowInv, ReqKept, Ordered' PROVE Ordered
  <1> SUFFICES ASSUME NEW q \in Request, NEW r \in Request, q # r,
                      {req[q].op, req[r].op} \subseteq Registration,
                      req[q].state # "new", req[r].state # "new"
               PROVE  Before(q, r) \/ Before(r, q)
    BY DEF Ordered
  <1>1. /\ req'[q].op = req[q].op /\ req'[r].op = req[r].op
        /\ req'[q].state # "new" /\ req'[r].state # "new"
        /\ req'[q].earlier = req[q].earlier /\ req'[r].earlier = req[r].earlier
    BY DEF ReqKept
  <1>2. Before(q, r)' \/ Before(r, q)'
    BY <1>1 DEF Ordered
  <1>3. /\ q \in req[r].earlier => req'[q] = req[q]
        /\ r \in req[q].earlier => req'[r] = req[r]
    BY FlowParts DEF ProperRequest, ReqKept
  <1> QED
    BY <1>1, <1>2, <1>3 DEF Before

\* A step that applies nothing
LEMMA AgreeKept ==
  ASSUME Typed, FlowInv, CalmInv, AgreeInv, ReqKept, Steady,
         ~ trouble'.seen =>
            /\ \A n \in Node : srv'[n].reg = srv[n].reg
            /\ \A d : d.kind = "update" => (d \in Msgs' <=> d \in Msgs)
  PROVE  AgreeInv'
  <1> SUFFICES ASSUME ~ trouble'.seen, Ordered'
               PROVE  /\ \A g, h \in Active' : (Due(g)' <=> Due(h)') => srv'[g].reg = srv'[h].reg
                      /\ \A m \in Msgs' : m.kind = "update" =>
                           \A h \in Active' : ~ Due(h)' =>
                             srv'[h].reg = Apply(srv'[m.to], req'[m.r].op, req'[m.r].by).reg
    BY DEF AgreeInv, Apply
  <1>1. ~ trouble.seen /\ Ordered /\ Active' = Active
    BY OrderedKept, ActiveKept DEF Steady
  <1>2. \A h : Due(h)' <=> Due(h)
    BY DEF Due
  <1>3. Active \subseteq Node
    BY DEF Active
  <1>4. \A g, h \in Active : (Due(g) <=> Due(h)) => srv[g].reg = srv[h].reg
    BY <1>1 DEF AgreeInv
  <1>5. ASSUME NEW m \in Msgs', m.kind = "update", NEW h \in Active, ~ Due(h)
        PROVE  srv'[h].reg = Apply(srv'[m.to], req'[m.r].op, req'[m.r].by).reg
    <2>1. m \in Msgs /\ m.r \in Request /\ m.to \in Node
      BY <1>5, MsgsTyped, MsgIs, FlowParts DEF Proper
    <2>2. srv[h].reg = Apply(srv[m.to], req[m.r].op, req[m.r].by).reg
      BY <1>1, <1>5, <2>1 DEF AgreeInv
    <2>3. req'[m.r].op = req[m.r].op /\ req'[m.r].by = req[m.r].by
      BY <2>1 DEF ReqKept
    <2>4. srv'[m.to].dom = srv[m.to].dom /\ srv'[m.to].reg = srv[m.to].reg
      BY <2>1 DEF Steady
    <2>5. Apply(srv'[m.to], req[m.r].op, req[m.r].by) = Apply(srv[m.to], req[m.r].op, req[m.r].by)
      BY <2>4, ApplySame, SMT
    <2> QED
      BY <1>3, <1>5, <2>2, <2>3, <2>5
  <1> QED
    BY <1>1, <1>2, <1>3, <1>4, <1>5, SMT

----------------------------------------------------------------------------
(* The steps.  Each keeps the invariant and sends current answers only.    *)

CurrentAnswers ==
  \A d \in net' \ net :
    (d.kind = "reply" /\ d.st = "none" /\ req[d.r].op \in Lookup)
    => srv[d.from].dom = "active" /\ d.who \subseteq Having(srv[d.from], "tunnel")

LEMMA TroubleIs ==
  ASSUME Typed, NEW happens \in BOOLEAN, TroubleIf(happens)
  PROVE  /\ trouble' \in [left : Nat, seen : BOOLEAN]
         /\ ~ trouble'.seen => ~ trouble.seen /\ ~ happens
         /\ happens => trouble'.seen
  <1>0. trouble \in [left : Nat, seen : BOOLEAN]
    BY DEF Typed
  <1>1. CASE happens
    <2>1. trouble.left > 0 /\ trouble' = [left |-> trouble.left - 1, seen |-> TRUE]
      BY <1>1 DEF TroubleIf
    <2>2. trouble.left - 1 \in Nat
      BY <1>0, <2>1, SMT
    <2> QED
      BY <2>1, <2>2
  <1>2. CASE ~ happens
    BY <1>0, <1>2 DEF TroubleIf
  <1> QED
    BY <1>1, <1>2

\* A step that only takes datagrams and trackers away, or moves a datagram
\* to a handler
LEMMA PlainStep ==
  ASSUME IInv, Typed', req' = req, net' \subseteq net, Msgs' \subseteq Msgs,
         track' \subseteq track, Placed', Steady,
         ~ trouble'.seen =>
           /\ \A n \in Node : cur'[n] # {} => cur[n] # {} \/ srv[n].dom = "active"
           /\ \A n \in Node : srv'[n].reg = srv[n].reg
           /\ \A d \in Msgs : d.kind = "update" => d \in Msgs',
         \A r \in Request : told'[r] \subseteq told[r],
         \A r \in Request : \A h \in told'[r] :
           In(srv'[h].reg, "endpoint") = In(srv[h].reg, "endpoint"),
         \A n \in Node : Housed(srv'[n].reg)
  PROVE  IInv' /\ CurrentAnswers
  <1>0. /\ Typed /\ FlowInv /\ AppliedInv /\ FreshInv /\ HousedInv /\ CalmInv /\ AgreeInv
    BY DEF IInv
  <1>1. ReqKept
    BY <1>0, ReqSame
  <1>2. FlowInv'
    BY <1>0, FlowLess
  <1>3. AppliedInv'
    <2>1. ASSUME NEW r \in Request, NEW h, Applied(h, r)' PROVE Applied(h, r)
      BY <2>1, AppliedLess
    <2> QED
      BY <1>0, <1>1, <2>1, AppliedKept
  <1>4. FreshInv'
    BY <1>0, <1>1, FreshKept
  <1>5. HousedInv'
    BY DEF HousedInv, Housed, In
  <1>6. CalmInv'
    <2> DEFINE none == {}
    <2>1. /\ Msgs' \subseteq Msgs \cup none /\ track' \subseteq track \cup none
          /\ \A d \in none : FALSE
      OBVIOUS
    <2> HIDE DEF none
    <2> QED
      BY <1>0, <2>1, CalmServed
  <1>7. AgreeInv'
    <2>1. ~ trouble'.seen =>
            /\ \A n \in Node : srv'[n].reg = srv[n].reg
            /\ \A d : d.kind = "update" => (d \in Msgs' <=> d \in Msgs)
      OBVIOUS
    <2> QED
      BY <1>0, <1>1, <2>1, AgreeKept
  <1>8. CurrentAnswers
    BY DEF CurrentAnswers
  <1> QED
    BY <1>2, <1>3, <1>4, <1>5, <1>6, <1>7, <1>8 DEF IInv

\* A step that makes at most one other datagram out of a request
LEMMA SwapStep ==
  ASSUME IInv, Typed', req' = req, srv' = srv, track' = track, told' = told, Placed',
         ~ trouble'.seen => ~ trouble.seen,
         \A n \in Node : cur'[n] # {} => cur[n] # {},
         NEW m \in Msgs, m.kind = "request", NEW new, net' \subseteq net \cup new,
         Msgs' \subseteq (Msgs \ {m}) \cup new, Msgs \ {m} \subseteq Msgs',
         \A d, e \in new : d = e,
         \A d \in new :
           /\ Proper(d) /\ SameTry(d, m) /\ d.kind \in {"request", "reply", "notice"}
           /\ d.kind = "reply" =>
                /\ req[d.r].op # "endpoint" /\ \A r \in Request : Names(d, r)
                /\ d.st = "none" /\ req[d.r].op \in Lookup =>
                     srv[d.from].dom = "active" /\ d.who \subseteq Having(srv[d.from], "tunnel")
  PROVE  IInv' /\ CurrentAnswers
  <1>0. /\ Typed /\ FlowInv /\ AppliedInv /\ FreshInv /\ HousedInv /\ CalmInv /\ AgreeInv
    BY DEF IInv
  <1>1. ReqKept
    BY <1>0, ReqSame
  <1> DEFINE none == {}
  <1>n. /\ track' \subseteq track \cup none /\ \A t \in none : FALSE
    OBVIOUS
  <1> HIDE DEF none
  <1>2. FlowInv'
    <2>1. \A d, e \in new : Compatible(d, e)
      BY DEF Compatible, Success
    <2> QED
      BY <1>0, <1>n, <2>1, FlowTaken
  <1>3. AppliedInv'
    <2>1. ASSUME NEW r \in Request, NEW h, req[r].op = "endpoint", Applied(h, r)'
          PROVE  Applied(h, r)
      <3>1. \A d \in Msgs' : d.r = r /\ (d.kind = "ack" \/ Success(d)) => d \in Msgs
        BY <2>1 DEF Success
      <3> QED
        BY <2>1, <3>1, AppliedLess
    <2> QED
      BY <1>0, <1>1, <2>1, AppliedKept
  <1>4. FreshInv'
    <2>1. \A d \in new : d.kind = "reply" => \A r \in Request : Names(d, r)'
      BY DEF Names, Alone, MayUndo, Before
    <2> QED
      BY <1>0, <1>1, <2>1, FreshKept
  <1>5. HousedInv'
    BY <1>0 DEF HousedInv, Housed, In
  <1>s. Steady
    BY DEF Steady
  <1>6. CalmInv'
    BY <1>0, <1>n, <1>s, CalmServed
  <1>7. AgreeInv'
    <2>1. \A d : d.kind = "update" => (d \in Msgs' <=> d \in Msgs)
      OBVIOUS
    <2> QED
      BY <1>0, <1>1, <1>s, <2>1, AgreeKept
  <1>8. CurrentAnswers
    BY DEF CurrentAnswers
  <1> QED
    BY <1>2, <1>3, <1>4, <1>5, <1>6, <1>7, <1>8 DEF IInv

\* A request before a handler or on its way is nowhere else, and what has its
\* try is neither a request nor an update.
LEMMA AloneInTry ==
  ASSUME Typed, FlowInv, NEW m \in Msgs, m.kind = "request", NEW x \in Msgs, x # m, SameTry(x, m)
  PROVE  x.kind \notin {"request", "update"}
  <1>1. Compatible(m, x) /\ SameTry(m, x)
    BY FlowParts DEF SameTry
  <1> QED
    BY <1>1 DEF Compatible

LEMMA SendStep ==
  ASSUME IInv, NEW n \in Node, NEW m \in net, dps_protocol_send_to_server(n, m)
  PROVE  IInv' /\ CurrentAnswers
  <1>0. Typed /\ FlowInv /\ HousedInv /\ CalmInv
    BY DEF IInv
  <1>u. /\ m.to = n /\ cur[n] = {}
        /\ UNCHANGED <<track, req, cache, site, trouble, told>>
    BY DEF dps_protocol_send_to_server
  <1>m. m \in Msgs /\ m \in dps_client_data_t
    BY <1>0, MsgsIs, MsgsTyped
  <1>p. \A k \in Node : \A x \in cur[k] :
          x.to = k /\ (x.kind \in {"request", "update"} => x \notin net)
    BY <1>0, FlowParts DEF Placed
  <1>h. \A k \in Node : Housed(srv[k].reg)
    BY <1>0 DEF HousedInv
  <1> DEFINE where == Is_VNID_Handled_Locally(n)
             drop == \/ ~srv[n].started \/ where = "unknown"
                     \/ /\ where = "remote"
                        /\ ~dps_msg_functions_init(m) \/ Domain_Get_Random_Remote_Node(n) = {}
  <1>1. CASE /\ drop /\ srv' = [srv EXCEPT ![n].ask = @ \/ (srv[n].started /\ where = "unknown")]
             /\ net' = net \ {m} /\ UNCHANGED cur
    <2>1. \A k \in Node :
            /\ srv'[k] \in Server /\ srv'[k].reg = srv[k].reg /\ srv'[k].started = srv[k].started
            /\ srv'[k].dom = srv[k].dom /\ srv'[k].hosts = srv[k].hosts
            /\ srv'[k].vnid = srv[k].vnid
      <3> DEFINE b == srv[n].ask \/ (srv[n].started /\ where = "unknown")
      <3>1. srv' = [srv EXCEPT ![n] = [srv[n] EXCEPT !.ask = b]]
        BY <1>1
      <3>2. b \in BOOLEAN
        OBVIOUS
      <3> HIDE DEF b
      <3>3. \A k \in Node : srv[k] \in Server /\ DOMAIN srv = Node
        BY <1>0, SrvIs
      <3>4. LET s == [srv[n] EXCEPT !.ask = b]
            IN  /\ s \in Server /\ s.reg = srv[n].reg /\ s.started = srv[n].started
                /\ s.dom = srv[n].dom /\ s.hosts = srv[n].hosts /\ s.vnid = srv[n].vnid
        BY <3>2, <3>3, SMT DEF Server
      <3> QED
        BY <3>1, <3>3, <3>4
    <2>2. srv' \in [Node -> Server]
      BY <1>1, <2>1, <1>0 DEF Typed
    <2>3. Typed'
      BY <1>0, <1>1, <1>u, <2>2 DEF Typed
    <2>4. net' \subseteq net /\ Msgs' \subseteq Msgs /\ Placed'
      BY <1>1, <1>p DEF Msgs, Placed
    <2>5. Steady
      BY <1>u, <2>1 DEF Steady
    <2>6. ASSUME ~ trouble'.seen, NEW d \in Msgs, d.kind = "update" PROVE d \in Msgs'
      <3>1. ASSUME d = m PROVE FALSE
        <4>1. n \in Active /\ (srv[n].dom = "active" => srv[n].vnid)
          BY <1>0, <1>u, <1>m, <2>6, <3>1 DEF CalmInv
        <4>2. srv[n].started /\ srv[n].dom = "active" /\ srv[n].vnid
          BY <4>1 DEF Active
        <4> QED
          BY <1>1, <4>2 DEF Is_VNID_Handled_Locally
      <3> QED
        BY <1>1, <2>6, <3>1 DEF Msgs
    <2> QED
      BY <1>1, <1>h, <1>u, <2>1, <2>3, <2>4, <2>5, <2>6, PlainStep, SMT
  <1>2. CASE ~ drop /\ where = "remote" /\ dps_msg_forward_if_necessary(n, m)
    <2>1. m.kind = "request"
      BY <1>2 DEF dps_msg_functions_init
    <2>2. PICK h \in Domain_Get_Random_Remote_Node(n) :
            /\ net' = (net \ {m}) \cup {[m EXCEPT !.from = n, !.to = h]}
            /\ UNCHANGED <<srv, cur, why>>
      BY <1>2 DEF dps_msg_forward_if_necessary
    <2>3. h \in Node
      BY <1>0, SrvIs DEF Domain_Get_Random_Remote_Node
    <2>4. PICK d : d = [m EXCEPT !.from = n, !.to = h]
      OBVIOUS
    <2>5. /\ d \in dps_client_data_t /\ d.kind = "request" /\ d.r = m.r /\ d.try = m.try
          /\ d.from = n /\ d.to = h
      <3>1. n \in Node \cup Client /\ h \in Node \cup Client
        BY <2>3
      <3> QED
        BY <1>m, <2>1, <2>4, <3>1 DEF dps_client_data_t
    <2>6. net' = (net \ {m}) \cup {d} /\ UNCHANGED <<srv, cur, why>>
      BY <2>2, <2>4
    <2>7. Typed'
      BY <1>0, <1>u, <2>5, <2>6 DEF Typed
    <2>8. Proper(d) /\ SameTry(d, m)
      <3>1. Proper(m)
        BY <1>0, <1>m, FlowParts
      <3> QED
        BY <2>3, <2>5, <3>1 DEF Proper, SameTry
    <2>9. \A k \in Node : \A x \in cur[k] : x.kind \in {"request", "update"} => x # m /\ x # d
      <3> SUFFICES ASSUME NEW k \in Node, NEW x \in cur[k], x.kind \in {"request", "update"}
                   PROVE  x # m /\ x # d
        OBVIOUS
      <3>1. x # m /\ x \in Msgs
        BY <1>p, MsgsIs
      <3> QED
        BY <1>0, <1>m, <2>1, <2>8, <3>1, AloneInTry
    <2>10. Placed'
      BY <1>p, <2>6, <2>9 DEF Placed
    <2>11. \A k \in Node : m \notin cur[k]
      BY <2>1, <2>9
    <2> DEFINE new == {d}
    <2>12. /\ net' \subseteq net \cup new
           /\ Msgs' \subseteq (Msgs \ {m}) \cup new /\ Msgs \ {m} \subseteq Msgs'
      BY <2>6, <2>11 DEF Msgs
    <2>13. \A e \in new : e = d
      OBVIOUS
    <2> HIDE DEF new
    <2>14. \A e \in new : Proper(e) /\ SameTry(e, m) /\ e.kind = "request"
      BY <2>5, <2>8, <2>13
    <2> QED
      BY <1>m, <1>u, <2>1, <2>6, <2>7, <2>10, <2>12, <2>13, <2>14, SwapStep, SMT
  <1>3. CASE /\ ~ drop /\ where = "local" /\ cur' = [cur EXCEPT ![n] = {m}]
             /\ net' = net \ {m} /\ UNCHANGED <<srv, why>>
    <2>1. \A k \in Node : cur'[k] = IF k = n THEN {m} ELSE cur[k]
      BY <1>0, <1>3 DEF Typed
    <2>2. cur' \in [Node -> SUBSET dps_client_data_t]
      BY <1>0, <1>3, <1>m, SMT DEF Typed
    <2>3. Typed'
      <3>1. \A k \in Node : \A x, y \in cur'[k] : x = y
        BY <1>0, <2>1 DEF Typed
      <3> QED
        BY <1>0, <1>3, <1>u, <2>2, <3>1 DEF Typed
    <2>4. Msgs' \subseteq Msgs /\ Msgs \subseteq Msgs'
      <3>1. \A d \in Msgs' : d \in net \/ \E k \in Node : d \in cur[k]
        BY <1>3, <2>1, SMT DEF Msgs
      <3>2. \A d \in Msgs : d \in net' \/ \E k \in Node : d \in cur'[k]
        BY <1>3, <1>u, <2>1, SMT DEF Msgs
      <3> QED
        BY <3>1, <3>2 DEF Msgs
    <2>5. Placed'
      BY <1>3, <1>p, <1>u, <2>1, SMT DEF Placed
    <2>6. srv[n].dom = "active"
      BY <1>3 DEF Is_VNID_Handled_Locally
    <2>7. \A k \in Node : cur'[k] # {} => cur[k] # {} \/ srv[k].dom = "active"
      BY <2>1, <2>6
    <2>8. Steady
      BY <1>u, <1>3 DEF Steady
    <2>9. net' \subseteq net
      BY <1>3
    <2> QED
      BY <1>h, <1>u, <1>3, <2>3, <2>4, <2>5, <2>7, <2>8, <2>9, PlainStep
  <1> QED
    BY <1>1, <1>2, <1>3 DEF dps_protocol_send_to_server

Emptied(n) == cur' = [cur EXCEPT ![n] = {}]
Sent(new) == net' = net \cup new

\* A handler takes its datagram and sends others.
LEMMA Handled ==
  ASSUME Typed, FlowInv, NEW n \in Node, NEW m \in cur[n], Emptied(n),
         NEW new, new \subseteq dps_client_data_t, Sent(new),
         \A d \in new : d.kind \in {"request", "update"} => m.kind = "request" /\ SameTry(d, m)
  PROVE  /\ m \in Msgs /\ m \in dps_client_data_t /\ m.r \in Request /\ m.to = n
         /\ cur' \in [Node -> SUBSET dps_client_data_t]
         /\ \A k \in Node : \A x, y \in cur'[k] : x = y
         /\ \A k \in Node : cur'[k] # {} => cur[k] # {}
         /\ net' \subseteq dps_client_data_t /\ Placed'
         /\ Msgs' \subseteq Msgs \cup new /\ new \subseteq Msgs' /\ Msgs \ {m} \subseteq Msgs'
         /\ m.kind \in {"request", "update"} => Msgs' \subseteq (Msgs \ {m}) \cup new
  <1>1. m \in Msgs /\ m \in dps_client_data_t /\ m.r \in Request
    BY MsgsIs, MsgsTyped, MsgIs
  <1>2. \A k \in Node : \A x \in cur[k] :
          x.to = k /\ (x.kind \in {"request", "update"} => x \notin net)
    BY FlowParts DEF Placed
  <1>3. /\ cur \in [Node -> SUBSET dps_client_data_t]
        /\ \A k \in Node : \A x, y \in cur[k] : x = y
        /\ net \subseteq dps_client_data_t
    BY DEF Typed
  <1>4. \A k \in Node : cur'[k] = IF k = n THEN {} ELSE cur[k]
    BY <1>3 DEF Emptied
  <1>5. cur' \in [Node -> SUBSET dps_client_data_t]
    BY <1>3 DEF Emptied
  <1>6. Msgs' \subseteq Msgs \cup new /\ new \subseteq Msgs'
    <2>1. \A x \in Msgs' : x \in net \/ x \in new \/ \E k \in Node : x \in cur[k]
      BY <1>4 DEF Msgs, Sent
    <2> QED
      BY <2>1 DEF Msgs, Sent
  <1>7. Msgs \ {m} \subseteq Msgs'
    <2>1. \A x \in Msgs \ {m} : x \in net' \/ \E k \in Node : x \in cur'[k]
      BY <1>3, <1>4, MsgsIs DEF Sent
    <2> QED
      BY <2>1 DEF Msgs, Sent
  <1>8. ASSUME m.kind \in {"request", "update"} PROVE Msgs' \subseteq (Msgs \ {m}) \cup new
    <2> SUFFICES ASSUME NEW x \in Msgs', x \notin new PROVE x \in Msgs /\ x # m
      OBVIOUS
    <2>1. x \in net \/ \E k \in Node : k # n /\ x \in cur[k]
      BY <1>4 DEF Msgs, Sent
    <2> QED
      BY <1>2, <1>6, <1>8, <2>1, SMT
  <1>9. Placed'
    <2> SUFFICES ASSUME NEW k \in Node, NEW x \in cur'[k]
                 PROVE  x.to = k /\ (x.kind \in {"request", "update"} => x \notin net')
      BY DEF Placed
    <2>1. k # n /\ x \in cur[k]
      BY <1>4
    <2>2. x.to = k /\ (x.kind \in {"request", "update"} => x \notin net)
      BY <1>2, <2>1
    <2>3. ASSUME x.kind \in {"request", "update"}, x \in new PROVE FALSE
      <3>1. m.kind = "request" /\ SameTry(x, m)
        BY <2>3
      <3>2. x \in Msgs /\ x # m
        BY <1>2, <2>1, MsgsIs
      <3> QED
        BY <1>1, <2>3, <3>1, <3>2, AloneInTry
    <2> QED
      BY <2>2, <2>3 DEF Sent
  <1> QED
    BY <1>1, <1>2, <1>3, <1>4, <1>5, <1>6, <1>7, <1>8, <1>9 DEF Sent

\* Only requests, updates and acknowledgements come to a handler.
LEMMA HandledKind ==
  ASSUME Typed, FlowInv, NEW n \in Node, NEW m \in cur[n]
  PROVE  m.kind = "request" \/ (m.kind \in {"update", "ack"} /\ req[m.r].op \in Registration)
  <1>1. m \in Msgs /\ m \in dps_client_data_t
    BY MsgsIs, MsgsTyped
  <1>2. Proper(m) /\ m.to = n
    BY <1>1, FlowParts DEF Placed
  <1>3. m.kind \in {"request", "update", "ack", "reply", "notice"} /\ n \notin Client
    BY <1>1, MsgIs, RequestsAssumption
  <1> QED
    BY <1>2, <1>3 DEF Proper

\* A lookup is true of the registrations that were answered before it.
LEMMA LookupNames ==
  ASSUME IInv, NEW n \in Node, NEW m \in Msgs, req[m.r].op \in Lookup,
         NEW a, Sound(a, srv[n], req[m.r].key),
         NEW d, d.r = m.r, d.from = n, d.what = a.what, d.who = a.who,
         NEW r \in Request
  PROVE  Names(d, r)
  <1>0. Typed /\ FlowInv /\ AppliedInv
    BY DEF IInv
  <1> SUFFICES ASSUME d.what \in {"tunnel", "first", "external"},
                      req[m.r].key \in {"vm_ip", "vm_mac"}, r \in req[m.r].earlier,
                      req[r].ans.st = "none", Alone(r), n \in told[r]
               PROVE  d.what # "external" /\ d.who = {req[r].by}
    BY DEF Names
  <1>1. m.r \in Request
    BY <1>0, MsgsTyped, MsgIs
  <1>2. req[r].state = "done"
    BY <1>0, <1>1, FlowParts DEF ProperRequest
  <1>3. In(srv[n].reg, "endpoint") = {req[r].by}
    BY <1>0, <1>2 DEF AppliedInv, Applied
  <1>4. Having(srv[n], "endpoint") = {req[r].by}
    BY <1>3, HavingIn
  <1> QED
    BY <1>4 DEF Sound

LEMMA AnswerStep ==
  ASSUME IInv, NEW n \in Node, NEW m \in cur[n], Emptied(n),
         UNCHANGED <<req, cache, site>>, AnswerRequest(n, m)
  PROVE  IInv' /\ CurrentAnswers
  <1>0. Typed /\ FlowInv /\ HousedInv
    BY DEF IInv
  <1>1. req[m.r].op \in Lookup \cup List /\ UNCHANGED <<srv, track, told>>
    BY DEF AnswerRequest
  <1>2. m \in Msgs /\ m \in dps_client_data_t /\ m.r \in Request
    BY <1>0, MsgsIs, MsgsTyped, MsgIs
  <1>3. m.kind = "request"
    <2>1. req[m.r].op \notin Registration
      BY <1>1, SMT DEF Lookup, List, Registration
    <2> QED
      BY <1>0, <2>1, HandledKind
  <1>4. PICK a \in Answers(srv[n], m.r) :
          TroubleIf(a = NoMemory) /\ net' = net \cup dps_msg_send_inline(Reply(n, m, a))
    BY DEF AnswerRequest
  <1>5. trouble' \in [left : Nat, seen : BOOLEAN] /\ (~ trouble'.seen => ~ trouble.seen)
    <2>1. (a = NoMemory) \in BOOLEAN
      OBVIOUS
    <2> QED
      BY <1>0, <1>4, <2>1, TroubleIs
  <1>6. srv[n] \in Server /\ req[m.r].key \in Key /\ req[m.r].by \in Client
    BY <1>0, <1>2, SrvIs, ReqIs
  <1>7. a \in AnswerType
    BY <1>0, <1>1, <1>2, <1>6, AnswersTyped
  <1>8. req[m.r].op \in Lookup => Sound(a, srv[n], req[m.r].key)
    <2>1. req[m.r].op \in Lookup =>
            a \in dps_msg_endpoint_request(srv[n], req[m.r].key)
                    \cup dps_msg_policy_request(srv[n], req[m.r].key)
      BY <1>4 DEF Answers, Lookup
    <2> QED
      BY <1>6, <2>1, LookupSound
  <1>9. PICK d : d = Reply(n, m, a)
    OBVIOUS
  <1>10. /\ d \in dps_client_data_t /\ d.kind = "reply" /\ d.to = req[m.r].by
         /\ d.r = m.r /\ d.try = m.try /\ d.from = n
         /\ d.st = a.st /\ d.what = a.what /\ d.who = a.who
    BY <1>0, <1>2, <1>3, <1>7, <1>9, ReplyIs, SMT
  <1> DEFINE new == dps_msg_send_inline(d)
  <1>11. Sent(new) /\ \A e \in new : e = d
    BY <1>4, <1>9 DEF dps_msg_send_inline, Sent
  <1> HIDE DEF new
  <1>12. /\ new \subseteq dps_client_data_t
         /\ \A e \in new : e.kind \notin {"request", "update"}
    BY <1>10, <1>11
  <1>13. /\ cur' \in [Node -> SUBSET dps_client_data_t]
         /\ \A k \in Node : \A x, y \in cur'[k] : x = y
         /\ \A k \in Node : cur'[k] # {} => cur[k] # {}
         /\ net' \subseteq dps_client_data_t /\ Placed'
         /\ Msgs \ {m} \subseteq Msgs' /\ Msgs' \subseteq (Msgs \ {m}) \cup new
    BY <1>0, <1>3, <1>11, <1>12, Handled, SMT
  <1>14. Typed'
    BY <1>0, <1>1, <1>5, <1>13 DEF Typed
  <1>15. Proper(d) /\ SameTry(d, m)
    <2>1. Proper(m)
      BY <1>0, <1>2, FlowParts
    <2> QED
      BY <1>6, <1>10, <2>1 DEF Proper, SameTry
  <1>16. req[d.r].op # "endpoint"
    BY <1>1, <1>10 DEF Lookup, List
  <1>17. \A r \in Request : Names(d, r)
    <2>1. CASE req[m.r].op \in Lookup
      BY <1>2, <1>8, <1>10, <2>1, LookupNames
    <2>2. CASE req[m.r].op \notin Lookup
      BY <1>10, <2>2 DEF Names
    <2> QED
      BY <2>1, <2>2
  <1>18. d.st = "none" /\ req[d.r].op \in Lookup =>
           srv[d.from].dom = "active" /\ d.who \subseteq Having(srv[d.from], "tunnel")
    BY <1>0, <1>8, <1>10 DEF Sound, HousedInv
  <1>19. /\ \A e, f \in new : e = f
         /\ \A e \in new :
              /\ Proper(e) /\ SameTry(e, m) /\ e.kind \in {"request", "reply", "notice"}
              /\ e.kind = "reply" =>
                   /\ req[e.r].op # "endpoint" /\ \A r \in Request : Names(e, r)
                   /\ e.st = "none" /\ req[e.r].op \in Lookup =>
                        srv[e.from].dom = "active" /\ e.who \subseteq Having(srv[e.from], "tunnel")
    BY <1>10, <1>11, <1>15, <1>16, <1>17, <1>18
  <1>20. net' \subseteq net \cup new
    BY <1>11 DEF Sent
  <1> QED
    BY <1>1, <1>2, <1>3, <1>5, <1>13, <1>14, <1>19, <1>20, SwapStep

LEMMA MigrationStep ==
  ASSUME IInv, NEW n \in Node, NEW m \in cur[n], Emptied(n),
         UNCHANGED <<req, cache, site>>, PassMigration(n, m)
  PROVE  IInv' /\ CurrentAnswers
  <1>0. Typed /\ FlowInv
    BY DEF IInv
  <1>1. req[m.r].op = "migration" /\ UNCHANGED <<srv, track, told>>
    BY DEF PassMigration
  <1>2. m \in Msgs /\ m \in dps_client_data_t /\ m.r \in Request
    BY <1>0, MsgsIs, MsgsTyped, MsgIs
  <1>3. m.kind = "request"
    <2>1. req[m.r].op \notin Registration
      BY <1>1 DEF Registration
    <2> QED
      BY <1>0, <2>1, HandledKind
  <1>4. \E new \in SUBSET dps_client_data_t :
          /\ Sent(new) /\ \A e, f \in new : e = f
          /\ \A e \in new : /\ e.kind = "notice" /\ e.r = m.r /\ e.try = m.try
                            /\ e.from = n /\ e.to \in Client
          /\ trouble' \in [left : Nat, seen : BOOLEAN] /\ (~ trouble'.seen => ~ trouble.seen)
    <2>1. CASE UNCHANGED <<net, trouble>>
      <3>1. Sent({}) /\ {} \in SUBSET dps_client_data_t /\ \A e \in {} : FALSE
        BY <2>1 DEF Sent
      <3>2. trouble' \in [left : Nat, seen : BOOLEAN] /\ (~ trouble'.seen => ~ trouble.seen)
        BY <1>0, <2>1 DEF Typed
      <3> QED
        BY <3>1, <3>2
    <2>2. ASSUME NEW x \in dps_msg_vm_migration_event(srv[n]), TroubleIf(x.a = NoMemory),
                 net' = net \cup dps_msg_send_inline(
                          [Datagram("notice", m.r, m.try, n, x.c)
                             EXCEPT !.st = x.a.st, !.what = x.a.what, !.who = x.a.who])
          PROVE  \E new \in SUBSET dps_client_data_t :
                   /\ Sent(new) /\ \A e, f \in new : e = f
                   /\ \A e \in new : /\ e.kind = "notice" /\ e.r = m.r /\ e.try = m.try
                                     /\ e.from = n /\ e.to \in Client
                   /\ trouble' \in [left : Nat, seen : BOOLEAN]
                   /\ (~ trouble'.seen => ~ trouble.seen)
      <3>1. x.c \in Client /\ x.a \in dps_msg_policy_request(srv[n], "vm_ip")
        <4>1. dps_msg_vm_migration_event(srv[n]) \subseteq
                {[c |-> c, a |-> a] : c \in Having(srv[n], "tunnel"),
                                      a \in dps_msg_policy_request(srv[n], "vm_ip")}
          BY DEF dps_msg_vm_migration_event, pIP_Get_DPS_Client
        <4>2. PICK c \in Having(srv[n], "tunnel"), a \in dps_msg_policy_request(srv[n], "vm_ip") :
                x = [c |-> c, a |-> a]
          BY <4>1, SMT
        <4> QED
          BY <4>2, HavingClients
      <3>2. x.a \in AnswerType
        BY <1>0, <3>1, SrvIs, LookupSound DEF Sound, Key
      <3>3. trouble' \in [left : Nat, seen : BOOLEAN] /\ (~ trouble'.seen => ~ trouble.seen)
        <4>1. (x.a = NoMemory) \in BOOLEAN
          OBVIOUS
        <4> QED
          BY <1>0, <2>2, <4>1, TroubleIs
      <3> DEFINE g == Datagram("notice", m.r, m.try, n, x.c)
                 d == [g EXCEPT !.st = x.a.st, !.what = x.a.what, !.who = x.a.who]
      <3>4. /\ g \in dps_client_data_t /\ g.kind = "notice" /\ g.r = m.r /\ g.try = m.try
            /\ g.from = n /\ g.to = x.c
        <4>1. n \in Node \cup Client /\ x.c \in Node \cup Client /\ m.try \in 1 .. MaxTries
          BY <1>2, <3>1, MsgIs
        <4> QED
          BY <1>2, <4>1, DatagramIs, SMT
      <3> HIDE DEF g
      <3>5. /\ d \in dps_client_data_t /\ d.kind = g.kind /\ d.r = g.r /\ d.try = g.try
            /\ d.from = g.from /\ d.to = g.to
        BY <3>2, <3>4, FilledIs
      <3>6. net' = net \cup dps_msg_send_inline(d)
        BY <2>2 DEF g
      <3> HIDE DEF d
      <3> DEFINE new == dps_msg_send_inline(d)
      <3>7. new \in SUBSET dps_client_data_t /\ \A e \in new : e = d
        BY <3>5 DEF dps_msg_send_inline
      <3> HIDE DEF new
      <3>8. Sent(new)
        BY <3>6 DEF new, Sent
      <3> QED
        BY <3>1, <3>3, <3>4, <3>5, <3>7, <3>8
    <2> QED
      BY <2>1, <2>2 DEF PassMigration
  <1>5. PICK new \in SUBSET dps_client_data_t :
          /\ Sent(new) /\ \A e, f \in new : e = f
          /\ \A e \in new : /\ e.kind = "notice" /\ e.r = m.r /\ e.try = m.try
                            /\ e.from = n /\ e.to \in Client
          /\ trouble' \in [left : Nat, seen : BOOLEAN] /\ (~ trouble'.seen => ~ trouble.seen)
    BY <1>4
  <1>6. /\ cur' \in [Node -> SUBSET dps_client_data_t]
        /\ \A k \in Node : \A x, y \in cur'[k] : x = y
        /\ \A k \in Node : cur'[k] # {} => cur[k] # {}
        /\ net' \subseteq dps_client_data_t /\ Placed'
        /\ Msgs \ {m} \subseteq Msgs' /\ Msgs' \subseteq (Msgs \ {m}) \cup new
    BY <1>0, <1>3, <1>5, Handled
  <1>7. Typed'
    BY <1>0, <1>1, <1>5, <1>6 DEF Typed
  <1>8. \A e \in new : Proper(e) /\ SameTry(e, m) /\ e.kind = "notice"
    <2>1. Proper(m)
      BY <1>0, <1>2, FlowParts
    <2> QED
      BY <1>5, <2>1 DEF Proper, SameTry
  <1>9. net' \subseteq net \cup new
    BY <1>5 DEF Sent
  <1> QED
    BY <1>1, <1>2, <1>3, <1>5, <1>6, <1>7, <1>8, <1>9, SwapStep

----------------------------------------------------------------------------
(* The handler of a registration                                           *)

\* Node n applies the registration r.
AppliedAt(n, r) ==
  srv' = [srv EXCEPT ![n].reg = Apply(srv[n], req[r].op, req[r].by).reg]

LEMMA AppliedAtIs ==
  ASSUME Typed, NEW n \in Node, NEW r \in Request, req[r].op \in Registration, AppliedAt(n, r)
  PROVE  /\ srv' \in [Node -> Server] /\ \A k \in Node : k # n => srv'[k] = srv[k]
         /\ srv'[n].reg = Apply(srv[n], req[r].op, req[r].by).reg
         /\ srv'[n].started = srv[n].started /\ srv'[n].dom = srv[n].dom
         /\ srv'[n].hosts = srv[n].hosts /\ srv'[n].vnid = srv[n].vnid
  <1> DEFINE reg == Apply(srv[n], req[r].op, req[r].by).reg
  <1>1. srv' = [srv EXCEPT ![n] = [srv[n] EXCEPT !.reg = reg]]
    BY DEF AppliedAt
  <1>2. \A k \in Node : srv[k] \in Server /\ DOMAIN srv = Node
    BY SrvIs
  <1>3. reg \in SUBSET (Kind \X Client)
    BY ReqIs, SrvIs, ApplyTyped
  <1> HIDE DEF reg
  <1>4. LET s == [srv[n] EXCEPT !.reg = reg]
        IN  /\ s \in Server /\ s.reg = reg /\ s.started = srv[n].started
            /\ s.dom = srv[n].dom /\ s.hosts = srv[n].hosts /\ s.vnid = srv[n].vnid
    BY <1>2, <1>3, SMT DEF Server
  <1>5. srv \in [Node -> Server]
    BY DEF Typed
  <1> QED
    BY <1>1, <1>4, <1>5 DEF reg

\* The machine of another registration that nothing can undo stays where it is.
LEMMA OtherStays ==
  ASSUME Typed, FlowInv, NEW n \in Node, NEW m \in Msgs, m.kind \in {"request", "update"},
         req[m.r].op \in Registration, AppliedAt(n, m.r) \/ srv' = srv,
         NEW r \in Request, Alone(r), m.r # r, NEW h \in Node
  PROVE  In(srv'[h].reg, "endpoint") = In(srv[h].reg, "endpoint")
  <1>1. m.r \in Request /\ req[m.r].by \in Client
    BY MsgsTyped, MsgIs, ReqIs
  <1>2. ~ Moves(req[m.r].op)
    BY NoUndo
  <1>3. CASE AppliedAt(n, m.r)
    <2>1. /\ h # n => srv'[h] = srv[h]
          /\ srv'[n].reg = Apply(srv[n], req[m.r].op, req[m.r].by).reg
      BY <1>1, <1>3, AppliedAtIs
    <2>2. In(Apply(srv[n], req[m.r].op, req[m.r].by).reg, "endpoint") = In(srv[n].reg, "endpoint")
      BY <1>1, <1>2, ApplyStays
    <2> QED
      BY <2>1, <2>2
  <1> QED
    BY <1>3

LEMMA AppliedRequest ==
  ASSUME Typed, FlowInv, AppliedInv, req' = req, told' \in [Request -> SUBSET Node],
         NEW n \in Node, NEW m \in Msgs, m.kind = "request", req[m.r].op \in Registration,
         AppliedAt(n, m.r) \/ srv' = srv,
         \A r \in Request : r # m.r => told'[r] = told[r],
         told'[m.r] \subseteq told[m.r] \cup srv[n].hosts,
         NEW new, NEW newt,
         Msgs' \subseteq (Msgs \ {m}) \cup new, track' \subseteq track \cup newt,
         \A d \in new :
           /\ d.r = m.r /\ d.kind # "ack"
           /\ Success(d) => /\ AppliedAt(n, m.r) /\ srv[n].hosts = {n}
                            /\ Apply(srv[n], req[m.r].op, req[m.r].by).st = "none",
         \A t \in newt :
           /\ t.r = m.r
           /\ \A h \in srv[n].hosts : h \notin t.left =>
                /\ h = n /\ AppliedAt(n, m.r)
                /\ Apply(srv[n], req[m.r].op, req[m.r].by).st = "none"
  PROVE  AppliedInv'
  <1>0. m \in dps_client_data_t /\ m.r \in Request
    BY MsgsTyped, MsgIs
  <1> SUFFICES ASSUME NEW r \in Request, NEW h \in told'[r], Alone(r)', Applied(h, r)'
               PROVE  In(srv'[h].reg, "endpoint") = {req[r].by}
    BY DEF AppliedInv, In
  <1>1. Alone(r)
    BY DEF Alone, MayUndo, Before
  <1>2. h \in Node
    OBVIOUS
  <1>3. CASE r # m.r
    <2>1. h \in told[r]
      BY <1>3
    <2>2. Applied(h, r)
      <3>1. \A d \in Msgs' : d.r = r /\ (d.kind = "ack" \/ Success(d)) => d \in Msgs
        BY <1>3
      <3>2. \A t \in track' : t.r = r => t \in track
        BY <1>3
      <3> QED
        BY <3>1, <3>2, AppliedLess
    <2>3. In(srv[h].reg, "endpoint") = {req[r].by}
      BY <1>1, <2>1, <2>2 DEF AppliedInv
    <2>4. In(srv'[h].reg, "endpoint") = In(srv[h].reg, "endpoint")
      BY <1>1, <1>2, <1>3, OtherStays
    <2> QED
      BY <2>3, <2>4
  <1>4. CASE r = m.r
    <2>1. req[m.r].tries = 1 /\ req[m.r].op = "endpoint" /\ m.try = 1
      BY <1>0, <1>1, <1>4, OnlyTry, FlowParts DEF Alone
    <2>2. h \in srv[n].hosts
      BY <1>4, <2>1, FlowParts DEF Untold
    <2>3. \A x \in Msgs \ {m} : x.r = m.r => x.kind # "ack" /\ ~ Success(x)
      <3> SUFFICES ASSUME NEW x \in Msgs \ {m}, x.r = m.r PROVE x.kind # "ack" /\ ~ Success(x)
        OBVIOUS
      <3>1. x.try = 1
        BY <2>1, OnlyTry, MsgsTyped, FlowParts
      <3>2. SameTry(m, x)
        BY <2>1, <3>1 DEF SameTry
      <3>3. Compatible(m, x)
        BY FlowParts
      <3> QED
        BY <3>2, <3>3 DEF Compatible
    <2>4. \A t \in track : t.r # m.r
      <3> SUFFICES ASSUME NEW t \in track, t.r = m.r PROVE FALSE
        OBVIOUS
      <3>1. t.try \in Nat /\ t.try >= 1 /\ t.try <= 1
        BY <2>1, TrackerIs, FlowParts DEF ProperTracker
      <3>2. t.try = 1
        BY <3>1, SMT
      <3>3. SameTry(m, t) /\ Awaited(m, t)
        BY <2>1, <3>2, FlowParts DEF SameTry
      <3> QED
        BY <3>3 DEF Awaited
    <2>5. ~ (req[r].state = "done" /\ req[r].ans.st = "none")
      BY <1>4, <2>1, NoSuccessYet
    <2>6. /\ h = n /\ AppliedAt(n, m.r)
          /\ Apply(srv[n], req[m.r].op, req[m.r].by).st = "none"
      <3>1. \/ \E x \in Msgs' : x.kind = "ack" /\ x.r = r
            \/ \E t \in track' : t.r = r /\ h \notin t.left
            \/ \E x \in Msgs' : x.r = r /\ Success(x)
        BY <2>5 DEF Applied, Success
      <3>2. ~ \E x \in Msgs' : x.kind = "ack" /\ x.r = r
        BY <1>4, <2>3
      <3>3. CASE \E t \in track' : t.r = r /\ h \notin t.left
        BY <1>4, <2>2, <2>4, <3>3
      <3>4. CASE \E x \in Msgs' : x.r = r /\ Success(x)
        BY <1>4, <2>2, <2>3, <3>4, SMT
      <3> QED
        BY <3>1, <3>2, <3>3, <3>4
    <2>7. srv'[n].reg = Apply(srv[n], req[m.r].op, req[m.r].by).reg
      BY <1>0, <2>6, AppliedAtIs
    <2>8. In(Apply(srv[n], req[m.r].op, req[m.r].by).reg, "endpoint") = {req[m.r].by}
      BY <1>0, <2>1, <2>6, ApplyEndpoint, ReqIs, SMT
    <2> QED
      BY <1>4, <2>6, <2>7, <2>8
  <1> QED
    BY <1>3, <1>4

LEMMA AppliedUpdate ==
  ASSUME Typed, FlowInv, AppliedInv, req' = req, told' = told, track' = track,
         NEW n \in Node, NEW m \in Msgs, m.kind = "update", req[m.r].op \in Registration,
         AppliedAt(n, m.r) \/ srv' = srv,
         NEW new, Msgs' \subseteq Msgs \cup new,
         \A d \in new :
           /\ d.r = m.r /\ d.kind = "ack" /\ d.from = n
           /\ d.st = "none" => /\ AppliedAt(n, m.r)
                               /\ Apply(srv[n], req[m.r].op, req[m.r].by).st = "none"
  PROVE  AppliedInv'
  <1>0. m.r \in Request /\ req[m.r].by \in Client
    BY MsgsTyped, MsgIs, ReqIs
  <1> SUFFICES ASSUME NEW r \in Request, NEW h \in told[r], Alone(r)', Applied(h, r)'
               PROVE  In(srv'[h].reg, "endpoint") = {req[r].by}
    BY DEF AppliedInv, In
  <1>1. Alone(r)
    BY DEF Alone, MayUndo, Before
  <1>2. h \in Node
    BY DEF Typed
  <1>3. \/ Applied(h, r)
        \/ /\ h = n /\ r = m.r /\ AppliedAt(n, m.r)
           /\ Apply(srv[n], req[m.r].op, req[m.r].by).st = "none"
    <2>1. CASE \E d \in new : d.r = r /\ d.from = h /\ d.st = "none"
      BY <2>1
    <2>2. CASE ~ \E d \in new : d.r = r /\ d.from = h /\ d.st = "none"
      <3>1. \/ \E x \in Msgs : x.kind = "ack" /\ x.r = r /\ x.from = h /\ x.st = "none"
            \/ \E t \in track : t.r = r /\ h \notin t.left
            \/ \E x \in Msgs : x.r = r /\ Success(x)
            \/ req[r].state = "done" /\ req[r].ans.st = "none"
        BY <2>2 DEF Applied, Success
      <3> QED
        BY <3>1 DEF Applied
    <2> QED
      BY <2>1, <2>2
  <1>4. CASE r # m.r
    <2>1. In(srv[h].reg, "endpoint") = {req[r].by}
      BY <1>1, <1>3, <1>4 DEF AppliedInv
    <2> QED
      BY <1>1, <1>2, <1>4, <2>1, OtherStays
  <1>5. CASE r = m.r
    <2>1. req[m.r].op = "endpoint"
      BY <1>1, <1>5 DEF Alone
    <2>2. CASE AppliedAt(n, m.r)
      <3>1. /\ h # n => srv'[h] = srv[h]
            /\ srv'[n].reg = Apply(srv[n], req[m.r].op, req[m.r].by).reg
        BY <1>0, <1>2, <2>2, AppliedAtIs
      <3>2. Applied(h, r) => In(srv[h].reg, "endpoint") = {req[r].by}
        BY <1>1 DEF AppliedInv
      <3>3. h = n => In(Apply(srv[n], req[m.r].op, req[m.r].by).reg, "endpoint") = {req[m.r].by}
        BY <1>0, <1>3, <1>5, <2>1, <3>2, ApplyEndpoint, SMT
      <3> QED
        BY <1>3, <1>5, <3>1, <3>2, <3>3
    <2>3. CASE srv' = srv /\ Applied(h, r)
      BY <1>1, <2>3 DEF AppliedInv
    <2> QED
      BY <1>3, <2>2, <2>3
  <1> QED
    BY <1>4, <1>5

\* A registration that was answered before another began has nothing left.
LEMMA BeforeIsOver ==
  ASSUME Typed, FlowInv, CalmInv, ~ trouble.seen, NEW x \in Msgs, x.kind \in {"request", "update"},
         NEW q \in Request
  PROVE  ~ Before(x.r, q)
  <1> SUFFICES ASSUME Before(x.r, q) PROVE FALSE
    OBVIOUS
  <1>1. x.r \in Request
    BY MsgsTyped, MsgIs
  <1>2. req[x.r].state = "done" /\ req[x.r].ans.st = "none"
    BY FlowParts DEF Before, ProperRequest
  <1>3. req[x.r].ans.r = x.r
    BY <1>1, <1>2, FlowParts DEF ProperRequest
  <1>4. x.try = req[x.r].tries /\ req[x.r].ans.try = req[x.r].tries
    BY <1>1, <1>2 DEF CalmInv
  <1>5. SameTry(x, req[x.r].ans)
    BY <1>3, <1>4 DEF SameTry
  <1> QED
    BY <1>1, <1>2, <1>5, FlowParts DEF Answered

\* Without trouble, ordered registrations are under way one at a time.
LEMMA OneUnderWay ==
  ASSUME Typed, FlowInv, CalmInv, ~ trouble.seen, Ordered,
         NEW m \in Msgs, m.kind \in {"request", "update"}, req[m.r].op \in Registration,
         NEW u \in Msgs, u.kind = "update"
  PROVE  u.r = m.r /\ SameTry(u, m)
  <1>1. m.r \in Request /\ u.r \in Request
    BY MsgsTyped, MsgIs
  <1>2. req[m.r].state # "new" /\ req[u.r].state # "new" /\ req[u.r].op \in Registration
    BY FlowParts DEF Proper
  <1>3. ~ Before(u.r, m.r) /\ ~ Before(m.r, u.r)
    BY <1>1, BeforeIsOver
  <1>4. u.r = m.r
    <2>1. {req[u.r].op, req[m.r].op} \subseteq Registration
      BY <1>2
    <2> QED
      BY <1>1, <1>2, <1>3, <2>1 DEF Ordered
  <1>5. u.try = req[u.r].tries /\ m.try = req[m.r].tries
    BY DEF CalmInv
  <1> QED
    BY <1>4, <1>5 DEF SameTry

LEMMA CalmHost ==
  ASSUME CalmInv, ~ trouble.seen, NEW n \in Node, cur[n] # {}
  PROVE  n \in Active /\ srv[n].dom = "active" /\ srv[n].hosts = Active
  BY DEF CalmInv, Active

LEMMA ActiveIs == Active \subseteq Node /\ \A h \in Active : srv[h].dom = "active"
  BY DEF Active

LEMMA AgreeRequest ==
  ASSUME Typed, FlowInv, CalmInv, AgreeInv, req' = req, Steady,
         NEW n \in Node, NEW m \in cur[n], m.kind = "request", req[m.r].op \in Registration,
         n \in srv[n].hosts /\ ~ trouble'.seen => AppliedAt(n, m.r),
         NEW new, Msgs' \subseteq (Msgs \ {m}) \cup new, new \subseteq Msgs',
         \A d \in new : d.kind = "update" => d.r = m.r /\ d.to \in srv[n].hosts \ {n},
         \A h \in srv[n].hosts \ {n} : \E d \in new : d.kind = "update" /\ d.to = h
  PROVE  AgreeInv'
  <1> SUFFICES ASSUME ~ trouble'.seen, Ordered'
               PROVE  /\ \A g, h \in Active' : (Due(g)' <=> Due(h)') => srv'[g].reg = srv'[h].reg
                      /\ \A u \in Msgs' : u.kind = "update" =>
                           \A h \in Active' : ~ Due(h)' =>
                             srv'[h].reg = Apply(srv'[u.to], req[u.r].op, req[u.r].by).reg
    BY SMT DEF AgreeInv, Apply
  <1>1. ~ trouble.seen /\ Active' = Active
    BY ActiveKept DEF Steady
  <1>2. Ordered
    BY DEF Ordered, Before
  <1>3. m \in Msgs /\ m.r \in Request
    BY MsgsIs, MsgsTyped, MsgIs
  <1>4. n \in Active /\ srv[n].dom = "active" /\ srv[n].hosts = Active
    BY <1>1, CalmHost
  <1>5. /\ srv'[n].reg = Apply(srv[n], req[m.r].op, req[m.r].by).reg
        /\ \A k \in Node : k # n => srv'[k] = srv[k]
    BY <1>3, <1>4, AppliedAtIs
  <1>6. \A u \in Msgs : u.kind # "update"
    <2> SUFFICES ASSUME NEW u \in Msgs, u.kind = "update" PROVE FALSE
      OBVIOUS
    <2>1. SameTry(u, m)
      BY <1>1, <1>2, <1>3, OneUnderWay
    <2> QED
      BY <1>3, <2>1, AloneInTry
  <1>7. \A g, h \in Active : srv[g].reg = srv[h].reg
    BY <1>1, <1>2, <1>6 DEF AgreeInv, Due
  <1>8. \A u \in Msgs' : u.kind = "update" => u.r = m.r /\ u.to \in Active \ {n}
    BY <1>4, <1>6
  <1>9. \A h \in Active : Due(h)' <=> h # n
    <2>1. \A h \in Active \ {n} : \E d \in Msgs' : d.kind = "update" /\ d.to = h
      BY <1>4
    <2> QED
      BY <1>8, <2>1 DEF Due
  <1>10. \A g, h \in Active : (Due(g)' <=> Due(h)') => srv'[g].reg = srv'[h].reg
    BY <1>5, <1>7, <1>9, ActiveIs, SMT
  <1>11. ASSUME NEW u \in Msgs', u.kind = "update", NEW h \in Active, ~ Due(h)'
         PROVE  srv'[h].reg = Apply(srv'[u.to], req[u.r].op, req[u.r].by).reg
    <2>1. h = n /\ u.r = m.r /\ u.to \in Active /\ u.to # n
      BY <1>8, <1>9, <1>11
    <2>2. srv'[u.to] = srv[u.to] /\ srv[u.to].dom = srv[n].dom /\ srv[u.to].reg = srv[n].reg
      BY <1>4, <1>5, <1>7, <2>1, ActiveIs
    <2>3. Apply(srv[u.to], req[m.r].op, req[m.r].by) = Apply(srv[n], req[m.r].op, req[m.r].by)
      BY <2>2, ApplySame, SMT
    <2> QED
      BY <1>5, <2>1, <2>2, <2>3
  <1> QED
    BY <1>1, <1>10, <1>11

LEMMA AgreeUpdate ==
  ASSUME Typed, FlowInv, CalmInv, AgreeInv, req' = req, Steady,
         NEW n \in Node, NEW m \in cur[n], m.kind = "update", req[m.r].op \in Registration,
         srv[n].dom # "none" /\ ~ trouble'.seen => AppliedAt(n, m.r),
         NEW new, Msgs' \subseteq (Msgs \ {m}) \cup new, Msgs \ {m} \subseteq Msgs',
         \A d \in new : d.kind # "update"
  PROVE  AgreeInv'
  <1> SUFFICES ASSUME ~ trouble'.seen, Ordered'
               PROVE  /\ \A g, h \in Active' : (Due(g)' <=> Due(h)') => srv'[g].reg = srv'[h].reg
                      /\ \A u \in Msgs' : u.kind = "update" =>
                           \A h \in Active' : ~ Due(h)' =>
                             srv'[h].reg = Apply(srv'[u.to], req[u.r].op, req[u.r].by).reg
    BY DEF AgreeInv, Apply
  <1>1. ~ trouble.seen /\ Active' = Active
    BY ActiveKept DEF Steady
  <1>2. Ordered
    BY DEF Ordered, Before
  <1>3. m \in Msgs /\ m.r \in Request /\ m.to = n
    BY MsgsIs, MsgsTyped, MsgIs, FlowParts DEF Placed
  <1>4. n \in Active /\ srv[n].dom = "active"
    BY <1>1, CalmHost
  <1>5. /\ srv'[n].reg = Apply(srv[n], req[m.r].op, req[m.r].by).reg
        /\ \A k \in Node : k # n => srv'[k] = srv[k]
    BY <1>3, <1>4, AppliedAtIs
  <1>6. \A u \in Msgs : u.kind = "update" =>
          /\ u.r = m.r /\ u.to \in Active
          /\ u # m => u.to # n
    <2> SUFFICES ASSUME NEW u \in Msgs, u.kind = "update"
                 PROVE  u.r = m.r /\ u.to \in Active /\ (u # m => u.to # n)
      OBVIOUS
    <2>1. u.r = m.r /\ SameTry(u, m)
      BY <1>1, <1>2, <1>3, OneUnderWay
    <2>2. u.to \in Active
      BY <1>1 DEF CalmInv
    <2>3. Compatible(u, m)
      BY <1>3, FlowParts
    <2> QED
      BY <1>3, <2>1, <2>2, <2>3 DEF Compatible
  <1>7. \A u : u.kind = "update" => (u \in Msgs' <=> u \in Msgs /\ u # m)
    OBVIOUS
  <1>8. Due(n) /\ ~ Due(n)' /\ \A h : h # n => (Due(h)' <=> Due(h))
    BY <1>3, <1>6, <1>7 DEF Due
  <1>9. \A g, h \in Active : (Due(g) <=> Due(h)) => srv[g].reg = srv[h].reg
    BY <1>1, <1>2 DEF AgreeInv
  <1>10. \A u \in Msgs : u.kind = "update" => \A h \in Active : ~ Due(h) =>
           srv[h].reg = Apply(srv[u.to], req[u.r].op, req[u.r].by).reg
    BY <1>1, <1>2 DEF AgreeInv
  <1>11. \A h \in Active : h # n /\ ~ Due(h)' => srv'[h].reg = srv'[n].reg
    BY <1>3, <1>5, <1>8, <1>10, ActiveIs
  <1>12. \A g, h \in Active : (Due(g)' <=> Due(h)') => srv'[g].reg = srv'[h].reg
    <2> SUFFICES ASSUME NEW g \in Active, NEW h \in Active, Due(g)' <=> Due(h)'
                 PROVE  srv'[g].reg = srv'[h].reg
      OBVIOUS
    <2>1. CASE g # n /\ h # n
      BY <1>5, <1>8, <1>9, <2>1, ActiveIs
    <2>2. CASE g = n \/ h = n
      BY <1>8, <1>11, <2>2
    <2> QED
      BY <2>1, <2>2
  <1>13. ASSUME NEW u \in Msgs', u.kind = "update", NEW h \in Active, ~ Due(h)'
         PROVE  srv'[h].reg = Apply(srv'[u.to], req[u.r].op, req[u.r].by).reg
    <2>1. u \in Msgs /\ u # m /\ u.r = m.r /\ u.to \in Active /\ u.to # n
      BY <1>6, <1>7, <1>13
    <2>2. Due(u.to)
      BY <1>13, <2>1 DEF Due
    <2>3. srv'[u.to] = srv[u.to] /\ srv[u.to].dom = srv[n].dom /\ srv[u.to].reg = srv[n].reg
      BY <1>4, <1>5, <1>8, <1>9, <2>1, <2>2, ActiveIs
    <2>4. Apply(srv[u.to], req[m.r].op, req[m.r].by) = Apply(srv[n], req[m.r].op, req[m.r].by)
      BY <2>3, ApplySame, SMT
    <2>5. srv'[h].reg = srv'[n].reg
      BY <1>11, <1>13
    <2> QED
      BY <1>5, <2>1, <2>3, <2>4, <2>5
  <1> QED
    BY <1>1, <1>12, <1>13

\* What the handler does with an update
LEMMA RegisterUpdateIs ==
  ASSUME Typed, NEW n \in Node, NEW m, m.kind = "update", Register(n, m)
  PROVE  /\ req[m.r].op \in Registration /\ told' = told /\ track' = track
         /\ trouble' \in [left : Nat, seen : BOOLEAN] /\ (~ trouble'.seen => ~ trouble.seen)
         /\ \/ /\ AppliedAt(n, m.r)
               /\ net' = net \cup {Reply(n, m, Only(Apply(srv[n], req[m.r].op, req[m.r].by).st))}
            \/ srv' = srv /\ net' = net /\ (srv[n].dom = "none" \/ trouble'.seen)
  <1> DEFINE nodes == IF srv[n].dom = "none" THEN {} ELSE {n}
             res == Apply(srv[n], req[m.r].op, req[m.r].by)
  <1>1. ReplicationDetermineDPSNodes(n, m) = nodes
    BY DEF ReplicationDetermineDPSNodes
  <1>2. dps_update_replicate(n, m) = {}
    BY <1>1 DEF dps_update_replicate
  <1> HIDE DEF res
  <1>3. PICK fails \in BOOLEAN :
          LET here == n \in nodes /\ ~fails
              ok == here => res.st = "none"
              left == IF here THEN nodes \ {n} ELSE nodes
              now == nodes # {} /\ (~ok \/ left = {})
          IN  /\ req[m.r].op \in Registration
              /\ fails => n \in nodes
              /\ TroubleIf(fails)
              /\ srv' = IF here THEN [srv EXCEPT ![n].reg = res.reg] ELSE srv
              /\ told' = told /\ track' = track
              /\ net' = net \cup {} \cup (IF now THEN {Reply(n, m, Only(res.st))} ELSE {})
    BY <1>1, <1>2 DEF Register, res
  <1>4. /\ trouble' \in [left : Nat, seen : BOOLEAN] /\ (~ trouble'.seen => ~ trouble.seen)
        /\ fails => trouble'.seen
    BY <1>3, TroubleIs
  <1>5. CASE srv[n].dom # "none" /\ ~ fails
    <2>1. nodes = {n} /\ nodes # {} /\ nodes \ {n} = {}
      BY <1>5
    <2>2. srv' = [srv EXCEPT ![n].reg = res.reg] /\ net' = net \cup {Reply(n, m, Only(res.st))}
      BY <1>3, <1>5, <2>1
    <2> QED
      BY <1>3, <1>4, <2>2 DEF AppliedAt, res
  <1>6. CASE srv[n].dom = "none" \/ fails
    <2>1. srv' = srv /\ net' = net
      <3>1. CASE srv[n].dom = "none"
        BY <1>3, <3>1
      <3>2. CASE srv[n].dom # "none" /\ fails
        BY <1>3, <3>2
      <3> QED
        BY <1>6, <3>1, <3>2
    <2> QED
      BY <1>3, <1>4, <1>6, <2>1
  <1> QED
    BY <1>5, <1>6

\* What it does with a request: the updates, and either the answer or a tracker
LEMMA RegisterRequestIs ==
  ASSUME Typed, NEW n \in Node, NEW m, m.kind = "request", Register(n, m)
  PROVE  LET hosts == srv[n].hosts
             st == Apply(srv[n], req[m.r].op, req[m.r].by).st
             updates == {Datagram("update", m.r, m.try, n, h) : h \in hosts \ {n}}
             tracker(left) == [at |-> n, r |-> m.r, try |-> m.try, left |-> left]
         IN  /\ req[m.r].op \in Registration
             /\ told' = [told EXCEPT ![m.r] = @ \cup hosts]
             /\ trouble' \in [left : Nat, seen : BOOLEAN] /\ (~ trouble'.seen => ~ trouble.seen)
             /\ \/ /\ n \in hosts /\ AppliedAt(n, m.r) /\ (st # "none" \/ hosts \ {n} = {})
                   /\ net' = net \cup updates \cup {Reply(n, m, Only(st))} /\ track' = track
                \/ /\ n \in hosts /\ AppliedAt(n, m.r) /\ st = "none"
                   /\ net' = net \cup updates /\ track' = track \cup {tracker(hosts \ {n})}
                \/ /\ srv' = srv /\ (n \notin hosts \/ trouble'.seen)
                   /\ net' = net \cup updates
                   /\ track' \subseteq track \cup {tracker(hosts)} /\ track \subseteq track'
  <1> DEFINE hosts == srv[n].hosts
             res == Apply(srv[n], req[m.r].op, req[m.r].by)
             updates == {Datagram("update", m.r, m.try, n, h) : h \in hosts \ {n}}
             tracker(left) == [at |-> n, r |-> m.r, try |-> m.try, left |-> left]
  <1>1. ReplicationDetermineDPSNodes(n, m) = hosts
    BY DEF ReplicationDetermineDPSNodes
  <1>2. dps_update_replicate(n, m) = updates
    BY <1>1 DEF dps_update_replicate
  <1> HIDE DEF res, updates, tracker, hosts
  <1>3. PICK fails \in BOOLEAN :
          LET here == n \in hosts /\ ~fails
              ok == here => res.st = "none"
              left == IF here THEN hosts \ {n} ELSE hosts
              now == hosts # {} /\ (~ok \/ left = {})
          IN  /\ req[m.r].op \in Registration
              /\ fails => n \in hosts
              /\ TroubleIf(fails)
              /\ srv' = IF here THEN [srv EXCEPT ![n].reg = res.reg] ELSE srv
              /\ told' = [told EXCEPT ![m.r] = @ \cup hosts]
              /\ net' = net \cup updates \cup (IF now THEN {Reply(n, m, Only(res.st))} ELSE {})
              /\ track' = IF now \/ hosts = {} THEN track ELSE track \cup {tracker(left)}
    BY <1>1, <1>2 DEF Register, res, tracker
  <1>4. /\ trouble' \in [left : Nat, seen : BOOLEAN] /\ (~ trouble'.seen => ~ trouble.seen)
        /\ fails => trouble'.seen
    BY <1>3, TroubleIs
  <1>5. CASE n \in hosts /\ ~ fails /\ (res.st # "none" \/ hosts \ {n} = {})
    <2>1. /\ srv' = [srv EXCEPT ![n].reg = res.reg] /\ track' = track
          /\ net' = net \cup updates \cup {Reply(n, m, Only(res.st))}
      BY <1>3, <1>5
    <2>2. AppliedAt(n, m.r)
      BY <2>1 DEF AppliedAt, res
    <2> QED
      BY <1>3, <1>4, <1>5, <2>1, <2>2 DEF res, updates, hosts
  <1>6. CASE n \in hosts /\ ~ fails /\ res.st = "none" /\ hosts \ {n} # {}
    <2>1. /\ srv' = [srv EXCEPT ![n].reg = res.reg]
          /\ track' = track \cup {tracker(hosts \ {n})} /\ net' = net \cup updates
      BY <1>3, <1>6
    <2>2. AppliedAt(n, m.r)
      BY <2>1 DEF AppliedAt, res
    <2> QED
      BY <1>3, <1>4, <1>6, <2>1, <2>2 DEF res, updates, hosts, tracker
  <1>7. CASE n \notin hosts \/ fails
    <2>1. srv' = srv /\ net' = net \cup updates
      BY <1>3, <1>7
    <2>2. track' = track \/ track' = track \cup {tracker(hosts)}
      BY <1>3, <1>7
    <2> QED
      BY <1>3, <1>4, <1>7, <2>1, <2>2 DEF res, updates, hosts, tracker
  <1> QED
    BY <1>5, <1>6, <1>7

LEMMA OnlyTyped ==
  ASSUME NEW st, \/ st \in ApplyStatus
                 \/ \E m \in dps_client_data_t : st = m.st
  PROVE  Only(st) \in AnswerType /\ Only(st).st = st
  <1>1. {} \in SUBSET Client
    OBVIOUS
  <1>2. st \in {"none", "retry", "invalid_domain", "invalid_dst_ip", "invalid_euid",
                "invalid_tunnel", "no_route", "no_memory", "undefined"}
    BY DEF ApplyStatus, dps_client_data_t
  <1> QED
    BY <1>1, <1>2 DEF Only, Answer, AnswerType

LEMMA HousedApplied ==
  ASSUME Typed, HousedInv, NEW n \in Node, NEW r \in Request, req[r].op \in Registration,
         AppliedAt(n, r) \/ srv' = srv
  PROVE  HousedInv'
  <1>1. CASE srv' = srv
    BY <1>1 DEF HousedInv, Housed, In
  <1>2. CASE AppliedAt(n, r)
    <2>1. /\ \A k \in Node : k # n => srv'[k] = srv[k]
          /\ srv'[n].reg = Apply(srv[n], req[r].op, req[r].by).reg
      BY <1>2, AppliedAtIs
    <2>2. Housed(Apply(srv[n], req[r].op, req[r].by).reg)
      BY ReqIs, ApplyHoused DEF HousedInv
    <2>3. \A k \in Node : Housed(srv'[k].reg)
      BY <2>1, <2>2 DEF HousedInv
    <2> QED
      BY <2>3 DEF HousedInv, Housed, In
  <1> QED
    BY <1>1, <1>2

LEMMA SteadyApplied ==
  ASSUME Typed, NEW n \in Node, NEW r \in Request, req[r].op \in Registration,
         AppliedAt(n, r) \/ srv' = srv, ~ trouble'.seen => ~ trouble.seen
  PROVE  Steady /\ srv' \in [Node -> Server]
  <1>1. CASE srv' = srv
    BY <1>1 DEF Steady, Typed
  <1>2. CASE AppliedAt(n, r)
    BY <1>2, AppliedAtIs DEF Steady
  <1> QED
    BY <1>1, <1>2

\* The answers to registrations are not those of lookups.
LEMMA RegistrationNames ==
  ASSUME NEW d, req[d.r].op \in Registration, req' = req
  PROVE  req[d.r].op \notin Lookup /\ \A r \in Request : Names(d, r)'
  <1>1. req[d.r].op \notin Lookup
    BY DEF Registration, Lookup
  <1> QED
    BY <1>1 DEF Names

LEMMA UpdateStep ==
  ASSUME IInv, NEW n \in Node, NEW m \in cur[n], Emptied(n),
         UNCHANGED <<req, cache, site>>, Register(n, m), m.kind = "update"
  PROVE  IInv' /\ CurrentAnswers
  <1>0. /\ Typed /\ FlowInv /\ AppliedInv /\ FreshInv /\ HousedInv /\ CalmInv /\ AgreeInv
    BY DEF IInv
  <1>1. m \in Msgs /\ m \in dps_client_data_t /\ m.r \in Request /\ m.from \in Node /\ m.to = n
    BY <1>0, MsgsIs, MsgsTyped, MsgIs, FlowParts DEF Proper, Placed
  <1> DEFINE st == Apply(srv[n], req[m.r].op, req[m.r].by).st
  <1>2. /\ req[m.r].op \in Registration /\ told' = told /\ track' = track
        /\ trouble' \in [left : Nat, seen : BOOLEAN] /\ (~ trouble'.seen => ~ trouble.seen)
        /\ \/ AppliedAt(n, m.r) /\ net' = net \cup {Reply(n, m, Only(st))}
           \/ srv' = srv /\ net' = net /\ (srv[n].dom = "none" \/ trouble'.seen)
    BY <1>0, RegisterUpdateIs
  <1>3. st \in ApplyStatus
    BY <1>0, <1>1, <1>2, ApplyIs, ReqIs
  <1> HIDE DEF st
  <1>4. PICK d : d = Reply(n, m, Only(st))
    OBVIOUS
  <1>5. /\ d \in dps_client_data_t /\ d.kind = "ack" /\ d.to = m.from
        /\ d.r = m.r /\ d.try = m.try /\ d.from = n /\ d.st = st
    BY <1>0, <1>1, <1>3, <1>4, OnlyTyped, ReplyIs, SMT
  <1>6. PICK new \in SUBSET {d} :
          Sent(new) /\ (new = {} \/ AppliedAt(n, m.r)) /\ (AppliedAt(n, m.r) \/ srv' = srv)
    <2>1. CASE AppliedAt(n, m.r) /\ net' = net \cup {Reply(n, m, Only(st))}
      <3>1. Sent({d}) /\ {d} \in SUBSET {d}
        BY <1>4, <2>1 DEF Sent
      <3> QED
        BY <2>1, <3>1
    <2>2. CASE srv' = srv /\ net' = net
      <3>1. Sent({}) /\ {} \in SUBSET {d}
        BY <2>2 DEF Sent
      <3> QED
        BY <2>2, <3>1
    <2> QED
      BY <1>2, <2>1, <2>2
  <1>7. \A e \in new : e = d /\ AppliedAt(n, m.r)
    BY <1>6
  <1>8. new \subseteq dps_client_data_t /\ \A e \in new : e.kind \notin {"request", "update"}
    BY <1>5, <1>7
  <1>9. /\ cur' \in [Node -> SUBSET dps_client_data_t]
        /\ \A k \in Node : \A x, y \in cur'[k] : x = y
        /\ \A k \in Node : cur'[k] # {} => cur[k] # {}
        /\ net' \subseteq dps_client_data_t /\ Placed'
        /\ Msgs \ {m} \subseteq Msgs' /\ Msgs' \subseteq (Msgs \ {m}) \cup new
        /\ Msgs' \subseteq Msgs \cup new
    BY <1>0, <1>6, <1>8, Handled, SMT
  <1>10. Steady /\ srv' \in [Node -> Server]
    BY <1>0, <1>1, <1>2, <1>6, SteadyApplied
  <1>11. Typed'
    BY <1>0, <1>2, <1>9, <1>10 DEF Typed
  <1>12. Proper(d) /\ SameTry(d, m)
    <2>1. Proper(m)
      BY <1>0, <1>1, FlowParts
    <2> QED
      BY <1>1, <1>2, <1>5, <2>1 DEF Proper, SameTry
  <1>13. FlowInv'
    <2>1. \A e \in new : Proper(e) /\ SameTry(e, m) /\ e.kind = "ack" /\ e.from = m.to
      BY <1>1, <1>5, <1>7, <1>12
    <2> QED
      BY <1>0, <1>1, <1>2, <1>9, <1>11, <2>1, FlowApplied
  <1>14. AppliedInv'
    <2>1. \A e \in new :
            /\ e.r = m.r /\ e.kind = "ack" /\ e.from = n
            /\ e.st = "none" => /\ AppliedAt(n, m.r)
                                /\ Apply(srv[n], req[m.r].op, req[m.r].by).st = "none"
      BY <1>5, <1>7 DEF st
    <2> QED
      BY <1>0, <1>1, <1>2, <1>6, <1>9, <2>1, AppliedUpdate, SMT
  <1>15. FreshInv'
    <2>1. \A e \in net' : e.kind = "reply" => e \in net
      BY <1>5, <1>6, <1>7 DEF Sent
    <2>2. ReqKept
      BY <1>0, ReqSame
    <2> QED
      BY <1>0, <1>2, <1>11, <2>1, <2>2, FreshKept
  <1>16. HousedInv'
    BY <1>0, <1>1, <1>2, <1>6, HousedApplied
  <1>17. CalmInv'
    <2> DEFINE none == {}
    <2>1. track' \subseteq track \cup none /\ \A t \in none : FALSE
      BY <1>2
    <2> HIDE DEF none
    <2>2. \A e \in new : (\E x \in Msgs : SameTry(e, x)) /\ e.kind # "update"
      BY <1>1, <1>5, <1>7, <1>12
    <2> QED
      BY <1>0, <1>9, <1>10, <2>1, <2>2, CalmServed
  <1>18. AgreeInv'
    <2>1. srv[n].dom # "none" /\ ~ trouble'.seen => AppliedAt(n, m.r)
      BY <1>2
    <2>2. \A e \in new : e.kind # "update"
      BY <1>8
    <2>3. req[m.r].op \in Registration /\ req' = req /\ Steady
      BY <1>2, <1>10
    <2>4. Msgs' \subseteq (Msgs \ {m}) \cup new /\ Msgs \ {m} \subseteq Msgs'
      BY <1>9
    <2> QED
      BY <1>0, <2>1, <2>2, <2>3, <2>4, AgreeUpdate
  <1>19. CurrentAnswers
    BY <1>5, <1>6, <1>7 DEF CurrentAnswers, Sent
  <1> QED
    BY <1>11, <1>13, <1>14, <1>15, <1>16, <1>17, <1>18, <1>19 DEF IInv

\* What a request for a registration becomes: updates for the other hosts,
\* and an answer or a tracker
Outcome(n, m, new, newt) ==
  LET hosts == srv[n].hosts
      st == Apply(srv[n], req[m.r].op, req[m.r].by).st
  IN  /\ Sent(new) /\ track' \subseteq track \cup newt
      /\ \A d \in new :
           /\ d.r = m.r /\ d.try = m.try /\ d.from = n
           /\ \/ d.kind = "update" /\ d.to \in hosts \ {n}
              \/ /\ d.kind = "reply" /\ d.to = req[m.r].by
                 /\ d.st = "none" => AppliedAt(n, m.r) /\ st = "none" /\ hosts = {n}
      /\ \A d, e \in new : d.kind = "update" /\ e.kind = "update" /\ d.to = e.to => d = e
      /\ \A h \in hosts \ {n} : \E d \in new : d.kind = "update" /\ d.to = h
      /\ \A t \in newt :
           /\ t.r = m.r /\ t.try = m.try /\ hosts \ {n} \subseteq t.left
           /\ \A h \in hosts : h \notin t.left => h = n /\ AppliedAt(n, m.r) /\ st = "none"

LEMMA OutcomeIs ==
  ASSUME Typed, NEW n \in Node, NEW m \in dps_client_data_t, m.kind = "request", Register(n, m)
  PROVE  \E new \in SUBSET dps_client_data_t : \E newt \in SUBSET Tracker :
           Outcome(n, m, new, newt)
  <1> DEFINE hosts == srv[n].hosts
             st == Apply(srv[n], req[m.r].op, req[m.r].by).st
             updates == {Datagram("update", m.r, m.try, n, h) : h \in hosts \ {n}}
             tracker(left) == [at |-> n, r |-> m.r, try |-> m.try, left |-> left]
  <1>1. /\ req[m.r].op \in Registration
        /\ \/ /\ n \in hosts /\ AppliedAt(n, m.r) /\ (st # "none" \/ hosts \ {n} = {})
              /\ net' = net \cup updates \cup {Reply(n, m, Only(st))} /\ track' = track
           \/ /\ n \in hosts /\ AppliedAt(n, m.r) /\ st = "none"
              /\ net' = net \cup updates /\ track' = track \cup {tracker(hosts \ {n})}
           \/ /\ srv' = srv /\ net' = net \cup updates
              /\ track' \subseteq track \cup {tracker(hosts)}
    BY RegisterRequestIs, SMT
  <1>2. m.r \in Request /\ m.try \in 1 .. MaxTries /\ req[m.r].by \in Client
    BY MsgIs, ReqIs
  <1>3. hosts \in SUBSET Node
    BY SrvIs
  <1>4. st \in ApplyStatus
    BY <1>1, <1>2, ApplyIs
  <1> HIDE DEF hosts, st
  <1>5. \A h \in hosts \ {n} :
          LET d == Datagram("update", m.r, m.try, n, h)
          IN  /\ d \in dps_client_data_t /\ d.kind = "update" /\ d.r = m.r /\ d.try = m.try
              /\ d.from = n /\ d.to = h
    <2> SUFFICES ASSUME NEW h \in hosts \ {n}
                 PROVE  LET d == Datagram("update", m.r, m.try, n, h)
                        IN  /\ d \in dps_client_data_t /\ d.kind = "update" /\ d.r = m.r
                            /\ d.try = m.try /\ d.from = n /\ d.to = h
      OBVIOUS
    <2>1. n \in Node \cup Client /\ h \in Node \cup Client
      BY <1>3
    <2> QED
      BY <1>2, <2>1, DatagramIs, SMT
  <1>6. /\ updates \subseteq dps_client_data_t
        /\ \A d \in updates : /\ d.kind = "update" /\ d.r = m.r /\ d.try = m.try /\ d.from = n
                              /\ d.to \in hosts \ {n}
                              /\ d = Datagram("update", m.r, m.try, n, d.to)
        /\ \A h \in hosts \ {n} : \E d \in updates : d.to = h
    BY <1>5, SMT
  <1> HIDE DEF updates
  <1>7. PICK d : d = Reply(n, m, Only(st))
    OBVIOUS
  <1>8. /\ d \in dps_client_data_t /\ d.kind = "reply" /\ d.to = req[m.r].by
        /\ d.r = m.r /\ d.try = m.try /\ d.from = n /\ d.st = st
    BY <1>4, <1>7, OnlyTyped, ReplyIs, SMT
  <1>9. \A left \in SUBSET Node :
          /\ tracker(left) \in Tracker /\ tracker(left).r = m.r /\ tracker(left).try = m.try
          /\ tracker(left).left = left
    BY <1>2 DEF Tracker
  <1> HIDE DEF tracker
  <1>10. \A x, e \in updates : x.to = e.to => x = e
    BY <1>6
  <1>11. CASE /\ n \in hosts /\ AppliedAt(n, m.r) /\ (st # "none" \/ hosts \ {n} = {})
              /\ net' = net \cup updates \cup {d} /\ track' = track
    <2> DEFINE new == updates \cup {d}
               none == {}
    <2>1. /\ new \in SUBSET dps_client_data_t /\ none \in SUBSET Tracker
          /\ Sent(new) /\ track' \subseteq track \cup none
      BY <1>6, <1>8, <1>11 DEF Sent
    <2>2. d.st = "none" => AppliedAt(n, m.r) /\ st = "none" /\ hosts = {n}
      BY <1>8, <1>11
    <2>3. \A x \in new : x \in updates \/ x = d
      OBVIOUS
    <2>4. updates \subseteq new /\ \A t \in none : FALSE
      OBVIOUS
    <2> HIDE DEF new, none
    <2>5. Outcome(n, m, new, none)
      BY <1>6, <1>8, <1>10, <2>1, <2>2, <2>3, <2>4 DEF Outcome, hosts, st
    <2> QED
      BY <2>1, <2>5
  <1>12. ASSUME NEW left \in SUBSET Node, hosts \ {n} \subseteq left,
                \A h \in hosts : h \notin left => h = n /\ AppliedAt(n, m.r) /\ st = "none",
                net' = net \cup updates, track' \subseteq track \cup {tracker(left)}
         PROVE  \E new \in SUBSET dps_client_data_t : \E newt \in SUBSET Tracker :
                  Outcome(n, m, new, newt)
    <2> DEFINE newt == {tracker(left)}
    <2>1. newt \in SUBSET Tracker /\ \A t \in newt : t = tracker(left)
      BY <1>9
    <2>2. Sent(updates) /\ track' \subseteq track \cup newt
      BY <1>12 DEF Sent
    <2> HIDE DEF newt
    <2>3. Outcome(n, m, updates, newt)
      BY <1>6, <1>9, <1>10, <1>12, <2>1, <2>2, SMT DEF Outcome, hosts, st
    <2> QED
      BY <1>6, <2>1, <2>3
  <1>13. hosts \ {n} \in SUBSET Node
    BY <1>3
  <1>14. CASE /\ n \in hosts /\ AppliedAt(n, m.r) /\ st = "none"
              /\ net' = net \cup updates /\ track' = track \cup {tracker(hosts \ {n})}
    BY <1>12, <1>13, <1>14
  <1>15. CASE net' = net \cup updates /\ track' \subseteq track \cup {tracker(hosts)}
    BY <1>3, <1>12, <1>15
  <1> QED
    BY <1>1, <1>7, <1>11, <1>14, <1>15

LEMMA RequestStep ==
  ASSUME IInv, NEW n \in Node, NEW m \in cur[n], Emptied(n),
         UNCHANGED <<req, cache, site>>, Register(n, m), m.kind = "request"
  PROVE  IInv' /\ CurrentAnswers
  <1>0. /\ Typed /\ FlowInv /\ AppliedInv /\ FreshInv /\ HousedInv /\ CalmInv /\ AgreeInv
    BY DEF IInv
  <1>1. /\ m \in Msgs /\ m \in dps_client_data_t /\ m.r \in Request
        /\ req[m.r].by \in Client
    BY <1>0, MsgsIs, MsgsTyped, MsgIs, ReqIs
  <1>2. /\ req[m.r].op \in Registration
        /\ told' = [told EXCEPT ![m.r] = @ \cup srv[n].hosts]
        /\ trouble' \in [left : Nat, seen : BOOLEAN] /\ (~ trouble'.seen => ~ trouble.seen)
        /\ AppliedAt(n, m.r) \/ srv' = srv
        /\ n \in srv[n].hosts /\ ~ trouble'.seen => AppliedAt(n, m.r)
    BY <1>0, RegisterRequestIs
  <1>3. /\ told' \in [Request -> SUBSET Node]
        /\ \A r \in Request : r # m.r => told'[r] = told[r]
        /\ told'[m.r] = told[m.r] \cup srv[n].hosts
    <2>1. srv[n].hosts \in SUBSET Node /\ told \in [Request -> SUBSET Node]
      BY <1>0, SrvIs DEF Typed
    <2> QED
      BY <1>1, <1>2, <2>1
  <1>4. PICK new \in SUBSET dps_client_data_t, newt \in SUBSET Tracker : Outcome(n, m, new, newt)
    BY <1>0, <1>1, OutcomeIs
  <1> DEFINE hosts == srv[n].hosts
             st == Apply(srv[n], req[m.r].op, req[m.r].by).st
  <1>5. /\ Sent(new) /\ track' \subseteq track \cup newt
        /\ \A d \in new :
             /\ d.r = m.r /\ d.try = m.try /\ d.from = n
             /\ \/ d.kind = "update" /\ d.to \in hosts \ {n}
                \/ /\ d.kind = "reply" /\ d.to = req[m.r].by
                   /\ d.st = "none" => AppliedAt(n, m.r) /\ st = "none" /\ hosts = {n}
        /\ \A d, e \in new : d.kind = "update" /\ e.kind = "update" /\ d.to = e.to => d = e
        /\ \A h \in hosts \ {n} : \E d \in new : d.kind = "update" /\ d.to = h
        /\ \A t \in newt :
             /\ t.r = m.r /\ t.try = m.try /\ hosts \ {n} \subseteq t.left
             /\ \A h \in hosts : h \notin t.left => h = n /\ AppliedAt(n, m.r) /\ st = "none"
    BY <1>4 DEF Outcome
  <1> HIDE DEF hosts, st
  <1>6. /\ \A d \in new : SameTry(d, m) /\ d.kind \notin {"request", "ack"}
        /\ \A t \in newt : SameTry(m, t)
    BY <1>5 DEF SameTry
  <1>7. /\ cur' \in [Node -> SUBSET dps_client_data_t]
        /\ \A k \in Node : \A x, y \in cur'[k] : x = y
        /\ \A k \in Node : cur'[k] # {} => cur[k] # {}
        /\ net' \subseteq dps_client_data_t /\ Placed'
        /\ new \subseteq Msgs' /\ Msgs' \subseteq (Msgs \ {m}) \cup new
    BY <1>0, <1>4, <1>5, <1>6, Handled
  <1>8. Steady /\ srv' \in [Node -> Server]
    BY <1>0, <1>1, <1>2, SteadyApplied
  <1>9. Typed'
    <2>1. track' \subseteq Tracker
      BY <1>0, <1>4, <1>5 DEF Typed
    <2> QED
      BY <1>0, <1>2, <1>3, <1>7, <1>8, <2>1 DEF Typed
  <1>10. FlowInv'
    <2>1. Proper(m)
      BY <1>0, <1>1, FlowParts
    <2>2. hosts \subseteq Node
      BY <1>0, SrvIs DEF hosts
    <2>3. \A d \in new : Proper(d) /\ SameTry(d, m)
      BY <1>1, <1>2, <1>5, <1>6, <2>1, <2>2 DEF Proper
    <2>4. \A t \in newt : ProperTracker(t) /\ SameTry(m, t)
      BY <1>2, <1>5, <1>6, <2>1 DEF Proper, ProperTracker
    <2>5. \A d, e \in new : Compatible(d, e)
      <3> SUFFICES ASSUME NEW d \in new, NEW e \in new PROVE Compatible(d, e)
        OBVIOUS
      <3>1. d.kind = "update" => ~ Success(e)
        BY <1>5 DEF Success
      <3> QED
        BY <1>5, <1>6, <3>1 DEF Compatible
    <2>6. \A d \in new : \A t \in newt : Awaited(d, t)
      BY <1>5, <1>6 DEF Awaited
    <2>7. \A d \in new : d.kind # "request"
      BY <1>6
    <2> QED
      BY <1>0, <1>1, <1>3, <1>5, <1>7, <1>9, <2>3, <2>4, <2>5, <2>6, <2>7, FlowTaken, SMT
  <1>11. AppliedInv'
    <2>1. \A d \in new :
            /\ d.r = m.r /\ d.kind # "ack"
            /\ Success(d) => /\ AppliedAt(n, m.r) /\ srv[n].hosts = {n}
                             /\ Apply(srv[n], req[m.r].op, req[m.r].by).st = "none"
      BY <1>5, <1>6 DEF Success, hosts, st
    <2>2. \A t \in newt :
            /\ t.r = m.r
            /\ \A h \in srv[n].hosts : h \notin t.left =>
                 /\ h = n /\ AppliedAt(n, m.r)
                 /\ Apply(srv[n], req[m.r].op, req[m.r].by).st = "none"
      BY <1>5 DEF hosts, st
    <2> QED
      BY <1>0, <1>1, <1>2, <1>3, <1>5, <1>7, <2>1, <2>2, AppliedRequest, SMT
  <1>12. \A d \in new : req[d.r].op \notin Lookup /\ \A r \in Request : Names(d, r)'
    BY <1>2, <1>5, RegistrationNames
  <1>13. FreshInv'
    <2>1. \A d \in net' : d.kind = "reply" => d \in net \/ \A r \in Request : Names(d, r)'
      BY <1>5, <1>12 DEF Sent
    <2>2. ReqKept
      BY <1>0, ReqSame
    <2>3. \A r \in Request :
            Alone(r) /\ req[r].state = "done" /\ req[r].ans.st = "none" => told'[r] \subseteq told[r]
      <3>1. Alone(m.r) => ~ (req[m.r].state = "done" /\ req[m.r].ans.st = "none")
        BY <1>0, <1>1, NoSuccessYet DEF Alone
      <3> QED
        BY <1>3, <3>1
    <2> QED
      BY <1>0, <1>9, <2>1, <2>2, <2>3, FreshKept
  <1>14. HousedInv'
    BY <1>0, <1>1, <1>2, HousedApplied
  <1>15. CalmInv'
    <2>1. \A d \in new : /\ \E x \in Msgs : SameTry(d, x)
                         /\ d.kind = "update" => \E k \in Node : d.to \in srv[k].hosts
      BY <1>1, <1>5, <1>6 DEF hosts
    <2>2. \A t \in newt : \E x \in Msgs : SameTry(x, t)
      BY <1>1, <1>6
    <2>3. Msgs' \subseteq Msgs \cup new
      BY <1>7
    <2> QED
      BY <1>0, <1>5, <1>7, <1>8, <2>1, <2>2, <2>3, CalmServed
  <1>16. AgreeInv'
    <2>1. /\ \A d \in new : d.kind = "update" => d.r = m.r /\ d.to \in srv[n].hosts \ {n}
          /\ \A h \in srv[n].hosts \ {n} : \E d \in new : d.kind = "update" /\ d.to = h
      BY <1>5 DEF hosts
    <2> QED
      BY <1>0, <1>2, <1>7, <1>8, <2>1, AgreeRequest, SMT
  <1>17. CurrentAnswers
    BY <1>5, <1>12 DEF CurrentAnswers, Sent
  <1> QED
    BY <1>9, <1>10, <1>11, <1>13, <1>14, <1>15, <1>16, <1>17 DEF IInv

----------------------------------------------------------------------------
(* The handler of an acknowledgement                                       *)

\* What the coordinator makes of its trackers and what it sends
Concluded(n, m, new, newt) ==
  /\ Sent(new) /\ track' \subseteq track \cup newt
  /\ \A t \in newt :
       /\ m.st = "none" /\ SameTry(m, t)
       /\ \E s \in track : s.r = t.r /\ s.try = t.try /\ t.left = s.left \ {m.from}
  /\ \A d, e \in new : d = e
  /\ \A d \in new :
       /\ d.kind = "reply" /\ d.r = m.r /\ d.try = m.try /\ d.from = n /\ d.to = req[m.r].by
       /\ d.st = m.st
       /\ m.st = "none" => \E s \in track : SameTry(m, s) /\ s.left \subseteq {m.from}

LEMMA ConcludedIs ==
  ASSUME Typed, NEW n \in Node, NEW m \in dps_client_data_t, dps_msg_update_reply(n, m)
  PROVE  \E new \in SUBSET dps_client_data_t : \E newt \in SUBSET Tracker :
           Concluded(n, m, new, newt)
  <1> DEFINE mine == {t \in track : t.at = n /\ t.r = m.r /\ t.try = m.try /\ m.from \in t.left}
             rest == {[t EXCEPT !.left = @ \ {m.from}] : t \in mine}
             over == m.st # "none" \/ \A t \in rest : t.left = {}
             asked == [m EXCEPT !.kind = "request"]
             newt == IF over THEN {} ELSE rest
             new == IF over /\ mine # {} THEN {Reply(n, asked, Only(m.st))} ELSE {}
  <1>1. track' = (track \ mine) \cup newt /\ net' = net \cup new
    BY DEF dps_msg_update_reply
  <1>2. /\ asked \in dps_client_data_t /\ asked.kind = "request" /\ asked.r = m.r
        /\ asked.try = m.try
    BY DEF dps_client_data_t
  <1>3. \A s \in mine :
          LET t == [s EXCEPT !.left = @ \ {m.from}]
          IN  t \in Tracker /\ t.r = s.r /\ t.try = s.try /\ t.left = s.left \ {m.from}
    <2> SUFFICES ASSUME NEW s \in track
                 PROVE  LET t == [s EXCEPT !.left = @ \ {m.from}]
                        IN  t \in Tracker /\ t.r = s.r /\ t.try = s.try /\ t.left = s.left \ {m.from}
      OBVIOUS
    <2>1. s \in Tracker /\ s.left \ {m.from} \in SUBSET Node
      BY TrackerIs
    <2> QED
      BY <2>1 DEF Tracker
  <1>4. \A t \in rest : /\ t \in Tracker /\ SameTry(m, t)
                        /\ \E s \in track : s.r = t.r /\ s.try = t.try /\ t.left = s.left \ {m.from}
    <2> SUFFICES ASSUME NEW s \in mine, NEW t, t = [s EXCEPT !.left = @ \ {m.from}]
                 PROVE  /\ t \in Tracker /\ SameTry(m, t)
                        /\ s \in track /\ s.r = t.r /\ s.try = t.try /\ t.left = s.left \ {m.from}
      BY SMT
    <2> QED
      BY <1>3 DEF SameTry
  <1>5. \A s \in mine : s \in track /\ SameTry(m, s) /\ \E t \in rest : t.left = s.left \ {m.from}
    BY <1>3 DEF SameTry
  <1>6. PICK d : d = Reply(n, asked, Only(m.st))
    OBVIOUS
  <1> HIDE DEF asked, mine, rest
  <1>7. /\ d \in dps_client_data_t /\ d.kind = "reply" /\ d.to = req[m.r].by
        /\ d.r = m.r /\ d.try = m.try /\ d.from = n /\ d.st = m.st
    <2>1. Only(m.st) \in AnswerType /\ Only(m.st).st = m.st
      BY OnlyTyped
    <2> QED
      BY <1>2, <1>6, <2>1, ReplyIs, SMT
  <1>8. \A t \in newt : t \in rest /\ m.st = "none"
    OBVIOUS
  <1>9. \A e \in new : e = d /\ over /\ mine # {}
    BY <1>6
  <1>10. ASSUME mine # {}, over, m.st = "none"
         PROVE  \E s \in track : SameTry(m, s) /\ s.left \subseteq {m.from}
    <2>1. PICK s \in mine : TRUE
      BY <1>10
    <2>2. PICK t \in rest : t.left = s.left \ {m.from}
      BY <1>5, <2>1
    <2>3. t.left = {}
      BY <1>10, <2>2
    <2> QED
      BY <1>5, <2>1, <2>2, <2>3
  <1>11. Sent(new) /\ track' \subseteq track \cup newt
    BY <1>1 DEF Sent
  <1> HIDE DEF over
  <1>12. \A e \in new :
           /\ e = d
           /\ m.st = "none" => \E s \in track : SameTry(m, s) /\ s.left \subseteq {m.from}
    BY <1>9, <1>10
  <1> HIDE DEF new, newt
  <1>13. Concluded(n, m, new, newt)
    BY <1>4, <1>7, <1>8, <1>11, <1>12 DEF Concluded
  <1>14. new \in SUBSET dps_client_data_t /\ newt \in SUBSET Tracker
    BY <1>4, <1>7, <1>8, <1>12
  <1> QED
    BY <1>13, <1>14

LEMMA AckStep ==
  ASSUME IInv, NEW n \in Node, NEW m \in cur[n], Emptied(n),
         UNCHANGED <<req, cache, site>>, dps_msg_update_reply(n, m)
  PROVE  IInv' /\ CurrentAnswers
  <1>0. /\ Typed /\ FlowInv /\ AppliedInv /\ FreshInv /\ HousedInv /\ CalmInv /\ AgreeInv
    BY DEF IInv
  <1>1. /\ m \in Msgs /\ m \in dps_client_data_t /\ m.r \in Request
        /\ req[m.r].by \in Client
    BY <1>0, MsgsIs, MsgsTyped, MsgIs, ReqIs
  <1>2. m.kind = "ack" /\ UNCHANGED <<srv, trouble, told, why>>
    BY DEF dps_msg_update_reply
  <1>3. req[m.r].op \in Registration /\ Proper(m)
    BY <1>0, <1>1, <1>2, FlowParts DEF Proper
  <1>4. PICK new \in SUBSET dps_client_data_t, newt \in SUBSET Tracker : Concluded(n, m, new, newt)
    BY <1>0, <1>1, ConcludedIs
  <1>5. /\ Sent(new) /\ track' \subseteq track \cup newt
        /\ \A t \in newt :
             /\ m.st = "none" /\ SameTry(m, t)
             /\ \E s \in track : s.r = t.r /\ s.try = t.try /\ t.left = s.left \ {m.from}
        /\ \A d, e \in new : d = e
        /\ \A d \in new :
             /\ d.kind = "reply" /\ d.r = m.r /\ d.try = m.try /\ d.from = n /\ d.to = req[m.r].by
             /\ d.st = m.st
             /\ m.st = "none" => \E s \in track : SameTry(m, s) /\ s.left \subseteq {m.from}
    BY <1>4 DEF Concluded
  <1>6. /\ cur' \in [Node -> SUBSET dps_client_data_t]
        /\ \A k \in Node : \A x, y \in cur'[k] : x = y
        /\ \A k \in Node : cur'[k] # {} => cur[k] # {}
        /\ net' \subseteq dps_client_data_t /\ Placed'
        /\ Msgs \ {m} \subseteq Msgs' /\ Msgs' \subseteq Msgs \cup new
    <2>1. \A d \in new : d.kind \notin {"request", "update"}
      BY <1>5
    <2> QED
      BY <1>0, <1>4, <1>5, <2>1, Handled
  <1>7. Typed'
    <2>1. track' \subseteq Tracker
      BY <1>0, <1>4, <1>5 DEF Typed
    <2> QED
      BY <1>0, <1>2, <1>6, <2>1 DEF Typed
  <1>8. \A d \in new : Proper(d) /\ SameTry(d, m)
    BY <1>1, <1>3, <1>5 DEF Proper, SameTry
  <1>9. ReqKept
    BY <1>0, ReqSame
  <1>10. FlowInv'
    <2>1. \A t \in newt : \E s \in track :
            s.r = t.r /\ s.try = t.try /\ SameTry(m, t) /\ t.left = s.left \ {m.from}
      BY <1>5
    <2>2. \A d \in new :
            /\ Proper(d) /\ SameTry(d, m) /\ d.kind = "reply"
            /\ d.st = "none" => \E s \in track : SameTry(m, s) /\ s.left \subseteq {m.from}
      BY <1>5, <1>8
    <2>3. req' = req /\ told' = told /\ track' \subseteq track \cup newt
      BY <1>2, <1>5
    <2> QED
      BY <1>0, <1>1, <1>2, <1>6, <1>7, <2>1, <2>2, <2>3, FlowReplied, SMT
  <1>11. AppliedInv'
    <2>1. ASSUME NEW r \in Request, NEW h, Applied(h, r)' PROVE Applied(h, r)
      <3>1. CASE \E x \in Msgs : x.kind = "ack" /\ x.r = r /\ x.from = h /\ x.st = "none"
        BY <3>1 DEF Applied
      <3>2. CASE \E t \in track : t.r = r /\ h \notin t.left
        BY <3>2 DEF Applied
      <3>3. CASE \E x \in Msgs : x.r = r /\ Success(x)
        BY <3>3 DEF Applied
      <3>4. CASE req[r].state = "done" /\ req[r].ans.st = "none"
        BY <3>4 DEF Applied
      <3>5. CASE \E t \in newt : t.r = r /\ h \notin t.left
        <4>1. PICK t \in newt : t.r = r /\ h \notin t.left
          BY <3>5
        <4>2. PICK s \in track : s.r = t.r /\ s.try = t.try /\ t.left = s.left \ {m.from}
          BY <1>5, <4>1
        <4>3. m.r = r /\ m.st = "none"
          BY <1>5, <4>1 DEF SameTry
        <4>4. CASE h = m.from
          BY <1>1, <1>2, <3>1, <4>3, <4>4
        <4>5. CASE h \notin s.left
          BY <3>2, <4>1, <4>2, <4>5
        <4> QED
          BY <4>1, <4>2, <4>4, <4>5
      <3>6. CASE \E d \in new : d.r = r /\ d.st = "none"
        <4>1. m.r = r /\ m.st = "none"
          BY <1>5, <3>6
        <4>2. PICK s \in track : SameTry(m, s) /\ s.left \subseteq {m.from}
          BY <1>5, <3>6
        <4>3. CASE h = m.from
          BY <1>1, <1>2, <3>1, <4>1, <4>3
        <4>4. CASE h \notin s.left
          BY <3>2, <4>1, <4>2, <4>4 DEF SameTry
        <4> QED
          BY <4>2, <4>3, <4>4
      <3>7. \/ \E x \in Msgs' : x.kind = "ack" /\ x.r = r /\ x.from = h /\ x.st = "none"
            \/ \E t \in track' : t.r = r /\ h \notin t.left
            \/ \E x \in Msgs' : x.r = r /\ Success(x)
            \/ req[r].state = "done" /\ req[r].ans.st = "none"
        BY <2>1 DEF Applied, Success
      <3>8. (\E x \in Msgs' : x.kind = "ack" /\ x.r = r /\ x.from = h /\ x.st = "none") =>
              \E x \in Msgs : x.kind = "ack" /\ x.r = r /\ x.from = h /\ x.st = "none"
        BY <1>5, <1>6
      <3>9. (\E x \in Msgs' : x.r = r /\ Success(x)) =>
              \/ \E x \in Msgs : x.r = r /\ Success(x)
              \/ \E d \in new : d.r = r /\ d.st = "none"
        BY <1>6 DEF Success
      <3>10. (\E t \in track' : t.r = r /\ h \notin t.left) =>
               \/ \E t \in track : t.r = r /\ h \notin t.left
               \/ \E t \in newt : t.r = r /\ h \notin t.left
        BY <1>5
      <3> QED
        BY <3>1, <3>2, <3>3, <3>4, <3>5, <3>6, <3>7, <3>8, <3>9, <3>10
    <2> QED
      BY <1>0, <1>2, <1>7, <1>9, <2>1, AppliedKept
  <1>12. \A d \in new : req[d.r].op \notin Lookup /\ \A r \in Request : Names(d, r)'
    BY <1>3, <1>5, RegistrationNames
  <1>13. FreshInv'
    <2>1. \A d \in net' : d.kind = "reply" => d \in net \/ \A r \in Request : Names(d, r)'
      BY <1>5, <1>12 DEF Sent
    <2> QED
      BY <1>0, <1>2, <1>7, <1>9, <2>1, FreshKept
  <1>14. HousedInv'
    BY <1>0, <1>2 DEF HousedInv, Housed, In
  <1>15. Steady
    BY <1>2 DEF Steady
  <1>16. CalmInv'
    <2>1. /\ \A d \in new : (\E x \in Msgs : SameTry(d, x)) /\ d.kind # "update"
          /\ \A t \in newt : \E x \in Msgs : SameTry(x, t)
      BY <1>1, <1>5, <1>8
    <2> QED
      BY <1>0, <1>5, <1>6, <1>15, <2>1, CalmServed
  <1>17. AgreeInv'
    <2>1. \A d : d.kind = "update" => (d \in Msgs' <=> d \in Msgs)
      BY <1>2, <1>5, <1>6
    <2> QED
      BY <1>0, <1>2, <1>9, <1>15, <2>1, AgreeKept
  <1>18. CurrentAnswers
    BY <1>5, <1>12 DEF CurrentAnswers, Sent
  <1> QED
    BY <1>7, <1>10, <1>11, <1>13, <1>14, <1>16, <1>17, <1>18 DEF IInv

LEMMA HandleStep ==
  ASSUME IInv, NEW n \in Node, Handle(n) PROVE IInv' /\ CurrentAnswers
  <1>1. PICK m \in cur[n] :
          /\ cur' = [cur EXCEPT ![n] = {}] /\ UNCHANGED <<req, cache, site>>
          /\ \/ AnswerRequest(n, m) \/ PassMigration(n, m)
             \/ Register(n, m) \/ dps_msg_update_reply(n, m)
    BY DEF Handle
  <1>2. Emptied(n)
    BY <1>1 DEF Emptied
  <1>3. Register(n, m) => m.kind \in {"request", "update"}
    BY DEF Register
  <1> QED
    BY <1>1, <1>2, <1>3, AnswerStep, MigrationStep, RequestStep, UpdateStep, AckStep

----------------------------------------------------------------------------
(* The timer of a coordinator, and what happens around the requests        *)

LEMMA TimeoutStep ==
  ASSUME IInv, NEW t, ReplicationTimeout(t) PROVE IInv' /\ CurrentAnswers
  <1>0. Typed /\ FlowInv /\ HousedInv
    BY DEF IInv
  <1>1. PICK pending \in BOOLEAN : TroubleIf(pending)
    BY DEF ReplicationTimeout
  <1>2. /\ trouble' \in [left : Nat, seen : BOOLEAN]
        /\ ~ trouble'.seen => ~ trouble.seen
    BY <1>0, <1>1, TroubleIs
  <1>3. track' \subseteq track /\ UNCHANGED <<srv, cur, net, req, cache, told>>
    BY DEF ReplicationTimeout
  <1>4. Typed' /\ Steady
    BY <1>0, <1>2, <1>3 DEF Typed, Steady
  <1>5. net' = net /\ Msgs' = Msgs /\ Placed'
    BY <1>0, <1>3, FlowParts, SMT DEF Msgs, Placed
  <1> QED
    BY <1>0, <1>3, <1>4, <1>5, PlainStep DEF HousedInv

\* Node n goes on as s.
Becomes(n, s) == srv' = [srv EXCEPT ![n] = s]

LEMMA AroundOne ==
  ASSUME IInv, NEW n \in Node, NEW s \in Server, Becomes(n, s),
         UNCHANGED <<cur, net, track, req, cache>>,
         trouble' \in [left : Nat, seen : BOOLEAN], told' \in [Request -> SUBSET Node],
         \A r \in Request : told'[r] \subseteq told[r],
         s.reg = srv[n].reg \/ \A r \in Request : n \notin told'[r],
         Housed(s.reg),
         ~ trouble'.seen =>
           /\ ~ trouble.seen /\ s.reg = srv[n].reg /\ s.started = srv[n].started
           /\ s.dom = srv[n].dom /\ s.hosts = srv[n].hosts /\ (srv[n].vnid => s.vnid)
  PROVE  IInv' /\ CurrentAnswers
  <1>0. Typed /\ FlowInv /\ HousedInv
    BY DEF IInv
  <1>1. /\ srv' \in [Node -> Server] /\ srv'[n] = s
        /\ \A k \in Node : k # n => srv'[k] = srv[k]
    BY <1>0 DEF Becomes, Typed
  <1>2. Typed'
    BY <1>0, <1>1 DEF Typed
  <1>3. Steady
    <2>1. ASSUME ~ trouble'.seen, NEW k \in Node
          PROVE  /\ srv'[k].started = srv[k].started /\ srv'[k].dom = srv[k].dom
                 /\ srv'[k].hosts = srv[k].hosts /\ (srv[k].vnid => srv'[k].vnid)
      BY <1>1, <2>1
    <2> QED
      BY <2>1 DEF Steady
  <1>4. net' = net /\ Msgs' = Msgs /\ Placed'
    BY <1>0, FlowParts, SMT DEF Msgs, Placed
  <1>5. \A r \in Request : \A h \in told'[r] :
          In(srv'[h].reg, "endpoint") = In(srv[h].reg, "endpoint")
    <2> SUFFICES ASSUME NEW r \in Request, NEW h \in told'[r]
                 PROVE  srv'[h].reg = srv[h].reg
      BY DEF In
    <2>1. h \in Node
      OBVIOUS
    <2> QED
      BY <1>1, <2>1
  <1>6. \A k \in Node : Housed(srv'[k].reg)
    BY <1>0, <1>1 DEF HousedInv
  <1>7. ~ trouble'.seen => \A k \in Node : srv'[k].reg = srv[k].reg
    BY <1>1
  <1> QED
    BY <1>2, <1>3, <1>4, <1>5, <1>6, <1>7, PlainStep

\* One field or more of a node's state
LEMMA ServerWith ==
  ASSUME NEW s \in Server
  PROVE  /\ \A x \in SUBSET Node :
              LET v == [s EXCEPT !.hosts = x]
              IN  /\ v \in Server /\ v.reg = s.reg /\ v.started = s.started
                  /\ v.dom = s.dom /\ v.vnid = s.vnid
         /\ \A x \in BOOLEAN :
              LET v == [s EXCEPT !.started = x] IN v \in Server /\ v.reg = s.reg
         /\ LET v == [s EXCEPT !.ask = FALSE, !.vnid = TRUE]
            IN  /\ v \in Server /\ v.reg = s.reg /\ v.started = s.started
                /\ v.dom = s.dom /\ v.hosts = s.hosts /\ v.vnid
         /\ \A x \in SUBSET (Kind \X Client) :
              LET v == [s EXCEPT !.dom = "active", !.vnid = TRUE, !.reg = x]
                  w == [s EXCEPT !.dom = "none", !.reg = x]
              IN  v \in Server /\ v.reg = x /\ w \in Server /\ w.reg = x
         /\ LET v == [s EXCEPT !.dom = "inactive"] IN v \in Server /\ v.reg = s.reg
  BY DEF Server

LEMMA NoLonger ==
  ASSUME Typed, NEW n \in Node, told' = [r \in Request |-> told[r] \ {n}]
  PROVE  /\ told' \in [Request -> SUBSET Node]
         /\ \A r \in Request : told'[r] \subseteq told[r] /\ n \notin told'[r]
  BY DEF Typed

LEMMA AroundQuietly ==
  ASSUME IInv, NEW n \in Node,
         MapTrue(n) \/ VNID_Query_Timeout(n) \/ dcs_protocol_handler_stop(n)
                    \/ dcs_protocol_handler_start(n)
  PROVE  IInv' /\ CurrentAnswers
  <1>0. Typed /\ HousedInv /\ CalmInv
    BY DEF IInv
  <1>1. srv[n] \in Server /\ Housed(srv[n].reg)
    BY <1>0, SrvIs DEF HousedInv
  <1>2. /\ told \in [Request -> SUBSET Node] /\ trouble \in [left : Nat, seen : BOOLEAN]
        /\ \A r \in Request : told[r] \subseteq told[r]
    BY <1>0 DEF Typed
  <1>3. CASE MapTrue(n)
    <2>1. PICK s : s = [srv[n] EXCEPT !.hosts = Active]
      OBVIOUS
    <2>2. /\ s \in Server /\ s.reg = srv[n].reg
      <3>1. Active \in SUBSET Node
        BY DEF Active
      <3> QED
        BY <1>1, <2>1, <3>1, ServerWith
    <2>3. /\ Becomes(n, s) /\ told' = told /\ trouble' = trouble
          /\ UNCHANGED <<cur, net, track, req, cache>>
      BY <1>3, <2>1 DEF MapTrue, Becomes
    <2>4. trouble.seen
      BY <1>0, <1>3 DEF CalmInv, MapTrue
    <2> QED
      BY <1>1, <1>2, <2>2, <2>3, <2>4, AroundOne
  <1>4. CASE VNID_Query_Timeout(n)
    <2>1. PICK s : s = [srv[n] EXCEPT !.ask = FALSE, !.vnid = TRUE]
      OBVIOUS
    <2>2. /\ s \in Server /\ s.reg = srv[n].reg /\ s.started = srv[n].started
          /\ s.dom = srv[n].dom /\ s.hosts = srv[n].hosts /\ s.vnid
      BY <1>1, <2>1, ServerWith
    <2>3. /\ Becomes(n, s) /\ told' = told /\ trouble' = trouble
          /\ UNCHANGED <<cur, net, track, req, cache>>
      <3>1. srv' = [srv EXCEPT ![n] = s]
        BY <1>0, <1>4, <2>1 DEF VNID_Query_Timeout, Typed
      <3> QED
        BY <1>4, <3>1 DEF VNID_Query_Timeout, Becomes
    <2> QED
      BY <1>1, <1>2, <2>2, <2>3, AroundOne
  <1>5. CASE dcs_protocol_handler_stop(n)
    <2>1. PICK s : s = [srv[n] EXCEPT !.started = FALSE]
      OBVIOUS
    <2>2. s \in Server /\ s.reg = srv[n].reg
      BY <1>1, <2>1, ServerWith
    <2>3. /\ Becomes(n, s) /\ told' = told /\ TroubleIf(TRUE)
          /\ UNCHANGED <<cur, net, track, req, cache>>
      BY <1>5, <2>1 DEF dcs_protocol_handler_stop, Becomes
    <2>4. trouble' \in [left : Nat, seen : BOOLEAN] /\ trouble'.seen
      BY <1>0, <2>3, TroubleIs
    <2> QED
      BY <1>1, <1>2, <2>2, <2>3, <2>4, AroundOne
  <1>6. CASE dcs_protocol_handler_start(n)
    <2>1. PICK s : s = [srv[n] EXCEPT !.started = TRUE]
      OBVIOUS
    <2>2. s \in Server /\ s.reg = srv[n].reg
      BY <1>1, <2>1, ServerWith
    <2>3. /\ Becomes(n, s) /\ told' = told /\ trouble' = trouble
          /\ UNCHANGED <<cur, net, track, req, cache>>
      BY <1>6, <2>1 DEF dcs_protocol_handler_start, Becomes
    <2>4. trouble.seen
      BY <1>0, <1>6 DEF CalmInv, dcs_protocol_handler_start
    <2> QED
      BY <1>1, <1>2, <2>2, <2>3, <2>4, AroundOne
  <1> QED
    BY <1>3, <1>4, <1>5, <1>6

LEMMA AroundMoved ==
  ASSUME IInv, NEW n \in Node, Activate(n) \/ Deactivate(n) PROVE IInv' /\ CurrentAnswers
  <1>0. Typed /\ HousedInv
    BY DEF IInv
  <1>1. /\ srv[n] \in Server
        /\ \A k \in Node : Housed(srv[k].reg) /\ srv[k].reg \in SUBSET (Kind \X Client)
    BY <1>0, SrvIs DEF HousedInv
  <1>2. /\ TroubleIf(TRUE) /\ told' = [r \in Request |-> told[r] \ {n}]
        /\ UNCHANGED <<cur, net, track, req, cache>>
    BY DEF Activate, Deactivate
  <1>3. /\ told' \in [Request -> SUBSET Node]
        /\ \A r \in Request : told'[r] \subseteq told[r] /\ n \notin told'[r]
        /\ trouble' \in [left : Nat, seen : BOOLEAN] /\ trouble'.seen
    BY <1>0, <1>2, NoLonger, TroubleIs
  <1>4. \E s \in Server : Becomes(n, s) /\ Housed(s.reg)
    <2>1. CASE Activate(n)
      <3>1. PICK reg \in (IF Active = {} THEN {srv[n].reg} ELSE {srv[h].reg : h \in Active}) :
              srv' = [srv EXCEPT ![n].dom = "active", ![n].vnid = TRUE, ![n].reg = reg]
        BY <2>1 DEF Activate
      <3>2. \E k \in Node : reg = srv[k].reg
        BY <3>1 DEF Active
      <3>3. Housed(reg) /\ reg \in SUBSET (Kind \X Client)
        BY <1>1, <3>2
      <3>4. PICK s : s = [srv[n] EXCEPT !.dom = "active", !.vnid = TRUE, !.reg = reg]
        OBVIOUS
      <3>5. s \in Server /\ s.reg = reg
        BY <1>1, <3>3, <3>4, ServerWith
      <3>6. srv' = [srv EXCEPT ![n] = s]
        BY <1>0, <3>1, <3>4 DEF Typed
      <3> QED
        BY <3>3, <3>5, <3>6 DEF Becomes
    <2>2. CASE srv' = [srv EXCEPT ![n].dom = "inactive"]
      <3>1. PICK s : s = [srv[n] EXCEPT !.dom = "inactive"]
        OBVIOUS
      <3>2. s \in Server /\ s.reg = srv[n].reg
        BY <1>1, <3>1, ServerWith
      <3> QED
        BY <1>1, <2>2, <3>1, <3>2 DEF Becomes
    <2>3. CASE srv' = [srv EXCEPT ![n].dom = "none", ![n].reg = {}]
      <3>1. PICK s : s = [srv[n] EXCEPT !.dom = "none", !.reg = {}]
        OBVIOUS
      <3>2. s \in Server /\ s.reg = {}
        <4>1. {} \in SUBSET (Kind \X Client)
          OBVIOUS
        <4> QED
          BY <1>1, <3>1, <4>1, ServerWith
      <3>3. srv' = [srv EXCEPT ![n] = s]
        BY <1>0, <2>3, <3>1 DEF Typed
      <3>4. Housed(s.reg)
        BY <3>2 DEF Housed, In
      <3> QED
        BY <3>2, <3>3, <3>4 DEF Becomes
    <2> QED
      BY <2>1, <2>2, <2>3 DEF Deactivate
  <1> QED
    BY <1>2, <1>3, <1>4, AroundOne

LEMMA LoseStep ==
  ASSUME IInv, NEW m, Lose(m) PROVE IInv' /\ CurrentAnswers
  <1>0. Typed /\ FlowInv /\ HousedInv
    BY DEF IInv
  <1>1. /\ TroubleIf(TRUE) /\ net' \subseteq net
        /\ UNCHANGED <<srv, cur, track, req, cache, told>>
    BY DEF Lose
  <1>2. trouble' \in [left : Nat, seen : BOOLEAN] /\ trouble'.seen
    BY <1>0, <1>1, TroubleIs
  <1>3. Typed' /\ Steady
    BY <1>0, <1>1, <1>2 DEF Typed, Steady
  <1>4. Msgs' \subseteq Msgs /\ Placed'
    BY <1>0, <1>1, FlowParts DEF Msgs, Placed
  <1> QED
    BY <1>0, <1>1, <1>2, <1>3, <1>4, PlainStep DEF HousedInv

----------------------------------------------------------------------------
(* The clients                                                             *)

\* Request r goes on as e.
GoesOn(r, e) == req' = [req EXCEPT ![r] = e]

LEMMA GoesOnIs ==
  ASSUME Typed, NEW r \in Request, NEW e \in ReqRecord, GoesOn(r, e),
         e.op = req[r].op, e.key = req[r].key, e.by = req[r].by,
         req[r].tries <= e.tries, req[r].state \in {"new", "open"}, e.state # "new",
         req[r].state = "open" => e.earlier = req[r].earlier
  PROVE  /\ req' \in [Request -> ReqRecord] /\ req'[r] = e
         /\ \A q \in Request \ {r} : req'[q] = req[q]
         /\ ReqKept
  <1>1. /\ req' \in [Request -> ReqRecord] /\ req'[r] = e
        /\ \A q \in Request \ {r} : req'[q] = req[q]
    BY DEF GoesOn, Typed
  <1>2. ASSUME NEW q \in Request
        PROVE  /\ req'[q].op = req[q].op /\ req'[q].key = req[q].key /\ req'[q].by = req[q].by
               /\ req[q].tries <= req'[q].tries
               /\ req[q].state # "new" => req'[q].state # "new" /\ req'[q].earlier = req[q].earlier
               /\ req[q].state = "done" => req'[q] = req[q]
    <2>1. CASE q = r
      BY <1>1, <2>1
    <2>2. CASE q # r
      <3>1. req'[q] = req[q]
        BY <1>1, <2>2
      <3>2. req[q].tries <= req[q].tries
        BY ReqIs, SMT
      <3> QED
        BY <3>1, <3>2
    <2> QED
      BY <2>1, <2>2
  <1> QED
    BY <1>1, <1>2 DEF ReqKept

LEMMA AskStep ==
  ASSUME IInv, Typed', ReqKept, NEW r \in Request, \A q \in Request \ {r} : req'[q] = req[q],
         NEW d \in dps_client_data_t, net' = net \cup {d},
         UNCHANGED <<srv, cur, track, told>>,
         d.kind = "request", d.r = r, d.to \in Node, d.try = req'[r].tries,
         d.try > req[r].tries, req'[r].state = "open",
         req'[r].tries = 1 => told[r] = {}, ProperRequest(r)',
         ~ trouble'.seen =>
           /\ ~ trouble.seen /\ \A m \in Msgs : m.r # r
           /\ \A t \in track : t.r # r
  PROVE  IInv' /\ CurrentAnswers
  <1>0. /\ Typed /\ FlowInv /\ AppliedInv /\ FreshInv /\ HousedInv /\ CalmInv /\ AgreeInv
    BY DEF IInv
  <1>1. \A x : x \in Msgs' <=> x \in Msgs \/ x = d
    BY DEF Msgs
  <1>2. FlowInv'
    <2>1. d.try <= req'[r].tries
      BY MsgIs, SMT
    <2>2. Proper(d)'
      BY <2>1 DEF Proper
    <2>3. told' = told /\ track' = track /\ cur' = cur
      OBVIOUS
    <2> QED
      BY <1>0, <2>2, <2>3, FlowAsked
  <1>3. AppliedInv'
    <2>1. ASSUME NEW q \in Request, NEW h, Applied(h, q)' PROVE Applied(h, q)
      <3>1. \A x \in Msgs' : x.r = q /\ (x.kind = "ack" \/ Success(x)) => x \in Msgs
        BY <1>1 DEF Success
      <3>2. req'[q] = req[q] \/ req'[q].state # "done"
        OBVIOUS
      <3> QED
        BY <2>1, <3>1, <3>2, AppliedLess
    <2> QED
      BY <1>0, <2>1, AppliedKept
  <1>4. FreshInv'
    <2>1. \A x \in net' : x.kind = "reply" => x \in net
      OBVIOUS
    <2>2. \A q \in Request : req'[q].state = "done" => req[q].state = "done"
      OBVIOUS
    <2>3. \A q \in Request : told'[q] \subseteq told[q]
      OBVIOUS
    <2> QED
      BY <1>0, <2>1, <2>2, <2>3, FreshKept
  <1>5. HousedInv'
    BY <1>0 DEF HousedInv, Housed, In
  <1>6. Steady
    BY DEF Steady
  <1>7. CalmInv'
    <2>1. ASSUME ~ trouble'.seen
          PROVE  /\ \A m \in Msgs' :
                      m.try = req'[m.r].tries /\ (m.kind = "update" => m.to \in Active)
                 /\ \A t \in track' : t.try = req'[t.r].tries
                 /\ \A q \in Request : req'[q].state = "done" => req'[q].ans.try = req'[q].tries
      <3>1. /\ \A m \in Msgs : m.try = req[m.r].tries /\ (m.kind = "update" => m.to \in Active)
            /\ \A t \in track : t.try = req[t.r].tries
            /\ \A q \in Request : req[q].state = "done" => req[q].ans.try = req[q].tries
        BY <1>0, <2>1 DEF CalmInv
      <3>2. /\ \A m \in Msgs : m.r \in Request /\ m.r # r
            /\ \A t \in track : t.r \in Request /\ t.r # r
        BY <1>0, <2>1, MsgsTyped, MsgIs, TrackerIs
      <3>3. \A m \in Msgs' : m.try = req'[m.r].tries /\ (m.kind = "update" => m.to \in Active)
        BY <1>1, <3>1, <3>2, SMT
      <3>4. \A t \in track' : t.try = req'[t.r].tries
        BY <3>1, <3>2
      <3>5. \A q \in Request : req'[q].state = "done" => req'[q].ans.try = req'[q].tries
        BY <3>1
      <3> QED
        BY <3>3, <3>4, <3>5
    <2> QED
      BY <1>0, <1>6, <2>1, CalmKept
  <1>8. AgreeInv'
    <2>1. \A x : x.kind = "update" => (x \in Msgs' <=> x \in Msgs)
      BY <1>1
    <2> QED
      BY <1>0, <1>6, <2>1, AgreeKept
  <1>9. CurrentAnswers
    BY DEF CurrentAnswers
  <1> QED
    BY <1>2, <1>3, <1>4, <1>5, <1>7, <1>8, <1>9 DEF IInv

LEMMA ServerOf == ASSUME Typed, NEW c \in Client PROVE dps_find_server(c) \in Node
  BY RequestsAssumption DEF Typed, dps_find_server

LEMMA IssueStep ==
  ASSUME IInv, NEW r \in Request, Issue(r) PROVE IInv' /\ CurrentAnswers
  <1>0. Typed /\ FlowInv
    BY DEF IInv
  <1>1. /\ req[r] \in ReqRecord /\ req[r].by \in Client /\ req[r].state = "new"
        /\ req[r].tries = 0 /\ told[r] = {} /\ ProperRequest(r)
    BY <1>0, ReqIs, FlowParts DEF ProperRequest, Issue
  <1>2. 1 \in 1 .. MaxTries /\ 1 \in 0 .. MaxTries /\ 0 <= 1 /\ 1 > 0 /\ 1 >= 1
    BY RequestsAssumption, SMT
  <1>3. PICK h, done : h = dps_find_server(req[r].by) /\ done = {q \in Request : req[q].state = "done"}
    OBVIOUS
  <1>4. h \in Node /\ done \in SUBSET Request /\ \A q \in done : req[q].state = "done"
    BY <1>0, <1>1, <1>3, ServerOf
  <1>5. PICK e : e = [req[r] EXCEPT !.state = "open", !.to = h, !.tries = 1, !.earlier = done]
    OBVIOUS
  <1>6. PICK d : d = Datagram("request", r, 1, req[r].by, h)
    OBVIOUS
  <1>7. /\ e \in ReqRecord /\ e.op = req[r].op /\ e.key = req[r].key /\ e.by = req[r].by
        /\ e.state = "open" /\ e.tries = 1 /\ e.earlier = done
    BY <1>1, <1>2, <1>4, <1>5 DEF ReqRecord
  <1>8. /\ d \in dps_client_data_t /\ d.kind = "request" /\ d.r = r /\ d.try = 1 /\ d.to = h
    BY <1>1, <1>2, <1>4, <1>6, DatagramIs, SMT
  <1>9. /\ GoesOn(r, e) /\ net' = net \cup {d}
        /\ UNCHANGED <<srv, cur, track, cache, trouble, told>>
    BY <1>3, <1>5, <1>6 DEF Issue, GoesOn
  <1>10. /\ req' \in [Request -> ReqRecord] /\ req'[r] = e
         /\ \A q \in Request \ {r} : req'[q] = req[q]
         /\ ReqKept
    BY <1>0, <1>1, <1>2, <1>7, <1>9, GoesOnIs
  <1>11. Typed'
    BY <1>0, <1>8, <1>9, <1>10 DEF Typed
  <1>12. ProperRequest(r)'
    <2>1. \A q \in done : req'[q].state = "done"
      BY <1>4, <1>10 DEF ReqKept
    <2> QED
      BY <1>2, <1>7, <1>10, <2>1 DEF ProperRequest
  <1>13. /\ \A m \in Msgs : m.r # r
         /\ \A t \in track : t.r # r
    BY <1>0, <1>1, FlowParts DEF Proper, ProperTracker
  <1>14. UNCHANGED <<srv, cur, track, told>> /\ trouble' = trouble
    BY <1>9
  <1> QED
    BY <1>1, <1>2, <1>4, <1>7, <1>8, <1>9, <1>10, <1>11, <1>12, <1>13, <1>14, AskStep

LEMMA ResendStep ==
  ASSUME IInv, NEW r \in Request, Resend(r) PROVE IInv' /\ CurrentAnswers
  <1>0. Typed /\ FlowInv
    BY DEF IInv
  <1>1. /\ req[r] \in ReqRecord /\ req[r].by \in Client /\ req[r].to \in Node
        /\ req[r].state = "open" /\ ProperRequest(r)
    BY <1>0, ReqIs, FlowParts DEF Resend
  <1>2. PICK k : k = req[r].tries + 1
    OBVIOUS
  <1>3. /\ k \in 1 .. MaxTries /\ k \in 0 .. MaxTries /\ req[r].tries <= k
        /\ k > req[r].tries /\ k >= 1 /\ k # 1
    <2>1. req[r].tries \in Nat /\ req[r].tries < MaxTries /\ MaxTries \in Nat
      BY <1>0, ReqIs, RequestsAssumption DEF Resend
    <2>2. req[r].tries >= 1
      BY <1>1 DEF ProperRequest
    <2> QED
      BY <1>2, <2>1, <2>2, SMT
  <1>4. PICK e : e = [req[r] EXCEPT !.tries = k]
    OBVIOUS
  <1>5. PICK d : d = Datagram("request", r, k, req[r].by, req[r].to)
    OBVIOUS
  <1>6. /\ e \in ReqRecord /\ e.op = req[r].op /\ e.key = req[r].key /\ e.by = req[r].by
        /\ e.state = "open" /\ e.tries = k /\ e.earlier = req[r].earlier
    BY <1>1, <1>3, <1>4 DEF ReqRecord
  <1>7. /\ d \in dps_client_data_t /\ d.kind = "request" /\ d.r = r /\ d.try = k
        /\ d.to = req[r].to
    BY <1>1, <1>3, <1>5, DatagramIs, SMT
  <1>8. /\ GoesOn(r, e) /\ net' = net \cup {d}
        /\ UNCHANGED <<srv, cur, track, cache, told>>
    BY <1>0, <1>2, <1>4, <1>5 DEF Resend, GoesOn, Typed
  <1>9. /\ req' \in [Request -> ReqRecord] /\ req'[r] = e
        /\ \A q \in Request \ {r} : req'[q] = req[q]
        /\ ReqKept
    BY <1>0, <1>1, <1>3, <1>6, <1>8, GoesOnIs
  <1>10. PICK late \in BOOLEAN : late = InFlight(r) /\ TroubleIf(late)
    BY DEF Resend, InFlight
  <1>11. /\ trouble' \in [left : Nat, seen : BOOLEAN]
         /\ ~ trouble'.seen => ~ trouble.seen /\ ~ InFlight(r)
    BY <1>0, <1>10, TroubleIs
  <1>12. ~ InFlight(r) => /\ \A m \in Msgs : m.r # r
                          /\ \A t \in track : t.r # r
    BY DEF InFlight, Msgs
  <1>13. Typed'
    BY <1>0, <1>7, <1>8, <1>9, <1>11 DEF Typed
  <1>14. ProperRequest(r)'
    <2>1. \A q \in req[r].earlier : req[q].state = "done" /\ q \in Request
      BY <1>0, <1>1, ReqIs DEF ProperRequest
    <2>2. \A q \in req[r].earlier : req'[q].state = "done"
      BY <1>9, <2>1 DEF ReqKept
    <2> QED
      BY <1>3, <1>6, <1>9, <2>2 DEF ProperRequest
  <1>15. UNCHANGED <<srv, cur, track, told>>
    BY <1>8
  <1> QED
    BY <1>1, <1>3, <1>6, <1>7, <1>8, <1>9, <1>11, <1>12, <1>13, <1>14, <1>15, AskStep

\* A request that is over: answered, or given up
LEMMA SettleStep ==
  ASSUME IInv, Typed', ReqKept, NEW r \in Request, \A q \in Request \ {r} : req'[q] = req[q],
         net' \subseteq net, \A x \in net : x.kind = "update" => x \in net',
         UNCHANGED <<srv, cur, track, trouble, told>>,
         req[r].state = "open", req'[r].state \in {"done", "gaveup"},
         req'[r].tries = req[r].tries,
         req'[r].state = "done" =>
           /\ req'[r].ans \in net /\ req'[r].ans.r = r /\ req'[r].ans.kind = "reply"
  PROVE  IInv' /\ CurrentAnswers
  <1>0. /\ Typed /\ FlowInv /\ AppliedInv /\ FreshInv /\ HousedInv /\ CalmInv /\ AgreeInv
    BY DEF IInv
  <1>1. Msgs' \subseteq Msgs /\ \A x \in Msgs : x.kind = "update" => x \in Msgs'
    BY DEF Msgs
  <1>2. req'[r].state = "done" => req'[r].ans \in Msgs
    BY MsgsIs
  <1>3. told' = told /\ track' = track /\ cur' = cur /\ Placed'
    BY <1>0, FlowParts DEF Placed
  <1>4. FlowInv'
    BY <1>0, <1>1, <1>2, <1>3, FlowSettled
  <1>5. AppliedInv'
    <2>1. ASSUME NEW q \in Request, NEW h, Applied(h, q)' PROVE Applied(h, q)
      <3>1. \/ req'[q] = req[q] \/ req'[q].state # "done"
            \/ req'[q].ans \in Msgs /\ req'[q].ans.r = q /\ req'[q].ans.kind = "reply"
        BY <1>2
      <3> QED
        BY <1>1, <1>3, <2>1, <3>1, AppliedLess
    <2> QED
      BY <1>0, <2>1, AppliedKept
  <1>6. FreshInv'
    <2>1. \A q \in Request : req'[q].state = "done" =>
            \/ req[q].state = "done"
            \/ req'[q].ans \in net /\ req'[q].ans.kind = "reply"
      <3> SUFFICES ASSUME NEW q \in Request, req'[q].state = "done", req[q].state # "done"
                   PROVE  req'[q].ans \in net /\ req'[q].ans.kind = "reply"
        OBVIOUS
      <3>1. q = r
        OBVIOUS
      <3> QED
        BY <3>1
    <2>2. \A x \in net' : x.kind = "reply" => x \in net
      OBVIOUS
    <2>3. \A q \in Request : told'[q] \subseteq told[q]
      OBVIOUS
    <2> QED
      BY <1>0, <2>1, <2>2, <2>3, FreshKept
  <1>7. HousedInv'
    BY <1>0 DEF HousedInv, Housed, In
  <1>8. Steady
    BY DEF Steady
  <1>9. CalmInv'
    <2>0. \A q \in Request : req'[q].tries = req[q].tries
      OBVIOUS
    <2>1. ASSUME ~ trouble'.seen
          PROVE  /\ \A m \in Msgs' :
                      m.try = req'[m.r].tries /\ (m.kind = "update" => m.to \in Active)
                 /\ \A t \in track' : t.try = req'[t.r].tries
                 /\ \A q \in Request : req'[q].state = "done" => req'[q].ans.try = req'[q].tries
      <3>1. /\ \A m \in Msgs : m.try = req[m.r].tries /\ (m.kind = "update" => m.to \in Active)
            /\ \A t \in track : t.try = req[t.r].tries
            /\ \A q \in Request : req[q].state = "done" => req[q].ans.try = req[q].tries
        BY <1>0, <2>1 DEF CalmInv
      <3>2. (\A m \in Msgs : m.r \in Request) /\ (\A t \in track : t.r \in Request)
        BY <1>0, MsgsTyped, MsgIs, TrackerIs
      <3>3. \A m \in Msgs' : m.try = req'[m.r].tries /\ (m.kind = "update" => m.to \in Active)
        BY <1>1, <2>0, <3>1, <3>2
      <3>4. \A t \in track' : t.try = req'[t.r].tries
        BY <2>0, <3>1, <3>2
      <3>5. ASSUME NEW q \in Request, req'[q].state = "done"
            PROVE  req'[q].ans.try = req'[q].tries
        <4>1. CASE q = r
          BY <1>2, <2>0, <3>1, <3>5, <4>1
        <4>2. CASE q # r
          BY <3>1, <3>5, <4>2
        <4> QED
          BY <4>1, <4>2
      <3> QED
        BY <3>3, <3>4, <3>5
    <2> QED
      BY <1>0, <1>8, <2>1, CalmKept
  <1>10. AgreeInv'
    <2>1. \A x : x.kind = "update" => (x \in Msgs' <=> x \in Msgs)
      BY <1>1
    <2> QED
      BY <1>0, <1>8, <2>1, AgreeKept
  <1>11. CurrentAnswers
    BY DEF CurrentAnswers
  <1> QED
    BY <1>4, <1>5, <1>6, <1>7, <1>9, <1>10, <1>11 DEF IInv

LEMMA GiveUpStep ==
  ASSUME IInv, NEW r \in Request, dps_req_new_dps_node(r) PROVE IInv' /\ CurrentAnswers
  <1>0. Typed
    BY DEF IInv
  <1>1. /\ req[r] \in ReqRecord /\ req[r].by \in Client /\ req[r].state = "open"
        /\ req[r].tries <= req[r].tries
    <2>1. req[r].tries \in Nat
      BY <1>0, ReqIs
    <2>2. req[r].tries <= req[r].tries
      BY <2>1, SMT
    <2> QED
      BY <1>0, <2>2, ReqIs DEF dps_req_new_dps_node
  <1>2. PICK e : e = [req[r] EXCEPT !.state = "gaveup"]
    OBVIOUS
  <1>3. /\ e \in ReqRecord /\ e.op = req[r].op /\ e.key = req[r].key /\ e.by = req[r].by
        /\ e.state = "gaveup" /\ e.tries = req[r].tries /\ e.earlier = req[r].earlier
    BY <1>1, <1>2 DEF ReqRecord
  <1>4. /\ GoesOn(r, e) /\ cache' = [cache EXCEPT ![req[r].by] = NoOne]
        /\ UNCHANGED <<srv, cur, net, track, trouble, told>>
    BY <1>2 DEF dps_req_new_dps_node, GoesOn
  <1>5. /\ req' \in [Request -> ReqRecord] /\ req'[r] = e
        /\ \A q \in Request \ {r} : req'[q] = req[q]
        /\ ReqKept
    BY <1>0, <1>1, <1>3, <1>4, GoesOnIs
  <1>6. cache' \in [Client -> Node \cup {NoOne}]
    BY <1>0, <1>1, <1>4 DEF Typed
  <1>7. Typed'
    BY <1>0, <1>4, <1>5, <1>6 DEF Typed
  <1>8. /\ net' \subseteq net /\ (\A x \in net : x.kind = "update" => x \in net')
        /\ UNCHANGED <<srv, cur, track, trouble, told>>
    BY <1>4
  <1> QED
    BY <1>1, <1>3, <1>5, <1>7, <1>8, SettleStep

LEMMA ReceiveStep ==
  ASSUME IInv, NEW m, Receive(m) PROVE IInv' /\ CurrentAnswers
  <1>0. Typed /\ FlowInv /\ HousedInv
    BY DEF IInv
  <1>1. m \in net /\ m \in Msgs /\ m \in dps_client_data_t /\ m.to \in Client
    BY <1>0, MsgsIs, MsgsTyped DEF Receive
  <1>2. m.r \in Request /\ Proper(m) /\ m.to \notin Node
    BY <1>0, <1>1, MsgIs, FlowParts, RequestsAssumption
  <1>3. m.kind \notin {"request", "update", "ack"} /\ m.from \in Node
    BY <1>2 DEF Proper
  <1>4. /\ net' = net \ {m} /\ cache' = [cache EXCEPT ![m.to] = m.from]
        /\ UNCHANGED <<srv, cur, track, trouble, told>>
    BY DEF Receive
  <1>5. cache' \in [Client -> Node \cup {NoOne}]
    BY <1>0, <1>1, <1>3, <1>4 DEF Typed
  <1>6. /\ net' \subseteq net /\ (\A x \in net : x.kind = "update" => x \in net')
        /\ UNCHANGED <<srv, cur, track, trouble, told>>
    BY <1>3, <1>4
  <1>7. CASE m.kind = "reply" /\ m.to = req[m.r].by /\ req[m.r].state = "open"
    <2>1. req[m.r] \in ReqRecord /\ req[m.r].tries <= req[m.r].tries
      <3>1. req[m.r].tries \in Nat
        BY <1>0, <1>2, ReqIs
      <3>2. req[m.r].tries <= req[m.r].tries
        BY <3>1, SMT
      <3> QED
        BY <1>0, <1>2, <3>2, ReqIs
    <2>2. PICK e : e = [req[m.r] EXCEPT !.state = "done", !.ans = m]
      OBVIOUS
    <2>3. /\ e \in ReqRecord /\ e.op = req[m.r].op /\ e.key = req[m.r].key
          /\ e.by = req[m.r].by /\ e.state = "done" /\ e.ans = m
          /\ e.tries = req[m.r].tries /\ e.earlier = req[m.r].earlier
      BY <1>1, <2>1, <2>2 DEF ReqRecord
    <2>4. GoesOn(m.r, e)
      <3>1. req' = [req EXCEPT ![m.r].state = "done", ![m.r].ans = m]
        BY <1>7 DEF Receive
      <3>2. req' = [req EXCEPT ![m.r] = e]
        BY <1>0, <1>2, <2>2, <3>1 DEF Typed
      <3> QED
        BY <3>2 DEF GoesOn
    <2>5. /\ req' \in [Request -> ReqRecord] /\ req'[m.r] = e
          /\ \A q \in Request \ {m.r} : req'[q] = req[q]
          /\ ReqKept
      BY <1>0, <1>2, <1>7, <2>1, <2>3, <2>4, GoesOnIs
    <2>6. Typed'
      BY <1>0, <1>5, <1>6, <2>5 DEF Typed
    <2> QED
      BY <1>1, <1>2, <1>6, <1>7, <2>3, <2>5, <2>6, SettleStep
  <1>8. CASE ~ (m.kind = "reply" /\ m.to = req[m.r].by /\ req[m.r].state = "open")
    <2>1. req' = req
      BY <1>8 DEF Receive
    <2>2. Typed' /\ Steady
      BY <1>0, <1>5, <1>6, <2>1 DEF Typed, Steady
    <2>3. /\ Msgs' \subseteq Msgs /\ Placed'
          /\ \A x \in Msgs : x.kind = "update" => x \in Msgs'
      BY <1>0, <1>6, FlowParts DEF Msgs, Placed
    <2> QED
      BY <1>0, <1>6, <2>1, <2>2, <2>3, PlainStep DEF HousedInv
  <1> QED
    BY <1>7, <1>8

----------------------------------------------------------------------------
(* The invariant and the theorems                                          *)

LEMMA InitHolds == RequestsInit => IInv
  <1> SUFFICES ASSUME RequestsInit PROVE IInv
    OBVIOUS
  <1>1. PICK x \in Scenarios :
          /\ srv = [n \in Node |->
               [started |-> TRUE, vnid |-> n \in x.serving, ask |-> FALSE,
                dom |-> IF n \in x.serving THEN "active" ELSE "none",
                hosts |-> x.serving, reg |-> IF n \in x.serving THEN x.reg ELSE {}]]
          /\ trouble = [left |-> x.troubles, seen |-> FALSE]
          /\ req = [r \in Request |->
               [state |-> "new", op |-> x.ops[r][1], key |-> x.ops[r][2],
                by |-> x.ops[r][3], to |-> Default, tries |-> 0, earlier |-> {},
                ans |-> NoOne]]
    BY DEF RequestsInit
  <1>2. /\ cur = [n \in Node |-> {}] /\ net = {} /\ track = {}
        /\ cache = [c \in Client |-> NoOne] /\ told = [r \in Request |-> {}]
    BY DEF RequestsInit
  <1>3. /\ x.serving \subseteq Node /\ x.troubles \in Nat /\ x.reg \subseteq Kind \X Client
        /\ \A r \in Request :
             x.ops[r][1] \in Op /\ x.ops[r][2] \in Key /\ x.ops[r][3] \in Client
        /\ \A c \in Client : <<"endpoint", c>> \in x.reg => <<"tunnel", c>> \in x.reg
        /\ Default \in Node
    BY RequestsAssumption
  <1>4. \A n \in Node :
          /\ srv[n] \in Server /\ srv[n].started /\ srv[n].hosts = x.serving
          /\ srv[n].vnid = (n \in x.serving)
          /\ srv[n].dom = IF n \in x.serving THEN "active" ELSE "none"
          /\ srv[n].reg = IF n \in x.serving THEN x.reg ELSE {}
    <2> SUFFICES ASSUME NEW n \in Node
                 PROVE  /\ srv[n] \in Server /\ srv[n].started /\ srv[n].hosts = x.serving
                        /\ srv[n].vnid = (n \in x.serving)
                        /\ srv[n].dom = IF n \in x.serving THEN "active" ELSE "none"
                        /\ srv[n].reg = IF n \in x.serving THEN x.reg ELSE {}
      OBVIOUS
    <2>1. srv[n] = [started |-> TRUE, vnid |-> n \in x.serving, ask |-> FALSE,
                    dom |-> IF n \in x.serving THEN "active" ELSE "none",
                    hosts |-> x.serving, reg |-> IF n \in x.serving THEN x.reg ELSE {}]
      BY <1>1
    <2>2. CASE n \in x.serving
      BY <1>3, <2>1, <2>2, SMT DEF Server
    <2>3. CASE n \notin x.serving
      BY <1>3, <2>1, <2>3, SMT DEF Server
    <2> QED
      BY <2>2, <2>3
  <1>5. \A r \in Request :
          /\ req[r] \in ReqRecord /\ req[r].state = "new" /\ req[r].tries = 0
          /\ req[r].earlier = {}
    <2> SUFFICES ASSUME NEW r \in Request
                 PROVE  /\ req[r] \in ReqRecord /\ req[r].state = "new" /\ req[r].tries = 0
                        /\ req[r].earlier = {}
      OBVIOUS
    <2>1. req[r] = [state |-> "new", op |-> x.ops[r][1], key |-> x.ops[r][2],
                    by |-> x.ops[r][3], to |-> Default, tries |-> 0, earlier |-> {},
                    ans |-> NoOne]
      BY <1>1
    <2>2. 0 \in 0 .. MaxTries
      BY RequestsAssumption, SMT
    <2> QED
      BY <1>3, <2>1, <2>2, SMT DEF ReqRecord
  <1>6. Typed
    <2>1. srv \in [Node -> Server] /\ req \in [Request -> ReqRecord]
      <3>1. srv = [n \in Node |-> srv[n]] /\ req = [r \in Request |-> req[r]]
        BY <1>1
      <3> QED
        BY <1>4, <1>5, <3>1
    <2>2. trouble \in [left : Nat, seen : BOOLEAN]
      BY <1>1, <1>3
    <2> QED
      BY <1>2, <2>1, <2>2 DEF Typed
  <1>7. Msgs = {} /\ track = {} /\ \A n \in Node : cur[n] = {}
    BY <1>2 DEF Msgs
  <1>8. FlowInv
    <2>1. \A r \in Request : ProperRequest(r)
      BY <1>2, <1>5 DEF ProperRequest
    <2>2. Placed /\ Untold /\ Answered
      BY <1>7 DEF Placed, Untold, Answered
    <2> QED
      BY <1>7, <2>1, <2>2 DEF FlowInv
  <1>9. AppliedInv /\ FreshInv
    BY <1>2, <1>5 DEF AppliedInv, FreshInv
  <1>10. HousedInv
    <2>1. Housed(x.reg)
      BY <1>3 DEF Housed, In
    <2>2. ASSUME NEW none, none = {} PROVE Housed(none)
      BY <2>2 DEF Housed, In
    <2> QED
      BY <1>4, <2>1, <2>2 DEF HousedInv
  <1>11. Active = x.serving
    BY <1>3, <1>4 DEF Active
  <1>12. CalmInv
    BY <1>4, <1>5, <1>7, <1>11 DEF CalmInv
  <1>13. AgreeInv
    BY <1>3, <1>4, <1>7, <1>11 DEF AgreeInv
  <1> QED
    BY <1>6, <1>8, <1>9, <1>10, <1>12, <1>13 DEF IInv

LEMMA StutterStep == ASSUME IInv, UNCHANGED vars PROVE IInv' /\ CurrentAnswers
  <1>0. Typed /\ FlowInv /\ HousedInv
    BY DEF IInv
  <1>1. UNCHANGED <<srv, cur, net, track, req, cache, trouble, told>>
    BY DEF vars
  <1>2. Typed' /\ Steady
    BY <1>0, <1>1 DEF Typed, Steady
  <1>3. net' = net /\ Msgs' = Msgs /\ Placed'
    BY <1>0, <1>1, FlowParts, SMT DEF Msgs, Placed
  <1> QED
    BY <1>0, <1>1, <1>2, <1>3, PlainStep DEF HousedInv

LEMMA NextStep == ASSUME IInv, [RequestsNext]_vars PROVE IInv' /\ CurrentAnswers
  <1>1. CASE ServerStep
    BY <1>1, SendStep, HandleStep, TimeoutStep DEF ServerStep
  <1>2. CASE ClientStep
    BY <1>2, IssueStep, ResendStep, GiveUpStep, ReceiveStep DEF ClientStep
  <1>3. CASE AroundStep
    BY <1>3, AroundQuietly, AroundMoved, LoseStep DEF AroundStep
  <1> QED
    BY <1>1, <1>2, <1>3, StutterStep DEF RequestsNext

\* What is inductive: the three results below follow from it.
THEOREM RequestsInvariant == RequestsSpec => []IInv
  <1>1. RequestsInit => IInv
    BY InitHolds
  <1>2. IInv /\ [RequestsNext]_vars => IInv'
    BY NextStep
  <1> QED
    BY <1>1, <1>2, PTL DEF RequestsSpec

\* The variables keep their types, and a node has at most one datagram before
\* a handler, in every cluster.
THEOREM RequestsTypeTheorem == RequestsSpec => []RequestsTypeOK
  <1>1. IInv => RequestsTypeOK
    <2> SUFFICES ASSUME IInv PROVE RequestsTypeOK
      OBVIOUS
    <2>0. Typed
      BY DEF IInv
    <2>1. \A t \in track : t.at \in Node /\ t.r \in Request /\ t.left \subseteq Node
      BY <2>0, TrackerIs
    <2>2. \A r \in Request :
            /\ req[r].state \in {"new", "open", "done", "gaveup"}
            /\ req[r].op \in Op /\ req[r].key \in Key /\ req[r].tries \in 0 .. MaxTries
            /\ req[r].earlier \subseteq Request
      BY <2>0, ReqIs
    <2> QED
      BY <2>0, <2>1, <2>2 DEF Typed, RequestsTypeOK
  <1> QED
    BY <1>1, RequestsInvariant, PTL

\* A lookup issued after a machine's registration was answered without error,
\* and answered by a node that registration was sent to, names the new tunnel,
\* in every cluster (dps_msg_update_reply answers after the last host).
THEOREM FreshTheorem == RequestsSpec => []FreshAnswer
  <1>1. IInv => FreshAnswer
    <2> SUFFICES ASSUME IInv, NEW q \in Request, NEW r \in Request,
                        req[q].state = "done",
                        req[q].ans.what \in {"tunnel", "first", "external"},
                        req[q].op \in Lookup, req[q].key \in {"vm_ip", "vm_mac"},
                        r \in req[q].earlier, req[r].op = "endpoint", req[r].ans.st = "none",
                        req[r].tries = 1, req[q].ans.from \in told[r],
                        ~ \E x \in Request : MayUndo(x, r)
                 PROVE  req[q].ans.what # "external" /\ req[q].ans.who = {req[r].by}
      BY DEF FreshAnswer
    <2>1. Names(req[q].ans, r)
      BY DEF IInv, FreshInv
    <2>2. req[q].ans.r = q
      BY FlowParts DEF IInv, ProperRequest
    <2>3. Alone(r)
      BY DEF Alone
    <2> QED
      BY <2>1, <2>2, <2>3 DEF Names
  <1> QED
    BY <1>1, RequestsInvariant, PTL

\* Without troubles, and with every registration answered without error before
\* the next one is issued, the hosts know the same once everything has been
\* delivered (dps_update_replicate), however many hosts there are.
THEOREM AgreeTheorem == RequestsSpec => []ReplicasAgree
  <1>1. IInv => ReplicasAgree
    <2> SUFFICES ASSUME IInv, Quiet, ~ trouble.seen, Ordered
                 PROVE  \A m, n \in Active : srv[m].reg = srv[n].reg
      BY DEF ReplicasAgree, Ordered
    <2>1. \A h : ~ Due(h)
      BY DEF Quiet, Due, Msgs
    <2>2. \A g, h \in Active : (Due(g) <=> Due(h)) => srv[g].reg = srv[h].reg
      BY DEF IInv, AgreeInv
    <2> QED
      BY <2>1, <2>2
  <1> QED
    BY <1>1, RequestsInvariant, PTL

\* Where a machine is, is answered from active copies only, with tunnels that
\* are registered there: although the domain may be deactivated after
\* dps_protocol_send_to_server saw it active, the handler asks again.
THEOREM CurrentTheorem == RequestsSpec => AnswersAreCurrent
  <1>1. IInv /\ [RequestsNext]_vars => [CurrentAnswers]_vars
    BY NextStep
  <1>2. RequestsSpec => [][CurrentAnswers]_vars
    BY <1>1, RequestsInvariant, PTL DEF RequestsSpec
  <1> QED
    BY <1>2 DEF AnswersAreCurrent, CurrentAnswers
=============================================================================
