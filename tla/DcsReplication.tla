--------------------------- MODULE DcsReplication ---------------------------
(***************************************************************************)
(* Replication of endpoint and tunnel registrations by one DCS server.     *)
(*                                                                         *)
(* A registration that reaches the server is given one query id per DCS    *)
(* node that has to store it (replication_handler.py), is sent to the      *)
(* remote ones over UDP, applied locally if the server is one of them, and *)
(* answered when every query id has been replied to, on the first error,   *)
(* or by the replication timer (client_protocol_interface.c).              *)
(*                                                                         *)
(* One thread receives datagrams, so a registration and a reply are never  *)
(* handled at the same time; the timer runs in a thread of its own and     *)
(* interleaves with every step of the receiver.                            *)
(***************************************************************************)
EXTENDS Integers, FiniteSets

CONSTANTS Node,       \* the DCS servers of the cluster
          Local,      \* the server whose tracker is modelled
          Request,    \* registrations handled by the server, nested ones included
          Nobody,     \* stands for Python's None where a request is expected
          Views,      \* what the server may know of the domain on admission
          MaxQueryID  \* DpsCollection.MaxQueryID

\* dps_error_none, or any other code: the tracker does not tell them apart
Status == {"none", "retry"}
TxnType == {"normal", "replication", "mass_transfer"}
QueryIds == 1 .. (MaxQueryID - 1)

(* known: the cluster's Domain_Hash has the domain; cluster: its nodes that *)
(* are not down; hosted: the domain object exists here; forward: its        *)
(* mass_transfer_forward_nodes.                                             *)
View == [known : BOOLEAN, cluster : SUBSET Node,
         hosted : BOOLEAN, forward : SUBSET Node]

ASSUME NodeAssumption == IsFiniteSet(Node) /\ Local \in Node
ASSUME RequestAssumption == Nobody \notin Request
ASSUME ViewAssumption == Views \subseteq View
ASSUME QueryIDAssumption == MaxQueryID \in Nat /\ MaxQueryID > 1

VARIABLES
  QueryID,                 \* DpsCollection.QueryID, the next id to hand out
  Server_QueryID_Hash,     \* query id -> request, Nobody where there is no entry
  query_ids,               \* request -> the ids it still waits for
  timer_expiration_count,  \* request -> remaining timer budget
  reply_message,           \* request -> "new", "held", "sent" or "freed"
  txn, forwarding,         \* request -> transaction type, forwarding mode on admission
  parent,                  \* nested request -> query id its reply is for, else 0
  child,                   \* request -> the nested request it made, or Nobody
  target,                  \* request -> nodes it was addressed to
  addressee,               \* query id -> node it was last issued for
  answer, sends,           \* request -> last status sent in reply to it, number of sends
  ticks,                   \* request -> timer runs since it was admitted
  stored,                  \* <<node, request>> applied by the node's Endpoint_Update
  net,                     \* datagrams in flight
  busy, step, local_query_id, ret_code, \* the receiver thread's current request
  late_fill                \* requests whose reply was written after it left

tracker == <<QueryID, Server_QueryID_Hash, query_ids, timer_expiration_count>>
request == <<txn, forwarding, parent, child, target, addressee>>
thread == <<busy, step, local_query_id, ret_code>>
client == <<answer, sends>>
vars == <<tracker, reply_message, request, client, ticks, stored, net, thread,
          late_fill>>

Update(q, n, r) == [kind |-> "update", qid |-> q, node |-> n, req |-> r]
Reply(q, s) == [kind |-> "reply", qid |-> q, status |-> s]

Message == [kind : {"update"}, qid : QueryIds, node : Node, req : Request]
           \cup [kind : {"reply"}, qid : QueryIds, status : Status]

Tracked(r) == {q \in QueryIds : Server_QueryID_Hash[q] = r}

(* Changed form: the nested registration's status is swallowed. *)
SelfReply_DropsStatus(r, s) == IF parent[r] = 0 THEN {} ELSE {Reply(parent[r], "none")}

(* A reply to a nested registration is a datagram this server sends itself. *)
SelfReply(r, s) == IF parent[r] = 0 THEN {} ELSE {Reply(parent[r], s)}

Init ==
  /\ QueryID = 1
  /\ Server_QueryID_Hash = [q \in QueryIds |-> Nobody]
  /\ query_ids = [r \in Request |-> {}]
  /\ timer_expiration_count = [r \in Request |-> 0]
  /\ reply_message = [r \in Request |-> "new"]
  /\ txn = [r \in Request |-> "normal"]
  /\ forwarding = [r \in Request |-> {}]
  /\ parent = [r \in Request |-> 0]
  /\ child = [r \in Request |-> Nobody]
  /\ target = [r \in Request |-> {}]
  /\ addressee = [q \in QueryIds |-> Local]
  /\ answer = [r \in Request |-> "unanswered"] /\ sends = [r \in Request |-> 0]
  /\ ticks = [r \in Request |-> 0]
  /\ stored = {}
  /\ net = {}
  /\ busy = Nobody /\ step = "idle" /\ local_query_id = 0 /\ ret_code = "none"
  /\ late_fill = {}

(***************************************************************************)
(* Admission of a registration                                             *)
(***************************************************************************)

Timer_Expiration_Count == 3

(* The nodes a registration is sent to. A replicated one is turned down while *)
(* the domain is being forwarded to a node that has just received it: no node *)
(* is returned, with status RETRY.                                            *)
ReplicationDetermineDPSNodes(t, view) ==
  IF t = "normal" THEN view.cluster \cup (IF view.hosted THEN view.forward ELSE {})
  ELSE IF t = "replication" /\ (~view.hosted \/ view.forward # {}) THEN {}
  ELSE {Local}

(* Only a normal transaction looks the domain up in the cluster database. *)
UnknownDomain(t, view) == t = "normal" /\ ~view.known

(* Changed form: the id wraps to 0. *)
QueryIDAfter_WrapsToZero(k) == (QueryID + k) % MaxQueryID

(* k successive calls of generate_query_id. *)
generate_query_ids(k) == {((QueryID - 1 + i) % (MaxQueryID - 1)) + 1 : i \in 0 .. (k - 1)}
QueryIDAfter(k) == ((QueryID - 1 + k) % (MaxQueryID - 1)) + 1

(* The id space is so much larger than what is outstanding that an id comes  *)
(* round again only after every trace of its last use is gone.               *)
Fresh(q) ==
  /\ Server_QueryID_Hash[q] = Nobody
  /\ \A m \in net : m.qid # q
  /\ \A r \in Request : parent[r] # q
  /\ local_query_id # q

(* dps_update_replicate: generate the ids, register the request under each   *)
(* of them and send the update to every node but the local one. The status   *)
(* of ReplicationDetermineDPSNodes is overwritten with success once the      *)
(* request is registered, so the RETRY of forwarding mode is lost.           *)
dps_update_replicate(r, t, view, p) ==
  LET nodes == ReplicationDetermineDPSNodes(t, view)
      ids == generate_query_ids(Cardinality(nodes))
  IN  /\ \A q \in ids : Fresh(q)
      /\ \E to \in [ids -> nodes] :
           /\ \A n \in nodes : \E q \in ids : to[q] = n
           /\ addressee' = [q \in QueryIds |-> IF q \in ids THEN to[q] ELSE addressee[q]]
           /\ net' = net \cup {Update(q, to[q], r) : q \in {i \in ids : to[i] # Local}}
           /\ IF Local \in nodes
              THEN busy' = r /\ step' = "local" /\ \E q \in ids : to[q] = Local /\ local_query_id' = q
              ELSE busy' = Nobody /\ step' = "idle" /\ local_query_id' = 0
      /\ QueryID' = QueryIDAfter(Cardinality(nodes))
      /\ query_ids' = [query_ids EXCEPT ![r] = ids]
      /\ Server_QueryID_Hash' = [q \in QueryIds |->
                                   IF q \in ids THEN r ELSE Server_QueryID_Hash[q]]
      /\ timer_expiration_count' = [timer_expiration_count EXCEPT ![r] = Timer_Expiration_Count]
      /\ reply_message' = [reply_message EXCEPT ![r] = "held"]
      /\ target' = [target EXCEPT ![r] = nodes]
      /\ parent' = [parent EXCEPT ![r] = p]
      /\ txn' = [txn EXCEPT ![r] = t]
      /\ forwarding' = [forwarding EXCEPT ![r] = IF view.hosted THEN view.forward ELSE {}]

(* A malformed message, no memory, or an unknown domain, for which             *)
(* ReplicationQueryIDGenerate returns RETRY: the handler frees the reply it    *)
(* had prepared and nothing is sent.                                           *)
NotReplicated(r) ==
  /\ reply_message' = [reply_message EXCEPT ![r] = "freed"]
  /\ busy' = Nobody /\ step' = "idle" /\ local_query_id' = 0
  /\ UNCHANGED <<tracker, txn, forwarding, parent, target, addressee, net>>

Replicate(r, t, view, p) ==
  /\ reply_message[r] = "new"
  /\ \/ NotReplicated(r)
     \/ /\ ~UnknownDomain(t, view)
        /\ dps_update_replicate(r, t, view, p)
  /\ UNCHANGED <<client, ticks, stored, ret_code, late_fill>>

(* The receiver thread takes a registration off the socket. *)
dps_msg_endpoint_update(r, t, view) ==
  /\ step = "idle"
  /\ Replicate(r, t, view, 0)
  /\ UNCHANGED child

(***************************************************************************)
(* The rest of dps_msg_endpoint_update, when the local node is addressed   *)
(***************************************************************************)

(* Endpoint_Update under the global lock. Success means the update was       *)
(* applied; a RETRY may follow an update that was applied (a delta refused   *)
(* by a mass transfer), so it may or may not be.                             *)
Endpoint_Update(s) ==
  /\ step = "local"
  /\ ret_code' = s
  /\ \/ stored' = stored \cup {<<Local, busy>>}
     \/ s # "none" /\ UNCHANGED stored
  /\ step' = "fill"
  /\ UNCHANGED <<tracker, reply_message, request, client, ticks, net, busy,
                 local_query_id, late_fill>>

(* Bound: the nested registration takes one of the instance's requests. *)
SpareRequest == \E c \in Request \ {busy} : reply_message[c] = "new"

(* The handler copies the endpoint's addresses into the prepared reply, then  *)
(* goes on to reply locally, or to register a shared address in domain 0.     *)
FillReply ==
  /\ step = "fill"
  /\ late_fill' = IF reply_message[busy] = "held" THEN late_fill
                                                  ELSE late_fill \cup {busy}
  /\ \/ step' = "process"
     \/ /\ ret_code = "none" /\ txn[busy] = "normal" /\ parent[busy] = 0
        /\ SpareRequest
        /\ step' = "shared"
  /\ UNCHANGED <<tracker, reply_message, request, client, ticks, stored, net,
                 busy, local_query_id, ret_code>>

(* A shared address: the same message is registered in domain 0 under the     *)
(* local query id, and its reply stands for the local one.                    *)
SharedUpdate(c, view) ==
  /\ step = "shared"
  /\ c # busy
  /\ child' = [child EXCEPT ![busy] = c]
  /\ Replicate(c, "normal", view, local_query_id)

(* Out of memory around Endpoint_Update or the local reply: the handler       *)
(* returns and leaves the request to the timer.                               *)
LetRequestTimeout ==
  /\ step \in {"local", "process"}
  /\ busy' = Nobody /\ step' = "idle" /\ local_query_id' = 0 /\ ret_code' = "none"
  /\ UNCHANGED <<tracker, reply_message, request, client, ticks, stored, net, late_fill>>

(***************************************************************************)
(* Replies and the timer                                                   *)
(***************************************************************************)

(* dcslib.send_message_and_free and the reset of reply_message, for those of   *)
(* the requests that still hold their reply.                                  *)
send_message_and_free(requests, s) ==
  LET told == {r \in requests : reply_message[r] = "held"}
  IN  /\ answer' = [r \in Request |-> IF r \in told THEN s ELSE answer[r]]
      /\ sends' = [r \in Request |-> IF r \in told THEN sends[r] + 1 ELSE sends[r]]
      /\ reply_message' = [r \in Request |-> IF r \in told THEN "sent" ELSE reply_message[r]]
      /\ net' = net \cup UNION {SelfReply(r, s) : r \in told}

(* Changed form: the error branch sends the reply and clears nothing. *)
process_replication_reply_KeepsReply(q, s) ==
  LET r == Server_QueryID_Hash[q] IN
  /\ answer' = [answer EXCEPT ![r] = s] /\ sends' = [sends EXCEPT ![r] = @ + 1]
  /\ UNCHANGED <<query_ids, Server_QueryID_Hash, timer_expiration_count, reply_message, net>>

(* Changed form: the first success removes every id of the request. *)
process_replication_reply_ForgetsAll(q, s) ==
  LET r == Server_QueryID_Hash[q]
      left == IF s = "none" THEN query_ids[r] \ {q} ELSE {}
  IN  /\ query_ids' = [query_ids EXCEPT ![r] = left]
      /\ Server_QueryID_Hash' = [i \in QueryIds |->
                                   IF Server_QueryID_Hash[i] = r THEN Nobody ELSE Server_QueryID_Hash[i]]
      /\ timer_expiration_count' = timer_expiration_count
      /\ send_message_and_free(IF left = {} THEN {r} ELSE {}, s)

(* DPSReplicationRequest.process_replication_reply and the removal of the     *)
(* ids it returns from the tracker.                                           *)
process_replication_reply(q, s) ==
  LET r == Server_QueryID_Hash[q]
      left == IF s = "none" THEN query_ids[r] \ {q} ELSE {}
      gone == query_ids[r] \ left
  IN  /\ query_ids' = [query_ids EXCEPT ![r] = left]
      /\ Server_QueryID_Hash' = [i \in QueryIds |->
                                   IF i \in gone THEN Nobody ELSE Server_QueryID_Hash[i]]
      /\ timer_expiration_count' =
           IF s # "none" THEN timer_expiration_count
           ELSE [timer_expiration_count EXCEPT ![r] =
                   IF left = {} THEN 0 ELSE @ - Timer_Expiration_Count]
      /\ send_message_and_free(IF left = {} THEN {r} ELSE {}, s)

(* A reply to an id the tracker does not know is ignored. *)
ReplicationReplyProcess(q, s) ==
  IF Server_QueryID_Hash[q] = Nobody
  THEN UNCHANGED <<query_ids, Server_QueryID_Hash, timer_expiration_count, client,
                   reply_message, net>>
  ELSE process_replication_reply(q, s)

(* Changed form: the local reply reports success whatever Endpoint_Update said. *)
LocalReply_DropsStatus ==
  /\ step = "process"
  /\ ReplicationReplyProcess(local_query_id, "none")
  /\ busy' = Nobody /\ step' = "idle" /\ local_query_id' = 0 /\ ret_code' = "none"
  /\ UNCHANGED <<QueryID, request, ticks, stored, late_fill>>

(* The handler's last step: the local node's own reply. *)
LocalReply ==
  /\ step = "process"
  /\ ReplicationReplyProcess(local_query_id, ret_code)
  /\ busy' = Nobody /\ step' = "idle" /\ local_query_id' = 0 /\ ret_code' = "none"
  /\ UNCHANGED <<QueryID, request, ticks, stored, late_fill>>

(* A reply datagram; it may be delivered again later. *)
dps_msg_update_reply(m) ==
  /\ step = "idle"
  /\ m.kind = "reply"
  /\ ReplicationReplyProcess(m.qid, m.status)
  /\ UNCHANGED <<QueryID, request, ticks, stored, thread, late_fill>>

(* Changed form: off by one. *)
Expires_Late(r) == Tracked(r) # {} /\ timer_expiration_count[r] - Cardinality(Tracked(r)) < 0

(* DPSDomainReplicationTracker.timer calls DPSReplicationRequest.timer once   *)
(* for each id still in the table, until the request expires.                 *)
Expires(r) == Tracked(r) # {} /\ timer_expiration_count[r] - Cardinality(Tracked(r)) <= 0

ReplicationTimerProcess ==
  LET late == {r \in Request : Expires(r)}
  IN  /\ timer_expiration_count' = [r \in Request |->
           LET c == timer_expiration_count[r] IN
           IF r \notin late THEN c - Cardinality(Tracked(r))
           ELSE IF c > 0 THEN 0 ELSE c - 1]
      /\ Server_QueryID_Hash' = [q \in QueryIds |->
           IF Server_QueryID_Hash[q] \in late THEN Nobody ELSE Server_QueryID_Hash[q]]
      /\ send_message_and_free(late, "retry")
      /\ ticks' = [r \in Request |-> IF Tracked(r) # {} THEN ticks[r] + 1 ELSE ticks[r]]
      /\ UNCHANGED <<QueryID, query_ids, request, stored, thread, late_fill>>

(***************************************************************************)
(* The other DCS nodes and the network. Datagrams stay in net once sent:    *)
(* one may be delivered late, out of order, several times, or never.        *)
(***************************************************************************)

(* A replica runs the same handler with a replication transaction and, if it  *)
(* replies at all, replies with its own Endpoint_Update's status.             *)
ReplicaUpdate(m, s) ==
  /\ m.kind = "update"
  /\ \/ stored' = stored \cup {<<m.node, m.req>>}
     \/ s # "none" /\ UNCHANGED stored
  /\ net' = net \cup {Reply(m.qid, s)}
  /\ UNCHANGED <<tracker, reply_message, request, client, ticks, thread, late_fill>>

Next ==
  \/ \E r \in Request, t \in TxnType, view \in Views : dps_msg_endpoint_update(r, t, view)
  \/ \E s \in Status : Endpoint_Update(s)
  \/ FillReply
  \/ \E c \in Request, view \in Views : SharedUpdate(c, view)
  \/ LetRequestTimeout
  \/ LocalReply
  \/ \E m \in net : dps_msg_update_reply(m)
  \/ ReplicationTimerProcess
  \/ \E m \in net, s \in Status : ReplicaUpdate(m, s)

Spec == Init /\ [][Next]_vars

(* The replication timer re-arms itself after every run. *)
FairSpec == Spec /\ WF_vars(ReplicationTimerProcess)

(***************************************************************************)
(* Properties                                                              *)
(***************************************************************************)

(* Type correctness; in particular the query id counter never comes to rest  *)
(* on 0, which stands for "the local node is not addressed"                   *)
(* (generate_query_ids).                                                      *)
TypeOK ==
  /\ QueryID \in QueryIds
  /\ Server_QueryID_Hash \in [QueryIds -> Request \cup {Nobody}]
  /\ query_ids \in [Request -> SUBSET QueryIds]
  /\ timer_expiration_count \in [Request -> Int]
  /\ reply_message \in [Request -> {"new", "held", "sent", "freed"}]
  /\ txn \in [Request -> TxnType]
  /\ forwarding \in [Request -> SUBSET Node]
  /\ parent \in [Request -> QueryIds \cup {0}]
  /\ child \in [Request -> Request \cup {Nobody}]
  /\ target \in [Request -> SUBSET Node]
  /\ addressee \in [QueryIds -> Node]
  /\ answer \in [Request -> Status \cup {"unanswered"}]
  /\ sends \in [Request -> Nat]
  /\ ticks \in [Request -> Nat]
  /\ stored \subseteq Node \X Request
  /\ net \subseteq Message
  /\ busy \in Request \cup {Nobody}
  /\ step \in {"idle", "local", "fill", "shared", "process"}
  /\ local_query_id \in QueryIds \cup {0}
  /\ ret_code \in Status
  /\ late_fill \subseteq Request

(* A client told SUCCESS can rely on it: every node the registration was     *)
(* addressed to, of which there is at least one, has applied it, whatever    *)
(* replies were lost, repeated or came after the timer                       *)
(* (process_replication_reply in replication_handler.py).                    *)
SuccessIsStored ==
  \A r \in Request : answer[r] = "none" =>
    target[r] # {} /\ \A n \in target[r] : <<n, r>> \in stored

(* A registration of a shared address is confirmed only after its copy in    *)
(* domain 0 was: the nested registration's reply stands for the local one    *)
(* (dps_msg_endpoint_update).                                                *)
SharedSuccess ==
  \A r \in Request : answer[r] = "none" /\ child[r] # Nobody =>
    answer[child[r]] = "none"

(* The reply is sent at most once: it is freed with the first send, and the   *)
(* local reply, remote replies, errors and the timer all try to send it.      *)
AtMostOneReply == \A r \in Request : sends[r] <= 1

(* The timer can reach every reply that is still held for nodes to answer:   *)
(* it only visits requests through the ids in Server_QueryID_Hash.           *)
HeldIsTracked ==
  \A r \in Request : reply_message[r] = "held" /\ target[r] # {} => Tracked(r) # {}

(* No registration addressed to some node is held over three runs of the     *)
(* timer (Timer_Expiration_Count).                                           *)
AnsweredWithinThreeTicks ==
  \A r \in Request : reply_message[r] = "held" /\ target[r] # {} =>
    ticks[r] < Timer_Expiration_Count

(* Every registration addressed to some node is answered in the end, even     *)
(* when no replica ever replies (ReplicationTimerProcess).                    *)
EventuallyAnswered ==
  \A r \in Request :
    reply_message[r] = "held" /\ target[r] # {} ~> reply_message[r] = "sent"

(***************************************************************************)
(* What comments in the code say and the code does not do                  *)
(***************************************************************************)

(* "If the are nodes in domain.mass_transfer_forward_nodes[] then reply with  *)
(* RETRY" (ReplicationDetermineDPSNodesPYTHON).                               *)
ForwardingModeRepliesRetry ==
  \A r \in Request :
    txn[r] = "replication" /\ forwarding[r] # {} /\ reply_message[r] # "new" /\ busy # r
      => answer[r] = "retry"

(* "This message can no longer be used by the C code" once it is handed to    *)
(* the tracker: the handler never writes to a reply already sent and freed.   *)
ReplyNotUsedAfterSend == late_fill = {}
=============================================================================
