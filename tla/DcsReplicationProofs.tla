------------------------ MODULE DcsReplicationProofs ------------------------
(***************************************************************************)
(* Proofs about DcsReplication, for any cluster, any set of requests and   *)
(* any views of the domain: the inductive invariant, the steps that        *)
(* preserve it (the receiver thread and the replicas, the replies and the  *)
(* timer, admission), and the properties it implies.                       *)
(***************************************************************************)
EXTENDS DcsReplication, TLAPS

\* A leaf that names no prover is tried with Zenon, then with SMT.
USE ZenonT(20), SMTT(20)

(***************************************************************************)
(* The inductive invariant                                                 *)
(***************************************************************************)

\* The table and the requests agree on the ids that are waited for.
LiveIds ==
  \A q \in QueryIds : Server_QueryID_Hash[q] # Nobody =>
    /\ reply_message[Server_QueryID_Hash[q]] = "held"
    /\ q \in query_ids[Server_QueryID_Hash[q]]
    /\ addressee[q] \in target[Server_QueryID_Hash[q]]

HeldIds ==
  \A r \in Request : reply_message[r] = "held" =>
    \A q \in query_ids[r] : Server_QueryID_Hash[q] = r

\* Nothing is known of a request before it is admitted.
NewIsBlank ==
  \A r \in Request : reply_message[r] = "new" =>
    ticks[r] = 0 /\ parent[r] = 0 /\ child[r] = Nobody /\ busy # r

\* The reply is sent exactly when the request is marked so.
Unanswered ==
  \A r \in Request :
    /\ reply_message[r] # "sent" => answer[r] = "unanswered" /\ sends[r] = 0
    /\ reply_message[r] = "sent" => answer[r] \in Status /\ sends[r] = 1

\* A node that has not stored the update has an id that is waited for.
Waiting ==
  \A r \in Request : reply_message[r] = "held" =>
    \A n \in target[r] : \/ <<n, r>> \in stored
                         \/ \E q \in QueryIds : Server_QueryID_Hash[q] = r /\ addressee[q] = n

\* What a datagram says about the id it carries, while that id is waited for.
UpdatesInFlight ==
  \A m \in net : m.kind = "update" =>
    \/ Server_QueryID_Hash[m.qid] = Nobody
    \/ /\ Server_QueryID_Hash[m.qid] = m.req
       /\ addressee[m.qid] = m.node
       /\ m.node # Local

RepliesInFlight ==
  \A m \in net : m.kind = "reply" /\ m.status = "none" =>
    LET r == Server_QueryID_Hash[m.qid] IN
    r # Nobody =>
      /\ <<addressee[m.qid], r>> \in stored
      /\ addressee[m.qid] = Local => child[r] \in Request /\ answer[child[r]] = "none"

\* The request the receiver thread works on.
ThreadInv ==
  step # "idle" =>
    /\ busy \in Request
    /\ local_query_id \in QueryIds
    /\ Server_QueryID_Hash[local_query_id] \in {busy, Nobody}
    /\ addressee[local_query_id] = Local
    /\ reply_message[busy] = "held" => Server_QueryID_Hash[local_query_id] = busy
    /\ child[busy] = Nobody /\ answer[busy] # "none"
    /\ step # "local" /\ ret_code = "none" => <<Local, busy>> \in stored
    /\ step = "shared" => ret_code = "none"

\* A nested registration and the local id it stands for.
ParentInv ==
  \A c \in Request : parent[c] # 0 =>
    LET r == Server_QueryID_Hash[parent[c]] IN
    r # Nobody => /\ addressee[parent[c]] = Local
                  /\ <<Local, r>> \in stored
                  /\ child[r] = c

ChildInv ==
  \A r \in Request : child[r] # Nobody =>
    /\ reply_message[child[r]] # "new"
    /\ \/ reply_message[r] # "held"
       \/ answer[child[r]] = "none"
       \/ \E q \in QueryIds : Server_QueryID_Hash[q] = r /\ addressee[q] = Local

\* The timer budget bounds the timer runs a request can see.
TimerBudget ==
  \A r \in Request : reply_message[r] = "held" =>
    /\ timer_expiration_count[r] + ticks[r] <= Timer_Expiration_Count
    /\ ticks[r] < Timer_Expiration_Count

IInv ==
  /\ TypeOK
  /\ LiveIds /\ HeldIds /\ NewIsBlank /\ Unanswered /\ HeldIsTracked
  /\ Waiting /\ UpdatesInFlight /\ RepliesInFlight
  /\ ThreadInv /\ ParentInv /\ ChildInv
  /\ SuccessIsStored /\ SharedSuccess /\ TimerBudget

(***************************************************************************)
(* Lemmas about the operators                                              *)
(***************************************************************************)

\* Ids handed out by generate_query_id stay in the id space when it wraps.
LEMMA ModRange ==
  ASSUME NEW a \in Int, NEW b \in Nat, b > 0
  PROVE  (a % b) + 1 \in 1 .. b
  BY SMT

LEMMA GeneratedIds ==
  ASSUME QueryID \in QueryIds, NEW k \in Nat
  PROVE  generate_query_ids(k) \subseteq QueryIds /\ QueryIDAfter(k) \in QueryIds
<1>1. MaxQueryID - 1 \in Nat /\ MaxQueryID - 1 > 0 /\ QueryID \in Int
  BY QueryIDAssumption, SMT DEF QueryIds
<1>2. \A i \in Int : ((QueryID - 1 + i) % (MaxQueryID - 1)) + 1 \in 1 .. (MaxQueryID - 1)
  BY <1>1, ModRange, SMT
<1> QED BY <1>1, <1>2, SMT DEF generate_query_ids, QueryIDAfter, QueryIds

(***************************************************************************)
(* The invariant holds initially and is preserved                          *)
(***************************************************************************)

LEMMA InitIInv == Init => IInv
<1> SUFFICES ASSUME Init PROVE IInv
  OBVIOUS
<1>1. TypeOK
  BY QueryIDAssumption, NodeAssumption, RequestAssumption, SMT DEF TypeOK, QueryIds, TxnType,
     Status, Message, Init
<1>2. LiveIds /\ HeldIds /\ NewIsBlank /\ Unanswered /\ HeldIsTracked /\ TimerBudget
  BY NodeAssumption, RequestAssumption DEF LiveIds, HeldIds, NewIsBlank, Unanswered,
     HeldIsTracked, TimerBudget, Init
<1>3. Waiting /\ UpdatesInFlight /\ RepliesInFlight /\ ThreadInv /\ ParentInv /\ ChildInv
  BY DEF Waiting, UpdatesInFlight, RepliesInFlight, ThreadInv, ParentInv, ChildInv, Init
<1>4. SuccessIsStored /\ SharedSuccess
  BY DEF SuccessIsStored, SharedSuccess, Init
<1> QED BY <1>1, <1>2, <1>3, <1>4 DEF IInv, Init

\* Endpoint_Update applies the update locally and changes nothing the tracker sees.
LEMMA LocalUpdateStep ==
  ASSUME IInv, NEW s \in Status, Endpoint_Update(s)
  PROVE  IInv'
<1>inv. /\ TypeOK /\ LiveIds /\ HeldIds /\ NewIsBlank /\ Unanswered /\ HeldIsTracked /\ Waiting
        /\ UpdatesInFlight /\ RepliesInFlight /\ ThreadInv /\ ParentInv /\ ChildInv
        /\ SuccessIsStored /\ SharedSuccess /\ TimerBudget
  BY Zenon DEF IInv
<1>1. TypeOK'
  BY <1>inv, SMT DEF TypeOK, ThreadInv, Endpoint_Update, tracker, request, client
<1>2. (LiveIds /\ HeldIds /\ NewIsBlank /\ Unanswered /\ HeldIsTracked /\ TimerBudget)'
  BY <1>inv, SMT DEF LiveIds, HeldIds, NewIsBlank, Unanswered, HeldIsTracked, TimerBudget,
     Tracked, Endpoint_Update, tracker, request, client
<1>3. (Waiting /\ UpdatesInFlight /\ RepliesInFlight /\ ParentInv /\ ChildInv)'
  BY <1>inv, SMT DEF Waiting, UpdatesInFlight, RepliesInFlight, ParentInv, ChildInv,
     Endpoint_Update, tracker, request, client
<1>4. ThreadInv'
  BY <1>inv DEF ThreadInv, Endpoint_Update, tracker, request, client
<1>5. (SuccessIsStored /\ SharedSuccess)'
  BY <1>inv DEF SuccessIsStored, SharedSuccess, Endpoint_Update, tracker, request, client
<1> QED BY <1>1, <1>2, <1>3, <1>4, <1>5 DEF IInv, Endpoint_Update

LEMMA FillReplyStep ==
  ASSUME IInv, FillReply
  PROVE  IInv'
<1>inv. /\ TypeOK /\ LiveIds /\ HeldIds /\ NewIsBlank /\ Unanswered /\ HeldIsTracked /\ Waiting
        /\ UpdatesInFlight /\ RepliesInFlight /\ ThreadInv /\ ParentInv /\ ChildInv
        /\ SuccessIsStored /\ SharedSuccess /\ TimerBudget
  BY Zenon DEF IInv
<1>1. TypeOK'
  BY <1>inv DEF TypeOK, ThreadInv, FillReply, tracker, request, client
<1>2. (LiveIds /\ HeldIds /\ NewIsBlank /\ Unanswered /\ HeldIsTracked /\ TimerBudget)'
  BY <1>inv, SMT DEF LiveIds, HeldIds, NewIsBlank, Unanswered, HeldIsTracked, TimerBudget,
     Tracked, FillReply, tracker, request, client
<1>3. (Waiting /\ UpdatesInFlight /\ RepliesInFlight /\ ParentInv /\ ChildInv)'
  BY <1>inv, SMT DEF Waiting, UpdatesInFlight, RepliesInFlight, ParentInv, ChildInv, FillReply,
     tracker, request, client
<1>4. ThreadInv'
  BY <1>inv DEF ThreadInv, FillReply, tracker, request, client
<1>5. (SuccessIsStored /\ SharedSuccess)'
  BY <1>inv DEF SuccessIsStored, SharedSuccess, FillReply, tracker, request, client
<1> QED BY <1>1, <1>2, <1>3, <1>4, <1>5 DEF IInv, FillReply

LEMMA LetRequestTimeoutStep ==
  ASSUME IInv, LetRequestTimeout
  PROVE  IInv'
<1>inv. /\ TypeOK /\ LiveIds /\ HeldIds /\ NewIsBlank /\ Unanswered /\ HeldIsTracked /\ Waiting
        /\ UpdatesInFlight /\ RepliesInFlight /\ ThreadInv /\ ParentInv /\ ChildInv
        /\ SuccessIsStored /\ SharedSuccess /\ TimerBudget
  BY Zenon DEF IInv
<1>1. TypeOK'
  BY <1>inv DEF TypeOK, Status, LetRequestTimeout, tracker, request, client
<1>2. (LiveIds /\ HeldIds /\ NewIsBlank /\ Unanswered /\ HeldIsTracked /\ TimerBudget)'
  BY <1>inv, RequestAssumption, NodeAssumption, SMT DEF LiveIds, HeldIds, NewIsBlank, Unanswered,
     HeldIsTracked, TimerBudget, Tracked, LetRequestTimeout, tracker, request, client
<1>3. (Waiting /\ UpdatesInFlight /\ RepliesInFlight /\ ParentInv /\ ChildInv)'
  BY <1>inv, SMT DEF Waiting, UpdatesInFlight, RepliesInFlight, ParentInv, ChildInv,
     LetRequestTimeout, tracker, request, client
<1>4. ThreadInv'
  BY <1>inv DEF ThreadInv, LetRequestTimeout
<1>5. (SuccessIsStored /\ SharedSuccess)'
  BY <1>inv DEF SuccessIsStored, SharedSuccess, LetRequestTimeout, tracker, request, client
<1> QED BY <1>1, <1>2, <1>3, <1>4, <1>5 DEF IInv, LetRequestTimeout

\* A replica's success reply follows its own store, and is never for the local id.
LEMMA ReplicaUpdateStep ==
  ASSUME IInv, NEW m \in net, NEW s \in Status, ReplicaUpdate(m, s)
  PROVE  IInv'
<1>inv. /\ TypeOK /\ LiveIds /\ HeldIds /\ NewIsBlank /\ Unanswered /\ HeldIsTracked /\ Waiting
        /\ UpdatesInFlight /\ RepliesInFlight /\ ThreadInv /\ ParentInv /\ ChildInv
        /\ SuccessIsStored /\ SharedSuccess /\ TimerBudget
  BY Zenon DEF IInv
<1>0. m \in Message /\ m.kind = "update"
  BY <1>inv DEF TypeOK, ReplicaUpdate
<1>0a. m.qid \in QueryIds /\ m.node \in Node /\ m.req \in Request
  BY <1>0 DEF Message, ReplicaUpdate
<1>1. TypeOK'
  BY <1>inv, <1>0a, SMT DEF TypeOK, Message, Reply, ReplicaUpdate, tracker, request, thread,
     client
<1>2. (LiveIds /\ HeldIds /\ NewIsBlank /\ Unanswered /\ HeldIsTracked /\ TimerBudget)'
  BY <1>inv, SMT DEF LiveIds, HeldIds, NewIsBlank, Unanswered, HeldIsTracked, TimerBudget,
     Tracked, ReplicaUpdate, tracker, request, thread, client
<1>3. (Waiting /\ ParentInv /\ ChildInv /\ ThreadInv)'
  BY <1>inv, SMT DEF Waiting, ParentInv, ChildInv, ThreadInv, ReplicaUpdate, tracker, request,
     thread, client
<1>4. UpdatesInFlight'
  BY <1>inv, SMT DEF UpdatesInFlight, Reply, ReplicaUpdate, tracker, request, thread, client
<1>5. RepliesInFlight'
  BY <1>inv, <1>0, <1>0a, SMT DEF RepliesInFlight, UpdatesInFlight, Reply, ReplicaUpdate,
     tracker, request, thread, client
<1>6. (SuccessIsStored /\ SharedSuccess)'
  BY <1>inv DEF SuccessIsStored, SharedSuccess, ReplicaUpdate, tracker, request, thread, client
<1> QED BY <1>1, <1>2, <1>3, <1>4, <1>5, <1>6 DEF IInv, ReplicaUpdate

----------------------------------------------------------------------------
(* Replies and the timer                                                   *)

\* The condition under which a success may be credited to an id: its node has
\* stored the update and, for a shared address, so did the nodes of domain 0.
Earned(q) ==
  LET r == Server_QueryID_Hash[q] IN
  r # Nobody =>
    /\ <<addressee[q], r>> \in stored
    /\ addressee[q] = Local => child[r] = Nobody \/ answer[child[r]] = "none"

(* What sending the replies of a set of requests does, when all are held. *)
LEMMA SendStep ==
  ASSUME NEW R \in SUBSET Request, NEW s \in Status, send_message_and_free(R, s),
         \A r \in R : reply_message[r] = "held"
  PROVE  /\ answer' = [r \in Request |-> IF r \in R THEN s ELSE answer[r]]
         /\ sends' = [r \in Request |-> IF r \in R THEN sends[r] + 1 ELSE sends[r]]
         /\ reply_message' = [r \in Request |-> IF r \in R THEN "sent" ELSE reply_message[r]]
         /\ net' = net \cup UNION {SelfReply(r, s) : r \in R}
<1>1. {r \in R : reply_message[r] = "held"} = R
  OBVIOUS
<1> QED BY <1>1 DEF send_message_and_free

LEMMA ReplyStep ==
  ASSUME IInv, NEW q \in QueryIds, NEW s \in Status, ReplicationReplyProcess(q, s),
         s = "none" => Earned(q),
         UNCHANGED <<QueryID, request, ticks, stored, late_fill>>,
         step' = "idle", busy' \in {busy, Nobody},
         local_query_id' \in QueryIds \cup {0}, ret_code' \in Status
  PROVE  IInv'
<1>inv. /\ TypeOK /\ LiveIds /\ HeldIds /\ NewIsBlank /\ Unanswered /\ HeldIsTracked /\ Waiting
        /\ UpdatesInFlight /\ RepliesInFlight /\ ThreadInv /\ ParentInv /\ ChildInv
        /\ SuccessIsStored /\ SharedSuccess /\ TimerBudget
  BY Zenon DEF IInv
<1>1. CASE Server_QueryID_Hash[q] = Nobody
  <2>1. TypeOK'
    BY <1>inv, <1>1 DEF TypeOK, request, client, ReplicationReplyProcess
  <2>2. (LiveIds /\ HeldIds /\ NewIsBlank /\ Unanswered /\ HeldIsTracked /\ TimerBudget)'
    BY <1>inv, RequestAssumption, NodeAssumption, <1>1, SMT DEF LiveIds, HeldIds, NewIsBlank,
       Unanswered, HeldIsTracked, TimerBudget, Tracked, request, client, ReplicationReplyProcess
  <2>3. (Waiting /\ UpdatesInFlight /\ RepliesInFlight /\ ParentInv /\ ChildInv /\ ThreadInv)'
    BY <1>inv, <1>1, SMT DEF Waiting, UpdatesInFlight, RepliesInFlight, ParentInv, ChildInv,
       ThreadInv, request, client, ReplicationReplyProcess
  <2>4. (SuccessIsStored /\ SharedSuccess)'
    BY <1>inv, <1>1 DEF SuccessIsStored, SharedSuccess, request, client, ReplicationReplyProcess
  <2> QED BY <2>1, <2>2, <2>3, <2>4, <1>1 DEF IInv, ReplicationReplyProcess
<1>2. CASE Server_QueryID_Hash[q] # Nobody
  <2> DEFINE r == Server_QueryID_Hash[q]
             left == IF s = "none" THEN query_ids[r] \ {q} ELSE {}
             gone == query_ids[r] \ left
  <2>1. /\ r \in Request /\ reply_message[r] = "held" /\ q \in query_ids[r]
        /\ query_ids[r] \subseteq QueryIds /\ left \subseteq query_ids[r] /\ q \notin left
        /\ answer[r] = "unanswered" /\ sends[r] = 0
    BY <1>inv, <1>2, SMT DEF TypeOK, LiveIds, Unanswered
  <2>2. process_replication_reply(q, s)
    BY <1>2 DEF ReplicationReplyProcess
  <2>3. /\ query_ids' = [query_ids EXCEPT ![r] = left]
        /\ Server_QueryID_Hash' = [i \in QueryIds |->
                                    IF i \in gone THEN Nobody ELSE Server_QueryID_Hash[i]]
        /\ timer_expiration_count' =
             IF s # "none" THEN timer_expiration_count
             ELSE [timer_expiration_count EXCEPT ![r] =
                     IF left = {} THEN 0 ELSE @ - Timer_Expiration_Count]
    BY <2>2 DEF process_replication_reply
  <2>4. \/ /\ left = {}
           /\ answer' = [answer EXCEPT ![r] = s]
           /\ sends' = [sends EXCEPT ![r] = 1]
           /\ reply_message' = [reply_message EXCEPT ![r] = "sent"]
           /\ net' = net \cup SelfReply(r, s)
        \/ left # {} /\ UNCHANGED <<answer, sends, reply_message, net>>
    <3>1. CASE left = {}
      <4>1. send_message_and_free({r}, s) /\ {r} \in SUBSET Request
        BY <2>1, <2>2, <3>1 DEF process_replication_reply
      <4>2. \A x \in {r} : reply_message[x] = "held"
        BY <2>1
      <4> HIDE DEF r, left
      <4>3. /\ answer' = [x \in Request |-> IF x \in {r} THEN s ELSE answer[x]]
            /\ sends' = [x \in Request |-> IF x \in {r} THEN sends[x] + 1 ELSE sends[x]]
            /\ reply_message' = [x \in Request |-> IF x \in {r} THEN "sent" ELSE reply_message[x]]
            /\ net' = net \cup UNION {SelfReply(x, s) : x \in {r}}
        BY <4>1, <4>2, SendStep, Zenon
      <4>4. UNION {SelfReply(x, s) : x \in {r}} = SelfReply(r, s)
        OBVIOUS
      <4>5. /\ answer' = [answer EXCEPT ![r] = s]
            /\ reply_message' = [reply_message EXCEPT ![r] = "sent"]
        BY <1>inv, <4>3, Zenon DEF TypeOK
      <4>6. sends' = [sends EXCEPT ![r] = 1]
        <5>1. \A x \in Request : sends'[x] = IF x = r THEN 1 ELSE sends[x]
          BY <1>inv, <2>1, <4>3, SMT DEF TypeOK
        <5> QED BY <1>inv, <2>1, <4>3, <5>1 DEF TypeOK
      <4> QED BY <3>1, <4>3, <4>4, <4>5, <4>6
    <3>2. CASE left # {}
      <4>1. send_message_and_free({}, s) /\ {} \in SUBSET Request
        BY <2>2, <3>2 DEF process_replication_reply
      <4> HIDE DEF r, left
      <4>2. /\ answer' = [x \in Request |-> IF x \in {} THEN s ELSE answer[x]]
            /\ sends' = [x \in Request |-> IF x \in {} THEN sends[x] + 1 ELSE sends[x]]
            /\ reply_message' = [x \in Request |-> IF x \in {} THEN "sent" ELSE reply_message[x]]
            /\ net' = net \cup UNION {SelfReply(x, s) : x \in {}}
        BY <4>1, SendStep, Zenon
      <4>3. UNION {SelfReply(x, s) : x \in {}} = {}
        OBVIOUS
      <4> QED BY <1>inv, <3>2, <4>2, <4>3 DEF TypeOK
    <3> QED BY <3>1, <3>2
  <2>5. \A i \in QueryIds : Server_QueryID_Hash'[i] \in {Server_QueryID_Hash[i], Nobody}
    BY <2>3
  <2>6. \A i \in QueryIds : i # q /\ s = "none" => Server_QueryID_Hash'[i] = Server_QueryID_Hash[i]
    BY <2>1, <2>3
  <2>7. left = {} => \A i \in QueryIds : Server_QueryID_Hash[i] = r => Server_QueryID_Hash'[i] = Nobody
    BY <1>inv, <2>1, <2>3 DEF LiveIds
  <2>8. \A i \in QueryIds : Server_QueryID_Hash[i] # r => Server_QueryID_Hash'[i] = Server_QueryID_Hash[i]
    BY <1>inv, <2>1, <2>3 DEF HeldIds
  <2>9. left # {} => s = "none"
    OBVIOUS
  <2> HIDE DEF r, left, gone
  <2>10. TypeOK'
    <3>1. net' \subseteq Message
      BY <1>inv, <2>1, <2>4, SMT DEF TypeOK, SelfReply, Reply, Message
    <3>2. answer' \in [Request -> Status \cup {"unanswered"}] /\ sends' \in [Request -> Nat]
      BY <1>inv, <2>1, <2>4, SMT DEF TypeOK
    <3>3. /\ query_ids' \in [Request -> SUBSET QueryIds]
          /\ Server_QueryID_Hash' \in [QueryIds -> Request \cup {Nobody}]
          /\ timer_expiration_count' \in [Request -> Int]
      BY <1>inv, <2>1, <2>3, SMT DEF TypeOK, Timer_Expiration_Count
    <3> QED BY <1>inv, <2>4, <3>1, <3>2, <3>3 DEF TypeOK, request, client
  <2>11. LiveIds'
    BY <1>inv, <2>1, <2>3, <2>4, <2>5, <2>7, SMT DEF LiveIds, TypeOK, gone, request, client
  <2>12. HeldIds'
    BY <1>inv, <2>1, <2>3, <2>4, <2>8 DEF HeldIds, TypeOK, gone
  <2>13. (NewIsBlank /\ Unanswered)'
    BY <1>inv, <2>1, <2>4, RequestAssumption, NodeAssumption, SMT DEF NewIsBlank, Unanswered,
       TypeOK, request, client
  <2>14. HeldIsTracked'
    <3> SUFFICES ASSUME NEW x \in Request, reply_message'[x] = "held", target[x] # {}
                 PROVE  \E i \in QueryIds : Server_QueryID_Hash'[i] = x
      BY <1>inv DEF HeldIsTracked, Tracked, request, client
    <3>1. CASE x = r
      <4>1. left # {}
        BY <1>inv, <2>1, <2>4, <3>1 DEF TypeOK
      <4>2. PICK i \in left : TRUE
        BY <4>1
      <4>3. Server_QueryID_Hash[i] = r /\ i \in QueryIds /\ i # q
        BY <1>inv, <2>1, <4>2 DEF HeldIds
      <4> QED BY <4>1, <4>3, <2>6, <2>9, <3>1
    <3>2. CASE x # r
      <4>1. PICK i \in QueryIds : Server_QueryID_Hash[i] = x
        BY <1>inv, <2>1, <2>4, <3>2 DEF HeldIsTracked, Tracked, TypeOK
      <4> QED BY <4>1, <2>8, <3>2
    <3> QED BY <3>1, <3>2
  <2>15. Waiting'
    <3> SUFFICES ASSUME NEW x \in Request, reply_message'[x] = "held", NEW n \in target[x],
                        <<n, x>> \notin stored
                 PROVE  \E i \in QueryIds : Server_QueryID_Hash'[i] = x /\ addressee[i] = n
      BY <1>inv, SMT DEF Waiting, request, client
    <3>1. reply_message[x] = "held" /\ (x = r => left # {})
      BY <1>inv, <2>1, <2>4 DEF TypeOK
    <3>2. PICK i \in QueryIds : Server_QueryID_Hash[i] = x /\ addressee[i] = n
      BY <1>inv, <3>1 DEF Waiting
    <3>3. CASE x = r
      <4>1. i # q
        BY <2>9, <3>1, <3>2, <3>3, <1>2 DEF Earned, r
      <4> QED BY <4>1, <2>6, <2>9, <3>1, <3>2, <3>3
    <3> QED BY <3>2, <3>3, <2>8
  <2>16. UpdatesInFlight'
    BY <1>inv, <2>4, <2>5, SMT DEF UpdatesInFlight, SelfReply, Reply, TypeOK, Message, request,
       client
  <2>17. RepliesInFlight'
    <3> SUFFICES ASSUME NEW m \in net', m.kind = "reply", m.status = "none",
                        Server_QueryID_Hash'[m.qid] # Nobody
                 PROVE  LET x == Server_QueryID_Hash[m.qid] IN
                        /\ Server_QueryID_Hash'[m.qid] = x
                        /\ <<addressee[m.qid], x>> \in stored
                        /\ addressee[m.qid] = Local =>
                             child[x] \in Request /\ answer'[child[x]] = "none"
      BY <1>inv, Zenon DEF RepliesInFlight, request, client
    <3>1. m.qid \in QueryIds
      BY <1>inv, <2>10 DEF TypeOK, Message
    <3>2. Server_QueryID_Hash'[m.qid] = Server_QueryID_Hash[m.qid]
      BY <3>1, <2>5
    <3>3. CASE m \in net
      BY <1>inv, <3>2, <3>3, <2>1, <2>4 DEF RepliesInFlight, TypeOK
    <3>4. CASE m \notin net
      <4>1. parent[r] # 0 /\ m = Reply(parent[r], s) /\ answer' = [answer EXCEPT ![r] = s]
        BY <3>4, <2>4 DEF SelfReply
      <4>2. s = "none" /\ m.qid = parent[r]
        BY <4>1 DEF Reply
      <4>3. /\ addressee[m.qid] = Local
            /\ <<Local, Server_QueryID_Hash[m.qid]>> \in stored
            /\ child[Server_QueryID_Hash[m.qid]] = r
        BY <1>inv, <4>1, <4>2, <3>2, <2>1 DEF ParentInv
      <4>4. answer'[r] = "none"
        BY <1>inv, <4>1, <4>2, <2>1 DEF TypeOK
      <4> QED BY <4>3, <4>4, <3>2, <2>1
    <3> QED BY <3>3, <3>4
  <2>18. ThreadInv'
    BY <1>inv DEF ThreadInv
  <2>19. ParentInv'
    BY <1>inv, <2>5, SMT DEF ParentInv, TypeOK, request, client
  <2>20. ChildInv'
    <3> SUFFICES ASSUME NEW x \in Request, child[x] # Nobody
                 PROVE  /\ reply_message'[child[x]] # "new"
                        /\ \/ reply_message'[x] # "held"
                           \/ answer'[child[x]] = "none"
                           \/ \E i \in QueryIds : Server_QueryID_Hash'[i] = x /\ addressee[i] = Local
      BY <1>inv DEF ChildInv, request, client
    <3>1. child[x] \in Request
      BY <1>inv DEF TypeOK
    <3>2. reply_message'[child[x]] # "new"
      BY <1>inv, <2>1, <2>4, <3>1 DEF ChildInv, TypeOK
    <3>3. CASE reply_message'[x] = "held" /\ answer[child[x]] = "none"
      BY <1>inv, <2>1, <2>4, <3>1, <3>2, <3>3 DEF TypeOK
    <3>4. CASE reply_message'[x] = "held" /\ answer[child[x]] # "none"
      <4>1. reply_message[x] = "held" /\ (x = r => left # {})
        BY <1>inv, <2>1, <2>4, <3>4 DEF TypeOK
      <4>2. PICK i \in QueryIds : Server_QueryID_Hash[i] = x /\ addressee[i] = Local
        BY <1>inv, <3>4, <4>1 DEF ChildInv
      <4>3. CASE x = r
        <5>1. i # q
          BY <2>9, <3>4, <4>1, <4>2, <4>3, <1>2 DEF Earned, r
        <5> QED BY <5>1, <2>6, <2>9, <3>2, <4>1, <4>2, <4>3
      <4> QED BY <3>2, <4>2, <4>3, <2>8
    <3> QED BY <3>2, <3>3, <3>4
  <2>21. SuccessIsStored'
    <3>1. ASSUME left = {}, s = "none"
          PROVE  target[r] # {} /\ \A n \in target[r] : <<n, r>> \in stored
      <4>1. \A i \in QueryIds : Server_QueryID_Hash[i] = r => i = q
        BY <3>1, <2>6, <2>7, <1>2 DEF r
      <4>2. <<addressee[q], r>> \in stored
        BY <3>1, <1>2 DEF Earned, r
      <4>3. \A n \in target[r] : <<n, r>> \in stored
        BY <1>inv, <4>1, <4>2, <2>1, SMT DEF Waiting
      <4>4. target[r] # {}
        BY <1>inv, <1>2 DEF LiveIds, r
      <4> QED BY <4>3, <4>4
    <3> QED BY <1>inv, <3>1, <2>1, <2>4 DEF SuccessIsStored, TypeOK, request, client
  <2>22. SharedSuccess'
    <3> SUFFICES ASSUME NEW x \in Request, answer'[x] = "none", child[x] # Nobody
                 PROVE  answer'[child[x]] = "none"
      BY <1>inv DEF SharedSuccess, request, client
    <3>1. child[x] \in Request
      BY <1>inv DEF TypeOK
    <3>2. CASE x = r
      <4>1. left = {} /\ s = "none"
        BY <1>inv, <3>2, <2>1, <2>4 DEF TypeOK
      <4>2. \A i \in QueryIds : Server_QueryID_Hash[i] = r => i = q
        BY <4>1, <2>6, <2>7, <1>2 DEF r
      <4>3. answer[child[r]] = "none"
        BY <1>inv, <4>1, <4>2, <3>2, <2>1, <1>2 DEF ChildInv, Earned, r
      <4> QED BY <1>inv, <4>3, <3>1, <3>2, <2>1, <2>4 DEF TypeOK
    <3>3. CASE x # r
      <4>1. answer[child[x]] = "none"
        BY <1>inv, <3>3, <2>1, <2>4 DEF SharedSuccess, TypeOK
      <4> QED BY <1>inv, <4>1, <3>1, <2>1, <2>4 DEF TypeOK
    <3> QED BY <3>2, <3>3
  <2>23. TimerBudget'
    BY <1>inv, <2>1, <2>3, <2>4, SMT DEF TimerBudget, TypeOK, Timer_Expiration_Count
  <2> QED BY <2>10, <2>11, <2>12, <2>13, <2>14, <2>15, <2>16, <2>17, <2>18, <2>19, <2>20, <2>21,
             <2>22, <2>23 DEF IInv
<1> QED BY <1>1, <1>2

LEMMA LocalReplyStep ==
  ASSUME IInv, LocalReply
  PROVE  IInv'
<1>inv. TypeOK /\ ThreadInv
  BY Zenon DEF IInv
<1>1. /\ local_query_id \in QueryIds /\ busy \in Request /\ child[busy] = Nobody
      /\ addressee[local_query_id] = Local
      /\ Server_QueryID_Hash[local_query_id] \in {busy, Nobody}
      /\ ret_code = "none" => <<Local, busy>> \in stored
  BY <1>inv DEF ThreadInv, LocalReply
<1>2. ret_code = "none" => Earned(local_query_id)
  BY <1>1 DEF Earned
<1>3. ret_code \in Status /\ ret_code' \in Status
  BY <1>inv DEF TypeOK, LocalReply, Status
<1> QED BY <1>1, <1>2, <1>3, ReplyStep DEF LocalReply

LEMMA UpdateReplyStep ==
  ASSUME IInv, NEW m \in net, dps_msg_update_reply(m)
  PROVE  IInv'
<1>inv. TypeOK /\ RepliesInFlight
  BY Zenon DEF IInv
<1>1. m \in Message /\ m.kind = "reply"
  BY <1>inv DEF TypeOK, dps_msg_update_reply
<1>2. m.qid \in QueryIds /\ m.status \in Status
  BY <1>1 DEF Message
<1>3. m.status = "none" => Earned(m.qid)
  BY <1>inv, <1>1 DEF RepliesInFlight, Earned
<1>4. local_query_id' \in QueryIds \cup {0} /\ ret_code' \in Status /\ step' = "idle" /\ busy' = busy
  BY <1>inv DEF TypeOK, dps_msg_update_reply, thread
<1> QED BY <1>2, <1>3, <1>4, ReplyStep DEF dps_msg_update_reply

----------------------------------------------------------------------------
(* Admission                                                               *)

\* A request that is admitted, off the socket or nested for domain 0, with p the
\* id of the registration it is nested in: nothing is known of it, and only the
\* registration in whose place it runs gets a child.
Fresher(r, p) ==
  /\ reply_message[r] = "new" /\ ticks[r] = 0 /\ parent[r] = 0 /\ child[r] = Nobody
  /\ busy # r /\ answer[r] = "unanswered" /\ sends[r] = 0
  /\ UNCHANGED <<answer, sends, ticks, stored, ret_code, late_fill>>
  /\ \A q \in QueryIds : Server_QueryID_Hash[q] # r
  /\ p = 0 \/ (step = "shared" /\ p = local_query_id)
  /\ step = "shared" =>
       /\ busy \in Request /\ local_query_id \in QueryIds /\ child[busy] = Nobody
       /\ Server_QueryID_Hash[local_query_id] \in {busy, Nobody}
       /\ reply_message[busy] = "held" => Server_QueryID_Hash[local_query_id] = busy
       /\ addressee[local_query_id] = Local
       /\ <<Local, busy>> \in stored /\ answer[busy] # "none"
  /\ \A x \in Request : child[x] # Nobody => child'[x] = child[x] /\ child[x] \in Request
  /\ \A x \in Request : child'[x] # child[x] =>
       step = "shared" /\ x = busy /\ child'[x] = r /\ p = local_query_id
  /\ p # 0 => child'[busy] = r
  /\ child' \in [Request -> Request \cup {Nobody}] /\ child'[r] = Nobody

LEMMA AdmittedIsFresh ==
  ASSUME IInv, NEW r \in Request, NEW t \in TxnType, NEW view \in Views,
         NEW p \in QueryIds \cup {0},
         Replicate(r, t, view, p),
         \/ step = "idle" /\ p = 0 /\ UNCHANGED child
         \/ /\ step = "shared" /\ p = local_query_id /\ r # busy
            /\ child' = [child EXCEPT ![busy] = r]
  PROVE  Fresher(r, p)
<1>inv. TypeOK /\ LiveIds /\ NewIsBlank /\ Unanswered /\ ThreadInv
  BY Zenon DEF IInv
<1>1. /\ reply_message[r] = "new" /\ ticks[r] = 0 /\ parent[r] = 0 /\ child[r] = Nobody
      /\ busy # r /\ answer[r] = "unanswered" /\ sends[r] = 0
      /\ UNCHANGED <<answer, sends, ticks, stored, ret_code, late_fill>>
  BY <1>inv DEF Replicate, NewIsBlank, Unanswered, client
<1>2. \A q \in QueryIds : Server_QueryID_Hash[q] # r
  BY <1>inv, <1>1, RequestAssumption DEF LiveIds
<1>3. step = "shared" => /\ busy \in Request /\ local_query_id \in QueryIds /\ child[busy] = Nobody
                         /\ Server_QueryID_Hash[local_query_id] \in {busy, Nobody}
                         /\ reply_message[busy] = "held" => Server_QueryID_Hash[local_query_id] = busy
                         /\ addressee[local_query_id] = Local
                         /\ <<Local, busy>> \in stored /\ answer[busy] # "none"
  BY <1>inv DEF ThreadInv
<1>4. child \in [Request -> Request \cup {Nobody}]
  BY <1>inv DEF TypeOK
<1>5. \A x \in Request : child[x] # Nobody => child'[x] = child[x] /\ child[x] \in Request
  BY <1>3, <1>4
<1>6. /\ p = 0 \/ (step = "shared" /\ p = local_query_id)
      /\ \A x \in Request : child'[x] # child[x] =>
           step = "shared" /\ x = busy /\ child'[x] = r /\ p = local_query_id
      /\ p # 0 => child'[busy] = r
  BY <1>3, <1>4
<1>7. child' \in [Request -> Request \cup {Nobody}] /\ child'[r] = Nobody
  BY <1>1, <1>3, <1>4
<1> QED BY <1>1, <1>2, <1>3, <1>5, <1>6, <1>7, Zenon DEF Fresher

\* No success has a child that is no success, whoever gets a child.
LEMMA FreshSuccess ==
  ASSUME IInv, NEW r \in Request, NEW p, Fresher(r, p)
  PROVE  SharedSuccess'
<1>inv. SharedSuccess
  BY Zenon DEF IInv
<1> SUFFICES ASSUME NEW x \in Request, answer[x] = "none", child'[x] # Nobody
             PROVE  answer[child'[x]] = "none"
  BY DEF SharedSuccess, Fresher
<1>1. child'[x] = child[x]
  BY DEF Fresher
<1> QED BY <1>inv, <1>1 DEF SharedSuccess

\* A request that is not replicated leaves the tracker alone.
LEMMA NotReplicatedStep ==
  ASSUME IInv, NEW r \in Request, NEW p \in QueryIds \cup {0}, Fresher(r, p), NotReplicated(r)
  PROVE  IInv'
<1>inv. /\ TypeOK /\ LiveIds /\ HeldIds /\ NewIsBlank /\ Unanswered /\ HeldIsTracked /\ Waiting
        /\ UpdatesInFlight /\ RepliesInFlight /\ ThreadInv /\ ParentInv /\ ChildInv
        /\ SuccessIsStored /\ TimerBudget
  BY Zenon DEF IInv
<1>1. /\ reply_message' = [reply_message EXCEPT ![r] = "freed"]
      /\ busy' = Nobody /\ step' = "idle" /\ local_query_id' = 0
      /\ UNCHANGED <<QueryID, Server_QueryID_Hash, query_ids, timer_expiration_count,
                     txn, forwarding, parent, target, addressee, net>>
  BY DEF NotReplicated, tracker
<1>2. TypeOK'
  BY <1>inv, <1>1 DEF TypeOK, Fresher
<1>3. (LiveIds /\ HeldIds /\ HeldIsTracked)'
  BY <1>inv, <1>1, SMT DEF LiveIds, HeldIds, HeldIsTracked, Tracked, TypeOK, Fresher
<1>4. (NewIsBlank /\ Unanswered)'
  BY <1>inv, <1>1, RequestAssumption DEF NewIsBlank, Unanswered, TypeOK, Fresher
<1>5. (Waiting /\ UpdatesInFlight /\ ThreadInv /\ TimerBudget /\ SuccessIsStored)'
  BY <1>inv, <1>1, SMT DEF Waiting, UpdatesInFlight, ThreadInv, TimerBudget, SuccessIsStored,
     TypeOK, Fresher
<1>6. RepliesInFlight'
  BY <1>inv, <1>1, RequestAssumption, SMT DEF RepliesInFlight, TypeOK, Message, Fresher
<1>7. ParentInv'
  BY <1>inv, <1>1, RequestAssumption, SMT DEF ParentInv, TypeOK, Fresher
<1>8. ChildInv'
  BY <1>inv, <1>1, SMT DEF ChildInv, TypeOK, Fresher
<1> QED BY <1>2, <1>3, <1>4, <1>5, <1>6, <1>7, <1>8, FreshSuccess DEF IInv

\* The request r, replicated to nodes under the ids ids, one or more for each.
Tracks(r, p, nodes, ids, to) ==
  /\ nodes \subseteq Node /\ ids \subseteq QueryIds /\ to \in [ids -> nodes]
  /\ \A n \in nodes : \E q \in ids : to[q] = n
  /\ \A q \in ids : /\ Server_QueryID_Hash[q] = Nobody /\ local_query_id # q
                    /\ \A m \in net : m.qid # q
                    /\ \A x \in Request : parent[x] # q
                    /\ Server_QueryID_Hash'[q] = r /\ addressee'[q] = to[q]
  /\ \A q \in QueryIds \ ids : /\ Server_QueryID_Hash'[q] = Server_QueryID_Hash[q]
                               /\ addressee'[q] = addressee[q]
  /\ \A q \in QueryIds : Server_QueryID_Hash[q] # Nobody =>
       q \notin ids /\ Server_QueryID_Hash[q] \in Request /\ Server_QueryID_Hash[q] # r
  /\ \A x \in Request : x # r =>
       /\ query_ids'[x] = query_ids[x] /\ reply_message'[x] = reply_message[x]
       /\ target'[x] = target[x] /\ parent'[x] = parent[x]
       /\ timer_expiration_count'[x] = timer_expiration_count[x]
  /\ query_ids'[r] = ids /\ reply_message'[r] = "held" /\ target'[r] = nodes /\ parent'[r] = p
  /\ timer_expiration_count'[r] = 3
  /\ net' = net \cup {Update(q, to[q], r) : q \in {i \in ids : to[i] # Local}}
  /\ \A m \in net' : m \in net \/ \E q \in ids : to[q] # Local /\ m = Update(q, to[q], r)
  /\ \/ busy' = r /\ step' = "local" /\ \E q \in ids : to[q] = Local /\ local_query_id' = q
     \/ busy' = Nobody /\ step' = "idle" /\ local_query_id' = 0

LEMMA TracksIds ==
  ASSUME IInv, NEW r \in Request, NEW p \in QueryIds \cup {0}, Fresher(r, p),
         NEW nodes, NEW ids, NEW to, Tracks(r, p, nodes, ids, to)
  PROVE  (LiveIds /\ HeldIds /\ NewIsBlank /\ Unanswered)'
<1>inv. TypeOK /\ LiveIds /\ HeldIds /\ NewIsBlank /\ Unanswered
  BY Zenon DEF IInv
<1>1. LiveIds'
  BY <1>inv, SMT DEF LiveIds, Tracks
<1>2. HeldIds'
  BY <1>inv, RequestAssumption, SMT DEF HeldIds, TypeOK, Tracks
<1>3. NewIsBlank'
  BY <1>inv, RequestAssumption, SMT DEF NewIsBlank, Tracks, Fresher
<1>4. Unanswered'
  BY <1>inv, SMT DEF Unanswered, Tracks, Fresher
<1> QED BY <1>1, <1>2, <1>3, <1>4

LEMMA TracksNodes ==
  ASSUME IInv, NEW r \in Request, NEW p \in QueryIds \cup {0}, Fresher(r, p),
         NEW nodes, NEW ids, NEW to, Tracks(r, p, nodes, ids, to)
  PROVE  (Waiting /\ HeldIsTracked)'
<1>inv. HeldIsTracked /\ Waiting
  BY Zenon DEF IInv
<1>1. Waiting'
  <2> SUFFICES ASSUME NEW x \in Request, reply_message'[x] = "held", NEW n \in target'[x],
                      <<n, x>> \notin stored
               PROVE  \E q \in QueryIds : Server_QueryID_Hash'[q] = x /\ addressee'[q] = n
    BY Zenon DEF Waiting, Fresher
  <2>1. CASE x = r
    BY <2>1, SMT DEF Tracks
  <2>2. CASE x # r
    <3>1. PICK q \in QueryIds : Server_QueryID_Hash[q] = x /\ addressee[q] = n
      BY <1>inv, <2>2, SMT DEF Waiting, Tracks
    <3> QED BY <2>2, <3>1, RequestAssumption DEF Tracks
  <2> QED BY <2>1, <2>2
<1>2. HeldIsTracked'
  <2> SUFFICES ASSUME NEW x \in Request, reply_message'[x] = "held", target'[x] # {}
               PROVE  \E q \in QueryIds : Server_QueryID_Hash'[q] = x
    BY DEF HeldIsTracked, Tracked
  <2>1. CASE x = r
    BY <2>1, Zenon DEF Tracks
  <2>2. CASE x # r
    <3>1. PICK q \in QueryIds : Server_QueryID_Hash[q] = x
      BY <1>inv, <2>2, SMT DEF HeldIsTracked, Tracked, Tracks
    <3> QED BY <2>2, <3>1, RequestAssumption DEF Tracks
  <2> QED BY <2>1, <2>2
<1> QED BY <1>1, <1>2

LEMMA TracksNet ==
  ASSUME IInv, NEW r \in Request, NEW p \in QueryIds \cup {0}, Fresher(r, p),
         NEW nodes, NEW ids, NEW to, Tracks(r, p, nodes, ids, to)
  PROVE  (UpdatesInFlight /\ RepliesInFlight)'
<1>inv. TypeOK /\ UpdatesInFlight /\ RepliesInFlight
  BY Zenon DEF IInv
<1>1. \A m \in net : m.qid \in QueryIds \ ids
  BY <1>inv, SMT DEF TypeOK, Message, Tracks
<1>2. UpdatesInFlight'
  <2> SUFFICES ASSUME NEW m \in net', m.kind = "update"
               PROVE  \/ Server_QueryID_Hash'[m.qid] = Nobody
                      \/ /\ Server_QueryID_Hash'[m.qid] = m.req
                         /\ addressee'[m.qid] = m.node
                         /\ m.node # Local
    BY DEF UpdatesInFlight
  <2>1. CASE m \in net
    BY <1>inv, <1>1, <2>1, SMT DEF UpdatesInFlight, Tracks
  <2>2. CASE m \notin net
    <3>1. PICK q \in ids : to[q] # Local /\ m = Update(q, to[q], r)
      BY <2>2, Zenon DEF Tracks
    <3>2. Server_QueryID_Hash'[q] = r /\ addressee'[q] = to[q]
      BY Zenon DEF Tracks
    <3> QED BY <3>1, <3>2 DEF Update
  <2> QED BY <2>1, <2>2, Zenon
<1>3. RepliesInFlight'
  <2> SUFFICES ASSUME NEW m \in net', m.kind = "reply", m.status = "none",
                      Server_QueryID_Hash'[m.qid] # Nobody
               PROVE  LET x == Server_QueryID_Hash'[m.qid] IN
                      /\ <<addressee'[m.qid], x>> \in stored
                      /\ addressee'[m.qid] = Local =>
                           child'[x] \in Request /\ answer[child'[x]] = "none"
    BY DEF RepliesInFlight, Fresher
  <2>1. m \in net
    BY SMT DEF Update, Tracks
  <2>2. /\ Server_QueryID_Hash'[m.qid] = Server_QueryID_Hash[m.qid]
        /\ addressee'[m.qid] = addressee[m.qid] /\ Server_QueryID_Hash[m.qid] \in Request
    BY <1>1, <2>1 DEF Tracks
  <2> QED BY <1>inv, <2>1, <2>2, RequestAssumption, SMT DEF RepliesInFlight, Fresher
<1> QED BY <1>2, <1>3

LEMMA TracksThread ==
  ASSUME IInv, NEW r \in Request, NEW p \in QueryIds \cup {0}, Fresher(r, p),
         NEW nodes, NEW ids, NEW to, Tracks(r, p, nodes, ids, to)
  PROVE  (ThreadInv /\ SuccessIsStored /\ TimerBudget)'
<1>inv. SuccessIsStored /\ TimerBudget
  BY Zenon DEF IInv
<1>1. ThreadInv'
  <2> SUFFICES ASSUME step' # "idle"
               PROVE  /\ busy' = r /\ step' = "local"
                      /\ local_query_id' \in ids /\ to[local_query_id'] = Local
    BY DEF ThreadInv, Fresher, Tracks
  <2> QED BY DEF Tracks
<1>2. SuccessIsStored'
  BY <1>inv, SMT DEF SuccessIsStored, Fresher, Tracks
<1>3. TimerBudget'
  BY <1>inv, SMT DEF TimerBudget, Timer_Expiration_Count, Fresher, Tracks
<1> QED BY <1>1, <1>2, <1>3

LEMMA TracksParent ==
  ASSUME IInv, NEW r \in Request, NEW p \in QueryIds \cup {0}, Fresher(r, p),
         NEW nodes, NEW ids, NEW to, Tracks(r, p, nodes, ids, to)
  PROVE  ParentInv'
<1>inv. TypeOK /\ ParentInv
  BY Zenon DEF IInv
<1> SUFFICES ASSUME NEW c \in Request, parent'[c] # 0, Server_QueryID_Hash'[parent'[c]] # Nobody
             PROVE  LET x == Server_QueryID_Hash'[parent'[c]] IN
                    /\ addressee'[parent'[c]] = Local
                    /\ <<Local, x>> \in stored
                    /\ child'[x] = c
  BY DEF ParentInv, Fresher
<1>1. CASE c = r
  <2>1. p = local_query_id /\ step = "shared" /\ local_query_id \in QueryIds \ ids
    BY <1>1 DEF Fresher, Tracks
  <2>2. parent'[c] = p /\ child'[busy] = r
    BY <1>1, <2>1 DEF Fresher, Tracks
  <2> QED BY <1>1, <2>1, <2>2, SMT DEF Fresher, Tracks
<1>2. CASE c # r
  <2>1. parent'[c] = parent[c] /\ parent[c] \in QueryIds \ ids
    BY <1>inv, <1>2, SMT DEF TypeOK, Tracks
  <2>2. /\ Server_QueryID_Hash'[parent[c]] = Server_QueryID_Hash[parent[c]]
        /\ addressee'[parent[c]] = addressee[parent[c]]
    BY <2>1, Zenon DEF Tracks
  <2>3. Server_QueryID_Hash[parent[c]] \in Request
    BY <1>inv, <2>1, <2>2, Zenon DEF TypeOK
  <2>4. /\ addressee[parent[c]] = Local /\ <<Local, Server_QueryID_Hash[parent[c]]>> \in stored
        /\ child[Server_QueryID_Hash[parent[c]]] = c
    BY <1>inv, <2>1, <2>2, Zenon DEF ParentInv
  <2> QED BY <2>1, <2>2, <2>3, <2>4, RequestAssumption DEF Fresher
<1> QED BY <1>1, <1>2

LEMMA TracksChild ==
  ASSUME IInv, NEW r \in Request, NEW p \in QueryIds \cup {0}, Fresher(r, p),
         NEW nodes, NEW ids, NEW to, Tracks(r, p, nodes, ids, to)
  PROVE  ChildInv'
<1>inv. TypeOK /\ ChildInv
  BY Zenon DEF IInv
<1> SUFFICES ASSUME NEW x \in Request, child'[x] # Nobody
             PROVE  /\ reply_message'[child'[x]] # "new"
                    /\ \/ reply_message'[x] # "held"
                       \/ answer[child'[x]] = "none"
                       \/ \E q \in QueryIds : Server_QueryID_Hash'[q] = x /\ addressee'[q] = Local
  BY DEF ChildInv, Fresher
<1>1. x # r
  BY DEF Fresher
<1>2. CASE child'[x] = child[x]
  <2>1. child[x] \in Request /\ reply_message[child[x]] # "new"
    BY <1>inv, <1>2 DEF ChildInv, TypeOK
  <2>2. reply_message'[child[x]] # "new" /\ reply_message'[x] = reply_message[x]
    BY <1>1, <2>1 DEF Tracks
  <2>3. \A q \in QueryIds : Server_QueryID_Hash[q] = x =>
          Server_QueryID_Hash'[q] = x /\ addressee'[q] = addressee[q]
    BY RequestAssumption DEF Tracks
  <2> QED BY <1>inv, <1>2, <2>1, <2>2, <2>3, SMT DEF ChildInv
<1>3. CASE child'[x] # child[x]
  <2>1. x = busy /\ child'[x] = r /\ step = "shared"
    BY <1>3 DEF Fresher
  <2>2. reply_message[busy] = "held" =>
          Server_QueryID_Hash[local_query_id] = busy /\ addressee[local_query_id] = Local
    BY <2>1 DEF Fresher
  <2>3. local_query_id \in QueryIds /\ busy \in Request
    BY <2>1 DEF Fresher
  <2> QED BY <1>1, <2>1, <2>2, <2>3, RequestAssumption, SMT DEF Tracks
<1> QED BY <1>2, <1>3, Zenon

----------------------------------------------------------------------------
(* The timer, and the choice of query ids                                  *)

\* What the timer's budget and the choice of query ids need of the sizes of sets;
\* SetsCount shows it.
Counting ==
  /\ \A r \in Request : /\ Cardinality(Tracked(r)) \in Nat
                        /\ Tracked(r) # {} => Cardinality(Tracked(r)) > 0
                        /\ Tracked(r) = {} => Cardinality(Tracked(r)) = 0
  /\ \A t \in TxnType, view \in Views : Cardinality(ReplicationDetermineDPSNodes(t, view)) \in Nat

\* A run of the timer takes at least one from the budget of each request it visits.
LEMMA TimerStep ==
  ASSUME Counting, IInv, ReplicationTimerProcess
  PROVE  IInv'
<1>inv. /\ TypeOK /\ LiveIds /\ HeldIds /\ NewIsBlank /\ Unanswered /\ HeldIsTracked /\ Waiting
        /\ UpdatesInFlight /\ RepliesInFlight /\ ThreadInv /\ ParentInv /\ ChildInv
        /\ SuccessIsStored /\ SharedSuccess /\ TimerBudget
  BY Zenon DEF IInv
<1> DEFINE late == {r \in Request : Expires(r)}
<1>0. \A r \in Request : /\ Cardinality(Tracked(r)) \in Nat
                         /\ Tracked(r) # {} => Cardinality(Tracked(r)) > 0
                         /\ Tracked(r) = {} => Cardinality(Tracked(r)) = 0
  BY DEF Counting
<1>1. \A r \in late : reply_message[r] = "held" /\ answer[r] = "unanswered" /\ sends[r] = 0
  BY <1>inv, RequestAssumption, NodeAssumption, SMT DEF Expires, Tracked, LiveIds, Unanswered,
     TypeOK, request, thread, client
<1>2. /\ timer_expiration_count' = [r \in Request |->
           LET c == timer_expiration_count[r] IN
           IF r \notin late THEN c - Cardinality(Tracked(r)) ELSE IF c > 0 THEN 0 ELSE c - 1]
      /\ Server_QueryID_Hash' = [q \in QueryIds |->
           IF Server_QueryID_Hash[q] \in late THEN Nobody ELSE Server_QueryID_Hash[q]]
      /\ ticks' = [r \in Request |-> IF Tracked(r) # {} THEN ticks[r] + 1 ELSE ticks[r]]
      /\ UNCHANGED <<QueryID, query_ids, request, stored, thread, late_fill>>
  BY DEF ReplicationTimerProcess
<1>3. /\ answer' = [r \in Request |-> IF r \in late THEN "retry" ELSE answer[r]]
      /\ sends' = [r \in Request |-> IF r \in late THEN 1 ELSE sends[r]]
      /\ reply_message' = [r \in Request |-> IF r \in late THEN "sent" ELSE reply_message[r]]
      /\ net' = net \cup UNION {SelfReply(r, "retry") : r \in late}
  <2>1. send_message_and_free(late, "retry")
    BY DEF ReplicationTimerProcess
  <2>2. late \in SUBSET Request /\ "retry" \in Status
    BY DEF Status
  <2> HIDE DEF late
  <2> QED BY <1>1, <2>1, <2>2, SendStep, SMT
<1>4. late \subseteq Request
  OBVIOUS
<1>5. \A q \in QueryIds : Server_QueryID_Hash'[q] \in {Server_QueryID_Hash[q], Nobody}
  BY <1>2
<1>6. \A r \in Request \ late, q \in QueryIds : Server_QueryID_Hash[q] = r => Server_QueryID_Hash'[q] = r
  BY <1>2
<1>7. \A m \in net' : m \in net \/ (m.kind = "reply" /\ m.status = "retry")
  BY <1>3, SMT DEF SelfReply, Reply
<1>8. \A r \in Request : r \notin late /\ Tracked(r) # {} =>
         timer_expiration_count[r] - Cardinality(Tracked(r)) > 0
  BY <1>inv, <1>0, SMT DEF Expires, TypeOK
<1> HIDE DEF late
<1>9. TypeOK'
  <2>1. net' \subseteq Message
    <3>1. net \subseteq Message /\ parent \in [Request -> QueryIds \cup {0}]
      BY <1>inv, Zenon DEF TypeOK
    <3>2. late \subseteq Request
      BY DEF late
    <3>3. \A r \in late : SelfReply(r, "retry") \subseteq Message
      BY <3>1, <3>2, NodeAssumption, SMT DEF SelfReply, Reply, Message, Status
    <3> QED BY <1>3, <3>1, <3>3
  <2>2. timer_expiration_count' \in [Request -> Int] /\ ticks' \in [Request -> Nat]
    BY <1>inv, <1>2, <1>0, SMT DEF TypeOK
  <2>3. Server_QueryID_Hash' \in [QueryIds -> Request \cup {Nobody}]
    BY <1>inv, <1>2 DEF TypeOK
  <2>4. /\ answer' \in [Request -> Status \cup {"unanswered"}]
        /\ sends' \in [Request -> Nat]
        /\ reply_message' \in [Request -> {"new", "held", "sent", "freed"}]
    BY <1>inv, <1>3 DEF TypeOK, Status
  <2> QED BY <1>inv, <1>2, <2>1, <2>2, <2>3, <2>4 DEF TypeOK, request, thread, client
<1>10. (LiveIds /\ HeldIds)'
  BY <1>inv, <1>2, <1>3, <1>6, SMT DEF LiveIds, HeldIds, TypeOK, request, thread, client
<1>11. NewIsBlank'
  BY <1>inv, <1>1, <1>2, <1>3, RequestAssumption, NodeAssumption, SMT DEF NewIsBlank, LiveIds,
     Tracked, TypeOK, request, thread, client
<1>12. Unanswered'
  BY <1>inv, <1>3 DEF Unanswered, Status, TypeOK
<1>13. (HeldIsTracked /\ Waiting)'
  <2>1. \A r \in Request : reply_message'[r] = "held" => reply_message[r] = "held" /\ r \notin late
    BY <1>3
  <2>2. HeldIsTracked'
    <3> SUFFICES ASSUME NEW r \in Request, reply_message'[r] = "held", target[r] # {}
                 PROVE  \E q \in QueryIds : Server_QueryID_Hash'[q] = r
      BY <1>inv, <1>2, Zenon DEF HeldIsTracked, Tracked, request, thread, client
    <3>1. PICK q \in QueryIds : Server_QueryID_Hash[q] = r
      BY <1>inv, <2>1 DEF HeldIsTracked, Tracked
    <3> QED BY <1>6, <2>1, <3>1
  <2>3. Waiting'
    BY <1>inv, <1>2, <1>6, <2>1, SMT DEF Waiting, request, thread, client
  <2> QED BY <2>2, <2>3
<1>14. (UpdatesInFlight /\ RepliesInFlight)'
  <2>1. \A m \in net : m.kind = "reply" \/ m.kind = "update" => m.qid \in QueryIds
    BY <1>inv DEF TypeOK, Message
  <2>2. UpdatesInFlight'
    BY <1>inv, <1>2, <1>5, <1>7, <2>1 DEF UpdatesInFlight, request, thread, client
  <2>3. \A r \in Request : answer[r] = "none" => answer'[r] = "none"
    BY <1>1, <1>3
  <2>4. RepliesInFlight'
    BY <1>inv, <1>2, <1>5, <1>7, <2>1, <2>3, Zenon DEF RepliesInFlight, request, thread, client
  <2> QED BY <2>2, <2>4
<1>15. ParentInv'
  BY <1>inv, <1>2, <1>5, SMT DEF ParentInv, TypeOK, request, thread, client
<1>15a. ThreadInv'
  <2>1. step # "idle" => busy \in Request /\ local_query_id \in QueryIds
    BY <1>inv DEF ThreadInv
  <2>2. step # "idle" /\ reply_message'[busy] = "held" => reply_message[busy] = "held" /\ busy \notin late
    BY <1>3, <2>1
  <2>3. step # "idle" => answer'[busy] # "none"
    BY <1>inv, <1>1, <1>3, <2>1 DEF ThreadInv
  <2> QED BY <1>inv, <1>2, <1>5, <1>6, <2>1, <2>2, <2>3 DEF ThreadInv, request, thread, client
<1>16. ChildInv'
  <2>1. \A r \in Request : answer[r] = "none" => answer'[r] = "none"
    BY <1>1, <1>3
  <2> SUFFICES ASSUME NEW x \in Request, child[x] # Nobody
               PROVE  /\ reply_message'[child[x]] # "new"
                      /\ \/ reply_message'[x] # "held"
                         \/ answer'[child[x]] = "none"
                         \/ \E i \in QueryIds : Server_QueryID_Hash'[i] = x /\ addressee[i] = Local
    BY <1>inv, <1>2 DEF ChildInv, request, thread, client
  <2>2. child[x] \in Request
    BY <1>inv DEF TypeOK
  <2>3. reply_message'[child[x]] # "new"
    BY <1>inv, <1>3, <2>2 DEF ChildInv
  <2>4. reply_message'[x] = "held" => x \notin late /\ reply_message[x] = "held"
    BY <1>3
  <2> QED BY <1>inv, <1>6, <2>1, <2>2, <2>3, <2>4, SMT DEF ChildInv
<1>17. (SuccessIsStored /\ SharedSuccess)'
  BY <1>inv, <1>1, <1>2, <1>3 DEF SuccessIsStored, SharedSuccess, TypeOK, request, thread, client
<1>18. TimerBudget'
  <2> SUFFICES ASSUME NEW r \in Request, reply_message'[r] = "held"
               PROVE  /\ timer_expiration_count'[r] + ticks'[r] <= Timer_Expiration_Count
                      /\ ticks'[r] < Timer_Expiration_Count
    BY <1>inv DEF TimerBudget
  <2>1. /\ reply_message[r] = "held" /\ r \notin late
        /\ timer_expiration_count'[r] = timer_expiration_count[r] - Cardinality(Tracked(r))
    BY <1>2, <1>3
  <2>2. /\ timer_expiration_count[r] + ticks[r] <= 3 /\ ticks[r] < 3
        /\ timer_expiration_count[r] \in Int /\ ticks[r] \in Nat
    BY <1>inv, <2>1 DEF TimerBudget, Timer_Expiration_Count, TypeOK
  <2>3. CASE Tracked(r) = {}
    <3>1. Cardinality(Tracked(r)) = 0 /\ ticks'[r] = ticks[r]
      BY <1>0, <1>2, <2>3, Zenon
    <3> QED BY <2>1, <2>2, <3>1, SMT DEF Timer_Expiration_Count
  <2>4. CASE Tracked(r) # {}
    <3>1. Cardinality(Tracked(r)) \in Nat /\ Cardinality(Tracked(r)) > 0 /\ ticks'[r] = ticks[r] + 1
      BY <1>0, <1>2, <2>4, Zenon
    <3> QED BY <1>8, <2>1, <2>2, <2>4, <3>1, SMT DEF Timer_Expiration_Count
  <2> QED BY <2>3, <2>4, Zenon
<1> QED BY <1>9, <1>10, <1>11, <1>12, <1>13, <1>14, <1>15, <1>15a, <1>16, <1>17, <1>18 DEF IInv

\* A registration goes to nodes of the cluster only.
LEMMA DeterminedNodes ==
  ASSUME NEW t \in TxnType, NEW view \in Views
  PROVE  ReplicationDetermineDPSNodes(t, view) \subseteq Node
<1>1. view \in View
  BY ViewAssumption
<1> QED BY <1>1, NodeAssumption DEF ReplicationDetermineDPSNodes, TxnType, View

LEMMA ReplicatedTracks ==
  ASSUME Counting, IInv, NEW r \in Request, NEW t \in TxnType, NEW view \in Views,
         NEW p \in QueryIds \cup {0},
         Fresher(r, p), dps_update_replicate(r, t, view, p)
  PROVE  TypeOK' /\ \E nodes, ids, to : Tracks(r, p, nodes, ids, to)
<1> DEFINE nodes == ReplicationDetermineDPSNodes(t, view)
           ids == generate_query_ids(Cardinality(nodes))
<1>1. TypeOK
  BY DEF IInv
<1>2. /\ nodes \subseteq Node /\ ids \subseteq QueryIds
      /\ QueryIDAfter(Cardinality(nodes)) \in QueryIds
  <2>1. Cardinality(nodes) \in Nat /\ nodes \subseteq Node
    BY DeterminedNodes DEF Counting
  <2>2. QueryID \in QueryIds
    BY <1>1 DEF TypeOK
  <2> QED BY <2>1, <2>2, GeneratedIds
<1>3. /\ QueryID' \in QueryIds
      /\ query_ids' = [query_ids EXCEPT ![r] = ids]
      /\ Server_QueryID_Hash' = [q \in QueryIds |-> IF q \in ids THEN r ELSE Server_QueryID_Hash[q]]
      /\ timer_expiration_count' = [timer_expiration_count EXCEPT ![r] = 3]
      /\ reply_message' = [reply_message EXCEPT ![r] = "held"]
      /\ target' = [target EXCEPT ![r] = nodes]
      /\ parent' = [parent EXCEPT ![r] = p]
      /\ txn' = [txn EXCEPT ![r] = t]
      /\ forwarding' = [forwarding EXCEPT ![r] = IF view.hosted THEN view.forward ELSE {}]
  BY <1>2, Zenon DEF dps_update_replicate, Timer_Expiration_Count
<1>4. forwarding' \in [Request -> SUBSET Node]
  <2>1. view.forward \subseteq Node
    BY ViewAssumption DEF View
  <2>2. forwarding \in [Request -> SUBSET Node]
    BY <1>1, Zenon DEF TypeOK
  <2> QED BY <1>3, <2>1, <2>2, Zenon
<1>5. \A q \in ids : /\ Server_QueryID_Hash[q] = Nobody
                     /\ \A m \in net : m.qid # q
                     /\ \A x \in Request : parent[x] # q
                     /\ local_query_id # q
  BY Zenon DEF dps_update_replicate, Fresh
<1>6. PICK to \in [ids -> nodes] :
        /\ \A n \in nodes : \E q \in ids : to[q] = n
        /\ addressee' = [q \in QueryIds |-> IF q \in ids THEN to[q] ELSE addressee[q]]
        /\ net' = net \cup {Update(q, to[q], r) : q \in {i \in ids : to[i] # Local}}
        /\ IF Local \in nodes
           THEN busy' = r /\ step' = "local" /\ \E q \in ids : to[q] = Local /\ local_query_id' = q
           ELSE busy' = Nobody /\ step' = "idle" /\ local_query_id' = 0
  BY Zenon DEF dps_update_replicate
<1> HIDE DEF nodes, ids
<1>7. TypeOK'
  <2>1. net' \subseteq Message
    <3>1. net \subseteq Message
      BY <1>1, Zenon DEF TypeOK
    <3>2. \A q \in ids : Update(q, to[q], r) \in Message
      BY <1>2, <1>6 DEF Message, Update
    <3> QED BY <1>6, <3>1, <3>2
  <2>2. addressee' \in [QueryIds -> Node]
    BY <1>1, <1>2, <1>6 DEF TypeOK
  <2>3. /\ busy' \in Request \cup {Nobody} /\ step' \in {"idle", "local", "fill", "shared", "process"}
        /\ local_query_id' \in QueryIds \cup {0}
    BY <1>2, <1>6, Zenon
  <2>4. /\ Server_QueryID_Hash' \in [QueryIds -> Request \cup {Nobody}]
        /\ query_ids' \in [Request -> SUBSET QueryIds]
        /\ timer_expiration_count' \in [Request -> Int]
        /\ reply_message' \in [Request -> {"new", "held", "sent", "freed"}]
        /\ target' \in [Request -> SUBSET Node] /\ parent' \in [Request -> QueryIds \cup {0}]
        /\ txn' \in [Request -> TxnType]
    <3>1. /\ Server_QueryID_Hash \in [QueryIds -> Request \cup {Nobody}]
          /\ query_ids \in [Request -> SUBSET QueryIds]
          /\ timer_expiration_count \in [Request -> Int]
          /\ reply_message \in [Request -> {"new", "held", "sent", "freed"}]
          /\ target \in [Request -> SUBSET Node] /\ parent \in [Request -> QueryIds \cup {0}]
          /\ txn \in [Request -> TxnType]
      BY <1>1, Zenon DEF TypeOK
    <3>2. timer_expiration_count' \in [Request -> Int]
      BY <1>3, <3>1, SMT
    <3>3. Server_QueryID_Hash' \in [QueryIds -> Request \cup {Nobody}]
      BY <1>3, <3>1, Zenon
    <3>4. query_ids' \in [Request -> SUBSET QueryIds] /\ target' \in [Request -> SUBSET Node]
      BY <1>2, <1>3, <3>1, Zenon
    <3>5. /\ reply_message' \in [Request -> {"new", "held", "sent", "freed"}]
          /\ parent' \in [Request -> QueryIds \cup {0}] /\ txn' \in [Request -> TxnType]
      BY <1>3, <3>1, Zenon
    <3> QED BY <3>2, <3>3, <3>4, <3>5, Zenon
  <2> QED BY <1>1, <1>3, <1>4, <2>1, <2>2, <2>3, <2>4, Zenon DEF TypeOK, Fresher
<1>8. /\ \A q \in ids : Server_QueryID_Hash'[q] = r /\ addressee'[q] = to[q]
      /\ \A q \in QueryIds \ ids : /\ Server_QueryID_Hash'[q] = Server_QueryID_Hash[q]
                                   /\ addressee'[q] = addressee[q]
  BY <1>2, <1>3, <1>6, Zenon
<1>9. /\ \A x \in Request : x # r =>
           /\ query_ids'[x] = query_ids[x] /\ reply_message'[x] = reply_message[x]
           /\ target'[x] = target[x] /\ parent'[x] = parent[x]
           /\ timer_expiration_count'[x] = timer_expiration_count[x]
      /\ query_ids'[r] = ids /\ reply_message'[r] = "held" /\ target'[r] = nodes /\ parent'[r] = p
      /\ timer_expiration_count'[r] = 3
  <2>1. /\ query_ids \in [Request -> SUBSET QueryIds] /\ target \in [Request -> SUBSET Node]
        /\ reply_message \in [Request -> {"new", "held", "sent", "freed"}]
        /\ parent \in [Request -> QueryIds \cup {0}]
        /\ timer_expiration_count \in [Request -> Int]
    BY <1>1, Zenon DEF TypeOK
  <2> QED BY <1>3, <2>1, Zenon
<1>10. \A q \in QueryIds : Server_QueryID_Hash[q] # Nobody =>
         q \notin ids /\ Server_QueryID_Hash[q] \in Request /\ Server_QueryID_Hash[q] # r
  BY <1>1, <1>5, SMT DEF TypeOK, Fresher
<1>11. \A m \in net' : m \in net \/ \E q \in ids : to[q] # Local /\ m = Update(q, to[q], r)
  BY <1>6
<1>12. Tracks(r, p, nodes, ids, to)
  BY <1>2, <1>5, <1>6, <1>8, <1>9, <1>10, <1>11, Zenon DEF Tracks
<1> QED BY <1>7, <1>12

\* Admission keeps the invariant.
LEMMA ReplicateStep ==
  ASSUME Counting, IInv, NEW r \in Request, NEW t \in TxnType, NEW view \in Views,
         NEW p \in QueryIds \cup {0},
         Replicate(r, t, view, p),
         \/ step = "idle" /\ p = 0 /\ UNCHANGED child
         \/ /\ step = "shared" /\ p = local_query_id /\ r # busy
            /\ child' = [child EXCEPT ![busy] = r]
  PROVE  IInv'
<1>1. Fresher(r, p)
  BY AdmittedIsFresh
<1>2. CASE NotReplicated(r)
  BY <1>1, <1>2, NotReplicatedStep
<1>3. CASE dps_update_replicate(r, t, view, p)
  <2>1. PICK nodes, ids, to : TypeOK' /\ Tracks(r, p, nodes, ids, to)
    BY <1>1, <1>3, ReplicatedTracks
  <2>2. (LiveIds /\ HeldIds /\ NewIsBlank /\ Unanswered /\ Waiting /\ HeldIsTracked)'
    BY <1>1, <2>1, TracksIds, TracksNodes
  <2>3. (UpdatesInFlight /\ RepliesInFlight /\ ThreadInv /\ SuccessIsStored /\ TimerBudget)'
    BY <1>1, <2>1, TracksNet, TracksThread
  <2>4. (ParentInv /\ ChildInv /\ SharedSuccess)'
    BY <1>1, <2>1, TracksParent, TracksChild, FreshSuccess
  <2> QED BY <2>1, <2>2, <2>3, <2>4 DEF IInv
<1> QED BY <1>2, <1>3 DEF Replicate

----------------------------------------------------------------------------
(* Every step, and the properties                                          *)

LEMMA AdmissionStep ==
  ASSUME Counting, IInv, NEW r \in Request, NEW t \in TxnType, NEW view \in Views,
         dps_msg_endpoint_update(r, t, view)
  PROVE  IInv'
<1>1. Replicate(r, t, view, 0) /\ step = "idle" /\ UNCHANGED child
  BY DEF dps_msg_endpoint_update
<1> QED BY <1>1, ReplicateStep

LEMMA SharedUpdateStep ==
  ASSUME Counting, IInv, NEW c \in Request, NEW view \in Views, SharedUpdate(c, view)
  PROVE  IInv'
<1>inv. ThreadInv
  BY Zenon DEF IInv
<1>1. /\ step = "shared" /\ c # busy /\ child' = [child EXCEPT ![busy] = c]
      /\ Replicate(c, "normal", view, local_query_id)
  BY DEF SharedUpdate
<1>2. local_query_id \in QueryIds /\ "normal" \in TxnType
  BY <1>inv, <1>1 DEF ThreadInv, TxnType
<1> QED BY <1>1, <1>2, ReplicateStep

(* A stuttering step preserves the inductive invariant. *)
LEMMA StutterStep == ASSUME IInv, UNCHANGED vars PROVE IInv'
<1>inv. /\ TypeOK /\ LiveIds /\ HeldIds /\ NewIsBlank /\ Unanswered /\ HeldIsTracked /\ Waiting
        /\ UpdatesInFlight /\ RepliesInFlight /\ ThreadInv /\ ParentInv /\ ChildInv
        /\ SuccessIsStored /\ SharedSuccess /\ TimerBudget
  BY Zenon DEF IInv
<1>1. UNCHANGED tracker /\ UNCHANGED request /\ UNCHANGED thread /\ UNCHANGED client
      /\ UNCHANGED <<reply_message, ticks, stored, net, late_fill>>
  BY DEF vars
<1>2. TypeOK' /\ LiveIds' /\ HeldIds' /\ NewIsBlank' /\ Unanswered' /\ HeldIsTracked'
  <2>1. TypeOK'
    BY <1>inv, <1>1, Zenon DEF tracker, request, thread, client, TypeOK
  <2>2. LiveIds' /\ HeldIds'
    BY <1>inv, <1>1 DEF tracker, request, thread, client, LiveIds, HeldIds, Tracked
  <2>3. NewIsBlank' /\ Unanswered'
    BY <1>inv, <1>1 DEF tracker, request, thread, client, NewIsBlank, Unanswered, Tracked
  <2>4. HeldIsTracked'
    BY <1>inv, <1>1 DEF tracker, request, thread, client, HeldIsTracked, Tracked
  <2> QED BY <2>1, <2>2, <2>3, <2>4
<1>3. Waiting' /\ UpdatesInFlight' /\ RepliesInFlight' /\ ThreadInv'
  <2>1. Waiting'
    BY <1>inv, <1>1, SMT DEF tracker, request, thread, client, Waiting, Tracked
  <2>2. UpdatesInFlight' /\ RepliesInFlight'
    BY <1>inv, <1>1 DEF tracker, request, thread, client, UpdatesInFlight, RepliesInFlight
  <2>3. ThreadInv'
    BY <1>inv, <1>1, Zenon DEF tracker, request, thread, client, ThreadInv, Tracked
  <2> QED BY <2>1, <2>2, <2>3
<1>4. ParentInv' /\ ChildInv' /\ SuccessIsStored' /\ SharedSuccess' /\ TimerBudget'
  <2>1. ParentInv' /\ ChildInv'
    BY <1>inv, <1>1 DEF tracker, request, thread, client, ParentInv, ChildInv
  <2>2. SuccessIsStored' /\ SharedSuccess'
    BY <1>inv, <1>1, Zenon DEF tracker, request, thread, client, SuccessIsStored, SharedSuccess
  <2>3. TimerBudget'
    BY <1>inv, <1>1, Zenon DEF tracker, request, thread, client, TimerBudget
  <2> QED BY <2>1, <2>2, <2>3
<1> QED BY <1>2, <1>3, <1>4 DEF IInv

(* Every step preserves the inductive invariant, one case per action. *)
LEMMA NextIInv == Counting /\ IInv /\ [Next]_vars => IInv'
<1> SUFFICES ASSUME Counting, IInv, [Next]_vars
             PROVE  IInv'
  OBVIOUS
<1>1. CASE \E r \in Request, t \in TxnType, view \in Views : dps_msg_endpoint_update(r, t, view)
  BY <1>1, AdmissionStep
<1>2. CASE \E s \in Status : Endpoint_Update(s)
  BY <1>2, LocalUpdateStep
<1>3. CASE FillReply
  BY <1>3, FillReplyStep
<1>4. CASE \E c \in Request, view \in Views : SharedUpdate(c, view)
  BY <1>4, SharedUpdateStep
<1>5. CASE LetRequestTimeout
  BY <1>5, LetRequestTimeoutStep
<1>6. CASE LocalReply
  BY <1>6, LocalReplyStep
<1>7. CASE \E m \in net : dps_msg_update_reply(m)
  BY <1>7, UpdateReplyStep
<1>8. CASE ReplicationTimerProcess
  BY <1>8, TimerStep
<1>9. CASE \E m \in net, s \in Status : ReplicaUpdate(m, s)
  BY <1>9, ReplicaUpdateStep
<1>10. CASE UNCHANGED vars
  BY <1>10, StutterStep
<1> QED BY <1>1, <1>2, <1>3, <1>4, <1>5, <1>6, <1>7, <1>8, <1>9, <1>10 DEF Next

INSTANCE FiniteSetTheorems

LEMMA SetsCount == Counting
<1>1. ASSUME NEW r \in Request PROVE IsFiniteSet(Tracked(r))
  <2>1. IsFiniteSet(QueryIds)
    BY QueryIDAssumption, FS_Interval, SMT DEF QueryIds
  <2> QED BY <2>1, FS_Subset DEF Tracked
<1>2. ASSUME NEW t \in TxnType, NEW view \in Views
      PROVE  IsFiniteSet(ReplicationDetermineDPSNodes(t, view))
  BY NodeAssumption, DeterminedNodes, FS_Subset
<1> QED BY <1>1, <1>2, FS_CardinalityType, FS_EmptySet, SMT DEF Counting

LEMMA Inductive == Spec => []IInv
<1>1. IInv /\ [Next]_vars => IInv'
  BY NextIInv, SetsCount
<1> QED BY <1>1, InitIInv, PTL DEF Spec

(* The tracker, the requests and the receiver thread keep their types.       *)
THEOREM TypeCorrect == Spec => []TypeOK
<1>1. IInv => TypeOK
  BY DEF IInv
<1> QED BY <1>1, Inductive, PTL

(* A client told SUCCESS can rely on it, for any number of nodes, requests    *)
(* and domain views: process_replication_reply reports none only after every  *)
(* addressed node has applied the registration.                               *)
THEOREM SuccessTheorem == Spec => []SuccessIsStored
<1>1. IInv => SuccessIsStored
  BY DEF IInv
<1> QED BY <1>1, Inductive, PTL

(* A registration of a shared address is confirmed only after its copy in     *)
(* domain 0 was (dps_msg_endpoint_update).                                    *)
THEOREM SharedTheorem == Spec => []SharedSuccess
<1>1. IInv => SharedSuccess
  BY DEF IInv
<1> QED BY <1>1, Inductive, PTL

(* No reply is sent twice, whatever the order of the local reply, remote      *)
(* replies, errors and the timer (dps_msg_send_and_free).                     *)
THEOREM OneReplyTheorem == Spec => []AtMostOneReply
<1>1. IInv => AtMostOneReply
  BY SMT DEF IInv, Unanswered, AtMostOneReply, TypeOK
<1> QED BY <1>1, Inductive, PTL

(* The timer never loses sight of a held reply, and no reply is held over     *)
(* three of its runs (ReplicationTimerProcess).                               *)
THEOREM TimerTheorem == Spec => [](HeldIsTracked /\ AnsweredWithinThreeTicks)
<1>1. IInv => HeldIsTracked /\ AnsweredWithinThreeTicks
  BY DEF IInv, TimerBudget, AnsweredWithinThreeTicks
<1> QED BY <1>1, Inductive, PTL
=============================================================================
