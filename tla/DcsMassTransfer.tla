-------------------------- MODULE DcsMassTransfer --------------------------
(***************************************************************************)
(* Mass transfer of one domain from the DCS server that holds it to a      *)
(* second server, while clients keep registering with the first.           *)
(*                                                                         *)
(* Source: odcs/data_handler/python/mass_transfer_handler.py, with         *)
(* Domain.mass_transfer_finish and the registration handlers of            *)
(* client_protocol_handler.py that feed a running transfer.                *)
(*                                                                         *)
(* The transfer walks six stages.  VNIDs, policies and subnets go out by a *)
(* synchronous REST call; tunnels, endpoints and multicasts go out as      *)
(* datagrams which the destination acknowledges by query id.  Every stage  *)
(* has a dictionary of objects still to be sent (queue) and one of objects *)
(* sent and not acknowledged (unacked).  A timer thread walks the stages;  *)
(* the receiver thread handles registrations and acknowledgements.         *)
(*                                                                         *)
(* An object's content is its revision: 1 is what the source held when the *)
(* transfer started (0: nothing), every later registration adds one.  For  *)
(* a tunnel an odd revision is a registration, an even one its removal.    *)
(***************************************************************************)
EXTENDS Integers, FiniteSets

CONSTANTS
  Object,                  \* what the domain holds or may come to hold
  NoObject,                \* the idle receiver's object
  Stage,                   \* the stage an object is transferred in
  Key,                     \* the dictionary key transfer_start gives an object
  Rank,                    \* the order in which transfer_start visits objects
  Held,                    \* the objects the source holds at the start
  unacked_max,             \* per stage, objects in flight (.._per_sec)
  MAX_RETRIES_PER_OBJECT,
  SendMayFail,             \* whether sendto() can report an error
  MaxRev                   \* bound: revisions of an object

transfer_vnids      == 1
transfer_subnets    == 3
transfer_tunnels    == 4
transfer_endpoints  == 5
transfer_multicasts == 6
transfer_finished   == 7

Stages == transfer_vnids .. transfer_multicasts

\* Stages whose objects are acknowledged by a datagram.
AsyncStages == transfer_tunnels .. transfer_multicasts

ASSUME MassTransferAssumption ==
  /\ IsFiniteSet(Object)
  /\ NoObject \notin Object
  /\ Stage \in [Object -> Stages]
  /\ Rank \in [Object -> 1 .. Cardinality(Object)]
  /\ \A o, p \in Object : Rank[o] = Rank[p] => o = p
  /\ \A o, p \in Object :
       Stage[o] = Stage[p] /\ Stage[o] # transfer_multicasts /\ Key[o] = Key[p]
         => o = p
  /\ Held \subseteq Object
  /\ unacked_max \in [Stages -> Nat \ {0}]
  /\ MAX_RETRIES_PER_OBJECT \in Nat
  /\ SendMayFail \in BOOLEAN
  /\ MaxRev \in Nat \ {0}

VARIABLES
  version,         \* source: the revision each object is at
  accepted,        \* newest revision a client was told is registered
  queued,          \* newest revision handed to the transfer
  queue,           \* transfer[..][0]: key, object, revision, query id
  unacked,         \* transfer[..][1]: query id, object, revision, tries
  transfer_stage,
  valid,           \* DPSDomainMassTransfer.valid
  thread,          \* where the transfer thread stands
  QueryID,         \* DpsCollection's query id counter
  MassTransfer_QueryID_Mapping,  \* query ids an acknowledgement may name
  mass_transfer_lock,            \* "free", or "lost": never released again
  global_lock,     \* likewise, when no step below holds it
  mass_transfer,   \* whether domain.mass_transfer is set
  forward,         \* destination in domain.mass_transfer_forward_nodes
  domain_valid,
  remote_up,       \* cluster.node_is_up(destination)
  receiver,        \* the receiver thread: the registration it is in
  sent,            \* datagrams on the wire
  acks,            \* acknowledgements on the wire
  processed,       \* destination: newest revision it answered for
  remote_active,   \* destination answers for the domain
  member           \* source knows the destination as a replica

transferVars == <<queue, unacked, transfer_stage, valid>>
sourceVars   == <<version, accepted, queued, QueryID>>
ackVars      == <<MassTransfer_QueryID_Mapping, mass_transfer_lock>>
domainVars   == <<mass_transfer, forward, member>>
envVars      == <<domain_valid, remote_up, global_lock>>
netVars      == <<sent, acks>>
destVars     == <<processed, remote_active>>

vars == <<transferVars, sourceVars, ackVars, domainVars, envVars, netVars,
          destVars, thread, receiver>>

Largest(a, b)  == IF a >= b THEN a ELSE b
Smallest(a, b) == IF a <= b THEN a ELSE b

QueueOf(s)   == {e \in queue : Stage[e.obj] = s}
UnackedOf(s) == {e \in unacked : Stage[e.obj] = s}

Idle == [state |-> "idle", obj |-> NoObject, forward |-> FALSE]

----------------------------------------------------------------------------
(* transfer_start, under the global lock.                                  *)

\* The key an object of the starting set is stored under.
StartKey(o) == <<Key[o], -1>>

\* transfer_start_get_*: one dictionary store per object held, so that a
\* later object with an earlier one's key takes its place.
StartQueue ==
  {[key |-> StartKey(o), obj |-> o, rev |-> 1, qid |-> Rank[o]] :
     o \in {x \in Held : \A y \in Held :
              (Stage[y] = Stage[x] /\ Key[y] = Key[x]) => Rank[y] <= Rank[x]}}

Init ==
  /\ version = [o \in Object |-> IF o \in Held THEN 1 ELSE 0]
  /\ accepted = version
  /\ queued = [o \in Object |-> IF \E e \in StartQueue : e.obj = o THEN 1 ELSE 0]
  /\ queue = StartQueue
  /\ unacked = {}
  /\ transfer_stage = transfer_vnids
  /\ valid = TRUE
  /\ thread = "sleeping"
  /\ QueryID = Cardinality(Object) + 1
  /\ MassTransfer_QueryID_Mapping = {}
  /\ mass_transfer_lock = "free"
  /\ global_lock = "free"
  /\ mass_transfer = TRUE
  /\ forward = FALSE
  /\ domain_valid = TRUE
  /\ remote_up = TRUE
  /\ receiver = Idle
  /\ sent = {}
  /\ acks = {}
  /\ processed = [o \in Object |-> 0]
  /\ remote_active = FALSE
  /\ member = FALSE

----------------------------------------------------------------------------
(* Registrations while the transfer runs.                                  *)

\* Mutant: looks at the current stage's dictionary only.
registration_allow_ThisStage ==
  domain_valid /\ transfer_stage \in AsyncStages /\ QueueOf(transfer_stage) # {}

\* registration_allow: open while a datagram stage has something to send.
registration_allow ==
  domain_valid /\ \E e \in queue : Stage[e.obj] \in AsyncStages

\* The key register_tunnel, register_endpoint, register_vnid, .. store a
\* revision under: a tunnel's carries the operation, an endpoint's is the one
\* transfer_start used, the others are the fresh query id.
DeltaKey(o, r) ==
  <<Key[o], IF Stage[o] = transfer_endpoints THEN -1
            ELSE IF Stage[o] = transfer_tunnels THEN r % 2
            ELSE QueryID + 1>>

\* Mutant: never goes back to an earlier stage.
register_delta_NoGoingBack(o, r) ==
  /\ IF registration_allow
     THEN /\ queue' = {e \in queue : ~ (Stage[e.obj] = Stage[o] /\ e.key = DeltaKey(o, r))}
                        \cup {[key |-> DeltaKey(o, r), obj |-> o, rev |-> r, qid |-> QueryID]}
          /\ queued' = [queued EXCEPT ![o] = r]
     ELSE UNCHANGED <<queue, queued>>
  /\ QueryID' = QueryID + 1
  /\ UNCHANGED transfer_stage

\* register_delta: store the revision and go back to its stage if the
\* transfer is past it.  A refused revision leaves the transfer alone.
register_delta(o, r) ==
  /\ IF registration_allow
     THEN /\ queue' = {e \in queue : ~ (Stage[e.obj] = Stage[o] /\ e.key = DeltaKey(o, r))}
                        \cup {[key |-> DeltaKey(o, r), obj |-> o, rev |-> r, qid |-> QueryID]}
          /\ transfer_stage' = Smallest(transfer_stage, Stage[o])
          /\ queued' = [queued EXCEPT ![o] = r]
     ELSE UNCHANGED <<queue, transfer_stage, queued>>
  /\ QueryID' = QueryID + 1

\* Nobody keeps the global lock between two steps: not a handler that has
\* moved an endpoint, nor one that never released it, nor a transfer thread
\* "wedged" for good.
GlobalLockFree ==
  receiver.state # "moved" /\ global_lock = "free" /\ thread # "wedged"

\* The receiver thread admits a registration and settles which nodes it will
\* be replicated to, before the handler takes the global lock.
Admit(o) ==
  /\ receiver.state = "idle" /\ GlobalLockFree
  /\ Stage[o] \in AsyncStages
  /\ domain_valid
  /\ version[o] < MaxRev
  /\ receiver' = [state |-> "update", obj |-> o, forward |-> forward \/ member]
  /\ UNCHANGED <<transferVars, sourceVars, ackVars, domainVars, envVars,
                 netVars, destVars, thread>>

\* register_delta needs the transfer's own lock, which the thread holds
\* while it walks the stages ("blocked": for good).
ObjectLockFree == thread \notin {"running", "blocked"}

\* Dvg.tunnel_endpoint_add_IP drops register_tunnel's answer.
AnswerIgnored(o, r) == Stage[o] = transfer_tunnels /\ r % 2 = 1

\* Endpoint_Update, Tunnel_Register, Tunnel_Unregister on a domain that is
\* being transferred: hand the revision on; a refusal is answered with "retry".
UpdateTransferring(o, r, replicated) ==
  /\ mass_transfer
  /\ Stage[o] # transfer_multicasts
  /\ register_delta(o, r)
  /\ accepted' = [accepted EXCEPT ![o] =
       IF replicated /\ (registration_allow \/ AnswerIgnored(o, r)) THEN r ELSE @]

\* Multicast_Sender_Register and its siblings: register_multicast always
\* raises (it builds its record without global_scope), which is "retry".
UpdateMulticast(o) ==
  /\ mass_transfer
  /\ Stage[o] = transfer_multicasts
  /\ UNCHANGED <<queue, transfer_stage, queued, QueryID, accepted>>

\* Outside a transfer the source's update and its replicas' are all it takes.
UpdateAlone(o, r, replicated) ==
  /\ ~ mass_transfer
  /\ accepted' = [accepted EXCEPT ![o] = IF replicated THEN r ELSE @]
  /\ UNCHANGED <<queue, transfer_stage, queued, QueryID>>

\* What the handler does once the source is updated.  The destination, if it
\* is among the nodes settled on at admission, may have stored the update; the
\* client hears of success when all those nodes have.
Deliver(o, r) ==
  \E stored \in IF receiver.forward THEN BOOLEAN ELSE {FALSE} :
    /\ processed' = [processed EXCEPT ![o] = IF stored THEN Largest(@, r) ELSE @]
    /\ UNCHANGED remote_active
    /\ \/ UpdateTransferring(o, r, stored = receiver.forward)
       \/ UpdateMulticast(o)
       \/ UpdateAlone(o, r, stored = receiver.forward)

\* Endpoint.vmotion, the handler's global lock held: an update from another
\* tunnel first takes the endpoint's tunnel away.
Vmotion ==
  /\ receiver.state = "update"
  /\ Stage[receiver.obj] = transfer_endpoints
  /\ GlobalLockFree
  /\ receiver' = [receiver EXCEPT !.state = "moved"]
  /\ UNCHANGED <<transferVars, sourceVars, ackVars, domainVars, envVars,
                 netVars, destVars, thread>>

\* A handler that has moved an endpoint has the global lock already.
HandlerMayLock == receiver.state = "moved" \/ GlobalLockFree

\* The locked part of the handler: an error before anything changed; a moved
\* endpoint whose version is out of sequence, answered with "retry" and not
\* handed to the transfer; or the update.
Update ==
  /\ receiver.state \in {"update", "moved"}
  /\ receiver' = Idle
  /\ LET o == receiver.obj
         r == version[o] + 1
     IN \/ /\ HandlerMayLock
           /\ version' = IF receiver.state = "moved"
                         THEN [version EXCEPT ![o] = r] ELSE version
           /\ UNCHANGED <<accepted, queued, QueryID, queue, transfer_stage,
                          destVars>>
        \/ /\ HandlerMayLock /\ (mass_transfer => ObjectLockFree)
           /\ version' = [version EXCEPT ![o] = r]
           /\ Deliver(o, r)
  /\ UNCHANGED <<unacked, valid, thread, ackVars, domainVars, envVars, netVars>>

\* A change by the management console, under the global lock.
ControllerUpdate(o) ==
  /\ Stage[o] \notin AsyncStages
  /\ domain_valid
  /\ version[o] < MaxRev
  /\ GlobalLockFree
  /\ version' = [version EXCEPT ![o] = @ + 1]
  /\ UNCHANGED <<unacked, valid, accepted, thread, receiver, ackVars,
                 domainVars, domain_valid, remote_up, netVars, destVars>>

\* Dvg_Add, Dvg_Delete, Policy_Add, Policy_Delete: the change is handed to
\* the transfer if there is one.
VnidOrPolicyUpdate(o) ==
  /\ ControllerUpdate(o)
  /\ Stage[o] # transfer_subnets
  /\ IF mass_transfer
     THEN ObjectLockFree /\ register_delta(o, version[o] + 1)
     ELSE UNCHANGED <<queue, transfer_stage, queued, QueryID>>
  /\ UNCHANGED global_lock

\* IP_Subnet_Add, IP_Subnet_Delete: during a transfer the call of
\* register_subnet lacks an argument and raises past the lock's release.
IP_Subnet_Update(o) ==
  /\ ControllerUpdate(o)
  /\ Stage[o] = transfer_subnets
  /\ global_lock' = IF mass_transfer THEN "lost" ELSE "free"
  /\ UNCHANGED <<queue, transfer_stage, queued, QueryID>>

----------------------------------------------------------------------------
(* The transfer thread.                                                    *)

\* transfer_thread up to taking its lock: give up, or walk the stages.
transfer_thread ==
  /\ thread = "sleeping"
  /\ thread' = IF valid /\ domain_valid /\ remote_up THEN "running" ELSE "cancelled"
  /\ UNCHANGED <<transferVars, sourceVars, ackVars, domainVars, envVars,
                 netVars, destVars, receiver>>

\* Mutant: forgets what is in flight already.
PopItems_WholeWindow(s) ==
  {new \in SUBSET QueueOf(s) :
     Cardinality(new) = Smallest(unacked_max[s], Cardinality(QueueOf(s)))}

\* popitem until the stage has unacked_max objects in flight; a dictionary
\* yields its items in any order.
PopItems(s) ==
  LET room == Smallest(unacked_max[s] - Cardinality(UnackedOf(s)),
                       Cardinality(QueueOf(s)))
  IN {new \in SUBSET QueueOf(s) : Cardinality(new) = room}

InFlight(e) == [qid |-> e.qid, obj |-> e.obj, rev |-> e.rev, tries |-> 0]

\* A stage with nothing in flight is over.
NextStage ==
  /\ transfer_stage' = transfer_stage + 1
  /\ UNCHANGED thread

\* What the loop does after its sends: sleep until the next pass when the
\* transfer has become invalid or objects are in flight, else go on.
AfterSends(s) ==
  IF ~ valid' \/ \E e \in unacked' : Stage[e.obj] = s
  THEN thread' = "sleeping" /\ UNCHANGED transfer_stage
  ELSE NextStage

\* An object that has used up its retries raises and invalidates the transfer.
Expired(e) == e.tries > MAX_RETRIES_PER_OBJECT

\* Mutant: a retry is not counted.
Attempt_NotCounted(e) == [e EXCEPT !.tries = @]

Attempt(e) == [e EXCEPT !.tries = @ + 1]

\* The newest revision of o the destination answered for, once it has
\* answered for the entries done too.
Newest(done, o) ==
  LET revs == {e.rev : e \in {x \in done : x.obj = o}} \cup {processed[o]}
  IN CHOOSE r \in revs : \A q \in revs : q <= r

\* Mutant: the REST call's status is not looked at.
SendSynchronous_AnyStatus(s, flight) ==
  \E done \in SUBSET flight :
    /\ unacked' = unacked \ UnackedOf(s)
    /\ processed' = [o \in Object |-> Newest(done, o)]
    /\ UNCHANGED <<valid, sent, MassTransfer_QueryID_Mapping, remote_active>>

\* vnid_send, policy_send, subnet_send: a REST call per object.  Success
\* removes the object from unacked; failure leaves it there and invalidates
\* the transfer, so that no object of these stages is ever tried twice.
SendSynchronous(s, flight) ==
  \E done \in SUBSET flight :
    /\ unacked' = (unacked \ UnackedOf(s)) \cup {Attempt(e) : e \in flight \ done}
    /\ valid' = (valid /\ done = flight)
    /\ processed' = [o \in Object |-> Newest(done, o)]
    /\ UNCHANGED <<sent, MassTransfer_QueryID_Mapping, remote_active>>

\* endpoint_send reads the endpoint's tunnel without the global lock: it
\* raises when a registration of that endpoint has just taken it away.
SendRaises(e) == receiver.state = "moved" /\ receiver.obj = e.obj

\* tunnel_send, endpoint_send, multicast_send in query id order, up to an
\* object that raises, which leaves unacked.  A send that fails takes its
\* query id out of the mapping again; the object stays in flight.
SendDatagrams(s, flight) ==
  \E raised \in SUBSET {e \in flight : Expired(e) \/ SendRaises(e)} :
    LET before == {e \in flight : \A x \in raised : e.qid < x.qid}
    IN /\ Cardinality(raised) <= 1
       /\ \A e \in before : ~ Expired(e)
       /\ \E failed \in SUBSET (IF SendMayFail THEN before ELSE {}) :
            /\ sent' = sent \cup {[qid |-> e.qid, obj |-> e.obj, rev |-> e.rev] :
                                    e \in before \ failed}
            /\ MassTransfer_QueryID_Mapping' =
                 (MassTransfer_QueryID_Mapping
                    \cup {e.qid : e \in {x \in before \cup raised : ~ Expired(x)}})
                   \ {e.qid : e \in failed}
       /\ unacked' = (unacked \ UnackedOf(s))
                       \cup {Attempt(e) : e \in before}
                       \cup (flight \ (before \cup raised))
       /\ valid' = (valid /\ \A e \in raised : ~ Expired(e))
       /\ UNCHANGED destVars

\* One turn of transfer_objects' loop, the transfer's lock held: fill the
\* stage's window, then send or resend everything in flight.
TransferStage ==
  /\ thread = "running"
  /\ transfer_stage < transfer_finished
  /\ \E new \in PopItems(transfer_stage) :
       LET s == transfer_stage
           flight == UnackedOf(s) \cup {InFlight(e) : e \in new}
       IN /\ queue' = queue \ new
          /\ \/ /\ flight = {}
                /\ NextStage
                /\ UNCHANGED <<unacked, valid, netVars, ackVars, destVars>>
             \/ /\ flight # {}
                /\ s \notin AsyncStages
                /\ SendSynchronous(s, flight)
                /\ AfterSends(s)
                /\ UNCHANGED <<acks, mass_transfer_lock>>
             \/ /\ flight # {}
                /\ s \in AsyncStages
                /\ mass_transfer_lock = "free"
                /\ SendDatagrams(s, flight)
                /\ AfterSends(s)
                /\ UNCHANGED <<acks, mass_transfer_lock>>
             \/ /\ flight # {}
                /\ s \in AsyncStages
                /\ mass_transfer_lock = "lost"
                /\ unacked' = unacked \cup flight
                /\ thread' = "blocked"
                /\ UNCHANGED <<transfer_stage, valid, netVars, ackVars, destVars>>
  /\ UNCHANGED <<sourceVars, domainVars, envVars, receiver>>

\* transfer_objects finds no stage left: the transfer is complete.
TransferFinished ==
  /\ thread = "running"
  /\ transfer_stage = transfer_finished
  /\ thread' = "completed"
  /\ UNCHANGED <<transferVars, sourceVars, ackVars, domainVars, envVars,
                 netVars, destVars, receiver>>

----------------------------------------------------------------------------
(* Domain.mass_transfer_finish, on the transfer thread.                    *)

\* The locked part.  A completed transfer of a domain that still exists makes
\* the destination a forwarding node; anything else is a cancellation.  The
\* weight's accounting waits for mass_transfer_lock with the global lock held.
mass_transfer_finish ==
  /\ thread \in {"completed", "cancelled"}
  /\ GlobalLockFree
  /\ IF mass_transfer_lock = "lost"
     THEN thread' = "wedged" /\ UNCHANGED forward
     ELSE IF thread = "completed" /\ domain_valid
          THEN thread' = "activate" /\ forward' = TRUE
          ELSE thread' = "deactivate" /\ UNCHANGED forward
  /\ UNCHANGED <<transferVars, sourceVars, ackVars, mass_transfer, member,
                 envVars, netVars, destVars, receiver>>

\* dps_domain_activate_on_node: on failure, which the destination may not
\* have noticed, the forwarding node is dropped again.
ActivateOnNode ==
  /\ thread = "activate"
  /\ thread' = "clear"
  /\ \E ok \in BOOLEAN :
       /\ forward' = (forward /\ ok)
       /\ \/ remote_active' = TRUE
          \/ ~ ok /\ UNCHANGED remote_active
  /\ UNCHANGED <<transferVars, sourceVars, ackVars, mass_transfer, member,
                 envVars, netVars, processed, receiver>>

\* dps_domain_deactivate_on_node; its failure is only logged.
DeactivateOnNode ==
  /\ thread = "deactivate"
  /\ thread' = "clear"
  /\ UNCHANGED <<transferVars, sourceVars, ackVars, domainVars, envVars,
                 netVars, destVars, receiver>>

\* domain.mass_transfer = None.  A cancelled transfer (one that never reached
\* its last stage) then empties its dictionaries: delete.
ClearMassTransfer ==
  /\ thread = "clear" /\ GlobalLockFree
  /\ thread' = "ended"
  /\ mass_transfer' = FALSE
  /\ IF transfer_stage = transfer_finished
     THEN UNCHANGED <<queue, unacked>>
     ELSE queue' = {} /\ unacked' = {}
  /\ UNCHANGED <<transfer_stage, valid, sourceVars, ackVars, forward, member,
                 envVars, netVars, destVars, receiver>>

----------------------------------------------------------------------------
(* The destination and the acknowledgements.                               *)

\* The destination handles a datagram: it applies it or refuses it for good,
\* and answers for it; or it asks for a retry.
Destination(m) ==
  /\ \/ /\ processed' = [processed EXCEPT ![m.obj] = Largest(@, m.rev)]
        /\ acks' = acks \cup {[qid |-> m.qid, status |-> "done"]}
     \/ /\ acks' = acks \cup {[qid |-> m.qid, status |-> "retry"]}
        /\ UNCHANGED processed
  /\ UNCHANGED <<transferVars, sourceVars, ackVars, domainVars, envVars, sent,
                 remote_active, thread, receiver>>

\* transfer_ack: any status but "retry" takes the query id out of unacked.
transfer_ack(a) ==
  IF a.status = "retry"
  THEN UNCHANGED unacked
  ELSE /\ ObjectLockFree
       /\ unacked' = {e \in unacked : ~ (e.qid = a.qid /\ Stage[e.obj] \in AsyncStages)}

\* Transfer_Ack on the receiver thread.  An unknown query id leaves the loop
\* with mass_transfer_lock taken; the next acknowledgement then stops the
\* receiver thread for good.
Transfer_Ack(a) ==
  /\ receiver.state = "idle"
  /\ \/ /\ mass_transfer_lock = "free"
        /\ a.qid \in MassTransfer_QueryID_Mapping
        /\ transfer_ack(a)
        /\ UNCHANGED <<mass_transfer_lock, receiver>>
     \/ /\ mass_transfer_lock = "free"
        /\ a.qid \notin MassTransfer_QueryID_Mapping
        /\ mass_transfer_lock' = "lost"
        /\ UNCHANGED <<unacked, receiver>>
     \/ /\ mass_transfer_lock = "lost"
        /\ receiver' = [Idle EXCEPT !.state = "blocked"]
        /\ UNCHANGED <<unacked, mass_transfer_lock>>
  /\ UNCHANGED <<queue, transfer_stage, valid, sourceVars,
                 MassTransfer_QueryID_Mapping, domainVars, envVars, netVars,
                 destVars, thread>>

----------------------------------------------------------------------------
(* The cluster and the management console.                                 *)

\* Cluster.mass_transfer_complete_synchronous: the destination's mapping
\* arrives, it becomes a replica and is no longer a forwarding node.
MappingArrives ==
  /\ remote_active /\ ~ member /\ GlobalLockFree
  /\ member' = TRUE /\ forward' = FALSE
  /\ UNCHANGED <<transferVars, sourceVars, ackVars, mass_transfer, envVars,
                 netVars, destVars, thread, receiver>>

\* Domain.delete while the transfer runs.
DomainDeleted ==
  /\ domain_valid /\ GlobalLockFree
  /\ domain_valid' = FALSE
  /\ UNCHANGED <<transferVars, sourceVars, ackVars, domainVars, remote_up,
                 global_lock, netVars, destVars, thread, receiver>>

\* The cluster declares the destination down.
RemoteDown ==
  /\ remote_up
  /\ remote_up' = FALSE
  /\ UNCHANGED <<transferVars, sourceVars, ackVars, domainVars, domain_valid,
                 global_lock, netVars, destVars, thread, receiver>>

----------------------------------------------------------------------------
TransferThread ==
  \/ transfer_thread \/ TransferStage \/ TransferFinished
  \/ mass_transfer_finish \/ ActivateOnNode \/ DeactivateOnNode
  \/ ClearMassTransfer

Next ==
  \/ TransferThread
  \/ Vmotion \/ Update
  \/ \E o \in Object : Admit(o) \/ VnidOrPolicyUpdate(o) \/ IP_Subnet_Update(o)
  \/ \E m \in sent : Destination(m)
  \/ \E a \in acks : Transfer_Ack(a)
  \/ MappingArrives
  \/ DomainDeleted
  \/ RemoteDown

Spec == Init /\ [][Next]_vars

\* The timer re-arms the transfer thread after every unfinished pass, REST
\* calls time out, and a handler that was admitted runs to its end.
Fairness == WF_vars(TransferThread) /\ WF_vars(Update)

FairSpec == Spec /\ Fairness

----------------------------------------------------------------------------
(* Properties.                                                             *)

\* Type correctness of the transfer's state: the dictionaries hold entries of
\* the domain's objects, tries never pass the retry limit by more than one.
TypeOK ==
  /\ version \in [Object -> 0 .. MaxRev]
  /\ accepted \in [Object -> 0 .. MaxRev]
  /\ queued \in [Object -> 0 .. MaxRev]
  /\ \A e \in queue : /\ e.obj \in Object
                      /\ e.rev \in 1 .. MaxRev
                      /\ e.qid \in Nat
  /\ \A e \in unacked : /\ e.obj \in Object
                        /\ e.rev \in 1 .. MaxRev
                        /\ e.qid \in Nat
                        /\ e.tries \in 0 .. MAX_RETRIES_PER_OBJECT + 1
  /\ transfer_stage \in transfer_vnids .. transfer_finished
  /\ valid \in BOOLEAN
  /\ thread \in {"sleeping", "running", "completed", "cancelled", "activate",
                 "deactivate", "clear", "ended", "blocked", "wedged"}
  /\ QueryID \in Nat
  /\ MassTransfer_QueryID_Mapping \subseteq Nat
  /\ mass_transfer_lock \in {"free", "lost"}
  /\ global_lock \in {"free", "lost"}
  /\ mass_transfer \in BOOLEAN /\ forward \in BOOLEAN /\ member \in BOOLEAN
  /\ domain_valid \in BOOLEAN /\ remote_up \in BOOLEAN
  /\ receiver \in [state : {"idle", "update", "moved", "blocked"},
                   obj : Object \cup {NoObject}, forward : BOOLEAN]
  /\ \A m \in sent : m.obj \in Object /\ m.rev \in 1 .. MaxRev /\ m.qid \in Nat
  /\ acks \subseteq [qid : Nat, status : {"done", "retry"}]
  /\ processed \in [Object -> 0 .. MaxRev]
  /\ remote_active \in BOOLEAN

\* The stage index never passes work: everything still queued or in flight
\* belongs to the current stage or a later one, whatever registrations and
\* acknowledgements came in between (transfer_objects, register_delta).
NothingBehindStage ==
  \A e \in queue \cup unacked : transfer_stage <= Stage[e.obj]

\* A transfer that reaches its end has delivered: for every object, the
\* newest revision handed to it (the starting set, or a delta that was not
\* refused) was answered for by the destination, unless a registration of the
\* object has replaced that revision since or is doing so now.
DeltaDelivered ==
  transfer_stage = transfer_finished =>
    \A o \in Object : \/ queued[o] <= processed[o]
                      \/ version[o] > queued[o]
                      \/ receiver.state = "moved" /\ receiver.obj = o

\* The window of a stage is never exceeded, going back to an earlier stage
\* included: the "Accounting issue" transfer_objects logs cannot happen.
WindowRespected ==
  \A s \in Stages : Cardinality(UnackedOf(s)) <= unacked_max[s]

\* Once registrations are refused for a transfer they stay refused until it
\* is over: no step reopens registration_allow.
ClosedStaysClosed ==
  [][~ registration_allow => ~ registration_allow']_vars

\* What stops a transfer for good: mass_transfer_lock left taken by an
\* acknowledgement of an unknown query id, or the global lock by a subnet.
LockLost == mass_transfer_lock = "lost" \/ global_lock = "lost"

\* An object in flight does not stay so for ever: it is acknowledged, or the
\* transfer gives up and drops it (transfer_thread "check for un-acked
\* messages and re-transmits them"), unless a lock is lost.
UnackedResolved == unacked # {} ~> unacked = {} \/ LockLost

\* Every transfer comes to an end, one way or the other, unless a lock is lost:
\* mass_transfer_finish "will be called by the Mass Transfer Callback when mass
\* transfer of data to remote node is done", and the domain may be transferred
\* again.
TransferEnds == <>(thread = "ended" \/ LockLost)

\* Normal registrations go to the nodes of the domain "+ other nodes to whom
\* mass transfer has finished" (ReplicationDetermineDPSNodesPYTHON): while the
\* destination is such a node, nothing a client was told is registered is
\* missing there.
ForwardingCoversAccepted ==
  forward => \A o \in Object : accepted[o] <= processed[o]
=============================================================================
