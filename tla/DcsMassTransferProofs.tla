----------------------- MODULE DcsMassTransferProofs -----------------------
(***************************************************************************)
(* What a mass transfer keeps, for any number of objects, any windows and  *)
(* any number of retries: the window of a stage is respected, a transfer   *)
(* that refuses registrations goes on refusing them, no stage leaves work  *)
(* behind, and a transfer that reaches its end has delivered.              *)
(*                                                                         *)
(* The last two have hypotheses.  LargeWindows, that the windows of the    *)
(* datagram stages are larger than one, is what the code's windows give.   *)
(* SynchronousFit, that a stage sent by REST call never holds more than    *)
(* fits into one window, is not ensured by the code, and without it the    *)
(* two do not hold.                                                        *)
(***************************************************************************)
EXTENDS DcsMassTransferSends

\* A leaf that names no prover is tried with Zenon, then with SMT.
USE ZenonT(20), SMTT(20)

\* The time a leaf has that names no prover: SMT first, then Zenon

----------------------------------------------------------------------------
(* Registrations, the management console's changes, the destination        *)

\* What an update needs to keep besides the dictionaries
LEMMA RegistrationKeeps ==
  ASSUME IInv, UNCHANGED <<unacked, valid, thread, ackVars, domainVars, netVars>>,
         UNCHANGED <<domain_valid, remote_up, remote_active>>,
         global_lock' \in {"free", "lost"},
         version' \in [Object -> 0 .. MaxRev], accepted' \in [Object -> 0 .. MaxRev],
         queued' \in [Object -> 0 .. MaxRev], processed' \in [Object -> 0 .. MaxRev],
         Ids', QueueTyped', IsFiniteSet(queue'), QueryID' \in Nat,
         transfer_stage' \in transfer_vnids .. transfer_finished,
         transfer_stage' = transfer_finished => valid',
         receiver' \in [state : {"idle", "update", "moved", "blocked"},
                        obj : Object \cup {NoObject}, forward : BOOLEAN],
         receiver'.state \in {"update", "moved"} =>
           /\ receiver'.obj \in Object /\ Stage[receiver'.obj] \in AsyncStages
           /\ version'[receiver'.obj] < MaxRev
  PROVE  IInv'
  <1>1. TypeOK'
    BY SMT DEF IInv, TypeOK, QueueTyped, ackVars, domainVars, netVars
  <1>2. WindowRespected'
    BY ZenonT(30) DEF IInv, Aux, WindowRespected, UnackedOf
  <1>3. Aux'
    BY <1>2 DEF IInv, Aux, UnackedTyped, domainVars
  <1> QED
    BY <1>1, <1>3 DEF IInv

\* An update that leaves the dictionaries alone
LEMMA SameDictionaries ==
  ASSUME IInv, UNCHANGED <<queue, unacked, valid, sent, acks, QueryID, transfer_stage>>
  PROVE  /\ Ids' /\ QueueTyped' /\ IsFiniteSet(queue') /\ QueryID' \in Nat
         /\ transfer_stage' \in transfer_vnids .. transfer_finished
         /\ transfer_stage' = transfer_finished => valid'
  <1>1. Ids'
    BY DEF IInv, Ids
  <1>2. QueueTyped'
    BY DEF IInv, TypeOK, QueueTyped
  <1> QED
    BY <1>1, <1>2 DEF IInv, TypeOK, Aux

LEMMA UpdateStep == ASSUME IInv, Update PROVE IInv'
  <1> DEFINE o == receiver.obj
             r == version[o] + 1
  <1>0. /\ version \in [Object -> 0 .. MaxRev] /\ accepted \in [Object -> 0 .. MaxRev]
        /\ queued \in [Object -> 0 .. MaxRev] /\ processed \in [Object -> 0 .. MaxRev]
        /\ global_lock \in {"free", "lost"} /\ MaxRev \in Nat
    BY MassTransferAssumption DEF IInv, TypeOK
  <1>1. /\ receiver.state \in {"update", "moved"} /\ receiver' = Idle
        /\ UNCHANGED <<unacked, valid, thread, ackVars, domainVars, netVars>>
        /\ UNCHANGED <<domain_valid, remote_up, global_lock, sent, acks>>
    BY DEF Update, envVars, netVars
  <1>2. o \in Object /\ version[o] \in 0 .. MaxRev /\ version[o] < MaxRev
    BY <1>0, <1>1 DEF IInv, Aux
  <1>3. r \in 1 .. MaxRev
    BY <1>0, <1>2, SMT
  <1>4. /\ receiver' \in [state : {"idle", "update", "moved", "blocked"},
                          obj : Object \cup {NoObject}, forward : BOOLEAN]
        /\ receiver'.state \notin {"update", "moved"}
    BY <1>1 DEF Idle
  <1>5. version' \in [Object -> 0 .. MaxRev]
    <2>1. version' = version \/ version' = [version EXCEPT ![o] = r]
      BY DEF Update
    <2> HIDE DEF o, r
    <2> QED
      BY <1>0, <1>3, <2>1, SMT
  <1>6. CASE UNCHANGED <<accepted, queued, QueryID, queue, transfer_stage, destVars>>
    BY <1>0, <1>1, <1>4, <1>5, <1>6, SameDictionaries, RegistrationKeeps DEF destVars
  <1>7. CASE Deliver(o, r)
    <2> HIDE DEF o, r
    <2>1. PICK stored \in IF receiver.forward THEN BOOLEAN ELSE {FALSE} :
            /\ processed' = [processed EXCEPT ![o] = IF stored THEN Largest(@, r) ELSE @]
            /\ UNCHANGED remote_active
            /\ \/ UpdateTransferring(o, r, stored = receiver.forward)
               \/ UpdateMulticast(o)
               \/ UpdateAlone(o, r, stored = receiver.forward)
      BY <1>7, ZenonT(30) DEF Deliver
    <2>2. processed' \in [Object -> 0 .. MaxRev]
      <3>1. Largest(processed[o], r) \in 0 .. MaxRev /\ processed[o] \in 0 .. MaxRev
        BY <1>0, <1>2, <1>3, SMT DEF Largest
      <3> QED
        BY <1>0, <2>1, <3>1, ZenonT(30)
    <2>3. CASE UpdateTransferring(o, r, stored = receiver.forward)
      <3>1. Stage[o] # transfer_multicasts /\ register_delta(o, r)
        BY <2>3 DEF UpdateTransferring
      <3>2. accepted' \in [Object -> 0 .. MaxRev]
        <4>1. accepted' = [accepted EXCEPT ![o] = r] \/ accepted' = [accepted EXCEPT ![o] = accepted[o]]
          BY <2>3, ZenonT(30) DEF UpdateTransferring
        <4> QED
          BY <1>0, <1>2, <1>3, <4>1, SMT
      <3>3. /\ Ids' /\ QueueTyped' /\ IsFiniteSet(queue') /\ QueryID' \in Nat
            /\ queued' \in [Object -> 0 .. MaxRev]
            /\ transfer_stage' \in transfer_vnids .. transfer_finished
            /\ transfer_stage' = transfer_finished => valid'
        BY <1>1, <1>2, <1>3, <3>1, DeltaKeeps
      <3> QED
        BY <1>0, <1>1, <1>4, <1>5, <2>1, <2>2, <3>2, <3>3, RegistrationKeeps
    <2>4. CASE UpdateMulticast(o)
      BY <1>0, <1>1, <1>4, <1>5, <2>1, <2>2, <2>4, SameDictionaries, RegistrationKeeps
         DEF UpdateMulticast
    <2>5. CASE UpdateAlone(o, r, stored = receiver.forward)
      <3>1. accepted' \in [Object -> 0 .. MaxRev]
        <4>1. accepted' = [accepted EXCEPT ![o] = r] \/ accepted' = [accepted EXCEPT ![o] = accepted[o]]
          BY <2>5, ZenonT(30) DEF UpdateAlone
        <4> QED
          BY <1>0, <1>2, <1>3, <4>1, SMT
      <3>2. UNCHANGED <<queue, transfer_stage, queued, QueryID>>
        BY <2>5 DEF UpdateAlone
      <3> QED
        BY <1>0, <1>1, <1>4, <1>5, <2>1, <2>2, <3>1, <3>2, SameDictionaries, RegistrationKeeps
    <2> QED
      BY <2>1, <2>3, <2>4, <2>5
  <1> QED
    BY <1>6, <1>7 DEF Update

LEMMA ControllerStep ==
  ASSUME IInv, NEW o \in Object, VnidOrPolicyUpdate(o) \/ IP_Subnet_Update(o)
  PROVE  IInv'
  <1>0. /\ version \in [Object -> 0 .. MaxRev] /\ accepted \in [Object -> 0 .. MaxRev]
        /\ queued \in [Object -> 0 .. MaxRev] /\ processed \in [Object -> 0 .. MaxRev]
        /\ global_lock \in {"free", "lost"} /\ MaxRev \in Nat
        /\ receiver \in [state : {"idle", "update", "moved", "blocked"},
                         obj : Object \cup {NoObject}, forward : BOOLEAN]
    BY MassTransferAssumption, ZenonT(30) DEF IInv, TypeOK
  <1>1. ControllerUpdate(o)
    BY ZenonT(30) DEF VnidOrPolicyUpdate, IP_Subnet_Update
  <1>2. /\ Stage[o] \notin AsyncStages /\ version[o] < MaxRev
        /\ version' = [version EXCEPT ![o] = version[o] + 1]
        /\ UNCHANGED <<unacked, valid, thread, ackVars, domainVars, netVars>>
        /\ UNCHANGED <<domain_valid, remote_up, remote_active>>
        /\ UNCHANGED <<accepted, processed, receiver, sent, acks>>
    BY <1>1 DEF ControllerUpdate, destVars, netVars
  <1>3. version[o] + 1 \in 1 .. MaxRev
    BY <1>0, <1>2, SMT
  <1>4. version' \in [Object -> 0 .. MaxRev]
    BY <1>0, <1>2, <1>3, SMT
  <1>5. receiver.state \in {"update", "moved"} =>
           /\ receiver.obj \in Object /\ Stage[receiver.obj] \in AsyncStages
           /\ version'[receiver.obj] < MaxRev
    BY <1>0, <1>2 DEF IInv, Aux
  <1>6. global_lock' \in {"free", "lost"}
    BY <1>0 DEF VnidOrPolicyUpdate, IP_Subnet_Update
  <1>7. CASE UNCHANGED <<queue, transfer_stage, queued, QueryID>>
    BY <1>0, <1>2, <1>4, <1>5, <1>6, <1>7, SameDictionaries, RegistrationKeeps
  <1>8. CASE register_delta(o, version[o] + 1)
    <2>1. Stage[o] # transfer_multicasts
      BY <1>2, StageNumbers, SMT
    <2>2. /\ Ids' /\ QueueTyped' /\ IsFiniteSet(queue') /\ QueryID' \in Nat
          /\ queued' \in [Object -> 0 .. MaxRev]
          /\ transfer_stage' \in transfer_vnids .. transfer_finished
          /\ transfer_stage' = transfer_finished => valid'
      BY <1>2, <1>3, <1>8, <2>1, DeltaKeeps
    <2> QED
      BY <1>0, <1>2, <1>4, <1>5, <1>6, <2>2, RegistrationKeeps
  <1> QED
    BY <1>7, <1>8 DEF VnidOrPolicyUpdate, IP_Subnet_Update

LEMMA ClearStep == ASSUME IInv, ClearMassTransfer PROVE IInv'
  <1>1. /\ thread' = "ended" /\ mass_transfer' = FALSE
        /\ UNCHANGED <<transfer_stage, valid, sourceVars, ackVars, forward, member,
                       envVars, netVars, destVars, receiver>>
        /\ \/ queue' = queue /\ unacked' = unacked
           \/ queue' = {} /\ unacked' = {}
    BY DEF ClearMassTransfer
  <1>2. TypeOK'
    <2>1. TypeOK /\ queue' \subseteq queue /\ unacked' \subseteq unacked
      BY <1>1 DEF IInv
    <2>2. UNCHANGED <<version, accepted, queued, QueryID, MassTransfer_QueryID_Mapping,
                      mass_transfer_lock, domain_valid, remote_up, global_lock, sent, acks,
                      processed, remote_active>>
      BY <1>1 DEF sourceVars, ackVars, envVars, netVars, destVars
    <2>3. /\ \A e \in queue' : /\ e.obj \in Object
                             /\ e.rev \in 1 .. MaxRev
                             /\ e.qid \in Nat
          /\ \A e \in unacked' : /\ e.obj \in Object
                               /\ e.rev \in 1 .. MaxRev
                               /\ e.qid \in Nat
                               /\ e.tries \in 0 .. MAX_RETRIES_PER_OBJECT + 1
      BY <2>1 DEF TypeOK
    <2>4. UNCHANGED <<transfer_stage, valid, forward, member, receiver>>
      BY <1>1
    <2>5. mass_transfer' \in BOOLEAN
      BY <1>1, ZenonT(30)
    <2>6. thread' \in {"sleeping", "running", "completed", "cancelled", "activate",
                       "deactivate", "clear", "ended", "blocked", "wedged"}
      BY <1>1
    <2> QED
      BY <2>1, <2>2, <2>3, <2>4, <2>5, <2>6, SMT DEF TypeOK
  <1>3. WindowRespected'
    <2>1. CASE unacked' = unacked
      BY <2>1 DEF IInv, Aux, WindowRespected, UnackedOf
    <2>2. CASE unacked' = {}
      <3>1. \A s \in Stages : UnackedOf(s)' = {}
        BY <2>2 DEF UnackedOf
      <3> QED
        BY <3>1, FS_EmptySet, StageNumbers, SMT DEF WindowRespected
    <2> QED
      BY <1>1, <2>1, <2>2
  <1>4. IsFiniteSet(queue') /\ IsFiniteSet(unacked') /\ UnackedTyped'
    BY <1>1, FS_EmptySet DEF IInv, Aux, UnackedTyped
  <1>5. Aux'
    BY <1>1, <1>3, <1>4 DEF IInv, Aux, sourceVars
  <1>6. Ids'
    BY <1>1 DEF IInv, Ids, sourceVars, netVars
  <1> QED
    BY <1>2, <1>5, <1>6 DEF IInv

LEMMA DestinationStep == ASSUME IInv, NEW m \in sent, Destination(m) PROVE IInv'
  <1>1. /\ UNCHANGED <<transferVars, sourceVars, ackVars, domainVars, envVars, sent,
                       remote_active, thread, receiver>>
        /\ \E x \in {"done", "retry"} : acks' = acks \cup {[qid |-> m.qid, status |-> x]}
        /\ \/ processed' = processed
           \/ processed' = [processed EXCEPT ![m.obj] = Largest(processed[m.obj], m.rev)]
    BY DEF Destination
  <1>2. m.obj \in Object /\ m.rev \in 1 .. MaxRev /\ m.qid \in Nat /\ m.qid < QueryID
        /\ processed \in [Object -> 0 .. MaxRev]
        /\ acks \subseteq [qid : Nat, status : {"done", "retry"}]
    BY DEF IInv, TypeOK, Ids
  <1>3. processed' \in [Object -> 0 .. MaxRev]
    <2>1. Largest(processed[m.obj], m.rev) \in 0 .. MaxRev
      BY <1>2, MassTransferAssumption, SMT DEF Largest
    <2> QED
      BY <1>1, <1>2, <2>1
  <1>4. /\ acks' \subseteq [qid : Nat, status : {"done", "retry"}]
        /\ \A a \in acks' : a \in acks \/ a.qid = m.qid
    BY <1>1, <1>2, SMT
  <1>5. TypeOK'
    BY <1>1, <1>3, <1>4, SMT DEF IInv, TypeOK, transferVars, sourceVars, ackVars, domainVars,
       envVars
  <1>6. WindowRespected'
    BY <1>1, ZenonT(30) DEF IInv, Aux, WindowRespected, UnackedOf, transferVars
  <1>7. Aux'
    BY <1>1, <1>6, ZenonT(30) DEF IInv, Aux, UnackedTyped, transferVars, sourceVars, domainVars
  <1>8. Ids'
    BY <1>1, <1>2, <1>4, ZenonT(30) DEF IInv, Ids, transferVars, sourceVars
  <1> QED
    BY <1>5, <1>7, <1>8 DEF IInv

LEMMA AckStep == ASSUME IInv, NEW a \in acks, Transfer_Ack(a) PROVE IInv'
  <1>1. /\ UNCHANGED <<queue, transfer_stage, valid, sourceVars, MassTransfer_QueryID_Mapping,
                       domainVars, envVars, netVars, destVars, thread>>
        /\ unacked' \subseteq unacked
        /\ mass_transfer_lock' \in {"free", "lost"}
        /\ receiver.state = "idle"
        /\ receiver' = receiver \/ receiver' = [Idle EXCEPT !.state = "blocked"]
    BY DEF Transfer_Ack, transfer_ack, IInv, TypeOK
  <1>2. /\ receiver' \in [state : {"idle", "update", "moved", "blocked"},
                          obj : Object \cup {NoObject}, forward : BOOLEAN]
        /\ receiver'.state \notin {"update", "moved"}
    BY <1>1, ZenonT(30) DEF IInv, TypeOK, Idle
  <1>3. TypeOK'
    BY <1>1, <1>2, SMT DEF IInv, TypeOK, sourceVars, domainVars, envVars, netVars, destVars
  <1>4. WindowRespected'
    <2> SUFFICES ASSUME NEW s \in Stages PROVE Cardinality(UnackedOf(s)') <= unacked_max[s]
      BY DEF WindowRespected
    <2>1. UnackedOf(s)' \subseteq UnackedOf(s)
      BY <1>1 DEF UnackedOf
    <2>2. IsFiniteSet(UnackedOf(s)) /\ Cardinality(UnackedOf(s)) <= unacked_max[s]
      BY FS_Subset DEF IInv, Aux, WindowRespected, UnackedOf
    <2>3. IsFiniteSet(UnackedOf(s)') /\ Cardinality(UnackedOf(s)') <= Cardinality(UnackedOf(s))
      BY <2>1, <2>2, FS_Subset
    <2>4. Cardinality(UnackedOf(s)') \in Nat /\ Cardinality(UnackedOf(s)) \in Nat /\ unacked_max[s] \in Nat
      BY <2>2, <2>3, FS_CardinalityType, StageNumbers
    <2> QED
      BY <2>2, <2>3, <2>4, SMT
  <1>5. IsFiniteSet(unacked')
    BY <1>1, FS_Subset DEF IInv, Aux
  <1>6. Aux'
    BY <1>1, <1>2, <1>4, <1>5 DEF IInv, Aux, UnackedTyped, domainVars
  <1>7. Ids'
    BY <1>1, SMT DEF IInv, Ids, sourceVars, netVars
  <1> QED
    BY <1>3, <1>6, <1>7 DEF IInv

LEMMA NextStep == ASSUME IInv, [Next]_vars PROVE IInv'
  <1>1. CASE UNCHANGED vars
    <2>1. WindowRespected'
      BY <1>1 DEF IInv, Aux, WindowRespected, UnackedOf, vars, transferVars
    <2>2. Aux'
      BY <1>1, <2>1 DEF IInv, Aux, UnackedTyped, vars, transferVars, sourceVars, domainVars
    <2>3. TypeOK' /\ Ids'
      BY <1>1, SMT DEF IInv, TypeOK, Ids, vars, transferVars, sourceVars, ackVars, domainVars,
         envVars, netVars, destVars
    <2> QED
      BY <2>2, <2>3 DEF IInv
  <1>2. CASE TransferThread
    BY <1>2, OtherQuietStep, TransferStageStep, ClearStep DEF TransferThread
  <1>3. CASE Vmotion \/ Update
    BY <1>3, VmotionStep, UpdateStep
  <1>4. CASE \E o \in Object : Admit(o) \/ VnidOrPolicyUpdate(o) \/ IP_Subnet_Update(o)
    BY <1>4, AdmitStep, ControllerStep
  <1>5. CASE \E m \in sent : Destination(m)
    BY <1>5, DestinationStep
  <1>6. CASE \E a \in acks : Transfer_Ack(a)
    BY <1>6, AckStep
  <1>7. CASE MappingArrives \/ DomainDeleted \/ RemoteDown
    BY <1>7, OtherQuietStep
  <1> QED
    BY <1>1, <1>2, <1>3, <1>4, <1>5, <1>6, <1>7 DEF Next

\* The dictionaries of a transfer stay well formed: entries of the domain's
\* objects, told apart by their query ids, and tries within the retry limit.
THEOREM TransferTypeTheorem == Spec => [](TypeOK /\ Ids)
  <1>1. Spec => []IInv
    BY InitIInv, NextStep, PTL DEF Spec
  <1>2. IInv => TypeOK /\ Ids
    BY DEF IInv
  <1> QED
    BY <1>1, <1>2, PTL

\* The window of a stage is respected whatever registrations and
\* acknowledgements come in between.
THEOREM WindowTheorem == Spec => []WindowRespected
  <1>1. Spec => []IInv
    BY InitIInv, NextStep, PTL DEF Spec
  <1>2. IInv => WindowRespected
    BY DEF IInv, Aux
  <1> QED
    BY <1>1, <1>2, PTL

----------------------------------------------------------------------------
(* Closed to registrations                                                 *)

\* A step adds to the dictionaries only while registrations are open.
LEMMA QueueGrowsOpen ==
  ASSUME [Next]_vars
  PROVE  /\ domain_valid' = domain_valid \/ domain_valid' = FALSE
         /\ queue' \subseteq queue \/ registration_allow
  <1>1. CASE UNCHANGED vars
    BY <1>1 DEF vars, envVars, transferVars
  <1>2. CASE TransferThread
    <2>1. domain_valid' = domain_valid
      BY <1>2 DEF TransferThread, transfer_thread, TransferStage, TransferFinished,
                  mass_transfer_finish, ActivateOnNode, DeactivateOnNode, ClearMassTransfer, envVars
    <2>2. CASE TransferStage
      BY <2>1, <2>2 DEF TransferStage
    <2>3. CASE ClearMassTransfer
      BY <2>1, <2>3 DEF ClearMassTransfer
    <2> QED
      BY <1>2, <2>1, <2>2, <2>3 DEF TransferThread, transfer_thread, TransferFinished,
         mass_transfer_finish, ActivateOnNode, DeactivateOnNode, transferVars
  <1>3. CASE Vmotion
    BY <1>3 DEF Vmotion, transferVars, envVars
  <1>4. CASE Update
    <2>1. domain_valid' = domain_valid
      BY <1>4 DEF Update, envVars
    <2>2. queue' = queue \/ registration_allow
      BY <1>4, ZenonT(30) DEF Update, Deliver, UpdateTransferring, UpdateMulticast, UpdateAlone,
                         register_delta
    <2> QED
      BY <2>1, <2>2
  <1>5. CASE \E o \in Object : Admit(o) \/ VnidOrPolicyUpdate(o) \/ IP_Subnet_Update(o)
    <2>1. PICK o \in Object : Admit(o) \/ VnidOrPolicyUpdate(o) \/ IP_Subnet_Update(o)
      BY <1>5
    <2>2. domain_valid' = domain_valid
      BY <2>1 DEF Admit, VnidOrPolicyUpdate, IP_Subnet_Update, ControllerUpdate, envVars
    <2>3. queue' = queue \/ registration_allow
      BY <2>1, ZenonT(30) DEF Admit, VnidOrPolicyUpdate, IP_Subnet_Update, register_delta, transferVars
    <2> QED
      BY <2>2, <2>3
  <1>6. CASE \E m \in sent : Destination(m)
    BY <1>6 DEF Destination, transferVars, envVars
  <1>7. CASE \E a \in acks : Transfer_Ack(a)
    BY <1>7 DEF Transfer_Ack, envVars
  <1>8. CASE MappingArrives \/ DomainDeleted \/ RemoteDown
    BY <1>8 DEF MappingArrives, DomainDeleted, RemoteDown, transferVars, envVars
  <1> QED
    BY <1>1, <1>2, <1>3, <1>4, <1>5, <1>6, <1>7, <1>8, ZenonT(30) DEF Next

\* A transfer that refuses registrations (registration_allow) goes on
\* refusing them, whatever thread moves next.
THEOREM ClosedTheorem == Spec => ClosedStaysClosed
  <1>1. [Next]_vars => [~ registration_allow => ~ registration_allow']_vars
    <2> SUFFICES ASSUME [Next]_vars, ~ registration_allow PROVE ~ registration_allow'
      OBVIOUS
    <2>1. /\ domain_valid' = domain_valid \/ domain_valid' = FALSE
          /\ queue' \subseteq queue
      BY QueueGrowsOpen, ZenonT(30)
    <2> QED
      BY <2>1 DEF registration_allow
  <1> QED
    BY <1>1, PTL DEF Spec, ClosedStaysClosed

----------------------------------------------------------------------------
(* No stage leaves work behind                                             *)

\* A stage that is over has nothing waiting: its window took everything, or
\* held more than the one object that was given up.
LEMMA StageOver ==
  ASSUME IInv, LargeWindows, SynchronousFit, valid, NEW s \in Stages, NEW new \in PopItems(s),
         s \notin AsyncStages \/ Flight(s, new) = {} \/ \E x : Flight(s, new) = {x}
  PROVE  QueueOf(s) \subseteq new
  <1> SUFFICES ASSUME ~(QueueOf(s) \subseteq new) PROVE FALSE
    OBVIOUS
  <1> DEFINE Q == QueueOf(s)
             U == UnackedOf(s)
             F == Flight(s, new)
  <1>0. /\ Ids /\ IsFiniteSet(queue) /\ IsFiniteSet(unacked)
        /\ \A e \in unacked : Stage[e.obj] \in AsyncStages
        /\ unacked_max[s] \in Nat
    BY StageNumbers DEF IInv, Aux
  <1>1. /\ Q \subseteq queue /\ U \subseteq unacked /\ U \subseteq F
        /\ \A e \in U : Stage[e.obj] = s
    BY DEF QueueOf, UnackedOf, Flight
  <1>2. IsFiniteSet(Q) /\ IsFiniteSet(U) /\ Cardinality(Q) \in Nat /\ Cardinality(U) \in Nat
    BY <1>0, <1>1, FS_Subset, FS_CardinalityType
  <1>3. /\ new \subseteq queue /\ IsFiniteSet(new) /\ \A e \in new : Stage[e.obj] = s
        /\ Cardinality(new) = unacked_max[s] - Cardinality(U)
        /\ F # {}
    BY FlightFits
  <1>4. new \subseteq Q
    BY <1>3 DEF QueueOf
  <1>5. CASE s \notin AsyncStages
    <2>1. U = {}
      BY <1>0, <1>1, <1>5
    <2>2. Cardinality(U) = 0
      BY <2>1, FS_EmptySet
    <2>3. Cardinality(Q) <= unacked_max[s]
      BY <1>5 DEF SynchronousFit
    <2>4. Cardinality(new) <= Cardinality(Q) /\ (Cardinality(new) = Cardinality(Q) => new = Q)
      BY <1>2, <1>4, FS_Subset
    <2>5. Cardinality(new) = Cardinality(Q)
      BY <1>0, <1>2, <1>3, <2>2, <2>3, <2>4, SMT
    <2> QED
      BY <2>4, <2>5
  <1>6. CASE s \in AsyncStages
    <2>1. PICK x : F = {x}
      BY <1>3, <1>6
    <2>2. unacked_max[s] > 1
      BY <1>6 DEF LargeWindows
    <2>3. \A e \in new : e.qid = x.qid
      BY <2>1, FlightTyped, SMT
    <2>4. \A e, f \in new : e = f
      BY <1>0, <1>3, <2>3 DEF Ids
    <2>5. CASE U = {}
      <3>1. Cardinality(U) = 0
        BY <2>5, FS_EmptySet
      <3>2. new = {} \/ \E e : new = {e}
        BY <2>4, SMT
      <3>3. Cardinality(new) = 0 \/ Cardinality(new) = 1
        BY <1>3, <3>2, FS_EmptySet, FS_Singleton
      <3> QED
        BY <1>0, <1>3, <2>2, <3>1, <3>3, SMT
    <2>6. CASE U # {}
      <3>1. U = {x}
        BY <1>1, <2>1, <2>6
      <3>2. new = {}
        BY <1>0, <1>1, <1>3, <2>3, <3>1, ZenonT(30) DEF Ids
      <3>3. Cardinality(U) = 1 /\ Cardinality(new) = 0
        BY <1>2, <3>1, <3>2, FS_EmptySet, FS_Singleton
      <3> QED
        BY <1>0, <1>3, <2>2, <3>3, SMT
    <2> QED
      BY <2>5, <2>6
  <1> QED
    BY <1>5, <1>6

\* What a turn of the loop does to the entries, for the two theorems below.
LEMMA StageStepBehind ==
  ASSUME IInv, LargeWindows, SynchronousFit, NothingBehindStage, TransferStage
  PROVE  NothingBehindStage'
  <1> DEFINE s == transfer_stage
  <1>1. thread = "running" /\ valid /\ s \in Stages
    BY TurnTaken
  <1>2. PICK new \in PopItems(s) : \E rest : StageTurn(s, new, rest)
    BY TurnTaken
  <1>3. PICK rest : StageTurn(s, new, rest)
    BY <1>2
  <1>4. /\ queue' = queue \ new /\ unacked' = (unacked \ UnackedOf(s)) \cup rest
        /\ \A e \in rest : \E f \in Flight(s, new) : e.obj = f.obj
        /\ \/ transfer_stage' = s + 1 /\ rest = {}
           \/ transfer_stage' = s
        /\ rest = {} => \/ s \notin AsyncStages
                        \/ Flight(s, new) = {}
                        \/ \E x : Flight(s, new) = {x}
    BY <1>3, ZenonT(30) DEF StageTurn
  <1>5. \A e \in rest : Stage[e.obj] = s
    BY <1>1, <1>4, FlightTyped, SMT
  <1>6. /\ \A e \in queue \cup unacked : e.obj \in Object /\ Stage[e.obj] \in 1 .. 6
        /\ \A e \in queue \cup unacked : s <= Stage[e.obj]
        /\ s \in 1 .. 6
    BY <1>1, StageNumbers DEF IInv, TypeOK, NothingBehindStage
  <1>7. CASE transfer_stage' = s
    BY <1>4, <1>5, <1>6, <1>7, SMT DEF NothingBehindStage
  <1>8. CASE transfer_stage' = s + 1 /\ rest = {}
    <2>1. QueueOf(s) \subseteq new
      BY <1>1, <1>4, <1>8, StageOver
    <2>2. \A e \in queue' \cup unacked' : e \in queue \cup unacked /\ Stage[e.obj] # s
      BY <1>4, <1>8, <2>1 DEF QueueOf, UnackedOf
    <2> QED
      BY <1>6, <1>8, <2>2, SMT DEF NothingBehindStage
  <1> QED
    BY <1>4, <1>7, <1>8, ZenonT(30)

LEMMA BehindStep ==
  ASSUME IInv, LargeWindows, SynchronousFit, NothingBehindStage, [Next]_vars
  PROVE  NothingBehindStage'
  <1>0. /\ transfer_stage \in 1 .. 7 /\ version \in [Object -> 0 .. MaxRev] /\ MaxRev \in Nat
        /\ \A e \in queue \cup unacked : Stage[e.obj] \in 1 .. 6
        /\ \A e \in queue \cup unacked : transfer_stage <= Stage[e.obj]
    BY StageNumbers, MassTransferAssumption, ZenonT(30) DEF IInv, TypeOK, NothingBehindStage
  <1>1. CASE /\ queue' \subseteq queue /\ unacked' \subseteq unacked
             /\ transfer_stage' = transfer_stage
    BY <1>1 DEF NothingBehindStage
  <1>2. ASSUME NEW o \in Object, NEW r \in 1 .. MaxRev, Stage[o] # transfer_multicasts,
               register_delta(o, r), unacked' = unacked
        PROVE  NothingBehindStage'
    <2>1. /\ \A e \in queue' : e \in queue \/ e.obj = o
          /\ transfer_stage' \in 1 .. 7
          /\ transfer_stage' <= transfer_stage
          /\ \A e \in queue' : e \notin queue => transfer_stage' <= Stage[o]
      BY <1>2, DeltaStored, StageNumbers
    <2> QED
      BY <1>0, <1>2, <2>1, SMT DEF NothingBehindStage
  <1>3. CASE UNCHANGED vars
    BY <1>1, <1>3 DEF vars, transferVars
  <1>4. CASE TransferThread
    <2>1. CASE TransferStage
      BY <2>1, StageStepBehind
    <2>2. CASE ClearMassTransfer
      <3>1. /\ queue' \subseteq queue /\ unacked' \subseteq unacked
            /\ transfer_stage' = transfer_stage
        BY <2>2 DEF ClearMassTransfer
      <3> QED
        BY <1>1, <3>1
    <2>3. CASE ~ TransferStage /\ ~ ClearMassTransfer
      <3>1. UNCHANGED transferVars
        BY <1>4, <2>3 DEF TransferThread, transfer_thread, TransferFinished,
           mass_transfer_finish, ActivateOnNode, DeactivateOnNode
      <3> QED
        BY <1>1, <3>1 DEF transferVars
    <2> QED
      BY <2>1, <2>2, <2>3
  <1>5. CASE Vmotion
    BY <1>1, <1>5 DEF Vmotion, transferVars
  <1>6. CASE Update
    <2> DEFINE o == receiver.obj
               r == version[o] + 1
    <2>1. unacked' = unacked /\ receiver.state \in {"update", "moved"}
      BY <1>6 DEF Update
    <2>2. o \in Object /\ r \in 1 .. MaxRev
      BY <1>0, <2>1, SMT DEF IInv, Aux
    <2>3. \/ UNCHANGED <<queue, transfer_stage>>
          \/ Stage[o] # transfer_multicasts /\ register_delta(o, r)
      BY <1>6, ZenonT(30) DEF Update, Deliver, UpdateTransferring, UpdateMulticast, UpdateAlone
    <2> HIDE DEF o, r
    <2> QED
      BY <1>1, <1>2, <2>1, <2>2, <2>3
  <1>7. ASSUME NEW o \in Object, Admit(o) \/ VnidOrPolicyUpdate(o) \/ IP_Subnet_Update(o)
        PROVE  NothingBehindStage'
    <2>1. CASE Admit(o)
      BY <1>1, <2>1 DEF Admit, transferVars
    <2>2. CASE IP_Subnet_Update(o)
      BY <1>1, <2>2 DEF IP_Subnet_Update, ControllerUpdate
    <2>3. CASE VnidOrPolicyUpdate(o)
      <3>1. /\ unacked' = unacked /\ Stage[o] \notin AsyncStages /\ version[o] < MaxRev
            /\ UNCHANGED <<queue, transfer_stage>> \/ register_delta(o, version[o] + 1)
        BY <2>3 DEF VnidOrPolicyUpdate, ControllerUpdate
      <3>2. version[o] + 1 \in 1 .. MaxRev /\ Stage[o] # transfer_multicasts
        BY <1>0, <3>1, StageNumbers, SMT
      <3> QED
        BY <1>1, <1>2, <3>1, <3>2
    <2> QED
      BY <1>7, <2>1, <2>2, <2>3
  <1>8. CASE \E m \in sent : Destination(m)
    BY <1>1, <1>8 DEF Destination, transferVars
  <1>9. ASSUME NEW a \in acks, Transfer_Ack(a) PROVE NothingBehindStage'
    <2>1. /\ queue' \subseteq queue /\ unacked' \subseteq unacked
          /\ transfer_stage' = transfer_stage
      BY <1>9 DEF Transfer_Ack, transfer_ack
    <2> QED
      BY <1>1, <2>1
  <1>10. CASE MappingArrives \/ DomainDeleted \/ RemoteDown
    BY <1>1, <1>10 DEF MappingArrives, DomainDeleted, RemoteDown, transferVars
  <1> QED
    BY <1>3, <1>4, <1>5, <1>6, <1>7, <1>8, <1>9, <1>10 DEF Next

LEMMA InitBehind == Init => NothingBehindStage
  <1> SUFFICES ASSUME Init PROVE NothingBehindStage
    OBVIOUS
  <1>1. IInv
    BY InitIInv
  <1>2. transfer_stage = 1 /\ \A e \in queue \cup unacked : Stage[e.obj] \in 1 .. 6
    BY <1>1, StageNumbers DEF Init, IInv, TypeOK
  <1> QED
    BY <1>2, SMT DEF NothingBehindStage

\* With the windows of the code the stage index never passes work: what is
\* queued or in flight belongs to the current stage or a later one
\* (transfer_objects, register_delta), as long as no REST stage has more
\* waiting than its window.
THEOREM StageTheorem == LargeWindows /\ Spec /\ []SynchronousFit => []NothingBehindStage
  <1> SUFFICES ASSUME LargeWindows PROVE Spec /\ []SynchronousFit => []NothingBehindStage
    OBVIOUS
  <1>1. IInv /\ SynchronousFit /\ NothingBehindStage /\ [Next]_vars => NothingBehindStage'
    BY BehindStep
  <1>2. Spec => []IInv
    BY InitIInv, NextStep, PTL DEF Spec
  <1> QED
    BY <1>1, <1>2, InitBehind, PTL DEF Spec

----------------------------------------------------------------------------
(* What is handed to a transfer is delivered                               *)

\* The newest revision of o handed to the transfer: answered for, replaced,
\* being replaced, or still an entry; or the transfer was given up.
Covered(o) ==
  \/ queued[o] <= processed[o]
  \/ version[o] > queued[o]
  \/ receiver.state = "moved" /\ receiver.obj = o
  \/ \E e \in queue \cup unacked : e.obj = o /\ e.rev = queued[o]
  \/ ~ valid
  \/ thread = "ended" /\ transfer_stage # transfer_finished

\* An acknowledgement that takes an entry out of flight is the destination's
\* answer for that revision.
AcksTrue ==
  \A a \in acks, e \in queue \cup unacked :
    a.status = "done" /\ a.qid = e.qid => e.rev <= processed[e.obj]

DInv ==
  /\ \A o \in Object : queued[o] <= version[o]
  /\ \A o \in Object : Covered(o)
  /\ AcksTrue

\* Steps that leave the entries alone
LEMMA DeltaQuiet ==
  ASSUME IInv, DInv, UNCHANGED <<transferVars, sourceVars, netVars, processed>>,
         \/ receiver' = receiver
         \/ receiver.state # "moved"
         \/ receiver'.state = "moved" /\ receiver'.obj = receiver.obj,
         thread = "ended" => thread' = "ended"
  PROVE  DInv'
  <1>1. UNCHANGED <<queue, unacked, transfer_stage, valid, version, queued, acks>>
    BY DEF transferVars, sourceVars, netVars
  <1>2. \A o \in Object : Covered(o)'
    BY <1>1, ZenonT(30) DEF DInv, Covered
  <1>3. AcksTrue'
    BY <1>1, ZenonT(30) DEF DInv, AcksTrue
  <1> QED
    BY <1>1, <1>2, <1>3 DEF DInv

\* A revision that is stored is covered by its entry, one that is refused is
\* newer than what was handed on.
LEMMA DeltaRegistered ==
  ASSUME IInv, DInv, NEW o \in Object, NEW r \in 1 .. MaxRev, Stage[o] # transfer_multicasts,
         register_delta(o, r), r = version[o] + 1, version' = [version EXCEPT ![o] = r],
         UNCHANGED <<unacked, valid, acks, thread>>, thread # "ended",
         \/ receiver' = receiver
         \/ receiver.obj = o,
         processed' \in [Object -> 0 .. MaxRev],
         \A p \in Object : processed[p] <= processed'[p]
  PROVE  DInv'
  <1>0. /\ version \in [Object -> 0 .. MaxRev] /\ queued \in [Object -> 0 .. MaxRev]
        /\ processed \in [Object -> 0 .. MaxRev] /\ MaxRev \in Nat
        /\ \A e \in queue \cup unacked : e.obj \in Object /\ e.rev \in 1 .. MaxRev
        /\ \A a \in acks : a.qid \in Nat /\ a.qid < QueryID
        /\ QueryID \in Nat
    BY MassTransferAssumption, ZenonT(30) DEF IInv, TypeOK, Ids
  <1>1. /\ \A e \in queue' : e \in queue \/ e.qid = QueryID
        /\ \A e \in queue : e \in queue' \/ e.obj = o
        /\ \/ queue' = queue /\ queued' = queued
           \/ /\ queued' = [queued EXCEPT ![o] = r]
              /\ \E e \in queue' : e.obj = o /\ e.rev = r
    <2>1. \A e \in queue' : e \in queue \/ e.qid = QueryID
      BY DeltaStored, ZenonT(30)
    <2>2. \A e \in queue : e \in queue' \/ e.obj = o
      BY DeltaStored, ZenonT(30)
    <2>3. \/ queue' = queue /\ queued' = queued
          \/ /\ queued' = [queued EXCEPT ![o] = r]
             /\ \E e \in queue' : e.obj = o /\ e.rev = r
      BY DeltaStored, SMT
    <2> QED
      BY <2>1, <2>2, <2>3, ZenonT(30)
  <1>2. version'[o] = r /\ \A p \in Object : p # o => version'[p] = version[p] /\ queued'[p] = queued[p]
    BY <1>0, <1>1
  <1>3. queued[o] <= version[o] /\ version[o] < r
    BY <1>0, SMT DEF DInv
  <1>4. queued'[o] = queued[o] \/ (queued'[o] = r /\ \E e \in queue' : e.obj = o /\ e.rev = r)
    BY <1>0, <1>1
  <1>5. \A p \in Object : queued'[p] <= version'[p]
    BY <1>0, <1>2, <1>3, <1>4, SMT DEF DInv
  <1>6. Covered(o)'
    BY <1>0, <1>2, <1>3, <1>4, SMT DEF Covered
  <1>7. ASSUME NEW p \in Object, p # o PROVE Covered(p)'
    <2>1. Covered(p)
      BY DEF DInv
    <2>2. \A e \in queue \cup unacked : e.obj = p => e \in queue' \cup unacked'
      BY <1>1, <1>7
    <2>3. queued[p] <= processed[p] => queued'[p] <= processed'[p]
      BY <1>0, <1>2, <1>7, SMT
    <2> QED
      BY <1>2, <1>7, <2>1, <2>2, <2>3 DEF Covered
  <1>8. AcksTrue'
    <2> SUFFICES ASSUME NEW a \in acks', NEW e \in queue' \cup unacked', a.status = "done",
                        a.qid = e.qid
                 PROVE  e.rev <= processed'[e.obj]
      BY DEF AcksTrue
    <2>1. a \in acks /\ e \in queue \cup unacked
      BY <1>0, <1>1, SMT
    <2>2. e.rev <= processed[e.obj]
      BY <2>1 DEF DInv, AcksTrue
    <2> QED
      BY <1>0, <2>1, <2>2, SMT
  <1> QED
    BY <1>5, <1>6, <1>7, <1>8, ZenonT(30) DEF DInv

\* A new revision that the transfer does not hear of
LEMMA DeltaUnheard ==
  ASSUME IInv, DInv, NEW o \in Object, version' = [version EXCEPT ![o] = version[o] + 1],
         UNCHANGED <<queue, unacked, valid, acks, thread, transfer_stage, queued>>,
         \/ receiver' = receiver
         \/ receiver.obj = o,
         processed' \in [Object -> 0 .. MaxRev],
         \A p \in Object : processed[p] <= processed'[p]
  PROVE  DInv'
  <1>0. /\ version \in [Object -> 0 .. MaxRev] /\ queued \in [Object -> 0 .. MaxRev]
        /\ processed \in [Object -> 0 .. MaxRev] /\ MaxRev \in Nat
        /\ \A e \in queue \cup unacked : e.obj \in Object /\ e.rev \in 1 .. MaxRev
    BY MassTransferAssumption, ZenonT(30) DEF IInv, TypeOK
  <1>1. version'[o] = version[o] + 1 /\ \A p \in Object : p # o => version'[p] = version[p]
    BY <1>0
  <1>2. \A p \in Object : queued'[p] <= version'[p]
    BY <1>0, <1>1, SMT DEF DInv
  <1>3. Covered(o)'
    BY <1>0, <1>1, SMT DEF DInv, Covered
  <1>4. ASSUME NEW p \in Object, p # o PROVE Covered(p)'
    <2>1. Covered(p)
      BY DEF DInv
    <2>2. queued[p] <= processed[p] => queued'[p] <= processed'[p]
      BY <1>0, SMT
    <2> QED
      BY <1>1, <1>4, <2>1, <2>2 DEF Covered
  <1>5. AcksTrue'
    <2> SUFFICES ASSUME NEW a \in acks, NEW e \in queue \cup unacked, a.status = "done",
                        a.qid = e.qid
                 PROVE  e.rev <= processed'[e.obj]
      BY DEF AcksTrue
    <2>1. e.rev <= processed[e.obj]
      BY DEF DInv, AcksTrue
    <2> QED
      BY <1>0, <2>1, SMT
  <1> QED
    BY <1>2, <1>3, <1>4, <1>5 DEF DInv

LEMMA DeltaUpdate == ASSUME IInv, DInv, Update PROVE DInv'
  <1> DEFINE o == receiver.obj
             r == version[o] + 1
  <1>0. /\ version \in [Object -> 0 .. MaxRev] /\ processed \in [Object -> 0 .. MaxRev]
        /\ MaxRev \in Nat
    BY MassTransferAssumption DEF IInv, TypeOK
  <1>1. /\ receiver.state \in {"update", "moved"} /\ receiver' = Idle
        /\ UNCHANGED <<unacked, valid, thread, acks>>
    BY DEF Update, netVars
  <1>2. o \in Object /\ r \in 1 .. MaxRev
    BY <1>0, <1>1, SMT DEF IInv, Aux
  <1>3. CASE /\ version' = IF receiver.state = "moved"
                           THEN [version EXCEPT ![o] = r] ELSE version
             /\ UNCHANGED <<accepted, queued, QueryID, queue, transfer_stage, destVars>>
    <2>1. UNCHANGED <<queue, unacked, valid, acks, thread, transfer_stage, queued, processed>>
      BY <1>1, <1>3 DEF destVars
    <2>2. CASE receiver.state = "moved"
      <3>1. version' = [version EXCEPT ![o] = version[o] + 1]
        BY <1>3, <2>2
      <3>2. processed' \in [Object -> 0 .. MaxRev] /\ \A p \in Object : processed[p] <= processed'[p]
        BY <1>0, <2>1, SMT
      <3> QED
        BY <1>2, <2>1, <3>1, <3>2, DeltaUnheard, ZenonT(30)
    <2>3. CASE receiver.state # "moved"
      <3>1. version' = version
        BY <1>3, <2>3
      <3>2. \A p \in Object : Covered(p)'
        BY <2>1, <2>3, <3>1 DEF DInv, Covered
      <3>3. AcksTrue'
        BY <2>1 DEF DInv, AcksTrue
      <3> QED
        BY <2>1, <3>1, <3>2, <3>3 DEF DInv
    <2> QED
      BY <2>2, <2>3
  <1>4. CASE version' = [version EXCEPT ![o] = r] /\ Deliver(o, r)
    <2>1. /\ processed' = processed \/ processed' = [processed EXCEPT ![o] = Largest(processed[o], r)]
          /\ \/ mass_transfer /\ Stage[o] # transfer_multicasts /\ register_delta(o, r)
             \/ UNCHANGED <<queue, transfer_stage, queued>>
      <3>1. PICK stored \in IF receiver.forward THEN BOOLEAN ELSE {FALSE} :
              /\ processed' = [processed EXCEPT ![o] = IF stored THEN Largest(@, r) ELSE @]
              /\ \/ UpdateTransferring(o, r, stored = receiver.forward)
                 \/ UpdateMulticast(o)
                 \/ UpdateAlone(o, r, stored = receiver.forward)
        BY <1>4, ZenonT(30) DEF Deliver
      <3> HIDE DEF o, r
      <3>2. processed' = processed \/ processed' = [processed EXCEPT ![o] = Largest(processed[o], r)]
        BY <1>0, <1>2, <3>1, ZenonT(30)
      <3> QED
        BY <3>1, <3>2 DEF UpdateTransferring, UpdateMulticast, UpdateAlone
    <2>2. /\ processed' \in [Object -> 0 .. MaxRev]
          /\ \A p \in Object : processed[p] <= processed'[p]
      <3> HIDE DEF o, r
      <3>1. Largest(processed[o], r) \in 0 .. MaxRev /\ processed[o] <= Largest(processed[o], r)
        BY <1>0, <1>2, SMT DEF Largest
      <3> QED
        BY <1>0, <1>2, <2>1, <3>1, SMT
    <2>3. CASE mass_transfer /\ Stage[o] # transfer_multicasts /\ register_delta(o, r)
      <3>1. thread # "ended"
        BY <2>3 DEF IInv, Aux
      <3> QED
        BY <1>1, <1>2, <1>4, <2>2, <2>3, <3>1, DeltaRegistered, ZenonT(30)
    <2>4. CASE UNCHANGED <<queue, transfer_stage, queued>>
      BY <1>1, <1>2, <1>4, <2>2, <2>4, DeltaUnheard, ZenonT(30)
    <2> QED
      BY <2>1, <2>3, <2>4
  <1> QED
    BY <1>3, <1>4 DEF Update

LEMMA DeltaController ==
  ASSUME IInv, DInv, NEW o \in Object, VnidOrPolicyUpdate(o) \/ IP_Subnet_Update(o)
  PROVE  DInv'
  <1>0. /\ version \in [Object -> 0 .. MaxRev] /\ processed \in [Object -> 0 .. MaxRev]
        /\ MaxRev \in Nat
    BY MassTransferAssumption, ZenonT(30) DEF IInv, TypeOK
  <1>1. ControllerUpdate(o)
    BY ZenonT(30) DEF VnidOrPolicyUpdate, IP_Subnet_Update
  <1>2. /\ Stage[o] \notin AsyncStages /\ version[o] < MaxRev
        /\ version' = [version EXCEPT ![o] = version[o] + 1]
        /\ UNCHANGED <<unacked, valid, thread, acks, processed, receiver>>
    BY <1>1 DEF ControllerUpdate, destVars, netVars
  <1>3. version[o] + 1 \in 1 .. MaxRev /\ Stage[o] # transfer_multicasts
    BY <1>0, <1>2, StageNumbers, SMT
  <1>4. processed' \in [Object -> 0 .. MaxRev] /\ \A p \in Object : processed[p] <= processed'[p]
    BY <1>0, <1>2, SMT
  <1>5. \/ mass_transfer /\ register_delta(o, version[o] + 1)
        \/ UNCHANGED <<queue, transfer_stage, queued>>
    BY DEF VnidOrPolicyUpdate, IP_Subnet_Update
  <1>6. CASE mass_transfer /\ register_delta(o, version[o] + 1)
    <2>1. thread # "ended"
      BY <1>6 DEF IInv, Aux
    <2> QED
      BY <1>2, <1>3, <1>4, <1>6, <2>1, DeltaRegistered, ZenonT(30)
  <1>7. CASE UNCHANGED <<queue, transfer_stage, queued>>
    BY <1>2, <1>4, <1>7, DeltaUnheard, ZenonT(30)
  <1> QED
    BY <1>5, <1>6, <1>7

LEMMA DeltaTurn == ASSUME IInv, DInv, TransferStage PROVE DInv'
  <1> DEFINE s == transfer_stage
  <1>1. thread = "running" /\ valid /\ s \in Stages
    BY TurnTaken
  <1>2. PICK new \in PopItems(s) : \E rest : StageTurn(s, new, rest)
    BY TurnTaken
  <1>3. PICK rest : StageTurn(s, new, rest)
    BY <1>2
  <1> DEFINE F == Flight(s, new)
  <1>4. /\ queue' = queue \ new /\ unacked' = (unacked \ UnackedOf(s)) \cup rest
        /\ \A e \in rest : \E f \in F : e.qid = f.qid /\ e.obj = f.obj /\ e.rev = f.rev
        /\ \A f \in F : \/ \E e \in rest : e.qid = f.qid /\ e.obj = f.obj /\ e.rev = f.rev
                        \/ f.rev <= processed'[f.obj]
                        \/ SendRaises(f) \/ ~ valid'
        /\ processed' \in [Object -> 0 .. MaxRev]
        /\ \A o \in Object : processed[o] <= processed'[o]
        /\ UNCHANGED <<acks, sourceVars, receiver>>
    BY <1>3, ZenonT(30) DEF StageTurn
  <1>5. UNCHANGED <<version, queued, acks, receiver>>
    BY <1>4, ZenonT(30) DEF sourceVars
  <1>6. /\ F \subseteq Tried
        /\ \A e \in F : \/ e \in unacked
                        \/ \E x \in new : e.qid = x.qid /\ e.obj = x.obj /\ e.rev = x.rev
        /\ \A x \in new : \E e \in F : e.qid = x.qid /\ e.obj = x.obj /\ e.rev = x.rev
    BY <1>1, FlightTyped, SMT
  <1>7. new \subseteq queue /\ UnackedOf(s) \subseteq F
    BY <1>1, FlightFits, ZenonT(30) DEF Flight
  <1>8. /\ queued \in [Object -> 0 .. MaxRev] /\ processed \in [Object -> 0 .. MaxRev]
        /\ MaxRev \in Nat
        /\ \A e \in queue \cup unacked : e.obj \in Object /\ e.rev \in 1 .. MaxRev
    BY MassTransferAssumption DEF IInv, TypeOK
  <1> HIDE DEF F, s
  <1>9. ASSUME NEW o \in Object PROVE Covered(o)'
    <2>1. Covered(o)
      BY DEF DInv
    <2>2. CASE queued[o] <= processed[o]
      <3>1. queued'[o] <= processed'[o]
        BY <1>4, <1>5, <1>8, <1>9, <2>2, SMT
      <3> QED
        BY <3>1 DEF Covered
    <2>3. CASE version[o] > queued[o] \/ (receiver.state = "moved" /\ receiver.obj = o)
      BY <1>5, <2>3 DEF Covered
    <2>4. CASE \E e \in queue \cup unacked : e.obj = o /\ e.rev = queued[o]
      <3>1. PICK e \in queue \cup unacked : e.obj = o /\ e.rev = queued[o]
        BY <2>4
      <3>2. CASE e \in queue' \cup unacked'
        BY <1>5, <3>1, <3>2 DEF Covered
      <3>3. CASE e \notin queue' \cup unacked'
        <4>1. e \in new \/ e \in UnackedOf(s)
          BY <1>4, <3>3
        <4>2. PICK f \in F : f.obj = o /\ f.rev = queued[o]
          BY <1>6, <1>7, <3>1, <4>1
        <4>3. \/ \E x \in rest : x.obj = o /\ x.rev = queued[o]
              \/ queued[o] <= processed'[o]
              \/ SendRaises(f) \/ ~ valid'
          BY <1>4, <4>2, ZenonT(30)
        <4>4. SendRaises(f) => receiver'.state = "moved" /\ receiver'.obj = o
          BY <1>5, <4>2 DEF SendRaises
        <4>5. rest \subseteq unacked'
          BY <1>4, ZenonT(30)
        <4> QED
          BY <1>5, <4>3, <4>4, <4>5 DEF Covered
      <3> QED
        BY <3>2, <3>3
    <2> QED
      BY <1>1, <2>1, <2>2, <2>3, <2>4, ZenonT(30) DEF Covered
  <1>10. AcksTrue'
    <2> SUFFICES ASSUME NEW a \in acks, NEW e \in queue' \cup unacked', a.status = "done",
                        a.qid = e.qid
                 PROVE  e.rev <= processed'[e.obj]
      BY <1>5 DEF AcksTrue
    <2>1. PICK x \in queue \cup unacked : x.qid = e.qid /\ x.obj = e.obj /\ x.rev = e.rev
      <3>1. CASE e \in rest
        <4>1. PICK f \in F : e.qid = f.qid /\ e.obj = f.obj /\ e.rev = f.rev
          BY <1>4, <3>1, ZenonT(30)
        <4> QED
          BY <1>6, <1>7, <4>1, SMT
      <3>2. CASE e \notin rest
        BY <1>4, <3>2, ZenonT(30)
      <3> QED
        BY <3>1, <3>2
    <2>2. x.rev <= processed[x.obj]
      BY <2>1 DEF DInv, AcksTrue
    <2>3. x.obj \in Object /\ x.rev \in 1 .. MaxRev
      BY <1>8
    <2>4. processed[x.obj] <= processed'[x.obj] /\ processed'[x.obj] \in 0 .. MaxRev
      BY <1>4, <2>3
    <2>5. processed[x.obj] \in 0 .. MaxRev
      BY <1>8, <2>3
    <2>6. x.rev <= processed'[x.obj]
      BY <1>8, <2>2, <2>3, <2>4, <2>5, SMT
    <2> QED
      BY <2>1, <2>6
  <1> QED
    BY <1>5, <1>9, <1>10 DEF DInv

LEMMA DeltaClear == ASSUME IInv, DInv, ClearMassTransfer PROVE DInv'
  <1>1. /\ thread = "clear" /\ thread' = "ended"
        /\ UNCHANGED <<transfer_stage, valid, version, queued, acks, processed, receiver>>
        /\ \/ queue' = queue /\ unacked' = unacked
           \/ transfer_stage # transfer_finished /\ queue' = {} /\ unacked' = {}
    BY DEF ClearMassTransfer, sourceVars, netVars, destVars
  <1>2. \A o \in Object : Covered(o)'
    BY <1>1 DEF DInv, Covered
  <1>3. AcksTrue'
    BY <1>1 DEF DInv, AcksTrue
  <1> QED
    BY <1>1, <1>2, <1>3 DEF DInv

LEMMA DeltaDestination == ASSUME IInv, DInv, NEW m \in sent, Destination(m) PROVE DInv'
  <1>1. UNCHANGED <<queue, unacked, transfer_stage, valid, version, queued, thread, receiver>>
    BY DEF Destination, transferVars, sourceVars
  <1>2. /\ m.obj \in Object /\ m.rev \in 1 .. MaxRev /\ MaxRev \in Nat
        /\ processed \in [Object -> 0 .. MaxRev] /\ queued \in [Object -> 0 .. MaxRev]
        /\ \A e \in queue \cup unacked : e.obj \in Object /\ e.rev \in 1 .. MaxRev
        /\ \A e \in queue \cup unacked : m.qid = e.qid => m.obj = e.obj /\ m.rev = e.rev
    BY MassTransferAssumption, ZenonT(30) DEF IInv, TypeOK, Ids
  <1>3. /\ Largest(processed[m.obj], m.rev) \in 0 .. MaxRev
        /\ processed[m.obj] <= Largest(processed[m.obj], m.rev)
        /\ m.rev <= Largest(processed[m.obj], m.rev)
    BY <1>2, SMT DEF Largest
  <1>4. \/ processed' = processed
        \/ processed' = [processed EXCEPT ![m.obj] = Largest(processed[m.obj], m.rev)]
    BY DEF Destination
  <1>5. processed' \in [Object -> 0 .. MaxRev] /\ \A o \in Object : processed[o] <= processed'[o]
    BY <1>2, <1>3, <1>4, SMT
  <1>6. \A a \in acks' : a.status = "done" => a \in acks \/ (a.qid = m.qid /\ m.rev <= processed'[m.obj])
    <2>1. CASE /\ processed' = [processed EXCEPT ![m.obj] = Largest(processed[m.obj], m.rev)]
               /\ acks' = acks \cup {[qid |-> m.qid, status |-> "done"]}
      <3>1. m.rev <= processed'[m.obj]
        BY <1>2, <1>3, <2>1
      <3> QED
        BY <2>1, <3>1, SMT
    <2>2. CASE acks' = acks \cup {[qid |-> m.qid, status |-> "retry"]}
      BY <2>2, SMT
    <2> QED
      BY <2>1, <2>2 DEF Destination
  <1>7. \A o \in Object : queued[o] <= processed[o] => queued'[o] <= processed'[o]
    BY <1>1, <1>2, <1>5, SMT
  <1>8. \A o \in Object : Covered(o)'
    BY <1>1, <1>7, ZenonT(30) DEF DInv, Covered
  <1>9. AcksTrue'
    <2> SUFFICES ASSUME NEW a \in acks', NEW e \in queue \cup unacked, a.status = "done",
                        a.qid = e.qid
                 PROVE  e.rev <= processed'[e.obj]
      BY <1>1, ZenonT(30) DEF AcksTrue
    <2>1. CASE a \in acks
      <3>1. e.rev <= processed[e.obj]
        BY <2>1 DEF DInv, AcksTrue
      <3> QED
        BY <1>2, <1>5, <3>1, SMT
    <2>2. CASE a \notin acks
      BY <1>2, <1>6, <2>2
    <2> QED
      BY <2>1, <2>2
  <1> QED
    BY <1>1, <1>8, <1>9 DEF DInv

LEMMA DeltaAck == ASSUME IInv, DInv, NEW a \in acks, Transfer_Ack(a) PROVE DInv'
  <1>1. /\ UNCHANGED <<queue, transfer_stage, valid, version, queued, acks, processed, thread>>
        /\ receiver.state = "idle"
    BY DEF Transfer_Ack, sourceVars, netVars, destVars
  <1>2. a.status \in {"done", "retry"}
    BY DEF IInv, TypeOK
  <1>3. /\ unacked' \subseteq unacked
        /\ \A e \in unacked : e \in unacked' \/ (a.status = "done" /\ a.qid = e.qid)
    BY <1>2 DEF Transfer_Ack, transfer_ack
  <1>4. \A e \in unacked : e \in unacked' \/ e.rev <= processed[e.obj]
    BY <1>3 DEF DInv, AcksTrue
  <1>5. \A o \in Object : Covered(o)'
    BY <1>1, <1>4 DEF DInv, Covered
  <1>6. AcksTrue'
    BY <1>1, <1>3 DEF DInv, AcksTrue
  <1> QED
    BY <1>1, <1>5, <1>6 DEF DInv

LEMMA InitDelta == Init => DInv
  <1> SUFFICES ASSUME Init PROVE DInv
    OBVIOUS
  <1>1. \A e \in StartQueue : e.obj \in Held /\ e.rev = 1
    BY SMT DEF StartQueue
  <1>2. ASSUME NEW o \in Object PROVE queued[o] <= version[o] /\ Covered(o)
    <2>1. version[o] = IF o \in Held THEN 1 ELSE 0
      BY <1>2 DEF Init
    <2>2. queued[o] = (IF \E e \in StartQueue : e.obj = o THEN 1 ELSE 0) /\ processed[o] = 0
          /\ queue = StartQueue
      BY <1>2 DEF Init
    <2>3. CASE \E e \in StartQueue : e.obj = o
      <3>1. PICK e \in StartQueue : e.obj = o
        BY <2>3
      <3>2. queued[o] = 1 /\ version[o] = 1
        BY <1>1, <2>1, <2>2, <3>1
      <3> QED
        BY <1>1, <2>2, <3>1, <3>2, SMT DEF Covered
    <2>4. CASE ~ \E e \in StartQueue : e.obj = o
      BY <2>1, <2>2, <2>4, SMT DEF Covered
    <2> QED
      BY <2>3, <2>4
  <1>3. AcksTrue
    BY DEF Init, AcksTrue
  <1> QED
    BY <1>2, <1>3 DEF DInv

LEMMA DeltaNext == ASSUME IInv, DInv, [Next]_vars PROVE DInv'
  <1> DEFINE Same == UNCHANGED <<transferVars, sourceVars, netVars, processed>>
             Mover == \/ receiver' = receiver
                      \/ receiver.state # "moved"
                      \/ receiver'.state = "moved" /\ receiver'.obj = receiver.obj
             Ended == thread = "ended" => thread' = "ended"
  <1>0. Same /\ Mover /\ Ended => DInv'
    BY DeltaQuiet
  <1>1. CASE UNCHANGED vars
    BY <1>0, <1>1 DEF vars, destVars
  <1>2. CASE TransferThread
    <2>1. CASE transfer_thread
      BY <1>0, <2>1 DEF transfer_thread, destVars
    <2>2. CASE TransferFinished
      BY <1>0, <2>2 DEF TransferFinished, destVars
    <2>3. CASE mass_transfer_finish
      BY <1>0, <2>3 DEF mass_transfer_finish, destVars
    <2>4. CASE ActivateOnNode
      BY <1>0, <2>4 DEF ActivateOnNode
    <2>5. CASE DeactivateOnNode
      BY <1>0, <2>5 DEF DeactivateOnNode, destVars
    <2> QED
      BY <1>2, <2>1, <2>2, <2>3, <2>4, <2>5, DeltaTurn, DeltaClear DEF TransferThread
  <1>3. CASE Vmotion
    BY <1>0, <1>3 DEF Vmotion, destVars
  <1>4. CASE Update
    BY <1>4, DeltaUpdate
  <1>5. CASE \E o \in Object : Admit(o) \/ VnidOrPolicyUpdate(o) \/ IP_Subnet_Update(o)
    <2>1. PICK o \in Object : Admit(o) \/ VnidOrPolicyUpdate(o) \/ IP_Subnet_Update(o)
      BY <1>5
    <2>2. CASE Admit(o)
      BY <1>0, <2>2 DEF Admit, destVars
    <2> QED
      BY <2>1, <2>2, DeltaController
  <1>6. CASE \E m \in sent : Destination(m)
    BY <1>6, DeltaDestination
  <1>7. CASE \E a \in acks : Transfer_Ack(a)
    BY <1>7, DeltaAck
  <1>8. CASE MappingArrives
    BY <1>0, <1>8 DEF MappingArrives, destVars
  <1>9. CASE DomainDeleted
    BY <1>0, <1>9 DEF DomainDeleted, destVars
  <1>10. CASE RemoteDown
    BY <1>0, <1>10 DEF RemoteDown, destVars
  <1> QED
    BY <1>1, <1>2, <1>3, <1>4, <1>5, <1>6, <1>7, <1>8, <1>9, <1>10 DEF Next

\* A transfer that reaches its end has delivered, whatever was registered,
\* lost, retried or acknowledged late on the way (transfer_objects,
\* register_delta, transfer_ack), with windows as large as the code's.
THEOREM DeltaTheorem == LargeWindows /\ Spec /\ []SynchronousFit => []DeltaDelivered
  <1> SUFFICES ASSUME LargeWindows PROVE Spec /\ []SynchronousFit => []DeltaDelivered
    OBVIOUS
  <1>1. Spec => []IInv
    BY InitIInv, NextStep, PTL DEF Spec
  <1>2. Spec => []DInv
    BY <1>1, InitDelta, DeltaNext, PTL DEF Spec
  <1>3. Spec /\ []SynchronousFit => []NothingBehindStage
    BY StageTheorem
  <1>4. IInv /\ DInv /\ NothingBehindStage => DeltaDelivered
    <2> SUFFICES ASSUME IInv, DInv, NothingBehindStage, transfer_stage = transfer_finished
                 PROVE  \A o \in Object : \/ queued[o] <= processed[o]
                                          \/ version[o] > queued[o]
                                          \/ receiver.state = "moved" /\ receiver.obj = o
      BY DEF DeltaDelivered
    <2>1. valid
      BY DEF IInv, Aux
    <2>2. queue \cup unacked = {}
      <3> SUFFICES ASSUME NEW e \in queue \cup unacked PROVE FALSE
        OBVIOUS
      <3>1. Stage[e.obj] \in 1 .. 6
        BY StageNumbers DEF IInv, TypeOK
      <3> QED
        BY <3>1, StageNumbers, SMT DEF NothingBehindStage
    <2> QED
      BY <2>1, <2>2 DEF DInv, Covered
  <1> QED
    BY <1>1, <1>2, <1>3, <1>4, PTL
====
