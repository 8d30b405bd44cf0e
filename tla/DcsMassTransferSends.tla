----------------------- MODULE DcsMassTransferSends -----------------------
(***************************************************************************)
(* The inductive invariant of DcsMassTransfer, and the lemmas about a turn *)
(* of the transfer loop: what a stage sends, by REST call or by datagram,  *)
(* fits into its window and keeps the invariant.                           *)
(***************************************************************************)
EXTENDS DcsMassTransfer, FiniteSetTheorems, WellFoundedInduction, TLAPS

\* A leaf that names no prover is tried with Zenon, then with SMT.
USE ZenonT(20), SMTT(20)

\* The time a leaf has that names no prover: SMT first, then Zenon

\* What the entries of the dictionaries look like
QueueTyped == \A e \in queue : e.obj \in Object /\ e.rev \in 1 .. MaxRev /\ e.qid \in Nat

Tried == [qid : Nat, obj : Object, rev : 1 .. MaxRev, tries : 0 .. MAX_RETRIES_PER_OBJECT + 1]

UnackedTyped == unacked \subseteq Tried

\* A window is an upper bound of a finite number; a transfer thread in its
\* loop has a valid transfer, and so has one that reached the last stage; an
\* object of a REST stage stays in flight only when it failed.
Aux ==
  /\ IsFiniteSet(queue) /\ IsFiniteSet(unacked) /\ UnackedTyped
  /\ WindowRespected
  /\ thread = "running" => valid
  /\ transfer_stage = transfer_finished => valid
  /\ thread = "ended" => ~ mass_transfer
  /\ \A e \in unacked : Stage[e.obj] \in AsyncStages \/ ~ valid
  /\ receiver.state \in {"update", "moved"} =>
       /\ receiver.obj \in Object
       /\ Stage[receiver.obj] \in AsyncStages
       /\ version[receiver.obj] < MaxRev

\* A query id names one object in one revision, wherever it is met.
Ids ==
  /\ \A e \in queue : e.qid < QueryID /\ e.key[1] = Key[e.obj]
  /\ \A e \in unacked : e.qid < QueryID
  /\ \A m \in sent : m.qid < QueryID
  /\ \A a \in acks : a.qid < QueryID
  /\ \A e, f \in queue : e.qid = f.qid => e = f
  /\ \A e, f \in unacked : e.qid = f.qid => e = f
  /\ \A e \in queue, f \in unacked : e.qid # f.qid
  /\ \A m \in sent, e \in queue \cup unacked :
       m.qid = e.qid => m.obj = e.obj /\ m.rev = e.rev

IInv == TypeOK /\ Aux /\ Ids

\* No REST stage has more waiting than fits into its window.
SynchronousFit ==
  \A s \in Stages \ AsyncStages : Cardinality(QueueOf(s)) <= unacked_max[s]

\* The windows of the datagram stages take more than one object.
LargeWindows == \A s \in AsyncStages : unacked_max[s] > 1

----------------------------------------------------------------------------
(* Sets and numbers                                                        *)

\* The stages are numbers.
LEMMA StageNumbers ==
  /\ Stages = 1 .. 6 /\ AsyncStages = 4 .. 6 /\ transfer_finished = 7 /\ transfer_vnids = 1
  /\ transfer_multicasts = 6 /\ transfer_endpoints = 5 /\ transfer_tunnels = 4
  /\ transfer_subnets = 3
  /\ \A o \in Object : Stage[o] \in 1 .. 6
  /\ \A s \in 1 .. 6 : unacked_max[s] \in Nat /\ unacked_max[s] > 0
  BY MassTransferAssumption, SMT DEF Stages, AsyncStages, transfer_finished, transfer_vnids,
     transfer_multicasts, transfer_endpoints, transfer_tunnels, transfer_subnets

\* What a function makes of a finite set is no larger.
LEMMA ImageCard ==
  ASSUME NEW S, IsFiniteSet(S), NEW T, NEW f \in [S -> T], \A t \in T : \E x \in S : f[x] = t
  PROVE  IsFiniteSet(T) /\ Cardinality(T) <= Cardinality(S)
  <1>1. f \in Surjection(S, T)
    BY DEF Surjection
  <1> QED
    BY <1>1, FS_Surjection

\* The entries in flight after a pop, and after an attempt, are as many.
LEMMA InFlightCard ==
  ASSUME NEW S, IsFiniteSet(S)
  PROVE  /\ IsFiniteSet({InFlight(e) : e \in S})
         /\ Cardinality({InFlight(e) : e \in S}) <= Cardinality(S)
  <1> DEFINE T == {InFlight(e) : e \in S}
             f == [e \in S |-> InFlight(e)]
  <1>1. f \in [S -> T] /\ \A t \in T : \E x \in S : f[x] = t
    OBVIOUS
  <1> HIDE DEF f, T
  <1>2. IsFiniteSet(T) /\ Cardinality(T) <= Cardinality(S)
    BY <1>1, ImageCard
  <1> QED
    BY <1>2 DEF T

LEMMA AttemptCard ==
  ASSUME NEW S, IsFiniteSet(S)
  PROVE  /\ IsFiniteSet({Attempt(e) : e \in S})
         /\ Cardinality({Attempt(e) : e \in S}) <= Cardinality(S)
  <1> DEFINE T == {Attempt(e) : e \in S}
             f == [e \in S |-> Attempt(e)]
  <1>1. f \in [S -> T] /\ \A t \in T : \E x \in S : f[x] = t
    OBVIOUS
  <1> HIDE DEF f, T
  <1>2. IsFiniteSet(T) /\ Cardinality(T) <= Cardinality(S)
    BY <1>1, ImageCard
  <1> QED
    BY <1>2 DEF T

\* A set of revisions that is not empty has a newest one.
LEMMA NewestExists ==
  ASSUME NEW S \in SUBSET (0 .. MaxRev), S # {}
  PROVE  \E r \in S : \A q \in S : q <= r
  <1> DEFINE T == {MaxRev - r : r \in S}
  <1>1. T \subseteq Nat /\ T # {}
    <2>1. \A r \in S : MaxRev - r \in Nat
      BY MassTransferAssumption, SMT
    <2>2. PICK r \in S : TRUE
      OBVIOUS
    <2>3. MaxRev - r \in T
      BY <2>2
    <2> QED
      BY <2>1, <2>3
  <1>2. PICK t \in T : \A u \in T : ~(<<u, t>> \in OpToRel(<, Nat))
    BY <1>1, NatLessThanWellFounded, WFMin, ZenonT(30)
  <1>3. \A u \in T : ~(u < t)
    BY <1>1, <1>2, ZenonT(30) DEF OpToRel
  <1>4. PICK r \in S : t = MaxRev - r
    OBVIOUS
  <1>5. \A q \in S : ~(MaxRev - q < MaxRev - r)
    BY <1>3, <1>4
  <1>6. \A q \in S : q <= r
    BY <1>5, MassTransferAssumption, SMT
  <1> QED
    BY <1>6

\* Newest is the largest revision answered for.
LEMMA NewestIs ==
  ASSUME NEW done, \A e \in done : e.obj \in Object /\ e.rev \in 1 .. MaxRev,
         processed \in [Object -> 0 .. MaxRev], NEW o \in Object
  PROVE  /\ Newest(done, o) \in 0 .. MaxRev
         /\ processed[o] <= Newest(done, o)
         /\ \A e \in done : e.obj = o => e.rev <= Newest(done, o)
  <1> DEFINE revs == {e.rev : e \in {x \in done : x.obj = o}} \cup {processed[o]}
             n == CHOOSE r \in revs : \A q \in revs : q <= r
  <1>1. revs \in SUBSET (0 .. MaxRev) /\ revs # {}
    BY MassTransferAssumption, SMT
  <1>2. \E r \in revs : \A q \in revs : q <= r
    BY <1>1, NewestExists, ZenonT(30)
  <1>3. n \in revs /\ \A q \in revs : q <= n
    BY <1>2, ZenonT(30)
  <1>4. Newest(done, o) = n
    BY DEF Newest
  <1>5. processed[o] \in revs /\ \A e \in done : e.obj = o => e.rev \in revs
    OBVIOUS
  <1> HIDE DEF n, revs
  <1> QED
    BY <1>1, <1>3, <1>4, <1>5

----------------------------------------------------------------------------
(* The start                                                               *)

LEMMA InitIInv == Init => IInv
  <1> SUFFICES ASSUME Init PROVE IInv
    OBVIOUS
  <1> DEFINE first == {x \in Held : \A y \in Held :
                         (Stage[y] = Stage[x] /\ Key[y] = Key[x]) => Rank[y] <= Rank[x]}
             f == [o \in first |-> [key |-> StartKey(o), obj |-> o, rev |-> 1, qid |-> Rank[o]]]
  <1>1. queue = {[key |-> StartKey(o), obj |-> o, rev |-> 1, qid |-> Rank[o]] : o \in first}
    BY DEF Init, StartQueue
  <1>2. first \subseteq Object /\ IsFiniteSet(first)
    <2>1. first \subseteq Object
      BY MassTransferAssumption
    <2> QED
      BY <2>1, MassTransferAssumption, FS_Subset
  <1> HIDE DEF first
  <1>3. IsFiniteSet(queue)
    <2>1. f \in [first -> queue] /\ \A t \in queue : \E x \in first : f[x] = t
      BY <1>1
    <2> HIDE DEF f
    <2> QED
      BY <1>2, <2>1, ImageCard
  <1>4. Cardinality(Object) \in Nat
    BY MassTransferAssumption, FS_CardinalityType
  <1>5. \A e \in queue : \E o \in Object :
           /\ e = [key |-> StartKey(o), obj |-> o, rev |-> 1, qid |-> Rank[o]]
           /\ Rank[o] \in 1 .. Cardinality(Object)
    BY <1>1, <1>2, MassTransferAssumption
  <1>6. \A e \in queue : /\ e.obj \in Object /\ e.rev = 1 /\ e.qid \in Nat /\ e.qid < QueryID
                         /\ e.key[1] = Key[e.obj]
    BY <1>4, <1>5, SMT DEF Init, StartKey
  <1>7. \A e, g \in queue : e.qid = g.qid => e = g
    BY <1>5, MassTransferAssumption, SMT
  <1>8. unacked = {} /\ sent = {} /\ acks = {} /\ MassTransfer_QueryID_Mapping = {}
        /\ thread = "sleeping" /\ receiver = Idle /\ valid = TRUE /\ transfer_stage = 1
        /\ QueryID = Cardinality(Object) + 1
    BY DEF Init, transfer_vnids
  <1>9. TypeOK
    <2>1. /\ version \in [Object -> 0 .. MaxRev] /\ accepted \in [Object -> 0 .. MaxRev]
          /\ queued \in [Object -> 0 .. MaxRev] /\ processed \in [Object -> 0 .. MaxRev]
      BY MassTransferAssumption, SMT DEF Init
    <2>2. \A e \in queue : e.obj \in Object /\ e.rev \in 1 .. MaxRev /\ e.qid \in Nat
      BY <1>6, MassTransferAssumption, SMT
    <2>3. receiver \in [state : {"idle", "update", "moved", "blocked"},
                        obj : Object \cup {NoObject}, forward : BOOLEAN]
      BY <1>8 DEF Idle
    <2>4. transfer_stage \in transfer_vnids .. transfer_finished
      BY <1>8, StageNumbers, SMT
    <2>5. /\ mass_transfer_lock \in {"free", "lost"} /\ global_lock \in {"free", "lost"}
          /\ mass_transfer \in BOOLEAN /\ forward \in BOOLEAN /\ member \in BOOLEAN
          /\ domain_valid \in BOOLEAN /\ remote_up \in BOOLEAN /\ remote_active \in BOOLEAN
          /\ valid \in BOOLEAN
      BY ZenonT(30) DEF Init
    <2>6. QueryID \in Nat
      BY <1>4, <1>8, SMT
    <2>7. /\ \A e \in unacked : /\ e.obj \in Object
                              /\ e.rev \in 1 .. MaxRev
                              /\ e.qid \in Nat
                              /\ e.tries \in 0 .. MAX_RETRIES_PER_OBJECT + 1
          /\ \A m \in sent : m.obj \in Object /\ m.rev \in 1 .. MaxRev /\ m.qid \in Nat
          /\ acks \subseteq [qid : Nat, status : {"done", "retry"}]
          /\ MassTransfer_QueryID_Mapping \subseteq Nat
      BY <1>8
    <2>8. thread \in {"sleeping", "running", "completed", "cancelled", "activate",
                      "deactivate", "clear", "ended", "blocked", "wedged"}
      BY <1>8
    <2> QED
      BY <2>1, <2>2, <2>3, <2>4, <2>5, <2>6, <2>7, <2>8 DEF TypeOK
  <1>10. Aux
    <2>1. \A s \in Stages : UnackedOf(s) = {}
      BY <1>8 DEF UnackedOf
    <2>2. WindowRespected
      BY <2>1, FS_EmptySet, StageNumbers, SMT DEF WindowRespected
    <2>3. IsFiniteSet(unacked)
      BY <1>8, FS_EmptySet
    <2> QED
      BY <1>3, <1>8, <2>2, <2>3 DEF Aux, Idle, UnackedTyped
  <1>11. Ids
    BY <1>6, <1>7, <1>8 DEF Ids
  <1> QED
    BY <1>9, <1>10, <1>11 DEF IInv

----------------------------------------------------------------------------
(* A revision is handed to the transfer                                    *)

\* register_delta stores an entry under a fresh query id; what it replaces is
\* an older entry of the same object.
LEMMA DeltaStored ==
  ASSUME IInv, NEW o \in Object, NEW r \in 1 .. MaxRev, Stage[o] # transfer_multicasts,
         register_delta(o, r)
  PROVE  /\ QueryID' = QueryID + 1
         /\ \A e \in queue' : e \in queue \/ (/\ e.obj = o /\ e.rev = r /\ e.qid = QueryID
                                              /\ e.key[1] = Key[o])
         /\ \A e, f \in queue' : e.qid = f.qid => e = f
         /\ IsFiniteSet(queue')
         /\ \A e \in queue : e \in queue' \/ e.obj = o
         /\ queued' \in [Object -> 0 .. MaxRev]
         /\ transfer_stage' \in transfer_vnids .. transfer_finished
         /\ transfer_stage' <= transfer_stage
         /\ \A e \in queue' : e \notin queue => transfer_stage' <= Stage[o]
         /\ \/ /\ queue' = queue /\ queued' = queued /\ transfer_stage' = transfer_stage
               /\ ~ registration_allow
            \/ /\ queued' = [queued EXCEPT ![o] = r]
               /\ \E e \in queue' : e.obj = o /\ e.rev = r
               /\ registration_allow
  <1>0. /\ QueueTyped /\ queued \in [Object -> 0 .. MaxRev] /\ QueryID \in Nat
        /\ transfer_stage \in 1 .. 7 /\ IsFiniteSet(queue) /\ Stage[o] \in 1 .. 6
        /\ \A e \in queue : e.qid < QueryID /\ e.key[1] = Key[e.obj]
        /\ \A e, f \in queue : e.qid = f.qid => e = f
    BY StageNumbers DEF IInv, TypeOK, Aux, Ids, QueueTyped
  <1>1. QueryID' = QueryID + 1
    BY DEF register_delta
  <1>2. CASE ~ registration_allow
    <2>1. queue' = queue /\ queued' = queued /\ transfer_stage' = transfer_stage
      BY <1>2 DEF register_delta
    <2> QED
      BY <1>0, <1>1, <1>2, <2>1, StageNumbers, SMT
  <1>3. CASE registration_allow
    <2> DEFINE k == DeltaKey(o, r)
               x == [key |-> k, obj |-> o, rev |-> r, qid |-> QueryID]
               kept == {e \in queue : ~ (Stage[e.obj] = Stage[o] /\ e.key = k)}
    <2>1. /\ queue' = kept \cup {x}
          /\ transfer_stage' = Smallest(transfer_stage, Stage[o])
          /\ queued' = [queued EXCEPT ![o] = r]
      BY <1>3 DEF register_delta
    <2>2. x.obj = o /\ x.rev = r /\ x.qid = QueryID /\ x.key = k
      OBVIOUS
    <2>3. k[1] = Key[o]
      BY DEF DeltaKey
    <2> HIDE DEF x, k
    <2>4. \A e \in queue : e \in kept \/ e.obj = o
      BY <1>0, <2>3, MassTransferAssumption DEF QueueTyped
    <2>5. kept \subseteq queue /\ IsFiniteSet(kept)
      BY <1>0, FS_Subset
    <2> HIDE DEF kept
    <2>6. IsFiniteSet(queue')
      BY <2>1, <2>5, FS_AddElement
    <2>7. \A e, f \in queue' : e.qid = f.qid => e = f
      <3>1. \A e \in kept : e.qid \in Nat /\ e.qid < QueryID
        BY <1>0, <2>5 DEF QueueTyped
      <3> QED
        BY <1>0, <2>1, <2>2, <2>5, <3>1, SMT
    <2>8. /\ transfer_stage' \in 1 .. 7 /\ transfer_stage' <= transfer_stage
          /\ transfer_stage' <= Stage[o]
      BY <1>0, <2>1, SMT DEF Smallest
    <2>9. queued' \in [Object -> 0 .. MaxRev]
      BY <1>0, <2>1, MassTransferAssumption, SMT
    <2>10. \A e \in queue' : e \in queue \/ (/\ e.obj = o /\ e.rev = r /\ e.qid = QueryID
                                             /\ e.key[1] = Key[o])
      BY <2>1, <2>2, <2>3, <2>5
    <2>11. \A e \in queue : e \in queue' \/ e.obj = o
      BY <2>1, <2>4
    <2>12. \E e \in queue' : e.obj = o /\ e.rev = r
      BY <2>1, <2>2
    <2> QED
      BY <1>1, <1>3, <2>1, <2>6, <2>7, <2>8, <2>9, <2>10, <2>11, <2>12, StageNumbers
  <1> QED
    BY <1>2, <1>3

\* So it keeps the invariant, as far as it is about the dictionaries.
LEMMA DeltaKeeps ==
  ASSUME IInv, NEW o \in Object, NEW r \in 1 .. MaxRev, Stage[o] # transfer_multicasts,
         register_delta(o, r), UNCHANGED <<unacked, valid, sent, acks>>
  PROVE  /\ Ids' /\ QueueTyped' /\ IsFiniteSet(queue') /\ QueryID' \in Nat
         /\ queued' \in [Object -> 0 .. MaxRev]
         /\ transfer_stage' \in transfer_vnids .. transfer_finished
         /\ transfer_stage' = transfer_finished => valid'
  <1>0. /\ QueueTyped /\ UnackedTyped /\ QueryID \in Nat /\ Ids
        /\ transfer_stage \in 1 .. 7 /\ (transfer_stage = 7 => valid)
        /\ (\A m \in sent : m.qid \in Nat) /\ (\A a \in acks : a.qid \in Nat)
    BY StageNumbers DEF IInv, TypeOK, Aux, QueueTyped, UnackedTyped
  <1>1. /\ QueryID' = QueryID + 1
        /\ \A e \in queue' : e \in queue \/ (/\ e.obj = o /\ e.rev = r /\ e.qid = QueryID
                                             /\ e.key[1] = Key[o])
        /\ \A e, f \in queue' : e.qid = f.qid => e = f
        /\ IsFiniteSet(queue')
        /\ queued' \in [Object -> 0 .. MaxRev]
        /\ transfer_stage' \in transfer_vnids .. transfer_finished
        /\ transfer_stage' <= transfer_stage
    BY DeltaStored
  <1>2. QueueTyped'
    BY <1>0, <1>1 DEF QueueTyped
  <1>3. transfer_stage' = transfer_finished => valid'
    BY <1>0, <1>1, StageNumbers, SMT
  <1>4. Ids'
    <2>1. \A e \in queue' : e.qid < QueryID' /\ e.key[1] = Key[e.obj]
      BY <1>0, <1>1, SMT DEF Ids, QueueTyped
    <2>2. /\ \A e \in unacked' : e.qid < QueryID'
          /\ \A m \in sent' : m.qid < QueryID'
          /\ \A a \in acks' : a.qid < QueryID'
      BY <1>0, <1>1, SMT DEF Ids, UnackedTyped, Tried
    <2>3. \A e \in queue', f \in unacked' : e.qid # f.qid
      BY <1>0, <1>1, SMT DEF Ids, UnackedTyped, Tried
    <2>4. \A m \in sent', e \in queue' \cup unacked' :
            m.qid = e.qid => m.obj = e.obj /\ m.rev = e.rev
      BY <1>0, <1>1, SMT DEF Ids
    <2>5. \A e, f \in unacked' : e.qid = f.qid => e = f
      BY <1>0 DEF Ids
    <2> QED
      BY <1>1, <2>1, <2>2, <2>3, <2>4, <2>5 DEF Ids
  <1> QED
    BY <1>0, <1>1, <1>2, <1>3, <1>4, SMT

----------------------------------------------------------------------------
(* Steps that leave the dictionaries and the wire alone                    *)

LEMMA QuietStep ==
  ASSUME IInv, UNCHANGED <<transferVars, sourceVars, ackVars, netVars, processed>>,
         thread' \in {"sleeping", "running", "completed", "cancelled", "activate",
                      "deactivate", "clear", "ended", "blocked", "wedged"},
         thread' = "running" => valid, thread' = "ended" => ~ mass_transfer',
         mass_transfer' \in BOOLEAN, forward' \in BOOLEAN, member' \in BOOLEAN,
         domain_valid' \in BOOLEAN, remote_up' \in BOOLEAN, global_lock' \in {"free", "lost"},
         remote_active' \in BOOLEAN,
         receiver' \in [state : {"idle", "update", "moved", "blocked"},
                        obj : Object \cup {NoObject}, forward : BOOLEAN],
         receiver'.state \in {"update", "moved"} =>
           /\ receiver'.obj \in Object /\ Stage[receiver'.obj] \in AsyncStages
           /\ version[receiver'.obj] < MaxRev
  PROVE  IInv'
  <1>1. TypeOK'
    BY DEF IInv, TypeOK, transferVars, sourceVars, ackVars, netVars
  <1>2. WindowRespected'
    BY DEF IInv, Aux, WindowRespected, UnackedOf, transferVars
  <1>3. Aux'
    BY <1>2 DEF IInv, Aux, transferVars, sourceVars, UnackedTyped
  <1>4. Ids'
    BY DEF IInv, Ids, transferVars, sourceVars, netVars
  <1> QED
    BY <1>1, <1>3, <1>4 DEF IInv

LEMMA AdmitStep == ASSUME IInv, NEW o \in Object, Admit(o) PROVE IInv'
  <1>1. /\ UNCHANGED <<transferVars, sourceVars, ackVars, netVars, processed>>
        /\ UNCHANGED <<thread, domainVars, envVars, remote_active>>
        /\ receiver' = [state |-> "update", obj |-> o, forward |-> forward \/ member]
        /\ Stage[o] \in AsyncStages /\ version[o] < MaxRev
    BY DEF Admit, destVars
  <1>2. (forward \/ member) \in BOOLEAN
    BY ZenonT(30) DEF IInv, TypeOK
  <1> DEFINE fm == forward \/ member
  <1>3. fm \in BOOLEAN /\ receiver' = [state |-> "update", obj |-> o, forward |-> fm]
    BY <1>1, <1>2
  <1> HIDE DEF fm
  <1>4. /\ receiver' \in [state : {"idle", "update", "moved", "blocked"},
                          obj : Object \cup {NoObject}, forward : BOOLEAN]
        /\ receiver'.obj = o
    BY <1>3
  <1>5. /\ thread = "running" => valid
        /\ thread = "ended" => ~ mass_transfer
        /\ thread \in {"sleeping", "running", "completed", "cancelled", "activate",
                       "deactivate", "clear", "ended", "blocked", "wedged"}
        /\ mass_transfer \in BOOLEAN /\ forward \in BOOLEAN /\ member \in BOOLEAN
        /\ domain_valid \in BOOLEAN /\ remote_up \in BOOLEAN /\ global_lock \in {"free", "lost"}
        /\ remote_active \in BOOLEAN
    BY DEF IInv, Aux, TypeOK
  <1>6. UNCHANGED <<mass_transfer, forward, member, domain_valid, remote_up, global_lock>>
    BY <1>1 DEF domainVars, envVars
  <1> QED
    BY <1>1, <1>4, <1>5, <1>6, QuietStep

LEMMA VmotionStep == ASSUME IInv, Vmotion PROVE IInv'
  <1>1. /\ UNCHANGED <<transferVars, sourceVars, ackVars, netVars, processed>>
        /\ UNCHANGED <<thread, mass_transfer, forward, member, domain_valid, remote_up,
                       global_lock, remote_active>>
        /\ receiver.state = "update"
        /\ receiver' = [receiver EXCEPT !.state = "moved"]
    BY DEF Vmotion, destVars, domainVars, envVars
  <1>2. /\ receiver' \in [state : {"idle", "update", "moved", "blocked"},
                          obj : Object \cup {NoObject}, forward : BOOLEAN]
        /\ receiver'.obj = receiver.obj
    BY <1>1 DEF IInv, TypeOK
  <1>3. /\ receiver'.obj \in Object /\ Stage[receiver'.obj] \in AsyncStages
        /\ version[receiver'.obj] < MaxRev
    BY <1>1, <1>2 DEF IInv, Aux
  <1>4. /\ thread = "running" => valid
        /\ thread = "ended" => ~ mass_transfer
        /\ thread \in {"sleeping", "running", "completed", "cancelled", "activate",
                       "deactivate", "clear", "ended", "blocked", "wedged"}
        /\ mass_transfer \in BOOLEAN /\ forward \in BOOLEAN /\ member \in BOOLEAN
        /\ domain_valid \in BOOLEAN /\ remote_up \in BOOLEAN /\ global_lock \in {"free", "lost"}
        /\ remote_active \in BOOLEAN
    BY DEF IInv, Aux, TypeOK
  <1> QED
    BY <1>1, <1>2, <1>3, <1>4, QuietStep

\* The thread's own steps outside the loop, and the cluster's.
LEMMA OtherQuietStep ==
  ASSUME IInv,
         \/ transfer_thread \/ TransferFinished \/ mass_transfer_finish
         \/ ActivateOnNode \/ DeactivateOnNode \/ MappingArrives \/ DomainDeleted \/ RemoteDown
  PROVE  IInv'
  <1> DEFINE Threads == {"sleeping", "running", "completed", "cancelled", "activate",
                         "deactivate", "clear", "ended", "blocked", "wedged"}
  <1>1. /\ UNCHANGED <<transferVars, sourceVars, ackVars, netVars, processed, receiver,
                       mass_transfer, global_lock>>
        /\ thread' \in Threads /\ (thread' = "running" => valid)
        /\ (thread' = "ended" => thread = "ended")
        /\ forward' \in BOOLEAN /\ member' \in BOOLEAN
        /\ domain_valid' \in BOOLEAN /\ remote_up' \in BOOLEAN /\ remote_active' \in BOOLEAN
    <2> DEFINE Goal == /\ UNCHANGED <<transferVars, sourceVars, ackVars, netVars, processed,
                                     receiver, mass_transfer, global_lock>>
                       /\ thread' \in Threads /\ (thread' = "running" => valid)
                       /\ (thread' = "ended" => thread = "ended")
                       /\ forward' \in BOOLEAN /\ member' \in BOOLEAN
                       /\ domain_valid' \in BOOLEAN /\ remote_up' \in BOOLEAN
                       /\ remote_active' \in BOOLEAN
    <2>0. /\ thread \in Threads /\ (thread = "running" => valid)
          /\ forward \in BOOLEAN /\ member \in BOOLEAN /\ domain_valid \in BOOLEAN
          /\ remote_up \in BOOLEAN /\ remote_active \in BOOLEAN
      BY DEF IInv, Aux, TypeOK
    <2>1. CASE transfer_thread
      BY <2>0, <2>1 DEF transfer_thread, domainVars, envVars, destVars
    <2>2. CASE TransferFinished
      BY <2>0, <2>2 DEF TransferFinished, domainVars, envVars, destVars
    <2>3. CASE mass_transfer_finish
      BY <2>0, <2>3, ZenonT(30) DEF mass_transfer_finish, envVars, destVars
    <2>4. CASE ActivateOnNode
      BY <2>0, <2>4, ZenonT(30) DEF ActivateOnNode, envVars
    <2>5. CASE DeactivateOnNode
      BY <2>0, <2>5 DEF DeactivateOnNode, domainVars, envVars, destVars
    <2>6. CASE MappingArrives
      BY <2>0, <2>6, ZenonT(30) DEF MappingArrives, envVars, destVars
    <2>7. CASE DomainDeleted
      BY <2>0, <2>7, ZenonT(30) DEF DomainDeleted, domainVars, destVars
    <2>8. CASE RemoteDown
      BY <2>0, <2>8, ZenonT(30) DEF RemoteDown, domainVars, destVars
    <2> QED
      BY <2>1, <2>2, <2>3, <2>4, <2>5, <2>6, <2>7, <2>8
  <1>2. /\ thread = "ended" => ~ mass_transfer
        /\ mass_transfer \in BOOLEAN /\ global_lock \in {"free", "lost"}
        /\ receiver \in [state : {"idle", "update", "moved", "blocked"},
                         obj : Object \cup {NoObject}, forward : BOOLEAN]
        /\ receiver.state \in {"update", "moved"} =>
             /\ receiver.obj \in Object /\ Stage[receiver.obj] \in AsyncStages
             /\ version[receiver.obj] < MaxRev
    BY DEF IInv, Aux, TypeOK
  <1> QED
    BY <1>1, <1>2, QuietStep

----------------------------------------------------------------------------
(* A turn of the transfer loop                                             *)

\* What is in flight once the window is filled
Flight(s, new) == UnackedOf(s) \cup {InFlight(e) : e \in new}

\* The window holds what was popped: it is not exceeded, nothing that waits is
\* passed over unless it is full, and query ids still tell entries apart.
LEMMA FlightFits ==
  ASSUME IInv, NEW s \in Stages, NEW new \in PopItems(s)
  PROVE  /\ new \subseteq queue /\ \A e \in new : Stage[e.obj] = s
         /\ IsFiniteSet(new) /\ IsFiniteSet(Flight(s, new))
         /\ Cardinality(Flight(s, new)) <= unacked_max[s]
         /\ \/ QueueOf(s) \subseteq new
            \/ Cardinality(new) = unacked_max[s] - Cardinality(UnackedOf(s))
         /\ Flight(s, new) = {} => QueueOf(s) = {}
  <1>0. /\ QueueTyped /\ UnackedTyped /\ IsFiniteSet(queue) /\ IsFiniteSet(unacked)
        /\ Cardinality(UnackedOf(s)) <= unacked_max[s]
        /\ unacked_max[s] \in Nat /\ unacked_max[s] > 0
    BY StageNumbers DEF IInv, TypeOK, Aux, QueueTyped, WindowRespected
  <1> DEFINE Q == QueueOf(s)
             U == UnackedOf(s)
             new2 == {InFlight(e) : e \in new}
  <1>1. Q \subseteq queue /\ U \subseteq unacked /\ \A e \in Q : Stage[e.obj] = s
    BY DEF QueueOf, UnackedOf
  <1>2. IsFiniteSet(Q) /\ IsFiniteSet(U)
    BY <1>0, <1>1, FS_Subset
  <1>3. Cardinality(Q) \in Nat /\ Cardinality(U) \in Nat
    BY <1>2, FS_CardinalityType
  <1>4. new \subseteq Q /\ Cardinality(new) = Smallest(unacked_max[s] - Cardinality(U), Cardinality(Q))
    BY DEF PopItems
  <1> HIDE DEF Q, U
  <1>5. IsFiniteSet(new) /\ Cardinality(new) \in Nat
    BY <1>2, <1>4, FS_Subset, FS_CardinalityType
  <1>6. IsFiniteSet(new2) /\ Cardinality(new2) <= Cardinality(new)
    BY <1>5, InFlightCard
  <1>7. Cardinality(new2) \in Nat
    BY <1>6, FS_CardinalityType
  <1>8. Flight(s, new) = U \cup new2
    BY DEF Flight, U
  <1>9. new2 = {} => new = {}
    OBVIOUS
  <1> HIDE DEF new2
  <1>10. /\ IsFiniteSet(U \cup new2)
         /\ Cardinality(U \cup new2) <= Cardinality(U) + Cardinality(new2)
    <2>1. /\ IsFiniteSet(U \cup new2) /\ IsFiniteSet(U \cap new2)
          /\ Cardinality(U \cup new2) = Cardinality(U) + Cardinality(new2) - Cardinality(U \cap new2)
      BY <1>2, <1>6, FS_Union, FS_Intersection
    <2>2. Cardinality(U \cap new2) \in Nat
      BY <2>1, FS_CardinalityType
    <2> QED
      BY <1>3, <1>7, <2>1, <2>2, SMT
  <1>11. Cardinality(U \cup new2) \in Nat
    BY <1>10, FS_CardinalityType
  <1>12. Cardinality(U) <= unacked_max[s]
    BY <1>0 DEF U
  <1>13. Cardinality(new) <= unacked_max[s] - Cardinality(U)
    BY <1>0, <1>3, <1>4, <1>5, <1>12, SMT DEF Smallest
  <1>14. Cardinality(Flight(s, new)) <= unacked_max[s]
    BY <1>0, <1>3, <1>5, <1>6, <1>7, <1>8, <1>10, <1>11, <1>13, SMT
  <1>15. Q \subseteq new \/ Cardinality(new) = unacked_max[s] - Cardinality(U)
    <2>1. CASE Cardinality(new) = Cardinality(Q)
      BY <1>2, <1>4, <2>1, FS_Subset
    <2>2. CASE Cardinality(new) # Cardinality(Q)
      BY <1>4, <2>2 DEF Smallest
    <2> QED
      BY <2>1, <2>2
  <1>16. Flight(s, new) = {} => Q = {}
    <2> SUFFICES ASSUME Flight(s, new) = {} PROVE Q = {}
      OBVIOUS
    <2>1. U = {} /\ new = {}
      BY <1>8, <1>9
    <2>2. Cardinality(U) = 0 /\ Cardinality(new) = 0
      BY <2>1, FS_EmptySet
    <2>3. Q \subseteq new
      BY <1>0, <1>15, <2>2, SMT
    <2> QED
      BY <2>1, <2>3
  <1> QED
    BY <1>1, <1>4, <1>5, <1>8, <1>10, <1>14, <1>15, <1>16 DEF Q, U

\* Every entry in flight is one that was, or one that was popped.
LEMMA FlightTyped ==
  ASSUME IInv, NEW s \in Stages, NEW new \in PopItems(s)
  PROVE  /\ Flight(s, new) \subseteq Tried
         /\ \A e \in Flight(s, new) : Stage[e.obj] = s /\ e.qid < QueryID
         /\ \A e \in Flight(s, new) :
              \/ e \in unacked
              \/ \E x \in new : /\ e = InFlight(x) /\ e.tries = 0
                               /\ e.qid = x.qid /\ e.obj = x.obj /\ e.rev = x.rev
         /\ \A x \in new : \E e \in Flight(s, new) :
                e.qid = x.qid /\ e.obj = x.obj /\ e.rev = x.rev
         /\ \A e, f \in Flight(s, new) : e.qid = f.qid => e = f
         /\ \A e \in queue \ new, f \in Flight(s, new) : e.qid # f.qid
         /\ \A e \in unacked \ UnackedOf(s), f \in Flight(s, new) : e.qid # f.qid
  <1>0. /\ QueueTyped /\ UnackedTyped /\ Ids
        /\ new \subseteq queue /\ \A e \in new : Stage[e.obj] = s
    BY FlightFits DEF IInv, Aux, TypeOK, QueueTyped
  <1>1. \A x \in new : /\ InFlight(x) \in Tried /\ InFlight(x).tries = 0
                      /\ InFlight(x).qid = x.qid /\ InFlight(x).obj = x.obj
                      /\ InFlight(x).rev = x.rev
    BY <1>0, MassTransferAssumption, SMT DEF InFlight, Tried, QueueTyped
  <1>2. \A e \in Flight(s, new) : e \in UnackedOf(s) \/ \E x \in new : e = InFlight(x)
    BY DEF Flight
  <1>3. \A e \in UnackedOf(s) : e \in unacked /\ e \in Tried /\ Stage[e.obj] = s
    BY <1>0 DEF UnackedOf, UnackedTyped
  <1>4. \A x \in new : InFlight(x) \in Flight(s, new)
    BY DEF Flight
  <1>5. /\ \A e \in queue : e.qid < QueryID
        /\ \A e \in unacked : e.qid < QueryID
        /\ \A e, f \in queue : e.qid = f.qid => e = f
        /\ \A e, f \in unacked : e.qid = f.qid => e = f
        /\ \A e \in queue, f \in unacked : e.qid # f.qid
    BY <1>0 DEF Ids
  <1>6. Flight(s, new) \subseteq Tried
    BY <1>1, <1>2, <1>3
  <1>7. \A e \in Flight(s, new) : Stage[e.obj] = s /\ e.qid < QueryID
    BY <1>0, <1>1, <1>2, <1>3, <1>5, SMT
  <1>8. \A e \in Flight(s, new) :
              \/ e \in unacked
              \/ \E x \in new : /\ e = InFlight(x) /\ e.tries = 0
                               /\ e.qid = x.qid /\ e.obj = x.obj /\ e.rev = x.rev
    BY <1>1, <1>2, <1>3
  <1>9. \A e, f \in Flight(s, new) : e.qid = f.qid => e = f
    BY <1>0, <1>5, <1>8, SMT
  <1>10. \A e \in queue \ new, f \in Flight(s, new) : e.qid # f.qid
    BY <1>0, <1>5, <1>8, SMT
  <1>11. \A e \in unacked \ UnackedOf(s), f \in Flight(s, new) : e.qid # f.qid
    BY <1>0, <1>1, <1>2, <1>3, <1>5, SMT
  <1> QED
    BY <1>1, <1>4, <1>6, <1>7, <1>8, <1>9, <1>10, <1>11

\* The dictionaries after the sends: what is left of the flight replaces what
\* the stage had in flight before.
LEMMA StageSent ==
  ASSUME IInv, NEW s \in Stages, NEW new \in PopItems(s), NEW rest,
         rest \subseteq Tried, IsFiniteSet(rest), Cardinality(rest) <= unacked_max[s],
         \A e \in rest : \E f \in Flight(s, new) :
            e.qid = f.qid /\ e.obj = f.obj /\ e.rev = f.rev,
         \A e, f \in rest : e.qid = f.qid => e = f,
         queue' = queue \ new, unacked' = (unacked \ UnackedOf(s)) \cup rest,
         \A m \in sent' : m \in sent \/ \E f \in Flight(s, new) :
            m.qid = f.qid /\ m.obj = f.obj /\ m.rev = f.rev,
         UNCHANGED <<acks, QueryID>>
  PROVE  /\ QueueTyped' /\ UnackedTyped' /\ IsFiniteSet(queue') /\ IsFiniteSet(unacked')
         /\ WindowRespected' /\ Ids'
         /\ \A m \in sent' : m.obj \in Object /\ m.rev \in 1 .. MaxRev /\ m.qid \in Nat
  <1>0. /\ QueueTyped /\ UnackedTyped /\ Ids /\ WindowRespected
        /\ IsFiniteSet(queue) /\ IsFiniteSet(unacked)
        /\ \A m \in sent : m.obj \in Object /\ m.rev \in 1 .. MaxRev /\ m.qid \in Nat
    BY DEF IInv, Aux, TypeOK, QueueTyped
  <1> DEFINE F == Flight(s, new)
             V == unacked \ UnackedOf(s)
  <1>1. /\ F \subseteq Tried
        /\ \A e \in F : Stage[e.obj] = s /\ e.qid < QueryID
        /\ \A e \in F : e \in unacked \/ \E x \in new : /\ e.qid = x.qid /\ e.obj = x.obj
                                                        /\ e.rev = x.rev
        /\ \A e, f \in F : e.qid = f.qid => e = f
        /\ \A e \in queue \ new, f \in F : e.qid # f.qid
        /\ \A e \in V, f \in F : e.qid # f.qid
    BY FlightTyped, SMT
  <1>2. new \subseteq queue
    BY FlightFits
  <1>3. \A e \in rest : \E f \in F : e.qid = f.qid /\ e.obj = f.obj /\ e.rev = f.rev
    OBVIOUS
  <1>4. \A m \in sent' : m \in sent \/ \E f \in F : m.qid = f.qid /\ m.obj = f.obj /\ m.rev = f.rev
    OBVIOUS
  <1>5. V \subseteq unacked /\ \A e \in V : Stage[e.obj] # s
    BY DEF UnackedOf
  <1>6. unacked' = V \cup rest
    OBVIOUS
  <1>7. \A e \in rest : Stage[e.obj] = s /\ e.qid < QueryID
    BY <1>1, <1>3, SMT
  <1> HIDE DEF F, V
  <1>8. QueueTyped' /\ IsFiniteSet(queue')
    BY <1>0, FS_Subset DEF QueueTyped
  <1>9. UnackedTyped' /\ IsFiniteSet(unacked')
    <2>1. IsFiniteSet(V)
      BY <1>0, <1>5, FS_Subset
    <2>2. IsFiniteSet(V \cup rest)
      BY <2>1, FS_Union, ZenonT(30)
    <2> QED
      BY <1>0, <1>5, <1>6, <2>2, ZenonT(30) DEF UnackedTyped
  <1>10. WindowRespected'
    <2> SUFFICES ASSUME NEW t \in Stages PROVE Cardinality(UnackedOf(t)') <= unacked_max[t]
      BY DEF WindowRespected
    <2>1. CASE t = s
      <3>1. UnackedOf(t)' = rest
        BY <1>5, <1>6, <1>7, <2>1 DEF UnackedOf
      <3> QED
        BY <2>1, <3>1
    <2>2. CASE t # s
      <3>1. UnackedOf(t)' = UnackedOf(t)
        BY <1>5, <1>6, <1>7, <2>2 DEF UnackedOf, V
      <3> QED
        BY <1>0, <3>1 DEF WindowRespected
    <2> QED
      BY <2>1, <2>2
  <1>11. \A m \in sent' : m.obj \in Object /\ m.rev \in 1 .. MaxRev /\ m.qid \in Nat
    BY <1>0, <1>1, <1>4, SMT DEF Tried
  <1>12. Ids'
    <2>1. \A e \in queue' : e.qid < QueryID' /\ e.key[1] = Key[e.obj]
      BY <1>0 DEF Ids
    <2>2. \A e \in unacked' : e.qid < QueryID'
      BY <1>0, <1>5, <1>6, <1>7 DEF Ids
    <2>3. \A m \in sent' : m.qid < QueryID'
      BY <1>0, <1>1, <1>4, SMT DEF Ids
    <2>4. \A a \in acks' : a.qid < QueryID'
      BY <1>0 DEF Ids
    <2>5. \A e, f \in queue' : e.qid = f.qid => e = f
      BY <1>0 DEF Ids
    <2>6. \A e, f \in unacked' : e.qid = f.qid => e = f
      BY <1>0, <1>1, <1>3, <1>5, <1>6, SMT DEF Ids
    <2>7. \A e \in queue', f \in unacked' : e.qid # f.qid
      BY <1>0, <1>1, <1>3, <1>5, <1>6, SMT DEF Ids
    <2>8. \A m \in sent', e \in queue' \cup unacked' :
            m.qid = e.qid => m.obj = e.obj /\ m.rev = e.rev
      <3> SUFFICES ASSUME NEW m \in sent', NEW e \in queue' \cup unacked', m.qid = e.qid
                   PROVE  m.obj = e.obj /\ m.rev = e.rev
        OBVIOUS
      <3>1. CASE e \in rest
        <4>1. PICK f \in F : e.qid = f.qid /\ e.obj = f.obj /\ e.rev = f.rev
          BY <1>3, <3>1
        <4>2. CASE m \in sent
          BY <1>0, <1>1, <1>2, <4>1, <4>2, SMT DEF Ids
        <4>3. CASE m \notin sent
          BY <1>1, <1>4, <4>1, <4>3, SMT
        <4> QED
          BY <4>2, <4>3
      <3>2. CASE e \notin rest
        <4>1. e \in queue \ new \/ e \in V
          BY <1>6, <3>2
        <4>2. m \in sent
          BY <1>1, <1>4, <4>1, SMT
        <4> QED
          BY <1>0, <1>5, <4>1, <4>2 DEF Ids
      <3> QED
        BY <3>1, <3>2
    <2> QED
      BY <2>1, <2>2, <2>3, <2>4, <2>5, <2>6, <2>7, <2>8 DEF Ids
  <1> QED
    BY <1>8, <1>9, <1>10, <1>11, <1>12

\* What the sends of a stage leave in flight, and when the stage is over
\* although objects of it wait: never, unless the object the window held last
\* was given up.
LEMMA NotExpired ==
  ASSUME NEW e \in Tried, ~ Expired(e)
  PROVE  e.tries \in 0 .. MAX_RETRIES_PER_OBJECT
  BY MassTransferAssumption, SMT DEF Tried, Expired

LEMMA AttemptIs ==
  ASSUME NEW e \in Tried, e.tries \in 0 .. MAX_RETRIES_PER_OBJECT
  PROVE  /\ Attempt(e) \in Tried /\ Attempt(e).qid = e.qid
         /\ Attempt(e).obj = e.obj /\ Attempt(e).rev = e.rev
  <1>1. e.tries + 1 \in 0 .. MAX_RETRIES_PER_OBJECT + 1
    BY MassTransferAssumption, SMT
  <1> QED
    BY <1>1 DEF Attempt, Tried

LEMMA SynchronousSends ==
  ASSUME IInv, NEW s \in Stages \ AsyncStages, NEW new \in PopItems(s), thread = "running",
         SendSynchronous(s, Flight(s, new))
  PROVE  /\ valid' \in BOOLEAN /\ processed' \in [Object -> 0 .. MaxRev]
         /\ \A o \in Object : processed[o] <= processed'[o]
         /\ UNCHANGED <<sent, MassTransfer_QueryID_Mapping, remote_active>>
         /\ valid
         /\ \E rest :
              /\ unacked' = (unacked \ UnackedOf(s)) \cup rest
              /\ rest \subseteq Tried /\ IsFiniteSet(rest) /\ Cardinality(rest) <= unacked_max[s]
              /\ \A e \in rest : \E f \in Flight(s, new) :
                   e.qid = f.qid /\ e.obj = f.obj /\ e.rev = f.rev
              /\ \A e, f \in rest : e.qid = f.qid => e = f
              /\ rest # {} => ~ valid'
              /\ \A f \in Flight(s, new) :
                   \/ \E e \in rest : e.qid = f.qid /\ e.obj = f.obj /\ e.rev = f.rev
                   \/ f.rev <= processed'[f.obj]
  <1> DEFINE F == Flight(s, new)
  <1>0. /\ valid /\ valid \in BOOLEAN /\ processed \in [Object -> 0 .. MaxRev]
        /\ \A e \in unacked : Stage[e.obj] \in AsyncStages
    BY DEF IInv, Aux, TypeOK
  <1>1. /\ F \subseteq Tried /\ \A e \in F : Stage[e.obj] = s /\ (e \in unacked \/ e.tries = 0)
        /\ \A e, f \in F : e.qid = f.qid => e = f
    BY FlightTyped, SMT
  <1>2. IsFiniteSet(F) /\ Cardinality(F) <= unacked_max[s]
    BY FlightFits
  <1>3. PICK done \in SUBSET F :
          /\ unacked' = (unacked \ UnackedOf(s)) \cup {Attempt(e) : e \in F \ done}
          /\ valid' = (valid /\ done = F)
          /\ processed' = [o \in Object |-> Newest(done, o)]
          /\ UNCHANGED <<sent, MassTransfer_QueryID_Mapping, remote_active>>
    BY DEF SendSynchronous
  <1> HIDE DEF F
  <1> DEFINE rest == {Attempt(e) : e \in F \ done}
  <1>4. \A e \in F : e \in Tried /\ e.tries \in 0 .. MAX_RETRIES_PER_OBJECT
    BY <1>0, <1>1, MassTransferAssumption, SMT
  <1>5. \A e \in F : /\ Attempt(e) \in Tried /\ Attempt(e).qid = e.qid
                    /\ Attempt(e).obj = e.obj /\ Attempt(e).rev = e.rev
    BY <1>4, AttemptIs
  <1>6. /\ IsFiniteSet(F \ done) /\ Cardinality(F \ done) <= Cardinality(F)
        /\ IsFiniteSet(rest) /\ Cardinality(rest) <= Cardinality(F \ done)
    <2>1. IsFiniteSet(F \ done) /\ Cardinality(F \ done) <= Cardinality(F)
      BY <1>2, FS_Subset
    <2> QED
      BY <2>1, AttemptCard
  <1>7. /\ Cardinality(F) \in Nat /\ Cardinality(F \ done) \in Nat /\ Cardinality(rest) \in Nat
        /\ unacked_max[s] \in Nat
    BY <1>2, <1>6, FS_CardinalityType, StageNumbers
  <1>8. Cardinality(rest) <= unacked_max[s]
    BY <1>2, <1>6, <1>7, SMT
  <1>9. \A e \in done : e.obj \in Object /\ e.rev \in 1 .. MaxRev
    BY <1>1 DEF Tried
  <1>10. \A o \in Object : /\ Newest(done, o) \in 0 .. MaxRev
                          /\ processed[o] <= Newest(done, o)
                          /\ \A e \in done : e.obj = o => e.rev <= Newest(done, o)
    BY <1>0, <1>9, NewestIs
  <1>11. /\ processed' \in [Object -> 0 .. MaxRev]
         /\ \A o \in Object : processed[o] <= processed'[o]
         /\ \A f \in done : f.rev <= processed'[f.obj]
    BY <1>3, <1>9, <1>10
  <1>12. rest # {} => ~ valid'
    BY <1>3, ZenonT(30)
  <1>13. valid' \in BOOLEAN
    BY <1>3
  <1>14. \A f \in F : \/ \E e \in rest : e.qid = f.qid /\ e.obj = f.obj /\ e.rev = f.rev
                     \/ f.rev <= processed'[f.obj]
    BY <1>5, <1>11
  <1>15. /\ rest \subseteq Tried
         /\ \A e \in rest : \E f \in F : e.qid = f.qid /\ e.obj = f.obj /\ e.rev = f.rev
         /\ \A e, f \in rest : e.qid = f.qid => e = f
    BY <1>1, <1>5, SMT
  <1> HIDE DEF rest
  <1>16. unacked' = (unacked \ UnackedOf(s)) \cup rest
    BY <1>3 DEF rest
  <1>17. \E r : /\ unacked' = (unacked \ UnackedOf(s)) \cup r
                /\ r \subseteq Tried /\ IsFiniteSet(r) /\ Cardinality(r) <= unacked_max[s]
                /\ \A e \in r : \E f \in F : e.qid = f.qid /\ e.obj = f.obj /\ e.rev = f.rev
                /\ \A e, f \in r : e.qid = f.qid => e = f
                /\ r # {} => ~ valid'
                /\ \A f \in F : \/ \E e \in r : e.qid = f.qid /\ e.obj = f.obj /\ e.rev = f.rev
                               \/ f.rev <= processed'[f.obj]
    BY <1>6, <1>8, <1>12, <1>14, <1>15, <1>16
  <1> QED
    BY <1>0, <1>3, <1>11, <1>13, <1>17 DEF F

LEMMA DatagramSends ==
  ASSUME IInv, NEW s \in AsyncStages, NEW new \in PopItems(s), thread = "running",
         Flight(s, new) # {}, SendDatagrams(s, Flight(s, new))
  PROVE  /\ valid' \in BOOLEAN /\ MassTransfer_QueryID_Mapping' \subseteq Nat
         /\ UNCHANGED destVars
         /\ \A m \in sent' : m \in sent \/ \E f \in Flight(s, new) :
              m.qid = f.qid /\ m.obj = f.obj /\ m.rev = f.rev
         /\ \E rest :
              /\ unacked' = (unacked \ UnackedOf(s)) \cup rest
              /\ rest \subseteq Tried /\ IsFiniteSet(rest) /\ Cardinality(rest) <= unacked_max[s]
              /\ \A e \in rest : \E f \in Flight(s, new) :
                   e.qid = f.qid /\ e.obj = f.obj /\ e.rev = f.rev
              /\ \A e, f \in rest : e.qid = f.qid => e = f
              /\ \A f \in Flight(s, new) :
                   \/ \E e \in rest : e.qid = f.qid /\ e.obj = f.obj /\ e.rev = f.rev
                   \/ SendRaises(f) \/ ~ valid'
              /\ rest = {} => \E x : Flight(s, new) = {x}
  <1> DEFINE F == Flight(s, new)
  <1>0. s \in Stages
    BY StageNumbers, SMT
  <1>1. /\ F \subseteq Tried /\ \A e, f \in F : e.qid = f.qid => e = f
    BY <1>0, FlightTyped
  <1>2. IsFiniteSet(F) /\ Cardinality(F) <= unacked_max[s] /\ F # {}
    BY <1>0, FlightFits
  <1>3. valid \in BOOLEAN /\ MassTransfer_QueryID_Mapping \subseteq Nat
    BY DEF IInv, TypeOK
  <1>4. PICK raised \in SUBSET {e \in F : Expired(e) \/ SendRaises(e)} :
          LET before == {e \in F : \A x \in raised : e.qid < x.qid}
          IN /\ Cardinality(raised) <= 1
             /\ \A e \in before : ~ Expired(e)
             /\ \E failed \in SUBSET (IF SendMayFail THEN before ELSE {}) :
                  /\ sent' = sent \cup {[qid |-> e.qid, obj |-> e.obj, rev |-> e.rev] :
                                          e \in before \ failed}
                  /\ MassTransfer_QueryID_Mapping' =
                       (MassTransfer_QueryID_Mapping
                          \cup {e.qid : e \in {x \in before \cup raised : ~ Expired(x)}})
                         \ {e.qid : e \in failed}
             /\ unacked' = (unacked \ UnackedOf(s))
                             \cup {Attempt(e) : e \in before}
                             \cup (F \ (before \cup raised))
             /\ valid' = (valid /\ \A e \in raised : ~ Expired(e))
             /\ UNCHANGED destVars
    BY ZenonT(30) DEF SendDatagrams
  <1> HIDE DEF F
  <1> DEFINE before == {e \in F : \A x \in raised : e.qid < x.qid}
             rest == {Attempt(e) : e \in before} \cup (F \ (before \cup raised))
             f == [e \in F \ raised |-> IF e \in before THEN Attempt(e) ELSE e]
  <1>5. /\ Cardinality(raised) <= 1 /\ raised \subseteq F /\ before \subseteq F
        /\ \A e \in raised : Expired(e) \/ SendRaises(e)
        /\ \A e \in before : ~ Expired(e)
        /\ unacked' = (unacked \ UnackedOf(s)) \cup {Attempt(e) : e \in before}
                         \cup (F \ (before \cup raised))
        /\ valid' = (valid /\ \A e \in raised : ~ Expired(e))
        /\ UNCHANGED destVars
    BY <1>4, ZenonT(30)
  <1>6. PICK failed : /\ sent' = sent \cup {[qid |-> e.qid, obj |-> e.obj, rev |-> e.rev] :
                                               e \in before \ failed}
                      /\ MassTransfer_QueryID_Mapping' =
                           (MassTransfer_QueryID_Mapping
                              \cup {e.qid : e \in {x \in before \cup raised : ~ Expired(x)}})
                             \ {e.qid : e \in failed}
    BY <1>4, ZenonT(30)
  <1>7. \A e \in before : e \notin raised
    BY <1>1, SMT DEF Tried
  <1> HIDE DEF before
  <1>8. \A e \in before : /\ Attempt(e) \in Tried /\ Attempt(e).qid = e.qid
                         /\ Attempt(e).obj = e.obj /\ Attempt(e).rev = e.rev
    <2>1. \A e \in before : e \in Tried /\ ~ Expired(e)
      BY <1>1, <1>5, ZenonT(30)
    <2> QED
      BY <2>1, NotExpired, AttemptIs, ZenonT(30)
  <1>9. MassTransfer_QueryID_Mapping' \subseteq Nat
    BY <1>1, <1>3, <1>5, <1>6, ZenonT(30) DEF Tried
  <1>10. \A m \in sent' : m \in sent \/ \E e \in F : m.qid = e.qid /\ m.obj = e.obj /\ m.rev = e.rev
    BY <1>5, <1>6, SMT
  <1>11. \A e \in F : e \in raised \/ \E r \in rest : r.qid = e.qid /\ r.obj = e.obj /\ r.rev = e.rev
    BY <1>8
  <1>12. \A r \in rest : \E e \in F \ raised : /\ r.qid = e.qid /\ r.obj = e.obj /\ r.rev = e.rev
                                             /\ r = f[e]
    <2> SUFFICES ASSUME NEW r \in rest
                 PROVE  \E e \in F \ raised : /\ r.qid = e.qid /\ r.obj = e.obj /\ r.rev = e.rev
                                             /\ r = f[e]
      OBVIOUS
    <2>1. CASE r \in F \ (before \cup raised)
      BY <2>1
    <2>2. CASE r \in {Attempt(e) : e \in before}
      <3>1. PICK e \in before : r = Attempt(e)
        BY <2>2
      <3>2. e \in F \ raised /\ f[e] = r
        BY <1>5, <1>7, <3>1
      <3> QED
        BY <1>8, <3>1, <3>2
    <2> QED
      BY <2>1, <2>2
  <1>13. rest \subseteq Tried
    BY <1>1, <1>8
  <1>14. f \in [F \ raised -> rest]
    <2>1. \A e \in F \ raised : f[e] \in rest
      OBVIOUS
    <2> QED
      BY <2>1
  <1>15. unacked' = (unacked \ UnackedOf(s)) \cup rest
    BY <1>5
  <1> HIDE DEF f, rest
  <1>16. IsFiniteSet(F \ raised) /\ Cardinality(F \ raised) <= Cardinality(F)
    BY <1>2, FS_Subset
  <1>17. IsFiniteSet(rest) /\ Cardinality(rest) <= Cardinality(F \ raised)
    BY <1>12, <1>14, <1>16, ImageCard, SMT
  <1>18. Cardinality(rest) <= unacked_max[s]
    <2>1. /\ Cardinality(F) \in Nat /\ Cardinality(F \ raised) \in Nat /\ Cardinality(rest) \in Nat
          /\ unacked_max[s] \in Nat
      BY <1>0, <1>2, <1>16, <1>17, FS_CardinalityType, StageNumbers
    <2> QED
      BY <1>2, <1>16, <1>17, <2>1, SMT
  <1>19. \A e, r \in rest : e.qid = r.qid => e = r
    BY <1>1, <1>12, SMT
  <1>20. \A e \in F : \/ \E r \in rest : r.qid = e.qid /\ r.obj = e.obj /\ r.rev = e.rev
                      \/ SendRaises(e) \/ ~ valid'
    BY <1>5, <1>11, ZenonT(30)
  <1>21. rest = {} => \E x : F = {x}
    <2> SUFFICES ASSUME rest = {} PROVE \E x : F = {x}
      OBVIOUS
    <2>1. F = raised
      BY <1>5, <1>11
    <2>2. Cardinality(F) \in Nat /\ Cardinality(F) <= 1 /\ Cardinality(F) # 0
      BY <1>2, <1>5, <2>1, FS_CardinalityType, FS_EmptySet
    <2>3. Cardinality(F) = 1
      BY <2>2, SMT
    <2> QED
      BY <1>2, <2>3, FS_Singleton
  <1>22. valid' \in BOOLEAN
    BY <1>5
  <1>23. \E r : /\ unacked' = (unacked \ UnackedOf(s)) \cup r
                /\ r \subseteq Tried /\ IsFiniteSet(r) /\ Cardinality(r) <= unacked_max[s]
                /\ \A e \in r : \E g \in F : e.qid = g.qid /\ e.obj = g.obj /\ e.rev = g.rev
                /\ \A e, g \in r : e.qid = g.qid => e = g
                /\ \A g \in F : \/ \E e \in r : e.qid = g.qid /\ e.obj = g.obj /\ e.rev = g.rev
                               \/ SendRaises(g) \/ ~ valid'
                /\ r = {} => \E x : F = {x}
    <2>1. \A e \in rest : \E g \in F : e.qid = g.qid /\ e.obj = g.obj /\ e.rev = g.rev
      BY <1>12
    <2>2. \A g \in F : \/ \E e \in rest : e.qid = g.qid /\ e.obj = g.obj /\ e.rev = g.rev
                      \/ SendRaises(g) \/ ~ valid'
      BY <1>20
    <2> WITNESS rest
    <2> QED
      BY <1>13, <1>15, <1>17, <1>18, <1>19, <1>21, <2>1, <2>2
  <1> QED
    BY <1>5, <1>9, <1>10, <1>22, <1>23, ZenonT(30) DEF F

\* A turn of the loop, whichever way its sends go.  rest is what it leaves in
\* flight of the stage.
StageTurn(s, new, rest) ==
  /\ queue' = queue \ new
  /\ unacked' = (unacked \ UnackedOf(s)) \cup rest
  /\ rest \subseteq Tried /\ IsFiniteSet(rest) /\ Cardinality(rest) <= unacked_max[s]
  /\ \A e \in rest : \E f \in Flight(s, new) : e.qid = f.qid /\ e.obj = f.obj /\ e.rev = f.rev
  /\ \A e, f \in rest : e.qid = f.qid => e = f
  /\ \A m \in sent' : m \in sent \/ \E f \in Flight(s, new) :
                          m.qid = f.qid /\ m.obj = f.obj /\ m.rev = f.rev
  /\ rest # {} => s \in AsyncStages \/ ~ valid'
  /\ \A f \in Flight(s, new) :
       \/ \E e \in rest : e.qid = f.qid /\ e.obj = f.obj /\ e.rev = f.rev
       \/ f.rev <= processed'[f.obj]
       \/ SendRaises(f) \/ ~ valid'
  /\ \/ transfer_stage' = s + 1 /\ thread' = "running" /\ valid' /\ rest = {}
     \/ transfer_stage' = s /\ thread' \in {"sleeping", "blocked"}
  /\ rest = {} => \/ s \notin AsyncStages
                  \/ Flight(s, new) = {}
                  \/ \E x : Flight(s, new) = {x}
  /\ valid' \in BOOLEAN /\ MassTransfer_QueryID_Mapping' \subseteq Nat
  /\ processed' \in [Object -> 0 .. MaxRev]
  /\ \A o \in Object : processed[o] <= processed'[o]
  /\ UNCHANGED <<acks, mass_transfer_lock, remote_active, sourceVars, domainVars, envVars, receiver>>

\* The loop sleeps, or the stage is over and nothing of it is in flight.
LEMMA SendsOver ==
  ASSUME NEW s \in Stages, NEW rest, transfer_stage = s, thread = "running", AfterSends(s),
         rest \subseteq unacked', \A e \in rest : Stage[e.obj] = s
  PROVE  \/ transfer_stage' = s + 1 /\ thread' = "running" /\ valid' /\ rest = {}
         \/ transfer_stage' = s /\ thread' \in {"sleeping", "blocked"}
  <1>1. CASE ~ valid' \/ \E e \in unacked' : Stage[e.obj] = s
    BY <1>1 DEF AfterSends
  <1>2. CASE ~(~ valid' \/ \E e \in unacked' : Stage[e.obj] = s)
    BY <1>2 DEF AfterSends, NextStage
  <1> QED
    BY <1>1, <1>2

LEMMA TurnTaken ==
  ASSUME IInv, TransferStage
  PROVE  /\ thread = "running" /\ valid /\ transfer_stage \in Stages
         /\ \E new \in PopItems(transfer_stage) : \E rest : StageTurn(transfer_stage, new, rest)
  <1> DEFINE s == transfer_stage
  <1>0. /\ thread = "running" /\ valid /\ valid \in BOOLEAN /\ s \in Stages
        /\ processed \in [Object -> 0 .. MaxRev] /\ MassTransfer_QueryID_Mapping \subseteq Nat
    <2>1. thread = "running" /\ transfer_stage < transfer_finished
      BY ZenonT(30) DEF TransferStage
    <2>2. /\ transfer_stage \in transfer_vnids .. transfer_finished /\ valid \in BOOLEAN
          /\ processed \in [Object -> 0 .. MaxRev] /\ MassTransfer_QueryID_Mapping \subseteq Nat
      BY ZenonT(30) DEF IInv, TypeOK
    <2>3. thread = "running" => valid
      BY ZenonT(30) DEF IInv, Aux
    <2>4. s \in Stages
      BY <2>1, <2>2, StageNumbers, SMT
    <2> QED
      BY <2>1, <2>2, <2>3, <2>4, ZenonT(30)
  <1>1. PICK new \in PopItems(s) :
          /\ queue' = queue \ new
          /\ \/ /\ Flight(s, new) = {}
                /\ NextStage
                /\ UNCHANGED <<unacked, valid, netVars, ackVars, destVars>>
             \/ /\ Flight(s, new) # {}
                /\ s \notin AsyncStages
                /\ SendSynchronous(s, Flight(s, new))
                /\ AfterSends(s)
                /\ UNCHANGED <<acks, mass_transfer_lock>>
             \/ /\ Flight(s, new) # {}
                /\ s \in AsyncStages
                /\ SendDatagrams(s, Flight(s, new))
                /\ AfterSends(s)
                /\ UNCHANGED <<acks, mass_transfer_lock>>
             \/ /\ Flight(s, new) # {}
                /\ s \in AsyncStages
                /\ unacked' = unacked \cup Flight(s, new)
                /\ thread' = "blocked"
                /\ UNCHANGED <<transfer_stage, valid, netVars, ackVars, destVars>>
    BY ZenonT(30) DEF TransferStage, Flight
  <1>2. UNCHANGED <<sourceVars, domainVars, envVars, receiver>>
    BY DEF TransferStage
  <1> DEFINE F == Flight(s, new)
  <1>3. /\ F \subseteq Tried /\ \A e, f \in F : e.qid = f.qid => e = f
        /\ \A e \in F : Stage[e.obj] = s
    BY <1>0, FlightTyped, SMT
  <1>4. IsFiniteSet(F) /\ Cardinality(F) <= unacked_max[s]
    BY <1>0, FlightFits
  <1>5. UnackedOf(s) \subseteq F /\ UnackedOf(s) \subseteq unacked
    BY DEF Flight, UnackedOf
  <1>6. \A o \in Object : processed[o] <= processed[o]
    BY <1>0, SMT
  <1>7. CASE /\ F = {}
             /\ NextStage
             /\ UNCHANGED <<unacked, valid, netVars, ackVars, destVars>>
    <2>1. StageTurn(s, new, {})
      <3>1. unacked' = (unacked \ UnackedOf(s)) \cup {}
        BY <1>5, <1>7
      <3>2. IsFiniteSet({}) /\ Cardinality({}) <= unacked_max[s]
        BY <1>0, FS_EmptySet, StageNumbers, SMT
      <3>3. transfer_stage' = s + 1 /\ thread' = "running" /\ valid'
        BY <1>0, <1>7 DEF NextStage
      <3>4. UNCHANGED <<sent, acks, mass_transfer_lock, remote_active, processed,
                        MassTransfer_QueryID_Mapping, valid>>
        BY <1>7 DEF netVars, ackVars, destVars
      <3> QED
        BY <1>0, <1>1, <1>2, <1>6, <1>7, <3>1, <3>2, <3>3, <3>4 DEF StageTurn
    <2> QED
      BY <1>0, <2>1
  <1>8. CASE /\ F # {}
             /\ s \notin AsyncStages
             /\ SendSynchronous(s, F)
             /\ AfterSends(s)
             /\ UNCHANGED <<acks, mass_transfer_lock>>
    <2>0. s \in Stages \ AsyncStages
      BY <1>0, <1>8
    <2>1. /\ valid' \in BOOLEAN /\ processed' \in [Object -> 0 .. MaxRev]
          /\ \A o \in Object : processed[o] <= processed'[o]
          /\ UNCHANGED <<sent, MassTransfer_QueryID_Mapping, remote_active>>
      BY <1>0, <1>8, <2>0, SynchronousSends
    <2>2. PICK rest :
              /\ unacked' = (unacked \ UnackedOf(s)) \cup rest
              /\ rest \subseteq Tried /\ IsFiniteSet(rest) /\ Cardinality(rest) <= unacked_max[s]
              /\ \A e \in rest : \E f \in F : e.qid = f.qid /\ e.obj = f.obj /\ e.rev = f.rev
              /\ \A e, f \in rest : e.qid = f.qid => e = f
              /\ rest # {} => ~ valid'
              /\ \A f \in F :
                   \/ \E e \in rest : e.qid = f.qid /\ e.obj = f.obj /\ e.rev = f.rev
                   \/ f.rev <= processed'[f.obj]
      BY <1>0, <1>8, <2>0, SynchronousSends, ZenonT(30)
    <2>3. rest \subseteq unacked' /\ \A e \in rest : Stage[e.obj] = s
      <3>1. \A e \in rest : \E f \in F : e.obj = f.obj
        BY <2>2
      <3>2. \A e \in F : Stage[e.obj] = s
        BY <1>3
      <3> QED
        BY <2>2, <3>1, <3>2
    <2>4. \/ transfer_stage' = s + 1 /\ thread' = "running" /\ valid' /\ rest = {}
          \/ transfer_stage' = s /\ thread' \in {"sleeping", "blocked"}
      BY <1>0, <1>8, <2>3, SendsOver, ZenonT(30)
    <2>5. StageTurn(s, new, rest)
      BY <1>0, <1>1, <1>2, <1>8, <2>1, <2>2, <2>4, ZenonT(30) DEF StageTurn
    <2> QED
      BY <1>0, <2>5
  <1>9. CASE /\ F # {}
             /\ s \in AsyncStages
             /\ SendDatagrams(s, F)
             /\ AfterSends(s)
             /\ UNCHANGED <<acks, mass_transfer_lock>>
    <2>1. /\ valid' \in BOOLEAN /\ MassTransfer_QueryID_Mapping' \subseteq Nat
          /\ UNCHANGED <<processed, remote_active>>
          /\ \A m \in sent' : m \in sent \/ \E f \in F :
               m.qid = f.qid /\ m.obj = f.obj /\ m.rev = f.rev
      BY <1>0, <1>9, DatagramSends, ZenonT(30) DEF destVars
    <2>2. PICK rest :
              /\ unacked' = (unacked \ UnackedOf(s)) \cup rest
              /\ rest \subseteq Tried /\ IsFiniteSet(rest) /\ Cardinality(rest) <= unacked_max[s]
              /\ \A e \in rest : \E f \in F : e.qid = f.qid /\ e.obj = f.obj /\ e.rev = f.rev
              /\ \A e, f \in rest : e.qid = f.qid => e = f
              /\ \A f \in F :
                   \/ \E e \in rest : e.qid = f.qid /\ e.obj = f.obj /\ e.rev = f.rev
                   \/ SendRaises(f) \/ ~ valid'
              /\ rest = {} => \E x : F = {x}
      BY <1>0, <1>9, DatagramSends, ZenonT(30)
    <2>3. rest \subseteq unacked' /\ \A e \in rest : Stage[e.obj] = s
      <3>1. \A e \in rest : \E f \in F : e.obj = f.obj
        BY <2>2
      <3>2. \A e \in F : Stage[e.obj] = s
        BY <1>3
      <3> QED
        BY <2>2, <3>1, <3>2, ZenonT(30)
    <2>4. \/ transfer_stage' = s + 1 /\ thread' = "running" /\ valid' /\ rest = {}
          \/ transfer_stage' = s /\ thread' \in {"sleeping", "blocked"}
      BY <1>0, <1>9, <2>3, SendsOver, ZenonT(30)
    <2>5. StageTurn(s, new, rest)
      BY <1>0, <1>1, <1>2, <1>6, <1>9, <2>1, <2>2, <2>4, ZenonT(30) DEF StageTurn
    <2> QED
      BY <1>0, <2>5
  <1>10. CASE /\ F # {}
              /\ s \in AsyncStages
              /\ unacked' = unacked \cup F
              /\ thread' = "blocked"
              /\ UNCHANGED <<transfer_stage, valid, netVars, ackVars, destVars>>
    <2>1. unacked' = (unacked \ UnackedOf(s)) \cup F
      BY <1>5, <1>10
    <2>2. UNCHANGED <<sent, acks, mass_transfer_lock, remote_active, processed,
                      MassTransfer_QueryID_Mapping, valid, transfer_stage>>
      BY <1>10 DEF netVars, ackVars, destVars
    <2> HIDE DEF F
    <2>3. /\ \A e \in F : \E f \in F : e.qid = f.qid /\ e.obj = f.obj /\ e.rev = f.rev
          /\ F # {}
      BY <1>10
    <2>4. StageTurn(s, new, F)
      BY <1>0, <1>1, <1>2, <1>3, <1>4, <1>6, <1>10, <2>1, <2>2, <2>3, ZenonT(30) DEF StageTurn, F
    <2> QED
      BY <1>0, <2>4
  <1> QED
    BY <1>1, <1>7, <1>8, <1>9, <1>10

LEMMA TransferStageStep == ASSUME IInv, TransferStage PROVE IInv'
  <1> DEFINE s == transfer_stage
  <1>1. thread = "running" /\ valid /\ s \in Stages
    BY TurnTaken
  <1>2. PICK new \in PopItems(s) : \E rest : StageTurn(s, new, rest)
    BY TurnTaken
  <1>3. PICK rest : StageTurn(s, new, rest)
    BY <1>2
  <1>4. /\ queue' = queue \ new /\ unacked' = (unacked \ UnackedOf(s)) \cup rest
        /\ rest \subseteq Tried /\ IsFiniteSet(rest) /\ Cardinality(rest) <= unacked_max[s]
        /\ \A e \in rest : \E f \in Flight(s, new) : e.qid = f.qid /\ e.obj = f.obj /\ e.rev = f.rev
        /\ \A e, f \in rest : e.qid = f.qid => e = f
        /\ \A m \in sent' : m \in sent \/ \E f \in Flight(s, new) :
                          m.qid = f.qid /\ m.obj = f.obj /\ m.rev = f.rev
    BY <1>3, ZenonT(30) DEF StageTurn
  <1>5. UNCHANGED <<acks, mass_transfer_lock, remote_active, sourceVars, domainVars, envVars, receiver>>
    BY <1>3 DEF StageTurn
  <1>6. UNCHANGED <<acks, QueryID>>
    BY <1>5 DEF sourceVars
  <1>7. /\ QueueTyped' /\ UnackedTyped' /\ IsFiniteSet(queue') /\ IsFiniteSet(unacked')
        /\ WindowRespected' /\ Ids'
        /\ \A m \in sent' : m.obj \in Object /\ m.rev \in 1 .. MaxRev /\ m.qid \in Nat
    BY <1>1, <1>4, <1>6, StageSent, ZenonT(30)
  <1>8. /\ \/ transfer_stage' = s + 1 /\ thread' = "running" /\ valid'
           \/ transfer_stage' = s /\ thread' \in {"sleeping", "blocked"}
        /\ valid' \in BOOLEAN /\ MassTransfer_QueryID_Mapping' \subseteq Nat
        /\ processed' \in [Object -> 0 .. MaxRev]
        /\ rest # {} => s \in AsyncStages \/ ~ valid'
    BY <1>3 DEF StageTurn
  <1>9. /\ transfer_stage' \in transfer_vnids .. transfer_finished
        /\ transfer_stage' = transfer_finished => valid'
        /\ thread' = "running" => valid'
        /\ thread' # "ended"
    BY <1>1, <1>8, StageNumbers, SMT
  <1>10. TypeOK'
    <2>1. \A e \in unacked' : /\ e.obj \in Object
                        /\ e.rev \in 1 .. MaxRev
                        /\ e.qid \in Nat
                        /\ e.tries \in 0 .. MAX_RETRIES_PER_OBJECT + 1
      BY <1>7 DEF UnackedTyped, Tried
    <2>2. \A e \in queue' : e.obj \in Object /\ e.rev \in 1 .. MaxRev /\ e.qid \in Nat
      BY <1>7 DEF QueueTyped
    <2>3. thread' \in {"sleeping", "running", "completed", "cancelled", "activate",
                       "deactivate", "clear", "ended", "blocked", "wedged"}
      BY <1>8
    <2> QED
      BY <1>5, <1>7, <1>8, <1>9, <2>1, <2>2, <2>3, SMT DEF IInv, TypeOK, sourceVars, domainVars,
         envVars
  <1>11. Aux'
    <2>1. \A e \in unacked' : Stage[e.obj] \in AsyncStages \/ ~ valid'
      <3>1. \A e \in rest : Stage[e.obj] = s
        BY <1>1, <1>4, FlightTyped, SMT
      <3>2. \A e \in unacked : Stage[e.obj] \in AsyncStages
        BY <1>1 DEF IInv, Aux
      <3> QED
        BY <1>4, <1>8, <3>1, <3>2
    <2> QED
      BY <1>5, <1>7, <1>9, <2>1 DEF IInv, Aux, sourceVars
  <1> QED
    BY <1>7, <1>10, <1>11 DEF IInv
=============================================================================
