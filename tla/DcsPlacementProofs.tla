------------------------- MODULE DcsPlacementProofs -------------------------
(***************************************************************************)
(* Where a domain lives, for any number of nodes, any replication factor   *)
(* and any number of faults, repairs and requests in flight: a node that   *)
(* lists itself has an active copy, a deleted domain stays gone, and no    *)
(* step takes the copies below the replication factor without a cause.     *)
(***************************************************************************)
EXTENDS DcsPlacement, FiniteSetTheorems, TLAPS

\* A leaf that names no prover is tried with Zenon, then with SMT.
USE ZenonT(20), SMTT(20)

\* A record of node n as the steps leave it: the entry of MassTransfer_Get_Ready
\* belongs to a copy that is not active yet, and no mapping is queued for the
\* node itself.
Sound(n, s) ==
  /\ s \in NodeState
  /\ s.ready => s.dom = "inactive"
  /\ n \notin s.out

\* s2 has the copy of s, and its own entry only if s has it.
SameCopy(n, s, s2) ==
  /\ s2.dom = s.dom
  /\ n \in s2.hosts => n \in s.hosts

\* The own entry of s2 is true if that of s is.
TrueEntry(n, s, s2) ==
  n \in s2.hosts /\ s2.dom # "active" => n \in s.hosts /\ s.dom # "active"

\* Nothing was ever said of the domain.
Blank(s) ==
  /\ s.dom = "none" /\ s.recov = "no" /\ s.hosts = {} /\ s.xfer = NoNode
  /\ ~ s.rep /\ ~ s.said

----------------------------------------------------------------------------
(* What the routines make of a node's record                               *)

LEMMA ExchangeIs ==
  ASSUME NEW n \in Node, NEW s, Sound(n, s), NEW to \in SUBSET Node
  PROVE  LET t == domain_mapping_exchange(s, n, to)
         IN /\ Sound(n, t) /\ SameCopy(n, s, t) /\ (Blank(s) => Blank(t))
            /\ t.xfer = s.xfer /\ t.fwd = s.fwd /\ t.hosts = s.hosts /\ t.rep = s.rep
            /\ t.lost = s.lost
  <1>1. (n \in s.hosts) \in BOOLEAN
    BY SMT
  <1> DEFINE has == n \in s.hosts
  <1>2. has \in BOOLEAN /\ (s.hosts = {} => ~ has)
    BY <1>1
  <1> HIDE DEF has
  <1>3. domain_mapping_exchange(s, n, to)
          = [[s EXCEPT !.out = @ \cup (to \ ({n} \cup s.lost))] EXCEPT !.said = has]
    BY DEF domain_mapping_exchange, dps_cluster_send_local_mapping_to,
           dps_cluster_send_local_domains, has
  <1> QED
    BY <1>2, <1>3 DEF Sound, SameCopy, Blank, NodeState

LEMMA TouchIs ==
  ASSUME NEW n \in Node, NEW m \in Node, NEW s, Sound(n, s)
  PROVE  LET t == node_touch(s, n, m)
         IN /\ Sound(n, t) /\ SameCopy(n, s, t) /\ (Blank(s) => Blank(t))
            /\ t.xfer = s.xfer /\ t.fwd = s.fwd /\ t.hosts = s.hosts /\ t.rep = s.rep
  <1> DEFINE u == [s EXCEPT !.lost = @ \ {m}]
  <1>1. /\ Sound(n, u) /\ SameCopy(n, s, u) /\ (Blank(s) => Blank(u))
        /\ u.xfer = s.xfer /\ u.fwd = s.fwd /\ u.hosts = s.hosts /\ u.rep = s.rep
    BY DEF Sound, SameCopy, Blank, NodeState
  <1> HIDE DEF u
  <1>2. LET t == domain_mapping_exchange(u, n, {m})
        IN /\ Sound(n, t) /\ SameCopy(n, u, t) /\ (Blank(u) => Blank(t))
           /\ t.xfer = u.xfer /\ t.fwd = u.fwd /\ t.hosts = u.hosts /\ t.rep = u.rep
    BY <1>1, ExchangeIs, SMT
  <1>3. CASE m \notin s.lost
    BY <1>3 DEF node_touch, SameCopy
  <1>4. CASE m \in s.lost
    <2>1. node_touch(s, n, m) = domain_mapping_exchange(u, n, {m})
      BY <1>4 DEF node_touch, u
    <2> QED
      BY <1>1, <1>2, <2>1 DEF SameCopy
  <1> QED
    BY <1>3, <1>4

\* Another node's mapping
LEMMA MappingIs ==
  ASSUME NEW n \in Node, NEW m \in Node \ {n}, NEW s, Sound(n, s), NEW has \in BOOLEAN
  PROVE  LET t == Node_Set_Domain_Mapping(s, n, m, has)
         IN Sound(n, t) /\ SameCopy(n, s, t) /\ (Blank(s) /\ ~ has => Blank(t))
  <1> DEFINE s1 == IF m \notin s.deact THEN s
                   ELSE IF has THEN [s EXCEPT !.deact = @ \ {m}]
                   ELSE node_delete_domain(s, m)
             s2 == IF m \in s1.hosts /\ ~has
                   THEN [s1 EXCEPT !.deact = @ \cup {m}] ELSE s1
             t == IF ~has THEN s2
                  ELSE IF m \in s2.hosts THEN [s2 EXCEPT !.rep = TRUE]
                  ELSE node_add_domain(s2, n, m)
  <1>1. Sound(n, s1) /\ SameCopy(n, s, s1) /\ (Blank(s) => Blank(s1))
    BY DEF node_delete_domain, Sound, SameCopy, Blank, NodeState
  <1> HIDE DEF s1
  <1>2. Sound(n, s2) /\ SameCopy(n, s1, s2) /\ (Blank(s1) => Blank(s2))
    BY <1>1 DEF Sound, SameCopy, Blank, NodeState
  <1> HIDE DEF s2
  <1>3. Sound(n, t) /\ SameCopy(n, s2, t) /\ (Blank(s2) /\ ~ has => Blank(t))
    BY <1>2 DEF node_add_domain, Sound, SameCopy, Blank, NodeState
  <1>4. Node_Set_Domain_Mapping(s, n, m, has) = t
    BY DEF Node_Set_Domain_Mapping, s1, s2
  <1> HIDE DEF t
  <1> QED
    BY <1>1, <1>2, <1>3, <1>4 DEF SameCopy

LEMMA GetReadyIs ==
  ASSUME NEW n \in Node, NEW s, Sound(n, s)
  PROVE  LET t == Domain_Get_Ready_For_Transfer(s)
         IN Sound(n, t) /\ TrueEntry(n, s, t) /\ (s.dom = "active" => t.dom = "active")
  BY DEF Domain_Get_Ready_For_Transfer, Sound, TrueEntry, NodeState

LEMMA ActivateIs ==
  ASSUME NEW n \in Node, NEW s, Sound(n, s)
  PROVE  LET t == domain_activate(s, n)
         IN /\ Sound(n, t) /\ TrueEntry(n, s, t)
            /\ t.dom = IF s.dom = "none" THEN "none" ELSE "active"
  <1> DEFINE u == Domain_Activate(s)
  <1>1. /\ Sound(n, u) /\ u.hosts = s.hosts
        /\ u.dom = IF s.dom = "none" THEN "none" ELSE "active"
    BY DEF Domain_Activate, Sound, NodeState
  <1> HIDE DEF u
  <1>2. Sound(n, node_add_domain(u, n, n)) /\ node_add_domain(u, n, n).dom = u.dom
    BY <1>1 DEF node_add_domain, Sound, NodeState
  <1>3. domain_activate(s, n) = IF s.dom = "none" THEN u ELSE node_add_domain(u, n, n)
    BY DEF domain_activate, dps_cluster_node_add_domain, u
  <1>4. CASE s.dom = "none"
    BY <1>1, <1>3, <1>4 DEF TrueEntry
  <1>5. CASE s.dom # "none"
    BY <1>1, <1>2, <1>3, <1>5 DEF TrueEntry
  <1> QED
    BY <1>4, <1>5

LEMMA ObjectDeactivateIs ==
  ASSUME NEW n \in Node, NEW s, Sound(n, s)
  PROVE  LET t == Domain_Deactivate(s)
         IN Sound(n, t) /\ t.dom = "none" /\ t.hosts = s.hosts
  BY DEF Domain_Deactivate, Domain_Object_Delete, Sound, NodeState

\* Only a transfer in progress leaves the own entry behind.
LEMMA DeactivateIs ==
  ASSUME NEW n \in Node, NEW s, Sound(n, s)
  PROVE  LET t == domain_deactivate(s, n)
         IN /\ Sound(n, t) /\ t.dom = "none"
            /\ n \in t.hosts => mass_transfer_processing(s)
  <1> DEFINE u == Domain_Deactivate(s)
  <1>1. Sound(n, u) /\ u.dom = "none"
    BY ObjectDeactivateIs
  <1> HIDE DEF u
  <1>2. LET v == node_delete_domain(u, n)
        IN Sound(n, v) /\ v.dom = "none" /\ n \notin v.hosts
    BY <1>1 DEF node_delete_domain, Sound, NodeState
  <1>3. domain_deactivate(s, n) = IF s.dom # "none" /\ mass_transfer_processing(s)
                                  THEN u ELSE node_delete_domain(u, n)
    BY DEF domain_deactivate, dps_cluster_node_delete_domain, u
  <1> QED
    BY <1>1, <1>2, <1>3

LEMMA ObjectDeleteIs ==
  ASSUME NEW n \in Node, NEW s, Sound(n, s)
  PROVE  LET t == Domain_Delete(s)
         IN Sound(n, t) /\ t.dom = "none" /\ t.hosts = s.hosts
  BY DEF Domain_Delete, Domain_Object_Delete, Sound, NodeState

LEMMA DeleteIs ==
  ASSUME NEW n \in Node, NEW s, Sound(n, s)
  PROVE  LET t == dps_req_handler_domain(s, n, "DELETE")
         IN Sound(n, t) /\ t.dom = "none" /\ t.hosts = {}
  <1> DEFINE u == Domain_Delete(s)
  <1>1. Sound(n, u) /\ u.dom = "none"
    BY ObjectDeleteIs
  <1> HIDE DEF u
  <1> DEFINE v == node_delete_domain(u, n)
  <1>2. Sound(n, v) /\ v.dom = "none"
    BY <1>1 DEF node_delete_domain, Sound, NodeState
  <1> HIDE DEF v
  <1>a. TombCount \in -1 .. TombCount
    BY PlacementAssumption, SMT
  <1>3. LET t == cluster_domain_delete(v)
        IN Sound(n, t) /\ t.dom = "none" /\ t.hosts = {}
    BY <1>2, <1>a DEF cluster_domain_delete, Sound, NodeState
  <1>4. dps_req_handler_domain(s, n, "DELETE") = domain_delete(s, n)
    BY DEF dps_req_handler_domain
  <1>5. domain_delete(s, n) = cluster_domain_delete(v)
    BY Zenon DEF domain_delete, dps_cluster_domain_delete, dps_cluster_node_delete_domain,
                 u, v
  <1> HIDE DEF domain_delete
  <1> QED
    BY <1>3, <1>4, <1>5

LEMMA AddIs ==
  ASSUME NEW n \in Node, NEW s, Sound(n, s)
  PROVE  LET t == dps_req_handler_domain(s, n, "PUT")
         IN Sound(n, t) /\ (s.dom = "active" => t.dom = "active")
  <1> DEFINE u == Domain_Add_Local(s)
  <1>1. Sound(n, u) /\ (s.dom = "active" => u.dom = "active")
    BY DEF Domain_Add_Local, Sound, NodeState
  <1> HIDE DEF u
  <1>2. LET t == node_add_domain(u, n, n)
        IN Sound(n, t) /\ t.dom = u.dom
    BY <1>1 DEF node_add_domain, Sound, NodeState
  <1> QED
    BY <1>1, <1>2 DEF dps_req_handler_domain, domain_add, dps_cluster_node_add_domain, u

LEMMA StartTransferIs ==
  ASSUME NEW n \in Node, NEW s, Sound(n, s), NEW d \in Node
  PROVE  LET t == domain_mass_transfer_start(s, d)
         IN Sound(n, t) /\ SameCopy(n, s, t)
  BY DEF domain_mass_transfer_start, Domain_Start_Transfer_To, Sound, SameCopy, NodeState

LEMMA RecoveryStartIs ==
  ASSUME NEW n \in Node, NEW s, Sound(n, s)
  PROVE  LET t == domain_recovery_start(s)
         IN Sound(n, t) /\ SameCopy(n, s, t)
  BY DEF domain_recovery_start, Domain_Recovery_Thread_Start, Sound, SameCopy, NodeState

LEMMA QueryIs ==
  ASSUME NEW n \in Node, NEW s, Sound(n, s)
  PROVE  LET t == dvg_query(s, n)
         IN Sound(n, t) /\ SameCopy(n, s, t)
  BY DEF dvg_query, Dvg_Add_Query, Domain_Recovery_Thread_Start, Sound, SameCopy,
         NodeState

LEMMA HousekeepingIs ==
  ASSUME NEW n \in Node, NEW s, Sound(n, s)
  PROVE  LET t == Housekeeping(s, n)
         IN /\ Sound(n, t) /\ SameCopy(n, s, t) /\ (Blank(s) => Blank(t))
            /\ t.hosts \subseteq s.hosts /\ t.rep = s.rep
  <1> DEFINE u == Timeout_Clear_Domains_From_Down_Nodes(s, n)
  <1>1. /\ Sound(n, u) /\ SameCopy(n, s, u) /\ (Blank(s) => Blank(u))
        /\ u.hosts \subseteq s.hosts /\ u.rep = s.rep
    BY DEF Timeout_Clear_Domains_From_Down_Nodes, Sound, SameCopy, Blank, NodeState
  <1> HIDE DEF u
  <1>2. LET t == Timeout_Recycle_Deleted_Domains(u)
        IN /\ Sound(n, t) /\ SameCopy(n, u, t) /\ (Blank(u) => Blank(t))
           /\ t.hosts = u.hosts /\ t.rep = u.rep
    BY <1>1, PlacementAssumption, SMT DEF Timeout_Recycle_Deleted_Domains, Sound, SameCopy,
       Blank, NodeState
  <1> QED
    BY <1>1, <1>2 DEF Housekeeping, SameCopy, u

LEMMA TimerIs ==
  ASSUME NEW n \in Node, NEW s, Sound(n, s), NEW due \in BOOLEAN
  PROVE  LET t == domain_mapping_exchange_timer(Housekeeping(s, n), n, due)
         IN /\ Sound(n, t) /\ SameCopy(n, s, t) /\ (Blank(s) => Blank(t))
            /\ t.hosts \subseteq s.hosts /\ t.rep = s.rep
  <1> DEFINE u == Housekeeping(s, n)
  <1>1. /\ Sound(n, u) /\ SameCopy(n, s, u) /\ (Blank(s) => Blank(u))
        /\ u.hosts \subseteq s.hosts /\ u.rep = s.rep
    BY HousekeepingIs
  <1> HIDE DEF u
  <1>2. LET t == domain_mapping_exchange(u, n, Node)
        IN /\ Sound(n, t) /\ SameCopy(n, u, t) /\ (Blank(u) => Blank(t))
           /\ t.hosts = u.hosts /\ t.rep = u.rep
    BY <1>1, ExchangeIs, SMT
  <1> QED
    BY <1>1, <1>2 DEF domain_mapping_exchange_timer, SameCopy, u

LEMMA UnqueuedIs ==
  ASSUME NEW n \in Node, NEW m \in Node, NEW s, Sound(n, s)
  PROVE  LET t == Unqueued(s, m)
         IN Sound(n, t) /\ SameCopy(n, s, t) /\ (Blank(s) => Blank(t))
  <1> DEFINE b == s.said /\ s.out # {m}
  <1>1. b \in BOOLEAN /\ (~ s.said => ~ b)
    OBVIOUS
  <1> HIDE DEF b
  <1>2. Unqueued(s, m) = [s EXCEPT !.out = @ \ {m}, !.said = b]
    BY DEF Unqueued, b, Sound, NodeState
  <1> QED
    BY <1>1, <1>2 DEF Sound, SameCopy, Blank, NodeState

----------------------------------------------------------------------------
(* The inductive invariant, and what a step may do                         *)

Cause == {"no", "busy", "half", "early"}

PlaceInv ==
  /\ st \in [Node -> NodeState]
  /\ \A n \in Node : Sound(n, st[n])
  /\ net \subseteq Message
  /\ dmc \in {"none", "pending", "synced", "deleted", "half"}
  /\ orphans \subseteq Node \X Node
  /\ hit \in [Node -> Cause]
  /\ AdvertisedIsServed

\* The leader's order to give up a copy it counts too many.
Withdrawal(e) == e.op = "deactivate" /\ e.why = "surplus"

\* Before the console has created the domain there is no trace of it.
NothingSaid ==
  /\ net = {} /\ orphans = {}
  /\ \A n \in Node : Blank(st[n])

NoCause == excuse \subseteq {"listed"}

\* A withdrawal on its way is the only one, and there is a copy to spare.
FactorInv ==
  /\ dmc = "none" => NothingSaid
  /\ DmcKnows /\ "query" \notin excuse => \A e \in net : e.op # "delete"
  /\ DmcKnows /\ NoCause =>
       \A e \in net : Withdrawal(e) =>
         /\ Cardinality(Active) > Factor
         /\ \A f \in net : Withdrawal(f) => f = e

\* How copies go: by a withdrawal that arrives, by the leader giving up its
\* own, or with a cause.
CopiesKept ==
  DmcKnows /\ DmcKnows' =>
    \/ Active \subseteq Active'
    \/ \E e \in net : /\ Withdrawal(e) /\ net' \subseteq net \ {e}
                      /\ Active \ {e.to} \subseteq Active'
    \/ /\ MapTrue /\ Cardinality(Active) > Factor /\ net' = net
       /\ Active \ {Leader} \subseteq Active'
    \/ ~ NoCause'
    \/ \E e \in net : e.op = "delete"

\* What the orders that take a copy away are sent on.
OrdersSent ==
  \A e \in net' \ net :
    /\ e.op = "delete" => "query" \in excuse' \/ ~ DmcKnows
    /\ Withdrawal(e) => \/ ~ NoCause'
                        \/ /\ MapTrue /\ Cardinality(Active) > Factor
                           /\ Active \subseteq Active' /\ net' \subseteq net \cup {e}

GoneStays ==
  \A n \in Node :
    dmc = "deleted" /\ st[n].dom = "none" /\ st'[n].dom # "none"
      => \E e \in net : e.op = "get_ready" /\ e.to = n

Step ==
  /\ excuse \subseteq excuse'
  /\ dmc' = "none" => dmc = "none"
  /\ DmcKnows' => dmc = "none" \/ DmcKnows
  /\ dmc = "none" /\ NothingSaid => net' = {} /\ (dmc' = "none" => NothingSaid')
  /\ CopiesKept
  /\ OrdersSent
  /\ GoneStays

LEMMA MessageFields ==
  ASSUME NEW e \in Message
  PROVE  /\ e.from \in Node /\ e.to \in Node
         /\ e.op = "transfer" => e.dst \in Node
         /\ e.op = "deactivate" => e.why \in {"cancel", "surplus"}
  BY DEF Message

LEMMA InitInv == PlacementInit => PlaceInv /\ FactorInv
  <1> SUFFICES ASSUME PlacementInit PROVE PlaceInv /\ FactorInv
    OBVIOUS
  <1>a. -1 \in -1 .. TombCount
    BY PlacementAssumption, SMT
  <1>1. Initial \in NodeState /\ Blank(Initial)
    BY <1>a DEF Initial, NodeState, Blank
  <1>2. \A n \in Node : Sound(n, Initial) /\ Initial.hosts = {}
    BY <1>1 DEF Initial, Sound
  <1>3. net = {} /\ orphans = {} /\ hit = [n \in Node |-> "no"]
    BY DEF PlacementInit
  <1>4. CASE dmc = "none" /\ st = [n \in Node |-> Initial]
    <2>1. PlaceInv
      BY <1>1, <1>2, <1>3, <1>4 DEF PlaceInv, AdvertisedIsServed, Cause
    <2>2. FactorInv
      BY <1>1, <1>3, <1>4 DEF FactorInv, NothingSaid
    <2> QED
      BY <2>1, <2>2
  <1>5. ASSUME NEW H \in SUBSET Node, dmc = "synced",
               st = [n \in Node |-> [Initial EXCEPT !.hosts = H, !.rep = TRUE, !.vnid = TRUE,
                                       !.dom = IF n \in H THEN "active" ELSE "none"]]
        PROVE  PlaceInv /\ FactorInv
    <2>1. ASSUME NEW n \in Node
          PROVE  /\ Sound(n, st[n]) /\ st[n] \in NodeState
                 /\ n \in st[n].hosts => st[n].dom = "active"
      <3> DEFINE d == IF n \in H THEN "active" ELSE "none"
                 r == [Initial EXCEPT !.hosts = H, !.rep = TRUE, !.vnid = TRUE, !.dom = d]
      <3>1. st[n] = r
        BY <1>5
      <3>2. d \in {"active", "none"} /\ (n \in H => d = "active")
        OBVIOUS
      <3> HIDE DEF d
      <3>3. r \in NodeState
        BY <1>1, <3>2 DEF NodeState
      <3>4. r.ready = Initial.ready /\ r.out = Initial.out /\ r.hosts = H /\ r.dom = d
        BY <1>1 DEF NodeState
      <3>5. Initial.ready = FALSE /\ Initial.out = {}
        BY DEF Initial
      <3> HIDE DEF r
      <3> QED
        BY <3>1, <3>2, <3>3, <3>4, <3>5 DEF Sound
    <2>2. st \in [Node -> NodeState]
      BY <2>1, <1>5
    <2>3. PlaceInv
      BY <1>3, <1>5, <2>1, <2>2 DEF PlaceInv, AdvertisedIsServed, Cause
    <2>4. FactorInv
      BY <1>3, <1>5 DEF FactorInv
    <2> QED
      BY <2>3, <2>4
  <1> QED
    BY <1>4, <1>5 DEF PlacementInit

LEMMA ActiveFinite ==
  /\ IsFiniteSet(Active) /\ Cardinality(Active) \in Nat
  /\ IsFiniteSet(Active') /\ Cardinality(Active') \in Nat
  /\ Active \subseteq Active' => Cardinality(Active) <= Cardinality(Active')
  /\ \A n : Active \ {n} \subseteq Active' => Cardinality(Active) <= Cardinality(Active') + 1
  <1>1. Active \subseteq Node /\ Active' \subseteq Node
    BY DEF Active
  <1>2. IsFiniteSet(Active) /\ IsFiniteSet(Active')
    BY <1>1, FS_Subset, PlacementAssumption
  <1>3. Cardinality(Active) \in Nat /\ Cardinality(Active') \in Nat
    BY <1>2, FS_CardinalityType
  <1>4. Active \subseteq Active' => Cardinality(Active) <= Cardinality(Active')
    BY <1>2, FS_Subset
  <1>5. ASSUME NEW n, Active \ {n} \subseteq Active'
        PROVE  Cardinality(Active) <= Cardinality(Active') + 1
    <2>1. Cardinality(Active \ {n}) <= Cardinality(Active')
      BY <1>2, <1>5, FS_Subset
    <2>2. Cardinality(Active \ {n}) \in {Cardinality(Active), Cardinality(Active) - 1}
      BY <1>2, FS_RemoveElement
    <2> QED
      BY <1>3, <2>1, <2>2, SMT
  <1> QED
    BY <1>2, <1>3, <1>4, <1>5

LEMMA FactorInvKept ==
  ASSUME FactorInv, Step, dmc' \in {"none", "pending", "synced", "deleted", "half"}
  PROVE  FactorInv'
  <1>1. dmc' = "none" => NothingSaid'
    BY DEF FactorInv, Step
  <1>2. ASSUME DmcKnows', "query" \notin excuse', NEW e \in net'
        PROVE  e.op # "delete"
    <2>1. dmc # "none"
      BY <1>2 DEF FactorInv, Step
    <2>2. DmcKnows /\ "query" \notin excuse
      BY <1>2, <2>1 DEF Step
    <2> QED
      BY <1>2, <2>2 DEF FactorInv, Step, OrdersSent
  <1>3. ASSUME DmcKnows', NoCause', NEW e \in net', Withdrawal(e)
        PROVE  /\ Cardinality(Active') > Factor
               /\ \A f \in net' : Withdrawal(f) => f = e
    <2>1. dmc # "none"
      BY <1>3 DEF FactorInv, Step
    <2>2. DmcKnows /\ NoCause /\ "query" \notin excuse
      BY <1>3, <2>1 DEF Step, NoCause
    <2>3. \A g \in net : g.op # "delete"
      BY <2>2 DEF FactorInv
    <2>4. \A g \in net : Withdrawal(g) =>
            Cardinality(Active) > Factor /\ \A f \in net : Withdrawal(f) => f = g
      BY <2>2 DEF FactorInv
    <2>5. CASE Active \subseteq Active'
      <3>1. CASE e \in net
        <4>1. ~ MapTrue
          BY <3>1, <1>3 DEF MapTrue, Withdrawal
        <4>2. \A f \in net' : Withdrawal(f) => f \in net
          BY <4>1, <1>3 DEF Step, OrdersSent
        <4>3. Cardinality(Active) > Factor
          BY <3>1, <2>4, <1>3
        <4> QED
          BY <4>2, <4>3, <3>1, <2>4, <1>3, <2>5, ActiveFinite, PlacementAssumption, SMT
      <3>2. CASE e \notin net
        <4>1. MapTrue /\ Cardinality(Active) > Factor /\ net' \subseteq net \cup {e}
          BY <3>2, <1>3 DEF Step, OrdersSent
        <4>2. \A f \in net : ~ Withdrawal(f)
          BY <4>1 DEF MapTrue, Withdrawal
        <4> QED
          BY <4>1, <4>2, <2>5, ActiveFinite, PlacementAssumption, SMT
      <3> QED
        BY <3>1, <3>2
    <2>6. ASSUME NEW g \in net, Withdrawal(g), net' \subseteq net \ {g}
          PROVE  FALSE
      BY <2>4, <2>6, <1>3
    <2>7. ASSUME MapTrue, net' = net
          PROVE  FALSE
      BY <2>7, <1>3 DEF MapTrue, Withdrawal
    <2> QED
      BY <1>3, <2>2, <2>3, <2>5, <2>6, <2>7 DEF Step, CopiesKept
  <1> QED
    BY <1>1, <1>2, <1>3 DEF FactorInv

LEMMA FactorStep ==
  ASSUME FactorInv, Step, dmc = "synced", dmc' = "synced"
  PROVE  \/ Cardinality(Active') >= Cardinality(Active)
         \/ Cardinality(Active') >= Factor
         \/ excuse' \ {"listed"} # {}
  <1> SUFFICES ASSUME NoCause'
               PROVE  \/ Cardinality(Active') >= Cardinality(Active)
                      \/ Cardinality(Active') >= Factor
    BY DEF NoCause
  <1>1. DmcKnows /\ DmcKnows' /\ NoCause /\ "query" \notin excuse
    BY DEF DmcKnows, Step, NoCause
  <1>2. ASSUME NEW g \in net, Withdrawal(g), Active \ {g.to} \subseteq Active'
        PROVE  Cardinality(Active') >= Factor
    <2>1. Cardinality(Active) > Factor
      BY <1>1, <1>2 DEF FactorInv
    <2>2. Cardinality(Active) <= Cardinality(Active') + 1
      BY <1>2, ActiveFinite
    <2> QED
      BY <2>1, <2>2, ActiveFinite, PlacementAssumption, SMT
  <1>3. ASSUME Cardinality(Active) > Factor, Active \ {Leader} \subseteq Active'
        PROVE  Cardinality(Active') >= Factor
    <2>2. Cardinality(Active) <= Cardinality(Active') + 1
      BY <1>3, ActiveFinite
    <2> QED
      BY <1>3, <2>2, ActiveFinite, PlacementAssumption, SMT
  <1>4. \A g \in net : g.op # "delete"
    BY <1>1 DEF FactorInv
  <1>5. Active \subseteq Active' => Cardinality(Active') >= Cardinality(Active)
    BY ActiveFinite
  <1> QED
    BY <1>1, <1>2, <1>3, <1>4, <1>5 DEF Step, CopiesKept

----------------------------------------------------------------------------
(* The steps                                                               *)

\* A step that turns n's record into s2 keeps the invariant if the own entry
\* of s2 is true, was false before, or the step gives a cause.
LEMMA BecomesInv ==
  ASSUME PlaceInv, NEW n \in Node, NEW s2, Sound(n, s2),
         NEW rest, rest \subseteq net, NEW out, out \subseteq Message, NEW why \in Cause,
         Becomes(n, s2, rest, out, why), UNCHANGED dmc,
         TrueEntry(n, st[n], s2) \/ why # "no" \/ n \notin s2.hosts
  PROVE  PlaceInv'
  <1>1. st' = [st EXCEPT ![n] = s2] /\ net' = rest \cup out
    BY DEF Becomes
  <1>2. hit' = [hit EXCEPT ![n] = Why(n, s2, why)] /\ orphans' = orphans \cup Orphaned(n, s2)
    BY DEF Becomes
  <1>3. s2 \in NodeState /\ st[n] \in NodeState
    BY DEF Sound, PlaceInv
  <1>4. st' \in [Node -> NodeState] /\ \A k \in Node : Sound(k, st'[k])
    BY <1>1, <1>3 DEF PlaceInv
  <1>5. net' \subseteq Message
    BY <1>1 DEF PlaceInv
  <1>6. Orphaned(n, s2) \subseteq Node \X Node
    <2>1. st[n].xfer \in Node \cup {NoNode}
      BY <1>3 DEF NodeState
    <2> QED
      BY <2>1, SMT DEF Orphaned
  <1>7. Why(n, s2, why) \in Cause
    BY DEF Why, Cause, PlaceInv
  <1>8. hit' \in [Node -> Cause]
    BY <1>2, <1>7 DEF PlaceInv
  <1>9. n \in st[n].hosts /\ st[n].dom # "active" => hit[n] # "no"
    BY DEF PlaceInv, AdvertisedIsServed
  <1>10. n \in s2.hosts /\ s2.dom # "active" => Why(n, s2, why) # "no"
    BY <1>9 DEF TrueEntry, Why
  <1>11. AdvertisedIsServed'
    BY <1>1, <1>2, <1>10 DEF PlaceInv, AdvertisedIsServed
  <1> QED
    BY <1>2, <1>4, <1>5, <1>6, <1>8, <1>11 DEF PlaceInv

\* A step that keeps the active copies and sends no order to drop one.
LEMMA QuietAll ==
  ASSUME \A k \in Node : st[k].dom = "active" => st'[k].dom = "active",
         \A e \in net' \ net : e.op # "delete" /\ ~ Withdrawal(e),
         UNCHANGED dmc, excuse \subseteq excuse', GoneStays,
         dmc = "none" /\ NothingSaid => NothingSaid'
  PROVE  Step
  <1>1. Active \subseteq Active'
    BY DEF Active
  <1>2. NothingSaid' => net' = {}
    BY DEF NothingSaid
  <1>3. CopiesKept /\ OrdersSent
    BY <1>1 DEF CopiesKept, OrdersSent
  <1> QED
    BY <1>2, <1>3 DEF Step, DmcKnows

\* The same for a step that turns n's record into s2.
LEMMA QuietStep ==
  ASSUME PlaceInv, NEW n \in Node, NEW s2, st' = [st EXCEPT ![n] = s2],
         \A e \in net' \ net : e.op # "delete" /\ ~ Withdrawal(e),
         UNCHANGED dmc, excuse \subseteq excuse',
         st[n].dom = "active" => s2.dom = "active",
         dmc = "deleted" /\ st[n].dom = "none" /\ s2.dom # "none"
           => \E e \in net : e.op = "get_ready" /\ e.to = n,
         dmc = "none" /\ NothingSaid => Blank(s2) /\ net' = {} /\ orphans' = {}
  PROVE  Step
  <1>1. \A k \in Node : st'[k] = IF k = n THEN s2 ELSE st[k]
    BY DEF PlaceInv
  <1>2. \A k \in Node : st[k].dom = "active" => st'[k].dom = "active"
    BY <1>1
  <1>3. dmc = "none" /\ NothingSaid => NothingSaid'
    BY <1>1 DEF NothingSaid
  <1>4. GoneStays
    BY <1>1 DEF GoneStays
  <1> QED
    BY <1>2, <1>3, <1>4, QuietAll

\* The same for a step described by Becomes.
LEMMA BecomesQuiet ==
  ASSUME PlaceInv, NEW n \in Node, NEW s2, NEW rest, rest \subseteq net, NEW out,
         \A e \in out : e.op # "delete" /\ ~ Withdrawal(e), NEW why,
         Becomes(n, s2, rest, out, why), UNCHANGED dmc, excuse \subseteq excuse',
         st[n].dom = "active" => s2.dom = "active",
         dmc = "deleted" /\ st[n].dom = "none" /\ s2.dom # "none"
           => \E e \in net : e.op = "get_ready" /\ e.to = n,
         dmc = "none" /\ NothingSaid => Blank(s2) /\ out = {}
  PROVE  Step
  <1>1. st' = [st EXCEPT ![n] = s2] /\ net' = rest \cup out
        /\ orphans' = orphans \cup Orphaned(n, s2)
    BY DEF Becomes
  <1>2. NothingSaid => Orphaned(n, s2) = {}
    BY DEF NothingSaid, Blank, Orphaned
  <1>3. dmc = "none" /\ NothingSaid => Blank(s2) /\ net' = {} /\ orphans' = {}
    BY <1>1, <1>2 DEF NothingSaid
  <1>4. \A e \in net' \ net : e.op # "delete" /\ ~ Withdrawal(e)
    BY <1>1
  <1> QED
    BY <1>1, <1>3, <1>4, QuietStep

\* A node's record after the request e has touched its sender.
LEMMA Touched ==
  ASSUME PlaceInv, NEW e \in net
  PROVE  LET t == node_touch(st[e.to], e.to, e.from)
         IN /\ e.to \in Node /\ e.from \in Node /\ Sound(e.to, t)
            /\ SameCopy(e.to, st[e.to], t)
            /\ t.xfer = st[e.to].xfer /\ t.fwd = st[e.to].fwd
  <1>1. e.to \in Node /\ e.from \in Node
    BY MessageFields DEF PlaceInv
  <1>2. Sound(e.to, st[e.to])
    BY <1>1 DEF PlaceInv
  <1> QED
    BY <1>1, <1>2, TouchIs, SMT

\* A delivery other than a deactivation or a deletion
LEMMA DeliverQuiet ==
  ASSUME PlaceInv, NEW e \in net, NEW s2, Sound(e.to, s2), TrueEntry(e.to, st[e.to], s2),
         Becomes(e.to, s2, net \ {e}, {}, "no"), UNCHANGED dmc, excuse \subseteq excuse',
         st[e.to].dom = "active" => s2.dom = "active",
         st[e.to].dom = "none" /\ s2.dom # "none" => e.op = "get_ready"
  PROVE  PlaceInv' /\ Step
  <1>1. e.to \in Node
    BY Touched
  <1>2. PlaceInv'
    BY <1>1, BecomesInv DEF Cause
  <1>3. ~ NothingSaid
    BY DEF NothingSaid
  <1>4. Step
    BY <1>1, <1>3, BecomesQuiet
  <1> QED
    BY <1>2, <1>4

LEMMA DeliverStep ==
  ASSUME PlaceInv, NEW e \in net, Deliver(e)
  PROVE  PlaceInv' /\ Step
  <1> DEFINE n == e.to
             t == node_touch(st[n], n, e.from)
  <1>1. /\ n \in Node /\ Sound(n, t) /\ SameCopy(n, st[n], t)
        /\ t.xfer = st[n].xfer /\ t.fwd = st[n].fwd
    BY Touched
  <1>2. UNCHANGED dmc /\ excuse' = excuse \cup Excused(e)
    BY DEF Deliver
  <1>3. \A s2 : TrueEntry(n, t, s2) => TrueEntry(n, st[n], s2)
    BY <1>1 DEF SameCopy, TrueEntry
  <1>m. e \in Message /\ n \in Node
    BY <1>1 DEF PlaceInv
  <1>4. CASE e.op = "get_ready" /\ get_ready(e)
    <2> DEFINE s2 == Domain_Get_Ready_For_Transfer(t)
    <2>1. Becomes(n, s2, net \ {e}, {}, "no")
      BY <1>4 DEF get_ready, Serve, domain_mass_transfer_get_ready
    <2>2. Sound(n, s2) /\ TrueEntry(n, t, s2) /\ (t.dom = "active" => s2.dom = "active")
      BY <1>1, GetReadyIs
    <2> HIDE DEF s2
    <2> QED
      BY <1>1, <1>2, <1>3, <1>4, <2>1, <2>2, DeliverQuiet DEF SameCopy
  <1>5. CASE e.op = "transfer" /\ transfer_domain(e)
    <2> DEFINE s2 == domain_mass_transfer_start(t, e.dst)
    <2>1. Becomes(n, s2, net \ {e}, {}, "no")
      BY <1>5 DEF transfer_domain, Serve
    <2>2. e.dst \in Node
      BY <1>5, <1>m, MessageFields
    <2>3. Sound(n, s2) /\ SameCopy(n, t, s2)
      BY <1>1, <2>2, StartTransferIs
    <2> HIDE DEF s2
    <2> QED
      BY <1>1, <1>2, <2>1, <2>3, DeliverQuiet DEF SameCopy, TrueEntry
  <1>6. CASE e.op = "activate" /\ domain_activate_request(e)
    <2> DEFINE a == domain_activate(t, n)
               x == domain_mapping_exchange(a, n, Node)
               s2 == IF t.dom = "none" THEN a ELSE x
    <2>1. Becomes(n, s2, net \ {e}, {}, "no")
      BY <1>6 DEF domain_activate_request, Serve, dps_cluster_exchange_domain_mapping_activate
    <2>2. /\ Sound(n, a) /\ TrueEntry(n, t, a)
          /\ a.dom = IF t.dom = "none" THEN "none" ELSE "active"
      BY <1>1, ActivateIs
    <2> HIDE DEF a
    <2>3. Sound(n, x) /\ SameCopy(n, a, x)
      BY <1>1, <2>2, ExchangeIs
    <2> HIDE DEF x
    <2>4. /\ Sound(n, s2) /\ TrueEntry(n, t, s2)
          /\ s2.dom = IF t.dom = "none" THEN "none" ELSE "active"
      BY <2>2, <2>3 DEF SameCopy, TrueEntry
    <2> HIDE DEF s2
    <2> QED
      BY <1>1, <1>2, <1>3, <2>1, <2>4, DeliverQuiet DEF SameCopy
  <1>7. CASE e.op = "recover" /\ domain_recover_request(e)
    <2> DEFINE s2 == domain_recovery_start(t)
    <2>1. Becomes(n, s2, net \ {e}, {}, "no")
      BY <1>7 DEF domain_recover_request, Serve
    <2>2. Sound(n, s2) /\ SameCopy(n, t, s2)
      BY <1>1, RecoveryStartIs
    <2> HIDE DEF s2
    <2> QED
      BY <1>1, <1>2, <2>1, <2>2, DeliverQuiet DEF SameCopy, TrueEntry
  <1>8. ASSUME NEW s2, NEW why \in Cause, Becomes(n, s2, net \ {e}, {}, why),
               Sound(n, s2), s2.dom = "none", n \notin s2.hosts \/ why # "no",
               e.op \in {"deactivate", "delete"}
        PROVE  PlaceInv' /\ Step
    <2>1. PlaceInv'
      BY <1>1, <1>2, <1>8, BecomesInv
    <2>2. st' = [st EXCEPT ![n] = s2] /\ net' = net \ {e}
      BY <1>8 DEF Becomes
    <2>3. \A k \in Node : st'[k] = IF k = n THEN s2 ELSE st[k]
      BY <2>2 DEF PlaceInv
    <2>4. GoneStays
      BY <2>3, <1>8 DEF GoneStays
    <2>5. Active \ {n} \subseteq Active'
      BY <2>3 DEF Active
    <2>6. e.op = "deactivate" => e.why \in {"cancel", "surplus"}
      BY <1>m, MessageFields
    <2>7. ASSUME e.op = "delete" \/ Withdrawal(e) PROVE CopiesKept
      BY <2>2, <2>5, <2>7 DEF CopiesKept
    <2>8. ASSUME e.op = "deactivate", e.why = "cancel", st[n].dom = "active"
          PROVE  CopiesKept
      <3>1. "cancel" \in excuse'
        BY <1>2, <2>8 DEF Excused
      <3> QED
        BY <3>1 DEF CopiesKept, NoCause
    <2>9. ASSUME st[n].dom # "active" PROVE CopiesKept
      <3>1. Active \subseteq Active'
        BY <2>3, <2>9 DEF Active
      <3> QED
        BY <3>1 DEF CopiesKept
    <2>10. CopiesKept
      BY <1>8, <2>6, <2>7, <2>8, <2>9 DEF Withdrawal
    <2>11. OrdersSent
      BY <2>2 DEF OrdersSent
    <2> QED
      BY <1>2, <2>1, <2>4, <2>10, <2>11 DEF Step, DmcKnows, NothingSaid
  <1>9. CASE e.op = "deactivate" /\ domain_deactivate_request(e)
    <2> DEFINE s2 == domain_deactivate(t, n)
               why == IF mass_transfer_processing(st[n]) THEN "busy" ELSE "no"
    <2>1. Becomes(n, s2, net \ {e}, {}, why)
      BY <1>9 DEF domain_deactivate_request, Serve
    <2>2. Sound(n, s2) /\ s2.dom = "none" /\ (n \in s2.hosts => mass_transfer_processing(t))
      BY <1>1, DeactivateIs
    <2>3. mass_transfer_processing(t) <=> mass_transfer_processing(st[n])
      BY <1>1 DEF mass_transfer_processing
    <2>4. why \in Cause /\ (n \in s2.hosts => why # "no")
      BY <2>2, <2>3 DEF Cause
    <2> HIDE DEF s2, why
    <2> QED
      BY <1>8, <1>9, <2>1, <2>2, <2>4
  <1>10. CASE e.op = "delete" /\ domain_delete_request(e)
    <2> DEFINE s2 == dps_req_handler_domain(t, n, "DELETE")
    <2>1. Becomes(n, s2, net \ {e}, {}, "no")
      BY <1>10 DEF domain_delete_request, Serve
    <2>2. Sound(n, s2) /\ s2.dom = "none" /\ s2.hosts = {}
      BY <1>1, DeleteIs
    <2> HIDE DEF s2
    <2>3. "no" \in Cause
      BY DEF Cause
    <2> QED
      BY <1>8, <1>10, <2>1, <2>2, <2>3
  <1> QED
    BY <1>4, <1>5, <1>6, <1>7, <1>9, <1>10 DEF Deliver

\* A mapping and its answer change the entries of the other node only.
LEMMA ExchangeStep ==
  ASSUME PlaceInv, NEW n \in Node, NEW m \in Node \ {n}, NEW s, NEW has \in BOOLEAN,
         Sound(n, s), SameCopy(n, st[n], s), Blank(st[n]) => Blank(s) /\ ~ has,
         Exchanged(n, m, s, has)
  PROVE  PlaceInv' /\ Step
  <1> DEFINE u == node_touch(st[m], m, n)
             r == Node_Set_Domain_Mapping(u, m, n, has)
             answer == m \in r.hosts
             t == Node_Set_Domain_Mapping(s, n, m, answer)
  <1>1. st' = [st EXCEPT ![m] = r, ![n] = t]
    BY DEF Exchanged, local_domain_mapping, dps_cluster_set_node_domain_mapping,
           dps_form_local_domain_mapping_json, dps_cluster_response_handler
  <1>2. UNCHANGED <<net, dmc, orphans, hit, excuse>>
    BY DEF Exchanged
  <1>3. Sound(m, u) /\ SameCopy(m, st[m], u) /\ (Blank(st[m]) => Blank(u))
    BY TouchIs DEF PlaceInv
  <1> HIDE DEF u
  <1>4. Sound(m, r) /\ SameCopy(m, u, r) /\ (Blank(u) /\ ~ has => Blank(r))
    BY <1>3, MappingIs
  <1> HIDE DEF r
  <1>5. answer \in BOOLEAN /\ (Blank(r) => ~ answer)
    BY SMT DEF Blank
  <1> HIDE DEF answer
  <1>6. Sound(n, t) /\ SameCopy(n, s, t) /\ (Blank(s) /\ ~ answer => Blank(t))
    BY <1>5, MappingIs
  <1> HIDE DEF t
  <1>7. r \in NodeState /\ t \in NodeState
    BY <1>4, <1>6 DEF Sound
  <1>8. \A k \in Node : st'[k] = IF k = n THEN t ELSE IF k = m THEN r ELSE st[k]
    BY <1>1 DEF PlaceInv
  <1>9. st' \in [Node -> NodeState]
    BY <1>1, <1>7 DEF PlaceInv
  <1>10. ASSUME NEW k \in Node
         PROVE  /\ Sound(k, st'[k]) /\ st'[k].dom = st[k].dom
                /\ k \in st'[k].hosts => k \in st[k].hosts
                /\ NothingSaid => Blank(st'[k])
    <2>1. CASE k = n
      <3>1. NothingSaid => Blank(st[n]) /\ Blank(st[m])
        BY DEF NothingSaid
      <3> QED
        BY <2>1, <3>1, <1>3, <1>4, <1>5, <1>6, <1>8 DEF SameCopy
    <2>2. CASE k = m
      <3>1. NothingSaid => Blank(st[n]) /\ Blank(st[m])
        BY DEF NothingSaid
      <3> QED
        BY <2>2, <3>1, <1>3, <1>4, <1>8 DEF SameCopy
    <2>3. CASE k # n /\ k # m
      BY <2>3, <1>8 DEF PlaceInv, NothingSaid
    <2> QED
      BY <2>1, <2>2, <2>3
  <1>11. AdvertisedIsServed'
    BY <1>2, <1>10 DEF PlaceInv, AdvertisedIsServed
  <1>12. PlaceInv'
    BY <1>2, <1>9, <1>10, <1>11 DEF PlaceInv
  <1>13. NothingSaid => NothingSaid'
    BY <1>2, <1>10 DEF NothingSaid
  <1>14. GoneStays
    BY <1>10 DEF GoneStays
  <1>15. Step
    BY <1>2, <1>10, <1>13, <1>14, QuietAll
  <1> QED
    BY <1>12, <1>15

LEMMA MappingStep ==
  ASSUME PlaceInv, NEW n \in Node, NEW m \in Node, QueuedMapping(n, m) \/ FreshMapping(n, m)
  PROVE  PlaceInv' /\ Step
  <1>1. Sound(n, st[n]) /\ st[n] \in NodeState
    BY DEF PlaceInv
  <1>2. CASE QueuedMapping(n, m)
    <2> DEFINE s == Unqueued(st[n], m)
               has == st[n].said
    <2>1. m \in st[n].out /\ Exchanged(n, m, s, has)
      BY <1>2 DEF QueuedMapping
    <2>2. m \in Node \ {n}
      BY <1>1, <2>1 DEF Sound
    <2>3. Sound(n, s) /\ SameCopy(n, st[n], s) /\ (Blank(st[n]) => Blank(s))
      BY <1>1, UnqueuedIs
    <2>4. has \in BOOLEAN /\ (Blank(st[n]) => ~ has)
      BY <1>1 DEF NodeState, Blank
    <2> HIDE DEF s, has
    <2> QED
      BY <2>1, <2>2, <2>3, <2>4, ExchangeStep
  <1>3. CASE FreshMapping(n, m)
    <2> DEFINE has == n \in st[n].hosts
    <2>1. m # n /\ Exchanged(n, m, st[n], has)
      BY <1>3 DEF FreshMapping, dps_form_local_domain_mapping_json
    <2>2. has \in BOOLEAN /\ (Blank(st[n]) => ~ has)
      BY SMT DEF Blank
    <2>3. SameCopy(n, st[n], st[n])
      BY DEF SameCopy
    <2> HIDE DEF has
    <2> QED
      BY <1>1, <2>1, <2>2, <2>3, ExchangeStep
  <1> QED
    BY <1>2, <1>3

LEMMA OrdersAre ==
  ASSUME NEW n \in Node, NEW d \in Node
  PROVE  /\ dps_node_domain_activate(n, d) \in Message
         /\ dps_node_domain_activate(n, d).op = "activate"
         /\ CancelTo(n, d) \in Message
         /\ CancelTo(n, d).op = "deactivate" /\ CancelTo(n, d).why = "cancel"
         /\ dps_node_get_ready(n, d) \in Message
         /\ dps_node_get_ready(n, d).op = "get_ready"
         /\ dps_node_domain_recover(n, d) \in Message
         /\ dps_node_domain_recover(n, d).op = "recover"
         /\ dps_rest_domain_delete_send_to_dps_node(n, d) \in Message
         /\ dps_node_domain_deactivate(n, d, "surplus") \in Message
         /\ dps_node_domain_deactivate(n, d, "surplus").op = "deactivate"
  BY DEF dps_node_domain_activate, CancelTo, dps_node_get_ready, dps_node_domain_recover,
         dps_rest_domain_delete_send_to_dps_node, dps_node_domain_deactivate, Message

\* A step of n that leaves its copy and its entry, and is not taken before
\* anything is said of the domain.
LEMMA SameCopyStep ==
  ASSUME PlaceInv, NEW n \in Node, NEW s2, Sound(n, s2), SameCopy(n, st[n], s2),
         NEW out, out \subseteq Message, \A e \in out : e.op # "delete" /\ ~ Withdrawal(e),
         Becomes(n, s2, net, out, "no"), UNCHANGED dmc, excuse \subseteq excuse',
         dmc = "none" /\ NothingSaid => Blank(s2) /\ out = {}
  PROVE  PlaceInv' /\ Step
  <1>1. TrueEntry(n, st[n], s2)
    BY DEF TrueEntry, SameCopy
  <1>2. PlaceInv'
    BY <1>1, BecomesInv DEF Cause
  <1>3. Step
    BY BecomesQuiet DEF SameCopy
  <1> QED
    BY <1>2, <1>3

\* The end of a transfer: completed, completed in vain, or failed.
LEMMA TransferStep ==
  ASSUME PlaceInv, NEW n \in Node,
         TransferComplete(n) \/ TransferNotActivated(n) \/ TransferFailed(n)
  PROVE  PlaceInv' /\ Step
  <1> DEFINE d == st[n].xfer
  <1>1. Sound(n, st[n]) /\ st[n] \in NodeState
    BY DEF PlaceInv
  <1>2. d # NoNode
    BY DEF TransferComplete, TransferNotActivated, TransferFailed
  <1>3. d \in Node
    BY <1>1, <1>2 DEF NodeState
  <1>4. ~ NothingSaid
    BY <1>2 DEF NothingSaid, Blank
  <1>5. CASE TransferComplete(n)
    <2> DEFINE s2 == [st[n] EXCEPT !.xfer = NoNode, !.fwd = @ \cup {d}]
               out == {dps_node_domain_activate(n, d)}
    <2>1. Becomes(n, s2, net, out, "no") /\ UNCHANGED dmc /\ excuse \subseteq excuse'
      BY <1>5 DEF TransferComplete
    <2>2. Sound(n, s2) /\ SameCopy(n, st[n], s2)
      BY <1>1, <1>3 DEF Sound, SameCopy, NodeState
    <2>3. out \subseteq Message /\ \A e \in out : e.op # "delete" /\ ~ Withdrawal(e)
      BY <1>3, OrdersAre DEF Withdrawal
    <2> HIDE DEF s2, out
    <2> QED
      BY <1>4, <2>1, <2>2, <2>3, SameCopyStep
  <1>6. CASE TransferNotActivated(n)
    <2> DEFINE s2 == [st[n] EXCEPT !.xfer = NoNode, !.fwd = @ \ {d}]
    <2>1. Becomes(n, s2, net, {}, "no") /\ UNCHANGED dmc /\ excuse \subseteq excuse'
      BY <1>6 DEF TransferNotActivated
    <2>2. Sound(n, s2) /\ SameCopy(n, st[n], s2)
      BY <1>1, <1>3 DEF Sound, SameCopy, NodeState
    <2> HIDE DEF s2
    <2> QED
      BY <1>4, <2>1, <2>2, SameCopyStep, SMT
  <1>7. CASE TransferFailed(n)
    <2> DEFINE s2 == [st[n] EXCEPT !.xfer = NoNode]
               out == {CancelTo(n, d)}
    <2>1. Becomes(n, s2, net, out, "no") /\ UNCHANGED dmc /\ excuse \subseteq excuse'
      BY <1>7 DEF TransferFailed
    <2>2. Sound(n, s2) /\ SameCopy(n, st[n], s2)
      BY <1>1 DEF Sound, SameCopy, NodeState
    <2>3. out \subseteq Message /\ \A e \in out : e.op # "delete" /\ ~ Withdrawal(e)
      BY <1>3, OrdersAre DEF Withdrawal
    <2> HIDE DEF s2, out
    <2> QED
      BY <1>4, <2>1, <2>2, <2>3, SameCopyStep
  <1> QED
    BY <1>5, <1>6, <1>7

LEMMA OrphanStep ==
  ASSUME PlaceInv, NEW o \in orphans, OrphanFinish(o)
  PROVE  PlaceInv' /\ Step
  <1>1. o[1] \in Node /\ o[2] \in Node
    BY DEF PlaceInv
  <1>2. /\ net' = net \cup {CancelTo(o[1], o[2])} /\ orphans' \subseteq orphans
        /\ UNCHANGED <<st, dmc, hit, excuse>>
    BY DEF OrphanFinish
  <1>3. \A e \in net' \ net : e \in Message /\ e.op # "delete" /\ ~ Withdrawal(e)
    BY <1>1, <1>2, OrdersAre DEF Withdrawal
  <1>4. PlaceInv'
    BY <1>2, <1>3 DEF PlaceInv, AdvertisedIsServed
  <1>5. ~ NothingSaid
    BY DEF NothingSaid
  <1>6. GoneStays
    BY <1>2 DEF GoneStays
  <1>7. Step
    BY <1>2, <1>3, <1>5, <1>6, QuietAll
  <1> QED
    BY <1>4, <1>7

\* The copy the timeout drops was not active yet.
LEMMA GetReadyTimeoutStep ==
  ASSUME PlaceInv, NEW n \in Node, Mass_Transfer_Get_Ready_Timeout(n)
  PROVE  PlaceInv' /\ Step
  <1> DEFINE s2 == Domain_Deactivate(st[n])
  <1>1. Sound(n, st[n]) /\ st[n].dom = "inactive"
    BY DEF PlaceInv, Sound, Mass_Transfer_Get_Ready_Timeout
  <1>2. Becomes(n, s2, net, {}, "no") /\ UNCHANGED <<dmc, excuse>>
    BY DEF Mass_Transfer_Get_Ready_Timeout
  <1>3. Sound(n, s2) /\ s2.dom = "none" /\ s2.hosts = st[n].hosts
    BY <1>1, ObjectDeactivateIs
  <1> HIDE DEF s2
  <1>4. TrueEntry(n, st[n], s2)
    BY <1>1, <1>3 DEF TrueEntry
  <1>5. PlaceInv'
    BY <1>2, <1>3, <1>4, BecomesInv DEF Cause
  <1>6. ~ NothingSaid
    BY <1>1 DEF NothingSaid, Blank
  <1>7. Step
    BY <1>1, <1>2, <1>3, <1>6, BecomesQuiet
  <1> QED
    BY <1>5, <1>7

LEMMA RecoveryQueryStep ==
  ASSUME PlaceInv, NEW n \in Node, NEW answered \in BOOLEAN, RecoveryQuery(n, answered)
  PROVE  PlaceInv' /\ Step
  <1>1. Sound(n, st[n]) /\ st[n] \in NodeState /\ st[n].recov = "start" /\ UNCHANGED dmc
    BY DEF PlaceInv, RecoveryQuery
  <1>2. ~ NothingSaid
    BY <1>1 DEF NothingSaid, Blank
  <1>3. CASE dps_query_domain_config(answered)
    <2> DEFINE u == Domain_Get_Ready_For_Transfer(st[n])
               s2 == [u EXCEPT !.recov = "ready"]
    <2>1. Becomes(n, s2, net, {}, "no") /\ UNCHANGED excuse
      BY <1>3 DEF RecoveryQuery
    <2>2. Sound(n, u) /\ TrueEntry(n, st[n], u) /\ (st[n].dom = "active" => u.dom = "active")
      BY <1>1, GetReadyIs
    <2> HIDE DEF u
    <2>3. Sound(n, s2) /\ s2.dom = u.dom /\ s2.hosts = u.hosts
      BY <2>2 DEF Sound, NodeState
    <2> HIDE DEF s2
    <2>4. TrueEntry(n, st[n], s2) /\ (st[n].dom = "active" => s2.dom = "active")
      BY <2>2, <2>3 DEF TrueEntry
    <2>5. dmc # "deleted"
      BY <1>3 DEF dps_query_domain_config, DmcKnows
    <2>6. PlaceInv'
      BY <1>1, <2>1, <2>3, <2>4, BecomesInv DEF Cause
    <2>7. Step
      BY <1>1, <1>2, <2>1, <2>4, <2>5, BecomesQuiet
    <2> QED
      BY <2>6, <2>7
  <1>4. CASE ~ dps_query_domain_config(answered)
    <2> DEFINE s2 == [st[n] EXCEPT !.recov = "no"]
               out == dps_cluster_send_domain_delete_to_all_nodes(n)
    <2>1. /\ Becomes(n, s2, net, out, "no")
          /\ excuse' = excuse \cup (IF answered THEN {} ELSE {"query"})
      BY <1>4 DEF RecoveryQuery
    <2>2. Sound(n, s2) /\ SameCopy(n, st[n], s2)
      BY <1>1 DEF Sound, SameCopy, NodeState
    <2>3. out \subseteq Message
      BY OrdersAre DEF dps_cluster_send_domain_delete_to_all_nodes
    <2>4. \A e \in out : e.op = "delete"
      BY SMT DEF dps_cluster_send_domain_delete_to_all_nodes,
         dps_rest_domain_delete_send_to_dps_node
    <2> HIDE DEF s2, out
    <2>5. PlaceInv'
      <3>1. TrueEntry(n, st[n], s2)
        BY <2>2 DEF TrueEntry, SameCopy
      <3> QED
        BY <1>1, <2>1, <2>2, <2>3, <3>1, BecomesInv DEF Cause
    <2>6. st' = [st EXCEPT ![n] = s2] /\ net' = net \cup out
      BY <2>1 DEF Becomes
    <2>7. \A k \in Node : st'[k].dom = st[k].dom
      BY <2>2, <2>6 DEF PlaceInv, SameCopy
    <2>8. GoneStays /\ Active \subseteq Active'
      BY <2>7 DEF GoneStays, Active
    <2>9. answered => ~ DmcKnows
      BY <1>4 DEF dps_query_domain_config
    <2>10. OrdersSent
      BY <2>1, <2>4, <2>6, <2>9 DEF OrdersSent, Withdrawal
    <2>11. CopiesKept
      BY <2>8 DEF CopiesKept
    <2>12. Step
      BY <1>1, <1>2, <2>1, <2>8, <2>10, <2>11 DEF Step, DmcKnows
    <2> QED
      BY <2>5, <2>12
  <1> QED
    BY <1>3, <1>4

LEMMA RecoveryActivateStep ==
  ASSUME PlaceInv, NEW n \in Node, RecoveryActivate(n)
  PROVE  PlaceInv' /\ Step
  <1> DEFINE s == [st[n] EXCEPT !.recov = "no"]
             s2 == IF s.dom = "none" THEN Domain_Delete(s) ELSE domain_activate(s, n)
  <1>1. Sound(n, st[n]) /\ st[n] \in NodeState /\ st[n].recov = "ready"
    BY DEF PlaceInv, RecoveryActivate
  <1>2. Becomes(n, s2, net, {}, "no") /\ UNCHANGED <<dmc, excuse>>
    BY DEF RecoveryActivate
  <1>3. Sound(n, s) /\ s.dom = st[n].dom /\ s.hosts = st[n].hosts
    BY <1>1 DEF Sound, NodeState
  <1> HIDE DEF s
  <1>4. LET t == Domain_Delete(s) IN Sound(n, t) /\ t.dom = "none" /\ t.hosts = s.hosts
    BY <1>3, ObjectDeleteIs
  <1>5. LET t == domain_activate(s, n)
        IN /\ Sound(n, t) /\ TrueEntry(n, s, t)
           /\ t.dom = IF s.dom = "none" THEN "none" ELSE "active"
    BY <1>3, ActivateIs
  <1>6. /\ Sound(n, s2) /\ TrueEntry(n, st[n], s2)
        /\ s2.dom = IF st[n].dom = "none" THEN "none" ELSE "active"
    BY <1>3, <1>4, <1>5 DEF TrueEntry
  <1> HIDE DEF s2
  <1>7. PlaceInv'
    BY <1>2, <1>6, BecomesInv DEF Cause
  <1>8. ~ NothingSaid
    BY <1>1 DEF NothingSaid, Blank
  <1>9. Step
    BY <1>2, <1>6, <1>8, BecomesQuiet
  <1> QED
    BY <1>7, <1>9

LEMMA VnidQueryStep ==
  ASSUME PlaceInv, NEW n \in Node, VnidQuery(n)
  PROVE  PlaceInv' /\ Step
  <1> DEFINE s2 == dvg_query(st[n], n)
  <1>1. Becomes(n, s2, net, {}, "no") /\ UNCHANGED <<dmc, excuse>> /\ dmc # "none"
    BY DEF VnidQuery, DmcKnows
  <1>2. Sound(n, s2) /\ SameCopy(n, st[n], s2)
    BY QueryIs DEF PlaceInv
  <1> HIDE DEF s2
  <1> QED
    BY <1>1, <1>2, SameCopyStep, SMT

LEMMA HeartbeatStep ==
  ASSUME PlaceInv, NEW n \in Node, NEW m \in Node, Heartbeat(n, m)
  PROVE  PlaceInv' /\ Step
  <1> DEFINE s2 == node_touch(st[n], n, m)
  <1>1. Becomes(n, s2, net, {}, "no") /\ UNCHANGED <<dmc, excuse>>
    BY DEF Heartbeat
  <1>2. Sound(n, s2) /\ SameCopy(n, st[n], s2) /\ (Blank(st[n]) => Blank(s2))
    BY TouchIs DEF PlaceInv
  <1>3. NothingSaid => Blank(st[n])
    BY DEF NothingSaid
  <1> HIDE DEF s2
  <1> QED
    BY <1>1, <1>2, <1>3, SameCopyStep, SMT

LEMMA RecreateStep ==
  ASSUME PlaceInv, NEW m \in Node, Domain_Recreate_Timer(m)
  PROVE  PlaceInv' /\ Step
  <1> DEFINE s == st[Leader]
             r == dps_domain_recover_on_node(s, Leader, m)
  <1>1. Leader \in Node
    BY PlacementAssumption
  <1>2. Sound(Leader, s) /\ s.rep
    BY <1>1 DEF PlaceInv, Domain_Recreate_Timer
  <1>3. Becomes(Leader, r.s, net, r.send, "no") /\ UNCHANGED <<dmc, excuse>>
    BY DEF Domain_Recreate_Timer
  <1>4. LET t == domain_recovery_start(s) IN Sound(Leader, t) /\ SameCopy(Leader, s, t)
    BY <1>1, <1>2, RecoveryStartIs
  <1>5. SameCopy(Leader, s, s)
    BY DEF SameCopy
  <1>6. /\ Sound(Leader, r.s) /\ SameCopy(Leader, s, r.s)
        /\ r.send \subseteq {dps_node_domain_recover(Leader, m)}
    BY <1>2, <1>4, <1>5 DEF dps_domain_recover_on_node
  <1> HIDE DEF r
  <1>7. r.send \subseteq Message /\ \A e \in r.send : e.op # "delete" /\ ~ Withdrawal(e)
    BY <1>1, <1>6, OrdersAre DEF Withdrawal
  <1>8. ~ NothingSaid
    BY <1>1, <1>2 DEF NothingSaid, Blank
  <1> QED
    BY <1>1, <1>3, <1>6, <1>7, <1>8, SameCopyStep

\* A withdrawal of a copy the leader counts
LEMMA WithdrawStep ==
  ASSUME PlaceInv, NEW s, Sound(Leader, s), SameCopy(Leader, st[Leader], s),
         s.hosts \subseteq st[Leader].hosts, s.rep = st[Leader].rep,
         domain_delete_node(s), UNCHANGED dmc
  PROVE  PlaceInv' /\ Step
  <1>1. Leader \in Node /\ st[Leader] \in NodeState
    BY PlacementAssumption DEF PlaceInv
  <1>2. s.rep /\ Cardinality(s.hosts \ s.lost) > Factor
    BY DEF domain_delete_node, Surplus, num_nodes
  <1>3. ~ NothingSaid
    BY <1>1, <1>2 DEF NothingSaid, Blank
  <1> DEFINE why == IF mass_transfer_processing(s) THEN "busy" ELSE "no"
             r(m) == dps_domain_deactivate_on_node(s, Leader, m, "surplus")
  <1>4. PICK m \in s.hosts \ s.lost : Becomes(Leader, r(m).s, net, r(m).send, why)
    BY DEF domain_delete_node
  <1>5. excuse' = excuse \cup (IF MapTrue THEN {} ELSE {"blind"})
    BY DEF domain_delete_node
  <1>6. MapTrue \/ ~ NoCause'
    BY <1>5 DEF NoCause
  <1>7. MapTrue => Cardinality(Active) > Factor
    <2> SUFFICES ASSUME MapTrue PROVE Cardinality(Active) > Factor
      OBVIOUS
    <2>1. st[Leader].hosts \subseteq Node
      BY <1>1 DEF NodeState
    <2>2. s.hosts \ s.lost \subseteq Active
      BY <2>1 DEF MapTrue, Active
    <2>3. IsFiniteSet(s.hosts \ s.lost) /\ Cardinality(s.hosts \ s.lost) <= Cardinality(Active)
      BY <2>2, ActiveFinite, FS_Subset
    <2>4. Cardinality(s.hosts \ s.lost) \in Nat
      BY <2>3, FS_CardinalityType
    <2> QED
      BY <1>2, <2>3, <2>4, ActiveFinite, PlacementAssumption, SMT
  <1>8. m \in Node
    BY <1>1, <1>4 DEF NodeState
  <1>9. CASE m = Leader
    <2> DEFINE s2 == domain_deactivate(s, Leader)
    <2>1. Becomes(Leader, s2, net, {}, why)
      BY <1>4, <1>9 DEF dps_domain_deactivate_on_node
    <2>2. /\ Sound(Leader, s2) /\ s2.dom = "none"
          /\ Leader \in s2.hosts => mass_transfer_processing(s)
      BY <1>1, DeactivateIs
    <2> HIDE DEF s2
    <2>3. why \in Cause /\ (Leader \in s2.hosts => why # "no")
      BY <2>2 DEF Cause
    <2> HIDE DEF why
    <2>4. PlaceInv'
      BY <1>1, <2>1, <2>2, <2>3, BecomesInv
    <2>5. st' = [st EXCEPT ![Leader] = s2] /\ net' = net
      BY <2>1 DEF Becomes
    <2>6. \A k \in Node : st'[k] = IF k = Leader THEN s2 ELSE st[k]
      BY <2>5 DEF PlaceInv
    <2>7. Active \ {Leader} \subseteq Active'
      BY <2>6 DEF Active
    <2>8. CopiesKept
      BY <1>6, <1>7, <2>5, <2>7 DEF CopiesKept
    <2>9. OrdersSent
      BY <2>5 DEF OrdersSent
    <2>10. GoneStays
      BY <2>2, <2>6 DEF GoneStays
    <2>11. Step
      BY <1>3, <1>5, <2>8, <2>9, <2>10 DEF Step, DmcKnows
    <2> QED
      BY <2>4, <2>11
  <1>10. CASE m # Leader
    <2> DEFINE e == dps_node_domain_deactivate(Leader, m, "surplus")
    <2>1. Becomes(Leader, s, net, {e}, why)
      BY <1>4, <1>10 DEF dps_domain_deactivate_on_node
    <2>2. e \in Message /\ e.op = "deactivate"
      BY <1>1, <1>8, OrdersAre
    <2> HIDE DEF e
    <2>3. why \in Cause
      BY DEF Cause
    <2> HIDE DEF why
    <2>4. TrueEntry(Leader, st[Leader], s)
      BY DEF TrueEntry, SameCopy
    <2>5. PlaceInv'
      BY <1>1, <2>1, <2>2, <2>3, <2>4, BecomesInv
    <2>6. st' = [st EXCEPT ![Leader] = s] /\ net' = net \cup {e}
      BY <2>1 DEF Becomes
    <2>7. \A k \in Node : st'[k].dom = st[k].dom
      BY <2>6 DEF PlaceInv, SameCopy
    <2>8. GoneStays /\ Active \subseteq Active'
      BY <2>7 DEF GoneStays, Active
    <2>9. CopiesKept
      BY <2>8 DEF CopiesKept
    <2>10. OrdersSent
      BY <1>6, <1>7, <2>2, <2>6, <2>8 DEF OrdersSent
    <2>11. Step
      BY <1>3, <1>5, <2>8, <2>9, <2>10 DEF Step, DmcKnows
    <2> QED
      BY <2>5, <2>11
  <1> QED
    BY <1>9, <1>10

LEMMA TimerStep ==
  ASSUME PlaceInv, NEW n \in Node, NEW due \in BOOLEAN, Timeout_Timer(n, due)
  PROVE  PlaceInv' /\ Step
  <1> DEFINE s == domain_mapping_exchange_timer(Housekeeping(st[n], n), n, due)
  <1>1. Sound(n, st[n]) /\ UNCHANGED dmc
    BY DEF PlaceInv, Timeout_Timer
  <1>2. /\ Sound(n, s) /\ SameCopy(n, st[n], s) /\ (Blank(st[n]) => Blank(s))
        /\ s.hosts \subseteq st[n].hosts /\ s.rep = st[n].rep
    BY <1>1, TimerIs
  <1>3. \/ Becomes(n, s, net, {}, "no") /\ UNCHANGED excuse
        \/ n = Leader /\ domain_add_node(s)
        \/ n = Leader /\ domain_delete_node(s)
    BY DEF Timeout_Timer
  <1> HIDE DEF s
  <1>4. NothingSaid => Blank(st[n]) /\ ~ s.rep
    BY <1>2 DEF NothingSaid, Blank
  <1>5. CASE Becomes(n, s, net, {}, "no") /\ UNCHANGED excuse
    BY <1>1, <1>2, <1>4, <1>5, SameCopyStep, SMT
  <1>6. CASE n = Leader /\ domain_add_node(s)
    <2>1. ~ NothingSaid /\ UNCHANGED excuse
      BY <1>4, <1>6 DEF domain_add_node, Deficit
    <2>2. PICK src \in s.hosts \ s.lost, dst \in Node \ (s.hosts \cup s.lost) :
            Becomes(Leader, s, net, dps_cluster_initiate_mass_transfer(Leader, src, dst), "no")
      BY <1>6 DEF domain_add_node
    <2> DEFINE out == dps_cluster_initiate_mass_transfer(Leader, src, dst)
    <2>3. src \in Node
      BY <1>2 DEF Sound, NodeState
    <2>4. out \subseteq Message /\ \A e \in out : e.op \in {"get_ready", "transfer"}
      BY <1>6, <2>3, OrdersAre, SMT DEF dps_cluster_initiate_mass_transfer,
         dps_cluster_leader_initiate_domain_move, dps_node_get_ready, Message
    <2>5. \A e \in out : e.op # "delete" /\ ~ Withdrawal(e)
      BY <2>4 DEF Withdrawal
    <2> HIDE DEF out
    <2> QED
      BY <1>1, <1>2, <1>6, <2>1, <2>2, <2>4, <2>5, SameCopyStep DEF out
  <1>7. CASE n = Leader /\ domain_delete_node(s)
    BY <1>1, <1>2, <1>7, WithdrawStep
  <1> QED
    BY <1>3, <1>5, <1>6, <1>7

LEMMA PutStep ==
  ASSUME PlaceInv, NEW done \in SUBSET Node, NEW ok \in BOOLEAN, DmcPut(done, ok)
  PROVE  PlaceInv' /\ Step
  <1> DEFINE L == st[Leader]
             exists == dps_cluster_domain_exists(L)
             s0(T) == IF exists THEN L
                      ELSE dps_rest_forward_handler_for_to_avail(L, Leader, T)
             s(n, T) == IF n = Leader THEN s0(T) ELSE st[n]
             to(T) == done \cup (IF ok THEN T ELSE {})
  <1>1. Leader \in Node /\ Sound(Leader, L) /\ L \in NodeState
    BY PlacementAssumption DEF PlaceInv
  <1>2. PICK T \in IF exists THEN {dps_get_domain_node_mapping(L, Leader)}
                   ELSE dps_cluster_lowest_loaded_nodes(L) :
          /\ st' = [n \in Node |-> IF n \in to(T)
                                    THEN dps_req_handler_domain(s(n, T), n, "PUT")
                                    ELSE s(n, T)]
          /\ hit' = [n \in Node |-> Why(n, st'[n], IF n \in to(T) THEN "half" ELSE "early")]
    BY DEF DmcPut
  <1>3. /\ dmc \in {"none", "pending"} /\ dmc' \in {"synced", "pending"}
        /\ UNCHANGED <<net, orphans, excuse>>
    BY DEF DmcPut
  <1>4. T \subseteq Node
    <2>1. L.hosts \subseteq Node
      BY <1>1 DEF NodeState
    <2>2. dps_get_domain_node_mapping(L, Leader) \subseteq Node
      BY <2>1 DEF dps_get_domain_node_mapping, Domain_Get_Nodes
    <2>3. \A X \in dps_cluster_lowest_loaded_nodes(L) : X \subseteq Node
      BY DEF dps_cluster_lowest_loaded_nodes
    <2> QED
      BY <1>2, <2>2, <2>3
  <1>5. Sound(Leader, s0(T)) /\ s0(T).dom = L.dom
    <2> DEFINE added == IF L.tomb >= 0 THEN T \cap {Leader} ELSE T
               b == L.rep \/ added # {}
               r == [L EXCEPT !.hosts = @ \cup added, !.rep = b, !.fwd = @ \ added]
    <2>1. added \subseteq Node /\ b \in BOOLEAN
      BY <1>4
    <2>2. dps_rest_forward_handler_for_to_avail(L, Leader, T) = r
      BY <1>1 DEF dps_rest_forward_handler_for_to_avail, NodeState
    <2> HIDE DEF added, b
    <2>3. Sound(Leader, r) /\ r.dom = L.dom
      BY <1>1, <2>1 DEF Sound, NodeState
    <2> HIDE DEF r
    <2> QED
      BY <1>1, <2>2, <2>3
  <1>6. \A n \in Node : Sound(n, s(n, T)) /\ s(n, T).dom = st[n].dom
    BY <1>5 DEF PlaceInv
  <1> HIDE DEF s, to
  <1>7. ASSUME NEW n \in Node
        PROVE  Sound(n, st'[n]) /\ (st[n].dom = "active" => st'[n].dom = "active")
    <2>1. LET t == dps_req_handler_domain(s(n, T), n, "PUT")
          IN Sound(n, t) /\ (s(n, T).dom = "active" => t.dom = "active")
      BY <1>6, AddIs
    <2> QED
      BY <1>2, <1>6, <2>1
  <1>8. st' \in [Node -> NodeState]
    <2>1. \A n \in Node : st'[n] \in NodeState
      BY <1>7 DEF Sound
    <2> QED
      BY <1>2, <2>1
  <1>9. ASSUME NEW n \in Node
        PROVE  /\ hit'[n] \in Cause
               /\ n \in st'[n].hosts /\ st'[n].dom # "active" => hit'[n] # "no"
    <2> DEFINE why == IF n \in to(T) THEN "half" ELSE "early"
    <2>1. hit'[n] = Why(n, st'[n], why)
      BY <1>2
    <2>2. hit[n] \in Cause /\ why \in Cause /\ why # "no"
      BY DEF PlaceInv, Cause
    <2> HIDE DEF why
    <2> QED
      BY <2>1, <2>2 DEF Why, Cause
  <1>10. hit' \in [Node -> Cause]
    BY <1>2, <1>9
  <1>11. PlaceInv'
    BY <1>3, <1>7, <1>8, <1>9, <1>10 DEF PlaceInv, AdvertisedIsServed
  <1>12. Active \subseteq Active'
    BY <1>7 DEF Active
  <1>13. CopiesKept /\ OrdersSent /\ GoneStays
    BY <1>3, <1>12 DEF CopiesKept, OrdersSent, GoneStays
  <1>14. Step
    BY <1>3, <1>13 DEF Step, DmcKnows, NothingSaid
  <1> QED
    BY <1>11, <1>14

LEMMA ConsoleDeleteStep ==
  ASSUME PlaceInv, NEW done \in SUBSET Node, NEW ok \in BOOLEAN, DmcDelete(done, ok)
  PROVE  PlaceInv' /\ Step
  <1> DEFINE to == IF ok THEN Node ELSE done
  <1>1. /\ dmc = "synced" /\ dmc' \in {"deleted", "half"}
        /\ UNCHANGED <<net, excuse>>
    BY DEF DmcDelete
  <1>2. /\ st' = [n \in Node |-> IF n \in to THEN dps_req_handler_domain(st[n], n, "DELETE")
                                  ELSE st[n]]
        /\ hit' = [n \in Node |-> IF n \in to THEN "no" ELSE hit[n]]
        /\ orphans' = orphans \cup UNION {Orphaned(n, st'[n]) : n \in to}
    BY DEF DmcDelete, dps_rest_forward_handler_for_to_all
  <1>3. to \subseteq Node
    OBVIOUS
  <1> HIDE DEF to
  <1>4. ASSUME NEW n \in Node
        PROVE  Sound(n, st'[n]) /\ (n \in to => st'[n].hosts = {})
    <2>1. LET t == dps_req_handler_domain(st[n], n, "DELETE")
          IN Sound(n, t) /\ t.dom = "none" /\ t.hosts = {}
      BY DeleteIs DEF PlaceInv
    <2> QED
      BY <1>2, <2>1 DEF PlaceInv
  <1>5. st' \in [Node -> NodeState]
    <2>1. \A n \in Node : st'[n] \in NodeState
      BY <1>4 DEF Sound
    <2> QED
      BY <1>2, <2>1
  <1>6. orphans' \subseteq Node \X Node
    <2>1. ASSUME NEW n \in to PROVE Orphaned(n, st'[n]) \subseteq Node \X Node
      <3>1. st[n].xfer \in Node \cup {NoNode}
        BY <1>3 DEF PlaceInv, NodeState
      <3> QED
        BY <1>3, <3>1, SMT DEF Orphaned
    <2> QED
      BY <1>2, <2>1 DEF PlaceInv
  <1>7. hit' \in [Node -> Cause]
    BY <1>2 DEF PlaceInv, Cause
  <1>8. AdvertisedIsServed'
    BY <1>2, <1>4 DEF PlaceInv, AdvertisedIsServed
  <1>9. PlaceInv'
    BY <1>1, <1>4, <1>5, <1>6, <1>7, <1>8 DEF PlaceInv
  <1>10. Step
    BY <1>1 DEF Step, DmcKnows, CopiesKept, OrdersSent, GoneStays
  <1> QED
    BY <1>9, <1>10

LEMMA LoseStep ==
  ASSUME PlaceInv, NEW e \in net, Lose(e)
  PROVE  PlaceInv' /\ Step
  <1>1. net' = net \ {e} /\ UNCHANGED <<st, dmc, orphans, hit, excuse>>
    BY DEF Lose
  <1>2. PlaceInv'
    BY <1>1 DEF PlaceInv, AdvertisedIsServed
  <1>3. GoneStays /\ ~ NothingSaid
    BY <1>1 DEF GoneStays, NothingSaid
  <1>4. Step
    BY <1>1, <1>3, QuietAll
  <1> QED
    BY <1>2, <1>4

\* A fault that changes neither a copy nor an entry
LEMMA RecordStep ==
  ASSUME PlaceInv, NEW n \in Node, NEW s2, Sound(n, s2), SameCopy(n, st[n], s2),
         Blank(st[n]) => Blank(s2), st' = [st EXCEPT ![n] = s2],
         UNCHANGED <<net, dmc, orphans, hit, excuse>>
  PROVE  PlaceInv' /\ Step
  <1>1. \A k \in Node : st'[k] = IF k = n THEN s2 ELSE st[k]
    BY DEF PlaceInv
  <1>2. st' \in [Node -> NodeState]
    BY DEF PlaceInv, Sound
  <1>3. PlaceInv'
    BY <1>1, <1>2 DEF PlaceInv, AdvertisedIsServed, SameCopy
  <1>4. NothingSaid => Blank(s2) /\ net' = {} /\ orphans' = {}
    BY DEF NothingSaid
  <1>5. Step
    BY <1>4, QuietStep DEF SameCopy
  <1> QED
    BY <1>3, <1>5

LEMMA LoseMappingStep ==
  ASSUME PlaceInv, NEW n \in Node, NEW m \in Node, LoseMapping(n, m)
  PROVE  PlaceInv' /\ Step
  <1> DEFINE s2 == Unqueued(st[n], m)
  <1>1. st' = [st EXCEPT ![n] = s2] /\ UNCHANGED <<net, dmc, orphans, hit, excuse>>
    BY DEF LoseMapping, PlaceInv
  <1>2. Sound(n, s2) /\ SameCopy(n, st[n], s2) /\ (Blank(st[n]) => Blank(s2))
    BY UnqueuedIs DEF PlaceInv
  <1> HIDE DEF s2
  <1> QED
    BY <1>1, <1>2, RecordStep

LEMMA SuspectStep ==
  ASSUME PlaceInv, NEW m \in Node, Suspect(m)
  PROVE  PlaceInv' /\ Step
  <1> DEFINE s2 == [st[Leader] EXCEPT !.lost = @ \cup {m}]
  <1>1. Leader \in Node /\ Sound(Leader, st[Leader]) /\ st[Leader] \in NodeState
    BY PlacementAssumption DEF PlaceInv
  <1>2. st' = [st EXCEPT ![Leader] = s2] /\ UNCHANGED <<net, dmc, orphans, hit, excuse>>
    BY <1>1 DEF Suspect, PlaceInv
  <1>3. /\ Sound(Leader, s2) /\ SameCopy(Leader, st[Leader], s2)
        /\ Blank(st[Leader]) => Blank(s2)
    BY <1>1 DEF Sound, SameCopy, Blank, NodeState
  <1> HIDE DEF s2
  <1> QED
    BY <1>1, <1>2, <1>3, RecordStep

LEMMA RestartStep ==
  ASSUME PlaceInv, NEW n \in Node, Restart(n)
  PROVE  PlaceInv' /\ Step
  <1>1. /\ st' = [st EXCEPT ![n] = Initial] /\ hit' = [hit EXCEPT ![n] = "no"]
        /\ orphans' \subseteq orphans /\ excuse' = excuse \cup {"restart"}
        /\ UNCHANGED <<net, dmc>>
    BY DEF Restart
  <1>a. -1 \in -1 .. TombCount
    BY PlacementAssumption, SMT
  <1>2. Initial \in NodeState /\ Blank(Initial) /\ Initial.hosts = {} /\ Initial.dom = "none"
    BY <1>a DEF Initial, NodeState, Blank
  <1>3. Sound(n, Initial)
    BY <1>2 DEF Initial, Sound
  <1>4. \A k \in Node : st'[k] = IF k = n THEN Initial ELSE st[k]
    BY <1>1 DEF PlaceInv
  <1>5. st' \in [Node -> NodeState]
    BY <1>1, <1>2 DEF PlaceInv
  <1>6. hit' \in [Node -> Cause] /\ \A k \in Node \ {n} : hit'[k] = hit[k]
    BY <1>1 DEF PlaceInv, Cause
  <1>7. PlaceInv'
    BY <1>1, <1>2, <1>3, <1>4, <1>5, <1>6 DEF PlaceInv, AdvertisedIsServed
  <1>8. CopiesKept
    <2>1. ~ NoCause'
      BY <1>1 DEF NoCause
    <2> QED
      BY <2>1 DEF CopiesKept
  <1>9. GoneStays
    BY <1>2, <1>4 DEF GoneStays
  <1>10. NothingSaid => NothingSaid' /\ net' = {}
    BY <1>1, <1>2, <1>4 DEF NothingSaid
  <1>11. OrdersSent
    BY <1>1 DEF OrdersSent
  <1>12. Step
    BY <1>1, <1>8, <1>9, <1>10, <1>11 DEF Step, DmcKnows
  <1> QED
    BY <1>7, <1>12

LEMMA NextStep ==
  ASSUME PlaceInv, PlacementNext
  PROVE  PlaceInv' /\ Step
  <1>1. ASSUME NEW n \in Node, NodeStep(n) PROVE PlaceInv' /\ Step
    BY <1>1, TransferStep, RecoveryQueryStep, RecoveryActivateStep, TimerStep,
       GetReadyTimeoutStep, VnidQueryStep DEF NodeStep
  <1>2. ASSUME FaultStep PROVE PlaceInv' /\ Step
    BY <1>2, LoseStep, LoseMappingStep, RestartStep, TransferStep, RecoveryQueryStep,
       SuspectStep DEF FaultStep
  <1>3. ASSUME ConsoleStep PROVE PlaceInv' /\ Step
    BY <1>3, PutStep, ConsoleDeleteStep DEF ConsoleStep
  <1> QED
    BY <1>1, <1>2, <1>3, DeliverStep, MappingStep, OrphanStep, HeartbeatStep, RecreateStep
       DEF PlacementNext

LEMMA StutterInv ==
  ASSUME PlaceInv, FactorInv, UNCHANGED vars
  PROVE  PlaceInv' /\ FactorInv'
  <1>1. PlaceInv'
    BY DEF PlaceInv, AdvertisedIsServed, vars
  <1>2. Active' = Active
    BY DEF Active, vars
  <1>3. FactorInv'
    BY <1>2 DEF FactorInv, NothingSaid, NoCause, DmcKnows, vars
  <1> QED
    BY <1>1, <1>3

LEMMA InvKept == PlaceInv /\ FactorInv /\ [PlacementNext]_vars => (PlaceInv /\ FactorInv)'
  <1> SUFFICES ASSUME PlaceInv, FactorInv, [PlacementNext]_vars
               PROVE  PlaceInv' /\ FactorInv'
    OBVIOUS
  <1>1. CASE PlacementNext
    <2>1. PlaceInv' /\ Step
      BY <1>1, NextStep
    <2>2. dmc' \in {"none", "pending", "synced", "deleted", "half"}
      BY <2>1 DEF PlaceInv
    <2> QED
      BY <2>1, <2>2, FactorInvKept
  <1>2. CASE UNCHANGED vars
    BY <1>2, StutterInv
  <1> QED
    BY <1>1, <1>2

----------------------------------------------------------------------------
(* A node's own entry in the map "domain -> nodes" is what its mapping     *)
(* tells the others: for any cluster and any history, it is there only     *)
(* with an active copy, or since a deactivation answered RETRY, a          *)
(* DOMAIN_ADD on an inactive copy or a placement that failed half way.     *)
THEOREM AdvertisedTheorem == PlacementSpec => []AdvertisedIsServed
  <1>1. PlaceInv => AdvertisedIsServed
    BY DEF PlaceInv
  <1> QED
    BY <1>1, InitInv, InvKept, PTL DEF PlacementSpec

(* The repair of the replication factor by the leader's timer: as long as  *)
(* it decides on a true map, and no restart, cancelled transfer or failed  *)
(* query takes a copy away, no step leaves fewer copies than it found and  *)
(* fewer than the factor.  The invariant behind it: a withdrawal on its    *)
(* way is the only one, there is a copy to spare, and no deletion is on    *)
(* its way that a failed query did not cause.                              *)
THEOREM FactorTheorem == PlacementSpec => FactorKept
  <1> DEFINE Body == dmc = "synced" /\ dmc' = "synced"
                       => \/ Cardinality(Active') >= Cardinality(Active)
                          \/ Cardinality(Active') >= Factor
                          \/ excuse' \ {"listed"} # {}
  <1>1. PlaceInv /\ FactorInv /\ [PlacementNext]_vars => [Body]_vars
    <2> SUFFICES ASSUME PlaceInv, FactorInv, PlacementNext PROVE Body
      OBVIOUS
    <2>1. Step
      BY NextStep
    <2> QED
      BY <2>1, FactorStep
  <1>2. PlacementSpec => [](PlaceInv /\ FactorInv)
    BY InitInv, InvKept, PTL DEF PlacementSpec
  <1> HIDE DEF Body
  <1>3. PlacementSpec => [][Body]_vars
    BY <1>1, <1>2, PTL DEF PlacementSpec
  <1> QED
    BY <1>3 DEF FactorKept, Body

(* DELETE of the domain reached every node: neither recovery, activation,  *)
(* a mapping nor a client's query gives a node a copy again, only a        *)
(* request to get ready that was still on its way.                         *)
THEOREM DeletedTheorem == PlacementSpec => DeletedStaysGone
  <1>1. PlaceInv /\ [PlacementNext]_vars => [GoneStays]_vars
    <2> SUFFICES ASSUME PlaceInv, PlacementNext PROVE GoneStays
      OBVIOUS
    <2> QED
      BY NextStep DEF Step
  <1>2. PlacementSpec => []PlaceInv
    BY InitInv, InvKept, PTL DEF PlacementSpec
  <1>3. PlacementSpec => [][GoneStays]_vars
    BY <1>1, <1>2, PTL DEF PlacementSpec
  <1> QED
    BY <1>3 DEF DeletedStaysGone, GoneStays
====
