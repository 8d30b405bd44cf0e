------------------------ MODULE DcsMembershipProofs ------------------------
(***************************************************************************)
(* What holds of the memory of a DCS node whatever the cluster, the        *)
(* console, the network and the time do, for any number of nodes and any   *)
(* limits: its leader is one of the nodes it knows, a leader that goes     *)
(* down is replaced in the same step, and a node that comes back from down *)
(* is checked for a partition.                                             *)
(*                                                                         *)
(* The routines of DcsMembership are operators on the memory of a node.    *)
(* Sound is what they preserve; Reacts is what a handler of a message does *)
(* to it, and is composed with what node_touch did before.                 *)
(***************************************************************************)
EXTENDS DcsMembership, WellFoundedInduction, TLAPS

\* A leaf that names no prover is tried with Zenon, then with SMT.
USE ZenonT(20), SMTT(20)

\* What holds of the memory s of node n between two steps
Sound(n, s) ==
    /\ s \in Memory
    /\ s.state[n] # "down"
    /\ s.active => n \in s.Node_Hash
    /\ ~s.active => s.Node_Hash = {}
    /\ s.Leader # NoNode => s.Leader \in s.Node_Hash

IInv ==
    /\ TypeOK
    /\ \A n \in Node : Sound(n, node[n])

\* t is s with other messages to send
SameButOut(s, t) == t \in Memory /\ t = [s EXCEPT !.out = t.out]

\* What the handlers of messages do to the memory of a node: they declare
\* nobody down, follow nobody who is, and take nobody back from down without
\* the hint of another partition, which only a mapping removes.
Reacts(s, t) ==
    /\ \A x \in Node : t.state[x] = "down" => s.state[x] = "down"
    /\ t.Leader = s.Leader \/ (t.Leader \in Node /\ t.state[t.Leader] # "down")
    /\ \A x \in s.Node_Hash \cap t.Node_Hash :
          /\ s.state[x] = "down" /\ t.state[x] = "up" => t.partition[x] # Same
          /\ t.partition[x] \in {s.partition[x], 0} \/ x \in t.domains

\* What any step may do to the leader of node n
Replaces(n, s, t) ==
    t.Leader # NoNode =>
      /\ t.Leader \in t.Node_Hash
      /\ t.state[t.Leader] = "down" =>
           \/ t.state[n] = "inactive"
           \/ s.Leader = t.Leader /\ s.state[s.Leader] = "down"

\* What any step may do to a node that was down
Checks(s, t) ==
    \A m \in s.Node_Hash \cap t.Node_Hash :
        s.state[m] = "down" /\ t.state[m] = "up"
          => t.partition[m] # Same \/ m \in t.domains

----------------------------------------------------------------------------
(* Messages and the routines shared by the handlers                        *)

\* What the routines send are messages.
LEMMA MessageTypes ==
    ASSUME NEW n \in Node, NEW m \in Node
    PROVE  /\ \A b \in BOOLEAN : Heartbeat(n, m, b) \in Message /\ DomainMapping(n, m, b) \in Message
           /\ HeartbeatRequest(n, m) \in Message
           /\ \A list \in [Node -> ClusterState] : NodesStatus(n, m, list) \in Message
           /\ \A list \in SUBSET Node : ClusterInfo(m, list) \in Message
  BY DEF Message, Heartbeat, DomainMapping, HeartbeatRequest, NodesStatus, ClusterInfo

\* Sending changes nothing else of the memory.
LEMMA SendSame ==
    ASSUME NEW s \in Memory, NEW ms \in SUBSET Message
    PROVE  SameButOut(s, Send(s, ms))
  BY DEF Send, SameButOut, Memory

\* domain_mapping_exchange only sends.
LEMMA ExchangeSame ==
    ASSUME NEW n \in Node, NEW s \in Memory, NEW ms \in SUBSET Node
    PROVE  SameButOut(s, domain_mapping_exchange(n, s, ms))
  <1> DEFINE sent == {DomainMapping(n, m, n \in s.domains) : m \in {x \in ms \ {n} : s.state[x] # "down"}}
  <1>1. sent \in SUBSET Message
    <2>1. (n \in s.domains) \in BOOLEAN
      BY SMT
    <2>2. \A m \in Node : DomainMapping(n, m, n \in s.domains) \in Message
      BY <2>1, MessageTypes
    <2> QED
      BY <2>2
  <1> HIDE DEF sent
  <1>2. SameButOut(s, Send(s, sent))
    BY <1>1, SendSame
  <1> QED
    BY <1>2 DEF domain_mapping_exchange, sent

\* What holds of a memory but for its messages, holds of the one with others.
LEMMA SameSound ==
    ASSUME NEW n \in Node, NEW s \in Memory, NEW t, SameButOut(s, t)
    PROVE  /\ t \in Memory
           /\ t.active = s.active /\ t.Node_Hash = s.Node_Hash /\ t.state = s.state
           /\ t.partition = s.partition /\ t.domains = s.domains /\ t.Leader = s.Leader
           /\ Sound(n, s) => Sound(n, t)
  BY DEF SameButOut, Sound, Memory

\* A nonempty set of nodes has a least one.
LEMMA LeastNode ==
    ASSUME NEW S \in SUBSET Node, S # {}
    PROVE  \E l \in S : \A m \in S : l <= m
  <1>1. S \subseteq Nat
    BY NodeAssumption
  <1>2. PICK l \in S : \A m \in S : ~(<<m, l>> \in OpToRel(<, Nat))
    BY <1>1, NatLessThanWellFounded, WFMin
  <1>3. \A m \in S : ~(m < l)
    BY <1>1, <1>2 DEF OpToRel
  <1> QED
    BY <1>1, <1>3, SMT

\* leader_election_run elects one of the nodes that are neither down nor
\* inactive, if there is one, and changes nothing else that matters here.
LEMMA Election ==
    ASSUME NEW n \in Node, NEW s \in Memory, NEW t, t = leader_election_run(n, s)
    PROVE  /\ t \in Memory
           /\ t.active = s.active /\ t.Node_Hash = s.Node_Hash /\ t.state = s.state
           /\ t.partition = s.partition /\ t.domains = s.domains
           /\ t.Leader \in Electable(s) \/ (Electable(s) = {} /\ t = s)
  <1>1. CASE Electable(s) = {}
    BY <1>1 DEF leader_election_run
  <1>2. CASE Electable(s) # {}
    <2> DEFINE l == CHOOSE l \in Electable(s) : \A m \in Electable(s) : l <= m
    <2>1. Electable(s) \in SUBSET Node
      BY DEF Electable, Memory
    <2>2. l \in Electable(s) /\ l \in Node
      BY <1>2, <2>1, LeastNode
    <2>3. t = IF l = n THEN [s EXCEPT !.Leader = n, !.queue = TRUE]
              ELSE Send([s EXCEPT !.Leader = l], {Heartbeat(n, l, s.state[n] # "inactive")})
      BY <1>2 DEF leader_election_run
    <2> HIDE DEF l
    <2>4. CASE l = n
      BY <2>2, <2>3, <2>4, ZenonT(30) DEF Memory
    <2>5. CASE l # n
      <3> DEFINE u == [s EXCEPT !.Leader = l]
                 ms == {Heartbeat(n, l, s.state[n] # "inactive")}
      <3>1. u \in Memory /\ u.Leader = l /\ u.active = s.active /\ u.Node_Hash = s.Node_Hash
            /\ u.state = s.state /\ u.partition = s.partition /\ u.domains = s.domains
        BY <2>2 DEF Memory
      <3>2. ms \in SUBSET Message
        BY <2>2, MessageTypes
      <3>3. t = Send(u, ms)
        BY <2>3, <2>5
      <3> HIDE DEF u, ms
      <3>4. SameButOut(u, t)
        BY <3>1, <3>2, <3>3, SendSame
      <3> QED
        BY <2>2, <3>1, <3>4, SameSound
    <2> QED
      BY <2>4, <2>5
  <1> QED
    BY <1>1, <1>2

\* An active node that does not hold itself for inactive can elect itself.
LEMMA CanElect ==
    ASSUME NEW n \in Node, NEW s \in Memory, n \in s.Node_Hash,
           s.state[n] \notin {"down", "inactive"}
    PROVE  Electable(s) # {}
  BY DEF Electable

\* node_touch: m is not down afterwards, and had it been, it is suspected of
\* another partition.
LEMMA Touch ==
    ASSUME NEW n \in Node, NEW s, NEW m \in Node, Sound(n, s), NEW t, t = node_touch(n, s, m)
    PROVE  /\ Sound(n, t)
           /\ t.Node_Hash = s.Node_Hash /\ t.Leader = s.Leader /\ t.active = s.active
           /\ t.domains = s.domains
           /\ m \in t.Node_Hash => t.state[m] # "down"
           /\ \A x \in Node : x # m => t.state[x] = s.state[x] /\ t.partition[x] = s.partition[x]
           /\ m \in s.Node_Hash /\ s.state[m] = "down" => t.partition[m] = 0
           /\ s.state[m] # "down" => t.partition[m] = s.partition[m] /\ t.state[m] # "down"
           /\ m \notin s.Node_Hash => t = s
  <1>0. s \in Memory
    BY DEF Sound
  <1>1. CASE ~s.active \/ m \notin s.Node_Hash
    BY <1>1 DEF node_touch, Sound
  <1>2. CASE ~(~s.active \/ m \notin s.Node_Hash)
    <2> DEFINE u == [s EXCEPT !.state[m] = IF @ = "inactive" THEN @ ELSE "up", !.ticks[m] = 0]
               v == [u EXCEPT !.partition[m] = 0]
               ms == IF leader_local(n, s) THEN {HeartbeatRequest(n, m)} ELSE {}
    <2>1. t = IF m = n \/ s.state[m] # "down" THEN u
              ELSE domain_mapping_exchange(n, Send(v, ms), {m})
      BY <1>2 DEF node_touch
    <2>2. /\ u \in Memory /\ u.Node_Hash = s.Node_Hash /\ u.Leader = s.Leader /\ u.active = s.active
          /\ u.domains = s.domains /\ u.partition = s.partition
          /\ u.state[m] # "down"
          /\ \A x \in Node : x # m => u.state[x] = s.state[x]
      <3> DEFINE st == [s.state EXCEPT ![m] = IF @ = "inactive" THEN @ ELSE "up"]
                 tk == [s.ticks EXCEPT ![m] = 0]
      <3>1. u = [s EXCEPT !.state = st, !.ticks = tk]
        BY <1>0 DEF Memory
      <3>2. /\ st \in [Node -> NodeState] /\ st[m] # "down"
            /\ \A x \in Node : x # m => st[x] = s.state[x]
        BY <1>0 DEF Memory, NodeState
      <3>3. tk \in [Node -> 0 .. MaxTicks]
        BY <1>0, TicksAssumption, SMT DEF Memory, MaxTicks
      <3> HIDE DEF st, tk, u
      <3> QED
        BY <1>0, <3>1, <3>2, <3>3 DEF Memory
    <2> HIDE DEF u
    <2>3. Sound(n, u)
      BY <1>0, <2>2 DEF Sound
    <2>4. CASE m = n \/ s.state[m] # "down"
      BY <1>2, <2>1, <2>2, <2>3, <2>4 DEF Sound
    <2>5. CASE ~(m = n \/ s.state[m] # "down")
      <3>1. /\ v \in Memory /\ v.Node_Hash = u.Node_Hash /\ v.Leader = u.Leader /\ v.active = u.active
            /\ v.domains = u.domains /\ v.state = u.state /\ v.partition[m] = 0
            /\ \A x \in Node : x # m => v.partition[x] = u.partition[x]
        BY <2>2, TicksAssumption, SMT DEF Memory, Same
      <3> HIDE DEF v
      <3>2. Sound(n, v)
        BY <2>3, <3>1 DEF Sound
      <3>3. ms \in SUBSET Message
        BY MessageTypes
      <3> HIDE DEF ms
      <3>4. SameButOut(v, Send(v, ms))
        BY <3>1, <3>3, SendSame
      <3>5. /\ Sound(n, Send(v, ms)) /\ Send(v, ms) \in Memory
            /\ LET w == Send(v, ms)
               IN  w.active = v.active /\ w.Node_Hash = v.Node_Hash /\ w.state = v.state
                   /\ w.partition = v.partition /\ w.domains = v.domains /\ w.Leader = v.Leader
        BY <3>1, <3>2, <3>4, SameSound, SMT
      <3>6. SameButOut(Send(v, ms), t)
        BY <2>1, <2>5, <3>5, ExchangeSame
      <3>7. /\ Sound(n, t) /\ t.active = v.active /\ t.Node_Hash = v.Node_Hash /\ t.state = v.state
            /\ t.partition = v.partition /\ t.domains = v.domains /\ t.Leader = v.Leader
        BY <3>5, <3>6, SameSound, SMT
      <3> QED
        BY <1>2, <2>2, <2>5, <3>1, <3>7
    <2> QED
      BY <2>4, <2>5
  <1> QED
    BY <1>1, <1>2

----------------------------------------------------------------------------
(* The handlers of the REST messages                                       *)

\* A handler that goes on to send something still reacts as it did.
LEMMA ThenSends ==
    ASSUME NEW n \in Node, NEW s, NEW t, NEW u, Sound(n, t), Reacts(s, t), SameButOut(t, u)
    PROVE  Sound(n, u) /\ Reacts(s, u)
  <1>1. t \in Memory
    BY DEF Sound
  <1>2. /\ Sound(n, u) /\ u.Node_Hash = t.Node_Hash /\ u.state = t.state
        /\ u.partition = t.partition /\ u.domains = t.domains /\ u.Leader = t.Leader
    BY <1>1, SameSound
  <1> QED
    BY <1>2 DEF Reacts

\* So does one that goes on to an election.
LEMMA ThenElects ==
    ASSUME NEW n \in Node, NEW s, NEW t, NEW u, Sound(n, t), Reacts(s, t),
           u = leader_election_run(n, t)
    PROVE  Sound(n, u) /\ Reacts(s, u)
  <1>1. t \in Memory
    BY DEF Sound
  <1>2. /\ u \in Memory /\ u.active = t.active /\ u.Node_Hash = t.Node_Hash /\ u.state = t.state
        /\ u.partition = t.partition /\ u.domains = t.domains
        /\ u.Leader \in Electable(t) \/ (Electable(t) = {} /\ u = t)
    BY <1>1, Election, SMT
  <1>3. u.Leader = t.Leader
        \/ (u.Leader \in Node /\ u.Leader \in u.Node_Hash /\ u.state[u.Leader] # "down")
    BY <1>1, <1>2 DEF Electable, Memory
  <1>4. Sound(n, u)
    BY <1>2, <1>3 DEF Sound
  <1>5. u.Leader = s.Leader \/ (u.Leader \in Node /\ u.state[u.Leader] # "down")
    BY <1>2, <1>3 DEF Reacts
  <1> QED
    BY <1>2, <1>4, <1>5 DEF Reacts

\* The leader's list has a state for every node.
LEMMA NodeListType ==
    ASSUME NEW s \in Memory
    PROVE  NodeList(s) \in [Node -> ClusterState]
  BY DEF NodeList, ClusterState

\* Node_Heartbeat, from a node that was touched.
LEMMA HeartbeatReacts ==
    ASSUME NEW n \in Node, NEW s, NEW m \in Node, NEW b \in BOOLEAN, Sound(n, s),
           m \in s.Node_Hash => s.state[m] # "down",
           NEW t, t = Node_Heartbeat(n, s, m, b)
    PROVE  Sound(n, t) /\ Reacts(s, t)
  <1>0. s \in Memory
    BY DEF Sound
  <1>1. CASE m \notin s.Node_Hash
    BY <1>1 DEF Node_Heartbeat, Reacts
  <1>2. CASE m \in s.Node_Hash
    <2> DEFINE u == [s EXCEPT !.state[m] = IF b THEN "up" ELSE "inactive"]
    <2>1. t = IF leader_local(n, u) THEN Send(u, {NodesStatus(n, m, NodeList(u))})
              ELSE IF u.Leader = m THEN leader_election_run(n, u)
              ELSE domain_mapping_exchange(n, u, {m})
      BY <1>2 DEF Node_Heartbeat
    <2>2. /\ u \in Memory /\ u.Node_Hash = s.Node_Hash /\ u.Leader = s.Leader /\ u.active = s.active
          /\ u.domains = s.domains /\ u.partition = s.partition
          /\ u.state[m] # "down"
          /\ \A x \in Node : x # m => u.state[x] = s.state[x]
      BY <1>0 DEF Memory, NodeState
    <2> HIDE DEF u
    <2>3. Sound(n, u) /\ Reacts(s, u)
      BY <1>0, <1>2, <2>2 DEF Sound, Reacts, Memory
    <2>4. SameButOut(u, Send(u, {NodesStatus(n, m, NodeList(u))}))
      BY <2>2, NodeListType, MessageTypes, SendSame
    <2>5. SameButOut(u, domain_mapping_exchange(n, u, {m}))
      BY <2>2, ExchangeSame
    <2> QED
      BY <2>1, <2>3, <2>4, <2>5, ThenSends, ThenElects
  <1> QED
    BY <1>1, <1>2

\* The sender of a request or of a list becomes leader unless it is suspected.
LEMMA LeaderTaken ==
    ASSUME NEW n \in Node, NEW s, NEW m \in Node, Sound(n, s),
           m \in s.Node_Hash, s.state[m] # "down",
           NEW t, t = IF s.partition[m] = Same THEN [s EXCEPT !.Leader = m] ELSE s
    PROVE  /\ Sound(n, t) /\ Reacts(s, t)
           /\ t.state = s.state /\ t.Node_Hash = s.Node_Hash /\ t.partition = s.partition
           /\ t.domains = s.domains
  <1>0. s \in Memory
    BY DEF Sound
  <1>1. /\ t \in Memory /\ t.active = s.active /\ t.Node_Hash = s.Node_Hash /\ t.state = s.state
        /\ t.partition = s.partition /\ t.domains = s.domains /\ t.Leader \in {s.Leader, m}
    BY <1>0 DEF Memory
  <1> QED
    BY <1>1 DEF Sound, Reacts

\* Node_Heartbeat_Request, from a node that was touched.
LEMMA RequestReacts ==
    ASSUME NEW n \in Node, NEW s, NEW m \in Node, Sound(n, s),
           m \in s.Node_Hash => s.state[m] # "down",
           NEW t, t = Node_Heartbeat_Request(n, s, m)
    PROVE  Sound(n, t) /\ Reacts(s, t)
  <1>1. CASE m \notin s.Node_Hash
    BY <1>1 DEF Node_Heartbeat_Request, Reacts
  <1>2. CASE m \in s.Node_Hash
    <2> DEFINE u == IF s.partition[m] = Same THEN [s EXCEPT !.Leader = m] ELSE s
               ms == {Heartbeat(n, m, u.state[n] # "inactive")}
    <2>1. t = IF u.Leader = m THEN Send(u, ms) ELSE domain_mapping_exchange(n, u, {m})
      BY <1>2 DEF Node_Heartbeat_Request
    <2>2. ms \in SUBSET Message
      BY MessageTypes
    <2>3. Sound(n, u) /\ Reacts(s, u)
      BY <1>2, LeaderTaken
    <2> HIDE DEF u, ms
    <2>4. u \in Memory
      BY <2>3 DEF Sound
    <2>5. SameButOut(u, Send(u, ms)) /\ SameButOut(u, domain_mapping_exchange(n, u, {m}))
      BY <2>2, <2>4, SendSame, ExchangeSame
    <2> QED
      BY <2>1, <2>3, <2>5, ThenSends
  <1> QED
    BY <1>1, <1>2

\* The leader's list takes nobody back from down without the hint.
LEMMA StatusAppliedReacts ==
    ASSUME NEW n \in Node, NEW s, Sound(n, s), NEW list \in [Node -> ClusterState],
           NEW t, t = StatusApplied(n, s, list)
    PROVE  Sound(n, t) /\ Reacts(s, t)
  <1> DEFINE known   == {m \in s.Node_Hash : list[m] # "absent"}
             touched == {m \in known : list[m] # "down"}
             back    == {m \in touched \ {n} : list[m] = "active" /\ s.state[m] = "down"}
             hinted  == {m \in known \ {n} : list[m] = "down" /\ s.state[m] = "up"}
             st      == [m \in Node |-> IF m \in hinted THEN "hint_down"
                                        ELSE IF m \notin touched THEN s.state[m]
                                        ELSE IF "inactive" \in {list[m], s.state[m]} THEN "inactive"
                                        ELSE "up"]
             tk      == [m \in Node |-> IF m \in touched \cup hinted THEN 0 ELSE s.ticks[m]]
             pt      == [m \in Node |-> IF m \in back THEN 0 ELSE s.partition[m]]
             u       == [s EXCEPT !.state = st, !.ticks = tk, !.partition = pt]
  <1>0. s \in Memory
    BY DEF Sound
  <1>1. t = domain_mapping_exchange(n, u, back)
    BY DEF StatusApplied
  <1>2. st \in [Node -> NodeState]
    BY <1>0 DEF Memory, NodeState
  <1>3. tk \in [Node -> 0 .. MaxTicks]
    BY <1>0, TicksAssumption, SMT DEF Memory, MaxTicks
  <1>4. pt \in [Node -> 0 .. Same]
    BY <1>0, TicksAssumption, SMT DEF Memory, Same
  <1>5. back \in SUBSET Node
    BY <1>0 DEF Memory
  <1>6. st[n] # "down"
    BY DEF Sound
  <1>7. \A x \in Node : st[x] = "down" => s.state[x] = "down"
    OBVIOUS
  <1>8. ASSUME NEW x \in s.Node_Hash, s.state[x] = "down", st[x] = "up"
        PROVE  pt[x] # Same
    <2>1. x \in Node /\ x # n
      BY <1>0, <1>8 DEF Memory, Sound
    <2>2. x \in touched /\ list[x] # "inactive"
      BY <1>8, <2>1
    <2>3. list[x] = "active"
      BY <2>1, <2>2 DEF ClusterState
    <2>4. pt[x] = 0
      BY <1>8, <2>1, <2>2, <2>3
    <2> QED
      BY <2>4, TicksAssumption, SMT DEF Same
  <1>9. \A x \in s.Node_Hash : pt[x] \in {s.partition[x], 0}
    BY <1>0 DEF Memory
  <1> HIDE DEF known, touched, back, hinted, st, tk, pt
  <1>10. /\ u \in Memory /\ u.state = st /\ u.partition = pt /\ u.Node_Hash = s.Node_Hash
         /\ u.Leader = s.Leader /\ u.active = s.active /\ u.domains = s.domains
    BY <1>0, <1>2, <1>3, <1>4 DEF Memory
  <1> HIDE DEF u
  <1>11. Sound(n, u)
    BY <1>6, <1>10 DEF Sound
  <1>12. Reacts(s, u)
    BY <1>7, <1>8, <1>9, <1>10 DEF Reacts
  <1> QED
    BY <1>1, <1>5, <1>10, <1>11, <1>12, ExchangeSame, ThenSends

\* Nodes_Status, from a node that was touched.
LEMMA StatusReacts ==
    ASSUME NEW n \in Node, NEW s, NEW m \in Node, Sound(n, s),
           m \in s.Node_Hash => s.state[m] # "down",
           NEW list \in [Node -> ClusterState],
           NEW t, t = Nodes_Status(n, s, m, list)
    PROVE  Sound(n, t) /\ Reacts(s, t)
  <1>1. CASE m \notin s.Node_Hash
    BY <1>1 DEF Nodes_Status, Reacts
  <1>2. CASE m \in s.Node_Hash
    <2> DEFINE u == IF s.partition[m] = Same THEN [s EXCEPT !.Leader = m] ELSE s
               v == StatusApplied(n, u, list)
    <2>1. t = IF u.Leader = m THEN v ELSE u
      BY <1>2 DEF Nodes_Status
    <2>2. /\ Sound(n, u) /\ Reacts(s, u)
          /\ u.state = s.state /\ u.Node_Hash = s.Node_Hash /\ u.partition = s.partition
          /\ u.domains = s.domains
      BY <1>2, LeaderTaken, SMT
    <2> HIDE DEF u
    <2>3. Sound(n, v) /\ Reacts(u, v)
      BY <2>2, StatusAppliedReacts
    <2> HIDE DEF v
    <2>4. CASE u.Leader = m
      <3>1. v.Leader = s.Leader \/ (v.Leader \in Node /\ v.state[v.Leader] # "down")
        <4>1. CASE v.Leader = u.Leader
          <5>1. v.state[m] # "down"
            BY <1>2, <2>2, <2>3 DEF Reacts
          <5> QED
            BY <2>4, <4>1, <5>1
        <4>2. CASE v.Leader # u.Leader
          BY <2>3, <4>2 DEF Reacts
        <4> QED
          BY <4>1, <4>2
      <3>2. Reacts(s, v)
        BY <2>2, <2>3, <3>1 DEF Reacts
      <3> QED
        BY <2>1, <2>3, <2>4, <3>2
    <2>5. CASE u.Leader # m
      BY <2>1, <2>2, <2>5
    <2> QED
      BY <2>4, <2>5
  <1> QED
    BY <1>1, <1>2

\* Node_Set_Domain_Mapping: only a mapping with a domain removes the hint.
LEMMA MappingReacts ==
    ASSUME NEW n \in Node, NEW s, NEW m \in Node, NEW hosted \in BOOLEAN, Sound(n, s),
           NEW t, t = Node_Set_Domain_Mapping(n, s, m, hosted)
    PROVE  Sound(n, t) /\ Reacts(s, t)
  <1>0. s \in Memory
    BY DEF Sound
  <1>1. CASE m \notin s.Node_Hash \/ ~hosted
    <2>1. /\ t \in Memory /\ t.active = s.active /\ t.Node_Hash = s.Node_Hash /\ t.state = s.state
          /\ t.partition = s.partition /\ t.Leader = s.Leader
      BY <1>0, <1>1 DEF Node_Set_Domain_Mapping, Memory
    <2> QED
      BY <2>1 DEF Sound, Reacts
  <1>2. CASE ~(m \notin s.Node_Hash \/ ~hosted)
    <2> DEFINE u == [s EXCEPT !.domains = @ \cup {m}, !.deactivated = @ \ {m}]
               v == [u EXCEPT !.partition[m] = Same]
    <2>1. t = IF m \in s.domains \/ s.partition[m] = Same THEN u ELSE leader_election_run(n, v)
      BY <1>2 DEF Node_Set_Domain_Mapping
    <2>2. /\ u \in Memory /\ u.active = s.active /\ u.Node_Hash = s.Node_Hash /\ u.state = s.state
          /\ u.partition = s.partition /\ u.Leader = s.Leader
      BY <1>0 DEF Memory
    <2>3. Sound(n, u) /\ Reacts(s, u)
      BY <2>2 DEF Sound, Reacts
    <2>4. /\ v \in Memory /\ v.active = s.active /\ v.Node_Hash = s.Node_Hash /\ v.state = s.state
          /\ v.Leader = s.Leader /\ m \in v.domains
          /\ \A x \in Node : x # m => v.partition[x] = s.partition[x]
      <3> HIDE DEF u
      <3> DEFINE pt == [u.partition EXCEPT ![m] = Same]
      <3>1. v = [u EXCEPT !.partition = pt]
        BY <2>2 DEF Memory
      <3>2. pt \in [Node -> 0 .. Same] /\ \A x \in Node : x # m => pt[x] = s.partition[x]
        BY <2>2, TicksAssumption, SMT DEF Memory, Same
      <3>3. m \in u.domains
        BY <1>0 DEF u, Memory
      <3> HIDE DEF pt, v
      <3> QED
        BY <2>2, <3>1, <3>2, <3>3 DEF Memory
    <2> HIDE DEF u, v
    <2>5. Sound(n, v)
      BY <2>4 DEF Sound
    <2>6. Reacts(s, v)
      BY <1>0, <2>4 DEF Reacts, Memory
    <2> QED
      BY <2>1, <2>3, <2>5, <2>6, ThenElects
  <1> QED
    BY <1>1, <1>2

\* Nodes_Update: a leader that the console's list drops is replaced, by the
\* node itself when there is nobody else.
LEMMA UpdateReacts ==
    ASSUME NEW n \in Node, NEW s, Sound(n, s), NEW list \in SUBSET Node,
           NEW t, t = Nodes_Update(n, s, list)
    PROVE  Sound(n, t) /\ Reacts(s, t)
  <1>0. s \in Memory
    BY DEF Sound
  <1>1. CASE ~s.active \/ s.state[n] = "inactive"
    BY <1>1 DEF Nodes_Update, Reacts
  <1>2. CASE ~(~s.active \/ s.state[n] = "inactive")
    <2> DEFINE added   == list \ s.Node_Hash
               removed == s.Node_Hash \ (list \cup {n})
               leads   == leader_local(n, s)
               st == [m \in Node |-> IF m \notin added THEN s.state[m]
                                     ELSE IF leads THEN "hint_down" ELSE "up"]
               tk == [m \in Node |-> IF m \in added THEN 0 ELSE s.ticks[m]]
               pt == [m \in Node |-> IF m \in added \cup removed THEN Same ELSE s.partition[m]]
               u == [s EXCEPT
                      !.Node_Hash = (@ \cup list) \ removed, !.state = st, !.ticks = tk,
                      !.partition = pt,
                      !.SendTo = (@ \cup (IF leads THEN added ELSE {})) \ removed,
                      !.domains = @ \ removed,
                      !.deactivated = @ \ removed,
                      !.Trigger = TRUE]
               v  == IF s.Leader \in removed THEN leader_election_run(n, u) ELSE u
               ms == {HeartbeatRequest(n, m) : m \in IF leads THEN added ELSE {}}
    <2>1. t = domain_mapping_exchange(n, Send(v, ms), added)
      BY <1>2 DEF Nodes_Update
    <2>2. st \in [Node -> NodeState]
      BY <1>0 DEF Memory, NodeState
    <2>3. tk \in [Node -> 0 .. MaxTicks]
      BY <1>0, TicksAssumption, SMT DEF Memory, MaxTicks
    <2>4. pt \in [Node -> 0 .. Same]
      BY <1>0, TicksAssumption, SMT DEF Memory, Same
    <2>5. added \in SUBSET Node /\ removed \in SUBSET Node /\ n \notin removed
      BY <1>0 DEF Memory
    <2>6. n \in s.Node_Hash /\ st[n] \notin {"down", "inactive"}
      BY <1>2 DEF Sound
    <2>7. \A x \in Node : st[x] = "down" => s.state[x] = "down"
      OBVIOUS
    <2>8. \A x \in s.Node_Hash \ removed : st[x] = s.state[x] /\ pt[x] = s.partition[x]
      BY <1>0 DEF Memory
    <2>9. ms \in SUBSET Message
      BY <2>5, MessageTypes
    <2> HIDE DEF added, removed, st, tk, pt, ms
    <2>10. /\ u \in Memory /\ u.active = s.active /\ u.Node_Hash = (s.Node_Hash \cup list) \ removed
           /\ u.state = st /\ u.partition = pt /\ u.Leader = s.Leader
      BY <1>0, <2>2, <2>3, <2>4, <2>5 DEF Memory
    <2> HIDE DEF u
    <2>11. n \in u.Node_Hash
      BY <2>5, <2>6, <2>10
    <2>12. /\ v \in Memory /\ v.active = s.active /\ v.Node_Hash = u.Node_Hash /\ v.state = st
           /\ v.partition = pt
           /\ (v.Leader = s.Leader /\ s.Leader \notin removed) \/ v.Leader \in Electable(u)
      <3>1. Electable(u) # {}
        BY <2>6, <2>10, <2>11, CanElect
      <3> QED
        BY <2>10, <3>1, Election, SMT
    <2> HIDE DEF v
    <2>13. v.Leader \in Electable(u) =>
             v.Leader \in Node /\ v.Leader \in v.Node_Hash /\ v.state[v.Leader] # "down"
      BY <2>10, <2>12 DEF Electable, Memory
    <2>14. Sound(n, v)
      BY <1>2, <2>6, <2>10, <2>11, <2>12, <2>13 DEF Sound
    <2>15. \A x \in s.Node_Hash \cap v.Node_Hash :
              v.state[x] = s.state[x] /\ v.partition[x] = s.partition[x]
      BY <2>8, <2>10, <2>12
    <2>16. Reacts(s, v)
      BY <2>7, <2>12, <2>13, <2>15 DEF Reacts
    <2>17. Sound(n, Send(v, ms)) /\ Reacts(s, Send(v, ms))
      BY <2>9, <2>12, <2>14, <2>16, SendSame, ThenSends
    <2>18. Send(v, ms) \in Memory
      BY <2>17 DEF Sound
    <2> QED
      BY <2>1, <2>5, <2>17, <2>18, ExchangeSame, ThenSends
  <1> QED
    BY <1>1, <1>2

\* A message handled: the sender is touched, then the handler reacts.
LEMMA HandledStep ==
    ASSUME NEW n \in Node, NEW s, Sound(n, s), NEW m \in Message,
           NEW u, u = Handled(n, s, m)
    PROVE  Sound(n, u) /\ Replaces(n, s, u) /\ Checks(s, u)
  <1>1. CASE m.type = "cluster"
    <2>1. m.list \in SUBSET Node
      BY <1>1 DEF Message
    <2>2. Sound(n, u) /\ Reacts(s, u)
      BY <1>1, <2>1, UpdateReacts DEF Handled
    <2> QED
      BY <2>2 DEF Sound, Memory, Reacts, Replaces, Checks, NoNode
  <1>2. CASE m.type # "cluster"
    <2> DEFINE t == node_touch(n, s, m.from)
    <2>1. m.from \in Node
      BY <1>2 DEF Message
    <2>2. /\ Sound(n, t)
          /\ t.Node_Hash = s.Node_Hash /\ t.Leader = s.Leader /\ t.active = s.active
          /\ t.domains = s.domains
          /\ m.from \in t.Node_Hash => t.state[m.from] # "down"
          /\ \A x \in Node : x # m.from => t.state[x] = s.state[x] /\ t.partition[x] = s.partition[x]
          /\ m.from \in s.Node_Hash /\ s.state[m.from] = "down" => t.partition[m.from] = 0
          /\ s.state[m.from] # "down" => t.partition[m.from] = s.partition[m.from] /\ t.state[m.from] # "down"
          /\ m.from \notin s.Node_Hash => t = s
      BY <2>1, Touch, SMT
    <2>3. u = IF m.type = "heartbeat" THEN Node_Heartbeat(n, t, m.from, m.active)
              ELSE IF m.type = "request" THEN Node_Heartbeat_Request(n, t, m.from)
              ELSE IF m.type = "status" THEN Nodes_Status(n, t, m.from, m.nodes)
              ELSE Node_Set_Domain_Mapping(n, t, m.from, m.hosted)
      BY <1>2 DEF Handled
    <2> HIDE DEF t
    <2>4. Sound(n, u) /\ Reacts(t, u)
      <3>1. CASE m.type = "heartbeat"
        <4>1. m.active \in BOOLEAN
          BY <3>1 DEF Message
        <4> QED
          BY <2>1, <2>2, <2>3, <3>1, <4>1, HeartbeatReacts
      <3>2. CASE m.type = "request"
        BY <2>1, <2>2, <2>3, <3>2, RequestReacts
      <3>3. CASE m.type = "status"
        <4>1. m.nodes \in [Node -> ClusterState]
          BY <3>3 DEF Message
        <4> QED
          BY <2>1, <2>2, <2>3, <3>3, <4>1, StatusReacts
      <3>4. CASE m.type \notin {"heartbeat", "request", "status"}
        <4>1. m.hosted \in BOOLEAN
          BY <1>2, <3>4 DEF Message
        <4> QED
          BY <2>1, <2>2, <2>3, <3>4, <4>1, MappingReacts
      <3> QED
        BY <3>1, <3>2, <3>3, <3>4
    <2>5. \A x \in Node : t.state[x] = "down" => s.state[x] = "down"
      BY <2>1, <2>2
    <2>6. Replaces(n, s, u)
      <3>1. u.Leader # NoNode => u.Leader \in u.Node_Hash /\ u.Leader \in Node
        BY <2>4 DEF Sound, Memory
      <3> QED
        BY <2>2, <2>4, <2>5, <3>1 DEF Reacts, Replaces
    <2>7. ASSUME NEW x \in s.Node_Hash \cap u.Node_Hash, s.state[x] = "down", u.state[x] = "up"
          PROVE  u.partition[x] # Same \/ x \in u.domains
      <3>1. x \in Node /\ x \in t.Node_Hash \cap u.Node_Hash
        BY <2>2, <2>7 DEF Sound, Memory
      <3>2. CASE x # m.from
        BY <2>2, <2>4, <2>7, <3>1, <3>2 DEF Reacts
      <3>3. CASE x = m.from
        <4>1. t.partition[x] = 0
          BY <2>2, <2>7, <3>3
        <4>2. u.partition[x] = 0 \/ x \in u.domains
          BY <2>4, <3>1, <4>1 DEF Reacts
        <4> QED
          BY <4>2, TicksAssumption, SMT DEF Same
      <3> QED
        BY <3>2, <3>3
    <2> QED
      BY <2>4, <2>6, <2>7 DEF Checks
  <1> QED
    BY <1>1, <1>2

----------------------------------------------------------------------------
(* Timeout_Timer                                                           *)

\* The first four calls of Timeout_Timer leave the states alone; the leader
\* they may elect is not down.
LEMMA TimerPrelude ==
    ASSUME NEW n \in Node, NEW s, Sound(n, s), NEW due \in BOOLEAN,
           NEW t, t = domain_mapping_exchange_timer(n,
                         Timeout_Clear_Domains_From_Down_Nodes(n,
                             Timeout_Leader_Election(n, Timeout_Network_Partition(s))), due)
    PROVE  /\ Sound(n, t)
           /\ t.state = s.state /\ t.Node_Hash = s.Node_Hash /\ t.active = s.active
           /\ t.Leader = s.Leader \/ (t.Leader \in Node /\ t.state[t.Leader] # "down")
  <1> DEFINE a == Timeout_Network_Partition(s)
             b == Timeout_Leader_Election(n, a)
             c == Timeout_Clear_Domains_From_Down_Nodes(n, b)
  <1>0. s \in Memory
    BY DEF Sound
  <1>1. /\ a \in Memory /\ a.state = s.state /\ a.Node_Hash = s.Node_Hash /\ a.active = s.active
        /\ a.Leader = s.Leader
    <2> DEFINE pt == [m \in Node |-> IF s.partition[m] = Same THEN Same ELSE s.partition[m] + 1]
    <2>1. pt \in [Node -> 0 .. Same]
      BY <1>0, TicksAssumption, SMT DEF Memory, Same
    <2>2. a = [s EXCEPT !.partition = pt]
      BY DEF Timeout_Network_Partition
    <2> HIDE DEF pt, a
    <2> QED
      BY <1>0, <2>1, <2>2 DEF Memory
  <1>2. Sound(n, a)
    BY <1>1 DEF Sound
  <1> HIDE DEF a
  <1>3. /\ Sound(n, b) /\ b.state = s.state /\ b.Node_Hash = s.Node_Hash /\ b.active = s.active
        /\ b.Leader = s.Leader \/ (b.Leader \in Node /\ b.state[b.Leader] # "down")
    <2>1. CASE ~a.Trigger \/ a.Leader # NoNode
      <3>1. b = [a EXCEPT !.NotPresent = 0]
        BY <2>1 DEF Timeout_Leader_Election
      <3>2. /\ b \in Memory /\ b.state = a.state /\ b.Node_Hash = a.Node_Hash
            /\ b.active = a.active /\ b.Leader = a.Leader
        BY <1>1, <3>1, TicksAssumption, SMT DEF Memory
      <3> QED
        BY <1>1, <1>2, <3>2 DEF Sound
    <2>2. CASE ~(~a.Trigger \/ a.Leader # NoNode) /\ a.NotPresent >= ElectionTicks
      <3> DEFINE e == leader_election_run(n, a)
      <3>1. b = [e EXCEPT !.NotPresent = 0]
        BY <2>2 DEF Timeout_Leader_Election
      <3>2. /\ e \in Memory /\ e.active = a.active /\ e.Node_Hash = a.Node_Hash /\ e.state = a.state
            /\ e.Leader \in Electable(a) \/ e = a
        BY <1>1, Election, SMT
      <3> HIDE DEF e
      <3>3. /\ b \in Memory /\ b.state = a.state /\ b.Node_Hash = a.Node_Hash
            /\ b.active = a.active /\ b.Leader = e.Leader
        BY <3>1, <3>2, TicksAssumption, SMT DEF Memory
      <3>4. b.Leader = a.Leader
            \/ (b.Leader \in Node /\ b.Leader \in b.Node_Hash /\ b.state[b.Leader] # "down")
        BY <1>1, <3>2, <3>3 DEF Electable, Memory
      <3> QED
        BY <1>1, <1>2, <3>3, <3>4 DEF Sound
    <2>3. CASE ~(~a.Trigger \/ a.Leader # NoNode) /\ ~(a.NotPresent >= ElectionTicks)
      <3>1. b = [a EXCEPT !.NotPresent = @ + 1]
        BY <2>3 DEF Timeout_Leader_Election
      <3>2. a.NotPresent + 1 \in 0 .. ElectionTicks
        BY <1>1, <2>3, TicksAssumption, SMT DEF Memory
      <3>3. /\ b \in Memory /\ b.state = a.state /\ b.Node_Hash = a.Node_Hash
            /\ b.active = a.active /\ b.Leader = a.Leader
        BY <1>1, <3>1, <3>2 DEF Memory
      <3> QED
        BY <1>1, <1>2, <3>3 DEF Sound
    <2> QED
      BY <2>1, <2>2, <2>3
  <1> HIDE DEF b
  <1>4. /\ c \in Memory /\ c.state = b.state /\ c.Node_Hash = b.Node_Hash /\ c.active = b.active
        /\ c.Leader = b.Leader
    BY <1>3 DEF Timeout_Clear_Domains_From_Down_Nodes, Sound, Memory
  <1>5. Sound(n, c)
    BY <1>3, <1>4 DEF Sound
  <1> HIDE DEF c
  <1>6. /\ Sound(n, t) /\ t.state = c.state /\ t.Node_Hash = c.Node_Hash /\ t.active = c.active
        /\ t.Leader = c.Leader
    <2> DEFINE d == [c EXCEPT !.Exchange = FALSE]
    <2>1. t = IF due \/ c.Exchange THEN domain_mapping_exchange(n, d, c.Node_Hash) ELSE c
      BY DEF domain_mapping_exchange_timer, a, b, c
    <2>2. /\ d \in Memory /\ d.state = c.state /\ d.Node_Hash = c.Node_Hash /\ d.active = c.active
          /\ d.Leader = c.Leader /\ c.Node_Hash \in SUBSET Node
      BY <1>4 DEF Memory
    <2>3. Sound(n, d)
      BY <1>5, <2>2 DEF Sound
    <2> HIDE DEF d
    <2>4. SameButOut(d, domain_mapping_exchange(n, d, c.Node_Hash))
      BY <2>2, ExchangeSame
    <2> QED
      BY <1>5, <2>1, <2>2, <2>3, <2>4, SameSound, SMT
  <1> QED
    BY <1>3, <1>4, <1>6

\* timeout_leader and timeout_non_leader take nobody back from down, and
\* leave the node itself alone.
LEMMA TimeoutAges ==
    ASSUME NEW n \in Node, NEW s \in Memory, NEW watched, NEW t, t = Timeout(n, s, watched)
    PROVE  /\ t \in Memory /\ t.active = s.active /\ t.Node_Hash = s.Node_Hash
           /\ t.Leader = s.Leader /\ t.state[n] = s.state[n]
           /\ \A x \in Node : s.state[x] = "down" => t.state[x] = "down"
  <1> DEFINE age(m)  == Older(s.ticks[m])
             down(m) == s.state[m] = "hint_down" /\ age(m) >= DownTicks
             hint(m) == m \in watched /\ s.state[m] = "up" /\ age(m) >= HintTicks
             st == [m \in Node |-> IF m \notin Others(n, s) THEN s.state[m]
                                   ELSE IF down(m) THEN "down"
                                   ELSE IF hint(m) THEN "hint_down" ELSE s.state[m]]
             tk == [m \in Node |-> IF m \notin Others(n, s) THEN s.ticks[m]
                                   ELSE IF down(m) \/ hint(m) THEN 0
                                   ELSE IF s.state[m] \in {"up", "hint_down"} THEN age(m) ELSE s.ticks[m]]
  <1>1. t = [s EXCEPT !.state = st, !.ticks = tk]
    BY DEF Timeout
  <1>2. \A m \in Node : age(m) \in 0 .. MaxTicks
    BY TicksAssumption, SMT DEF Older, Memory, MaxTicks
  <1> HIDE DEF age
  <1>3. tk \in [Node -> 0 .. MaxTicks]
    BY <1>2, TicksAssumption, SMT DEF Memory, MaxTicks
  <1>4. st \in [Node -> NodeState]
    BY DEF Memory, NodeState
  <1>5. st[n] = s.state[n]
    BY DEF Others
  <1>6. \A x \in Node : s.state[x] = "down" => st[x] = "down"
    OBVIOUS
  <1> HIDE DEF st, tk
  <1> QED
    BY <1>1, <1>3, <1>4, <1>5, <1>6 DEF Memory

\* A timer run: a leader that goes down in it is replaced before it ends.
LEMMA TimerStep ==
    ASSUME NEW n \in Node, NEW s, Sound(n, s), s.active, NEW due \in BOOLEAN,
           NEW u, u = Timeout_Timer(n, s, due)
    PROVE  Sound(n, u) /\ Replaces(n, s, u) /\ Checks(s, u)
  <1> DEFINE t == domain_mapping_exchange_timer(n,
                      Timeout_Clear_Domains_From_Down_Nodes(n,
                          Timeout_Leader_Election(n, Timeout_Network_Partition(s))), due)
             a == [t EXCEPT !.SendTo = {}]
             leader == {t.Leader} \cap Others(n, t)
  <1>1. /\ Sound(n, t)
        /\ t.state = s.state /\ t.Node_Hash = s.Node_Hash /\ t.active = s.active
        /\ t.Leader = s.Leader \/ (t.Leader \in Node /\ t.state[t.Leader] # "down")
    BY TimerPrelude
  <1>2. u = IF leader_local(n, t) THEN leader_timer_routine(n, t) ELSE non_leader_timer_routine(n, t)
    BY DEF Timeout_Timer
  <1> HIDE DEF t
  <1>3. t \in Memory /\ n \in t.Node_Hash
    BY <1>1 DEF Sound
  <1>4. /\ a \in Memory /\ a.state = t.state /\ a.Node_Hash = t.Node_Hash /\ a.active = t.active
        /\ a.Leader = t.Leader
    BY <1>3 DEF Memory
  <1> HIDE DEF a
  <1>5. CASE leader_local(n, t)
    <2> DEFINE w  == Timeout(n, a, Others(n, t))
               ms == {HeartbeatRequest(n, m) : m \in t.SendTo \cup
                         {x \in Others(n, w) : w.state[x] \in {"down", "hint_down"}}}
    <2>1. u = Send(w, ms)
      BY <1>2, <1>5 DEF leader_timer_routine, a
    <2>2. /\ w \in Memory /\ w.active = a.active /\ w.Node_Hash = a.Node_Hash
          /\ w.Leader = a.Leader /\ w.state[n] = a.state[n]
          /\ \A x \in Node : a.state[x] = "down" => w.state[x] = "down"
      BY <1>4, TimeoutAges, SMT
    <2> HIDE DEF w
    <2>3. ms \in SUBSET Message
      BY <1>3, <2>2, MessageTypes, SMT DEF Others, Memory
    <2> HIDE DEF ms
    <2>4. SameButOut(w, u)
      BY <2>1, <2>2, <2>3, SendSame
    <2>5. Sound(n, w)
      BY <1>1, <1>4, <2>2 DEF Sound
    <2>6. /\ Sound(n, u) /\ u.Leader = n /\ u.state[n] # "down" /\ u.state = w.state
          /\ u.Node_Hash = s.Node_Hash
      <3>1. w.Leader = n /\ w.state[n] # "down" /\ w.Node_Hash = s.Node_Hash
        BY <1>1, <1>4, <1>5, <2>2, <2>5 DEF leader_local, Sound
      <3> QED
        BY <2>2, <2>4, <2>5, <3>1, SameSound, SMT
    <2>7. Replaces(n, s, u)
      BY <2>6 DEF Replaces, Sound
    <2>8. Checks(s, u)
      BY <1>1, <1>4, <2>2, <2>6, SMT DEF Checks, Sound, Memory
    <2> QED
      BY <2>6, <2>7, <2>8
  <1>6. CASE ~leader_local(n, t)
    <2> DEFINE w  == Timeout(n, a, leader)
               ms == {Heartbeat(n, m, t.state[n] # "inactive") : m \in leader}
               v  == Send(w, ms)
    <2>1. u = IF \E m \in leader : v.state[m] = "down" /\ t.state[m] # "down"
              THEN leader_election_run(n, v) ELSE v
      BY <1>2, <1>6 DEF non_leader_timer_routine, a
    <2>2. /\ w \in Memory /\ w.active = a.active /\ w.Node_Hash = a.Node_Hash
          /\ w.Leader = a.Leader /\ w.state[n] = a.state[n]
          /\ \A x \in Node : a.state[x] = "down" => w.state[x] = "down"
      BY <1>4, TimeoutAges, SMT
    <2> HIDE DEF w
    <2>3. leader \in SUBSET Node
      BY <1>3 DEF Others, Memory
    <2>4. ms \in SUBSET Message
      BY <2>3, MessageTypes
    <2> HIDE DEF ms
    <2>5. SameButOut(w, v)
      BY <2>2, <2>4, SendSame
    <2>6. Sound(n, w)
      BY <1>1, <1>4, <2>2 DEF Sound
    <2>7. /\ Sound(n, v) /\ v \in Memory /\ v.state = w.state /\ v.Node_Hash = s.Node_Hash
          /\ v.Leader = t.Leader
      BY <1>1, <1>4, <2>2, <2>5, <2>6, SameSound, SMT
    <2> HIDE DEF v
    <2>8. \A x \in Node : s.state[x] = "down" => v.state[x] = "down"
      BY <1>1, <1>4, <2>2, <2>7
    <2>9. CASE \E m \in leader : v.state[m] = "down" /\ t.state[m] # "down"
      <3>1. /\ u \in Memory /\ u.active = v.active /\ u.Node_Hash = v.Node_Hash /\ u.state = v.state
            /\ u.Leader \in Electable(v) \/ (Electable(v) = {} /\ u = v)
        BY <2>1, <2>7, <2>9, Election, SMT
      <3>2. u.Leader = v.Leader
            \/ (u.Leader \in Node /\ u.Leader \in u.Node_Hash /\ u.state[u.Leader] # "down")
        BY <2>7, <3>1 DEF Electable, Memory
      <3>3. Sound(n, u)
        BY <2>7, <3>1, <3>2 DEF Sound
      <3>4. Replaces(n, s, u)
        <4>1. CASE v.state[n] = "inactive"
          BY <3>1, <3>3, <4>1 DEF Replaces, Sound
        <4>2. CASE v.state[n] # "inactive"
          <5>1. Electable(v) # {}
            BY <1>1, <1>3, <2>7, <4>2, CanElect DEF Sound
          <5>2. u.state[u.Leader] # "down"
            BY <3>1, <5>1 DEF Electable
          <5> QED
            BY <3>3, <5>2 DEF Replaces, Sound
        <4> QED
          BY <4>1, <4>2
      <3>5. Checks(s, u)
        BY <2>7, <2>8, <3>1 DEF Checks, Sound, Memory
      <3> QED
        BY <3>3, <3>4, <3>5
    <2>10. CASE ~\E m \in leader : v.state[m] = "down" /\ t.state[m] # "down"
      <3>1. u = v
        BY <2>1, <2>10
      <3>2. Replaces(n, s, v)
        <4>1. SUFFICES ASSUME v.Leader # NoNode, v.state[v.Leader] = "down"
                       PROVE  s.Leader = v.Leader /\ s.state[s.Leader] = "down"
          BY <2>7 DEF Replaces, Sound
        <4>2. v.Leader \in leader
          BY <1>1, <1>6, <2>7, <4>1 DEF leader_local, Others, Sound
        <4>3. t.state[v.Leader] = "down"
          BY <2>10, <4>1, <4>2
        <4> QED
          BY <1>1, <2>7, <4>3
      <3>3. Checks(s, v)
        BY <2>7, <2>8 DEF Checks, Sound, Memory
      <3> QED
        BY <2>7, <3>1, <3>2, <3>3
    <2> QED
      BY <2>9, <2>10
  <1> QED
    BY <1>5, <1>6

----------------------------------------------------------------------------
(* Activation                                                              *)

LEMMA FreshSound ==
    ASSUME NEW n \in Node
    PROVE  Sound(n, Fresh)
  <1> DEFINE st == [m \in Node |-> "up"]
             tk == [m \in Node |-> 0]
             pt == [m \in Node |-> Same]
  <1>1. st \in [Node -> NodeState] /\ st[n] = "up"
    BY DEF NodeState
  <1>2. tk \in [Node -> 0 .. MaxTicks]
    BY TicksAssumption, SMT DEF MaxTicks
  <1>3. pt \in [Node -> 0 .. Same]
    BY TicksAssumption, SMT DEF Same
  <1>4. Fresh = [active |-> FALSE, Node_Hash |-> {}, state |-> st, ticks |-> tk,
                 partition |-> pt, domains |-> {}, deactivated |-> {},
                 Leader |-> NoNode, Trigger |-> FALSE, NotPresent |-> 0, SendTo |-> {},
                 queue |-> FALSE, Exchange |-> TRUE, out |-> {}]
    BY DEF Fresh
  <1>5. 0 \in 0 .. ElectionTicks
    BY TicksAssumption, SMT
  <1> HIDE DEF st, tk, pt
  <1>6. Fresh \in Memory
    BY <1>1, <1>2, <1>3, <1>4, <1>5 DEF Memory
  <1> QED
    BY <1>1, <1>4, <1>6 DEF Sound

\* Node_Local_Activate(1), in the memory the node has or in a new one.
LEMMA ActivateStep ==
    ASSUME NEW n \in Node, NEW r, Sound(n, r), NEW s \in {Fresh, r}, NEW t, t = Activate(n, s)
    PROVE  Sound(n, t) /\ Replaces(n, r, t) /\ Checks(r, t)
  <1> DEFINE u  == [s EXCEPT !.active = TRUE, !.Node_Hash = @ \cup {n}, !.state[n] = "up"]
             ms == {Heartbeat(n, m, TRUE) : m \in {s.Leader} \cap Others(n, s)}
  <1>0. Sound(n, s) /\ s \in Memory
    BY FreshSound DEF Sound
  <1>1. /\ u \in Memory /\ u.active /\ u.Node_Hash = s.Node_Hash \cup {n} /\ u.Leader = s.Leader
        /\ u.state[n] = "up" /\ \A x \in Node : x # n => u.state[x] = s.state[x]
    BY <1>0 DEF Memory, NodeState
  <1>2. ms \in SUBSET Message
    BY <1>0, MessageTypes DEF Others, Memory
  <1>3. t = Send(u, ms)
    BY DEF Activate
  <1> HIDE DEF u, ms
  <1>4. Sound(n, u)
    BY <1>0, <1>1 DEF Sound
  <1>5. /\ Sound(n, t) /\ t.Node_Hash = u.Node_Hash /\ t.state = u.state /\ t.Leader = u.Leader
    BY <1>1, <1>2, <1>3, <1>4, SendSame, SameSound, SMT
  <1>6. CASE s = r
    <2>1. Replaces(n, r, t)
      BY <1>0, <1>1, <1>5, <1>6, SMT DEF Replaces, Sound, Memory
    <2>2. Checks(r, t)
      BY <1>0, <1>1, <1>5, <1>6, SMT DEF Checks, Sound, Memory
    <2> QED
      BY <1>5, <2>1, <2>2
  <1>7. CASE s = Fresh
    <2>1. t.Leader = NoNode /\ t.Node_Hash = {n}
      BY <1>1, <1>5, <1>7 DEF Fresh
    <2> QED
      BY <1>5, <2>1 DEF Replaces, Checks, Sound
  <1> QED
    BY <1>6, <1>7

\* Node_Local_Activate(0).
LEMMA DeactivateStep ==
    ASSUME NEW n \in Node, NEW s, Sound(n, s), NEW t, t = Deactivate(n, s)
    PROVE  Sound(n, t) /\ Replaces(n, s, t) /\ Checks(s, t)
  <1>0. s \in Memory
    BY DEF Sound
  <1>1. CASE t = s
    BY <1>0, <1>1, SMT DEF Sound, Replaces, Checks
  <1>2. CASE t # s
    <2> DEFINE u  == Stop_Threads(n, s)
               ms == {Heartbeat(n, m, FALSE) : m \in {s.Leader} \cap Others(n, s)}
    <2>1. t = Send(u, ms)
      BY <1>2 DEF Deactivate
    <2>2. ms \in SUBSET Message
      BY <1>0, MessageTypes DEF Others, Memory
    <2>3. Fresh \in Memory
      BY FreshSound DEF Sound
    <2>4. u \in Memory /\ u.Node_Hash = {} /\ u.Leader = NoNode /\ u.active = FALSE /\ u.state[n] = "inactive"
      <3> DEFINE st == [Fresh.state EXCEPT ![n] = "inactive"]
      <3>1. st \in [Node -> NodeState] /\ st[n] = "inactive"
        BY <2>3 DEF Memory, NodeState
      <3>2. /\ Fresh.active = FALSE /\ Fresh.Node_Hash = {} /\ Fresh.Leader = NoNode
        BY DEF Fresh
      <3>3. u = [Fresh EXCEPT !.state = st, !.NotPresent = s.NotPresent, !.SendTo = s.SendTo,
                              !.queue = s.queue, !.Exchange = s.Exchange]
        BY <2>3 DEF Stop_Threads, Memory
      <3> HIDE DEF st, u
      <3> QED
        BY <1>0, <2>3, <3>1, <3>2, <3>3 DEF Memory
    <2> HIDE DEF u, ms
    <2>5. Sound(n, u)
      BY <2>4 DEF Sound
    <2>6. Sound(n, t) /\ t.Node_Hash = {} /\ t.Leader = NoNode
      BY <2>1, <2>2, <2>4, <2>5, SendSame, SameSound, SMT
    <2> QED
      BY <2>6 DEF Replaces, Checks
  <1> QED
    BY <1>1, <1>2

----------------------------------------------------------------------------
(* The steps                                                               *)

\* What a step does to the memory of every node
Steps(a, b) == \A k \in Node : Replaces(k, a[k], b[k]) /\ Checks(a[k], b[k])

\* A step that leaves the memories alone.
LEMMA IdleStep ==
    ASSUME IInv
    PROVE  Steps(node, node)
  BY DEF IInv, Sound, Steps, Replaces, Checks

\* A step in which node n ran a routine, and what it sent is on its way.
LEMMA RanStep ==
    ASSUME IInv, NEW n \in Node, NEW t, NEW base \in SUBSET Message, Ran(n, t, base),
           Sound(n, t), Replaces(n, node[n], t), Checks(node[n], t)
    PROVE  /\ node' \in [Node -> Memory] /\ msgs' \in SUBSET Message
           /\ \A k \in Node : Sound(k, node'[k])
           /\ Steps(node, node')
  <1> DEFINE u == [t EXCEPT !.out = {}]
  <1>0. t \in Memory /\ node \in [Node -> Memory] /\ \A k \in Node : Sound(k, node[k])
    BY DEF Sound, IInv, TypeOK
  <1>1. node' = [node EXCEPT ![n] = u] /\ msgs' = base \cup t.out
    BY DEF Ran
  <1>2. SameButOut(t, u)
    BY <1>0 DEF SameButOut, Memory
  <1> HIDE DEF u
  <1>3. /\ u \in Memory /\ u.Node_Hash = t.Node_Hash /\ u.state = t.state
        /\ u.partition = t.partition /\ u.domains = t.domains /\ u.Leader = t.Leader
        /\ Sound(n, u)
    BY <1>0, <1>2, SameSound
  <1>4. Replaces(n, node[n], u)
    BY <1>3 DEF Replaces
  <1>5. Checks(node[n], u)
    BY <1>3 DEF Checks
  <1>6. msgs' \in SUBSET Message
    BY <1>0, <1>1 DEF Memory
  <1>7. node' \in [Node -> Memory]
    BY <1>0, <1>1, <1>3
  <1>8. node'[n] = u /\ \A k \in Node : k # n => node'[k] = node[k]
    BY <1>0, <1>1
  <1>9. \A k \in Node : Sound(k, node'[k])
    BY <1>0, <1>3, <1>8
  <1>10. Steps(node, node')
    BY <1>4, <1>5, <1>8, IdleStep DEF Steps
  <1> QED
    BY <1>6, <1>7, <1>9, <1>10

LEMMA InitIInv == Init => IInv
  <1> SUFFICES ASSUME Init PROVE IInv
    OBVIOUS
  <1>1. \A n \in Node : node[n] = Fresh /\ Sound(n, node[n]) /\ node[n] \in Memory
    BY FreshSound DEF Init, Sound
  <1>2. TypeOK
    BY <1>1, BoundsAssumption, SMT DEF Init, TypeOK
  <1> QED
    BY <1>1, <1>2 DEF IInv

\* A message arrives or is lost.
LEMMA DeliverStep ==
    ASSUME IInv, NEW m \in msgs, Deliver(m) \/ Lose(m)
    PROVE  IInv' /\ Steps(node, node')
  <1>0. m \in Message /\ m.to \in Node
    BY DEF IInv, TypeOK, Message
  <1>1. CASE Deliver(m)
    <2> DEFINE t == Handled(m.to, node[m.to], m)
    <2>1. Sound(m.to, t) /\ Replaces(m.to, node[m.to], t) /\ Checks(node[m.to], t)
      BY <1>0, HandledStep DEF IInv
    <2>2. Ran(m.to, t, msgs \ {m}) /\ msgs \ {m} \in SUBSET Message
      BY <1>1 DEF Deliver, IInv, TypeOK
    <2> HIDE DEF t
    <2>3. /\ node' \in [Node -> Memory] /\ msgs' \in SUBSET Message
          /\ \A k \in Node : Sound(k, node'[k])
          /\ Steps(node, node')
      BY <1>0, <2>1, <2>2, RanStep
    <2> QED
      BY <1>1, <2>3 DEF Deliver, IInv, TypeOK
  <1>2. CASE Lose(m)
    BY <1>2, IdleStep DEF Lose, IInv, TypeOK
  <1> QED
    BY <1>1, <1>2

\* The timer of a node runs.
LEMMA TimerRuns ==
    ASSUME IInv, NEW n \in Node, NEW due \in BOOLEAN, Timer(n, due)
    PROVE  IInv' /\ Steps(node, node')
  <1> DEFINE t == Timeout_Timer(n, node[n], due)
  <1>1. Sound(n, t) /\ Replaces(n, node[n], t) /\ Checks(node[n], t)
    BY TimerStep DEF Timer, IInv
  <1>2. Ran(n, t, msgs) /\ msgs \in SUBSET Message
    BY DEF Timer, IInv, TypeOK
  <1> HIDE DEF t
  <1>3. /\ node' \in [Node -> Memory] /\ msgs' \in SUBSET Message
        /\ \A k \in Node : Sound(k, node'[k])
        /\ Steps(node, node')
    BY <1>1, <1>2, RanStep
  <1>4. exchanges' \in 0 .. MaxExchanges
    BY BoundsAssumption, SMT DEF Timer, IInv, TypeOK
  <1> QED
    BY <1>3, <1>4 DEF Timer, IInv, TypeOK

\* The worker thread of a node serves its queue.
LEMMA WorkerRuns ==
    ASSUME IInv, NEW n \in Node, leader_send_hearbeat_request(n)
    PROVE  IInv' /\ Steps(node, node')
  <1> DEFINE s  == node[n]
             u  == [s EXCEPT !.queue = FALSE]
             ms == {HeartbeatRequest(n, m) : m \in IF leader_local(n, s) THEN Others(n, s) ELSE {}}
             t  == Send(u, ms)
  <1>0. Sound(n, s) /\ s \in Memory
    BY DEF IInv, Sound
  <1>1. Ran(n, t, msgs) /\ msgs \in SUBSET Message
    BY DEF leader_send_hearbeat_request, IInv, TypeOK
  <1>2. ms \in SUBSET Message
    BY <1>0, MessageTypes DEF Others, Memory
  <1> HIDE DEF s, ms
  <1>3. /\ u \in Memory /\ u.active = s.active /\ u.Node_Hash = s.Node_Hash /\ u.state = s.state
        /\ u.partition = s.partition /\ u.domains = s.domains /\ u.Leader = s.Leader
    BY <1>0 DEF Memory
  <1> HIDE DEF u
  <1>4. Sound(n, u)
    BY <1>0, <1>3 DEF Sound
  <1>5. /\ Sound(n, t) /\ t.Node_Hash = s.Node_Hash /\ t.state = s.state /\ t.Leader = s.Leader
        /\ t.partition = s.partition /\ t.domains = s.domains
    BY <1>2, <1>3, <1>4, SendSame, SameSound
  <1> HIDE DEF t
  <1>6. Replaces(n, s, t) /\ Checks(s, t)
    BY <1>5 DEF Replaces, Checks, Sound
  <1>7. /\ node' \in [Node -> Memory] /\ msgs' \in SUBSET Message
        /\ \A k \in Node : Sound(k, node'[k])
        /\ Steps(node, node')
    BY <1>1, <1>5, <1>6, RanStep DEF s
  <1> QED
    BY <1>7 DEF leader_send_hearbeat_request, IInv, TypeOK

\* A domain is created on a node.
LEMMA HostStep ==
    ASSUME IInv, NEW n \in Node, Host(n)
    PROVE  IInv' /\ Steps(node, node')
  <1> DEFINE s == node[n]
             u == [s EXCEPT !.domains = @ \cup {n}, !.Exchange = TRUE]
  <1>0. Sound(n, s) /\ s \in Memory /\ node \in [Node -> Memory]
    BY DEF IInv, Sound, TypeOK
  <1>1. node' = [node EXCEPT ![n] = u]
    BY <1>0 DEF Host
  <1>2. /\ u \in Memory /\ u.active = s.active /\ u.Node_Hash = s.Node_Hash /\ u.state = s.state
        /\ u.Leader = s.Leader
    BY <1>0 DEF Memory
  <1> HIDE DEF u
  <1>3. Sound(n, u) /\ Replaces(n, s, u) /\ Checks(s, u)
    BY <1>0, <1>2 DEF Sound, Replaces, Checks
  <1>4. node'[n] = u /\ (\A k \in Node : k # n => node'[k] = node[k]) /\ node' \in [Node -> Memory]
    BY <1>0, <1>1, <1>2
  <1>5. \A k \in Node : Sound(k, node'[k])
    BY <1>3, <1>4 DEF IInv
  <1>6. Steps(node, node')
    BY <1>3, <1>4, IdleStep DEF Steps
  <1> QED
    BY <1>4, <1>5, <1>6 DEF Host, IInv, TypeOK

\* The console changes or confirms the role of a node.
LEMMA RoleStep ==
    ASSUME IInv, NEW n \in Node, NEW t, NEW list \in SUBSET Node, RoleChange(n, t, list),
           Sound(n, t), Replaces(n, node[n], t), Checks(node[n], t)
    PROVE  IInv' /\ Steps(node, node')
  <1>1. PICK reached \in SUBSET list :
           Ran(n, t, msgs \cup {ClusterInfo(m, list) : m \in reached})
    BY DEF RoleChange
  <1>2. msgs \cup {ClusterInfo(m, list) : m \in reached} \in SUBSET Message
    BY MessageTypes DEF IInv, TypeOK
  <1>3. /\ node' \in [Node -> Memory] /\ msgs' \in SUBSET Message
        /\ \A k \in Node : Sound(k, node'[k])
        /\ Steps(node, node')
    BY <1>1, <1>2, RanStep
  <1>4. changes' \in 0 .. MaxRoles /\ ticked' \subseteq Node
    BY BoundsAssumption, SMT DEF RoleChange, IInv, TypeOK
  <1> QED
    BY <1>3, <1>4 DEF RoleChange, IInv, TypeOK

\* One step per action.
LEMMA NextStep ==
    ASSUME IInv, [Next]_vars
    PROVE  IInv' /\ Steps(node, node')
  <1>0. roles \subseteq Node /\ \A n \in Node : Sound(n, node[n])
    BY DEF IInv, TypeOK
  <1>1. ASSUME NEW m \in msgs, Deliver(m) \/ Lose(m) PROVE IInv' /\ Steps(node, node')
    BY <1>1, DeliverStep
  <1>2. ASSUME NEW n \in Node, NodeStep(n) PROVE IInv' /\ Steps(node, node')
    BY <1>2, TimerRuns, WorkerRuns DEF NodeStep
  <1>3. ASSUME NEW n \in Node, Host(n) PROVE IInv' /\ Steps(node, node')
    BY <1>3, HostStep
  <1>4. ASSUME NEW n \in Node, AssignRole(n) PROVE IInv' /\ Steps(node, node')
    <2> DEFINE t == Activate(n, node[n])
    <2>1. Sound(n, t) /\ Replaces(n, node[n], t) /\ Checks(node[n], t)
      BY <1>0, ActivateStep
    <2>2. RoleChange(n, t, roles \cup {n}) /\ roles \cup {n} \in SUBSET Node
      BY <1>0, <1>4 DEF AssignRole
    <2> HIDE DEF t
    <2> QED
      BY <2>1, <2>2, RoleStep
  <1>5. ASSUME NEW n \in Node, UnassignRole(n) PROVE IInv' /\ Steps(node, node')
    <2> DEFINE t == Deactivate(n, node[n])
    <2>1. Sound(n, t) /\ Replaces(n, node[n], t) /\ Checks(node[n], t)
      BY <1>0, DeactivateStep
    <2>2. RoleChange(n, t, roles \ {n}) /\ roles \ {n} \in SUBSET Node
      BY <1>0, <1>5 DEF UnassignRole
    <2> HIDE DEF t
    <2> QED
      BY <2>1, <2>2, RoleStep
  <1>6. ASSUME NEW n \in Node, Register(n) PROVE IInv' /\ Steps(node, node')
    <2>1. PICK s \in {Fresh, node[n]} : RoleChange(n, Activate(n, s), roles)
      BY <1>6 DEF Register
    <2> DEFINE t == Activate(n, s)
    <2>2. Sound(n, t) /\ Replaces(n, node[n], t) /\ Checks(node[n], t)
      BY <1>0, ActivateStep
    <2>3. RoleChange(n, t, roles) /\ roles \in SUBSET Node
      BY <1>0, <2>1
    <2> HIDE DEF t
    <2> QED
      BY <2>2, <2>3, RoleStep
  <1>7. ASSUME NEW n \in Node, CutOff(n) PROVE IInv' /\ Steps(node, node')
    <2>1. cuts' \in 0 .. MaxCuts
      BY <1>7, BoundsAssumption, SMT DEF CutOff, IInv, TypeOK
    <2> QED
      BY <1>7, <2>1, IdleStep DEF CutOff, IInv, TypeOK
  <1>8. ASSUME NEW n \in Node, Heal(n) PROVE IInv' /\ Steps(node, node')
    BY <1>8, IdleStep DEF Heal, IInv, TypeOK
  <1>9. CASE NextPeriod
    BY <1>9, IdleStep DEF NextPeriod, IInv, TypeOK
  <1>10. CASE UNCHANGED vars
    BY <1>10, IdleStep DEF vars, IInv, TypeOK
  <1> QED
    BY <1>1, <1>2, <1>3, <1>4, <1>5, <1>6, <1>7, <1>8, <1>9, <1>10 DEF Next

\* The memory of every node and all messages keep their kinds, and the
\* inductive invariant holds: no node ever believes itself down, a node that
\* is not active knows of nobody, and the leader is among the nodes known.
THEOREM MemoryTheorem == Spec => []IInv
  <1>1. IInv /\ [Next]_vars => IInv'
    BY NextStep
  <1> QED
    BY <1>1, InitIInv, PTL DEF Spec

\* A leader that goes down, or that the console withdraws, is replaced in the
\* same step (non_leader_timer_routine, node_delete).
THEOREM LeaderReplacedTheorem == Spec => LeaderReplaced
  <1>1. IInv /\ [Next]_vars =>
          [\A n \in Node : LET s == node[n]
                               t == node'[n] IN
              t.Leader # NoNode =>
                /\ t.Leader \in t.Node_Hash
                /\ t.state[t.Leader] = "down" =>
                     \/ t.state[n] = "inactive"
                     \/ s.Leader = t.Leader /\ s.state[s.Leader] = "down"]_vars
    BY NextStep DEF Steps, Replaces
  <1> QED
    BY <1>1, MemoryTheorem, PTL DEF Spec, LeaderReplaced

\* A node taken back from down is suspected of another partition until its
\* mapping has arrived (node_touch, Nodes_Status).
THEOREM RejoinTheorem == Spec => RejoinIsChecked
  <1>1. IInv /\ [Next]_vars =>
          [\A n \in Node : \A m \in node[n].Node_Hash \cap node'[n].Node_Hash :
              node[n].state[m] = "down" /\ node'[n].state[m] = "up"
                => node'[n].partition[m] # Same \/ m \in node'[n].domains]_vars
    BY NextStep DEF Steps, Checks
  <1> QED
    BY <1>1, MemoryTheorem, PTL DEF Spec, RejoinIsChecked
=============================================================================
