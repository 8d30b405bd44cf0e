--------------------------- MODULE DcsMembership ---------------------------
(***************************************************************************)
(* The cluster of DCS nodes: which nodes each of them knows of, whom it    *)
(* believes up, whom it follows as leader, and how it finds out that a     *)
(* node came back from a different network partition.                      *)
(*                                                                         *)
(* A node is a number, in the order in which leader_amongst_2 compares     *)
(* addresses.  node[n] is the memory of node n: the Cluster object of      *)
(* Cluster.py with the DPSNode objects it holds.  A handler is an operator *)
(* from the node's memory to its memory after the call; the messages it    *)
(* sends are collected in the field out, and leave when the action ends.   *)
(*                                                                         *)
(* REST messages between nodes each use a connection of their own, so they *)
(* overtake each other; they are lost while either end is cut off.  The    *)
(* management console (DMC) assigns and withdraws roles and then sends the *)
(* list of nodes with a role to each of them in turn, giving up at the     *)
(* first it cannot reach.                                                  *)
(***************************************************************************)
EXTENDS Naturals, FiniteSets

CONSTANTS Node,            \* the DCS appliances, as numbers above zero
          CanHost,         \* the nodes a domain may be created on
          HintTicks,       \* timer runs without contact before hint_down
          DownTicks,       \* timer runs in hint_down before down
          PartitionTicks,  \* Nodes_In_Different_Partition_Hint_Timeout
          ElectionTicks,   \* Leader_Not_Present_Count_Max
          MaxRoles,        \* bound: role changes and registrations
          MaxCuts,         \* bound: times a node is cut off
          MaxExchanges     \* bound: times Exchange_Domain_Mapping_Time_Max passes

ASSUME NodeAssumption == IsFiniteSet(Node) /\ Node \subseteq Nat \ {0} /\ CanHost \subseteq Node

ASSUME TicksAssumption ==
    /\ HintTicks \in Nat \ {0} /\ DownTicks \in Nat \ {0}
    /\ PartitionTicks \in Nat /\ ElectionTicks \in Nat

ASSUME BoundsAssumption == MaxRoles \in Nat /\ MaxCuts \in Nat /\ MaxExchanges \in Nat

VARIABLES node,      \* the memory of each node
          msgs,      \* REST messages on their way
          roles,     \* the nodes the console has assigned the DCS role
          cut,       \* the nodes cut off from all others
          ticked,    \* the nodes whose timer ran in this period
          changes,   \* role changes and registrations so far
          cuts,      \* times a node was cut off so far
          exchanges  \* two-minute mapping exchanges so far

vars == <<node, msgs, roles, cut, ticked, changes, cuts, exchanges>>

NoNode == 0

NodeState == {"up", "hint_down", "down", "inactive"}

ClusterState == {"down", "active", "inactive", "absent"}

\* partition_state is "same", or different_hint with the count that
\* Nodes_In_Different_Partition_Hint holds for the node
Same == PartitionTicks + 1

MaxTicks == IF HintTicks > DownTicks THEN HintTicks ELSE DownTicks

Heartbeat(n, m, factive) == [type |-> "heartbeat", from |-> n, to |-> m, active |-> factive]

HeartbeatRequest(n, m) == [type |-> "request", from |-> n, to |-> m]

NodesStatus(n, m, list) == [type |-> "status", from |-> n, to |-> m, nodes |-> list]

DomainMapping(n, m, hosts) == [type |-> "mapping", from |-> n, to |-> m, hosted |-> hosts]

ClusterInfo(m, list) == [type |-> "cluster", to |-> m, list |-> list]

Message ==
    [type : {"heartbeat"}, from : Node, to : Node, active : BOOLEAN]
      \cup [type : {"request"}, from : Node, to : Node]
      \cup [type : {"status"}, from : Node, to : Node, nodes : [Node -> ClusterState]]
      \cup [type : {"mapping"}, from : Node, to : Node, hosted : BOOLEAN]
      \cup [type : {"cluster"}, to : Node, list : SUBSET Node]

Memory ==
    [active : BOOLEAN, Node_Hash : SUBSET Node, state : [Node -> NodeState],
     ticks : [Node -> 0 .. MaxTicks], partition : [Node -> 0 .. Same],
     domains : SUBSET Node, deactivated : SUBSET Node, Leader : Node \cup {NoNode},
     Trigger : BOOLEAN, NotPresent : 0 .. ElectionTicks, SendTo : SUBSET Node,
     queue : BOOLEAN, Exchange : BOOLEAN, out : SUBSET Message]

\* The memory of a node that has not been given a role since it was started
Fresh ==
    [active |-> FALSE, Node_Hash |-> {}, state |-> [m \in Node |-> "up"],
     ticks |-> [m \in Node |-> 0], partition |-> [m \in Node |-> Same],
     domains |-> {}, deactivated |-> {}, Leader |-> NoNode, Trigger |-> FALSE,
     NotPresent |-> 0, SendTo |-> {}, queue |-> FALSE, Exchange |-> TRUE, out |-> {}]

Init ==
    /\ node = [n \in Node |-> Fresh]
    /\ msgs = {}
    /\ roles = {}
    /\ cut = {}
    /\ ticked = {}
    /\ changes = 0
    /\ cuts = 0
    /\ exchanges = 0

----------------------------------------------------------------------------
(* The routines of Cluster and DPSNode                                     *)

Others(n, s) == s.Node_Hash \ {n}

leader_local(n, s) == s.Leader = n

Send(s, ms) == [s EXCEPT !.out = @ \cup ms]

\* domain_mapping_exchange: the local mapping to those of ms not down
domain_mapping_exchange(n, s, ms) ==
    Send(s, {DomainMapping(n, m, n \in s.domains) : m \in {x \in ms \ {n} : s.state[x] # "down"}})

Electable(s) == {m \in s.Node_Hash : s.state[m] \notin {"down", "inactive"}}

leader_election_run(n, s) ==
    IF Electable(s) = {} THEN s
    ELSE LET l == CHOOSE l \in Electable(s) : \A m \in Electable(s) : l <= m
         IN  IF l = n THEN [s EXCEPT !.Leader = n, !.queue = TRUE]
             ELSE Send([s EXCEPT !.Leader = l], {Heartbeat(n, l, s.state[n] # "inactive")})

\* Mutant of node_touch: a node that comes back is not checked for a partition
node_touch_NoHint(n, s, m) ==
    IF ~s.active \/ m \notin s.Node_Hash THEN s
    ELSE LET t == [s EXCEPT !.state[m] = IF @ = "inactive" THEN @ ELSE "up", !.ticks[m] = 0]
         IN  IF m = n \/ s.state[m] # "down" THEN t
             ELSE domain_mapping_exchange(n,
                      Send(t, IF leader_local(n, s) THEN {HeartbeatRequest(n, m)} ELSE {}), {m})

\* node_touch: a REST request came from m
node_touch(n, s, m) ==
    IF ~s.active \/ m \notin s.Node_Hash THEN s
    ELSE LET t == [s EXCEPT !.state[m] = IF @ = "inactive" THEN @ ELSE "up", !.ticks[m] = 0]
         IN  IF m = n \/ s.state[m] # "down" THEN t
             ELSE domain_mapping_exchange(n,
                      Send([t EXCEPT !.partition[m] = 0],
                           IF leader_local(n, s) THEN {HeartbeatRequest(n, m)} ELSE {}), {m})

----------------------------------------------------------------------------
(* The handlers of the REST messages                                       *)

NodeList(s) ==
    [m \in Node |-> IF m \notin s.Node_Hash THEN "absent"
                    ELSE IF s.state[m] \in {"down", "hint_down"} THEN "down"
                    ELSE IF s.state[m] = "up" THEN "active" ELSE "inactive"]

\* Mutant of Node_Heartbeat: a heartbeat from the node's own leader is taken
\* for one from any other node
Node_Heartbeat_NoElection(n, s, m, factive) ==
    IF m \notin s.Node_Hash THEN s
    ELSE LET t == [s EXCEPT !.state[m] = IF factive THEN "up" ELSE "inactive"]
         IN  IF leader_local(n, t) THEN Send(t, {NodesStatus(n, m, NodeList(t))})
             ELSE domain_mapping_exchange(n, t, {m})

Node_Heartbeat(n, s, m, factive) ==
    IF m \notin s.Node_Hash THEN s
    ELSE LET t == [s EXCEPT !.state[m] = IF factive THEN "up" ELSE "inactive"]
         IN  IF leader_local(n, t) THEN Send(t, {NodesStatus(n, m, NodeList(t))})
             ELSE IF t.Leader = m THEN leader_election_run(n, t)
             ELSE domain_mapping_exchange(n, t, {m})

Node_Heartbeat_Request(n, s, m) ==
    IF m \notin s.Node_Hash THEN s
    ELSE LET t == IF s.partition[m] = Same THEN [s EXCEPT !.Leader = m] ELSE s
         IN  IF t.Leader = m THEN Send(t, {Heartbeat(n, m, t.state[n] # "inactive")})
             ELSE domain_mapping_exchange(n, t, {m})

\* Nodes_Status: node_inactivate, node_touch or node_hint_down for each
\* entry of the leader's list.  The local node is not the leader here.
StatusApplied(n, s, list) ==
    LET known   == {m \in s.Node_Hash : list[m] # "absent"}
        touched == {m \in known : list[m] # "down"}
        back    == {m \in touched \ {n} : list[m] = "active" /\ s.state[m] = "down"}
        hinted  == {m \in known \ {n} : list[m] = "down" /\ s.state[m] = "up"}
        t == [s EXCEPT
               !.state = [m \in Node |-> IF m \in hinted THEN "hint_down"
                                         ELSE IF m \notin touched THEN @[m]
                                         ELSE IF "inactive" \in {list[m], @[m]} THEN "inactive"
                                         ELSE "up"],
               !.ticks = [m \in Node |-> IF m \in touched \cup hinted THEN 0 ELSE @[m]],
               !.partition = [m \in Node |-> IF m \in back THEN 0 ELSE @[m]]]
    IN  domain_mapping_exchange(n, t, back)

Nodes_Status(n, s, m, list) ==
    IF m \notin s.Node_Hash THEN s
    ELSE LET t == IF s.partition[m] = Same THEN [s EXCEPT !.Leader = m] ELSE s
         IN  IF t.Leader = m THEN StatusApplied(n, t, list) ELSE t

\* Node_Set_Domain_Mapping: a domain missing from a mapping is deactivated,
\* and deleted when the next mapping misses it too
Node_Set_Domain_Mapping(n, s, m, hosted) ==
    IF m \notin s.Node_Hash THEN s
    ELSE IF ~hosted
    THEN IF m \in s.deactivated
         THEN [s EXCEPT !.domains = @ \ {m}, !.deactivated = @ \ {m}]
         ELSE [s EXCEPT !.deactivated = @ \cup ({m} \cap s.domains)]
    ELSE LET t == [s EXCEPT !.domains = @ \cup {m}, !.deactivated = @ \ {m}]
         IN  IF m \in s.domains \/ s.partition[m] = Same THEN t
             ELSE leader_election_run(n, [t EXCEPT !.partition[m] = Same])

\* Nodes_Update: reconcile with the console's list, then exchange mappings
\* with the nodes added
Nodes_Update(n, s, list) ==
    IF ~s.active \/ s.state[n] = "inactive" THEN s
    ELSE LET added   == list \ s.Node_Hash
             removed == s.Node_Hash \ (list \cup {n})
             leads   == leader_local(n, s)
             t == [s EXCEPT
                    !.Node_Hash = (@ \cup list) \ removed,
                    !.state = [m \in Node |-> IF m \notin added THEN @[m]
                                              ELSE IF leads THEN "hint_down" ELSE "up"],
                    !.ticks = [m \in Node |-> IF m \in added THEN 0 ELSE @[m]],
                    !.partition = [m \in Node |-> IF m \in added \cup removed THEN Same ELSE @[m]],
                    !.SendTo = (@ \cup (IF leads THEN added ELSE {})) \ removed,
                    !.domains = @ \ removed,
                    !.deactivated = @ \ removed,
                    !.Trigger = TRUE]
             u == IF s.Leader \in removed THEN leader_election_run(n, t) ELSE t
         IN  domain_mapping_exchange(n,
                 Send(u, {HeartbeatRequest(n, m) : m \in IF leads THEN added ELSE {}}), added)
----------------------------------------------------------------------------
(* Timeout_Timer                                                           *)

Timeout_Network_Partition(s) ==
    [s EXCEPT !.partition = [m \in Node |-> IF @[m] = Same THEN Same ELSE @[m] + 1]]

Timeout_Leader_Election(n, s) ==
    IF ~s.Trigger \/ s.Leader # NoNode THEN [s EXCEPT !.NotPresent = 0]
    ELSE IF s.NotPresent >= ElectionTicks
    THEN [leader_election_run(n, s) EXCEPT !.NotPresent = 0]
    ELSE [s EXCEPT !.NotPresent = @ + 1]

Timeout_Clear_Domains_From_Down_Nodes(n, s) ==
    LET down == {m \in Others(n, s) : s.state[m] = "down"}
    IN  [s EXCEPT !.domains = @ \ down, !.deactivated = @ \ down]

domain_mapping_exchange_timer(n, s, due) ==
    IF due \/ s.Exchange THEN domain_mapping_exchange(n, [s EXCEPT !.Exchange = FALSE], s.Node_Hash) ELSE s

\* One timer run older, as far as the two limits tell ages apart
Older(k) == IF k < MaxTicks THEN k + 1 ELSE k

\* timeout_leader on the nodes of watched, timeout_non_leader on the others
Timeout(n, s, watched) ==
    LET age(m)  == Older(s.ticks[m])
        down(m) == s.state[m] = "hint_down" /\ age(m) >= DownTicks
        hint(m) == m \in watched /\ s.state[m] = "up" /\ age(m) >= HintTicks
    IN  [s EXCEPT
          !.state = [m \in Node |-> IF m \notin Others(n, s) THEN @[m]
                                    ELSE IF down(m) THEN "down"
                                    ELSE IF hint(m) THEN "hint_down" ELSE @[m]],
          !.ticks = [m \in Node |-> IF m \notin Others(n, s) THEN @[m]
                                    ELSE IF down(m) \/ hint(m) THEN 0
                                    ELSE IF s.state[m] \in {"up", "hint_down"} THEN age(m) ELSE @[m]]]

leader_timer_routine(n, s) ==
    LET t    == Timeout(n, [s EXCEPT !.SendTo = {}], Others(n, s))
        lost == {m \in Others(n, t) : t.state[m] \in {"down", "hint_down"}}
    IN  Send(t, {HeartbeatRequest(n, m) : m \in s.SendTo \cup lost})

\* Mutant of non_leader_timer_routine: the loss of the leader is not noticed
non_leader_timer_routine_NoElection(n, s) ==
    LET leader == {s.Leader} \cap Others(n, s)
    IN  Send(Timeout(n, [s EXCEPT !.SendTo = {}], leader),
             {Heartbeat(n, m, s.state[n] # "inactive") : m \in leader})

non_leader_timer_routine(n, s) ==
    LET leader == {s.Leader} \cap Others(n, s)
        t == Send(Timeout(n, [s EXCEPT !.SendTo = {}], leader),
                  {Heartbeat(n, m, s.state[n] # "inactive") : m \in leader})
    IN  IF \E m \in leader : t.state[m] = "down" /\ s.state[m] # "down"
        THEN leader_election_run(n, t) ELSE t

Timeout_Timer(n, s, due) ==
    LET t == domain_mapping_exchange_timer(n,
                 Timeout_Clear_Domains_From_Down_Nodes(n,
                     Timeout_Leader_Election(n, Timeout_Network_Partition(s))), due)
    IN  IF leader_local(n, t) THEN leader_timer_routine(n, t) ELSE non_leader_timer_routine(n, t)

----------------------------------------------------------------------------
(* Activation                                                              *)

\* Every domain the node hosts is hosted by another node it believes up
node_inactivate_allow(n, s) ==
    n \in s.domains => \E m \in s.domains \ {n} : s.state[m] = "up"

\* Stop_Threads, with the Delete it ends in
Stop_Threads(n, s) ==
    [Fresh EXCEPT !.state[n] = "inactive", !.NotPresent = s.NotPresent, !.SendTo = s.SendTo,
                  !.queue = s.queue, !.Exchange = s.Exchange]

\* Node_Local_Activate(1), after Node_Local_Update put the node in its hash
Activate(n, s) ==
    Send([s EXCEPT !.active = TRUE, !.Node_Hash = @ \cup {n}, !.state[n] = "up"],
         {Heartbeat(n, m, TRUE) : m \in {s.Leader} \cap Others(n, s)})

\* Node_Local_Activate(0): refused with DOVE_STATUS_BUSY, or stopped
Deactivate(n, s) ==
    IF ~s.active \/ ~node_inactivate_allow(n, s) THEN s
    ELSE Send(Stop_Threads(n, s), {Heartbeat(n, m, FALSE) : m \in {s.Leader} \cap Others(n, s)})

----------------------------------------------------------------------------
(* The actions                                                             *)

\* Node n has run a routine that left its memory as s and sent s.out;
\* base is what was on its way before, less what the routine consumed
Ran(n, s, base) ==
    /\ node' = [node EXCEPT ![n] = [s EXCEPT !.out = {}]]
    /\ msgs' = base \cup s.out

\* A message reaches its node: the sender is touched, then the handler of
\* the message runs
Handled(n, s, m) ==
    IF m.type = "cluster" THEN Nodes_Update(n, s, m.list)
    ELSE LET t == node_touch(n, s, m.from)
         IN  IF m.type = "heartbeat" THEN Node_Heartbeat(n, t, m.from, m.active)
             ELSE IF m.type = "request" THEN Node_Heartbeat_Request(n, t, m.from)
             ELSE IF m.type = "status" THEN Nodes_Status(n, t, m.from, m.nodes)
             ELSE Node_Set_Domain_Mapping(n, t, m.from, m.hosted)

Reachable(m) == m.to \notin cut /\ (m.type # "cluster" => m.from \notin cut)

Deliver(m) ==
    /\ Reachable(m)
    /\ Ran(m.to, Handled(m.to, node[m.to], m), msgs \ {m})
    /\ UNCHANGED <<roles, cut, ticked, changes, cuts, exchanges>>

Lose(m) ==
    /\ ~Reachable(m)
    /\ msgs' = msgs \ {m}
    /\ UNCHANGED <<node, roles, cut, ticked, changes, cuts, exchanges>>

\* The timer of n runs.  The mapping is exchanged when it is due: after a
\* change of the domains n hosts, and (due) every two minutes.
Timer(n, due) ==
    /\ due => exchanges < MaxExchanges
    /\ exchanges' = IF due THEN exchanges + 1 ELSE exchanges
    /\ node[n].active
    /\ n \notin ticked
    /\ Ran(n, Timeout_Timer(n, node[n], due), msgs)
    /\ ticked' = ticked \cup {n}
    /\ UNCHANGED <<roles, cut, changes, cuts>>

\* The worker thread takes an entry from heartbeat_request_queue
leader_send_hearbeat_request(n) ==
    /\ node[n].queue
    /\ Ran(n, Send([node[n] EXCEPT !.queue = FALSE],
                   {HeartbeatRequest(n, m) : m \in IF leader_local(n, node[n])
                                                   THEN Others(n, node[n]) ELSE {}}), msgs)
    /\ UNCHANGED <<roles, cut, ticked, changes, cuts, exchanges>>

\* The next five seconds begin when all timers ran and what they set off
\* has arrived
NextPeriod ==
    /\ ticked # {}
    /\ ticked = {n \in Node : node[n].active}
    /\ msgs = {}
    /\ \A n \in Node : ~node[n].queue
    /\ ticked' = {}
    /\ UNCHANGED <<node, msgs, roles, cut, changes, cuts, exchanges>>

\* A domain is created on n (Domain_Add_Local): its mapping is due
Host(n) ==
    /\ n \in CanHost
    /\ node[n].active
    /\ n \notin node[n].domains
    /\ node' = [node EXCEPT ![n].domains = @ \cup {n}, ![n].Exchange = TRUE]
    /\ UNCHANGED <<msgs, roles, cut, ticked, changes, cuts, exchanges>>

\* sendDcsClusterInfo: the list goes to the nodes on it, one after the
\* other, up to the first that cannot be reached
ClusterInfoTo(list, reached) ==
    /\ reached \subseteq list \ cut
    /\ list \cap cut = {} => reached = list

\* The console assigns or withdraws the role of n, which it must reach, and
\* sends the new list.  It records the new role whatever n answered.
RoleChange(n, s, list) ==
    /\ changes < MaxRoles
    /\ n \notin cut
    /\ \E reached \in SUBSET list :
          /\ ClusterInfoTo(list, reached)
          /\ Ran(n, s, msgs \cup {ClusterInfo(m, list) : m \in reached})
    /\ roles' = list
    /\ changes' = changes + 1
    /\ ticked' = IF s.active THEN ticked ELSE ticked \ {n}
    /\ UNCHANGED <<cut, cuts, exchanges>>

AssignRole(n) == n \notin roles /\ RoleChange(n, Activate(n, node[n]), roles \cup {n})

UnassignRole(n) == n \in roles /\ RoleChange(n, Deactivate(n, node[n]), roles \ {n})

\* The node registers: because its process started again, its memory lost,
\* or because a heartbeat to the console failed.  The console assigns the
\* role it has on record and sends the list.
Register(n) ==
    /\ n \in roles
    /\ \E s \in {Fresh, node[n]} : RoleChange(n, Activate(n, s), roles)

CutOff(n) ==
    /\ cuts < MaxCuts
    /\ n \notin cut
    /\ cut' = cut \cup {n}
    /\ cuts' = cuts + 1
    /\ UNCHANGED <<node, msgs, roles, ticked, changes, exchanges>>

Heal(n) ==
    /\ n \in cut
    /\ cut' = cut \ {n}
    /\ UNCHANGED <<node, msgs, roles, ticked, changes, cuts, exchanges>>

NodeStep(n) ==
    \/ \E due \in BOOLEAN : Timer(n, due)
    \/ leader_send_hearbeat_request(n)

Next ==
    \/ \E m \in msgs : Deliver(m) \/ Lose(m)
    \/ \E n \in Node : NodeStep(n) \/ Host(n) \/ AssignRole(n) \/ UnassignRole(n)
                         \/ Register(n) \/ CutOff(n) \/ Heal(n)
    \/ NextPeriod

Spec == Init /\ [][Next]_vars

----------------------------------------------------------------------------
(* Properties                                                              *)

\* The memory of every node and all messages are of their kinds
TypeOK ==
    /\ node \in [Node -> Memory]
    /\ msgs \subseteq Message
    /\ roles \subseteq Node /\ cut \subseteq Node /\ ticked \subseteq Node
    /\ changes \in 0 .. MaxRoles /\ cuts \in 0 .. MaxCuts /\ exchanges \in 0 .. MaxExchanges

\* The leader a node follows is in its hash, and no step leaves it with a
\* leader that just went down: non_leader_timer_routine elects in the timer run
\* in which the leader goes down, node_delete when the console's list drops it,
\* and no message of a node that is down makes it leader without touching it.
\* The exception is a node that holds itself for inactive, which may know of
\* nobody to elect.
LeaderReplaced ==
    [][\A n \in Node : LET s == node[n]
                           t == node'[n] IN
          t.Leader # NoNode =>
            /\ t.Leader \in t.Node_Hash
            /\ t.state[t.Leader] = "down" =>
                 \/ t.state[n] = "inactive"
                 \/ s.Leader = t.Leader /\ s.state[s.Leader] = "down"]_vars

\* A node that n had declared down and now believes up, through its own
\* message or the leader's list, is suspected of another partition
\* (different_hint) until its mapping has arrived: without it n would follow
\* the other partition's leader with no election
RejoinIsChecked ==
    [][\A n \in Node : \A m \in node[n].Node_Hash \cap node'[n].Node_Hash :
          node[n].state[m] = "down" /\ node'[n].state[m] = "up"
            => node'[n].partition[m] # Same \/ m \in node'[n].domains]_vars

\* The local node is up in its own hash while it has the role: only
\* Node_Local_Activate changes the state of the local node
LocalNotInactive ==
    \A n \in Node : node[n].active => node[n].state[n] = "up"

\* As long as there are timers to run, queues to serve or messages to deliver
\* or lose, one of them happens; a period ends only when all of its have.
\* Nothing makes the console act, a domain be created or a partition begin or
\* end.
Fairness ==
    WF_vars(\/ \E m \in msgs : Deliver(m) \/ Lose(m)
            \/ \E n \in Node : NodeStep(n)
            \/ NextPeriod)

LiveSpec == Spec /\ Fairness

Complete == cut = {} /\ \A n \in Node : node[n].active /\ node[n].Node_Hash = Node

Agreed == \E l \in Node : \A n \in Node : node[n].Leader = l

\* If from some point on all nodes are active, reach each other and have the
\* console's full list, they end up following one leader for good, whatever
\* partitions, restarts and role changes came before: two leaders that meet
\* again see each other, and two nodes that follow each other elect
\* (Node_Heartbeat)
OneLeader == <>[]Complete => <>[]Agreed
=============================================================================
