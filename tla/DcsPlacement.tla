---------------------------- MODULE DcsPlacement ----------------------------
(***************************************************************************)
(* Where a domain lives in a cluster of DCS nodes.                         *)
(*                                                                         *)
(* Each node keeps, for one domain, the domain object itself               *)
(* (DpsCollection.Domain_Hash of controller_protocol_handler.py) and its   *)
(* own copy of the map "domain -> nodes that host it"                      *)
(* (Domain_Hash of dcs_objects/Cluster.py).  The console (DMC) creates and *)
(* deletes the domain through the cluster leader; the leader moves copies  *)
(* to restore the replication factor, withdraws surplus ones and has lost  *)
(* ones recovered; the nodes tell each other what they host.  Everything   *)
(* travels in HTTP requests that may be lost and that overtake each other. *)
(*                                                                         *)
(* The record st[n] is node n's share of that state:                       *)
(*   dom    the local domain object: "none", "inactive" (being filled) or  *)
(*          "active"                                                       *)
(*   ready  the entry in MassTransfer_Get_Ready                            *)
(*   recov  progress of Domain_Recovery_Routine                            *)
(*   fwd    mass_transfer_forward_nodes of the domain object               *)
(*   xfer   the target of the running mass transfer, or NoNode             *)
(*   hosts  the nodes the cluster database lists for the domain            *)
(*   deact  those of them in domains_deactivated                           *)
(*   rep    the entry in Domain_Replication_Hash                           *)
(*   tomb   the countdown in Domain_Deleted, -1 for no entry               *)
(*   vnid   the entries of the domain's VNID in VNID_Hash and DVG_Hash     *)
(*   lost   the nodes believed down                                        *)
(*   out    the nodes the own mapping is still queued for                  *)
(*   said   what the queued mapping says: that n hosts the domain or not   *)
(***************************************************************************)
EXTENDS Integers, FiniteSets

CONSTANTS
    Node,        \* the DCS nodes
    Leader,      \* the node the cluster has elected
    NoNode,      \* no transfer target
    Factor,      \* the replication factor, MIN_REPLICATION_FACTOR
    TombCount,   \* DOMAIN_INVALIDATE_TIMEOUT_COUNT
    MaxFixes,    \* bound on moves and withdrawals the leader orders
    MaxFaults,   \* bound on lost messages, restarts, suspicions, failed calls
    MaxNet       \* bound on HTTP requests in flight

ASSUME PlacementAssumption ==
    /\ IsFiniteSet(Node)
    /\ Leader \in Node
    /\ NoNode \notin Node
    /\ Factor \in Nat \ {0}
    /\ TombCount \in Nat

VARIABLES
    st,          \* st[n]: the record described above
    net,         \* HTTP requests in flight
    dmc,         \* the console's side of the domain
    orphans,     \* transfers whose domain object has been deleted
    hit,         \* hit[n]: why n's own map entry is false, "no" if it is true
    excuse,      \* why copies may have gone that the console wants kept
    fixes,       \* moves and withdrawals ordered so far
    faults       \* faults so far

vars == <<st, net, dmc, orphans, hit, excuse, fixes, faults>>

Initial ==
    [dom |-> "none", ready |-> FALSE, recov |-> "no", fwd |-> {},
     xfer |-> NoNode, hosts |-> {}, deact |-> {}, rep |-> FALSE,
     tomb |-> -1, vnid |-> FALSE, lost |-> {},
     out |-> {}, said |-> FALSE]

NodeState ==
    [dom : {"none", "inactive", "active"}, ready : BOOLEAN,
     recov : {"no", "start", "ready"}, fwd : SUBSET Node,
     xfer : Node \cup {NoNode}, hosts : SUBSET Node, deact : SUBSET Node,
     rep : BOOLEAN, tomb : -1 .. TombCount,
     vnid : BOOLEAN, lost : SUBSET Node, out : SUBSET Node, said : BOOLEAN]

Message ==
         [op : {"get_ready", "activate", "recover", "delete"},
          from : Node, to : Node]
    \cup [op : {"deactivate"}, from : Node, to : Node,
          why : {"cancel", "surplus"}]
    \cup [op : {"transfer"}, from : Node, to : Node, dst : Node]

-----------------------------------------------------------------------------
(* The cluster database: what a node believes about who hosts the domain.  *)

node_add_domain(s, n, m) ==
    IF m # n /\ s.tomb >= 0
    THEN s
    ELSE [s EXCEPT !.hosts = @ \cup {m}, !.rep = TRUE, !.fwd = @ \ {m}]

node_delete_domain(s, m) ==
    [s EXCEPT !.hosts = @ \ {m}, !.deact = @ \ {m}]

cluster_domain_delete(s) ==
    [s EXCEPT !.hosts = {}, !.deact = {}, !.rep = FALSE, !.tomb = TombCount]

\* Mutant of Node_Set_Domain_Mapping: a second mapping without the domain
\* does not remove the entry either.
MappingOnlyMarks(s, n, m, has) ==
    IF ~has THEN [s EXCEPT !.deact = @ \cup (s.hosts \cap {m})]
    ELSE node_add_domain([s EXCEPT !.deact = @ \ {m}], n, m)

\* A mapping without the domain only marks an entry; a second one removes it.
Node_Set_Domain_Mapping(s, n, m, has) ==
    LET s1 == IF m \notin s.deact THEN s
              ELSE IF has THEN [s EXCEPT !.deact = @ \ {m}]
              ELSE node_delete_domain(s, m)
        s2 == IF m \in s1.hosts /\ ~has
              THEN [s1 EXCEPT !.deact = @ \cup {m}] ELSE s1
    IN  IF ~has THEN s2
        ELSE IF m \in s2.hosts THEN [s2 EXCEPT !.rep = TRUE]
        ELSE node_add_domain(s2, n, m)

\* The local node and the remote ones that are up.
Domain_Get_Nodes(s, n) == {m \in s.hosts : m = n \/ m \notin s.lost}

num_nodes(s) == Cardinality(s.hosts \ s.lost)

\* One PUT of the mapping per remote node is queued; what was still queued
\* for them is replaced.
dps_cluster_send_local_domains(s, to) == [s EXCEPT !.out = @ \cup to]

dps_cluster_send_local_mapping_to(s, to, mapping) ==
    [dps_cluster_send_local_domains(s, to) EXCEPT !.said = mapping]

\* The own mapping goes to the nodes that are not down.
domain_mapping_exchange(s, n, to) ==
    dps_cluster_send_local_mapping_to(s, to \ ({n} \cup s.lost), n \in s.hosts)

(* The entry points of cluster_database.c take the cluster lock, call the  *)
(* routine above and hand its status on.                                   *)

dps_cluster_node_add_domain(s, n, m) == node_add_domain(s, n, m)

dps_cluster_node_delete_domain(s, m) == node_delete_domain(s, m)

dps_cluster_domain_delete(s) == cluster_domain_delete(s)

dps_cluster_domain_exists(s) == s.hosts # {}

dps_cluster_set_node_domain_mapping(s, n, m, has) ==
    Node_Set_Domain_Mapping(s, n, m, has)

dps_get_domain_node_mapping(s, n) == Domain_Get_Nodes(s, n)

\* The node that asked for the activation is sent the mapping last.
dps_cluster_exchange_domain_mapping_activate(s, n) ==
    domain_mapping_exchange(s, n, Node)

\* At most Factor nodes, the less loaded ones first; fewer if fewer are up.
dps_cluster_lowest_loaded_nodes(s) ==
    LET up == Node \ s.lost
    IN  {T \in SUBSET up : Cardinality(T) = IF Cardinality(up) < Factor
                                           THEN Cardinality(up) ELSE Factor}

-----------------------------------------------------------------------------
(* The controller handler: the local domain object.                        *)

Domain_Object_Delete(s) ==
    [s EXCEPT !.dom = "none", !.xfer = NoNode, !.fwd = {}]

mass_transfer_processing(s) == s.xfer # NoNode \/ s.fwd # {}

Domain_Add_Local(s) ==
    [s EXCEPT !.dom = IF @ = "none" THEN "active" ELSE @,
              !.ready = @ /\ ~s.vnid]

Domain_Get_Ready_For_Transfer(s) ==
    IF s.dom # "none" THEN s
    ELSE [s EXCEPT !.dom = "inactive", !.ready = s.vnid]

Domain_Activate(s) ==
    [s EXCEPT !.ready = FALSE,
              !.dom = IF @ = "none" THEN @ ELSE "active"]

Domain_Deactivate(s) ==
    [Domain_Object_Delete(s) EXCEPT !.ready = FALSE]

Domain_Delete(s) ==
    [Domain_Object_Delete(s) EXCEPT !.ready = FALSE, !.vnid = FALSE]

\* Refused when there is no copy or a transfer is already running.
Domain_Start_Transfer_To(s, d) ==
    IF s.dom = "none" \/ s.xfer # NoNode THEN s ELSE [s EXCEPT !.xfer = d]

Domain_Recovery_Thread_Start(s) ==
    [s EXCEPT !.recov = IF @ = "no" THEN "start" ELSE @]

\* With a copy already there, or one being hosted elsewhere, the VNID is
\* entered; with no node hosting the domain its recovery is started.
Dvg_Add_Query(s, n) ==
    IF s.dom = "none" /\ Domain_Get_Nodes(s, n) = {}
    THEN Domain_Recovery_Thread_Start(s)
    ELSE [s EXCEPT !.vnid = TRUE]

-----------------------------------------------------------------------------
(* The C entry points of controller_interface.c: the handler above, then   *)
(* the local entry of the cluster database.  They also set the flag        *)
(* Exchange_Domain_Mapping, which makes the next run of the cluster timer  *)
(* send the mapping; the period of 120 seconds lets any run send it.       *)

domain_add(s, n) ==
    dps_cluster_node_add_domain(Domain_Add_Local(s), n, n)

domain_activate(s, n) ==
    IF s.dom = "none" THEN Domain_Activate(s)
    ELSE dps_cluster_node_add_domain(Domain_Activate(s), n, n)

\* Mutant of domain_deactivate: the local entry of the map is left behind.
DeactivateKeepsEntry(s, n) ==
    Domain_Deactivate(s)

\* While a transfer is being processed the answer is RETRY: the object is
\* gone all the same, and the cluster database is not touched.
domain_deactivate(s, n) ==
    IF s.dom # "none" /\ mass_transfer_processing(s)
    THEN Domain_Deactivate(s)
    ELSE dps_cluster_node_delete_domain(Domain_Deactivate(s), n)

domain_delete(s, n) ==
    dps_cluster_domain_delete(
        dps_cluster_node_delete_domain(Domain_Delete(s), n))

domain_mass_transfer_get_ready(s) == Domain_Get_Ready_For_Transfer(s)

domain_mass_transfer_start(s, d) == Domain_Start_Transfer_To(s, d)

domain_recovery_start(s) == Domain_Recovery_Thread_Start(s)

dvg_query(s, n) == Dvg_Add_Query(s, n)

-----------------------------------------------------------------------------
(* The HTTP requests of cluster_rest_client.c.  All of them are queued for *)
(* a worker thread; the calls that address the local node make none.       *)

dps_node_get_ready(n, d) == [op |-> "get_ready", from |-> n, to |-> d]

dps_node_domain_activate(n, d) == [op |-> "activate", from |-> n, to |-> d]

dps_node_domain_deactivate(n, d, why) ==
    [op |-> "deactivate", from |-> n, to |-> d, why |-> why]

dps_node_domain_recover(n, m) == [op |-> "recover", from |-> n, to |-> m]

dps_rest_domain_delete_send_to_dps_node(n, m) ==
    [op |-> "delete", from |-> n, to |-> m]

\* The target is told to get ready and the source to start, in two requests
\* to different nodes.
dps_cluster_leader_initiate_domain_move(n, src, dst) ==
    {dps_node_get_ready(n, dst),
     [op |-> "transfer", from |-> n, to |-> src, dst |-> dst]}

dps_cluster_initiate_mass_transfer(n, src, dst) ==
    dps_cluster_leader_initiate_domain_move(n, src, dst)

dps_cluster_send_domain_delete_to_all_nodes(n) ==
    {dps_rest_domain_delete_send_to_dps_node(n, m) : m \in Node \ {n}}

\* Both return the own record and the requests to send.
dps_domain_deactivate_on_node(s, n, m, why) ==
    IF m = n THEN [s |-> domain_deactivate(s, n), send |-> {}]
    ELSE [s |-> s, send |-> {dps_node_domain_deactivate(n, m, why)}]

dps_domain_recover_on_node(s, n, m) ==
    IF m = n THEN [s |-> domain_recovery_start(s), send |-> {}]
    ELSE [s |-> s, send |-> {dps_node_domain_recover(n, m)}]

-----------------------------------------------------------------------------
(* Steps of the nodes.                                                     *)

Active == {n \in Node : st[n].dom = "active"}

Others(n) == Node \ {n}

\* Why n's own entry is false after a step that leaves s2: the cause is kept
\* until the entry is true again.
Why(n, s2, why) ==
    IF n \notin s2.hosts \/ s2.dom = "active" THEN "no"
    ELSE IF hit[n] # "no" THEN hit[n] ELSE why

\* A transfer whose domain object is deleted under it runs on.
Orphaned(n, s2) ==
    IF s2.dom = "none" /\ st[n].xfer # NoNode THEN {<<n, st[n].xfer>>} ELSE {}

\* Node n's record becomes s2 and the requests out are sent.
Becomes(n, s2, rest, out, why) ==
    /\ Cardinality(rest \cup out) <= MaxNet
    /\ st' = [st EXCEPT ![n] = s2]
    /\ net' = rest \cup out
    /\ orphans' = orphans \cup Orphaned(n, s2)
    /\ hit' = [hit EXCEPT ![n] = Why(n, s2, why)]

Fault ==
    /\ faults < MaxFaults
    /\ faults' = faults + 1

Fix ==
    /\ fixes < MaxFixes
    /\ fixes' = fixes + 1

\* Any request marks its sender as alive; a sender that was believed down is
\* sent the own mapping.
node_touch(s, n, m) ==
    IF m \notin s.lost THEN s
    ELSE domain_mapping_exchange([s EXCEPT !.lost = @ \ {m}], n, {m})

\* What a node tells of itself, in a PUT or in its answer to one.
dps_form_local_domain_mapping_json(s, n) == n \in s.hosts

\* A mapping of n reaches m;
local_domain_mapping(n, m, has) ==
    dps_cluster_set_node_domain_mapping(node_touch(st[m], m, n), m, n, has)

\* m's answer carries its own.
dps_cluster_response_handler(s, n, m, answer) ==
    dps_cluster_set_node_domain_mapping(s, n, m, answer)

Exchanged(n, m, s, has) ==
    LET r == local_domain_mapping(n, m, has)
        answer == dps_form_local_domain_mapping_json(r, m)
    IN  /\ st' = [st EXCEPT
                    ![m] = r,
                    ![n] = dps_cluster_response_handler(s, n, m, answer)]
        /\ UNCHANGED <<net, dmc, orphans, hit, excuse, fixes, faults>>

Unqueued(s, m) ==
    [s EXCEPT !.out = @ \ {m}, !.said = @ /\ s.out # {m}]

\* The mapping was queued a while ago,
QueuedMapping(n, m) ==
    /\ m \in st[n].out
    /\ Exchanged(n, m, Unqueued(st[n], m), st[n].said)

\* or it is delivered as soon as the timer has sent it.
FreshMapping(n, m) ==
    /\ m \notin st[n].lost \cup {n}
    /\ st[n].out = {}
    /\ Exchanged(n, m, st[n], dps_form_local_domain_mapping_json(st[n], n))

\* The other requests touch the sender, then run their handler.
Serve(e, H(_), why) ==
    Becomes(e.to, H(node_touch(st[e.to], e.to, e.from)), net \ {e}, {}, why)

get_ready(e) == Serve(e, domain_mass_transfer_get_ready, "no")

transfer_domain(e) ==
    LET Start(s) == domain_mass_transfer_start(s, e.dst)
    IN  Serve(e, Start, "no")

\* A successful activation is announced to every node at once.
domain_activate_request(e) ==
    LET Activate(s) ==
            IF s.dom = "none" THEN domain_activate(s, e.to)
            ELSE dps_cluster_exchange_domain_mapping_activate(
                     domain_activate(s, e.to), e.to)
    IN  Serve(e, Activate, "no")

domain_deactivate_request(e) ==
    LET Deactivate(s) == domain_deactivate(s, e.to)
    IN  Serve(e, Deactivate,
              IF mass_transfer_processing(st[e.to]) THEN "busy" ELSE "no")

domain_recover_request(e) ==
    Serve(e, domain_recovery_start, "no")

\* PUT and DELETE of the domain, once forwarding is decided.
dps_req_handler_domain(s, n, method) ==
    IF method = "PUT" THEN domain_add(s, n) ELSE domain_delete(s, n)

domain_delete_request(e) ==
    LET Delete(s) == dps_req_handler_domain(s, e.to, "DELETE")
    IN  Serve(e, Delete, "no")

\* A cancelled transfer takes a copy that was activated on another path.
Excused(e) ==
    IF e.op = "deactivate" /\ e.why = "cancel" /\ st[e.to].dom = "active"
    THEN {"cancel"} ELSE {}

Deliver(e) ==
    /\ e \in net
    /\ \/ e.op = "get_ready" /\ get_ready(e)
       \/ e.op = "transfer" /\ transfer_domain(e)
       \/ e.op = "activate" /\ domain_activate_request(e)
       \/ e.op = "deactivate" /\ domain_deactivate_request(e)
       \/ e.op = "recover" /\ domain_recover_request(e)
       \/ e.op = "delete" /\ domain_delete_request(e)
    /\ excuse' = excuse \cup Excused(e)
    /\ UNCHANGED <<dmc, fixes, faults>>

-----------------------------------------------------------------------------
(* Mass transfers and recovery.                                            *)

\* All records acknowledged: the target is entered in the forward list and
\* told to activate its copy.
TransferComplete(n) ==
    /\ st[n].xfer # NoNode
    /\ st[st[n].xfer].dom # "none"
    /\ LET d == st[n].xfer
       IN  Becomes(n, [st[n] EXCEPT !.xfer = NoNode, !.fwd = @ \cup {d}], net,
                   {dps_node_domain_activate(n, d)}, "no")
    /\ excuse' = excuse \cup
                   (IF st[n].xfer \in st[n].hosts THEN {"listed"} ELSE {})
    /\ UNCHANGED <<dmc, fixes, faults>>

\* The activation cannot be sent: the target leaves the forward list again.
TransferNotActivated(n) ==
    /\ st[n].xfer # NoNode
    /\ st[st[n].xfer].dom # "none"
    /\ Becomes(n, [st[n] EXCEPT !.xfer = NoNode, !.fwd = @ \ {st[n].xfer}],
               net, {}, "no")
    /\ Fault
    /\ UNCHANGED <<dmc, excuse, fixes>>

CancelTo(n, d) == dps_node_domain_deactivate(n, d, "cancel")

\* The transfer timed out: the target is told to drop its copy.
TransferFailed(n) ==
    /\ st[n].xfer # NoNode
    /\ Becomes(n, [st[n] EXCEPT !.xfer = NoNode], net,
               {CancelTo(n, st[n].xfer)}, "no")
    /\ Fault
    /\ UNCHANGED <<dmc, excuse, fixes>>

\* The transfer outlived its domain object, whatever it achieved.
OrphanFinish(o) ==
    /\ o \in orphans
    /\ Cardinality(net) < MaxNet
    /\ net' = net \cup {CancelTo(o[1], o[2])}
    /\ orphans' = orphans \ {o}
    /\ UNCHANGED <<st, dmc, hit, excuse, fixes, faults>>

Mass_Transfer_Get_Ready_Timeout(n) ==
    /\ st[n].ready
    /\ Becomes(n, Domain_Deactivate(st[n]), net, {}, "no")
    /\ UNCHANGED <<dmc, excuse, fixes, faults>>

\* Mutant of DmcKnows: a deleted domain is answered like an existing one.
DmcRemembers == dmc # "none"

DmcKnows == dmc \in {"pending", "synced"}

\* OK only for a domain that exists; an unreachable console, an unknown and a
\* deleted domain have three different error codes.
dps_query_domain_config(answered) == answered /\ DmcKnows

\* Domain_Recovery_Routine, first half: the console is asked for the domain.
\* Whatever is not a good answer, an unreachable console included, makes the
\* node tell every other node to delete the domain.
RecoveryQuery(n, answered) ==
    /\ st[n].recov = "start"
    /\ IF dps_query_domain_config(answered)
       THEN /\ Becomes(n, [Domain_Get_Ready_For_Transfer(st[n])
                             EXCEPT !.recov = "ready"], net, {}, "no")
            /\ UNCHANGED excuse
       ELSE /\ Becomes(n, [st[n] EXCEPT !.recov = "no"], net,
                       dps_cluster_send_domain_delete_to_all_nodes(n), "no")
            /\ excuse' = excuse \cup (IF answered THEN {} ELSE {"query"})
    /\ IF answered THEN UNCHANGED faults ELSE Fault
    /\ UNCHANGED <<dmc, fixes>>

\* Second half: policies and subnets fetched, the copy is activated, entered
\* in the own map and announced; if it has gone meanwhile it is deleted.
RecoveryActivate(n) ==
    /\ st[n].recov = "ready"
    /\ LET s == [st[n] EXCEPT !.recov = "no"]
       IN  Becomes(n, IF s.dom = "none" THEN Domain_Delete(s)
                      ELSE domain_activate(s, n), net, {}, "no")
    /\ UNCHANGED <<dmc, excuse, fixes, faults>>

\* A client's request names a VNID the node does not know; the console
\* answers the query and the VNID is entered.
VnidQuery(n) ==
    /\ ~st[n].vnid
    /\ DmcKnows
    /\ Becomes(n, dvg_query(st[n], n), net, {}, "no")
    /\ Fix
    /\ UNCHANGED <<dmc, excuse, faults>>

-----------------------------------------------------------------------------
(* The cluster timer.                                                      *)

Timeout_Clear_Domains_From_Down_Nodes(s, n) ==
    [s EXCEPT !.hosts = @ \ (s.lost \ {n}), !.deact = @ \ (s.lost \ {n})]

\* The entry lives for TombCount timer runs and is removed by the next one.
Timeout_Recycle_Deleted_Domains(s) ==
    [s EXCEPT !.tomb = IF @ <= 0 THEN -1 ELSE @ - 1]

\* What every run of the timer does to the node's own tables.
Housekeeping(s, n) ==
    Timeout_Recycle_Deleted_Domains(Timeout_Clear_Domains_From_Down_Nodes(s, n))

\* Mutant of Surplus: one copy too few is enough.
SurplusAtFactor(s) == s.rep /\ num_nodes(s) >= Factor

Surplus(s) == s.rep /\ num_nodes(s) > Factor

Deficit(s) == s.rep /\ num_nodes(s) \in 1 .. Factor - 1

\* The leader's map is exact and no other copy is about to go.
MapTrue ==
    /\ \A m \in st[Leader].hosts : st[m].dom = "active"
    /\ \A e \in net : e.op \notin {"deactivate", "delete"}
    /\ orphans = {}

\* due: something changed or the exchange period of 120 seconds has passed.
domain_mapping_exchange_timer(s, n, due) ==
    IF due THEN domain_mapping_exchange(s, n, Node) ELSE s

\* The leader moves a copy.
domain_add_node(s) ==
    /\ Deficit(s)
    /\ \E src \in s.hosts \ s.lost, dst \in Node \ (s.hosts \cup s.lost) :
          Becomes(Leader, s, net,
                  dps_cluster_initiate_mass_transfer(Leader, src, dst), "no")
    /\ UNCHANGED excuse

\* The leader withdraws one of the copies it counts, its own directly.
domain_delete_node(s) ==
    /\ Surplus(s)
    /\ \E m \in s.hosts \ s.lost :
          LET r == dps_domain_deactivate_on_node(s, Leader, m, "surplus")
          IN  Becomes(Leader, r.s, net, r.send,
                      IF mass_transfer_processing(s) THEN "busy" ELSE "no")
    /\ excuse' = excuse \cup (IF MapTrue THEN {} ELSE {"blind"})

\* One run of the timer; the repair of the replication factor is the
\* leader's, and is due at most every 30 seconds.  A mapping that stays
\* queued counts as a fault; FreshMapping is the exchange that does not.
Timeout_Timer(n, due) ==
    LET s == domain_mapping_exchange_timer(Housekeeping(st[n], n), n, due)
    IN  /\ IF due THEN Fault ELSE UNCHANGED faults
        /\ \/ Becomes(n, s, net, {}, "no") /\ UNCHANGED <<excuse, fixes>>
           \/ n = Leader /\ domain_add_node(s) /\ Fix
           \/ n = Leader /\ domain_delete_node(s) /\ Fix
        /\ UNCHANGED dmc

\* No node is listed: the leader has one recover the domain.
Domain_Recreate_Timer(m) ==
    LET s == st[Leader]
    IN  /\ s.rep
        /\ num_nodes(s) = 0
        /\ m \notin s.lost
        /\ LET r == dps_domain_recover_on_node(s, Leader, m)
           IN  Becomes(Leader, r.s, net, r.send, "no")
        /\ Fix
        /\ UNCHANGED <<dmc, excuse, faults>>

-----------------------------------------------------------------------------
(* The console's requests, which the leader forwards.                      *)

\* The requests go to the remote nodes one after the other; the first one
\* that fails ends the operation.  done are the remote nodes it was carried
\* out on; the local node follows when all succeeded.
dps_rest_forward_sequence_process(remote, done, ok) ==
    /\ done \subseteq remote
    /\ ok => done = remote
    /\ IF ok THEN UNCHANGED faults ELSE Fault

\* A placement enters all its nodes in the map before the first is asked.
dps_rest_forward_handler_for_to_avail(s, n, targets) ==
    LET added == IF s.tomb >= 0 THEN targets \cap {n} ELSE targets
    IN  [s EXCEPT !.hosts = @ \cup added, !.rep = @ \/ added # {},
                  !.fwd = @ \ added]

\* PUT of the domain.  A domain in the leader's map is sent to the nodes the
\* map names, one that is not is placed.  The synchronisation thread repeats
\* a PUT that failed.
DmcPut(done, ok) ==
    /\ dmc \in {"none", "pending"}
    /\ LET exists == dps_cluster_domain_exists(st[Leader]) IN
       \E targets \in IF exists
                      THEN {dps_get_domain_node_mapping(st[Leader], Leader)}
                      ELSE dps_cluster_lowest_loaded_nodes(st[Leader]) :
          LET s0 == IF exists THEN st[Leader]
                    ELSE dps_rest_forward_handler_for_to_avail(
                             st[Leader], Leader, targets)
              to == done \cup (IF ok THEN targets ELSE {})
              s(n) == IF n = Leader THEN s0 ELSE st[n]
          IN  /\ targets # {}
              /\ dps_rest_forward_sequence_process(targets \ {Leader}, done, ok)
              /\ st' = [n \in Node |->
                           IF n \in to THEN dps_req_handler_domain(s(n), n, "PUT")
                           ELSE s(n)]
              /\ hit' = [n \in Node |->
                           Why(n, st'[n], IF n \in to THEN "half" ELSE "early")]
    /\ dmc' = IF ok THEN "synced" ELSE "pending"
    /\ UNCHANGED <<net, orphans, excuse, fixes>>

\* DELETE of the domain goes to every node; the synchronisation thread does
\* not repeat it.
dps_rest_forward_handler_for_to_all(done, ok) ==
    /\ dps_rest_forward_sequence_process(Others(Leader), done, ok)
    /\ LET to == IF ok THEN Node ELSE done
       IN  /\ st' = [n \in Node |->
                        IF n \in to
                        THEN dps_req_handler_domain(st[n], n, "DELETE")
                        ELSE st[n]]
           /\ hit' = [n \in Node |-> IF n \in to THEN "no" ELSE hit[n]]
           /\ orphans' = orphans \cup UNION {Orphaned(n, st'[n]) : n \in to}

DmcDelete(done, ok) ==
    /\ dmc = "synced"
    /\ dps_rest_forward_handler_for_to_all(done, ok)
    /\ dmc' = IF ok THEN "deleted" ELSE "half"
    /\ UNCHANGED <<net, excuse, fixes>>

-----------------------------------------------------------------------------
(* Faults, and the heartbeats that repair a wrong belief.                  *)

\* A request or its answer is lost.
Lose(e) ==
    /\ e \in net
    /\ net' = net \ {e}
    /\ Fault
    /\ UNCHANGED <<st, dmc, orphans, hit, excuse, fixes>>

\* The mapping queued for m is lost.
LoseMapping(n, m) ==
    /\ m \in st[n].out
    /\ st' = [st EXCEPT ![n] = Unqueued(@, m)]
    /\ Fault
    /\ UNCHANGED <<net, dmc, orphans, hit, excuse, fixes>>

\* A node restarts with empty tables.
Restart(n) ==
    /\ st' = [st EXCEPT ![n] = Initial]
    /\ orphans' = {o \in orphans : o[1] # n}
    /\ hit' = [hit EXCEPT ![n] = "no"]
    /\ excuse' = excuse \cup {"restart"}
    /\ Fault
    /\ UNCHANGED <<net, dmc, fixes>>

\* The leader has heard nothing from m for long enough.
Suspect(m) ==
    /\ m \notin st[Leader].lost
    /\ st' = [st EXCEPT ![Leader].lost = @ \cup {m}]
    /\ Fault
    /\ UNCHANGED <<net, dmc, orphans, hit, excuse, fixes>>

\* A heartbeat of m is heard again.
Heartbeat(n, m) ==
    /\ m \in st[n].lost
    /\ Becomes(n, node_touch(st[n], n, m), net, {}, "no")
    /\ UNCHANGED <<dmc, excuse, fixes, faults>>

-----------------------------------------------------------------------------
\* Not yet created, or placed with every map exact, on fewer nodes than Factor
\* if fewer were up then.
PlacementInit ==
    /\ \/ /\ dmc = "none"
          /\ st = [n \in Node |-> Initial]
       \/ /\ dmc = "synced"
          /\ \E H \in SUBSET Node :
                /\ H # {}
                /\ st = [n \in Node |->
                           [Initial EXCEPT !.hosts = H, !.rep = TRUE,
                              !.vnid = TRUE,
                              !.dom = IF n \in H THEN "active" ELSE "none"]]
    /\ net = {}
    /\ orphans = {}
    /\ hit = [n \in Node |-> "no"]
    /\ excuse = {}
    /\ fixes = 0
    /\ faults = 0

NodeStep(n) ==
    \/ TransferComplete(n)
    \/ RecoveryQuery(n, TRUE)
    \/ RecoveryActivate(n)
    \/ Timeout_Timer(n, TRUE)
    \/ Timeout_Timer(n, FALSE)
    \/ Mass_Transfer_Get_Ready_Timeout(n)
    \/ VnidQuery(n)

FaultStep ==
    \/ \E e \in net : Lose(e)
    \/ \E n, m \in Node : LoseMapping(n, m)
    \/ \E n \in Node : \/ Restart(n)
                       \/ TransferNotActivated(n)
                       \/ TransferFailed(n)
                       \/ RecoveryQuery(n, FALSE)
                       \/ n # Leader /\ Suspect(n)

ConsoleStep ==
    \E done \in SUBSET Node, ok \in BOOLEAN :
        DmcPut(done, ok) \/ DmcDelete(done, ok)

PlacementNext ==
    \/ \E e \in net : Deliver(e)
    \/ \E n, m \in Node : QueuedMapping(n, m) \/ FreshMapping(n, m)
    \/ \E n \in Node : NodeStep(n)
    \/ \E o \in orphans : OrphanFinish(o)
    \/ \E n, m \in Node : Heartbeat(n, m)
    \/ \E m \in Node : Domain_Recreate_Timer(m)
    \/ ConsoleStep
    \/ FaultStep

\* As long as a request can be delivered, a transfer or a recovery go on, a
\* mapping be exchanged, a node be heard or a timer run change anything, some
\* of it happens.  Nothing is said of which; the console, the repairs and the
\* faults are not obliged to happen.
PlacementFairness ==
    WF_vars(\/ \E e \in net : Deliver(e)
            \/ \E o \in orphans : OrphanFinish(o)
            \/ \E n \in Node : \/ TransferComplete(n) \/ TransferFailed(n)
                               \/ RecoveryQuery(n, TRUE) \/ RecoveryActivate(n)
                               \/ Timeout_Timer(n, FALSE)
            \/ \E n, m \in Node : QueuedMapping(n, m) \/ FreshMapping(n, m) \/ Heartbeat(n, m))

PlacementSpec == PlacementInit /\ [][PlacementNext]_vars

FairPlacementSpec == PlacementSpec /\ PlacementFairness

-----------------------------------------------------------------------------
PlacementTypeOK ==
    /\ st \in [Node -> NodeState]
    /\ net \in SUBSET Message
    /\ dmc \in {"none", "pending", "synced", "deleted", "half"}
    /\ orphans \in SUBSET (Node \X Node)
    /\ hit \in [Node -> {"no", "busy", "half", "early"}]
    /\ excuse \in SUBSET {"cancel", "query", "restart", "blind", "listed"}
    /\ fixes \in 0 .. MaxFixes
    /\ faults \in 0 .. MaxFaults

\* A node that lists itself as a host, and so tells the others it is one, has
\* an active copy, except for three causes, each visible in hit: a
\* deactivation answered RETRY during a transfer, a DOMAIN_ADD that met an
\* inactive copy, and a placement that entered the leader before a remote
\* node failed.
AdvertisedIsServed ==
    \A n \in Node :
        n \in st[n].hosts => st[n].dom = "active" \/ hit[n] # "no"

\* No step takes the active copies of a domain the console has created below
\* the replication factor, unless a node restarted, a cancelled transfer or a
\* failed query to the console took a copy away, or the leader withdrew one on
\* a map that was not true.
FactorKept ==
    [][dmc = "synced" /\ dmc' = "synced"
         => \/ Cardinality(Active') >= Cardinality(Active)
            \/ Cardinality(Active') >= Factor
            \/ excuse' \ {"listed"} # {}]_vars

\* Once a domain is deleted on every node, no node gets a copy of it again
\* (by recovery, activation, a mapping or a client's query), except one whose
\* request to get ready for a transfer was still on its way.
DeletedStaysGone ==
    [][\A n \in Node :
         dmc = "deleted" /\ st[n].dom = "none" /\ st'[n].dom # "none"
           => \E e \in net : e.op = "get_ready" /\ e.to = n]_vars

\* Every node's map says of every node what that node says of itself.
MapsAgree == \A n, m \in Node : m \in st[n].hosts <=> m \in st[m].hosts

\* No node forwards updates to the target of a finished transfer that hosts
\* the domain by now, unless a target was still listed as a host from an
\* earlier time when its transfer finished.
ForwardingOver ==
    \A n \in Node : \A m \in st[n].fwd : m \notin st[m].hosts \/ "listed" \in excuse

\* Once the faults and the repairs are over, the cluster comes to rest: the
\* mappings the nodes exchange make their maps agree for good, and the entry
\* of a node that hosts the domain ends the forwarding to it.
PlacementSettles == <>[](MapsAgree /\ ForwardingOver)

=============================================================================
