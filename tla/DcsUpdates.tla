------------------------------ MODULE DcsUpdates ------------------------------
(***************************************************************************)
(* What a server sends without being asked: the broadcast table, the       *)
(* policies, the gateways and the multicast receivers of a VNID, address   *)
(* resolutions, locations, migrations, the deletion of the VNID and        *)
(* heartbeats (client_protocol_interface.c, client_protocol_handler.py).   *)
(*                                                                         *)
(* One behaviour follows one kind of message, fixed in the initial state.  *)
(* A change (ver) is queued for a timer or a worker (work), which takes    *)
(* the protocol lock and sends to every client (loop: the calls it has     *)
(* still to make with the lock held).  A send allocates a context, hands   *)
(* it to the retransmission queue (rtx) and calls sendto; a client answers *)
(* with an ack, which takes the context from the queue; after the last     *)
(* retransmission the context goes to the same handler with the status     *)
(* DPS_NO_RESPONSE.  A send that failed is put in the queue of its kind    *)
(* (pend) for the next round of the timer.                                 *)
(*                                                                         *)
(* cli[c] is the last version of the table client c received and every     *)
(* version it ever received.  A query id is free again when no entry,      *)
(* datagram or context has it.                                             *)
(***************************************************************************)
EXTENDS Naturals, Integers, FiniteSets

CONSTANTS
    Client,
    MaxVer,            \* the last version of the table (bound)
    Scenarios,         \* the kind of message, the clients, the version at the
                       \* start, and how many things may go wrong
    MaxId,             \* query ids in use at once (bound, not reached)
    max_retransmit, max_queue_len, failure_count_max, Max_Pending_Queue_Size,
    heartbeat_frequency, heartbeat_no_contact     \* in rounds of the timer

ASSUME UpdatesAssumption ==
    /\ {MaxVer, MaxId, max_retransmit, max_queue_len, failure_count_max,
        Max_Pending_Queue_Size} \subseteq Nat
    /\ heartbeat_frequency \in Nat /\ heartbeat_no_contact \in Nat
    /\ heartbeat_frequency < heartbeat_no_contact
    /\ \A x \in Scenarios :
        /\ x.clients \subseteq Client
        /\ x.ver \in 0 .. MaxVer /\ x.troubles \in Nat

VARIABLES kind, active, member, ver, work, pend, loop, fails, rtx, expired,
          live,       \* the contexts allocated and not freed
          count,      \* outstanding_unsolicited_msg_count
          net, cli, down, silent, trouble,
          twice,      \* history: a context was used or freed after its release
          hist,       \* history: what went wrong at the server
          why         \* history: what may leave a client behind

vars == <<kind, active, member, ver, work, pend, loop, fails, rtx, expired,
          live, count, net, cli, down, silent, trouble, twice, hist, why>>

Kinds == {"bcast", "policies", "gateways", "multicast", "resolve", "location",
          "migration", "deletion", "heartbeat"}
Ver == 0 .. MaxVer
Id == 1 .. MaxId

(* The context of a message in the retransmission queue: its query id, the *)
(* client's address, the packet, and how often it is still to be resent.   *)
dps_retransmit_context_t ==
    [id : Id, c : Client, v : Ver, left : 0 .. max_retransmit]

Datagram == [ack : BOOLEAN, id : Id, c : Client, v : Ver]

(* What the key of a queue of pending work tells apart: an address         *)
(* resolution is queued for its address, a table only for the client.      *)
Keyed(v) == IF kind = "resolve" THEN v ELSE 0

Ids(set) == {x.id : x \in set}
FreeIds == Id \ (Ids(rtx) \cup Ids(expired) \cup Ids(net) \cup live)
FreeId == CHOOSE i \in FreeIds : TRUE

Locked == loop # {} \/ twice    \* the protocol lock is held

(* Everything that goes wrong is charged to one budget.                    *)
Spend(n) == trouble >= n /\ trouble' = trouble - n
Note(events) == hist' = hist \cup events
Blame(clients, causes) ==
    why' = [c \in Client |-> IF c \in clients THEN why[c] \cup causes ELSE why[c]]

-----------------------------------------------------------------------------
(* DPSRetransmitHandler.Queue: refuses when the queue is over its length.  *)
Queue(e, ok) ==
    /\ ok = (Cardinality(rtx) <= max_queue_len)
    /\ rtx' = IF ok THEN rtx \cup {e} ELSE rtx

(* DPSRetransmitHandler.DeQueue: the entry of a query id, if there is one. *)
DeQueue(id) == {e \in rtx : e.id = id}

(* The packet and its context are copied and queued; the allocation of the *)
(* copy may fail.                                                          *)
retransmit_timer_start(e, faults, ok) ==
    IF "copy" \in faults THEN ok = FALSE /\ UNCHANGED rtx ELSE Queue(e, ok)

(* The server's dps_protocol_xmit: the timer is started first, and stays   *)
(* when sendto fails.                                                      *)
dps_protocol_xmit(e, ctx, faults, res) ==
    \E ok \in BOOLEAN :
        /\ IF ctx THEN retransmit_timer_start(e, faults, ok)
                  ELSE ok = TRUE /\ UNCHANGED rtx
        /\ res = IF ~ok THEN "no_resources"
                 ELSE IF "sendto" \in faults THEN "error" ELSE "ok"
        /\ net' = IF res = "ok"
                  THEN net \cup {[ack |-> FALSE, id |-> e.id, c |-> e.c, v |-> e.v]}
                  ELSE net

Result == {"ok", "no_resources", "error"}

(* The body the send functions share: a context unless wants is FALSE or   *)
(* its allocation fails, counted when there is one; a failed send frees it *)
(* and counts down, whether or not there was one.                          *)
Unsolicited(c, v, wants, res) ==
    \E faults \in SUBSET {"context", "copy", "sendto"} :
        LET ctx == wants /\ "context" \notin faults
            e == [id |-> FreeId, c |-> c, v |-> v, left |-> max_retransmit]
        IN  /\ "context" \in faults => wants
            /\ "copy" \in faults => ctx /\ "sendto" \notin faults
            /\ Spend(Cardinality(faults))
            /\ dps_protocol_xmit(e, ctx, faults, res)
            /\ live' = IF ctx /\ res = "ok" THEN live \cup {e.id} ELSE live
            /\ count' = count + (IF ctx THEN 1 ELSE 0) - (IF res = "ok" THEN 0 ELSE 1)
            /\ Note((IF ctx /\ res = "error" THEN {"armed"} ELSE {})
                    \cup (IF ~ctx /\ res # "ok" THEN {"uncounted"} ELSE {}))

send_broadcast_table(c, v, res) == Unsolicited(c, v, TRUE, res)

(* Also the answer to a client's request, which carries the client's query *)
(* id and no context (Policy_Updates_Send_To).                             *)
send_all_connectivity_policies(c, v, solicited, res) ==
    Unsolicited(c, v, ~solicited, res)

send_gateways(c, v, res) == Unsolicited(c, v, TRUE, res)
send_multicast_tunnels(c, v, res) == Unsolicited(c, v, FALSE, res)
send_address_resolution(c, v, res) == Unsolicited(c, v, TRUE, res)
send_heartbeat(c, v, res) == Unsolicited(c, v, TRUE, res)
send_endpoint_reply(c, v, res) == Unsolicited(c, v, TRUE, res)
send_all_vm_migration_update(c, v, res) == Unsolicited(c, v, TRUE, res)

(* Has a query id but no context, and does not count.                      *)
send_vnid_deletion(c, v, res) ==
    \E faults \in SUBSET {"sendto"} :
        /\ Spend(Cardinality(faults))
        /\ dps_protocol_xmit([id |-> FreeId, c |-> c, v |-> v, left |-> 0],
                             FALSE, faults, res)
        /\ UNCHANGED <<live, count, hist>>

-----------------------------------------------------------------------------
(* A failed send is kept for the timer while the queue of its kind has     *)
(* room (Dvg.py).                                                          *)
KeepForTimer(c, v, res) ==
    LET room == Cardinality(pend) < Max_Pending_Queue_Size
    IN  /\ pend' = IF res # "ok" /\ room THEN pend \cup {<<c, v>>} ELSE pend
        /\ Blame({c}, IF res # "ok" /\ ~room THEN {"limit"} ELSE {})

Forget(c, res) ==
    Blame({c}, IF res # "ok" THEN {"dropped"} ELSE {}) /\ UNCHANGED pend

NotSent(c) ==
    /\ Blame({c}, {"inactive"})
    /\ UNCHANGED <<rtx, net, live, count, pend, trouble, hist>>

(* Mutant of send_broadcast_table_to: a failed send is not kept.           *)
SendTableOnce(c) ==
    /\ kind = "bcast"
    /\ IF active
       THEN \E res \in Result : send_broadcast_table(c, ver, res) /\ UNCHANGED <<pend, why>>
       ELSE NotSent(c)

send_broadcast_table_to(c) ==
    /\ kind = "bcast"
    /\ IF active
       THEN \E res \in Result : send_broadcast_table(c, ver, res) /\ KeepForTimer(c, 0, res)
       ELSE NotSent(c)

send_policies_to(c, solicited) ==
    /\ kind = "policies"
    /\ IF active
       THEN \E res \in Result :
                /\ send_all_connectivity_policies(c, ver, solicited, res)
                /\ IF solicited THEN UNCHANGED <<pend, why>> ELSE KeepForTimer(c, 0, res)
       ELSE NotSent(c)

send_gateways_to(c) ==
    /\ kind = "gateways"
    /\ IF active
       THEN \E res \in Result : send_gateways(c, ver, res) /\ KeepForTimer(c, 0, res)
       ELSE NotSent(c)

send_multicast_update_to(c) ==
    /\ kind = "multicast"
    /\ IF active
       THEN \E res \in Result : send_multicast_tunnels(c, ver, res) /\ KeepForTimer(c, 0, res)
       ELSE NotSent(c)

send_address_resolution_to(c, v) ==
    /\ kind = "resolve"
    /\ \E res \in Result : send_address_resolution(c, v, res) /\ KeepForTimer(c, v, res)

send_endpoint_location_reply_to(c) ==
    /\ kind = "location"
    /\ \E res \in Result : send_endpoint_reply(c, ver, res) /\ Forget(c, res)

send_vm_migration_update_to(c) ==
    /\ kind = "migration"
    /\ IF active
       THEN \E res \in Result : send_all_vm_migration_update(c, ver, res) /\ Forget(c, res)
       ELSE NotSent(c)

send_vnid_deletion_to(c) ==
    /\ kind = "deletion"
    /\ \E res \in Result : send_vnid_deletion(c, ver, res) /\ Forget(c, res)

(* A heartbeat without a context is sent; its answer finds no entry.       *)
SendOneHeartbeat(c) ==
    /\ kind = "heartbeat"
    /\ \E res \in Result :
        /\ send_heartbeat(c, 0, res)
        /\ Blame({c}, IF res # "ok" THEN {"dropped"}
                      ELSE IF live' = live THEN {"bare"} ELSE {})
    /\ UNCHANGED pend

(* The next call of the loop that holds the protocol lock.                 *)
SendNext ==
    /\ ~twice
    /\ \E x \in loop :
        /\ loop' = loop \ {x}
        /\ \/ send_broadcast_table_to(x[1])
           \/ send_policies_to(x[1], FALSE)
           \/ send_gateways_to(x[1])
           \/ send_multicast_update_to(x[1])
           \/ send_address_resolution_to(x[1], x[2])
           \/ send_endpoint_location_reply_to(x[1])
           \/ send_vm_migration_update_to(x[1])
           \/ send_vnid_deletion_to(x[1])
           \/ SendOneHeartbeat(x[1])
    /\ UNCHANGED <<kind, active, member, ver, work, fails, expired, cli, down,
                   silent, twice>>

To(c, v) == {<<c, v, "to">>}
ToAll(v) == {<<c, v, "all">> : c \in member}
FromPending == {<<x[1], x[2], "to">> : x \in pend}

-----------------------------------------------------------------------------
(* The parts of Protocol_Timer_Routine, each with the lock taken anew.     *)
Broadcast_Updates_Send ==
    /\ kind = "bcast" /\ (pend # {} \/ work # {})
    /\ loop' = FromPending \cup (IF work # {} THEN ToAll(0) ELSE {})
    /\ pend' = {} /\ work' = {}
    /\ UNCHANGED <<member, silent>>

Policy_Updates_Send ==
    /\ kind = "policies" /\ pend # {}
    /\ loop' = FromPending
    /\ pend' = {}
    /\ UNCHANGED <<work, member, silent>>

(* Looks its keys up in the queue of the policies, where they are not, so  *)
(* that it neither sends nor removes an entry.                             *)
Gateway_Updates_Send ==
    /\ kind = "gateways" /\ pend # {}
    /\ UNCHANGED <<loop, pend, work, member, silent>>

Multicast_Updates_Send ==
    /\ kind = "multicast" /\ (pend # {} \/ work # {})
    /\ loop' = FromPending \cup (IF work # {} THEN ToAll(0) ELSE {})
    /\ pend' = {} /\ work' = {}
    /\ UNCHANGED <<member, silent>>

Address_Resolution_Timeout ==
    /\ kind = "resolve" /\ pend # {}
    /\ loop' = FromPending
    /\ pend' = {}
    /\ UNCHANGED <<work, member, silent>>

(* DPSClientHost.Send_Heartbeat: clients not heard of for too long are     *)
(* deleted, quiet ones get a heartbeat.                                    *)
Send_Heartbeat ==
    LET s == [c \in Client |-> silent[c] + 1]
        gone == {c \in member : s[c] > heartbeat_no_contact}
        due == {c \in member \ gone : s[c] >= heartbeat_frequency}
    IN  /\ kind = "heartbeat"
        /\ member' = member \ gone
        /\ silent' = [c \in Client |-> IF c \in member \ gone THEN s[c] ELSE 0]
        /\ loop' = {<<c, 0, "to">> : c \in due}
        /\ UNCHANGED <<pend, work>>

(* The 5 seconds between two rounds are long for a datagram: one that is   *)
(* still on its way is charged to the budget.                              *)
NothingInFlight == net = {}

Protocol_Timer_Routine ==
    /\ ~Locked
    /\ IF NothingInFlight \/ kind # "heartbeat" THEN UNCHANGED <<trouble, hist>>
       ELSE Spend(1) /\ Note({"late"})
    /\ \/ Broadcast_Updates_Send
       \/ Policy_Updates_Send
       \/ Gateway_Updates_Send
       \/ Multicast_Updates_Send
       \/ Address_Resolution_Timeout
       \/ Send_Heartbeat
    /\ UNCHANGED <<kind, active, ver, fails, rtx, expired, live, count, net, cli,
                   down, twice, why>>

(* The worker threads take a change from their queue and send to every     *)
(* client of the VNID with the lock held (object_collection.py).           *)
UpdateWorker ==
    /\ ~Locked
    /\ kind \in {"policies", "gateways", "resolve", "location", "migration"}
    /\ \E v \in work : work' = work \ {v} /\ loop' = ToAll(v)
    /\ UNCHANGED <<kind, active, member, ver, pend, fails, rtx, expired, live,
                   count, net, cli, down, silent, trouble, twice, hist, why>>

(* A client asks for its policies (dps_msg_vnid_policy_request).           *)
Policy_Updates_Send_To(c) ==
    /\ ~Locked
    /\ c \in member /\ c \notin {m.c : m \in net}
    /\ active
    /\ fails' = [fails EXCEPT ![c] = failure_count_max]
    /\ send_policies_to(c, TRUE)
    /\ UNCHANGED <<kind, active, member, ver, work, loop, expired, cli, down,
                   silent, twice>>

-----------------------------------------------------------------------------
(* The tables change.  A change of the tunnels is queued only while the    *)
(* domain is active; the deletion of the VNID sends at once.               *)
Change ==
    /\ ~Locked /\ ver < MaxVer
    /\ kind # "heartbeat"
    /\ ver' = ver + 1
    /\ IF kind = "deletion"
       THEN loop' = ToAll(ver') /\ UNCHANGED <<work, why>>
       ELSE /\ UNCHANGED loop
            /\ IF kind = "bcast" /\ ~active
               THEN UNCHANGED work /\ Blame(Client, {"inactive"})
               ELSE work' = work \cup {Keyed(ver')} /\ UNCHANGED why
    /\ UNCHANGED <<kind, active, member, pend, fails, rtx, expired, live, count,
                   net, cli, down, silent, trouble, twice, hist>>

(* DPSClient.delete also removes what is pending for the client.           *)
DPSClient_delete(c) ==
    /\ member' = member \ {c}
    /\ pend' = {x \in pend : x[1] # c}

(* A client's last tunnel goes, which changes the broadcast table.         *)
TunnelGone(c) ==
    /\ ~Locked /\ ver < MaxVer
    /\ kind = "bcast" /\ c \in member /\ active
    /\ DPSClient_delete(c)
    /\ ver' = ver + 1
    /\ work' = {0}
    /\ UNCHANGED <<kind, active, loop, fails, rtx, expired, live, count, net,
                   cli, down, silent, trouble, twice, hist, why>>

(* The virtual machine an address resolution asks for registers itself.    *)
Address_Resolution_Resolve(v) ==
    /\ ~Locked
    /\ kind = "resolve" /\ \E x \in pend : x[2] = v
    /\ pend' = {x \in pend : x[2] # v}
    /\ Blame({x[1] : x \in {y \in pend : y[2] = v}}, {"answered"})
    /\ UNCHANGED <<kind, active, member, ver, work, loop, fails, rtx, expired,
                   live, count, net, cli, down, silent, trouble, twice, hist>>

SetActive ==
    /\ ~Locked
    /\ kind \notin {"heartbeat", "deletion"}
    /\ active' = ~active
    /\ Spend(IF active THEN 1 ELSE 0)
    /\ UNCHANGED <<kind, member, ver, work, pend, loop, fails, rtx, expired, live,
                   count, net, cli, down, silent, twice, hist, why>>

-----------------------------------------------------------------------------
(* Mutant of Handle_Unsolicited_Message_Reply: an answer does not touch    *)
(* the client's host.                                                      *)
ReplyWithoutTouch(c, v, answered) ==
    IF c \notin member \/ fails[c] = 0 THEN UNCHANGED <<fails, silent, loop, why>>
    ELSE /\ fails' = [fails EXCEPT ![c] = IF answered THEN failure_count_max ELSE @ - 1]
         /\ loop' = IF answered \/ kind = "heartbeat" THEN {} ELSE To(c, 0)
         /\ UNCHANGED <<silent, why>>

(* An answer, or the end of the retransmissions, for client c: the client  *)
(* is counted as reachable, or the message is sent again as long as the    *)
(* client's count lasts - the gateways to every client.                    *)
Handle_Unsolicited_Message_Reply(c, v, answered) ==
    IF c \notin member THEN UNCHANGED <<fails, silent, loop, why>>
    ELSE IF answered
    THEN /\ fails' = [fails EXCEPT ![c] = failure_count_max]
         /\ silent' = [silent EXCEPT ![c] = 0]
         /\ why' = IF kind = "heartbeat" THEN [why EXCEPT ![c] = {}] ELSE why
         /\ UNCHANGED loop
    ELSE IF fails[c] = 0
    THEN Blame({c}, {"unreachable"}) /\ UNCHANGED <<fails, silent, loop>>
    ELSE /\ fails' = [fails EXCEPT ![c] = @ - 1]
         /\ loop' = IF kind = "gateways" THEN ToAll(0)
                    ELSE IF kind = "heartbeat" THEN {} ELSE To(c, 0)
         /\ UNCHANGED <<silent, why>>

Handle_Resolution_Reply(c, v, answered) ==
    IF c \notin member THEN UNCHANGED <<fails, silent, loop, why>>
    ELSE IF answered
    THEN /\ fails' = [fails EXCEPT ![c] = failure_count_max]
         /\ silent' = [silent EXCEPT ![c] = 0]
         /\ UNCHANGED <<loop, why>>
    ELSE IF fails[c] = 0
    THEN Blame({c}, {"unreachable"}) /\ UNCHANGED <<fails, silent, loop>>
    ELSE /\ fails' = [fails EXCEPT ![c] = @ - 1]
         /\ loop' = To(c, v)
         /\ UNCHANGED <<silent, why>>

(* The handler of acks: reads the context, calls the Python handler of the *)
(* message it belongs to (none for a migration), frees it and counts down. *)
dps_msg_general_ack(e, answered) ==
    /\ \/ /\ kind = "migration"
          /\ Blame({e.c}, IF answered THEN {} ELSE {"unanswered"})
          /\ UNCHANGED <<fails, silent, loop>>
       \/ /\ kind \in {"resolve", "location"}
          /\ Handle_Resolution_Reply(e.c, e.v, answered)
       \/ /\ kind \notin {"migration", "resolve", "location"}
          /\ Handle_Unsolicited_Message_Reply(e.c, e.v, answered)
    /\ live' = live \ {e.id}
    /\ count' = count - 1
    /\ twice' = (e.id \notin live)

(* dps_protocol_send_to_server calls the handler only while the domain is  *)
(* served here: otherwise the context is lost.                             *)
dps_protocol_send_to_server(e, answered) ==
    IF active THEN dps_msg_general_ack(e, answered) /\ UNCHANGED hist
    ELSE /\ Note({"inactive"})
         /\ Blame({e.c}, {"inactive"})
         /\ UNCHANGED <<fails, silent, loop, live, count, twice>>

(* retransmit_timer_stop: a datagram without an entry has no context.      *)
retransmit_timer_stop(m) ==
    /\ rtx' = rtx \ DeQueue(m.id)
    /\ IF DeQueue(m.id) = {}
       THEN UNCHANGED <<fails, silent, loop, live, count, twice, hist, why>>
       ELSE \E e \in DeQueue(m.id) : dps_protocol_send_to_server(e, TRUE)

(* The server receives an ack (dps_process_data_rcvd).                     *)
ServerReceive ==
    /\ ~Locked
    /\ \E m \in net :
        /\ m.ack
        /\ net' = net \ {m}
        /\ retransmit_timer_stop(m)
    /\ UNCHANGED <<kind, active, member, ver, work, pend, expired, cli, down,
                   trouble>>

(* Mutant of Timer_Routine: the number of retransmissions does not go down.*)
RetransmitForever ==
    /\ net' = net \cup {[ack |-> FALSE, id |-> e.id, c |-> e.c, v |-> e.v] :
                           e \in {x \in rtx : x.left > 0}}
    /\ UNCHANGED <<rtx, expired>>

(* Mutant of Timer_Routine: what is collected stays in the queue.          *)
CollectWithoutRemoving ==
    /\ net' = net \cup {[ack |-> FALSE, id |-> e.id, c |-> e.c, v |-> e.v] :
                           e \in {x \in rtx : x.left > 0}}
    /\ rtx' = {[e EXCEPT !.left = IF @ = 0 THEN 0 ELSE @ - 1] : e \in rtx}
    /\ expired' = {e \in rtx : e.left = 0}

(* The packet of the entry is sent again as it was.                        *)
retransmit_data(e) == [ack |-> FALSE, id |-> e.id, c |-> e.c, v |-> e.v]

(* DPSRetransmitHandler.Timer_Routine: resends, and collects what was sent *)
(* often enough.                                                           *)
Timer_Routine ==
    /\ net' = net \cup {retransmit_data(e) : e \in {x \in rtx : x.left > 0}}
    /\ rtx' = {[e EXCEPT !.left = @ - 1] : e \in {x \in rtx : x.left > 0}}
    /\ expired' = {e \in rtx : e.left = 0}

RetransmitTimer ==
    /\ ~twice /\ expired = {} /\ rtx # {}
    /\ Spend(IF NothingInFlight THEN 0 ELSE 1)
    /\ Note(IF NothingInFlight \/ kind # "heartbeat" THEN {} ELSE {"late"})
    /\ Timer_Routine
    /\ UNCHANGED <<kind, active, member, ver, work, pend, loop, fails, live, count,
                   cli, down, silent, twice, why>>

(* retransmit_timeout calls dps_retransmit_callback for a collected entry, *)
(* after the lock of the queue was released.                               *)
retransmit_timeout ==
    /\ ~Locked
    /\ \E e \in expired :
        /\ expired' = expired \ {e}
        /\ dps_protocol_send_to_server(e, FALSE)
    /\ UNCHANGED <<kind, active, member, ver, work, pend, rtx, net, cli, down,
                   trouble>>

-----------------------------------------------------------------------------
(* The client takes the table it gets and acknowledges everything but the  *)
(* deletion of a VNID.                                                     *)
ClientReceive ==
    /\ ~twice
    /\ \E m \in net :
        /\ ~m.ack /\ m.c \notin down
        /\ net' = (net \ {m}) \cup
                  (IF kind = "deletion" THEN {} ELSE {[m EXCEPT !.ack = TRUE]})
        /\ cli' = [cli EXCEPT ![m.c] = [last |-> m.v, seen |-> @.seen \cup {m.v}]]
        /\ why' = [why EXCEPT ![m.c] =
                      IF kind \in {"resolve", "heartbeat"} THEN @
                      ELSE IF m.v = ver THEN {}
                      ELSE IF m.v < cli[m.c].last THEN @ \cup {"older"} ELSE @]
    /\ UNCHANGED <<kind, active, member, ver, work, pend, loop, fails, rtx, expired,
                   live, count, down, silent, trouble, twice, hist>>

(* A datagram is lost, by chance or because the client is down; one that   *)
(* is not in the retransmission queue is not sent again.                   *)
Lose ==
    /\ ~twice
    /\ \E m \in net :
        /\ net' = net \ {m}
        /\ Spend(IF m.c \in down /\ ~m.ack THEN 0 ELSE 1)
        /\ Blame({m.c}, IF kind = "heartbeat" THEN {"missed"}
                        ELSE IF m.id \notin Ids(rtx) /\ ~m.ack THEN {"once"} ELSE {})
    /\ UNCHANGED <<kind, active, member, ver, work, pend, loop, fails, rtx, expired,
                   live, count, cli, down, silent, twice, hist>>

GoDown(c) ==
    /\ ~twice
    /\ c \notin down /\ down' = down \cup {c}
    /\ Spend(1)
    /\ UNCHANGED <<kind, active, member, ver, work, pend, loop, fails, rtx, expired,
                   live, count, net, cli, silent, twice, hist, why>>

ComeUp(c) ==
    /\ ~twice
    /\ c \in down /\ down' = down \ {c}
    /\ UNCHANGED <<kind, active, member, ver, work, pend, loop, fails, rtx, expired,
                   live, count, net, cli, silent, trouble, twice, hist, why>>

-----------------------------------------------------------------------------
UpdatesInit ==
    /\ \E x \in Scenarios :
        /\ kind = x.kind /\ member = x.clients
        /\ ver = x.ver /\ trouble = x.troubles
    /\ active = TRUE
    /\ work = {} /\ pend = {} /\ loop = {}
    /\ fails = [c \in Client |-> failure_count_max]
    /\ rtx = {} /\ expired = {} /\ live = {} /\ count = 0
    /\ net = {}
    /\ cli = [c \in Client |-> [last |-> ver, seen |-> 0 .. ver]]
    /\ down = {}
    /\ silent = [c \in Client |-> 0]
    /\ twice = FALSE
    /\ hist = {}
    /\ why = [c \in Client |-> {}]

UpdatesNext ==
    \/ SendNext
    \/ Protocol_Timer_Routine
    \/ UpdateWorker
    \/ Change
    \/ SetActive
    \/ ServerReceive
    \/ RetransmitTimer
    \/ retransmit_timeout
    \/ ClientReceive
    \/ Lose
    \/ \E c \in Client : Policy_Updates_Send_To(c)
    \/ \E c \in Client : TunnelGone(c)
    \/ \E v \in Ver : Address_Resolution_Resolve(v)
    \/ \E c \in member : GoDown(c)
    \/ \E c \in Client : ComeUp(c)

(* The timers, the workers and the loops run again and again, a datagram   *)
(* on its way arrives or is lost.  Nothing is assumed of changes, faults   *)
(* or of clients that are down.                                            *)
UpdatesFairness ==
    /\ WF_vars(SendNext)
    /\ WF_vars(Protocol_Timer_Routine)
    /\ WF_vars(UpdateWorker)
    /\ WF_vars(ServerReceive)
    /\ WF_vars(RetransmitTimer)
    /\ WF_vars(retransmit_timeout)
    /\ WF_vars(ClientReceive \/ Lose)

UpdatesSpec == UpdatesInit /\ [][UpdatesNext]_vars /\ UpdatesFairness

-----------------------------------------------------------------------------
(* Type invariant of the send queues, the contexts and the clients.        *)
UpdatesTypeOK ==
    /\ kind \in Kinds /\ active \in BOOLEAN /\ twice \in BOOLEAN
    /\ member \subseteq Client /\ down \subseteq Client
    /\ ver \in Ver /\ work \subseteq Ver
    /\ pend \subseteq Client \X Ver
    /\ Cardinality(pend) <= Max_Pending_Queue_Size
    /\ loop \subseteq Client \X Ver \X {"to", "all"}
    /\ fails \in [Client -> 0 .. failure_count_max]
    /\ rtx \subseteq dps_retransmit_context_t
    /\ expired \subseteq dps_retransmit_context_t
    /\ Cardinality(rtx) <= max_queue_len + 1
    /\ live \subseteq Id /\ count \in Int
    /\ net \subseteq Datagram
    /\ cli \in [Client -> [last : Ver, seen : SUBSET Ver]]
    /\ silent \in [Client -> 0 .. heartbeat_no_contact]
    /\ trouble \in Nat

(* A context is used and freed once: by the answer or by the end of the    *)
(* retransmissions, whichever takes it from the queue.  The exception the  *)
(* code has: sendto failed after the timer was started, the sender freed   *)
(* the context and the queue still holds it (dps_protocol_xmit).           *)
ContextReleasedOnce ==
    twice => "armed" \in hist

(* Every context in use is in the retransmission queue or with the timer   *)
(* that collected it, and outstanding_unsolicited_msg_count counts them,   *)
(* unless an answer came when the domain was not served (the context is    *)
(* lost), or a send without a context failed (counted down all the same).  *)
ContextsAccounted ==
    ~twice =>
        /\ "inactive" \in hist \/ live \subseteq Ids(rtx) \cup Ids(expired)
        /\ count = Cardinality(live) \/ hist \cap {"uncounted"} # {}

(* The contexts of what was sent are freed once and all accounted for.     *)
ContextsSound == ContextReleasedOnce /\ ContextsAccounted

Quiet ==
    /\ net = {} /\ rtx = {} /\ expired = {} /\ loop = {} /\ work = {}
    /\ kind = "gateways" \/ pend = {}

(* When nothing is left to send, every client of the VNID has the last     *)
(* version of the table and saw every question, unless the code left it    *)
(* behind: the domain was not served, a datagram outside the               *)
(* retransmission queue was lost, the client did not answer to the end, an *)
(* older table was retransmitted after a newer one, a failed send found    *)
(* no room or is of a kind that is not kept - or is a gateway list, which  *)
(* is kept and never sent.                                                 *)
SettledIsCurrent ==
    Quiet /\ kind # "heartbeat" =>
        \A c \in member :
            \/ why[c] # {}
            \/ \E x \in pend : x[1] = c
            \/ IF kind = "resolve" THEN 1 .. ver \subseteq cli[c].seen
                                   ELSE cli[c].last = ver

(* The heartbeats remove a client only if, since it was last heard of, one *)
(* of its heartbeats or answers was lost, not sent or sent without a       *)
(* context, or if an answer was late by a round of one of the timers.      *)
RemovedWasSilent ==
    [][\A c \in member \ member' :
         kind = "heartbeat" => \/ {"missed", "dropped", "bare"} \cap why[c] # {}
                               \/ "late" \in hist']_vars

(* The updates end: every queue empties once the tables stop changing.     *)
UpdatesSettle == kind # "heartbeat" => <>(Quiet \/ twice)

(* A client that stays down is deleted by the heartbeats.                  *)
DownClientRemoved ==
    \A c \in Client :
        (kind = "heartbeat" /\ c \in down) ~> (c \notin member \/ c \notin down \/ twice)

(* The server's own work ends: the queues of updates empty, and a client   *)
(* that stays down is not sent heartbeats for ever.                        *)
WorkEnds == UpdatesSettle /\ DownClientRemoved
=============================================================================
