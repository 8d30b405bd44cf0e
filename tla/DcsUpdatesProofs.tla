--------------------------- MODULE DcsUpdatesProofs ---------------------------
(***************************************************************************)
(* The contexts of the unsolicited messages, the heartbeats and what the   *)
(* clients end with, for any number of clients, versions, troubles and     *)
(* retransmissions: a context is freed once and accounted for, the         *)
(* heartbeats remove a client only for a cause, and a client is left with  *)
(* an old table only for a cause.  All rest on query ids that are not in   *)
(* use when they are given out, so all are stated for behaviours in which  *)
(* one is free.                                                            *)
(***************************************************************************)
EXTENDS DcsUpdates, TLAPS

\* A leaf that names no prover is tried with Zenon, then with SMT.
USE ZenonT(20), SMTT(20)

IdsSuffice == FreeIds # {}

\* The messages the retransmission queue or its timer still hold.
Held == rtx \cup expired

Entry(e) ==
  /\ e = [id |-> e.id, c |-> e.c, v |-> e.v, left |-> e.left]
  /\ e.left \in Nat

\* An entry owns its query id and, unless sendto failed after the timer was
\* started, its context; a context without an entry was lost while the domain
\* was not served.
ContextInv ==
  /\ \A e \in Held : Entry(e)
  /\ \A e, f \in Held : e.id = f.id => e = f
  /\ rtx \cap expired = {}
  /\ twice \in BOOLEAN
  /\ twice => "armed" \in hist
  /\ ~ twice /\ "armed" \notin hist => \A e \in Held : e.id \in live
  /\ ~ twice /\ "inactive" \notin hist => \A i \in live : \E e \in Held : e.id = i
  /\ IsFiniteSet(live) /\ count \in Int
  /\ ~ twice /\ "uncounted" \notin hist => count = Cardinality(live)

Lapse == {"missed", "dropped", "bare"}

Packet(m) == m = [ack |-> m.ack, id |-> m.id, c |-> m.c, v |-> m.v]

\* A heartbeat to c, or c's answer, is on its way, and the answer will find
\* the entry it belongs to.
Awaited(c) == \E m \in net : \E e \in rtx : m.id = e.id /\ m.c = c /\ e.c = c

\* A datagram and an entry with the same query id are of the same client.
ClientsInv ==
  /\ silent \in [Client -> Nat] /\ DOMAIN why = Client /\ member \subseteq Client
  /\ \A m \in net : Packet(m)
  /\ \A m \in net : \A e \in rtx : m.id = e.id => m.c = e.c
  /\ kind = "heartbeat" => active

\* A client that is due for a heartbeat has it before it, under way, or
\* something has gone wrong with it.
DutyInv ==
  kind = "heartbeat" /\ "late" \notin hist =>
    \A c \in member :
      \/ silent[c] = 0 \/ silent[c] < heartbeat_frequency
      \/ Lapse \cap why[c] # {}
      \/ \E x \in loop : x[1] = c
      \/ Awaited(c)

\* What counting the contexts needs of finite sets; SetsCount shows it.
Counting ==
  /\ IsFiniteSet({}) /\ Cardinality({}) = 0
  /\ \A S, x : IsFiniteSet(S) /\ x \notin S =>
       IsFiniteSet(S \cup {x}) /\ Cardinality(S \cup {x}) = Cardinality(S) + 1
  /\ \A S, x : IsFiniteSet(S) /\ x \in S =>
       IsFiniteSet(S \ {x}) /\ Cardinality(S \ {x}) = Cardinality(S) - 1

LEMMA ContextInit == Counting /\ UpdatesInit => ContextInv
  <1> SUFFICES ASSUME Counting, UpdatesInit PROVE ContextInv
    OBVIOUS
  <1>1. rtx = {} /\ expired = {} /\ live = {} /\ count = 0 /\ twice = FALSE /\ hist = {}
    BY DEF UpdatesInit
  <1>2. IsFiniteSet(live) /\ Cardinality(live) = 0
    BY <1>1 DEF Counting
  <1>3. twice \in BOOLEAN /\ ~ twice
    BY <1>1, Zenon
  <1>4. Held = {}
    BY <1>1 DEF Held
  <1>5. rtx \cap expired = {} /\ count \in Int /\ count = Cardinality(live)
    BY <1>1, <1>2, SMT
  <1> QED
    BY <1>1, <1>2, <1>3, <1>4, <1>5 DEF ContextInv

LEMMA ClientsInit == UpdatesInit => ClientsInv /\ DutyInv
  <1> SUFFICES ASSUME UpdatesInit PROVE ClientsInv /\ DutyInv
    OBVIOUS
  <1>1. /\ rtx = {} /\ net = {} /\ active = TRUE /\ silent = [c \in Client |-> 0]
        /\ why = [c \in Client |-> {}]
    BY DEF UpdatesInit
  <1>2. member \subseteq Client
    BY UpdatesAssumption DEF UpdatesInit
  <1>3. ClientsInv
    BY <1>1, <1>2 DEF ClientsInv
  <1>4. DutyInv
    BY <1>1, <1>2 DEF DutyInv
  <1> QED
    BY <1>3, <1>4

\* The contexts stay as they are, whatever is noted.
LEMMA ContextSame ==
  ASSUME ContextInv, UNCHANGED <<rtx, expired, live, count, twice>>, hist \subseteq hist'
  PROVE  ContextInv'
  <1>1. Held' = Held
    BY DEF Held
  <1> QED
    BY <1>1 DEF ContextInv, Entry

----------------------------------------------------------------------------
(* Sending                                                                 *)

NewEntry(i, c, v) == [id |-> i, c |-> c, v |-> v, left |-> max_retransmit]
NewPacket(i, c, v) == [ack |-> FALSE, id |-> i, c |-> c, v |-> v]

\* The five ways a send can end, with i the query id it was given.
Sent(i, c, v, res) ==
  \/ /\ res = "ok" /\ hist' = hist                        \* all went well
     /\ rtx' = rtx \cup {NewEntry(i, c, v)} /\ net' = net \cup {NewPacket(i, c, v)}
     /\ live' = live \cup {i} /\ count' = count + 1
  \/ /\ res # "ok" /\ hist' = hist \cup {"armed"}         \* sendto failed
     /\ rtx' = rtx \cup {NewEntry(i, c, v)} /\ net' = net
     /\ live' = live /\ count' = count
  \/ /\ res # "ok" /\ hist' = hist                        \* no timer
     /\ rtx' = rtx /\ net' = net
     /\ live' = live /\ count' = count
  \/ /\ res = "ok" /\ hist' = hist                        \* without a context
     /\ rtx' = rtx /\ net' = net \cup {NewPacket(i, c, v)}
     /\ live' = live /\ count' = count
  \/ /\ res # "ok" /\ hist' = hist \cup {"uncounted"}     \* nor was it sent
     /\ rtx' = rtx /\ net' = net
     /\ live' = live

LEMMA FreeIdIs ==
  ASSUME IdsSuffice
  PROVE  /\ FreeId \notin live
         /\ \A e \in Held : e.id # FreeId
         /\ \A m \in net : m.id # FreeId
  <1>1. FreeId \in FreeIds
    BY DEF IdsSuffice, FreeId
  <1> QED
    BY <1>1 DEF FreeIds, Ids, Held

LEMMA SendIs ==
  ASSUME NEW c, NEW v, NEW wants \in BOOLEAN, NEW res, Unsolicited(c, v, wants, res),
         count \in Int
  PROVE  Sent(FreeId, c, v, res) /\ count' \in Int
  <1> DEFINE i == FreeId
             e == [id |-> i, c |-> c, v |-> v, left |-> max_retransmit]
  <1>1. PICK faults \in SUBSET {"context", "copy", "sendto"} :
          /\ dps_protocol_xmit(e, wants /\ "context" \notin faults, faults, res)
          /\ live' = IF (wants /\ "context" \notin faults) /\ res = "ok"
                     THEN live \cup {e.id} ELSE live
          /\ count' = count + (IF wants /\ "context" \notin faults THEN 1 ELSE 0)
                            - (IF res = "ok" THEN 0 ELSE 1)
          /\ hist' = hist \cup ((IF (wants /\ "context" \notin faults) /\ res = "error"
                                 THEN {"armed"} ELSE {})
                    \cup (IF ~(wants /\ "context" \notin faults) /\ res # "ok"
                          THEN {"uncounted"} ELSE {}))
    BY DEF Unsolicited, Note
  <1> DEFINE ctx == wants /\ "context" \notin faults
  <1>2. PICK ok \in BOOLEAN :
          /\ IF ctx THEN retransmit_timer_start(e, faults, ok) ELSE ok = TRUE /\ UNCHANGED rtx
          /\ res = IF ~ok THEN "no_resources"
                   ELSE IF "sendto" \in faults THEN "error" ELSE "ok"
          /\ net' = IF res = "ok"
                    THEN net \cup {[ack |-> FALSE, id |-> e.id, c |-> e.c, v |-> e.v]}
                    ELSE net
    BY <1>1 DEF dps_protocol_xmit
  <1>3. e.id = i /\ e.c = c /\ e.v = v /\ e = NewEntry(i, c, v)
    BY DEF NewEntry
  <1>4. net' = IF res = "ok" THEN net \cup {NewPacket(i, c, v)} ELSE net
    BY <1>2, <1>3 DEF NewPacket
  <1> HIDE DEF e, i
  <1>5. ctx => rtx' = IF ok THEN rtx \cup {e} ELSE rtx
    BY <1>2 DEF retransmit_timer_start, Queue
  <1>6. ~ ctx => rtx' = rtx /\ ok
    BY <1>2
  <1>7. live' = (IF ctx /\ res = "ok" THEN live \cup {i} ELSE live)
    BY <1>1, <1>3
  <1>8. count' = count + (IF ctx THEN 1 ELSE 0) - (IF res = "ok" THEN 0 ELSE 1)
    BY <1>1
  <1>9. hist' = hist \cup ((IF ctx /\ res = "error" THEN {"armed"} ELSE {})
                    \cup (IF ~ctx /\ res # "ok" THEN {"uncounted"} ELSE {}))
    BY <1>1
  <1>10. res \in {"ok", "no_resources", "error"} /\ (res = "no_resources" <=> ~ ok)
    BY <1>2
  <1> HIDE DEF ctx
  <1>11. count' \in Int
    BY <1>8, SMT
  <1>12. CASE ctx /\ res = "ok"
    BY <1>12, <1>3, <1>4, <1>5, <1>7, <1>8, <1>9, <1>10, <1>11, SMT DEF Sent, i
  <1>13. CASE ctx /\ res = "error"
    BY <1>13, <1>3, <1>4, <1>5, <1>7, <1>8, <1>9, <1>10, <1>11, SMT DEF Sent, i
  <1>14. CASE ctx /\ res = "no_resources"
    BY <1>14, <1>3, <1>4, <1>5, <1>7, <1>8, <1>9, <1>10, <1>11, SMT DEF Sent, i
  <1>15. CASE ~ ctx /\ res = "ok"
    BY <1>15, <1>3, <1>4, <1>6, <1>7, <1>8, <1>9, <1>10, <1>11, SMT DEF Sent, i
  <1>16. CASE ~ ctx /\ res # "ok"
    BY <1>16, <1>3, <1>4, <1>6, <1>7, <1>8, <1>9, <1>10, <1>11 DEF Sent, i
  <1> QED
    BY <1>10, <1>12, <1>13, <1>14, <1>15, <1>16

LEMMA SentContext ==
  ASSUME Counting, ContextInv, IdsSuffice, NEW c, NEW v, NEW res, Sent(FreeId, c, v, res),
         count' \in Int, UNCHANGED <<expired, twice>>
  PROVE  ContextInv'
  <1> DEFINE i == FreeId
             e == NewEntry(i, c, v)
  <1>1. i \notin live /\ \A f \in Held : f.id # i
    BY FreeIdIs
  <1> HIDE DEF i
  <1>2. e.id = i /\ Entry(e)
    BY UpdatesAssumption DEF NewEntry, Entry
  <1> HIDE DEF e
  <1>3. e \notin Held
    BY <1>1, <1>2
  <1>4. CASE rtx' = rtx \cup {e} /\ live' = live \cup {i} /\ count' = count + 1 /\ hist' = hist
    <2>1. Held' = Held \cup {e}
      BY <1>4 DEF Held
    <2>2. IsFiniteSet(live') /\ Cardinality(live') = Cardinality(live) + 1
      BY <1>1, <1>4 DEF ContextInv, Counting
    <2>3. rtx' \cap expired' = {}
      BY <1>3, <1>4, SMT DEF ContextInv, Held
    <2> QED
      BY <1>1, <1>2, <1>4, <2>1, <2>2, <2>3 DEF ContextInv
  <1>5. CASE rtx' = rtx \cup {e} /\ live' = live /\ count' = count /\ hist' = hist \cup {"armed"}
    <2>1. Held' = Held \cup {e}
      BY <1>5 DEF Held
    <2>2. rtx' \cap expired' = {}
      BY <1>3, <1>5, SMT DEF ContextInv, Held
    <2> QED
      BY <1>1, <1>2, <1>5, <2>1, <2>2 DEF ContextInv
  <1>6. CASE rtx' = rtx /\ live' = live /\ count' = count /\ hist' = hist
    BY <1>6, ContextSame
  <1>7. CASE rtx' = rtx /\ live' = live /\ hist' = hist \cup {"uncounted"}
    <2>1. Held' = Held
      BY <1>7 DEF Held
    <2> QED
      BY <1>7, <2>1 DEF ContextInv
  <1> QED
    BY <1>4, <1>5, <1>6, <1>7 DEF Sent, e, i

\* Every call of the loop is one of these sends, or changes no context.
LEMMA SendStep ==
  ASSUME Counting, ContextInv, IdsSuffice, SendNext \/ \E c \in Client : Policy_Updates_Send_To(c)
  PROVE  ContextInv'
  <1>1. UNCHANGED <<expired, twice>>
    BY Zenon DEF SendNext, Policy_Updates_Send_To
  <1>2. ASSUME NEW c, NEW v, NEW wants \in BOOLEAN, NEW res, Unsolicited(c, v, wants, res)
        PROVE  ContextInv'
    <2>1. Sent(FreeId, c, v, res) /\ count' \in Int
      BY <1>2, SendIs, SMT DEF ContextInv
    <2> QED
      BY <1>1, <2>1, SentContext
  <1>3. ASSUME UNCHANGED <<rtx, live, count, hist>> PROVE ContextInv'
    BY <1>1, <1>3, ContextSame
  <1>4. ASSUME NEW c, NEW v, NEW res, send_vnid_deletion(c, v, res) PROVE ContextInv'
    <2>1. UNCHANGED <<live, count, hist>>
      BY <1>4 DEF send_vnid_deletion
    <2>2. UNCHANGED rtx
      BY <1>4 DEF send_vnid_deletion, dps_protocol_xmit
    <2> QED
      BY <1>3, <2>1, <2>2
  <1>5. ASSUME NEW c, NotSent(c) PROVE ContextInv'
    BY <1>3, <1>5 DEF NotSent
  <1>6. ASSUME NEW c, send_broadcast_table_to(c) PROVE ContextInv'
    BY <1>2, <1>5, <1>6, Zenon DEF send_broadcast_table_to, send_broadcast_table
  <1>7. ASSUME NEW c, NEW solicited \in BOOLEAN, send_policies_to(c, solicited)
        PROVE  ContextInv'
    BY <1>2, <1>5, <1>7, Zenon DEF send_policies_to, send_all_connectivity_policies
  <1>8. ASSUME NEW c, send_gateways_to(c) PROVE ContextInv'
    BY <1>2, <1>5, <1>8, Zenon DEF send_gateways_to, send_gateways
  <1>9. ASSUME NEW c, send_multicast_update_to(c) PROVE ContextInv'
    BY <1>2, <1>5, <1>9, Zenon DEF send_multicast_update_to, send_multicast_tunnels
  <1>10. ASSUME NEW c, NEW v, send_address_resolution_to(c, v) PROVE ContextInv'
    BY <1>2, <1>10, Zenon DEF send_address_resolution_to, send_address_resolution
  <1>11. ASSUME NEW c, send_endpoint_location_reply_to(c) PROVE ContextInv'
    BY <1>2, <1>11, Zenon DEF send_endpoint_location_reply_to, send_endpoint_reply
  <1>12. ASSUME NEW c, send_vm_migration_update_to(c) PROVE ContextInv'
    BY <1>2, <1>5, <1>12, Zenon DEF send_vm_migration_update_to, send_all_vm_migration_update
  <1>13. ASSUME NEW c, send_vnid_deletion_to(c) PROVE ContextInv'
    BY <1>4, <1>13 DEF send_vnid_deletion_to
  <1>14. ASSUME NEW c, SendOneHeartbeat(c) PROVE ContextInv'
    BY <1>2, <1>14, Zenon DEF SendOneHeartbeat, send_heartbeat
  <1>15. CASE SendNext
    BY <1>15, <1>6, <1>7, <1>8, <1>9, <1>10, <1>11, <1>12, <1>13, <1>14, Zenon DEF SendNext
  <1>16. CASE \E c \in Client : Policy_Updates_Send_To(c)
    BY <1>16, <1>7, Zenon DEF Policy_Updates_Send_To
  <1> QED
    BY <1>15, <1>16

----------------------------------------------------------------------------
(* Answers, and the end of the retransmissions                             *)

\* What becomes of the context of e.
Released(e) ==
  \/ /\ live' = live \ {e.id} /\ count' = count - 1 /\ hist' = hist
     /\ twice' = (e.id \notin live)
  \/ hist' = hist \cup {"inactive"} /\ UNCHANGED <<live, count, twice>>

LEMMA ReleaseIs ==
  ASSUME NEW e, NEW answered, dps_protocol_send_to_server(e, answered)
  PROVE  Released(e)
  BY DEF dps_protocol_send_to_server, dps_msg_general_ack, Note, Released

LEMMA ReleasedContext ==
  ASSUME Counting, ContextInv, ~ twice, NEW e \in Held, Released(e), Held' = Held \ {e},
         rtx' \subseteq rtx, expired' \subseteq expired
  PROVE  ContextInv'
  <1>1. /\ \A f \in Held' : Entry(f)
        /\ \A f, g \in Held' : f.id = g.id => f = g
        /\ rtx' \cap expired' = {}
    BY DEF ContextInv
  <1>2. \A f \in Held' : f.id # e.id
    BY DEF ContextInv
  <1>3. CASE hist' = hist \cup {"inactive"} /\ UNCHANGED <<live, count, twice>>
    BY <1>1, <1>3 DEF ContextInv
  <1>4. ASSUME live' = live \ {e.id}, count' = count - 1, hist' = hist,
               twice' = (e.id \notin live)
        PROVE  ContextInv'
    <2>1. twice' \in BOOLEAN /\ (twice' <=> e.id \notin live)
      BY <1>4, Zenon
    <2>2. twice' => "armed" \in hist'
      BY <1>4, <2>1 DEF ContextInv
    <2>3. "armed" \notin hist' => \A f \in Held' : f.id \in live'
      BY <1>2, <1>4 DEF ContextInv
    <2>4. "inactive" \notin hist' => \A i \in live' : \E f \in Held' : f.id = i
      BY <1>4 DEF ContextInv
    <2>5. IsFiniteSet(live') /\ count' \in Int
      <3>1. CASE e.id \in live
        BY <1>4, <3>1, SMT DEF ContextInv, Counting
      <3>2. CASE e.id \notin live
        <4>1. live' = live
          BY <1>4, <3>2
        <4>2. IsFiniteSet(live) /\ count \in Int
          BY DEF ContextInv
        <4>3. IsFiniteSet(live')
          BY <4>1, <4>2, Zenon
        <4> QED
          BY <1>4, <4>2, <4>3, SMT
      <3> QED
        BY <3>1, <3>2
    <2>6. ASSUME e.id \in live, "uncounted" \notin hist' PROVE count' = Cardinality(live')
      <3>1. count = Cardinality(live)
        BY <1>4, <2>6 DEF ContextInv
      <3>2. Cardinality(live') = Cardinality(live) - 1
        BY <1>4, <2>6, Zenon DEF ContextInv, Counting
      <3> QED
        BY <1>4, <3>1, <3>2
    <2> QED
      BY <1>1, <2>1, <2>2, <2>3, <2>4, <2>5, <2>6 DEF ContextInv
  <1> QED
    BY <1>3, <1>4 DEF Released

LEMMA ReceiveContext ==
  ASSUME Counting, ContextInv, ServerReceive
  PROVE  ContextInv'
  <1>1. ~ twice /\ UNCHANGED expired
    BY DEF ServerReceive, Locked
  <1>2. PICK m \in net : retransmit_timer_stop(m)
    BY DEF ServerReceive
  <1>3. CASE DeQueue(m.id) = {}
    <2>1. UNCHANGED <<rtx, live, count, twice, hist>>
      BY <1>2, <1>3 DEF retransmit_timer_stop
    <2> QED
      BY <1>1, <2>1, ContextSame
  <1>4. CASE DeQueue(m.id) # {}
    <2>1. PICK e \in DeQueue(m.id) : dps_protocol_send_to_server(e, TRUE)
      BY <1>2, <1>4, Zenon DEF retransmit_timer_stop
    <2>2. Released(e)
      BY <2>1, ReleaseIs, Zenon
    <2>3. e \in rtx /\ e.id = m.id
      BY <2>1 DEF DeQueue
    <2>4. DeQueue(m.id) = {e}
      BY <2>3, SMT DEF DeQueue, ContextInv, Held
    <2>5. rtx' = rtx \ {e}
      BY <1>2, <2>4 DEF retransmit_timer_stop
    <2>6. e \in Held /\ Held' = Held \ {e}
      BY <1>1, <2>3, <2>5, SMT DEF Held, ContextInv
    <2> QED
      BY <1>1, <2>2, <2>5, <2>6, ReleasedContext
  <1> QED
    BY <1>3, <1>4

LEMMA TimeoutContext ==
  ASSUME Counting, ContextInv, retransmit_timeout
  PROVE  ContextInv'
  <1>1. ~ twice /\ UNCHANGED rtx
    BY DEF retransmit_timeout, Locked
  <1>2. PICK e \in expired : expired' = expired \ {e} /\ dps_protocol_send_to_server(e, FALSE)
    BY Zenon DEF retransmit_timeout
  <1>3. Released(e)
    BY <1>2, ReleaseIs, Zenon
  <1>4. e \in Held /\ Held' = Held \ {e}
    BY <1>1, <1>2, SMT DEF Held, ContextInv
  <1> QED
    BY <1>1, <1>2, <1>3, <1>4, ReleasedContext

\* The timer takes nothing away and gives every entry to one side.
LEMMA RetransmitContext ==
  ASSUME ContextInv, RetransmitTimer
  PROVE  ContextInv'
  <1> DEFINE dec(e) == [e EXCEPT !.left = @ - 1]
             again == {x \in rtx : x.left > 0}
  <1>1. /\ expired = {} /\ UNCHANGED <<live, count, twice>> /\ hist \subseteq hist'
        /\ rtx' = {dec(e) : e \in again} /\ expired' = {e \in rtx : e.left = 0}
    BY DEF RetransmitTimer, Timer_Routine, Note
  <1>2. Held = rtx
    BY <1>1 DEF Held
  <1>3. ASSUME NEW e \in rtx
        PROVE  /\ e.left \in Nat /\ dec(e).id = e.id
               /\ e.left > 0 => Entry(dec(e))
    <2>1. e = [id |-> e.id, c |-> e.c, v |-> e.v, left |-> e.left] /\ e.left \in Nat
      BY <1>2 DEF ContextInv, Entry
    <2>2. dec(e) = [id |-> e.id, c |-> e.c, v |-> e.v, left |-> e.left - 1]
      BY <2>1, SMT
    <2>3. e.left > 0 => e.left - 1 \in Nat
      BY <2>1, SMT
    <2> HIDE DEF dec
    <2> QED
      BY <2>1, <2>2, <2>3, SMT DEF Entry
  <1>4. \A f \in Held' : Entry(f) /\ \E e \in rtx : e.id = f.id /\
           ((f = e /\ e.left = 0) \/ (f = dec(e) /\ e.left > 0))
    <2> SUFFICES ASSUME NEW f \in Held'
                 PROVE  Entry(f) /\ \E e \in rtx : e.id = f.id /\
                          ((f = e /\ e.left = 0) \/ (f = dec(e) /\ e.left > 0))
      OBVIOUS
    <2>1. CASE f \in rtx'
      <3>1. PICK e \in again : f = dec(e)
        BY <1>1, <2>1
      <3>2. e \in rtx /\ e.left > 0
        OBVIOUS
      <3> HIDE DEF dec, again
      <3> QED
        BY <1>3, <3>1, <3>2
    <2>2. CASE f \in expired'
      <3>1. f \in rtx /\ f.left = 0
        BY <1>1, <2>2
      <3> QED
        BY <1>2, <3>1 DEF ContextInv
    <2> QED
      BY <2>1, <2>2 DEF Held
  <1>5. \A f, g \in Held' : f.id = g.id => f = g
    <2> SUFFICES ASSUME NEW f \in Held', NEW g \in Held', f.id = g.id PROVE f = g
      OBVIOUS
    <2>1. PICK e \in rtx : e.id = f.id /\ ((f = e /\ e.left = 0) \/ (f = dec(e) /\ e.left > 0))
      BY <1>4
    <2>2. PICK h \in rtx : h.id = g.id /\ ((g = h /\ h.left = 0) \/ (g = dec(h) /\ h.left > 0))
      BY <1>4
    <2>3. e = h
      BY <1>2, <2>1, <2>2 DEF ContextInv
    <2>4. ~ (e.left = 0 /\ e.left > 0)
      BY SMT
    <2> QED
      BY <2>1, <2>2, <2>3, <2>4
  <1>6. rtx' \cap expired' = {}
    <2> SUFFICES ASSUME NEW f \in rtx', f \in expired' PROVE FALSE
      OBVIOUS
    <2>1. PICK e \in again : f = dec(e)
      BY <1>1
    <2>2. f \in rtx /\ f.left = 0 /\ e \in rtx /\ e.left > 0 /\ f.id = e.id
      BY <1>1, <1>3, <2>1, Zenon
    <2>3. f = e
      BY <1>2, <2>2 DEF ContextInv
    <2>4. ~ (e.left = 0 /\ e.left > 0)
      BY SMT
    <2> QED
      BY <2>2, <2>3, <2>4
  <1>7. ASSUME NEW e \in rtx PROVE \E f \in Held' : f.id = e.id
    <2>1. CASE e.left = 0
      BY <1>1, <2>1 DEF Held
    <2>2. CASE e.left > 0
      <3>1. dec(e) \in Held' /\ dec(e).id = e.id
        BY <1>1, <1>3, <2>2 DEF Held
      <3> QED
        BY <3>1, Zenon
    <2>3. e.left = 0 \/ e.left > 0
      <3>1. e.left \in Nat
        BY <1>3, Zenon
      <3> QED
        BY <3>1, SMT
    <2> QED
      BY <2>1, <2>2, <2>3
  <1> HIDE DEF dec, again
  <1>8. ~ twice' /\ "armed" \notin hist' => \A f \in Held' : f.id \in live'
    BY <1>1, <1>2, <1>4 DEF ContextInv
  <1>9. ~ twice' /\ "inactive" \notin hist' => \A i \in live' : \E f \in Held' : f.id = i
    <2> SUFFICES ASSUME ~ twice', "inactive" \notin hist', NEW i \in live'
                 PROVE  \E f \in Held' : f.id = i
      OBVIOUS
    <2>1. PICK e \in rtx : e.id = i
      BY <1>1, <1>2 DEF ContextInv
    <2> QED
      BY <1>7, <2>1
  <1>10. /\ IsFiniteSet(live') /\ count' \in Int /\ twice' \in BOOLEAN
         /\ twice' => "armed" \in hist'
         /\ ~ twice' /\ "uncounted" \notin hist' => count' = Cardinality(live')
    BY <1>1 DEF ContextInv
  <1>11. \A f \in Held' : Entry(f)
    BY <1>4
  <1> QED
    BY <1>5, <1>6, <1>8, <1>9, <1>10, <1>11 DEF ContextInv

LEMMA ContextKept == Counting /\ ContextInv /\ IdsSuffice /\ [UpdatesNext]_vars => ContextInv'
  <1> SUFFICES ASSUME Counting, ContextInv, IdsSuffice, [UpdatesNext]_vars PROVE ContextInv'
    OBVIOUS
  <1>1. ASSUME UNCHANGED <<rtx, expired, live, count, twice>>, hist \subseteq hist'
        PROVE  ContextInv'
    BY <1>1, ContextSame
  <1>2. CASE Protocol_Timer_Routine
    <2>1. UNCHANGED <<rtx, expired, live, count, twice>>
      BY <1>2 DEF Protocol_Timer_Routine
    <2>2. hist \subseteq hist'
      BY <1>2 DEF Protocol_Timer_Routine, Note
    <2> QED
      BY <1>1, <2>1, <2>2
  <1>3. CASE UpdateWorker \/ Change \/ SetActive \/ ClientReceive \/ Lose
    <2>1. UNCHANGED <<rtx, expired, live, count, twice, hist>>
      BY <1>3 DEF UpdateWorker, Change, SetActive, ClientReceive, Lose
    <2> QED
      BY <1>1, <2>1
  <1>4. CASE \/ \E c \in Client : TunnelGone(c) \/ ComeUp(c)
             \/ \E c \in member : GoDown(c)
             \/ \E v \in Ver : Address_Resolution_Resolve(v)
    <2>1. UNCHANGED <<rtx, expired, live, count, twice, hist>>
      BY <1>4, Zenon DEF TunnelGone, ComeUp, GoDown, Address_Resolution_Resolve
    <2> QED
      BY <1>1, <2>1
  <1>5. CASE UNCHANGED vars
    BY <1>1, <1>5 DEF vars
  <1> QED
    BY <1>2, <1>3, <1>4, <1>5, SendStep, ReceiveContext, TimeoutContext, RetransmitContext
       DEF UpdatesNext

----------------------------------------------------------------------------
(* The clients, their heartbeats and answers                               *)

LEMMA BlameIs ==
  ASSUME NEW clients, NEW causes, Blame(clients, causes)
  PROVE  /\ DOMAIN why' = Client
         /\ \A d \in Client : why[d] \subseteq why'[d]
         /\ \A d \in clients \cap Client : causes \subseteq why'[d]
  BY DEF Blame

\* A packet with a query id that no entry has
LEMMA PacketAdded ==
  ASSUME ClientsInv, IdsSuffice, NEW c, NEW v,
         net' = net \/ net' = net \cup {NewPacket(FreeId, c, v)},
         rtx' = rtx \/ rtx' = rtx \cup {NewEntry(FreeId, c, v)}
  PROVE  /\ \A m \in net' : Packet(m)
         /\ \A m \in net' : \A e \in rtx' : m.id = e.id => m.c = e.c
  <1> DEFINE i == FreeId
             p == NewPacket(i, c, v)
             e == NewEntry(i, c, v)
  <1>1. /\ \A f \in rtx : f.id # i
        /\ \A m \in net : m.id # i
    BY FreeIdIs DEF Held
  <1>2. p.id = i /\ p.c = c /\ Packet(p) /\ e.id = i /\ e.c = c
    BY DEF NewPacket, NewEntry, Packet
  <1>3. net' \subseteq net \cup {p} /\ rtx' \subseteq rtx \cup {e}
    OBVIOUS
  <1> HIDE DEF p, e, i
  <1> QED
    BY <1>1, <1>2, <1>3 DEF ClientsInv

LEMMA SendClients ==
  ASSUME ClientsInv, ContextInv, IdsSuffice,
         SendNext \/ \E c \in Client : Policy_Updates_Send_To(c)
  PROVE  ClientsInv'
  <1>1. UNCHANGED <<kind, active, member, silent>>
    BY Zenon DEF SendNext, Policy_Updates_Send_To
  <1> DEFINE Good == /\ \A m \in net' : Packet(m)
                     /\ \A m \in net' : \A e \in rtx' : m.id = e.id => m.c = e.c
             Known == DOMAIN why' = Client
  <1>2. ASSUME NEW c, NEW v, NEW wants \in BOOLEAN, NEW res, Unsolicited(c, v, wants, res)
        PROVE  Good
    <2>1. Sent(FreeId, c, v, res)
      BY <1>2, SendIs DEF ContextInv
    <2>2. /\ net' = net \/ net' = net \cup {NewPacket(FreeId, c, v)}
          /\ rtx' = rtx \/ rtx' = rtx \cup {NewEntry(FreeId, c, v)}
      BY <2>1 DEF Sent
    <2> QED
      BY <2>2, PacketAdded
  <1>3. ASSUME NEW c, NEW v, NEW res, send_vnid_deletion(c, v, res) PROVE Good
    <2>1. rtx' = rtx /\ (net' = net \/ net' = net \cup {NewPacket(FreeId, c, v)})
      BY <1>3 DEF send_vnid_deletion, dps_protocol_xmit, NewPacket
    <2> QED
      BY <2>1, PacketAdded
  <1>4. ASSUME NEW c, NotSent(c) PROVE Good /\ Known
    <2>1. UNCHANGED <<rtx, net>> /\ Known
      BY <1>4 DEF NotSent, Blame
    <2> QED
      BY <2>1 DEF ClientsInv
  <1>5. ASSUME NEW c, NEW v, NEW res, KeepForTimer(c, v, res) \/ Forget(c, res) PROVE Known
    BY <1>5 DEF KeepForTimer, Forget, Blame
  <1>6. UNCHANGED why => Known
    BY DEF ClientsInv
  <1> HIDE DEF Good, Known
  <1>7. ASSUME NEW c, send_broadcast_table_to(c) PROVE Good /\ Known
    BY <1>2, <1>4, <1>5, <1>7, Zenon DEF send_broadcast_table_to, send_broadcast_table
  <1>8. ASSUME NEW c, NEW solicited \in BOOLEAN, send_policies_to(c, solicited)
        PROVE  Good /\ Known
    BY <1>2, <1>4, <1>5, <1>6, <1>8, Zenon DEF send_policies_to, send_all_connectivity_policies
  <1>9. ASSUME NEW c, send_gateways_to(c) PROVE Good /\ Known
    BY <1>2, <1>4, <1>5, <1>9, Zenon DEF send_gateways_to, send_gateways
  <1>10. ASSUME NEW c, send_multicast_update_to(c) PROVE Good /\ Known
    BY <1>2, <1>4, <1>5, <1>10, Zenon DEF send_multicast_update_to, send_multicast_tunnels
  <1>11. ASSUME NEW c, NEW v, send_address_resolution_to(c, v) PROVE Good /\ Known
    BY <1>2, <1>5, <1>11, Zenon DEF send_address_resolution_to, send_address_resolution
  <1>12. ASSUME NEW c, send_endpoint_location_reply_to(c) PROVE Good /\ Known
    BY <1>2, <1>5, <1>12, Zenon DEF send_endpoint_location_reply_to, send_endpoint_reply
  <1>13. ASSUME NEW c, send_vm_migration_update_to(c) PROVE Good /\ Known
    BY <1>2, <1>4, <1>5, <1>13, Zenon DEF send_vm_migration_update_to, send_all_vm_migration_update
  <1>14. ASSUME NEW c, send_vnid_deletion_to(c) PROVE Good /\ Known
    BY <1>3, <1>5, <1>14 DEF send_vnid_deletion_to
  <1>15. ASSUME NEW c, SendOneHeartbeat(c) PROVE Good /\ Known
    <2>1. Known
      BY <1>15 DEF SendOneHeartbeat, Blame, Known
    <2> QED
      BY <1>2, <1>15, <2>1, Zenon DEF SendOneHeartbeat, send_heartbeat
  <1>16. CASE SendNext
    <2>1. Good /\ Known
      BY <1>16, <1>7, <1>8, <1>9, <1>10, <1>11, <1>12, <1>13, <1>14, <1>15, Zenon DEF SendNext
    <2> QED
      BY <1>1, <2>1 DEF ClientsInv, Good, Known
  <1>17. CASE \E c \in Client : Policy_Updates_Send_To(c)
    <2>1. Good /\ Known
      BY <1>17, <1>8, Zenon DEF Policy_Updates_Send_To
    <2> QED
      BY <1>1, <2>1 DEF ClientsInv, Good, Known
  <1> QED
    BY <1>16, <1>17

\* What the handlers do to the times and causes of the clients
LEMMA HandlerIs ==
  ASSUME ClientsInv, NEW e, NEW answered \in BOOLEAN, dps_protocol_send_to_server(e, answered)
  PROVE  silent' \in [Client -> Nat] /\ DOMAIN why' = Client
  <1>1. ASSUME NEW clients, NEW causes, Blame(clients, causes) PROVE DOMAIN why' = Client
    BY <1>1, BlameIs
  <1>2. CASE ~ active
    BY <1>1, <1>2 DEF dps_protocol_send_to_server, ClientsInv
  <1>3. CASE active
    <2>1. dps_msg_general_ack(e, answered)
      BY <1>3 DEF dps_protocol_send_to_server
    <2>2. CASE kind = "migration"
      BY <1>1, <2>1, <2>2 DEF dps_msg_general_ack, ClientsInv
    <2>3. CASE Handle_Resolution_Reply(e.c, e.v, answered)
      BY <1>1, <2>3, SMT DEF Handle_Resolution_Reply, ClientsInv
    <2>4. CASE Handle_Unsolicited_Message_Reply(e.c, e.v, answered)
      BY <1>1, <2>4, SMT DEF Handle_Unsolicited_Message_Reply, ClientsInv
    <2> QED
      BY <2>1, <2>2, <2>3, <2>4 DEF dps_msg_general_ack
  <1> QED
    BY <1>2, <1>3

LEMMA AnswerClients ==
  ASSUME ClientsInv, ServerReceive \/ retransmit_timeout
  PROVE  ClientsInv'
  <1>1. UNCHANGED <<kind, active, member>> /\ net' \subseteq net /\ rtx' \subseteq rtx
    BY Zenon DEF ServerReceive, retransmit_timeout, retransmit_timer_stop
  <1>2. silent' \in [Client -> Nat] /\ DOMAIN why' = Client
    BY HandlerIs, Zenon DEF ServerReceive, retransmit_timeout, retransmit_timer_stop, ClientsInv
  <1> QED
    BY <1>1, <1>2 DEF ClientsInv

LEMMA RetransmitClients ==
  ASSUME ClientsInv, ContextInv, RetransmitTimer
  PROVE  ClientsInv'
  <1> DEFINE dec(e) == [e EXCEPT !.left = @ - 1]
             again == {x \in rtx : x.left > 0}
  <1>1. /\ net' = net \cup {retransmit_data(e) : e \in again}
        /\ rtx' = {dec(e) : e \in again}
        /\ UNCHANGED <<kind, active, member, silent, why>>
    BY DEF RetransmitTimer, Timer_Routine
  <1>2. ASSUME NEW e \in rtx PROVE dec(e).id = e.id /\ dec(e).c = e.c
    <2>1. e = [id |-> e.id, c |-> e.c, v |-> e.v, left |-> e.left]
      BY DEF ContextInv, Entry, Held
    <2> QED
      BY <2>1
  <1>3. \A e : /\ Packet(retransmit_data(e))
               /\ retransmit_data(e).id = e.id /\ retransmit_data(e).c = e.c
    BY DEF retransmit_data, Packet
  <1> HIDE DEF dec
  <1>4. \A m \in net' : Packet(m)
    BY <1>1, <1>3 DEF ClientsInv
  <1>5. ASSUME NEW m \in net', NEW f \in rtx', m.id = f.id PROVE m.c = f.c
    <2>1. PICK e \in again : f = dec(e)
      BY <1>1
    <2>2. e \in rtx /\ f.id = e.id /\ f.c = e.c
      BY <1>2, <2>1
    <2>3. CASE m \in net
      BY <1>5, <2>2, <2>3 DEF ClientsInv
    <2>4. CASE m \notin net
      <3>1. PICK g \in again : m = retransmit_data(g)
        BY <1>1, <2>4
      <3>2. g \in rtx /\ m.id = g.id /\ m.c = g.c
        BY <1>3, <3>1
      <3>3. g = e
        BY <1>5, <2>2, <3>2 DEF ContextInv, Held
      <3> QED
        BY <2>2, <3>2, <3>3
    <2> QED
      BY <2>3, <2>4
  <1> QED
    BY <1>1, <1>4, <1>5 DEF ClientsInv

LEMMA ReceiveClients ==
  ASSUME ClientsInv, ClientReceive
  PROVE  ClientsInv'
  <1>1. PICK m \in net :
          /\ net' = (net \ {m}) \cup
                    (IF kind = "deletion" THEN {} ELSE {[m EXCEPT !.ack = TRUE]})
          /\ DOMAIN why' = DOMAIN why
    BY DEF ClientReceive
  <1>2. UNCHANGED <<kind, active, member, silent, rtx>>
    BY DEF ClientReceive
  <1> DEFINE a == [m EXCEPT !.ack = TRUE]
  <1>3. a.id = m.id /\ a.c = m.c /\ Packet(a)
    <2>1. m = [ack |-> m.ack, id |-> m.id, c |-> m.c, v |-> m.v]
      BY DEF ClientsInv, Packet
    <2>2. ASSUME NEW b PROVE [m EXCEPT !.ack = b] = [ack |-> b, id |-> m.id, c |-> m.c, v |-> m.v]
      BY <2>1, SMT
    <2>3. a = [ack |-> TRUE, id |-> m.id, c |-> m.c, v |-> m.v]
      BY <2>2, Zenon
    <2>4. a.id = m.id /\ a.c = m.c /\ a.v = m.v
      BY <2>3
    <2>5. a.ack = TRUE
      BY <2>3, Zenon
    <2> HIDE DEF a
    <2> QED
      BY <2>3, <2>4, <2>5, Zenon DEF Packet
  <1>4. net' \subseteq net \cup {a}
    BY <1>1
  <1> HIDE DEF a
  <1> QED
    BY <1>1, <1>2, <1>3, <1>4, SMT DEF ClientsInv

LEMMA TimerClients ==
  ASSUME ClientsInv, Protocol_Timer_Routine
  PROVE  ClientsInv'
  <1>1. UNCHANGED <<kind, active, net, rtx, why>>
    BY DEF Protocol_Timer_Routine
  <1>2. CASE Send_Heartbeat
    <2>1. member' \subseteq member
      BY <1>2 DEF Send_Heartbeat
    <2>2. silent' \in [Client -> Nat]
      <3>1. \A c \in Client : silent[c] + 1 \in Nat
        BY SMT DEF ClientsInv
      <3> QED
        BY <1>2, <3>1 DEF Send_Heartbeat
    <2> QED
      BY <1>1, <2>1, <2>2 DEF ClientsInv
  <1>3. CASE ~ Send_Heartbeat
    <2>1. UNCHANGED <<member, silent>>
      BY <1>3 DEF Protocol_Timer_Routine, Broadcast_Updates_Send, Policy_Updates_Send,
         Gateway_Updates_Send, Multicast_Updates_Send, Address_Resolution_Timeout
    <2> QED
      BY <1>1, <2>1 DEF ClientsInv
  <1> QED
    BY <1>2, <1>3

LEMMA OtherClients ==
  ASSUME ClientsInv,
         \/ UpdateWorker \/ Change \/ SetActive \/ Lose
         \/ \E c \in Client : TunnelGone(c) \/ ComeUp(c)
         \/ \E c \in member : GoDown(c)
         \/ \E v \in Ver : Address_Resolution_Resolve(v)
  PROVE  ClientsInv'
  <1>1. UNCHANGED <<kind, rtx, silent>> /\ net' \subseteq net
    BY Zenon DEF UpdateWorker, Change, SetActive, Lose, TunnelGone, ComeUp, GoDown,
           Address_Resolution_Resolve
  <1>2. kind = "heartbeat" => UNCHANGED active
    BY DEF UpdateWorker, Change, SetActive, Lose, TunnelGone, ComeUp, GoDown,
           Address_Resolution_Resolve
  <1>3. member' \subseteq member
    BY Zenon DEF UpdateWorker, Change, SetActive, Lose, TunnelGone, ComeUp, GoDown,
           Address_Resolution_Resolve, DPSClient_delete
  <1>4. DOMAIN why' = Client
    BY DEF ClientsInv, UpdateWorker, Change, SetActive, Lose, TunnelGone, ComeUp, GoDown,
           Address_Resolution_Resolve, Blame
  <1> QED
    BY <1>1, <1>2, <1>3, <1>4 DEF ClientsInv

LEMMA ClientsKept ==
  ContextInv /\ ClientsInv /\ IdsSuffice /\ [UpdatesNext]_vars => ClientsInv'
  <1> SUFFICES ASSUME ContextInv, ClientsInv, IdsSuffice, [UpdatesNext]_vars
               PROVE  ClientsInv'
    OBVIOUS
  <1>1. CASE UNCHANGED vars
    BY <1>1, Zenon DEF ClientsInv, vars
  <1> QED
    BY <1>1, SendClients, AnswerClients, RetransmitClients, ReceiveClients, TimerClients,
       OtherClients DEF UpdatesNext

\* A step that takes nothing from a client's duty
LEMMA DutySame ==
  ASSUME DutyInv, ClientsInv, UNCHANGED <<kind, silent>>, member' \subseteq member,
         hist \subseteq hist', loop \subseteq loop',
         \A c \in Client : why[c] \subseteq why'[c],
         \A c \in member : Awaited(c) => Awaited(c)' \/ Lapse \cap why'[c] # {}
  PROVE  DutyInv'
  <1> SUFFICES ASSUME kind = "heartbeat", "late" \notin hist', NEW c \in member'
               PROVE  \/ silent'[c] = 0 \/ silent'[c] < heartbeat_frequency
                      \/ Lapse \cap why'[c] # {}
                      \/ \E x \in loop' : x[1] = c
                      \/ Awaited(c)'
    BY DEF DutyInv
  <1>1. c \in member /\ c \in Client
    BY DEF ClientsInv
  <1>2. \/ silent[c] = 0 \/ silent[c] < heartbeat_frequency
        \/ Lapse \cap why[c] # {}
        \/ \E x \in loop : x[1] = c
        \/ Awaited(c)
    BY <1>1 DEF DutyInv
  <1> QED
    BY <1>1, <1>2

\* The loop's next heartbeat is sent, or its failure is noted.
LEMMA SendDuty ==
  ASSUME DutyInv, ClientsInv, ContextInv, IdsSuffice, kind = "heartbeat",
         SendNext \/ \E c \in Client : Policy_Updates_Send_To(c)
  PROVE  DutyInv'
  <1>1. SendNext
    BY DEF Policy_Updates_Send_To, send_policies_to
  <1>2. PICK x \in loop : loop' = loop \ {x} /\ SendOneHeartbeat(x[1])
    BY <1>1 DEF SendNext, send_broadcast_table_to, send_policies_to, send_gateways_to,
       send_multicast_update_to, send_address_resolution_to,
       send_endpoint_location_reply_to, send_vm_migration_update_to, send_vnid_deletion_to
  <1>3. UNCHANGED <<kind, silent, member>>
    BY <1>1 DEF SendNext
  <1> DEFINE d == x[1]
             i == FreeId
  <1>4. PICK res \in Result :
          /\ Unsolicited(d, 0, TRUE, res)
          /\ Blame({d}, IF res # "ok" THEN {"dropped"}
                        ELSE IF live' = live THEN {"bare"} ELSE {})
    BY <1>2, Zenon DEF SendOneHeartbeat, send_heartbeat
  <1>5. Sent(i, d, 0, res)
    BY <1>4, SendIs, Zenon DEF ContextInv
  <1>6. i \notin live
    BY FreeIdIs
  <1>7. /\ \A c \in Client : why[c] \subseteq why'[c]
        /\ d \in Client /\ res # "ok" => "dropped" \in why'[d]
        /\ d \in Client /\ res = "ok" /\ live' = live => "bare" \in why'[d]
    BY <1>4, BlameIs
  <1>8. \A c : Awaited(c) => Awaited(c)'
    BY <1>5 DEF Sent, Awaited
  <1>9. d \in Client => Lapse \cap why'[d] # {} \/ Awaited(d)'
    <2>1. CASE res # "ok" \/ live' = live
      BY <1>7, <2>1 DEF Lapse
    <2>2. CASE res = "ok" /\ live' # live
      <3>1. NewPacket(i, d, 0) \in net' /\ NewEntry(i, d, 0) \in rtx'
        BY <1>5, <2>2 DEF Sent
      <3>2. /\ NewPacket(i, d, 0).id = NewEntry(i, d, 0).id
            /\ NewPacket(i, d, 0).c = d /\ NewEntry(i, d, 0).c = d
        BY DEF NewPacket, NewEntry
      <3> QED
        BY <3>1, <3>2 DEF Awaited
    <2> QED
      BY <2>1, <2>2
  <1>10. hist \subseteq hist'
    BY <1>5 DEF Sent
  <1> SUFFICES ASSUME "late" \notin hist', NEW c \in member'
               PROVE  \/ silent'[c] = 0 \/ silent'[c] < heartbeat_frequency
                      \/ Lapse \cap why'[c] # {}
                      \/ \E y \in loop' : y[1] = c
                      \/ Awaited(c)'
    BY DEF DutyInv
  <1>11. c \in member /\ c \in Client
    BY <1>3 DEF ClientsInv
  <1>12. \/ silent[c] = 0 \/ silent[c] < heartbeat_frequency
         \/ Lapse \cap why[c] # {}
         \/ \E y \in loop : y[1] = c
         \/ Awaited(c)
    BY <1>10, <1>11 DEF DutyInv
  <1>13. ASSUME NEW y \in loop, y[1] = c
         PROVE  Lapse \cap why'[c] # {} \/ (\E z \in loop' : z[1] = c) \/ Awaited(c)'
    BY <1>2, <1>9, <1>11, <1>13
  <1> QED
    BY <1>3, <1>7, <1>8, <1>11, <1>12, <1>13

\* A round of the heartbeats starts when no answer is outstanding.
LEMMA RoundDuty ==
  ASSUME DutyInv, ClientsInv, kind = "heartbeat", Protocol_Timer_Routine
  PROVE  /\ DutyInv'
         /\ \A c \in member \ member' : Lapse \cap why[c] # {} \/ "late" \in hist'
  <1>1. loop = {} /\ UNCHANGED <<kind, why>> /\ Send_Heartbeat
    BY DEF Protocol_Timer_Routine, Locked, Broadcast_Updates_Send, Policy_Updates_Send,
       Gateway_Updates_Send, Multicast_Updates_Send, Address_Resolution_Timeout
  <1>2. "late" \in hist' \/ (net = {} /\ hist' = hist)
    BY DEF Protocol_Timer_Routine, NothingInFlight, Note
  <1> DEFINE s == [c \in Client |-> silent[c] + 1]
             gone == {c \in member : s[c] > heartbeat_no_contact}
             due == {c \in member \ gone : s[c] >= heartbeat_frequency}
  <1>3. /\ member' = member \ gone
        /\ silent' = [c \in Client |-> IF c \in member \ gone THEN s[c] ELSE 0]
        /\ loop' = {<<c, 0, "to">> : c \in due}
    BY <1>1 DEF Send_Heartbeat
  <1>4. \A c \in Client : silent[c] \in Nat /\ s[c] = silent[c] + 1 /\ s[c] \in Nat
    BY SMT DEF ClientsInv
  <1>5. member \subseteq Client
    BY DEF ClientsInv
  <1> HIDE DEF s
  <1>6. ASSUME NEW c \in member'
        PROVE  silent'[c] < heartbeat_frequency \/ \E x \in loop' : x[1] = c
    <2>1. c \in member \ gone /\ c \in Client /\ silent'[c] = s[c]
      BY <1>3, <1>5
    <2>2. CASE c \in due
      <3>1. <<c, 0, "to">> \in loop' /\ <<c, 0, "to">>[1] = c
        BY <1>3, <2>2
      <3> QED
        BY <3>1
    <2>3. CASE c \notin due
      <3>1. ~ (s[c] >= heartbeat_frequency)
        BY <2>1, <2>3
      <3> QED
        BY <1>4, <2>1, <3>1, UpdatesAssumption, SMT
    <2> QED
      BY <2>2, <2>3
  <1>7. DutyInv'
    BY <1>6 DEF DutyInv
  <1>8. ASSUME NEW c \in member \ member', "late" \notin hist'
        PROVE  Lapse \cap why[c] # {}
    <2>1. c \in gone /\ c \in Client
      BY <1>3, <1>5
    <2>2. s[c] > heartbeat_no_contact
      BY <2>1
    <2>3. silent[c] # 0 /\ ~ (silent[c] < heartbeat_frequency)
      BY <1>4, <2>1, <2>2, UpdatesAssumption, SMT
    <2>4. net = {} /\ "late" \notin hist
      BY <1>2, <1>8
    <2>5. ~ Awaited(c)
      BY <2>4 DEF Awaited
    <2> QED
      BY <1>1, <2>3, <2>4, <2>5 DEF DutyInv
  <1> QED
    BY <1>7, <1>8

\* An answer that finds its entry makes the client's time start again.
LEMMA AnswerDuty ==
  ASSUME DutyInv, ClientsInv, ContextInv, kind = "heartbeat", ServerReceive
  PROVE  DutyInv'
  <1>1. PICK m \in net : net' = net \ {m} /\ retransmit_timer_stop(m)
    BY DEF ServerReceive
  <1>2. UNCHANGED <<kind, member>> /\ active /\ loop = {}
    BY DEF ServerReceive, ClientsInv, Locked
  <1>3. rtx' = rtx \ DeQueue(m.id)
    BY <1>1 DEF retransmit_timer_stop
  <1>4. CASE DeQueue(m.id) = {}
    <2>1. UNCHANGED <<silent, loop, hist, why, rtx>>
      BY <1>1, <1>3, <1>4 DEF retransmit_timer_stop
    <2>2. \A c : Awaited(c) => Awaited(c)'
      BY <1>1, <1>4, <2>1 DEF Awaited, DeQueue
    <2> QED
      BY <1>2, <2>1, <2>2, DutySame
  <1>5. CASE DeQueue(m.id) # {}
    <2>1. PICK e \in DeQueue(m.id) : dps_protocol_send_to_server(e, TRUE)
      BY <1>1, <1>5, Zenon DEF retransmit_timer_stop
    <2>2. e \in rtx /\ e.id = m.id /\ DeQueue(m.id) = {e}
      BY <2>1, SMT DEF DeQueue, ContextInv, Held
    <2>3. dps_msg_general_ack(e, TRUE) /\ UNCHANGED hist
      BY <1>2, <2>1, Zenon DEF dps_protocol_send_to_server
    <2>4. Handle_Unsolicited_Message_Reply(e.c, e.v, TRUE)
      BY <2>3, Zenon DEF dps_msg_general_ack
    <2>5. UNCHANGED loop
      BY <2>4 DEF Handle_Unsolicited_Message_Reply
    <2>6. e.c \in member => silent' = [silent EXCEPT ![e.c] = 0] /\ why' = [why EXCEPT ![e.c] = {}]
      BY <2>4 DEF Handle_Unsolicited_Message_Reply
    <2>7. e.c \notin member => UNCHANGED <<silent, why>>
      BY <2>4 DEF Handle_Unsolicited_Message_Reply
    <2>8. ASSUME NEW c, c # e.c, Awaited(c) PROVE Awaited(c)'
      <3>1. PICK n \in net, f \in rtx : n.id = f.id /\ n.c = c /\ f.c = c
        BY <2>8 DEF Awaited
      <3>2. f # e /\ f \in rtx'
        BY <1>3, <2>2, <2>8, <3>1
      <3>3. f.id # e.id
        BY <2>2, <3>1, <3>2 DEF ContextInv, Held
      <3>4. n \in net'
        BY <1>1, <2>2, <3>1, <3>3
      <3> QED
        BY <3>1, <3>2, <3>4 DEF Awaited
    <2> SUFFICES ASSUME "late" \notin hist, NEW c \in member
                 PROVE  \/ silent'[c] = 0 \/ silent'[c] < heartbeat_frequency
                        \/ Lapse \cap why'[c] # {}
                        \/ Awaited(c)'
      BY <1>2, <2>3 DEF DutyInv
    <2>9. c \in Client /\ silent \in [Client -> Nat] /\ DOMAIN why = Client
      BY DEF ClientsInv
    <2>10. CASE c = e.c
      BY <2>6, <2>9, <2>10
    <2>11. CASE c # e.c
      <3>1. silent'[c] = silent[c]
        BY <2>6, <2>7, <2>9, <2>11
      <3>2. why'[c] = why[c]
        BY <2>6, <2>7, <2>9, <2>11
      <3>3. \/ silent[c] = 0 \/ silent[c] < heartbeat_frequency
            \/ Lapse \cap why[c] # {}
            \/ Awaited(c)
        BY <1>2 DEF DutyInv
      <3> QED
        BY <2>8, <2>11, <3>1, <3>2, <3>3
    <2> QED
      BY <2>10, <2>11
  <1> QED
    BY <1>4, <1>5

LEMMA TimeoutDuty ==
  ASSUME DutyInv, ClientsInv, kind = "heartbeat", retransmit_timeout
  PROVE  DutyInv'
  <1>1. PICK e \in expired : dps_protocol_send_to_server(e, FALSE)
    BY Zenon DEF retransmit_timeout
  <1>2. UNCHANGED <<kind, member, net, rtx>> /\ active /\ loop = {}
    BY DEF retransmit_timeout, ClientsInv, Locked
  <1>3. Handle_Unsolicited_Message_Reply(e.c, e.v, FALSE) /\ UNCHANGED hist
    BY <1>1, <1>2, Zenon DEF dps_protocol_send_to_server, dps_msg_general_ack
  <1>4. UNCHANGED silent
    BY <1>3 DEF Handle_Unsolicited_Message_Reply
  <1>5. \A c \in Client : why[c] \subseteq why'[c]
    <2>1. UNCHANGED why \/ Blame({e.c}, {"unreachable"})
      BY <1>3 DEF Handle_Unsolicited_Message_Reply
    <2> QED
      BY <2>1, BlameIs
  <1>6. \A c : Awaited(c) => Awaited(c)'
    BY <1>2 DEF Awaited
  <1> QED
    BY <1>2, <1>3, <1>4, <1>5, <1>6, DutySame

LEMMA RetransmitDuty ==
  ASSUME DutyInv, ClientsInv, kind = "heartbeat", RetransmitTimer
  PROVE  DutyInv'
  <1>1. UNCHANGED <<kind, silent, member, loop, why>> /\ hist \subseteq hist'
    BY DEF RetransmitTimer, Note
  <1>2. CASE net = {}
    <2>1. \A c : ~ Awaited(c)
      BY <1>2 DEF Awaited
    <2> QED
      BY <1>1, <2>1, DutySame
  <1>3. CASE net # {}
    <2>1. "late" \in hist'
      BY <1>3 DEF RetransmitTimer, Note, NothingInFlight
    <2> QED
      BY <2>1 DEF DutyInv
  <1> QED
    BY <1>2, <1>3

LEMMA ReceiveDuty ==
  ASSUME DutyInv, ClientsInv, kind = "heartbeat", ClientReceive
  PROVE  DutyInv'
  <1>1. PICK m \in net :
          /\ net' = (net \ {m}) \cup {[m EXCEPT !.ack = TRUE]}
          /\ why' = [why EXCEPT ![m.c] = @]
    BY Zenon DEF ClientReceive
  <1>2. UNCHANGED <<kind, silent, member, loop, rtx, hist>>
    BY DEF ClientReceive
  <1> DEFINE a == [m EXCEPT !.ack = TRUE]
  <1>3. a.id = m.id /\ a.c = m.c
    BY SMT DEF ClientsInv, Packet
  <1>4. a \in net' /\ net \ {m} \subseteq net'
    BY <1>1
  <1> HIDE DEF a
  <1>5. \A c : Awaited(c) => Awaited(c)'
    BY <1>2, <1>3, <1>4 DEF Awaited
  <1>6. \A c \in Client : why[c] \subseteq why'[c]
    BY <1>1 DEF ClientsInv
  <1> QED
    BY <1>2, <1>5, <1>6, DutySame

LEMMA LoseDuty ==
  ASSUME DutyInv, ClientsInv, kind = "heartbeat", Lose
  PROVE  DutyInv'
  <1>1. PICK m \in net : net' = net \ {m} /\ Blame({m.c}, {"missed"})
    BY Zenon DEF Lose
  <1>2. UNCHANGED <<kind, silent, member, loop, rtx, hist>>
    BY DEF Lose
  <1>3. /\ \A c \in Client : why[c] \subseteq why'[c]
        /\ m.c \in Client => "missed" \in why'[m.c]
    BY <1>1, BlameIs
  <1>4. ASSUME NEW c \in member, Awaited(c) PROVE Awaited(c)' \/ Lapse \cap why'[c] # {}
    <2>1. c \in Client
      BY DEF ClientsInv
    <2>2. CASE c = m.c
      BY <1>3, <2>1, <2>2 DEF Lapse
    <2>3. CASE c # m.c
      BY <1>1, <1>2, <1>4, <2>3 DEF Awaited
    <2> QED
      BY <2>2, <2>3
  <1> QED
    BY <1>2, <1>3, <1>4, DutySame

LEMMA OtherDuty ==
  ASSUME DutyInv, ClientsInv, kind = "heartbeat",
         \/ UpdateWorker \/ Change \/ SetActive
         \/ \E c \in Client : TunnelGone(c) \/ ComeUp(c)
         \/ \E c \in member : GoDown(c)
         \/ \E v \in Ver : Address_Resolution_Resolve(v)
         \/ UNCHANGED vars
  PROVE  DutyInv' /\ UNCHANGED member
  <1>1. UNCHANGED <<kind, silent, member, loop, rtx, hist, net, why>>
    BY Zenon DEF UpdateWorker, Change, SetActive, TunnelGone, ComeUp, GoDown,
           Address_Resolution_Resolve, vars
  <1>2. \A c : Awaited(c) => Awaited(c)'
    BY <1>1 DEF Awaited
  <1> QED
    BY <1>1, <1>2, DutySame

\* Only a round of the heartbeats deletes a client while heartbeats are sent.
LEMMA DutyKept ==
  ASSUME ContextInv, ClientsInv, DutyInv, IdsSuffice, [UpdatesNext]_vars
  PROVE  /\ DutyInv'
         /\ kind = "heartbeat" =>
              \A c \in member \ member' : Lapse \cap why[c] # {} \/ "late" \in hist'
  <1>0. UNCHANGED kind
    BY Zenon DEF UpdatesNext, vars, SendNext, Protocol_Timer_Routine, UpdateWorker, Change,
           SetActive, ServerReceive, RetransmitTimer, retransmit_timeout, ClientReceive, Lose,
           Policy_Updates_Send_To, TunnelGone, Address_Resolution_Resolve, GoDown, ComeUp
  <1>1. CASE kind # "heartbeat"
    BY <1>0, <1>1 DEF DutyInv
  <1>2. CASE kind = "heartbeat"
    <2>1. CASE SendNext \/ \E c \in Client : Policy_Updates_Send_To(c)
      <3>1. UNCHANGED member
        BY <2>1, Zenon DEF SendNext, Policy_Updates_Send_To
      <3> QED
        BY <1>2, <2>1, <3>1, SendDuty
    <2>2. CASE Protocol_Timer_Routine
      BY <1>2, <2>2, RoundDuty
    <2>3. CASE ServerReceive
      <3>1. UNCHANGED member
        BY <2>3 DEF ServerReceive
      <3> QED
        BY <1>2, <2>3, <3>1, AnswerDuty
    <2>4. CASE RetransmitTimer
      <3>1. UNCHANGED member
        BY <2>4 DEF RetransmitTimer
      <3> QED
        BY <1>2, <2>4, <3>1, RetransmitDuty
    <2>5. CASE retransmit_timeout
      <3>1. UNCHANGED member
        BY <2>5 DEF retransmit_timeout
      <3> QED
        BY <1>2, <2>5, <3>1, TimeoutDuty
    <2>6. CASE ClientReceive
      <3>1. UNCHANGED member
        BY <2>6 DEF ClientReceive
      <3> QED
        BY <1>2, <2>6, <3>1, ReceiveDuty
    <2>7. CASE Lose
      <3>1. UNCHANGED member
        BY <2>7 DEF Lose
      <3> QED
        BY <1>2, <2>7, <3>1, LoseDuty
    <2>8. CASE \/ UpdateWorker \/ Change \/ SetActive
               \/ \E c \in Client : TunnelGone(c) \/ ComeUp(c)
               \/ \E c \in member : GoDown(c)
               \/ \E v \in Ver : Address_Resolution_Resolve(v)
               \/ UNCHANGED vars
      BY <1>2, <2>8, OtherDuty
    <2> QED
      BY <2>1, <2>2, <2>3, <2>4, <2>5, <2>6, <2>7, <2>8 DEF UpdatesNext
  <1> QED
    BY <1>1, <1>2

LEMMA ContextsAreSound == ContextInv => ContextsSound
  <1> SUFFICES ASSUME ContextInv PROVE ContextsSound
    OBVIOUS
  <1>1. ContextReleasedOnce
    BY DEF ContextInv, ContextReleasedOnce
  <1>2. ASSUME ~ twice, "inactive" \notin hist
        PROVE  live \subseteq Ids(rtx) \cup Ids(expired)
    BY <1>2 DEF ContextInv, Held, Ids
  <1>3. ASSUME ~ twice, "uncounted" \notin hist PROVE count = Cardinality(live)
    BY <1>3 DEF ContextInv
  <1> QED
    BY <1>1, <1>2, <1>3 DEF ContextsSound, ContextsAccounted

----------------------------------------------------------------------------
(* The clients end with the last table                                     *)

\* What a client is to get: of the questions every one, of a table the last.
Wanted == IF kind = "resolve" THEN 1 .. ver ELSE {ver}

Has(c, v) == IF kind = "resolve" THEN v \in cli[c].seen ELSE cli[c].last = v

\* The call or the pending work x will send v to client c.
Carries(x, c, v) == x[1] = c /\ (kind = "resolve" => x[2] = v)

\* v is queued for every client or for c, kept for retransmission, or under way.
Coming(c, v) ==
  \/ work # {} /\ (kind = "resolve" => v \in work)
  \/ \E x \in pend : Carries(x, c, v)
  \/ \E x \in loop : Carries(x, c, v)
  \/ \E e \in Held : e.c = c /\ e.v = v
  \/ \E m \in net : ~ m.ack /\ m.c = c /\ m.v = v

\* Nothing is of a version that is still to come, and a datagram carries what
\* the entry with its query id says.
VersionInv ==
  /\ ver \in Nat /\ DOMAIN cli = Client
  /\ work \subseteq 0 .. ver
  /\ \A x \in pend \cup loop : x[1] \in Client /\ x[2] \in 0 .. ver
  /\ \A e \in Held : e.c \in Client /\ e.v \in 0 .. ver
  /\ \A m \in net : m.c \in Client /\ m.v \in 0 .. ver /\ m.ack \in BOOLEAN
  /\ \A m \in net : \A e \in rtx : m.id = e.id => m.v = e.v

\* An answer was given by a client that has what it answered for.
AnswerInv ==
  \A m \in net : m.ack /\ m.v \in Wanted => Has(m.c, m.v) \/ why[m.c] # {}

\* A client of the VNID has what it is to get, or it is coming, or something
\* has gone wrong.
CurrentInv ==
  kind # "heartbeat" =>
    /\ AnswerInv
    /\ \A c \in member, v \in Wanted : why[c] # {} \/ Has(c, v) \/ Coming(c, v)

\* A send of v to client c, with w the key of the work that is kept when it fails
Emitted(c, v, w) ==
  /\ net' = net \/ net' = net \cup {NewPacket(FreeId, c, v)}
  /\ rtx' = rtx \/ rtx' = rtx \cup {NewEntry(FreeId, c, v)}
  /\ pend' = pend \/ pend' = pend \cup {<<c, w>>}
  /\ \A d \in Client : why[d] \subseteq why'[d]

\* It is under way, kept for the timer, or its failure noted.
Served(c, v, w) ==
  \/ NewPacket(FreeId, c, v) \in net'
  \/ <<c, w>> \in pend'
  \/ c \in Client => why'[c] # {}

LEMMA UnsolicitedServes ==
  ASSUME ContextInv, NEW c, NEW v, NEW w, NEW wants \in BOOLEAN, NEW res,
         Unsolicited(c, v, wants, res),
         KeepForTimer(c, w, res) \/ Forget(c, res)
  PROVE  Emitted(c, v, w) /\ Served(c, v, w)
  <1>1. Sent(FreeId, c, v, res)
    BY SendIs DEF ContextInv
  <1>2. /\ net' = net \/ net' = net \cup {NewPacket(FreeId, c, v)}
        /\ rtx' = rtx \/ rtx' = rtx \cup {NewEntry(FreeId, c, v)}
        /\ res = "ok" => NewPacket(FreeId, c, v) \in net'
    BY <1>1 DEF Sent
  <1>3. \A d \in Client : why[d] \subseteq why'[d]
    BY BlameIs DEF KeepForTimer, Forget
  <1>4. pend' = pend \/ pend' = pend \cup {<<c, w>>}
    BY DEF KeepForTimer, Forget
  <1>5. ASSUME res # "ok" PROVE <<c, w>> \in pend' \/ (c \in Client => why'[c] # {})
    <2>1. CASE Forget(c, res)
      <3>1. Blame({c}, {"dropped"})
        BY <1>5, <2>1 DEF Forget
      <3> QED
        BY <3>1, BlameIs, SMT
    <2>2. CASE KeepForTimer(c, w, res)
      <3>1. <<c, w>> \in pend' \/ Blame({c}, {"limit"})
        BY <1>5, <2>2 DEF KeepForTimer
      <3> QED
        BY <3>1, BlameIs, SMT
    <2> QED
      BY <2>1, <2>2
  <1> QED
    BY <1>2, <1>3, <1>4, <1>5 DEF Emitted, Served

LEMMA NotSentServes ==
  ASSUME NEW c, NEW v, NEW w, NotSent(c)
  PROVE  Emitted(c, v, w) /\ Served(c, v, w)
  <1>1. UNCHANGED <<rtx, net, pend>> /\ Blame({c}, {"inactive"})
    BY DEF NotSent
  <1> QED
    BY <1>1, BlameIs DEF Emitted, Served

\* What the call x of a loop sends, and the key it is kept under
Value(x) == IF kind = "heartbeat" THEN 0 ELSE IF kind = "resolve" THEN x[2] ELSE ver
KeyOf(x) == IF kind = "resolve" THEN x[2] ELSE 0

LEMMA CallServes ==
  ASSUME ContextInv, SendNext
  PROVE  \E x \in loop :
           /\ loop' = loop \ {x}
           /\ Emitted(x[1], Value(x), KeyOf(x))
           /\ kind # "heartbeat" => Served(x[1], Value(x), KeyOf(x))
  <1>1. PICK x \in loop :
          /\ loop' = loop \ {x}
          /\ \/ send_broadcast_table_to(x[1])
             \/ send_policies_to(x[1], FALSE)
             \/ send_gateways_to(x[1])
             \/ send_multicast_update_to(x[1])
             \/ send_address_resolution_to(x[1], x[2])
             \/ send_endpoint_location_reply_to(x[1])
             \/ send_vm_migration_update_to(x[1])
             \/ send_vnid_deletion_to(x[1])
             \/ SendOneHeartbeat(x[1])
    BY Zenon DEF SendNext
  <1> DEFINE c == x[1]
             Good == /\ Emitted(c, Value(x), KeyOf(x))
                     /\ kind # "heartbeat" => Served(c, Value(x), KeyOf(x))
  <1>2. CASE send_broadcast_table_to(c)
    <2>1. Value(x) = ver /\ KeyOf(x) = 0
      BY <1>2 DEF send_broadcast_table_to, Value, KeyOf
    <2> QED
      BY <1>1, <1>2, <2>1, UnsolicitedServes, NotSentServes, Zenon
         DEF send_broadcast_table_to, send_broadcast_table
  <1>3. CASE send_policies_to(c, FALSE)
    <2>1. Value(x) = ver /\ KeyOf(x) = 0
      BY <1>3 DEF send_policies_to, Value, KeyOf
    <2>2. NotSent(c) \/ \E res \in Result : Unsolicited(c, ver, TRUE, res) /\ KeepForTimer(c, 0, res)
      BY <1>3, Zenon DEF send_policies_to, send_all_connectivity_policies
    <2> QED
      BY <1>1, <2>1, <2>2, UnsolicitedServes, NotSentServes, Zenon
  <1>4. CASE send_gateways_to(c)
    <2>1. Value(x) = ver /\ KeyOf(x) = 0
      BY <1>4 DEF send_gateways_to, Value, KeyOf
    <2> QED
      BY <1>1, <1>4, <2>1, UnsolicitedServes, NotSentServes, Zenon
         DEF send_gateways_to, send_gateways
  <1>5. CASE send_multicast_update_to(c)
    <2>1. Value(x) = ver /\ KeyOf(x) = 0
      BY <1>5 DEF send_multicast_update_to, Value, KeyOf
    <2> QED
      BY <1>1, <1>5, <2>1, UnsolicitedServes, NotSentServes, Zenon
         DEF send_multicast_update_to, send_multicast_tunnels
  <1>6. CASE send_address_resolution_to(c, x[2])
    <2>1. Value(x) = x[2] /\ KeyOf(x) = x[2]
      BY <1>6 DEF send_address_resolution_to, Value, KeyOf
    <2> QED
      BY <1>1, <1>6, <2>1, UnsolicitedServes, Zenon
         DEF send_address_resolution_to, send_address_resolution
  <1>7. CASE send_endpoint_location_reply_to(c)
    <2>1. Value(x) = ver /\ KeyOf(x) = 0
      BY <1>7 DEF send_endpoint_location_reply_to, Value, KeyOf
    <2> QED
      BY <1>1, <1>7, <2>1, UnsolicitedServes, Zenon
         DEF send_endpoint_location_reply_to, send_endpoint_reply
  <1>8. CASE send_vm_migration_update_to(c)
    <2>1. Value(x) = ver /\ KeyOf(x) = 0
      BY <1>8 DEF send_vm_migration_update_to, Value, KeyOf
    <2> QED
      BY <1>1, <1>8, <2>1, UnsolicitedServes, NotSentServes, Zenon
         DEF send_vm_migration_update_to, send_all_vm_migration_update
  <1>9. CASE send_vnid_deletion_to(c)
    <2>1. Value(x) = ver /\ KeyOf(x) = 0
      BY <1>9 DEF send_vnid_deletion_to, Value, KeyOf
    <2>2. PICK res \in Result : send_vnid_deletion(c, ver, res) /\ Forget(c, res)
      BY <1>9 DEF send_vnid_deletion_to
    <2>3. /\ rtx' = rtx
          /\ net' = net \/ net' = net \cup {NewPacket(FreeId, c, ver)}
          /\ res = "ok" => NewPacket(FreeId, c, ver) \in net'
      BY <2>2 DEF send_vnid_deletion, dps_protocol_xmit, NewPacket
    <2>4. pend' = pend /\ Blame({c}, IF res # "ok" THEN {"dropped"} ELSE {})
      BY <2>2 DEF Forget
    <2>5. /\ \A d \in Client : why[d] \subseteq why'[d]
          /\ res # "ok" => (c \in Client => why'[c] # {})
      BY <2>4, BlameIs, SMT
    <2> QED
      BY <1>1, <2>1, <2>3, <2>4, <2>5, Zenon DEF Emitted, Served
  <1>10. CASE SendOneHeartbeat(c)
    <2>1. kind = "heartbeat" /\ Value(x) = 0 /\ UNCHANGED pend
      BY <1>10 DEF SendOneHeartbeat, Value
    <2>2. PICK res \in Result : Unsolicited(c, 0, TRUE, res) /\ \E causes : Blame({c}, causes)
      BY <1>10, Zenon DEF SendOneHeartbeat, send_heartbeat
    <2>3. Sent(FreeId, c, 0, res)
      BY <2>2, SendIs, Zenon DEF ContextInv
    <2>4. \A d \in Client : why[d] \subseteq why'[d]
      BY <2>2, BlameIs
    <2>5. Emitted(c, 0, KeyOf(x))
      BY <2>1, <2>3, <2>4 DEF Sent, Emitted
    <2> QED
      BY <1>1, <2>1, <2>5
  <1> QED
    BY <1>1, <1>2, <1>3, <1>4, <1>5, <1>6, <1>7, <1>8, <1>9, <1>10, Zenon

\* The policies a client asked for
LEMMA RequestServes ==
  ASSUME ContextInv, NEW c \in Client, Policy_Updates_Send_To(c)
  PROVE  Emitted(c, ver, 0) /\ UNCHANGED loop
  <1>1. UNCHANGED loop /\ active /\ send_policies_to(c, TRUE)
    BY Zenon DEF Policy_Updates_Send_To
  <1>2. PICK res \in Result : Unsolicited(c, ver, FALSE, res) /\ UNCHANGED <<pend, why>>
    BY <1>1, Zenon DEF send_policies_to, send_all_connectivity_policies
  <1>3. Sent(FreeId, c, ver, res)
    BY <1>2, SendIs, Zenon DEF ContextInv
  <1> QED
    BY <1>1, <1>2, <1>3, Zenon DEF Sent, Emitted

\* The calls a handler leaves to be made, and what it notes
LEMMA HandlerServes ==
  ASSUME ClientsInv, NEW e, NEW answered \in BOOLEAN, dps_protocol_send_to_server(e, answered)
  PROVE  /\ loop' \in {loop, {}, To(e.c, 0), To(e.c, e.v), ToAll(0)}
         /\ answered => UNCHANGED loop
         /\ kind # "heartbeat" => \A d \in Client : why[d] \subseteq why'[d]
         /\ kind # "heartbeat" /\ ~ answered /\ e.c \in member =>
              why'[e.c] # {} \/ \E x \in loop' : Carries(x, e.c, e.v)
  <1>1. \A v : <<e.c, v, "to">> \in To(e.c, v)
    BY DEF To
  <1>2. e.c \in member => <<e.c, 0, "all">> \in ToAll(0)
    BY DEF ToAll
  <1>3. \A v, s : /\ kind # "resolve" => Carries(<<e.c, v, s>>, e.c, e.v)
                  /\ Carries(<<e.c, e.v, s>>, e.c, e.v)
    BY DEF Carries
  <1>4. member \subseteq Client
    BY DEF ClientsInv
  <1>5. ASSUME NEW causes, Blame({e.c}, causes), UNCHANGED loop,
               causes # {} \/ answered
        PROVE  /\ loop' \in {loop, {}, To(e.c, 0), To(e.c, e.v), ToAll(0)}
               /\ answered => UNCHANGED loop
               /\ \A d \in Client : why[d] \subseteq why'[d]
               /\ ~ answered /\ e.c \in member => why'[e.c] # {}
    BY <1>4, <1>5, BlameIs
  <1>6. CASE ~ active
    <2>1. Blame({e.c}, {"inactive"}) /\ UNCHANGED loop
      BY <1>6 DEF dps_protocol_send_to_server
    <2> QED
      BY <1>5, <2>1
  <1>7. CASE active
    <2>1. dps_msg_general_ack(e, answered)
      BY <1>7 DEF dps_protocol_send_to_server
    <2>2. CASE kind = "migration"
      <3>1. Blame({e.c}, IF answered THEN {} ELSE {"unanswered"}) /\ UNCHANGED loop
        BY <2>1, <2>2 DEF dps_msg_general_ack
      <3> QED
        BY <1>5, <3>1, Zenon
    <2>3. CASE Handle_Resolution_Reply(e.c, e.v, answered)
      <3>1. CASE e.c \notin member \/ answered
        BY <2>3, <3>1 DEF Handle_Resolution_Reply
      <3>2. CASE e.c \in member /\ ~ answered /\ fails[e.c] = 0
        <4>1. Blame({e.c}, {"unreachable"}) /\ UNCHANGED loop
          BY <2>3, <3>2 DEF Handle_Resolution_Reply
        <4> QED
          BY <1>5, <4>1, Zenon
      <3>3. CASE e.c \in member /\ ~ answered /\ fails[e.c] # 0
        <4>1. loop' = To(e.c, e.v) /\ UNCHANGED why
          BY <2>3, <3>3 DEF Handle_Resolution_Reply
        <4> QED
          BY <1>1, <1>3, <3>3, <4>1, Zenon
      <3> QED
        BY <3>1, <3>2, <3>3
    <2>4. CASE Handle_Unsolicited_Message_Reply(e.c, e.v, answered) /\ kind # "resolve"
      <3>1. CASE e.c \notin member \/ answered
        BY <2>4, <3>1 DEF Handle_Unsolicited_Message_Reply
      <3>2. CASE e.c \in member /\ ~ answered /\ fails[e.c] = 0
        <4>1. Blame({e.c}, {"unreachable"}) /\ UNCHANGED loop
          BY <2>4, <3>2 DEF Handle_Unsolicited_Message_Reply
        <4> QED
          BY <1>5, <4>1
      <3>3. CASE e.c \in member /\ ~ answered /\ fails[e.c] # 0
        <4>1. /\ UNCHANGED why
              /\ loop' = IF kind = "gateways" THEN ToAll(0)
                         ELSE IF kind = "heartbeat" THEN {} ELSE To(e.c, 0)
          BY <2>4, <3>3 DEF Handle_Unsolicited_Message_Reply
        <4> QED
          BY <1>1, <1>2, <1>3, <2>4, <3>3, <4>1, Zenon
      <3> QED
        BY <3>1, <3>2, <3>3
    <2> QED
      BY <2>1, <2>2, <2>3, <2>4, Zenon DEF dps_msg_general_ack
  <1> QED
    BY <1>6, <1>7, Zenon

\* The queues of calls hold clients and versions that exist.
InRange(q, n) == \A x \in q : x[1] \in Client /\ x[2] \in 0 .. n

LEMMA QueuesInRange ==
  ASSUME ClientsInv, NEW n \in Nat
  PROVE  /\ InRange({}, n)
         /\ \A c \in Client, v \in 0 .. n : InRange(To(c, v), n)
         /\ \A v \in 0 .. n : InRange(ToAll(v), n)
         /\ InRange(pend, n) => InRange(FromPending, n)
         /\ \A q, r : InRange(q, n) /\ InRange(r, n) => InRange(q \cup r, n)
         /\ \A q, r : InRange(q, n) /\ r \subseteq q => InRange(r, n)
         /\ \A m \in Nat : \A q : InRange(q, m) /\ m <= n => InRange(q, n)
  <1>1. \A c, v, s : <<c, v, s>>[1] = c /\ <<c, v, s>>[2] = v
    OBVIOUS
  <1>2. \A c \in Client, v \in 0 .. n : InRange(To(c, v), n)
    BY SMT DEF InRange, To
  <1>3. \A v \in 0 .. n : InRange(ToAll(v), n)
    BY SMT DEF InRange, ToAll, ClientsInv
  <1>4. InRange(pend, n) => InRange(FromPending, n)
    BY SMT DEF InRange, FromPending
  <1>5. \A m \in Nat : \A q : InRange(q, m) /\ m <= n => InRange(q, n)
    <2>1. \A m \in Nat : \A i \in 0 .. m : m <= n => i \in 0 .. n
      BY SMT
    <2> QED
      BY <2>1 DEF InRange
  <1>6. /\ InRange({}, n)
        /\ \A q, r : InRange(q, n) /\ InRange(r, n) => InRange(q \cup r, n)
        /\ \A q, r : InRange(q, n) /\ r \subseteq q => InRange(r, n)
    BY DEF InRange
  <1> QED
    BY <1>2, <1>3, <1>4, <1>5, <1>6

\* Nothing is added to the entries and the datagrams.
LEMMA VersionSame ==
  ASSUME VersionInv, ver' \in Nat, ver <= ver', DOMAIN cli' = Client,
         work' \subseteq 0 .. ver', InRange(pend', ver'), InRange(loop', ver'),
         Held' \subseteq Held, rtx' \subseteq rtx, net' \subseteq net
  PROVE  VersionInv'
  <1>1. ver \in Nat /\ \A i \in 0 .. ver : i \in 0 .. ver'
    BY SMT DEF VersionInv
  <1>2. \A x \in pend' \cup loop' : x[1] \in Client /\ x[2] \in 0 .. ver'
    BY DEF InRange
  <1>3. \A e \in Held' : e.c \in Client /\ e.v \in 0 .. ver'
    BY <1>1 DEF VersionInv
  <1>4. \A m \in net' : m.c \in Client /\ m.v \in 0 .. ver' /\ m.ack \in BOOLEAN
    BY <1>1 DEF VersionInv
  <1>5. \A m \in net' : \A e \in rtx' : m.id = e.id => m.v = e.v
    BY DEF VersionInv
  <1> QED
    BY <1>2, <1>3, <1>4, <1>5 DEF VersionInv

LEMMA SendVersion ==
  ASSUME VersionInv, IdsSuffice, NEW c \in Client, NEW v \in 0 .. ver, NEW w \in 0 .. ver,
         Emitted(c, v, w), loop' \subseteq loop, UNCHANGED <<ver, cli, work, expired>>
  PROVE  VersionInv'
  <1> DEFINE i == FreeId
             p == NewPacket(i, c, v)
             e == NewEntry(i, c, v)
  <1>1. /\ \A f \in rtx : f.id # i
        /\ \A m \in net : m.id # i
    BY FreeIdIs DEF Held
  <1>2. p.id = i /\ p.c = c /\ p.v = v /\ e.id = i /\ e.c = c /\ e.v = v
    BY DEF NewPacket, NewEntry
  <1>3. p.ack \in BOOLEAN
    BY Zenon DEF NewPacket
  <1>4. net' \subseteq net \cup {p} /\ rtx' \subseteq rtx \cup {e} /\ pend' \subseteq pend \cup {<<c, w>>}
    BY DEF Emitted
  <1>5. Held' \subseteq Held \cup {e}
    BY <1>4 DEF Held
  <1> HIDE DEF p, e, i
  <1>6. \A x \in pend' \cup loop' : x[1] \in Client /\ x[2] \in 0 .. ver
    <2>1. <<c, w>>[1] \in Client /\ <<c, w>>[2] \in 0 .. ver
      OBVIOUS
    <2>2. pend' \cup loop' \subseteq (pend \cup loop) \cup {<<c, w>>}
      BY <1>4
    <2> QED
      BY <2>1, <2>2 DEF VersionInv
  <1>7. \A f \in Held' : f.c \in Client /\ f.v \in 0 .. ver
    BY <1>2, <1>5 DEF VersionInv
  <1>8. \A m \in net' : m.c \in Client /\ m.v \in 0 .. ver /\ m.ack \in BOOLEAN
    BY <1>2, <1>3, <1>4 DEF VersionInv
  <1>9. \A m \in net' : \A f \in rtx' : m.id = f.id => m.v = f.v
    BY <1>1, <1>2, <1>4 DEF VersionInv
  <1> QED
    BY <1>6, <1>7, <1>8, <1>9 DEF VersionInv

LEMMA RetransmitVersion ==
  ASSUME VersionInv, ContextInv, RetransmitTimer
  PROVE  /\ VersionInv'
         /\ \A e \in Held : \E f \in Held' : f.c = e.c /\ f.v = e.v
         /\ net \subseteq net' /\ \A m \in net' : m.ack => m \in net
  <1> DEFINE dec(e) == [e EXCEPT !.left = @ - 1]
             again == {x \in rtx : x.left > 0}
  <1>1. /\ net' = net \cup {retransmit_data(e) : e \in again}
        /\ rtx' = {dec(e) : e \in again}
        /\ expired = {} /\ expired' = {e \in rtx : e.left = 0}
        /\ UNCHANGED <<ver, cli, work, pend, loop>>
    BY DEF RetransmitTimer, Timer_Routine
  <1>2. ASSUME NEW e \in rtx
        PROVE  dec(e).id = e.id /\ dec(e).c = e.c /\ dec(e).v = e.v /\ e.left \in Nat
    <2>1. e = [id |-> e.id, c |-> e.c, v |-> e.v, left |-> e.left] /\ e.left \in Nat
      BY DEF ContextInv, Entry, Held
    <2> QED
      BY <2>1
  <1>3. ASSUME NEW e
        PROVE  /\ retransmit_data(e).id = e.id /\ retransmit_data(e).c = e.c
               /\ retransmit_data(e).v = e.v
    BY DEF retransmit_data
  <1>4. \A e : ~ retransmit_data(e).ack /\ retransmit_data(e).ack \in BOOLEAN
    BY Zenon DEF retransmit_data
  <1> HIDE DEF dec
  <1>5. \A f \in Held' : \E e \in rtx : f.c = e.c /\ f.v = e.v
    BY <1>1, <1>2 DEF Held
  <1>6. \A e \in Held : \E f \in Held' : f.c = e.c /\ f.v = e.v
    <2> SUFFICES ASSUME NEW e \in Held PROVE \E f \in Held' : f.c = e.c /\ f.v = e.v
      OBVIOUS
    <2>1. e \in rtx
      BY <1>1 DEF Held
    <2>2. e.left = 0 \/ e.left > 0
      <3>1. e.left \in Nat
        BY <1>2, <2>1
      <3> QED
        BY <3>1, SMT
    <2>3. CASE e.left = 0
      BY <1>1, <2>1, <2>3 DEF Held
    <2>4. CASE e.left > 0
      <3>1. dec(e) \in Held'
        BY <1>1, <2>1, <2>4 DEF Held
      <3> QED
        BY <1>2, <2>1, <3>1
    <2> QED
      BY <2>2, <2>3, <2>4
  <1>7. \A e \in rtx : e.c \in Client /\ e.v \in 0 .. ver
    BY DEF VersionInv, Held
  <1>8. \A m \in net' : m.c \in Client /\ m.v \in 0 .. ver /\ m.ack \in BOOLEAN
    BY <1>1, <1>3, <1>4, <1>7, SMT DEF VersionInv
  <1>9. ASSUME NEW m \in net', NEW f \in rtx', m.id = f.id PROVE m.v = f.v
    <2>1. PICK e \in again : f = dec(e)
      BY <1>1
    <2>2. e \in rtx /\ f.id = e.id /\ f.v = e.v
      BY <1>2, <2>1
    <2>3. CASE m \in net
      BY <1>9, <2>2, <2>3 DEF VersionInv
    <2>4. CASE m \notin net
      <3>1. PICK g \in again : m = retransmit_data(g)
        BY <1>1, <2>4
      <3>2. g \in rtx /\ m.id = g.id /\ m.v = g.v
        BY <1>3, <3>1
      <3>3. g = e
        BY <1>9, <2>2, <3>2 DEF ContextInv, Held
      <3> QED
        BY <2>2, <3>2, <3>3
    <2> QED
      BY <2>3, <2>4
  <1>10. net \subseteq net' /\ \A m \in net' : m.ack => m \in net
    BY <1>1, <1>4
  <1>11. \A e \in Held' : e.c \in Client /\ e.v \in 0 .. ver
    BY <1>5, <1>7
  <1>12. VersionInv'
    BY <1>1, <1>8, <1>9, <1>11 DEF VersionInv
  <1> QED
    BY <1>6, <1>10, <1>12

\* The client's answer names what it was sent.
LEMMA ReceiveIs ==
  ASSUME VersionInv, ClientsInv, ClientReceive
  PROVE  \E m \in net : \E a :
           /\ ~ m.ack /\ a.ack /\ a.ack \in BOOLEAN
           /\ a.id = m.id /\ a.c = m.c /\ a.v = m.v
           /\ net \ {m} \subseteq net' /\ net' \subseteq (net \ {m}) \cup {a}
           /\ DOMAIN cli' = Client
           /\ \A c \in Client \ {m.c} : cli'[c] = cli[c] /\ why'[c] = why[c]
           /\ cli'[m.c].last = m.v /\ cli'[m.c].seen = cli[m.c].seen \cup {m.v}
           /\ kind = "resolve" => why'[m.c] = why[m.c]
           /\ kind \notin {"resolve", "heartbeat"} /\ m.v # ver =>
                why[m.c] \subseteq why'[m.c] /\ (m.v < cli[m.c].last => why'[m.c] # {})
  <1>1. PICK m \in net :
          /\ ~ m.ack
          /\ net' = (net \ {m}) \cup
                    (IF kind = "deletion" THEN {} ELSE {[m EXCEPT !.ack = TRUE]})
          /\ cli' = [cli EXCEPT ![m.c] = [last |-> m.v, seen |-> @.seen \cup {m.v}]]
          /\ why' = [why EXCEPT ![m.c] =
                      IF kind \in {"resolve", "heartbeat"} THEN @
                      ELSE IF m.v = ver THEN {}
                      ELSE IF m.v < cli[m.c].last THEN @ \cup {"older"} ELSE @]
    BY Zenon DEF ClientReceive
  <1> DEFINE a == [m EXCEPT !.ack = TRUE]
  <1>2. a.id = m.id /\ a.c = m.c /\ a.v = m.v /\ a.ack = TRUE
    <2>1. m = [ack |-> m.ack, id |-> m.id, c |-> m.c, v |-> m.v]
      BY DEF ClientsInv, Packet
    <2>2. ASSUME NEW b PROVE [m EXCEPT !.ack = b] = [ack |-> b, id |-> m.id, c |-> m.c, v |-> m.v]
      BY <2>1, SMT
    <2>3. a = [ack |-> TRUE, id |-> m.id, c |-> m.c, v |-> m.v]
      BY <2>2, Zenon
    <2>4. a.id = m.id /\ a.c = m.c /\ a.v = m.v
      BY <2>3
    <2>5. a.ack = TRUE
      BY <2>3, Zenon
    <2> QED
      BY <2>4, <2>5
  <1>3. net \ {m} \subseteq net' /\ net' \subseteq (net \ {m}) \cup {a}
    BY <1>1
  <1> HIDE DEF a
  <1>4. a.ack /\ a.ack \in BOOLEAN
    BY <1>2, Zenon
  <1>5. m.c \in Client /\ DOMAIN cli = Client /\ DOMAIN why = Client
    BY DEF VersionInv, ClientsInv
  <1>6. /\ DOMAIN cli' = Client
        /\ \A c \in Client \ {m.c} : cli'[c] = cli[c]
        /\ cli'[m.c].last = m.v /\ cli'[m.c].seen = cli[m.c].seen \cup {m.v}
    BY <1>1, <1>5
  <1>7. \A c \in Client \ {m.c} : why'[c] = why[c]
    BY <1>1, <1>5
  <1>8. kind = "resolve" => why'[m.c] = why[m.c]
    BY <1>1, <1>5
  <1>9. kind \notin {"resolve", "heartbeat"} /\ m.v # ver =>
          why[m.c] \subseteq why'[m.c] /\ (m.v < cli[m.c].last => why'[m.c] # {})
    BY <1>1, <1>5
  <1> QED
    BY <1>1, <1>2, <1>3, <1>4, <1>6, <1>7, <1>8, <1>9, Zenon

LEMMA ReceiveVersion ==
  ASSUME VersionInv, ClientsInv, ClientReceive
  PROVE  VersionInv'
  <1>1. PICK m \in net : \E a :
          /\ a.ack \in BOOLEAN /\ a.id = m.id /\ a.c = m.c /\ a.v = m.v
          /\ net' \subseteq (net \ {m}) \cup {a}
          /\ DOMAIN cli' = Client
    BY ReceiveIs
  <1>2. PICK a :
          /\ a.ack \in BOOLEAN /\ a.id = m.id /\ a.c = m.c /\ a.v = m.v
          /\ net' \subseteq (net \ {m}) \cup {a}
    BY <1>1
  <1>3. UNCHANGED <<ver, work, pend, loop, rtx, expired>> /\ Held' = Held
    BY DEF ClientReceive, Held
  <1>4. \A n \in net' : n.c \in Client /\ n.v \in 0 .. ver /\ n.ack \in BOOLEAN
    BY <1>2 DEF VersionInv
  <1>5. \A n \in net' : \A e \in rtx : n.id = e.id => n.v = e.v
    BY <1>2 DEF VersionInv
  <1> QED
    BY <1>1, <1>3, <1>4, <1>5 DEF VersionInv

LEMMA TimerVersion ==
  ASSUME VersionInv, ClientsInv, Protocol_Timer_Routine
  PROVE  VersionInv'
  <1>1. UNCHANGED <<ver, cli, rtx, expired, net>> /\ Held' = Held
    BY DEF Protocol_Timer_Routine, Held
  <1>2. /\ ver \in Nat /\ 0 \in 0 .. ver /\ DOMAIN cli = Client /\ work \subseteq 0 .. ver
        /\ InRange(pend, ver) /\ InRange(loop, ver)
    BY SMT DEF VersionInv, InRange
  <1>3. /\ InRange({}, ver) /\ InRange(FromPending, ver) /\ InRange(ToAll(0), ver)
        /\ InRange(FromPending \cup ToAll(0), ver)
    BY <1>2, QueuesInRange
  <1>4. work' \subseteq work /\ (pend' = pend \/ pend' = {})
    BY DEF Protocol_Timer_Routine, Broadcast_Updates_Send, Policy_Updates_Send,
           Gateway_Updates_Send, Multicast_Updates_Send, Address_Resolution_Timeout,
           Send_Heartbeat
  <1>5. InRange(loop', ver)
    <2>1. CASE Send_Heartbeat
      <3>1. \A x \in loop' : \E c \in member : x = <<c, 0, "to">>
        BY <2>1, Zenon DEF Send_Heartbeat
      <3>2. \A c \in member : <<c, 0, "to">>[1] \in Client /\ <<c, 0, "to">>[2] = 0
        BY DEF ClientsInv
      <3> QED
        BY <1>2, <3>1, <3>2 DEF InRange
    <2>2. CASE ~ Send_Heartbeat
      <3>1. loop' \in {loop, FromPending, FromPending \cup {}, FromPending \cup ToAll(0)}
        BY <2>2 DEF Protocol_Timer_Routine, Broadcast_Updates_Send, Policy_Updates_Send,
           Gateway_Updates_Send, Multicast_Updates_Send, Address_Resolution_Timeout
      <3>2. FromPending \cup {} = FromPending
        OBVIOUS
      <3> QED
        BY <1>2, <1>3, <3>1, <3>2
    <2> QED
      BY <2>1, <2>2
  <1>6. ver <= ver
    BY <1>2, SMT
  <1> QED
    BY <1>1, <1>2, <1>3, <1>4, <1>5, <1>6, VersionSame

LEMMA AnswerVersion ==
  ASSUME VersionInv, ClientsInv, ServerReceive \/ retransmit_timeout
  PROVE  VersionInv'
  <1>1. /\ UNCHANGED <<ver, cli, work, pend>>
        /\ rtx' \subseteq rtx /\ expired' \subseteq expired /\ net' \subseteq net
    BY Zenon DEF ServerReceive, retransmit_timeout, retransmit_timer_stop
  <1>2. Held' \subseteq Held
    BY <1>1 DEF Held
  <1>3. /\ ver \in Nat /\ 0 \in 0 .. ver /\ ver <= ver /\ DOMAIN cli = Client
        /\ work \subseteq 0 .. ver /\ InRange(pend, ver) /\ InRange(loop, ver)
    BY SMT DEF VersionInv, InRange
  <1>4. ASSUME NEW e \in Held, NEW answered \in BOOLEAN, dps_protocol_send_to_server(e, answered)
        PROVE  InRange(loop', ver)
    <2>1. loop' \in {loop, {}, To(e.c, 0), To(e.c, e.v), ToAll(0)}
      BY <1>4, HandlerServes
    <2>2. e.c \in Client /\ e.v \in 0 .. ver
      BY DEF VersionInv
    <2> QED
      BY <1>3, <2>1, <2>2, QueuesInRange
  <1>5. CASE ServerReceive
    <2>1. PICK m \in net : retransmit_timer_stop(m)
      BY <1>5 DEF ServerReceive
    <2>2. UNCHANGED loop \/ \E e \in DeQueue(m.id) : dps_protocol_send_to_server(e, TRUE)
      BY <2>1, Zenon DEF retransmit_timer_stop
    <2>3. DeQueue(m.id) \subseteq Held
      BY DEF DeQueue, Held
    <2>4. InRange(loop', ver)
      BY <1>3, <1>4, <2>2, <2>3, Zenon
    <2> QED
      BY <1>1, <1>2, <1>3, <2>4, VersionSame
  <1>6. CASE retransmit_timeout
    <2>1. PICK e \in expired : dps_protocol_send_to_server(e, FALSE)
      BY <1>6, Zenon DEF retransmit_timeout
    <2>2. InRange(loop', ver)
      BY <1>4, <2>1, Zenon DEF Held
    <2> QED
      BY <1>1, <1>2, <1>3, <2>2, VersionSame
  <1> QED
    BY <1>5, <1>6

LEMMA OtherVersion ==
  ASSUME VersionInv, ClientsInv,
         \/ UpdateWorker \/ Change \/ SetActive \/ Lose
         \/ \E c \in Client : TunnelGone(c) \/ ComeUp(c)
         \/ \E c \in member : GoDown(c)
         \/ \E v \in Ver : Address_Resolution_Resolve(v)
  PROVE  VersionInv'
  <1>1. UNCHANGED <<cli, rtx, expired>> /\ net' \subseteq net /\ Held' = Held
    BY Zenon DEF UpdateWorker, Change, SetActive, Lose, TunnelGone, ComeUp, GoDown,
           Address_Resolution_Resolve, Held
  <1>2. /\ ver \in Nat /\ ver <= ver /\ DOMAIN cli = Client
        /\ work \subseteq 0 .. ver /\ InRange(pend, ver) /\ InRange(loop, ver)
    BY SMT DEF VersionInv, InRange
  <1>3. pend' \subseteq pend
    BY Zenon DEF UpdateWorker, Change, SetActive, Lose, TunnelGone, ComeUp, GoDown,
           Address_Resolution_Resolve, DPSClient_delete
  <1>4. CASE UpdateWorker
    <2>1. PICK v \in work : work' = work \ {v} /\ loop' = ToAll(v)
      BY <1>4 DEF UpdateWorker
    <2>2. UNCHANGED ver /\ InRange(loop', ver)
      BY <1>2, <1>4, <2>1, QueuesInRange DEF UpdateWorker
    <2> QED
      BY <1>1, <1>2, <1>3, <2>1, <2>2, QueuesInRange, VersionSame
  <1>5. CASE Change \/ \E c \in Client : TunnelGone(c)
    <2>1. ver' = ver + 1
      BY <1>5 DEF Change, TunnelGone
    <2>2. ver' \in Nat /\ ver <= ver' /\ {0, ver'} \subseteq 0 .. ver'
          /\ work \subseteq 0 .. ver'
      BY <1>2, <2>1, SMT
    <2>3. work' \subseteq work \cup {0, ver'}
      BY <1>5, SMT DEF Change, TunnelGone, Keyed
    <2>4. loop' = loop \/ loop' = ToAll(ver')
      BY <1>5 DEF Change, TunnelGone
    <2>5. InRange(loop, ver') /\ InRange(pend, ver') /\ InRange(ToAll(ver'), ver')
      BY <1>2, <2>2, QueuesInRange
    <2>6. InRange(loop', ver') /\ InRange(pend', ver')
      BY <1>3, <2>2, <2>4, <2>5, QueuesInRange
    <2> QED
      BY <1>1, <1>2, <2>2, <2>3, <2>6, VersionSame
  <1>6. CASE UNCHANGED <<ver, work, loop>>
    BY <1>1, <1>2, <1>3, <1>6, QueuesInRange, VersionSame
  <1>7. \/ UpdateWorker \/ Change \/ \E c \in Client : TunnelGone(c)
        \/ UNCHANGED <<ver, work, loop>>
    BY Zenon DEF SetActive, Lose, ComeUp, GoDown, Address_Resolution_Resolve
  <1> QED
    BY <1>4, <1>5, <1>6, <1>7

LEMMA SendsVersion ==
  ASSUME VersionInv, ContextInv, IdsSuffice,
         SendNext \/ \E c \in Client : Policy_Updates_Send_To(c)
  PROVE  VersionInv'
  <1>1. UNCHANGED <<ver, cli, work, expired>>
    BY Zenon DEF SendNext, Policy_Updates_Send_To
  <1>2. ver \in Nat /\ 0 \in 0 .. ver /\ ver \in 0 .. ver
    BY SMT DEF VersionInv
  <1>3. CASE SendNext
    <2>1. PICK x \in loop : loop' = loop \ {x} /\ Emitted(x[1], Value(x), KeyOf(x))
      BY <1>3, CallServes
    <2>2. x[1] \in Client /\ x[2] \in 0 .. ver
      BY DEF VersionInv
    <2>3. Value(x) \in 0 .. ver /\ KeyOf(x) \in 0 .. ver
      BY <1>2, <2>2 DEF Value, KeyOf
    <2>4. loop' \subseteq loop
      BY <2>1
    <2> QED
      BY <1>1, <2>1, <2>2, <2>3, <2>4, SendVersion
  <1>4. CASE \E c \in Client : Policy_Updates_Send_To(c)
    <2>1. PICK c \in Client : Emitted(c, ver, 0) /\ UNCHANGED loop
      BY <1>4, RequestServes
    <2> QED
      BY <1>1, <1>2, <2>1, SendVersion
  <1> QED
    BY <1>3, <1>4

LEMMA VersionKept ==
  VersionInv /\ ClientsInv /\ ContextInv /\ IdsSuffice /\ [UpdatesNext]_vars => VersionInv'
  <1> SUFFICES ASSUME VersionInv, ClientsInv, ContextInv, IdsSuffice, [UpdatesNext]_vars
               PROVE  VersionInv'
    OBVIOUS
  <1>1. CASE UNCHANGED vars
    BY <1>1 DEF vars, VersionInv, Held
  <1> QED
    BY <1>1, TimerVersion, AnswerVersion, OtherVersion, SendsVersion, RetransmitVersion,
       ReceiveVersion DEF UpdatesNext

LEMMA VersionInit == UpdatesInit => VersionInv /\ CurrentInv
  <1> SUFFICES ASSUME UpdatesInit PROVE VersionInv /\ CurrentInv
    OBVIOUS
  <1>1. /\ work = {} /\ pend = {} /\ loop = {} /\ rtx = {} /\ expired = {} /\ net = {}
        /\ cli = [c \in Client |-> [last |-> ver, seen |-> 0 .. ver]]
    BY DEF UpdatesInit
  <1>2. ver \in 0 .. MaxVer /\ member \subseteq Client
    BY UpdatesAssumption DEF UpdatesInit
  <1>3. ver \in Nat
    BY <1>2, UpdatesAssumption, SMT
  <1>4. VersionInv
    <2>1. Held = {} /\ pend \cup loop = {} /\ DOMAIN cli = Client
      BY <1>1 DEF Held
    <2>2. work \subseteq 0 .. ver
      BY <1>1
    <2> QED
      BY <1>1, <1>3, <2>1, <2>2, Zenon DEF VersionInv
  <1>5. \A c \in member, v \in Wanted : Has(c, v)
    BY <1>1, <1>2, <1>3, SMT DEF Wanted, Has
  <1>6. CurrentInv
    BY <1>1, <1>5 DEF CurrentInv, AnswerInv
  <1> QED
    BY <1>4, <1>6

\* What a step must leave when neither the tables nor the clients' copies change
LEMMA CurrentSame ==
  ASSUME CurrentInv, ClientsInv, VersionInv, kind # "heartbeat", UNCHANGED <<kind, ver, cli>>,
         member' \subseteq member, \A d \in Client : why[d] \subseteq why'[d],
         \A m \in net' : m.ack => m \in net,
         \A c \in member', v \in Wanted :
           Coming(c, v) => Coming(c, v)' \/ Has(c, v) \/ why'[c] # {}
  PROVE  CurrentInv'
  <1>1. Wanted' = Wanted /\ \A c, v : Has(c, v)' <=> Has(c, v)
    BY DEF Wanted, Has
  <1>2. \A d \in Client : why[d] # {} => why'[d] # {}
    OBVIOUS
  <1>3. ASSUME NEW m \in net', m.ack, m.v \in Wanted
        PROVE  Has(m.c, m.v) \/ why'[m.c] # {}
    <2>1. m \in net
      BY <1>3
    <2>2. Has(m.c, m.v) \/ why[m.c] # {}
      BY <1>3, <2>1 DEF CurrentInv, AnswerInv
    <2>3. m.c \in Client
      BY <2>1 DEF VersionInv
    <2> QED
      BY <1>2, <2>2, <2>3
  <1>4. AnswerInv'
    BY <1>1, <1>3 DEF AnswerInv
  <1>5. ASSUME NEW c \in member', NEW v \in Wanted
        PROVE  why'[c] # {} \/ Has(c, v) \/ Coming(c, v)'
    <2>1. c \in member /\ c \in Client
      BY DEF ClientsInv
    <2>2. why[c] # {} \/ Has(c, v) \/ Coming(c, v)
      BY <2>1 DEF CurrentInv
    <2> QED
      BY <1>2, <2>1, <2>2, Zenon
  <1> QED
    BY <1>1, <1>4, <1>5, Zenon DEF CurrentInv

LEMMA SendsCurrent ==
  ASSUME CurrentInv, ClientsInv, VersionInv, ContextInv, kind # "heartbeat",
         SendNext \/ \E c \in Client : Policy_Updates_Send_To(c)
  PROVE  CurrentInv'
  <1>1. UNCHANGED <<kind, ver, cli, member, work, expired>>
    BY Zenon DEF SendNext, Policy_Updates_Send_To
  <1>2. ASSUME NEW c, NEW v, NEW w, Emitted(c, v, w)
        PROVE  /\ net \subseteq net' /\ Held \subseteq Held' /\ pend \subseteq pend'
               /\ \A d \in Client : why[d] \subseteq why'[d]
               /\ \A m \in net' : m.ack => m \in net
    <2>1. ~ NewPacket(FreeId, c, v).ack
      BY Zenon DEF NewPacket
    <2>2. net' \subseteq net \cup {NewPacket(FreeId, c, v)} /\ net \subseteq net'
          /\ rtx \subseteq rtx' /\ pend \subseteq pend'
          /\ \A d \in Client : why[d] \subseteq why'[d]
      BY <1>2 DEF Emitted
    <2> QED
      BY <1>1, <2>1, <2>2, Zenon DEF Held
  <1>3. CASE SendNext
    <2>1. PICK x \in loop :
            /\ loop' = loop \ {x}
            /\ Emitted(x[1], Value(x), KeyOf(x))
            /\ Served(x[1], Value(x), KeyOf(x))
      BY <1>3, CallServes
    <2>2. /\ net \subseteq net' /\ Held \subseteq Held' /\ pend \subseteq pend'
          /\ \A d \in Client : why[d] \subseteq why'[d]
          /\ \A m \in net' : m.ack => m \in net
      BY <1>2, <2>1
    <2>3. ASSUME NEW c \in member, NEW v \in Wanted, Carries(x, c, v)
          PROVE  Coming(c, v)' \/ why'[c] # {}
      <3>1. x[1] = c /\ Value(x) = v /\ (kind = "resolve" => KeyOf(x) = v) /\ c \in Client
        BY <2>3 DEF Carries, Wanted, Value, KeyOf, ClientsInv
      <3>2. CASE NewPacket(FreeId, c, v) \in net'
        <4> DEFINE m == NewPacket(FreeId, c, v)
        <4>1. m.c = c /\ m.v = v
          BY DEF NewPacket
        <4>2. ~ m.ack
          BY Zenon DEF NewPacket
        <4> HIDE DEF m
        <4> QED
          BY <3>2, <4>1, <4>2, Zenon DEF Coming, m
      <3>3. CASE <<c, KeyOf(x)>> \in pend'
        <4>1. Carries(<<c, KeyOf(x)>>, c, v)
          BY <3>1 DEF Carries
        <4>2. \E y \in pend' : Carries(y, c, v)
          BY <3>3, <4>1
        <4> QED
          BY <1>1, <4>2, Zenon DEF Coming, Carries
      <3> QED
        BY <2>1, <3>1, <3>2, <3>3 DEF Served
    <2>4. ASSUME NEW c \in member, NEW v \in Wanted, Coming(c, v)
          PROVE  Coming(c, v)' \/ why'[c] # {}
      <3>1. CASE Carries(x, c, v)
        BY <2>3, <3>1
      <3>2. CASE ~ Carries(x, c, v)
        BY <1>1, <2>1, <2>2, <2>4, <3>2 DEF Coming, Carries
      <3> QED
        BY <3>1, <3>2
    <2> QED
      BY <1>1, <2>2, <2>4, CurrentSame, Zenon
  <1>4. CASE \E c \in Client : Policy_Updates_Send_To(c)
    <2>1. PICK c \in Client : Emitted(c, ver, 0) /\ UNCHANGED loop
      BY <1>4, RequestServes
    <2>2. /\ net \subseteq net' /\ Held \subseteq Held' /\ pend \subseteq pend'
          /\ \A d \in Client : why[d] \subseteq why'[d]
          /\ \A m \in net' : m.ack => m \in net
      BY <1>2, <2>1
    <2>3. \A d, v : Coming(d, v) => Coming(d, v)'
      BY <1>1, <2>1, <2>2 DEF Coming, Carries
    <2> QED
      BY <1>1, <2>2, <2>3, CurrentSame, Zenon
  <1> QED
    BY <1>3, <1>4

\* An answer takes an entry away from a client that has what the entry carries.
LEMMA AnswerCurrent ==
  ASSUME CurrentInv, ClientsInv, VersionInv, kind # "heartbeat", ServerReceive
  PROVE  CurrentInv'
  <1>1. UNCHANGED <<kind, ver, cli, member, work, pend, expired>> /\ loop = {}
    BY DEF ServerReceive, Locked
  <1>2. PICK m \in net : m.ack /\ net' = net \ {m} /\ retransmit_timer_stop(m)
    BY DEF ServerReceive
  <1>3. \A d \in Client : why[d] \subseteq why'[d]
    <2>1. UNCHANGED why \/ \E e \in DeQueue(m.id) : dps_protocol_send_to_server(e, TRUE)
      BY <1>2, Zenon DEF retransmit_timer_stop
    <2> QED
      BY <2>1, HandlerServes, Zenon
  <1>4. rtx' = rtx \ DeQueue(m.id)
    BY <1>2 DEF retransmit_timer_stop
  <1>5. ASSUME NEW c \in member, NEW v \in Wanted, Coming(c, v)
        PROVE  Coming(c, v)' \/ Has(c, v) \/ why'[c] # {}
    <2>1. ASSUME NEW e \in DeQueue(m.id), e.c = c, e.v = v
          PROVE  Has(c, v) \/ why'[c] # {}
      <3>1. e \in rtx /\ e.id = m.id
        BY DEF DeQueue
      <3>2. m.c = c /\ m.v = v
        BY <2>1, <3>1 DEF ClientsInv, VersionInv
      <3>3. Has(c, v) \/ why[c] # {}
        BY <1>2, <3>2 DEF CurrentInv, AnswerInv
      <3>4. c \in Client
        BY DEF ClientsInv
      <3> QED
        BY <1>3, <3>3, <3>4
    <2>2. CASE \E e \in DeQueue(m.id) : e.c = c /\ e.v = v
      BY <2>1, <2>2
    <2>3. CASE \E e \in Held' : e.c = c /\ e.v = v
      BY <2>3 DEF Coming
    <2>4. CASE \E n \in net : ~ n.ack /\ n.c = c /\ n.v = v
      BY <1>2, <2>4 DEF Coming
    <2>5. CASE (work # {} /\ (kind = "resolve" => v \in work)) \/ \E x \in pend : Carries(x, c, v)
      BY <1>1, <2>5 DEF Coming, Carries
    <2>6. (\E e \in Held : e.c = c /\ e.v = v) =>
             (\E e \in Held' : e.c = c /\ e.v = v) \/ \E e \in DeQueue(m.id) : e.c = c /\ e.v = v
      BY <1>1, <1>4 DEF Held
    <2> QED
      BY <1>1, <1>5, <2>2, <2>3, <2>4, <2>5, <2>6, Zenon DEF Coming
  <1>6. \A n \in net' : n.ack => n \in net
    BY <1>2
  <1> QED
    BY <1>1, <1>3, <1>5, <1>6, CurrentSame

LEMMA TimeoutCurrent ==
  ASSUME CurrentInv, ClientsInv, VersionInv, kind # "heartbeat", retransmit_timeout
  PROVE  CurrentInv'
  <1>1. UNCHANGED <<kind, ver, cli, member, work, pend, rtx, net>> /\ loop = {}
    BY DEF retransmit_timeout, Locked
  <1>2. PICK e \in expired : expired' = expired \ {e} /\ dps_protocol_send_to_server(e, FALSE)
    BY Zenon DEF retransmit_timeout
  <1>3. /\ \A d \in Client : why[d] \subseteq why'[d]
        /\ e.c \in member => why'[e.c] # {} \/ \E x \in loop' : Carries(x, e.c, e.v)
    BY <1>2, HandlerServes, Zenon
  <1>4. ASSUME NEW c \in member, NEW v \in Wanted, Coming(c, v)
        PROVE  Coming(c, v)' \/ Has(c, v) \/ why'[c] # {}
    <2>1. CASE e.c = c /\ e.v = v
      BY <1>1, <1>3, <2>1 DEF Coming, Carries
    <2>2. CASE ~ (e.c = c /\ e.v = v)
      BY <1>1, <1>2, <1>4, <2>2 DEF Coming, Carries, Held
    <2> QED
      BY <2>1, <2>2
  <1> QED
    BY <1>1, <1>3, <1>4, CurrentSame, Zenon

LEMMA RetransmitCurrent ==
  ASSUME CurrentInv, ClientsInv, VersionInv, ContextInv, kind # "heartbeat", RetransmitTimer
  PROVE  CurrentInv'
  <1>1. UNCHANGED <<kind, ver, cli, member, work, pend, loop, why>>
    BY DEF RetransmitTimer
  <1>2. /\ \A e \in Held : \E f \in Held' : f.c = e.c /\ f.v = e.v
        /\ net \subseteq net' /\ \A m \in net' : m.ack => m \in net
    BY RetransmitVersion
  <1>3. \A c, v : Coming(c, v) => Coming(c, v)'
    BY <1>1, <1>2 DEF Coming, Carries
  <1> QED
    BY <1>1, <1>2, <1>3, CurrentSame

LEMMA ReceiveCurrent ==
  ASSUME CurrentInv, ClientsInv, VersionInv, kind # "heartbeat", ClientReceive
  PROVE  CurrentInv'
  <1>1. /\ UNCHANGED <<kind, ver, member, work, pend, loop, rtx, expired>>
        /\ Held' = Held /\ Wanted' = Wanted
    BY DEF ClientReceive, Held, Wanted
  <1>2. PICK m \in net : \E a :
           /\ ~ m.ack /\ a.ack /\ a.ack \in BOOLEAN
           /\ a.id = m.id /\ a.c = m.c /\ a.v = m.v
           /\ net \ {m} \subseteq net' /\ net' \subseteq (net \ {m}) \cup {a}
           /\ DOMAIN cli' = Client
           /\ \A c \in Client \ {m.c} : cli'[c] = cli[c] /\ why'[c] = why[c]
           /\ cli'[m.c].last = m.v /\ cli'[m.c].seen = cli[m.c].seen \cup {m.v}
           /\ kind = "resolve" => why'[m.c] = why[m.c]
           /\ kind \notin {"resolve", "heartbeat"} /\ m.v # ver =>
                why[m.c] \subseteq why'[m.c] /\ (m.v < cli[m.c].last => why'[m.c] # {})
    BY ReceiveIs, Zenon
  <1>3. PICK a : a.c = m.c /\ a.v = m.v /\ net' \subseteq (net \ {m}) \cup {a}
    BY <1>2
  <1>4. m.c \in Client /\ m.v \in 0 .. ver /\ ver \in Nat
    BY DEF VersionInv
  <1>5. Has(m.c, m.v)'
    BY <1>1, <1>2 DEF Has
  \* What a client had it still has, or was given an older table.
  <1>6. ASSUME NEW c \in Client, NEW v \in Wanted, Has(c, v) \/ why[c] # {}
        PROVE  Has(c, v)' \/ why'[c] # {}
    <2>1. CASE c # m.c
      BY <1>1, <1>2, <1>6, <2>1 DEF Has
    <2>2. CASE c = m.c /\ kind = "resolve"
      BY <1>1, <1>2, <1>6, <2>2 DEF Has
    <2>3. CASE c = m.c /\ kind # "resolve"
      <3>1. v = ver
        BY <2>3 DEF Wanted
      <3>2. CASE m.v = ver
        BY <1>5, <2>3, <3>1, <3>2
      <3>3. CASE m.v # ver
        <4>1. m.v < ver
          BY <1>4, <3>3, SMT
        <4>2. why[c] \subseteq why'[c] /\ (m.v < cli[c].last => why'[c] # {})
          BY <1>2, <2>3, <3>3, Zenon
        <4>3. Has(c, v) => cli[c].last = ver
          BY <2>3, <3>1 DEF Has
        <4> QED
          BY <1>6, <4>1, <4>2, <4>3
      <3> QED
        BY <3>2, <3>3
    <2> QED
      BY <2>1, <2>2, <2>3
  <1>7. ASSUME NEW n \in net', n.ack, n.v \in Wanted
        PROVE  Has(n.c, n.v)' \/ why'[n.c] # {}
    <2>1. CASE n = a
      BY <1>3, <1>5, <2>1
    <2>2. CASE n # a
      <3>1. n \in net /\ n.c \in Client
        BY <1>3, <2>2 DEF VersionInv
      <3>2. Has(n.c, n.v) \/ why[n.c] # {}
        BY <1>7, <3>1 DEF CurrentInv, AnswerInv
      <3> QED
        BY <1>6, <1>7, <3>1, <3>2
    <2> QED
      BY <2>1, <2>2
  <1>8. AnswerInv'
    BY <1>1, <1>7 DEF AnswerInv
  <1>9. ASSUME NEW c \in member, NEW v \in Wanted
        PROVE  why'[c] # {} \/ Has(c, v)' \/ Coming(c, v)'
    <2>1. c \in Client
      BY DEF ClientsInv
    <2>2. CASE Has(c, v) \/ why[c] # {}
      BY <1>6, <2>1, <2>2
    <2>3. CASE Coming(c, v)
      <3>1. CASE m.c = c /\ m.v = v
        BY <1>5, <3>1
      <3>2. CASE ~ (m.c = c /\ m.v = v)
        <4>1. net \ {m} \subseteq net'
          BY <1>2
        <4> QED
          BY <1>1, <2>3, <3>2, <4>1 DEF Coming, Carries
      <3> QED
        BY <3>1, <3>2
    <2> QED
      BY <2>2, <2>3 DEF CurrentInv
  <1> QED
    BY <1>1, <1>8, <1>9 DEF CurrentInv

LEMMA LoseCurrent ==
  ASSUME CurrentInv, ClientsInv, VersionInv, kind # "heartbeat", Lose
  PROVE  CurrentInv'
  <1>1. UNCHANGED <<kind, ver, cli, member, work, pend, loop, rtx, expired>> /\ Held' = Held
    BY DEF Lose, Held
  <1>2. PICK m \in net :
          /\ net' = net \ {m}
          /\ Blame({m.c}, IF kind = "heartbeat" THEN {"missed"}
                          ELSE IF m.id \notin Ids(rtx) /\ ~ m.ack THEN {"once"} ELSE {})
    BY Zenon DEF Lose
  <1>3. \A d \in Client : why[d] \subseteq why'[d]
    BY <1>2, BlameIs
  <1>4. ASSUME NEW c \in member, NEW v \in Wanted, Coming(c, v)
        PROVE  Coming(c, v)' \/ Has(c, v) \/ why'[c] # {}
    <2>1. CASE ~ m.ack /\ m.c = c /\ m.v = v /\ m.id \notin Ids(rtx)
      <3>1. Blame({c}, {"once"})
        BY <1>2, <2>1
      <3>2. c \in Client
        BY DEF ClientsInv
      <3> QED
        BY <3>1, <3>2, BlameIs
    <2>2. CASE m.c = c /\ m.v = v /\ m.id \in Ids(rtx)
      <3>1. PICK e \in rtx : e.id = m.id
        BY <2>2 DEF Ids
      <3>2. e \in Held /\ e.c = c /\ e.v = v
        BY <2>2, <3>1 DEF Held, ClientsInv, VersionInv
      <3> QED
        BY <1>1, <3>2 DEF Coming
    <2>3. CASE ~ (~ m.ack /\ m.c = c /\ m.v = v)
      BY <1>1, <1>2, <1>4, <2>3 DEF Coming, Carries
    <2> QED
      BY <2>1, <2>2, <2>3
  <1>5. \A n \in net' : n.ack => n \in net
    BY <1>2
  <1> QED
    BY <1>1, <1>3, <1>4, <1>5, CurrentSame

\* The calls a timer or a worker starts carry what was queued.
LEMMA QueuesCarry ==
  ASSUME NEW c
  PROVE  /\ c \in member => \A v, w : (kind = "resolve" => w = v) =>
              \E x \in ToAll(w) : Carries(x, c, v)
         /\ \A v : (\E x \in pend : Carries(x, c, v)) =>
              \E x \in FromPending : Carries(x, c, v)
  <1>1. ASSUME c \in member, NEW v, NEW w, kind = "resolve" => w = v
        PROVE  \E x \in ToAll(w) : Carries(x, c, v)
    <2>1. <<c, w, "all">> \in ToAll(w) /\ Carries(<<c, w, "all">>, c, v)
      BY <1>1 DEF ToAll, Carries
    <2> QED
      BY <2>1
  <1>2. ASSUME NEW v, NEW x \in pend, Carries(x, c, v)
        PROVE  \E y \in FromPending : Carries(y, c, v)
    <2>1. <<x[1], x[2], "to">> \in FromPending /\ Carries(<<x[1], x[2], "to">>, c, v)
      BY <1>2 DEF FromPending, Carries
    <2> QED
      BY <2>1
  <1> QED
    BY <1>1, <1>2

LEMMA RoundCurrent ==
  ASSUME CurrentInv, ClientsInv, VersionInv, kind # "heartbeat",
         Protocol_Timer_Routine \/ UpdateWorker
  PROVE  CurrentInv'
  <1>1. /\ UNCHANGED <<kind, ver, cli, member, net, rtx, expired, why>>
        /\ Held' = Held /\ loop = {}
    BY DEF Protocol_Timer_Routine, UpdateWorker, Locked, Held, Broadcast_Updates_Send,
       Policy_Updates_Send, Gateway_Updates_Send, Multicast_Updates_Send,
       Address_Resolution_Timeout, Send_Heartbeat
  <1>2. ASSUME NEW c \in member, NEW v \in Wanted, Coming(c, v)
        PROVE  Coming(c, v)'
    <2>1. \/ work # {} /\ (kind = "resolve" => v \in work)
          \/ \E x \in pend : Carries(x, c, v)
          \/ Coming(c, v)'
      BY <1>1, <1>2, Zenon DEF Coming, Carries
    <2>2. ASSUME NEW x \in loop', Carries(x, c, v) PROVE Coming(c, v)'
      BY <1>1, <2>2, Zenon DEF Coming, Carries
    <2>3. CASE UpdateWorker
      <3>1. PICK w \in work : work' = work \ {w} /\ loop' = ToAll(w)
        BY <2>3 DEF UpdateWorker
      <3>2. UNCHANGED pend
        BY <2>3 DEF UpdateWorker
      <3>3. CASE \E x \in pend : Carries(x, c, v)
        BY <1>1, <3>2, <3>3 DEF Coming, Carries
      <3>4. CASE kind = "resolve" => w = v
        BY <2>2, <3>1, <3>4, QueuesCarry
      <3>5. CASE kind = "resolve" /\ w # v /\ v \in work
        BY <1>1, <3>1, <3>5 DEF Coming
      <3> QED
        BY <2>1, <3>3, <3>4, <3>5
    <2>4. CASE Gateway_Updates_Send
      BY <1>1, <2>1, <2>4 DEF Gateway_Updates_Send, Coming, Carries
    <2>5. CASE Policy_Updates_Send \/ Address_Resolution_Timeout
      <3>1. loop' = FromPending /\ UNCHANGED work
        BY <2>5 DEF Policy_Updates_Send, Address_Resolution_Timeout
      <3>2. CASE \E x \in pend : Carries(x, c, v)
        BY <2>2, <3>1, <3>2, QueuesCarry
      <3>3. CASE work # {} /\ (kind = "resolve" => v \in work)
        BY <1>1, <3>1, <3>3 DEF Coming
      <3> QED
        BY <2>1, <3>2, <3>3
    <2>6. CASE Broadcast_Updates_Send \/ Multicast_Updates_Send
      <3>1. /\ kind # "resolve" /\ FromPending \subseteq loop'
            /\ work # {} => ToAll(0) \subseteq loop'
        BY <2>6 DEF Broadcast_Updates_Send, Multicast_Updates_Send
      <3> QED
        BY <2>1, <2>2, <3>1, QueuesCarry
    <2> QED
      BY <2>3, <2>4, <2>5, <2>6, Zenon DEF Protocol_Timer_Routine, Send_Heartbeat
  <1> QED
    BY <1>1, <1>2, CurrentSame

\* No answer names the new version, and every client of the VNID is to get it.
LEMMA ChangeCurrent ==
  ASSUME CurrentInv, ClientsInv, VersionInv, Change \/ \E c \in Client : TunnelGone(c)
  PROVE  CurrentInv'
  <1>1. /\ UNCHANGED <<kind, cli, net, rtx, expired>> /\ loop = {} /\ ver' = ver + 1
        /\ kind # "heartbeat" /\ Held' = Held
    BY DEF Change, TunnelGone, Locked, Held
  <1>2. ver \in Nat /\ \A v \in 0 .. ver : v # ver + 1
    BY SMT DEF VersionInv
  <1>3. \A c, v : Has(c, v)' <=> Has(c, v)
    BY <1>1 DEF Has
  <1>4. \A d \in Client : why[d] \subseteq why'[d]
    <2>1. UNCHANGED why \/ Blame(Client, {"inactive"})
      BY DEF Change, TunnelGone
    <2> QED
      BY <2>1, BlameIs
  <1>5. member' \subseteq member
    BY DEF Change, TunnelGone, DPSClient_delete
  <1>6. \A v \in Wanted' : v = ver' \/ (kind = "resolve" /\ v \in Wanted)
    BY <1>1, <1>2, SMT DEF Wanted
  <1>7. ASSUME NEW m \in net', m.ack, m.v \in Wanted'
        PROVE  Has(m.c, m.v)' \/ why'[m.c] # {}
    <2>1. m \in net /\ m.v \in 0 .. ver /\ m.c \in Client
      BY <1>1 DEF VersionInv
    <2>2. m.v \in Wanted
      BY <1>1, <1>2, <1>6, <1>7, <2>1
    <2>3. Has(m.c, m.v) \/ why[m.c] # {}
      BY <1>1, <1>7, <2>1, <2>2 DEF CurrentInv, AnswerInv
    <2> QED
      BY <1>3, <1>4, <2>1, <2>3
  <1>8. ASSUME NEW c \in member', NEW v, v = ver' PROVE why'[c] # {} \/ Coming(c, v)'
    <2>1. c \in member /\ c \in Client
      BY <1>5 DEF ClientsInv
    <2>2. CASE kind = "deletion"
      <3>1. loop' = ToAll(ver')
        BY <2>2 DEF Change, TunnelGone
      <3>2. \E x \in loop' : Carries(x, c, v)
        BY <1>8, <2>1, <3>1, QueuesCarry
      <3> QED
        BY <1>1, <3>2, Zenon DEF Coming, Carries
    <2>3. CASE Change /\ kind = "bcast" /\ ~ active
      <3>1. Blame(Client, {"inactive"})
        BY <2>3 DEF Change
      <3> QED
        BY <2>1, <3>1, BlameIs, Zenon
    <2>4. CASE Change /\ kind # "deletion" /\ ~ (kind = "bcast" /\ ~ active)
      <3>1. work' = work \cup {Keyed(ver')}
        BY <2>4 DEF Change
      <3>2. kind = "resolve" => Keyed(ver') = v
        BY <1>8 DEF Keyed
      <3> QED
        BY <1>1, <1>8, <3>1, <3>2, Zenon DEF Coming
    <2>5. CASE \E d \in Client : TunnelGone(d)
      <3>1. work' = {0} /\ kind # "resolve"
        BY <2>5 DEF TunnelGone
      <3> QED
        BY <1>1, <3>1 DEF Coming
    <2> QED
      BY <2>2, <2>3, <2>4, <2>5
  <1>9. ASSUME NEW c \in member', NEW v \in Wanted, kind = "resolve"
        PROVE  why'[c] # {} \/ Has(c, v)' \/ Coming(c, v)'
    <2>1. c \in member /\ c \in Client
      BY <1>5 DEF ClientsInv
    <2>2. pend' = pend /\ work \subseteq work'
      BY <1>9 DEF Change, TunnelGone
    <2>3. Coming(c, v) => Coming(c, v)'
      BY <1>1, <2>2 DEF Coming, Carries
    <2>4. why[c] # {} \/ Has(c, v) \/ Coming(c, v)
      BY <1>1, <2>1 DEF CurrentInv
    <2> QED
      BY <1>3, <1>4, <2>1, <2>3, <2>4, Zenon
  <1>10. \A c \in member', v \in Wanted' : why'[c] # {} \/ Has(c, v)' \/ Coming(c, v)'
    BY <1>6, <1>8, <1>9, Zenon
  <1>11. AnswerInv'
    BY <1>7 DEF AnswerInv
  <1> QED
    BY <1>10, <1>11 DEF CurrentInv

LEMMA OtherCurrent ==
  ASSUME CurrentInv, ClientsInv, VersionInv, kind # "heartbeat",
         \/ SetActive \/ \E c \in Client : ComeUp(c)
         \/ \E c \in member : GoDown(c)
         \/ \E v \in Ver : Address_Resolution_Resolve(v)
         \/ UNCHANGED vars
  PROVE  CurrentInv'
  <1>1. /\ UNCHANGED <<kind, ver, cli, member, work, loop, net, rtx, expired>>
        /\ Held' = Held
    BY Zenon DEF SetActive, ComeUp, GoDown, Address_Resolution_Resolve, vars, Held
  <1>2. CASE UNCHANGED <<pend, why>>
    <2>1. \A c, v : Coming(c, v) => Coming(c, v)'
      BY <1>1, <1>2, Zenon DEF Coming, Carries
    <2> QED
      BY <1>1, <1>2, <2>1, CurrentSame, Zenon
  <1>3. CASE \E w \in Ver : Address_Resolution_Resolve(w)
    <2>1. PICK w \in Ver :
            /\ pend' = {x \in pend : x[2] # w}
            /\ Blame({x[1] : x \in {y \in pend : y[2] = w}}, {"answered"})
      BY <1>3, Zenon DEF Address_Resolution_Resolve
    <2>2. \A d \in Client : why[d] \subseteq why'[d]
      BY <2>1, BlameIs
    <2>3. ASSUME NEW x \in pend, x[2] = w, x[1] \in Client PROVE why'[x[1]] # {}
      <3>1. x[1] \in {z[1] : z \in {y \in pend : y[2] = w}} \cap Client
        BY <2>3
      <3>2. {"answered"} \subseteq why'[x[1]]
        BY <2>1, <3>1, BlameIs, Zenon
      <3> QED
        BY <3>2
    <2>4. ASSUME NEW c \in member, NEW v \in Wanted, Coming(c, v)
          PROVE  Coming(c, v)' \/ why'[c] # {}
      <3>1. ASSUME NEW x \in pend, Carries(x, c, v) PROVE Coming(c, v)' \/ why'[c] # {}
        <4>1. x[1] = c /\ c \in Client
          BY <3>1 DEF Carries, ClientsInv
        <4>2. CASE x[2] = w
          BY <2>3, <4>1, <4>2
        <4>3. CASE x[2] # w
          <5>1. x \in pend'
            BY <2>1, <4>3
          <5> QED
            BY <1>1, <3>1, <5>1, Zenon DEF Coming, Carries
        <4> QED
          BY <4>2, <4>3
      <3>2. (\E x \in pend : Carries(x, c, v)) \/ Coming(c, v)'
        BY <1>1, <2>4 DEF Coming, Carries
      <3> QED
        BY <3>1, <3>2, Zenon
    <2> QED
      BY <1>1, <2>2, <2>4, CurrentSame, Zenon
  <1> QED
    BY <1>2, <1>3 DEF SetActive, ComeUp, GoDown, vars

LEMMA CurrentKept ==
  /\ CurrentInv /\ VersionInv /\ ClientsInv /\ ContextInv /\ IdsSuffice
  /\ [UpdatesNext]_vars
  => CurrentInv'
  <1> SUFFICES ASSUME CurrentInv, VersionInv, ClientsInv, ContextInv, IdsSuffice,
                      [UpdatesNext]_vars
               PROVE  CurrentInv'
    OBVIOUS
  <1>1. CASE kind = "heartbeat"
    <2>1. UNCHANGED kind
      BY Zenon DEF UpdatesNext, SendNext, Protocol_Timer_Routine, UpdateWorker, Change, SetActive,
             ServerReceive, RetransmitTimer, retransmit_timeout, ClientReceive, Lose,
             Policy_Updates_Send_To, TunnelGone, Address_Resolution_Resolve, GoDown, ComeUp, vars
    <2> QED
      BY <1>1, <2>1 DEF CurrentInv
  <1>2. CASE kind # "heartbeat"
    BY <1>2, SendsCurrent, AnswerCurrent, TimeoutCurrent, RetransmitCurrent, ReceiveCurrent,
       LoseCurrent, RoundCurrent, ChangeCurrent, OtherCurrent DEF UpdatesNext
  <1> QED
    BY <1>1, <1>2

LEMMA CurrentSettles == CurrentInv => SettledIsCurrent
  <1> SUFFICES ASSUME CurrentInv, Quiet, kind # "heartbeat", NEW c \in member
               PROVE  \/ why[c] # {}
                      \/ \E x \in pend : x[1] = c
                      \/ IF kind = "resolve" THEN 1 .. ver \subseteq cli[c].seen
                                             ELSE cli[c].last = ver
    BY DEF SettledIsCurrent
  <1>1. net = {} /\ Held = {} /\ loop = {} /\ work = {}
    BY DEF Quiet, Held
  <1>2. \A v \in Wanted : why[c] # {} \/ Has(c, v) \/ \E x \in pend : x[1] = c
    BY <1>1, Zenon DEF CurrentInv, Coming, Carries
  <1> QED
    BY <1>2, Zenon DEF Wanted, Has

----------------------------------------------------------------------------
(* The theorems                                                            *)

INSTANCE FiniteSetTheorems

LEMMA SetsCount == Counting
  BY FS_EmptySet, FS_AddElement, FS_RemoveElement DEF Counting

\* While the counter of query ids does not run into one that is in use, the
\* context of an unsolicited message is freed once - by the answer or by the
\* last retransmission, whichever takes the entry from the queue - and the
\* counter outstanding_unsolicited_msg_count is the number of contexts in use,
\* with the exceptions ContextsSound names; for any number of clients, messages,
\* retransmissions and faults.
THEOREM ContextsTheorem == UpdatesSpec /\ []IdsSuffice => []ContextsSound
  <1>1. UpdatesInit => ContextInv
    BY ContextInit, SetsCount
  <1>2. ContextInv /\ IdsSuffice /\ [UpdatesNext]_vars => ContextInv'
    BY ContextKept, SetsCount
  <1>3. ContextInv => ContextsSound
    BY ContextsAreSound
  <1> QED
    BY <1>1, <1>2, <1>3, PTL DEF UpdatesSpec

\* Under the same hypothesis Send_Heartbeat deletes a client for its silence
\* only if, since it was last heard of, one of its heartbeats or answers was
\* lost, not sent or sent without a context, or if an answer came later than a
\* round of one of the timers: for any heartbeat_frequency below
\* heartbeat_no_contact.
THEOREM RemovedTheorem == UpdatesSpec /\ []IdsSuffice => RemovedWasSilent
  <1> DEFINE Inv == ContextInv /\ ClientsInv /\ DutyInv
             Silent == \A c \in member \ member' :
                         kind = "heartbeat" =>
                           \/ {"missed", "dropped", "bare"} \cap why[c] # {}
                           \/ "late" \in hist'
  <1>1. UpdatesInit => Inv
    BY ContextInit, ClientsInit, SetsCount
  <1>2. Inv /\ IdsSuffice /\ [UpdatesNext]_vars => Inv'
    BY ContextKept, ClientsKept, DutyKept, SetsCount
  <1>3. Inv /\ IdsSuffice /\ [UpdatesNext]_vars => [Silent]_vars
    BY DutyKept DEF Lapse
  <1> HIDE DEF Inv, Silent
  <1>4. UpdatesSpec /\ []IdsSuffice => [][Silent]_vars
    BY <1>1, <1>2, <1>3, PTL DEF UpdatesSpec
  <1> QED
    BY <1>4 DEF RemovedWasSilent, Silent

\* Under the same hypothesis, when the server has nothing left to send, every
\* client of the VNID has the last version of the table and saw every question,
\* with the exceptions SettledIsCurrent names; for any number of clients,
\* versions, lost datagrams, failed sends and retransmissions.
THEOREM SettledTheorem == UpdatesSpec /\ []IdsSuffice => []SettledIsCurrent
  <1> DEFINE Inv == ContextInv /\ ClientsInv /\ VersionInv /\ CurrentInv
  <1>1. UpdatesInit => Inv
    BY ContextInit, ClientsInit, VersionInit, SetsCount
  <1>2. Inv /\ IdsSuffice /\ [UpdatesNext]_vars => Inv'
    BY ContextKept, ClientsKept, VersionKept, CurrentKept, SetsCount
  <1>3. Inv => SettledIsCurrent
    BY CurrentSettles
  <1> QED
    BY <1>1, <1>2, <1>3, PTL DEF UpdatesSpec
=============================================================================
