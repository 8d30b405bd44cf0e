--------------------------- MODULE RawProtoTimer ----------------------------
(***************************************************************************)
(* The retransmission timer of the DPS protocol (raw_proto_timer.c).       *)
(*                                                                         *)
(* Packets that wait for an answer are nodes of singly linked lists, one   *)
(* list per hash bucket, under one mutex.  Three kinds of threads meet     *)
(* here: a sender starts the timer of a packet, the receiver of an answer  *)
(* stops it, and the retransmission thread walks all lists once a second,  *)
(* sends what is due again and reports what was sent too often.  It        *)
(* releases the mutex for the report (the callback) and goes on from the   *)
(* pointers it held before.                                                *)
(*                                                                         *)
(* A pointer to a node is the packet the node was allocated for.  heap[p]  *)
(* says what a pointer to p points at:                                     *)
(*    "unused"    the packet was not sent yet                              *)
(*    "linked"    a node of its bucket's list                              *)
(*    "unlinked"  taken out, the callback still uses it                    *)
(*    "freed"     given back to the allocator                              *)
(* Following a pointer to a freed node is undefined: wild becomes TRUE and *)
(* the model says nothing of what comes after.                             *)
(***************************************************************************)
EXTENDS Naturals

CONSTANTS Pkt, Buckets, hash, MaxRetransmit, Null

ASSUME BucketsAssumption == Buckets \in Nat \ {0}
ASSUME HashAssumption == hash \in [Pkt -> 0 .. Buckets - 1]
ASSUME RetransmitAssumption == MaxRetransmit \in Nat
ASSUME NullAssumption == Null \notin Pkt

VARIABLES
    bucketPtr,      \* the first node of every bucket
    next, count, age,   \* per node: link, transmitCount, seconds since sent
    heap,
    handed,         \* contexts given back: by a stop, and by the callback
    cursor,         \* the retransmission thread
    hit,            \* history: a stop freed a node the cursor points at
    wild

vars == <<bucketPtr, next, count, age, heap, handed, cursor, hit, wild>>

Ptr == Pkt \cup {Null}

raw_proto_pkt_timer_t ==
    [next : Ptr, transmitCount : Nat, lastSentTime : Nat]

Cursor ==
    [pc : {"sleep", "lock", "walk", "callback"}, i : 0 .. Buckets - 1,
     head : Ptr, prev : Ptr, curr : Ptr, del : Ptr]

Asleep == [pc |-> "sleep", i |-> 0,
           head |-> Null, prev |-> Null, curr |-> Null, del |-> Null]

Linked == {p \in Pkt : heap[p] = "linked"}

(* Time between the n-th transmission and the next step, in seconds:       *)
(* 1 + (2^n - 1) / 2 rounded up.                                           *)
calculate_retry_interval(n) == 1 + 2 ^ (n - 1)

MaxAge == calculate_retry_interval(MaxRetransmit + 1)

Init ==
    /\ bucketPtr = [b \in 0 .. Buckets - 1 |-> Null]
    /\ next = [p \in Pkt |-> Null]
    /\ count = [p \in Pkt |-> 0]
    /\ age = [p \in Pkt |-> 0]
    /\ heap = [p \in Pkt |-> "unused"]
    /\ handed = [stop |-> {}, callback |-> {}]
    /\ cursor = Asleep
    /\ hit = FALSE
    /\ wild = FALSE

----------------------------------------------------------------------------
(* Senders and receivers.  Both hold pktTimerListMutex throughout, so they *)
(* never see the thread in the middle of a list.                           *)

MutexFree == ~wild /\ cursor.pc # "walk"

(* The new node goes behind the last one of its bucket.                    *)
insert_raw_pkt(p) ==
    LET b == hash[p]
        tail == {q \in Linked : hash[q] = b /\ next[q] = Null}
    IN  /\ next' = [q \in Pkt |-> IF q \in tail THEN p
                                  ELSE IF q = p THEN Null ELSE next[q]]
        /\ bucketPtr' = IF bucketPtr[b] = Null
                        THEN [bucketPtr EXCEPT ![b] = p] ELSE bucketPtr
        /\ heap' = [heap EXCEPT ![p] = "linked"]
        /\ count' = [count EXCEPT ![p] = 1]
        /\ age' = [age EXCEPT ![p] = 0]

raw_proto_timer_start(p) ==
    /\ MutexFree
    /\ heap[p] = "unused"
    /\ insert_raw_pkt(p)
    /\ UNCHANGED <<handed, cursor, hit, wild>>

(* Mutant of delete_raw_pkt: the node stays in the list of its bucket.     *)
DeleteKeepsLink(p) ==
    /\ handed' = [handed EXCEPT !.stop = @ \cup {p}]
    /\ UNCHANGED <<next, bucketPtr, heap>>

(* The node is unlinked and freed, its context goes to the caller.         *)
delete_raw_pkt(p) ==
    LET b == hash[p]
    IN  /\ next' = [q \in Pkt |-> IF q \in Linked /\ next[q] = p
                                  THEN next[p] ELSE next[q]]
        /\ bucketPtr' = IF bucketPtr[b] = p
                        THEN [bucketPtr EXCEPT ![b] = next[p]] ELSE bucketPtr
        /\ heap' = [heap EXCEPT ![p] = "freed"]
        /\ handed' = [handed EXCEPT !.stop = @ \cup {p}]

(* An answer to a packet that is not in the list finds no context.         *)
raw_proto_timer_stop(p) ==
    /\ MutexFree
    /\ heap[p] = "linked"
    /\ delete_raw_pkt(p)
    /\ hit' = (hit \/ p \in {cursor.prev, cursor.curr})
    /\ UNCHANGED <<count, age, cursor, wild>>

----------------------------------------------------------------------------
(* The retransmission thread.                                              *)

Second ==
    /\ ~wild
    /\ \E p \in Linked : age[p] < MaxAge
    /\ age' = [p \in Pkt |-> IF p \in Linked /\ age[p] < MaxAge
                             THEN age[p] + 1 ELSE age[p]]
    /\ UNCHANGED <<bucketPtr, next, count, heap, handed, cursor, hit, wild>>

raw_pkt_retransmision_thread_entry ==
    /\ ~wild
    /\ cursor.pc = "sleep"
    /\ cursor' = [cursor EXCEPT !.pc = "lock"]
    /\ UNCHANGED <<bucketPtr, next, count, age, heap, handed, hit, wild>>

NextBucket ==
    IF cursor.i = Buckets - 1 THEN Asleep
    ELSE [Asleep EXCEPT !.pc = "lock", !.i = cursor.i + 1]

LockBucket ==
    LET first == bucketPtr[cursor.i]
    IN  /\ ~wild
        /\ cursor.pc = "lock"
        /\ cursor' = IF first = Null THEN NextBucket
                     ELSE [cursor EXCEPT !.pc = "walk", !.head = first,
                                         !.prev = first, !.curr = first]
        /\ UNCHANGED <<bucketPtr, next, count, age, heap, handed, hit, wild>>

Walking == ~wild /\ cursor.pc = "walk"

AtNode == Walking /\ cursor.curr # Null /\ heap[cursor.curr] = "linked"

Due(p) == age[p] >= calculate_retry_interval(count[p])

EndOfBucket ==
    /\ Walking
    /\ cursor.curr = Null
    /\ cursor' = NextBucket
    /\ UNCHANGED <<bucketPtr, next, count, age, heap, handed, hit, wild>>

Advance == [cursor EXCEPT !.prev = cursor.curr, !.curr = next[cursor.curr]]

NotDue ==
    /\ AtNode
    /\ ~Due(cursor.curr)
    /\ cursor' = Advance
    /\ UNCHANGED <<bucketPtr, next, count, age, heap, handed, hit, wild>>

(* Mutant of Retransmit: the transmission is not counted.                  *)
RetransmitUncounted ==
    /\ AtNode
    /\ Due(cursor.curr)
    /\ count[cursor.curr] <= MaxRetransmit
    /\ age' = [age EXCEPT ![cursor.curr] = 0]
    /\ cursor' = Advance
    /\ UNCHANGED <<bucketPtr, next, count, heap, handed, hit, wild>>

Retransmit ==
    /\ AtNode
    /\ Due(cursor.curr)
    /\ count[cursor.curr] <= MaxRetransmit
    /\ count' = [count EXCEPT ![cursor.curr] = @ + 1]
    /\ age' = [age EXCEPT ![cursor.curr] = 0]
    /\ cursor' = Advance
    /\ UNCHANGED <<bucketPtr, next, heap, handed, hit, wild>>

(* Mutant of Unlink: the bucket moves on, the thread's prev does not.      *)
UnlinkKeepsPrev ==
    LET p == cursor.curr
        nx == next[p]
    IN  /\ next' = [next EXCEPT ![cursor.prev] = nx]
        /\ heap' = [heap EXCEPT ![p] = "unlinked"]
        /\ cursor' = [cursor EXCEPT !.pc = "callback", !.del = p, !.curr = nx]
        /\ bucketPtr' = IF p = cursor.head
                        THEN [bucketPtr EXCEPT ![cursor.i] = nx]
                        ELSE bucketPtr

(* prev->next = curr->next, then curr moves on; at the head of the list    *)
(* the bucket, head and prev move on with it.                              *)
Unlink ==
    LET p == cursor.curr
        nx == next[p]
    IN  /\ next' = [next EXCEPT ![cursor.prev] = nx]
        /\ heap' = [heap EXCEPT ![p] = "unlinked"]
        /\ cursor' = IF p = cursor.head
                     THEN [cursor EXCEPT !.pc = "callback", !.del = p,
                               !.curr = nx, !.head = nx, !.prev = nx]
                     ELSE [cursor EXCEPT !.pc = "callback", !.del = p,
                               !.curr = nx]
        /\ bucketPtr' = IF p = cursor.head
                        THEN [bucketPtr EXCEPT ![cursor.i] = nx]
                        ELSE bucketPtr

(* The mutex is released and the owner's callback runs.                    *)
GiveUp ==
    /\ AtNode
    /\ heap[cursor.prev] = "linked"
    /\ Due(cursor.curr)
    /\ count[cursor.curr] > MaxRetransmit
    /\ Unlink
    /\ handed' = [handed EXCEPT !.callback = @ \cup {cursor.curr}]
    /\ UNCHANGED <<count, age, hit, wild>>

(* The callback is over: the mutex is taken again, the node is freed.      *)
CallbackReturns ==
    /\ ~wild
    /\ cursor.pc = "callback"
    /\ heap' = [heap EXCEPT ![cursor.del] = "freed"]
    /\ cursor' = [cursor EXCEPT !.pc = "walk", !.del = Null]
    /\ UNCHANGED <<bucketPtr, next, count, age, handed, hit, wild>>

(* The thread reads a freed node, or writes the link of one.               *)
Stray ==
    /\ Walking
    /\ cursor.curr # Null
    /\ \/ heap[cursor.curr] # "linked"
       \/ /\ Due(cursor.curr)
          /\ count[cursor.curr] > MaxRetransmit
          /\ heap[cursor.prev] # "linked"
    /\ wild' = TRUE
    /\ UNCHANGED <<bucketPtr, next, count, age, heap, handed, cursor, hit>>

raw_pkt_retransmit ==
    \/ LockBucket \/ EndOfBucket \/ NotDue
    \/ Retransmit \/ GiveUp \/ CallbackReturns \/ Stray

Next ==
    \/ \E p \in Pkt : raw_proto_timer_start(p) \/ raw_proto_timer_stop(p)
    \/ Second
    \/ raw_pkt_retransmision_thread_entry
    \/ raw_pkt_retransmit

Spec == Init /\ [][Next]_vars

(* The thread is scheduled and the clock advances.                         *)
FairSpec ==
    /\ Spec
    /\ WF_vars(Second)
    /\ WF_vars(raw_pkt_retransmision_thread_entry \/ raw_pkt_retransmit)

----------------------------------------------------------------------------
TypeOK ==
    /\ bucketPtr \in [0 .. Buckets - 1 -> Ptr]
    /\ next \in [Pkt -> Ptr]
    /\ count \in [Pkt -> Nat]
    /\ age \in [Pkt -> Nat]
    /\ heap \in [Pkt -> {"unused", "linked", "unlinked", "freed"}]
    /\ handed \in [stop : SUBSET Pkt, callback : SUBSET Pkt]
    /\ cursor \in Cursor
    /\ hit \in BOOLEAN
    /\ wild \in BOOLEAN

(* Where the users of the timer see a packet.                              *)
Outcome ==
    [p \in Pkt |->
        IF p \in handed.callback THEN "gaveup"
        ELSE IF p \in handed.stop THEN "answered"
        ELSE IF heap[p] = "unused" THEN "none" ELSE "waiting"]

Promise == INSTANCE RequestOutcome WITH outcome <- Outcome

(* The context of a packet is handed out once: raw_proto_timer_stop and    *)
(* the callback of raw_pkt_retransmit never both get it, whatever the      *)
(* thread finds when it takes the mutex again.                             *)
OneOutcome == Promise!Spec

(* The comment of raw_pkt_retransmit on its pointers: prevTimerNode is the *)
(* node before currTimerNode, or both are the head of the list.  A stop    *)
(* during the callback is the only thing that breaks it, and following a   *)
(* pointer that broke is the only access to a freed node.                  *)
CursorInList ==
    LET c == cursor
    IN  /\ wild => hit
        /\ (c.pc = "walk" /\ c.curr # Null /\ ~hit) =>
              /\ c.curr \in Linked
              /\ c.prev \in Linked
              /\ \/ c.prev = c.curr /\ c.head = c.curr
                                    /\ bucketPtr[c.i] = c.curr
                 \/ c.prev # c.curr /\ next[c.prev] = c.curr

(* The lists hold what waits: a linked node is the first of its bucket or  *)
(* the successor of one linked node, and no link leads out of its bucket   *)
(* or to a node that delete_raw_pkt or raw_pkt_retransmit took out.        *)
ListsSound ==
    ~wild =>
        /\ \A p \in Linked :
              \/ bucketPtr[hash[p]] = p
              \/ \E q \in Linked : hash[q] = hash[p] /\ next[q] = p
        /\ \A p, q \in Linked : next[p] = next[q] => next[p] = Null \/ p = q
        /\ \A p \in Linked : next[p] # Null =>
              next[p] \in Linked /\ hash[next[p]] = hash[p]
                                 /\ bucketPtr[hash[p]] # next[p]

(* Every packet whose timer was started is answered or given up.           *)
Resolved ==
    \A p \in Pkt : (heap[p] = "linked") ~> (heap[p] # "linked" \/ wild)
=============================================================================
