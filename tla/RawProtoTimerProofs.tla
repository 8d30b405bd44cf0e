------------------------ MODULE RawProtoTimerProofs -------------------------
(***************************************************************************)
(* What holds of the retransmission timer for any set of packets, any      *)
(* hash, any number of buckets and of retransmissions.                     *)
(*                                                                         *)
(* IInv strengthens ListsSound and CursorInList to an inductive invariant. *)
(* What it adds is the state of the two pointers the thread keeps across   *)
(* the callback: each is a node of the list it walks or was freed by a     *)
(* stop, and if both are nodes they are adjacent; and that the head the    *)
(* thread remembers is still the head, or is no node any more.             *)
(***************************************************************************)
EXTENDS RawProtoTimer, WellFoundedInduction, TLAPS

\* A leaf that names no prover is tried with Zenon, then with SMT.
USE ZenonT(20), SMTT(20)

Freed(p) == p \in Pkt /\ heap[p] = "freed"

Node(p) == p \in Pkt /\ heap[p] = "linked"

Born(born, top) ==
    /\ \A p \in Pkt : born[p] <= top
    /\ \A p \in Pkt : Node(p) /\ next[p] # Null => born[p] < born[next[p]]

(* Every node is reached from the bucket or from one other node, a list    *)
(* has one end, and the order in which nodes were added bounds its length. *)
Lists ==
    /\ \A p \in Pkt : Node(p) =>
          \/ bucketPtr[hash[p]] = p
          \/ \E q \in Pkt : Node(q) /\ hash[q] = hash[p] /\ next[q] = p
    /\ \A p, q \in Pkt :
          Node(p) /\ Node(q) /\ next[p] = next[q] /\ next[p] # Null => p = q
    /\ \A p \in Pkt : Node(p) /\ next[p] # Null =>
          /\ Node(next[p])
          /\ hash[next[p]] = hash[p]
          /\ bucketPtr[hash[p]] # next[p]
    /\ \A b \in 0 .. Buckets - 1 : bucketPtr[b] # Null =>
          Node(bucketPtr[b]) /\ hash[bucketPtr[b]] = b
    /\ \A p, q \in Pkt :
          Node(p) /\ Node(q) /\ hash[p] = hash[q]
          /\ next[p] = Null /\ next[q] = Null => p = q

Ordered == \E born \in [Pkt -> Nat], top \in Nat : Born(born, top)

Pointers ==
    LET c == cursor
    IN  (c.pc \in {"walk", "callback"} /\ c.curr # Null) =>
          /\ Node(c.curr) \/ (Freed(c.curr) /\ hit)
          /\ Node(c.prev) \/ (Freed(c.prev) /\ hit)
          /\ Node(c.curr) => hash[c.curr] = c.i
          /\ Node(c.curr) /\ c.head = c.curr =>
                c.prev = c.curr /\ bucketPtr[c.i] = c.curr
          /\ Node(c.curr) /\ Node(c.prev) =>
                \/ c.prev = c.curr /\ c.head = c.curr
                \/ c.prev # c.curr /\ next[c.prev] = c.curr

Head ==
    LET c == cursor
    IN  c.pc \in {"walk", "callback"} =>
          c.head = bucketPtr[c.i] \/ c.head = Null \/ Freed(c.head)

Callback ==
    /\ cursor.pc = "callback" =>
          cursor.del \in Pkt /\ heap[cursor.del] = "unlinked"
    /\ \A p \in Pkt : heap[p] = "unlinked" =>
          cursor.pc = "callback" /\ cursor.del = p

IInv == TypeOK /\ (wild => hit) /\ (~wild => Lists /\ Ordered /\ Pointers /\ Head /\ Callback)

USE DEF Ptr

LEMMA Least ==
    ASSUME NEW T, T \subseteq Nat, T # {}
    PROVE  \E m \in T : \A n \in T : m <= n
  <1> DEFINE Less == OpToRel(<, Nat)
  <1>1. IsWellFoundedOn(Less, Nat)
      BY NatLessThanWellFounded
  <1>2. \A m, n \in Nat : m < n => <<m, n>> \in Less
      BY DEF OpToRel
  <1>3. PICK m \in T : \A n \in T : ~ (<<n, m>> \in Less)
    <2> HIDE DEF Less
    <2> QED
        BY <1>1, WFMin
  <1>4. \A n \in T : m <= n
    <2> HIDE DEF Less
    <2> SUFFICES ASSUME NEW n \in T, ~(m <= n) PROVE FALSE
        OBVIOUS
    <2>1. m \in Nat /\ n \in Nat /\ n < m
        BY SMT
    <2> QED
        BY <2>1, <1>2, <1>3
  <1> QED
      BY <1>4

(* A bucket with a node has a first one, and the bucket points at it.      *)
LEMMA FirstNode ==
    ASSUME TypeOK, Lists, Ordered, NEW p \in Pkt, Node(p)
    PROVE  bucketPtr[hash[p]] # Null
  <1>1. PICK born \in [Pkt -> Nat], top \in Nat : Born(born, top)
      BY DEF Ordered
  <1> DEFINE T == {born[q] : q \in {r \in Pkt : Node(r) /\ hash[r] = hash[p]}}
  <1>2. PICK m \in T : \A n \in T : m <= n
    <2>1. T \subseteq Nat /\ T # {}
        OBVIOUS
    <2> HIDE DEF T
    <2> QED
        BY <2>1, Least
  <1>3. PICK q \in Pkt : Node(q) /\ hash[q] = hash[p] /\ m = born[q]
      OBVIOUS
  <1>4. \A r \in Pkt : Node(r) /\ hash[r] = hash[p] => born[q] <= born[r]
      BY <1>2, <1>3
  <1>5. \A r \in Pkt : ~(Node(r) /\ hash[r] = hash[q] /\ next[r] = q)
    <2> SUFFICES ASSUME NEW r \in Pkt, Node(r), hash[r] = hash[q], next[r] = q
                 PROVE  FALSE
        OBVIOUS
    <2>1. born[r] < born[q]
        BY <1>1, NullAssumption DEF Born
    <2> QED
        BY <2>1, <1>3, <1>4, SMT
  <1> QED
      BY <1>3, <1>5, NullAssumption, SMT DEF Lists

(* ... and a last one.                                                     *)
LEMMA LastNode ==
    ASSUME TypeOK, Lists, Ordered, NEW p \in Pkt, Node(p)
    PROVE  \E q \in Pkt : Node(q) /\ hash[q] = hash[p] /\ next[q] = Null
  <1>1. PICK born \in [Pkt -> Nat], top \in Nat : Born(born, top)
      BY DEF Ordered
  <1> DEFINE T == {top - born[q] : q \in {r \in Pkt : Node(r) /\ hash[r] = hash[p]}}
  <1>2. PICK m \in T : \A n \in T : m <= n
    <2>1. T \subseteq Nat /\ T # {}
        BY <1>1, SMT DEF Born
    <2> HIDE DEF T
    <2> QED
        BY <2>1, Least
  <1>3. PICK q \in Pkt : Node(q) /\ hash[q] = hash[p] /\ m = top - born[q]
      OBVIOUS
  <1>4. \A r \in Pkt : Node(r) /\ hash[r] = hash[p] => born[r] <= born[q]
    <2> SUFFICES ASSUME NEW r \in Pkt, Node(r), hash[r] = hash[p]
                 PROVE  born[r] <= born[q]
        OBVIOUS
    <2>1. m <= top - born[r]
        BY <1>2
    <2> QED
        BY <2>1, <1>3, SMT
  <1>5. next[q] = Null
    <2> SUFFICES ASSUME next[q] # Null PROVE FALSE
        OBVIOUS
    <2>1. next[q] \in Pkt /\ Node(next[q]) /\ hash[next[q]] = hash[p]
        BY <1>3 DEF Lists, Node
    <2>2. born[q] < born[next[q]]
        BY <1>1, <1>3 DEF Born
    <2> QED
        BY <2>1, <2>2, <1>4, SMT
  <1> QED
      BY <1>3, <1>5

LEMMA InitInv == Init => IInv
  <1> SUFFICES ASSUME Init PROVE IInv
      OBVIOUS
  <1>1. cursor \in Cursor
      BY BucketsAssumption, SMT DEF Init, Cursor, Asleep
  <1>2. handed \in [stop : SUBSET Pkt, callback : SUBSET Pkt]
      BY DEF Init
  <1>3. /\ bucketPtr \in [0 .. Buckets - 1 -> Ptr]
        /\ next \in [Pkt -> Ptr]
        /\ count \in [Pkt -> Nat]
        /\ age \in [Pkt -> Nat]
        /\ heap \in [Pkt -> {"unused", "linked", "unlinked", "freed"}]
      BY DEF Init
  <1>4. hit \in BOOLEAN /\ wild \in BOOLEAN
      BY DEF Init
  <1>5. Lists /\ Pointers /\ Head /\ Callback
      BY DEF Init, Asleep, Lists, Pointers, Head, Callback, Node, Freed
  <1>6. Ordered
    <2> DEFINE born == [p \in Pkt |-> 0]
    <2>1. born \in [Pkt -> Nat] /\ Born(born, 0)
        BY SMT DEF Init, Born, Node
    <2> QED
        BY <2>1 DEF Ordered
  <1> QED
      BY <1>1, <1>2, <1>3, <1>4, <1>5, <1>6 DEF Init, IInv, TypeOK

(* The parts of IInv and the shape of a step that touches neither the      *)
(* lists nor the contexts.                                                 *)
LEMMA StartInv ==
    ASSUME IInv, NEW p \in Pkt, raw_proto_timer_start(p)
    PROVE  IInv'
  <1> DEFINE b == hash[p]
  <1>1. /\ ~wild /\ ~wild' /\ TypeOK /\ Lists /\ Ordered
        /\ Pointers /\ Head /\ Callback
        /\ heap[p] = "unused" /\ ~Node(p) /\ p # Null
        /\ b \in 0 .. Buckets - 1
        /\ UNCHANGED <<handed, cursor, hit, wild>>
      BY HashAssumption, NullAssumption
      DEF IInv, Node, raw_proto_timer_start, MutexFree
  <1>2. /\ next' \in [Pkt -> Ptr]
        /\ bucketPtr' \in [0 .. Buckets - 1 -> Ptr]
        /\ heap' = [heap EXCEPT ![p] = "linked"]
        /\ count' = [count EXCEPT ![p] = 1]
        /\ age' = [age EXCEPT ![p] = 0]
      BY <1>1 DEF TypeOK, raw_proto_timer_start, insert_raw_pkt
  <1>3. TypeOK'
      BY <1>1, <1>2 DEF TypeOK
  <1>4. /\ \A q \in Pkt : Node(q)' <=> Node(q) \/ q = p
        /\ \A q \in Pkt : Freed(q)' <=> Freed(q)
      BY <1>1, <1>2 DEF TypeOK, Node, Freed
  <1>5. /\ next'[p] = Null
        /\ \A q \in Pkt : Node(q) /\ hash[q] = b /\ next[q] = Null => next'[q] = p
        /\ \A q \in Pkt : Node(q) /\ (hash[q] # b \/ next[q] # Null) =>
              next'[q] = next[q]
      BY <1>1 DEF Linked, Node, raw_proto_timer_start, insert_raw_pkt
  <1>6. /\ bucketPtr[b] = Null => bucketPtr' = [bucketPtr EXCEPT ![b] = p]
        /\ bucketPtr[b] # Null => bucketPtr' = bucketPtr
      BY DEF raw_proto_timer_start, insert_raw_pkt
  <1>7. /\ bucketPtr[b] = Null => bucketPtr'[b] = p
        /\ \A a \in 0 .. Buckets - 1 : bucketPtr[a] # Null => bucketPtr'[a] = bucketPtr[a]
        /\ \A a \in 0 .. Buckets - 1 : a # b => bucketPtr'[a] = bucketPtr[a]
      BY <1>1, <1>6 DEF TypeOK
  <1>8. bucketPtr[b] = Null => \A q \in Pkt : Node(q) => hash[q] # b
      BY <1>1, FirstNode
  <1>9. bucketPtr[b] # Null =>
          \E q \in Pkt : Node(q) /\ hash[q] = b /\ next[q] = Null
      BY <1>1, LastNode, SMT DEF Lists, Node
  <1>10. Lists'
    <2>1. ASSUME NEW q \in Pkt, Node(q)'
          PROVE  \/ bucketPtr'[hash[q]] = q
                 \/ \E r \in Pkt : Node(r)' /\ hash[r] = hash[q] /\ next'[r] = q
      <3>1. CASE q = p
          BY <3>1, <1>4, <1>5, <1>7, <1>9
      <3>2. CASE q # p /\ bucketPtr[hash[q]] = q
          BY <3>2, <1>1, <1>7, HashAssumption, NullAssumption
      <3>3. CASE q # p /\ bucketPtr[hash[q]] # q
          BY <2>1, <3>3, <1>1, <1>4, <1>5, NullAssumption, SMT DEF Lists
      <3> QED
          BY <3>1, <3>2, <3>3
    <2>2. ASSUME NEW q \in Pkt, NEW r \in Pkt, Node(q)', Node(r)',
                 next'[q] = next'[r], next'[q] # Null
          PROVE  q = r
      <3>1. Node(q) /\ Node(r)
          BY <2>2, <1>4, <1>5
      <3>2. ~Node(next[q]) => next[q] = Null
          BY <3>1, <1>1 DEF Lists
      <3>3. ~Node(next[r]) => next[r] = Null
          BY <3>1, <1>1 DEF Lists
      <3> QED
          BY <2>2, <3>1, <3>2, <3>3, <1>1, <1>5, SMT DEF Lists
    <2>3. ASSUME NEW q \in Pkt, Node(q)', next'[q] # Null
          PROVE  /\ Node(next[q])'
                 /\ hash[next'[q]] = hash[q]
                 /\ bucketPtr'[hash[q]] # next'[q]
      <3>1. Node(q)
          BY <2>3, <1>4, <1>5
      <3>2. CASE hash[q] = b /\ next[q] = Null
        <4>1. next'[q] = p /\ bucketPtr[b] # Null
            BY <3>1, <3>2, <1>5, <1>8
        <4>2. bucketPtr'[b] # p
            BY <4>1, <1>1, <1>7 DEF Lists
        <4> QED
            BY <4>1, <4>2, <3>2, <1>4 DEF Node
      <3>3. CASE ~(hash[q] = b /\ next[q] = Null)
        <4>1. next'[q] = next[q] /\ next[q] # Null
            BY <2>3, <3>1, <3>3, <1>5
        <4>2. /\ Node(next[q]) /\ next[q] \in Pkt /\ hash[next[q]] = hash[q]
              /\ bucketPtr[hash[q]] # next[q]
            BY <4>1, <3>1, <1>1 DEF Lists, Node
        <4>3. bucketPtr'[hash[q]] # next[q]
            BY <4>2, <1>1, <1>7, <1>8, HashAssumption
        <4>4. Node(next[q])'
            BY <4>1, <4>2, <1>4 DEF Node
        <4> QED
            BY <4>1, <4>2, <4>3, <4>4
      <3> QED
          BY <3>2, <3>3
    <2>4. ASSUME NEW a \in 0 .. Buckets - 1, bucketPtr'[a] # Null
          PROVE  Node(bucketPtr[a])' /\ hash[bucketPtr'[a]] = a
      <3>1. CASE a = b /\ bucketPtr[a] = Null
          BY <3>1, <1>1, <1>4, <1>7 DEF Node
      <3>2. CASE ~(a = b /\ bucketPtr[a] = Null)
        <4>1. bucketPtr'[a] = bucketPtr[a]
            BY <3>2, <1>7
        <4> QED
            BY <4>1, <2>4, <1>1, <1>4, SMT DEF Lists, Node
      <3> QED
          BY <3>1, <3>2
    <2>5. ASSUME NEW q \in Pkt, NEW r \in Pkt, Node(q)', Node(r)',
                 hash[q] = hash[r], next'[q] = Null, next'[r] = Null
          PROVE  q = r
      <3>1. CASE hash[q] = b
        <4>1. q = p /\ r = p
            BY <2>5, <3>1, <1>1, <1>4, <1>5
        <4> QED
            BY <4>1
      <3>2. CASE hash[q] # b
        <4>1. Node(q) /\ Node(r) /\ next[q] = Null /\ next[r] = Null
            BY <2>5, <3>2, <1>4, <1>5
        <4> QED
            BY <4>1, <2>5, <1>1 DEF Lists
      <3> QED
          BY <3>1, <3>2
    <2> QED
        BY <2>1, <2>2, <2>3, <2>4, <2>5 DEF Lists, Node
  <1>11. Ordered'
    <2>1. PICK born \in [Pkt -> Nat], top \in Nat : Born(born, top)
        BY <1>1 DEF Ordered
    <2> DEFINE born2 == [born EXCEPT ![p] = top + 1]
    <2>2. born2 \in [Pkt -> Nat] /\ top + 1 \in Nat
        BY SMT
    <2>3. \A q \in Pkt : born2[q] <= top + 1
        BY <2>1, SMT DEF Born
    <2>4. ASSUME NEW q \in Pkt, Node(q)', next'[q] # Null
          PROVE  born2[q] < born2[next'[q]]
      <3>1. Node(q) /\ q # p
          BY <2>4, <1>1, <1>4, <1>5
      <3>2. CASE next'[q] = p
          BY <3>1, <3>2, <2>1, SMT DEF Born
      <3>3. CASE next'[q] # p
        <4>1. next'[q] = next[q] /\ next[q] \in Pkt
            BY <3>1, <3>3, <2>4, <1>1, <1>5 DEF TypeOK
        <4> QED
            BY <4>1, <3>1, <3>3, <2>1, <2>4 DEF Born
      <3> QED
          BY <3>2, <3>3
    <2> HIDE DEF born2
    <2>5. Born(born2, top + 1)'
        BY <2>3, <2>4 DEF Born
    <2> QED
        BY <2>2, <2>5 DEF Ordered
  <1>12. Pointers'
    <2> SUFFICES ASSUME cursor.pc \in {"walk", "callback"}, cursor.curr # Null
                 PROVE  Pointers'
        BY <1>1 DEF Pointers
    <2>1. /\ cursor.curr \in Pkt /\ cursor.prev \in Pkt
          /\ cursor.curr # p /\ cursor.prev # p
        BY <1>1, NullAssumption DEF Pointers, Node, Freed
    <2>2. cursor.i \in 0 .. Buckets - 1
        BY <1>1 DEF TypeOK, Cursor
    <2>3. /\ Node(cursor.curr)' <=> Node(cursor.curr)
          /\ Node(cursor.prev)' <=> Node(cursor.prev)
          /\ Freed(cursor.curr)' <=> Freed(cursor.curr)
          /\ Freed(cursor.prev)' <=> Freed(cursor.prev)
        BY <2>1, <1>1, <1>4 DEF Node, Freed
    <2>4. bucketPtr[cursor.i] = cursor.curr => bucketPtr'[cursor.i] = cursor.curr
        BY <2>2, <1>7
    <2>5. Node(cursor.prev) /\ next[cursor.prev] = cursor.curr => next'[cursor.prev] = cursor.curr
        BY <2>1, <1>5
    <2> QED
        BY <2>3, <2>4, <2>5, <1>1 DEF Pointers
  <1>13. Head'
    <2> SUFFICES ASSUME cursor.pc \in {"walk", "callback"}
                 PROVE  Head'
        BY <1>1 DEF Head
    <2>1. cursor.i \in 0 .. Buckets - 1
        BY <1>1 DEF TypeOK, Cursor
    <2>2. Freed(cursor.head) => Freed(cursor.head)'
        BY <1>1, <1>4 DEF Freed
    <2> QED
        BY <2>1, <2>2, <1>1, <1>7 DEF Head
  <1>14. Callback'
      BY <1>1, <1>2 DEF TypeOK, Callback
  <1> QED
      BY <1>1, <1>3, <1>10, <1>11, <1>12, <1>13, <1>14 DEF IInv

(* Taking a node out of its list, as delete_raw_pkt and the thread do.     *)
LEMMA Removal ==
    ASSUME TypeOK, Lists, Ordered, NEW p \in Pkt, Node(p), TypeOK',
           \A q \in Pkt : Node(q)' <=> Node(q) /\ q # p,
           \A q \in Pkt : Node(q) /\ q # p /\ next[q] = p => next'[q] = next[p],
           \A q \in Pkt : Node(q) /\ q # p /\ next[q] # p => next'[q] = next[q],
           bucketPtr[hash[p]] = p => bucketPtr'[hash[p]] = next[p],
           \A a \in 0 .. Buckets - 1 : bucketPtr[a] # p => bucketPtr'[a] = bucketPtr[a]
    PROVE  Lists' /\ Ordered'
  <1> USE HashAssumption, NullAssumption
  <1>0. hash[p] \in 0 .. Buckets - 1 /\ p # Null
      OBVIOUS
  <1>1. next[p] # Null => /\ Node(next[p]) /\ next[p] \in Pkt /\ next[p] # p
                          /\ hash[next[p]] = hash[p]
                          /\ bucketPtr[hash[p]] # next[p]
    <2>1. next[p] # p
      <3>1. PICK born \in [Pkt -> Nat], top \in Nat : Born(born, top)
          BY DEF Ordered
      <3> QED
          BY <3>1, SMT DEF Born
    <2> QED
        BY <2>1 DEF Lists, Node
  <1>2. ASSUME NEW q \in Pkt, Node(q)'
        PROVE  \/ bucketPtr'[hash[q]] = q
               \/ \E r \in Pkt : Node(r)' /\ hash[r] = hash[q] /\ next'[r] = q
    <2>1. Node(q) /\ q # p /\ hash[q] \in 0 .. Buckets - 1
        BY <1>2
    <2>2. CASE next[p] = q
      <3>1. hash[q] = hash[p]
          BY <1>1, <2>2
      <3>2. CASE bucketPtr[hash[p]] = p
          BY <3>1, <3>2, <2>2
      <3>3. CASE bucketPtr[hash[p]] # p
        <4>1. PICK r \in Pkt : Node(r) /\ hash[r] = hash[p] /\ next[r] = p
            BY <3>3 DEF Lists
        <4>2. r # p
            BY <4>1, <1>1, SMT
        <4> QED
            BY <4>1, <4>2, <3>1, <2>2
      <3> QED
          BY <3>2, <3>3
    <2>3. CASE next[p] # q /\ bucketPtr[hash[q]] = q
        BY <2>1, <2>3
    <2>4. CASE next[p] # q /\ bucketPtr[hash[q]] # q
      <3>1. PICK r \in Pkt : Node(r) /\ hash[r] = hash[q] /\ next[r] = q
          BY <2>1, <2>4 DEF Lists
      <3> QED
          BY <3>1, <2>1, <2>4
    <2> QED
        BY <2>2, <2>3, <2>4
  <1>3. ASSUME NEW q \in Pkt, NEW r \in Pkt, Node(q)', Node(r)',
               next'[q] = next'[r], next'[q] # Null
        PROVE  q = r
    <2>1. Node(q) /\ q # p /\ Node(r) /\ r # p
        BY <1>3
    <2>2. CASE next[q] = p /\ next[r] = p
        BY <2>1, <2>2, SMT DEF Lists
    <2>3. CASE next[q] = p /\ next[r] # p
        BY <1>3, <2>1, <2>3 DEF Lists
    <2>4. CASE next[q] # p /\ next[r] = p
        BY <1>3, <2>1, <2>4 DEF Lists
    <2>5. CASE next[q] # p /\ next[r] # p
        BY <1>3, <2>1, <2>5 DEF Lists
    <2> QED
        BY <2>2, <2>3, <2>4, <2>5
  <1>4. ASSUME NEW q \in Pkt, Node(q)', next'[q] # Null
        PROVE  /\ Node(next[q])'
               /\ hash[next'[q]] = hash[q]
               /\ bucketPtr'[hash[q]] # next'[q]
    <2>1. Node(q) /\ q # p /\ hash[q] \in 0 .. Buckets - 1
        BY <1>4
    <2>2. CASE next[q] = p
      <3>1. next'[q] = next[p] /\ hash[q] = hash[p] /\ bucketPtr[hash[q]] # p
          BY <2>1, <2>2 DEF Lists
      <3> QED
          BY <3>1, <1>1, <1>4, <2>1 DEF Node
    <2>3. CASE next[q] # p
      <3>1. /\ next'[q] = next[q] /\ Node(next[q]) /\ next[q] \in Pkt
            /\ hash[next[q]] = hash[q] /\ bucketPtr[hash[q]] # next[q]
          BY <1>4, <2>1, <2>3 DEF Lists, Node
      <3>2. CASE bucketPtr[hash[q]] = p
        <4>1. hash[q] = hash[p]
            BY <2>1, <3>2 DEF Lists
        <4>2. bucketPtr'[hash[q]] = next[p]
            BY <4>1, <3>2
        <4>3. next[p] # next[q]
            BY <2>1, <3>1 DEF Lists
        <4> QED
            BY <4>2, <4>3, <3>1, <2>3 DEF Node
      <3>3. CASE bucketPtr[hash[q]] # p
          BY <3>1, <3>3, <2>1, <2>3 DEF Node
      <3> QED
          BY <3>2, <3>3
    <2> QED
        BY <2>2, <2>3
  <1>5. ASSUME NEW a \in 0 .. Buckets - 1, bucketPtr'[a] # Null
        PROVE  Node(bucketPtr[a])' /\ hash[bucketPtr'[a]] = a
    <2>1. CASE bucketPtr[a] = p
      <3>1. hash[p] = a
          BY <2>1 DEF Lists
      <3> QED
          BY <3>1, <2>1, <1>1, <1>5 DEF Node
    <2>2. CASE bucketPtr[a] # p
        BY <2>2, <1>5 DEF Lists, Node
    <2> QED
        BY <2>1, <2>2
  <1>6. ASSUME NEW q \in Pkt, NEW r \in Pkt, Node(q)', Node(r)',
               hash[q] = hash[r], next'[q] = Null, next'[r] = Null
        PROVE  q = r
    <2>1. Node(q) /\ q # p /\ Node(r) /\ r # p
        BY <1>6
    <2>2. CASE next[q] = p /\ next[r] = p
        BY <2>1, <2>2, SMT DEF Lists
    <2>3. CASE next[q] = p /\ next[r] # p
        BY <1>6, <2>1, <2>3 DEF Lists
    <2>4. CASE next[q] # p /\ next[r] = p
        BY <1>6, <2>1, <2>4 DEF Lists
    <2>5. CASE next[q] # p /\ next[r] # p
        BY <1>6, <2>1, <2>5 DEF Lists
    <2> QED
        BY <2>2, <2>3, <2>4, <2>5
  <1>7. Lists'
      BY <1>2, <1>3, <1>4, <1>5, <1>6 DEF Lists, Node
  <1>8. Ordered'
    <2>1. PICK born \in [Pkt -> Nat], top \in Nat : Born(born, top)
        BY DEF Ordered
    <2>2. ASSUME NEW q \in Pkt, Node(q)', next'[q] # Null
          PROVE  born[q] < born[next'[q]]
      <3>1. Node(q) /\ q # p
          BY <2>2
      <3>2. CASE next[q] = p
        <4>1. born[q] < born[p] /\ next'[q] = next[p]
            BY <3>1, <3>2, <2>1 DEF Born
        <4>2. born[p] < born[next[p]] /\ next[p] \in Pkt
            BY <4>1, <2>1, <2>2, <1>1 DEF Born
        <4> QED
            BY <4>1, <4>2, SMT
      <3>3. CASE next[q] # p
          BY <3>1, <3>3, <2>1, <2>2 DEF Born
      <3> QED
          BY <3>2, <3>3
    <2>3. Born(born, top)'
        BY <2>1, <2>2 DEF Born
    <2> QED
        BY <2>3 DEF Ordered
  <1> QED
      BY <1>7, <1>8

LEMMA StopInv ==
    ASSUME IInv, NEW p \in Pkt, raw_proto_timer_stop(p)
    PROVE  IInv'
  <1> USE NullAssumption
  <1>1. /\ ~wild /\ ~wild' /\ TypeOK /\ Lists /\ Ordered
        /\ Pointers /\ Head /\ Callback
        /\ Node(p) /\ hash[p] \in 0 .. Buckets - 1
        /\ UNCHANGED <<count, age, cursor, wild>>
      BY HashAssumption DEF IInv, Node, raw_proto_timer_stop, MutexFree
  <1>2. /\ heap' = [heap EXCEPT ![p] = "freed"]
        /\ handed' = [handed EXCEPT !.stop = @ \cup {p}]
        /\ hit' = (hit \/ p \in {cursor.prev, cursor.curr})
      BY DEF raw_proto_timer_stop, delete_raw_pkt
  <1>3. /\ \A q \in Pkt : Node(q) /\ next[q] = p => next'[q] = next[p]
        /\ \A q \in Pkt : Node(q) /\ next[q] # p => next'[q] = next[q]
        /\ next' \in [Pkt -> Ptr]
      BY <1>1 DEF raw_proto_timer_stop, delete_raw_pkt, Linked, Node, TypeOK
  <1>4. /\ bucketPtr[hash[p]] = p => bucketPtr' = [bucketPtr EXCEPT ![hash[p]] = next[p]]
        /\ bucketPtr[hash[p]] # p => bucketPtr' = bucketPtr
      BY DEF raw_proto_timer_stop, delete_raw_pkt
  <1>5. /\ bucketPtr' \in [0 .. Buckets - 1 -> Ptr]
        /\ bucketPtr[hash[p]] = p => bucketPtr'[hash[p]] = next[p]
        /\ \A a \in 0 .. Buckets - 1 : bucketPtr[a] # p => bucketPtr'[a] = bucketPtr[a]
      BY <1>1, <1>4 DEF TypeOK
  <1>6. TypeOK'
    <2>1. handed' \in [stop : SUBSET Pkt, callback : SUBSET Pkt]
        BY <1>1, <1>2 DEF TypeOK
    <2>2. hit' \in BOOLEAN /\ wild' \in BOOLEAN
        BY <1>1, <1>2 DEF TypeOK
    <2> QED
        BY <2>1, <2>2, <1>1, <1>2, <1>3, <1>5 DEF TypeOK
  <1>7. /\ \A q \in Pkt : Node(q)' <=> Node(q) /\ q # p
        /\ \A q \in Pkt : Freed(q)' <=> Freed(q) \/ q = p
      BY <1>1, <1>2 DEF TypeOK, Node, Freed
  <1>8. Lists' /\ Ordered'
      BY <1>1, <1>3, <1>5, <1>6, <1>7, Removal
  <1>9. Pointers'
    <2> SUFFICES ASSUME cursor.pc \in {"walk", "callback"}, cursor.curr # Null
                 PROVE  Pointers'
        BY <1>1 DEF Pointers
    <2>1. cursor.curr \in Pkt /\ cursor.prev \in Pkt
        BY <1>1 DEF Pointers, Node, Freed
    <2>2. cursor.i \in 0 .. Buckets - 1
        BY <1>1 DEF TypeOK, Cursor
    <2>3. /\ Node(cursor.curr)' <=> Node(cursor.curr) /\ cursor.curr # p
          /\ Node(cursor.prev)' <=> Node(cursor.prev) /\ cursor.prev # p
          /\ Freed(cursor.curr)' <=> Freed(cursor.curr) \/ cursor.curr = p
          /\ Freed(cursor.prev)' <=> Freed(cursor.prev) \/ cursor.prev = p
        BY <2>1, <1>1, <1>7 DEF Node, Freed
    <2>4. (Freed(cursor.curr)' \/ Node(cursor.curr)') /\ (Freed(cursor.curr)' => hit')
        BY <2>3, <1>1, <1>2 DEF Pointers, Node, Freed
    <2>5. (Freed(cursor.prev)' \/ Node(cursor.prev)') /\ (Freed(cursor.prev)' => hit')
        BY <2>3, <1>1, <1>2 DEF Pointers, Node, Freed
    <2>6. Node(cursor.curr)' /\ bucketPtr[cursor.i] = cursor.curr =>
            bucketPtr'[cursor.i] = cursor.curr
        BY <2>2, <2>3, <1>5
    <2>7. Node(cursor.curr)' /\ Node(cursor.prev)' /\ next[cursor.prev] = cursor.curr =>
            next'[cursor.prev] = cursor.curr
        BY <2>1, <2>3, <1>3
    <2> QED
        BY <2>3, <2>4, <2>5, <2>6, <2>7, <1>1 DEF Pointers
  <1>10. Head'
    <2> SUFFICES ASSUME cursor.pc \in {"walk", "callback"}
                 PROVE  Head'
        BY <1>1 DEF Head
    <2>1. cursor.i \in 0 .. Buckets - 1 /\ cursor.head \in Ptr
        BY <1>1 DEF TypeOK, Cursor
    <2>2. Freed(cursor.head) => Freed(cursor.head)'
        BY <1>1, <1>7 DEF Freed
    <2>3. cursor.head = p => Freed(cursor.head)'
        BY <1>1, <1>7
    <2> QED
        BY <2>1, <2>2, <2>3, <1>1, <1>5 DEF Head
  <1>11. Callback'
      BY <1>1, <1>2 DEF TypeOK, Callback, Node
  <1> QED
      BY <1>1, <1>6, <1>8, <1>9, <1>10, <1>11 DEF IInv

LEMMA GiveUpInv ==
    ASSUME IInv, GiveUp
    PROVE  IInv'
  <1> DEFINE p == cursor.curr
             nx == next[cursor.curr]
  <1> USE NullAssumption
  <1>1. /\ ~wild /\ ~wild' /\ TypeOK /\ Lists /\ Ordered
        /\ Pointers /\ Head /\ Callback
        /\ cursor.pc = "walk"
        /\ UNCHANGED <<count, age, hit, wild>>
      BY DEF IInv, GiveUp, AtNode, Walking
  <1>2. /\ cursor.i \in 0 .. Buckets - 1 /\ p \in Pkt /\ cursor.prev \in Pkt
        /\ Node(p) /\ Node(cursor.prev) /\ hash[p] = cursor.i /\ nx \in Ptr
        /\ cursor \in Cursor
      BY <1>1 DEF GiveUp, AtNode, TypeOK, Cursor, Pointers, Node, Freed
  <1>3. /\ next' = [next EXCEPT ![cursor.prev] = nx]
        /\ heap' = [heap EXCEPT ![p] = "unlinked"]
        /\ handed' = [handed EXCEPT !.callback = @ \cup {p}]
      BY DEF GiveUp, Unlink
  <1>4. /\ cursor'.pc = "callback" /\ cursor'.del = p /\ cursor'.i = cursor.i
        /\ cursor'.curr = nx
        /\ cursor' \in Cursor
        /\ p = cursor.head => cursor'.head = nx /\ cursor'.prev = nx
        /\ p # cursor.head => cursor'.head = cursor.head /\ cursor'.prev = cursor.prev
      BY <1>2 DEF GiveUp, Unlink, Cursor
  <1>5. /\ p = cursor.head => bucketPtr' = [bucketPtr EXCEPT ![cursor.i] = nx]
        /\ p # cursor.head => bucketPtr' = bucketPtr
      BY DEF GiveUp, Unlink
  <1>6. /\ p = cursor.head => cursor.prev = p /\ bucketPtr[cursor.i] = p
        /\ p # cursor.head => cursor.prev # p /\ next[cursor.prev] = p
      BY <1>1, <1>2 DEF Pointers
  <1>7. p # cursor.head => bucketPtr[cursor.i] # p
      BY <1>2, <1>6, <1>1, SMT DEF Lists
  <1>8. TypeOK'
    <2>1. handed' \in [stop : SUBSET Pkt, callback : SUBSET Pkt]
        BY <1>1, <1>2, <1>3 DEF TypeOK
    <2>2. bucketPtr' \in [0 .. Buckets - 1 -> Ptr]
        BY <1>1, <1>2, <1>5 DEF TypeOK
    <2> QED
        BY <2>1, <2>2, <1>1, <1>2, <1>3, <1>4 DEF TypeOK
  <1>9. /\ \A q \in Pkt : Node(q)' <=> Node(q) /\ q # p
        /\ \A q \in Pkt : Freed(q)' <=> Freed(q)
      BY <1>1, <1>2, <1>3 DEF TypeOK, Node, Freed
  <1>10. /\ \A q \in Pkt : Node(q) /\ q # p /\ next[q] = p => next'[q] = nx
         /\ \A q \in Pkt : Node(q) /\ q # p /\ next[q] # p => next'[q] = next[q]
    <2>1. ASSUME NEW q \in Pkt, Node(q), q # p, next[q] = p
          PROVE  next'[q] = nx
      <3>1. p # cursor.head
          BY <2>1, <1>1, <1>2, <1>6, SMT DEF Lists
      <3>2. q = cursor.prev
          BY <2>1, <3>1, <1>1, <1>2, <1>6, SMT DEF Lists
      <3> QED
          BY <3>2, <1>1, <1>2, <1>3 DEF TypeOK
    <2>2. ASSUME NEW q \in Pkt, Node(q), q # p, next[q] # p
          PROVE  next'[q] = next[q]
      <3>1. q # cursor.prev
          BY <2>2, <1>6
      <3> QED
          BY <3>1, <2>2, <1>1, <1>3 DEF TypeOK
    <2> QED
        BY <2>1, <2>2
  <1>11. /\ bucketPtr[hash[p]] = p => bucketPtr'[hash[p]] = nx
         /\ \A a \in 0 .. Buckets - 1 : bucketPtr[a] # p => bucketPtr'[a] = bucketPtr[a]
      BY <1>1, <1>2, <1>5, <1>6, <1>7 DEF TypeOK
  <1>12. Lists' /\ Ordered'
      BY <1>1, <1>2, <1>8, <1>9, <1>10, <1>11, Removal, SMT
  <1>13. Pointers'
    <2> SUFFICES ASSUME nx # Null
                 PROVE  Pointers'
        BY <1>4 DEF Pointers
    <2>1. /\ nx \in Pkt /\ Node(nx) /\ nx # p /\ hash[nx] = cursor.i
          /\ bucketPtr[cursor.i] # nx
      <3>1. nx # p
          BY <1>1, <1>2, <1>6, SMT DEF Lists
      <3> QED
          BY <3>1, <1>1, <1>2, SMT DEF Lists, Node
    <2>2. heap'[nx] = "linked"
        BY <2>1, <1>1, <1>2, <1>3 DEF TypeOK, Node
    <2>3. CASE p = cursor.head
      <3>1. cursor'.head = nx /\ cursor'.prev = nx /\ cursor'.curr = nx
            /\ bucketPtr'[cursor.i] = nx /\ cursor'.i = cursor.i
          BY <2>3, <1>2, <1>4, <1>6, <1>11
      <3> QED
          BY <3>1, <2>1, <2>2 DEF Pointers, Node
    <2>4. CASE p # cursor.head
      <3>1. /\ cursor'.head = cursor.head /\ cursor'.prev = cursor.prev
            /\ cursor'.curr = nx /\ cursor'.i = cursor.i
            /\ next'[cursor.prev] = nx /\ cursor.prev # p
          BY <2>4, <1>2, <1>4, <1>6, <1>10
      <3>2. heap'[cursor.prev] = "linked"
          BY <3>1, <1>1, <1>2, <1>3 DEF TypeOK, Node
      <3>3. cursor.prev # nx
        <4>1. PICK born \in [Pkt -> Nat], top \in Nat : Born(born, top)
            BY <1>1 DEF Ordered
        <4>2. born[cursor.prev] < born[p] /\ born[p] < born[nx]
            BY <4>1, <2>4, <1>2, <1>6 DEF Born
        <4> QED
            BY <4>2, <2>1, <1>2, SMT
      <3>4. cursor.head # nx
          BY <2>1, <1>1 DEF Head, Freed, Node
      <3> QED
          BY <3>1, <3>2, <3>3, <3>4, <2>1, <2>2, <1>2 DEF Pointers, Node
    <2> QED
        BY <2>3, <2>4
  <1>14. Head'
    <2>1. CASE p = cursor.head
        BY <2>1, <1>2, <1>4, <1>6, <1>11 DEF Head
    <2>2. CASE p # cursor.head
      <3>1. /\ cursor'.head = cursor.head /\ cursor'.i = cursor.i
            /\ bucketPtr' = bucketPtr
          BY <2>2, <1>4, <1>5
      <3>2. Freed(cursor.head) => heap'[cursor.head] = "freed"
          BY <2>2, <1>1, <1>2, <1>3 DEF TypeOK, Freed
      <3> QED
          BY <3>1, <3>2, <1>1 DEF Head, Freed
    <2> QED
        BY <2>1, <2>2
  <1>15. Callback'
      BY <1>1, <1>2, <1>3, <1>4 DEF TypeOK, Callback
  <1> QED
      BY <1>1, <1>8, <1>12, <1>13, <1>14, <1>15 DEF IInv

LEMMA CallbackReturnsInv ==
    ASSUME IInv, CallbackReturns
    PROVE  IInv'
  <1>1. /\ ~wild /\ ~wild' /\ TypeOK /\ Lists /\ Ordered
        /\ Pointers /\ Head /\ Callback
        /\ cursor.pc = "callback" /\ cursor.del \in Pkt
        /\ heap[cursor.del] = "unlinked"
        /\ heap' = [heap EXCEPT ![cursor.del] = "freed"]
        /\ cursor' = [cursor EXCEPT !.pc = "walk", !.del = Null]
        /\ UNCHANGED <<bucketPtr, next, count, age, handed, hit, wild>>
      BY DEF IInv, CallbackReturns, Callback
  <1>2. /\ cursor'.i = cursor.i /\ cursor'.head = cursor.head
        /\ cursor'.prev = cursor.prev /\ cursor'.curr = cursor.curr
        /\ cursor'.pc = "walk" /\ cursor' \in Cursor
      BY <1>1 DEF TypeOK, Cursor
  <1>3. TypeOK'
      BY <1>1, <1>2 DEF TypeOK
  <1>4. /\ \A q : Node(q) <=> (q \in Pkt /\ heap'[q] = "linked")
        /\ \A q : Freed(q) => (q \in Pkt /\ heap'[q] = "freed")
      BY <1>1 DEF TypeOK, Node, Freed
  <1>5. Lists'
      BY <1>1, <1>4, SMT DEF Lists, Node
  <1>6. Ordered'
      BY <1>1, <1>4 DEF Ordered, Born, Node
  <1>7. Pointers'
      BY <1>1, <1>2, <1>4, SMT DEF Pointers, Node, Freed
  <1>8. Head'
      BY <1>1, <1>2, <1>4 DEF Head, Freed
  <1>9. Callback'
      BY <1>1, <1>2 DEF Callback, TypeOK
  <1> QED
      BY <1>1, <1>3, <1>5, <1>6, <1>7, <1>8, <1>9 DEF IInv

(* Steps of the thread that only move its pointers and count: the lists    *)
(* and the heap stay.                                                      *)
LEMMA MoveInv ==
    ASSUME IInv, ~wild,
           UNCHANGED <<bucketPtr, next, heap, handed, hit, wild>>,
           count' \in [Pkt -> Nat], age' \in [Pkt -> Nat],
           cursor' \in Cursor, cursor'.pc # "callback", cursor.pc # "callback",
           cursor'.pc = "walk" =>
               /\ cursor'.head = bucketPtr[cursor'.i] \/ cursor'.head = Null
                                                      \/ Freed(cursor'.head)
               /\ cursor'.curr # Null =>
                     /\ Node(cursor'.curr) /\ Node(cursor'.prev)
                     /\ hash[cursor'.curr] = cursor'.i
                     /\ cursor'.head = cursor'.curr =>
                           cursor'.prev = cursor'.curr /\ bucketPtr[cursor'.i] = cursor'.curr
                     /\ \/ cursor'.prev = cursor'.curr /\ cursor'.head = cursor'.curr
                        \/ cursor'.prev # cursor'.curr /\ next[cursor'.prev] = cursor'.curr
    PROVE  IInv'
  <1>1. TypeOK'
      BY DEF IInv, TypeOK
  <1>2. Lists'
      BY SMT DEF IInv, Lists, Node
  <1>3. Ordered'
      BY DEF IInv, Ordered, Born, Node
  <1>4. Pointers'
    <2> SUFFICES ASSUME cursor'.pc = "walk", cursor'.curr # Null
                 PROVE  Pointers'
        BY DEF Pointers
    <2>1. /\ heap'[cursor'.curr] = "linked" /\ cursor'.curr \in Pkt
          /\ heap'[cursor'.prev] = "linked" /\ cursor'.prev \in Pkt
        BY DEF Node
    <2> QED
        BY <2>1 DEF Pointers, Node
  <1>5. Head'
      BY DEF Head, Freed
  <1>6. Callback'
      BY DEF IInv, Callback
  <1> QED
      BY <1>1, <1>2, <1>3, <1>4, <1>5, <1>6 DEF IInv

LEMMA NextBucketType ==
    ASSUME TypeOK
    PROVE  NextBucket \in Cursor /\ NextBucket.pc \in {"sleep", "lock"}
  <1>1. cursor.i \in 0 .. Buckets - 1
      BY DEF TypeOK, Cursor
  <1>2. Asleep \in Cursor /\ Asleep.pc = "sleep"
      BY BucketsAssumption, SMT DEF Asleep, Cursor
  <1>3. CASE cursor.i = Buckets - 1
      BY <1>2, <1>3 DEF NextBucket
  <1>4. CASE cursor.i # Buckets - 1
    <2>1. cursor.i + 1 \in 0 .. Buckets - 1
        BY <1>1, <1>4, BucketsAssumption, SMT
    <2>2. [Asleep EXCEPT !.pc = "lock", !.i = cursor.i + 1] \in Cursor
        BY <2>1 DEF Asleep, Cursor
    <2> QED
        BY <2>2, <1>4 DEF NextBucket, Asleep
  <1> QED
      BY <1>3, <1>4

LEMMA LockBucketInv ==
    ASSUME IInv, LockBucket
    PROVE  IInv'
  <1>1. /\ ~wild /\ ~wild' /\ TypeOK /\ Lists /\ cursor.pc = "lock"
        /\ UNCHANGED <<bucketPtr, next, count, age, heap, handed, hit, wild>>
      BY DEF IInv, LockBucket
  <1>2. cursor.i \in 0 .. Buckets - 1 /\ bucketPtr[cursor.i] \in Ptr
      BY <1>1 DEF TypeOK, Cursor
  <1>3. CASE bucketPtr[cursor.i] = Null
    <2>1. cursor' = NextBucket
        BY <1>3 DEF LockBucket
    <2> QED
        BY <2>1, <1>1, NextBucketType, MoveInv DEF TypeOK
  <1>4. CASE bucketPtr[cursor.i] # Null
    <2> DEFINE f == bucketPtr[cursor.i]
    <2>1. cursor' = [cursor EXCEPT !.pc = "walk", !.head = f, !.prev = f, !.curr = f]
        BY <1>4 DEF LockBucket
    <2>2. /\ cursor' \in Cursor /\ cursor'.pc = "walk" /\ cursor'.i = cursor.i
          /\ cursor'.head = f /\ cursor'.prev = f /\ cursor'.curr = f
        BY <2>1, <1>1, <1>2 DEF TypeOK, Cursor
    <2>3. Node(f) /\ hash[f] = cursor.i
        BY <1>1, <1>2, <1>4 DEF Lists
    <2> QED
        BY <2>2, <2>3, <1>1, MoveInv DEF TypeOK
  <1> QED
      BY <1>3, <1>4

(* The thread moves on to the next node of the list.                       *)
LEMMA AdvanceInv ==
    ASSUME IInv, AtNode, cursor' = Advance,
           UNCHANGED <<bucketPtr, next, heap, handed, hit, wild>>,
           count' \in [Pkt -> Nat], age' \in [Pkt -> Nat]
    PROVE  IInv'
  <1> DEFINE p == cursor.curr
             nx == next[cursor.curr]
  <1> USE NullAssumption
  <1>1. /\ ~wild /\ TypeOK /\ Lists /\ Ordered /\ Pointers /\ Head
        /\ cursor.pc = "walk"
      BY DEF IInv, AtNode, Walking
  <1>2. /\ p \in Pkt /\ Node(p) /\ hash[p] = cursor.i /\ nx \in Ptr
        /\ cursor \in Cursor
      BY <1>1 DEF AtNode, TypeOK, Cursor, Pointers, Node, Freed
  <1>3. /\ cursor' \in Cursor /\ cursor'.pc = "walk" /\ cursor'.i = cursor.i
        /\ cursor'.head = cursor.head /\ cursor'.prev = p /\ cursor'.curr = nx
      BY <1>1, <1>2 DEF Advance, Cursor
  <1>4. ASSUME nx # Null
        PROVE  /\ Node(nx) /\ hash[nx] = cursor.i /\ nx # p /\ cursor.head # nx
    <2>1. Node(nx) /\ nx \in Pkt /\ hash[nx] = cursor.i /\ bucketPtr[cursor.i] # nx
        BY <1>1, <1>2, <1>4, SMT DEF Lists, Node
    <2>2. nx # p
      <3>1. PICK born \in [Pkt -> Nat], top \in Nat : Born(born, top)
          BY <1>1 DEF Ordered
      <3> QED
          BY <3>1, <1>2, <1>4, SMT DEF Born
    <2>3. cursor.head # nx
        BY <2>1, <1>1 DEF Head, Node, Freed
    <2> QED
        BY <2>1, <2>2, <2>3
  <1>5. cursor.head = bucketPtr[cursor.i] \/ cursor.head = Null \/ Freed(cursor.head)
      BY <1>1 DEF Head
  <1> QED
      BY <1>1, <1>2, <1>3, <1>4, <1>5, MoveInv

LEMMA StepInv ==
    ASSUME IInv, [Next]_vars
    PROVE  IInv'
  <1>1. CASE UNCHANGED vars
    <2>1. TypeOK' /\ (wild => hit)'
        BY <1>1 DEF IInv, vars, TypeOK
    <2>2. ~wild' => (Lists /\ Pointers /\ Head /\ Callback)'
        BY <1>1, SMT DEF IInv, vars, Lists, Pointers, Head, Callback, Node, Freed
    <2>3. ~wild' => Ordered'
        BY <1>1 DEF IInv, vars, Ordered, Born, Node
    <2> QED
        BY <2>1, <2>2, <2>3 DEF IInv
  <1>2. ASSUME NEW p \in Pkt, raw_proto_timer_start(p)
        PROVE  IInv'
      BY <1>2, StartInv
  <1>3. ASSUME NEW p \in Pkt, raw_proto_timer_stop(p)
        PROVE  IInv'
      BY <1>3, StopInv
  <1>4. CASE Second
    <2>1. /\ ~wild /\ ~wild' /\ TypeOK /\ Lists /\ Ordered
          /\ Pointers /\ Head /\ Callback
          /\ age' \in [Pkt -> Nat]
          /\ UNCHANGED <<bucketPtr, next, count, heap, handed, cursor, hit, wild>>
        BY <1>4, SMT DEF IInv, Second, TypeOK
    <2>2. TypeOK'
        BY <2>1 DEF TypeOK
    <2>3. (Lists /\ Pointers /\ Head /\ Callback)'
        BY <2>1, SMT DEF Lists, Pointers, Head, Callback, Node, Freed
    <2>4. Ordered'
        BY <2>1 DEF Ordered, Born, Node
    <2> QED
        BY <2>1, <2>2, <2>3, <2>4 DEF IInv
  <1>5. CASE raw_pkt_retransmision_thread_entry
    <2>1. /\ ~wild /\ ~wild' /\ TypeOK /\ cursor.pc = "sleep"
          /\ cursor' = [cursor EXCEPT !.pc = "lock"]
          /\ UNCHANGED <<bucketPtr, next, count, age, heap, handed, hit, wild>>
        BY <1>5 DEF IInv, raw_pkt_retransmision_thread_entry
    <2>2. cursor' \in Cursor /\ cursor'.pc = "lock"
        BY <2>1 DEF TypeOK, Cursor
    <2> QED
        BY <2>1, <2>2, MoveInv DEF TypeOK
  <1>6. CASE LockBucket
      BY <1>6, LockBucketInv
  <1>7. CASE EndOfBucket
    <2>1. /\ ~wild /\ ~wild' /\ TypeOK /\ cursor.pc = "walk"
          /\ cursor' = NextBucket
          /\ UNCHANGED <<bucketPtr, next, count, age, heap, handed, hit, wild>>
        BY <1>7 DEF IInv, EndOfBucket, Walking
    <2> QED
        BY <2>1, NextBucketType, MoveInv DEF TypeOK
  <1>8. CASE NotDue
    <2>1. /\ AtNode /\ cursor' = Advance
          /\ UNCHANGED <<bucketPtr, next, count, age, heap, handed, hit, wild>>
          /\ count' \in [Pkt -> Nat] /\ age' \in [Pkt -> Nat]
        BY <1>8 DEF IInv, NotDue, AtNode, Walking, TypeOK
    <2> QED
        BY <2>1, AdvanceInv
  <1>9. CASE Retransmit
    <2>1. /\ AtNode /\ cursor' = Advance
          /\ UNCHANGED <<bucketPtr, next, heap, handed, hit, wild>>
          /\ count' = [count EXCEPT ![cursor.curr] = @ + 1]
          /\ age' = [age EXCEPT ![cursor.curr] = 0]
          /\ TypeOK
        BY <1>9 DEF IInv, Retransmit, AtNode, Walking
    <2>2. cursor.curr \in Pkt
        BY <2>1 DEF AtNode, TypeOK, Cursor
    <2>3. count' \in [Pkt -> Nat] /\ age' \in [Pkt -> Nat]
        BY <2>1, <2>2, SMT DEF TypeOK
    <2> QED
        BY <2>1, <2>3, AdvanceInv
  <1>10. CASE GiveUp
      BY <1>10, GiveUpInv
  <1>11. CASE CallbackReturns
      BY <1>11, CallbackReturnsInv
  <1>12. CASE Stray
    <2>1. /\ wild' = TRUE /\ TypeOK /\ Pointers /\ cursor.pc = "walk"
          /\ cursor.curr # Null
          /\ UNCHANGED <<bucketPtr, next, count, age, heap, handed, cursor, hit>>
          /\ heap[cursor.curr] # "linked" \/ heap[cursor.prev] # "linked"
        BY <1>12 DEF IInv, Stray, Walking
    <2>2. hit
        BY <2>1 DEF Pointers, Node
    <2>3. TypeOK'
        BY <2>1 DEF TypeOK
    <2> QED
        BY <2>1, <2>2, <2>3 DEF IInv
  <1> QED
      BY <1>1, <1>2, <1>3, <1>4, <1>5, <1>6, <1>7, <1>8, <1>9, <1>10, <1>11, <1>12
      DEF Next, raw_pkt_retransmit

LEMMA Invariance == Spec => []IInv
  BY InitInv, StepInv, PTL DEF Spec

(* Where a context is: with the node while it is linked, handed out after. *)
HandedOK ==
    /\ handed.stop \in SUBSET Pkt /\ handed.callback \in SUBSET Pkt
    /\ \A p \in Pkt : heap[p] \in {"unused", "linked"} =>
          p \notin handed.stop /\ p \notin handed.callback

LEMMA HandedStep ==
    ASSUME IInv, HandedOK, [Next]_vars
    PROVE  HandedOK' /\ [Promise!Next]_Outcome
  <1>0. TypeOK
      BY DEF IInv
  <1> USE DEF HandedOK
  <1>1. ASSUME UNCHANGED <<heap, handed>>
        PROVE  HandedOK' /\ UNCHANGED Outcome
      BY <1>1 DEF Outcome
  <1>2. ASSUME NEW p \in Pkt, raw_proto_timer_start(p)
        PROVE  HandedOK' /\ Promise!Start(p)
    <2>1. /\ heap[p] = "unused" /\ heap' = [heap EXCEPT ![p] = "linked"]
          /\ UNCHANGED handed
        BY <1>2 DEF raw_proto_timer_start, insert_raw_pkt
    <2>2. HandedOK'
        BY <1>0, <2>1 DEF TypeOK
    <2>3. Outcome[p] = "none" /\ Outcome' = [Outcome EXCEPT ![p] = "waiting"]
        BY <1>0, <2>1 DEF TypeOK, Outcome
    <2> QED
        BY <1>0, <2>2, <2>3 DEF Promise!Start, Promise!Move
  <1>3. ASSUME NEW p \in Pkt, raw_proto_timer_stop(p)
        PROVE  HandedOK' /\ Promise!Answer(p)
    <2>1. /\ heap[p] = "linked" /\ heap' = [heap EXCEPT ![p] = "freed"]
          /\ handed' = [handed EXCEPT !.stop = @ \cup {p}]
        BY <1>3 DEF raw_proto_timer_stop, delete_raw_pkt
    <2>2. /\ handed'.stop = handed.stop \cup {p}
          /\ handed'.callback = handed.callback
        BY <1>0, <2>1 DEF TypeOK
    <2>3. HandedOK'
        BY <1>0, <2>1, <2>2 DEF TypeOK
    <2>4. Outcome[p] = "waiting" /\ Outcome' = [Outcome EXCEPT ![p] = "answered"]
        BY <1>0, <2>1, <2>2 DEF TypeOK, Outcome
    <2> QED
        BY <1>0, <2>3, <2>4 DEF Promise!Answer, Promise!Move
  <1>4. ASSUME GiveUp
        PROVE  HandedOK' /\ cursor.curr \in Pkt /\ Promise!GiveUp(cursor.curr)
    <2> DEFINE p == cursor.curr
    <2>1. /\ heap[p] = "linked" /\ heap' = [heap EXCEPT ![p] = "unlinked"]
          /\ handed' = [handed EXCEPT !.callback = @ \cup {p}]
        BY <1>4 DEF GiveUp, Unlink, AtNode
    <2>2. p \in Pkt
        BY <1>0, <1>4 DEF GiveUp, AtNode, TypeOK, Cursor
    <2>3. /\ handed'.stop = handed.stop
          /\ handed'.callback = handed.callback \cup {p}
        BY <1>0, <2>1 DEF TypeOK
    <2>4. HandedOK'
        BY <1>0, <2>1, <2>2, <2>3 DEF TypeOK
    <2>5. Outcome[p] = "waiting" /\ Outcome' = [Outcome EXCEPT ![p] = "gaveup"]
        BY <1>0, <2>1, <2>2, <2>3 DEF TypeOK, Outcome
    <2> QED
        BY <1>0, <2>2, <2>4, <2>5 DEF Promise!GiveUp, Promise!Move
  <1>5. ASSUME CallbackReturns
        PROVE  HandedOK' /\ UNCHANGED Outcome
    <2>1. /\ heap' = [heap EXCEPT ![cursor.del] = "freed"] /\ handed' = handed
          /\ cursor.del \in Pkt /\ heap[cursor.del] = "unlinked"
        BY <1>5 DEF CallbackReturns, IInv, Callback
    <2> QED
        BY <1>0, <2>1 DEF TypeOK, Outcome
  <1>6. \/ UNCHANGED <<heap, handed>>
        \/ \E p \in Pkt : raw_proto_timer_start(p) \/ raw_proto_timer_stop(p)
        \/ GiveUp \/ CallbackReturns
      BY DEF Next, vars, Second, raw_pkt_retransmision_thread_entry,
             raw_pkt_retransmit, LockBucket, EndOfBucket, NotDue, Retransmit, Stray
  <1> QED
      BY <1>1, <1>2, <1>3, <1>4, <1>5, <1>6 DEF Promise!Next

(* The timer implements its promise: whatever the threads do, the context  *)
(* of a packet is handed out once, by raw_proto_timer_stop or by the       *)
(* callback of raw_pkt_retransmit.                                         *)
THEOREM OutcomeTheorem == Spec => OneOutcome
  <1>1. Init => HandedOK /\ Promise!Init
      BY SMT DEF Init, HandedOK, Promise!Init, Outcome
  <1>2. IInv /\ HandedOK /\ [Next]_vars => HandedOK' /\ [Promise!Next]_Outcome
      BY HandedStep
  <1> QED
      BY <1>1, <1>2, Invariance, PTL DEF Spec, OneOutcome, Promise!Spec

(* The lists of raw_proto_timer.c stay sound, for every number of packets, *)
(* buckets and retransmissions, up to an access to a freed node.           *)
THEOREM ListsTheorem == Spec => []ListsSound
  <1>1. IInv => ListsSound
      BY NullAssumption DEF IInv, ListsSound, Lists, Linked, Node
  <1> QED
      BY <1>1, Invariance, PTL

(* The pointers raw_pkt_retransmit keeps across the callback are what its  *)
(* comment says unless a stop freed one meanwhile, and only then does the  *)
(* thread touch a freed node.                                              *)
THEOREM CursorTheorem == Spec => []CursorInList
  <1>1. IInv => CursorInList
    <2> SUFFICES ASSUME IInv, cursor.pc = "walk", cursor.curr # Null, ~hit
                 PROVE  CursorInList
        BY DEF IInv, CursorInList
    <2>1. ~wild /\ Pointers
        BY DEF IInv
    <2> QED
        BY <2>1 DEF Pointers, CursorInList, Linked, Node
  <1> QED
      BY <1>1, Invariance, PTL

(* No two packets in one bucket, as with consecutive query ids and fewer   *)
(* packets than buckets: the thread keeps no pointer across the callback.  *)
Unshared == \A p, q \in Pkt : hash[p] = hash[q] => p = q

Alone == ~hit /\ (cursor.pc # "walk" => cursor.prev = Null /\ cursor.curr = Null)

LEMMA AloneStep ==
    ASSUME Unshared, IInv, Alone, [Next]_vars
    PROVE  Alone'
  <1> USE NullAssumption DEF Alone
  <1>1. CASE UNCHANGED <<cursor, hit>>
      BY <1>1
  <1>2. ASSUME NEW p \in Pkt, raw_proto_timer_stop(p)
        PROVE  Alone'
      BY <1>2 DEF raw_proto_timer_stop, MutexFree
  <1>3. CASE raw_pkt_retransmision_thread_entry
    <2>1. cursor \in Cursor
        BY DEF IInv, TypeOK
    <2> QED
        BY <1>3, <2>1 DEF raw_pkt_retransmision_thread_entry, Cursor
  <1>4. NextBucket.prev = Null /\ NextBucket.curr = Null
      BY DEF NextBucket, Asleep
  <1>5. CASE LockBucket
    <2>1. cursor \in Cursor
        BY DEF IInv, TypeOK
    <2>2. cursor' = NextBucket \/ cursor'.pc = "walk"
        BY <1>5, <2>1 DEF LockBucket, Cursor
    <2> QED
        BY <1>4, <1>5, <2>2 DEF LockBucket
  <1>6. CASE EndOfBucket
      BY <1>4, <1>6 DEF EndOfBucket
  <1>7. CASE NotDue \/ Retransmit
    <2>1. cursor \in Cursor /\ cursor.pc = "walk" /\ cursor' = Advance /\ hit' = hit
        BY <1>7 DEF IInv, TypeOK, NotDue, Retransmit, AtNode, Walking
    <2> QED
        BY <2>1 DEF Advance, Cursor
  <1>8. CASE GiveUp
    <2> DEFINE p == cursor.curr
               nx == next[cursor.curr]
    <2>1. /\ TypeOK /\ Lists /\ Ordered /\ Pointers /\ cursor.pc = "walk" /\ p # Null
          /\ p \in Pkt /\ Node(p) /\ Node(cursor.prev) /\ cursor \in Cursor
          /\ hit' = hit
        BY <1>8 DEF IInv, GiveUp, AtNode, Walking, TypeOK, Cursor, Pointers, Node, Freed
    <2>2. p = cursor.head
        BY <2>1, SMT DEF Unshared, Pointers, Lists, Node
    <2>3. nx = Null
      <3>1. PICK born \in [Pkt -> Nat], top \in Nat : Born(born, top)
          BY <2>1 DEF Ordered
      <3> SUFFICES ASSUME nx # Null PROVE FALSE
          OBVIOUS
      <3>2. nx \in Pkt /\ hash[nx] = hash[p]
          BY <2>1 DEF Lists, Node
      <3>3. born[p] < born[nx]
          BY <2>1, <3>1 DEF Born
      <3> QED
          BY <2>1, <3>2, <3>3, SMT DEF Unshared
    <2>4. cursor'.curr = nx /\ cursor'.prev = nx
        BY <1>8, <2>1, <2>2 DEF GiveUp, Unlink, Cursor
    <2> QED
        BY <2>1, <2>3, <2>4
  <1>9. CASE CallbackReturns
    <2>1. cursor \in Cursor
        BY DEF IInv, TypeOK
    <2> QED
        BY <1>9, <2>1 DEF CallbackReturns, Cursor
  <1>10. \/ UNCHANGED <<cursor, hit>>
         \/ \E p \in Pkt : raw_proto_timer_stop(p)
         \/ raw_pkt_retransmision_thread_entry \/ LockBucket \/ EndOfBucket
         \/ NotDue \/ Retransmit \/ GiveUp \/ CallbackReturns
      BY DEF Next, vars, Second, raw_proto_timer_start, raw_pkt_retransmit, Stray
  <1> QED
      BY <1>1, <1>2, <1>3, <1>5, <1>6, <1>7, <1>8, <1>9, <1>10

(* raw_pkt_retransmit never touches a freed node as long as the packets    *)
(* that wait are in different buckets of the hash table.                   *)
THEOREM UnsharedTheorem == Unshared => (Spec => []~wild)
  <1> SUFFICES ASSUME Unshared PROVE Spec => []~wild
      OBVIOUS
  <1>1. Init => Alone
      BY SMT DEF Init, Alone, Asleep
  <1>2. IInv /\ Alone /\ [Next]_vars => Alone'
      BY AloneStep
  <1>3. IInv /\ Alone => ~wild
      BY DEF IInv, Alone
  <1> QED
      BY <1>1, <1>2, <1>3, Invariance, PTL DEF Spec

(* The variables of the timer keep their types.                            *)
THEOREM TypeTheorem == Spec => []TypeOK
  <1>1. IInv => TypeOK
      BY DEF IInv
  <1> QED
      BY <1>1, Invariance, PTL
=============================================================================
