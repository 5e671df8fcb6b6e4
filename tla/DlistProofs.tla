---------------------------- MODULE DlistProofs ----------------------------
(***************************************************************************)
(* Theorems about the list and the loop over it, for any finite memory and *)
(* any clients.                                                            *)
(***************************************************************************)
EXTENDS Dlist, SequenceTheorems, FiniteSetTheorems, FunctionTheorems,
        WellFoundedInduction, TLAPS

Searching == pc \in {"search", "found"}
InBody    == pc = "body" \/ (Searching /\ caller = "loop")
InLoop    == pc = "loop" \/ InBody

\* Each element is a client of its own.
Valued ==
  \A n \in Nodes :
    value[n] \in Value /\ \A m \in Nodes : m # n => value[m] # value[n]

\* A search stands at an element, in a loop for the one in hand.
Seeking ==
  /\ Searching => seek \in Nodes \cup {Null}
  /\ Searching /\ caller = "loop" => key = value[curr]
  /\ pc = "found" => seek # Null /\ value[seek] = key

\* What the loop has returned is the first part of what it began with, taken from
\* its end; the rest is on the list, at the end the loop goes to.
Forward ==
  LET m == Len(loop.visited)
      n == Len(loop.start)
      gone == n - len
  IN /\ m <= n /\ n - m <= len
     /\ \A k \in 1..m : loop.visited[k] = loop.start[k]
     /\ \A k \in (m + 1)..n : order[k - gone] = loop.start[k]
     /\ iter.next = At(loop.start, m + 1)
     /\ InBody => m - gone \in 1..len /\ curr = order[m - gone]

Backward ==
  LET m == Len(loop.visited)
      n == Len(loop.start)
  IN /\ m <= n /\ n - m <= len
     /\ \A k \in 1..m : loop.visited[k] = loop.start[n + 1 - k]
     /\ \A k \in 1..(n - m) : order[k] = loop.start[k]
     /\ iter.next = At(loop.start, n - m)
     /\ InBody => n - m + 1 \in 1..len /\ curr = order[n - m + 1]

Looping ==
  InLoop => /\ IF iter.direction = "head" THEN Forward ELSE Backward
            /\ \A a, b \in DOMAIN loop.start : a # b => loop.start[a] # loop.start[b]
            /\ RemainsOf(loop.start)

\* The nodes that dlist_destroy has not come to are there.
Destroying ==
  /\ pc = "destroy" =>
       /\ left <= len
       /\ curr = At(order, len - left + 1)
       /\ alloc = {order[k] : k \in (len - left + 1)..len}
  /\ pc = "gone" => alloc = {}

ListInv == TypeOK /\ WellLinked /\ Valued /\ Seeking /\ Looping /\ Destroying

-----------------------------------------------------------------------------
(* Sequences with an element put in or taken out.                          *)

\* What Inserted makes of a sequence, position by position.
IsInserted(t, s, p, e) ==
  /\ t \in Seq(Node) /\ Len(t) = Len(s) + 1
  /\ \A k \in 1..(Len(s) + 1) : t[k] = IF k < p THEN s[k] ELSE IF k = p THEN e ELSE s[k - 1]

LEMMA InsertedProperties ==
  ASSUME NEW s \in Seq(Node), NEW p \in 1..(Len(s) + 1), NEW e \in Node
  PROVE  IsInserted(Inserted(s, p, e), s, p, e)
<1> DEFINE a == SubSeq(s, 1, p - 1)
           b == SubSeq(s, p, Len(s))
<1>1. Len(s) \in Nat /\ p \in Int /\ \A k \in 1..Len(s) : s[k] \in Node
  BY LenProperties, ElementOfSeq
<1>2. a \in Seq(Node) /\ Len(a) = p - 1 /\ \A k \in 1..(p - 1) : a[k] = s[k]
  <2>1. \A k \in 1..(p - 1) : s[k] \in Node
    BY <1>1
  <2>2. /\ a \in Seq(Node) /\ Len(a) = IF 1 <= p - 1 THEN (p - 1) - 1 + 1 ELSE 0
        /\ \A k \in 1..((p - 1) - 1 + 1) : a[k] = s[1 + k - 1]
    BY <2>1, <1>1, SubSeqProperties
  <2> HIDE DEF a
  <2>3. QED
    BY <2>2, <1>1
<1>3. /\ b \in Seq(Node) /\ Len(b) = Len(s) - p + 1
      /\ \A k \in 1..(Len(s) - p + 1) : b[k] = s[p + k - 1]
  <2>1. \A k \in p..Len(s) : s[k] \in Node
    BY <1>1
  <2>2. /\ b \in Seq(Node) /\ Len(b) = IF p <= Len(s) THEN Len(s) - p + 1 ELSE 0
        /\ \A k \in 1..(Len(s) - p + 1) : b[k] = s[p + k - 1]
    BY <2>1, <1>1, SubSeqProperties
  <2> HIDE DEF b
  <2>3. QED
    BY <2>2, <1>1
<1>4. <<e>> \in Seq(Node) /\ Len(<<e>>) = 1 /\ <<e>>[1] = e
  OBVIOUS
<1> HIDE DEF a, b
<1>5. /\ a \o <<e>> \in Seq(Node) /\ Len(a \o <<e>>) = p
      /\ \A k \in 1..p : (a \o <<e>>)[k] = IF k < p THEN s[k] ELSE e
  <2>1. /\ a \o <<e>> \in Seq(Node) /\ Len(a \o <<e>>) = Len(a) + Len(<<e>>)
        /\ \A k \in 1..(Len(a) + Len(<<e>>)) :
             (a \o <<e>>)[k] = IF k <= Len(a) THEN a[k] ELSE <<e>>[k - Len(a)]
    BY <1>2, <1>4, ConcatProperties
  <2>2. \A k \in 1..p : ~(k < p) => k - Len(a) = 1
    BY <1>1, <1>2
  <2>3. QED
    BY <2>1, <2>2, <1>1, <1>2, <1>4
<1> DEFINE c == a \o <<e>>
<1> HIDE DEF c
<1>6. /\ c \o b \in Seq(Node) /\ Len(c \o b) = Len(s) + 1
      /\ \A k \in 1..(Len(s) + 1) : (c \o b)[k] = IF k <= p THEN c[k] ELSE b[k - p]
  <2>1. c \in Seq(Node) /\ Len(c) = p
    BY <1>5 DEF c
  <2>2. /\ c \o b \in Seq(Node) /\ Len(c \o b) = Len(c) + Len(b)
        /\ \A k \in 1..(Len(c) + Len(b)) :
             (c \o b)[k] = IF k <= Len(c) THEN c[k] ELSE b[k - Len(c)]
    BY <2>1, <1>3, ConcatProperties
  <2>3. Len(c) + Len(b) = Len(s) + 1
    BY <2>1, <1>1, <1>3
  <2>4. QED
    BY <2>1, <2>2, <2>3
<1>7. Inserted(s, p, e) = c \o b
  BY DEF Inserted, a, b, c
<1>8. ASSUME NEW k \in 1..(Len(s) + 1)
      PROVE  (c \o b)[k] = IF k < p THEN s[k] ELSE IF k = p THEN e ELSE s[k - 1]
  <2>1. CASE k <= p
    <3>1. k \in 1..p /\ (~(k < p) => k = p)
      BY <2>1, <1>1
    <3>2. c[k] = IF k < p THEN s[k] ELSE e
      BY <3>1, <1>5 DEF c
    <3>3. (c \o b)[k] = c[k]
      BY <2>1, <1>6
    <3>4. QED
      BY <3>1, <3>2, <3>3
  <2>2. CASE ~(k <= p)
    <3>1. /\ ~(k <= p) /\ ~(k < p) /\ k # p
          /\ k - p \in 1..(Len(s) - p + 1) /\ p + (k - p) - 1 = k - 1
      BY <2>2, <1>1
    <3>2. (c \o b)[k] = b[k - p]
      BY <3>1, <1>6
    <3>3. b[k - p] = s[p + (k - p) - 1]
      BY <3>1, <1>3
    <3>4. QED
      BY <3>1, <3>2, <3>3
  <2>3. QED
    BY <2>1, <2>2
<1>9. IsInserted(c \o b, s, p, e)
  <2>1. /\ c \o b \in Seq(Node) /\ Len(c \o b) = Len(s) + 1
    BY <1>6
  <2> DEFINE t == c \o b
  <2> HIDE DEF t
  <2>2. /\ t \in Seq(Node) /\ Len(t) = Len(s) + 1
        /\ \A k \in 1..(Len(s) + 1) :
             t[k] = IF k < p THEN s[k] ELSE IF k = p THEN e ELSE s[k - 1]
    BY <2>1, <1>8 DEF t
  <2>3. QED
    BY <2>2 DEF IsInserted, t
<1>10. QED
  BY <1>7, <1>9

LEMMA RemovedProperties ==
  ASSUME NEW s \in Seq(Node), NEW p \in 1..Len(s)
  PROVE  /\ Removed(s, p) \in Seq(Node)
         /\ Len(Removed(s, p)) = Len(s) - 1
         /\ \A k \in 1..(Len(s) - 1) :
              Removed(s, p)[k] = IF k < p THEN s[k] ELSE s[k + 1]
<1> DEFINE a == SubSeq(s, 1, p - 1)
           b == SubSeq(s, p + 1, Len(s))
<1>1. Len(s) \in Nat /\ p \in Int /\ \A k \in 1..Len(s) : s[k] \in Node
  BY LenProperties, ElementOfSeq
<1>2. a \in Seq(Node) /\ Len(a) = p - 1 /\ \A k \in 1..(p - 1) : a[k] = s[k]
  <2>1. \A k \in 1..(p - 1) : s[k] \in Node
    BY <1>1
  <2>2. /\ a \in Seq(Node) /\ Len(a) = IF 1 <= p - 1 THEN (p - 1) - 1 + 1 ELSE 0
        /\ \A k \in 1..((p - 1) - 1 + 1) : a[k] = s[1 + k - 1]
    BY <2>1, <1>1, SubSeqProperties
  <2> HIDE DEF a
  <2>3. QED
    BY <2>2, <1>1
<1>3. /\ b \in Seq(Node) /\ Len(b) = Len(s) - p
      /\ \A k \in 1..(Len(s) - p) : b[k] = s[p + k]
  <2>1. \A k \in (p + 1)..Len(s) : s[k] \in Node
    BY <1>1
  <2>2. /\ b \in Seq(Node) /\ Len(b) = IF p + 1 <= Len(s) THEN Len(s) - (p + 1) + 1 ELSE 0
        /\ \A k \in 1..(Len(s) - (p + 1) + 1) : b[k] = s[(p + 1) + k - 1]
    BY <2>1, <1>1, SubSeqProperties
  <2> HIDE DEF b
  <2>3. QED
    BY <2>2, <1>1
<1> HIDE DEF a, b
<1> DEFINE c == a \o b
<1>4. /\ c \in Seq(Node) /\ Len(c) = Len(s) - 1
      /\ \A k \in 1..(Len(s) - 1) : c[k] = IF k <= p - 1 THEN a[k] ELSE b[k - (p - 1)]
  <2>1. /\ c \in Seq(Node) /\ Len(c) = Len(a) + Len(b)
        /\ \A k \in 1..(Len(a) + Len(b)) :
             c[k] = IF k <= Len(a) THEN a[k] ELSE b[k - Len(a)]
    BY <1>2, <1>3, ConcatProperties
  <2>2. Len(a) + Len(b) = Len(s) - 1
    BY <1>1, <1>2, <1>3
  <2> HIDE DEF c
  <2>3. QED
    BY <2>1, <2>2, <1>2
<1>5. Removed(s, p) = c
  BY DEF Removed, a, b
<1> HIDE DEF c
<1>6. ASSUME NEW k \in 1..(Len(s) - 1)
      PROVE  c[k] = IF k < p THEN s[k] ELSE s[k + 1]
  <2>1. CASE k < p
    <3>1. k \in 1..(p - 1) /\ k <= p - 1
      BY <2>1, <1>1
    <3>2. QED
      BY <2>1, <3>1, <1>2, <1>4
  <2>2. CASE ~(k < p)
    <3>1. /\ ~(k <= p - 1) /\ k - (p - 1) \in 1..(Len(s) - p) /\ p + (k - (p - 1)) = k + 1
      BY <2>2, <1>1
    <3>2. QED
      BY <2>2, <3>1, <1>3, <1>4
  <2>3. QED
    BY <2>1, <2>2
<1>7. QED
  BY <1>4, <1>5, <1>6

-----------------------------------------------------------------------------
(* The order of the nodes.                                                 *)

LEMMA Memory ==
  /\ IsFiniteSet(Node) /\ Cardinality(Node) \in Nat
  /\ Null \notin Node /\ Null \notin Value /\ Place = Node \cup {Null}
BY DlistAssumption, FS_CardinalityType DEF Place

\* There are no more elements than addresses.
LEMMA OrderFits ==
  ASSUME NEW s \in Seq(Node), \A j, k \in DOMAIN s : j # k => s[j] # s[k]
  PROVE  Len(s) \in 0..Cardinality(Node)
<1>1. Len(s) \in Nat /\ s \in [1..Len(s) -> Node] /\ DOMAIN s = 1..Len(s)
  BY LenProperties
<1>2. s \in Injection(1..Len(s), Node)
  BY <1>1, Fun_IsInj
<1>3. Cardinality(1..Len(s)) <= Cardinality(Node)
  BY <1>2, Memory, FS_Injection
<1>4. Cardinality(1..Len(s)) = Len(s)
  BY <1>1, FS_Interval
<1>5. QED
  BY <1>1, <1>3, <1>4, Memory

LEMMA Order ==
  ASSUME TypeOK, WellLinked
  PROVE  /\ len \in Nat /\ len = Len(order) /\ DOMAIN order = 1..len
         /\ \A k \in 1..len : order[k] \in Node /\ order[k] # Null /\ order[k] \in Nodes
         /\ \A j, k \in 1..len : order[j] = order[k] => j = k
         /\ \A n \in Nodes : \E k \in 1..len : order[k] = n
         /\ Nodes \subseteq Node /\ Null \notin Nodes
<1>1. len \in Nat /\ len = Len(order) /\ DOMAIN order = 1..len
  BY LenProperties DEF TypeOK, WellLinked
<1>2. \A k \in 1..len : order[k] \in Node
  BY <1>1, ElementOfSeq DEF TypeOK
<1>3. \A j, k \in 1..len : order[j] = order[k] => j = k
  BY <1>1 DEF WellLinked
<1>4. QED
  BY <1>1, <1>2, <1>3, Memory DEF Nodes

\* What stands where, by position.
LEMMA Positions ==
  ASSUME TypeOK, WellLinked
  PROVE  \A k \in Int : /\ k \in 1..len => At(order, k) = order[k] /\ At(order, k) \in Nodes
                        /\ k \notin 1..len => At(order, k) = Null
BY Order DEF At

LEMMA Placed ==
  ASSUME TypeOK, WellLinked, NEW n \in Nodes
  PROVE  Position(n) \in 1..len /\ order[Position(n)] = n
<1>1. \E k \in DOMAIN order : order[k] = n
  BY Order
<1>2. Position(n) \in DOMAIN order /\ order[Position(n)] = n
  BY <1>1 DEF Position
<1>3. QED
  BY <1>2, Order

\* The links, by position: of a node, those of its neighbours.
LEMMA Links ==
  ASSUME TypeOK, WellLinked, NEW k \in 1..len
  PROVE  /\ next[order[k]] = At(order, k + 1) /\ prev[order[k]] = At(order, k - 1)
         /\ k < len => next[order[k]] = order[k + 1]
         /\ k = len => next[order[k]] = Null
         /\ k > 1 => prev[order[k]] = order[k - 1]
         /\ k = 1 => prev[order[k]] = Null
<1>1. next[order[k]] = At(order, k + 1) /\ prev[order[k]] = At(order, k - 1)
  BY Order DEF WellLinked
<1>2. k + 1 \in Int /\ k - 1 \in Int
  OBVIOUS
<1>3. QED
  BY <1>1, <1>2, Positions, Order

LEMMA Ends ==
  ASSUME TypeOK, WellLinked
  PROVE  /\ len = 0 => head = Null /\ tail = Null
         /\ len > 0 => head = order[1] /\ tail = order[len]
<1>1. head = At(order, 1) /\ tail = At(order, len)
  BY DEF WellLinked
<1>2. QED
  BY <1>1, Positions, Order

-----------------------------------------------------------------------------
(* The links when a node is put in.                                        *)

LEMMA Linked ==
  ASSUME ListInv, pc = "idle", pc' = "idle",
         NEW n \in Node \ alloc, NEW v \in Value \ Elements, NEW p \in 1..(len + 1),
         Link(n, v, At(order, p - 1), At(order, p)), order' = Inserted(order, p, n)
  PROVE  /\ head' \in Place /\ tail' \in Place /\ len' \in 0..Cardinality(Node)
         /\ prev' \in [Node -> Place] /\ next' \in [Node -> Place]
         /\ value' \in [Node -> Value \cup {Null}] /\ alloc' \subseteq Node
         /\ order' \in Seq(Node)
         /\ WellLinked' /\ Valued'
<1> DEFINE before == At(order, p - 1)
           after == At(order, p)
<1>1. TypeOK /\ WellLinked /\ Valued
  BY DEF ListInv
<1>2. alloc = Nodes /\ n \notin Nodes /\ n \in Node /\ n # Null
  BY <1>1, Memory DEF WellLinked
<1>3. /\ before = Null <=> p = 1
      /\ p > 1 => before = order[p - 1]
      /\ after = Null <=> p = len + 1
      /\ p <= len => after = order[p]
      /\ before \in Place /\ after \in Place
  <2>1. p - 1 \in Int /\ p \in Int
    OBVIOUS
  <2>2. QED
    BY <2>1, <1>1, Positions, Order, Memory
<1>4. /\ order' \in Seq(Node) /\ Len(order') = len + 1 /\ DOMAIN order' = 1..(len + 1)
      /\ \A k \in 1..(len + 1) :
           order'[k] = IF k < p THEN order[k] ELSE IF k = p THEN n ELSE order[k - 1]
  <2>1. order \in Seq(Node) /\ p \in 1..(Len(order) + 1) /\ len = Len(order)
    BY <1>1, Order DEF TypeOK
  <2>2. IsInserted(order', order, p, n)
    BY <2>1, InsertedProperties
  <2>3. DOMAIN order' = 1..Len(order')
    BY <2>2, LenProperties DEF IsInserted
  <2>4. QED
    BY <2>1, <2>2, <2>3 DEF IsInserted
<1> HIDE DEF before, after
<1>5. /\ alloc' = alloc \cup {n} /\ value' = Set(value, n, v)
      /\ prev' = Set(Set(prev, after, n), n, before)
      /\ next' = Set(Set(next, before, n), n, after)
      /\ head' = IF before = Null THEN n ELSE head
      /\ tail' = IF after = Null THEN n ELSE tail
      /\ len' = len + 1
  BY DEF Link, before, after
<1>6. \A m \in Node : /\ value'[m] = IF m = n THEN v ELSE value[m]
                      /\ prev'[m] = IF m = n THEN before ELSE IF m = after THEN n ELSE prev[m]
                      /\ next'[m] = IF m = n THEN after ELSE IF m = before THEN n ELSE next[m]
  BY <1>5 DEF Set
<1>7. /\ len \in Nat /\ \A k \in 1..len : order[k] \in Node /\ order[k] \in Nodes /\ order[k] # n
      /\ \A j, k \in 1..len : order[j] = order[k] => j = k
  BY <1>1, <1>2, Order
<1>8. \A j, k \in 1..(len + 1) : order'[j] = order'[k] => j = k
  <2> SUFFICES ASSUME NEW j \in 1..(len + 1), NEW k \in 1..(len + 1), j < k
               PROVE  order'[j] # order'[k]
    BY <1>7
  <2>1. CASE k < p
    BY <2>1, <1>4, <1>7
  <2>2. CASE k = p
    BY <2>2, <1>4, <1>7
  <2>3. CASE k > p /\ j < p
    <3>1. order'[j] = order[j] /\ order'[k] = order[k - 1] /\ j # k - 1
          /\ j \in 1..len /\ k - 1 \in 1..len
      BY <2>3, <1>4, <1>7
    <3>2. QED
      BY <3>1, <1>7
  <2>4. CASE j = p
    BY <2>4, <1>4, <1>7
  <2>5. CASE j > p
    BY <2>5, <1>4, <1>7
  <2>6. QED
    BY <2>1, <2>2, <2>3, <2>4, <2>5
<1>9. len' \in 0..Cardinality(Node)
  BY <1>4, <1>5, <1>8, OrderFits
<1>10. Nodes' = Nodes \cup {n}
  <2>1. \A m : m \in Nodes' <=> \E k \in 1..(len + 1) : order'[k] = m
    BY <1>4 DEF Nodes
  <2>2. \A m : m \in Nodes <=> \E k \in 1..len : order[k] = m
    BY <1>1, Order DEF Nodes
  <2>3. ASSUME NEW m \in Nodes PROVE \E k \in 1..(len + 1) : order'[k] = m
    <3>1. PICK k \in 1..len : order[k] = m
      BY <2>2
    <3>2. CASE k < p
      BY <3>1, <3>2, <1>4, <1>7
    <3>3. CASE k >= p
      <4>1. k + 1 \in 1..(len + 1) /\ ~(k + 1 < p) /\ k + 1 # p /\ (k + 1) - 1 = k
        BY <3>3, <1>7
      <4>2. order'[k + 1] = order[k]
        BY <4>1, <1>4
      <4>3. QED
        BY <3>1, <4>1, <4>2
    <3>4. QED
      BY <3>2, <3>3, <1>7
  <2>4. ASSUME NEW k \in 1..(len + 1) PROVE order'[k] = n \/ order'[k] \in Nodes
    <3>1. CASE k < p
      BY <3>1, <1>4, <1>7
    <3>2. CASE k > p
      BY <3>2, <1>4, <1>7
    <3>3. QED
      BY <3>1, <3>2, <1>4, <1>7
  <2>5. order'[p] = n /\ p \in 1..(len + 1)
    BY <1>4
  <2>6. QED
    BY <2>1, <2>3, <2>4, <2>5
<1>11. ASSUME NEW k \in 1..(len + 1)
       PROVE  /\ next'[order'[k]] = IF k = len + 1 THEN Null ELSE order'[k + 1]
              /\ prev'[order'[k]] = IF k = 1 THEN Null ELSE order'[k - 1]
  <2>1. CASE k = p
    <3>1. /\ order'[k] = n /\ next'[n] = after /\ prev'[n] = before
      BY <2>1, <1>2, <1>4, <1>6
    <3>2. k # len + 1 => k + 1 \in 1..(len + 1) /\ order'[k + 1] = order[p]
      BY <2>1, <1>4, <1>7
    <3>3. k # 1 => k - 1 \in 1..(len + 1) /\ order'[k - 1] = order[p - 1]
      BY <2>1, <1>4, <1>7
    <3>4. QED
      BY <2>1, <3>1, <3>2, <3>3, <1>3, <1>7
  <2>2. CASE k < p
    <3>1. /\ k \in 1..len /\ order'[k] = order[k]
          /\ k = p - 1 <=> order[k] = before
          /\ order[k] # after
      BY <2>2, <1>3, <1>4, <1>7, <1>2, Memory
    <3>2. /\ next'[order[k]] = IF k = p - 1 THEN n ELSE next[order[k]]
          /\ prev'[order[k]] = prev[order[k]]
      BY <3>1, <1>6, <1>7
    <3>3. order'[k + 1] = IF k = p - 1 THEN n ELSE order[k + 1]
      BY <2>2, <1>4, <1>7
    <3>4. k # 1 => order'[k - 1] = order[k - 1]
      BY <2>2, <1>4, <1>7
    <3>5. k # p - 1 => k < len
      BY <2>2, <1>7
    <3>6. k # len + 1
      BY <2>2
    <3>7. QED
      BY <3>1, <3>2, <3>3, <3>4, <3>5, <3>6, <1>1, Links
  <2>3. CASE k > p
    <3>1. /\ k - 1 \in 1..len /\ order'[k] = order[k - 1]
          /\ k - 1 = p <=> order[k - 1] = after
          /\ order[k - 1] # before
      <4>1. k - 1 \in 1..len /\ order'[k] = order[k - 1]
        BY <2>3, <1>4, <1>7
      <4>2. k - 1 = p <=> order[k - 1] = after
        BY <4>1, <2>3, <1>3, <1>7, <1>2, Memory
      <4>3. order[k - 1] # before
        <5>1. p > 1 => p - 1 \in 1..len /\ p - 1 # k - 1
          BY <2>3, <1>7
        <5>2. QED
          BY <4>1, <5>1, <1>3, <1>7, Memory
      <4>4. QED
        BY <4>1, <4>2, <4>3
    <3>2. /\ prev'[order[k - 1]] = IF k - 1 = p THEN n ELSE prev[order[k - 1]]
          /\ next'[order[k - 1]] = next[order[k - 1]]
      BY <3>1, <1>6, <1>7
    <3>3. order'[k - 1] = IF k - 1 = p THEN n ELSE order[(k - 1) - 1]
      BY <2>3, <1>4, <1>7
    <3>4. k # len + 1 => k + 1 \in 1..(len + 1) /\ order'[k + 1] = order[(k - 1) + 1]
      BY <2>3, <1>4, <1>7
    <3>5. k # len + 1 <=> k - 1 < len
      BY <2>3, <1>7
    <3>6. k # 1 /\ (k - 1 # p => k - 1 > 1) /\ (k = len + 1 <=> k - 1 = len)
      BY <2>3, <1>7
    <3>7. QED
      BY <3>1, <3>2, <3>3, <3>4, <3>5, <3>6, <1>1, Links
  <2>4. QED
    BY <2>1, <2>2, <2>3
<1>12. /\ head' = order'[1] /\ tail' = order'[len + 1]
  <2>1. p = 1 => order'[1] = n
    BY <1>4, <1>7
  <2>2. p # 1 => order'[1] = order[1] /\ len > 0
    BY <1>4, <1>7
  <2>3. p = len + 1 => order'[len + 1] = n
    BY <1>4, <1>7
  <2>4. p # len + 1 => order'[len + 1] = order[len] /\ len > 0
    BY <1>4, <1>7
  <2>5. QED
    BY <2>1, <2>2, <2>3, <2>4, <1>1, <1>3, <1>5, Ends
<1>13. \A k \in Int : At(order, k)' = IF k \in 1..(len + 1) THEN order'[k] ELSE Null
  BY <1>4 DEF At
<1>14. WellLinked'
  <2>1. alloc' = Nodes'
    BY <1>2, <1>5, <1>10
  <2>2. head' = At(order', 1) /\ tail' = At(order', len')
    BY <1>4, <1>5, <1>7, <1>12 DEF At
  <2>3. \A k \in DOMAIN order' : /\ next'[order'[k]] = At(order', k + 1)
                                 /\ prev'[order'[k]] = At(order', k - 1)
    BY <1>4, <1>7, <1>11 DEF At
  <2>4. QED
    BY <2>1, <2>2, <2>3, <1>4, <1>5, <1>8 DEF WellLinked
<1>15. Valued'
  <2>1. \A m \in Nodes : value'[m] = value[m] /\ value[m] # v /\ value[m] \in Value
    BY <1>1, <1>2, <1>6, Order DEF Elements, Valued
  <2>2. value'[n] = v
    BY <1>6
  <2>3. QED
    BY <2>1, <2>2, <1>1, <1>10 DEF Valued
<1>16. /\ head' \in Place /\ tail' \in Place /\ alloc' \subseteq Node
       /\ prev' \in [Node -> Place] /\ next' \in [Node -> Place]
       /\ value' \in [Node -> Value \cup {Null}]
  <2>1. n \in Place /\ head \in Place /\ tail \in Place
    BY <1>1 DEF TypeOK, Place
  <2>2. head' \in Place /\ tail' \in Place
    BY <2>1, <1>5
  <2>3. /\ Set(value, n, v) \in [Node -> Value \cup {Null}]
        /\ Set(Set(prev, after, n), n, before) \in [Node -> Place]
        /\ Set(Set(next, before, n), n, after) \in [Node -> Place]
    BY <2>1, <1>1, <1>3 DEF Set, TypeOK, before, after
  <2>4. QED
    BY <2>2, <2>3, <1>1, <1>5 DEF TypeOK
<1>17. QED
  BY <1>4, <1>9, <1>14, <1>15, <1>16

-----------------------------------------------------------------------------
(* The links when a node is taken out.                                     *)

\* The positions of what is left.
LEMMA Left ==
  ASSUME TypeOK, WellLinked, NEW p \in 1..len, order' = Removed(order, p)
  PROVE  /\ order' \in Seq(Node) /\ Len(order') = len - 1 /\ DOMAIN order' = 1..(len - 1)
         /\ \A k \in 1..(len - 1) : order'[k] = IF k < p THEN order[k] ELSE order[k + 1]
         /\ Nodes' = Nodes \ {order[p]}
<1>1. order \in Seq(Node) /\ p \in 1..Len(order) /\ len = Len(order) /\ len \in Nat
  BY Order DEF TypeOK
<1>2. /\ Removed(order, p) \in Seq(Node) /\ Len(Removed(order, p)) = Len(order) - 1
      /\ \A k \in 1..(Len(order) - 1) :
           Removed(order, p)[k] = IF k < p THEN order[k] ELSE order[k + 1]
  BY <1>1, RemovedProperties
<1>3. DOMAIN order' = 1..Len(order')
  BY <1>1, <1>2, LenProperties
<1>4. /\ \A k \in 1..(len - 1) : order'[k] = IF k < p THEN order[k] ELSE order[k + 1]
      /\ DOMAIN order' = 1..(len - 1)
  BY <1>1, <1>2, <1>3
<1>5. Nodes' = Nodes \ {order[p]}
  <2>1. \A m : m \in Nodes' <=> \E k \in 1..(len - 1) : order'[k] = m
    BY <1>4 DEF Nodes
  <2>2. \A m : m \in Nodes <=> \E k \in 1..len : order[k] = m
    BY Order DEF Nodes
  <2>3. \A j, k \in 1..len : order[j] = order[k] => j = k
    BY Order
  <2>4. ASSUME NEW k \in 1..(len - 1) PROVE order'[k] \in Nodes \ {order[p]}
    <3>1. CASE k < p
      <4>1. k \in 1..len /\ k # p /\ order'[k] = order[k]
        BY <3>1, <1>1, <1>4
      <4>2. QED
        BY <4>1, <2>2, <2>3
    <3>2. CASE ~(k < p)
      <4>1. k + 1 \in 1..len /\ k + 1 # p /\ order'[k] = order[k + 1]
        BY <3>2, <1>1, <1>4
      <4>2. QED
        BY <4>1, <2>2, <2>3
    <3>3. QED
      BY <3>1, <3>2
  <2>5. ASSUME NEW k \in 1..len, k # p PROVE \E j \in 1..(len - 1) : order'[j] = order[k]
    <3>1. CASE k < p
      <4>1. k \in 1..(len - 1) /\ order'[k] = order[k]
        BY <3>1, <1>1, <1>4
      <4>2. QED
        BY <4>1
    <3>2. CASE k > p
      <4>1. k - 1 \in 1..(len - 1) /\ order'[k - 1] = order[k]
        BY <3>2, <1>1, <1>4
      <4>2. QED
        BY <4>1
    <3>3. QED
      BY <2>5, <3>1, <3>2, <1>1
  <2>6. QED
    BY <2>1, <2>2, <2>4, <2>5
<1>6. QED
  BY <1>1, <1>2, <1>4, <1>5

LEMMA Unlinked ==
  ASSUME ListInv, pc = "found", pc' \in {"idle", "loop"},
         NEW p \in 1..len, Unlink(order[p]), order' = Removed(order, p)
  PROVE  /\ head' \in Place /\ tail' \in Place /\ len' \in 0..Cardinality(Node)
         /\ prev' \in [Node -> Place] /\ next' \in [Node -> Place]
         /\ value' \in [Node -> Value \cup {Null}] /\ alloc' \subseteq Node
         /\ order' \in Seq(Node)
         /\ WellLinked' /\ Valued'
<1> DEFINE n == order[p]
           before == prev[n]
           after == next[n]
<1>1. TypeOK /\ WellLinked /\ Valued
  BY DEF ListInv
<1>2. /\ len \in Nat /\ n \in Nodes /\ n \in Node
      /\ \A k \in 1..len : order[k] \in Node /\ order[k] \in Nodes
      /\ \A j, k \in 1..len : order[j] = order[k] => j = k
  BY <1>1, Order
<1>3. /\ before = IF p = 1 THEN Null ELSE order[p - 1]
      /\ after = IF p = len THEN Null ELSE order[p + 1]
      /\ before \in Place /\ after \in Place
  <2>1. /\ p < len => after = order[p + 1]
        /\ p = len => after = Null
        /\ p > 1 => before = order[p - 1]
        /\ p = 1 => before = Null
    BY <1>1, Links
  <2>2. QED
    BY <2>1, <1>1, <1>2 DEF TypeOK
<1>4. /\ order' \in Seq(Node) /\ Len(order') = len - 1 /\ DOMAIN order' = 1..(len - 1)
      /\ \A k \in 1..(len - 1) : order'[k] = IF k < p THEN order[k] ELSE order[k + 1]
      /\ Nodes' = Nodes \ {n}
  BY <1>1, Left
<1>5. /\ alloc' = alloc \ {n} /\ value' = Set(value, n, Null)
      /\ prev' = Set(Set(prev, after, before), n, Null)
      /\ next' = Set(Set(next, before, after), n, Null)
      /\ head' = IF before = Null THEN after ELSE head
      /\ tail' = IF after = Null THEN before ELSE tail
      /\ len' = len - 1
  BY DEF Unlink
<1>6. /\ value' \in [Node -> Value \cup {Null}]
      /\ prev' \in [Node -> Place] /\ next' \in [Node -> Place]
      /\ head' \in Place /\ tail' \in Place /\ alloc' \subseteq Node
  <2> HIDE DEF before, after
  <2>1. /\ Set(value, n, Null) \in [Node -> Value \cup {Null}]
        /\ Set(Set(prev, after, before), n, Null) \in [Node -> Place]
        /\ Set(Set(next, before, after), n, Null) \in [Node -> Place]
    BY <1>1, <1>3 DEF Set, TypeOK, Place
  <2>2. QED
    BY <2>1, <1>1, <1>3, <1>5 DEF TypeOK
<1> HIDE DEF before, after, n
<1>7. \A m \in Node : m # n =>
        /\ value'[m] = value[m]
        /\ prev'[m] = IF m = after THEN before ELSE prev[m]
        /\ next'[m] = IF m = before THEN after ELSE next[m]
  BY <1>5 DEF Set
<1>8. \A j, k \in 1..(len - 1) : order'[j] = order'[k] => j = k
  <2> SUFFICES ASSUME NEW j \in 1..(len - 1), NEW k \in 1..(len - 1), j < k
               PROVE  order'[j] # order'[k]
    BY <1>2
  <2>1. /\ k \in 1..len /\ k + 1 \in 1..len /\ j \in 1..len /\ j + 1 \in 1..len
        /\ j # k /\ j + 1 # k + 1 /\ j # k + 1
    BY <1>2
  <2>2. j >= p => k >= p
    BY <1>2
  <2>3. QED
    BY <2>1, <2>2, <1>2, <1>4
<1>9. len' \in 0..Cardinality(Node)
  BY <1>4, <1>5, <1>8, OrderFits
<1>10. ASSUME NEW k \in 1..(len - 1)
       PROVE  /\ next'[order'[k]] = IF k = len - 1 THEN Null ELSE order'[k + 1]
              /\ prev'[order'[k]] = IF k = 1 THEN Null ELSE order'[k - 1]
  <2>1. CASE k < p
    <3>1. /\ k \in 1..len /\ order'[k] = order[k] /\ order[k] \in Node /\ order[k] # n
          /\ k = p - 1 <=> order[k] = before
          /\ order[k] # after
      <4>1. k \in 1..len /\ k # p /\ order'[k] = order[k]
        BY <2>1, <1>2, <1>4
      <4>2. p # 1 => p - 1 \in 1..len
        BY <1>2
      <4>3. p # len => p + 1 \in 1..len /\ k # p + 1
        BY <2>1, <1>2
      <4>4. QED
        BY <4>1, <4>2, <4>3, <2>1, <1>2, <1>3, Memory DEF n
    <3>2. /\ next'[order[k]] = IF k = p - 1 THEN after ELSE next[order[k]]
          /\ prev'[order[k]] = prev[order[k]]
      BY <3>1, <1>7
    <3>3. k # len - 1 => order'[k + 1] = IF k = p - 1 THEN order[p + 1] ELSE order[k + 1]
      BY <2>1, <1>2, <1>4
    <3>4. k # 1 => order'[k - 1] = order[k - 1]
      BY <2>1, <1>2, <1>4
    <3>5. k < len /\ (k = p - 1 => (k = len - 1 <=> p = len)) /\ (k # p - 1 => k # len - 1)
      BY <2>1, <1>2
    <3>6. QED
      BY <3>1, <3>2, <3>3, <3>4, <3>5, <1>1, <1>3, Links
  <2>2. CASE k >= p
    <3>1. /\ k + 1 \in 1..len /\ order'[k] = order[k + 1]
          /\ order[k + 1] \in Node /\ order[k + 1] # n
          /\ k = p <=> order[k + 1] = after
          /\ order[k + 1] # before
      <4>1. k + 1 \in 1..len /\ k + 1 # p /\ order'[k] = order[k + 1]
        BY <2>2, <1>2, <1>4
      <4>2. p # 1 => p - 1 \in 1..len /\ k + 1 # p - 1
        BY <2>2, <1>2
      <4>3. p # len => p + 1 \in 1..len /\ (k = p <=> k + 1 = p + 1)
        BY <2>2, <1>2
      <4>4. k = p => p # len
        BY <1>2
      <4>5. QED
        BY <4>1, <4>2, <4>3, <4>4, <1>2, <1>3, Memory DEF n
    <3>2. /\ next'[order[k + 1]] = next[order[k + 1]]
          /\ prev'[order[k + 1]] = IF k = p THEN before ELSE prev[order[k + 1]]
      BY <3>1, <1>7
    <3>3. k # len - 1 => order'[k + 1] = order[(k + 1) + 1]
      BY <2>2, <1>2, <1>4
    <3>4. /\ k # 1 /\ k = p => order'[k - 1] = order[p - 1]
          /\ k # p => k # 1 /\ order'[k - 1] = order[(k + 1) - 1]
      BY <2>2, <1>2, <1>4
    <3>5. (k = len - 1 <=> k + 1 = len) /\ k + 1 > 1 /\ (k + 1 < len <=> k # len - 1)
      BY <1>2
    <3>6. QED
      BY <3>1, <3>2, <3>3, <3>4, <3>5, <1>1, <1>3, Links
  <2>3. QED
    BY <2>1, <2>2, <1>2
<1>11. /\ head' = IF len = 1 THEN Null ELSE order'[1]
       /\ tail' = IF len = 1 THEN Null ELSE order'[len - 1]
  <2>1. head = order[1] /\ tail = order[len] /\ len >= 1
    BY <1>1, <1>2, Ends
  <2>2. /\ before = Null <=> p = 1
        /\ after = Null <=> p = len
    BY <1>2, <1>3, Memory
  <2>3. len # 1 => order'[1] = (IF p = 1 THEN order[p + 1] ELSE order[1])
    BY <1>2, <1>4
  <2>4. len # 1 => order'[len - 1] = (IF p = len THEN order[p - 1] ELSE order[len])
    BY <1>2, <1>4
  <2>5. len = 1 => p = 1 /\ p = len
    BY <1>2
  <2>6. QED
    BY <2>1, <2>2, <2>3, <2>4, <2>5, <1>3, <1>5
<1>12. WellLinked'
  <2>1. alloc' = Nodes'
    BY <1>1, <1>4, <1>5 DEF WellLinked
  <2>2. head' = At(order', 1) /\ tail' = At(order', len')
    BY <1>2, <1>4, <1>5, <1>11 DEF At
  <2>3. \A k \in DOMAIN order' : /\ next'[order'[k]] = At(order', k + 1)
                                 /\ prev'[order'[k]] = At(order', k - 1)
    BY <1>2, <1>4, <1>10 DEF At
  <2>4. QED
    BY <2>1, <2>2, <2>3, <1>4, <1>5, <1>8 DEF WellLinked
<1>13. Valued'
  <2>1. \A m \in Nodes' : m \in Nodes /\ value'[m] = value[m]
    BY <1>1, <1>4, <1>7, Order
  <2>2. QED
    BY <2>1, <1>1 DEF Valued
<1>14. QED
  BY <1>4, <1>6, <1>9, <1>12, <1>13

-----------------------------------------------------------------------------
(* Steps that leave the list alone.                                        *)

\* The links and the ends lead to elements.
LEMMA Neighbours ==
  ASSUME TypeOK, WellLinked
  PROVE  /\ head \in Nodes \cup {Null} /\ tail \in Nodes \cup {Null}
         /\ \A n \in Nodes : next[n] \in Nodes \cup {Null} /\ prev[n] \in Nodes \cup {Null}
<1>1. \A k \in Int : At(order, k) \in Nodes \cup {Null}
  BY Positions
<1>2. \A k \in 1..len : next[order[k]] \in Nodes \cup {Null} /\ prev[order[k]] \in Nodes \cup {Null}
  <2> TAKE k \in 1..len
  <2>1. next[order[k]] = At(order, k + 1) /\ prev[order[k]] = At(order, k - 1)
    BY Links
  <2>2. k + 1 \in Int /\ k - 1 \in Int
    OBVIOUS
  <2>3. QED
    BY <2>1, <2>2, <1>1
<1>3. head \in Nodes \cup {Null} /\ tail \in Nodes \cup {Null}
  BY <1>1, Order DEF WellLinked
<1>4. QED
  BY <1>2, <1>3, Order

Still == \/ \E v \in Value : DeleteClient(v)
         \/ \E direction \in {"head", "tail"} : Rewind(direction)
         \/ SearchNext \/ SearchEnds \/ DlistNext \/ DeleteReturned \/ Keep
         \/ LoopEnds \/ Destroy \/ Destroyed \/ Ended \/ UNCHANGED vars

LEMMA StillList ==
  ASSUME Still
  PROVE  UNCHANGED <<head, tail, len, prev, next, value, alloc, order>>
BY DEF Still, DeleteClient, DeleteReturned, Search, Rewind, SearchNext, SearchEnds,
       DlistNext, Keep, LoopEnds, Destroy, Destroyed, Ended, vars, list, cells

\* Where the iterator of the loop is, and what it has in hand.
LEMMA LoopStands ==
  ASSUME TypeOK, WellLinked, Looping, InLoop
  PROVE  /\ iter.next \in Nodes \cup {Null}
         /\ InBody => curr \in Nodes
         /\ InBody => curr # iter.next
<1> DEFINE m == Len(loop.visited)
           n == Len(loop.start)
<1>1. /\ m \in Nat /\ n \in Nat /\ len \in Nat /\ DOMAIN loop.start = 1..n
      /\ loop.start \in Seq(Node)
      /\ \A k \in 1..len : order[k] \in Nodes /\ order[k] # Null
      /\ \A j, k \in 1..len : order[j] = order[k] => j = k
  BY Order, LenProperties DEF TypeOK
<1> HIDE DEF m, n
<1>2. CASE iter.direction = "head"
  <2>1. /\ m <= n /\ n - m <= len
        /\ \A k \in (m + 1)..n : order[k - (n - len)] = loop.start[k]
        /\ iter.next = At(loop.start, m + 1)
        /\ InBody => m - (n - len) \in 1..len /\ curr = order[m - (n - len)]
    BY <1>2 DEF Looping, Forward, m, n
  <2>2. CASE m < n
    <3>1. /\ m + 1 \in 1..n /\ m + 1 \in (m + 1)..n
          /\ (m + 1) - (n - len) \in 1..len /\ (m + 1) - (n - len) # m - (n - len)
      BY <2>1, <2>2, <1>1
    <3>2. iter.next = order[(m + 1) - (n - len)]
      BY <2>1, <3>1, <1>1 DEF At
    <3>3. QED
      BY <2>1, <3>1, <3>2, <1>1
  <2>3. CASE m = n
    <3>1. iter.next = Null
      BY <2>1, <2>3, <1>1 DEF At
    <3>2. QED
      BY <2>1, <3>1, <1>1
  <2>4. QED
    BY <2>1, <2>2, <2>3, <1>1
<1>3. CASE iter.direction # "head"
  <2>1. /\ m <= n /\ n - m <= len
        /\ \A k \in 1..(n - m) : order[k] = loop.start[k]
        /\ iter.next = At(loop.start, n - m)
        /\ InBody => n - m + 1 \in 1..len /\ curr = order[n - m + 1]
    BY <1>3 DEF Looping, Backward, m, n
  <2>2. CASE m < n
    <3>1. n - m \in 1..n /\ n - m \in 1..len /\ n - m # n - m + 1 /\ n - m \in 1..(n - m)
      BY <2>1, <2>2, <1>1
    <3>2. iter.next = order[n - m]
      BY <2>1, <3>1, <1>1 DEF At
    <3>3. QED
      BY <2>1, <3>1, <3>2, <1>1
  <2>3. CASE m = n
    <3>1. iter.next = Null
      BY <2>1, <2>3, <1>1 DEF At
    <3>2. QED
      BY <2>1, <3>1, <1>1
  <2>4. QED
    BY <2>1, <2>2, <2>3, <1>1
<1>4. QED
  BY <1>2, <1>3

LEMMA StillType == ASSUME ListInv, Still PROVE TypeOK'
<1>1. TypeOK /\ WellLinked /\ Looping /\ Seeking /\ Valued
  BY DEF ListInv
<1>2. UNCHANGED <<head, tail, len, prev, next, value, alloc, order>>
  BY StillList
<1>3. /\ head \in Place /\ tail \in Place /\ prev \in [Node -> Place] /\ next \in [Node -> Place]
      /\ Nodes \cup {Null} \subseteq Place
  BY <1>1, Order DEF TypeOK, Place
<1>4. /\ pc' \in {"idle", "loop", "body", "search", "found", "destroy", "gone", "crashed"}
      /\ caller' \in {"idle", "loop"}
  BY <1>1 DEF TypeOK, Still, DeleteClient, DeleteReturned, Search, Rewind, SearchNext,
     SearchEnds, DlistNext, Keep, LoopEnds, Destroy, Destroyed, Ended, vars, find
<1>5. seek' \in Place
  <2>1. ASSUME SearchNext PROVE next[seek] \in Place
    BY <2>1, <1>1, <1>3, Neighbours DEF SearchNext, Seeking, Searching
  <2>2. QED
    BY <2>1, <1>1, <1>3 DEF TypeOK, Still, DeleteClient, DeleteReturned, Search, Rewind,
       SearchNext, SearchEnds, DlistNext, Keep, LoopEnds, Destroy, Destroyed, Ended,
       vars, find
<1>6. key' \in Value \cup {Null}
  <2>1. ASSUME DeleteReturned PROVE value[curr] \in Value
    <3>1. pc = "body"
      BY <2>1 DEF DeleteReturned
    <3>2. curr \in Nodes
      BY <3>1, <1>1, LoopStands DEF InLoop, InBody
    <3>3. QED
      BY <3>2, <1>1 DEF Valued
  <2>2. QED
    BY <2>1, <1>1 DEF TypeOK, Still, DeleteClient, DeleteReturned, Search, Rewind,
       SearchNext, SearchEnds, DlistNext, Keep, LoopEnds, Destroy, Destroyed, Ended,
       vars, find
<1>7. curr' \in Place /\ left' \in 0..Cardinality(Node)
  BY <1>1, <1>3 DEF TypeOK, Still, DeleteClient, DeleteReturned, Search, Rewind,
     SearchNext, SearchEnds, DlistNext, Keep, LoopEnds, Destroy, Destroyed, Ended, vars
<1>8. iter' \in [next : Place, direction : {"head", "tail"}]
  <2>1. ASSUME DlistNext PROVE Advanced \in Place /\ iter' = [iter EXCEPT !.next = Advanced]
    <3>1. pc = "loop" /\ iter.next # Null
      BY <2>1 DEF DlistNext
    <3>2. iter.next \in Nodes
      BY <3>1, <1>1, LoopStands DEF InLoop
    <3>3. QED
      BY <2>1, <3>2, <1>1, <1>3, Neighbours DEF DlistNext, Advanced
  <2>2. QED
    BY <2>1, <1>1, <1>3 DEF TypeOK, Still, DeleteClient, DeleteReturned, Search, Rewind,
       SearchNext, SearchEnds, Keep, LoopEnds, Destroy, Destroyed, Ended, vars
<1>9. loop' \in [start : Seq(Node), visited : Seq(Node)]
  <2>1. CASE DlistNext
    <3>1. iter.next \in Node
      BY <2>1, <1>1, Memory DEF DlistNext, TypeOK
    <3>2. Append(loop.visited, iter.next) \in Seq(Node)
      BY <3>1, <1>1, AppendProperties DEF TypeOK
    <3>3. QED
      BY <2>1, <3>2, <1>1 DEF DlistNext, TypeOK
  <2>2. CASE \E direction \in {"head", "tail"} : Rewind(direction)
    <3>1. <<>> \in Seq(Node)
      OBVIOUS
    <3>2. QED
      BY <2>2, <3>1, <1>1 DEF Rewind, TypeOK
  <2>3. CASE ~(DlistNext \/ \E direction \in {"head", "tail"} : Rewind(direction))
    BY <2>3, <1>1 DEF TypeOK, Still, DeleteClient, DeleteReturned, Search,
       SearchNext, SearchEnds, Keep, LoopEnds, Destroy, Destroyed, Ended, vars
  <2>4. QED
    BY <2>1, <2>2, <2>3
<1>10. QED
  BY <1>1, <1>2, <1>4, <1>5, <1>6, <1>7, <1>8, <1>9 DEF TypeOK

LEMMA StillSeeking == ASSUME ListInv, Still PROVE Seeking'
<1> USE DEF Searching, InBody, InLoop
<1>1. TypeOK /\ WellLinked /\ Looping /\ Seeking
  BY DEF ListInv
<1>2. Nodes' = Nodes /\ value' = value /\ next' = next
  BY StillList DEF Nodes
<1>3. head \in Nodes \cup {Null} /\ \A n \in Nodes : next[n] \in Nodes \cup {Null}
  BY <1>1, Neighbours
<1>4. CASE SearchNext
  BY <1>1, <1>2, <1>3, <1>4 DEF SearchNext, Seeking, Matches
<1>5. CASE DeleteReturned
  BY <1>1, <1>2, <1>3, <1>5 DEF DeleteReturned, Search, Seeking
<1>6. CASE \E v \in Value : DeleteClient(v)
  BY <1>2, <1>3, <1>6 DEF DeleteClient, Search, Seeking
<1>7. CASE Ended \/ UNCHANGED vars
  BY <1>1, <1>2, <1>7 DEF Ended, vars, find, Seeking
<1>8. CASE ~(SearchNext \/ DeleteReturned \/ (\E v \in Value : DeleteClient(v))
              \/ Ended \/ UNCHANGED vars)
  BY <1>1, <1>8 DEF Still, Rewind, SearchEnds, DlistNext, Keep, LoopEnds, Destroy,
     Destroyed, Seeking, TypeOK
<1>9. QED
  BY <1>4, <1>5, <1>6, <1>7, <1>8

LEMMA StillLooping == ASSUME ListInv, Still PROVE Looping'
<1> USE DEF Searching, InBody, InLoop
<1>1. TypeOK /\ WellLinked /\ Looping
  BY DEF ListInv
<1>2. UNCHANGED <<head, tail, len, prev, next, value, alloc, order>>
  BY StillList
<1>3. /\ len \in Nat /\ DOMAIN order = 1..len /\ len = Len(order)
      /\ \A k \in 1..len : order[k] \in Nodes /\ order[k] # Null
      /\ \A j, k \in 1..len : order[j] = order[k] => j = k
  BY <1>1, Order
<1>4. CASE \E direction \in {"head", "tail"} : Rewind(direction)
  <2>1. /\ iter'.next = IF iter'.direction = "head" THEN head ELSE tail
        /\ loop'.start = order /\ loop'.visited = <<>> /\ pc' = "loop" /\ pc = "idle"
    BY <1>4 DEF Rewind
  <2>2. Len(<<>>) = 0
    OBVIOUS
  <2>3. head = At(order, 1) /\ tail = At(order, len)
    BY <1>1 DEF WellLinked
  <2>4. Forward' \/ iter'.direction # "head"
    <3>1. \A k \in 1..len : k - (len - len) = k
      BY <1>3
    <3>2. QED
      BY <1>2, <1>3, <2>1, <2>2, <2>3, <3>1 DEF Forward, At
  <2>5. Backward' \/ iter'.direction = "head"
    BY <1>2, <1>3, <2>1, <2>2, <2>3 DEF Backward, At
  <2>6. \A a, b \in DOMAIN loop'.start : a # b => loop'.start[a] # loop'.start[b]
    BY <1>3, <2>1
  <2>7. RemainsOf(loop.start)'
    <3>1. alloc = Nodes
      BY <1>1, <2>1 DEF WellLinked
    <3>2. Nodes' = {loop'.start[k] : k \in DOMAIN loop'.start} \cap alloc'
      BY <1>2, <2>1, <3>1 DEF Nodes
    <3>3. \A j, k \in DOMAIN order' : \A a, b \in DOMAIN loop'.start :
            j < k /\ order'[j] = loop'.start[a] /\ order'[k] = loop'.start[b] => a < b
      BY <1>2, <1>3, <2>1
    <3>4. QED
      BY <3>2, <3>3 DEF RemainsOf
  <2>8. QED
    BY <2>4, <2>5, <2>6, <2>7 DEF Looping
<1>5. CASE DlistNext
  <2> DEFINE m == Len(loop.visited)
             n == Len(loop.start)
  <2>1. /\ pc = "loop" /\ pc' = "body" /\ iter.next # Null /\ iter.next \in Nodes
        /\ curr' = iter.next /\ iter' = [iter EXCEPT !.next = Advanced]
        /\ loop' = [loop EXCEPT !.visited = Append(loop.visited, iter.next)]
    BY <1>1, <1>5, LoopStands DEF DlistNext
  <2>2. /\ iter'.direction = iter.direction /\ iter'.next = Advanced
        /\ loop'.start = loop.start /\ loop'.visited = Append(loop.visited, iter.next)
    BY <2>1, <1>1 DEF TypeOK
  <2>3. /\ m \in Nat /\ n \in Nat /\ DOMAIN loop.start = 1..n
        /\ Len(loop'.visited) = m + 1
        /\ \A k \in 1..m : loop'.visited[k] = loop.visited[k]
        /\ loop'.visited[m + 1] = iter.next
        /\ loop.start \in Seq(Node)
    <3>1. loop.visited \in Seq(Node) /\ iter.next \in Node /\ loop.start \in Seq(Node)
      BY <1>1, <2>1, Order DEF TypeOK
    <3>2. QED
      BY <3>1, <2>2, LenProperties, AppendProperties
  <2>4. /\ \A a, b \in DOMAIN loop.start : a # b => loop.start[a] # loop.start[b]
        /\ RemainsOf(loop.start)
    BY <1>1, <2>1 DEF Looping
  <2>5. RemainsOf(loop.start)'
    BY <2>2, <2>4, <1>2 DEF RemainsOf, Nodes
  <2>6. CASE iter.direction = "head"
    <3>1. /\ m <= n /\ n - m <= len
          /\ \A k \in 1..m : loop.visited[k] = loop.start[k]
          /\ \A k \in (m + 1)..n : order[k - (n - len)] = loop.start[k]
          /\ iter.next = At(loop.start, m + 1)
      BY <1>1, <2>1, <2>6 DEF Looping, Forward
    <3> HIDE DEF m, n
    <3>2. m < n /\ iter.next = loop.start[m + 1]
      BY <2>1, <2>3, <3>1 DEF At
    <3>3. /\ (m + 1) - (n - len) \in 1..len
          /\ iter.next = order[(m + 1) - (n - len)]
      BY <2>3, <3>1, <3>2, <1>3
    <3>4. Advanced = At(loop.start, m + 2)
      <4>1. /\ (m + 1) - (n - len) < len => Advanced = order[(m + 1) - (n - len) + 1]
            /\ (m + 1) - (n - len) = len => Advanced = Null
        BY <3>3, <2>6, <1>1, Links DEF Advanced
      <4>2. CASE m + 2 <= n
        <5>1. /\ m + 2 \in (m + 1)..n /\ m + 2 \in 1..n
              /\ (m + 1) - (n - len) + 1 = (m + 2) - (n - len)
              /\ (m + 1) - (n - len) < len
          BY <4>2, <2>3, <3>1, <1>3
        <5>2. QED
          BY <4>1, <5>1, <3>1, <2>3 DEF At
      <4>3. CASE m + 1 = n
        <5>1. (m + 1) - (n - len) = len /\ m + 2 \notin 1..n
          BY <4>3, <2>3, <1>3
        <5>2. QED
          BY <4>1, <5>1, <2>3 DEF At
      <4>4. QED
        BY <4>2, <4>3, <2>3, <3>2
    <3>5. /\ m + 1 <= n /\ n - (m + 1) <= len
          /\ \A k \in 1..(m + 1) : loop'.visited[k] = loop.start[k]
          /\ \A k \in ((m + 1) + 1)..n : order[k - (n - len)] = loop.start[k]
          /\ (m + 1) + 1 = m + 2
      <4>1. ((m + 1) + 1)..n \subseteq (m + 1)..n
        BY <2>3
      <4>2. \A k \in 1..(m + 1) : k \in 1..m \/ k = m + 1
        BY <2>3
      <4>3. \A k \in 1..(m + 1) : loop'.visited[k] = loop.start[k]
        BY <4>2, <2>3, <3>1, <3>2
      <4>4. m + 1 <= n /\ n - (m + 1) <= len /\ (m + 1) + 1 = m + 2
        BY <2>3, <3>1, <3>2, <1>3
      <4>5. QED
        BY <3>1, <4>1, <4>3, <4>4
    <3>6. Forward'
      BY <2>1, <2>2, <2>3, <3>3, <3>4, <3>5, <1>2 DEF Forward, At, m, n
    <3>7. QED
      BY <3>6, <2>2, <2>4, <2>5, <2>6 DEF Looping
  <2>7. CASE iter.direction # "head"
    <3>1. /\ m <= n /\ n - m <= len
          /\ \A k \in 1..m : loop.visited[k] = loop.start[n + 1 - k]
          /\ \A k \in 1..(n - m) : order[k] = loop.start[k]
          /\ iter.next = At(loop.start, n - m)
      BY <1>1, <2>1, <2>7 DEF Looping, Backward
    <3> HIDE DEF m, n
    <3>2. m < n /\ iter.next = loop.start[n - m] /\ n - m \in 1..len
      BY <2>1, <2>3, <3>1, <1>3 DEF At
    <3>3. iter.next = order[n - m]
      BY <2>3, <3>1, <3>2
    <3>4. Advanced = At(loop.start, n - (m + 1))
      <4>1. /\ n - m > 1 => Advanced = order[(n - m) - 1]
            /\ n - m = 1 => Advanced = Null
        BY <3>2, <3>3, <2>7, <1>1, Links DEF Advanced
      <4>2. CASE n - m > 1
        <5>1. n - (m + 1) \in 1..n /\ n - (m + 1) \in 1..(n - m) /\ n - (m + 1) = (n - m) - 1
          BY <4>2, <2>3, <3>1
        <5>2. QED
          BY <4>1, <4>2, <5>1, <3>1, <2>3 DEF At
      <4>3. CASE n - m = 1
        <5>1. n - (m + 1) \notin 1..n
          BY <4>3, <2>3
        <5>2. QED
          BY <4>1, <4>3, <5>1, <2>3 DEF At
      <4>4. QED
        BY <4>2, <4>3, <2>3, <3>2
    <3>5. /\ m + 1 <= n /\ n - (m + 1) <= len
          /\ \A k \in 1..(m + 1) : loop'.visited[k] = loop.start[n + 1 - k]
          /\ \A k \in 1..(n - (m + 1)) : order[k] = loop.start[k]
          /\ n - (m + 1) + 1 = n - m
      <4>1. n + 1 - (m + 1) = n - m
        BY <2>3
      <4>2. QED
        BY <4>1, <2>3, <3>1, <3>2, <1>3
    <3>6. Backward'
      BY <2>1, <2>2, <2>3, <3>2, <3>3, <3>4, <3>5, <1>2 DEF Backward, At, m, n
    <3>7. QED
      BY <3>6, <2>2, <2>4, <2>5, <2>7 DEF Looping
  <2>8. QED
    BY <2>6, <2>7
<1>6. CASE ~(DlistNext \/ \E direction \in {"head", "tail"} : Rewind(direction))
  <2> DEFINE Same == InLoop' => InLoop /\ iter' = iter /\ loop' = loop
                                /\ (InBody' => InBody /\ curr' = curr)
  <2>1. ASSUME (\E v \in Value : DeleteClient(v)) \/ LoopEnds \/ Destroy \/ Destroyed
        PROVE  Same
    BY <2>1 DEF DeleteClient, Search, LoopEnds, Destroy, Destroyed
  <2>2. ASSUME DeleteReturned \/ Keep \/ Ended \/ UNCHANGED vars
        PROVE  Same
    BY <2>2 DEF DeleteReturned, Search, Keep, Ended, vars, find
  <2>3. ASSUME SearchNext PROVE Same
    BY <2>3 DEF SearchNext
  <2>4. ASSUME SearchEnds PROVE Same
    BY <2>4, <1>1 DEF SearchEnds, TypeOK
  <2>5. Same
    <3> HIDE DEF Same
    <3>1. QED
      BY <1>6, <2>1, <2>2, <2>3, <2>4 DEF Still
  <2> HIDE DEF InBody, InLoop, Searching
  <2>6. SUFFICES ASSUME InLoop' PROVE Looping'
    BY DEF Looping
  <2>7. /\ InLoop /\ iter' = iter /\ loop' = loop
        /\ InBody' => InBody /\ curr' = curr
    BY <2>5, <2>6
  <2>8. Forward => Forward'
    BY <2>7, <1>2 DEF Forward, At
  <2>9. Backward => Backward'
    BY <2>7, <1>2 DEF Backward, At
  <2>10. RemainsOf(loop.start) => RemainsOf(loop.start)'
    BY <2>7, <1>2 DEF RemainsOf, Nodes
  <2>11. QED
    BY <2>7, <2>8, <2>9, <2>10, <1>1 DEF Looping
<1>7. QED
  BY <1>4, <1>5, <1>6

LEMMA StillStep == ASSUME ListInv, Still PROVE ListInv'
<1>1. TypeOK /\ WellLinked /\ Valued /\ Destroying
  BY DEF ListInv
<1>2. UNCHANGED <<head, tail, len, prev, next, value, alloc, order>>
  BY StillList
<1>3. WellLinked'
  <2>1. pc' \notin {"destroy", "gone"} => pc \notin {"destroy", "gone"}
    BY <1>1 DEF TypeOK, Still, DeleteClient, DeleteReturned, Search, Rewind, SearchNext,
       SearchEnds, DlistNext, Keep, LoopEnds, Destroy, Destroyed, Ended, vars
  <2>2. QED
    BY <2>1, <1>1, <1>2 DEF WellLinked, At, Nodes
<1>4. Valued'
  BY <1>1, <1>2 DEF Valued, Nodes
<1>5. Destroying'
  <2>1. CASE Destroy
    <3>1. /\ curr' = head /\ left' = len /\ pc' = "destroy" /\ pc = "idle"
          /\ head = At(order, 1) /\ alloc = Nodes
      BY <2>1, <1>1 DEF Destroy, WellLinked
    <3>2. len \in Nat /\ (len - len) + 1 = 1 /\ DOMAIN order = 1..len
      BY <1>1, Order
    <3>3. alloc = {order[k] : k \in (len - len + 1)..len}
      BY <3>1, <3>2 DEF Nodes
    <3>4. QED
      BY <3>1, <3>2, <3>3, <1>2 DEF Destroying, At
  <2>2. CASE Destroyed
    <3>1. pc = "destroy" /\ left = 0 /\ pc' = "gone"
      BY <2>2 DEF Destroyed
    <3>2. len \in Nat /\ (len - 0 + 1)..len = {}
      BY <1>1, Order
    <3>3. alloc = {}
      BY <3>1, <3>2, <1>1 DEF Destroying
    <3>4. QED
      BY <3>1, <3>3, <1>2 DEF Destroying
  <2>3. CASE ~(Destroy \/ Destroyed)
    <3>1. pc' \in {"destroy", "gone"} => pc' = pc /\ UNCHANGED <<curr, left>>
      BY <2>3, <1>1 DEF TypeOK, Still, DeleteClient, DeleteReturned, Search, Rewind,
         SearchNext, SearchEnds, DlistNext, Keep, LoopEnds, Ended, vars
    <3>2. QED
      BY <3>1, <1>1, <1>2 DEF Destroying, At
  <2>4. QED
    BY <2>1, <2>2, <2>3
<1>6. QED
  BY <1>3, <1>4, <1>5, StillType, StillSeeking, StillLooping DEF ListInv

-----------------------------------------------------------------------------
(* Steps that change the list.                                             *)

LEMMA PutIn ==
  ASSUME ListInv, NEW n \in Node, NEW v \in Value, Adding(n, v), NEW p \in 1..(len + 1),
         Link(n, v, At(order, p - 1), At(order, p)), order' = Inserted(order, p, n)
  PROVE  ListInv'
<1>1. /\ pc = "idle" /\ pc' = "idle" /\ n \in Node \ alloc /\ v \in Value \ Elements
      /\ UNCHANGED <<iter, seek, key, caller, curr, left, loop>>
  BY DEF Adding, find
<1>2. /\ head' \in Place /\ tail' \in Place /\ len' \in 0..Cardinality(Node)
      /\ prev' \in [Node -> Place] /\ next' \in [Node -> Place]
      /\ value' \in [Node -> Value \cup {Null}] /\ alloc' \subseteq Node
      /\ order' \in Seq(Node)
      /\ WellLinked' /\ Valued'
  BY <1>1, Linked
<1>3. TypeOK'
  BY <1>1, <1>2 DEF TypeOK, ListInv
<1>4. Seeking' /\ Looping' /\ Destroying'
  BY <1>1 DEF Seeking, Looping, Destroying, Searching, InLoop, InBody
<1>5. QED
  BY <1>2, <1>3, <1>4 DEF ListInv

LEMMA AppendInserts ==
  ASSUME NEW s \in Seq(Node), NEW e \in Node
  PROVE  Append(s, e) = Inserted(s, Len(s) + 1, e)
<1>1. Len(s) \in Nat
  BY LenProperties
<1>2. PICK p \in 1..(Len(s) + 1) : p = Len(s) + 1
  BY <1>1
<1>3. IsInserted(Inserted(s, p, e), s, p, e)
  BY InsertedProperties
<1>4. /\ Append(s, e) \in Seq(Node) /\ Len(Append(s, e)) = Len(s) + 1
      /\ \A k \in 1..Len(s) : Append(s, e)[k] = s[k]
      /\ Append(s, e)[Len(s) + 1] = e
  BY AppendProperties
<1>5. \A k \in 1..(Len(s) + 1) : Append(s, e)[k] = Inserted(s, p, e)[k]
  BY <1>1, <1>2, <1>3, <1>4 DEF IsInserted
<1>6. Append(s, e) = Inserted(s, p, e)
  BY <1>3, <1>4, <1>5, SeqEqual DEF IsInserted
<1>7. QED
  BY <1>2, <1>6

LEMMA AddStep == ASSUME ListInv, Add PROVE ListInv'
<1>1. TypeOK /\ WellLinked
  BY DEF ListInv
<1>2. len \in Nat /\ len = Len(order) /\ order \in Seq(Node)
  BY <1>1, Order DEF TypeOK
<1>3. PICK n \in Node, v \in Value :
        \/ AddNodeHead(n, v) \/ AddNodeTail(n, v)
        \/ \E old \in Nodes : InsertAfter(n, v, old) \/ InsertBefore(n, v, old)
  BY DEF Add
<1>4. At(order, 0) = Null /\ At(order, len + 1) = Null
  BY <1>1, <1>2, Positions
<1>5. CASE AddNodeHead(n, v)
  <2>1. (IF len = 0 THEN Null ELSE head) = At(order, 1)
    BY <1>1, <1>4 DEF WellLinked
  <2>2. /\ Adding(n, v) /\ order' = Inserted(order, 1, n)
        /\ Link(n, v, At(order, 1 - 1), At(order, 1))
    BY <1>4, <1>5, <2>1 DEF AddNodeHead
  <2>3. 1 \in 1..(len + 1)
    BY <1>2
  <2>4. QED
    BY <2>2, <2>3, PutIn
<1>6. CASE AddNodeTail(n, v)
  <2>1. (IF len = 0 THEN Null ELSE tail) = At(order, len)
    BY <1>1, <1>4 DEF WellLinked
  <2>2. Append(order, n) = Inserted(order, len + 1, n)
    BY <1>2, AppendInserts
  <2>3. /\ Adding(n, v) /\ order' = Inserted(order, len + 1, n)
        /\ Link(n, v, At(order, (len + 1) - 1), At(order, len + 1))
    <3>1. (len + 1) - 1 = len
      BY <1>2
    <3>2. QED
      BY <1>4, <1>6, <2>1, <2>2, <3>1 DEF AddNodeTail
  <2>4. len + 1 \in 1..(len + 1)
    BY <1>2
  <2>5. QED
    BY <2>3, <2>4, PutIn
<1>7. ASSUME NEW old \in Nodes, InsertAfter(n, v, old) \/ InsertBefore(n, v, old)
      PROVE  ListInv'
  <2> DEFINE p == Position(old)
  <2>1. p \in 1..len /\ order[p] = old
    BY <1>1, Placed
  <2>2. next[old] = At(order, p + 1) /\ prev[old] = At(order, p - 1) /\ At(order, p) = old
    BY <1>1, <2>1, Links, Positions
  <2>3. /\ p \in 1..(len + 1) /\ p + 1 \in 1..(len + 1) /\ (p + 1) - 1 = p
    BY <1>2, <2>1
  <2>4. CASE InsertAfter(n, v, old)
    <3>1. /\ Adding(n, v) /\ order' = Inserted(order, p + 1, n)
          /\ Link(n, v, At(order, (p + 1) - 1), At(order, p + 1))
      BY <2>2, <2>3, <2>4 DEF InsertAfter
    <3> HIDE DEF p
    <3>2. QED
      BY <2>3, <3>1, PutIn
  <2>5. CASE InsertBefore(n, v, old)
    <3>1. /\ Adding(n, v) /\ order' = Inserted(order, p, n)
          /\ Link(n, v, At(order, p - 1), At(order, p))
      BY <2>2, <2>5 DEF InsertBefore
    <3> HIDE DEF p
    <3>2. QED
      BY <2>3, <3>1, PutIn
  <2>6. QED
    BY <1>7, <2>4, <2>5
<1>8. QED
  BY <1>3, <1>5, <1>6, <1>7

\* What a search in a loop finds is what the loop has in hand.
LEMMA FoundIsCurr ==
  ASSUME ListInv, pc = "found"
  PROVE  seek \in Nodes /\ (caller = "loop" => seek = curr)
<1> USE DEF Searching, InBody, InLoop
<1>1. TypeOK /\ WellLinked /\ Looping /\ Seeking /\ Valued
  BY DEF ListInv
<1>2. seek \in Nodes /\ value[seek] = key
  BY <1>1 DEF Seeking
<1>3. caller = "loop" => curr \in Nodes /\ value[curr] = key
  BY <1>1, LoopStands DEF Seeking
<1>4. QED
  BY <1>1, <1>2, <1>3 DEF Valued

LEMMA DeleteLooping ==
  ASSUME ListInv, DeleteFound, caller = "loop", NEW p \in 1..len, order[p] = seek,
         order' = Removed(order, p)
  PROVE  Looping'
<1> USE DEF Searching, InBody, InLoop
<1>1. TypeOK /\ WellLinked /\ Looping
  BY DEF ListInv
<1>2. /\ pc = "found" /\ pc' = "loop" /\ len' = len - 1 /\ alloc' = alloc \ {seek}
      /\ UNCHANGED <<iter, loop, curr>> /\ seek = curr
  BY FoundIsCurr DEF DeleteFound, Unlink
<1>3. /\ len \in Nat /\ DOMAIN order = 1..len
      /\ \A j, k \in 1..len : order[j] = order[k] => j = k
  BY <1>1, Order
<1>4. /\ DOMAIN order' = 1..(len - 1)
      /\ \A k \in 1..(len - 1) : order'[k] = IF k < p THEN order[k] ELSE order[k + 1]
      /\ Nodes' = Nodes \ {seek}
  BY <1>1, Left
<1> DEFINE m == Len(loop.visited)
           n == Len(loop.start)
<1>5. m \in Nat /\ n \in Nat /\ DOMAIN loop.start = 1..n
  BY <1>1, LenProperties DEF TypeOK
<1>6. /\ \A a, b \in DOMAIN loop.start : a # b => loop.start[a] # loop.start[b]
      /\ RemainsOf(loop.start)
  BY <1>1, <1>2 DEF Looping
<1>7. RemainsOf(loop.start)'
  <2>1. Nodes' = {loop'.start[k] : k \in DOMAIN loop'.start} \cap alloc'
    BY <1>2, <1>4, <1>6 DEF RemainsOf
  <2>2. \A j, k \in DOMAIN order' : \A a, b \in DOMAIN loop'.start :
          j < k /\ order'[j] = loop'.start[a] /\ order'[k] = loop'.start[b] => a < b
    <3> SUFFICES ASSUME NEW j \in 1..(len - 1), NEW k \in 1..(len - 1), j < k,
                        NEW a \in DOMAIN loop.start, NEW b \in DOMAIN loop.start,
                        order'[j] = loop.start[a], order'[k] = loop.start[b]
                 PROVE  a < b
      BY <1>2, <1>4
    <3>1. PICK x \in 1..len, y \in 1..len :
            x < y /\ order'[j] = order[x] /\ order'[k] = order[y]
      <4>1. /\ j \in 1..len /\ j + 1 \in 1..len /\ k \in 1..len /\ k + 1 \in 1..len
            /\ j < k /\ j < k + 1 /\ j + 1 < k + 1 /\ (j >= p => k >= p)
        BY <1>3
      <4>2. order'[j] = (IF j < p THEN order[j] ELSE order[j + 1])
        BY <1>4
      <4>3. order'[k] = (IF k < p THEN order[k] ELSE order[k + 1])
        BY <1>4
      <4>4. QED
        BY <4>1, <4>2, <4>3, <1>3
    <3>2. QED
      BY <3>1, <1>3, <1>6 DEF RemainsOf
  <2>3. QED
    BY <2>1, <2>2 DEF RemainsOf
<1>8. CASE iter.direction = "head"
  <2>1. /\ m <= n /\ n - m <= len
        /\ \A k \in 1..m : loop.visited[k] = loop.start[k]
        /\ \A k \in (m + 1)..n : order[k - (n - len)] = loop.start[k]
        /\ iter.next = At(loop.start, m + 1)
        /\ m - (n - len) \in 1..len /\ curr = order[m - (n - len)]
    BY <1>1, <1>2, <1>8 DEF Looping, Forward
  <2> HIDE DEF m, n
  <2>2. p = m - (n - len)
    BY <2>1, <1>2, <1>3
  <2>3. n - m <= len - 1
    BY <2>1, <1>3, <1>5
  <2>4. ASSUME NEW k \in (m + 1)..n
        PROVE  order'[k - (n - (len - 1))] = loop.start[k]
    <3>1. /\ k - (n - (len - 1)) \in 1..(len - 1)
          /\ ~(k - (n - (len - 1)) < p)
          /\ k - (n - (len - 1)) + 1 = k - (n - len)
      BY <2>1, <2>2, <1>3, <1>5
    <3>2. order'[k - (n - (len - 1))] = order[k - (n - len)]
      BY <3>1, <1>4
    <3>3. QED
      BY <3>2, <2>1
  <2>5. Forward'
    BY <2>1, <2>3, <2>4, <1>2 DEF Forward, At, m, n
  <2>6. QED
    BY <2>5, <1>2, <1>6, <1>7, <1>8 DEF Looping
<1>9. CASE iter.direction # "head"
  <2>1. /\ m <= n /\ n - m <= len
        /\ \A k \in 1..m : loop.visited[k] = loop.start[n + 1 - k]
        /\ \A k \in 1..(n - m) : order[k] = loop.start[k]
        /\ iter.next = At(loop.start, n - m)
        /\ n - m + 1 \in 1..len /\ curr = order[n - m + 1]
    BY <1>1, <1>2, <1>9 DEF Looping, Backward
  <2> HIDE DEF m, n
  <2>2. p = n - m + 1
    BY <2>1, <1>2, <1>3
  <2>3. n - m <= len - 1
    BY <2>1, <1>3, <1>5
  <2>4. ASSUME NEW k \in 1..(n - m)
        PROVE  order'[k] = loop.start[k]
    <3>1. k \in 1..(len - 1) /\ k < p
      BY <2>2, <2>3, <1>3, <1>5
    <3>2. QED
      BY <3>1, <1>4, <2>1
  <2>5. Backward'
    BY <2>1, <2>3, <2>4, <1>2 DEF Backward, At, m, n
  <2>6. QED
    BY <2>5, <1>2, <1>6, <1>7, <1>9 DEF Looping
<1>10. QED
  BY <1>8, <1>9

LEMMA DeleteStep == ASSUME ListInv, DeleteFound PROVE ListInv'
<1> USE DEF Searching, InBody, InLoop
<1>1. /\ TypeOK /\ WellLinked /\ pc = "found" /\ pc' = caller /\ seek' = Null
      /\ pc' \in {"idle", "loop"} /\ Unlink(seek) /\ order' = Removed(order, Position(seek))
      /\ UNCHANGED <<iter, key, caller, curr, left, loop>>
  BY DEF ListInv, DeleteFound, TypeOK
<1>2. seek \in Nodes /\ (caller = "loop" => seek = curr)
  BY <1>1, FoundIsCurr
<1>3. PICK p \in 1..len : p = Position(seek) /\ order[p] = seek
  BY <1>1, <1>2, Placed
<1>4. /\ head' \in Place /\ tail' \in Place /\ len' \in 0..Cardinality(Node)
      /\ prev' \in [Node -> Place] /\ next' \in [Node -> Place]
      /\ value' \in [Node -> Value \cup {Null}] /\ alloc' \subseteq Node
      /\ order' \in Seq(Node)
      /\ WellLinked' /\ Valued'
  BY <1>1, <1>3, Unlinked
<1>5. TypeOK'
  <2>1. Null \in Place
    BY Memory
  <2>2. QED
    BY <2>1, <1>1, <1>4 DEF TypeOK
<1>6. Seeking' /\ Destroying'
  BY <1>1 DEF Seeking, Destroying
<1>7. Looping'
  <2>1. CASE caller = "loop"
    BY <2>1, <1>1, <1>3, DeleteLooping
  <2>2. CASE caller = "idle"
    BY <2>2, <1>1 DEF Looping
  <2>3. QED
    BY <2>1, <2>2, <1>1
<1>8. QED
  BY <1>4, <1>5, <1>6, <1>7 DEF ListInv

LEMMA DestroyStep == ASSUME ListInv, DestroyNext PROVE ListInv'
<1>1. /\ TypeOK /\ WellLinked /\ pc = "destroy" /\ left > 0 /\ pc' = "destroy"
      /\ alloc' = alloc \ {curr} /\ curr' = next[curr] /\ left' = left - 1
      /\ UNCHANGED <<head, tail, len, prev, next, value, iter, order, loop>>
      /\ UNCHANGED <<seek, key, caller>>
      /\ left <= len /\ curr = At(order, len - left + 1)
      /\ alloc = {order[k] : k \in (len - left + 1)..len}
      /\ left \in Nat /\ len \in Nat
  BY Order, Memory DEF ListInv, DestroyNext, Destroying, TypeOK, find
<1>2. /\ DOMAIN order = 1..len /\ len - left + 1 \in 1..len
      /\ \A j, k \in 1..len : order[j] = order[k] => j = k
      /\ \A k \in 1..len : order[k] \in Nodes
      /\ Nodes \subseteq Node
  BY <1>1, Order
<1>3. curr = order[len - left + 1] /\ curr \in Node
  BY <1>1, <1>2 DEF At
<1>4. curr' = At(order, len - (left - 1) + 1)
  <2>1. next[order[len - left + 1]] = At(order, (len - left + 1) + 1)
    BY <1>1, <1>2, Links
  <2>2. (len - left + 1) + 1 = len - (left - 1) + 1
    BY <1>1
  <2>3. QED
    BY <2>1, <2>2, <1>1, <1>3
<1>5. alloc' = {order[k] : k \in (len - (left - 1) + 1)..len}
  <2>1. \A k \in (len - left + 1)..len :
          order[k] # curr <=> k \in (len - (left - 1) + 1)..len
    BY <1>1, <1>2, <1>3
  <2>2. (len - (left - 1) + 1)..len \subseteq (len - left + 1)..len
    BY <1>1
  <2>3. QED
    BY <2>1, <2>2, <1>1
<1>6. TypeOK'
  <2>1. left - 1 \in 0..Cardinality(Node)
    BY <1>1, Memory DEF TypeOK
  <2>2. next[curr] \in Place
    BY <1>1, <1>3 DEF TypeOK
  <2>3. QED
    BY <2>1, <2>2, <1>1 DEF TypeOK
<1>7. WellLinked' /\ Valued'
  BY <1>1 DEF WellLinked, Valued, At, Nodes, ListInv
<1>8. Seeking' /\ Looping'
  BY <1>1 DEF Seeking, Looping, Searching, InLoop, InBody
<1>9. Destroying'
  <2>1. left - 1 <= len
    BY <1>1
  <2>2. QED
    BY <2>1, <1>1, <1>4, <1>5 DEF Destroying, At
<1>10. QED
  BY <1>6, <1>7, <1>8, <1>9 DEF ListInv

LEMMA ListStep == ListInv /\ [Next]_vars => ListInv'
BY StillStep, AddStep, DeleteStep, DestroyStep DEF Next, Proceed, Still

LEMMA ListStarts == Init => ListInv
<1> SUFFICES ASSUME Init PROVE ListInv
  OBVIOUS
<1>1. /\ order = <<>> /\ Len(<<>>) = 0 /\ DOMAIN <<>> = {} /\ <<>> \in Seq(Node)
  BY DEF Init
<1>2. TypeOK
  BY <1>1, Memory DEF Init, TypeOK
<1>3. WellLinked /\ Valued
  BY <1>1 DEF Init, WellLinked, Valued, At, Nodes
<1>4. Seeking /\ Looping /\ Destroying
  BY DEF Init, Seeking, Looping, Destroying, Searching, InLoop, InBody
<1>5. QED
  BY <1>2, <1>3, <1>4 DEF ListInv

-----------------------------------------------------------------------------
(* dlist_index.                                                            *)

\* The elements met on the way along link from first, one more with each step.
Path(f, n, first, link) ==
  f = [d \in 0..n |-> IF d = 0 THEN first
                      ELSE IF f[d - 1] = Null THEN Null ELSE link[f[d - 1]]]

LEMMA IndexFollows ==
  ASSUME NEW k, NEW n, n = IF k < 0 THEN (-k) - 1 ELSE k,
         NEW g, \A f : Path(f, n, IF k < 0 THEN tail ELSE head,
                               IF k < 0 THEN prev ELSE next) <=> f = g
  PROVE  Index(k) = g[n]
BY DEF Index, Path

\* A set of numbers has a least one.
LEMMA LeastNumber ==
  ASSUME NEW T, T \subseteq Nat, T # {}
  PROVE  \E x \in T : \A y \in T : x <= y
<1> DEFINE R == {ss \in Nat \X Nat : ss[1] < ss[2]}
<1>1. IsWellFoundedOn(R, Nat)
  BY NatLessThanWellFounded, Zenon DEF OpToRel
<1>2. PICK x \in T : \A y \in T : <<y, x>> \notin R
  <2> HIDE DEF R
  <2> QED  BY <1>1, WFMin
<1>3. \A y \in T : ~(y < x)
  BY <1>2
<1>4. QED
  BY <1>3

LEMMA PathUnique ==
  ASSUME NEW n \in Nat, NEW first, NEW link, NEW f, NEW g,
         Path(f, n, first, link), Path(g, n, first, link)
  PROVE  f = g
<1> DEFINE Differ == {d \in 0..n : f[d] # g[d]}
<1>1. DOMAIN f = 0..n /\ DOMAIN g = 0..n /\ f = [d \in 0..n |-> f[d]] /\ g = [d \in 0..n |-> g[d]]
  BY DEF Path
<1>2. ASSUME Differ # {} PROVE FALSE
  <2>1. PICK d \in Differ : \A e \in Differ : d <= e
    <3>1. Differ \subseteq Nat
      OBVIOUS
    <3> HIDE DEF Differ
    <3>2. QED
      BY <3>1, <1>2, LeastNumber
  <2>2. d \in 0..n /\ f[d] # g[d]
    BY <2>1
  <2>3. /\ f[d] = IF d = 0 THEN first ELSE IF f[d - 1] = Null THEN Null ELSE link[f[d - 1]]
        /\ g[d] = IF d = 0 THEN first ELSE IF g[d - 1] = Null THEN Null ELSE link[g[d - 1]]
    BY <2>2 DEF Path
  <2>4. d # 0 => f[d - 1] = g[d - 1]
    BY <2>1, <2>2
  <2>5. QED
    BY <2>2, <2>3, <2>4
<1>3. \A d \in 0..n : f[d] = g[d]
  BY <1>2
<1>4. QED
  BY <1>1, <1>3

\* From the head by next, and from the tail by prev.
LEMMA Paths ==
  ASSUME TypeOK, WellLinked, NEW n \in Nat
  PROVE  /\ Path([d \in 0..n |-> At(order, d + 1)], n, head, next)
         /\ Path([d \in 0..n |-> At(order, len - d)], n, tail, prev)
<1>1. len \in Nat /\ head = At(order, 1) /\ tail = At(order, len)
  BY Order DEF WellLinked
<1>2. ASSUME NEW d \in 1..n
      PROVE  At(order, d + 1) = IF At(order, d) = Null THEN Null ELSE next[At(order, d)]
  <2>1. CASE d \in 1..len
    <3>1. At(order, d) = order[d] /\ order[d] # Null
      BY <2>1, Order DEF At
    <3>2. QED
      BY <2>1, <3>1, Links
  <2>2. CASE d \notin 1..len
    <3>1. d + 1 \notin 1..len
      BY <1>1, <2>2
    <3>2. QED
      BY <2>2, <3>1, Positions
  <2>3. QED
    BY <2>1, <2>2
<1>3. ASSUME NEW d \in 1..n
      PROVE  At(order, len - d)
               = IF At(order, len - (d - 1)) = Null THEN Null ELSE prev[At(order, len - (d - 1))]
  <2> DEFINE k == len - (d - 1)
  <2>1. k \in Int /\ k - 1 = len - d /\ (k \notin 1..len => k - 1 \notin 1..len)
    BY <1>1
  <2> HIDE DEF k
  <2>2. At(order, k - 1) = IF At(order, k) = Null THEN Null ELSE prev[At(order, k)]
    <3>1. CASE k \in 1..len
      <4>1. At(order, k) = order[k] /\ order[k] # Null
        BY <3>1, Order DEF At
      <4>2. QED
        BY <3>1, <4>1, Links
    <3>2. CASE k \notin 1..len
      BY <2>1, <3>2, Positions
    <3>3. QED
      BY <3>1, <3>2
  <2>3. QED
    BY <2>1, <2>2 DEF k
<1>4. Path([d \in 0..n |-> At(order, d + 1)], n, head, next)
  <2> DEFINE g == [d \in 0..n |-> At(order, d + 1)]
  <2>1. \A d \in 0..n : g[d] = At(order, d + 1)
    OBVIOUS
  <2>2. \A d \in 0..n : d # 0 => d \in 1..n /\ d - 1 \in 0..n /\ (d - 1) + 1 = d
    OBVIOUS
  <2>3. \A d \in 0..n : g[d] = IF d = 0 THEN head
                               ELSE IF g[d - 1] = Null THEN Null ELSE next[g[d - 1]]
    BY <2>1, <2>2, <1>1, <1>2
  <2>4. g = [d \in 0..n |-> g[d]]
    OBVIOUS
  <2> HIDE DEF g
  <2>5. Path(g, n, head, next)
    BY <2>3, <2>4 DEF Path
  <2>6. QED
    BY <2>5 DEF g
<1>5. Path([d \in 0..n |-> At(order, len - d)], n, tail, prev)
  <2> DEFINE g == [d \in 0..n |-> At(order, len - d)]
  <2>1. \A d \in 0..n : g[d] = At(order, len - d)
    OBVIOUS
  <2>2. \A d \in 0..n : d # 0 => d \in 1..n /\ d - 1 \in 0..n
    OBVIOUS
  <2>3. len - 0 = len
    BY <1>1
  <2>4. \A d \in 0..n : g[d] = IF d = 0 THEN tail
                               ELSE IF g[d - 1] = Null THEN Null ELSE prev[g[d - 1]]
    BY <2>1, <2>2, <2>3, <1>1, <1>3
  <2>5. g = [d \in 0..n |-> g[d]]
    OBVIOUS
  <2> HIDE DEF g
  <2>6. Path(g, n, tail, prev)
    BY <2>4, <2>5 DEF Path
  <2>7. QED
    BY <2>6 DEF g
<1>6. QED
  BY <1>4, <1>5

LEMMA IndexCounts ==
  ASSUME TypeOK, WellLinked, NEW k \in Int
  PROVE  Index(k) = At(order, IF k < 0 THEN len + 1 + k ELSE k + 1)
<1>1. len \in Nat
  BY Order
<1>2. CASE k < 0
  <2>1. PICK n \in Nat : n = (-k) - 1
    BY <1>2
  <2> DEFINE g == [d \in 0..n |-> At(order, len - d)]
  <2>2. \A f : Path(f, n, tail, prev) <=> f = g
    <3>1. Path(g, n, tail, prev)
      BY Paths
    <3> HIDE DEF g
    <3>2. QED
      BY <3>1, PathUnique
  <2>3. g[n] = At(order, len - n) /\ len - n = len + 1 + k
    BY <1>1, <2>1
  <2> HIDE DEF g
  <2>4. Index(k) = g[n]
    BY <1>2, <2>1, <2>2, IndexFollows
  <2>5. QED
    BY <1>2, <2>3, <2>4
<1>3. CASE ~(k < 0)
  <2>1. k \in Nat
    BY <1>3
  <2> DEFINE g == [d \in 0..k |-> At(order, d + 1)]
  <2>2. \A f : Path(f, k, head, next) <=> f = g
    <3>1. Path(g, k, head, next)
      BY <2>1, Paths
    <3> HIDE DEF g
    <3>2. QED
      BY <2>1, <3>1, PathUnique
  <2>3. g[k] = At(order, k + 1)
    BY <2>1
  <2> HIDE DEF g
  <2>4. Index(k) = g[k]
    BY <1>3, <2>2, IndexFollows
  <2>5. QED
    BY <1>3, <2>3, <2>4
<1>4. QED
  BY <1>2, <1>3

-----------------------------------------------------------------------------
(* Theorems.                                                               *)

\* What the steps rest on holds in every state of the list.
THEOREM ListInvariant == Spec => []ListInv
BY ListStarts, ListStep, PTL DEF Spec

\* The links, the ends, the length and the index are those of the list that the
\* calls should have made, for any clients and any finite memory
\* (dlist.c: dlist_add_node_head, dlist_add_node_tail, dlist_insert_node,
\* dlist_delete_node, dlist_index).
THEOREM ListStaysSound == Spec => []ListSound
<1>1. ListInv => ListSound
  <2> SUFFICES ASSUME ListInv PROVE ListSound
    OBVIOUS
  <2>1. TypeOK /\ WellLinked
    BY DEF ListInv
  <2>2. len \in Nat
    BY <2>1, Order
  <2>3. \A k \in (-len - 1)..len : k \in Int
    BY <2>2
  <2>4. IndexCountsBothWays
    BY <2>1, <2>3, IndexCounts DEF IndexCountsBothWays
  <2>5. QED
    BY <2>1, <2>4 DEF ListSound
<1>2. QED
  BY <1>1, ListInvariant, PTL

\* No iterator stands at a node that has been freed, and dlist_destroy leaves none
\* (dlist.c: dlist_next, dlist_search_key, dlist_destroy).
THEOREM NodesAreFreedOnce == Spec => []NodesFreedOnce
<1>1. ListInv => NodesFreedOnce
  <2> USE DEF Searching, InBody, InLoop
  <2> SUFFICES ASSUME ListInv PROVE NodesFreedOnce
    OBVIOUS
  <2>1. TypeOK /\ WellLinked /\ Seeking /\ Looping /\ Destroying
    BY DEF ListInv
  <2>2. pc \notin {"destroy", "gone"} => alloc = Nodes
    BY <2>1 DEF WellLinked
  <2>3. InLoop => iter.next \in alloc \cup {Null}
    BY <2>1, <2>2, LoopStands
  <2>4. Searching => seek \in alloc \cup {Null}
    BY <2>1, <2>2 DEF Seeking
  <2>5. pc = "destroy" /\ left > 0 => curr \in alloc
    <3> SUFFICES ASSUME pc = "destroy", left > 0 PROVE curr \in alloc
      OBVIOUS
    <3>1. /\ left <= len /\ left \in Nat /\ len \in Nat /\ DOMAIN order = 1..len
          /\ curr = At(order, len - left + 1)
          /\ alloc = {order[k] : k \in (len - left + 1)..len}
      BY <2>1, Order, Memory DEF Destroying, TypeOK
    <3>2. len - left + 1 \in 1..len /\ len - left + 1 \in (len - left + 1)..len
      BY <3>1
    <3>3. QED
      BY <3>1, <3>2 DEF At
  <2>6. IteratorsOnList
    BY <2>3, <2>4, <2>5 DEF IteratorsOnList
  <2>7. DestroyFreesAll
    BY <2>1 DEF DestroyFreesAll, Destroying
  <2>8. QED
    BY <2>6, <2>7 DEF NodesFreedOnce
<1>2. QED
  BY <1>1, ListInvariant, PTL

\* The loop of check_timeout returns each element that was on the list when it
\* began, once and in order, whichever of them its body deletes, and the body
\* deletes none but the one it was given: in either direction, for a list of any
\* length (net.c: check_timeout, delete_client; dlist.c: dlist_next).
THEOREM LoopVisitsAll == Spec => LoopsVisitAll
<1>1. ListInv /\ [Next]_vars =>
        (pc = "loop" /\ pc' = "idle" =>
           /\ loop.start = IF iter.direction = "head" THEN loop.visited
                           ELSE Backwards(loop.visited)
           /\ RemainsOf(loop.start))
  <2> SUFFICES ASSUME ListInv, [Next]_vars, pc = "loop", pc' = "idle"
               PROVE  /\ loop.start = IF iter.direction = "head" THEN loop.visited
                                      ELSE Backwards(loop.visited)
                      /\ RemainsOf(loop.start)
    OBVIOUS
  <2> DEFINE m == Len(loop.visited)
             n == Len(loop.start)
  <2>1. TypeOK /\ WellLinked /\ Looping
    BY DEF ListInv
  <2>2. iter.next = Null
    BY DEF Next, vars, Proceed, Add, AddNodeHead, AddNodeTail, InsertAfter, InsertBefore,
       Adding, DeleteClient, Search, Rewind, SearchNext, SearchEnds, DeleteFound,
       DlistNext, DeleteReturned, Keep, LoopEnds, Destroy, DestroyNext, Destroyed, Ended
  <2>3. /\ m \in Nat /\ n \in Nat /\ DOMAIN loop.start = 1..n /\ DOMAIN loop.visited = 1..m
        /\ loop.start \in Seq(Node) /\ loop.visited \in Seq(Node)
        /\ \A k \in 1..n : loop.start[k] # Null
    <3>1. loop.start \in Seq(Node) /\ loop.visited \in Seq(Node)
      BY <2>1 DEF TypeOK
    <3>2. m \in Nat /\ n \in Nat /\ DOMAIN loop.start = 1..n /\ DOMAIN loop.visited = 1..m
      BY <3>1, LenProperties
    <3>3. \A k \in 1..n : loop.start[k] \in Node
      BY <3>1, ElementOfSeq
    <3>4. QED
      BY <3>1, <3>2, <3>3, Memory
  <2>4. RemainsOf(loop.start)
    BY <2>1 DEF Looping, InLoop
  <2>5. CASE iter.direction = "head"
    <3>1. /\ m <= n /\ iter.next = At(loop.start, m + 1)
          /\ \A k \in 1..m : loop.visited[k] = loop.start[k]
      BY <2>1, <2>5 DEF Looping, InLoop, Forward
    <3> HIDE DEF m, n
    <3>2. ~(m + 1 \in 1..n)
      BY <3>1, <2>2, <2>3 DEF At
    <3>3. m = n
      BY <3>1, <3>2, <2>3
    <3>4. loop.start = loop.visited
      BY <3>1, <3>3, <2>3, SeqEqual DEF m, n
    <3>5. QED
      BY <3>4, <2>4, <2>5
  <2>6. CASE iter.direction # "head"
    <3>1. /\ m <= n /\ iter.next = At(loop.start, n - m)
          /\ \A k \in 1..m : loop.visited[k] = loop.start[n + 1 - k]
      BY <2>1, <2>6 DEF Looping, InLoop, Backward
    <3> HIDE DEF m, n
    <3>2. ~(n - m \in 1..n)
      BY <3>1, <2>2, <2>3 DEF At
    <3>3. m = n
      BY <3>1, <3>2, <2>3
    <3>4. loop.start = [k \in 1..n |-> loop.start[k]]
      BY <2>3, LenProperties DEF n
    <3>5. \A k \in 1..n : /\ n + 1 - k \in 1..n /\ n + 1 - (n + 1 - k) = k
      BY <2>3
    <3>6. \A k \in 1..n : loop.visited[n + 1 - k] = loop.start[k]
      BY <3>1, <3>3, <3>5
    <3>7. Backwards(loop.visited) = [k \in 1..n |-> loop.visited[n + 1 - k]]
      BY <2>3, <3>3 DEF Backwards, m
    <3>8. loop.start = Backwards(loop.visited)
      BY <3>4, <3>6, <3>7
    <3>9. QED
      BY <3>8, <2>4, <2>6
  <2>7. QED
    BY <2>5, <2>6
<1>2. ListInv /\ [Next]_vars =>
        (pc = "found" /\ caller = "loop" => alloc \ alloc' = {curr} \/ UNCHANGED vars)
  <2> SUFFICES ASSUME ListInv, Next, pc = "found", caller = "loop"
               PROVE  alloc \ alloc' = {curr}
    OBVIOUS
  <2>1. DeleteFound
    BY DEF Next, Proceed, Add, AddNodeHead, AddNodeTail, InsertAfter, InsertBefore,
       Adding, DeleteClient, Rewind, SearchNext, SearchEnds,
       DlistNext, DeleteReturned, Keep, LoopEnds, Destroy, DestroyNext, Destroyed, Ended
  <2>2. seek \in Nodes /\ seek = curr /\ alloc = Nodes
    BY FoundIsCurr DEF ListInv, WellLinked
  <2>3. alloc' = alloc \ {seek}
    BY <2>1 DEF DeleteFound, Unlink
  <2>4. QED
    BY <2>2, <2>3
<1>3. Spec => LoopReturnsAll
  BY <1>1, ListInvariant, PTL DEF Spec, LoopReturnsAll
<1>4. Spec => OnlyReturnedDeleted
  BY <1>2, ListInvariant, PTL DEF Spec, OnlyReturnedDeleted
<1>5. QED
  BY <1>3, <1>4 DEF LoopsVisitAll

=============================================================================
