---------------------------- MODULE RadixProofs ----------------------------
(***************************************************************************)
(* Theorems about the radix trie, for keys of any number of bits and any   *)
(* sequence of calls, allocations that fail among them; and about the      *)
(* lines of a CIDR file, which are carried out on it.                      *)
(***************************************************************************)
EXTENDS GeoCidr, SequenceTheorems, NaturalsInduction, WellFoundedInduction,
        FiniteSetTheorems, TLAPS

Bit == {0, 1}

\* The node below p on the side of b.
Child(p, b) == Append(p, b)

-----------------------------------------------------------------------------
(* Paths.                                                                   *)

\* The paths are the sequences of at most Width bits.
LEMMA PathSeq ==
  /\ \A p : p \in Path <=> p \in Seq(Bit) /\ Len(p) <= Width
  /\ \A p \in Path : p \in Seq(Bit) /\ Len(p) \in 0..Width
  /\ Width \in Nat
<1>1. Width \in Nat
  BY RadixAssumption
<1>2. ASSUME NEW p, p \in Path
      PROVE  p \in Seq(Bit) /\ Len(p) \in 0..Width
  <2>1. PICK n \in 0..Width : p \in [1..n -> Bit]
    BY <1>2 DEF Path, Bit
  <2>2. n \in Nat
    BY <1>1
  <2>3. p \in Seq(Bit)
    BY <2>1, <2>2
  <2>4. p \in [1..Len(p) -> Bit] /\ Len(p) \in Nat
    BY <2>3, LenProperties
  <2>5. Len(p) = n
    BY <2>1, <2>2, <2>4
  <2>6. QED
    BY <2>3, <2>5
<1>3. ASSUME NEW p, p \in Seq(Bit), Len(p) <= Width
      PROVE  p \in Path
  <2>1. p \in [1..Len(p) -> Bit] /\ Len(p) \in Nat
    BY <1>3, LenProperties
  <2>2. Len(p) \in 0..Width
    BY <1>1, <1>3, <2>1
  <2>3. QED
    BY <2>1, <2>2 DEF Path, Bit
<1>4. QED
  BY <1>1, <1>2, <1>3

\* The root is the path without bits, and the only one.
LEMMA RootPath ==
  /\ Root \in Path /\ Len(Root) = 0
  /\ \A p \in Path : Len(p) = 0 => p = Root
<1>1. Root \in Seq(Bit) /\ Len(Root) = 0
  BY EmptySeq DEF Root
<1>2. \A p \in Seq(Bit) : p # <<>> => Len(p) \in Nat \ {0}
  BY EmptySeq
<1>3. Root \in Path
  <2>1. Len(Root) <= Width
    BY <1>1, PathSeq
  <2>2. QED
    BY <1>1, <2>1, PathSeq
<1>4. ASSUME NEW p \in Path, Len(p) = 0
      PROVE  p = Root
  <2>1. p \in Seq(Bit)
    BY PathSeq
  <2>2. QED
    BY <1>2, <1>4, <2>1 DEF Root
<1>5. QED
  BY <1>1, <1>3, <1>4

\* Paths of one length with the same bits are the same.
LEMMA PathEqual ==
  ASSUME NEW p \in Path, NEW q \in Path, Len(p) = Len(q),
         \A i \in 1..Len(p) : p[i] = q[i]
  PROVE  p = q
<1>1. p \in Seq(Bit) /\ q \in Seq(Bit)
  BY PathSeq
<1>2. QED
  BY <1>1, SeqEqual

\* The first n bits of a path.
LEMMA UpBits ==
  ASSUME NEW p \in Path, NEW n \in 0..Len(p)
  PROVE  /\ Up(p, n) \in Path /\ Len(Up(p, n)) = n
         /\ \A i \in 1..n : Up(p, n)[i] = p[i]
<1>1. p \in Seq(Bit) /\ Len(p) \in Nat /\ Len(p) <= Width /\ Width \in Nat
  BY PathSeq
<1>2. \A i \in 1..n : p[i] \in Bit
  BY <1>1, ElementOfSeq
<1>3. n \in Int /\ 1 \in Int /\ n - 1 + 1 = n /\ \A i \in 1..n : 1 + i - 1 = i
  BY <1>1
<1>4. /\ Up(p, n) \in Seq(Bit)
      /\ Len(Up(p, n)) = IF 1 <= n THEN n - 1 + 1 ELSE 0
      /\ \A i \in 1..(n - 1 + 1) : Up(p, n)[i] = p[1 + i - 1]
  BY <1>2, <1>3, SubSeqProperties DEF Up
<1>5. Len(Up(p, n)) = n
  BY <1>1, <1>4
<1>6. QED
  BY <1>1, <1>3, <1>4, <1>5, PathSeq

\* Prefixes of a path are prefixes of one another.
LEMMA UpFacts ==
  ASSUME NEW p \in Path
  PROVE  /\ Up(p, Len(p)) = p /\ Up(p, 0) = Root
         /\ \A n \in 0..Len(p) : /\ Up(p, n) \in Path /\ Len(Up(p, n)) = n
                                 /\ \A m \in 0..n : Up(Up(p, n), m) = Up(p, m)
<1>1. Len(p) \in Nat
  BY PathSeq
<1>2. Up(p, Len(p)) = p
  <2>1. Len(p) \in 0..Len(p)
    BY <1>1
  <2>2. QED
    BY <2>1, UpBits, PathEqual
<1>3. Up(p, 0) = Root
  <2>1. 0 \in 0..Len(p)
    BY <1>1
  <2>2. QED
    BY <2>1, UpBits, RootPath
<1>4. ASSUME NEW n \in 0..Len(p), NEW m \in 0..n
      PROVE  Up(Up(p, n), m) = Up(p, m)
  <2>1. Up(p, n) \in Path /\ Len(Up(p, n)) = n /\ \A i \in 1..n : Up(p, n)[i] = p[i]
    BY UpBits
  <2>2. m \in 0..Len(Up(p, n)) /\ m \in 0..Len(p)
    BY <1>1, <2>1
  <2>3. /\ Up(Up(p, n), m) \in Path /\ Len(Up(Up(p, n), m)) = m
        /\ \A i \in 1..m : Up(Up(p, n), m)[i] = Up(p, n)[i]
    BY <2>1, <2>2, UpBits
  <2>4. /\ Up(p, m) \in Path /\ Len(Up(p, m)) = m
        /\ \A i \in 1..m : Up(p, m)[i] = p[i]
    BY <2>2, UpBits
  <2>5. \A i \in 1..m : i \in 1..n
    BY <1>1
  <2>6. QED
    BY <2>1, <2>3, <2>4, <2>5, PathEqual
<1>5. QED
  BY <1>2, <1>3, <1>4, UpBits

\* A child: one bit longer, its other prefixes those of the parent.
LEMMA ChildFacts ==
  ASSUME NEW p \in Path, NEW b \in Bit, Child(p, b) \in Path
  PROVE  /\ Len(Child(p, b)) = Len(p) + 1 /\ Child(p, b)[Len(p) + 1] = b
         /\ \A n \in 0..Len(p) : Up(Child(p, b), n) = Up(p, n)
<1>1. p \in Seq(Bit) /\ Len(p) \in Nat
  BY PathSeq
<1>2. /\ Append(p, b) \in Seq(Bit)
      /\ Append(p, b) # << >>
      /\ Len(Append(p, b)) = Len(p) + 1
      /\ \A i \in 1..Len(p) : Append(p, b)[i] = p[i]
      /\ Append(p, b)[Len(p) + 1] = b
  BY <1>1, AppendProperties
<1>3. /\ Len(Child(p, b)) = Len(p) + 1 /\ Child(p, b)[Len(p) + 1] = b
      /\ \A i \in 1..Len(p) : Child(p, b)[i] = p[i]
  BY <1>2 DEF Child
<1>4. ASSUME NEW n \in 0..Len(p)
      PROVE  Up(Child(p, b), n) = Up(p, n)
  <2>1. n \in 0..Len(Child(p, b)) /\ \A i \in 1..n : i \in 1..Len(p)
    BY <1>1, <1>3
  <2>2. /\ Up(Child(p, b), n) \in Path /\ Len(Up(Child(p, b), n)) = n
        /\ \A i \in 1..n : Up(Child(p, b), n)[i] = Child(p, b)[i]
    BY <2>1, UpBits
  <2>3. /\ Up(p, n) \in Path /\ Len(Up(p, n)) = n
        /\ \A i \in 1..n : Up(p, n)[i] = p[i]
    BY UpBits
  <2>4. QED
    BY <1>3, <2>1, <2>2, <2>3, PathEqual
<1>5. QED
  BY <1>3, <1>4

\* The next node on the way to p is a child of the one before.
LEMMA ChildOnWay ==
  ASSUME NEW p \in Path, NEW n \in 0..(Len(p) - 1)
  PROVE  p[n + 1] \in Bit /\ Child(Up(p, n), p[n + 1]) = Up(p, n + 1)
<1>1. p \in Seq(Bit) /\ Len(p) \in Nat /\ n \in 0..Len(p) /\ n + 1 \in 0..Len(p)
      /\ n + 1 \in 1..Len(p) /\ n + 1 \in 1..(n + 1) /\ \A i \in 1..n : i \in 1..(n + 1)
  BY PathSeq
<1>2. p[n + 1] \in Bit
  BY <1>1, ElementOfSeq
<1>3. /\ Up(p, n) \in Path /\ Len(Up(p, n)) = n /\ \A i \in 1..n : Up(p, n)[i] = p[i]
  BY <1>1, UpBits
<1>4. /\ Up(p, n + 1) \in Path /\ Len(Up(p, n + 1)) = n + 1
      /\ \A i \in 1..(n + 1) : Up(p, n + 1)[i] = p[i]
  BY <1>1, UpBits
<1> DEFINE u == Up(p, n)
           b == p[n + 1]
<1> HIDE DEF u, b
<1>5. u \in Seq(Bit) /\ Len(u) = n /\ b \in Bit
  BY <1>2, <1>3, PathSeq DEF u, b
<1>6. /\ Append(u, b) \in Seq(Bit)
      /\ Append(u, b) # << >>
      /\ Len(Append(u, b)) = Len(u) + 1
      /\ \A i \in 1..Len(u) : Append(u, b)[i] = u[i]
      /\ Append(u, b)[Len(u) + 1] = b
  BY <1>5, AppendProperties
<1>7. /\ Child(u, b) \in Seq(Bit) /\ Len(Child(u, b)) = n + 1
      /\ \A i \in 1..n : Child(u, b)[i] = u[i]
      /\ Child(u, b)[n + 1] = b
  BY <1>5, <1>6 DEF Child
<1>8. Child(u, b) \in Path
  BY <1>4, <1>7, PathSeq
<1>9. \A i \in 1..(n + 1) : Child(u, b)[i] = Up(p, n + 1)[i]
  <2>1. SUFFICES ASSUME NEW i \in 1..(n + 1)
                 PROVE  Child(u, b)[i] = Up(p, n + 1)[i]
    OBVIOUS
  <2>2. CASE i = n + 1
    BY <1>1, <1>4, <1>7, <2>2 DEF b
  <2>3. CASE i # n + 1
    <3>1. i \in 1..n
      BY <2>3
    <3>2. QED
      BY <3>1, <1>3, <1>4, <1>7 DEF u
  <2>4. QED
    BY <2>2, <2>3
<1>10. Child(u, b) = Up(p, n + 1)
  BY <1>4, <1>7, <1>8, <1>9, PathEqual
<1>11. QED
  BY <1>2, <1>10 DEF u, b

\* The way to p leads from the root to p.
LEMMA WayFacts ==
  ASSUME NEW p \in Path
  PROVE  /\ Way(p) \subseteq Path /\ p \in Way(p) /\ Root \in Way(p)
         /\ \A q \in Way(p) : Way(q) \subseteq Way(p)
<1>1. Len(p) \in Nat
  BY PathSeq
<1>2. 0 \in 0..Len(p) /\ Len(p) \in 0..Len(p)
  BY <1>1
<1>3. ASSUME NEW q \in Way(p), NEW r \in Way(q)
      PROVE  r \in Way(p)
  <2>1. PICK n \in 0..Len(p) : q = Up(p, n)
    BY DEF Way
  <2>2. Len(q) = n /\ \A m \in 0..n : Up(q, m) = Up(p, m)
    BY <2>1, UpFacts
  <2>3. PICK m \in 0..n : r = Up(q, m)
    BY <2>2 DEF Way
  <2>4. m \in 0..Len(p)
    BY <1>1
  <2>5. QED
    BY <2>2, <2>3, <2>4 DEF Way
<1>4. QED
  BY <1>2, <1>3, UpFacts DEF Way

\* A set of naturals without elements above n has a greatest element.
LEMMA Greatest ==
  ASSUME NEW n \in Nat, NEW S, S \subseteq 0..n, S # {}
  PROVE  \E x \in S : \A y \in S : y <= x
<1> DEFINE R == {ss \in Nat \X Nat : ss[1] < ss[2]}
           T == {n - x : x \in S}
<1>1. IsWellFoundedOn(R, Nat)
  BY NatLessThanWellFounded, Zenon DEF OpToRel
<1>2. T \subseteq Nat /\ T # {}
  <2>1. \A x \in S : n - x \in Nat
    OBVIOUS
  <2>2. QED
    BY <2>1
<1>3. PICK t \in T : \A u \in T : <<u, t>> \notin R
  <2> HIDE DEF R, T
  <2> QED  BY <1>1, <1>2, WFMin
<1>4. PICK x \in S : t = n - x
  OBVIOUS
<1>5. \A y \in S : ~(n - y < n - x)
  BY <1>2, <1>3, <1>4
<1>6. QED
  BY <1>5

-----------------------------------------------------------------------------
(* The invariant: radix_tree_free stands at a node while it runs.           *)
RadixInv ==
  /\ nodes \subseteq Path
  /\ value \in [Path -> Value \cup {NoValue}]
  /\ ret \in {-1, 0, 1}
  /\ WellRooted
  /\ walk = {} \/ \E p \in nodes : walk = {p}

LEMMA InvImpliesSound == RadixInv => TreeSound
<1>1. ASSUME RadixInv
      PROVE  walk \subseteq Path /\ Cardinality(walk) <= 1
  <2>1. CASE walk = {}
    BY <2>1, FS_EmptySet
  <2>2. CASE \E p \in nodes : walk = {p}
    <3>1. PICK p \in nodes : walk = {p}
      BY <2>2
    <3>2. Cardinality(walk) = 1
      BY <3>1, FS_Singleton
    <3>3. QED
      BY <1>1, <3>1, <3>2 DEF RadixInv
  <2>3. QED
    BY <1>1, <2>1, <2>2 DEF RadixInv
<1>2. QED
  BY <1>1 DEF RadixInv, TreeSound, TypeOK

LEMMA InitInv == Init => RadixInv
<1>1. Way(Root) = {Root}
  BY RootPath, UpFacts DEF Way
<1>2. QED
  BY <1>1, RootPath DEF Init, RadixInv, WellRooted

\* What the allocated nodes are to one another: a node on the way to an allocated
\* one is allocated, and has a child unless it is the last.
LEMMA Ancestors ==
  ASSUME RadixInv, NEW q \in nodes, NEW n \in 0..Len(q)
  PROVE  /\ q \in Path /\ Up(q, n) \in nodes
         /\ n < Len(q) => /\ q[n + 1] \in Bit
                          /\ Child(Up(q, n), q[n + 1]) = Up(q, n + 1)
                          /\ Child(Up(q, n), q[n + 1]) \in nodes
                          /\ HasChild(Up(q, n))
<1>1. q \in Path /\ Way(q) \subseteq nodes /\ Len(q) \in Nat
  BY PathSeq DEF RadixInv, WellRooted
<1>2. \A m \in 0..Len(q) : Up(q, m) \in nodes
  BY <1>1 DEF Way
<1>3. ASSUME n < Len(q)
      PROVE  /\ q[n + 1] \in Bit
             /\ Child(Up(q, n), q[n + 1]) = Up(q, n + 1)
             /\ Child(Up(q, n), q[n + 1]) \in nodes
  <2>1. n \in 0..(Len(q) - 1) /\ n + 1 \in 0..Len(q)
    BY <1>1, <1>3
  <2>2. QED
    BY <2>1, <1>1, <1>2, ChildOnWay
<1>4. QED
  BY <1>1, <1>2, <1>3 DEF HasChild, Child, Bit

\* While the tree is in use its root is allocated.
LEMMA RootAllocated == ASSUME RadixInv, nodes # {} PROVE Root \in nodes
<1>1. PICK q \in nodes : TRUE
  OBVIOUS
<1>2. 0 \in 0..Len(q) /\ q \in Path
  BY PathSeq DEF RadixInv
<1>3. QED
  BY <1>2, Ancestors, UpFacts

\* Setting the value of a path, in a tree that keeps all its nodes.
LEMMA TreeGrows ==
  ASSUME RadixInv, InUse, UNCHANGED walk, ret' \in {-1, 0, 1},
         NEW p \in Path, nodes' = nodes \cup Way(p),
         NEW r \in nodes', NEW v \in Value \cup {NoValue},
         value' = [value EXCEPT ![r] = v]
  PROVE  RadixInv'
<1>1. nodes' \subseteq Path /\ r \in Path
  BY WayFacts DEF RadixInv
<1>2. value' \in [Path -> Value \cup {NoValue}]
  BY DEF RadixInv
<1>3. \A q \in nodes' : Way(q) \subseteq nodes'
  BY WayFacts DEF RadixInv, WellRooted
<1>4. \A q \in Path \ nodes' : value'[q] = NoValue
  BY DEF RadixInv, WellRooted
<1>5. walk' = {}
  BY DEF InUse
<1>6. QED
  BY <1>1, <1>2, <1>3, <1>4, <1>5 DEF RadixInv, WellRooted

LEMMA InsertInv ==
  ASSUME RadixInv, InUse, NEW p \in Path, NEW v \in Value, Insert(p, v)
  PROVE  RadixInv'
<1>1. CASE InsertExisting(p)
  BY <1>1 DEF InsertExisting, Returns, RadixInv, WellRooted, HasChild
<1>2. CASE InsertNew(p, v)
  BY <1>2, TreeGrows, WayFacts DEF InsertNew, Returns
<1>3. CASE \E n \in 1..Len(p) : InsertFails(p, n)
  <2>1. PICK n \in 1..Len(p) : InsertFails(p, n)
    BY <1>3
  <2>2. n - 1 \in 0..Len(p)
    BY PathSeq
  <2>3. Up(p, n - 1) \in Path
    BY <2>2, UpFacts
  <2>4. Root \in nodes'
    BY <2>1, <2>3, WayFacts DEF InsertFails
  <2>5. value[Root] \in Value \cup {NoValue}
        /\ value' = [value EXCEPT ![Root] = value[Root]]
    BY <2>1, RootPath DEF InsertFails, RadixInv
  <2>6. QED
    BY <2>1, <2>3, <2>4, <2>5, TreeGrows DEF InsertFails, Returns
<1>4. QED
  BY <1>1, <1>2, <1>3 DEF Insert

\* The nodes freed with p: the leaf and what has become useless, each of which
\* holds nothing (the leaf aside) and has no child that is not freed as well.
LEMMA FreedFacts ==
  ASSUME RadixInv, NEW p \in nodes, ~HasChild(p), NEW r \in FreedWith(p)
  PROVE  /\ p \in Path /\ Len(r) \in 0..Len(p) /\ r = Up(p, Len(r)) /\ r \in nodes
         /\ \A k \in Len(r)..(Len(p) - 1) : Useless(p, k)
         /\ r # p => value[r] = NoValue
         /\ \A b \in Bit : Child(r, b) \in nodes => Child(r, b) \in FreedWith(p)
<1>1. p \in Path /\ Len(p) \in Nat
  BY PathSeq DEF RadixInv
<1>2. PICK m \in 0..Len(p) : r = Up(p, m) /\ \A k \in m..(Len(p) - 1) : Useless(p, k)
  BY DEF FreedWith
<1>3. Len(r) = m /\ r \in nodes
  BY <1>1, <1>2, Ancestors, UpFacts
<1>4. CASE m = Len(p)
  <2>1. r = p
    BY <1>1, <1>2, <1>4, UpFacts
  <2>2. \A b \in Bit : Child(r, b) \notin nodes
    BY <2>1 DEF HasChild, Child, Bit
  <2>3. QED
    BY <1>1, <1>2, <1>3, <2>1, <2>2
<1>5. CASE m # Len(p)
  <2>1. m < Len(p) /\ m \in m..(Len(p) - 1) /\ m \in 0..(Len(p) - 1) /\ m + 1 \in 0..Len(p)
        /\ \A k \in (m + 1)..(Len(p) - 1) : k \in m..(Len(p) - 1)
    BY <1>1, <1>5
  <2>2. /\ value[r] = NoValue
        /\ \A b \in Bit : Child(r, b) \in nodes => b = p[m + 1]
    BY <1>2, <2>1 DEF Useless, Child, Bit
  <2>3. Up(p, m + 1) \in FreedWith(p)
    BY <1>2, <2>1 DEF FreedWith
  <2>4. \A b \in Bit : Child(r, b) \in nodes => Child(r, b) \in FreedWith(p)
    BY <1>1, <1>2, <2>1, <2>2, <2>3, ChildOnWay
  <2>5. QED
    BY <1>1, <1>2, <1>3, <2>2, <2>4
<1>6. QED
  BY <1>4, <1>5

LEMMA DeleteLeafInv ==
  ASSUME RadixInv, InUse, NEW p \in Path, DeleteLeaf(p)
  PROVE  RadixInv'
<1>1. /\ p \in nodes /\ ~HasChild(p) /\ nodes' = nodes \ FreedWith(p)
      /\ value' = [value EXCEPT ![p] = NoValue] /\ ret' = 0 /\ walk' = {}
  BY DEF DeleteLeaf, Returns, InUse
<1>2. value' \in [Path -> Value \cup {NoValue}] /\ nodes' \subseteq Path /\ ret' \in {-1, 0, 1}
  BY <1>1 DEF RadixInv
<1>3. ASSUME NEW q \in nodes', NEW s \in Way(q)
      PROVE  s \in nodes'
  <2>1. q \in nodes /\ q \notin FreedWith(p)
    BY <1>1
  <2>2. q \in Path /\ Len(q) \in Nat
    BY <2>1, PathSeq DEF RadixInv
  <2>3. PICK n \in 0..Len(q) : s = Up(q, n)
    BY DEF Way
  <2>4. s \in nodes
    BY <2>1, <2>3, Ancestors
  <2> DEFINE S == {m \in 0..Len(q) : Up(q, m) \in FreedWith(p)}
  <2>5. ASSUME s \in FreedWith(p)
        PROVE  FALSE
    <3>1. S \subseteq 0..Len(q) /\ S # {}
      BY <2>3, <2>5
    <3>2. PICK m \in S : \A k \in S : k <= m
      <4> HIDE DEF S
      <4> QED  BY <2>2, <3>1, Greatest
    <3>3. m \in 0..Len(q) /\ Up(q, m) \in FreedWith(p)
      BY <3>2
    <3>4. m # Len(q)
      BY <2>1, <2>2, <3>3, UpFacts
    <3>5. m < Len(q) /\ m + 1 \in 0..Len(q) /\ ~(m + 1 <= m)
      BY <2>2, <3>3, <3>4
    <3>6. Up(q, m + 1) \in nodes /\ q[m + 1] \in Bit
          /\ Child(Up(q, m), q[m + 1]) = Up(q, m + 1)
      BY <2>1, <3>3, <3>5, Ancestors
    <3>7. Up(q, m + 1) \in FreedWith(p)
      BY <1>1, <3>3, <3>6, FreedFacts
    <3>8. QED
      BY <3>2, <3>5, <3>7
  <2>6. QED
    BY <1>1, <2>4, <2>5
<1>4. \A q \in Path \ nodes' : value'[q] = NoValue
  BY <1>1, FreedFacts DEF RadixInv, WellRooted
<1>5. QED
  BY <1>1, <1>2, <1>3, <1>4 DEF RadixInv, WellRooted

LEMMA DeleteInv ==
  ASSUME RadixInv, InUse, NEW p \in Path, Delete(p)
  PROVE  RadixInv'
<1>1. CASE DeleteRefused(p)
  BY <1>1 DEF DeleteRefused, Returns, RadixInv, WellRooted
<1>2. CASE DeleteValue(p)
  <2>1. p \in nodes' /\ nodes' = nodes \cup Way(p)
    BY <1>2 DEF DeleteValue, RadixInv, WellRooted
  <2>2. QED
    BY <1>2, <2>1, TreeGrows DEF DeleteValue, Returns
<1>3. CASE DeleteLeaf(p)
  BY <1>3, DeleteLeafInv
<1>4. QED
  BY <1>1, <1>2, <1>3 DEF Delete

\* The nodes below p on a way that leaves no left branch aside.
LeftmostBelow(p) ==
  {q \in nodes : /\ Len(p) <= Len(q) /\ Up(q, Len(p)) = p
                 /\ \A n \in Len(p)..(Len(q) - 1) :
                      q[n + 1] = 1 => Child(Up(q, n), 0) \notin nodes}

\* The child that the walk goes down to is one of them.
LEMMA GoesDown ==
  ASSUME RadixInv, NEW p \in nodes, NEW q \in LeftmostBelow(p), NEW b \in Bit,
         Child(q, b) \in nodes, b = 1 => Child(q, 0) \notin nodes
  PROVE  Child(q, b) \in LeftmostBelow(p) /\ Len(Child(q, b)) = Len(q) + 1
<1> DEFINE c == Child(q, b)
<1>1. /\ p \in Path /\ q \in Path /\ q \in nodes /\ c \in Path /\ c \in nodes
      /\ Len(p) \in Nat /\ Len(q) \in Nat /\ Len(p) <= Len(q)
  BY PathSeq DEF RadixInv, LeftmostBelow
<1>2. /\ Len(c) = Len(q) + 1 /\ c[Len(q) + 1] = b
      /\ \A n \in 0..Len(q) : Up(c, n) = Up(q, n)
  BY <1>1, ChildFacts
<1>3. \A n \in 0..(Len(q) - 1) : c[n + 1] = q[n + 1]
  <2>1. SUFFICES ASSUME NEW n \in 0..(Len(q) - 1)
                 PROVE  c[n + 1] = q[n + 1]
    OBVIOUS
  <2>2. n + 1 \in 0..Len(q) /\ n + 1 \in 0..Len(c) /\ n + 1 \in 1..(n + 1)
    BY <1>1, <1>2
  <2>3. Up(c, n + 1)[n + 1] = c[n + 1] /\ Up(q, n + 1)[n + 1] = q[n + 1]
    BY <1>1, <2>2, UpBits
  <2>4. QED
    BY <1>2, <2>2, <2>3
<1>4. Up(c, Len(p)) = p
  <2>1. Len(p) \in 0..Len(q)
    BY <1>1
  <2>2. QED
    BY <1>2, <2>1 DEF LeftmostBelow
<1>5. ASSUME NEW n \in Len(p)..(Len(c) - 1), c[n + 1] = 1
      PROVE  Child(Up(c, n), 0) \notin nodes
  <2>1. CASE n = Len(q)
    <3>1. Up(c, n) = q
      BY <1>1, <1>2, <2>1, UpFacts
    <3>2. QED
      BY <1>2, <1>5, <2>1, <3>1
  <2>2. CASE n # Len(q)
    <3>1. n \in 0..(Len(q) - 1) /\ n \in Len(p)..(Len(q) - 1) /\ n \in 0..Len(q)
      BY <1>1, <1>2, <2>2
    <3>2. QED
      BY <1>2, <1>3, <1>5, <3>1 DEF LeftmostBelow
  <2>3. QED
    BY <2>1, <2>2
<1>6. Len(p) <= Len(c)
  BY <1>1, <1>2
<1> HIDE DEF c
<1>7. c \in LeftmostBelow(p)
  BY <1>1, <1>4, <1>5, <1>6 DEF LeftmostBelow
<1>8. QED
  BY <1>2, <1>7 DEF c

\* The walk of radix_tree_free comes to a leaf.
LEMMA LeafBelowFound ==
  ASSUME RadixInv, NEW p \in nodes
  PROVE  LeafBelow(p) \in nodes /\ ~HasChild(LeafBelow(p))
<1> DEFINE S == {Len(q) : q \in LeftmostBelow(p)}
<1>1. p \in Path /\ Len(p) \in Nat /\ Width \in Nat
  BY PathSeq DEF RadixInv
<1>2. p \in LeftmostBelow(p)
  <2>1. Len(p)..(Len(p) - 1) = {} /\ Len(p) <= Len(p)
    BY <1>1
  <2>2. QED
    BY <1>1, <2>1, UpFacts DEF LeftmostBelow
<1>3. S \subseteq 0..Width /\ S # {}
  <2>1. \A q \in LeftmostBelow(p) : Len(q) \in 0..Width
    BY PathSeq DEF LeftmostBelow, RadixInv
  <2>2. QED
    BY <1>2, <2>1
<1>4. PICK l \in S : \A k \in S : k <= l
  <2> HIDE DEF S
  <2> QED  BY <1>1, <1>3, Greatest
<1>5. PICK q \in LeftmostBelow(p) : Len(q) = l
  BY <1>4
<1>6. ASSUME NEW b \in Bit, Child(q, b) \in nodes, b = 1 => Child(q, 0) \notin nodes
      PROVE  FALSE
  <2>1. Child(q, b) \in LeftmostBelow(p) /\ Len(Child(q, b)) = Len(q) + 1
    BY <1>6, GoesDown
  <2>2. Len(q) + 1 \in S
    BY <2>1
  <2>3. Len(q) + 1 <= Len(q) /\ Len(q) \in Nat
    BY <1>3, <1>4, <1>5, <2>2
  <2>4. QED
    BY <2>3
<1>7. ~HasChild(q)
  BY <1>6 DEF HasChild, Child, Bit
<1>8. \E r \in nodes :
        /\ ~HasChild(r)
        /\ Len(p) <= Len(r) /\ Up(r, Len(p)) = p
        /\ \A n \in Len(p)..(Len(r) - 1) :
             r[n + 1] = 1 => Append(Up(r, n), 0) \notin nodes
  BY <1>7 DEF LeftmostBelow, Child
<1>9. QED
  BY <1>8 DEF LeafBelow

LEMMA FreeStepInv == ASSUME RadixInv, FreeStep PROVE RadixInv'
<1>1. PICK p \in walk :
        LET leaf == LeafBelow(p) IN
        /\ nodes' = nodes \ {leaf}
        /\ value' = [value EXCEPT ![leaf] = NoValue]
        /\ walk' = IF leaf = Root THEN {} ELSE {Up(leaf, Len(leaf) - 1)}
        /\ UNCHANGED ret
  BY DEF FreeStep
<1>2. PICK leaf \in nodes :
        /\ ~HasChild(leaf)
        /\ nodes' = nodes \ {leaf}
        /\ value' = [value EXCEPT ![leaf] = NoValue]
        /\ walk' = IF leaf = Root THEN {} ELSE {Up(leaf, Len(leaf) - 1)}
        /\ UNCHANGED ret
  <2>1. p \in nodes
    BY <1>1 DEF RadixInv, WellRooted
  <2>2. LeafBelow(p) \in nodes /\ ~HasChild(LeafBelow(p))
    BY <2>1, LeafBelowFound
  <2>3. QED
    BY <1>1, <2>2
<1>3. leaf \in Path /\ Len(leaf) \in Nat
  BY PathSeq DEF RadixInv
<1>4. ASSUME NEW q \in nodes', NEW s \in Way(q)
      PROVE  s \in nodes'
  <2>1. q \in nodes /\ q # leaf /\ q \in Path /\ Len(q) \in Nat
    BY <1>2, PathSeq DEF RadixInv
  <2>2. PICK n \in 0..Len(q) : s = Up(q, n)
    BY DEF Way
  <2>3. s \in nodes
    BY <2>1, <2>2, Ancestors
  <2>4. CASE n = Len(q)
    BY <2>1, <2>2, <2>4, UpFacts
  <2>5. CASE n < Len(q)
    BY <1>2, <2>1, <2>2, <2>3, <2>5, Ancestors
  <2>6. QED
    BY <2>1, <2>4, <2>5
<1>5. walk' = {} \/ \E r \in nodes' : walk' = {r}
  <2>1. CASE leaf = Root
    BY <1>2, <2>1
  <2>2. CASE leaf # Root
    <3>1. Len(leaf) # 0
      BY <1>3, <2>2, RootPath
    <3>2. Len(leaf) - 1 \in 0..Len(leaf) /\ Len(leaf) - 1 # Len(leaf)
      BY <1>3, <3>1
    <3>3. Up(leaf, Len(leaf) - 1) \in nodes /\ Up(leaf, Len(leaf) - 1) # leaf
      BY <1>3, <3>2, Ancestors, UpFacts
    <3>4. QED
      BY <1>2, <2>2, <3>3
  <2>3. QED
    BY <2>1, <2>2
<1>6. \A q \in Path \ nodes' : value'[q] = NoValue
  BY <1>2, <1>3 DEF RadixInv, WellRooted
<1>7. /\ nodes' \subseteq Path /\ ret' \in {-1, 0, 1}
      /\ value' \in [Path -> Value \cup {NoValue}]
  BY <1>2 DEF RadixInv
<1>8. walk' \subseteq nodes'
  BY <1>5
<1>9. QED
  BY <1>4, <1>5, <1>6, <1>7, <1>8 DEF RadixInv, WellRooted

LEMMA NextInv == ASSUME RadixInv, [Next]_vars PROVE RadixInv'
<1>1. CASE InUse /\ \E p \in Path : Delete(p)
  BY <1>1, DeleteInv
<1>2. CASE InUse /\ \E p \in Path : \E v \in Value : Insert(p, v)
  BY <1>2, InsertInv
<1>3. CASE StartFree
  BY <1>3, RootAllocated DEF StartFree, RadixInv, WellRooted
<1>4. CASE FreeStep
  BY <1>4, FreeStepInv
<1>5. CASE Freed \/ UNCHANGED vars
  BY <1>5 DEF Freed, vars, RadixInv, WellRooted
<1>6. QED
  BY <1>1, <1>2, <1>3, <1>4, <1>5 DEF Next

\* The trie keeps the invariant, for keys of any width and any values.
THEOREM TrieInvariant == Spec => []RadixInv
<1>1. QED
  BY InitInv, NextInv, PTL DEF Spec

\* Whatever is inserted and deleted, with allocations failing anywhere, every
\* node hangs from an allocated parent and only allocated nodes hold values; and
\* the walk that frees the tree stands at one of its nodes (radix.c:
\* radix32tree_insert, radix32tree_delete, radix_tree_free).
THEOREM TreeStaysSound == Spec => []TreeSound
<1>1. QED
  BY TrieInvariant, InvImpliesSound, PTL

-----------------------------------------------------------------------------
(* Lookups.                                                                 *)

\* A key is a path of full length.
LEMMA KeyPath == ASSUME NEW key \in Key PROVE key \in Path /\ Len(key) = Width
<1>1. Width \in Nat /\ Width \in 0..Width
  BY PathSeq
<1>2. key \in Path
  BY <1>1 DEF Key, Path
<1>3. key \in [1..Len(key) -> Bit] /\ Len(key) \in Nat
  BY <1>2, PathSeq, LenProperties
<1>4. Len(key) = Width
  BY <1>1, <1>3 DEF Key
<1>5. QED
  BY <1>2, <1>4

\* The walk of a lookup ends where the next node is missing.
LEMMA ReachedFound ==
  ASSUME RadixInv, InUse, NEW key \in Key
  PROVE  /\ Reached(key) \in 0..Width
         /\ \A m \in 0..Reached(key) : Up(key, m) \in nodes
         /\ Reached(key) = Width \/ Up(key, Reached(key) + 1) \notin nodes
<1> DEFINE S == {n \in 0..Width : \A m \in 0..n : Up(key, m) \in nodes}
<1>1. key \in Path /\ Len(key) = Width /\ Width \in Nat
  BY KeyPath, PathSeq
<1>2. S \subseteq 0..Width /\ S # {}
  <2>1. Up(key, 0) = Root /\ Root \in nodes
    BY <1>1, UpFacts, RootAllocated DEF InUse
  <2>2. 0 \in S
    BY <1>1, <2>1
  <2>3. QED
    BY <2>2
<1>3. PICK n \in S : \A k \in S : k <= n
  <2> HIDE DEF S
  <2> QED  BY <1>1, <1>2, Greatest
<1>4. n = Width \/ Up(key, n + 1) \notin nodes
  <2>1. SUFFICES ASSUME n # Width, Up(key, n + 1) \in nodes
                 PROVE  FALSE
    OBVIOUS
  <2>2. n + 1 \in 0..Width /\ \A m \in 0..(n + 1) : m \in 0..n \/ m = n + 1
    BY <1>1, <1>3, <2>1
  <2>3. n + 1 \in S
    BY <1>3, <2>1, <2>2
  <2>4. QED
    BY <1>1, <1>3, <2>3
<1>5. \E k \in 0..Width :
        /\ Up(key, k) \in nodes
        /\ \A m \in 0..k : Up(key, m) \in nodes
        /\ k = Width \/ Up(key, k + 1) \notin nodes
  <2>1. n \in 0..Width /\ n \in 0..n
    BY <1>1, <1>3
  <2>2. QED
    BY <1>3, <1>4, <2>1
<1>6. QED
  BY <1>5 DEF Reached

\* No value is stored beyond the node the walk reaches.
LEMMA WalkMeetsAll ==
  ASSUME RadixInv, InUse, NEW key \in Key
  PROVE  Met(key) = Stored(key) /\ Find(key) = LongestMatch(key)
<1>1. key \in Path /\ Len(key) = Width /\ Width \in Nat
  BY KeyPath, PathSeq
<1> DEFINE r == Reached(key)
<1>2. r \in 0..Width /\ (r = Width \/ Up(key, r + 1) \notin nodes)
  BY ReachedFound
<1> HIDE DEF r
<1>3. ASSUME NEW n \in Stored(key)
      PROVE  n \in 0..r
  <2>1. n \in 0..Width /\ value[Up(key, n)] # NoValue
    BY DEF Stored
  <2>2. Up(key, n) \in Path /\ Len(Up(key, n)) = n
        /\ \A m \in 0..n : Up(Up(key, n), m) = Up(key, m)
    BY <1>1, <2>1, UpFacts
  <2>3. Up(key, n) \in nodes
    BY <2>1, <2>2 DEF RadixInv, WellRooted
  <2>4. CASE n <= r
    BY <1>2, <2>1, <2>4
  <2>5. CASE ~(n <= r)
    <3>1. r + 1 \in 0..n /\ r # Width
      BY <1>1, <1>2, <2>1, <2>5
    <3>2. Up(Up(key, n), r + 1) \in nodes
      BY <2>2, <2>3, <3>1, Ancestors
    <3>3. QED
      BY <1>2, <2>2, <3>1, <3>2
  <2>6. QED
    BY <2>4, <2>5
<1>4. \A n \in 0..r : n \in 0..Width
  BY <1>1, <1>2
<1>5. Met(key) = Stored(key)
  BY <1>3, <1>4 DEF Met, Stored, r
<1>6. QED
  BY <1>5 DEF Find, LongestMatch

\* Whatever has been inserted and deleted, a lookup returns the value of the
\* longest stored prefix of its key, although it only follows the nodes it finds
\* from the root and gives up at the first that is missing (radix.c:
\* radix32tree_find).
THEOREM LookupsAreExact == Spec => []FindIsLongestMatch
<1>1. RadixInv => FindIsLongestMatch
  BY WalkMeetsAll DEF FindIsLongestMatch
<1>2. QED
  BY <1>1, TrieInvariant, PTL

\* A call sets the value of one prefix, or none.
LEMMA OneValueSet ==
  ASSUME RadixInv, InUse, InUse', [Next]_vars
  PROVE  \E p \in Path : \E v :
           /\ value' = [value EXCEPT ![p] = v]
           /\ v # value[p] => ret' = 0
<1>1. \A p \in Path : value = [value EXCEPT ![p] = value[p]]
  BY DEF RadixInv
<1>2. ASSUME NEW p \in Path, Delete(p)
      PROVE  \E v : value' = [value EXCEPT ![p] = v] /\ (v # value[p] => ret' = 0)
  <2>1. CASE DeleteRefused(p)
    BY <1>1, <2>1 DEF DeleteRefused
  <2>2. CASE DeleteValue(p) \/ DeleteLeaf(p)
    BY <2>2 DEF DeleteValue, DeleteLeaf, Returns
  <2>3. QED
    BY <1>2, <2>1, <2>2 DEF Delete
<1>3. ASSUME NEW p \in Path, NEW w \in Value, Insert(p, w)
      PROVE  \E v : value' = [value EXCEPT ![p] = v] /\ (v # value[p] => ret' = 0)
  <2>1. CASE InsertNew(p, w)
    BY <2>1 DEF InsertNew, Returns
  <2>2. CASE InsertExisting(p) \/ \E n \in 1..Len(p) : InsertFails(p, n)
    BY <1>1, <2>2 DEF InsertExisting, InsertFails
  <2>3. QED
    BY <1>3, <2>1, <2>2 DEF Insert
<1>4. CASE UNCHANGED vars
  BY <1>1, <1>4, RootPath DEF vars
<1>5. ~StartFree /\ ~FreeStep /\ ~Freed
  BY DEF StartFree, FreeStep, Freed, InUse
<1>6. QED
  BY <1>2, <1>3, <1>4, <1>5 DEF Next

\* Setting the value of p leaves alone the longest match of the other keys.
LEMMA MatchIsolated ==
  ASSUME RadixInv, NEW p \in Path, NEW v, value' = [value EXCEPT ![p] = v],
         NEW key \in Key, Up(key, Len(p)) # p \/ v = value[p]
  PROVE  LongestMatch(key)' = LongestMatch(key)
<1>1. key \in Path /\ Len(key) = Width
  BY KeyPath
<1>2. \A n \in 0..Width : value'[Up(key, n)] = value[Up(key, n)]
  <2>1. SUFFICES ASSUME NEW n \in 0..Width
                 PROVE  value'[Up(key, n)] = value[Up(key, n)]
    OBVIOUS
  <2>2. Up(key, n) \in Path /\ Len(Up(key, n)) = n
    BY <1>1, UpFacts
  <2>3. QED
    BY <2>2 DEF RadixInv
<1>3. Stored(key)' = Stored(key)
  BY <1>2 DEF Stored
<1>4. ASSUME Stored(key) # {}
      PROVE  (CHOOSE n \in Stored(key) : \A m \in Stored(key) : m <= n) \in 0..Width
  <2>1. Stored(key) \subseteq 0..Width /\ Width \in Nat
    BY PathSeq DEF Stored
  <2>2. \E n \in Stored(key) : \A m \in Stored(key) : m <= n
    BY <1>4, <2>1, Greatest
  <2>3. QED
    BY <2>1, <2>2
<1>5. QED
  BY <1>2, <1>3, <1>4 DEF LongestMatch

\* A call that does not return 0 leaves every lookup as it was, and one that does
\* changes the lookups below one prefix at most (radix.c: radix32tree_insert,
\* radix32tree_delete).
THEOREM CallsStayIsolated == Spec => LookupsIsolated
<1> DEFINE A == InUse /\ InUse' =>
                  \E p \in Path : \A key \in Key :
                    Find(key)' # Find(key)
                      => ret' = 0 /\ Up(key, Len(p)) = p /\ value'[p] # value[p]
<1>1. RadixInv /\ InUse => \A key \in Key : Find(key) = LongestMatch(key)
  BY WalkMeetsAll
<1>2. RadixInv' /\ InUse' => \A key \in Key : Find(key)' = LongestMatch(key)'
  <2>1. (RadixInv /\ InUse => \A key \in Key : Find(key) = LongestMatch(key))'
    BY <1>1, PTL
  <2>2. QED
    BY <2>1
<1>3. ASSUME RadixInv, [Next]_vars, InUse, InUse'
      PROVE  \E p \in Path : \A key \in Key :
               Find(key)' # Find(key)
                 => ret' = 0 /\ Up(key, Len(p)) = p /\ value'[p] # value[p]
  <2>1. PICK p \in Path :
          \E v : value' = [value EXCEPT ![p] = v] /\ (v # value[p] => ret' = 0)
    BY <1>3, OneValueSet
  <2>2. PICK v : value' = [value EXCEPT ![p] = v] /\ (v # value[p] => ret' = 0)
    BY <2>1
  <2>3. value'[p] = v
    BY <1>3, <2>2 DEF RadixInv
  <2>4. RadixInv'
    BY <1>3, NextInv
  <2>5. ASSUME NEW key \in Key, Find(key)' # Find(key)
        PROVE  ret' = 0 /\ Up(key, Len(p)) = p /\ value'[p] # value[p]
    <3>1. Find(key) = LongestMatch(key)
      BY <1>3, WalkMeetsAll
    <3>2. Find(key)' = LongestMatch(key)'
      BY <1>2, <1>3, <2>4
    <3>3. ~(Up(key, Len(p)) # p \/ v = value[p])
      BY <1>3, <2>2, <2>5, <3>1, <3>2, MatchIsolated
    <3>4. QED
      BY <2>2, <2>3, <3>3
  <2>6. QED
    BY <2>5
<1>4. RadixInv /\ [Next]_vars => A
  BY <1>3
<1>5. RadixInv /\ [Next]_vars => [A]_vars
  BY <1>4
<1>6. QED
  BY <1>5, TrieInvariant, PTL DEF Spec, LookupsIsolated

-----------------------------------------------------------------------------
(* What a delete frees.                                                     *)

\* What the delete of a leaf leaves behind is of use if it was before.
LEMMA LeafLeavesNoDead ==
  ASSUME RadixInv, InUse, NEW p \in Path, DeleteLeaf(p), NEW q \in DeadLeaves'
  PROVE  q \in DeadLeaves
<1>1. /\ p \in nodes /\ ~HasChild(p) /\ nodes' = nodes \ FreedWith(p)
      /\ value' = [value EXCEPT ![p] = NoValue]
  BY DEF DeleteLeaf
<1>2. /\ q \in nodes /\ q \notin FreedWith(p) /\ q # Root /\ value'[q] = NoValue
      /\ \A b \in Bit : Child(q, b) \notin nodes'
  BY <1>1 DEF DeadLeaves, HasChild, Child, Bit
<1>3. p \in Path /\ q \in Path /\ Len(p) \in Nat /\ Len(q) \in Nat
  BY <1>1, <1>2, PathSeq DEF RadixInv
<1>4. p \in FreedWith(p)
  <2>1. Len(p) \in 0..Len(p) /\ Len(p)..(Len(p) - 1) = {} /\ Up(p, Len(p)) = p
    BY <1>3, UpFacts
  <2>2. QED
    BY <2>1 DEF FreedWith
<1>5. value[q] = NoValue
  BY <1>1, <1>2, <1>3, <1>4 DEF RadixInv
<1>6. ASSUME NEW b \in Bit, Child(q, b) \in nodes
      PROVE  FALSE
  <2> DEFINE m == Len(q)
  <2>1. \A c \in Bit : Child(q, c) \in nodes => Child(q, c) \in FreedWith(p)
    BY <1>1, <1>2
  \* Every child of q is on the way to p.
  <2>2. ASSUME NEW c \in Bit, Child(q, c) \in nodes
        PROVE  /\ m + 1 \in 0..Len(p) /\ q = Up(p, m) /\ c = p[m + 1]
               /\ \A k \in (m + 1)..(Len(p) - 1) : Useless(p, k)
    <3> DEFINE r == Child(q, c)
    <3>1. r \in FreedWith(p)
      BY <2>1, <2>2
    <3>2. r \in Path /\ Len(r) = m + 1 /\ r[m + 1] = c /\ Up(r, m) = q
      <4>1. r \in Path
        BY <2>2 DEF RadixInv
      <4>2. m \in 0..m /\ Up(q, m) = q
        BY <1>3, UpFacts
      <4>3. QED
        BY <1>3, <4>1, <4>2, ChildFacts
    <3>3. /\ Len(r) \in 0..Len(p) /\ r = Up(p, Len(r))
          /\ \A k \in Len(r)..(Len(p) - 1) : Useless(p, k)
      BY <1>1, <3>1, FreedFacts
    <3> HIDE DEF r
    <3>4. m + 1 \in 0..Len(p) /\ m \in 0..(m + 1) /\ m + 1 \in 1..(m + 1)
      BY <1>3, <3>2, <3>3
    <3>5. Up(r, m) = Up(p, m) /\ r[m + 1] = p[m + 1]
      BY <1>3, <3>2, <3>3, <3>4, UpFacts, UpBits
    <3>6. QED
      BY <3>2, <3>3, <3>4, <3>5
  <2>3. /\ m + 1 \in 0..Len(p) /\ q = Up(p, m)
        /\ \A k \in (m + 1)..(Len(p) - 1) : Useless(p, k)
        /\ \A c \in Bit : Child(q, c) \in nodes => c = p[m + 1]
    BY <1>6, <2>2
  <2>4. m > 0
    BY <1>2, <1>3, RootPath
  <2>5. Useless(p, m)
    BY <1>5, <2>3, <2>4 DEF Useless, Child, Bit
  <2>6. m \in 0..Len(p) /\ \A k \in m..(Len(p) - 1) : k = m \/ k \in (m + 1)..(Len(p) - 1)
    BY <1>3, <2>3
  <2>7. \A k \in m..(Len(p) - 1) : Useless(p, k)
    BY <2>3, <2>5, <2>6
  <2>8. q \in FreedWith(p)
    BY <2>3, <2>6, <2>7 DEF FreedWith
  <2>9. QED
    BY <1>2, <2>8
<1>7. ~HasChild(q)
  BY <1>6 DEF HasChild, Child, Bit
<1>8. QED
  BY <1>2, <1>5, <1>7 DEF DeadLeaves

LEMMA NoneAdded ==
  ASSUME RadixInv, [Next]_vars, walk \cup walk' = {}, nodes' \subseteq nodes
  PROVE  DeadLeaves' \subseteq DeadLeaves
<1>1. CASE UNCHANGED <<nodes, value>>
  BY <1>1 DEF DeadLeaves, HasChild
<1>2. ASSUME InUse, NEW p \in Path, Delete(p)
      PROVE  DeadLeaves' \subseteq DeadLeaves
  <2>1. CASE DeleteRefused(p)
    BY <1>1, <2>1 DEF DeleteRefused
  <2>2. CASE DeleteValue(p)
    BY <2>2 DEF DeleteValue, DeadLeaves, HasChild, RadixInv
  <2>3. CASE DeleteLeaf(p)
    BY <1>2, <2>3, LeafLeavesNoDead
  <2>4. QED
    BY <1>2, <2>1, <2>2, <2>3 DEF Delete
<1>3. ASSUME InUse, NEW p \in Path, NEW v \in Value, Insert(p, v)
      PROVE  DeadLeaves' \subseteq DeadLeaves
  <2>1. CASE InsertExisting(p)
    BY <1>1, <2>1 DEF InsertExisting
  <2>2. CASE InsertNew(p, v)
    <3>1. nodes' = nodes /\ value[p] = NoValue /\ value' = [value EXCEPT ![p] = v]
      BY <2>2 DEF InsertNew
    <3>2. \A q \in nodes : value'[q] = NoValue => value[q] = NoValue
      BY <3>1 DEF RadixInv
    <3>3. QED
      BY <3>1, <3>2 DEF DeadLeaves, HasChild
  <2>3. CASE \E n \in 1..Len(p) : InsertFails(p, n)
    <3>1. nodes' = nodes /\ value' = value
      BY <2>3 DEF InsertFails
    <3>2. QED
      BY <1>1, <3>1
  <2>4. QED
    BY <1>3, <2>1, <2>2, <2>3 DEF Insert
<1>4. ~StartFree /\ ~FreeStep
  BY DEF StartFree, FreeStep
<1>5. QED
  BY <1>1, <1>2, <1>3, <1>4 DEF Next, Freed, vars

\* A delete takes with a leaf every ancestor that nothing needs any more, so that
\* none is left as a leaf without a value (radix.c: the loop at the end of
\* radix32tree_delete).
THEOREM DeletesLeaveNoDeadLeaf == Spec => NoDeadLeaf
<1>1. RadixInv /\ [Next]_vars =>
        [walk \cup walk' = {} /\ nodes' \subseteq nodes
           => DeadLeaves' \subseteq DeadLeaves]_vars
  BY NoneAdded
<1>2. QED
  BY <1>1, TrieInvariant, PTL DEF Spec, NoDeadLeaf

-----------------------------------------------------------------------------
(* The lines of a CIDR file.                                                *)

\* The root is never freed while the tree is in use.
LEMMA RootStays ==
  ASSUME RadixInv, Root \in nodes, NEW p \in Path, DeleteLeaf(p)
  PROVE  Root \in nodes'
<1>1. /\ p \in nodes /\ p # Root /\ ~HasChild(p) /\ nodes' = nodes \ FreedWith(p)
  BY DEF DeleteLeaf
<1>2. SUFFICES ASSUME Root \in FreedWith(p)
               PROVE  FALSE
  BY <1>1
<1>3. Len(p) \in Nat /\ Len(p) # 0
  BY <1>1, PathSeq, RootPath
<1>4. 0 \in 0..(Len(p) - 1)
  BY <1>3
<1>5. Useless(p, 0)
  BY <1>1, <1>2, <1>4, FreedFacts, RootPath
<1>6. QED
  BY <1>5 DEF Useless

\* What a call of radix32tree_insert does, told by what it returns.
LEMMA InsertEffect ==
  ASSUME RadixInv, NEW p \in Path, NEW v \in Value, Insert(p, v)
  PROVE  /\ walk' = walk /\ nodes \subseteq nodes'
         /\ ret' = 0 => value[p] = NoValue /\ value' = [value EXCEPT ![p] = v]
         /\ ret' # 0 => value' = value /\ (value[p] # NoValue \/ p \notin nodes')
<1>1. CASE InsertExisting(p)
  BY <1>1 DEF InsertExisting, Returns
<1>2. CASE InsertNew(p, v)
  BY <1>2 DEF InsertNew, Returns
<1>3. CASE \E n \in 1..Len(p) : InsertFails(p, n)
  <2>1. PICK n \in 1..Len(p) : InsertFails(p, n)
    BY <1>3
  <2>2. /\ Up(p, n) \notin nodes /\ nodes' = nodes \cup Way(Up(p, n - 1))
        /\ ret' = -1 /\ walk' = walk /\ value' = value
    BY <2>1 DEF InsertFails, Returns
  <2>3. n \in 0..Len(p) /\ n - 1 \in 0..Len(p) /\ Len(p) \in Nat /\ n - 1 # Len(p)
    BY PathSeq
  <2>4. p \notin nodes
    BY <2>2, <2>3, Ancestors
  <2>5. p \notin Way(Up(p, n - 1))
    <3>1. Up(p, n - 1) \in Path /\ Len(Up(p, n - 1)) = n - 1
      BY <2>3, UpFacts
    <3>2. \A r \in Way(Up(p, n - 1)) : Len(r) \in 0..(n - 1)
      BY <3>1, UpFacts DEF Way
    <3>3. Len(p) \notin 0..(n - 1)
      BY <2>3
    <3>4. QED
      BY <3>2, <3>3
  <2>6. QED
    BY <2>2, <2>4, <2>5
<1>4. QED
  BY <1>1, <1>2, <1>3 DEF Insert

\* What a call of radix32tree_delete does, told by what it returns.
LEMMA DeleteEffect ==
  ASSUME RadixInv, Root \in nodes, NEW p \in Path, Delete(p)
  PROVE  /\ walk' = walk /\ Root \in nodes' /\ ret' \in {-1, 0}
         /\ ret' = 0 => p \in nodes /\ value' = [value EXCEPT ![p] = NoValue]
         /\ ret' # 0 => /\ UNCHANGED <<nodes, value>>
                        /\ p = Root \/ value[p] = NoValue
<1>1. CASE DeleteRefused(p)
  BY <1>1 DEF DeleteRefused, Returns, RadixInv, WellRooted
<1>2. CASE DeleteValue(p)
  BY <1>2 DEF DeleteValue, Returns
<1>3. CASE DeleteLeaf(p)
  BY <1>3, RootStays DEF DeleteLeaf, Returns
<1>4. QED
  BY <1>1, <1>2, <1>3 DEF Delete

\* The trie holds the routes so far; in the second round of the retry loop the
\* prefix of the line is missing from it, and if that round fails its node too.
FileInv ==
  /\ RadixInv /\ Root \in nodes /\ walk = {}
  /\ pc \in {"read", "insert", "delete", "failed"} /\ tries \in {2, 3}
  /\ routes \in [Path -> Value \cup {NoValue}]
  /\ pc \in {"insert", "delete"} => line.cidr \in Path /\ line.addr \in Value
  /\ pc = "read" => value = routes
  /\ pc \in {"insert", "delete"} /\ tries = 3 => value = routes
  /\ pc \in {"insert", "delete"} /\ tries = 2 =>
       value = [routes EXCEPT ![line.cidr] = NoValue]
  /\ pc = "delete" /\ tries = 2 => line.cidr \notin nodes

LEMMA FileInitInv == FileInit => FileInv
<1>1. FileInit => RadixInv
  BY InitInv DEF FileInit
<1>2. QED
  BY <1>1 DEF FileInit, Init, FileInv

\* A line that is read.
LEMMA LineInv ==
  ASSUME FileInv, NEW l \in Line, BadLine(l) \/ DeleteLine(l) \/ RouteLine(l)
  PROVE  FileInv' /\ [Next]_vars
<1> DEFINE p == l.cidr
<1>1. InUse
  BY DEF FileInv, InUse
<1>2. p # Bad => p \in Path
  BY DEF Line, Cidr
<1>3. CASE BadLine(l)
  BY <1>3 DEF BadLine, Result, FileInv, vars, RadixInv, WellRooted
<1>4. CASE RouteLine(l)
  <2>1. line' = l /\ l.addr \in Value /\ p \in Path
    BY <1>4, <1>2 DEF RouteLine, Line, Address
  <2>2. RadixInv'
    BY <1>4 DEF RouteLine, FileInv, vars, RadixInv, WellRooted
  <2>3. QED
    BY <1>4, <2>1, <2>2 DEF RouteLine, FileInv, vars
<1>5. CASE DeleteLine(l)
  <2>1. /\ pc = "read" /\ p \in Path /\ Delete(p) /\ Result(ret') /\ UNCHANGED tries
        /\ routes' = IF ret' = 0 THEN [routes EXCEPT ![p] = NoValue] ELSE routes
    BY <1>5, <1>2 DEF DeleteLine
  <2>2. RadixInv'
    BY <1>1, <2>1, DeleteInv DEF FileInv
  <2>3. /\ walk' = walk /\ Root \in nodes' /\ ret' \in {-1, 0}
        /\ ret' = 0 => value' = [value EXCEPT ![p] = NoValue]
    BY <2>1, DeleteEffect DEF FileInv
  <2>4. Next
    BY <1>1, <2>1 DEF Next
  <2> HIDE DEF p
  <2>5. CASE ret' = 0
    <3>1. pc' = "read" /\ routes' = [routes EXCEPT ![p] = NoValue]
      BY <2>1, <2>5 DEF Result
    <3>2. QED
      BY <2>1, <2>2, <2>3, <2>4, <2>5, <3>1 DEF FileInv
  <2>6. CASE ret' # 0
    <3>1. pc' = "failed" /\ routes' = routes
      BY <2>1, <2>6 DEF Result
    <3>2. QED
      BY <2>1, <2>2, <2>3, <2>4, <3>1 DEF FileInv
  <2>7. QED
    BY <2>5, <2>6
<1>6. QED
  BY <1>3, <1>4, <1>5

LEMMA TryInsertInv == ASSUME FileInv, TryInsert PROVE FileInv' /\ [Next]_vars
<1> DEFINE p == line.cidr
           v == line.addr
<1>1. /\ pc = "insert" /\ Insert(p, v) /\ UNCHANGED <<line, tries>>
      /\ IF ret' = 0
           THEN pc' = "read" /\ routes' = [routes EXCEPT ![p] = v]
           ELSE pc' = "delete" /\ UNCHANGED routes
  BY DEF TryInsert
<1>2. InUse /\ p \in Path /\ v \in Value /\ p' = p /\ v' = v
  BY <1>1 DEF FileInv, InUse
<1>3. RadixInv'
  BY <1>1, <1>2, InsertInv DEF FileInv
<1>4. /\ walk' = walk /\ nodes \subseteq nodes'
      /\ ret' = 0 => value[p] = NoValue /\ value' = [value EXCEPT ![p] = v]
      /\ ret' # 0 => value' = value /\ (value[p] # NoValue \/ p \notin nodes')
  BY <1>1, <1>2, InsertEffect DEF FileInv
<1>5. Next
  BY <1>1, <1>2 DEF Next
<1>6. tries = 2 => value = [routes EXCEPT ![p] = NoValue] /\ value[p] = NoValue
  BY <1>1, <1>2 DEF FileInv
<1>7. tries = 3 => value = routes
  BY <1>1 DEF FileInv
<1>8. routes \in [Path -> Value \cup {NoValue}] /\ tries \in {2, 3} /\ tries' = tries
  BY <1>1 DEF FileInv
<1> HIDE DEF v
<1>9. CASE ret' = 0
  <2>1. pc' = "read" /\ routes' = [routes EXCEPT ![p] = v]
    BY <1>1, <1>9
  <2>2. value' = routes' /\ routes' \in [Path -> Value \cup {NoValue}]
    BY <1>2, <1>4, <1>6, <1>7, <1>8, <1>9, <2>1
  <2>3. QED
    BY <1>3, <1>4, <1>5, <1>8, <2>1, <2>2 DEF FileInv
<1>10. CASE ret' # 0
  <2>1. pc' = "delete" /\ routes' = routes /\ value' = value
    BY <1>1, <1>4, <1>10
  <2>2. tries = 2 => p \notin nodes'
    BY <1>4, <1>6, <1>10
  <2>3. p' \in Path /\ v' \in Value /\ v' = line.addr'
    BY <1>2 DEF v
  <2>4. QED
    BY <1>2, <1>3, <1>4, <1>5, <1>6, <1>7, <1>8, <2>1, <2>2, <2>3 DEF FileInv
<1>11. QED
  BY <1>9, <1>10

LEMMA TryDeleteInv ==
  ASSUME FileInv, TryDelete
  PROVE  /\ FileInv' /\ [Next]_vars
         /\ pc' = "failed" /\ tries = 3
              => routes[line.cidr] = NoValue \/ line.cidr = Root
<1> DEFINE p == line.cidr
<1>1. /\ pc = "delete" /\ Delete(p) /\ UNCHANGED <<line, routes>>
      /\ tries' = IF ret' = 0 THEN tries - 1 ELSE tries
      /\ pc' = IF ret' = 0 /\ tries' > 0 THEN "insert" ELSE "failed"
  BY DEF TryDelete
<1>2. InUse /\ p \in Path /\ p' = p /\ tries \in {2, 3} /\ line' = line
  BY <1>1 DEF FileInv, InUse
<1>3. RadixInv'
  BY <1>1, <1>2, DeleteInv DEF FileInv
<1>4. /\ walk' = walk /\ Root \in nodes' /\ ret' \in {-1, 0}
      /\ ret' = 0 => p \in nodes /\ value' = [value EXCEPT ![p] = NoValue]
      /\ ret' # 0 => /\ UNCHANGED <<nodes, value>>
                     /\ p = Root \/ value[p] = NoValue
  BY <1>1, <1>2, DeleteEffect DEF FileInv
<1>5. Next
  BY <1>1, <1>2 DEF Next
<1>6. /\ tries = 2 => p \notin nodes
      /\ tries = 3 => value = routes
      /\ line.addr \in Value /\ routes' = routes
      /\ routes \in [Path -> Value \cup {NoValue}]
  BY <1>1 DEF FileInv
<1>7. CASE ret' = 0
  <2>1. tries = 3 /\ tries' = 2 /\ pc' = "insert"
    BY <1>1, <1>2, <1>4, <1>6, <1>7
  <2>2. value' = [routes' EXCEPT ![p] = NoValue]
    BY <1>4, <1>6, <1>7, <2>1
  <2>3. QED
    BY <1>2, <1>3, <1>4, <1>5, <1>6, <2>1, <2>2 DEF FileInv
<1>8. CASE ret' # 0
  <2>1. tries' = tries /\ pc' = "failed"
    BY <1>1, <1>8
  <2>2. tries = 3 => routes[p] = NoValue \/ p = Root
    BY <1>4, <1>6, <1>8
  <2>3. FileInv'
    BY <1>2, <1>3, <1>4, <1>6, <2>1 DEF FileInv
  <2>4. QED
    BY <1>5, <2>2, <2>3
<1>9. QED
  BY <1>7, <1>8

LEMMA FileStep ==
  ASSUME FileInv, [FileNext]_fileVars
  PROVE  /\ FileInv' /\ [Next]_vars
         /\ pc = "delete" /\ pc' = "failed" /\ tries = 3
              => routes[line.cidr] = NoValue \/ line.cidr = Root
<1>1. ASSUME NEW l \in Line, BadLine(l) \/ DeleteLine(l) \/ RouteLine(l)
      PROVE  FileInv' /\ [Next]_vars /\ pc = "read"
  BY <1>1, LineInv DEF BadLine, DeleteLine, RouteLine
<1>2. CASE TryInsert
  BY <1>2, TryInsertInv DEF TryInsert
<1>3. CASE TryDelete
  BY <1>3, TryDeleteInv
<1>4. CASE Failed \/ UNCHANGED fileVars
  <2>1. UNCHANGED <<nodes, value, ret, walk, pc, line, tries, routes>>
    BY <1>4 DEF Failed, fileVars, vars
  <2>2. RadixInv'
    BY <2>1 DEF FileInv, RadixInv, WellRooted
  <2>3. QED
    BY <2>1, <2>2 DEF FileInv, vars
<1>5. QED
  BY <1>1, <1>2, <1>3, <1>4 DEF FileNext

LEMMA FileInvariant == FileSpec => []FileInv
<1>1. FileInv /\ [FileNext]_fileVars => FileInv'
  BY FileStep
<1>2. QED
  BY <1>1, FileInitInv, PTL DEF FileSpec

\* Carrying out the lines of a file is calling the trie as it may be called: what
\* holds of the trie whatever is called holds of the one a file fills (geo.c:
\* geo_parse_cidr; radix.c).
THEOREM LinesCallTheTrie == FileSpec => Spec
<1>1. FileInit => Init
  BY DEF FileInit
<1>2. FileInv /\ [FileNext]_fileVars => [Next]_vars
  BY FileStep
<1>3. QED
  BY <1>1, <1>2, FileInvariant, PTL DEF FileSpec, Spec

\* Between two lines every address is looked up as the lines so far say, the
\* longest prefix deciding and a later line replacing an earlier one for its
\* prefix, whatever lines the file has and however often memory runs out on the
\* way (geo.c: geo_parse_cidr).
THEOREM LinesAreRespected == FileSpec => []LinesRespected
<1>1. FileInv => LinesRespected
  <2>1. SUFFICES ASSUME FileInv, pc = "read", NEW key \in Key
                 PROVE  Find(key) = RouteOf(key)
    BY DEF LinesRespected
  <2>2. value = routes /\ RadixInv /\ InUse
    BY <2>1 DEF FileInv, InUse
  <2>3. Find(key) = LongestMatch(key)
    BY <2>2, WalkMeetsAll
  <2>4. Stored(key) = Given(key)
    BY <2>2 DEF Stored, Given
  <2>5. QED
    BY <2>2, <2>3, <2>4 DEF LongestMatch, RouteOf
<1>2. QED
  BY <1>1, FileInvariant, PTL

\* The second insert of a line decides, and a route for a prefix that has one gets
\* there unless the prefix is that of all addresses (geo.c: geo_parse_cidr, Retry 3
\* times).
THEOREM SecondRoundDecides == FileSpec => RetryDecides
<1>1. FileInv => SecondTryDecides
  BY DEF FileInv, SecondTryDecides
<1>2. FileInv /\ [FileNext]_fileVars =>
        [pc = "delete" /\ pc' = "failed" /\ tries = 3
           => routes[line.cidr] = NoValue \/ line.cidr = Root]_fileVars
  BY FileStep
<1>3. QED
  BY <1>1, <1>2, FileInvariant, PTL DEF FileSpec, RetryDecides, RepeatedRouteReplaced

=============================================================================
