------------------------------- MODULE Radix -------------------------------
(***************************************************************************)
(* The radix trie of src/radix.c, which maps network prefixes to values.   *)
(*                                                                         *)
(* A node is named by the path of bits that leads to it from the root: the *)
(* bits of a key that a mask keeps.  The parent of a node is its path less *)
(* the last bit, so that left, right and parent need no state of their     *)
(* own; what is state is which nodes are allocated and what they hold.     *)
(***************************************************************************)
EXTENDS Integers, Sequences, FiniteSets

CONSTANTS
  Width,       \* bits of a key, 32 in radix32tree_*
  Value,       \* values that are inserted, RADIX_NO_VALUE perhaps among them
  NoValue,     \* RADIX_NO_VALUE
  MallocFails  \* whether radix_alloc may fail

Path == UNION {[1..n -> {0, 1}] : n \in 0..Width}
Key  == [1..Width -> {0, 1}]
Root == <<>>

ASSUME RadixAssumption ==
  /\ Width \in Nat
  /\ MallocFails \in BOOLEAN

VARIABLES
  nodes,   \* the allocated nodes
  value,   \* what each node holds, NoValue for a path without a node
  ret,     \* what the last call returned
  walk     \* the nodes radix_tree_free stands at; {} when it is not running

vars == <<nodes, value, ret, walk>>

\* The first n bits of p, and all the nodes on the way to p.
Up(p, n) == SubSeq(p, 1, n)
Way(p)   == {Up(p, n) : n \in 0..Len(p)}

HasChild(p) == \E b \in {0, 1} : Append(p, b) \in nodes

-----------------------------------------------------------------------------
(* radix32tree_find.                                                       *)

\* How many bits of the key the walk can follow before a node is missing.
Reached(key) ==
  CHOOSE n \in 0..Width :
    /\ Up(key, n) \in nodes
    /\ \A m \in 0..n : Up(key, m) \in nodes
    /\ n = Width \/ Up(key, n + 1) \notin nodes

\* The values met on the way, and the last of them.
Met(key) == {n \in 0..Reached(key) : value[Up(key, n)] # NoValue}

\* (a bug: the first value met is returned)
FindFirst(key) ==
  IF Met(key) = {}
    THEN NoValue
    ELSE value[Up(key, CHOOSE n \in Met(key) : \A m \in Met(key) : n <= m)]

Find(key) ==
  IF Met(key) = {}
    THEN NoValue
    ELSE value[Up(key, CHOOSE n \in Met(key) : \A m \in Met(key) : m <= n)]

-----------------------------------------------------------------------------
(* radix32tree_insert.                                                     *)

Returns(r) == ret' = r /\ UNCHANGED walk

\* The prefix has a value already.
InsertExisting(p) ==
  /\ value[p] # NoValue
  /\ Returns(1)
  /\ UNCHANGED <<nodes, value>>

\* (a bug: one node more than the mask has bits is created)
InsertTooDeep(p, v) ==
  /\ value[p] = NoValue
  /\ nodes' = nodes \cup Way(Append(p, 0))
  /\ value' = [value EXCEPT ![p] = v]
  /\ Returns(0)

\* The nodes on the way to p that are missing are created, and p holds v.
InsertNew(p, v) ==
  /\ value[p] = NoValue
  /\ nodes' = nodes \cup Way(p)
  /\ value' = [value EXCEPT ![p] = v]
  /\ Returns(0)

\* radix_alloc fails for the node of n bits: those above it stay.
InsertFails(p, n) ==
  /\ MallocFails
  /\ Up(p, n) \notin nodes
  /\ nodes' = nodes \cup Way(Up(p, n - 1))
  /\ Returns(-1)
  /\ UNCHANGED value

Insert(p, v) ==
  \/ InsertExisting(p)
  \/ InsertNew(p, v)
  \/ \E n \in 1..Len(p) : InsertFails(p, n)

-----------------------------------------------------------------------------
(* radix32tree_delete.                                                     *)

\* Nothing is deleted: no such node, the root, or a branch that holds nothing.
DeleteRefused(p) ==
  /\ \/ p \notin nodes
     \/ p = Root
     \/ HasChild(p) /\ value[p] = NoValue
  /\ Returns(-1)
  /\ UNCHANGED <<nodes, value>>

\* (a bug: the value of a branch is kept)
DeleteValueKept(p) ==
  /\ p \in nodes \ {Root}
  /\ HasChild(p) /\ value[p] # NoValue
  /\ Returns(0)
  /\ UNCHANGED <<nodes, value>>

DeleteValue(p) ==
  /\ p \in nodes \ {Root}
  /\ HasChild(p) /\ value[p] # NoValue
  /\ value' = [value EXCEPT ![p] = NoValue]
  /\ Returns(0)
  /\ UNCHANGED nodes

\* (a bug: the check for the other child is missing)
UselessUnchecked(p, n) == n > 0 /\ value[Up(p, n)] = NoValue

\* The n-bit ancestor of p is of no use once the node below it is gone.
Useless(p, n) ==
  /\ n > 0
  /\ value[Up(p, n)] = NoValue
  /\ \A b \in {0, 1} : Append(Up(p, n), b) \in nodes => b = p[n + 1]

\* (a bug: only the leaf itself is freed)
FreedLeafOnly(p) == {p}

\* The leaf and, going up, every ancestor that has become useless.
FreedWith(p) ==
  {Up(p, n) : n \in {m \in 0..Len(p) : \A k \in m..(Len(p) - 1) : Useless(p, k)}}

DeleteLeaf(p) ==
  /\ p \in nodes \ {Root}
  /\ ~HasChild(p)
  /\ nodes' = nodes \ FreedWith(p)
  /\ value' = [value EXCEPT ![p] = NoValue]
  /\ Returns(0)

Delete(p) == DeleteRefused(p) \/ DeleteValue(p) \/ DeleteLeaf(p)

-----------------------------------------------------------------------------
(* radix_tree_free: from a node down to a leaf, left before right; the leaf  *)
(* is freed and the walk goes on at its parent.                              *)

StartFree == nodes # {} /\ walk = {} /\ walk' = {Root}
             /\ UNCHANGED <<nodes, value, ret>>

LeafBelow(p) ==
  CHOOSE q \in nodes :
    /\ ~HasChild(q)
    /\ Len(p) <= Len(q) /\ Up(q, Len(p)) = p
    /\ \A n \in Len(p)..(Len(q) - 1) :
         q[n + 1] = 1 => Append(Up(q, n), 0) \notin nodes

\* (a bug: the walk ends when the left branches are freed)
FreeStepLeft ==
  \E p \in walk :
    LET leaf == LeafBelow(p) IN
    /\ nodes' = nodes \ {leaf}
    /\ value' = [value EXCEPT ![leaf] = NoValue]
    /\ walk' = IF leaf = Root \/ Append(Root, 0) \notin nodes THEN {}
               ELSE {Up(leaf, Len(leaf) - 1)}
    /\ UNCHANGED ret

FreeStep ==
  \E p \in walk :
    LET leaf == LeafBelow(p) IN
    /\ nodes' = nodes \ {leaf}
    /\ value' = [value EXCEPT ![leaf] = NoValue]
    /\ walk' = IF leaf = Root THEN {} ELSE {Up(leaf, Len(leaf) - 1)}
    /\ UNCHANGED ret

-----------------------------------------------------------------------------
(* radix_tree_create has made the root.                                     *)
Init ==
  /\ nodes = {Root}
  /\ value = [p \in Path |-> NoValue]
  /\ ret = 0
  /\ walk = {}

InUse == nodes # {} /\ walk = {}

\* Once the tree is freed nothing is called any more.
Freed == nodes = {} /\ UNCHANGED vars

Next ==
  \/ InUse /\ \E p \in Path :
       \/ Delete(p)
       \/ \E v \in Value : Insert(p, v)
  \/ StartFree \/ FreeStep
  \/ Freed

Spec == Init /\ [][Next]_vars

\* radix_tree_free is one call: it runs to its end.
FairSpec == Spec /\ WF_vars(FreeStep)

-----------------------------------------------------------------------------
(* Properties.                                                              *)

\* The tree consists of paths, and radix_tree_free stands at one node at most.
TypeOK ==
  /\ nodes \subseteq Path
  /\ value \in [Path -> Value \cup {NoValue}]
  /\ ret \in {-1, 0, 1}
  /\ walk \subseteq Path /\ Cardinality(walk) <= 1

\* Every node but the root hangs from an allocated parent, and what is not
\* allocated holds no value: no delete frees a node in use, no free of the tree
\* loses a branch (radix.c: radix32tree_delete, radix_tree_free).
WellRooted ==
  /\ \A p \in nodes : Way(p) \subseteq nodes
  /\ \A p \in Path \ nodes : value[p] = NoValue
  /\ walk \subseteq nodes

\* The value of the longest stored prefix of a key.
Stored(key) == {n \in 0..Width : value[Up(key, n)] # NoValue}

LongestMatch(key) ==
  IF Stored(key) = {}
    THEN NoValue
    ELSE value[Up(key, CHOOSE n \in Stored(key) : \A m \in Stored(key) : m <= n)]

\* The bit by bit walk finds the longest stored prefix of every key, whatever
\* has been inserted and deleted, with nodes missing after a failed allocation
\* (radix.c: radix32tree_find).
FindIsLongestMatch ==
  InUse => \A key \in Key : Find(key) = LongestMatch(key)

\* Leaves kept in vain: a failed allocation or RADIX_NO_VALUE inserted as a value
\* may leave some.
DeadLeaves == {p \in nodes \ {Root} : ~HasChild(p) /\ value[p] = NoValue}

\* A delete adds none: it frees all the ancestors that have become useless, and
\* leaves the value of none without taking the node (radix.c: the loop at the
\* end of radix32tree_delete).
NoDeadLeaf ==
  [][walk \cup walk' = {} /\ nodes' \subseteq nodes
       => DeadLeaves' \subseteq DeadLeaves]_vars

\* A call that does not succeed changes no lookup, and one that does changes
\* only those of the keys below one prefix (radix.c: radix32tree_insert,
\* radix32tree_delete).
LookupsIsolated ==
  [][InUse /\ InUse' =>
       \E p \in Path : \A key \in Key :
         Find(key)' # Find(key)
           => ret' = 0 /\ Up(key, Len(p)) = p /\ value'[p] # value[p]]_vars

\* radix_tree_free frees every node, the root last.
FreedInTheEnd == (walk # {}) ~> (nodes = {})

\* After any inserts and deletes, failed ones included, the state is a tree of
\* allocated nodes (radix.c: radix32tree_insert, radix32tree_delete).
TreeSound == TypeOK /\ WellRooted

=============================================================================
