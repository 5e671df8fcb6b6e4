------------------------------- MODULE Dlist -------------------------------
(***************************************************************************)
(* The doubly linked list of src/dlist.c, and the loop over it in which    *)
(* src/net.c deletes elements: check_timeout and delete_client.            *)
(*                                                                         *)
(* Nodes are addresses and links are kept as they are in memory; order is  *)
(* what the calls so far should have made of the list.  A value is on the  *)
(* list once at most, as each client is a block of its own.                *)
(***************************************************************************)
EXTENDS Integers, Sequences, FiniteSets

CONSTANTS
  Node,   \* addresses malloc may give a node
  Value,  \* the values: addresses of clients
  Null

\* Memory is finite.
ASSUME DlistAssumption == IsFiniteSet(Node) /\ Null \notin Node /\ Null \notin Value

VARIABLES
  head, tail, len,    \* the dlist
  prev, next, value,  \* the nodes; Null in one that is not allocated
  alloc,              \* the nodes that are allocated
  iter,    \* the iterator of the loop: next and direction
  seek,    \* next of the iterator of dlist_search_key
  key,     \* what that looks for
  pc,      \* "idle", "loop", "body" (an element has been returned), "search",
           \* "found"; "destroy", "gone"; "crashed"
  caller,  \* where delete_client returns to: "idle" or "loop"
  curr,    \* the node in hand
  left,    \* the counter of dlist_destroy
  order,   \* history: the nodes on the list, in order
  loop     \* history: order at the start of the loop, and the nodes it returned

cells == <<prev, next, value, alloc>>
list  == <<head, tail, len, cells>>
find  == <<seek, key, caller>>
vars  == <<list, iter, find, pc, curr, left, order, loop>>

Nodes      == {order[k] : k \in DOMAIN order}
Elements   == {value[n] : n \in Nodes}
Position(n) == CHOOSE k \in DOMAIN order : order[k] = n

\* The list with a node put in before position k, or without the one at k.
Inserted(s, k, n) == SubSeq(s, 1, k - 1) \o <<n>> \o SubSeq(s, k, Len(s))
Removed(s, k)     == SubSeq(s, 1, k - 1) \o SubSeq(s, k + 1, Len(s))

-----------------------------------------------------------------------------
(* dlist_add_node_head, dlist_add_node_tail, dlist_insert_node.  When malloc *)
(* fails the list remains as it is.                                        *)

\* A pointer field after it has been set in node n, if there is one.
Set(field, n, to) == [m \in Node |-> IF m = n THEN to ELSE field[m]]

\* (a bug: the node that came after is not linked back to the new one)
LinkForward(n, v, p, s) ==
  /\ alloc' = alloc \cup {n}
  /\ value' = Set(value, n, v)
  /\ prev' = Set(prev, n, p)
  /\ next' = Set(Set(next, p, n), n, s)
  /\ head' = IF p = Null THEN n ELSE head
  /\ tail' = IF s = Null THEN n ELSE tail
  /\ len' = len + 1

\* A new node n with value v between p and s.
Link(n, v, p, s) ==
  /\ alloc' = alloc \cup {n}
  /\ value' = Set(value, n, v)
  /\ prev' = Set(Set(prev, s, n), n, p)
  /\ next' = Set(Set(next, p, n), n, s)
  /\ head' = IF p = Null THEN n ELSE head
  /\ tail' = IF s = Null THEN n ELSE tail
  /\ len' = len + 1

Adding(n, v) ==
  /\ pc = "idle"
  /\ n \in Node \ alloc /\ v \in Value \ Elements
  /\ UNCHANGED <<iter, find, pc, curr, left, loop>>

AddNodeHead(n, v) ==
  /\ Adding(n, v)
  /\ Link(n, v, Null, IF len = 0 THEN Null ELSE head)
  /\ order' = Inserted(order, 1, n)

AddNodeTail(n, v) ==
  /\ Adding(n, v)
  /\ Link(n, v, IF len = 0 THEN Null ELSE tail, Null)
  /\ order' = Append(order, n)

InsertAfter(n, v, old) ==
  /\ Adding(n, v)
  /\ Link(n, v, old, next[old])
  /\ order' = Inserted(order, Position(old) + 1, n)

InsertBefore(n, v, old) ==
  /\ Adding(n, v)
  /\ Link(n, v, prev[old], old)
  /\ order' = Inserted(order, Position(old), n)

-----------------------------------------------------------------------------
(* dlist_delete_node.                                                      *)

\* (a bug: a node taken from the end leaves tail where it was)
UnlinkKeepsTail(n) ==
  /\ alloc' = alloc \ {n}
  /\ value' = Set(value, n, Null)
  /\ prev' = Set(Set(prev, next[n], prev[n]), n, Null)
  /\ next' = Set(Set(next, prev[n], next[n]), n, Null)
  /\ head' = IF prev[n] = Null THEN next[n] ELSE head
  /\ len' = len - 1
  /\ UNCHANGED tail

\* (a bug: the list is not told that it is shorter)
UnlinkUncounted(n) ==
  /\ alloc' = alloc \ {n}
  /\ value' = Set(value, n, Null)
  /\ prev' = Set(Set(prev, next[n], prev[n]), n, Null)
  /\ next' = Set(Set(next, prev[n], next[n]), n, Null)
  /\ head' = IF prev[n] = Null THEN next[n] ELSE head
  /\ tail' = IF next[n] = Null THEN prev[n] ELSE tail
  /\ UNCHANGED len

Unlink(n) ==
  /\ alloc' = alloc \ {n}
  /\ value' = Set(value, n, Null)
  /\ prev' = Set(Set(prev, next[n], prev[n]), n, Null)
  /\ next' = Set(Set(next, prev[n], next[n]), n, Null)
  /\ head' = IF prev[n] = Null THEN next[n] ELSE head
  /\ tail' = IF next[n] = Null THEN prev[n] ELSE tail
  /\ len' = len - 1

-----------------------------------------------------------------------------
(* delete_client: dlist_search_key, with an iterator of its own, and then  *)
(* dlist_delete_node of what it has found.                                 *)

Search(v, back) ==
  /\ key' = v /\ caller' = back
  /\ \/ pc' = "search" /\ seek' = head
     \/ pc' = "crashed" /\ UNCHANGED seek   \* malloc fails: dlist_next(NULL)
  /\ UNCHANGED <<list, iter, curr, left, order, loop>>

\* (a bug: the first node is taken for the one that is looked for)
MatchesAny(n) == n # Null

Matches(n) == value[n] = key

\* (a bug: the search does not move on)
SearchNextStays ==
  /\ pc = "search" /\ seek # Null
  /\ \/ Matches(seek) /\ pc' = "found"
     \/ ~Matches(seek) /\ UNCHANGED pc
  /\ UNCHANGED seek
  /\ UNCHANGED <<list, iter, key, caller, curr, left, order, loop>>

SearchNext ==
  /\ pc = "search" /\ seek # Null
  /\ \/ Matches(seek) /\ pc' = "found" /\ UNCHANGED seek
     \/ ~Matches(seek) /\ seek' = next[seek] /\ UNCHANGED pc
  /\ UNCHANGED <<list, iter, key, caller, curr, left, order, loop>>

SearchEnds ==
  /\ pc = "search" /\ seek = Null
  /\ pc' = caller
  /\ UNCHANGED <<list, iter, find, curr, left, order, loop>>

DeleteFound ==
  /\ pc = "found"
  /\ Unlink(seek)
  /\ order' = Removed(order, Position(seek))
  /\ pc' = caller /\ seek' = Null
  /\ UNCHANGED <<iter, key, caller, curr, left, loop>>

\* handle_dns_response, when it has forwarded the answer.
DeleteClient(v) == pc = "idle" /\ Search(v, "idle")

-----------------------------------------------------------------------------
(* dlist_rewind, dlist_rewind_tail, dlist_next: the loop of check_timeout. *)

Rewind(direction) ==
  /\ pc = "idle"
  /\ iter' = [next |-> IF direction = "head" THEN head ELSE tail,
              direction |-> direction]
  /\ loop' = [start |-> order, visited |-> <<>>]
  /\ pc' = "loop"
  /\ UNCHANGED <<list, find, curr, left, order>>

\* (a bug: the iterator only moves on when the element has been dealt with)
AdvancedLate == iter.next

Advanced == IF iter.direction = "head" THEN next[iter.next] ELSE prev[iter.next]

DlistNext ==
  /\ pc = "loop" /\ iter.next # Null
  /\ curr' = iter.next
  /\ iter' = [iter EXCEPT !.next = Advanced]
  /\ loop' = [loop EXCEPT !.visited = Append(@, iter.next)]
  /\ pc' = "body"
  /\ UNCHANGED <<list, find, left, order>>

\* The body of the loop deletes the client it was given, or leaves it.
DeleteReturned == pc = "body" /\ Search(value[curr], "loop")

Keep ==
  /\ pc = "body"
  /\ pc' = "loop"
  /\ UNCHANGED <<list, iter, find, curr, left, order, loop>>

LoopEnds ==
  /\ pc = "loop" /\ iter.next = Null
  /\ pc' = "idle"
  /\ UNCHANGED <<list, iter, find, curr, left, order, loop>>

-----------------------------------------------------------------------------
(* dlist_destroy.                                                          *)

\* (a bug: the length is decremented before it is tested)
DestroyShort ==
  /\ pc = "idle"
  /\ curr' = head /\ left' = IF len = 0 THEN 0 ELSE len - 1
  /\ pc' = "destroy"
  /\ UNCHANGED <<list, iter, find, order, loop>>

Destroy ==
  /\ pc = "idle"
  /\ curr' = head /\ left' = len
  /\ pc' = "destroy"
  /\ UNCHANGED <<list, iter, find, order, loop>>

DestroyNext ==
  /\ pc = "destroy" /\ left > 0
  /\ alloc' = alloc \ {curr}
  /\ curr' = next[curr] /\ left' = left - 1
  /\ UNCHANGED <<head, tail, len, prev, next, value, iter, find, pc, order, loop>>

Destroyed ==
  /\ pc = "destroy" /\ left = 0
  /\ pc' = "gone"
  /\ UNCHANGED <<list, iter, find, curr, left, order, loop>>

-----------------------------------------------------------------------------
Init ==
  /\ head = Null /\ tail = Null /\ len = 0
  /\ prev = [n \in Node |-> Null] /\ next = [n \in Node |-> Null]
  /\ value = [n \in Node |-> Null] /\ alloc = {}
  /\ iter = [next |-> Null, direction |-> "head"]
  /\ seek = Null /\ key = Null /\ curr = Null /\ left = 0
  /\ pc = "idle" /\ caller = "idle"
  /\ order = <<>> /\ loop = [start |-> <<>>, visited |-> <<>>]

Add == \E n \in Node, v \in Value :
         \/ AddNodeHead(n, v) \/ AddNodeTail(n, v)
         \/ \E old \in Nodes : InsertAfter(n, v, old) \/ InsertBefore(n, v, old)

\* A call that has begun goes on to its end.
Proceed == \/ SearchNext \/ SearchEnds \/ DeleteFound
           \/ DlistNext \/ DeleteReturned \/ Keep \/ LoopEnds
           \/ DestroyNext \/ Destroyed

Ended == pc \in {"gone", "crashed"} /\ UNCHANGED vars

Next == \/ Add
        \/ \E v \in Value : DeleteClient(v)
        \/ \E direction \in {"head", "tail"} : Rewind(direction)
        \/ Proceed \/ Destroy \/ Ended

Spec == Init /\ [][Next]_vars

FairSpec == Spec /\ WF_vars(Proceed)

-----------------------------------------------------------------------------
(* dlist_index: by the links forward from the head, or back from the tail. *)

\* (a bug: -1 is the last element but one)
IndexShifted(k) ==
  LET n == IF k < 0 THEN -k ELSE k
      at[d \in 0..n] == IF d = 0 THEN (IF k < 0 THEN tail ELSE head)
                        ELSE IF at[d - 1] = Null THEN Null
                        ELSE (IF k < 0 THEN prev ELSE next)[at[d - 1]]
  IN at[n]

Index(k) ==
  LET n == IF k < 0 THEN (-k) - 1 ELSE k
      at[d \in 0..n] == IF d = 0 THEN (IF k < 0 THEN tail ELSE head)
                        ELSE IF at[d - 1] = Null THEN Null
                        ELSE (IF k < 0 THEN prev ELSE next)[at[d - 1]]
  IN at[n]

-----------------------------------------------------------------------------
(* Properties.                                                             *)

Place == Node \cup {Null}

TypeOK ==
  /\ head \in Place /\ tail \in Place /\ len \in 0..Cardinality(Node)
  /\ prev \in [Node -> Place] /\ next \in [Node -> Place]
  /\ value \in [Node -> Value \cup {Null}] /\ alloc \subseteq Node
  /\ iter \in [next : Place, direction : {"head", "tail"}]
  /\ seek \in Place /\ key \in Value \cup {Null} /\ caller \in {"idle", "loop"}
  /\ curr \in Place /\ left \in 0..Cardinality(Node)
  /\ pc \in {"idle", "loop", "body", "search", "found", "destroy", "gone", "crashed"}
  /\ order \in Seq(Node) /\ loop \in [start : Seq(Node), visited : Seq(Node)]

\* What is at position k of s, if anything is.
At(s, k) == IF k \in DOMAIN s THEN s[k] ELSE Null

\* After any adds and deletes, those in the middle of a loop included, the links
\* in both directions, the ends and the length are those of the list the calls
\* should have made, and no other node is allocated (dlist.c: dlist_add_node_head,
\* dlist_add_node_tail, dlist_insert_node, dlist_delete_node).
WellLinked ==
  /\ len = Len(order)
  /\ head = At(order, 1) /\ tail = At(order, len)
  /\ \A k \in DOMAIN order :
       /\ next[order[k]] = At(order, k + 1)
       /\ prev[order[k]] = At(order, k - 1)
       /\ \A j \in DOMAIN order : j # k => order[j] # order[k]
  /\ pc \notin {"destroy", "gone"} => alloc = Nodes

\* The iterators of the loop and of the search in its body stand at nodes of the
\* list: none is read that has been freed (dlist.c:190, "valid to remove the
\* currently returned element").
IteratorsOnList ==
  /\ pc \in {"loop", "body"} \/ (pc \in {"search", "found"} /\ caller = "loop")
       => iter.next \in alloc \cup {Null}
  /\ pc \in {"search", "found"} => seek \in alloc \cup {Null}
  /\ pc = "destroy" /\ left > 0 => curr \in alloc

Backwards(s) == [k \in DOMAIN s |-> s[Len(s) + 1 - k]]

\* The list holds what is left of s, in the order of s.
RemainsOf(s) ==
  /\ Nodes = {s[k] : k \in DOMAIN s} \cap alloc
  /\ \A j, k \in DOMAIN order : \A a, b \in DOMAIN s :
       j < k /\ order[j] = s[a] /\ order[k] = s[b] => a < b

\* A loop, in either direction, returns every element that was on the list when
\* it began, once and in order, whichever of them its body deletes; those it
\* leaves remain in their order (net.c: check_timeout; dlist.c: dlist_next).
LoopReturnsAll ==
  [][pc = "loop" /\ pc' = "idle" =>
       /\ loop.start = IF iter.direction = "head" THEN loop.visited
                       ELSE Backwards(loop.visited)
       /\ RemainsOf(loop.start)]_vars

\* The node that dlist_search_key finds for a client in the loop is the node the
\* loop has in hand: the only one that may go (net.c: delete_client; dlist.c:190).
OnlyReturnedDeleted ==
  [][pc = "found" /\ caller = "loop" => alloc \ alloc' = {curr}]_vars

\* dlist_index counts from either end, as its comment says (dlist.c:279).
IndexCountsBothWays ==
  pc \in {"idle", "loop", "body"} =>
    \A k \in (-len - 1)..len :
      Index(k) = At(order, IF k < 0 THEN len + 1 + k ELSE k + 1)

\* dlist_destroy goes by the length and frees every node
\* (dlist.c: dlist_destroy).
DestroyFreesAll == pc = "gone" => alloc = {}

\* check_timeout comes to the end of the list, unless dlist_search_key has no
\* memory for its iterator (dlist.c: dlist_next, dlist_search_key).
LoopsEnd == (pc = "loop") ~> (pc \in {"idle", "crashed"})

\* The list is, to every way of reading it, what the calls should have made of it
\* (dlist.c: dlist_next, dlist_index).
ListSound == TypeOK /\ WellLinked /\ IndexCountsBothWays

\* No node is read once it has been freed, and none is left in the end (dlist.c:
\* dlist_next, dlist_search_key, dlist_destroy).
NodesFreedOnce == IteratorsOnList /\ DestroyFreesAll

\* The loop comes to all elements, and its body deletes none but the one in hand
\* (net.c: check_timeout, delete_client).
LoopsVisitAll == LoopReturnsAll /\ OnlyReturnedDeleted

=============================================================================
