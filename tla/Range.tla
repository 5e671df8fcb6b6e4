------------------------------- MODULE Range -------------------------------
(***************************************************************************)
(* The range table of src/range.c: for each block of addresses with the    *)
(* same high bits, a vector of ranges of the low bits (src/vector.c).      *)
(*                                                                         *)
(* range_insert and range_delete go block by block through the range they  *)
(* are given; one step is one round of their loop, so that an address that *)
(* wraps around and an insert that fails halfway show.                     *)
(***************************************************************************)
EXTENDS Integers, Sequences, FiniteSets

CONSTANTS
  Blocks,      \* blocks, 0x10000 in range_init
  Size,        \* addresses of a block, 0x10000
  Ip,          \* addresses a range may be replaced by
  Invalid,     \* INVALID_IP_ADDR
  MallocFails, \* whether vector_new and vector_push may fail
  MaxLines,    \* bound on the calls made
  MaxMixed     \* and once one of them has not been careful

Addr == 0..(Blocks * Size - 1)
Low  == 0..(Size - 1)

ASSUME RangeAssumption ==
  /\ Blocks \in Nat \ {0} /\ Size \in Nat \ {0} /\ MaxLines \in Nat
  /\ MaxMixed \in 0..MaxLines
  /\ MallocFails \in BOOLEAN
  /\ Invalid \notin Ip

VARIABLES
  def_ip,  \* the address of what no range covers
  low,     \* the vector of each block; <<>> where there is none yet
  pc,      \* "idle", the call that is running: "insert" or "delete", or "failed"
  n,       \* where its loop is, a uint32_t
  call,    \* its arguments, kept until the next call; history: whether it
           \* deletes what the call before has just inserted
  ret,     \* what the last range_insert returned
  lines,   \* calls made so far
  careful  \* history: all calls are as SafeInsert, SafeDelete say

vars == <<def_ip, low, pc, n, call, ret, lines, careful>>

High(a) == a \div Size
LowOf(a) == a % Size
Entry(s, e, ip) == [start |-> s, end |-> e, ip_addr |-> ip]

\* s and e of the block the loop is at.
First == IF n = call.start THEN LowOf(n) ELSE 0
Last  == IF High(n) * Size + Size - 1 > call.end THEN LowOf(call.end)
         ELSE Size - 1
Vec   == low[High(n)]

\* range_get: the first range that covers the address decides.
Get(a) ==
  LET hits == {i \in DOMAIN low[High(a)] :
                 /\ low[High(a)][i].start <= LowOf(a)
                 /\ LowOf(a) <= low[High(a)][i].end}
  IN IF hits = {} THEN def_ip
     ELSE low[High(a)][CHOOSE i \in hits : \A j \in hits : i <= j].ip_addr

-----------------------------------------------------------------------------
(* range_insert.                                                           *)

\* The vector with entry i replaced by new entries.
Splice(vec, i, new) ==
  SubSeq(vec, 1, i - 1) \o new \o SubSeq(vec, i + 1, Len(vec))

\* The loop looks from the last range to the first for one that starts at or
\* before e: all it compares the new range with.
Candidates(vec, e) == {i \in DOMAIN vec : vec[i].start <= e}
Candidate(vec, e) ==
  CHOOSE i \in Candidates(vec, e) : \A j \in Candidates(vec, e) : j <= i

\* (a bug: the part after the new range is not cut off the old one)
PlacedUncut(vec, i, s, e, ip) ==
  LET r == vec[i] IN
  Splice(vec, i,
    IF s > r.end THEN <<r, Entry(s, e, ip)>>
    ELSE (IF s > r.start THEN <<Entry(r.start, s - 1, r.ip_addr)>> ELSE <<>>)
         \o <<Entry(s, e, ip)>>
         \o (IF e < r.end THEN <<Entry(e, r.end, r.ip_addr)>> ELSE <<>>))

\* (a bug: a part before the new range is kept even when there is none)
PlacedLeftKept(vec, i, s, e, ip) ==
  LET r == vec[i] IN
  Splice(vec, i,
    IF s > r.end THEN <<r, Entry(s, e, ip)>>
    ELSE <<Entry(r.start, s - 1, r.ip_addr), Entry(s, e, ip)>>
         \o (IF e < r.end THEN <<Entry(e + 1, r.end, r.ip_addr)>> ELSE <<>>))

\* (a bug: the part after the new range is lost)
PlacedRightLost(vec, i, s, e, ip) ==
  LET r == vec[i] IN
  Splice(vec, i,
    IF s > r.end THEN <<r, Entry(s, e, ip)>>
    ELSE (IF s > r.start THEN <<Entry(r.start, s - 1, r.ip_addr)>> ELSE <<>>)
         \o <<Entry(s, e, ip)>>)

\* After the range at i, or inside it: what is left of it on either side stays.
Placed(vec, i, s, e, ip) ==
  LET r == vec[i] IN
  Splice(vec, i,
    IF s > r.end THEN <<r, Entry(s, e, ip)>>
    ELSE (IF s > r.start THEN <<Entry(r.start, s - 1, r.ip_addr)>> ELSE <<>>)
         \o <<Entry(s, e, ip)>>
         \o (IF e < r.end THEN <<Entry(e + 1, r.end, r.ip_addr)>> ELSE <<>>))

\* Neither after the range at i nor within it.
Clashes(vec, i, s, e) == s <= vec[i].end /\ (s < vec[i].start \/ e > vec[i].end)

\* (a bug: the low bits are kept in the next block)
NextInsertUnmasked == n' = (n + Size) % (Blocks * Size)

\* (a bug: the loop goes to the end of the block, not past it)
NextInsertShort == n' = High(n) * Size + Size - 1

\* The next block: the sum of two uint32_t wraps.
NextInsert == n' = (High(n + Size) * Size) % (Blocks * Size)

Return(r) == pc' = "idle" /\ ret' = r /\ UNCHANGED n

InsertRuns == pc = "insert" /\ n <= call.end /\ UNCHANGED <<def_ip, call, lines, careful>>

\* The block's ranges all start after e: the new one is pushed behind them.
InsertPush ==
  /\ InsertRuns
  /\ Candidates(Vec, Last) = {}
  /\ low' = [low EXCEPT ![High(n)] = Append(@, Entry(First, Last, call.ip))]
  /\ NextInsert
  /\ UNCHANGED <<pc, ret>>

InsertPlace ==
  /\ InsertRuns
  /\ Candidates(Vec, Last) # {}
  /\ LET i == Candidate(Vec, Last) IN
       /\ ~Clashes(Vec, i, First, Last)
       /\ low' = [low EXCEPT ![High(n)] = Placed(@, i, First, Last, call.ip)]
  /\ NextInsert
  /\ UNCHANGED <<pc, ret>>

\* The blocks done so far keep the range.
InsertClash ==
  /\ InsertRuns
  /\ Candidates(Vec, Last) # {}
  /\ Clashes(Vec, Candidate(Vec, Last), First, Last)
  /\ Return(-1)
  /\ UNCHANGED low

\* No memory for the vector or its growth.  A split pushes twice: when only the
\* second push fails, the invalid entry of the first stays.  geo_load then gives
\* the whole table up.
InsertOutOfMemory ==
  /\ InsertRuns
  /\ MallocFails
  /\ \/ UNCHANGED low
     \/ /\ Candidates(Vec, Last) # {}
        /\ LET r == Vec[Candidate(Vec, Last)] IN First > r.start /\ Last < r.end
        /\ low' = [low EXCEPT ![High(n)] = Append(@, Entry(0, 0, Invalid))]
  /\ pc' = "failed" /\ ret' = -1 /\ UNCHANGED n

InsertReturns == /\ pc = "insert" /\ n > call.end
                 /\ Return(0)
                 /\ UNCHANGED <<def_ip, low, call, lines, careful>>

-----------------------------------------------------------------------------
(* range_delete.                                                           *)

Matches == {i \in DOMAIN Vec : Vec[i].start = First /\ Vec[i].end = Last}

\* The first range that is exactly the block's part of the deleted one goes.
DeleteBlock ==
  /\ pc = "delete" /\ n <= call.end
  /\ low' = IF Matches = {} THEN low
            ELSE LET i == CHOOSE i \in Matches : \A j \in Matches : i <= j
                 IN [low EXCEPT ![High(n)] = Splice(@, i, <<>>)]
  /\ n' = (n + Size) % (Blocks * Size)
  /\ UNCHANGED <<def_ip, pc, call, ret, lines, careful>>

DeleteReturns == /\ pc = "delete" /\ n > call.end
                 /\ Return(ret)
                 /\ UNCHANGED <<def_ip, low, call, lines, careful>>

-----------------------------------------------------------------------------
(* The calls, as the lines of a geo file make them.                        *)

\* The calls that keep clear of three defects: a range that ends in the last block,
\* after which the loop wraps around, one before all others of a block, which is
\* pushed out of order, and a delete whose last block is skipped.
SafeInsert(s, e) ==
  /\ High(e) < Blocks - 1
  /\ \A h \in High(s)..High(e) :
       \/ low[h] = <<>>
       \/ Candidates(low[h], IF h = High(e) THEN LowOf(e) ELSE Size - 1) # {}

SafeDelete(s, e) == High(e) < Blocks - 1 /\ LowOf(s) <= LowOf(e)

MoreLines == lines < IF careful THEN MaxLines ELSE MaxMixed

Call(op, s, e, ip) ==
  /\ pc = "idle" /\ MoreLines
  /\ lines' = lines + 1
  /\ pc' = op /\ n' = s
  /\ call' = [op |-> op, start |-> s, end |-> e, ip |-> ip,
               undoes |-> /\ op = "delete" /\ call.op = "insert" /\ ret = 0
                          /\ call.start = s /\ call.end = e]
  /\ UNCHANGED <<def_ip, low>>

CallInsert(s, e, ip) ==
  /\ careful' = (careful /\ SafeInsert(s, e))
  /\ ret' = 0
  /\ Call("insert", s, e, ip)

CallDelete(s, e) ==
  /\ careful' = (careful /\ SafeDelete(s, e))
  /\ Call("delete", s, e, Invalid)
  /\ UNCHANGED ret

\* A range from a higher to a lower address.
InsertRefused ==
  /\ pc = "idle" /\ MoreLines /\ lines' = lines + 1
  /\ ret' = -1
  /\ UNCHANGED <<def_ip, low, pc, n, call, careful>>

SetDefault(ip) ==
  /\ pc = "idle" /\ MoreLines /\ lines' = lines + 1
  /\ def_ip' = ip
  /\ UNCHANGED <<low, pc, n, call, ret, careful>>

Init ==
  /\ def_ip = Invalid
  /\ low = [h \in 0..(Blocks - 1) |-> <<>>]
  /\ pc = "idle" /\ n = 0 /\ ret = 0 /\ lines = 0 /\ careful = TRUE
  /\ call = [op |-> "none", start |-> 0, end |-> 0, ip |-> Invalid,
             undoes |-> FALSE]

\* The table has been given up, or the bound on the calls is reached.
Done == (pc = "failed" \/ (pc = "idle" /\ ~MoreLines)) /\ UNCHANGED vars

Running == InsertPush \/ InsertPlace \/ InsertClash \/ InsertReturns
           \/ DeleteBlock \/ DeleteReturns

Next ==
  \/ Running
  \/ InsertOutOfMemory
  \/ \E s \in Addr : \E e \in s..(Blocks * Size - 1) :
       CallDelete(s, e) \/ \E ip \in Ip : CallInsert(s, e, ip)
  \/ InsertRefused
  \/ \E ip \in Ip : SetDefault(ip)
  \/ Done

Spec == Init /\ [][Next]_vars

\* A call that has begun runs on; no call returns because memory runs out.
FairSpec == Spec /\ WF_vars(Running)

-----------------------------------------------------------------------------
(* Properties.                                                              *)

\* Vectors hold ranges of their block, and the loop is at an address.
TypeOK ==
  /\ def_ip \in Ip \cup {Invalid}
  /\ \A h \in 0..(Blocks - 1) : \A i \in DOMAIN low[h] :
       /\ low[h][i].start \in Low /\ low[h][i].end \in Low
       /\ low[h][i].ip_addr \in Ip \cup {Invalid}
  /\ pc \in {"idle", "insert", "delete", "failed"}
  /\ n \in Addr /\ ret \in {-1, 0} /\ lines \in 0..MaxLines
  /\ careful \in BOOLEAN

\* The ranges of a block are in order and apart from each other, through every
\* split and cut of careful calls, until the table is given up (range.c:
\* range_insert).
Ordered ==
  pc # "failed" =>
    \A h \in 0..(Blocks - 1) :
      /\ \A i \in DOMAIN low[h] : low[h][i].start <= low[h][i].end
      /\ \A i, j \in DOMAIN low[h] : i < j => low[h][i].end < low[h][j].start

\* Whatever a careful call does in any block, and even when it fails halfway,
\* addresses outside its range are looked up as before; but an allocation that
\* fails in a split may leave an invalid entry for the first address of the block
\* (range.c: range_insert, range_delete, range_get).
OutsideUntouched ==
  [][careful /\ pc # "idle" =>
       \A a \in Addr : Get(a)' # Get(a) =>
         \/ a \in call.start..call.end
         \/ pc' = "failed" /\ LowOf(a) = 0 /\ Get(a)' = Invalid]_vars

\* An insert that succeeds has set every address of its range, in all blocks, as
\* long as the calls are careful (range.c: range_insert).
InsertSetsAll ==
  [][careful /\ pc = "insert" /\ pc' = "idle" /\ ret' = 0 =>
       \A a \in call.start..call.end : Get(a) = call.ip]_vars

\* A careful delete gives addresses back to the default, and never to another
\* range (range.c: range_delete).
DeleteOnlyClears ==
  [][careful /\ pc = "delete" =>
       \A a \in Addr : Get(a)' # Get(a) => Get(a)' = def_ip]_vars

\* A range that has just been inserted, in how many blocks and within which
\* other ranges it may be, is deleted as a whole, as long as the calls are careful
\* (range.c: range_delete; its test at range.c:421 deletes a range it has
\* inserted).
DeleteUndoesInsert ==
  [][careful /\ pc = "delete" /\ pc' = "idle" /\ call.undoes =>
       \A a \in call.start..call.end : Get(a) = def_ip]_vars

\* The calls whose loop meets its own start again: past the last block the sum is
\* an address that the loop goes on from.
Endless ==
  /\ High(call.end) = Blocks - 1
  /\ call.op = "delete" => LowOf(call.start) <= LowOf(call.end)

\* Careful or not, every other call returns (range.c: the loops of range_insert
\* and range_delete).
OthersReturn ==
  (pc \in {"insert", "delete"} /\ ~Endless) ~> (pc \in {"idle", "failed"})

\* An endless delete never returns, and an endless insert never succeeds: it can
\* only meet a clash or find no memory (range.c: range_insert, range_delete).
EndlessNeverSucceeds ==
  [][Endless /\ pc \in {"insert", "delete"} /\ pc' = "idle" =>
       pc = "insert" /\ ret' = -1]_vars

\* Exactly the calls whose range ends in the last block do not return, but for the
\* deletes that skip that block and the inserts that fail (range.c: the loops of
\* range_insert and range_delete).
CallsReturn == OthersReturn /\ EndlessNeverSucceeds

\* What the vectors hold is a table, in order as long as the calls are careful
\* (range.c: range_insert).
TableSound == TypeOK /\ (careful => Ordered)

\* No careful call reaches beyond its range, nor a delete to another value than
\* the default (range.c: range_insert, range_delete).
CallsContained == OutsideUntouched /\ DeleteOnlyClears

\* An insert that succeeds reaches all of its range, and so does the delete of
\* what was inserted, as long as the calls are careful (range.c: range_insert,
\* range_delete).
CallsTakeEffect == InsertSetsAll /\ DeleteUndoesInsert

=============================================================================
