------------------------------ MODULE GeoCidr ------------------------------
(***************************************************************************)
(* The lines of a geo file in CIDR mode: geo_parse_cidr of src/geo.c,      *)
(* which carries each of them out on the radix trie.                       *)
(*                                                                         *)
(* A line is what its two fields parse to: a prefix and an address, or Bad *)
(* for a field parse_cidr or inet_aton rejects.                            *)
(***************************************************************************)
EXTENDS Radix

CONSTANT
  Bad   \* what parse_cidr and inet_aton make of a field they reject

VARIABLES
  pc,      \* "read" between lines, "insert" and "delete" in the retry loop
  line,    \* the line being carried out
  tries,   \* i of the retry loop
  routes   \* history: the routes the file has set so far

fileVars == <<vars, pc, line, tries, routes>>

Cidr    == Path \cup {Bad}
Address == Value \cup {Bad}
Line    == [verb : {"route", "delete", "default"}, cidr : Cidr, addr : Address]

Result(r) == pc' = (IF r = 0 THEN "read" ELSE "failed")

\* A line is read.  Whatever its address, a default line is then parsed as a
\* CIDR, which the word default is not.
BadLine(l) ==
  /\ pc = "read"
  /\ \/ l.verb = "route" /\ (l.cidr = Bad \/ l.addr = Bad)
     \/ l.verb = "delete" /\ l.cidr = Bad
     \/ l.verb = "default"
  /\ line' = l
  /\ Result(-1)
  /\ UNCHANGED <<vars, tries, routes>>

DeleteLine(l) ==
  /\ pc = "read"
  /\ l.verb = "delete" /\ l.cidr # Bad
  /\ line' = l
  /\ Delete(l.cidr)
  /\ Result(ret')
  /\ routes' = IF ret' = 0 THEN [routes EXCEPT ![l.cidr] = NoValue] ELSE routes
  /\ UNCHANGED tries

RouteLine(l) ==
  /\ pc = "read"
  /\ l.verb = "route" /\ l.cidr # Bad /\ l.addr # Bad
  /\ line' = l
  /\ tries' = 3
  /\ pc' = "insert"
  /\ UNCHANGED <<vars, routes>>

\* One round of the retry loop: insert, and unless that succeeds, delete.
TryInsert ==
  /\ pc = "insert"
  /\ Insert(line.cidr, line.addr)
  /\ IF ret' = 0
       THEN pc' = "read" /\ routes' = [routes EXCEPT ![line.cidr] = line.addr]
       ELSE pc' = "delete" /\ UNCHANGED routes
  /\ UNCHANGED <<line, tries>>

\* (a bug: after the delete the loop gives up)
TryDeleteOnce ==
  /\ pc = "delete"
  /\ Delete(line.cidr)
  /\ tries' = tries - 1
  /\ pc' = "failed"
  /\ UNCHANGED <<line, routes>>

TryDelete ==
  /\ pc = "delete"
  /\ Delete(line.cidr)
  /\ tries' = IF ret' = 0 THEN tries - 1 ELSE tries
  /\ pc' = IF ret' = 0 /\ tries' > 0 THEN "insert" ELSE "failed"
  /\ UNCHANGED <<line, routes>>

FileInit ==
  /\ Init
  /\ pc = "read" /\ tries = 3
  /\ line = [verb |-> "default", cidr |-> Bad, addr |-> Bad]
  /\ routes = [p \in Path |-> NoValue]

\* geo_load gives up on the first line that fails.
Failed == pc = "failed" /\ UNCHANGED fileVars

FileNext ==
  \/ \E l \in Line : BadLine(l) \/ DeleteLine(l) \/ RouteLine(l)
  \/ TryInsert \/ TryDelete
  \/ Failed

FileSpec == FileInit /\ [][FileNext]_fileVars

-----------------------------------------------------------------------------
(* Properties.                                                              *)

\* The longest prefix of a key the file has a route for.
Given(key) == {n \in 0..Width : routes[Up(key, n)] # NoValue}

RouteOf(key) ==
  IF Given(key) = {}
    THEN NoValue
    ELSE routes[Up(key, CHOOSE n \in Given(key) : \A m \in Given(key) : m <= n)]

\* Between two lines every address is looked up as the lines so far say: the
\* longest prefix decides, a later line for a prefix replaces an earlier one
\* (geo.c: geo_parse_cidr).
LinesRespected ==
  pc = "read" => \A key \in Key : Find(key) = RouteOf(key)

\* The second insert decides: the loop never comes to its third round, not even
\* when allocations fail (geo.c: geo_parse_cidr, Retry 3 times).
SecondTryDecides == pc \in {"insert", "delete"} => tries >= 2

\* A route that is already there gets its second insert, unless it is 0.0.0.0/0:
\* the first round gives up only on other lines (geo.c: geo_parse_cidr, radix.c:
\* radix32tree_delete).
RepeatedRouteReplaced ==
  [][pc = "delete" /\ pc' = "failed" /\ tries = 3
       => routes[line.cidr] = NoValue \/ line.cidr = Root]_fileVars

\* A repeated route is replaced by the second round, which is the last one in any
\* case (geo.c: geo_parse_cidr, Retry 3 times).
RetryDecides == []SecondTryDecides /\ RepeatedRouteReplaced

=============================================================================
