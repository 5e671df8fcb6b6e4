--------------------------- MODULE GeoLoadProofs ---------------------------
(***************************************************************************)
(* Theorems about reading a geo file, for any files with any contents,     *)
(* included from one another in any way.                                   *)
(***************************************************************************)
EXTENDS GeoLoad, SequenceTheorems, NaturalsInduction, WellFoundedInduction, TLAPS

Frame == [file : File, read : Nat]

\* What the proofs rest on: there is one FILE for each running call, no call runs
\* before the first fopen or after the return, and a failure anywhere makes each
\* call on the stack fail in turn.
LoadInv ==
  /\ stack \in Seq(Frame)
  /\ opening \in File
  /\ pc # "aborted" => open = Len(stack)
  /\ pc \in {"read", "null"} => stack # <<>>
  /\ pc \in {"create", "done"} => stack = <<>>
  /\ table = "freed" => pc \in {"null", "done", "aborted"}

\* What ReturnFrom makes of the invariant, for a call that fails or a table that
\* is not freed.
LEMMA ReturnKeeps ==
  ASSUME NEW rest \in Seq(Frame), NEW ret,
         ReturnFrom(rest, ret),
         open' = Len(rest), opening' \in File,
         table' = "freed" => ret # "geo"
  PROVE  LoadInv'
<1>1. stack' = rest
  BY DEF ReturnFrom
<1>2. pc' \in {"done", "read", "null"} /\ (pc' = "done" <=> rest = <<>>)
  BY DEF ReturnFrom
<1>3. table' = "freed" => pc' \in {"null", "done"}
  BY DEF ReturnFrom
<1>4. QED
  BY <1>1, <1>2, <1>3 DEF LoadInv

\* The call on top of the stack is one, and below it are one less.
LEMMA StackTop ==
  ASSUME stack \in Seq(Frame), stack # <<>>
  PROVE  /\ Head(stack) \in Frame
         /\ Tail(stack) \in Seq(Frame)
         /\ Len(Tail(stack)) = Len(stack) - 1
OBVIOUS

LEMMA NextLineKeeps ==
  ASSUME stack \in Seq(Frame), stack # <<>>, NextLine
  PROVE  stack' \in Seq(Frame) /\ Len(stack') = Len(stack)
<1>1. stack[1] \in Frame /\ 1 \in 1..Len(stack)
  OBVIOUS
<1>2. stack' = [stack EXCEPT ![1].read = stack[1].read + 1]
  BY DEF NextLine
<1>3. [stack[1] EXCEPT !.read = stack[1].read + 1] \in Frame
  BY <1>1 DEF Frame
<1>4. stack' = [stack EXCEPT ![1] = [stack[1] EXCEPT !.read = stack[1].read + 1]]
  BY <1>2
<1>5. QED
  BY <1>1, <1>3, <1>4

LEMMA LoadStep == LoadInv /\ [Next]_vars => LoadInv'
<1> SUFFICES ASSUME LoadInv, [Next]_vars PROVE LoadInv'
  OBVIOUS
<1>1. CASE Create
  <2>1. CASE table' = "live" /\ pc' = "open" /\ UNCHANGED <<stack, result>>
    BY <1>1, <2>1 DEF Create, LoadInv
  <2>2. CASE UNCHANGED table /\ ReturnFrom(<<>>, "NULL")
    <3>1. <<>> \in Seq(Frame) /\ open' = Len(<<>>) /\ opening' \in File
      BY <1>1 DEF Create, LoadInv
    <3>2. table' = "freed" => "NULL" # "geo"
      OBVIOUS
    <3>3. QED
      BY <2>2, <3>1, <3>2, ReturnKeeps
  <2>3. QED
    BY <1>1, <2>1, <2>2 DEF Create
<1>2. CASE Fopen
  <2> DEFINE new == <<[file |-> opening, read |-> 0]>>
  <2>1. new \in Seq(Frame) /\ Len(new) = 1
    BY DEF LoadInv, Frame
  <2>2. stack \in Seq(Frame) /\ open = Len(stack)
    BY <1>2 DEF Fopen, LoadInv
  <2>3. stack' = new \o stack
    BY <1>2 DEF Fopen
  <2> HIDE DEF new
  <2>4. stack' \in Seq(Frame) /\ Len(stack') = 1 + Len(stack)
    BY <2>1, <2>2, <2>3, ConcatProperties
  <2>5. stack' # <<>>
    BY <2>2, <2>4
  <2>6. QED
    BY <1>2, <2>2, <2>4, <2>5 DEF Fopen, LoadInv
<1>3. CASE FopenFails
  <2>1. stack \in Seq(Frame) /\ open' = Len(stack) /\ opening' \in File
    BY <1>3 DEF FopenFails, LoadInv
  <2>2. "NULL" # "geo"
    OBVIOUS
  <2>3. QED
    BY <1>3, <2>1, <2>2, ReturnKeeps DEF FopenFails
<1>4. CASE Skip \/ Apply \/ Include
  <2>1. /\ pc = "read" /\ NextLine /\ pc' \in {"read", "open"}
        /\ open' = open /\ table' = table /\ opening' \in File
    BY <1>4 DEF Skip, Apply, Include, Reading, LoadInv
  <2>2. stack' \in Seq(Frame) /\ Len(stack') = Len(stack)
    BY <2>1, NextLineKeeps DEF LoadInv
  <2>3. QED
    <3>1. stack # <<>> /\ stack' # <<>>
      BY <2>1, <2>2 DEF LoadInv
    <3>2. QED
      BY <2>1, <2>2, <3>1 DEF LoadInv
<1>5. CASE EndOfFile \/ ReadFails
  <2>0. /\ pc = "read" /\ Close /\ ReturnFrom(Tail(stack), "geo")
        /\ UNCHANGED <<table, opening>>
    BY <1>5 DEF EndOfFile, ReadFails
  <2>1. /\ Tail(stack) \in Seq(Frame) /\ open' = Len(Tail(stack))
        /\ opening' \in File
    BY <2>0, StackTop DEF Close, LoadInv
  <2>2. table' # "freed"
    BY <2>0 DEF LoadInv
  <2>3. QED
    BY <2>0, <2>1, <2>2, ReturnKeeps
<1>6. CASE Unload
  <2>0. pc \in {"read", "null"}
    BY <1>6 DEF Unload, Failed, Reading
  <2>1. /\ Tail(stack) \in Seq(Frame) /\ open' = Len(Tail(stack))
        /\ opening' \in File
    BY <1>6, <2>0, StackTop DEF Unload, Close, LoadInv
  <2>2. CASE ReturnFrom(Tail(stack), "NULL")
    <3>1. "NULL" # "geo"
      OBVIOUS
    <3>2. QED
      BY <2>1, <2>2, <3>1, ReturnKeeps
  <2>3. CASE pc' = "aborted" /\ UNCHANGED <<stack, result>>
    BY <1>6, <2>3 DEF Unload, LoadInv
  <2>4. QED
    BY <1>6, <2>2, <2>3 DEF Unload
<1>7. CASE Ended
  BY <1>7 DEF Ended, vars, LoadInv
<1>8. CASE UNCHANGED vars
  BY <1>8 DEF vars, LoadInv
<1>9. CASE InsertNeverReturns
  BY <1>9 DEF InsertNeverReturns, Reading, LoadInv
<1>10. QED
  BY <1>1, <1>2, <1>3, <1>4, <1>5, <1>6, <1>7, <1>8, <1>9 DEF Next, Load

\* The invariant holds in every state of loading.
THEOREM LoadInvariant == Spec => []LoadInv
<1>1. Init => LoadInv
  BY GeoLoadAssumption DEF Init, LoadInv
<1>2. QED
  BY <1>1, LoadStep, PTL DEF Spec

\* However the files include one another and wherever loading fails, no FILE is
\* left open when the outermost geo_load returns (geo.c: geo_load).
THEOREM NoFileStaysOpen == Spec => []FilesClosed
<1>1. LoadInv => FilesClosed
  BY DEF LoadInv, FilesClosed
<1>2. QED
  BY <1>1, LoadInvariant, PTL

\* Once the table has been unloaded the calls that are still on the stack all
\* fail: none carries out another line (geo.c: geo_load).
THEOREM NoLineAfterUnload == Spec => NothingAfterUnload
<1>1. LoadInv /\ [Next]_vars => [table = "freed" => applied' = applied]_vars
  <2> SUFFICES ASSUME LoadInv, [Next]_vars, table = "freed"
               PROVE  applied' = applied
    OBVIOUS
  <2>1. CASE Apply
    BY <2>1 DEF Apply, Reading, LoadInv
  <2>2. CASE Next /\ ~Apply
    BY <2>2 DEF Next, Load, Create, Fopen, FopenFails, Skip, Include, EndOfFile,
                InsertNeverReturns, ReadFails, Unload, Ended, vars
  <2>3. CASE UNCHANGED vars
    BY <2>3 DEF vars
  <2>4. QED
    BY <2>1, <2>2, <2>3
<1>2. QED
  BY <1>1, LoadInvariant, PTL DEF Spec, NothingAfterUnload

-----------------------------------------------------------------------------
(* The lines a file stands for.                                            *)

Place == File \X (Nat \ {0})

\* What each line of file f stands for in the contents c, when below is what the
\* files it includes stand for.
Pieces(c, below, f) ==
  [i \in DOMAIN c[f] |->
     CASE c[f][i] \in File -> below[c[f][i]]
       [] c[f][i] = "good" -> <<<<f, i>>>>
       [] OTHER -> <<>>]

\* What the files stand for with includes d deep.
Level(c, below, d) ==
  [f \in File |-> IF d = 0 \/ c[f] = Missing THEN <<>>
                  ELSE FlattenSeq(Pieces(c, below, f))]

AreLevels(g, n, c) == g = [d \in 0..n |-> Level(c, g[d - 1], d)]

Levels(c) == CHOOSE g : AreLevels(g, MaxOpen, c)

\* fl[i] is the first i of the sequences of s, one after the other.
AreSums(fl, s, n) ==
  /\ fl \in [0..n -> Seq(Place)]
  /\ fl[0] = <<>>
  /\ \A i \in 1..n : fl[i] = fl[i - 1] \o s[i]

Sums(s) == CHOOSE fl : AreSums(fl, s, Len(s))

LEMMA ExpansionIsLevel == Expansion = Levels(content)[MaxOpen]
BY DEF Expansion, Levels, AreLevels, Level, Pieces

LEMMA LeastNumber ==
  ASSUME NEW T, T \subseteq Nat, T # {}
  PROVE  \E x \in T : \A y \in T : x <= y
<1> DEFINE R == {ss \in Nat \X Nat : ss[1] < ss[2]}
<1>1. IsWellFoundedOn(R, Nat)
  BY NatLessThanWellFounded, Zenon DEF OpToRel
<1>2. PICK x \in T : \A y \in T : <<y, x>> \notin R
  <2> HIDE DEF R
  <2> QED  BY <1>1, WFMin
<1>3. \A y \in T : ~(y < x)
  BY <1>2
<1>4. QED
  BY <1>3

LEMMA SumsExist ==
  ASSUME NEW s \in Seq(Seq(Place))
  PROVE  AreSums(Sums(s), s, Len(s))
<1> DEFINE T == {n \in 0..Len(s) : ~\E fl : AreSums(fl, s, n)}
<1>1. ASSUME T # {} PROVE FALSE
  <2>1. PICK n \in T : \A m \in T : n <= m
    <3>1. T \subseteq Nat
      OBVIOUS
    <3> HIDE DEF T
    <3>2. QED
      BY <1>1, <3>1, LeastNumber
  <2>2. n \in 0..Len(s) /\ ~\E fl : AreSums(fl, s, n)
    BY <2>1
  <2>3. n # 0
    <3>1. AreSums([i \in 0..0 |-> <<>>], s, 0)
      BY DEF AreSums
    <3>2. QED
      BY <2>2, <3>1
  <2>4. PICK fl : AreSums(fl, s, n - 1)
    <3>1. n - 1 \in 0..Len(s) /\ ~(n <= n - 1)
      BY <2>2, <2>3
    <3>2. n - 1 \notin T
      BY <2>1, <3>1
    <3> QED
      BY <3>1, <3>2
  <2> DEFINE more == [i \in 0..n |-> IF i = n THEN fl[n - 1] \o s[n] ELSE fl[i]]
  <2>5. n \in Nat \ {0} /\ s[n] \in Seq(Place) /\ fl[n - 1] \in Seq(Place)
    BY <2>2, <2>3, <2>4 DEF AreSums
  <2>6. more \in [0..n -> Seq(Place)]
    <3>1. fl[n - 1] \o s[n] \in Seq(Place)
      BY <2>5
    <3>2. \A i \in 0..n : i # n => fl[i] \in Seq(Place)
      BY <2>4, <2>5 DEF AreSums
    <3>3. QED
      BY <3>1, <3>2
  <2>7. more[0] = <<>>
    BY <2>4, <2>5 DEF AreSums
  <2>8. \A i \in 1..n : more[i] = more[i - 1] \o s[i]
    <3>1. \A i \in 1..n : i # n => i \in 1..(n - 1) /\ i - 1 \in 0..n /\ i - 1 # n
      BY <2>5
    <3>2. n \in 0..n /\ n - 1 \in 0..n /\ n - 1 # n
      BY <2>5
    <3>3. \A i \in 1..(n - 1) : fl[i] = fl[i - 1] \o s[i]
      BY <2>4 DEF AreSums
    <3>4. ASSUME NEW i \in 1..n PROVE more[i] = more[i - 1] \o s[i]
      <4>1. i \in 0..n /\ i - 1 \in 0..n /\ i - 1 # n
        BY <2>5
      <4>2. more[i - 1] = fl[i - 1]
        BY <4>1
      <4>3. more[i] = IF i = n THEN fl[n - 1] \o s[n] ELSE fl[i]
        BY <4>1
      <4> HIDE DEF more
      <4>4. QED
        BY <3>1, <3>3, <4>2, <4>3
    <3>5. QED
      BY <3>4
  <2>9. AreSums(more, s, n)
    BY <2>6, <2>7, <2>8 DEF AreSums
  <2>10. QED
    BY <2>2, <2>9
<1>2. \E fl : AreSums(fl, s, Len(s))
  <2>1. Len(s) \in Nat
    OBVIOUS
  <2>2. QED
    BY <1>1, <2>1
<1>3. QED
  BY <1>2 DEF Sums

\* What FlattenSeq makes of the pieces is the last of the sums.
LEMMA FlattenIsSum ==
  ASSUME NEW s \in Seq(Seq(Place)), NEW fl, AreSums(fl, s, Len(s))
  PROVE  FlattenSeq(s) = fl[Len(s)]
<1> DEFINE n == Len(s)
           Made(h) == h = [i \in 1..n |-> IF i = 1 THEN s[i] ELSE h[i - 1] \o s[i]]
           g == [i \in 1..n |-> fl[i]]
<1>1. CASE n = 0
  BY <1>1 DEF AreSums, FlattenSeq
<1>2. CASE n # 0
  <2>1. n \in Nat \ {0}
    BY <1>2
  <2>2. FlattenSeq(s) = (CHOOSE h : Made(h))[n]
    BY <1>2 DEF FlattenSeq
  <2>3. Made(g)
    <3>1. \A i \in 1..n : s[i] \in Seq(Place)
      OBVIOUS
    <3>2. \A i \in 1..n : fl[i] = IF i = 1 THEN s[i] ELSE fl[i - 1] \o s[i]
      <4> SUFFICES ASSUME NEW i \in 1..n
                   PROVE  fl[i] = IF i = 1 THEN s[i] ELSE fl[i - 1] \o s[i]
        OBVIOUS
      <4>1. i = 1 => fl[i] = <<>> \o s[i]
        <5>1. fl[0] = <<>> /\ fl[i] = fl[i - 1] \o s[i]
          BY DEF AreSums
        <5>2. i = 1 => i - 1 = 0
          OBVIOUS
        <5>3. QED
          BY <5>1, <5>2
      <4>2. <<>> \o s[i] = s[i]
        BY <3>1
      <4>3. QED
        BY <4>1, <4>2 DEF AreSums
    <3>3. \A i \in 1..n : i # 1 => i - 1 \in 1..n
      BY <2>1
    <3> HIDE DEF n
    <3>4. QED
      BY <3>2, <3>3
  <2>4. ASSUME NEW h, Made(h) PROVE h = g
    <3> DEFINE T == {i \in 1..n : h[i] # g[i]}
    <3>1. ASSUME T # {} PROVE FALSE
      <4>1. PICK i \in T : \A j \in T : i <= j
        <5>1. T \subseteq Nat
          OBVIOUS
        <5> HIDE DEF T
        <5>2. QED
          BY <3>1, <5>1, LeastNumber
      <4>2. i \in 1..n /\ h[i] # g[i]
        BY <4>1
      <4>3. i # 1 => i - 1 \in 1..n /\ i - 1 \notin T
        BY <2>1, <4>1, <4>2
      <4>4. i # 1 => h[i - 1] = g[i - 1]
        BY <4>3
      <4>5. h[i] = IF i = 1 THEN s[i] ELSE h[i - 1] \o s[i]
        BY <2>4, <4>2
      <4>6. g[i] = IF i = 1 THEN s[i] ELSE g[i - 1] \o s[i]
        BY <2>3, <4>2
      <4>7. QED
        BY <4>2, <4>4, <4>5, <4>6
    <3>2. \A i \in 1..n : h[i] = g[i]
      BY <3>1
    <3>3. h = [i \in 1..n |-> h[i]]
      <4>1. h = [i \in 1..n |-> IF i = 1 THEN s[i] ELSE h[i - 1] \o s[i]]
        BY <2>4
      <4> DEFINE e(i) == IF i = 1 THEN s[i] ELSE h[i - 1] \o s[i]
      <4>2. h = [i \in 1..n |-> e(i)]
        BY <4>1
      <4> HIDE DEF e, n
      <4>3. QED
        BY <4>2
    <3>4. QED
      BY <3>2, <3>3
  <2> HIDE DEF Made
  <2>5. (CHOOSE h : Made(h)) = g
    BY <2>3, <2>4
  <2>6. g[n] = fl[n]
    BY <2>1
  <2>7. QED
    BY <2>2, <2>5, <2>6
<1>3. QED
  BY <1>1, <1>2

LEMMA LevelsExist ==
  ASSUME NEW c
  PROVE  AreLevels(Levels(c), MaxOpen, c)
<1> DEFINE T == {n \in Nat : ~\E g : AreLevels(g, n, c)}
<1>1. ASSUME T # {} PROVE FALSE
  <2>1. PICK n \in T : \A m \in T : n <= m
    <3>1. T \subseteq Nat
      OBVIOUS
    <3> HIDE DEF T
    <3>2. QED
      BY <1>1, <3>1, LeastNumber
  <2>2. n \in Nat /\ ~\E g : AreLevels(g, n, c)
    BY <2>1
  <2>3. n # 0
    <3> DEFINE g == [d \in 0..0 |-> Level(c, <<>>, 0)]
    <3>1. \A below : Level(c, below, 0) = Level(c, <<>>, 0)
      BY DEF Level
    <3>2. \A d \in 0..0 : Level(c, g[d - 1], d) = Level(c, <<>>, 0)
      BY <3>1
    <3>3. g = [d \in 0..0 |-> Level(c, g[d - 1], d)]
      BY <3>2
    <3>4. AreLevels(g, 0, c)
      BY <3>3 DEF AreLevels
    <3>5. QED
      BY <2>2, <3>4
  <2>4. PICK g : AreLevels(g, n - 1, c)
    <3>1. n - 1 \in Nat /\ ~(n <= n - 1)
      BY <2>2, <2>3
    <3>2. n - 1 \notin T
      BY <2>1, <3>1
    <3>3. QED
      BY <3>1, <3>2
  <2> DEFINE more == [d \in 0..n |-> IF d = n THEN Level(c, g[n - 1], n) ELSE g[d]]
  <2>5. ASSUME NEW d \in 0..n PROVE more[d] = Level(c, more[d - 1], d)
    <3>1. CASE d = 0
      <4>1. 0 \in 0..(n - 1) /\ 0 # n
        BY <2>2, <2>3
      <4>2. more[d] = Level(c, g[0 - 1], 0)
        BY <3>1, <4>1, <2>4 DEF AreLevels
      <4> HIDE DEF more
      <4>3. QED
        BY <3>1, <4>2 DEF Level
    <3>2. CASE d # 0
      <4>1. d - 1 \in 0..n /\ d - 1 # n /\ (d # n => d \in 0..(n - 1))
        BY <2>2, <3>2
      <4>2. more[d - 1] = g[d - 1]
        BY <4>1
      <4>3. more[d] = IF d = n THEN Level(c, g[n - 1], n) ELSE g[d]
        OBVIOUS
      <4>4. d # n => g[d] = Level(c, g[d - 1], d)
        BY <2>4, <4>1 DEF AreLevels
      <4> HIDE DEF more
      <4>5. QED
        BY <4>2, <4>3, <4>4
    <3>3. QED
      BY <3>1, <3>2
  <2>6. AreLevels(more, n, c)
    <3>1. more = [d \in 0..n |-> more[d]]
      OBVIOUS
    <3> HIDE DEF more
    <3>2. QED
      BY <2>5, <3>1 DEF AreLevels
  <2>7. QED
    BY <2>2, <2>6
<1>2. \E g : AreLevels(g, MaxOpen, c)
  BY <1>1, GeoLoadAssumption
<1>3. QED
  BY <1>2 DEF Levels

\* Contents as the files may have them.
Contents == [File -> Texts \cup {Missing}]

LEMMA Opened ==
  ASSUME NEW c \in Contents, NEW f \in File, c[f] # Missing
  PROVE  c[f] \in Seq(Line)
BY GeoLoadAssumption DEF Contents

LEMMA PiecesType ==
  ASSUME NEW c \in Contents, NEW f \in File, c[f] # Missing,
         NEW below \in [File -> Seq(Place)]
  PROVE  Pieces(c, below, f) \in Seq(Seq(Place)) /\ Len(Pieces(c, below, f)) = Len(c[f])
<1>1. c[f] \in Seq(Line) /\ DOMAIN c[f] = 1..Len(c[f]) /\ Len(c[f]) \in Nat
  BY Opened
<1>2. ASSUME NEW i \in 1..Len(c[f]) PROVE Pieces(c, below, f)[i] \in Seq(Place)
  <2>1. Pieces(c, below, f)[i] = CASE c[f][i] \in File -> below[c[f][i]]
                                   [] c[f][i] = "good" -> <<<<f, i>>>>
                                   [] OTHER -> <<>>
    BY <1>1 DEF Pieces
  <2>2. <<f, i>> \in Place
    BY <1>1 DEF Place
  <2>3. <<<<f, i>>>> \in Seq(Place) /\ <<>> \in Seq(Place)
    BY <2>2
  <2>4. c[f][i] \in File => below[c[f][i]] \in Seq(Place)
    OBVIOUS
  <2>5. QED
    BY <2>1, <2>3, <2>4
<1>3. Pieces(c, below, f) = [i \in 1..Len(c[f]) |-> Pieces(c, below, f)[i]]
  BY <1>1 DEF Pieces
<1> DEFINE s == [i \in 1..Len(c[f]) |-> Pieces(c, below, f)[i]]
<1>4. s \in Seq(Seq(Place)) /\ Len(s) = Len(c[f])
  BY <1>1, <1>2
<1>5. QED
  BY <1>3, <1>4

LEMMA LevelsType ==
  ASSUME NEW c \in Contents, NEW d \in 0..MaxOpen
  PROVE  Levels(c)[d] \in [File -> Seq(Place)]
<1> DEFINE T == {n \in 0..MaxOpen : Levels(c)[n] \notin [File -> Seq(Place)]}
<1>1. ASSUME T # {} PROVE FALSE
  <2>1. PICK n \in T : \A m \in T : n <= m
    <3>1. T \subseteq Nat
      OBVIOUS
    <3> HIDE DEF T
    <3>2. QED
      BY <1>1, <3>1, LeastNumber
  <2>2. n \in 0..MaxOpen /\ Levels(c)[n] \notin [File -> Seq(Place)]
    BY <2>1
  <2>3. n # 0 => Levels(c)[n - 1] \in [File -> Seq(Place)]
    <3>1. n # 0 => n - 1 \in 0..MaxOpen /\ ~(n <= n - 1)
      BY <2>2, GeoLoadAssumption
    <3>2. n # 0 => n - 1 \notin T
      BY <2>1, <3>1
    <3>3. QED
      BY <3>1, <3>2
  <2>4. Levels(c)[n] = Level(c, Levels(c)[n - 1], n)
    BY <2>2, LevelsExist DEF AreLevels
  <2>5. ASSUME NEW f \in File PROVE Level(c, Levels(c)[n - 1], n)[f] \in Seq(Place)
    <3> DEFINE s == Pieces(c, Levels(c)[n - 1], f)
    <3>1. CASE n = 0 \/ c[f] = Missing
      BY <3>1 DEF Level
    <3>2. CASE ~(n = 0 \/ c[f] = Missing)
      <4>1. s \in Seq(Seq(Place)) /\ Len(s) \in Nat
        BY <2>3, <3>2, PiecesType
      <4>2. Level(c, Levels(c)[n - 1], n)[f] = FlattenSeq(s)
        BY <3>2 DEF Level
      <4> HIDE DEF s
      <4>3. AreSums(Sums(s), s, Len(s))
        BY <4>1, SumsExist
      <4>4. FlattenSeq(s) = Sums(s)[Len(s)]
        BY <4>1, <4>3, FlattenIsSum
      <4>5. QED
        BY <4>1, <4>2, <4>3, <4>4 DEF AreSums
    <3>3. QED
      BY <3>1, <3>2
  <2>6. Level(c, Levels(c)[n - 1], n) = [f \in File |-> Level(c, Levels(c)[n - 1], n)[f]]
    BY DEF Level
  <2>7. QED
    BY <2>2, <2>4, <2>5, <2>6
<1>2. QED
  BY <1>1

\* What the first n lines of f stand for, with includes d deep.
Carried(c, d, f, n) == Sums(Pieces(c, Levels(c)[d - 1], f))[n]

\* What line n of f stands for there.
Worth(c, d, f, n) ==
  CASE c[f][n] \in File -> Levels(c)[d - 1][c[f][n]]
    [] c[f][n] = "good" -> <<<<f, n>>>>
    [] OTHER -> <<>>

\* None at the start, a line's own and its include's after it, and all at the end.
LEMMA CarriedLines ==
  ASSUME NEW c \in Contents, NEW d \in 1..MaxOpen, NEW f \in File, c[f] # Missing
  PROVE  /\ Len(c[f]) \in Nat
         /\ \A n \in 0..Len(c[f]) : Carried(c, d, f, n) \in Seq(Place)
         /\ Carried(c, d, f, 0) = <<>>
         /\ \A n \in 1..Len(c[f]) :
              Carried(c, d, f, n) = Carried(c, d, f, n - 1) \o Worth(c, d, f, n)
         /\ Carried(c, d, f, Len(c[f])) = Levels(c)[d][f]
<1> DEFINE s == Pieces(c, Levels(c)[d - 1], f)
<1>0. d \in 0..MaxOpen /\ d - 1 \in 0..MaxOpen /\ d # 0
  BY GeoLoadAssumption
<1>1. s \in Seq(Seq(Place)) /\ Len(s) = Len(c[f])
  BY <1>0, LevelsType, PiecesType
<1>2. c[f] \in Seq(Line) /\ DOMAIN c[f] = 1..Len(c[f]) /\ Len(c[f]) \in Nat
  BY Opened
<1>3. AreSums(Sums(s), s, Len(c[f]))
  <2> HIDE DEF s
  <2>1. QED
    BY <1>1, SumsExist
<1>4. \A n \in 1..Len(c[f]) : s[n] = Worth(c, d, f, n)
  BY <1>2 DEF Pieces, Worth
<1>5. Levels(c)[d][f] = Sums(s)[Len(c[f])]
  <2>1. Levels(c)[d] = Level(c, Levels(c)[d - 1], d)
    BY <1>0, LevelsExist DEF AreLevels
  <2>2. Levels(c)[d][f] = FlattenSeq(s)
    BY <1>0, <2>1 DEF Level
  <2> HIDE DEF s
  <2>3. QED
    BY <1>1, <1>3, <2>2, FlattenIsSum
<1>6. \A n : Carried(c, d, f, n) = Sums(s)[n]
  BY DEF Carried
<1> HIDE DEF s
<1>7. /\ Sums(s) \in [0..Len(c[f]) -> Seq(Place)]
      /\ Sums(s)[0] = <<>>
      /\ \A n \in 1..Len(c[f]) : Sums(s)[n] = Sums(s)[n - 1] \o s[n]
  BY <1>3 DEF AreSums
<1>8. \A n \in 0..Len(c[f]) : Carried(c, d, f, n) \in Seq(Place)
  BY <1>6, <1>7
<1>9. \A n \in 1..Len(c[f]) : Carried(c, d, f, n) = Carried(c, d, f, n - 1) \o s[n]
  BY <1>6, <1>7
<1>10. QED
  BY <1>2, <1>4, <1>5, <1>6, <1>7, <1>8, <1>9

-----------------------------------------------------------------------------
(* The whole of the files.                                                 *)

\* The lines of a running call that have been dealt with: the one that includes
\* a file that is still to be opened or being read is not.
LinesDone(i) == IF i = 1 /\ pc = "read" THEN stack[i].read ELSE stack[i].read - 1

\* How many includes deep what the file of a running call includes may go.
DepthLeft(i) == MaxOpen - (Len(stack) - i)

\* Who includes whom, from Main to the file to be opened.
Includes ==
  /\ stack = <<>> => pc = "open" /\ opening = Main
  /\ stack # <<>> => stack[Len(stack)].file = Main
  /\ \A i \in 1..Len(stack) :
       i # 1 \/ pc = "open" =>
         /\ stack[i].read # 0
         /\ content[stack[i].file][stack[i].read]
              = IF i = 1 THEN opening ELSE stack[i - 1].file

\* w[i] is what the call at i and those that wait for it have carried out.
Accounts(w) ==
  /\ w \in [1..(Len(stack) + 1) -> Seq(Place)]
  /\ w[Len(stack) + 1] = <<>>
  /\ w[1] = applied
  /\ \A i \in 1..Len(stack) :
       w[i] = w[i + 1] \o Carried(content, DepthLeft(i), stack[i].file, LinesDone(i))

\* As long as nothing has failed the table is there, and if no read has failed
\* either, exactly the lines that have been dealt with have been carried out; what
\* is returned in the end is the whole.
WholeInv ==
  /\ TypeOK
  /\ pc = "create" => applied = <<>> /\ opening = Main
  /\ pc \in {"open", "read"} => table = "live"
  /\ pc \in {"open", "read"} /\ ~cut => Includes /\ \E w : Accounts(w)
  /\ result = "geo" =>
       /\ pc = "done" /\ table = "live"
       /\ ~cut => applied = Levels(content)[MaxOpen][Main]

\* How the stack changes.
LEMMA Advanced ==
  ASSUME stack \in Seq(Frame), stack # <<>>, NextLine
  PROVE  /\ Len(stack') = Len(stack)
         /\ stack'[1].file = stack[1].file /\ stack'[1].read = stack[1].read + 1
         /\ \A i \in 2..Len(stack) : stack'[i] = stack[i]
<1>1. stack[1] \in Frame /\ 1 \in 1..Len(stack)
  OBVIOUS
<1> DEFINE new == [stack[1] EXCEPT !.read = stack[1].read + 1]
<1>2. stack' = [stack EXCEPT ![1] = new]
  BY DEF NextLine
<1>3. new.file = stack[1].file /\ new.read = stack[1].read + 1
  BY <1>1 DEF Frame
<1> HIDE DEF new
<1>4. Len(stack') = Len(stack) /\ stack'[1] = new
  BY <1>1, <1>2
<1>5. \A i \in 2..Len(stack) : stack'[i] = stack[i]
  BY <1>2
<1>6. QED
  BY <1>3, <1>4, <1>5

LEMMA Pushed ==
  ASSUME stack \in Seq(Frame), NEW new \in Frame, stack' = <<new>> \o stack
  PROVE  /\ Len(stack') = Len(stack) + 1
         /\ stack'[1] = new
         /\ \A i \in 2..(Len(stack) + 1) : stack'[i] = stack[i - 1]
<1>1. <<new>> \in Seq(Frame) /\ Len(<<new>>) = 1 /\ <<new>>[1] = new
  OBVIOUS
<1>2. Len(stack) \in Nat
  OBVIOUS
<1>3. QED
  BY <1>1, <1>2, ConcatProperties

LEMMA Popped ==
  ASSUME stack \in Seq(Frame), stack # <<>>, stack' = Tail(stack)
  PROVE  /\ Len(stack') = Len(stack) - 1
         /\ \A i \in 1..(Len(stack) - 1) : stack'[i] = stack[i + 1]
OBVIOUS

\* No step changes what is in the files.
LEMMA ContentStays == [Next]_vars => content' = content
BY DEF Next, Load, Create, Fopen, FopenFails, Skip, Apply, Include, EndOfFile,
       InsertNeverReturns, ReadFails, Unload, Ended, vars

LEMMA TypeStep == LoadInv /\ TypeOK /\ [Next]_vars => TypeOK'
<1> SUFFICES ASSUME LoadInv, TypeOK, [Next]_vars PROVE TypeOK'
  OBVIOUS
<1> DEFINE FramesOK == \A i \in DOMAIN stack :
             /\ stack[i].file \in File /\ content[stack[i].file] # Missing
             /\ stack[i].read \in 0..Len(content[stack[i].file])
<1>1. content' \in [File -> Texts \cup {Missing}] /\ content' = content
  BY ContentStays DEF TypeOK
<1>2. opening' \in File
  BY LoadStep DEF LoadInv
<1>3. /\ table' \in {"none", "live", "freed"}
      /\ pc' \in {"create", "open", "read", "null", "done", "aborted", "endless"}
      /\ result' \in {"none", "geo", "NULL"} /\ cut' \in BOOLEAN
  BY DEF Next, Load, Create, Fopen, FopenFails, Skip, Apply, Include, EndOfFile,
         InsertNeverReturns, ReadFails, Unload, Ended, vars, ReturnFrom, TypeOK
<1>4. open' \in 0..MaxOpen
  <2>1. CASE EndOfFile \/ ReadFails \/ Unload
    <3>1. pc \in {"read", "null"}
      BY <2>1 DEF EndOfFile, ReadFails, Unload, Failed, Reading
    <3>2. open = Len(stack) /\ stack # <<>> /\ stack \in Seq(Frame)
      BY <3>1 DEF LoadInv
    <3>3. open # 0
      BY <3>2
    <3>4. open' = open - 1
      BY <2>1 DEF EndOfFile, ReadFails, Unload, Close
    <3>5. QED
      BY <3>3, <3>4, GeoLoadAssumption DEF TypeOK
  <2>2. CASE Fopen
    BY <2>2, GeoLoadAssumption DEF Fopen, TypeOK
  <2>3. CASE open' = open
    BY <2>3 DEF TypeOK
  <2>4. QED
    BY <2>1, <2>2, <2>3 DEF Next, Load, Create, FopenFails, Skip, Apply, Include,
                            InsertNeverReturns, Ended, vars
<1>5. FramesOK'
  <2>0. FramesOK /\ stack \in Seq(Frame)
    BY DEF TypeOK, LoadInv
  <2>1. CASE stack' = stack
    BY <1>1, <2>0, <2>1
  <2>2. CASE stack' = <<>>
    BY <2>2
  <2>3. CASE Fopen
    <3> DEFINE new == [file |-> opening, read |-> 0]
    <3>1. new \in Frame /\ content[new.file] # Missing /\ new.file \in File
      BY <2>3 DEF Fopen, TypeOK, Frame
    <3>2. content[new.file] \in Seq(Line)
      BY <3>1, Opened DEF TypeOK, Contents
    <3>3. new.read \in 0..Len(content[new.file])
      BY <3>2
    <3>4. stack' = <<new>> \o stack
      BY <2>3 DEF Fopen
    <3> HIDE DEF new
    <3>5. /\ Len(stack') = Len(stack) + 1
          /\ stack'[1] = new
          /\ \A i \in 2..(Len(stack) + 1) : stack'[i] = stack[i - 1]
      BY <2>0, <3>1, <3>4, Pushed
    <3>6. DOMAIN stack = 1..Len(stack) /\ DOMAIN stack' = 1..(Len(stack) + 1)
      <4>1. <<new>> \o stack \in Seq(Frame)
        BY <2>0, <3>1
      <4>2. QED
        BY <2>0, <3>4, <3>5, <4>1
    <3>7. \A i \in DOMAIN stack' : i = 1 \/ (i \in 2..(Len(stack) + 1) /\ i - 1 \in DOMAIN stack)
      BY <2>0, <3>6
    <3>8. QED
      BY <1>1, <2>0, <3>1, <3>3, <3>5, <3>7
  <2>4. CASE (Skip \/ Apply \/ Include)
    <3>1. /\ pc = "read" /\ NextLine /\ stack # <<>>
          /\ stack[1].read < Len(content[stack[1].file])
      BY <2>4 DEF Skip, Apply, Include, Reading, Top, Text, LoadInv
    <3>2. /\ Len(stack') = Len(stack)
          /\ stack'[1].file = stack[1].file /\ stack'[1].read = stack[1].read + 1
          /\ \A i \in 2..Len(stack) : stack'[i] = stack[i]
      BY <2>0, <3>1, Advanced
    <3>3. stack' \in Seq(Frame)
      BY <2>0, <3>1, NextLineKeeps
    <3>4. DOMAIN stack = 1..Len(stack) /\ DOMAIN stack' = 1..Len(stack) /\ 1 \in DOMAIN stack
      BY <2>0, <3>1, <3>2, <3>3
    <3>5. content[stack[1].file] \in Seq(Line)
      BY <2>0, <3>4, Opened DEF TypeOK, Contents
    <3>6. stack'[1].read \in 0..Len(content[stack[1].file])
      BY <2>0, <3>1, <3>2, <3>4, <3>5
    <3>7. \A i \in DOMAIN stack' : i = 1 \/ i \in 2..Len(stack)
      BY <3>4
    <3>8. QED
      BY <1>1, <2>0, <3>2, <3>4, <3>6, <3>7
  <2>5. CASE stack' = Tail(stack) /\ stack # <<>>
    <3>1. /\ Len(stack') = Len(stack) - 1
          /\ \A i \in 1..(Len(stack) - 1) : stack'[i] = stack[i + 1]
      BY <2>0, <2>5, Popped
    <3>2. DOMAIN stack = 1..Len(stack) /\ DOMAIN stack' = 1..(Len(stack) - 1)
      BY <2>0, <2>5, <3>1
    <3>3. \A i \in DOMAIN stack' : i \in 1..(Len(stack) - 1) /\ i + 1 \in DOMAIN stack
      BY <2>0, <3>2
    <3>4. QED
      BY <1>1, <2>0, <3>1, <3>3
  <2>6. EndOfFile \/ ReadFails \/ Unload => stack # <<>>
    BY DEF EndOfFile, ReadFails, Unload, Failed, Reading, LoadInv
  <2>7. QED
    BY <2>1, <2>2, <2>3, <2>4, <2>5, <2>6
    DEF Next, Load, Create, FopenFails, InsertNeverReturns, EndOfFile, ReadFails,
        Unload, Ended, vars, ReturnFrom
<1>6. applied' \in Seq(File \X (Nat \ {0}))
  <2>1. CASE Apply
    <3>1. stack # <<>> /\ stack \in Seq(Frame) /\ 1 \in DOMAIN stack
      BY <2>1 DEF Apply, Reading, LoadInv
    <3>2. Top \in Frame
      BY <3>1, StackTop DEF Top
    <3> HIDE DEF Top
    <3>0. Top.file \in File /\ Top.read \in Nat
      BY <3>2 DEF Frame
    <3>3. <<Top.file, Top.read + 1>> \in File \X (Nat \ {0})
      BY <3>0
    <3>4. applied' = Append(applied, <<Top.file, Top.read + 1>>)
      BY <2>1 DEF Apply
    <3>5. applied \in Seq(File \X (Nat \ {0}))
      BY DEF TypeOK
    <3>6. QED
      BY <3>3, <3>4, <3>5
  <2>2. CASE ~Apply
    BY <2>2 DEF Next, Load, Create, Fopen, FopenFails, Skip, Include, EndOfFile,
                InsertNeverReturns, ReadFails, Unload, Ended, vars, TypeOK
  <2>3. QED
    BY <2>1, <2>2
<1>7. QED
  BY <1>1, <1>2, <1>3, <1>4, <1>5, <1>6 DEF TypeOK

\* What the accounts of a running call rest on.
LEMMA CallTypes ==
  ASSUME LoadInv, TypeOK, pc # "aborted", NEW i \in 1..Len(stack)
  PROVE  /\ content \in Contents
         /\ stack[i].file \in File /\ content[stack[i].file] # Missing
         /\ stack[i].read \in 0..Len(content[stack[i].file])
         /\ content[stack[i].file] \in Seq(Line)
         /\ Len(stack) \in Nat /\ DepthLeft(i) \in 1..MaxOpen
<1>1. i \in DOMAIN stack /\ Len(stack) \in Nat
  BY DEF LoadInv
<1>2. content \in Contents
  BY DEF TypeOK, Contents
<1>3. /\ stack[i].file \in File /\ content[stack[i].file] # Missing
      /\ stack[i].read \in 0..Len(content[stack[i].file])
  BY <1>1 DEF TypeOK
<1>4. content[stack[i].file] \in Seq(Line)
  BY <1>2, <1>3, Opened
<1>5. Len(stack) <= MaxOpen /\ MaxOpen \in Nat
  BY GeoLoadAssumption DEF LoadInv, TypeOK
<1>6. DepthLeft(i) \in 1..MaxOpen
  BY <1>1, <1>5 DEF DepthLeft
<1>7. QED
  BY <1>1, <1>2, <1>3, <1>4, <1>6

LEMMA Concats ==
  ASSUME NEW a \in Seq(Place), NEW b \in Seq(Place), NEW p \in Place
  PROVE  /\ a \o <<>> = a /\ <<>> \o a = a
         /\ a \o b \in Seq(Place)
         /\ Append(a \o b, p) = a \o (b \o <<p>>)
<1>1. a \o <<>> = a /\ <<>> \o a = a /\ a \o b \in Seq(Place) /\ <<p>> \in Seq(Place)
  OBVIOUS
<1>2. Append(a \o b, p) = (a \o b) \o <<p>>
  BY <1>1, AppendIsConcat
<1>3. (a \o b) \o <<p>> = a \o (b \o <<p>>)
  BY <1>1, ConcatAssociative
<1>4. QED
  BY <1>1, <1>2, <1>3

LEMMA PlacesAssociate ==
  ASSUME NEW a \in Seq(Place), NEW b \in Seq(Place), NEW c \in Seq(Place)
  PROVE  (a \o b) \o c = a \o (b \o c)
BY ConcatAssociative

\* A line of the file that is being read is dealt with.
LEMMA LineAccounted ==
  ASSUME LoadInv, TypeOK, Skip \/ Apply \/ Include, Includes, NEW w, Accounts(w)
  PROVE  Includes' /\ \E v : Accounts(v)'
<1> DEFINE k == Len(stack)
           f == stack[1].file
           n == stack[1].read + 1
           d == DepthLeft(1)
<1>1. /\ pc = "read" /\ NextLine /\ stack # <<>> /\ stack \in Seq(Frame)
      /\ Top = stack[1] /\ content' = content
  BY DEF Skip, Apply, Include, Reading, LoadInv, Top
<1>2. k \in Nat \ {0}
  BY <1>1
<1>3. /\ Len(stack') = k
      /\ stack'[1].file = f /\ stack'[1].read = n
      /\ \A i \in 2..k : stack'[i] = stack[i]
  BY <1>1, Advanced
<1>4. /\ content \in Contents /\ f \in File /\ content[f] # Missing
      /\ stack[1].read \in 0..Len(content[f]) /\ content[f] \in Seq(Line)
      /\ d \in 1..MaxOpen
  <2>1. 1 \in 1..k
    BY <1>2
  <2>2. QED
    BY <1>1, <2>1, CallTypes
<1>5. n \in 1..Len(content[f]) /\ n - 1 \in 0..Len(content[f]) /\ stack[1].read = n - 1
  <2>1. stack[1].read < Len(content[f])
    BY <1>1 DEF Skip, Apply, Include, Reading, Text
  <2>2. QED
    BY <1>4, <2>1
<1>6. /\ w \in [1..(k + 1) -> Seq(Place)]
      /\ w[k + 1] = <<>>
      /\ w[1] = applied
      /\ \A i \in 1..k :
           w[i] = w[i + 1] \o Carried(content, DepthLeft(i), stack[i].file, LinesDone(i))
  BY DEF Accounts
<1>7. /\ stack[k].file = Main
      /\ \A i \in 2..k : stack[i].read # 0
                       /\ content[stack[i].file][stack[i].read] = stack[i - 1].file
  <2>1. stack[k].file = Main
    BY <1>1 DEF Includes
  <2>2. ASSUME NEW i \in 2..k PROVE i \in 1..k /\ i # 1
    BY <1>2
  <2>3. QED
    BY <2>1, <2>2 DEF Includes
<1>8. /\ LinesDone(1) = n - 1
      /\ LinesDone(1)' = IF pc' = "read" THEN n ELSE n - 1
      /\ DepthLeft(1)' = d
      /\ \A i \in 2..k : LinesDone(i)' = LinesDone(i) /\ DepthLeft(i)' = DepthLeft(i)
  <2>1. LinesDone(1) = n - 1 /\ LinesDone(1)' = IF pc' = "read" THEN n ELSE n - 1
    BY <1>1, <1>3, <1>5 DEF LinesDone
  <2>2. \A i : DepthLeft(i)' = DepthLeft(i)
    BY <1>3 DEF DepthLeft
  <2>3. ASSUME NEW i \in 2..k PROVE LinesDone(i)' = LinesDone(i)
    <3>1. i # 1 /\ stack'[i] = stack[i]
      BY <1>2, <1>3
    <3>2. QED
      BY <3>1 DEF LinesDone
  <2>4. QED
    BY <2>1, <2>2, <2>3
<1>9. /\ Skip => content[f][n] = "blank" /\ pc' = "read" /\ applied' = applied
      /\ Apply => content[f][n] = "good" /\ pc' = "read" /\ applied' = Append(applied, <<f, n>>)
      /\ Include => content[f][n] = opening' /\ pc' = "open" /\ applied' = applied
  BY <1>1 DEF Skip, Apply, Include, Reading, Text
<1> DEFINE c == Carried(content, d, f, n - 1)
           more == Worth(content, d, f, n)
<1> HIDE DEF k, f, n, d
<1>10. c \in Seq(Place) /\ Carried(content, d, f, n) = c \o more
  BY <1>4, <1>5, CarriedLines
<1>11. <<f, n>> \in Place
  BY <1>4, <1>5 DEF Place
<1>12. w[2] \in Seq(Place) /\ applied = w[2] \o c
  <2>1. 1 \in 1..k /\ 2 \in 1..(k + 1)
    BY <1>2
  <2>2. w[1] = w[1 + 1] \o Carried(content, DepthLeft(1), stack[1].file, LinesDone(1))
    BY <1>6, <2>1
  <2>3. 1 + 1 = 2
    OBVIOUS
  <2>4. QED
    BY <1>6, <1>8, <2>1, <2>2, <2>3 DEF d, f
<1>13. /\ applied' = w[2] \o Carried(content, d, f, LinesDone(1)')
       /\ applied' \in Seq(Place)
  <2> HIDE DEF c
  <2>1. CASE Skip
    <3>1. more = <<>>
      BY <1>9, <2>1, GeoLoadAssumption DEF Kinds, Worth
    <3> HIDE DEF more
    <3>2. c \o more = c /\ w[2] \o c \in Seq(Place)
      BY <1>10, <1>11, <1>12, <3>1, Concats
    <3>3. QED
      BY <1>8, <1>9, <1>10, <1>12, <2>1, <3>2
  <2>2. CASE Apply
    <3>1. more = <<<<f, n>>>>
      BY <1>9, <2>2, GeoLoadAssumption DEF Kinds, Worth
    <3> HIDE DEF more
    <3> DEFINE p == <<f, n>>
    <3>2. p \in Place /\ more = <<p>>
      BY <1>11, <3>1
    <3>3. applied' = Append(applied, p)
      BY <1>9, <2>2
    <3> HIDE DEF p
    <3>4. Append(w[2] \o c, p) = w[2] \o (c \o <<p>>) /\ w[2] \o c \in Seq(Place)
      BY <1>10, <1>12, <3>2, Concats
    <3>5. Append(w[2] \o c, p) \in Seq(Place)
      BY <3>2, <3>4
    <3>6. QED
      BY <1>8, <1>9, <1>10, <1>12, <2>2, <3>2, <3>3, <3>4, <3>5
  <2>3. CASE Include
    <3>1. w[2] \o c \in Seq(Place)
      BY <1>10, <1>12
    <3>2. QED
      BY <1>8, <1>9, <1>12, <2>3, <3>1 DEF c
  <2>4. QED
    BY <2>1, <2>2, <2>3
<1>14. Includes'
  <2>1. stack' # <<>> /\ stack'[k].file = Main
    <3>1. k = 1 \/ k \in 2..k
      BY <1>2
    <3>2. Len(stack') # 0
      BY <1>2, <1>3
    <3>3. k = 1 => stack'[k].file = stack[k].file
      BY <1>3 DEF f
    <3>4. QED
      BY <1>3, <1>7, <3>1, <3>2, <3>3
  <2>2. ASSUME NEW i \in 2..k
        PROVE  /\ stack'[i].read # 0
               /\ content[stack'[i].file][stack'[i].read] = stack'[i - 1].file
    <3>1. i - 1 = 1 \/ i - 1 \in 2..k
      BY <1>2
    <3>2. stack'[i - 1].file = stack[i - 1].file
      BY <1>3, <3>1 DEF f
    <3>3. QED
      BY <1>3, <1>7, <3>2
  <2>3. pc' = "open" => stack'[1].read # 0 /\ content[f][n] = opening'
    BY <1>3, <1>5, <1>9
  <2>4. ASSUME NEW i \in 1..Len(stack'), i # 1 \/ pc' = "open"
        PROVE  /\ stack'[i].read # 0
               /\ content'[stack'[i].file][stack'[i].read]
                    = IF i = 1 THEN opening' ELSE stack'[i - 1].file
    <3>1. CASE i = 1
      BY <1>1, <1>3, <2>3, <2>4, <3>1
    <3>2. CASE i # 1
      <4>1. i \in 2..k
        BY <1>2, <1>3, <3>2
      <4>2. QED
        BY <1>1, <2>2, <3>2, <4>1
    <3>3. QED
      BY <3>1, <3>2
  <2>5. QED
    BY <1>3, <2>1, <2>4 DEF Includes
<1>15. PICK v : v = [w EXCEPT ![1] = applied']
  OBVIOUS
<1>16. Accounts(v)'
  <2>1. v \in [1..(k + 1) -> Seq(Place)] /\ v[1] = applied'
    <3>1. 1 \in 1..(k + 1)
      BY <1>2
    <3>2. QED
      BY <1>6, <1>13, <1>15, <3>1
  <2>2. \A i \in 2..(k + 1) : v[i] = w[i]
    <3>1. \A i \in 2..(k + 1) : i \in 1..(k + 1) /\ i # 1
      BY <1>2
    <3>2. QED
      BY <1>6, <1>15, <3>1
  <2>3. v[k + 1] = <<>>
    <3>1. k + 1 \in 2..(k + 1)
      BY <1>2
    <3>2. QED
      BY <1>6, <2>2, <3>1
  <2>4. ASSUME NEW i \in 1..Len(stack')
        PROVE  v[i] = v[i + 1] \o Carried(content', DepthLeft(i)', stack'[i].file, LinesDone(i)')
    <3>1. CASE i = 1
      <4>1. 1 + 1 = 2 /\ 2 \in 2..(k + 1)
        BY <1>2
      <4>2. v[i + 1] = w[2]
        BY <2>2, <3>1, <4>1
      <4>3. QED
        BY <1>1, <1>3, <1>8, <1>13, <2>1, <3>1, <4>2
    <3>2. CASE i # 1
      <4>1. i \in 2..k /\ i \in 1..k /\ i \in 2..(k + 1) /\ i + 1 \in 2..(k + 1)
        BY <1>2, <1>3, <3>2
      <4>2. QED
        BY <1>1, <1>3, <1>6, <1>8, <2>2, <4>1
    <3>3. QED
      BY <3>1, <3>2
  <2>5. QED
    BY <1>3, <2>1, <2>3, <2>4 DEF Accounts
<1>17. QED
  BY <1>14, <1>16

\* A file is opened: none of its lines have been dealt with.
LEMMA OpeningAccounted ==
  ASSUME LoadInv, TypeOK, Fopen, Includes, NEW w, Accounts(w)
  PROVE  Includes' /\ \E v : Accounts(v)'
<1> DEFINE k == Len(stack)
           new == [file |-> opening, read |-> 0]
           d == MaxOpen - k
<1>1. /\ pc = "open" /\ pc' = "read" /\ stack \in Seq(Frame) /\ stack' = <<new>> \o stack
      /\ content' = content /\ applied' = applied
      /\ content \in Contents /\ opening \in File /\ content[opening] # Missing
  BY DEF Fopen, LoadInv, TypeOK, Contents
<1>2. k \in Nat /\ d \in 1..MaxOpen
  <2>1. open = k /\ open < MaxOpen /\ k \in Nat
    BY <1>1 DEF LoadInv, Fopen
  <2>2. QED
    BY <2>1, GeoLoadAssumption
<1>3. new \in Frame /\ new.file = opening /\ new.read = 0
  BY <1>1 DEF Frame
<1> HIDE DEF new
<1>4. /\ Len(stack') = k + 1
      /\ stack'[1] = new
      /\ \A i \in 2..(k + 1) : stack'[i] = stack[i - 1]
  BY <1>1, <1>3, Pushed
<1>5. /\ w \in [1..(k + 1) -> Seq(Place)]
      /\ w[k + 1] = <<>>
      /\ w[1] = applied
      /\ \A i \in 1..k :
           w[i] = w[i + 1] \o Carried(content, DepthLeft(i), stack[i].file, LinesDone(i))
  BY DEF Accounts
<1>6. /\ k = 0 => opening = Main
      /\ k # 0 => stack[k].file = Main
      /\ \A i \in 1..k :
           /\ stack[i].read # 0
           /\ content[stack[i].file][stack[i].read]
                = IF i = 1 THEN opening ELSE stack[i - 1].file
  <2>1. k = 0 <=> stack = <<>>
    BY <1>1
  <2>2. QED
    BY <1>1, <2>1 DEF Includes
<1>7. /\ LinesDone(1)' = 0 /\ DepthLeft(1)' = d
      /\ \A i \in 2..(k + 1) :
           LinesDone(i)' = LinesDone(i - 1) /\ DepthLeft(i)' = DepthLeft(i - 1)
  <2>1. LinesDone(1)' = 0
    BY <1>1, <1>3, <1>4 DEF LinesDone
  <2>2. DepthLeft(1)' = d
    BY <1>2, <1>4, GeoLoadAssumption DEF DepthLeft
  <2>3. ASSUME NEW i \in 2..(k + 1)
        PROVE  LinesDone(i)' = LinesDone(i - 1) /\ DepthLeft(i)' = DepthLeft(i - 1)
    <3>1. LinesDone(i)' = stack[i - 1].read - 1 /\ LinesDone(i - 1) = stack[i - 1].read - 1
      <4>1. i # 1
        BY <1>2
      <4>2. QED
        BY <1>1, <1>4, <4>1 DEF LinesDone
    <3>2. k + 1 - i = k - (i - 1)
      BY <1>2
    <3>3. DepthLeft(i)' = MaxOpen - (k + 1 - i) /\ DepthLeft(i - 1) = MaxOpen - (k - (i - 1))
      BY <1>4 DEF DepthLeft
    <3>4. QED
      BY <3>1, <3>2, <3>3
  <2>4. QED
    BY <2>1, <2>2, <2>3
<1> HIDE DEF k, d
<1>8. \A i \in 2..(k + 1) : i # 1 /\ i - 1 \in 1..k /\ i \in 1..(k + 1) /\ (i - 1) + 1 = i
  BY <1>2
<1>9. Includes'
  <2>1. stack' # <<>> /\ stack'[k + 1].file = Main
    <3>1. Len(stack') # 0
      BY <1>2, <1>4
    <3>2. k = 0 => stack'[k + 1].file = opening
      BY <1>3, <1>4
    <3>3. k # 0 => k + 1 \in 2..(k + 1) /\ (k + 1) - 1 = k
      BY <1>2
    <3>4. k # 0 => stack'[k + 1] = stack[k]
      BY <1>4, <3>3
    <3>5. QED
      BY <1>6, <3>1, <3>2, <3>4
  <2>2. ASSUME NEW i \in 1..(k + 1), i # 1
        PROVE  /\ stack'[i].read # 0
               /\ content[stack'[i].file][stack'[i].read] = stack'[i - 1].file
    <3>1. i \in 2..(k + 1)
      BY <1>2, <2>2
    <3>2. i - 1 = 1 => stack'[i - 1].file = opening
      BY <1>3, <1>4
    <3>3. i - 1 # 1 => stack'[i - 1] = stack[(i - 1) - 1]
      <4>1. i - 1 # 1 => i - 1 \in 2..(k + 1)
        BY <1>2, <3>1
      <4>2. QED
        BY <1>4, <4>1
    <3>4. QED
      BY <1>4, <1>6, <1>8, <3>1, <3>2, <3>3
  <2>3. QED
    BY <1>1, <1>4, <2>1, <2>2 DEF Includes
<1>10. PICK v : v = [i \in 1..(k + 2) |-> IF i = 1 THEN w[1] ELSE w[i - 1]]
  OBVIOUS
<1>11. Accounts(v)'
  <2>1. v[1] = applied /\ \A i \in 2..(k + 2) : v[i] = w[i - 1]
    <3>1. 1 \in 1..(k + 2) /\ \A i \in 2..(k + 2) : i \in 1..(k + 2) /\ i # 1
      BY <1>2
    <3>2. QED
      BY <1>5, <1>10, <3>1
  <2>2. v \in [1..(k + 2) -> Seq(Place)]
    <3>1. \A i \in 1..(k + 2) : i = 1 \/ i - 1 \in 1..(k + 1)
      BY <1>2
    <3>2. w[1] \in Seq(Place)
      <4>1. 1 \in 1..(k + 1)
        BY <1>2
      <4>2. QED
        BY <1>5, <4>1
    <3>3. \A i \in 1..(k + 2) : (IF i = 1 THEN w[1] ELSE w[i - 1]) \in Seq(Place)
      BY <1>5, <3>1, <3>2
    <3>4. QED
      BY <1>10, <3>3
  <2>3. v[k + 2] = <<>> /\ v[2] = applied /\ applied \in Seq(Place)
    <3>1. k + 2 \in 2..(k + 2) /\ 2 \in 2..(k + 2) /\ (k + 2) - 1 = k + 1 /\ 2 - 1 = 1 /\ 1 \in 1..(k + 1)
      BY <1>2
    <3>2. QED
      BY <1>5, <2>1, <3>1
  <2>4. ASSUME NEW i \in 1..(k + 1)
        PROVE  v[i] = v[i + 1] \o Carried(content', DepthLeft(i)', stack'[i].file, LinesDone(i)')
    <3>1. CASE i = 1
      <4>1. Carried(content, d, opening, 0) = <<>>
        BY <1>1, <1>2, CarriedLines
      <4>2. applied \o <<>> = applied
        BY <2>3
      <4>3. v[1 + 1] = applied
        BY <2>3
      <4>4. QED
        BY <1>1, <1>3, <1>4, <1>7, <2>1, <3>1, <4>1, <4>2, <4>3
    <3>2. CASE i # 1
      <4>1. i \in 2..(k + 1) /\ i \in 2..(k + 2) /\ i + 1 \in 2..(k + 2) /\ (i + 1) - 1 = i
        BY <1>2, <3>2
      <4>2. v[i] = w[i - 1] /\ v[i + 1] = w[i]
        BY <2>1, <4>1
      <4>3. w[i - 1] = w[i] \o Carried(content, DepthLeft(i - 1), stack[i - 1].file, LinesDone(i - 1))
        BY <1>5, <1>8, <4>1
      <4>4. QED
        BY <1>1, <1>4, <1>7, <4>1, <4>2, <4>3
    <3>3. QED
      BY <3>1, <3>2
  <2>5. Len(stack') + 1 = k + 2
    BY <1>2, <1>4
  <2>6. QED
    BY <1>1, <1>4, <2>1, <2>2, <2>3, <2>4, <2>5 DEF Accounts
<1>12. QED
  BY <1>9, <1>11

\* A file has been read: the call that waits for it has dealt with its line, or all
\* of Main has been carried out.
LEMMA ReturnAccounted ==
  ASSUME LoadInv, TypeOK, EndOfFile, Includes, NEW w, Accounts(w)
  PROVE  /\ stack' = <<>> => applied' = Levels(content')[MaxOpen][Main]
         /\ stack' # <<>> => Includes' /\ \E v : Accounts(v)'
<1> DEFINE k == Len(stack)
           f == stack[1].file
           d == DepthLeft(1)
<1>1. /\ pc = "read" /\ stack \in Seq(Frame) /\ stack # <<>> /\ stack' = Tail(stack)
      /\ content' = content /\ applied' = applied /\ Top = stack[1]
      /\ pc' = IF stack' = <<>> THEN "done" ELSE "read"
  BY DEF EndOfFile, LoadInv, ReturnFrom, Top
<1>2. k \in Nat \ {0} /\ 1 \in 1..k
  BY <1>1
<1>3. /\ content \in Contents /\ f \in File /\ content[f] # Missing
      /\ d \in 1..MaxOpen /\ stack[1].read = Len(content[f])
  <2>1. stack[1].read = Len(content[f])
    BY <1>1 DEF EndOfFile, Text
  <2>2. QED
    BY <1>1, <1>2, <2>1, CallTypes
<1>4. /\ w \in [1..(k + 1) -> Seq(Place)]
      /\ w[k + 1] = <<>>
      /\ w[1] = applied
      /\ \A i \in 1..k :
           w[i] = w[i + 1] \o Carried(content, DepthLeft(i), stack[i].file, LinesDone(i))
  BY DEF Accounts
<1>5. /\ stack[k].file = Main
      /\ \A i \in 2..k : stack[i].read # 0
                       /\ content[stack[i].file][stack[i].read] = stack[i - 1].file
  <2>1. \A i \in 2..k : i \in 1..k /\ i # 1
    BY <1>2
  <2>2. QED
    BY <1>1, <2>1 DEF Includes
<1>6. /\ Len(stack') = k - 1 /\ (k = 1 <=> stack' = <<>>)
      /\ \A i \in 1..(k - 1) : stack'[i] = stack[i + 1]
  <2>1. Len(stack') = k - 1 /\ \A i \in 1..(k - 1) : stack'[i] = stack[i + 1]
    BY <1>1, Popped
  <2>2. stack' \in Seq(Frame)
    BY <1>1
  <2>3. k = 1 <=> stack' = <<>>
    BY <1>2, <2>1, <2>2
  <2>4. QED
    BY <2>1, <2>3
<1>7. w[2] \in Seq(Place) /\ applied = w[2] \o Levels(content)[d][f]
  <2>1. LinesDone(1) = Len(content[f])
    BY <1>1, <1>3 DEF LinesDone
  <2>2. w[1] = w[1 + 1] \o Carried(content, d, f, Len(content[f]))
    BY <1>2, <1>4, <2>1
  <2>3. Carried(content, d, f, Len(content[f])) = Levels(content)[d][f]
    BY <1>3, CarriedLines
  <2>4. 2 \in 1..(k + 1) /\ 1 + 1 = 2
    BY <1>2
  <2>5. QED
    BY <1>4, <2>2, <2>3, <2>4
<1>8. Levels(content)[d][f] \in Seq(Place)
  <2>1. d \in 0..MaxOpen
    BY <1>3
  <2>2. QED
    BY <1>3, <2>1, LevelsType
<1>9. ASSUME k = 1 PROVE applied' = Levels(content')[MaxOpen][Main]
  <2>1. d = MaxOpen
    BY <1>9, GeoLoadAssumption DEF DepthLeft
  <2>2. w[2] = <<>> /\ f = Main
    BY <1>4, <1>5, <1>9
  <2>3. <<>> \o Levels(content)[d][f] = Levels(content)[d][f]
    BY <1>8
  <2>4. QED
    BY <1>1, <1>7, <2>1, <2>2, <2>3
<1>10. ASSUME k # 1 PROVE Includes' /\ \E v : Accounts(v)'
  <2> DEFINE f2 == stack[2].file
             n  == stack[2].read
             d2 == DepthLeft(2)
             c  == Carried(content, d2, f2, n - 1)
  <2>1. 2 \in 1..k /\ 2 \in 2..k /\ k - 1 \in 1..k /\ k - 1 \in Nat \ {0} /\ pc' = "read"
    BY <1>1, <1>2, <1>6, <1>10
  <2>2. /\ f2 \in File /\ content[f2] # Missing /\ d2 \in 1..MaxOpen
        /\ n \in 1..Len(content[f2]) /\ n - 1 \in 0..Len(content[f2])
        /\ content[f2][n] = f
    <3>1. /\ f2 \in File /\ content[f2] # Missing /\ d2 \in 1..MaxOpen
          /\ n \in 0..Len(content[f2]) /\ content[f2] \in Seq(Line)
      BY <1>1, <2>1, CallTypes
    <3>2. n # 0 /\ content[f2][n] = f
      <4>1. 2 - 1 = 1
        OBVIOUS
      <4>2. QED
        BY <1>5, <2>1, <4>1
    <3> HIDE DEF n, f2, d2
    <3>3. QED
      BY <3>1, <3>2
  <2>3. d2 - 1 = d /\ \A i \in 1..(k - 1) : DepthLeft(i)' = DepthLeft(i + 1)
    <3>1. d2 - 1 = d
      BY <1>2, GeoLoadAssumption DEF DepthLeft
    <3>2. ASSUME NEW i \in 1..(k - 1) PROVE DepthLeft(i)' = DepthLeft(i + 1)
      <4>1. DepthLeft(i)' = MaxOpen - ((k - 1) - i) /\ DepthLeft(i + 1) = MaxOpen - (k - (i + 1))
        BY <1>6 DEF DepthLeft
      <4>2. (k - 1) - i = k - (i + 1)
        BY <1>2
      <4>3. QED
        BY <4>1, <4>2
    <3>3. QED
      BY <3>1, <3>2
  <2>4. /\ LinesDone(2) = n - 1 /\ LinesDone(1)' = n
        /\ \A i \in 2..(k - 1) : LinesDone(i)' = LinesDone(i + 1)
    <3>1. LinesDone(2) = n - 1
      BY DEF LinesDone
    <3>2. LinesDone(1)' = n
      <4>1. stack'[1] = stack[1 + 1] /\ 1 + 1 = 2
        BY <1>6, <2>1
      <4>2. QED
        BY <2>1, <4>1 DEF LinesDone
    <3>3. ASSUME NEW i \in 2..(k - 1) PROVE LinesDone(i)' = LinesDone(i + 1)
      <4>1. i \in 1..(k - 1) /\ i # 1 /\ i + 1 # 1
        BY <1>2
      <4>2. LinesDone(i)' = stack[i + 1].read - 1
        BY <1>6, <4>1 DEF LinesDone
      <4>3. LinesDone(i + 1) = stack[i + 1].read - 1
        BY <4>1 DEF LinesDone
      <4>4. QED
        BY <4>2, <4>3
    <3>4. QED
      BY <3>1, <3>2, <3>3
  <2>5. w[2] = w[3] \o c
    <3>1. w[2] = w[2 + 1] \o Carried(content, DepthLeft(2), stack[2].file, LinesDone(2))
      BY <1>4, <2>1
    <3>2. 2 + 1 = 3
      OBVIOUS
    <3>3. QED
      BY <2>4, <3>1, <3>2
  <2> HIDE DEF n, f2, d2, k, f, d
  <2>6. c \in Seq(Place) /\ Carried(content, d2, f2, n) = c \o Levels(content)[d][f]
    <3>1. Worth(content, d2, f2, n) = Levels(content)[d][f]
      <4>1. content[f2][n] \in File
        BY <1>3, <2>2
      <4>2. Worth(content, d2, f2, n) = Levels(content)[d2 - 1][content[f2][n]]
        BY <4>1, GeoLoadAssumption DEF Worth, Kinds
      <4>3. QED
        BY <2>2, <2>3, <4>2
    <3>2. c \in Seq(Place) /\ Carried(content, d2, f2, n) = c \o Worth(content, d2, f2, n)
      BY <1>3, <2>2, CarriedLines
    <3>3. QED
      BY <3>1, <3>2
  <2> HIDE DEF c
  <2>7. applied = w[3] \o Carried(content, d2, f2, n)
    <3>1. w[3] \in Seq(Place)
      <4>1. 3 \in 1..(k + 1)
        BY <1>2, <1>10
      <4>2. QED
        BY <1>4, <4>1
    <3> DEFINE e == Levels(content)[d][f]
    <3>2. (w[3] \o c) \o e = w[3] \o (c \o e)
      <4>1. e \in Seq(Place)
        BY <1>8
      <4> HIDE DEF e
      <4>2. QED
        BY <2>6, <3>1, <4>1, PlacesAssociate
    <3>3. QED
      BY <1>7, <2>5, <2>6, <3>2
  <2>8. Includes'
    <3>1. stack'[k - 1].file = Main
      <4>1. k - 1 \in 1..(k - 1) /\ (k - 1) + 1 = k
        BY <1>2, <2>1
      <4>2. QED
        BY <1>5, <1>6, <4>1
    <3>2. ASSUME NEW i \in 1..(k - 1), i # 1
          PROVE  /\ stack'[i].read # 0
                 /\ content[stack'[i].file][stack'[i].read] = stack'[i - 1].file
      <4>1. i + 1 \in 2..k /\ i - 1 \in 1..(k - 1) /\ (i - 1) + 1 = i /\ (i + 1) - 1 = i
        BY <1>2, <3>2
      <4>2. stack'[i] = stack[i + 1] /\ stack'[i - 1] = stack[i]
        BY <1>6, <4>1
      <4>3. QED
        BY <1>5, <4>1, <4>2
    <3>3. stack' # <<>>
      BY <1>6, <1>10
    <3>4. QED
      BY <1>1, <1>6, <2>1, <3>1, <3>2, <3>3 DEF Includes
  <2>9. PICK v : v = [i \in 1..k |-> IF i = 1 THEN w[1] ELSE w[i + 1]]
    OBVIOUS
  <2>10. v[1] = applied /\ \A i \in 2..k : v[i] = w[i + 1]
    <3>1. \A i \in 2..k : i \in 1..k /\ i # 1
      BY <1>2
    <3>2. QED
      BY <1>2, <1>4, <2>9, <3>1
  <2>11. v \in [1..k -> Seq(Place)]
    <3>1. \A i \in 1..k : i \in 1..(k + 1) /\ i + 1 \in 1..(k + 1)
      BY <1>2
    <3>2. \A i \in 1..k : (IF i = 1 THEN w[1] ELSE w[i + 1]) \in Seq(Place)
      BY <1>4, <3>1
    <3>3. QED
      BY <2>9, <3>2
  <2>12. v[k] = <<>>
    <3>1. k \in 2..k
      BY <1>2, <1>10
    <3>2. QED
      BY <1>4, <2>10, <3>1
  <2>13. ASSUME NEW i \in 1..(k - 1)
         PROVE  v[i] = v[i + 1] \o Carried(content', DepthLeft(i)', stack'[i].file, LinesDone(i)')
    <3>1. CASE i = 1
      <4>1. v[1 + 1] = w[3] /\ stack'[1] = stack[2] /\ DepthLeft(1)' = d2
        <5>1. 1 + 1 = 2 /\ 2 + 1 = 3 /\ 1 \in 1..(k - 1)
          BY <2>1, <3>1
        <5>2. QED
          BY <1>6, <2>1, <2>3, <2>10, <5>1 DEF d2
      <4>2. QED
        BY <1>1, <2>4, <2>7, <2>10, <3>1, <4>1 DEF f2
    <3>2. CASE i # 1
      <4>1. /\ i \in 2..(k - 1) /\ i \in 2..k /\ i + 1 \in 2..k /\ i + 1 \in 1..k
        BY <1>2, <3>2
      <4>2. v[i] = w[i + 1] /\ v[i + 1] = w[(i + 1) + 1]
        BY <2>10, <4>1
      <4>3. w[i + 1] = w[(i + 1) + 1]
              \o Carried(content, DepthLeft(i + 1), stack[i + 1].file, LinesDone(i + 1))
        BY <1>4, <4>1
      <4>4. QED
        BY <1>1, <1>6, <2>3, <2>4, <4>1, <4>2, <4>3
    <3>3. QED
      BY <3>1, <3>2
  <2>14. Accounts(v)'
    <3>1. Len(stack') + 1 = k
      BY <1>2, <1>6
    <3>2. QED
      BY <1>1, <1>6, <2>10, <2>11, <2>12, <2>13, <3>1 DEF Accounts
  <2>15. QED
    BY <2>8, <2>14
<1>11. QED
  BY <1>6, <1>9, <1>10

LEMMA WholeStep == LoadInv /\ WholeInv /\ [Next]_vars => WholeInv'
<1> SUFFICES ASSUME LoadInv, WholeInv, [Next]_vars PROVE WholeInv'
  OBVIOUS
<1>0. TypeOK /\ TypeOK' /\ content' = content
  BY TypeStep, ContentStays DEF WholeInv
<1>1. CASE Create
  <2>1. CASE table' = "live" /\ pc' = "open" /\ UNCHANGED <<stack, result>>
    <3>1. /\ pc = "create" /\ stack' = <<>> /\ applied' = <<>> /\ opening' = Main
          /\ result' # "geo"
      BY <1>1, <2>1 DEF Create, LoadInv, WholeInv
    <3>2. Len(<<>>) = 0
      OBVIOUS
    <3>3. Includes'
      BY <2>1, <3>1, <3>2 DEF Includes
    <3>4. PICK v : v = [i \in 1..1 |-> <<>>]
      OBVIOUS
    <3>5. v \in [1..(0 + 1) -> Seq(Place)] /\ v[0 + 1] = <<>> /\ v[1] = <<>>
      BY <3>4
    <3>6. Accounts(v)'
      <4>1. Len(stack') = 0
        BY <3>1
      <4>2. QED
        BY <3>1, <3>5, <4>1 DEF Accounts
    <3>7. QED
      BY <1>0, <2>1, <3>1, <3>3, <3>6 DEF WholeInv
  <2>2. CASE UNCHANGED table /\ ReturnFrom(<<>>, "NULL")
    <3>1. pc' = "done" /\ result' = "NULL"
      BY <2>2 DEF ReturnFrom
    <3>2. QED
      BY <1>0, <3>1 DEF WholeInv
  <2>3. QED
    BY <1>1, <2>1, <2>2 DEF Create
<1>2. CASE Fopen
  <2>1. pc = "open" /\ pc' = "read" /\ table' = table /\ result' = result /\ cut' = cut
    BY <1>2 DEF Fopen
  <2>2. ASSUME ~cut PROVE Includes' /\ \E v : Accounts(v)'
    <3>1. PICK w : Accounts(w)
      BY <2>1, <2>2 DEF WholeInv
    <3>2. QED
      BY <1>0, <1>2, <2>1, <2>2, <3>1, OpeningAccounted DEF WholeInv
  <2>3. QED
    BY <1>0, <2>1, <2>2 DEF WholeInv
<1>3. CASE FopenFails \/ Unload \/ InsertNeverReturns
  <2>1. pc # "create" /\ pc # "done"
    BY <1>3 DEF FopenFails, Unload, InsertNeverReturns, Failed, Reading
  <2>2. /\ pc' \in {"done", "null", "aborted", "endless"}
        /\ result' = "NULL" \/ result' = result
    BY <1>3 DEF FopenFails, Unload, InsertNeverReturns, ReturnFrom
  <2>3. result' # "geo"
    BY <2>1, <2>2 DEF WholeInv
  <2>4. QED
    BY <1>0, <2>2, <2>3 DEF WholeInv
<1>4. CASE Skip \/ Apply \/ Include
  <2>1. /\ pc = "read" /\ pc' \in {"read", "open"} /\ table' = table
        /\ result' = result /\ cut' = cut
    BY <1>4 DEF Skip, Apply, Include, Reading
  <2>2. ASSUME ~cut PROVE Includes' /\ \E v : Accounts(v)'
    <3>1. PICK w : Accounts(w)
      BY <2>1, <2>2 DEF WholeInv
    <3>2. QED
      BY <1>0, <1>4, <2>1, <2>2, <3>1, LineAccounted DEF WholeInv
  <2>3. QED
    BY <1>0, <2>1, <2>2 DEF WholeInv
<1>5. CASE EndOfFile \/ ReadFails
  <2>1. /\ pc = "read" /\ table' = table
        /\ stack' = <<>> => pc' = "done" /\ result' = "geo"
        /\ stack' # <<>> => pc' = "read" /\ result' = result
    BY <1>5 DEF EndOfFile, ReadFails, ReturnFrom
  <2>2. ~cut' => EndOfFile /\ ~cut
    BY <1>5 DEF EndOfFile, ReadFails
  <2>3. ASSUME ~cut'
        PROVE  /\ stack' = <<>> => applied' = Levels(content')[MaxOpen][Main]
               /\ stack' # <<>> => Includes' /\ \E v : Accounts(v)'
    <3>1. PICK w : Accounts(w)
      BY <2>1, <2>2, <2>3 DEF WholeInv
    <3>2. QED
      BY <1>0, <2>1, <2>2, <2>3, <3>1, ReturnAccounted DEF WholeInv
  <2>4. CASE stack' = <<>>
    BY <1>0, <2>1, <2>3, <2>4 DEF WholeInv
  <2>5. CASE stack' # <<>>
    BY <1>0, <2>1, <2>3, <2>5 DEF WholeInv
  <2>6. QED
    BY <2>4, <2>5
<1>6. CASE Ended \/ UNCHANGED vars
  <2>1. UNCHANGED vars
    BY <1>6 DEF Ended
  <2>2. UNCHANGED <<pc, table, result, applied, opening, stack, content, cut>>
    BY <2>1 DEF vars
  <2>3. (Includes' <=> Includes) /\ \A w : Accounts(w)' <=> Accounts(w)
    BY <2>2 DEF Includes, Accounts, DepthLeft, LinesDone
  <2>4. QED
    BY <1>0, <2>2, <2>3 DEF WholeInv
<1>7. QED
  BY <1>1, <1>2, <1>3, <1>4, <1>5, <1>6 DEF Next, Load

LEMMA WholeInvariant == Spec => []WholeInv
<1>1. Init => WholeInv
  <2> SUFFICES ASSUME Init PROVE WholeInv
    OBVIOUS
  <2>1. TypeOK
    <3>1. \A i \in DOMAIN stack : FALSE
      BY DEF Init
    <3>2. open \in 0..MaxOpen /\ applied \in Seq(File \X (Nat \ {0}))
      BY GeoLoadAssumption DEF Init
    <3>3. QED
      BY <3>1, <3>2, GeoLoadAssumption DEF Init, TypeOK
  <2>2. QED
    BY <2>1 DEF Init, WholeInv
<1>2. QED
  BY <1>1, WholeStep, LoadInvariant, PTL DEF Spec

\* However the files include one another, and however deep, the table that is
\* handed out is still there, and unless fgets has failed on one of them each line of
\* each file has been carried out, every include in its place (geo.c: geo_load).
THEOREM TheWholeIsLoaded == Spec => [](TypeOK /\ LoadedWhole)
<1>1. WholeInv => TypeOK /\ LoadedWhole
  <2> SUFFICES ASSUME WholeInv PROVE TypeOK /\ LoadedWhole
    OBVIOUS
  <2>1. Expansion[Main] = Levels(content)[MaxOpen][Main]
    BY ExpansionIsLevel
  <2>2. QED
    BY <2>1 DEF WholeInv, LoadedWhole
<1>2. QED
  BY <1>1, WholeInvariant, PTL

=============================================================================
