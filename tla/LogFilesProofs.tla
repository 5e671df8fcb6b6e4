--------------------------- MODULE LogFilesProofs ---------------------------
(***************************************************************************)
(* Theorems about the log files, for any number and size of them, any      *)
(* number of lines and any crashes and failures.                           *)
(***************************************************************************)
EXTENDS LogFiles, SequenceTheorems, WellFoundedInduction, FiniteSetTheorems,
        FunctionTheorems, TLAPS

InCall == {"rotate", "shift", "close", "open", "write"}

\* What is open where: the file that bears the name of the log, or none.
WhereOpen ==
  /\ pc \in {"rotate", "shift", "write"} => fd = Current /\ Exists(Current)
  /\ pc = "idle" => fd = NoFd \/ (fd = Current /\ Exists(Current))
  /\ pc \in {"open", "down"} => fd = NoFd
  /\ pc \in InCall => line > 0

\* What has been put aside was full, and so is what is being shifted for.
AsideFull ==
  /\ \A k \in Old : Exists(k) => Len(file[k]) > LogSize
  /\ pc = "shift" => Len(file[Current]) > LogSize

\* The renames of a rotation have not come to the names from i on, and have left
\* the name before i free, unless the last one failed.
Shifting ==
  pc = "shift" =>
    /\ \A k \in Old : k >= i => Exists(k)
    /\ i > 1 /\ ~skipped => ~Exists(i - 1)

\* With all names taken the current file may grow by one line less.
Slack == IF Free = {} THEN 0 ELSE 1

Sizes ==
  /\ \A k \in Old : Exists(k) => Len(file[k]) <= LogSize + 2 + faults
  /\ Exists(Current) /\ (pc = "rotate" \/ (pc = "idle" /\ fd = Current))
       => Len(file[Current]) <= LogSize + 1 + faults + Slack
  /\ Exists(Current) /\ pc = "shift"
       => /\ Len(file[Current]) <= LogSize + 1 + faults
          /\ i > 1 => ~Exists(i - 1) \/ Len(file[Current]) <= LogSize + faults
  /\ Exists(Current) /\ (pc \in {"close", "open", "write", "down"}
                           \/ (pc = "idle" /\ fd = NoFd))
       => Len(file[Current]) <= LogSize + faults + Slack

\* While no rotation has been cut off, names are taken from 0 on, but for the one
\* a rotation has just freed.
NoGap ==
  ~cut =>
    /\ ~skipped
    /\ pc # "shift" => \A k, m \in Old : k < m /\ Exists(m) => Exists(k)
    /\ pc = "shift" => \A k \in Old : Exists(k) <=> ~(i > 1 /\ k = i - 1)

\* No line on disk is later than the last one given to log_write, which is not
\* there before it is written.
LinesPast ==
  \A k \in File : Exists(k) =>
    \A x \in DOMAIN file[k] :
      file[k][x] <= line /\ (pc \in InCall => file[k][x] < line)

LogInv == TypeOK /\ WhereOpen /\ AsideFull /\ Shifting /\ NoGap /\ LinesPast /\ InOrder

-----------------------------------------------------------------------------
(* Files and their names.                                                  *)

\* A set of numbers has a least one.
LEMMA LeastNumber ==
  ASSUME NEW T, T \subseteq Nat, T # {}
  PROVE  \E x \in T : \A y \in T : x <= y
<1> DEFINE R == {ss \in Nat \X Nat : ss[1] < ss[2]}
<1>1. IsWellFoundedOn(R, Nat)
  BY NatLessThanWellFounded, Zenon DEF OpToRel
<1>2. PICK x \in T : \A y \in T : <<y, x>> \notin R
  <2> HIDE DEF R
  <2> QED  BY <1>1, WFMin
<1>3. \A y \in T : ~(y < x)
  BY <1>2
<1>4. QED
  BY <1>3

LEMMA Names ==
  /\ LogNumber \in Nat /\ LogNumber > 0 /\ LogSize \in Nat
  /\ MaxLines \in Nat /\ MaxFaults \in Nat
  /\ Current = LogNumber /\ Current \in File /\ Current \notin Old
  /\ Old = 0..(LogNumber - 1) /\ File = 0..LogNumber /\ Old \subseteq File
  /\ NoFd \notin File /\ NoFd # Current
BY LogAssumption DEF Current, Old, File, NoFd

\* A file that exists holds lines.
LEMMA Contents ==
  ASSUME TypeOK, NEW k \in File, Exists(k)
  PROVE  /\ file[k] \in Seq(1..MaxLines)
         /\ Len(file[k]) \in Nat /\ DOMAIN file[k] = 1..Len(file[k])
         /\ \A x \in DOMAIN file[k] : file[k][x] \in 1..MaxLines
<1>1. file[k] \in Seq(1..MaxLines)
  BY DEF TypeOK, Exists
<1>2. Len(file[k]) \in Nat /\ DOMAIN file[k] = 1..Len(file[k])
  BY <1>1, LenProperties
<1>3. \A x \in DOMAIN file[k] : file[k][x] \in 1..MaxLines
  BY <1>1, <1>2, ElementOfSeq
<1>4. QED
  BY <1>1, <1>2, <1>3

\* What holds lines exists.
LEMMA LinesExist ==
  ASSUME NEW s \in Seq(1..MaxLines)
  PROVE  s # Missing
<1>1. s \in Seq(Nat)
  BY SeqMonotonic, Names
<1>2. QED
  BY <1>1, LogAssumption

\* The name a full file is put aside under is free, and all before it are taken.
LEMMA NextNameFree ==
  ASSUME Free # {}
  PROVE  NextName \in Free /\ \A m \in Free : NextName <= m
<1>1. Free \subseteq Nat
  BY DEF Free, Old
<1>2. \E k \in Free : \A m \in Free : k <= m
  BY <1>1, LeastNumber
<1>3. QED
  BY <1>2 DEF NextName

\* What a rename does.
LEMMA Renamed ==
  ASSUME TypeOK, NEW from \in File, NEW to \in File, from # to, Rename(from, to)
  PROVE  /\ file' \in [File -> Seq(1..MaxLines) \cup {Missing}]
         /\ file'[to] = file[from] /\ file'[from] = Missing
         /\ \A k \in File : k # from /\ k # to => file'[k] = file[k]
         /\ fd' = IF fd = from THEN to ELSE fd
BY DEF Rename, TypeOK

-----------------------------------------------------------------------------
(* Steps that leave the files alone.                                       *)

Quiet == \/ LogInit \/ LogWrite \/ Close \/ OpenFails \/ WriteFails
         \/ FstatFails \/ NotFull \/ MoveAsideFails
         \/ AllTaken \/ ShiftFails \/ ShiftDone
         \/ Crash \/ Done \/ UNCHANGED vars

LEMMA SameFiles ==
  ASSUME file' = file
  PROVE  /\ \A k : Exists(k)' <=> Exists(k)
         /\ Free' = Free /\ Slack' = Slack /\ OnDisk' = OnDisk
BY DEF Exists, Free, Slack, OnDisk, Holds

LEMMA QuietFiles == ASSUME Quiet PROVE file' = file
BY DEF Quiet, LogInit, LogWrite, Close, OpenFails, WriteFails, FstatFails, NotFull,
       MoveAsideFails, AllTaken, ShiftFails, ShiftDone, Crash, Done, vars

LEMMA QuietType == ASSUME TypeOK, Quiet PROVE TypeOK'
<1>1. file' = file
  BY QuietFiles
<1>2. fd' \in File \cup {NoFd}
  BY DEF TypeOK, Quiet, LogInit, LogWrite, Close, OpenFails, WriteFails, FstatFails,
         NotFull, MoveAsideFails, AllTaken, ShiftFails, ShiftDone, Crash, Done, vars
<1>3. pc' \in {"idle", "rotate", "shift", "close", "open", "write", "down"}
  BY DEF TypeOK, Quiet, LogInit, LogWrite, Close, OpenFails, WriteFails, FstatFails,
         NotFull, MoveAsideFails, AllTaken, ShiftFails, ShiftDone, Crash, Done, vars
<1>4. i' \in 1..LogNumber
  BY Names DEF TypeOK, Quiet, LogInit, LogWrite, Close, OpenFails, WriteFails,
       FstatFails, NotFull, MoveAsideFails, AllTaken, ShiftFails, ShiftDone, Crash,
       Done, vars
<1>5. line' \in 0..MaxLines
  BY Names DEF TypeOK, Quiet, LogInit, LogWrite, Close, OpenFails, WriteFails,
       FstatFails, NotFull, MoveAsideFails, AllTaken, ShiftFails, ShiftDone, Crash,
       Done, vars
<1>6. faults' \in 0..MaxFaults /\ cut' \in BOOLEAN /\ skipped' \in BOOLEAN
  BY Names DEF TypeOK, Quiet, LogInit, LogWrite, Close, OpenFails, WriteFails,
       FstatFails, NotFull, MoveAsideFails, AllTaken, ShiftFails, ShiftDone, Crash,
       Done, vars, NoFault, Fault
<1>7. QED
  BY <1>1, <1>2, <1>3, <1>4, <1>5, <1>6 DEF TypeOK

\* The order of the lines is one of the files alone.
LEMMA SameOrder ==
  ASSUME InOrder, file' = file, cut => cut'
  PROVE  InOrder'
BY DEF InOrder, Exists

LEMMA QuietStep == ASSUME LogInv, Quiet PROVE LogInv'
<1> USE DEF InCall
<1>1. TypeOK' /\ file' = file
  BY QuietType, QuietFiles DEF LogInv
<1>2. \A k : Exists(k)' <=> Exists(k)
  BY <1>1, SameFiles
<1>3. InOrder'
  <2>1. cut => cut'
    BY DEF Quiet, LogInit, LogWrite, Close, OpenFails, WriteFails, FstatFails,
           NotFull, MoveAsideFails, AllTaken, ShiftFails, ShiftDone, Crash, Done,
           vars, NoFault
  <2>2. QED
    BY <1>1, <2>1, SameOrder DEF LogInv
<1>4. WhereOpen'
  BY <1>1, <1>2 DEF LogInv, TypeOK, WhereOpen, Quiet, LogInit, LogWrite, Close,
       OpenFails, WriteFails, FstatFails, NotFull, MoveAsideFails, AllTaken,
       ShiftFails, ShiftDone, Crash, Done, vars
<1>5. AsideFull'
  <2>1. \A k \in Old : Exists(k)' => Len(file[k])' > LogSize
    BY <1>1, <1>2 DEF LogInv, AsideFull
  <2>2. pc' = "shift" => pc = "shift" \/ (Full /\ pc = "rotate")
    BY DEF Quiet, LogInit, LogWrite, Close, OpenFails, WriteFails, FstatFails, NotFull,
           MoveAsideFails, AllTaken, ShiftFails, ShiftDone, Crash, Done, vars
  <2>3. pc' = "shift" => Len(file[Current])' > LogSize
    BY <1>1, <2>2 DEF LogInv, AsideFull, WhereOpen, Full
  <2>4. QED
    BY <2>1, <2>3 DEF AsideFull
<1>6. Shifting'
  <2>1. CASE AllTaken
    BY <2>1, <1>2 DEF AllTaken, Shifting, Free
  <2>2. CASE ShiftFails
    BY <2>2, <1>2, Names DEF ShiftFails, Shifting, LogInv, TypeOK
  <2>3. CASE UNCHANGED vars
    BY <2>3, <1>2 DEF vars, Shifting, LogInv
  <2>4. CASE ~(AllTaken \/ ShiftFails \/ UNCHANGED vars)
    BY <2>4 DEF Shifting, Quiet, LogInit, LogWrite, Close, OpenFails, WriteFails,
           FstatFails, NotFull, MoveAsideFails, ShiftDone, Crash, Done
  <2>5. QED
    BY <2>1, <2>2, <2>3, <2>4
<1>7. NoGap'
  <2>1. CASE AllTaken
    BY <2>1, <1>2 DEF AllTaken, NoGap, Free, LogInv
  <2>2. CASE ShiftDone
    BY <2>2, <1>2, Names DEF ShiftDone, NoGap, LogInv, NoFault
  <2>3. CASE UNCHANGED vars
    BY <2>3, <1>2 DEF vars, NoGap, LogInv
  <2>4. CASE ~(AllTaken \/ ShiftDone \/ UNCHANGED vars)
    <3>1. cut' \/ (pc # "shift" /\ pc' # "shift" /\ UNCHANGED <<cut, skipped>>)
      <4>1. CASE Crash
        BY <4>1 DEF Crash, LogInv, TypeOK
      <4>2. CASE ShiftFails
        BY <4>2 DEF ShiftFails
      <4>3. CASE ~(Crash \/ ShiftFails)
        BY <2>4, <4>3 DEF Quiet, LogInit, LogWrite, Close, OpenFails, WriteFails,
             FstatFails, NotFull, MoveAsideFails, Done, vars, NoFault
      <4>4. QED
        BY <4>1, <4>2, <4>3
    <3>2. QED
      BY <3>1, <1>2 DEF NoGap, LogInv
  <2>5. QED
    BY <2>1, <2>2, <2>3, <2>4
<1>8. LinesPast'
  <2>1. \/ line' = line /\ (pc' \in InCall => pc \in InCall)
        \/ line' = line + 1
    BY DEF Quiet, LogInit, LogWrite, Close, OpenFails, WriteFails, FstatFails, NotFull,
           MoveAsideFails, AllTaken, ShiftFails, ShiftDone, Crash, Done, vars
  <2>2. SUFFICES ASSUME NEW k \in File, Exists(k), NEW x \in DOMAIN file[k]
                 PROVE  file[k][x] <= line' /\ (pc' \in InCall => file[k][x] < line')
    BY <1>1, <1>2 DEF LinesPast
  <2>3. file[k][x] \in Nat /\ line \in Nat
    BY <2>2, Contents DEF LogInv, TypeOK
  <2>4. file[k][x] <= line /\ (pc \in InCall => file[k][x] < line)
    BY <2>2 DEF LogInv, LinesPast
  <2>5. QED
    BY <2>1, <2>3, <2>4
<1>9. QED
  BY <1>1, <1>3, <1>4, <1>5, <1>6, <1>7, <1>8 DEF LogInv

-----------------------------------------------------------------------------
(* Steps that write and rename.                                            *)

LEMMA OpenStep == ASSUME LogInv, Open PROVE LogInv'
<1> USE DEF InCall
<1>1. /\ TypeOK /\ pc = "open" /\ fd = NoFd /\ line > 0
      /\ fd' = Current /\ pc' = "write"
      /\ UNCHANGED <<i, line, faults, cut, skipped>>
      /\ file' = [file EXCEPT ![Current] = IF Exists(Current) THEN @ ELSE <<>>]
  BY DEF LogInv, Open, NoFault, WhereOpen
<1>2. <<>> \in Seq(1..MaxLines) /\ <<>> # Missing
  <2>1. <<>> \in Seq(1..MaxLines)
    OBVIOUS
  <2>2. QED
    BY <2>1, LinesExist
<1>3. /\ TypeOK'
      /\ \A k \in Old : file'[k] = file[k]
      /\ Exists(Current)'
      /\ Exists(Current) => file'[Current] = file[Current]
      /\ ~Exists(Current) => file'[Current] = <<>>
  BY <1>1, <1>2, Names DEF TypeOK, Exists
<1>4. \A k \in Old : Exists(k)' <=> Exists(k)
  BY <1>3 DEF Exists
<1>5. WhereOpen'
  BY <1>1, <1>3 DEF WhereOpen
<1>6. AsideFull' /\ Shifting'
  BY <1>1, <1>3, <1>4 DEF AsideFull, Shifting, LogInv
<1>7. NoGap'
  BY <1>1, <1>4 DEF NoGap, LogInv
<1>8. \A k \in File : Exists(k)' =>
        (k # Current \/ Exists(Current) => Exists(k) /\ file'[k] = file[k])
  BY <1>3, <1>4, Names DEF Old, File
<1>9. \A k \in File : Exists(k)' =>
        \/ Exists(k) /\ file'[k] = file[k]
        \/ DOMAIN file'[k] = {}
  <2>1. DOMAIN <<>> = {}
    OBVIOUS
  <2>2. QED
    BY <1>3, <1>8, <2>1
<1>10. LinesPast'
  BY <1>1, <1>9 DEF LinesPast, LogInv
<1>11. InOrder'
  <2> SUFFICES ASSUME ~cut, NEW k \in File, NEW m \in File, Exists(k)', Exists(m)',
                      NEW x \in DOMAIN file'[k], NEW y \in DOMAIN file'[m],
                      k < m \/ (k = m /\ x < y)
               PROVE  file'[k][x] < file'[m][y]
    BY <1>1 DEF InOrder
  <2>1. Exists(k) /\ file'[k] = file[k] /\ Exists(m) /\ file'[m] = file[m]
    BY <1>9
  <2>2. QED
    BY <2>1 DEF InOrder, LogInv
<1>12. QED
  BY <1>3, <1>5, <1>6, <1>7, <1>10, <1>11 DEF LogInv

\* A line is appended to the current file, and is later than all before it.
LEMMA Appended ==
  ASSUME LogInv, Write
  PROVE  /\ file' = [file EXCEPT ![Current] = Append(file[Current], line)]
         /\ Exists(Current) /\ Exists(Current)'
         /\ line \in 1..MaxLines
         /\ file'[Current] \in Seq(1..MaxLines)
         /\ Len(file'[Current]) = Len(file[Current]) + 1
         /\ \A x \in DOMAIN file[Current] : file'[Current][x] = file[Current][x]
         /\ file'[Current][Len(file[Current]) + 1] = line
         /\ \A k \in Old : file'[k] = file[k] /\ (Exists(k)' <=> Exists(k))
<1>1. TypeOK /\ fd = Current /\ Exists(Current) /\ line \in 1..MaxLines
  BY Names DEF LogInv, Write, WhereOpen, InCall, TypeOK
<1>2. file' = [file EXCEPT ![Current] = Append(file[Current], line)]
  BY <1>1 DEF Write
<1>3. file[Current] \in Seq(1..MaxLines) /\ DOMAIN file[Current] = 1..Len(file[Current])
  BY <1>1, Contents, Names
<1>4. file'[Current] = Append(file[Current], line)
  BY <1>1, <1>2, Names DEF TypeOK
<1>5. /\ file'[Current] \in Seq(1..MaxLines)
      /\ Len(file'[Current]) = Len(file[Current]) + 1
      /\ \A x \in 1..Len(file[Current]) : file'[Current][x] = file[Current][x]
      /\ file'[Current][Len(file[Current]) + 1] = line
  BY <1>1, <1>3, <1>4, AppendProperties
<1>6. Exists(Current)'
  BY <1>5, LinesExist DEF Exists
<1>7. \A k \in Old : file'[k] = file[k] /\ (Exists(k)' <=> Exists(k))
  BY <1>1, <1>2, Names DEF TypeOK, Exists
<1>8. QED
  BY <1>1, <1>2, <1>3, <1>5, <1>6, <1>7

LEMMA WriteStep == ASSUME LogInv, Write PROVE LogInv'
<1> USE DEF InCall
<1>1. /\ TypeOK /\ pc = "write" /\ fd = Current
      /\ pc' = "idle" /\ UNCHANGED <<fd, i, line, faults, cut, skipped>>
  BY DEF LogInv, Write, NoFault, WhereOpen
<1>2. /\ Exists(Current) /\ Exists(Current)' /\ line \in 1..MaxLines
      /\ Len(file'[Current]) = Len(file[Current]) + 1
      /\ \A x \in DOMAIN file[Current] : file'[Current][x] = file[Current][x]
      /\ file'[Current][Len(file[Current]) + 1] = line
      /\ \A k \in Old : file'[k] = file[k] /\ (Exists(k)' <=> Exists(k))
  BY Appended
<1>3. TypeOK'
  BY <1>1, Appended, Names DEF TypeOK
<1>4. WhereOpen' /\ AsideFull' /\ Shifting' /\ NoGap'
  BY <1>1, <1>2 DEF WhereOpen, AsideFull, Shifting, NoGap, LogInv
<1>5. \A k \in File : k # Current => k \in Old /\ k < Current
  BY Names
<1>6. /\ Len(file[Current]) \in Nat /\ DOMAIN file[Current] = 1..Len(file[Current])
      /\ DOMAIN file'[Current] = 1..(Len(file[Current]) + 1)
  <2>1. file'[Current] \in Seq(1..MaxLines)
    BY Appended
  <2>2. QED
    BY <1>1, <1>2, <2>1, Contents, LenProperties, Names
<1>7. ASSUME NEW k \in File, Exists(k)', NEW x \in DOMAIN file'[k]
      PROVE  \/ Exists(k) /\ x \in DOMAIN file[k] /\ file'[k][x] = file[k][x]
             \/ k = Current /\ x = Len(file[Current]) + 1 /\ file'[k][x] = line
  BY <1>2, <1>5, <1>6, <1>7
<1>8. LinesPast'
  <2> SUFFICES ASSUME NEW k \in File, Exists(k)', NEW x \in DOMAIN file'[k]
               PROVE  file'[k][x] <= line
    BY <1>1 DEF LinesPast
  <2>1. QED
    BY <1>2, <1>7 DEF LinesPast, LogInv
<1>9. InOrder'
  <2> SUFFICES ASSUME ~cut, NEW k \in File, NEW m \in File, Exists(k)', Exists(m)',
                      NEW x \in DOMAIN file'[k], NEW y \in DOMAIN file'[m],
                      k < m \/ (k = m /\ x < y)
               PROVE  file'[k][x] < file'[m][y]
    BY <1>1 DEF InOrder
  <2>1. Exists(k) /\ x \in DOMAIN file[k] /\ file'[k][x] = file[k][x]
    <3>1. CASE k # Current
      BY <3>1, <1>7
    <3>2. CASE k = Current
      <4>1. m = Current /\ x < y
        BY <3>2, Names
      <4>2. QED
        BY <3>2, <4>1, <1>6, <1>2
    <3>3. QED
      BY <3>1, <3>2
  <2>2. CASE Exists(m) /\ y \in DOMAIN file[m] /\ file'[m][y] = file[m][y]
    BY <2>1, <2>2 DEF InOrder, LogInv
  <2>3. CASE file'[m][y] = line
    BY <2>1, <2>3, <1>1 DEF LinesPast, LogInv
  <2>4. QED
    BY <2>2, <2>3, <1>7
<1>10. QED
  BY <1>3, <1>4, <1>8, <1>9 DEF LogInv

LEMMA MoveAsideStep == ASSUME LogInv, MoveAside PROVE LogInv'
<1> USE DEF InCall
<1>1. /\ TypeOK /\ pc = "rotate" /\ fd = Current /\ Exists(Current) /\ Full
      /\ pc' = "close" /\ UNCHANGED <<i, line, faults, cut, skipped>>
  BY DEF LogInv, MoveAside, NoFault, WhereOpen
<1>2. PICK to \in Old :
        to = NextName /\ ~Exists(to) /\ \A k \in Old : ~Exists(k) => to <= k
  BY NextNameFree DEF MoveAside, Free
<1>3. to \in File /\ to < Current
  BY <1>2, Names
<1>4. /\ file' \in [File -> Seq(1..MaxLines) \cup {Missing}]
      /\ file'[to] = file[Current] /\ file'[Current] = Missing
      /\ \A k \in File : k # Current /\ k # to => file'[k] = file[k]
      /\ fd' = to
  BY <1>1, <1>2, <1>3, Renamed, Names DEF MoveAside
<1>5. /\ Exists(to)' /\ ~Exists(Current)'
      /\ \A k \in File : k # Current /\ k # to => (Exists(k)' <=> Exists(k))
  BY <1>1, <1>4 DEF Exists
<1>6. TypeOK'
  BY <1>1, <1>3, <1>4 DEF TypeOK
<1>7. WhereOpen'
  BY <1>1 DEF WhereOpen, LogInv
<1>8. AsideFull' /\ Shifting'
  BY <1>1, <1>4, <1>5, Names DEF AsideFull, Shifting, LogInv, Full
<1>9. NoGap'
  <2> SUFFICES ASSUME ~cut, NEW k \in Old, NEW m \in Old, k < m, Exists(m)'
               PROVE  Exists(k)'
    BY <1>1 DEF NoGap, LogInv
  <2>1. k < m /\ Exists(m) => Exists(k)
    BY <1>1 DEF NoGap, LogInv
  <2>2. CASE k = to
    BY <2>2, <1>5
  <2>3. CASE k # to
    <3>1. CASE m = to
      BY <3>1, <2>3, <1>2, <1>5, Names
    <3>2. CASE m # to
      BY <2>1, <2>3, <3>2, <1>5, Names
    <3>3. QED
      BY <3>1, <3>2
  <2>4. QED
    BY <2>2, <2>3
<1>10. LinesPast'
  BY <1>1, <1>4, <1>5, Names DEF LinesPast, LogInv
<1>11. InOrder'
  <2> SUFFICES ASSUME ~cut, NEW k \in File, NEW m \in File, Exists(k)', Exists(m)',
                      NEW x \in DOMAIN file'[k], NEW y \in DOMAIN file'[m],
                      k < m \/ (k = m /\ x < y)
               PROVE  file'[k][x] < file'[m][y]
    BY <1>1 DEF InOrder
  <2>1. k # Current /\ m # Current
    BY <1>5
  <2>2. m <= to
    <3>1. \A j, l \in Old : j < l /\ Exists(l) => Exists(j)
      BY <1>1 DEF NoGap, LogInv
    <3>2. m # to => Exists(m) /\ m \in Old
      BY <2>1, <1>5, Names
    <3>3. QED
      BY <3>1, <3>2, <1>2, Names
  <2>3. k # to \/ m = to
    BY <2>2, <1>3, Names
  <2>4. CASE m # to
    BY <2>1, <2>3, <2>4, <1>4, <1>5 DEF InOrder, LogInv
  <2>5. CASE m = to /\ k # to
    <3>1. k < Current /\ Exists(k) /\ file'[k] = file[k] /\ file'[m] = file[Current]
      BY <2>1, <2>5, <1>3, <1>4, <1>5, Names
    <3>2. QED
      BY <3>1, <1>1, Names DEF InOrder, LogInv
  <2>6. CASE m = to /\ k = to
    <3>1. file'[k] = file[Current] /\ file'[m] = file[Current] /\ x < y
      BY <2>6, <1>3, <1>4, Names
    <3>2. QED
      BY <3>1, <1>1, Names DEF InOrder, LogInv
  <2>7. QED
    BY <2>4, <2>5, <2>6
<1>12. QED
  BY <1>6, <1>7, <1>8, <1>9, <1>10, <1>11 DEF LogInv

\* What a rename of the loop that shifts the files does: where it takes a file to,
\* there is none, unless it is the first or the one before it has failed.
LEMMA Shifted ==
  ASSUME LogInv, Shift
  PROVE  /\ TypeOK /\ pc = "shift" /\ i \in Old /\ i - 1 \in Old /\ i \in 1..(LogNumber - 1)
         /\ fd = Current /\ Exists(Current) /\ Exists(i)
         /\ pc' = "shift" /\ i' = i + 1 /\ UNCHANGED <<fd, line, faults, cut, skipped>>
         /\ file' \in [File -> Seq(1..MaxLines) \cup {Missing}]
         /\ file'[i - 1] = file[i] /\ file'[i] = Missing
         /\ file'[i - 1] # Missing
         /\ \A k \in File : k # i /\ k # i - 1 =>
              file'[k] = file[k] /\ (Exists(k)' <=> Exists(k))
<1>1. /\ TypeOK /\ pc = "shift" /\ i < LogNumber /\ i \in 1..LogNumber
      /\ fd = Current /\ Exists(Current)
      /\ pc' = "shift" /\ i' = i + 1 /\ UNCHANGED <<line, faults, cut, skipped>>
      /\ Rename(i, i - 1)
  BY DEF LogInv, Shift, NoFault, WhereOpen, TypeOK
<1>2. /\ i \in Old /\ i - 1 \in Old /\ i \in File /\ i - 1 \in File /\ i # i - 1
      /\ i \in 1..(LogNumber - 1) /\ fd # i
  BY <1>1, Names
<1>3. Exists(i)
  BY <1>1, <1>2 DEF Shifting, LogInv
<1>4. /\ file' \in [File -> Seq(1..MaxLines) \cup {Missing}]
      /\ file'[i - 1] = file[i] /\ file'[i] = Missing
      /\ \A k \in File : k # i /\ k # i - 1 => file'[k] = file[k]
      /\ fd' = fd
  BY <1>1, <1>2, Renamed
<1>5. QED
  BY <1>1, <1>2, <1>3, <1>4 DEF Exists

LEMMA ShiftStep == ASSUME LogInv, Shift PROVE LogInv'
<1> USE DEF InCall
<1>1. /\ TypeOK /\ pc = "shift" /\ i \in Old /\ i - 1 \in Old /\ i \in 1..(LogNumber - 1)
      /\ fd = Current /\ Exists(Current) /\ Exists(i)
      /\ pc' = "shift" /\ i' = i + 1 /\ UNCHANGED <<fd, line, faults, cut, skipped>>
      /\ file' \in [File -> Seq(1..MaxLines) \cup {Missing}]
      /\ file'[i - 1] = file[i] /\ file'[i] = Missing
      /\ file'[i - 1] # Missing
      /\ \A k \in File : k # i /\ k # i - 1 =>
           file'[k] = file[k] /\ (Exists(k)' <=> Exists(k))
  BY Shifted
<1>0. \A k \in File : Exists(k)' <=> k = i - 1 \/ (k # i /\ Exists(k))
  BY <1>1 DEF Exists
<1>2. TypeOK'
  BY <1>1, Names DEF TypeOK
<1>3. Current # i /\ Current # i - 1
  BY <1>1, Names
<1>4. WhereOpen'
  BY <1>1, <1>3, Names DEF WhereOpen, LogInv
<1>5. AsideFull'
  BY <1>0, <1>1, <1>3, Names DEF AsideFull, LogInv
<1>6. Shifting'
  BY <1>0, <1>1, Names DEF Shifting, LogInv
<1>7. NoGap'
  <2> SUFFICES ASSUME ~cut, NEW k \in Old
               PROVE  Exists(k)' <=> ~(i' > 1 /\ k = i' - 1)
    BY <1>1 DEF NoGap, LogInv
  <2>1. \A j \in Old : Exists(j) <=> ~(i > 1 /\ j = i - 1)
    BY <1>1 DEF NoGap, LogInv
  <2>2. QED
    BY <2>1, <1>0, <1>1, Names
<1>8. LinesPast'
  BY <1>0, <1>1, Names DEF LinesPast, LogInv
<1>9. InOrder'
  <2> SUFFICES ASSUME ~cut, NEW k \in File, NEW m \in File, Exists(k)', Exists(m)',
                      NEW x \in DOMAIN file'[k], NEW y \in DOMAIN file'[m],
                      k < m \/ (k = m /\ x < y)
               PROVE  file'[k][x] < file'[m][y]
    BY <1>1 DEF InOrder
  <2> DEFINE from(f) == IF f = i - 1 THEN i ELSE f
  <2>1. \A f \in File : Exists(f)' =>
          from(f) \in File /\ Exists(from(f)) /\ file'[f] = file[from(f)]
    BY <1>0, <1>1, Names
  <2>2. k # i /\ m # i
    BY <1>0, <1>1
  <2>3. from(k) < from(m) \/ (from(k) = from(m) /\ x < y)
    BY <2>2, <1>1, Names
  <2> HIDE DEF from
  <2>4. QED
    BY <2>1, <2>3 DEF InOrder, LogInv
<1>10. QED
  BY <1>2, <1>4, <1>5, <1>6, <1>7, <1>8, <1>9 DEF LogInv

LEMMA LogStep == LogInv /\ [Next]_vars => LogInv'
BY OpenStep, WriteStep, MoveAsideStep, ShiftStep, QuietStep
   DEF Next, Log, LogRotate, Quiet

LEMMA LogStarts == Init => LogInv
<1> SUFFICES ASSUME Init PROVE LogInv
  OBVIOUS
<1>1. \A k \in File : ~Exists(k)
  BY DEF Init, Exists
<1>2. QED
  BY <1>1, Names DEF Init, LogInv, TypeOK, WhereOpen, AsideFull, Shifting, NoGap,
       LinesPast, InOrder, InCall

-----------------------------------------------------------------------------
(* How large files become.                                                 *)

LEMMA Slackness ==
  /\ Slack \in {0, 1}
  /\ \A k \in Old : ~Exists(k) => Slack = 1
BY DEF Slack, Free

\* A step that leaves the files alone leaves them within their bounds: whatever
\* keeps a full file open costs a fault.
LEMMA QuietSizes ==
  ASSUME LogNumber > 1, LogInv, Sizes, Quiet
  PROVE  Sizes'
<1> DEFINE len == Len(file[Current])
<1>1. TypeOK /\ file' = file /\ Slack' = Slack /\ Slack \in {0, 1} /\ faults \in Nat
  BY QuietFiles, SameFiles, Slackness, Names DEF LogInv, TypeOK
<1>2. \A k : Exists(k)' <=> Exists(k)
  BY <1>1, SameFiles
<1>3. faults' \in Nat /\ faults' >= faults
  BY <1>1 DEF Quiet, LogInit, LogWrite, Close, OpenFails, WriteFails, FstatFails,
       NotFull, MoveAsideFails, AllTaken, ShiftFails, ShiftDone, Crash, Done, vars,
       NoFault, Fault
<1>4. \A k \in Old : Exists(k)' => Len(file'[k]) <= LogSize + 2 + faults'
  <2> SUFFICES ASSUME NEW k \in Old, Exists(k)
               PROVE  Len(file[k]) <= LogSize + 2 + faults'
    BY <1>1, <1>2
  <2>1. Len(file[k]) <= LogSize + 2 + faults /\ Len(file[k]) \in Nat
    BY <1>1, Contents, Names DEF Sizes
  <2>2. QED
    BY <2>1, <1>1, <1>3, Names
<1>5. CASE ~Exists(Current)
  BY <1>2, <1>4, <1>5 DEF Sizes
<1>6. CASE Exists(Current)
  <2>1. len \in Nat
    BY <1>1, <1>6, Contents, Names
  <2>2. /\ pc = "rotate" \/ (pc = "idle" /\ fd = Current)
             => len <= LogSize + 1 + faults + Slack
        /\ pc = "shift"
             => /\ len <= LogSize + 1 + faults
                /\ i > 1 => ~Exists(i - 1) \/ len <= LogSize + faults
        /\ (pc \in {"close", "open", "write", "down"} \/ (pc = "idle" /\ fd = NoFd))
             => len <= LogSize + faults + Slack
    BY <1>6 DEF Sizes
  <2>3. pc = "idle" => fd \in {Current, NoFd}
    BY DEF LogInv, WhereOpen
  <2> DEFINE Bounds == 
        /\ pc' = "rotate" \/ (pc' = "idle" /\ fd' = Current)
             => len <= LogSize + 1 + faults' + Slack
        /\ pc' = "shift"
             => /\ len <= LogSize + 1 + faults'
                /\ i' > 1 => ~Exists(i' - 1) \/ len <= LogSize + faults'
        /\ (pc' \in {"close", "open", "write", "down"} \/ (pc' = "idle" /\ fd' = NoFd))
             => len <= LogSize + faults' + Slack
  <2>0. Len(file[Current])' = len
    BY <1>1 DEF Current
  <2> HIDE DEF len
  <2> SUFFICES Bounds
    BY <2>0, <1>1, <1>2, <1>4 DEF Sizes
  <2>4. CASE LogInit \/ LogWrite \/ Close \/ Done \/ UNCHANGED vars
    <3>1. faults' = faults
      BY <2>4 DEF LogInit, LogWrite, Close, Done, vars, NoFault
    <3>2. QED
      BY <2>4, <3>1, <2>1, <2>2, <2>3, <1>1, Names
         DEF LogInit, LogWrite, Close, Done, vars
  <2>5. CASE OpenFails \/ WriteFails \/ FstatFails \/ MoveAsideFails
    <3>1. faults' = faults + 1
      BY <2>5 DEF OpenFails, WriteFails, FstatFails, MoveAsideFails, Fault
    <3>2. QED
      BY <2>5, <3>1, <2>1, <2>2, <1>1, Names
         DEF OpenFails, WriteFails, FstatFails, MoveAsideFails
  <2>6. CASE Crash
    <3>1. faults' = faults + 1 /\ pc' = "down"
      BY <2>6 DEF Crash, Fault
    <3>2. pc \in {"idle", "rotate", "shift", "close", "open", "write", "down"}
      BY <1>1 DEF TypeOK
    <3>3. QED
      BY <3>1, <3>2, <2>1, <2>2, <2>3, <1>1, Names
  <2>7. CASE NotFull
    <3>1. fd = Current
      BY <2>7 DEF NotFull, LogInv, WhereOpen
    <3>2. len <= LogSize /\ pc' = "write" /\ faults' = faults
      BY <2>7, <3>1, <2>1, Names DEF NotFull, Full, NoFault, len
    <3>3. QED
      BY <3>2, <2>1, <1>1, Names
  <2>8. CASE AllTaken
    <3>1. Slack = 0 /\ pc = "rotate" /\ pc' = "shift" /\ i' = 1 /\ faults' = faults
      BY <2>8 DEF AllTaken, Slack
    <3>2. QED
      BY <3>1, <2>1, <2>2, <1>1, Names
  <2>9. CASE ShiftFails
    <3>1. pc = "shift" /\ pc' = "shift" /\ faults' = faults + 1
      BY <2>9 DEF ShiftFails, Fault
    <3>2. QED
      BY <3>1, <2>1, <2>2, <1>1, Names
  <2>10. CASE ShiftDone
    <3>1. /\ pc = "shift" /\ pc' = "write" /\ i = LogNumber /\ faults' = faults
      BY <2>10 DEF ShiftDone, NoFault
    <3>2. ~Exists(i - 1) => Slack = 1
      BY <3>1, Slackness, Names
    <3>3. QED
      BY <3>1, <3>2, <2>1, <2>2, <1>1, Names
  <2>11. QED
    BY <2>4, <2>5, <2>6, <2>7, <2>8, <2>9, <2>10 DEF Quiet
<1>7. QED
  BY <1>5, <1>6

LEMMA SizesStep ==
  ASSUME LogNumber > 1, LogInv, Sizes, [Next]_vars
  PROVE  Sizes'
<1>1. TypeOK /\ faults \in Nat /\ LogSize \in Nat /\ Slack \in {0, 1}
  BY Slackness, Names DEF LogInv, TypeOK
<1>2. \A k \in File : Exists(k) => Len(file[k]) \in Nat
  BY <1>1, Contents
<1>3. CASE Quiet
  BY <1>3, QuietSizes
<1>4. CASE Open
  <2>1. /\ pc = "open" /\ pc' = "write" /\ faults' = faults
        /\ file' = [file EXCEPT ![Current] = IF Exists(Current) THEN @ ELSE <<>>]
    BY <1>4 DEF Open, NoFault
  <2>2. /\ \A k \in Old : file'[k] = file[k] /\ (Exists(k)' <=> Exists(k))
        /\ Exists(Current) => file'[Current] = file[Current]
        /\ ~Exists(Current) => file'[Current] = <<>>
    BY <2>1, <1>1, Names DEF TypeOK, Exists
  <2>3. Free' = Free /\ Slack' = Slack
    BY <2>2 DEF Free, Slack
  <2>4. Len(<<>>) = 0
    OBVIOUS
  <2>5. Len(file'[Current]) <= LogSize + faults + Slack
    <3>1. Exists(Current) => Len(file[Current]) <= LogSize + faults + Slack
      BY <2>1 DEF Sizes
    <3>2. QED
      BY <2>2, <2>4, <3>1, <1>1
  <2>6. Current' = Current
    BY DEF Current
  <2>7. QED
    BY <2>1, <2>2, <2>3, <2>5, <2>6, <1>1 DEF Sizes
<1>5. CASE Write
  <2>1. /\ pc = "write" /\ pc' = "idle" /\ faults' = faults /\ fd' = Current
    BY <1>5 DEF Write, NoFault, LogInv, WhereOpen
  <2>2. /\ \A k \in Old : file'[k] = file[k] /\ (Exists(k)' <=> Exists(k))
        /\ Exists(Current) /\ Len(file'[Current]) = Len(file[Current]) + 1
    BY <1>5, Appended
  <2>3. Free' = Free /\ Slack' = Slack
    BY <2>2 DEF Free, Slack
  <2>4. Len(file[Current]) <= LogSize + faults + Slack
    BY <2>1, <2>2 DEF Sizes
  <2>5. Len(file'[Current]) <= LogSize + 1 + faults + Slack
    BY <2>2, <2>4, <1>1, <1>2, Names
  <2>6. Current' = Current /\ Current # NoFd
    BY Names DEF Current
  <2>7. QED
    BY <2>1, <2>2, <2>3, <2>5, <2>6, <1>1 DEF Sizes
<1>6. CASE MoveAside
  <2>1. PICK to \in Old : to = NextName
    BY <1>6, NextNameFree DEF MoveAside, Free
  <2>2. /\ pc = "rotate" /\ pc' = "close" /\ faults' = faults /\ Exists(Current)
        /\ Rename(Current, to)
    BY <1>6, <2>1 DEF MoveAside, NoFault, LogInv, WhereOpen
  <2>3. /\ file'[to] = file[Current] /\ file'[Current] = Missing
        /\ \A k \in Old : k # to => file'[k] = file[k]
    BY <2>2, <1>1, Renamed, Names
  <2>4. Len(file[Current]) <= LogSize + 2 + faults
    <3>1. Len(file[Current]) <= LogSize + 1 + faults + Slack
      BY <2>2 DEF Sizes
    <3>2. QED
      BY <3>1, <2>2, <1>1, <1>2, Names
  <2>5. \A k \in Old : Exists(k)' => Len(file'[k]) <= LogSize + 2 + faults'
    BY <2>2, <2>3, <2>4 DEF Sizes, Exists
  <2>6. ~Exists(Current)'
    BY <2>3 DEF Exists, Current
  <2>7. QED
    BY <2>5, <2>6 DEF Sizes
<1>7. CASE Shift
  <2>1. /\ pc = "shift" /\ i \in Old /\ i - 1 \in Old /\ i \in 1..(LogNumber - 1)
        /\ Exists(Current) /\ Exists(i)
        /\ pc' = "shift" /\ i' = i + 1 /\ faults' = faults
        /\ file'[i - 1] = file[i] /\ file'[i] = Missing
        /\ \A k \in File : k # i /\ k # i - 1 => file'[k] = file[k]
    BY <1>7, Shifted
  <2>2. \A k \in Old : Exists(k)' => Len(file'[k]) <= LogSize + 2 + faults'
    BY <2>1, Names DEF Sizes, Exists
  <2>3. file'[Current] = file[Current]
    BY <2>1, Names
  <2>4. Len(file[Current]) <= LogSize + 1 + faults
    BY <2>1 DEF Sizes
  <2>5. file'[i' - 1] = Missing
    BY <2>1
  <2>6. Current' = Current
    BY DEF Current
  <2>7. QED
    BY <2>1, <2>2, <2>3, <2>4, <2>5, <2>6 DEF Sizes, Exists
<1>8. QED
  BY <1>3, <1>4, <1>5, <1>6, <1>7 DEF Next, Log, LogRotate, Quiet

LEMMA SizesStart == Init => Sizes
<1> SUFFICES ASSUME Init PROVE Sizes
  OBVIOUS
<1>1. \A k \in File : ~Exists(k)
  BY DEF Init, Exists
<1>2. QED
  BY <1>1, Names DEF Sizes

-----------------------------------------------------------------------------
(* Theorems.                                                               *)

\* What the steps rest on holds in every state of the log.
THEOREM LogInvariant == Spec => []LogInv
BY LogStarts, LogStep, PTL DEF Spec

\* The lines of the files are in the order in which they were logged, unless a
\* rotation has been cut off, for any number of files (log.c: log_rotate, log_write).
THEOREM LinesStayInOrder == Spec => []InOrder
<1>1. LogInv => InOrder
  BY DEF LogInv
<1>2. QED
  BY <1>1, LogInvariant, PTL

\* With more than one name for old files, as the server asks for, no file outgrows
\* log_size by more than two lines and one for each crash or failure, and a line
\* goes only to the file that bears the name of the log (log.c: log_write,
\* log_rotate).  With only one name the shift renames nothing, and the current file
\* grows without a bound.
THEOREM FilesStaySound == ASSUME LogNumber > 1 PROVE Spec => []FilesSound
<1>1. LogInv /\ Sizes /\ [Next]_vars => (LogInv /\ Sizes)'
  BY LogStep, SizesStep
<1>2. LogInv /\ Sizes => FilesSound
  <2> SUFFICES ASSUME LogInv, Sizes PROVE FilesSound
    OBVIOUS
  <2>1. TypeOK /\ AppendsToCurrent
    BY DEF LogInv, WhereOpen, AppendsToCurrent
  <2>2. /\ faults \in Nat /\ LogSize \in Nat /\ Slack \in {0, 1}
        /\ pc \in {"idle", "rotate", "shift", "close", "open", "write", "down"}
    BY <2>1, Slackness, Names DEF TypeOK
  <2>3. pc = "idle" => fd = Current \/ fd = NoFd
    BY DEF LogInv, WhereOpen
  <2>4. Exists(Current) => Len(file[Current]) <= LogSize + 2 + faults
    <3> SUFFICES ASSUME Exists(Current)
                 PROVE  Len(file[Current]) <= LogSize + 2 + faults
      OBVIOUS
    <3>1. Len(file[Current]) \in Nat
      BY <2>1, Contents, Names
    <3>2. \/ Len(file[Current]) <= LogSize + 1 + faults + Slack
          \/ Len(file[Current]) <= LogSize + 1 + faults
          \/ Len(file[Current]) <= LogSize + faults + Slack
      BY <2>2, <2>3 DEF Sizes
    <3>3. QED
      BY <2>2, <3>1, <3>2
  <2>5. SizeBounded
    BY <2>4, Names DEF Sizes, SizeBounded
  <2>6. QED
    BY <2>1, <2>5 DEF FilesSound
<1>3. QED
  BY <1>1, <1>2, LogStarts, SizesStart, PTL DEF Spec

-----------------------------------------------------------------------------
(* What is dropped.                                                        *)

LEMMA LineOnDisk ==
  \A l : l \in OnDisk <=>
           \E k \in File : Exists(k) /\ \E x \in DOMAIN file[k] : l = file[k][x]
BY DEF OnDisk, Holds

LEMMA LineOnDiskNext ==
  \A l : l \in OnDisk' <=>
           \E k \in File : file'[k] # Missing /\ \E x \in DOMAIN file'[k] : l = file'[k][x]
<1>1. OnDisk' = UNION {IF file'[k] # Missing THEN {file'[k][n] : n \in DOMAIN file'[k]}
                       ELSE {} : k \in File}
  BY DEF OnDisk, Holds, Exists, File, Current, Old
<1>2. QED
  BY <1>1

\* A line is lost in the shift, with the file that a rename replaces.
LEMMA LostInShift ==
  ASSUME LogInv, [Next]_vars, NEW l \in OnDisk, l \notin OnDisk'
  PROVE  Shift /\ Exists(i - 1) /\ l \in Holds(i - 1)
<1>1. PICK k \in File : Exists(k) /\ \E x \in DOMAIN file[k] : l = file[k][x]
  BY LineOnDisk
<1>2. PICK x \in DOMAIN file[k] : l = file[k][x]
  BY <1>1
<1>3. ASSUME NEW m \in File, file'[m] # Missing,
             x \in DOMAIN file'[m], file'[m][x] = file[k][x]
      PROVE  FALSE
  BY <1>2, <1>3, LineOnDiskNext
<1>4. ASSUME NEW m \in File, file'[m] = file[k]
      PROVE  FALSE
  BY <1>1, <1>3, <1>4 DEF Exists
<1>5. ~Quiet
  BY <1>4, QuietFiles
<1>6. TypeOK
  BY DEF LogInv
<1>7. ~Open
  <2> SUFFICES ASSUME Open PROVE FALSE
    OBVIOUS
  <2>1. file'[k] = file[k]
    BY <1>1, <1>6, Names DEF Open, TypeOK
  <2>2. QED
    BY <2>1, <1>4
<1>8. ~Write
  <2> SUFFICES ASSUME Write PROVE FALSE
    OBVIOUS
  <2>1. k = Current
    BY <1>4, Appended, Names
  <2>2. /\ file'[Current] # Missing /\ file'[Current] \in Seq(1..MaxLines)
        /\ Len(file'[Current]) = Len(file[Current]) + 1
        /\ file'[Current][x] = file[Current][x]
    BY <2>1, Appended, LinesExist
  <2>3. DOMAIN file'[Current] = 1..Len(file'[Current])
    BY <2>2, LenProperties
  <2>4. x \in 1..Len(file[Current]) /\ Len(file[Current]) \in Nat
    BY <2>1, <1>1, <1>6, Contents
  <2>5. x \in DOMAIN file'[Current]
    BY <2>2, <2>3, <2>4
  <2>6. QED
    BY <2>1, <2>2, <2>5, <1>3, Names
<1>9. ~MoveAside
  <2> SUFFICES ASSUME MoveAside PROVE FALSE
    OBVIOUS
  <2>1. PICK to \in Old : to = NextName /\ ~Exists(to)
    BY NextNameFree DEF MoveAside, Free
  <2>2. Rename(Current, to)
    BY <2>1 DEF MoveAside
  <2>3. /\ file'[to] = file[Current]
        /\ \A m \in File : m # Current /\ m # to => file'[m] = file[m]
    BY <2>2, <1>6, Renamed, Names
  <2>4. k # to
    BY <2>1, <1>1
  <2>5. QED
    BY <2>3, <2>4, <1>4, Names
<1>10. Shift
  BY <1>5, <1>7, <1>8, <1>9 DEF Next, Log, LogRotate, Quiet
<1>11. /\ file'[i - 1] = file[i] /\ i - 1 \in File
       /\ \A m \in File : m # i /\ m # i - 1 => file'[m] = file[m]
  BY <1>10, Shifted, Names
<1>12. k = i - 1
  BY <1>11, <1>4
<1>13. QED
  BY <1>1, <1>2, <1>10, <1>12 DEF Holds

\* While no rotation is cut off, it is the file 0 that loses its lines, and in all
\* the others, the current one included, there are more than log_size later ones.
LEMMA LaterFilesFull ==
  ASSUME LogInv, ~cut, Shift, Exists(i - 1), NEW l \in Holds(i - 1)
  PROVE  /\ i = 1
         /\ \A k \in 1..LogNumber :
              /\ Exists(k) /\ k \in File
              /\ 1..(LogSize + 1) \subseteq DOMAIN file[k]
              /\ \A x \in DOMAIN file[k] : file[k][x] > l
<1>1. /\ TypeOK /\ pc = "shift" /\ i \in 1..(LogNumber - 1) /\ i - 1 \in Old
      /\ Exists(Current) /\ Exists(i)
  BY Shifted
<1>2. i = 1
  <2>1. ~skipped /\ (i > 1 /\ ~skipped => ~Exists(i - 1))
    BY <1>1 DEF LogInv, NoGap, Shifting
  <2>2. QED
    BY <2>1, <1>1
<1>3. PICK z \in DOMAIN file[0] : l = file[0][z]
  BY <1>2 DEF Holds
<1>4. ASSUME NEW k \in 1..LogNumber
      PROVE  /\ Exists(k) /\ k \in File
             /\ 1..(LogSize + 1) \subseteq DOMAIN file[k]
             /\ \A x \in DOMAIN file[k] : file[k][x] > l
  <2>1. k \in File /\ (k \in Old \/ k = Current) /\ k > 0 /\ 0 \in File /\ Exists(0)
    BY <1>1, <1>2, Names
  <2>2. Exists(k)
    BY <2>1, <1>1, <1>2 DEF LogInv, Shifting
  <2>3. Len(file[k]) > LogSize
    BY <2>1, <2>2, <1>1 DEF LogInv, AsideFull
  <2>4. Len(file[k]) \in Nat /\ DOMAIN file[k] = 1..Len(file[k])
    BY <2>1, <2>2, <1>1, Contents
  <2>5. \A x \in DOMAIN file[k] : file[0][z] < file[k][x]
    BY <2>1, <2>2, <1>3 DEF LogInv, InOrder
  <2>6. \A x \in DOMAIN file[k] : file[k][x] \in 1..MaxLines
    BY <2>1, <2>2, <1>1, Contents
  <2>7. file[0][z] \in 1..MaxLines
    BY <2>1, <1>1, <1>3, Contents
  <2>8. QED
    BY <2>1, <2>2, <2>3, <2>4, <2>5, <2>6, <2>7, <1>3, Names
<1>5. QED
  BY <1>2, <1>4

\* What the other files hold is there after the rename.
LEMMA LaterKept ==
  ASSUME LogInv, Shift, i = 1, NEW k \in 1..LogNumber, Exists(k),
         NEW x \in DOMAIN file[k]
  PROVE  file[k][x] \in OnDisk'
<1>1. /\ file'[0] = file[1]
      /\ \A m \in File : m # 1 /\ m # 0 => file'[m] = file[m]
  BY Shifted
<1>2. k \in File /\ 0 \in File /\ k # 0
  BY Names
<1>3. PICK m \in File : file'[m] = file[k]
  BY <1>1, <1>2
<1>4. QED
  BY <1>3, LineOnDiskNext DEF Exists

LEMMA DroppedLate ==
  ASSUME LogInv, TypeOK', ~cut, Shift, Exists(i - 1), NEW l \in Holds(i - 1)
  PROVE  Cardinality({m \in OnDisk' : m > l}) >= LogNumber * (LogSize + 1)
<1> DEFINE S == (1..LogNumber) \X (1..(LogSize + 1))
           T == {m \in OnDisk' : m > l}
           F == [p \in S |-> file[p[1]][p[2]]]
<1>1. /\ i = 1
      /\ \A k \in 1..LogNumber :
           /\ Exists(k) /\ k \in File
           /\ 1..(LogSize + 1) \subseteq DOMAIN file[k]
           /\ \A x \in DOMAIN file[k] : file[k][x] > l
  BY LaterFilesFull
<1>2. F \in [S -> T]
  BY <1>1, LaterKept
<1>3. ASSUME NEW a \in S, NEW b \in S, F[a] = F[b]
      PROVE  a = b
  <2>1. /\ a[1] \in 1..LogNumber /\ b[1] \in 1..LogNumber
        /\ a[2] \in 1..(LogSize + 1) /\ b[2] \in 1..(LogSize + 1)
        /\ a = <<a[1], a[2]>> /\ b = <<b[1], b[2]>>
    OBVIOUS
  <2>2. /\ a[2] \in DOMAIN file[a[1]] /\ b[2] \in DOMAIN file[b[1]]
        /\ file[a[1]][a[2]] = file[b[1]][b[2]]
    BY <2>1, <1>1, <1>3
  <2>3. \A k, m \in File : Exists(k) /\ Exists(m) =>
          \A x \in DOMAIN file[k] : \A y \in DOMAIN file[m] :
            k < m \/ (k = m /\ x < y) => file[k][x] < file[m][y]
    BY DEF LogInv, InOrder
  <2>4. file[a[1]][a[2]] \in 1..MaxLines
    BY <1>1, <2>1, <2>2, Contents DEF LogInv
  <2>5. /\ a[1] \in File /\ Exists(a[1]) /\ b[1] \in File /\ Exists(b[1])
    BY <2>1, <1>1
  <2>6. ~(a[1] < b[1] \/ (a[1] = b[1] /\ a[2] < b[2]))
    BY <2>2, <2>3, <2>4, <2>5, Names
  <2>7. ~(b[1] < a[1] \/ (b[1] = a[1] /\ b[2] < a[2]))
    BY <2>2, <2>3, <2>4, <2>5, Names
  <2>8. QED
    BY <2>1, <2>6, <2>7, Names
<1>4. IsFiniteSet(T)
  <2>2. \A k \in File : file'[k] # Missing =>
          \A x \in DOMAIN file'[k] : file'[k][x] \in 1..MaxLines
    <3>1. \A k \in File : file'[k] # Missing => file'[k] \in Seq(1..MaxLines)
      BY DEF TypeOK, File, Old, Current
    <3>2. QED
      BY <3>1, ElementOfSeq, LenProperties
  <2>3. T \subseteq 1..MaxLines
    BY <2>2, LineOnDiskNext
  <2>4. MaxLines \in Int /\ IsFiniteSet(1..MaxLines)
    BY FS_Interval, Names
  <2> HIDE DEF T
  <2>5. QED
    BY <2>3, <2>4, FS_Subset
<1>5. /\ IsFiniteSet(1..LogNumber) /\ Cardinality(1..LogNumber) = LogNumber
      /\ IsFiniteSet(1..(LogSize + 1)) /\ Cardinality(1..(LogSize + 1)) = LogSize + 1
  BY FS_Interval, Names
<1>6. Cardinality(S) = LogNumber * (LogSize + 1)
  <2>1. Cardinality((1..LogNumber) \X (1..(LogSize + 1)))
          = Cardinality(1..LogNumber) * Cardinality(1..(LogSize + 1))
    BY <1>5, FS_Product
  <2>2. QED
    BY <1>5, <2>1
<1>7. F \in Injection(S, T)
  <2> HIDE DEF F, S, T
  <2> QED  BY <1>2, <1>3, Fun_IsInj
<1>8. Cardinality(S) <= Cardinality(T)
  <2> HIDE DEF F, S, T
  <2> QED  BY <1>4, <1>7, FS_Injection
<1>9. Cardinality(S) \in Nat /\ Cardinality(T) \in Nat
  <2>1. IsFiniteSet(S)
    BY <1>5, FS_Product
  <2> HIDE DEF S, T
  <2> QED  BY <2>1, <1>4, FS_CardinalityType
<1>10. QED
  BY <1>6, <1>8, <1>9

\* Whatever crashes and fails, what is dropped goes with a file that a rename of
\* the shift replaces, the file 0 unless an earlier rename has failed; and unless a
\* rotation is cut off, only when all files are full of later lines, for any number
\* and size of them (log.c: log_rotate).
THEOREM OldestFirst == Spec => OldestDropped
<1>1. LogInv /\ [Next]_vars =>
        (~(OnDisk \subseteq OnDisk') =>
           /\ pc = "shift"
           /\ (i = 1 /\ OnDisk \ OnDisk' \subseteq Holds(0)) \/ skipped)
  <2> SUFFICES ASSUME LogInv, [Next]_vars, ~(OnDisk \subseteq OnDisk')
               PROVE  /\ pc = "shift"
                      /\ (i = 1 /\ OnDisk \ OnDisk' \subseteq Holds(0)) \/ skipped
    OBVIOUS
  <2>1. \A l \in OnDisk \ OnDisk' : Shift /\ Exists(i - 1) /\ l \in Holds(i - 1)
    BY LostInShift
  <2>2. Shift /\ Exists(i - 1)
    BY <2>1
  <2>3. pc = "shift" /\ i \in Nat /\ i >= 1
    BY <2>2, Shifted
  <2>4. i = 1 \/ skipped
    BY <2>2, <2>3 DEF LogInv, Shifting
  <2>5. i = 1 => OnDisk \ OnDisk' \subseteq Holds(0)
    BY <2>1
  <2>6. QED
    BY <2>3, <2>4, <2>5
<1>2. LogInv /\ LogInv' /\ [Next]_vars =>
        (~cut' => \A l \in OnDisk \ OnDisk' :
           Cardinality(LaterLines(l)') >= LogNumber * (LogSize + 1))
  <2> SUFFICES ASSUME LogInv, LogInv', [Next]_vars, ~cut', NEW l \in OnDisk, l \notin OnDisk'
               PROVE  Cardinality({m \in OnDisk' : m > l}) >= LogNumber * (LogSize + 1)
    BY DEF LaterLines
  <2>1. Shift /\ Exists(i - 1) /\ l \in Holds(i - 1)
    BY LostInShift
  <2>2. ~cut /\ TypeOK'
    BY <2>1 DEF Shift, NoFault, LogInv
  <2>3. QED
    BY <2>1, <2>2, DroppedLate
<1>3. Spec => OnlyFileZeroDropped
  BY <1>1, LogInvariant, PTL DEF Spec, OnlyFileZeroDropped
<1>4. Spec => DroppedIsOld
  BY <1>2, LogInvariant, PTL DEF Spec, DroppedIsOld
<1>5. QED
  BY <1>3, <1>4 DEF OldestDropped

=============================================================================
