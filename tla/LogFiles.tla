------------------------------ MODULE LogFiles ------------------------------
(***************************************************************************)
(* The log of src/log.c: log_write appends lines to one file, and          *)
(* log_rotate puts it aside under a numbered name when it has grown.       *)
(*                                                                         *)
(* The process may die between any two system calls and be started again:  *)
(* what is on disk stays, what it had open does not.  Lines are numbered;  *)
(* a line of which only a part could be written is a line on disk.         *)
(***************************************************************************)
EXTENDS Integers, Sequences, FiniteSets

CONSTANTS
  LogSize,    \* log_size, in lines
  LogNumber,  \* log_number: path.0 to path.(LogNumber - 1) are kept
  Missing,    \* what a file that does not exist holds
  MaxLines,   \* bound on the lines logged
  MaxFaults   \* bound on crashes and failing calls

ASSUME LogAssumption ==
  /\ LogSize \in Nat /\ LogNumber \in Nat \ {0}
  /\ MaxLines \in Nat /\ MaxFaults \in Nat
  /\ Missing \notin Seq(Nat)

\* path.i is the file i, and path itself the file LogNumber: of two files that
\* are rotated in order, the older has the lower number.
Current == LogNumber
Old     == 0..(LogNumber - 1)
File    == Old \cup {Current}

VARIABLES
  file,    \* what each file holds
  fd,      \* the file log_files[0].fd is open on, under whatever name it has now
  pc,      \* "idle"; where log_write is: "rotate", "shift", "close", "open",
           \* "write"; or "down" when the process is not running
  i,       \* the loop of renames in log_rotate
  line,    \* the last line given to log_write
  faults,  \* history: crashes and failed calls so far
  cut,     \* history: whether a crash or a failing rename has cut off a rotation
  skipped  \* history: whether a rename of the last rotation has failed

vars == <<file, fd, pc, i, line, faults, cut, skipped>>

Exists(k) == file[k] # Missing
Free == {k \in Old : ~Exists(k)}

NoFd == -1

\* (a bug: a file that has just reached log_size is full)
FullTooSoon == Len(file[fd]) >= LogSize

Full == Len(file[fd]) > LogSize

\* rename of one file to the name of another, which is replaced.
Rename(from, to) ==
  /\ file' = [file EXCEPT ![to] = file[from], ![from] = Missing]
  /\ fd' = IF fd = from THEN to ELSE fd

NoFault == UNCHANGED <<faults, cut, skipped>>
Fault   == faults < MaxFaults /\ faults' = faults + 1

-----------------------------------------------------------------------------
(* log_init, log_write.                                                    *)

\* Nothing is opened before the first line.
LogInit ==
  /\ pc = "down"
  /\ pc' = "idle" /\ fd' = NoFd
  /\ UNCHANGED <<file, i, line>> /\ NoFault

LogWrite ==
  /\ pc = "idle" /\ line < MaxLines
  /\ line' = line + 1
  /\ pc' = IF fd # NoFd THEN "rotate" ELSE "open"
  /\ UNCHANGED <<file, fd, i>> /\ NoFault

\* log_rotate has returned 0: the file is closed, to be opened under its name.
Close ==
  /\ pc = "close"
  /\ fd' = NoFd /\ pc' = "open"
  /\ UNCHANGED <<file, i, line>> /\ NoFault

Open ==
  /\ pc = "open"
  /\ file' = [file EXCEPT ![Current] = IF Exists(Current) THEN @ ELSE <<>>]
  /\ fd' = Current /\ pc' = "write"
  /\ UNCHANGED <<i, line>> /\ NoFault

\* The line is lost; the next one tries to open the file again.
OpenFails ==
  /\ pc = "open"
  /\ pc' = "idle"
  /\ Fault
  /\ UNCHANGED <<file, fd, i, line, cut, skipped>>

Write ==
  /\ pc = "write"
  /\ file' = [file EXCEPT ![fd] = Append(@, line)]
  /\ pc' = "idle"
  /\ UNCHANGED <<fd, i, line>> /\ NoFault

WriteFails ==
  /\ pc = "write"
  /\ pc' = "idle"
  /\ Fault
  /\ UNCHANGED <<file, fd, i, line, cut, skipped>>

-----------------------------------------------------------------------------
(* log_rotate.                                                             *)

FstatFails ==
  /\ pc = "rotate"
  /\ pc' = "close"
  /\ Fault
  /\ UNCHANGED <<file, fd, i, line, cut, skipped>>

NotFull ==
  /\ pc = "rotate" /\ ~Full
  /\ pc' = "write"
  /\ UNCHANGED <<file, fd, i, line>> /\ NoFault

\* (a bug: the loop runs down from the last name)
NextNameHighest == CHOOSE k \in Free : \A m \in Free : m <= k

\* The first numbered name that is free.
NextName == CHOOSE k \in Free : \A m \in Free : k <= m

\* (a bug: log_rotate returns -1, as if nothing had been moved)
MoveAsideStaysOpen ==
  /\ pc = "rotate" /\ Full /\ Free # {}
  /\ Rename(Current, NextName)
  /\ pc' = "write"
  /\ UNCHANGED <<i, line>> /\ NoFault

MoveAside ==
  /\ pc = "rotate" /\ Full /\ Free # {}
  /\ Rename(Current, NextName)
  /\ pc' = "close"
  /\ UNCHANGED <<i, line>> /\ NoFault

\* The result of rename is not looked at: the same file is opened again.
MoveAsideFails ==
  /\ pc = "rotate" /\ Full /\ Free # {}
  /\ pc' = "close"
  /\ Fault
  /\ UNCHANGED <<file, fd, i, line, cut, skipped>>

\* (a bug: all names taken, nothing is done)
AllTakenIgnored ==
  /\ pc = "rotate" /\ Full /\ Free = {}
  /\ pc' = "write"
  /\ UNCHANGED <<file, fd, i, line>> /\ NoFault

\* All names are taken: the files move down by one, path.1 over path.0.
AllTaken ==
  /\ pc = "rotate" /\ Full /\ Free = {}
  /\ pc' = "shift" /\ i' = 1 /\ skipped' = FALSE
  /\ UNCHANGED <<file, fd, line, faults, cut>>

\* (a bug: the renames begin with the last file)
ShiftFromTop ==
  /\ pc = "shift" /\ i < LogNumber
  /\ Rename(LogNumber - i, LogNumber - i - 1)
  /\ i' = i + 1
  /\ UNCHANGED <<pc, line>> /\ NoFault

\* (a bug: the loop does not end before the current file)
ShiftTooFar ==
  /\ pc = "shift" /\ i <= LogNumber
  /\ Rename(i, i - 1)
  /\ i' = i + 1
  /\ UNCHANGED <<pc, line>> /\ NoFault

Shift ==
  /\ pc = "shift" /\ i < LogNumber
  /\ Rename(i, i - 1)
  /\ i' = i + 1
  /\ UNCHANGED <<pc, line>> /\ NoFault

ShiftFails ==
  /\ pc = "shift" /\ i < LogNumber
  /\ i' = i + 1
  /\ cut' = TRUE /\ skipped' = TRUE
  /\ Fault
  /\ UNCHANGED <<file, fd, pc, line>>

\* log_rotate returns -1: this line still goes to the file that is full.
ShiftDone ==
  /\ pc = "shift" /\ i = LogNumber
  /\ pc' = "write"
  /\ UNCHANGED <<file, fd, i, line>> /\ NoFault

-----------------------------------------------------------------------------
(* The process.                                                            *)

Crash ==
  /\ pc # "down"
  /\ pc' = "down" /\ fd' = NoFd
  /\ cut' = (cut \/ pc = "shift")
  /\ Fault
  /\ UNCHANGED <<file, i, line, skipped>>

Init ==
  /\ file = [k \in File |-> Missing]
  /\ fd = NoFd /\ pc = "down" /\ i = 1
  /\ line = 0 /\ faults = 0 /\ cut = FALSE /\ skipped = FALSE

LogRotate == \/ FstatFails \/ NotFull \/ MoveAside \/ MoveAsideFails
             \/ AllTaken \/ Shift \/ ShiftFails \/ ShiftDone

Log == LogWrite \/ LogRotate \/ Close \/ Open \/ OpenFails \/ Write \/ WriteFails

\* The bound on the lines is reached.
Done == pc = "idle" /\ line = MaxLines /\ UNCHANGED vars

Next == LogInit \/ Log \/ Crash \/ Done

Spec == Init /\ [][Next]_vars

-----------------------------------------------------------------------------
(* Properties.                                                             *)

TypeOK ==
  /\ file \in [File -> Seq(1..MaxLines) \cup {Missing}]
  /\ fd \in File \cup {NoFd}
  /\ pc \in {"idle", "rotate", "shift", "close", "open", "write", "down"}
  /\ i \in 1..LogNumber
  /\ line \in 0..MaxLines /\ faults \in 0..MaxFaults
  /\ cut \in BOOLEAN /\ skipped \in BOOLEAN

Holds(k)  == IF Exists(k) THEN {file[k][n] : n \in DOMAIN file[k]} ELSE {}
OnDisk    == UNION {Holds(k) : k \in File}

\* Whatever crashes and fails, and at whatever point of a rotation, what goes
\* from the disk goes from path.0, when all names were taken; unless a rename of
\* the rotation has failed, for the next one then replaces the file it has left
\* behind (log.c: log_rotate).
OnlyFileZeroDropped ==
  [][~(OnDisk \subseteq OnDisk') =>
       /\ pc = "shift"
       /\ (i = 1 /\ OnDisk \ OnDisk' \subseteq Holds(0)) \/ skipped]_vars

\* The lines of a file, and of the files one after another, are in the order in
\* which they were logged: a rotation between any two of its renames, crashes
\* outside of one, and all failures but that of a rename included
\* (log.c: log_rotate, log_write).
InOrder ==
  ~cut =>
    \A k, m \in File : Exists(k) /\ Exists(m) =>
      \A x \in DOMAIN file[k] : \A y \in DOMAIN file[m] :
        k < m \/ (k = m /\ x < y) => file[k][x] < file[m][y]

\* A line goes only when LogNumber full files of later ones are there
\* (log.c: log_rotate; log.h: LOG_FILE_NUM, LOG_FILE_SIZE).
LaterLines(l) == {m \in OnDisk : m > l}

DroppedIsOld ==
  [][~cut' => \A l \in OnDisk \ OnDisk' :
       Cardinality(LaterLines(l)') >= LogNumber * (LogSize + 1)]_vars

\* A file grows two lines beyond log_size, the second after the rotation that
\* finds all names taken, and by one more for each crash or failure
\* (log.c: log_write, which does not look at the size of a file it opens).
SizeBounded ==
  \A k \in File : Exists(k) => Len(file[k]) <= LogSize + 2 + faults

\* A line goes to the file that bears the name of the log, never to one that has
\* been put aside (log.c: log_write, where it closes the file).
AppendsToCurrent == pc = "write" => fd = Current /\ Exists(Current)

\* Whatever crashes and fails, the files stay within their size, and lines go to
\* the one that is current (log.c: log_write, log_rotate).
FilesSound == TypeOK /\ SizeBounded /\ AppendsToCurrent

\* Lines are dropped with the oldest file, and late (log.c: log_rotate).
OldestDropped == OnlyFileZeroDropped /\ DroppedIsOld

=============================================================================
