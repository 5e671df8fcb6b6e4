------------------------------ MODULE GeoLoad ------------------------------
(***************************************************************************)
(* Reading a geo file: geo_load of src/geo.c, which calls itself for every *)
(* include line, and geo_unload.                                           *)
(*                                                                         *)
(* What a line does to the table is the matter of GeoCidr and Range; here  *)
(* it is carried out or rejected, or it is never done with.                *)
(***************************************************************************)
EXTENDS Integers, Sequences, SequencesExt

CONSTANTS
  File,     \* names of files
  Main,     \* the file the server is given
  Texts,    \* what a file may hold: sequences of lines
  Missing,  \* what a file that cannot be opened holds
  MaxOpen   \* files the process may have open

\* A "last" line is one of a file that is loaded with -r, for a range that ends
\* in the last block of 65536 addresses.
Kinds == {"blank", "good", "bad", "last"}
Line  == Kinds \cup File

ASSUME GeoLoadAssumption ==
  /\ Main \in File
  /\ Kinds \cap File = {}
  /\ Texts \subseteq Seq(Line) /\ Missing \notin Texts
  /\ MaxOpen \in Nat \ {0}

VARIABLES
  content,  \* what each file holds
  table,    \* the geo_t: "none", "live" or "freed"
  pc,       \* "create", "open", "read", "null" (an inner call has returned NULL),
            \* "done", "aborted" in geo_unload, or "endless" in range_insert
  opening,  \* the file to open next
  stack,    \* the running calls, innermost first: file and number of lines read
  open,     \* FILEs that have not been closed
  result,   \* what the outermost call has returned, "none" while it runs
  applied,  \* history: the lines carried out, as file and number
  cut       \* history: a read has failed

vars == <<content, table, pc, opening, stack, open, result, applied, cut>>

Top  == Head(stack)
Text == content[Top.file]

\* (a bug: the call that gets NULL for an include reads on)
ReturnFromIgnored(rest, ret) ==
  /\ stack' = rest
  /\ pc' = IF rest = <<>> THEN "done" ELSE "read"
  /\ result' = IF rest = <<>> THEN ret ELSE result

\* The call on top of the stack returns, with the geo_t or with NULL.
ReturnFrom(rest, ret) ==
  /\ stack' = rest
  /\ pc' = IF rest = <<>> THEN "done" ELSE IF ret = "geo" THEN "read" ELSE "null"
  /\ result' = IF rest = <<>> THEN ret ELSE result

\* (a bug: the file is not closed)
CloseForgotten == UNCHANGED open

\* (a bug: the file is closed twice)
CloseTwice == open' = open - 2

Close == open' = open - 1

\* The geo_t and its trie or table are allocated, or cannot be.
Create ==
  /\ pc = "create"
  /\ \/ table' = "live" /\ pc' = "open" /\ UNCHANGED <<stack, result>>
     \/ UNCHANGED table /\ ReturnFrom(<<>>, "NULL")
  /\ UNCHANGED <<content, opening, open, applied, cut>>

Fopen ==
  /\ pc = "open"
  /\ content[opening] # Missing /\ open < MaxOpen
  /\ open' = open + 1
  /\ stack' = <<[file |-> opening, read |-> 0]>> \o stack
  /\ pc' = "read"
  /\ UNCHANGED <<content, table, opening, result, applied, cut>>

\* (a bug: without a free descriptor, opening is tried again)
FopenRetried ==
  /\ pc = "open"
  /\ IF content[opening] = Missing THEN ReturnFrom(stack, "NULL")
     ELSE open = MaxOpen /\ UNCHANGED <<stack, pc, result>>
  /\ UNCHANGED <<content, table, opening, open, applied, cut>>

\* Nothing is unloaded here, not even by the outermost call.
FopenFails ==
  /\ pc = "open"
  /\ content[opening] = Missing \/ open = MaxOpen
  /\ ReturnFrom(stack, "NULL")
  /\ UNCHANGED <<content, table, opening, open, applied, cut>>

\* The next line of the file is of one of the kinds in K.
Reading(K) ==
  /\ pc = "read"
  /\ Top.read < Len(Text) /\ Text[Top.read + 1] \in K

NextLine == stack' = [stack EXCEPT ![1].read = @ + 1]

Skip ==
  /\ Reading({"blank"})
  /\ NextLine
  /\ UNCHANGED <<content, table, pc, opening, open, result, applied, cut>>

Apply ==
  /\ Reading({"good"})
  /\ NextLine
  /\ applied' = Append(applied, <<Top.file, Top.read + 1>>)
  /\ UNCHANGED <<content, table, pc, opening, open, result, cut>>

Include ==
  /\ Reading(File)
  /\ NextLine
  /\ opening' = Text[Top.read + 1]
  /\ pc' = "open"
  /\ UNCHANGED <<content, table, open, result, applied, cut>>

\* From the last block range_insert goes on to the first, and every block is in
\* the range: it returns, with -1, only when it meets a clash or finds no memory.
InsertNeverReturns ==
  /\ Reading({"last"})
  /\ pc' = "endless"
  /\ UNCHANGED <<content, table, opening, stack, open, result, applied, cut>>

EndOfFile ==
  /\ pc = "read" /\ Top.read = Len(Text)
  /\ Close
  /\ ReturnFrom(Tail(stack), "geo")
  /\ UNCHANGED <<content, table, opening, applied, cut>>

\* fgets returns NULL for a read that fails, too, be it the first one of a
\* directory, and geo_load does not ask which it was.
ReadFails ==
  /\ pc = "read"
  /\ cut' = TRUE
  /\ Close
  /\ ReturnFrom(Tail(stack), "geo")
  /\ UNCHANGED <<content, table, opening, applied>>

\* A line is rejected, or the file it includes has failed.
Failed == Reading({"bad", "last"}) \/ pc = "null"

\* geo_unload reads geo_mode: of a geo_t that has been freed already it may be
\* anything, and the blocks are freed again or the assertion aborts.
Unload ==
  /\ Failed
  /\ Close
  /\ table' = "freed"
  /\ \/ ReturnFrom(Tail(stack), "NULL")
     \/ table = "freed" /\ pc' = "aborted" /\ UNCHANGED <<stack, result>>
  /\ UNCHANGED <<content, opening, applied, cut>>

Init ==
  /\ content \in [File -> Texts \cup {Missing}]
  /\ table = "none" /\ pc = "create" /\ opening = Main
  /\ stack = <<>> /\ open = 0 /\ result = "none" /\ applied = <<>> /\ cut = FALSE

Ended == pc \in {"done", "aborted", "endless"} /\ UNCHANGED vars

Load == Create \/ Fopen \/ FopenFails \/ Skip \/ Apply \/ InsertNeverReturns
        \/ Include \/ EndOfFile \/ ReadFails \/ Unload

Next == Load \/ Ended

Spec == Init /\ [][Next]_vars

-----------------------------------------------------------------------------
(* Properties.                                                              *)

\* The calls on the stack are in files, at lines they have.
TypeOK ==
  /\ content \in [File -> Texts \cup {Missing}]
  /\ table \in {"none", "live", "freed"}
  /\ pc \in {"create", "open", "read", "null", "done", "aborted", "endless"}
  /\ opening \in File
  /\ \A i \in DOMAIN stack :
       /\ stack[i].file \in File /\ content[stack[i].file] # Missing
       /\ stack[i].read \in 0..Len(content[stack[i].file])
  /\ open \in 0..MaxOpen
  /\ result \in {"none", "geo", "NULL"}
  /\ applied \in Seq(File \X (Nat \ {0}))
  /\ cut \in BOOLEAN

\* The lines a file stands for when its includes are put in place, d deep.
Expansion ==
  LET expand[d \in 0..MaxOpen] ==
        [f \in File |->
           IF d = 0 \/ content[f] = Missing THEN <<>>
           ELSE FlattenSeq([i \in DOMAIN content[f] |->
                  CASE content[f][i] \in File -> expand[d - 1][content[f][i]]
                    [] content[f][i] = "good" -> <<<<f, i>>>>
                    [] OTHER -> <<>>])]
  IN expand[MaxOpen]

\* The table that is handed to the server is still there, and unless a read has
\* failed every line of every included file has been carried out, each include in
\* its place: the first line that fails, in whatever file, fails the whole
\* (geo.c: geo_load).
LoadedWhole ==
  result = "geo" => table = "live" /\ (~cut => applied = Expansion[Main])

\* Nothing is carried out on a table that has been unloaded, however deep the
\* failure was (geo.c: geo_load).
NothingAfterUnload == [][table = "freed" => applied' = applied]_vars

\* Whichever way the calls return, they leave no file open (geo.c: geo_load).
FilesClosed == pc = "done" => open = 0

\* geo.c:346, "should NOT get here": geo_unload always finds a mode it knows.
ModeKnown == pc # "aborted"

=============================================================================
