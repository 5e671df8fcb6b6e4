----------------------------- MODULE DnsProofs -----------------------------
(***************************************************************************)
(* Theorems about the walk over a DNS answer, for any packets and any geo  *)
(* table: it stays in the packet and goes forward.  And, where the packets *)
(* are the messages of a server, for any such messages: the answers come   *)
(* out translated.                                                         *)
(***************************************************************************)
EXTENDS DnsMessages, SequenceTheorems, WellFoundedInduction, TLAPS

\* Offsets have a least one.
LEMMA LeastOffset ==
  ASSUME NEW T, T \subseteq Nat, T # {}
  PROVE  \E x \in T : \A y \in T : x <= y
<1> DEFINE R == {ss \in Nat \X Nat : ss[1] < ss[2]}
<1>1. IsWellFoundedOn(R, Nat)
  BY NatLessThanWellFounded, Zenon DEF OpToRel
<1>2. PICK x \in T : \A y \in T : <<y, x>> \notin R
  <2> HIDE DEF R
  <2> QED  BY <1>1, WFMin
<1>3. \A y \in T : ~(y < x)
  BY <1>2
<1>4. QED
  BY <1>3

\* A scan ends at its start or later, and not beyond its stop.
LEMMA ScanEnds ==
  ASSUME NEW o \in Nat, NEW stop \in Int
  PROVE  /\ FirstZero(o, stop) \in Nat
         /\ FirstZero(o, stop) >= o
         /\ o < stop => FirstZero(o, stop) <= stop
         /\ o >= stop => FirstZero(o, stop) = o
<1>1. Zeros(o, stop) \subseteq o..(stop - 1)
  BY DEF Zeros
<1>2. CASE Zeros(o, stop) = {}
  BY <1>2 DEF FirstZero
<1>3. CASE Zeros(o, stop) # {}
  <2> DEFINE z == CHOOSE z \in Zeros(o, stop) :
                    \A y \in Zeros(o, stop) : z <= y
  <2>1. Zeros(o, stop) \subseteq Nat
    BY <1>1
  <2>2. \E x \in Zeros(o, stop) : \A y \in Zeros(o, stop) : x <= y
    BY <2>1, <1>3, LeastOffset
  <2>3. z \in Zeros(o, stop)
    BY <2>2
  <2>4. FirstZero(o, stop) = z
    BY <1>3 DEF FirstZero
  <2> HIDE DEF z
  <2>5. QED
    BY <2>3, <2>4, <1>1
<1>4. QED
  BY <1>2, <1>3

\* What a step of the walk may rely on: the buffer holds bytes, and where p is.
WalkInv ==
  /\ TypeOK
  /\ pc = "header" => p = 0
  /\ pc = "question" => p = HeaderLen
  /\ pc = "answers" => p >= HeaderLen
  /\ pc = "address" => p + 12 < End

\* Where the packet ends is a number.
LEMMA EndNat == ASSUME TypeOK PROVE End \in Nat
BY LenProperties DEF TypeOK, End

\* Bytes are bytes, wherever they are read.
LEMMA ByteRead ==
  ASSUME TypeOK
  PROVE  /\ End \in Nat
         /\ \A o \in Nat : At(o) \in Byte /\ U16(o) \in Nat /\ U16(o) <= 65535
<1>1. pkt \in Seq(Byte) /\ End \in Nat
  BY LenProperties DEF TypeOK, End
<1>2. ASSUME NEW o \in Nat
      PROVE  At(o) \in Byte
  <2>1. CASE o < End
    <3>1. o + 1 \in 1..Len(pkt)
      BY <2>1, <1>1 DEF End
    <3>2. pkt[o + 1] \in Byte
      BY <3>1, <1>1, ElementOfSeq
    <3>3. QED
      BY <3>2, <2>1 DEF At
  <2>2. CASE ~(o < End)
    BY <2>2 DEF At, Byte
  <2>3. QED
    BY <2>1, <2>2
<1>3. ASSUME NEW o \in Nat
      PROVE  U16(o) \in Nat /\ U16(o) <= 65535
  <2>1. At(o) \in 0..255 /\ At(o + 1) \in 0..255
    BY <1>2 DEF Byte
  <2> DEFINE high == At(o)
             low  == At(o + 1)
  <2>2. U16(o) = 256 * high + low
    BY DEF U16
  <2>3. high \in 0..255 /\ low \in 0..255
    BY <2>1
  <2> HIDE DEF high, low
  <2>4. 256 * high + low \in Nat /\ 256 * high + low <= 65535
    BY <2>3
  <2>5. QED
    BY <2>2, <2>4
<1>4. QED
  BY <1>1, <1>2, <1>3

\* Where there is room for a record, p is left at most one byte further back, and
\* the record that begins there is in the packet.
LEMMA NameSkipped ==
  ASSUME TypeOK, p >= HeaderLen, ~NoAnswer
  PROVE  /\ NameEnd(p) \in Nat
         /\ NameEnd(p) >= p - 1
         /\ NameEnd(p) + 12 < End
<1>1. End \in Nat /\ p \in Nat /\ p < End - 12
  BY EndNat DEF TypeOK, NoAnswer
<1>2. /\ FirstZero(p, End - 12) \in Nat
      /\ FirstZero(p, End - 12) >= p
      /\ FirstZero(p, End - 12) <= End - 12
  BY <1>1, ScanEnds
<1>3. QED
  BY <1>1, <1>2 DEF NameEnd, HeaderLen

\* What is to be shown of a step that leaves the buffer alone.
LEMMA PacketKept ==
  ASSUME TypeOK, UNCHANGED <<input, pkt>>,
         p' \in Nat, pc' \in {"question", "answers", "address", "done"},
         pc' # "question" => p' <= End + 65535 + 12,
         ret' \in {-1, 0},
         pc' = "question" => p' = HeaderLen,
         pc' = "answers" => p' >= HeaderLen,
         pc' = "address" => p' + 12 < End,
         \A o \in reads' : o >= 0 /\ (o < End \/ (End < 6 /\ o < 6))
  PROVE  WalkInv' /\ InBounds'
<1>1. End' = End
  BY DEF End
<1>2. TypeOK'
  BY <1>1 DEF TypeOK
<1>3. QED
  BY <1>1, <1>2 DEF WalkInv, InBounds

LEMMA HeaderStep == ASSUME WalkInv, Header PROVE WalkInv' /\ InBounds'
<1>1. TypeOK /\ End \in Nat /\ p = 0
  BY EndNat DEF WalkInv, Header
<1>2. reads' = {4, 5} /\ UNCHANGED <<input, pkt>>
  BY DEF Header
<1>3. CASE pc' = "question" /\ p' = HeaderLen /\ UNCHANGED ret
  BY <1>1, <1>2, <1>3, PacketKept DEF HeaderLen, TypeOK
<1>4. CASE Return(-1) /\ UNCHANGED p
  BY <1>1, <1>2, <1>4, PacketKept DEF Return
<1>5. QED
  BY <1>3, <1>4 DEF Header

LEMMA QuestionStep == ASSUME WalkInv, Question PROVE WalkInv' /\ InBounds'
<1> DEFINE z    == FirstZero(p, End) + 1
           fits == z + 4 <= End
           scan == {o \in p..(z - 1) : o < End}
<1>1. TypeOK /\ End \in Nat /\ p = 12
  BY EndNat DEF WalkInv, Question, HeaderLen
<1>2. z \in Nat /\ z > p /\ (p < End => z <= End + 1) /\ (p >= End => z = p + 1)
  BY <1>1, ScanEnds
<1>3. /\ reads' = IF fits THEN scan \cup {z, z + 1} ELSE scan
      /\ UNCHANGED <<input, pkt>>
      /\ \/ fits /\ p' = z + 4 /\ pc' = "answers" /\ UNCHANGED ret
         \/ p' = z /\ Return(-1)
  BY DEF Question
<1> HIDE DEF z
<1>4. \A o \in reads' : o >= 0 /\ o < End
  BY <1>1, <1>2, <1>3
<1>5. p' \in Nat /\ p' >= 12 /\ p' <= End + 65535 + 12
  BY <1>1, <1>2, <1>3
<1>6. ret' \in {-1, 0} /\ pc' \in {"answers", "done"}
  BY <1>1, <1>3 DEF Return, TypeOK
<1>7. /\ pc' # "question" /\ pc' # "address" /\ p' >= HeaderLen
      /\ pc' \in {"question", "answers", "address", "done"}
  BY <1>5, <1>6 DEF HeaderLen
<1>8. TypeOK /\ UNCHANGED <<input, pkt>>
  BY <1>1, <1>3
<1>9. QED
  BY <1>4, <1>5, <1>6, <1>7, <1>8, PacketKept

\* Reading the name and the type of a record stays in the packet.
LEMMA RecordRead ==
  ASSUME TypeOK, p >= HeaderLen, ~NoAnswer
  PROVE  \A o \in Read(NameEnd(p)) : o \in Nat /\ o < End
<1>1. /\ End \in Nat /\ p \in Nat /\ p + 12 < End
      /\ NameEnd(p) \in Nat /\ NameEnd(p) + 12 < End
  BY ByteRead, NameSkipped DEF TypeOK, NoAnswer
<1>2. QED
  BY <1>1 DEF Read

LEMMA AnswersStep ==
  ASSUME WalkInv, Cname \/ AddressFound \/ OtherRecord
  PROVE  /\ WalkInv' /\ InBounds'
         /\ pc' = "answers" => p' >= p + 11
<1> DEFINE q == NameEnd(p)
<1>1. TypeOK /\ p >= HeaderLen /\ ~NoAnswer /\ p \in Nat /\ End \in Nat
  BY EndNat DEF WalkInv, TypeOK, Cname, AddressFound, OtherRecord
<1>2. q \in Nat /\ q >= p - 1 /\ q + 12 < End
  BY <1>1, NameSkipped
<1>3. \A o \in Read(q) : o \in Nat /\ o < End
  BY <1>1, RecordRead
<1>4. U16(q + 10) \in Nat /\ U16(q + 10) <= 65535
  BY <1>1, <1>2, ByteRead
<1>5. UNCHANGED <<input, pkt>>
  BY DEF Cname, AddressFound, OtherRecord
<1>6. CASE Cname
  <2>1. /\ reads' = Read(q) \cup {q + 10, q + 11}
        /\ p' = q + 12 + U16(q + 10) /\ UNCHANGED <<pc, ret>> /\ pc = "answers"
    BY <1>6 DEF Cname
  <2> HIDE DEF q
  <2>2. p' \in Nat /\ p' >= p + 11 /\ p' >= HeaderLen /\ p' <= End + 65535 + 12
    BY <2>1, <1>1, <1>2, <1>4 DEF HeaderLen
  <2>3. \A o \in reads' : o >= 0 /\ o < End
    BY <2>1, <1>2, <1>3, <1>1
  <2>4. QED
    BY <2>1, <2>2, <2>3, <1>1, <1>5, PacketKept DEF TypeOK
<1>7. CASE AddressFound
  <2>1. reads' = Read(q) /\ p' = q /\ pc' = "address" /\ UNCHANGED ret
    BY <1>7 DEF AddressFound
  <2> HIDE DEF q
  <2>2. QED
    BY <2>1, <1>1, <1>2, <1>3, <1>5, PacketKept DEF TypeOK
<1>8. CASE OtherRecord
  <2>1. reads' = Read(q) /\ p' = q /\ Return(0)
    BY <1>8 DEF OtherRecord
  <2> HIDE DEF q
  <2>2. QED
    BY <2>1, <1>1, <1>2, <1>3, <1>5, PacketKept DEF Return
<1>9. QED
  BY <1>6, <1>7, <1>8

\* After the loop, and where it ends, the buffer is only read.
LEMMA EndStep ==
  ASSUME WalkInv, LoopEnds \/ NotReplaced \/ Truncated
  PROVE  WalkInv' /\ InBounds'
<1>1. TypeOK /\ p \in Nat /\ End \in Nat
  BY EndNat DEF WalkInv, TypeOK
<1>2. /\ UNCHANGED <<input, pkt, p>> /\ pc' = "done" /\ ret' \in {-1, 0}
      /\ pc \in {"answers", "address"}
  BY DEF LoopEnds, NotReplaced, Truncated, Return
<1>3. p' <= End + 65535 + 12
  BY <1>1, <1>2 DEF TypeOK
<1>4. \A o \in reads' : o >= 0 /\ o < End
  <2>1. CASE LoopEnds
    BY <2>1 DEF LoopEnds
  <2>2. CASE NotReplaced
    <3>1. /\ p + 12 < End /\ p + 12 + U16(p + 10) <= End
          /\ \/ reads' = {p + 10, p + 11}
             \/ /\ U16(p + 10) = 4
                /\ reads' = {p + 10, p + 11} \cup (p + 12)..(p + 15)
      BY <2>2 DEF NotReplaced, DataFits
    <3>2. QED
      BY <3>1, <1>1
  <2>3. CASE Truncated
    <3>1. reads' = IF p + 12 < End THEN {p + 10, p + 11} ELSE {}
      BY <2>3 DEF Truncated
    <3>2. QED
      BY <3>1, <1>1
  <2>4. QED
    BY <2>1, <2>2, <2>3
<1>5. QED
  BY <1>1, <1>2, <1>3, <1>4, PacketKept

\* The new address takes the place of the old one, and the packet is bytes still.
LEMMA ReplaceStep == ASSUME WalkInv, Replace PROVE WalkInv' /\ InBounds'
<1> DEFINE new == Geo[Bytes(p + 12, 4)]
<1>1. /\ TypeOK /\ p \in Nat /\ End \in Nat /\ pkt \in Seq(Byte)
      /\ End = Len(Packet[input]) /\ pc = "address"
  BY EndNat DEF WalkInv, TypeOK, Replace
<1>2. /\ p + 12 + U16(p + 10) <= End /\ U16(p + 10) = 4
      /\ reads' = {p + 10, p + 11} \cup (p + 12)..(p + 15)
      /\ Bytes(p + 12, 4) \in DOMAIN Geo
      /\ pkt' = Overwrite(p + 12, new)
      /\ pc' = "done" /\ ret' = 0 /\ UNCHANGED <<input, p>>
  BY DEF Replace, DataFits, Return
<1>3. new \in [1..4 -> Byte]
  BY <1>2, DnsAssumption
<1>4. pkt' \in [1..End -> Byte]
  <2> HIDE DEF new
  <2> SUFFICES ASSUME NEW k \in 1..End
               PROVE  (IF k - 1 \in (p + 12)..(p + 15)
                         THEN new[k - (p + 12)] ELSE pkt[k]) \in Byte
    BY <1>1, <1>2 DEF Overwrite
  <2>1. CASE k - 1 \in (p + 12)..(p + 15)
    <3>1. k - (p + 12) \in 1..4
      BY <2>1, <1>1
    <3>2. QED
      BY <2>1, <3>1, <1>3
  <2>2. CASE k - 1 \notin (p + 12)..(p + 15)
    BY <2>2, <1>1, ElementOfSeq DEF End
  <2>3. QED
    BY <2>1, <2>2
<1>5. pkt' \in Seq(Byte) /\ Len(pkt') = End
  <2>1. pkt' \in Seq(Byte)
    BY <1>4, <1>1, SeqDef
  <2>2. DOMAIN pkt' = 1..Len(pkt') /\ Len(pkt') \in Nat
    BY <2>1, LenProperties
  <2>3. 1..Len(pkt') = 1..End
    BY <2>2, <1>4
  <2>4. QED
    BY <2>1, <2>2, <2>3, <1>1
<1>6. End' = End
  BY <1>5 DEF End
<1>7. TypeOK'
  BY <1>1, <1>2, <1>5, <1>6 DEF TypeOK
<1>8. InBounds'
  BY <1>1, <1>2, <1>6 DEF InBounds
<1>9. QED
  BY <1>2, <1>7, <1>8 DEF WalkInv

\* Every step keeps the walk in the packet, and a round goes forward.
LEMMA WalkStep ==
  ASSUME WalkInv, InBounds, [Next]_vars
  PROVE  /\ WalkInv' /\ InBounds'
         /\ pc = "answers" /\ pc' = "answers" /\ ~(UNCHANGED vars) => p' >= p + 11
<1>1. CASE Header
  BY <1>1, HeaderStep DEF Header
<1>2. CASE Question
  BY <1>2, QuestionStep DEF Question
<1>3. CASE Cname \/ AddressFound \/ OtherRecord
  BY <1>3, AnswersStep
<1>4. CASE LoopEnds \/ NotReplaced \/ Truncated
  BY <1>4, EndStep DEF LoopEnds, NotReplaced, Truncated, Return
<1>5. CASE Replace
  BY <1>5, ReplaceStep DEF Replace
<1>6. CASE UNCHANGED vars
  BY <1>6 DEF vars, WalkInv, TypeOK, InBounds, End
<1>7. QED
  BY <1>1, <1>2, <1>3, <1>4, <1>5, <1>6 DEF Next, Walk, Returned

LEMMA WalkStarts == ASSUME Init PROVE WalkInv /\ InBounds
<1>1. pkt \in Seq(Byte) /\ End \in Nat
  BY LenProperties, DnsAssumption DEF Init, End
<1>2. QED
  BY <1>1 DEF Init, WalkInv, TypeOK, InBounds, End

\* Whatever answer arrives, and whatever it says of its names and lengths, the
\* pointer of dns_parse_proxy stays in the packet or less than a record of the
\* longest data beyond it, only what was received is read, and the buffer keeps its
\* length (dns.c: dns_parse_proxy, process_ip).
THEOREM WalkStaysInPacket == Spec => []WalkSound
<1>1. Init => WalkInv /\ InBounds
  BY WalkStarts
<1>2. WalkInv /\ InBounds /\ [Next]_vars => (WalkInv /\ InBounds)'
  BY WalkStep
<1>3. WalkInv /\ InBounds => WalkSound
  BY DEF WalkSound, WalkInv
<1>4. QED
  BY <1>1, <1>2, <1>3, PTL DEF Spec

\* Every round of the loop over the answers that does not leave it moves the pointer
\* at least eleven bytes on, whatever the lengths in the packet, so that no answer can
\* hold dns_parse_proxy up (dns.c: dns_parse_proxy).
THEOREM RoundsGoForward == Spec => RoundsAdvance
<1>1. Init => WalkInv /\ InBounds
  BY WalkStarts
<1>2. WalkInv /\ InBounds /\ [Next]_vars => (WalkInv /\ InBounds)'
  BY WalkStep
<1>3. WalkInv /\ InBounds /\ [Next]_vars
        => [pc = "answers" /\ pc' = "answers" => p' >= p + 11]_vars
  BY WalkStep
<1>4. QED
  BY <1>1, <1>2, <1>3, PTL DEF Spec, RoundsAdvance

-----------------------------------------------------------------------------
(* Where the records of a message are in it. *)

\* fl[i] is the first i of the sequences of s, one after the other.
AreSums(fl, s, n) ==
  /\ fl \in [0..n -> Seq(Byte)]
  /\ fl[0] = <<>>
  /\ \A i \in 1..n : fl[i] = fl[i - 1] \o s[i]

Sums(s) == CHOOSE fl : AreSums(fl, s, Len(s))

LEMMA SumsExist ==
  ASSUME NEW s \in Seq(Seq(Byte))
  PROVE  AreSums(Sums(s), s, Len(s))
<1> DEFINE T == {n \in 0..Len(s) : ~\E fl : AreSums(fl, s, n)}
<1>1. ASSUME T # {} PROVE FALSE
  <2>1. PICK n \in T : \A m \in T : n <= m
    <3>1. T \subseteq Nat
      OBVIOUS
    <3> HIDE DEF T
    <3>2. QED
      BY <1>1, <3>1, LeastOffset
  <2>2. n \in 0..Len(s) /\ ~\E fl : AreSums(fl, s, n)
    BY <2>1
  <2>3. n # 0
    <3>1. AreSums([i \in 0..0 |-> <<>>], s, 0)
      BY DEF AreSums
    <3>2. QED
      BY <2>2, <3>1
  <2>4. PICK fl : AreSums(fl, s, n - 1)
    <3>1. n - 1 \in 0..Len(s) /\ ~(n <= n - 1)
      BY <2>2, <2>3
    <3>2. n - 1 \notin T
      BY <2>1, <3>1
    <3> QED
      BY <3>1, <3>2
  <2> DEFINE more == [i \in 0..n |-> IF i = n THEN fl[n - 1] \o s[n] ELSE fl[i]]
  <2>5. n \in Nat \ {0} /\ s[n] \in Seq(Byte) /\ fl[n - 1] \in Seq(Byte)
    BY <2>2, <2>3, <2>4 DEF AreSums
  <2>6. more \in [0..n -> Seq(Byte)]
    <3>1. fl[n - 1] \o s[n] \in Seq(Byte)
      BY <2>5
    <3>2. \A i \in 0..n : i # n => fl[i] \in Seq(Byte)
      BY <2>4, <2>5 DEF AreSums
    <3>3. QED
      BY <3>1, <3>2
  <2>7. more[0] = <<>>
    BY <2>4, <2>5 DEF AreSums
  <2>8. \A i \in 1..n : more[i] = more[i - 1] \o s[i]
    <3>1. \A i \in 1..n : i # n => i \in 1..(n - 1) /\ i - 1 \in 0..n /\ i - 1 # n
      BY <2>5
    <3>2. n \in 0..n /\ n - 1 \in 0..n /\ n - 1 # n
      BY <2>5
    <3>3. \A i \in 1..(n - 1) : fl[i] = fl[i - 1] \o s[i]
      BY <2>4 DEF AreSums
    <3>4. ASSUME NEW i \in 1..n PROVE more[i] = more[i - 1] \o s[i]
      <4>1. i \in 0..n /\ i - 1 \in 0..n /\ i - 1 # n
        BY <2>5
      <4> DEFINE last == fl[n - 1] \o s[n]
      <4>2. \A x \in 0..n : more[x] = IF x = n THEN last ELSE fl[x]
        OBVIOUS
      <4> HIDE DEF more, last
      <4>3. more[i - 1] = fl[i - 1] /\ more[i] = IF i = n THEN last ELSE fl[i]
        BY <4>1, <4>2
      <4>4. QED
        BY <3>1, <3>3, <4>3 DEF last
    <3>5. QED
      BY <3>4
  <2>9. AreSums(more, s, n)
    BY <2>6, <2>7, <2>8 DEF AreSums
  <2>10. QED
    BY <2>2, <2>9
<1>2. \E fl : AreSums(fl, s, Len(s))
  <2>1. Len(s) \in Nat
    OBVIOUS
  <2>2. QED
    BY <1>1, <2>1
<1>3. QED
  BY <1>2 DEF Sums

\* What FlattenSeq makes of them is the last of the sums.
LEMMA FlattenIsSum ==
  ASSUME NEW s \in Seq(Seq(Byte)), NEW fl, AreSums(fl, s, Len(s))
  PROVE  FlattenSeq(s) = fl[Len(s)]
<1> DEFINE n == Len(s)
           Made(h) == h = [i \in 1..n |-> IF i = 1 THEN s[i] ELSE h[i - 1] \o s[i]]
           g == [i \in 1..n |-> fl[i]]
<1>1. CASE n = 0
  BY <1>1 DEF AreSums, FlattenSeq
<1>2. CASE n # 0
  <2>1. n \in Nat \ {0}
    BY <1>2
  <2>2. FlattenSeq(s) = (CHOOSE h : Made(h))[n]
    BY <1>2 DEF FlattenSeq
  <2>3. Made(g)
    <3>1. \A i \in 1..n : s[i] \in Seq(Byte)
      OBVIOUS
    <3>2. \A i \in 1..n : fl[i] = IF i = 1 THEN s[i] ELSE fl[i - 1] \o s[i]
      <4> SUFFICES ASSUME NEW i \in 1..n
                   PROVE  fl[i] = IF i = 1 THEN s[i] ELSE fl[i - 1] \o s[i]
        OBVIOUS
      <4>1. i = 1 => fl[i] = <<>> \o s[i]
        <5>1. fl[0] = <<>> /\ fl[i] = fl[i - 1] \o s[i]
          BY DEF AreSums
        <5>2. i = 1 => i - 1 = 0
          OBVIOUS
        <5>3. QED
          BY <5>1, <5>2
      <4>2. <<>> \o s[i] = s[i]
        BY <3>1
      <4>3. QED
        BY <4>1, <4>2 DEF AreSums
    <3>3. \A i \in 1..n : i # 1 => i - 1 \in 1..n
      BY <2>1
    <3> HIDE DEF n
    <3>4. QED
      BY <3>2, <3>3
  <2>4. ASSUME NEW h, Made(h) PROVE h = g
    <3> DEFINE T == {i \in 1..n : h[i] # g[i]}
    <3>1. ASSUME T # {} PROVE FALSE
      <4>1. PICK i \in T : \A j \in T : i <= j
        <5>1. T \subseteq Nat
          OBVIOUS
        <5> HIDE DEF T
        <5>2. QED
          BY <3>1, <5>1, LeastOffset
      <4>2. i \in 1..n /\ h[i] # g[i]
        BY <4>1
      <4>3. i # 1 => i - 1 \in 1..n /\ i - 1 \notin T
        BY <2>1, <4>1, <4>2
      <4>4. i # 1 => h[i - 1] = g[i - 1]
        BY <4>3
      <4>5. h[i] = IF i = 1 THEN s[i] ELSE h[i - 1] \o s[i]
        BY <2>4, <4>2
      <4>6. g[i] = IF i = 1 THEN s[i] ELSE g[i - 1] \o s[i]
        BY <2>3, <4>2
      <4>7. QED
        BY <4>2, <4>4, <4>5, <4>6
    <3>2. \A i \in 1..n : h[i] = g[i]
      BY <3>1
    <3>3. h = [i \in 1..n |-> h[i]]
      <4>1. h = [i \in 1..n |-> IF i = 1 THEN s[i] ELSE h[i - 1] \o s[i]]
        BY <2>4
      <4> DEFINE e(i) == IF i = 1 THEN s[i] ELSE h[i - 1] \o s[i]
      <4>2. h = [i \in 1..n |-> e(i)]
        BY <4>1
      <4> HIDE DEF e, n
      <4>3. QED
        BY <4>2
    <3>4. QED
      BY <3>2, <3>3
  <2> HIDE DEF Made
  <2>5. (CHOOSE h : Made(h)) = g
    BY <2>3, <2>4
  <2>6. g[n] = fl[n]
    BY <2>1
  <2>7. QED
    BY <2>2, <2>5, <2>6
<1>3. QED
  BY <1>1, <1>2

\* The bytes of a sum, and where its last piece begins in it.
LEMMA SumAt ==
  ASSUME NEW s \in Seq(Seq(Byte)), NEW fl, AreSums(fl, s, Len(s)),
         NEW k \in 1..Len(s)
  PROVE  /\ fl[k] \in Seq(Byte) /\ fl[k - 1] \in Seq(Byte) /\ s[k] \in Seq(Byte)
         /\ Len(fl[k]) = Len(fl[k - 1]) + Len(s[k])
         /\ \A i \in 1..Len(fl[k]) :
              fl[k][i] = IF i <= Len(fl[k - 1]) THEN fl[k - 1][i]
                         ELSE s[k][i - Len(fl[k - 1])]
<1>1. fl[k] \in Seq(Byte) /\ fl[k - 1] \in Seq(Byte) /\ fl[k] = fl[k - 1] \o s[k]
  <2>1. k \in 0..Len(s) /\ k - 1 \in 0..Len(s)
    OBVIOUS
  <2>2. QED
    BY <2>1 DEF AreSums
<1>2. s[k] \in Seq(Byte)
  BY ElementOfSeq
<1> DEFINE a == fl[k - 1]
           b == s[k]
<1>3. /\ Len(a \o b) = Len(a) + Len(b)
      /\ \A i \in 1..Len(a) + Len(b) :
           (a \o b)[i] = IF i <= Len(a) THEN a[i] ELSE b[i - Len(a)]
  <2>1. a \in Seq(Byte) /\ b \in Seq(Byte)
    BY <1>1, <1>2
  <2> HIDE DEF a, b
  <2>2. QED
    BY <2>1, ConcatProperties
<1>4. QED
  BY <1>1, <1>2, <1>3

\* A sum begins as the sums before it.
LEMMA SumsGrow ==
  ASSUME NEW s \in Seq(Seq(Byte)), NEW fl, AreSums(fl, s, Len(s)),
         NEW j \in 0..Len(s), NEW k \in j..Len(s)
  PROVE  /\ Len(fl[j]) \in Nat /\ Len(fl[k]) \in Nat
         /\ Len(fl[j]) <= Len(fl[k])
         /\ \A i \in 1..Len(fl[j]) : fl[k][i] = fl[j][i]
<1> DEFINE Begins(x) == /\ Len(fl[x]) \in Nat /\ Len(fl[j]) <= Len(fl[x])
                        /\ \A i \in 1..Len(fl[j]) : fl[x][i] = fl[j][i]
           T == {x \in j..Len(s) : ~Begins(x)}
<1>0. Len(s) \in Nat /\ Len(fl[j]) \in Nat
  BY LenProperties DEF AreSums
<1>1. ASSUME T # {} PROVE FALSE
  <2>1. PICK x \in T : \A y \in T : x <= y
    <3>1. T \subseteq Nat
      BY <1>0
    <3> HIDE DEF T
    <3>2. QED
      BY <1>1, <3>1, LeastOffset
  <2>2. x \in j..Len(s) /\ ~Begins(x)
    BY <2>1
  <2>3. x # j
    BY <2>2, <1>0
  <2>4. x - 1 \in j..Len(s) /\ x \in 1..Len(s) /\ ~(x <= x - 1)
    BY <2>2, <2>3, <1>0
  <2>5. Begins(x - 1)
    <3>1. x - 1 \notin T
      BY <2>1, <2>4
    <3> HIDE DEF Begins
    <3>2. QED
      BY <3>1, <2>4
  <2>6. /\ Len(fl[x]) = Len(fl[x - 1]) + Len(s[x])
        /\ \A i \in 1..Len(fl[x]) :
             fl[x][i] = IF i <= Len(fl[x - 1]) THEN fl[x - 1][i]
                        ELSE s[x][i - Len(fl[x - 1])]
        /\ Len(s[x]) \in Nat
    BY <2>4, SumAt, LenProperties
  <2> DEFINE lj == Len(fl[j])
             ly == Len(fl[x - 1])
             lx == Len(fl[x])
             ls == Len(s[x])
  <2>7. /\ lj \in Nat /\ ly \in Nat /\ ls \in Nat /\ lj <= ly /\ lx = ly + ls
        /\ \A i \in 1..lj : fl[x - 1][i] = fl[j][i]
        /\ \A i \in 1..lx : fl[x][i] = IF i <= ly THEN fl[x - 1][i] ELSE s[x][i - ly]
    BY <2>5, <2>6, <1>0
  <2>8. Begins(x)
    <3> HIDE DEF lj, ly, lx, ls
    <3>1. lx \in Nat /\ lj <= lx
      BY <2>7
    <3>2. \A i \in 1..lj : i \in 1..lx /\ i <= ly
      BY <2>7
    <3>3. \A i \in 1..lj : fl[x][i] = fl[j][i]
      BY <2>7, <3>2
    <3>4. QED
      BY <3>1, <3>3 DEF lj, lx
  <2>9. QED
    BY <2>2, <2>8
<1>2. Begins(k)
  <2> HIDE DEF Begins
  <2>1. QED
    BY <1>1
<1>3. QED
  BY <1>0, <1>2

\* Each piece is in the whole, after the pieces before it.
LEMMA PieceInWhole ==
  ASSUME NEW s \in Seq(Seq(Byte)), NEW fl, AreSums(fl, s, Len(s)),
         NEW k \in 1..Len(s)
  PROVE  \A i \in 1..Len(s[k]) : fl[Len(s)][Len(fl[k - 1]) + i] = s[k][i]
<1> SUFFICES ASSUME NEW i \in 1..Len(s[k])
             PROVE  fl[Len(s)][Len(fl[k - 1]) + i] = s[k][i]
  OBVIOUS
<1>1. /\ Len(fl[k - 1]) \in Nat /\ Len(s[k]) \in Nat
      /\ Len(fl[k]) = Len(fl[k - 1]) + Len(s[k])
      /\ \A x \in 1..Len(fl[k]) :
           fl[k][x] = IF x <= Len(fl[k - 1]) THEN fl[k - 1][x]
                      ELSE s[k][x - Len(fl[k - 1])]
  BY SumAt, LenProperties
<1>2. \A x \in 1..Len(fl[k]) : fl[Len(s)][x] = fl[k][x]
  <2>1. k \in 0..Len(s) /\ Len(s) \in k..Len(s)
    OBVIOUS
  <2>2. QED
    BY <2>1, SumsGrow
<1> DEFINE before == Len(fl[k - 1])
           own    == Len(s[k])
           x      == before + i
<1>3. x \in 1..Len(fl[k]) /\ ~(x <= before) /\ x - before = i
  <2>1. before \in Nat /\ own \in Nat /\ i \in 1..own /\ Len(fl[k]) = before + own
    BY <1>1
  <2> HIDE DEF before, own
  <2>2. QED
    BY <2>1
<1> HIDE DEF x
<1>4. fl[k][x] = s[k][i]
  BY <1>1, <1>3
<1>5. QED
  BY <1>2, <1>3, <1>4 DEF x

\* The parts of a record.
LEMMA AnswerParts ==
  ASSUME NEW r \in Record
  PROVE  /\ r.owner \in Written \cup Pointer \cup Partial /\ r.owner \in Seq(Byte)
         /\ r.type \in Nat /\ r.type <= 65535 /\ r.type \in Word /\ r.len \in Word
         /\ r.rest \in [1..6 -> Byte] /\ r.data \in Seq(Byte)
         /\ r.len \in Nat /\ r.len <= 65535
<1>1. /\ r.owner \in Written \cup Pointer \cup Partial
      /\ r.type \in Word /\ r.len \in Word /\ r.data \in Seq(Byte)
      /\ r.rest \in [1..6 -> Byte]
  BY DEF Record
<1>2. \A n \in Written \cup Pointer \cup Partial : n \in Seq(Byte)
  BY DEF Written, Pointer, Partial
<1>3. \A x \in Word : x \in Nat /\ x <= 65535
  BY DEF Word
<1>4. QED
  BY <1>1, <1>2, <1>3

\* The two bytes of a word, and the word they make.
LEMMA WordLaid ==
  ASSUME NEW n \in Word
  PROVE  /\ WordBytes(n) \in Seq(Byte) /\ Len(WordBytes(n)) = 2
         /\ WordBytes(n)[1] = n \div 256 /\ WordBytes(n)[2] = n % 256
         /\ 256 * (n \div 256) + (n % 256) = n
<1>0. n \in Nat /\ n <= 65535
  BY DEF Word
<1>1. 256 * (n \div 256) + (n % 256) = n
  BY <1>0
<1>2. n \div 256 \in Byte /\ n % 256 \in Byte
  BY <1>0 DEF Byte
<1>3. /\ WordBytes(n) \in Seq(Byte) /\ Len(WordBytes(n)) = 2
      /\ WordBytes(n)[1] = n \div 256 /\ WordBytes(n)[2] = n % 256
  <2> DEFINE high == n \div 256
             low  == n % 256
  <2>1. WordBytes(n) = <<high, low>> /\ high \in Byte /\ low \in Byte
    BY <1>2 DEF WordBytes
  <2> HIDE DEF high, low, Byte
  <2>2. /\ WordBytes(n) \in Seq(Byte) /\ Len(WordBytes(n)) = 2
        /\ WordBytes(n)[1] = high /\ WordBytes(n)[2] = low
    BY <2>1
  <2>3. QED
    BY <2>2 DEF high, low
<1>4. QED
  BY <1>1, <1>3

\* w is the l bytes of u and then those of v, n in all.
IsJoined(w, u, v, l, n) ==
  /\ w \in Seq(Byte) /\ Len(w) = n
  /\ \A i \in 1..n : w[i] = IF i <= l THEN u[i] ELSE v[i - l]

LEMMA Joined ==
  ASSUME NEW u, NEW v, NEW w, NEW l, NEW n,
         u \in Seq(Byte), v \in Seq(Byte), w = u \o v, l = Len(u), n = l + Len(v)
  PROVE  IsJoined(w, u, v, l, n)
BY ConcatProperties DEF IsJoined

\* Bytes numbered from one on are a sequence.
LEMMA BytesAreSequence ==
  ASSUME NEW n \in Nat, NEW b \in [1..n -> Byte]
  PROVE  b \in Seq(Byte) /\ Len(b) = n
<1>1. b \in Seq(Byte)
  BY SeqDef
<1>2. Len(b) \in Nat /\ DOMAIN b = 1..Len(b)
  BY <1>1, LenProperties
<1> DEFINE l == Len(b)
<1>3. l \in Nat /\ 1..l = 1..n
  BY <1>2
<1> HIDE DEF l
<1>4. l = n
  BY <1>3
<1>5. QED
  BY <1>1, <1>4 DEF l

\* The bytes of a record before its data.
Lead(r) == r.owner \o WordBytes(r.type) \o r.rest \o WordBytes(r.len)

\* The bytes of a record: the name of its owner, the type, the length, the data.
LEMMA RecordLaid ==
  ASSUME NEW r \in Record
  PROVE  /\ IsJoined(RecordBytes(r), Lead(r), r.data, Len(r.owner) + 10,
                     Len(r.owner) + 10 + Len(r.data))
         /\ RecordBytes(r) \in Seq(Byte)
         /\ Len(RecordBytes(r)) = Len(r.owner) + 10 + Len(r.data)
         /\ \A i \in 1..Len(r.owner) : RecordBytes(r)[i] = r.owner[i]
         /\ RecordBytes(r)[Len(r.owner) + 1] = r.type \div 256
         /\ RecordBytes(r)[Len(r.owner) + 2] = r.type % 256
         /\ RecordBytes(r)[Len(r.owner) + 9] = r.len \div 256
         /\ RecordBytes(r)[Len(r.owner) + 10] = r.len % 256
         /\ \A i \in 1..Len(r.data) :
              RecordBytes(r)[Len(r.owner) + 10 + i] = r.data[i]
<1> DEFINE a == r.owner
           b == WordBytes(r.type)
           c == r.rest
           e == WordBytes(r.len)
           f == r.data
           ab == a \o b
           ac == ab \o c
           ae == ac \o e
<1>1. /\ a \in Seq(Byte) /\ f \in Seq(Byte) /\ c \in [1..6 -> Byte]
      /\ r.type \in Word /\ r.len \in Word
  BY AnswerParts
<1>2. b \in Seq(Byte) /\ Len(b) = 2 /\ b[1] = r.type \div 256 /\ b[2] = r.type % 256
  <2> DEFINE n == r.type
  <2>1. n \in Word /\ b = WordBytes(n)
    BY <1>1
  <2> HIDE DEF n, b
  <2>2. b \in Seq(Byte) /\ Len(b) = 2 /\ b[1] = n \div 256 /\ b[2] = n % 256
    BY <2>1, WordLaid
  <2>3. QED
    BY <2>2 DEF n
<1>3. e \in Seq(Byte) /\ Len(e) = 2 /\ e[1] = r.len \div 256 /\ e[2] = r.len % 256
  <2> DEFINE n == r.len
  <2>1. n \in Word /\ e = WordBytes(n)
    BY <1>1
  <2> HIDE DEF n, e
  <2>2. e \in Seq(Byte) /\ Len(e) = 2 /\ e[1] = n \div 256 /\ e[2] = n % 256
    BY <2>1, WordLaid
  <2>3. QED
    BY <2>2 DEF n
<1>4. c \in Seq(Byte) /\ Len(c) = 6
  <2> DEFINE n == 6
  <2>1. n \in Nat /\ c \in [1..n -> Byte]
    BY <1>1
  <2> HIDE DEF n, c
  <2>2. c \in Seq(Byte) /\ Len(c) = n
    BY <2>1, BytesAreSequence, Zenon
  <2>3. QED
    BY <2>2 DEF n
<1>5. RecordBytes(r) = ae \o f /\ Lead(r) = ae
  BY DEF RecordBytes, Lead
<1>6. Len(a) \in Nat /\ Len(f) \in Nat
  BY <1>1, LenProperties
<1> DEFINE all == ae \o f
           L == Len(a)
           M == Len(f)
<1>7. /\ a \in Seq(Byte) /\ f \in Seq(Byte) /\ L \in Nat /\ M \in Nat
      /\ L = Len(a) /\ M = Len(f)
  BY <1>1, <1>6
<1>8. ab = a \o b /\ ac = ab \o c /\ ae = ac \o e /\ all = ae \o f
  OBVIOUS
<1> HIDE DEF a, b, c, e, f, ab, ac, ae, all, L, M
<1>9. IsJoined(ab, a, b, L, L + 2)
  <2>1. /\ a \in Seq(Byte) /\ b \in Seq(Byte) /\ ab = a \o b
        /\ L = Len(a) /\ L + 2 = L + Len(b)
    BY <1>2, <1>7, <1>8
  <2>2. QED
    BY <2>1, Joined
<1>10. IsJoined(ac, ab, c, L + 2, L + 8)
  <2>1. ab \in Seq(Byte) /\ L + 2 = Len(ab) /\ L + 8 = L + 2 + Len(c)
    BY <1>4, <1>7, <1>9 DEF IsJoined
  <2>2. c \in Seq(Byte) /\ ac = ab \o c
    BY <1>4, <1>8
  <2>3. QED
    BY <2>1, <2>2, Joined
<1>11. IsJoined(ae, ac, e, L + 8, L + 10)
  <2>1. ac \in Seq(Byte) /\ L + 8 = Len(ac) /\ L + 10 = L + 8 + Len(e)
    BY <1>3, <1>7, <1>10 DEF IsJoined
  <2>2. e \in Seq(Byte) /\ ae = ac \o e
    BY <1>3, <1>8
  <2>3. QED
    BY <2>1, <2>2, Joined
<1>12. IsJoined(all, ae, f, L + 10, L + 10 + M)
  <2>1. ae \in Seq(Byte) /\ L + 10 = Len(ae) /\ L + 10 + M = L + 10 + Len(f)
    BY <1>7, <1>11 DEF IsJoined
  <2>2. f \in Seq(Byte) /\ all = ae \o f
    BY <1>7, <1>8
  <2>3. QED
    BY <2>1, <2>2, Joined
<1>13. \A i \in 1..L : all[i] = a[i]
  BY <1>7, <1>9, <1>10, <1>11, <1>12 DEF IsJoined
<1>14. all[L + 1] = b[1] /\ all[L + 2] = b[2]
  BY <1>7, <1>9, <1>10, <1>11, <1>12 DEF IsJoined
<1>15. all[L + 9] = e[1] /\ all[L + 10] = e[2]
  BY <1>7, <1>11, <1>12 DEF IsJoined
<1>16. \A i \in 1..M : all[L + 10 + i] = f[i]
  <2> SUFFICES ASSUME NEW i \in 1..M PROVE all[L + 10 + i] = f[i]
    OBVIOUS
  <2> DEFINE j == L + 10 + i
  <2>1. j \in 1..(L + 10 + M) /\ ~(j <= L + 10) /\ j - (L + 10) = i
    BY <1>7
  <2> HIDE DEF j
  <2>2. all[j] = f[i]
    BY <2>1, <1>12 DEF IsJoined
  <2>3. QED
    BY <2>2 DEF j
<1>17. QED
  <2>1. /\ RecordBytes(r) = all /\ Lead(r) = ae /\ a = r.owner /\ f = r.data
        /\ L = Len(r.owner) /\ M = Len(r.data)
    BY <1>5 DEF all, a, f, L, M
  <2>2. QED
    BY <2>1, <1>2, <1>3, <1>12, <1>13, <1>14, <1>15, <1>16 DEF IsJoined

\* The parts of a message.
MessageShape == [questions : Word, name : Written, type : Word,
                 sections : [1..3 -> Word], records : Seq(Record)]

LEMMA MessageParts ==
  ASSUME NEW m \in WellFormed
  PROVE  /\ m \in MessageShape /\ m.questions \in Word /\ m.type \in Word
         /\ m.questions \in Nat /\ m.questions <= 65535
         /\ m.type \in Nat /\ m.type <= 65535
         /\ \A x \in 1..3 : m.sections[x] \in Word
         /\ m.name \in Written /\ m.name \in Seq(Byte)
         /\ m.records \in Seq(Record)
         /\ Len(m.records) \in Nat /\ DOMAIN m.records = 1..Len(m.records)
         /\ \A k \in 1..Len(m.records) : m.records[k] \in Record
<1>1. m \in MessageShape
  BY DEF WellFormed, MessageShape
<1>2. /\ m.questions \in Word /\ m.type \in Word /\ m.name \in Written
      /\ m.sections \in [1..3 -> Word] /\ m.records \in Seq(Record)
  BY <1>1 DEF MessageShape
<1>3. m.name \in Seq(Byte)
  BY <1>2 DEF Written
<1>4. Len(m.records) \in Nat /\ DOMAIN m.records = 1..Len(m.records)
  BY <1>2, LenProperties
<1>5. \A k \in 1..Len(m.records) : m.records[k] \in Record
  BY <1>2, ElementOfSeq
<1>6. \A x \in Word : x \in Nat /\ x <= 65535
  BY DEF Word
<1>7. \A x \in 1..3 : m.sections[x] \in Word
  BY <1>2
<1>8. QED
  BY <1>1, <1>2, <1>3, <1>4, <1>5, <1>6, <1>7

\* The bytes of a message before its records, and those of these.
HeaderBytes(m) ==
  <<0, 7, 129, 128>> \o WordBytes(m.questions)
    \o WordBytes(m.sections[1]) \o WordBytes(m.sections[2]) \o WordBytes(m.sections[3])
Opening(m) == HeaderBytes(m) \o m.name \o WordBytes(m.type) \o <<0, 1>>
RecordsOf(m) == [k \in DOMAIN m.records |-> RecordBytes(m.records[k])]

\* How many bytes are before the k-th answer.
Off(m, k) == Len(Opening(m)) + Len(Sums(RecordsOf(m))[k - 1])

LEMMA HeaderLaid ==
  ASSUME NEW m \in WellFormed
  PROVE  /\ HeaderBytes(m) \in Seq(Byte) /\ Len(HeaderBytes(m)) = 12
         /\ HeaderBytes(m)[5] = m.questions \div 256
         /\ HeaderBytes(m)[6] = m.questions % 256
<1> DEFINE a == <<0, 7, 129, 128>>
           q == WordBytes(m.questions)
           b == WordBytes(m.sections[1])
           c == WordBytes(m.sections[2])
           d == WordBytes(m.sections[3])
           aq == a \o q
           ab == aq \o b
           ac == ab \o c
           ad == ac \o d
<1>1. a \in Seq(Byte) /\ Len(a) = 4
  <2>1. 0 \in Byte /\ 7 \in Byte /\ 129 \in Byte /\ 128 \in Byte
    BY DEF Byte
  <2> HIDE DEF Byte
  <2>2. QED
    BY <2>1
<1>2. /\ q \in Seq(Byte) /\ Len(q) = 2
      /\ q[1] = m.questions \div 256 /\ q[2] = m.questions % 256
  <2> DEFINE n == m.questions
  <2>1. n \in Word /\ q = WordBytes(n)
    BY MessageParts
  <2> HIDE DEF n, q
  <2>2. q \in Seq(Byte) /\ Len(q) = 2 /\ q[1] = n \div 256 /\ q[2] = n % 256
    BY <2>1, WordLaid
  <2>3. QED
    BY <2>2 DEF n
<1>3. /\ b \in Seq(Byte) /\ Len(b) = 2 /\ c \in Seq(Byte) /\ Len(c) = 2
      /\ d \in Seq(Byte) /\ Len(d) = 2
  <2>1. \A x \in 1..3 : WordBytes(m.sections[x]) \in Seq(Byte)
                          /\ Len(WordBytes(m.sections[x])) = 2
    <3> SUFFICES ASSUME NEW x \in 1..3
                 PROVE  WordBytes(m.sections[x]) \in Seq(Byte)
                          /\ Len(WordBytes(m.sections[x])) = 2
      OBVIOUS
    <3> DEFINE n == m.sections[x]
    <3>1. n \in Word
      BY MessageParts
    <3> HIDE DEF n
    <3>2. WordBytes(n) \in Seq(Byte) /\ Len(WordBytes(n)) = 2
      BY <3>1, WordLaid
    <3>3. QED
      BY <3>2 DEF n
  <2>2. 1 \in 1..3 /\ 2 \in 1..3 /\ 3 \in 1..3
    OBVIOUS
  <2>3. QED
    BY <2>1, <2>2
<1>4. aq = a \o q /\ ab = aq \o b /\ ac = ab \o c /\ ad = ac \o d
  OBVIOUS
<1>5. HeaderBytes(m) = ad
  BY DEF HeaderBytes
<1> HIDE DEF a, q, b, c, d, aq, ab, ac, ad
<1>6. IsJoined(aq, a, q, 4, 6)
  <2>1. a \in Seq(Byte) /\ q \in Seq(Byte) /\ aq = a \o q /\ 4 = Len(a) /\ 6 = 4 + Len(q)
    BY <1>1, <1>2, <1>4
  <2>2. QED
    BY <2>1, Joined
<1>7. IsJoined(ab, aq, b, 6, 8)
  <2>1. aq \in Seq(Byte) /\ b \in Seq(Byte) /\ ab = aq \o b /\ 6 = Len(aq) /\ 8 = 6 + Len(b)
    BY <1>3, <1>4, <1>6 DEF IsJoined
  <2>2. QED
    BY <2>1, Joined
<1>8. IsJoined(ac, ab, c, 8, 10)
  <2>1. ab \in Seq(Byte) /\ c \in Seq(Byte) /\ ac = ab \o c /\ 8 = Len(ab) /\ 10 = 8 + Len(c)
    BY <1>3, <1>4, <1>7 DEF IsJoined
  <2>2. QED
    BY <2>1, Joined
<1>9. IsJoined(ad, ac, d, 10, 12)
  <2>1. ac \in Seq(Byte) /\ d \in Seq(Byte) /\ ad = ac \o d /\ 10 = Len(ac) /\ 12 = 10 + Len(d)
    BY <1>3, <1>4, <1>8 DEF IsJoined
  <2>2. QED
    BY <2>1, Joined
<1>10. ad[5] = q[1] /\ ad[6] = q[2]
  BY <1>6, <1>7, <1>8, <1>9 DEF IsJoined
<1>11. QED
  BY <1>2, <1>5, <1>9, <1>10 DEF IsJoined

LEMMA OpeningLaid ==
  ASSUME NEW m \in WellFormed
  PROVE  /\ Opening(m) \in Seq(Byte)
         /\ Len(Opening(m)) = 16 + Len(m.name)
         /\ Opening(m)[5] = m.questions \div 256
         /\ Opening(m)[6] = m.questions % 256
         /\ \A i \in 1..Len(m.name) : Opening(m)[12 + i] = m.name[i]
         /\ Opening(m)[13 + Len(m.name)] = m.type \div 256
         /\ Opening(m)[14 + Len(m.name)] = m.type % 256
<1> DEFINE a == HeaderBytes(m)
           b == m.name
           c == WordBytes(m.type)
           d == <<0, 1>>
           ab == a \o b
           ac == ab \o c
           ad == ac \o d
           L == Len(b)
<1>1. b \in Seq(Byte) /\ m.type \in Word
  BY MessageParts
<1>2. d \in Seq(Byte) /\ Len(d) = 2
  <2>1. 0 \in Byte /\ 1 \in Byte
    BY DEF Byte
  <2> HIDE DEF Byte
  <2>2. QED
    BY <2>1
<1>3. /\ a \in Seq(Byte) /\ Len(a) = 12
      /\ a[5] = m.questions \div 256 /\ a[6] = m.questions % 256
  BY HeaderLaid
<1>4. /\ c \in Seq(Byte) /\ Len(c) = 2
      /\ c[1] = m.type \div 256 /\ c[2] = m.type % 256
  BY <1>1, WordLaid
<1>5. ab = a \o b /\ ac = ab \o c /\ ad = ac \o d
  OBVIOUS
<1>6. Opening(m) = ad /\ b = m.name
  BY DEF Opening
<1>7. L \in Nat /\ L = Len(b)
  BY <1>1, LenProperties
<1> HIDE DEF a, b, c, d, ab, ac, ad, L
<1>8. IsJoined(ab, a, b, 12, 12 + L)
  <2>1. /\ a \in Seq(Byte) /\ b \in Seq(Byte) /\ ab = a \o b
        /\ 12 = Len(a) /\ 12 + L = 12 + Len(b)
    BY <1>1, <1>3, <1>5, <1>7
  <2>2. QED
    BY <2>1, Joined
<1>9. IsJoined(ac, ab, c, 12 + L, 14 + L)
  <2>1. ab \in Seq(Byte) /\ 12 + L = Len(ab) /\ 14 + L = 12 + L + Len(c)
    BY <1>4, <1>7, <1>8 DEF IsJoined
  <2>2. QED
    BY <2>1, <1>4, <1>5, Joined
<1>10. IsJoined(ad, ac, d, 14 + L, 16 + L)
  <2>1. ac \in Seq(Byte) /\ 14 + L = Len(ac) /\ 16 + L = 14 + L + Len(d)
    BY <1>2, <1>7, <1>9 DEF IsJoined
  <2>2. QED
    BY <2>1, <1>2, <1>5, Joined
<1>11. \A i \in 1..(12 + L) : ad[i] = ab[i]
  BY <1>7, <1>9, <1>10 DEF IsJoined
<1>12. ad[5] = a[5] /\ ad[6] = a[6]
  <2>1. 5 \in 1..(12 + L) /\ 6 \in 1..(12 + L)
    BY <1>7
  <2>2. QED
    BY <2>1, <1>8, <1>11 DEF IsJoined
<1>13. \A i \in 1..L : ad[12 + i] = b[i]
  <2> SUFFICES ASSUME NEW i \in 1..L PROVE ad[12 + i] = b[i]
    OBVIOUS
  <2> DEFINE j == 12 + i
  <2>1. j \in 1..(12 + L) /\ ~(j <= 12) /\ j - 12 = i
    BY <1>7
  <2> HIDE DEF j
  <2>2. ad[j] = b[i]
    BY <2>1, <1>8, <1>11 DEF IsJoined
  <2>3. QED
    BY <2>2 DEF j
<1>14. ad[13 + L] = c[1] /\ ad[14 + L] = c[2]
  BY <1>7, <1>9, <1>10 DEF IsJoined
<1>15. QED
  <2>1. L = Len(m.name)
    BY <1>6, <1>7
  <2>2. QED
    BY <2>1, <1>3, <1>4, <1>6, <1>10, <1>12, <1>13, <1>14 DEF IsJoined

\* The records are sequences of bytes, and their sums exist.
LEMMA RecordsSummed ==
  ASSUME NEW m \in WellFormed
  PROVE  /\ RecordsOf(m) \in Seq(Seq(Byte))
         /\ Len(RecordsOf(m)) = Len(m.records)
         /\ AreSums(Sums(RecordsOf(m)), RecordsOf(m), Len(m.records))
         /\ FlattenSeq(RecordsOf(m)) = Sums(RecordsOf(m))[Len(m.records)]
         /\ \A k \in 1..Len(m.records) : RecordsOf(m)[k] = RecordBytes(m.records[k])
<1> DEFINE s == RecordsOf(m)
           n == Len(m.records)
<1>1. n \in Nat /\ DOMAIN m.records = 1..n
  BY MessageParts
<1>2. s = [k \in 1..n |-> RecordBytes(m.records[k])]
  BY <1>1 DEF RecordsOf
<1>3. \A k \in 1..n : RecordBytes(m.records[k]) \in Seq(Byte)
  <2>1. \A r \in Record : RecordBytes(r) \in Seq(Byte)
    BY RecordLaid, Zenon
  <2>2. \A k \in 1..n : m.records[k] \in Record
    BY MessageParts
  <2> QED
    BY <2>1, <2>2
<1> HIDE DEF n
<1>4. s \in [1..n -> Seq(Byte)] /\ \A k \in 1..n : s[k] = RecordBytes(m.records[k])
  BY <1>2, <1>3
<1> HIDE DEF s
<1>5. s \in Seq(Seq(Byte)) /\ Len(s) = n
  <2>1. s \in Seq(Seq(Byte))
    BY <1>1, <1>4, SeqDef
  <2>2. DOMAIN s = 1..Len(s) /\ Len(s) \in Nat
    BY <2>1, LenProperties
  <2>3. 1..Len(s) = 1..n
    BY <2>2, <1>4
  <2> DEFINE l == Len(s)
  <2>4. l \in Nat /\ 1..l = 1..n
    BY <2>2, <2>3
  <2> HIDE DEF l
  <2>5. l = n
    BY <2>4, <1>1
  <2>6. QED
    BY <2>1, <2>5 DEF l
<1>6. AreSums(Sums(s), s, n)
  BY <1>5, SumsExist
<1>7. FlattenSeq(s) = Sums(s)[n]
  BY <1>5, <1>6, FlattenIsSum
<1>8. QED
  BY <1>4, <1>5, <1>6, <1>7 DEF s, n

\* The k-th answer is in the message after those before it.
LEMMA AnswerLaid ==
  ASSUME NEW m \in WellFormed, NEW k \in 1..Len(m.records)
  PROVE  /\ Off(m, k) \in Nat /\ Off(m, k + 1) \in Nat
         /\ Off(m, k + 1) = Off(m, k) + Len(RecordBytes(m.records[k]))
         /\ Off(m, k + 1) <= Len(Encode(m))
         /\ \A i \in 1..Len(RecordBytes(m.records[k])) :
              Encode(m)[Off(m, k) + i] = RecordBytes(m.records[k])[i]
<1> DEFINE s  == RecordsOf(m)
           n  == Len(m.records)
           fl == Sums(s)
           a  == Len(Opening(m))
           b  == Len(fl[k - 1])
           c  == Len(s[k])
           d  == Len(fl[n])
<1>1. n \in Nat /\ k \in 1..n /\ k \in 1..Len(s) /\ k \in 0..Len(s) /\ n = Len(s)
  BY MessageParts, RecordsSummed
<1>2. /\ s \in Seq(Seq(Byte)) /\ AreSums(fl, s, Len(s)) /\ AreSums(fl, s, n)
      /\ FlattenSeq(s) = fl[n] /\ s[k] = RecordBytes(m.records[k])
  BY RecordsSummed
<1>3. Opening(m) \in Seq(Byte) /\ a \in Nat
  BY OpeningLaid, LenProperties
<1>4. b \in Nat /\ c \in Nat /\ Len(fl[k]) = b + c
  BY <1>1, <1>2, SumAt, LenProperties
<1>5. \A i \in 1..c : fl[n][b + i] = s[k][i]
  <2> HIDE DEF s, fl, n
  <2>1. \A i \in 1..Len(s[k]) : fl[Len(s)][Len(fl[k - 1]) + i] = s[k][i]
    BY <1>1, <1>2, PieceInWhole
  <2>2. QED
    BY <2>1, <1>1
<1>6. Len(fl[k]) <= d
  <2>1. n \in k..Len(s)
    BY <1>1
  <2>2. QED
    BY <2>1, <1>1, <1>2, SumsGrow
<1>7. fl[n] \in Seq(Byte) /\ d \in Nat
  <2>1. n \in 0..n
    BY <1>1
  <2>2. fl[n] \in Seq(Byte)
    BY <2>1, <1>2 DEF AreSums
  <2>3. QED
    BY <2>2, LenProperties
<1>8. Encode(m) = Opening(m) \o fl[n]
  BY <1>2 DEF Encode, Opening, HeaderBytes, RecordsOf
<1>9. IsJoined(Encode(m), Opening(m), fl[n], a, a + d)
  BY <1>3, <1>7, <1>8, Joined
<1>10. k + 1 - 1 = k
  BY <1>1
<1>11. Off(m, k) = a + b /\ Off(m, k + 1) = a + Len(fl[k])
  BY <1>10 DEF Off
<1> HIDE DEF a, b, c, d, s, fl, n
<1>12. /\ Off(m, k) \in Nat /\ Off(m, k + 1) \in Nat
       /\ Off(m, k + 1) = Off(m, k) + c /\ Off(m, k + 1) <= a + d
  BY <1>3, <1>4, <1>6, <1>7, <1>11
<1>13. \A i \in 1..c : Encode(m)[Off(m, k) + i] = s[k][i]
  <2> SUFFICES ASSUME NEW i \in 1..c PROVE Encode(m)[Off(m, k) + i] = s[k][i]
    OBVIOUS
  <2> DEFINE j == Off(m, k) + i
  <2>1. j \in 1..(a + d) /\ ~(j <= a) /\ j - a = b + i
    BY <1>3, <1>4, <1>6, <1>7, <1>11
  <2> HIDE DEF j
  <2>2. Encode(m)[j] = fl[n][b + i]
    BY <2>1, <1>9 DEF IsJoined
  <2>3. QED
    BY <2>2, <1>5 DEF j
<1>14. QED
  <2>1. c = Len(RecordBytes(m.records[k]))
    BY <1>2 DEF c, s
  <2>2. QED
    BY <2>1, <1>2, <1>9, <1>12, <1>13 DEF IsJoined

\* The answers begin after the question, and end with the message.
LEMMA MessageLaid ==
  ASSUME NEW m \in WellFormed
  PROVE  /\ Encode(m) \in Seq(Byte) /\ Len(Encode(m)) \in Nat
         /\ Off(m, 1) = 16 + Len(m.name)
         /\ Off(m, Len(m.records) + 1) = Len(Encode(m))
         /\ Off(m, 1) <= Len(Encode(m))
         /\ \A i \in 1..Off(m, 1) : Encode(m)[i] = Opening(m)[i]
<1> DEFINE s  == RecordsOf(m)
           n  == Len(m.records)
           fl == Sums(s)
           a  == Len(Opening(m))
           d  == Len(fl[n])
<1>1. n \in Nat /\ AreSums(fl, s, n) /\ FlattenSeq(s) = fl[n]
  BY MessageParts, RecordsSummed
<1>2. Opening(m) \in Seq(Byte) /\ a \in Nat /\ a = 16 + Len(m.name)
  BY OpeningLaid, LenProperties
<1>3. fl[n] \in Seq(Byte) /\ d \in Nat
  <2>1. n \in 0..n
    BY <1>1
  <2>2. fl[n] \in Seq(Byte)
    BY <2>1, <1>1 DEF AreSums
  <2>3. QED
    BY <2>2, LenProperties
<1>4. Encode(m) = Opening(m) \o fl[n]
  BY <1>1 DEF Encode, Opening, HeaderBytes, RecordsOf
<1>5. IsJoined(Encode(m), Opening(m), fl[n], a, a + d)
  BY <1>2, <1>3, <1>4, Joined
<1>6. Off(m, 1) = a + Len(fl[0]) /\ fl[0] = <<>> /\ Off(m, n + 1) = a + Len(fl[n])
  <2>1. 1 - 1 = 0 /\ n + 1 - 1 = n
    BY <1>1
  <2>2. QED
    BY <2>1, <1>1 DEF Off, AreSums
<1>7. Off(m, 1) = a
  <2>1. Len(<<>>) = 0
    OBVIOUS
  <2>2. QED
    BY <2>1, <1>2, <1>6
<1> HIDE DEF a, d, s, fl
<1>8. /\ Encode(m) \in Seq(Byte) /\ Len(Encode(m)) = a + d /\ a + d \in Nat /\ a <= a + d
      /\ \A i \in 1..a : i \in 1..(a + d) /\ i <= a
  BY <1>2, <1>3, <1>5 DEF IsJoined
<1>9. \A i \in 1..a : Encode(m)[i] = Opening(m)[i]
  BY <1>5, <1>8 DEF IsJoined
<1>10. QED
  BY <1>2, <1>6, <1>7, <1>8, <1>9 DEF d

\* Later answers begin later.
LEMMA OffsetsGrow ==
  ASSUME NEW m \in WellFormed, NEW j \in 1..(Len(m.records) + 1),
         NEW k \in j..(Len(m.records) + 1)
  PROVE  /\ Off(m, j) \in Nat /\ Off(m, k) \in Nat
         /\ Off(m, j) <= Off(m, k) /\ Off(m, k) <= Len(Encode(m))
<1> DEFINE s  == RecordsOf(m)
           n  == Len(m.records)
           fl == Sums(s)
           a  == Len(Opening(m))
<1>1. n \in Nat /\ n = Len(s) /\ s \in Seq(Seq(Byte)) /\ AreSums(fl, s, Len(s))
  BY MessageParts, RecordsSummed
<1>2. a \in Nat
  BY OpeningLaid, LenProperties
<1>3. j - 1 \in 0..Len(s) /\ k - 1 \in (j - 1)..Len(s) /\ k - 1 \in 0..Len(s)
      /\ n \in (k - 1)..Len(s)
  BY <1>1
<1>4. /\ Len(fl[j - 1]) \in Nat /\ Len(fl[k - 1]) \in Nat /\ Len(fl[n]) \in Nat
      /\ Len(fl[j - 1]) <= Len(fl[k - 1]) /\ Len(fl[k - 1]) <= Len(fl[n])
  BY <1>1, <1>3, SumsGrow
<1>5. Len(Encode(m)) = a + Len(fl[n])
  <2>1. n + 1 - 1 = n
    BY <1>1
  <2>2. QED
    BY <2>1, MessageLaid DEF Off
<1>6. Off(m, j) = a + Len(fl[j - 1]) /\ Off(m, k) = a + Len(fl[k - 1])
  BY DEF Off
<1> HIDE DEF a, fl, n, s
<1>7. QED
  BY <1>2, <1>4, <1>5, <1>6

-----------------------------------------------------------------------------
(* What the walk reads of a message.                                       *)

\* Where a scan ends when the first zero byte from its start on is at z.
LEMMA ScanTo ==
  ASSUME NEW o \in Nat, NEW stop \in Int, o < stop, NEW z \in Nat, z >= o,
         z < stop => At(z) = 0,
         \A y \in o..(z - 1) : y < stop => At(y) # 0
  PROVE  FirstZero(o, stop) = IF z < stop THEN z ELSE stop
<1>1. Zeros(o, stop) = {y \in o..(stop - 1) : At(y) = 0}
  BY DEF Zeros
<1>2. CASE z < stop
  <2>1. z \in Zeros(o, stop)
    BY <1>1, <1>2
  <2>2. \A y \in Zeros(o, stop) : y \in Nat /\ z <= y
    BY <1>1
  <2>3. (CHOOSE x \in Zeros(o, stop) : \A y \in Zeros(o, stop) : x <= y) = z
    <3>1. \A x \in Zeros(o, stop) :
            (\A y \in Zeros(o, stop) : x <= y) => x <= z /\ z <= x /\ x \in Nat
      BY <2>1, <2>2
    <3>2. \A x \in Zeros(o, stop) : (\A y \in Zeros(o, stop) : x <= y) => x = z
      BY <3>1
    <3>3. QED
      BY <2>1, <2>2, <3>2
  <2>4. QED
    BY <1>2, <2>1, <2>3 DEF FirstZero
<1>3. CASE ~(z < stop)
  <2>1. \A y \in o..(stop - 1) : At(y) # 0
    BY <1>3
  <2>2. Zeros(o, stop) = {}
    BY <1>1, <2>1
  <2>3. QED
    BY <1>3, <2>2 DEF FirstZero
<1>4. QED
  BY <1>2, <1>3

\* Until the walk overwrites it, the buffer is the message as far as it goes.
LEMMA PacketBytes ==
  ASSUME TypeOK, pkt = Packet[input]
  PROVE  /\ input.msg \in WellFormed /\ input.cut \in Nat
         /\ End \in Nat /\ End <= Len(Encode(input.msg))
         /\ input.cut = 0 => End = Len(Encode(input.msg)) /\ pkt = Encode(input.msg)
         /\ \A i \in 1..End : pkt[i] = Encode(input.msg)[i]
         /\ \A o \in Nat : o < End => At(o) = Encode(input.msg)[o + 1]
<1> DEFINE e == Encode(input.msg)
           c == input.cut
           l == Len(e)
<1>1. /\ input \in [msg : Message, cut : 0..MaxCut]
      /\ Packet[input] = SubSeq(e, 1, l - c)
  BY PacketAssumption DEF TypeOK, Packets
<1>2. input.msg \in WellFormed /\ c \in Nat
  BY <1>1, MessageAssumption
<1>3. e \in Seq(Byte) /\ l \in Nat
  BY <1>2, MessageLaid
<1>4. pkt = SubSeq(e, 1, l - c) /\ End \in Nat
  BY <1>1, EndNat
<1>5. c = 0 => l - c = l
  BY <1>3
<1>6. c = 0 => pkt = e
  <2>1. SubSeq(e, 1, l) = e
    BY <1>3
  <2>2. QED
    BY <2>1, <1>4, <1>5
<1> HIDE DEF c, e
<1>7. /\ Len(SubSeq(e, 1, l - c)) = IF 1 <= l - c THEN l - c ELSE 0
      /\ \A i \in 1..(l - c) : SubSeq(e, 1, l - c)[i] = e[i]
  <2> HIDE DEF l
  <2>1. 1 \in Int /\ l - c \in Int /\ l - c - 1 + 1 = l - c
    BY <1>2, <1>3 DEF c
  <2>2. \A i \in 1..(l - c) : e[i] \in Byte
    <3>1. \A i \in 1..(l - c) : i \in 1..l
      BY <1>2, <1>3 DEF c
    <3>2. QED
      BY <3>1, <1>3, ElementOfSeq DEF l
  <2>3. \A i \in 1..(l - c) : 1 + i - 1 = i
    OBVIOUS
  <2>4. QED
    BY <2>1, <2>2, <2>3, SubSeqProperties
<1> HIDE DEF l
<1>8. End = (IF 1 <= l - c THEN l - c ELSE 0) /\ \A i \in 1..(l - c) : pkt[i] = e[i]
  BY <1>4, <1>7 DEF End
<1>9. End <= l /\ \A i \in 1..End : pkt[i] = e[i]
  BY <1>2, <1>3, <1>8 DEF c
<1>10. ASSUME NEW o \in Nat, o < End PROVE At(o) = e[o + 1]
  <2>1. o + 1 \in 1..End
    BY <1>4, <1>10
  <2>2. At(o) = pkt[o + 1]
    BY <1>10 DEF At
  <2>3. QED
    BY <2>1, <2>2, <1>9
<1>11. c = 0 => End = l
  BY <1>3, <1>8
<1>12. QED
  BY <1>2, <1>4, <1>6, <1>9, <1>10, <1>11 DEF c, e, l

\* An answer is read as it was written, as far as it was received.
ReadsAs(k, r, o, L, d, E) ==
  /\ r \in Record /\ o \in Nat /\ L \in Nat /\ d \in Nat /\ E \in Nat
  /\ Off(input.msg, k + 1) = o + L + 10 + d
  /\ \A i \in 1..L : o + i <= E => At(o + i - 1) = r.owner[i]
  /\ o + L < E => At(o + L) = r.type \div 256
  /\ o + L + 1 < E => At(o + L + 1) = r.type % 256 /\ U16(o + L) = r.type
  /\ o + L + 9 < E => U16(o + L + 8) = r.len
  /\ \A i \in 1..d : o + L + 10 + i <= E => At(o + L + 9 + i) = r.data[i]

LEMMA AnswerRead ==
  ASSUME TypeOK, pkt = Packet[input], NEW k \in 1..Len(input.msg.records)
  PROVE  LET r == input.msg.records[k] IN
         ReadsAs(k, r, Off(input.msg, k), Len(r.owner), Len(r.data), End)
<1> DEFINE m == input.msg
           r == m.records[k]
           o == Off(m, k)
           L == Len(r.owner)
           e == Encode(m)
           b == RecordBytes(r)
           d == Len(r.data)
           E == End
<1>1. m \in WellFormed /\ End \in Nat /\ \A x \in Nat : x < End => At(x) = e[x + 1]
  BY PacketBytes
<1>2. r \in Record
  BY <1>1, MessageParts
<1>3. r.len \in Nat /\ r.type \in Word /\ L \in Nat /\ d \in Nat
  BY <1>2, AnswerParts, LenProperties
<1>4. /\ \A i \in 1..L : b[i] = r.owner[i]
      /\ b[L + 1] = r.type \div 256 /\ b[L + 2] = r.type % 256
      /\ b[L + 9] = r.len \div 256 /\ b[L + 10] = r.len % 256
      /\ \A i \in 1..d : b[L + 10 + i] = r.data[i]
  <2>1. r \in Record
    BY <1>2
  <2> HIDE DEF r
  <2>2. b[L + 1] = r.type \div 256 /\ b[L + 2] = r.type % 256
    BY <2>1, RecordLaid, Zenon
  <2>3. b[L + 9] = r.len \div 256 /\ b[L + 10] = r.len % 256
    BY <2>1, RecordLaid, Zenon
  <2>4. \A i \in 1..L : b[i] = r.owner[i]
    BY <2>1, RecordLaid, Zenon
  <2>5. \A i \in 1..d : b[L + 10 + i] = r.data[i]
    BY <2>1, RecordLaid, Zenon
  <2> HIDE DEF b, L, d
  <2>6. QED
    BY <2>2, <2>3, <2>4, <2>5
<1>5. /\ Len(b) = L + 10 + d
      /\ \A i \in 1..(L + 10 + d) : e[o + i] = b[i]
  <2>1. Len(b) = L + 10 + d
    BY <1>2, RecordLaid
  <2>2. \A i \in 1..Len(b) : e[o + i] = b[i]
    BY <1>1, AnswerLaid
  <2> HIDE DEF b, d, e
  <2>3. QED
    BY <2>1, <2>2
<1>6. o \in Nat /\ Off(m, k + 1) = o + Len(b)
  BY <1>1, AnswerLaid
<1>7. E \in Nat /\ o \in Nat /\ L \in Nat /\ d \in Nat
  BY <1>1, <1>3, <1>6
<1>8. Off(m, k + 1) = o + L + 10 + d
  <2> DEFINE lb == Len(b)
             on == Off(m, k + 1)
  <2>1. lb = L + 10 + d /\ on = o + lb
    BY <1>5, <1>6
  <2> HIDE DEF lb, on, d
  <2>2. on = o + L + 10 + d
    <3> HIDE DEF o, L
    <3>1. QED
      BY <2>1, <1>7
  <2>3. QED
    BY <2>2 DEF on
<1> HIDE DEF m, r, o, L, e, b, d, E
<1>9. ASSUME NEW i \in 1..(L + 10 + d), o + i <= E
      PROVE  At(o + i - 1) = b[i]
  <2>1. o + i - 1 \in Nat /\ o + i - 1 < E /\ o + i - 1 + 1 = o + i
    BY <1>7, <1>9
  <2>2. At(o + i - 1) = e[o + i]
    BY <1>1, <2>1 DEF E
  <2>3. QED
    BY <2>2, <1>5
<1>10. \A i \in 1..L : o + i <= E => At(o + i - 1) = r.owner[i]
  <2>1. \A i \in 1..L : i \in 1..(L + 10 + d)
    BY <1>7
  <2>2. QED
    BY <2>1, <1>4, <1>9
<1>11. ASSUME NEW x \in {1, 2, 9, 10}, o + L + x <= E
      PROVE  At(o + L + x - 1) = b[L + x]
  <2>1. L + x \in 1..(L + 10 + d)
    BY <1>7
  <2> DEFINE i == L + x
  <2>2. o + i <= E /\ o + i - 1 = o + L + x - 1
    BY <1>7, <1>11
  <2> HIDE DEF i
  <2>3. At(o + i - 1) = b[i]
    BY <2>1, <2>2, <1>9 DEF i
  <2>4. QED
    BY <2>2, <2>3 DEF i
<1>12. /\ o + L < E => At(o + L) = r.type \div 256
       /\ o + L + 1 < E => At(o + L + 1) = r.type % 256 /\ U16(o + L) = r.type
  <2>1. /\ o + L + 1 - 1 = o + L /\ (o + L < E => o + L + 1 <= E)
        /\ o + L + 2 - 1 = o + L + 1 /\ (o + L + 1 < E => o + L + 2 <= E)
        /\ (o + L + 1 < E => o + L < E)
    BY <1>7
  <2>2. /\ o + L < E => At(o + L) = r.type \div 256
        /\ o + L + 1 < E => At(o + L + 1) = r.type % 256
    BY <2>1, <1>4, <1>11
  <2>3. U16(o + L) = 256 * At(o + L) + At(o + L + 1)
    BY DEF U16
  <2> DEFINE n == r.type
  <2>4. n \in Word
    BY <1>3
  <2>5. 256 * (n \div 256) + (n % 256) = n
    <3> HIDE DEF n
    <3>1. QED
      BY <2>4, WordLaid
  <2>6. o + L + 1 < E => U16(o + L) = r.type
    BY <2>1, <2>2, <2>3, <2>5
  <2>7. QED
    BY <2>2, <2>6
<1>13. ASSUME o + L + 9 < E PROVE U16(o + L + 8) = r.len
  <2>1. /\ o + L + 9 - 1 = o + L + 8 /\ o + L + 9 <= E
        /\ o + L + 10 - 1 = o + L + 9 /\ o + L + 10 <= E
        /\ o + L + 8 + 1 = o + L + 9
    BY <1>7, <1>13
  <2>2. At(o + L + 8) = r.len \div 256 /\ At(o + L + 9) = r.len % 256
    BY <2>1, <1>4, <1>11
  <2>3. U16(o + L + 8) = 256 * At(o + L + 8) + At(o + L + 9)
    BY <2>1 DEF U16
  <2> DEFINE n == r.len
  <2>4. n \in Nat
    BY <1>3
  <2>5. 256 * (n \div 256) + (n % 256) = n
    <3> HIDE DEF n
    <3>1. QED
      BY <2>4
  <2>6. QED
    BY <2>2, <2>3, <2>5
<1>14. ASSUME NEW i \in 1..d, o + L + 10 + i <= E
       PROVE  At(o + L + 9 + i) = r.data[i]
  <2> DEFINE j == L + 10 + i
  <2>1. j \in 1..(L + 10 + d) /\ o + j <= E /\ o + j - 1 = o + L + 9 + i
    BY <1>7, <1>14
  <2>2. b[j] = r.data[i]
    BY <1>4
  <2> HIDE DEF j
  <2>3. At(o + j - 1) = b[j]
    BY <2>1, <1>9
  <2>4. QED
    BY <2>1, <2>2, <2>3
<1>15. ReadsAs(k, r, o, L, d, E)
  <2>1. /\ r \in Record /\ o \in Nat /\ L \in Nat /\ d \in Nat /\ E \in Nat
        /\ Off(input.msg, k + 1) = o + L + 10 + d
    BY <1>2, <1>7, <1>8 DEF m
  <2>2. \A i \in 1..L : o + i <= E => At(o + i - 1) = r.owner[i]
    BY <1>10
  <2>3. o + L + 9 < E => U16(o + L + 8) = r.len
    BY <1>13
  <2>4. \A i \in 1..d : o + L + 10 + i <= E => At(o + L + 9 + i) = r.data[i]
    BY <1>14
  <2>5. QED
    BY <2>1, <2>2, <2>3, <2>4, <1>12 DEF ReadsAs
<1>16. QED
  BY <1>15 DEF m, r, o, L, d, E

\* A name is a pointer, or text whose only zero byte, if any, is its last one.
LEMMA OwnerShape ==
  ASSUME NEW n \in Written \cup Pointer \cup Partial
  PROVE  /\ Len(n) \in Nat /\ n \in Seq(Byte)
         /\ \/ Len(n) = 2 /\ n[1] >= 192
            \/ /\ Len(n) >= 1 /\ n[1] < 192
               /\ \A i \in 1..(Len(n) - 1) : n[i] # 0
               /\ n[Len(n)] = 0 \/ n \in Partial
<1>1. n \in Seq(Byte) /\ Len(n) \in Nat
  BY LenProperties DEF Written, Pointer, Partial
<1>2. CASE n \in Written
  <2>1. n # <<>> => Len(n) >= 1
    BY <1>1, EmptySeq
  <2>2. QED
    BY <1>1, <1>2, <2>1 DEF Written
<1>3. CASE n \in Pointer
  BY <1>1, <1>3 DEF Pointer
<1>4. CASE n \in Partial
  BY <1>1, <1>4 DEF Partial
<1>5. QED
  BY <1>2, <1>3, <1>4

\* The name of a record is skipped to its type.  If it is not, then either no type
\* that the walk knows is read, the name being part text, part pointer or the packet
\* ending before the data; or a type of two bytes is misread where the packet ends.
LEMMA NameRead ==
  ASSUME TypeOK, pkt = Packet[input], ~NoAnswer,
         NEW k \in 1..Len(input.msg.records), p = Off(input.msg, k),
         input.msg.records[k].owner \in Partial
           => input.msg.records[k].type \in 1..255
  PROVE  LET r == input.msg.records[k]
             q == NameEnd(p) IN
         \/ q + 2 = p + Len(r.owner)
         \/ /\ U16(q + 2) \notin {DNS_A_RECORD, DNS_CNAME_RECORD}
            /\ r.owner \in Partial \/ End <= p + Len(r.owner) + 10
         \/ q + 13 = End /\ r.type >= 256
<1> DEFINE r == input.msg.records[k]
           w == r.owner
           L == Len(w)
           d == Len(r.data)
           o == p
           E == End
           q == NameEnd(p)
           f == FirstZero(o, E - 12)
           t == r.type
           Goal == \/ q + 2 = o + L
                   \/ U16(q + 2) \notin {1, 5} /\ (w \in Partial \/ E <= o + L + 10)
                   \/ q + 13 = E /\ t >= 256
<1> SUFFICES Goal
  BY DEF DNS_A_RECORD, DNS_CNAME_RECORD
<1>1. ReadsAs(k, r, o, L, d, E)
  BY AnswerRead
<1>2. /\ w \in Written \cup Pointer \cup Partial /\ t \in Nat
      /\ w \in Partial => t \in 1..255
  <2>1. r \in Record
    BY <1>1 DEF ReadsAs
  <2>2. QED
    BY <2>1, AnswerParts
<1>3. /\ L \in Nat
      /\ \/ L = 2 /\ w[1] >= 192
         \/ /\ L >= 1 /\ w[1] < 192
            /\ \A i \in 1..(L - 1) : w[i] # 0
            /\ w[L] = 0 \/ w \in Partial
  BY <1>2, OwnerShape
<1>4. /\ o \in Nat /\ E \in Nat /\ o + 12 < E
      /\ \A i \in 1..L : o + i <= E => At(o + i - 1) = w[i]
      /\ o + L < E => At(o + L) = t \div 256
      /\ o + L + 1 < E => At(o + L + 1) = t % 256
  BY <1>1 DEF ReadsAs, NoAnswer
<1>4a. o \in Nat /\ E \in Nat /\ o + 12 < E
  BY <1>4
<1>5. q = IF At(o) >= 192 THEN o ELSE f - 1
  BY DEF NameEnd
<1>6. \A x \in Nat : At(x) \in Nat
  <2>1. \A x \in Byte : x \in Nat
    BY DEF Byte
  <2>2. \A x \in Nat : At(x) \in Byte
    BY ByteRead
  <2>3. QED
    BY <2>1, <2>2
<1>7. \A x \in Nat : U16(x) = 256 * At(x) + At(x + 1)
  BY DEF U16
<1>8. At(o) = w[1] /\ w[1] \in Nat
  <2> HIDE DEF o, L, E, w, r
  <2>1. 1 \in 1..L /\ o + 1 <= E /\ o + 1 - 1 = o
    BY <1>3, <1>4
  <2>2. At(o) = w[1]
    BY <2>1, <1>4
  <2>3. QED
    BY <2>2, <1>4, <1>6
<1>9. \A x \in Nat : At(x) # 0 => U16(x) \notin {1, 5}
  <2> SUFFICES ASSUME NEW x \in Nat, At(x) # 0 PROVE U16(x) \notin {1, 5}
    OBVIOUS
  <2> DEFINE high == At(x)
             low  == At(x + 1)
  <2>1. high \in Nat /\ low \in Nat /\ high # 0 /\ U16(x) = 256 * high + low
    BY <1>6, <1>7
  <2> HIDE DEF high, low
  <2>2. QED
    BY <2>1
<1> HIDE DEF r, w, L, d, o, E, q, f, t, Goal
<1>10. /\ At(o) >= 192 => q = o
       /\ At(o) < 192 => q = f - 1
  <2>1. At(o) \in Nat
    BY <1>4, <1>6
  <2> DEFINE a == At(o)
  <2>2. a \in Nat /\ q = IF a >= 192 THEN o ELSE f - 1
    BY <2>1, <1>5
  <2> HIDE DEF a
  <2>3. (a >= 192 => q = o) /\ (a < 192 => q = f - 1)
    BY <2>2
  <2>4. QED
    BY <2>3 DEF a
<1>11. CASE w[1] >= 192
  <2>1. L = 2
    BY <1>3, <1>8, <1>11
  <2>2. q = o
    BY <1>8, <1>10, <1>11
  <2>3. q + 2 = o + L
    BY <2>1, <2>2, <1>4
  <2>4. QED
    BY <2>3 DEF Goal
<1>12. CASE w[1] < 192 /\ w[L] = 0
  <2>1. L >= 1 /\ \A i \in 1..(L - 1) : w[i] # 0
    BY <1>3, <1>8, <1>12
  <2> DEFINE z    == o + L - 1
             stop == E - 12
  <2>2. z \in Nat /\ z >= o /\ stop \in Int /\ o < stop
    BY <1>3, <1>4, <2>1
  <2>3. \A i \in 1..L : i + o - 1 < stop => At(o + i - 1) = w[i]
    BY <1>4
  <2>4. z < stop => At(z) = 0
    BY <1>3, <1>4, <1>12, <2>1, <2>3
  <2>5. \A y \in o..(z - 1) : y < stop => At(y) # 0
    <3> SUFFICES ASSUME NEW y \in o..(z - 1), y < stop PROVE At(y) # 0
      OBVIOUS
    <3> DEFINE i == y - o + 1
    <3>1. i \in 1..(L - 1) /\ i \in 1..L /\ o + i - 1 = y /\ i + o - 1 = y
      BY <1>3, <1>4, <2>1
    <3> HIDE DEF i
    <3>2. QED
      BY <3>1, <2>1, <2>3
  <2>6. f = IF z < stop THEN z ELSE stop
    <3> HIDE DEF z, stop
    <3>1. FirstZero(o, stop) = IF z < stop THEN z ELSE stop
      BY <1>4, <2>2, <2>4, <2>5, ScanTo
    <3>2. QED
      BY <3>1 DEF f, stop
  <2>7. q = f - 1
    BY <1>8, <1>12, <1>10
  <2>8. CASE z <= stop
    BY <2>2, <2>6, <2>7, <2>8, <1>3, <1>4 DEF Goal
  <2>9. CASE ~(z <= stop)
    <3>1. q + 2 = E - 11 /\ E <= o + L + 10
      BY <2>2, <2>6, <2>7, <2>9, <1>3, <1>4
    <3> DEFINE i == E - 10 - o
    <3>2. i \in 1..L /\ o + i <= E /\ o + i - 1 = E - 11
      BY <2>9, <1>3, <1>4a
    <3> HIDE DEF i
    <3>3. At(q + 2) = w[i] /\ q + 2 \in Nat
      BY <3>1, <3>2, <1>4
    <3>4. CASE i # L
      <4>1. w[i] # 0
        BY <2>1, <3>2, <3>4, <1>3
      <4>2. QED
        BY <4>1, <3>1, <3>3, <1>9 DEF Goal
    <3>5. CASE i = L
      <4>1. At(q + 2) = 0
        BY <3>3, <3>5, <1>12
      <4>2. q + 2 + 1 = o + L /\ o + L < E
        BY <3>1, <3>2, <3>5, <1>3, <1>4a
      <4>3. At(q + 2 + 1) = t \div 256
        BY <4>2, <1>4
      <4>4. U16(q + 2) = t \div 256
        <5> DEFINE high == t \div 256
        <5>1. high \in Nat
          BY <1>2
        <5>2. U16(q + 2) = 256 * At(q + 2) + At(q + 2 + 1) /\ At(q + 2 + 1) = high
          BY <3>3, <4>3, <1>7
        <5> HIDE DEF high
        <5>3. U16(q + 2) = high
          BY <5>1, <5>2, <4>1
        <5>4. QED
          BY <5>3 DEF high
      <4>5. t < 256 => t \div 256 = 0
        BY <1>2
      <4>6. q + 13 = E
        <5>1. q \in Int
          BY <2>2, <2>6, <2>7, <1>3, <1>4a
        <5>2. QED
          BY <5>1, <3>1, <1>4a
      <4>7. CASE t < 256
        BY <4>4, <4>5, <4>7, <3>1 DEF Goal
      <4>8. CASE t >= 256
        BY <4>6, <4>8 DEF Goal
      <4>9. QED
        BY <4>7, <4>8, <1>2
    <3>6. QED
      BY <3>4, <3>5
  <2>10. QED
    BY <2>8, <2>9
<1>13. CASE w[1] < 192 /\ w[L] # 0
  <2>1. L >= 1 /\ (\A i \in 1..L : w[i] # 0) /\ w \in Partial /\ t \in 1..255
    <3>1. \A i \in 1..L : i = L \/ i \in 1..(L - 1)
      BY <1>3
    <3>2. QED
      BY <3>1, <1>2, <1>3, <1>8, <1>13
  <2> DEFINE z    == o + L
             stop == E - 12
  <2>2. z \in Nat /\ z >= o /\ stop \in Int /\ o < stop
    BY <1>3, <1>4
  <2>3. z < stop => At(z) = 0
    <3>1. t \div 256 = 0
      BY <2>1
    <3>2. z < stop => o + L < E
      BY <1>3, <1>4a
    <3>3. QED
      BY <3>1, <3>2, <1>4
  <2>4. \A y \in o..(z - 1) : y < E => At(y) # 0
    <3> SUFFICES ASSUME NEW y \in o..(z - 1), y < E PROVE At(y) # 0
      OBVIOUS
    <3> DEFINE i == y - o + 1
    <3>1. i \in 1..L /\ o + i - 1 = y /\ o + i <= E
      BY <1>3, <1>4
    <3> HIDE DEF i
    <3>2. At(o + i - 1) = w[i] /\ w[i] # 0
      BY <3>1, <2>1, <1>4
    <3>3. QED
      BY <3>1, <3>2
  <2>5. f = IF z < stop THEN z ELSE stop
    <3>1. \A y \in o..(z - 1) : y < stop => At(y) # 0
      BY <2>4, <1>3, <1>4
    <3> HIDE DEF z, stop
    <3>2. FirstZero(o, stop) = IF z < stop THEN z ELSE stop
      BY <3>1, <1>4, <2>2, <2>3, ScanTo
    <3>3. QED
      BY <3>2 DEF f, stop
  <2>6. q = f - 1
    BY <1>8, <1>13, <1>10
  <2>7. CASE z <= stop
    <3>1. q + 2 = o + L + 1 /\ q + 2 \in Nat /\ q + 2 + 1 = o + L + 2 /\ o + L + 2 < E
      BY <2>2, <2>5, <2>6, <2>7, <1>3, <1>4
    <3>2. At(q + 2) = t % 256 /\ t % 256 # 0
      <4>1. o + L + 1 < E /\ At(q + 2) = At(o + L + 1)
        BY <3>1, <1>3, <1>4
      <4>2. t % 256 # 0
        BY <2>1
      <4>3. QED
        BY <4>1, <4>2, <1>4
    <3>3. QED
      BY <3>1, <3>2, <2>1, <1>9 DEF Goal
  <2>8. CASE ~(z <= stop)
    <3>1. q + 2 = E - 11 /\ q + 2 \in Nat /\ E - 11 <= o + L
      BY <2>2, <2>5, <2>6, <2>8, <1>3, <1>4
    <3>2. CASE E - 11 = o + L
      BY <3>1, <3>2 DEF Goal
    <3>3. CASE E - 11 # o + L
      <4>1. E - 11 \in o..(z - 1) /\ E - 11 < E
        BY <3>1, <3>3, <1>3, <1>4
      <4>2. At(q + 2) # 0
        BY <4>1, <3>1, <2>4
      <4>3. QED
        BY <4>2, <3>1, <2>1, <1>9 DEF Goal
    <3>4. QED
      BY <3>2, <3>3
  <2>9. QED
    BY <2>7, <2>8
<1>14. w[1] >= 192 \/ (w[1] < 192 /\ w[L] = 0) \/ (w[1] < 192 /\ w[L] # 0)
  BY <1>8
<1>15. QED
  BY <1>11, <1>12, <1>13, <1>14

-----------------------------------------------------------------------------
(* The message that is to come out.                                        *)

\* The address that is to be replaced: that of the first answer that is no alias.
Replaceable(m, k) ==
  /\ m.questions = 1 /\ m.type = DNS_A_RECORD
  /\ k \in Decisive(m) /\ m.records[k].type = DNS_A_RECORD
  /\ m.records[k].data \in DOMAIN Geo

AliasesBefore(m, k) == \A j \in 1..(k - 1) : m.records[j].type = DNS_CNAME_RECORD

\* The addresses of the table are of four bytes, what replaces them too.
LEMMA GeoAddresses ==
  ASSUME NEW a \in DOMAIN Geo
  PROVE  /\ a \in [1..4 -> Byte] /\ Geo[a] \in [1..4 -> Byte]
         /\ Geo[a] \in Seq(Byte) /\ Len(Geo[a]) = 4
         /\ a \in Seq(Byte) => Len(a) = 4
<1>1. a \in [1..4 -> Byte] /\ Geo[a] \in [1..4 -> Byte]
  BY DnsAssumption
<1>2. ASSUME NEW b \in [1..4 -> Byte] PROVE b \in Seq(Byte) /\ Len(b) = 4
  <2>1. 4 \in Nat
    OBVIOUS
  <2>2. QED
    BY <2>1, BytesAreSequence, Zenon
<1>3. QED
  BY <1>1, <1>2

\* Where all answers before one are aliases, what is to be replaced is that one, or
\* it is an alias too.
LEMMA ReplaceableAt ==
  ASSUME NEW m \in WellFormed, NEW j, Replaceable(m, j),
         NEW k \in 1..(Len(m.records) + 1), AliasesBefore(m, k)
  PROVE  /\ j \in 1..Len(m.records) /\ j \in k..Len(m.records)
         /\ j = k \/ m.records[k].type = DNS_CNAME_RECORD
         /\ Len(m.records[j].data) = 4
         /\ m.records[j].type = DNS_A_RECORD
<1> DEFINE n == Len(m.records)
<1>1. n \in Nat /\ DOMAIN m.records = 1..n /\ \A x \in 1..n : m.records[x] \in Record
  BY MessageParts
<1>2. /\ j \in 1..n /\ m.records[j].type = DNS_A_RECORD
      /\ m.records[j].data \in DOMAIN Geo
      /\ \A x \in 1..(j - 1) : m.records[x].type = DNS_CNAME_RECORD
  BY <1>1 DEF Replaceable, Decisive, Aliases
<1>3. m.records[j].data \in Seq(Byte)
  BY <1>1, <1>2, AnswerParts
<1>4. Len(m.records[j].data) = 4
  BY <1>2, <1>3, GeoAddresses
<1>5. j \notin 1..(k - 1)
  BY <1>2 DEF AliasesBefore, DNS_A_RECORD, DNS_CNAME_RECORD
<1> HIDE DEF n
<1>6. j \in k..n /\ (j = k \/ k \in 1..(j - 1))
  BY <1>1, <1>2, <1>5
<1>7. QED
  BY <1>2, <1>4, <1>6 DEF n

\* An address after aliases only is the one that is to be replaced, if it is known.
LEMMA AddressReplaceable ==
  ASSUME NEW m \in WellFormed, NEW k \in 1..Len(m.records), AliasesBefore(m, k),
         m.questions = 1, m.type = DNS_A_RECORD,
         m.records[k].type = DNS_A_RECORD, m.records[k].data \in DOMAIN Geo
  PROVE  Replaceable(m, k)
<1> DEFINE n == Len(m.records)
<1>1. n \in Nat /\ DOMAIN m.records = 1..n
  BY MessageParts
<1>2. 1..(k - 1) \subseteq 1..n
  BY <1>1
<1>3. 1..(k - 1) \subseteq Aliases(m)
  BY <1>1, <1>2 DEF AliasesBefore, Aliases
<1>4. k \notin Aliases(m)
  BY DEF Aliases, DNS_A_RECORD, DNS_CNAME_RECORD
<1>5. k \in Decisive(m)
  BY <1>1, <1>3, <1>4 DEF Decisive
<1>6. QED
  BY <1>5 DEF Replaceable

\* The translated message is one the server might have sent, and differs only in the
\* data of the answer that is to be replaced.
LEMMA TranslatedParts ==
  ASSUME NEW m \in WellFormed
  PROVE  LET t == Translated(m) IN
         /\ t \in WellFormed
         /\ t.questions = m.questions /\ t.name = m.name /\ t.type = m.type
         /\ t.sections = m.sections
         /\ Len(t.records) = Len(m.records)
         /\ \A k \in 1..Len(m.records) :
              t.records[k] = IF Replaceable(m, k)
                               THEN [m.records[k] EXCEPT !.data = Geo[m.records[k].data]]
                               ELSE m.records[k]
         /\ (\A k \in 1..Len(m.records) : ~Replaceable(m, k)) => t = m
<1> DEFINE n == Len(m.records)
           a == m.records
           new(k) == IF Replaceable(m, k)
                       THEN [a[k] EXCEPT !.data = Geo[a[k].data]]
                       ELSE a[k]
           b == [k \in 1..n |-> new(k)]
           t == Translated(m)
<1>1. /\ n \in Nat /\ DOMAIN a = 1..n /\ a \in Seq(Record)
      /\ \A k \in 1..n : a[k] \in Record
      /\ m \in MessageShape
  BY MessageParts
<1>2. Translated(m) = [m EXCEPT !.records = b]
  <2> DEFINE hit(k) == /\ m.questions = 1 /\ m.type = DNS_A_RECORD
                       /\ k \in Decisive(m) /\ a[k].type = DNS_A_RECORD
                       /\ a[k].data \in DOMAIN Geo
             c == [k \in DOMAIN a |->
                     IF hit(k) THEN [a[k] EXCEPT !.data = Geo[a[k].data]] ELSE a[k]]
  <2>1. Translated(m) = [m EXCEPT !.records = c]
    BY DEF Translated
  <2>2. \A k \in 1..n : hit(k) = Replaceable(m, k)
    BY DEF Replaceable
  <2>3. c = b
    <3> HIDE DEF hit, a, n
    <3>1. QED
      BY <2>2, <1>1
  <2>4. QED
    BY <2>1, <2>3
<1>3. ASSUME NEW k \in 1..n PROVE new(k) \in Record
  <2>1. CASE Replaceable(m, k)
    <3>1. a[k].data \in DOMAIN Geo
      BY <2>1 DEF Replaceable
    <3>2. Geo[a[k].data] \in Seq(Byte)
      BY <3>1, GeoAddresses
    <3>3. [a[k] EXCEPT !.data = Geo[a[k].data]] \in Record
      BY <3>2, <1>1 DEF Record
    <3>4. QED
      BY <2>1, <3>3
  <2>2. CASE ~Replaceable(m, k)
    BY <2>2, <1>1
  <2>3. QED
    BY <2>1, <2>2
<1>4. b \in [1..n -> Record] /\ \A k \in 1..n : b[k] = new(k)
  <2> HIDE DEF new, n
  <2>1. QED
    BY <1>3
<1>5. (\A k \in 1..n : ~Replaceable(m, k)) => b = a
  <2>1. a = [k \in 1..n |-> a[k]]
    BY <1>1, LenProperties
  <2>2. (\A k \in 1..n : ~Replaceable(m, k)) => \A k \in 1..n : new(k) = a[k]
    OBVIOUS
  <2> HIDE DEF new, n, a
  <2>3. QED
    BY <2>1, <2>2
<1> HIDE DEF b, new, n
<1>6. b \in Seq(Record) /\ Len(b) = n
  <2>1. b \in Seq(Record)
    BY <1>1, <1>4, SeqDef
  <2>2. Len(b) \in Nat /\ DOMAIN b = 1..Len(b)
    BY <2>1, LenProperties
  <2> DEFINE l == Len(b)
  <2>3. l \in Nat /\ 1..l = 1..n
    BY <2>2, <1>4
  <2> HIDE DEF l
  <2>4. l = n
    BY <2>3, <1>1
  <2>5. QED
    BY <2>1, <2>4 DEF l
<1>7. /\ t \in MessageShape
      /\ t.questions = m.questions /\ t.name = m.name /\ t.type = m.type
      /\ t.sections = m.sections /\ t.records = b
  BY <1>1, <1>2, <1>6 DEF MessageShape
<1>8. t \in WellFormed
  <2>1. n = m.sections[1] + m.sections[2] + m.sections[3]
    BY DEF WellFormed, n
  <2>2. QED
    BY <2>1, <1>6, <1>7 DEF WellFormed, MessageShape
<1>9. b = a => t = m
  BY <1>1, <1>2 DEF MessageShape
<1>10. QED
  <2>1. \A k \in 1..n : t.records[k] = new(k)
    BY <1>4, <1>7
  <2> HIDE DEF t
  <2>2. QED
    BY <2>1, <1>5, <1>6, <1>7, <1>8, <1>9 DEF new, n, t

\* All answers before the one that is to be replaced are aliases, and no other one is
\* to be replaced.
LEMMA ReplaceableOnce ==
  ASSUME NEW m \in WellFormed, NEW k, Replaceable(m, k)
  PROVE  /\ k \in 1..Len(m.records) /\ AliasesBefore(m, k)
         /\ \A j : Replaceable(m, j) => j = k
<1>1. DOMAIN m.records = 1..Len(m.records) /\ Len(m.records) \in Nat
  BY MessageParts
<1>2. k \in 1..Len(m.records) /\ AliasesBefore(m, k) /\ m.records[k].type = DNS_A_RECORD
  BY <1>1 DEF Replaceable, Decisive, Aliases, AliasesBefore
<1>3. k \in 1..(Len(m.records) + 1)
  BY <1>1, <1>2
<1>4. m.records[k].type # DNS_CNAME_RECORD
  BY <1>2 DEF DNS_A_RECORD, DNS_CNAME_RECORD
<1>5. QED
  BY <1>2, <1>3, <1>4, ReplaceableAt

\* A record keeps its length, and every byte before its data.
LEMMA RecordTranslated ==
  ASSUME NEW m \in WellFormed, NEW k \in 1..Len(m.records)
  PROVE  LET r == m.records[k]
             t == Translated(m).records[k]
             h == Len(r.owner) + 10
             n == h + Len(r.data) IN
         /\ Len(RecordBytes(r)) = n /\ Len(RecordBytes(t)) = n
         /\ h \in Nat /\ n \in Nat /\ h <= n
         /\ Replaceable(m, k) => n = h + 4
         /\ \A i \in 1..n :
              RecordBytes(t)[i] = IF Replaceable(m, k) /\ i > h
                                    THEN Geo[r.data][i - h] ELSE RecordBytes(r)[i]
<1> DEFINE r == m.records[k]
           t == Translated(m).records[k]
           L == Len(r.owner)
           d == Len(r.data)
           h == L + 10
           n == h + d
           new == Geo[r.data]
<1>1. r \in Record
  BY MessageParts
<1>2. L \in Nat /\ d \in Nat /\ r.data \in Seq(Byte)
  BY <1>1, AnswerParts, LenProperties
<1>3. IsJoined(RecordBytes(r), Lead(r), r.data, h, n)
  BY <1>1, RecordLaid
<1>4. CASE ~Replaceable(m, k)
  <2>1. t = r
    BY <1>4, TranslatedParts
  <2>2. Len(RecordBytes(r)) = n /\ Len(RecordBytes(t)) = n
    BY <1>3, <2>1 DEF IsJoined
  <2>3. h \in Nat /\ n \in Nat /\ h <= n
    <3> HIDE DEF L, d
    <3>1. QED
      BY <1>2
  <2> HIDE DEF r, t, h, n
  <2>4. QED
    BY <1>4, <2>1, <2>2, <2>3 DEF r, t, h, n
<1>5. CASE Replaceable(m, k)
  <2>1. t = [r EXCEPT !.data = new]
    BY <1>5, TranslatedParts
  <2>2. r.data \in DOMAIN Geo
    BY <1>5 DEF Replaceable
  <2>3. new \in Seq(Byte) /\ Len(new) = 4 /\ d = 4
    BY <1>2, <2>2, GeoAddresses
  <2>4. /\ t \in Record /\ t.owner = r.owner /\ t.data = new
        /\ t.type = r.type /\ t.len = r.len /\ t.rest = r.rest
    BY <1>1, <2>1, <2>3 DEF Record
  <2>5. Lead(t) = Lead(r)
    BY <2>4 DEF Lead
  <2>6. IsJoined(RecordBytes(t), Lead(r), new, h, n)
    <3>1. Len(t.owner) + 10 = h /\ Len(t.owner) + 10 + Len(t.data) = n
      BY <2>3, <2>4
    <3>2. IsJoined(RecordBytes(t), Lead(t), t.data, Len(t.owner) + 10,
                   Len(t.owner) + 10 + Len(t.data))
      BY <2>4, RecordLaid
    <3> HIDE DEF t, h, n, new
    <3>3. QED
      BY <2>4, <2>5, <3>1, <3>2
  <2>7. h \in Nat /\ n \in Nat /\ h <= n /\ n = h + 4
    BY <1>2, <2>3
  <2> HIDE DEF r, t, h, n, new
  <2>8. \A i \in 1..n : RecordBytes(t)[i] = IF i > h THEN new[i - h] ELSE RecordBytes(r)[i]
    BY <1>3, <2>6, <2>7 DEF IsJoined
  <2>9. Len(RecordBytes(r)) = n /\ Len(RecordBytes(t)) = n
    BY <1>3, <2>6 DEF IsJoined
  <2>10. QED
    BY <1>5, <2>7, <2>8, <2>9 DEF r, t, h, n, new
<1>6. QED
  BY <1>4, <1>5

\* The answers of the translated message begin where those of the message do.
LEMMA SameOffsets ==
  ASSUME NEW m \in WellFormed, NEW k \in 1..(Len(m.records) + 1)
  PROVE  Off(Translated(m), k) = Off(m, k)
<1> DEFINE t == Translated(m)
           n == Len(m.records)
           Same(x) == Off(t, x) = Off(m, x)
           T == {x \in 1..(n + 1) : ~Same(x)}
<1>1. t \in WellFormed /\ n \in Nat /\ Len(t.records) = n /\ t.name = m.name
  BY TranslatedParts, MessageParts
<1>2. Same(1)
  BY <1>1, MessageLaid
<1>3. ASSUME T # {} PROVE FALSE
  <2>1. PICK x \in T : \A y \in T : x <= y
    <3>1. T \subseteq Nat
      BY <1>1
    <3> HIDE DEF T
    <3>2. QED
      BY <1>3, <3>1, LeastOffset
  <2>2. x \in 1..(n + 1) /\ ~Same(x)
    BY <2>1
  <2>3. x # 1
    BY <2>2, <1>2
  <2> DEFINE y == x - 1
  <2>4. y \in 1..n /\ y \in 1..(n + 1) /\ y + 1 = x /\ ~(x <= y)
    BY <2>2, <2>3, <1>1
  <2> HIDE DEF y, Same, t, n
  <2>5. Same(y)
    BY <2>1, <2>4
  <2>6. Off(m, y + 1) = Off(m, y) + Len(RecordBytes(m.records[y]))
    BY <2>4, AnswerLaid DEF n
  <2>7. Off(t, y + 1) = Off(t, y) + Len(RecordBytes(t.records[y]))
    BY <1>1, <2>4, AnswerLaid
  <2>8. Len(RecordBytes(m.records[y])) = Len(RecordBytes(t.records[y]))
    BY <2>4, RecordTranslated DEF t, n
  <2>9. Same(x)
    BY <2>4, <2>5, <2>6, <2>7, <2>8 DEF Same
  <2>10. QED
    BY <2>2, <2>9
<1>4. Same(k)
  <2> HIDE DEF Same
  <2>1. QED
    BY <1>3
<1>5. QED
  BY <1>4

\* A byte after the question is in one of the answers.
LEMMA ByteOfAnswer ==
  ASSUME NEW m \in WellFormed, NEW i \in 1..Len(Encode(m)), ~(i <= Off(m, 1))
  PROVE  \E k \in 1..Len(m.records) : ~(i <= Off(m, k)) /\ i <= Off(m, k + 1)
<1> DEFINE n == Len(m.records)
           T == {x \in 1..(n + 1) : i <= Off(m, x)}
<1>1. n \in Nat /\ Off(m, n + 1) = Len(Encode(m)) /\ Len(Encode(m)) \in Nat
  BY MessageParts, MessageLaid
<1>2. n + 1 \in T
  BY <1>1
<1>3. PICK x \in T : \A y \in T : x <= y
  <2>1. T \subseteq Nat
    BY <1>1
  <2> HIDE DEF T
  <2>2. QED
    BY <1>2, <2>1, LeastOffset
<1>4. x \in 1..(n + 1) /\ i <= Off(m, x) /\ x # 1
  BY <1>3
<1> DEFINE y == x - 1
<1>5. y \in 1..n /\ y \in 1..(n + 1) /\ y + 1 = x /\ ~(x <= y)
  BY <1>1, <1>4
<1> HIDE DEF y, n
<1>6. ~(i <= Off(m, y))
  BY <1>3, <1>5
<1>7. QED
  BY <1>4, <1>5, <1>6 DEF n

\* The bytes of the translated message are those of the message, but for the address.
LEMMA TranslatedBytes ==
  ASSUME NEW m \in WellFormed, NEW k, Replaceable(m, k)
  PROVE  LET r == m.records[k]
             o == Off(m, k) + Len(r.owner) + 10 IN
         /\ Len(Encode(Translated(m))) = Len(Encode(m))
         /\ \A i \in 1..Len(Encode(m)) :
              Encode(Translated(m))[i] = IF i - 1 \in o..(o + 3)
                                           THEN Geo[r.data][i - o] ELSE Encode(m)[i]
<1> DEFINE t == Translated(m)
           n == Len(m.records)
           r == m.records[k]
           at == Off(m, k)
           h == Len(r.owner) + 10
           o == at + h
           new == Geo[r.data]
           e == Encode(m)
           f == Encode(t)
           l == Len(e)
<1>1. /\ t \in WellFormed /\ n \in Nat /\ Len(t.records) = n /\ t.name = m.name
      /\ t.questions = m.questions /\ t.type = m.type /\ t.sections = m.sections
  BY TranslatedParts, MessageParts
<1>2. k \in 1..n /\ \A j : Replaceable(m, j) => j = k
  BY ReplaceableOnce
<1>3. /\ at \in Nat /\ h \in Nat /\ Off(m, k + 1) = o + 4 /\ l \in Nat
      /\ Off(m, 1) \in Nat /\ Off(m, 1) <= at
  <2>1. Len(RecordBytes(r)) = h + 4 /\ h \in Nat
    <3> DEFINE w == h + Len(r.data)
    <3>1. Len(RecordBytes(r)) = w /\ h \in Nat /\ w = h + 4
      BY <1>2, RecordTranslated, Zenon
    <3> HIDE DEF w
    <3>2. QED
      BY <3>1
  <2>2. at \in Nat /\ Off(m, k + 1) = at + Len(RecordBytes(r))
    BY <1>2, AnswerLaid
  <2>3. Off(m, 1) \in Nat /\ Off(m, 1) <= at
    <3>1. 1 \in 1..(n + 1) /\ k \in 1..(n + 1)
      BY <1>1, <1>2
    <3>2. QED
      BY <3>1, OffsetsGrow
  <2>4. l \in Nat
    BY MessageLaid
  <2> HIDE DEF at, h, l
  <2>5. QED
    BY <2>1, <2>2, <2>3, <2>4
<1>4. Len(f) = l
  <2>1. Off(t, n + 1) = Len(f) /\ Off(m, n + 1) = l
    BY <1>1, MessageLaid
  <2>2. n + 1 \in 1..(n + 1)
    BY <1>1
  <2>3. QED
    BY <2>1, <2>2, SameOffsets
<1>5. ASSUME NEW i \in 1..l, i <= Off(m, 1)
      PROVE  f[i] = e[i] /\ i - 1 \notin o..(o + 3)
  <2>1. Off(t, 1) = Off(m, 1)
    BY <1>1, MessageLaid
  <2>2. i \in 1..Off(m, 1)
    BY <1>3, <1>5
  <2>3. e[i] = Opening(m)[i] /\ f[i] = Opening(t)[i]
    BY <1>1, <2>1, <2>2, MessageLaid
  <2>4. Opening(t) = Opening(m)
    BY <1>1 DEF Opening, HeaderBytes
  <2> HIDE DEF at, h, l
  <2>5. i - 1 \notin o..(o + 3)
    BY <1>3, <1>5
  <2>6. QED
    BY <2>3, <2>4, <2>5
<1>6. ASSUME NEW i \in 1..l, ~(i <= Off(m, 1))
      PROVE  f[i] = IF i - 1 \in o..(o + 3) THEN new[i - o] ELSE e[i]
  <2>1. PICK j \in 1..n : ~(i <= Off(m, j)) /\ i <= Off(m, j + 1)
    BY <1>6, ByteOfAnswer
  <2> DEFINE b == Off(m, j)
             c == Off(m, j + 1)
             x == i - b
             w == Len(RecordBytes(m.records[j]))
  <2>2. /\ b \in Nat /\ c \in Nat /\ c = b + w
        /\ \A y \in 1..w : e[b + y] = RecordBytes(m.records[j])[y]
    BY AnswerLaid
  <2>3. /\ Len(RecordBytes(t.records[j])) = w
        /\ \A y \in 1..w : f[b + y] = RecordBytes(t.records[j])[y]
    <3>1. Off(t, j) = b
      <4>1. j \in 1..(n + 1)
        BY <1>1
      <4>2. QED
        BY <4>1, SameOffsets
    <3>2. Len(RecordBytes(t.records[j])) = w
      BY RecordTranslated
    <3>3. \A y \in 1..Len(RecordBytes(t.records[j])) :
            f[Off(t, j) + y] = RecordBytes(t.records[j])[y]
      BY <1>1, AnswerLaid
    <3> HIDE DEF t, b, w, f
    <3>4. QED
      BY <3>1, <3>2, <3>3
  <2> DEFINE g == Len(m.records[j].owner) + 10
  <2>4. \A y \in 1..w :
          RecordBytes(t.records[j])[y] = IF Replaceable(m, j) /\ y > g
                                           THEN Geo[m.records[j].data][y - g]
                                           ELSE RecordBytes(m.records[j])[y]
    BY RecordTranslated
  <2>5. w \in Nat
    BY RecordTranslated
  <2>6. x \in 1..w /\ b + x = i
    <3>1. i \in Nat /\ ~(i <= b) /\ i <= c
      BY <2>1, <1>3
    <3>2. b \in Nat /\ c = b + w
      BY <2>2
    <3> HIDE DEF b, c, w, l
    <3>3. QED
      BY <3>1, <3>2, <2>5
  <2>7. f[i] = RecordBytes(t.records[j])[x] /\ e[i] = RecordBytes(m.records[j])[x]
    BY <2>2, <2>3, <2>6
  <2>8. CASE j = k
    <3>1. g = h /\ b = at /\ c = o + 4 /\ m.records[j] = r
      BY <2>8, <1>3
    <3> HIDE DEF t, w, e, f, b, c, g, h, at, r, l, x, new
    <3>2. f[i] = IF x > h THEN new[x - h] ELSE e[i]
      BY <2>4, <2>6, <2>7, <2>8, <3>1 DEF new
    <3>3. (x > h) = (i - 1 \in o..(o + 3)) /\ x - h = i - o
      BY <1>3, <2>1, <2>2, <2>6, <3>1 DEF x, c
    <3>4. QED
      BY <3>2, <3>3
  <2>9. CASE j # k
    <3>1. ~Replaceable(m, j)
      BY <2>9, <1>2
    <3>2. f[i] = e[i]
      BY <3>1, <2>4, <2>6, <2>7
    <3>3. i - 1 \notin o..(o + 3)
      <4>1. CASE j < k
        <5>1. j + 1 \in 1..(n + 1) /\ k \in (j + 1)..(n + 1)
          BY <4>1, <1>1, <1>2
        <5>2. c <= at
          BY <5>1, OffsetsGrow
        <5> HIDE DEF c, at, h, l
        <5>3. QED
          BY <5>2, <2>1, <2>2, <1>3 DEF c
      <4>2. CASE j > k
        <5>1. k + 1 \in 1..(n + 1) /\ j \in (k + 1)..(n + 1)
          BY <4>2, <1>1, <1>2
        <5>2. Off(m, k + 1) <= b
          BY <5>1, OffsetsGrow
        <5> HIDE DEF b, at, h, l
        <5>3. QED
          BY <5>2, <2>1, <2>2, <1>3 DEF b
      <4>3. j < k \/ j > k
        BY <2>9, <1>1, <1>2
      <4>4. QED
        BY <4>1, <4>2, <4>3
    <3>4. QED
      BY <3>2, <3>3
  <2>10. QED
    BY <2>8, <2>9
<1>7. \A i \in 1..l : f[i] = IF i - 1 \in o..(o + 3) THEN new[i - o] ELSE e[i]
  <2> HIDE DEF o, new, e, f, l
  <2>1. QED
    BY <1>5, <1>6
<1>8. o = Off(m, k) + Len(r.owner) + 10
  <2> DEFINE L == Len(r.owner)
  <2>1. L \in Nat
    BY <1>2, MessageParts, AnswerParts, LenProperties
  <2> HIDE DEF at, L
  <2>2. at + (L + 10) = at + L + 10
    BY <2>1, <1>3
  <2>3. QED
    BY <2>2 DEF at, L
<1>9. QED
  BY <1>4, <1>7, <1>8

-----------------------------------------------------------------------------
(* The steps of the walk over a message.                                   *)

\* The walk knows at which record it is, or at whose address: all before it are
\* aliases.  Or it has misread a type of two bytes where the packet ends, and there is
\* no address to be replaced.  Until it returns, nothing is overwritten.
AtAnswer(m) == \E k \in 1..(Len(m.records) + 1) : p = Off(m, k) /\ AliasesBefore(m, k)

AtAddress(m) ==
  \E k \in 1..Len(m.records) :
     /\ p + 2 = Off(m, k) + Len(m.records[k].owner)
     /\ m.records[k].type = DNS_A_RECORD /\ AliasesBefore(m, k)

Astray(m) ==
  \E k \in 1..Len(m.records) : AliasesBefore(m, k) /\ m.records[k].type >= 256

AnswersInv ==
  /\ pc # "done" => pkt = Packet[input]
  /\ pc = "question" /\ End >= 6 => input.msg.questions = 1
  /\ Truthful(input.msg) /\ Readable(input.msg) /\ pc \in {"answers", "address"} =>
       /\ input.msg.questions = 1 /\ input.msg.type = DNS_A_RECORD
       /\ pc = "answers" => AtAnswer(input.msg) \/ (Astray(input.msg) /\ p + 12 >= End)
       /\ pc = "address" => AtAddress(input.msg) \/ (Astray(input.msg) /\ p + 13 = End)

\* Names that are whole are readable.
LEMMA WholeIsReadable == ASSUME NEW m, Whole(m) PROVE Readable(m)
BY DEF Whole, Readable

\* Gone astray, the walk has left behind no address that is to be replaced.
LEMMA AstrayHarmless ==
  ASSUME NEW m \in WellFormed, Astray(m), NEW j, Replaceable(m, j)
  PROVE  FALSE
<1>1. PICK k \in 1..Len(m.records) : AliasesBefore(m, k) /\ m.records[k].type >= 256
  BY DEF Astray
<1>2. Len(m.records) \in Nat /\ m.records[k].type \in Nat
  BY <1>1, MessageParts, AnswerParts
<1>3. k \in 1..(Len(m.records) + 1)
  BY <1>2
<1>4. j = k \/ m.records[k].type = DNS_CNAME_RECORD
  BY <1>1, <1>3, ReplaceableAt
<1>5. m.records[j].type = DNS_A_RECORD
  BY <1>1, <1>3, ReplaceableAt
<1>6. QED
  BY <1>1, <1>2, <1>4, <1>5 DEF DNS_A_RECORD, DNS_CNAME_RECORD

\* The header is read as it was written.
LEMMA HeaderRead ==
  ASSUME TypeOK, pkt = Packet[input]
  PROVE  /\ End >= 6 => U16(4) = input.msg.questions
         /\ input.cut = 0 => End >= 16
<1> DEFINE m == input.msg
           e == Encode(m)
           L == Len(m.name)
           E == End
<1>1. /\ m \in WellFormed /\ E \in Nat /\ \A o \in Nat : o < E => At(o) = e[o + 1]
      /\ input.cut = 0 => E = Len(e)
  BY PacketBytes
<1>2. L \in Nat /\ m.questions \in Word
  BY <1>1, MessageParts, LenProperties
<1>3. /\ Off(m, 1) = 16 + L /\ Off(m, 1) <= Len(e)
      /\ \A i \in 1..Off(m, 1) : e[i] = Opening(m)[i]
  BY <1>1, MessageLaid
<1>4. Opening(m)[5] = m.questions \div 256 /\ Opening(m)[6] = m.questions % 256
  BY <1>1, OpeningLaid
<1> HIDE DEF m, e, L, E
<1>5. 5 \in 1..Off(m, 1) /\ 6 \in 1..Off(m, 1)
  BY <1>2, <1>3
<1>6. E >= 6 => At(4) = m.questions \div 256 /\ At(5) = m.questions % 256
  <2>1. 4 + 1 = 5 /\ 5 + 1 = 6 /\ 4 \in Nat /\ 5 \in Nat /\ (E >= 6 => 4 < E /\ 5 < E)
    BY <1>1
  <2>2. E >= 6 => At(4) = e[5] /\ At(5) = e[6]
    BY <1>1, <2>1
  <2>3. QED
    BY <1>3, <1>4, <1>5, <2>2
<1>7. E >= 6 => U16(4) = m.questions
  <2>1. U16(4) = 256 * At(4) + At(5)
    BY DEF U16
  <2> DEFINE n == m.questions
  <2>2. n \in Word
    BY <1>2
  <2>3. 256 * (n \div 256) + (n % 256) = n
    <3> HIDE DEF n
    <3>1. QED
      BY <2>2, WordLaid
  <2>4. QED
    BY <1>6, <2>1, <2>3
<1>8. input.cut = 0 => E >= 16
  BY <1>1, <1>2, <1>3
<1>9. QED
  BY <1>7, <1>8 DEF m, E

\* The question is read as it was written, when it is there as a whole.
LEMMA QuestionRead ==
  ASSUME TypeOK, pkt = Packet[input]
  PROVE  LET z == FirstZero(HeaderLen, End) + 1 IN
         /\ z + 4 <= End => U16(z) = input.msg.type /\ z + 4 = Off(input.msg, 1)
         /\ input.cut = 0 => z + 4 <= End
<1> DEFINE m == input.msg
           e == Encode(m)
           w == m.name
           L == Len(w)
           E == End
           f == FirstZero(12, E)
<1>1. /\ m \in WellFormed /\ E \in Nat /\ \A o \in Nat : o < E => At(o) = e[o + 1]
      /\ input.cut = 0 => E = Len(e)
  BY PacketBytes
<1>2. w \in Written /\ w \in Seq(Byte) /\ m.type \in Word
  BY <1>1, MessageParts
<1>3. L \in Nat /\ L >= 1 /\ w[L] = 0 /\ \A i \in 1..(L - 1) : w[i] # 0
  <2>1. L \in Nat /\ (w # <<>> => L >= 1)
    BY <1>2, LenProperties, EmptySeq
  <2>2. QED
    BY <1>2, <2>1 DEF Written
<1>4. /\ Off(m, 1) = 16 + L /\ Off(m, 1) <= Len(e)
      /\ \A i \in 1..Off(m, 1) : e[i] = Opening(m)[i]
  BY <1>1, MessageLaid
<1>5. /\ \A i \in 1..L : Opening(m)[12 + i] = w[i]
      /\ Opening(m)[13 + L] = m.type \div 256 /\ Opening(m)[14 + L] = m.type % 256
  BY <1>1, OpeningLaid
<1>6. f \in Nat /\ f >= 12 /\ (12 >= E => f = 12)
  BY <1>1, ScanEnds
<1> HIDE DEF m, e, w, L, E, f
<1>7. ASSUME NEW i \in 1..L, 12 + i <= E PROVE At(11 + i) = w[i]
  <2>1. /\ 11 + i \in Nat /\ 11 + i < E /\ 11 + i + 1 = 12 + i
        /\ 12 + i \in 1..Off(m, 1)
    BY <1>1, <1>3, <1>4, <1>7
  <2>2. At(11 + i) = e[12 + i]
    BY <1>1, <2>1
  <2>3. QED
    BY <2>1, <2>2, <1>4, <1>5
<1>8. 14 + L <= E => At(12 + L) = m.type \div 256 /\ At(13 + L) = m.type % 256
  <2>1. /\ 12 + L \in Nat /\ 12 + L + 1 = 13 + L /\ 13 + L \in 1..Off(m, 1)
        /\ 13 + L \in Nat /\ 13 + L + 1 = 14 + L /\ 14 + L \in 1..Off(m, 1)
        /\ (14 + L <= E => 12 + L < E /\ 13 + L < E)
    BY <1>1, <1>3, <1>4
  <2>2. 14 + L <= E => At(12 + L) = e[13 + L] /\ At(13 + L) = e[14 + L]
    BY <1>1, <2>1
  <2>3. QED
    BY <2>1, <2>2, <1>4, <1>5
<1>9. 12 < E => f = IF 11 + L < E THEN 11 + L ELSE E
  <2> SUFFICES ASSUME 12 < E PROVE f = IF 11 + L < E THEN 11 + L ELSE E
    OBVIOUS
  <2> DEFINE z == 11 + L
  <2>1. z \in Nat /\ z >= 12 /\ E \in Int /\ 12 \in Nat
    BY <1>1, <1>3
  <2>2. z < E => At(z) = 0
    <3>1. L \in 1..L /\ (z < E => 12 + L <= E)
      BY <1>1, <1>3
    <3>2. QED
      BY <3>1, <1>3, <1>7
  <2>3. \A y \in 12..(z - 1) : y < E => At(y) # 0
    <3> SUFFICES ASSUME NEW y \in 12..(z - 1), y < E PROVE At(y) # 0
      OBVIOUS
    <3> DEFINE i == y - 11
    <3>1. i \in 1..(L - 1) /\ i \in 1..L /\ 12 + i <= E /\ 11 + i = y
      BY <1>1, <1>3
    <3> HIDE DEF i
    <3>2. At(11 + i) = w[i] /\ w[i] # 0
      BY <3>1, <1>3, <1>7
    <3>3. QED
      BY <3>1, <3>2
  <2> HIDE DEF z
  <2>4. FirstZero(12, E) = IF z < E THEN z ELSE E
    BY <2>1, <2>2, <2>3, ScanTo
  <2>5. QED
    BY <2>4 DEF f, z
<1>10. f + 1 + 4 <= E => f = 11 + L
  BY <1>1, <1>3, <1>6, <1>9
<1>11. f + 1 + 4 <= E => U16(f + 1) = m.type
  <2>1. f = 11 + L => f + 1 = 12 + L /\ 12 + L + 1 = 13 + L /\ (f + 1 + 4 <= E => 14 + L <= E)
    BY <1>1, <1>3
  <2>2. U16(12 + L) = 256 * At(12 + L) + At(12 + L + 1)
    BY DEF U16
  <2> DEFINE n == m.type
  <2>3. n \in Word
    BY <1>2
  <2>4. 256 * (n \div 256) + (n % 256) = n
    <3> HIDE DEF n
    <3>1. QED
      BY <2>3, WordLaid
  <2>5. f + 1 + 4 <= E => U16(12 + L) = n
    BY <1>8, <1>10, <2>1, <2>2, <2>4
  <2>6. QED
    BY <2>1, <2>5, <1>10
<1>12. f + 1 + 4 <= E => f + 1 + 4 = Off(m, 1)
  BY <1>3, <1>4, <1>10
<1>13. input.cut = 0 => f + 1 + 4 <= E
  BY <1>1, <1>3, <1>4, <1>9
<1>14. QED
  <2>1. f = FirstZero(HeaderLen, End)
    BY DEF f, E, HeaderLen
  <2>2. QED
    BY <2>1, <1>11, <1>12, <1>13 DEF m, E

\* Where the walk returns and leaves the buffer alone, it is right to, if a whole
\* message has no address that is to be replaced.
LEMMA LeftAlone ==
  ASSUME TypeOK, pkt = Packet[input], UNCHANGED <<input, pkt>>,
         input.cut = 0 /\ Truthful(input.msg) /\ Whole(input.msg)
           => \A k \in 1..Len(input.msg.records) : ~Replaceable(input.msg, k)
  PROVE  AnswersTranslated'
<1> DEFINE m == input.msg
<1>1. m \in WellFormed /\ (input.cut = 0 => pkt = Encode(m))
  BY PacketBytes
<1>2. (\A k \in 1..Len(m.records) : ~Replaceable(m, k)) => Translated(m) = m
  BY <1>1, TranslatedParts
<1>3. input.cut = 0 /\ Truthful(m) /\ Whole(m) => pkt = Encode(Translated(m))
  BY <1>1, <1>2
<1>4. input' = input /\ pkt' = pkt /\ pkt' = Packet[input']
  OBVIOUS
<1>5. QED
  BY <1>3, <1>4 DEF AnswersTranslated, AddressTranslated, NothingElseChanged

\* What is to be shown of a step that goes on.
LEMMA GoesOn ==
  ASSUME pc' # "done"
  PROVE  AnswersTranslated'
BY DEF AnswersTranslated, AddressTranslated, NothingElseChanged

\* What a round of the loop reads of the answer it is at.
LEMMA RoundRead ==
  ASSUME WalkInv, AnswersInv, Truthful(input.msg), Readable(input.msg),
         pc = "answers", ~NoAnswer
  PROVE  \E k \in 1..Len(input.msg.records) :
           LET r == input.msg.records[k]
               q == NameEnd(p) IN
           /\ p = Off(input.msg, k) /\ AliasesBefore(input.msg, k)
           /\ \/ /\ q + 2 = Off(input.msg, k) + Len(r.owner)
                 /\ U16(q + 2) = r.type
                 /\ q + 12 + U16(q + 10) = Off(input.msg, k + 1)
              \/ /\ U16(q + 2) \notin {DNS_A_RECORD, DNS_CNAME_RECORD}
                 /\ r.owner \in Partial
                      \/ End <= Off(input.msg, k) + Len(r.owner) + 10
              \/ q + 13 = End /\ r.type >= 256
<1> DEFINE m == input.msg
           n == Len(m.records)
           q == NameEnd(p)
<1>1. TypeOK /\ pkt = Packet[input] /\ p >= HeaderLen
  BY DEF WalkInv, AnswersInv
<1>2. m \in WellFormed /\ End \in Nat /\ End <= Len(Encode(m))
  BY <1>1, PacketBytes
<1>3. n \in Nat /\ \A x \in 1..n : m.records[x] \in Record
  BY <1>2, MessageParts
<1>4. PICK k \in 1..(n + 1) : p = Off(m, k) /\ AliasesBefore(m, k)
  <2>1. ~(p + 12 >= End)
    BY DEF NoAnswer
  <2>2. AtAnswer(m)
    BY <2>1 DEF AnswersInv
  <2>3. QED
    BY <2>2 DEF AtAnswer
<1>5. k \in 1..n
  <2>1. p + 12 < End
    BY <1>1, <1>2 DEF NoAnswer, TypeOK
  <2>2. Off(m, n + 1) = Len(Encode(m)) /\ Len(Encode(m)) \in Nat /\ p \in Nat
    BY <1>1, <1>2, MessageLaid DEF TypeOK
  <2>3. k # n + 1
    BY <2>1, <2>2, <1>2, <1>4
  <2> HIDE DEF n
  <2>4. QED
    BY <2>3, <1>3
<1> DEFINE r == m.records[k]
           L == Len(r.owner)
           d == Len(r.data)
           o == Off(m, k)
           E == End
<1>6. ReadsAs(k, r, o, L, d, E)
  BY <1>1, <1>5, AnswerRead
<1>7. \/ q + 2 = o + L
      \/ /\ U16(q + 2) \notin {DNS_A_RECORD, DNS_CNAME_RECORD}
         /\ r.owner \in Partial \/ E <= o + L + 10
      \/ q + 13 = E /\ r.type >= 256
  <2>1. r.owner \in Partial => r.type \in 1..255
    BY <1>2, <1>5, MessageParts DEF Readable
  <2>2. QED
    BY <1>1, <1>4, <1>5, <2>1, NameRead
<1>8. q \in Nat /\ q + 12 < E
  BY <1>1, NameSkipped
<1>9. r.len = d
  <2>1. k \in DOMAIN m.records
    BY <1>2, <1>5, MessageParts
  <2>2. QED
    BY <2>1 DEF Truthful
<1>10. /\ o \in Nat /\ L \in Nat /\ d \in Nat /\ E \in Nat
       /\ Off(m, k + 1) = o + L + 10 + d
       /\ o + L + 1 < E => U16(o + L) = r.type
       /\ o + L + 9 < E => U16(o + L + 8) = d
  BY <1>6, <1>9 DEF ReadsAs
<1> HIDE DEF m, n, q, r, L, d, o, E
<1>11. ASSUME q + 2 = o + L
       PROVE  U16(q + 2) = r.type /\ q + 12 + U16(q + 10) = Off(m, k + 1)
  <2>1. /\ o + L < E /\ o + L + 1 < E /\ o + L + 9 < E
        /\ q + 10 = o + L + 8 /\ q + 12 = o + L + 10
    BY <1>8, <1>10, <1>11
  <2>3. U16(q + 2) = r.type
    BY <2>1, <1>10, <1>11
  <2>4. U16(q + 10) = d
    BY <2>1, <1>10
  <2>5. QED
    BY <2>1, <2>3, <2>4, <1>10
<1>12. \/ /\ q + 2 = o + L /\ U16(q + 2) = r.type
          /\ q + 12 + U16(q + 10) = Off(m, k + 1)
       \/ /\ U16(q + 2) \notin {DNS_A_RECORD, DNS_CNAME_RECORD}
          /\ r.owner \in Partial \/ E <= o + L + 10
       \/ q + 13 = E /\ r.type >= 256
  BY <1>7, <1>11
<1>13. QED
  BY <1>4, <1>5, <1>12 DEF m, n, q, r, L, o, E

\* What is read of the address the walk is at.
LEMMA AddressRead ==
  ASSUME WalkInv, AnswersInv, Truthful(input.msg), AtAddress(input.msg), pc = "address"
  PROVE  \E k \in 1..Len(input.msg.records) :
           LET r == input.msg.records[k] IN
           /\ p + 12 = Off(input.msg, k) + Len(r.owner) + 10
           /\ r.type = DNS_A_RECORD /\ AliasesBefore(input.msg, k)
           /\ U16(p + 10) = Len(r.data)
           /\ Off(input.msg, k + 1) = p + 12 + Len(r.data)
           /\ Len(r.data) \in Nat
           /\ Len(r.data) = 4 /\ p + 16 <= End => Bytes(p + 12, 4) = r.data
<1> DEFINE m == input.msg
           n == Len(m.records)
<1>1. TypeOK /\ pkt = Packet[input] /\ p + 12 < End /\ p \in Nat
  BY DEF WalkInv, AnswersInv, TypeOK
<1>2. PICK k \in 1..n : /\ p + 2 = Off(m, k) + Len(m.records[k].owner)
                        /\ m.records[k].type = DNS_A_RECORD
                        /\ AliasesBefore(m, k)
  BY DEF AtAddress
<1> DEFINE r == m.records[k]
           w == r.data
           L == Len(r.owner)
           d == Len(w)
           o == Off(m, k)
           E == End
<1>3. ReadsAs(k, r, o, L, d, E)
  BY <1>1, AnswerRead
<1>4. r.len = d
  <2>1. m \in WellFormed
    BY <1>1, PacketBytes
  <2>2. k \in DOMAIN m.records
    BY <2>1, MessageParts
  <2>3. QED
    BY <2>2 DEF Truthful
<1>5. /\ o \in Nat /\ L \in Nat /\ d \in Nat /\ E \in Nat
      /\ Off(m, k + 1) = o + L + 10 + d
      /\ o + L + 9 < E => U16(o + L + 8) = d
      /\ \A i \in 1..d : o + L + 10 + i <= E => At(o + L + 9 + i) = w[i]
  BY <1>3, <1>4 DEF ReadsAs
<1>6. w \in Seq(Byte)
  BY <1>3, AnswerParts DEF ReadsAs
<1>7. w = [i \in 1..d |-> w[i]]
  BY <1>6, LenProperties
<1>8. p + 2 = o + L /\ p + 12 < E
  BY <1>1, <1>2
<1> HIDE DEF m, r, w, L, d, o, E
<1>9. p + 12 = o + L + 10 /\ p + 10 = o + L + 8 /\ Off(m, k + 1) = p + 12 + d
  BY <1>1, <1>5, <1>8
<1>10. U16(p + 10) = d
  <2>1. o + L + 9 < E
    BY <1>5, <1>8, <1>9
  <2>2. QED
    BY <2>1, <1>5, <1>9
<1>11. ASSUME d = 4, p + 16 <= E PROVE Bytes(p + 12, 4) = w
  <2>1. ASSUME NEW i \in 1..4 PROVE At(p + 12 + i - 1) = w[i]
    <3>1. /\ o + L + 10 + i <= E /\ p + 12 + i - 1 = o + L + 9 + i
      BY <1>1, <1>5, <1>9, <1>11
    <3>2. i \in 1..d
      BY <1>11
    <3>3. QED
      BY <3>1, <3>2, <1>5
  <2> DEFINE f == [i \in 1..4 |-> At(p + 12 + i - 1)]
             g == [i \in 1..4 |-> w[i]]
  <2>2. f = g
    BY <2>1
  <2>3. w = g
    BY <1>7, <1>11
  <2>4. Bytes(p + 12, 4) = f
    BY DEF Bytes
  <2> HIDE DEF f, g
  <2>5. QED
    BY <2>2, <2>3, <2>4
<1>12. QED
  BY <1>2, <1>5, <1>9, <1>10, <1>11 DEF m, r, w, L, d, o, E

LEMMA HeaderAnswers ==
  ASSUME WalkInv, AnswersInv, Header
  PROVE  AnswersInv' /\ AnswersTranslated'
<1>1. TypeOK /\ pkt = Packet[input] /\ UNCHANGED <<input, pkt>> /\ pc = "header"
  BY DEF WalkInv, AnswersInv, Header
<1>2. End \in Nat /\ End' = End
  BY <1>1, EndNat DEF End
<1>3. /\ End >= 6 => U16(4) = input.msg.questions
      /\ input.cut = 0 => End >= 16
  BY <1>1, HeaderRead
<1>4. CASE pc' = "question" /\ (End < 6 \/ U16(4) = 1)
  <2>1. End >= 6 => input.msg.questions = 1
    BY <1>2, <1>3, <1>4
  <2>2. AnswersTranslated'
    BY <1>4, GoesOn
  <2>3. QED
    BY <1>1, <1>2, <1>4, <2>1, <2>2 DEF AnswersInv
<1>5. CASE pc' = "done" /\ (End < 6 \/ U16(4) # 1)
  <2>1. input.cut = 0 => input.msg.questions # 1
    BY <1>2, <1>3, <1>5
  <2>2. AnswersTranslated'
    BY <1>1, <2>1, LeftAlone DEF Replaceable
  <2>3. QED
    BY <1>5, <2>2 DEF AnswersInv
<1>6. QED
  BY <1>4, <1>5 DEF Header, Return

LEMMA QuestionAnswers ==
  ASSUME WalkInv, AnswersInv, Question
  PROVE  AnswersInv' /\ AnswersTranslated'
<1> DEFINE z == FirstZero(HeaderLen, End) + 1
           fits == z + 4 <= End
           m == input.msg
<1>1. /\ TypeOK /\ pkt = Packet[input] /\ UNCHANGED <<input, pkt>> /\ pc = "question"
      /\ p = HeaderLen
  BY DEF WalkInv, AnswersInv, Question
<1>2. End \in Nat /\ End' = End
  BY <1>1, EndNat DEF End
<1>3. z \in Nat /\ z > 12
  BY <1>2, ScanEnds DEF HeaderLen
<1>4. /\ fits => U16(z) = m.type /\ z + 4 = Off(m, 1)
      /\ input.cut = 0 => fits
  BY <1>1, QuestionRead
<1>5. m \in WellFormed
  BY <1>1, PacketBytes
<1>6. IF fits /\ U16(z) = DNS_A_RECORD
        THEN p' = z + 4 /\ pc' = "answers"
        ELSE p' = z /\ pc' = "done"
  BY <1>1 DEF Question, Return
<1> HIDE DEF z, m
<1>7. CASE fits /\ U16(z) = DNS_A_RECORD
  <2>1. m.questions = 1 /\ m.type = DNS_A_RECORD
    <3>1. End >= 6
      BY <1>2, <1>3, <1>7
    <3>2. QED
      BY <3>1, <1>1, <1>4, <1>7 DEF AnswersInv, m
  <2>2. p' = Off(m, 1) /\ pc' = "answers"
    BY <1>4, <1>6, <1>7
  <2>3. 1 \in 1..(Len(m.records) + 1) /\ AliasesBefore(m, 1)
    BY <1>5, MessageParts DEF AliasesBefore
  <2>4. \E k \in 1..(Len(m.records) + 1) : p' = Off(m, k) /\ AliasesBefore(m, k)
    BY <2>2, <2>3
  <2>5. AtAnswer(input.msg)' /\ input' = input
    BY <2>4, <1>1 DEF AtAnswer, m
  <2>6. AnswersTranslated'
    BY <2>2, GoesOn
  <2>7. QED
    BY <1>1, <2>1, <2>2, <2>5, <2>6 DEF AnswersInv, m
<1>8. CASE ~(fits /\ U16(z) = DNS_A_RECORD)
  <2>1. pc' = "done"
    BY <1>6, <1>8
  <2>2. input.cut = 0 => m.type # DNS_A_RECORD
    BY <1>4, <1>8
  <2>3. AnswersTranslated'
    BY <1>1, <2>2, LeftAlone DEF Replaceable, m
  <2>4. QED
    BY <2>1, <2>3 DEF AnswersInv
<1>9. QED
  BY <1>7, <1>8

LEMMA CnameAnswers ==
  ASSUME WalkInv, AnswersInv, Cname
  PROVE  AnswersInv' /\ AnswersTranslated'
<1> DEFINE m == input.msg
           q == NameEnd(p)
<1>1. /\ pkt = Packet[input] /\ UNCHANGED <<input, pkt, pc>> /\ pc = "answers" /\ ~NoAnswer
      /\ U16(q + 2) = DNS_CNAME_RECORD /\ p' = q + 12 + U16(q + 10)
  BY DEF AnswersInv, Cname
<1>2. AnswersTranslated'
  BY <1>1, GoesOn
<1>3. ASSUME Truthful(m), Readable(m)
      PROVE  /\ m.questions = 1 /\ m.type = DNS_A_RECORD
             /\ AtAnswer(m)' \/ (Astray(m) /\ p' + 12 >= End)
  <2>1. PICK k \in 1..Len(m.records) :
          LET r == m.records[k] IN
          /\ p = Off(m, k) /\ AliasesBefore(m, k)
          /\ \/ /\ q + 2 = Off(m, k) + Len(r.owner)
                /\ U16(q + 2) = r.type
                /\ q + 12 + U16(q + 10) = Off(m, k + 1)
             \/ /\ U16(q + 2) \notin {DNS_A_RECORD, DNS_CNAME_RECORD}
                /\ r.owner \in Partial
                     \/ End <= Off(m, k) + Len(r.owner) + 10
             \/ q + 13 = End /\ r.type >= 256
    BY <1>1, <1>3, RoundRead
  <2>2. m.questions = 1 /\ m.type = DNS_A_RECORD
    BY <1>1, <1>3 DEF AnswersInv
  <2>3. CASE q + 13 = End /\ m.records[k].type >= 256
    <3>1. Astray(m)
      BY <2>1, <2>3 DEF Astray
    <3>2. q \in Nat /\ U16(q + 10) \in Nat
      <4>1. TypeOK /\ p >= HeaderLen
        BY <1>1 DEF WalkInv
      <4>2. q \in Nat
        BY <1>1, <4>1, NameSkipped
      <4>3. q + 10 \in Nat
        BY <4>2
      <4>4. QED
        BY <4>1, <4>2, <4>3, ByteRead
    <3>3. p' + 12 >= End
      BY <3>2, <1>1, <2>3
    <3>4. QED
      BY <2>2, <3>1, <3>3
  <2>4. CASE ~(q + 13 = End /\ m.records[k].type >= 256)
    <3>1. m.records[k].type = DNS_CNAME_RECORD /\ p' = Off(m, k + 1)
      BY <1>1, <2>1, <2>4
    <3>2. Len(m.records) \in Nat
      BY <1>1, PacketBytes, MessageParts DEF WalkInv
    <3>3. k + 1 \in 1..(Len(m.records) + 1) /\ AliasesBefore(m, k + 1)
      <4> DEFINE n == Len(m.records)
      <4>1. n \in Nat /\ k \in 1..n
        BY <3>2
      <4> HIDE DEF n
      <4>2. k + 1 \in 1..(n + 1) /\ \A j \in 1..(k + 1 - 1) : j = k \/ j \in 1..(k - 1)
        BY <4>1
      <4>3. QED
        BY <4>2, <2>1, <3>1 DEF AliasesBefore, n
    <3>4. \E j \in 1..(Len(m.records) + 1) : p' = Off(m, j) /\ AliasesBefore(m, j)
      BY <3>1, <3>3
    <3>5. AtAnswer(m)'
      BY <3>4, <1>1 DEF AtAnswer
    <3>6. QED
      BY <2>2, <3>5
  <2>5. QED
    BY <2>3, <2>4
<1>4. End' = End
  BY <1>1 DEF End
<1>5. Astray(m)' = Astray(m)
  BY <1>1 DEF Astray, AliasesBefore
<1>6. QED
  BY <1>1, <1>2, <1>3, <1>4, <1>5 DEF AnswersInv

LEMMA AddressFoundAnswers ==
  ASSUME WalkInv, AnswersInv, AddressFound
  PROVE  AnswersInv' /\ AnswersTranslated'
<1> DEFINE m == input.msg
           q == NameEnd(p)
<1>1. /\ pkt = Packet[input] /\ UNCHANGED <<input, pkt>> /\ pc = "answers" /\ ~NoAnswer
      /\ U16(q + 2) = DNS_A_RECORD /\ p' = q /\ pc' = "address"
  BY DEF AnswersInv, AddressFound
<1>2. AnswersTranslated'
  BY <1>1, GoesOn
<1>3. ASSUME Truthful(m), Readable(m)
      PROVE  /\ m.questions = 1 /\ m.type = DNS_A_RECORD
             /\ AtAddress(m)' \/ (Astray(m) /\ p' + 13 = End)
  <2>1. PICK k \in 1..Len(m.records) :
          LET r == m.records[k] IN
          /\ p = Off(m, k) /\ AliasesBefore(m, k)
          /\ \/ /\ q + 2 = Off(m, k) + Len(r.owner)
                /\ U16(q + 2) = r.type
                /\ q + 12 + U16(q + 10) = Off(m, k + 1)
             \/ /\ U16(q + 2) \notin {DNS_A_RECORD, DNS_CNAME_RECORD}
                /\ r.owner \in Partial
                     \/ End <= Off(m, k) + Len(r.owner) + 10
             \/ q + 13 = End /\ r.type >= 256
    BY <1>1, <1>3, RoundRead
  <2>2. m.questions = 1 /\ m.type = DNS_A_RECORD
    BY <1>1, <1>3 DEF AnswersInv
  <2>3. CASE q + 13 = End /\ m.records[k].type >= 256
    BY <2>1, <2>2, <2>3, <1>1 DEF Astray
  <2>4. CASE ~(q + 13 = End /\ m.records[k].type >= 256)
    <3>1. /\ m.records[k].type = DNS_A_RECORD
          /\ p' + 2 = Off(m, k) + Len(m.records[k].owner)
      BY <1>1, <2>1, <2>4
    <3>2. \E j \in 1..Len(m.records) :
            /\ p' + 2 = Off(m, j) + Len(m.records[j].owner)
            /\ m.records[j].type = DNS_A_RECORD /\ AliasesBefore(m, j)
      BY <2>1, <3>1
    <3>3. AtAddress(m)'
      BY <3>2, <1>1 DEF AtAddress
    <3>4. QED
      BY <2>2, <3>3
  <2>5. QED
    BY <2>3, <2>4
<1>4. End' = End
  BY <1>1 DEF End
<1>5. Astray(m)' = Astray(m)
  BY <1>1 DEF Astray, AliasesBefore
<1>6. QED
  BY <1>1, <1>2, <1>3, <1>4, <1>5 DEF AnswersInv

\* An answer that is to be replaced is in the message as a whole.
LEMMA ReplaceableWhole ==
  ASSUME NEW m \in WellFormed, NEW j, Replaceable(m, j),
         NEW k \in 1..(Len(m.records) + 1), AliasesBefore(m, k)
  PROVE  /\ j \in 1..Len(m.records) /\ m.records[j].type = DNS_A_RECORD
         /\ Off(m, k) \in Nat
         /\ Off(m, k) + 14 <= Len(Encode(m))
         /\ j = k => Off(m, k) + Len(m.records[k].owner) + 14 <= Len(Encode(m))
         /\ j # k => /\ k \in 1..Len(m.records)
                     /\ m.records[k].type = DNS_CNAME_RECORD
                     /\ Off(m, k) + Len(m.records[k].owner) + 24 <= Len(Encode(m))
<1> DEFINE n == Len(m.records)
           e == Len(Encode(m))
           a == Off(m, k)
           b == Off(m, j)
           c == Off(m, j + 1)
           L == Len(m.records[j].owner)
<1>1. n \in Nat /\ e \in Nat
  BY MessageParts, MessageLaid
<1>2. /\ j \in 1..n /\ j \in k..n /\ m.records[j].type = DNS_A_RECORD
      /\ Len(m.records[j].data) = 4
      /\ j = k \/ m.records[k].type = DNS_CNAME_RECORD
  BY ReplaceableAt
<1>3. a \in Nat /\ b \in Nat /\ a <= b
  <2>1. j \in k..(n + 1)
    BY <1>1, <1>2
  <2>2. QED
    BY <2>1, OffsetsGrow
<1>4. L \in Nat /\ c \in Nat /\ c = b + (L + 14) /\ c <= e
  <2> DEFINE w == Len(RecordBytes(m.records[j]))
  <2>1. c \in Nat /\ c = b + w /\ c <= e
    BY <1>2, AnswerLaid
  <2>2. m.records[j] \in Record
    BY <1>2, MessageParts
  <2>3. L \in Nat
    BY <2>2, AnswerParts, LenProperties
  <2>4. w = L + 10 + 4
    BY <2>2, <1>2, RecordLaid
  <2> HIDE DEF w, L, b, c, e
  <2>5. QED
    BY <2>1, <2>3, <2>4, <1>3
<1>5. ASSUME j # k
      PROVE  k \in 1..n /\ a + Len(m.records[k].owner) + 10 <= b
  <2>1. k \in 1..n /\ j \in (k + 1)..(n + 1) /\ k + 1 \in 1..(n + 1)
    BY <1>1, <1>2, <1>5
  <2> DEFINE d == Off(m, k + 1)
             w == Len(RecordBytes(m.records[k]))
             M == Len(m.records[k].owner)
             x == Len(m.records[k].data)
  <2>2. d \in Nat /\ d <= b
    BY <2>1, OffsetsGrow
  <2>3. d = a + w
    BY <2>1, AnswerLaid
  <2>4. m.records[k] \in Record
    BY <2>1, MessageParts
  <2>5. M \in Nat /\ x \in Nat
    BY <2>4, AnswerParts, LenProperties
  <2>6. w = M + 10 + x
    BY <2>4, RecordLaid
  <2> HIDE DEF d, w, M, x, a, b, n
  <2>7. a + M + 10 <= b
    BY <2>2, <2>3, <2>5, <2>6, <1>3
  <2>8. QED
    BY <2>1, <2>7 DEF M
<1>6. j # k => Len(m.records[k].owner) \in Nat
  BY <1>5, MessageParts, AnswerParts, LenProperties
<1> DEFINE M == Len(m.records[k].owner)
<1>7. j = k => L = M
  OBVIOUS
<1> HIDE DEF a, b, c, e, L, M, n
<1>8. a + 14 <= e /\ (j = k => a + M + 14 <= e)
  <2>1. j = k => a = b
    BY DEF a, b
  <2>2. QED
    BY <2>1, <1>1, <1>3, <1>4, <1>7
<1>9. j # k => a + M + 24 <= e
  BY <1>1, <1>3, <1>4, <1>5, <1>6 DEF M
<1>10. QED
  BY <1>2, <1>3, <1>5, <1>8, <1>9 DEF a, e, M, n

LEMMA OtherRecordAnswers ==
  ASSUME WalkInv, AnswersInv, OtherRecord
  PROVE  AnswersInv' /\ AnswersTranslated'
<1> DEFINE m == input.msg
           q == NameEnd(p)
<1>1. /\ TypeOK /\ pkt = Packet[input] /\ UNCHANGED <<input, pkt>> /\ pc = "answers"
      /\ ~NoAnswer /\ pc' = "done"
      /\ U16(q + 2) \notin {DNS_CNAME_RECORD, DNS_A_RECORD}
  BY DEF WalkInv, AnswersInv, OtherRecord, Return
<1>2. /\ m \in WellFormed /\ End \in Nat
      /\ input.cut = 0 => End = Len(Encode(m))
  BY <1>1, PacketBytes
<1>3. ASSUME input.cut = 0, Truthful(m), Whole(m), NEW j, Replaceable(m, j)
      PROVE  FALSE
  <2>1. PICK k \in 1..Len(m.records) :
          LET r == m.records[k] IN
          /\ p = Off(m, k) /\ AliasesBefore(m, k)
          /\ \/ /\ q + 2 = Off(m, k) + Len(r.owner)
                /\ U16(q + 2) = r.type
                /\ q + 12 + U16(q + 10) = Off(m, k + 1)
             \/ /\ U16(q + 2) \notin {DNS_A_RECORD, DNS_CNAME_RECORD}
                /\ r.owner \in Partial
                     \/ End <= Off(m, k) + Len(r.owner) + 10
             \/ q + 13 = End /\ r.type >= 256
    BY <1>1, <1>3, WholeIsReadable, RoundRead
  <2>2. k \in 1..(Len(m.records) + 1) /\ m.records[k] \in Record
        /\ DOMAIN m.records = 1..Len(m.records)
    <3>1. Len(m.records) \in Nat /\ m.records[k] \in Record
          /\ DOMAIN m.records = 1..Len(m.records)
      BY <1>2, MessageParts
    <3>2. QED
      BY <3>1
  <2>3. /\ m.records[j].type = DNS_A_RECORD
        /\ j # k => m.records[k].type = DNS_CNAME_RECORD
    BY <1>2, <1>3, <2>1, <2>2, ReplaceableWhole
  <2>4. m.records[k].type \in {DNS_A_RECORD, DNS_CNAME_RECORD}
    BY <2>3
  <2>5. End <= Off(m, k) + Len(m.records[k].owner) + 10
    <3>1. ~(m.records[k].type >= 256)
      BY <2>4 DEF DNS_A_RECORD, DNS_CNAME_RECORD
    <3>2. QED
      BY <1>1, <1>3, <2>1, <2>2, <2>4, <3>1 DEF Whole
  <2> DEFINE a == Off(m, k)
             L == Len(m.records[k].owner)
             E == End
  <2>6. a \in Nat /\ L \in Nat /\ (a + L + 14 <= E \/ a + L + 24 <= E)
    <3>1. /\ a \in Nat
          /\ a + L + 14 <= Len(Encode(m)) \/ a + L + 24 <= Len(Encode(m))
      BY <1>2, <1>3, <2>1, <2>2, ReplaceableWhole
    <3>2. L \in Nat
      BY <2>2, AnswerParts, LenProperties
    <3>3. QED
      BY <3>1, <3>2, <1>2, <1>3
  <2>7. E <= a + L + 10 /\ E \in Nat
    BY <2>5, <1>2
  <2> HIDE DEF a, L, E
  <2>8. QED
    BY <2>6, <2>7
<1>4. AnswersTranslated'
  BY <1>1, <1>3, LeftAlone
<1>5. QED
  BY <1>1, <1>4 DEF AnswersInv

LEMMA LoopEndsAnswers ==
  ASSUME WalkInv, AnswersInv, LoopEnds
  PROVE  AnswersInv' /\ AnswersTranslated'
<1> DEFINE m == input.msg
<1>1. /\ TypeOK /\ pkt = Packet[input] /\ UNCHANGED <<input, pkt>> /\ pc = "answers"
      /\ p + 12 >= End /\ pc' = "done" /\ p \in Nat
  BY DEF WalkInv, TypeOK, AnswersInv, LoopEnds, NoAnswer, Return
<1>2. /\ m \in WellFormed /\ End \in Nat
      /\ input.cut = 0 => End = Len(Encode(m))
  BY <1>1, PacketBytes
<1>3. ASSUME input.cut = 0, Truthful(m), Readable(m), NEW j, Replaceable(m, j)
      PROVE  FALSE
  <2>1. PICK k \in 1..(Len(m.records) + 1) : p = Off(m, k) /\ AliasesBefore(m, k)
    <3>1. ~Astray(m)
      BY <1>2, <1>3, AstrayHarmless
    <3>2. AtAnswer(m)
      BY <1>1, <1>3, <3>1 DEF AnswersInv
    <3>3. QED
      BY <3>2 DEF AtAnswer
  <2>2. p + 14 <= End
    BY <1>2, <1>3, <2>1, ReplaceableWhole
  <2>3. QED
    BY <2>2, <1>1, <1>2
<1>4. AnswersTranslated'
  BY <1>1, <1>3, WholeIsReadable, LeftAlone
<1>5. QED
  BY <1>1, <1>4 DEF AnswersInv

\* The address is left alone where it is not of four bytes, or not in the table; and
\* that of a whole message is there as a whole.
LEMMA KeptAnswers ==
  ASSUME WalkInv, AnswersInv, NotReplaced \/ Truncated
  PROVE  AnswersInv' /\ AnswersTranslated'
<1> DEFINE m == input.msg
<1>1. /\ TypeOK /\ pkt = Packet[input] /\ UNCHANGED <<input, pkt>> /\ pc = "address"
      /\ pc' = "done" /\ p \in Nat /\ p + 12 < End
  BY DEF WalkInv, TypeOK, AnswersInv, NotReplaced, Truncated, Return
<1>2. /\ m \in WellFormed /\ End \in Nat
      /\ input.cut = 0 => End = Len(Encode(m))
  BY <1>1, PacketBytes
<1>3. \/ U16(p + 10) # 4
      \/ Bytes(p + 12, 4) \notin DOMAIN Geo
      \/ ~(p + 12 + U16(p + 10) <= End)
  BY <1>1 DEF NotReplaced, Truncated, DataFits
<1>4. ASSUME input.cut = 0, Truthful(m), Readable(m), NEW j, Replaceable(m, j)
      PROVE  FALSE
  <2>1. PICK k \in 1..Len(m.records) :
          LET r == m.records[k] IN
          /\ p + 12 = Off(m, k) + Len(r.owner) + 10
          /\ r.type = DNS_A_RECORD /\ AliasesBefore(m, k)
          /\ U16(p + 10) = Len(r.data)
          /\ Off(m, k + 1) = p + 12 + Len(r.data)
          /\ Len(r.data) \in Nat
          /\ Len(r.data) = 4 /\ p + 16 <= End => Bytes(p + 12, 4) = r.data
    <3>1. ~Astray(m)
      BY <1>2, <1>4, AstrayHarmless
    <3>2. AtAddress(m)
      BY <1>1, <1>4, <3>1 DEF AnswersInv
    <3>3. QED
      BY <1>1, <1>4, <3>2, AddressRead
  <2>2. k \in 1..(Len(m.records) + 1)
    <3>1. Len(m.records) \in Nat
      BY <1>2, MessageParts
    <3>2. QED
      BY <3>1
  <2>3. j = k /\ Len(m.records[k].data) = 4
    <3>1. m.records[k].type # DNS_CNAME_RECORD
      BY <2>1 DEF DNS_A_RECORD, DNS_CNAME_RECORD
    <3>2. QED
      BY <3>1, <1>2, <1>4, <2>1, <2>2, ReplaceableAt
  <2>4. p + 16 <= End
    <3>1. Off(m, k + 1) <= Len(Encode(m))
      BY <1>2, AnswerLaid
    <3> DEFINE c == Off(m, k + 1)
               d == Len(m.records[k].data)
               E == End
    <3>2. c = p + 12 + d /\ d = 4 /\ c <= E
      BY <1>2, <1>4, <2>1, <2>3, <3>1
    <3>3. E \in Nat /\ p \in Nat
      BY <1>1, <1>2
    <3> HIDE DEF c, d, E
    <3>4. p + 16 <= E
      BY <3>2, <3>3
    <3>5. QED
      BY <3>4 DEF E
  <2>5. U16(p + 10) = 4 /\ Bytes(p + 12, 4) \in DOMAIN Geo
    BY <1>4, <2>1, <2>3, <2>4 DEF Replaceable
  <2>6. QED
    BY <1>1, <1>2, <1>3, <2>4, <2>5
<1>5. AnswersTranslated'
  BY <1>1, <1>4, WholeIsReadable, LeftAlone
<1>6. QED
  BY <1>1, <1>5 DEF AnswersInv

\* The address is overwritten with the one that is to take its place, and no other
\* byte is.
LEMMA ReplaceAnswers ==
  ASSUME WalkInv, AnswersInv, Replace
  PROVE  AnswersInv' /\ AnswersTranslated'
<1> DEFINE m == input.msg
           a == Bytes(p + 12, 4)
           f == Encode(Translated(m))
           e == Encode(m)
<1>1. /\ TypeOK /\ pkt = Packet[input] /\ UNCHANGED input /\ pc = "address"
      /\ pc' = "done" /\ p \in Nat /\ U16(p + 10) = 4 /\ a \in DOMAIN Geo
      /\ p + 12 + U16(p + 10) <= End /\ End = Len(Packet[input])
      /\ pkt' = Overwrite(p + 12, Geo[a])
  BY DEF WalkInv, TypeOK, AnswersInv, Replace, DataFits, Return
<1>2. /\ m \in WellFormed /\ End \in Nat /\ End <= Len(e)
      /\ input.cut = 0 => End = Len(e)
      /\ \A i \in 1..End : pkt[i] = e[i]
  BY <1>1, PacketBytes
<1>3. ASSUME Truthful(m), Readable(m)
      PROVE  pkt' = SubSeq(f, 1, End) /\ Len(f) = Len(e) /\ f \in Seq(Byte)
  <2>1. PICK k \in 1..Len(m.records) :
          LET r == m.records[k] IN
          /\ p + 12 = Off(m, k) + Len(r.owner) + 10
          /\ r.type = DNS_A_RECORD /\ AliasesBefore(m, k)
          /\ U16(p + 10) = Len(r.data)
          /\ Off(m, k + 1) = p + 12 + Len(r.data)
          /\ Len(r.data) \in Nat
          /\ Len(r.data) = 4 /\ p + 16 <= End => Bytes(p + 12, 4) = r.data
    <3>1. ~(p + 13 = End)
      BY <1>1, <1>2
    <3>2. AtAddress(m)
      BY <1>1, <1>3, <3>1 DEF AnswersInv
    <3>3. QED
      BY <1>1, <1>3, <3>2, AddressRead
  <2>2. p + 16 <= End
    BY <1>1, <1>2
  <2>3. m.records[k].data = a
    BY <1>1, <2>1, <2>2
  <2>4. m.questions = 1 /\ m.type = DNS_A_RECORD
    BY <1>1, <1>3 DEF AnswersInv
  <2>5. Replaceable(m, k)
    BY <1>1, <1>2, <2>1, <2>3, <2>4, AddressReplaceable
  <2> DEFINE o == p + 12
             new == Geo[a]
             E == End
             l == Len(e)
  <2>6. /\ Len(f) = l
        /\ \A i \in 1..l : f[i] = IF i - 1 \in o..(o + 3) THEN new[i - o] ELSE e[i]
    <3>1. /\ Len(f) = l
          /\ \A i \in 1..l :
               f[i] = IF i - 1 \in (Off(m, k) + Len(m.records[k].owner) + 10)..
                                     (Off(m, k) + Len(m.records[k].owner) + 10 + 3)
                        THEN Geo[m.records[k].data]
                               [i - (Off(m, k) + Len(m.records[k].owner) + 10)]
                        ELSE e[i]
      BY <1>2, <2>5, TranslatedBytes
    <3>2. QED
      BY <3>1, <2>1, <2>3
  <2>7. Translated(m) \in WellFormed
    BY <1>2, TranslatedParts
  <2>8. f \in Seq(Byte) /\ l \in Nat
    BY <1>2, <2>7, MessageLaid
  <2> DEFINE g == SubSeq(f, 1, E)
  <2>9. g \in Seq(Byte) /\ Len(g) = E /\ \A i \in 1..E : g[i] = f[i]
    <3> HIDE DEF E, f, l, e
    <3>1. 1 \in Int /\ E \in Int /\ E \in Nat /\ E <= Len(f)
      BY <1>2, <2>6 DEF E, l
    <3>2. \A i \in 1..E : i \in 1..Len(f)
      BY <3>1, <2>6, <2>8
    <3>3. \A i \in 1..E : f[i] \in Byte
      BY <3>2, <2>8, ElementOfSeq
    <3>4. /\ SubSeq(f, 1, E) \in Seq(Byte)
          /\ Len(SubSeq(f, 1, E)) = IF 1 <= E THEN E - 1 + 1 ELSE 0
          /\ \A i \in 1..(E - 1 + 1) : SubSeq(f, 1, E)[i] = f[1 + i - 1]
      BY <3>1, <3>3, SubSeqProperties
    <3> HIDE DEF g
    <3>5. E - 1 + 1 = E /\ \A i \in 1..E : 1 + i - 1 = i
      BY <3>1
    <3>6. g \in Seq(Byte) /\ Len(g) = (IF 1 <= E THEN E ELSE 0)
          /\ \A i \in 1..E : g[i] = f[i]
      BY <3>4, <3>5 DEF g
    <3>7. QED
      BY <3>1, <3>6
  <2>10. g = [i \in 1..E |-> g[i]]
    BY <2>9, LenProperties
  <2>11. \A i \in 1..E :
           g[i] = IF i - 1 \in o..(o + 3) THEN new[i - o] ELSE pkt[i]
    <3> HIDE DEF g, E, f, e, o, new, l
    <3>1. \A i \in 1..E : i \in 1..l
      BY <1>2, <2>8 DEF E, l
    <3>2. QED
      BY <3>1, <1>2, <2>6, <2>9 DEF E
  <2>12. pkt' = [i \in 1..E |-> IF i - 1 \in o..(o + 3) THEN new[i - o] ELSE pkt[i]]
    BY <1>1 DEF Overwrite
  <2>13. pkt' = g
    <3> HIDE DEF g, E, o, new
    <3>1. QED
      BY <2>10, <2>11, <2>12
  <2>14. QED
    BY <2>6, <2>8, <2>13
<1>4. NothingElseChanged'
  BY <1>1, <1>3 DEF NothingElseChanged
<1>5. AddressTranslated'
  <2>1. ASSUME Truthful(m), Readable(m), input.cut = 0 PROVE pkt' = f
    <3>1. pkt' = SubSeq(f, 1, Len(f)) /\ f \in Seq(Byte)
      BY <1>2, <1>3, <2>1
    <3>2. QED
      BY <3>1
  <2>2. QED
    BY <2>1, <1>1, WholeIsReadable DEF AddressTranslated
<1>6. QED
  BY <1>1, <1>4, <1>5 DEF AnswersInv, AnswersTranslated

LEMMA AnswersKept ==
  ASSUME WalkInv, AnswersInv, AnswersTranslated, [Next]_vars
  PROVE  AnswersInv' /\ AnswersTranslated'
<1>1. CASE UNCHANGED vars
  BY <1>1 DEF vars, AnswersInv, AtAnswer, AtAddress, Astray, AliasesBefore, End,
              AnswersTranslated, AddressTranslated, NothingElseChanged
<1>2. CASE Walk
  BY <1>2, HeaderAnswers, QuestionAnswers, LoopEndsAnswers, CnameAnswers,
     AddressFoundAnswers, OtherRecordAnswers, ReplaceAnswers, KeptAnswers DEF Walk
<1>3. QED
  BY <1>1, <1>2 DEF Next, Returned

\* Whatever messages the server sends, of however many records of whatever types in
\* their three sections, with names and data of whatever length: one that arrives as a
\* whole, and whose names are written out or are pointers, comes out of
\* dns_parse_proxy with the address its aliases lead to replaced, that is the first
\* record of whatever section that is no alias, if that is an address and the geo table
\* has one for it, and else as it was; any other one comes out as it was or so
\* translated, unless a name that is part text, part pointer has a type after it that
\* is 0 or of 256 or more (dns.c: dns_parse_proxy, process_ip).
THEOREM AddressesAreTranslated == Spec => []AnswersTranslated
<1>1. Init => AnswersInv /\ AnswersTranslated
  BY DEF Init, AnswersInv, AnswersTranslated, AddressTranslated, NothingElseChanged
<1>2. Init => WalkInv /\ InBounds
  BY WalkStarts
<1>3. WalkInv /\ InBounds /\ [Next]_vars => (WalkInv /\ InBounds)'
  BY WalkStep
<1>4. WalkInv /\ AnswersInv /\ AnswersTranslated /\ [Next]_vars
        => (AnswersInv /\ AnswersTranslated)'
  BY AnswersKept
<1>5. QED
  BY <1>1, <1>2, <1>3, <1>4, PTL DEF Spec

=============================================================================
