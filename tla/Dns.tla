-------------------------------- MODULE Dns --------------------------------
(***************************************************************************)
(* dns_parse_proxy of src/dns.c: the walk over a DNS answer to its first   *)
(* address, which is replaced when the geo table has one for it.           *)
(*                                                                         *)
(* The packet is its bytes, and p an offset into it, as in the code; each  *)
(* step is one round of the loop over the answers or what is before or     *)
(* after it.                                                               *)
(***************************************************************************)
EXTENDS Integers, Sequences

CONSTANTS
  Packet,  \* the packets that may arrive, by a name each
  Geo      \* geo_get: the addresses there is a replacement for, and it

Byte == 0..255

ASSUME DnsAssumption ==
  /\ \A k \in DOMAIN Packet : Packet[k] \in Seq(Byte)
  /\ DOMAIN Geo \subseteq [1..4 -> Byte]
  /\ Geo \in [DOMAIN Geo -> [1..4 -> Byte]]

VARIABLES
  input,  \* the packet that has arrived
  pkt,    \* the buffer, as far as it was received
  p,      \* the offset the walk is at
  pc,     \* "header", "question", "answers", "address" or "done"
  reads,  \* the offsets the last step has read
  ret     \* what dns_parse_proxy returns

vars == <<input, pkt, p, pc, reads, ret>>

DNS_A_RECORD     == 1
DNS_CNAME_RECORD == 5
HeaderLen        == 12   \* sizeof(dns_header_t)

\* A byte that was not received reads as 0 here; InBounds says when one is read.
End    == Len(pkt)
At(o)  == IF o < End THEN pkt[o + 1] ELSE 0
U16(o) == 256 * At(o) + At(o + 1)

\* Where a scan for a zero byte, from offset o on, ends: at one, or at stop.
Zeros(o, stop)    == {z \in o..(stop - 1) : At(z) = 0}
FirstZero(o, stop) ==
  IF Zeros(o, stop) = {} THEN IF o < stop THEN stop ELSE o
  ELSE CHOOSE z \in Zeros(o, stop) : \A y \in Zeros(o, stop) : z <= y

Return(r) == pc' = "done" /\ ret' = r

-----------------------------------------------------------------------------
(* The header and the question.                                            *)

\* In a packet shorter than that the count is what the buffer held before.
Header ==
  /\ pc = "header"
  /\ reads' = {4, 5}
  /\ \/ /\ End < 6 \/ U16(4) = 1
        /\ pc' = "question" /\ p' = HeaderLen
        /\ UNCHANGED ret
     \/ /\ End < 6 \/ U16(4) # 1
        /\ Return(-1)
        /\ UNCHANGED p
  /\ UNCHANGED <<input, pkt>>

\* The name is skipped; then come type and class.
Question ==
  /\ pc = "question"
  /\ LET z == FirstZero(p, End) + 1
         fits == z + 4 <= End
         scan == {o \in p..(z - 1) : o < End} IN
       /\ reads' = IF fits THEN scan \cup {z, z + 1} ELSE scan
       /\ IF fits /\ U16(z) = DNS_A_RECORD
            THEN p' = z + 4 /\ pc' = "answers" /\ UNCHANGED ret
            ELSE p' = z /\ Return(-1)
  /\ UNCHANGED <<input, pkt>>

-----------------------------------------------------------------------------
(* The loop over the answers.                                              *)

\* (a bug: a whole answer has to be there only when the loop is entered)
NoAnswerAtEnd == p >= End

NoAnswer == p + 12 >= End

\* (a bug: after the scan p is not taken back to two bytes before the type)
NameEndAhead(o) ==
  IF At(o) >= 192 THEN o ELSE FirstZero(o, End - 12)

\* A pointer in place of a name stays, a name is skipped up to two bytes before
\* the type.
NameEnd(o) ==
  IF At(o) >= 192 THEN o ELSE FirstZero(o, End - 12) - 1

Read(q) == (IF At(p) >= 192 THEN {p} ELSE p..(q + 1)) \cup {q + 2, q + 3}

LoopEnds ==
  /\ pc = "answers"
  /\ NoAnswer
  /\ reads' = {}
  /\ Return(0)
  /\ UNCHANGED <<input, pkt, p>>

\* (a bug: the length of the data is not counted from its start)
CnameShort ==
  /\ pc = "answers" /\ ~NoAnswer
  /\ LET q == NameEnd(p) IN
       /\ U16(q + 2) = DNS_CNAME_RECORD
       /\ reads' = Read(q) \cup {q + 10, q + 11}
       /\ p' = q + U16(q + 10)
  /\ UNCHANGED <<input, pkt, pc, ret>>

\* (a bug: the length of the data is taken for an int16_t)
CnameSigned ==
  /\ pc = "answers" /\ ~NoAnswer
  /\ LET q == NameEnd(p)
         dlen == U16(q + 10) IN
       /\ U16(q + 2) = DNS_CNAME_RECORD
       /\ reads' = Read(q) \cup {q + 10, q + 11}
       /\ p' = q + 12 + (IF dlen < 2^15 THEN dlen ELSE dlen - 2^16)
  /\ UNCHANGED <<input, pkt, pc, ret>>

Cname ==
  /\ pc = "answers" /\ ~NoAnswer
  /\ LET q == NameEnd(p) IN
       /\ U16(q + 2) = DNS_CNAME_RECORD
       /\ reads' = Read(q) \cup {q + 10, q + 11}
       /\ p' = q + 12 + U16(q + 10)
  /\ UNCHANGED <<input, pkt, pc, ret>>

AddressFound ==
  /\ pc = "answers" /\ ~NoAnswer
  /\ LET q == NameEnd(p) IN
       /\ U16(q + 2) = DNS_A_RECORD
       /\ reads' = Read(q)
       /\ p' = q /\ pc' = "address"
  /\ UNCHANGED <<input, pkt, ret>>

OtherRecord ==
  /\ pc = "answers" /\ ~NoAnswer
  /\ LET q == NameEnd(p) IN
       /\ U16(q + 2) \notin {DNS_CNAME_RECORD, DNS_A_RECORD}
       /\ reads' = Read(q)
       /\ p' = q
  /\ Return(0)
  /\ UNCHANGED <<input, pkt>>

-----------------------------------------------------------------------------
(* After the loop, and process_ip.                                         *)

Bytes(o, n) == [k \in 1..n |-> At(o + k - 1)]

Overwrite(o, new) ==
  [k \in 1..End |-> IF k - 1 \in o..(o + 3) THEN new[k - o] ELSE pkt[k]]

\* The data is there as a whole.
DataFits == p + 12 < End /\ p + 12 + U16(p + 10) <= End

\* (a bug: the new address is written over the length of the data)
ReplaceEarly ==
  /\ pc = "address"
  /\ DataFits /\ U16(p + 10) = 4
  /\ reads' = {p + 10, p + 11} \cup (p + 12)..(p + 15)
  /\ Bytes(p + 12, 4) \in DOMAIN Geo
  /\ pkt' = Overwrite(p + 10, Geo[Bytes(p + 12, 4)])
  /\ Return(0)
  /\ UNCHANGED <<input, p>>

Replace ==
  /\ pc = "address"
  /\ DataFits /\ U16(p + 10) = 4
  /\ reads' = {p + 10, p + 11} \cup (p + 12)..(p + 15)
  /\ Bytes(p + 12, 4) \in DOMAIN Geo
  /\ pkt' = Overwrite(p + 12, Geo[Bytes(p + 12, 4)])
  /\ Return(0)
  /\ UNCHANGED <<input, p>>

\* No address of four bytes, or none geo_get has a replacement for.
NotReplaced ==
  /\ pc = "address"
  /\ DataFits
  /\ \/ /\ U16(p + 10) # 4
        /\ reads' = {p + 10, p + 11}
     \/ /\ U16(p + 10) = 4 /\ Bytes(p + 12, 4) \notin DOMAIN Geo
        /\ reads' = {p + 10, p + 11} \cup (p + 12)..(p + 15)
  /\ Return(-1)
  /\ UNCHANGED <<input, pkt, p>>

\* The data is not there as a whole.
Truncated ==
  /\ pc = "address"
  /\ ~DataFits
  /\ reads' = IF p + 12 < End THEN {p + 10, p + 11} ELSE {}
  /\ Return(0)
  /\ UNCHANGED <<input, pkt, p>>

Init ==
  /\ input \in DOMAIN Packet
  /\ pkt = Packet[input]
  /\ p = 0 /\ pc = "header" /\ reads = {} /\ ret = 0

Walk == \/ Header \/ Question
        \/ LoopEnds \/ Cname \/ AddressFound \/ OtherRecord
        \/ Replace \/ NotReplaced \/ Truncated

Returned == pc = "done" /\ UNCHANGED vars

Next == Walk \/ Returned

Spec == Init /\ [][Next]_vars

\* dns_parse_proxy is called for a packet and waited for.
FairSpec == Spec /\ WF_vars(Walk)

-----------------------------------------------------------------------------
(* Properties.                                                             *)

\* The packet keeps its length, and p stays at or after its start, less than a
\* record of the longest data beyond its end.
TypeOK ==
  /\ input \in DOMAIN Packet
  /\ pkt \in Seq(Byte) /\ End = Len(Packet[input])
  /\ p \in Nat /\ (pc # "question" => p <= End + 65535 + 12)
  /\ pc \in {"header", "question", "answers", "address", "done"}
  /\ ret \in {-1, 0}

\* Whatever the packet says of its names and lengths, and wherever it ends, only
\* bytes of it are read; but for the question count of one of less than six bytes,
\* which is what the buffer held before (dns.c: dns_parse_proxy, process_ip).
InBounds == \A o \in reads : o >= 0 /\ (o < End \/ (End < 6 /\ o < 6))

\* A round of the loop goes at least eleven bytes forward, so that no answer can
\* hold it up (dns.c: dns_parse_proxy, p += 12 + dlen after --p).
RoundsAdvance ==
  [][pc = "answers" /\ pc' = "answers" => p' >= p + 11]_vars

\* dns_parse_proxy returns, whatever the packet (dns.c: dns_parse_proxy).
Returns == <>(pc = "done")

\* The walk stays in the packet, with its pointer and with what it reads
\* (dns.c: dns_parse_proxy, process_ip).
WalkSound == TypeOK /\ InBounds

=============================================================================
