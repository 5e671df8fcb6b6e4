---------------------------- MODULE DnsMessages ----------------------------
(***************************************************************************)
(* What dns_parse_proxy should make of an answer: the messages of a DNS    *)
(* server, their bytes, and the message the requester is to get instead.   *)
(***************************************************************************)
EXTENDS Dns, SequencesExt

CONSTANTS
  Message,  \* the messages the server may send
  MaxCut    \* bound on the bytes missing at the end of a packet

\* A name is written out, is a pointer to a name before it, or is part text, part
\* pointer.  Text has no zero bytes, and begins with the length of a label.
Written == {n \in Seq(Byte) :
              /\ n # <<>> /\ n[1] < 192 /\ n[Len(n)] = 0
              /\ \A i \in 1..(Len(n) - 1) : n[i] # 0}
Pointer == {n \in Seq(Byte) : Len(n) = 2 /\ n[1] >= 192}
Partial == {n \in Seq(Byte) :
              /\ Len(n) > 2 /\ n[1] < 192 /\ n[Len(n) - 1] >= 192
              /\ \A i \in 1..(Len(n) - 1) : n[i] # 0}

\* The records a server may send: the name of the owner, the type, the class and the
\* time to live, the length it says the data has, and the data.
Word   == 0..65535
Record == [owner : Written \cup Pointer \cup Partial, type : Word,
           rest : [1..6 -> Byte], len : Word, data : Seq(Byte)]

\* Its messages: how many questions it says there are, the name and type asked for,
\* and the records of the answer, authority and additional sections, one section
\* after the other, with the number of each.
WellFormed ==
  {m \in [questions : Word, name : Written, type : Word,
          sections : [1..3 -> Word], records : Seq(Record)] :
     Len(m.records) = m.sections[1] + m.sections[2] + m.sections[3]}

ASSUME MessageAssumption ==
  /\ \A m \in Message : m \in WellFormed
  /\ MaxCut \in Nat

\* A word goes with its high byte first.
WordBytes(n) == <<n \div 256, n % 256>>

RecordBytes(r) ==
  r.owner \o WordBytes(r.type) \o r.rest \o WordBytes(r.len) \o r.data

\* The header, with an identification and flags the code does not read, the question,
\* whose class it does not read either, and the records.
Encode(m) ==
  <<0, 7, 129, 128>> \o WordBytes(m.questions)
    \o WordBytes(m.sections[1]) \o WordBytes(m.sections[2]) \o WordBytes(m.sections[3])
    \o m.name \o WordBytes(m.type) \o <<0, 1>>
    \o FlattenSeq([k \in DOMAIN m.records |-> RecordBytes(m.records[k])])

\* The packets: a message each, less some bytes at its end.
Packets ==
  [k \in [msg : Message, cut : 0..MaxCut] |->
     LET bytes == Encode(k.msg) IN SubSeq(bytes, 1, Len(bytes) - k.cut)]

ASSUME PacketAssumption == Packet = Packets

-----------------------------------------------------------------------------
(* Properties.                                                             *)

\* The first record, of whatever section, that is not an alias.
Aliases(m)  == {k \in DOMAIN m.records : m.records[k].type = DNS_CNAME_RECORD}
Decisive(m) == {k \in DOMAIN m.records \ Aliases(m) : 1..(k - 1) \subseteq Aliases(m)}

\* The message with the address its name leads to replaced, where there is one.
Translated(m) ==
  [m EXCEPT !.records =
     [k \in DOMAIN m.records |->
        LET r == m.records[k] IN
        IF /\ m.questions = 1 /\ m.type = DNS_A_RECORD
           /\ k \in Decisive(m) /\ r.type = DNS_A_RECORD /\ r.data \in DOMAIN Geo
          THEN [r EXCEPT !.data = Geo[r.data]]
          ELSE r]]

Truthful(m) == \A k \in DOMAIN m.records :
                 m.records[k].len = Len(m.records[k].data)

Whole(m) == \A k \in DOMAIN m.records : m.records[k].owner \notin Partial

\* A name that is part text, part pointer is scanned on for the zero byte before its
\* type, so that the type of its record must begin with that byte, and with no other.
Readable(m) == \A k \in DOMAIN m.records :
                 m.records[k].owner \in Partial => m.records[k].type \in 1..255

\* README:4, "It can replace the IP addresss": a whole answer whose aliases, any
\* number of them, lead to an address comes out as that answer with the address
\* replaced; one that leads to none comes out as it was.  The sections are not told
\* apart: where the aliases are followed by no other answer, what they lead to is the
\* first record of the authority or additional section.  And not so for owner names
\* that are part text, part pointer, after which the type is misread
\* (dns.c: dns_parse_proxy, "skip possible name in CNAME answer").
AddressTranslated ==
  pc = "done" /\ input.cut = 0 /\ Truthful(input.msg) /\ Whole(input.msg)
    => pkt = Encode(Translated(input.msg))

\* Wherever a message is cut off and however its names are written, it is either left
\* as it is or has that one address replaced, and nothing else; but for messages in
\* which a type of 256 or more, or of 0, comes after a name that is part text, part
\* pointer: there the class or the time to live may be read as a type, and data as a
\* length (dns.c: dns_parse_proxy, process_ip).
NothingElseChanged ==
  pc = "done" /\ Truthful(input.msg) /\ Readable(input.msg) =>
    pkt \in {Packet[input],
             SubSeq(Encode(Translated(input.msg)), 1, Len(Packet[input]))}

\* Answers come out translated where that is promised, and else translated or as
\* they were (dns.c: dns_parse_proxy, process_ip).
AnswersTranslated == AddressTranslated /\ NothingElseChanged

=============================================================================
