------------------------------- MODULE MCDns -------------------------------
(* Small sets of DNS messages for TLC. *)
EXTENDS DnsMessages, TLC

Known == <<10, 0, 0, 0>>
Proxied == <<10, 1, 0, 0>>
OneAddress == Known :> Proxied

Name == [root    |-> <<0>>,
         label   |-> <<1, 119, 0>>,
         pointer |-> <<192, 12>>,
         partial |-> <<1, 119, 192, 12>>,
         zero    |-> <<1, 119, 193, 0>>]

Owners == {Name.root, Name.label, Name.pointer, Name.partial, Name.zero}
\* Records of the Internet class, with a time to live of a minute.
Rec(o, t, d, n) ==
  [owner |-> o, type |-> t, rest |-> <<0, 1, 0, 0, 0, 60>>, len |-> n, data |-> d]

\* Addresses that are in the table and not, some of a wrong length; aliases to
\* names that are pointers and not, the length of some wrong; other records, with
\* types of two bytes too; and what says how long an answer may be, in a class.
Addresses ==
  {Rec(o, 1, d, 4) : o \in Owners, d \in {Known, <<8, 8, 8, 8>>}}
    \cup {Rec(Name.pointer, 1, Known \o <<0>>, 5)}
AliasRecords ==
  {Rec(o, 5, d, Len(d)) : o \in Owners, d \in {Name.pointer, Name.label}}
Liars == {Rec(Name.pointer, 5, Name.pointer, n) : n \in {0, 4, 40000}}
           \cup {Rec(Name.root, 1, Known, n) : n \in {0, 5}}
Others == {Rec(o, t, Known, 4) : o \in {Name.root, Name.pointer, Name.label},
                                 t \in {28, 256, 257, 1281}}
            \cup {Rec(Name.partial, t, <<0, 4>> \o Known, 6) : t \in {0, 28, 256, 257}}
            \cup {[Rec(Name.root, 41, <<>>, 0) EXCEPT !.rest = <<5, 1, 0, 0, 128, 0>>]}

Records == Addresses \cup AliasRecords \cup Liars \cup Others

LongChain == {x \in AliasRecords : x.owner \in {Name.root, Name.pointer}}
Replaced  == {Rec(o, 1, Known, 4) : o \in {Name.pointer, Name.partial}}

Chains ==
  {<<>>} \cup {<<a>> : a \in Records} \cup {<<a, b>> : a \in Records, b \in Replaced}
    \cup {<<a, b>> : a \in AliasRecords, b \in Addresses}
    \cup {<<a, b>> : a \in LongChain \cup Liars, b \in Records}
    \cup {<<a, b, c>> : a \in LongChain, b \in LongChain, c \in Replaced}

Msg(q, n, t, s, a) ==
  [questions |-> q, name |-> n, type |-> t, sections |-> s, records |-> a]

\* The first record is an answer, the others are of the other sections; or all are
\* answers.
Sections(a) == IF a = <<>> THEN <<0, 0, 0>> ELSE <<1, 0, Len(a) - 1>>

Messages ==
  {Msg(1, Name.label, 1, Sections(a), a) : a \in Chains}
    \cup {Msg(1, Name.label, 1, <<2, 0, 0>>, <<a, b>>) :
            a \in LongChain, b \in Replaced}
    \cup {Msg(q, n, t, <<1, 0, 0>>, <<Rec(Name.pointer, 1, Known, 4)>>) :
            q \in {0, 1, 2, 257}, n \in {Name.root, Name.label}, t \in {1, 28, 257}}

=============================================================================
