---------------------------- MODULE ProxyProofs ----------------------------
(***************************************************************************)
(* Proofs about the proxy for every number of queries, blocks,             *)
(* descriptors and ports, every clock and every set of faults.             *)
(***************************************************************************)
EXTENDS ProxyRelay, TLAPS, FiniteSetTheorems, SequenceTheorems, FunctionTheorems

-----------------------------------------------------------------------------
(* Types.                                                                  *)

LEMMA CardinalityInt ==
  ASSUME NEW C \in SUBSET Cell
  PROVE  Cardinality(C) \in Nat
BY ProxyAssumption, FS_Subset, FS_CardinalityType DEF ProxyAssumption

\* Deleting allocated clients keeps the types of the tables.
LEMMA DeleteClientsType ==
  ASSUME TypeOK, NEW C \in SUBSET Cell, \A c \in C : cell[c] # Nil,
         DeleteClients(C)
  PROVE  /\ cell' \in [Cell -> Client \cup {Nil}]
         /\ remains' \in [Cell -> Remnant \cup {Nil}]
         /\ clis' \in SUBSET Cell
         /\ bound' \in [Fd -> Port \cup {Nil}]
         /\ rx' \in [Fd -> Seq(Query \cup {Stray})]
         /\ epoll' \in [Fd -> Cell \cup {Nil}]
         /\ fd_count' \in Int
<1>1. Cardinality(C) \in Nat
  BY CardinalityInt
<1>2. fd_count' \in Int
  BY <1>1 DEF DeleteClients, CountEntries, TypeOK
<1>3. <<>> \in Seq(Query \cup {Stray})
  BY EmptySeq
<1>4. rx' \in [Fd -> Seq(Query \cup {Stray})]
  BY <1>3 DEF DeleteClients, TypeOK
<1>5. remains' \in [Cell -> Remnant \cup {Nil}]
  <2>1. \A k \in Client : WhatRemains(k) \in Remnant
    BY DEF WhatRemains, Client, Remnant
  <2>2. \A c \in C : cell[c] \in Client
    BY DEF TypeOK
  <2>3. QED
    BY <2>1, <2>2 DEF DeleteClients, TypeOK
<1>6. QED
  BY <1>2, <1>4, <1>5 DEF DeleteClients, TypeOK

LEMMA ForwardType ==
  ASSUME TypeOK, NEW c \in Cell, NEW q \in Query, NEW f \in Fd, NEW p \in Port,
         Forward(c, q, f, p)
  PROVE  /\ bound' \in [Fd -> Port \cup {Nil}]
         /\ rx' \in [Fd -> Seq(Query \cup {Stray})]
         /\ portOf' \in [Query -> Port \cup {Nil}]
         /\ fd_count' \in Int
         /\ batch' \subseteq Event
         /\ inq' \subseteq Query
         /\ UNCHANGED <<phase, timeVars, unsent, answers>>
<1>1. <<>> \in Seq(Query \cup {Stray})
  BY EmptySeq
<1>2. QED
  BY <1>1 DEF Forward, CountEntries, Receive, TakeListen, Take, TypeOK, timeVars

\* The client a response event is handled for is allocated.
LEMMA AllocatedType ==
  ASSUME TypeOK, NEW c \in Cell, cell[c] # Nil
  PROVE  cell[c] \in Client
BY DEF TypeOK

\* What is left of a client in a freed block.
LEMMA RemnantType ==
  ASSUME TypeOK, NEW c \in Cell, remains[c] # Nil
  PROVE  remains[c] \in Remnant /\ remains[c].fd \in Fd /\ remains[c].cli \in Query
BY DEF TypeOK, Remnant

LEMMA TypeStep == TypeOK /\ ClientsListed /\ [Next]_vars => TypeOK'
<1> SUFFICES ASSUME TypeOK, ClientsListed, [Next]_vars
             PROVE  TypeOK'
  OBVIOUS
<1>1. ASSUME NEW q \in Query, SendQuery(q)
      PROVE  TypeOK'
  BY <1>1 DEF SendQuery, TypeOK, timeVars, tableVars
<1>2. ASSUME NEW f \in Fd, NEW d \in Query \cup {Stray}, Deliver(f, d)
      PROVE  TypeOK'
  <2>1. Append(rx[f], d) \in Seq(Query \cup {Stray})
    BY AppendProperties DEF TypeOK
  <2>2. rx' \in [Fd -> Seq(Query \cup {Stray})]
    BY <1>2, <2>1 DEF Deliver, TypeOK
  <2>3. QED
    BY <1>2, <2>2 DEF Deliver, TypeOK, timeVars, netVars
<1>3. CASE TimePasses
  BY <1>3 DEF TimePasses, TypeOK, tableVars, netVars
<1>4. ASSUME NEW b \in BackSteps, ClockSetBack(b)
      PROVE  TypeOK'
  BY <1>4, ProxyAssumption
  DEF ProxyAssumption, ClockSetBack, TypeOK, tableVars, netVars
<1>5. CASE EpollWait
  <2>1. Ready \subseteq Event
    BY DEF Ready, Event, TypeOK
  <2>2. \A E \in Reports : E \subseteq Event
    BY <2>1 DEF Reports
  <2>3. batch' \subseteq Event
    BY <1>5, <2>2 DEF EpollWait, TypeOK
  <2>4. remains' \in [Cell -> Remnant \cup {Nil}]
    BY <1>5 DEF EpollWait, TypeOK
  <2>5. QED
    BY <1>5, <2>3, <2>4 DEF EpollWait, TypeOK, timeVars, netVars
<1>6. CASE Tick
  <2>1. /\ last_tick' \in Int /\ clock' \in Int /\ last_check' \in Int
        /\ phase' = "serve"
        /\ UNCHANGED <<batch, now, netVars>>
    BY <1>6 DEF Tick, SrvCron, TypeOK
  <2>2. CASE UNCHANGED tableVars
    BY <2>1, <2>2 DEF TypeOK, tableVars, netVars
  <2>3. CASE DeleteClients(Selected(clock'))
    <3>1. Selected(clock') \in SUBSET Cell /\ \A c \in Selected(clock') : cell[c] # Nil
      BY DEF Selected, TypeOK, ClientsListed
    <3>2. QED
      BY <2>1, <2>3, <3>1, DeleteClientsType DEF TypeOK, netVars
  <2>4. QED
    BY <1>6, <2>2, <2>3 DEF Tick, SrvCron, CheckTimeout
<1>7. CASE ReadFails
  BY <1>7 DEF ReadFails, TakeListen, Take, TypeOK, timeVars, tableVars, netVars
<1>8. ASSUME NEW c \in Cell, NEW q \in Query, QueryDropped(c, q)
      PROVE  TypeOK'
  <2>1. remains' \in [Cell -> Remnant \cup {Nil}]
    <3>1. CASE remains[c] = Nil
      BY <1>8, <3>1 DEF QueryDropped, TypeOK
    <3>2. CASE remains[c] # Nil
      <4>1. [fd |-> remains[c].fd, cli |-> q] \in Remnant
        BY <3>2, RemnantType DEF Remnant
      <4>2. QED
        BY <1>8, <3>2, <4>1 DEF QueryDropped, TypeOK
    <3>3. QED
      BY <3>1, <3>2
  <2>2. QED
    BY <1>8, <2>1 DEF QueryDropped, Receive, TakeListen, Take, TypeOK, timeVars
<1>9. ASSUME NEW c \in Cell, NEW q \in Query, NEW f \in Fd, NEW p \in Port,
             ClientAdded(c, q, f, p)
      PROVE  TypeOK'
  <2>1. NewClient(f, q) \in Client
    BY ProxyAssumption DEF ProxyAssumption, NewClient, Client, TypeOK
  <2>2. QED
    BY <1>9, <2>1, ForwardType DEF ClientAdded, TypeOK, timeVars
<1>10. ASSUME NEW c \in Cell, NEW q \in Query, NEW f \in Fd, NEW p \in Port,
              RegisterFails(c, q, f, p) \/ ListAddFails(c, q, f, p)
       PROVE  TypeOK'
  <2>1. WhatRemains(NewClient(f, q)) \in Remnant
    BY DEF WhatRemains, NewClient, Remnant
  <2>2. QED
    BY <1>10, <2>1, ForwardType DEF RegisterFails, ListAddFails, TypeOK, timeVars
<1>11. ASSUME NEW f \in Fd, NEW c \in Cell, NothingToRead(f, c)
       PROVE  TypeOK'
  BY <1>11 DEF NothingToRead, TakeResponse, Take, TypeOK, timeVars, tableVars
<1>12. ASSUME NEW f \in Fd, NEW c \in Cell, ResponseDiscarded(f, c)
       PROVE  TypeOK'
  <2>1. cell[c] \in Client
    BY <1>12, AllocatedType DEF ResponseDiscarded, TakeResponse
  <2>2. Tail(rx[cell[c].fd]) \in Seq(Query \cup {Stray})
    BY <1>12, <2>1, HeadTailProperties
    DEF ResponseDiscarded, Queue, Client, TypeOK
  <2>3. rx' \in [Fd -> Seq(Query \cup {Stray})]
    BY <1>12, <2>1, <2>2 DEF ResponseDiscarded, TypeOK
  <2>4. QED
    BY <1>12, <2>3 DEF ResponseDiscarded, TakeResponse, Take, TypeOK, timeVars
<1>13. ASSUME NEW f \in Fd, NEW c \in Cell, ResponseForwarded(f, c)
       PROVE  TypeOK'
  <2>1. cell[c] \in Client /\ cell[c] # Nil
    BY <1>13, AllocatedType DEF ResponseForwarded, TakeResponse
  <2>2. Head(Queue(c)) \in Query
    BY <1>13, <2>1, HeadTailProperties
    DEF ResponseForwarded, Queue, Client, TypeOK
  <2>3. Append(answers[Requester(c)], Head(Queue(c))) \in Seq(Query)
    BY <2>1, <2>2, AppendProperties DEF Requester, Client, TypeOK
  <2>4. answers' \in [Query -> Seq(Query)]
    BY <1>13, <2>3 DEF ResponseForwarded, TypeOK
  <2>5. QED
    BY <1>13, <2>1, <2>4, DeleteClientsType
    DEF ResponseForwarded, TakeResponse, Take, TypeOK, timeVars
<1>14. ASSUME NEW f \in Fd, NEW c \in Cell, FreedGoesNowhere(f, c)
       PROVE  TypeOK'
  BY <1>14 DEF FreedGoesNowhere, TakeFreed, Take, TypeOK, timeVars
<1>15. ASSUME NEW f \in Fd, NEW c \in Cell,
              FreedDiscards(f, c) \/ FreedForwards(f, c)
       PROVE  TypeOK'
  <2> DEFINE k == remains[c]
  <2>1. FreedReads(f, c) /\ k.fd \in Fd /\ k.cli \in Query
    BY <1>15, RemnantType DEF FreedDiscards, FreedForwards, FreedReads
  <2>2. rx[k.fd] \in Seq(Query \cup {Stray}) /\ rx[k.fd] # <<>>
    BY <2>1 DEF FreedReads, TypeOK
  <2>3. /\ Tail(rx[k.fd]) \in Seq(Query \cup {Stray})
        /\ Head(rx[k.fd]) \in Query \cup {Stray}
    BY <2>2, HeadTailProperties
  <2>4. rx' \in [Fd -> Seq(Query \cup {Stray})]
    BY <2>1, <2>3 DEF FreedReads, TypeOK
  <2>5. CASE FreedDiscards(f, c)
    BY <2>1, <2>4, <2>5 DEF FreedDiscards, FreedReads, TakeFreed, Take, TypeOK, timeVars
  <2>6. CASE FreedForwards(f, c)
    <3>1. Append(answers[k.cli], Head(rx[k.fd])) \in Seq(Query)
      BY <2>1, <2>3, <2>6, AppendProperties DEF FreedForwards, TypeOK
    <3>2. answers' \in [Query -> Seq(Query)]
      BY <2>1, <2>6, <3>1 DEF FreedForwards, TypeOK
    <3>3. epoll' \in [Fd -> Cell \cup {Nil}] /\ fd_count' \in Int
      BY <2>1, <2>6 DEF FreedForwards, CountEntries, TypeOK
    <3>4. QED
      BY <2>1, <2>4, <3>2, <3>3 DEF FreedReads, TakeFreed, Take, TypeOK, timeVars
  <2>7. QED
    BY <1>15, <2>5, <2>6
<1>16. CASE UNCHANGED vars
  BY <1>16 DEF vars, TypeOK, timeVars, tableVars, netVars
<1>17. QED
  BY <1>1, <1>2, <1>3, <1>4, <1>5, <1>6, <1>7, <1>8, <1>9, <1>10, <1>11,
     <1>12, <1>13, <1>14, <1>15, <1>16
  DEF Next, Loop, ReadFromClient, HandleDnsResponse, StaleDispatch, Environment,
      Answer, StrayDatagram, Exited

-----------------------------------------------------------------------------
(* The inductive invariant, whichever calls fail.  A client is deleted with  *)
(* its socket (ClientsListed), no two blocks hold the same query, freed ones *)
(* included (ReadOnce), and the port ties every datagram to a query          *)
(* (RoutedByPort).                                                           *)

IInv ==
  /\ TypeOK
  /\ ClientsListed
  /\ ReadOnce
  /\ RoutedByPort

LEMMA InitInvariant == Init => IInv
<1> SUFFICES ASSUME Init PROVE IInv
  OBVIOUS
<1>1. <<>> \in Seq(Query) /\ <<>> \in Seq(Query \cup {Stray})
  BY EmptySeq
<1>2. clock \in Int
  BY ProxyAssumption DEF ProxyAssumption, Init, StartClocks
<1>3. TypeOK
  BY <1>1, <1>2, ProxyAssumption DEF ProxyAssumption, Init, TypeOK
<1>4. ClientsListed
  BY DEF Init, ClientsListed
<1>5. ReadOnce
  BY ProxyAssumption DEF ProxyAssumption, Init, ReadOnce, HeldBy
<1>6. RoutedByPort
  BY DEF Init, RoutedByPort
<1>7. QED
  BY <1>3, <1>4, <1>5, <1>6 DEF IInv

\* Clients have descriptors of their own, so that deleting some of them leaves
\* the sockets and the registrations of the others alone.
LEMMA ClientsApart ==
  ASSUME TypeOK, ClientsListed, NEW c \in clis, NEW d \in clis,
         cell[c].fd = cell[d].fd
  PROVE  c = d
BY DEF ClientsListed

LEMMA ClientFields ==
  ASSUME TypeOK, ClientsListed, NEW c \in clis
  PROVE  /\ c \in Cell /\ cell[c].fd \in Fd /\ cell[c].cli \in Query
         /\ HeldBy(c) = cell[c].cli
BY DEF TypeOK, ClientsListed, Client, HeldBy

\* A block holds a query or nothing.
LEMMA HeldType ==
  ASSUME TypeOK, NEW c \in Cell
  PROVE  HeldBy(c) \in Query \cup {Nil}
BY DEF TypeOK, Client, Remnant, HeldBy

LEMMA NilIsNoQuery == Nil \notin Query /\ Nil \notin Cell /\ Nil \notin Port
BY ProxyAssumption DEF ProxyAssumption

LEMMA DeleteClientsKeep ==
  ASSUME TypeOK, ClientsListed, RoutedByPort,
         NEW C \in SUBSET clis, DeleteClients(C)
  PROVE  /\ clis' = clis \ C
         /\ \A d \in clis' : cell'[d] = cell[d]
         /\ \A d \in clis' : epoll'[cell[d].fd] = epoll[cell[d].fd]
         /\ \A d \in Cell : HeldBy(d)' = HeldBy(d)
         /\ ClientsListed'
         /\ UNCHANGED portOf => RoutedByPort'
<1>1. C \cap clis = C
  OBVIOUS
<1>2. clis' = clis \ C /\ clis' \subseteq Cell
  BY <1>1 DEF DeleteClients, TypeOK
<1>3. \A d \in clis' : cell'[d] = cell[d]
  BY <1>1, <1>2 DEF DeleteClients
<1>4. \A d \in clis' : cell[d].fd \notin FdsOf(C)
  BY <1>2, ClientsApart DEF FdsOf
<1>5. \A d \in clis' : /\ bound'[cell[d].fd] = bound[cell[d].fd]
                       /\ epoll'[cell[d].fd] = epoll[cell[d].fd]
  BY <1>1, <1>2, <1>4, ClientFields DEF DeleteClients
<1>6. ClientsListed'
  <2>1. clis' = {c \in Cell : cell'[c] # Nil}
    BY <1>1, <1>2 DEF DeleteClients, ClientsListed
  <2>2. QED
    BY <1>2, <1>3, <1>5, <2>1 DEF ClientsListed
<1>7. ASSUME NEW d \in Cell
      PROVE  HeldBy(d)' = HeldBy(d)
  <2>1. CASE d \in C
    <3>1. cell[d] \in Client /\ cell[d] # Nil
      BY <2>1 DEF TypeOK, ClientsListed
    <3>2. cell'[d] = Nil /\ remains'[d] = WhatRemains(cell[d])
      BY <1>1, <2>1 DEF DeleteClients
    <3>3. WhatRemains(cell[d]) # Nil
      BY <3>1, ProxyAssumption DEF ProxyAssumption, WhatRemains, Remnant, Client
    <3>4. QED
      BY <3>1, <3>2, <3>3 DEF HeldBy, WhatRemains
  <2>2. CASE d \notin C
    BY <1>1, <2>2 DEF DeleteClients, HeldBy
  <2>3. QED
    BY <2>1, <2>2
<1>8. ASSUME UNCHANGED portOf
      PROVE  RoutedByPort'
  <2>1. \A c \in clis' : portOf'[cell'[c].cli] = bound'[cell'[c].fd]
    BY <1>2, <1>3, <1>5, <1>8 DEF RoutedByPort
  <2>2. ASSUME NEW f \in Fd
        PROVE  \/ bound'[f] = Nil /\ rx'[f] = <<>>
               \/ bound'[f] = bound[f] /\ rx'[f] = rx[f]
    BY <1>1 DEF DeleteClients
  <2>3. \A f \in Fd : bound'[f] = Nil => rx'[f] = <<>>
    BY <2>2 DEF RoutedByPort
  <2>4. \A f \in Fd : \A i \in 1..Len(rx'[f]) :
          rx'[f][i] # Stray => portOf'[rx'[f][i]] = bound'[f]
    <3> SUFFICES ASSUME NEW f \in Fd, NEW i \in 1..Len(rx'[f]),
                        rx'[f][i] # Stray
                 PROVE  portOf'[rx'[f][i]] = bound'[f]
      OBVIOUS
    <3>1. CASE rx'[f] = <<>>
      BY <3>1
    <3>2. CASE bound'[f] = bound[f] /\ rx'[f] = rx[f]
      BY <3>2, <1>8 DEF RoutedByPort
    <3>3. QED
      BY <3>1, <3>2, <2>2
  <2>5. QED
    BY <2>1, <2>3, <2>4 DEF RoutedByPort
<1>9. QED
  BY <1>2, <1>3, <1>5, <1>6, <1>7, <1>8

\* Clients may go and blocks may be forgotten: no query comes to be held twice.
LEMMA HoldingLessKeeps ==
  ASSUME IInv, UNCHANGED <<inq, unsent, portOf, answers>>,
         clis' \subseteq clis, \A d \in clis' : cell'[d] = cell[d],
         \A d \in Cell : HeldBy(d)' \in {HeldBy(d), Nil}
  PROVE  ReadOnce'
<1>1. \A d \in Cell : HeldBy(d)' \notin unsent' \cup inq'
  <2>1. Nil \notin unsent \cup inq
    BY NilIsNoQuery DEF IInv, TypeOK
  <2>2. \A d \in Cell : HeldBy(d) \notin unsent \cup inq
    BY DEF IInv, ReadOnce
  <2>3. QED
    BY <2>1, <2>2
<1>2. \A c, d \in Cell : HeldBy(c)' # Nil /\ HeldBy(c)' = HeldBy(d)' => c = d
  BY DEF IInv, ReadOnce
<1>3. \A d \in clis' : answers'[cell'[d].cli] = <<>>
  BY DEF IInv, ReadOnce
<1>4. QED
  BY <1>1, <1>2, <1>3 DEF IInv, ReadOnce

\* Deleting clients disturbs no part of the invariant.
LEMMA DeletionKeepsInvariant ==
  ASSUME IInv, TypeOK', NEW C \in SUBSET clis, DeleteClients(C),
         UNCHANGED <<inq, unsent, portOf, answers>>
  PROVE  IInv'
<1>1. /\ clis' \subseteq clis
      /\ \A d \in clis' : cell'[d] = cell[d]
      /\ \A d \in Cell : HeldBy(d)' = HeldBy(d)
      /\ ClientsListed' /\ RoutedByPort'
  BY DeleteClientsKeep DEF IInv
<1>2. ReadOnce'
  BY <1>1, HoldingLessKeeps
<1>3. QED
  BY <1>1, <1>2 DEF IInv

\* A query that has just been received was never forwarded before.
LEMMA ReceivedQueryIsFresh ==
  ASSUME IInv, NEW q \in inq
  PROVE  /\ q \in Query /\ q \notin unsent
         /\ portOf[q] = Nil /\ answers[q] = <<>>
         /\ \A d \in Cell : HeldBy(d) # q
         /\ \A d \in clis : cell[d].cli # q
         /\ \A f \in Fd : \A i \in 1..Len(rx[f]) : rx[f][i] # q
<1> USE DEF IInv
<1>1. q \in Query /\ q \notin unsent
  BY DEF TypeOK, ReadOnce
<1>2. portOf[q] = Nil /\ answers[q] = <<>> /\ \A d \in Cell : HeldBy(d) # q
  BY <1>1 DEF ReadOnce
<1>3. \A d \in clis : cell[d].cli # q
  BY <1>2, ClientFields
<1>4. ASSUME NEW f \in Fd, NEW i \in 1..Len(rx[f]), rx[f][i] = q
      PROVE  FALSE
  <2>1. q # Stray
    BY <1>1, ProxyAssumption DEF ProxyAssumption
  <2>2. bound[f] = Nil
    BY <1>2, <1>4, <2>1 DEF RoutedByPort
  <2>3. rx[f] = <<>>
    BY <2>2 DEF RoutedByPort
  <2>4. QED
    BY <2>3
<1>5. QED
  BY <1>1, <1>2, <1>3, <1>4

\* A query is received into a free block, whatever becomes of it there.
LEMMA ReceivedIsHeldOnce ==
  ASSUME IInv, TypeOK', NEW c \in Cell, cell[c] = Nil,
         NEW q \in inq, inq' = inq \ {q}, UNCHANGED <<unsent, answers>>,
         \A r \in Query : r # q => portOf'[r] = portOf[r],
         HeldBy(c)' \in {q, Nil},
         \A d \in Cell : d # c => HeldBy(d)' = HeldBy(d),
         clis' \subseteq clis \cup {c},
         \A d \in clis : cell'[d] = cell[d],
         c \in clis' => cell'[c].cli = q
  PROVE  ReadOnce'
<1> USE DEF IInv
<1>1. /\ q \in Query /\ q \notin unsent /\ answers[q] = <<>>
      /\ \A d \in Cell : HeldBy(d) # q
  BY ReceivedQueryIsFresh
<1>2. unsent' \cap inq' = {} /\ q \notin unsent' \cup inq'
  BY <1>1 DEF ReadOnce
<1>3. \A r \in unsent' \cup inq' : portOf'[r] = Nil /\ answers'[r] = <<>>
  <2>1. \A r \in unsent' \cup inq' : r \in Query /\ r # q /\ r \in unsent \cup inq
    BY <1>2 DEF TypeOK
  <2>2. QED
    BY <2>1 DEF ReadOnce
<1>4. \A d \in Cell : HeldBy(d)' \notin unsent' \cup inq'
  <2>1. Nil \notin unsent' \cup inq'
    BY NilIsNoQuery DEF TypeOK
  <2>2. QED
    BY <1>2, <2>1 DEF ReadOnce
<1>5. \A d, e \in Cell : HeldBy(d)' # Nil /\ HeldBy(d)' = HeldBy(e)' => d = e
  BY <1>1 DEF ReadOnce
<1>6. \A d \in clis' : answers'[cell'[d].cli] = <<>>
  BY <1>1 DEF ReadOnce
<1>7. QED
  BY <1>2, <1>3, <1>4, <1>5, <1>6 DEF ReadOnce

\* What forwarding does to the sockets, whatever becomes of the client.
LEMMA ForwardKeeps ==
  ASSUME IInv, NEW c \in Cell, NEW q \in Query, NEW f \in Fd, NEW p \in Port,
         Forward(c, q, f, p)
  PROVE  /\ cell[c] = Nil /\ c \notin clis /\ q \in inq /\ inq' = inq \ {q}
         /\ bound[f] = Nil /\ UNCHANGED <<unsent, answers>>
         /\ \A r \in Query : r # q => portOf'[r] = portOf[r]
         /\ portOf'[q] = p /\ bound'[f] = p /\ p # Nil
         /\ \A g \in Fd : g # f => bound'[g] = bound[g] /\ rx'[g] = rx[g]
         /\ \A d \in clis : cell[d].fd # f /\ cell[d].cli # q
         /\ \A g \in Fd : bound'[g] = Nil => rx'[g] = <<>>
         /\ \A g \in Fd : \A i \in 1..Len(rx'[g]) :
              rx'[g][i] # Stray => portOf'[rx'[g][i]] = bound'[g]
<1> USE DEF IInv
<1>1. /\ q \in inq /\ inq' = inq \ {q} /\ bound[f] = Nil /\ cell[c] = Nil
      /\ UNCHANGED <<unsent, answers>>
  BY DEF Forward, Receive
<1>2. /\ \A d \in clis : cell[d].cli # q
      /\ \A g \in Fd : \A i \in 1..Len(rx[g]) : rx[g][i] # q
  BY <1>1, ReceivedQueryIsFresh
<1>3. /\ \A r \in Query : r # q => portOf'[r] = portOf[r]
      /\ portOf'[q] = p /\ bound'[f] = p
      /\ \A g \in Fd : g # f => bound'[g] = bound[g] /\ rx'[g] = rx[g]
      /\ rx'[f] = <<>>
  BY DEF Forward, TypeOK
<1>4. p # Nil
  BY NilIsNoQuery
<1>5. c \notin clis /\ \A d \in clis : cell[d].fd # f
  BY <1>1 DEF ClientsListed
<1>6. \A g \in Fd : bound'[g] = Nil => rx'[g] = <<>>
  BY <1>3, <1>4 DEF RoutedByPort
<1>7. \A g \in Fd : \A i \in 1..Len(rx'[g]) :
        rx'[g][i] # Stray => portOf'[rx'[g][i]] = bound'[g]
  <2> SUFFICES ASSUME NEW g \in Fd, NEW i \in 1..Len(rx'[g]), rx'[g][i] # Stray
               PROVE  portOf'[rx'[g][i]] = bound'[g]
    OBVIOUS
  <2>1. g # f /\ rx'[g] = rx[g]
    BY <1>3
  <2>2. rx[g][i] # q /\ rx[g][i] \in Query
    BY <1>2, <2>1, ElementOfSeq DEF TypeOK
  <2>3. QED
    BY <1>3, <2>1, <2>2 DEF RoutedByPort
<1>8. QED
  BY <1>1, <1>2, <1>3, <1>4, <1>5, <1>6, <1>7

\* Steps that touch neither the tables nor the queries.
LEMMA UntouchedKeeps ==
  ASSUME IInv, TypeOK', UNCHANGED <<tableVars, netVars>>
  PROVE  IInv'
BY DEF IInv, ClientsListed, ReadOnce, HeldBy, RoutedByPort, tableVars, netVars

LEMMA SendQueryKeeps ==
  ASSUME IInv, TypeOK', NEW q \in Query, SendQuery(q)
  PROVE  IInv'
<1>1. q \in unsent /\ unsent' = unsent \ {q} /\ inq' = inq \cup {q}
      /\ UNCHANGED <<tableVars, portOf, answers>>
  BY DEF SendQuery
<1>2. unsent' \cup inq' = unsent \cup inq /\ unsent' \cap inq' = {}
  BY <1>1 DEF IInv, ReadOnce
<1>3. \A d \in Cell : HeldBy(d)' = HeldBy(d)
  BY <1>1 DEF HeldBy, tableVars
<1>4. ReadOnce'
  BY <1>1, <1>2, <1>3 DEF IInv, ReadOnce, tableVars
<1>5. QED
  BY <1>1, <1>4 DEF IInv, ClientsListed, RoutedByPort, tableVars

\* Steps that change only receive queues.
LEMMA QueuesKeep ==
  ASSUME IInv, TypeOK', UNCHANGED <<cell, remains, clis, bound, portOf>>,
         UNCHANGED <<inq, unsent, answers>>, UNCHANGED epoll, RoutedByPort'
  PROVE  IInv'
BY DEF IInv, ClientsListed, ReadOnce, HeldBy

\* A datagram joins a queue it may lie in: only RoutedByPort looks at rx.
LEMMA DeliverKeeps ==
  ASSUME IInv, TypeOK', NEW f \in Fd, NEW d \in Query \cup {Stray},
         Deliver(f, d), d = Stray \/ portOf[d] = bound[f]
  PROVE  IInv'
<1> USE DEF IInv
<1>1. /\ bound[f] # Nil
      /\ rx' = [rx EXCEPT ![f] = Append(@, d)]
      /\ UNCHANGED <<cell, remains, clis, bound, epoll, netVars>>
  BY DEF Deliver
<1>2. RoutedByPort'
  <2>1. \A g \in Fd : bound'[g] = Nil => rx'[g] = <<>>
    BY <1>1 DEF RoutedByPort, TypeOK
  <2>2. ASSUME NEW g \in Fd, NEW i \in 1..Len(rx'[g]), rx'[g][i] # Stray
        PROVE  portOf'[rx'[g][i]] = bound'[g]
    <3>1. CASE g # f
      BY <1>1, <2>2, <3>1 DEF RoutedByPort, TypeOK, netVars
    <3>2. CASE g = f
      <4>1. /\ rx'[f] = Append(rx[f], d)
            /\ Len(rx'[f]) = Len(rx[f]) + 1
            /\ rx'[f][Len(rx[f]) + 1] = d
            /\ \A j \in 1..Len(rx[f]) : rx'[f][j] = rx[f][j]
        BY <1>1, AppendProperties DEF TypeOK
      <4>2. CASE i \in 1..Len(rx[f])
        BY <1>1, <2>2, <3>2, <4>1, <4>2 DEF RoutedByPort, netVars
      <4>3. CASE i = Len(rx[f]) + 1
        BY <1>1, <2>2, <3>2, <4>1, <4>3 DEF netVars
      <4>4. Len(rx[f]) \in Nat
        BY LenProperties DEF TypeOK
      <4>5. QED
        BY <2>2, <3>2, <4>1, <4>2, <4>3, <4>4
    <3>3. QED
      BY <3>1, <3>2
  <2>3. QED
    BY <1>1, <2>1, <2>2 DEF RoutedByPort, netVars
<1>3. QED
  BY <1>1, <1>2, QueuesKeep DEF netVars

\* The first datagram of a queue is read, through whichever block.
LEMMA ReadingKeepsRoutes ==
  ASSUME TypeOK, RoutedByPort, NEW g \in Fd, rx[g] # <<>>,
         rx' = [rx EXCEPT ![g] = Tail(@)],
         UNCHANGED <<cell, clis, bound, portOf>>
  PROVE  RoutedByPort'
<1>1. rx[g] \in Seq(Query \cup {Stray}) /\ bound[g] # Nil
  BY DEF TypeOK, RoutedByPort
<1>2. /\ Len(Tail(rx[g])) = Len(rx[g]) - 1 /\ Len(rx[g]) \in Nat
      /\ \A i \in 1..Len(Tail(rx[g])) : Tail(rx[g])[i] = rx[g][i + 1]
  BY <1>1, HeadTailProperties, LenProperties
<1>3. \A h \in Fd : bound'[h] = Nil => rx'[h] = <<>>
  BY <1>1 DEF RoutedByPort, TypeOK
<1>4. ASSUME NEW h \in Fd, NEW i \in 1..Len(rx'[h]), rx'[h][i] # Stray
      PROVE  portOf'[rx'[h][i]] = bound'[h]
  <2>1. CASE h # g
    BY <1>4, <2>1 DEF RoutedByPort, TypeOK
  <2>2. CASE h = g
    <3>1. rx'[h] = Tail(rx[g])
      BY <2>2 DEF TypeOK
    <3>2. i \in 1..Len(Tail(rx[g])) /\ rx'[h][i] = rx[g][i + 1]
      BY <1>2, <1>4, <3>1
    <3>3. i + 1 \in 1..Len(rx[g])
      BY <1>2, <3>2
    <3>4. QED
      BY <1>4, <2>2, <3>2, <3>3 DEF RoutedByPort
  <2>3. QED
    BY <2>1, <2>2
<1>5. QED
  BY <1>3, <1>4 DEF RoutedByPort

\* What is read is an answer to a query that left from the socket's port.
LEMMA ReadIsRouted ==
  ASSUME IInv, NEW g \in Fd, rx[g] # <<>>, Head(rx[g]) # Stray
  PROVE  /\ Head(rx[g]) \in Query
         /\ portOf[Head(rx[g])] = bound[g] /\ bound[g] # Nil
         /\ Head(rx[g]) \notin unsent \cup inq
<1>1. rx[g] \in Seq(Query \cup {Stray})
  BY DEF IInv, TypeOK
<1>2. Head(rx[g]) = rx[g][1] /\ 1 \in 1..Len(rx[g]) /\ Head(rx[g]) \in Query
  BY <1>1, HeadTailProperties, EmptySeq
<1>3. portOf[Head(rx[g])] = bound[g] /\ bound[g] # Nil
  BY <1>2 DEF IInv, RoutedByPort
<1>4. QED
  BY <1>2, <1>3 DEF IInv, ReadOnce

LEMMA ClientAddedKeeps ==
  ASSUME IInv, TypeOK', NEW c \in Cell, NEW q \in Query, NEW f \in Fd,
         NEW p \in Port, ClientAdded(c, q, f, p)
  PROVE  IInv'
<1> USE DEF IInv
<1>1. /\ Forward(c, q, f, p)
      /\ epoll' = [epoll EXCEPT ![f] = c]
      /\ cell' = [cell EXCEPT ![c] = NewClient(f, q)]
      /\ remains' = [remains EXCEPT ![c] = Nil]
      /\ clis' = clis \cup {c}
  BY DEF ClientAdded
<1>2. cell[c] = Nil /\ c \notin clis /\ q \in inq /\ answers' = answers
  BY <1>1, ForwardKeeps
<1>3. NewClient(f, q) # Nil
      /\ NewClient(f, q).fd = f /\ NewClient(f, q).cli = q
  BY ProxyAssumption DEF ProxyAssumption, NewClient, Client, TypeOK
<1>4. \A d \in clis : cell'[d] = cell[d] /\ cell[d].fd # f /\ cell[d].cli # q
  BY <1>1, <1>2, ForwardKeeps DEF TypeOK
<1>5. cell'[c] = NewClient(f, q) /\ epoll'[f] = c
  BY <1>1 DEF TypeOK
<1>6. ClientsListed'
  <2>1. clis' = {d \in Cell : cell'[d] # Nil}
    BY <1>1, <1>3 DEF ClientsListed, TypeOK
  <2>2. bound'[f] # Nil /\ epoll'[f] = c
    BY <1>1, <1>5, ForwardKeeps
  <2>3. \A d \in clis :
          bound'[cell[d].fd] # Nil /\ epoll'[cell[d].fd] \in {d, Nil}
    BY <1>1, <1>4, ClientFields, ForwardKeeps DEF ClientsListed, TypeOK
  <2>4. \A d, e \in clis' : cell'[d].fd = cell'[e].fd => d = e
    BY <1>1, <1>3, <1>4, <1>5 DEF ClientsListed
  <2>5. QED
    BY <1>1, <1>3, <1>4, <1>5, <2>1, <2>2, <2>3, <2>4 DEF ClientsListed
<1>7. ReadOnce'
  <2>1. HeldBy(c)' = q
    BY <1>3, <1>5 DEF HeldBy
  <2>2. \A d \in Cell : d # c => HeldBy(d)' = HeldBy(d)
    BY <1>1 DEF HeldBy, TypeOK
  <2>3. QED
    BY <1>1, <1>3, <1>4, <1>5, <2>1, <2>2, ForwardKeeps, ReceivedIsHeldOnce
<1>8. RoutedByPort'
  <2>1. portOf'[q] = bound'[f]
    BY <1>1, ForwardKeeps
  <2>2. \A d \in clis : portOf'[cell[d].cli] = bound'[cell[d].fd]
    BY <1>1, <1>4, ClientFields, ForwardKeeps DEF RoutedByPort
  <2>3. QED
    BY <1>1, <1>3, <1>4, <1>5, <2>1, <2>2, ForwardKeeps DEF RoutedByPort
<1>9. QED
  BY <1>6, <1>7, <1>8

\* The query is on its way but no client waits for its answer.
LEMMA OrphanKeeps ==
  ASSUME IInv, TypeOK', NEW c \in Cell, NEW q \in Query, NEW f \in Fd,
         NEW p \in Port, RegisterFails(c, q, f, p) \/ ListAddFails(c, q, f, p)
  PROVE  IInv'
<1> USE DEF IInv
<1>1. /\ Forward(c, q, f, p)
      /\ remains' = [remains EXCEPT ![c] = WhatRemains(NewClient(f, q))]
      /\ UNCHANGED <<cell, clis>>
      /\ \A g \in Fd : g # f => epoll'[g] = epoll[g]
  BY DEF RegisterFails, ListAddFails, TypeOK
<1>2. ClientsListed'
  BY <1>1, ClientFields, ForwardKeeps DEF ClientsListed
<1>3. ReadOnce'
  <2>1. remains'[c] = [fd |-> f, cli |-> q] /\ [fd |-> f, cli |-> q] # Nil
    BY <1>1, ProxyAssumption
    DEF ProxyAssumption, Remnant, WhatRemains, NewClient, TypeOK
  <2>2. HeldBy(c)' = q
    BY <1>1, <2>1, ForwardKeeps DEF HeldBy
  <2>3. \A d \in Cell : d # c => HeldBy(d)' = HeldBy(d)
    BY <1>1 DEF HeldBy, TypeOK
  <2>4. c \notin clis'
    BY <1>1, ForwardKeeps
  <2>5. QED
    BY <1>1, <2>2, <2>3, <2>4, ForwardKeeps, ReceivedIsHeldOnce
<1>4. RoutedByPort'
  BY <1>1, ClientFields, ForwardKeeps DEF RoutedByPort
<1>5. QED
  BY <1>2, <1>3, <1>4

\* The query is lost, and its requester left in a block that is free again.
LEMMA DroppedKeeps ==
  ASSUME IInv, TypeOK', NEW c \in Cell, NEW q \in Query, QueryDropped(c, q)
  PROVE  IInv'
<1> USE DEF IInv
<1>1. /\ q \in inq /\ inq' = inq \ {q} /\ cell[c] = Nil /\ c \notin clis
      /\ UNCHANGED <<unsent, answers, portOf, cell, clis, bound, rx, epoll>>
  BY DEF QueryDropped, Receive, ClientsListed
<1>2. HeldBy(c)' \in {q, Nil} /\ \A d \in Cell : d # c => HeldBy(d)' = HeldBy(d)
  <2>1. CASE remains[c] = Nil
    BY <1>1, <2>1 DEF QueryDropped, HeldBy
  <2>2. CASE remains[c] # Nil
    <3>1. remains' = [remains EXCEPT ![c] = [fd |-> remains[c].fd, cli |-> q]]
      BY <2>2 DEF QueryDropped
    <3>2. QED
      BY <1>1, <3>1 DEF HeldBy, TypeOK
  <2>3. QED
    BY <2>1, <2>2
<1>3. ReadOnce'
  BY <1>1, <1>2, ReceivedIsHeldOnce
<1>4. ClientsListed' /\ RoutedByPort'
  BY <1>1 DEF ClientsListed, RoutedByPort
<1>5. QED
  BY <1>3, <1>4

\* epoll_wait forgets what no registered block holds.
LEMMA WaitKeeps ==
  ASSUME IInv, TypeOK', EpollWait
  PROVE  IInv'
<1>1. /\ UNCHANGED <<cell, clis, bound, rx, epoll, netVars>>
      /\ \A d \in Cell : remains'[d] \in {remains[d], Nil}
  BY DEF EpollWait
<1>2. \A d \in Cell : HeldBy(d)' \in {HeldBy(d), Nil}
  BY <1>1 DEF HeldBy
<1>3. ReadOnce'
  BY <1>1, <1>2, HoldingLessKeeps DEF netVars
<1>4. QED
  BY <1>1, <1>3 DEF IInv, ClientsListed, RoutedByPort, netVars

\* The answer goes out to the requester some block holds.
LEMMA AnsweringKeepsQueries ==
  ASSUME IInv, NEW c \in Cell, NEW r \in Query, HeldBy(c) = r,
         \A s \in Query : s # r => answers'[s] = answers[s],
         UNCHANGED <<inq, unsent, portOf>>,
         c \notin clis', clis' \subseteq clis,
         \A d \in clis' : cell'[d] = cell[d],
         \A d \in Cell : HeldBy(d)' = HeldBy(d)
  PROVE  ReadOnce'
<1> USE DEF IInv
<1>1. r \notin unsent \cup inq
  BY DEF ReadOnce
<1>2. \A s \in unsent' \cup inq' : portOf'[s] = Nil /\ answers'[s] = <<>>
  BY <1>1 DEF ReadOnce, TypeOK
<1>3. \A d \in clis' : answers'[cell'[d].cli] = <<>>
  <2> SUFFICES ASSUME NEW d \in clis'
               PROVE  answers'[cell'[d].cli] = <<>>
    OBVIOUS
  <2>1. d \in clis /\ d \in Cell /\ d # c /\ cell'[d] = cell[d]
    BY ClientFields
  <2>2. HeldBy(d) = cell[d].cli /\ cell[d].cli \in Query
    BY <2>1, ClientFields
  <2>3. cell[d].cli # r
    BY <2>1, <2>2, NilIsNoQuery DEF ReadOnce
  <2>4. QED
    BY <2>1, <2>2, <2>3 DEF ReadOnce
<1>4. QED
  BY <1>2, <1>3 DEF ReadOnce

\* What an answered client's step does.
LEMMA ResponseForwardedDoes ==
  ASSUME IInv, NEW f \in Fd, NEW c \in Cell, ResponseForwarded(f, c)
  PROVE  LET g == cell[c].fd
             r == cell[c].cli
             a == Head(rx[g])
         IN  /\ c \in clis /\ g \in Fd /\ r \in Query /\ a \in Query
             /\ rx[g] # <<>> /\ a # Stray
             /\ answers[r] = <<>>
             /\ answers' = [answers EXCEPT ![r] = Append(@, a)]
             /\ DeleteClients({c})
             /\ UNCHANGED <<inq, unsent, portOf, phase>>
             /\ <<f, c>> \in batch /\ batch' = batch \ {<<f, c>>}
             /\ portOf[a] = portOf[r]
<1> DEFINE g == cell[c].fd
           r == cell[c].cli
           a == Head(rx[g])
<1>1. /\ c \in clis /\ rx[g] # <<>> /\ a # Stray
      /\ answers' = [answers EXCEPT ![r] = Append(@, a)]
      /\ DeleteClients({c})
      /\ UNCHANGED <<inq, unsent, portOf, phase>>
      /\ <<f, c>> \in batch /\ batch' = batch \ {<<f, c>>}
  BY DEF ResponseForwarded, TakeResponse, Take, Queue, Requester, IInv, ClientsListed
<1>2. g \in Fd /\ r \in Query
  BY <1>1, ClientFields DEF IInv
<1> HIDE DEF g, r, a
<1>3. a \in Query /\ portOf[a] = bound[g]
  BY <1>1, <1>2, ReadIsRouted DEF a
<1>4. portOf[r] = bound[g] /\ answers[r] = <<>>
  BY <1>1 DEF IInv, RoutedByPort, ReadOnce, g, r
<1> USE DEF g, r, a
<1>5. QED
  BY <1>1, <1>2, <1>3, <1>4

LEMMA ResponseForwardedKeeps ==
  ASSUME IInv, TypeOK', NEW f \in Fd, NEW c \in Cell, ResponseForwarded(f, c)
  PROVE  IInv'
<1>1. /\ c \in clis /\ cell[c].cli \in Query
      /\ \A s \in Query : s # cell[c].cli => answers'[s] = answers[s]
      /\ DeleteClients({c})
      /\ UNCHANGED <<inq, unsent, portOf>>
  BY ResponseForwardedDoes DEF IInv, TypeOK
<1>2. /\ clis' = clis \ {c}
      /\ \A d \in clis' : cell'[d] = cell[d]
      /\ \A d \in Cell : HeldBy(d)' = HeldBy(d)
      /\ ClientsListed' /\ RoutedByPort'
  BY <1>1, DeleteClientsKeep DEF IInv
<1>3. HeldBy(c) = cell[c].cli
  BY <1>1, ClientFields DEF IInv
<1>4. ReadOnce'
  BY <1>1, <1>2, <1>3, AnsweringKeepsQueries
<1>5. QED
  BY <1>2, <1>4 DEF IInv

\* What a call through a freed block does when it finds a datagram.
LEMMA FreedReadsDoes ==
  ASSUME IInv, NEW f \in Fd, NEW c \in Cell, FreedReads(f, c)
  PROVE  /\ cell[c] = Nil /\ remains[c] # Nil /\ c \notin clis
         /\ remains[c].fd \in Fd /\ remains[c].cli \in Query
         /\ HeldBy(c) = remains[c].cli
         /\ rx[remains[c].fd] # <<>>
         /\ UNCHANGED <<cell, remains, clis, bound, inq, unsent, portOf, phase>>
         /\ phase = "serve" /\ <<f, c>> \in batch /\ batch' = batch \ {<<f, c>>}
         /\ \A d \in Cell : HeldBy(d)' = HeldBy(d)
         /\ RoutedByPort'
<1>1. /\ cell[c] = Nil /\ remains[c] # Nil /\ rx[remains[c].fd] # <<>>
      /\ UNCHANGED <<cell, remains, clis, bound, inq, unsent, portOf, phase>>
      /\ phase = "serve" /\ <<f, c>> \in batch /\ batch' = batch \ {<<f, c>>}
      /\ rx' = [rx EXCEPT ![remains[c].fd] = Tail(@)]
  BY DEF FreedReads, TakeFreed, Take
<1>2. remains[c].fd \in Fd /\ remains[c].cli \in Query
  BY <1>1, RemnantType DEF IInv
<1>3. HeldBy(c) = remains[c].cli /\ c \notin clis
  BY <1>1 DEF HeldBy, IInv, ClientsListed
<1>4. RoutedByPort'
  BY <1>1, <1>2, ReadingKeepsRoutes DEF IInv
<1>5. \A d \in Cell : HeldBy(d)' = HeldBy(d)
  BY <1>1 DEF HeldBy
<1>6. QED
  BY <1>1, <1>2, <1>3, <1>4, <1>5

LEMMA FreedKeeps ==
  ASSUME IInv, TypeOK', NEW f \in Fd, NEW c \in Cell, StaleDispatch(f, c)
  PROVE  IInv'
<1>1. CASE FreedGoesNowhere(f, c)
  BY <1>1, UntouchedKeeps
  DEF FreedGoesNowhere, TakeFreed, tableVars, netVars
<1>2. CASE FreedDiscards(f, c)
  <2>1. FreedReads(f, c) /\ UNCHANGED <<epoll, answers>>
    BY <1>2 DEF FreedDiscards
  <2>2. QED
    BY <2>1, FreedReadsDoes, QueuesKeep
<1>3. CASE FreedForwards(f, c)
  <2>1. /\ FreedReads(f, c)
        /\ epoll' = [epoll EXCEPT ![remains[c].fd] = Nil]
        /\ answers' = [answers EXCEPT ![remains[c].cli] =
                        Append(@, Head(rx[remains[c].fd]))]
    BY <1>3 DEF FreedForwards
  <2>2. \A s \in Query : s # remains[c].cli => answers'[s] = answers[s]
    BY <2>1 DEF IInv, TypeOK
  <2>3. ReadOnce'
    BY <2>1, <2>2, FreedReadsDoes, AnsweringKeepsQueries
  <2>4. ClientsListed'
    <3>1. \A g \in Fd : epoll'[g] \in {epoll[g], Nil}
      BY <2>1 DEF IInv, TypeOK
    <3>2. UNCHANGED <<cell, clis, bound>>
      BY <2>1, FreedReadsDoes
    <3>3. \A d \in clis : epoll'[cell[d].fd] \in {d, Nil}
      BY <3>1, ClientFields DEF IInv, ClientsListed
    <3>4. QED
      BY <3>2, <3>3 DEF IInv, ClientsListed
  <2>5. QED
    BY <2>1, <2>3, <2>4, FreedReadsDoes DEF IInv
<1>4. QED
  BY <1>1, <1>2, <1>3 DEF StaleDispatch

LEMMA DiscardKeeps ==
  ASSUME IInv, TypeOK', NEW f \in Fd, NEW c \in Cell, ResponseDiscarded(f, c)
  PROVE  IInv'
<1>1. /\ c \in clis /\ rx[cell[c].fd] # <<>>
      /\ rx' = [rx EXCEPT ![cell[c].fd] = Tail(@)]
      /\ UNCHANGED <<cell, remains, clis, bound, epoll, inq, unsent, portOf, answers>>
  BY DEF ResponseDiscarded, TakeResponse, Queue, IInv, ClientsListed
<1>2. cell[c].fd \in Fd
  BY <1>1, ClientFields DEF IInv
<1>3. RoutedByPort'
  BY <1>1, <1>2, ReadingKeepsRoutes DEF IInv
<1>4. QED
  BY <1>1, <1>3, QueuesKeep

LEMMA InvariantStep == IInv /\ [Next]_vars => IInv'
<1> SUFFICES ASSUME IInv, [Next]_vars
             PROVE  IInv'
  OBVIOUS
<1>0. TypeOK'
  BY TypeStep DEF IInv
<1>1. ASSUME NEW q \in Query, SendQuery(q)
      PROVE  IInv'
  BY <1>0, <1>1, SendQueryKeeps
<1>2. ASSUME NEW q \in Query, NEW f \in Fd, Answer(q, f)
      PROVE  IInv'
  BY <1>0, <1>2, DeliverKeeps DEF Answer
<1>3. ASSUME NEW f \in Fd, StrayDatagram(f)
      PROVE  IInv'
  BY <1>0, <1>3, DeliverKeeps DEF StrayDatagram
<1>4. CASE TimePasses \/ \E b \in BackSteps : ClockSetBack(b)
  BY <1>0, <1>4, UntouchedKeeps DEF TimePasses, ClockSetBack
<1>5. CASE EpollWait
  BY <1>0, <1>5, WaitKeeps
<1>6. CASE Tick
  <2>1. CASE UNCHANGED tableVars
    BY <1>0, <1>6, <2>1, UntouchedKeeps DEF Tick
  <2>2. CASE DeleteClients(Selected(clock'))
    <3>1. Selected(clock') \in SUBSET clis
      BY DEF Selected
    <3>2. QED
      BY <1>0, <1>6, <2>2, <3>1, DeletionKeepsInvariant DEF Tick, netVars
  <2>3. QED
    BY <1>6, <2>1, <2>2 DEF Tick, SrvCron, CheckTimeout
<1>7. CASE ReadFails
  BY <1>0, <1>7, UntouchedKeeps DEF ReadFails
<1>8. ASSUME NEW c \in Cell, NEW q \in Query, QueryDropped(c, q)
      PROVE  IInv'
  BY <1>0, <1>8, DroppedKeeps
<1>9. ASSUME NEW c \in Cell, NEW q \in Query, NEW f \in Fd, NEW p \in Port,
             \/ ClientAdded(c, q, f, p)
             \/ RegisterFails(c, q, f, p)
             \/ ListAddFails(c, q, f, p)
      PROVE  IInv'
  BY <1>0, <1>9, ClientAddedKeeps, OrphanKeeps
<1>10. ASSUME NEW f \in Fd, NEW c \in Cell, NothingToRead(f, c)
       PROVE  IInv'
  BY <1>0, <1>10, UntouchedKeeps DEF NothingToRead, TakeResponse, netVars
<1>11. ASSUME NEW f \in Fd, NEW c \in Cell, ResponseDiscarded(f, c)
       PROVE  IInv'
  BY <1>0, <1>11, DiscardKeeps
<1>12. ASSUME NEW f \in Fd, NEW c \in Cell, ResponseForwarded(f, c)
       PROVE  IInv'
  BY <1>0, <1>12, ResponseForwardedKeeps
<1>13. ASSUME NEW f \in Fd, NEW c \in Cell, StaleDispatch(f, c)
       PROVE  IInv'
  BY <1>0, <1>13, FreedKeeps
<1>14. CASE UNCHANGED vars
  BY <1>0, <1>14, UntouchedKeeps DEF vars
<1>15. QED
  BY <1>1, <1>2, <1>3, <1>4, <1>5, <1>6, <1>7, <1>8, <1>9, <1>10, <1>11,
     <1>12, <1>13, <1>14
  DEF Next, Loop, ReadFromClient, HandleDnsResponse, Environment, Exited

\* The inductive invariant holds of the proxy in every state it can reach.
THEOREM InvariantHolds == Spec => []IInv
BY InitInvariant, InvariantStep, PTL DEF Spec

\* Every step of the event loop, the handlers and the cron keeps the variables
\* within their types (event.c, net.c, srv.c).
THEOREM TypeCorrect == Spec => []TypeOK
BY InvariantHolds, PTL DEF IInv

\* Queries are neither duplicated nor mixed up on their way through the proxy,
\* whichever calls fail and whatever is called through freed blocks (net.c:
\* read_from_client, handle_dns_response).
THEOREM QueriesAlwaysAccounted == Spec => []QueriesAccounted
<1>1. IInv => QueriesAccounted
  BY DEF IInv, QueriesAccounted
<1>2. QED
  BY <1>1, InvariantHolds, PTL

-----------------------------------------------------------------------------
(* What the steps do to the clients and their sockets.                       *)

LEMMA FreedIsServed ==
  ASSUME NEW f \in Fd, NEW c \in Cell, StaleDispatch(f, c)
  PROVE  ServesFreed
<1>1. /\ phase = "serve" /\ <<f, c>> \in batch /\ <<f, c>> \notin batch'
      /\ cell[c] = Nil
  BY DEF StaleDispatch, FreedGoesNowhere, FreedDiscards, FreedForwards,
         FreedReads, TakeFreed, Take
<1>2. QED
  BY <1>1 DEF ServesFreed

\* Only these steps change a table, or send an answer.
LEMMA StepKinds ==
  ASSUME IInv, [Next]_vars
  PROVE  \/ UNCHANGED <<cell, clis, bound, epoll, fd_count, portOf, answers>>
         \/ /\ phase = "tick"
            /\ \E C \in SUBSET clis : DeleteClients(C)
            /\ UNCHANGED <<inq, unsent, portOf, answers>>
         \/ \E c \in Cell, q \in Query, f \in Fd, p \in Port :
              \/ ClientAdded(c, q, f, p)
              \/ RegisterFails(c, q, f, p)
              \/ ListAddFails(c, q, f, p)
         \/ \E f \in Fd, c \in Cell : ResponseForwarded(f, c)
         \/ \E f \in Fd, c \in Cell : FreedForwards(f, c)
<1> DEFINE Kept ==
      UNCHANGED <<cell, clis, bound, epoll, fd_count, portOf, answers>>
<1>1. CASE Tick
  <2>1. CASE UNCHANGED tableVars
    BY <1>1, <2>1 DEF Tick, tableVars, netVars
  <2>2. CASE DeleteClients(Selected(clock'))
    <3>1. Selected(clock') \in SUBSET clis
      BY DEF Selected
    <3>2. QED
      BY <1>1, <2>2, <3>1 DEF Tick, netVars
  <2>3. QED
    BY <1>1, <2>1, <2>2 DEF Tick, SrvCron, CheckTimeout
<1>2. CASE Environment \/ EpollWait \/ ReadFails \/ UNCHANGED vars
  <2>1. Kept
    BY <1>2 DEF Environment, SendQuery, Answer, StrayDatagram, Deliver,
       TimePasses, ClockSetBack, EpollWait, ReadFails, vars, tableVars, netVars
  <2>2. QED
    BY <2>1
<1>3. ASSUME NEW c \in Cell, NEW q \in Query, QueryDropped(c, q)
      PROVE  Kept
  BY <1>3 DEF QueryDropped, Receive
<1>4. ASSUME NEW f \in Fd, NEW c \in Cell,
             \/ NothingToRead(f, c) \/ ResponseDiscarded(f, c)
             \/ FreedGoesNowhere(f, c) \/ FreedDiscards(f, c)
      PROVE  Kept
  BY <1>4 DEF NothingToRead, ResponseDiscarded, TakeResponse, tableVars,
     FreedGoesNowhere, FreedDiscards, FreedReads, TakeFreed
<1>5. QED
  BY <1>1, <1>2, <1>3, <1>4 DEF Next, Loop, ReadFromClient, HandleDnsResponse,
     StaleDispatch, Exited

\* The tables after the last three kinds of step.
LEMMA AddingDoes ==
  ASSUME IInv, NEW c \in Cell, NEW q \in Query, NEW f \in Fd, NEW p \in Port,
         \/ ClientAdded(c, q, f, p)
         \/ RegisterFails(c, q, f, p)
         \/ ListAddFails(c, q, f, p)
  PROVE  /\ bound[f] = Nil /\ bound' = [bound EXCEPT ![f] = p] /\ p # Nil
         /\ fd_count' = fd_count + 1
         /\ UNCHANGED answers
         /\ \A d \in clis : cell'[d] = cell[d] /\ cell[d].fd # f
         /\ \A d \in clis : epoll'[cell[d].fd] = epoll[cell[d].fd]
         /\ <<Listen, Listen>> \in batch \ batch'
<1>1. Forward(c, q, f, p)
  BY DEF ClientAdded, RegisterFails, ListAddFails
<1>2. /\ bound' = [bound EXCEPT ![f] = p] /\ fd_count' = fd_count + 1
      /\ <<Listen, Listen>> \in batch \ batch'
  BY <1>1 DEF Forward, CountEntries, Receive, TakeListen, Take
<1>3. \A d \in clis : cell'[d] = cell[d] /\ d # c
  BY <1>1, ForwardKeeps DEF ClientAdded, RegisterFails, ListAddFails, IInv, TypeOK
<1>4. \A d \in clis : epoll'[cell[d].fd] = epoll[cell[d].fd]
  BY <1>1, ForwardKeeps, ClientFields
  DEF ClientAdded, RegisterFails, ListAddFails, IInv, TypeOK
<1>5. QED
  BY <1>1, <1>2, <1>3, <1>4, ForwardKeeps

LEMMA FreedForwardsDoes ==
  ASSUME IInv, NEW f \in Fd, NEW c \in Cell, FreedForwards(f, c)
  PROVE  /\ ServesFreed
         /\ UNCHANGED <<cell, clis, bound>>
         /\ fd_count' = fd_count - 1
<1>1. FreedReads(f, c) /\ fd_count' = fd_count + (-1)
  BY DEF FreedForwards, CountEntries
<1>2. fd_count' = fd_count - 1
  BY <1>1 DEF IInv, TypeOK
<1>3. QED
  BY <1>1, <1>2, FreedReadsDoes, FreedIsServed DEF StaleDispatch

-----------------------------------------------------------------------------
(* Clients are served until they are deleted.                                *)

LEMMA ServedStep ==
  ASSUME IInv, [Next]_vars, NEW c \in clis',
         c \notin clis \/ epoll[cell[c].fd] = c, ~ServesFreed
  PROVE  epoll'[cell'[c].fd] = c
<1> USE DEF IInv
<1>1. CASE UNCHANGED <<cell, clis, epoll>>
  BY <1>1
<1>2. ASSUME NEW C \in SUBSET clis, DeleteClients(C)
      PROVE  epoll'[cell'[c].fd] = c
  BY <1>2, DeleteClientsKeep
<1>3. ASSUME NEW d \in Cell, NEW q \in Query, NEW f \in Fd, NEW p \in Port,
             \/ ClientAdded(d, q, f, p)
             \/ RegisterFails(d, q, f, p)
             \/ ListAddFails(d, q, f, p)
      PROVE  epoll'[cell'[c].fd] = c
  <2>1. CASE c \in clis
    BY <1>3, <2>1, AddingDoes
  <2>2. CASE c \notin clis
    <3>1. ClientAdded(d, q, f, p) /\ c = d
      BY <1>3, <2>2 DEF ClientAdded, RegisterFails, ListAddFails
    <3>2. QED
      BY <3>1 DEF ClientAdded, NewClient, TypeOK
  <2>3. QED
    BY <2>1, <2>2
<1>4. ASSUME NEW f \in Fd, NEW d \in Cell, ResponseForwarded(f, d)
      PROVE  epoll'[cell'[c].fd] = c
  BY <1>2, <1>4, ResponseForwardedDoes
<1>5. ASSUME NEW f \in Fd, NEW d \in Cell, FreedForwards(f, d)
      PROVE  FALSE
  BY <1>5, FreedForwardsDoes
<1>6. QED
  BY <1>1, <1>2, <1>3, <1>4, <1>5, StepKinds

\* Whichever calls fail, the list holds exactly the allocated clients, each with
\* an open socket of its own, and only deleting the client or a call through a
\* freed block takes the socket's registration away (net.c: read_from_client,
\* delete_client).
THEOREM ClientsAlwaysServed == Spec => ClientsServed
<1>1. IInv /\ [Next]_vars =>
        [\A c \in clis' :
           (c \notin clis \/ epoll[cell[c].fd] = c) /\ ~ServesFreed
             => epoll'[cell'[c].fd] = c]_vars
  BY ServedStep
<1>2. IInv => ClientsListed
  BY DEF IInv
<1>3. QED
  BY <1>1, <1>2, InvariantHolds, PTL DEF Spec, ClientsServed

-----------------------------------------------------------------------------
(* Sockets left without a client.                                            *)

LEMMA DeletionOrphansNone ==
  ASSUME IInv, NEW C \in SUBSET clis, DeleteClients(C)
  PROVE  Orphans' = Orphans
<1> USE DEF IInv
<1>1. C \cap clis = C /\ clis' = clis \ C /\ \A d \in clis' : cell'[d] = cell[d]
  BY DeleteClientsKeep
<1>2. ASSUME NEW f \in Fd
      PROVE  f \in Orphans' <=> f \in Orphans
  <2>1. CASE f \in FdsOf(C)
    <3>1. bound'[f] = Nil
      BY <1>1, <2>1 DEF DeleteClients
    <3>2. \E c \in clis : cell[c].fd = f
      BY <2>1 DEF FdsOf
    <3>3. QED
      BY <3>1, <3>2 DEF Orphans
  <2>2. CASE f \notin FdsOf(C)
    <3>1. bound'[f] = bound[f]
      BY <1>1, <2>2 DEF DeleteClients
    <3>2. (\A c \in clis' : cell'[c].fd # f) <=> (\A c \in clis : cell[c].fd # f)
      BY <1>1, <2>2 DEF FdsOf
    <3>3. QED
      BY <3>1, <3>2 DEF Orphans
  <2>3. QED
    BY <2>1, <2>2
<1>3. QED
  BY <1>2 DEF Orphans

LEMMA AddingOrphans ==
  ASSUME IInv, NEW c \in Cell, NEW q \in Query, NEW f \in Fd, NEW p \in Port
  PROVE  /\ ClientAdded(c, q, f, p) => Orphans' = Orphans
         /\ RegisterFails(c, q, f, p) \/ ListAddFails(c, q, f, p)
              => /\ Orphans' = Orphans \cup {f} /\ bound[f] = Nil
                 /\ clis' = clis
                 /\ MayFail("epoll_ctl") \/ MayFail("list")
<1>1. ASSUME \/ ClientAdded(c, q, f, p)
             \/ RegisterFails(c, q, f, p)
             \/ ListAddFails(c, q, f, p)
      PROVE  /\ bound[f] = Nil /\ bound'[f] # Nil
             /\ \A g \in Fd : g # f => bound'[g] = bound[g]
             /\ \A d \in clis : cell'[d] = cell[d] /\ cell[d].fd # f
  BY <1>1, AddingDoes DEF IInv, TypeOK
<1>2. ASSUME ClientAdded(c, q, f, p)
      PROVE  Orphans' = Orphans
  <2>1. clis' = clis \cup {c} /\ cell'[c].fd = f
    BY <1>2 DEF ClientAdded, NewClient, IInv, TypeOK
  <2>2. QED
    BY <1>1, <1>2, <2>1 DEF Orphans
<1>3. ASSUME RegisterFails(c, q, f, p) \/ ListAddFails(c, q, f, p)
      PROVE  Orphans' = Orphans \cup {f} /\ bound[f] = Nil /\ clis' = clis
  <2>1. clis' = clis
    BY <1>3 DEF RegisterFails, ListAddFails
  <2>2. QED
    BY <1>1, <1>3, <2>1 DEF Orphans
<1>4. QED
  BY <1>2, <1>3 DEF RegisterFails, ListAddFails

OrphanedByFailure ==
  /\ <<Listen, Listen>> \in batch \ batch'
  /\ MayFail("epoll_ctl") \/ MayFail("list")
  /\ clis' = clis
  /\ \E f \in Fd : bound[f] = Nil /\ Orphans' = Orphans \cup {f}

LEMMA OrphanStep ==
  ASSUME IInv, [Next]_vars
  PROVE  Orphans' = Orphans \/ OrphanedByFailure
<1>1. CASE UNCHANGED <<cell, clis, bound>>
  BY <1>1 DEF Orphans
<1>2. ASSUME NEW C \in SUBSET clis, DeleteClients(C)
      PROVE  Orphans' = Orphans
  BY <1>2, DeletionOrphansNone
<1>3. ASSUME NEW c \in Cell, NEW q \in Query, NEW f \in Fd, NEW p \in Port,
             \/ ClientAdded(c, q, f, p)
             \/ RegisterFails(c, q, f, p)
             \/ ListAddFails(c, q, f, p)
      PROVE  Orphans' = Orphans \/ OrphanedByFailure
  BY <1>3, AddingDoes, AddingOrphans DEF OrphanedByFailure
<1>4. ASSUME NEW f \in Fd, NEW c \in Cell, ResponseForwarded(f, c)
      PROVE  Orphans' = Orphans
  BY <1>2, <1>4, ResponseForwardedDoes
<1>5. ASSUME NEW f \in Fd, NEW c \in Cell, FreedForwards(f, c)
      PROVE  Orphans' = Orphans
  <2>1. UNCHANGED <<cell, clis, bound>>
    BY <1>5, FreedForwardsDoes
  <2>2. QED
    BY <2>1 DEF Orphans
<1>6. QED
  BY <1>1, <1>2, <1>3, <1>4, <1>5, StepKinds

\* A socket is left without a client only where read_from_client fails to
\* register or to list the client it has opened the socket for, one socket for
\* each failure; deletions and calls through freed blocks leave none, and none
\* that was left is ever closed (net.c: read_from_client, delete_client).
THEOREM OrphansOnlyFromFailures == Spec => OrphansOnlyByFailure
<1>1. IInv /\ [Next]_vars => [Orphans' = Orphans \/ OrphanedByFailure]_vars
  BY OrphanStep
<1>2. QED
  BY <1>1, InvariantHolds, PTL DEF Spec, OrphansOnlyByFailure, OrphanedByFailure

-----------------------------------------------------------------------------
(* The count of entries.                                                     *)

Open == {f \in Fd : bound[f] # Nil}

LEMMA ClientsHaveOneFdEach ==
  ASSUME TypeOK, ClientsListed, NEW C \in SUBSET clis
  PROVE  /\ FdsOf(C) \subseteq Open
         /\ Cardinality(FdsOf(C)) = Cardinality(C)
<1> DEFINE fdOf == [c \in C |-> cell[c].fd]
<1>1. \A c \in C : cell[c].fd \in Fd /\ bound[cell[c].fd] # Nil
  BY ClientFields DEF ClientsListed
<1>2. FdsOf(C) \subseteq Open
  BY <1>1 DEF FdsOf, Open
<1>3. fdOf \in [C -> FdsOf(C)]
  BY DEF FdsOf
<1>4. \A c, d \in C : fdOf[c] = fdOf[d] => c = d
  BY ClientsApart
<1>5. \A f \in FdsOf(C) : \E c \in C : fdOf[c] = f
  BY DEF FdsOf
<1>6. ExistsBijection(C, FdsOf(C))
  BY <1>3, <1>4, <1>5, Fun_IsBij, Fun_ExistsBij
<1>7. IsFiniteSet(C)
  BY ProxyAssumption, FS_Subset DEF ProxyAssumption, TypeOK
<1>8. QED
  BY <1>2, <1>6, <1>7, FS_Bijection

LEMMA OpenFinite == IsFiniteSet(Open) /\ Cardinality(Open) \in Nat
BY ProxyAssumption, FS_Subset, FS_CardinalityType DEF ProxyAssumption, Open

LEMMA UncountedStep ==
  ASSUME IInv, [Next]_vars
  PROVE  Uncounted' = Uncounted \/ (Uncounted' = Uncounted + 1 /\ ServesFreed)
<1> USE DEF IInv
<1>0. /\ Uncounted = 1 + Cardinality(Open) - fd_count
      /\ Uncounted' = 1 + Cardinality(Open') - fd_count'
      /\ fd_count \in Int /\ Cardinality(Open) \in Nat
  BY OpenFinite DEF Uncounted, Open, TypeOK
<1>1. CASE UNCHANGED <<bound, fd_count>>
  BY <1>1 DEF Uncounted
<1>2. ASSUME NEW C \in SUBSET clis, DeleteClients(C)
      PROVE  Uncounted' = Uncounted
  <2>1. Open' = Open \ FdsOf(C)
    <3>1. C \cap clis = C
      OBVIOUS
    <3>2. QED
      BY <1>2, <3>1 DEF DeleteClients, Open
  <2>2. Open \cap FdsOf(C) = FdsOf(C)
    BY ClientsHaveOneFdEach
  <2>3. Cardinality(Open') = Cardinality(Open) - Cardinality(FdsOf(C))
    <3> HIDE DEF IInv
    <3>1. Cardinality(Open \ FdsOf(C))
            = Cardinality(Open) - Cardinality(Open \cap FdsOf(C))
      BY OpenFinite, FS_Difference
    <3>2. QED
      BY <2>1, <2>2, <3>1
  <2>4. Cardinality(FdsOf(C)) = Cardinality(C)
    BY ClientsHaveOneFdEach
  <2>5. Cardinality(C) \in Nat
    BY CardinalityInt DEF TypeOK
  <2>6. fd_count' = fd_count - Cardinality(C)
    BY <1>2, <2>5 DEF DeleteClients, CountEntries, TypeOK
  <2>7. QED
    BY <1>0, <2>3, <2>4, <2>5, <2>6
<1>3. ASSUME NEW c \in Cell, NEW q \in Query, NEW f \in Fd, NEW p \in Port,
             \/ ClientAdded(c, q, f, p)
             \/ RegisterFails(c, q, f, p)
             \/ ListAddFails(c, q, f, p)
      PROVE  Uncounted' = Uncounted
  <2>1. f \notin Open /\ Open' = Open \cup {f}
    BY <1>3, AddingDoes DEF Open, TypeOK
  <2>2. Cardinality(Open') = Cardinality(Open) + 1
    BY <2>1, OpenFinite, FS_AddElement
  <2>3. fd_count' = fd_count + 1
    BY <1>3, AddingDoes
  <2>4. QED
    BY <1>0, <2>2, <2>3
<1>4. ASSUME NEW f \in Fd, NEW c \in Cell, ResponseForwarded(f, c)
      PROVE  Uncounted' = Uncounted
  BY <1>2, <1>4, ResponseForwardedDoes
<1>5. ASSUME NEW f \in Fd, NEW c \in Cell, FreedForwards(f, c)
      PROVE  Uncounted' = Uncounted + 1 /\ ServesFreed
  <2>1. Open' = Open /\ fd_count' = fd_count - 1 /\ ServesFreed
    BY <1>5, FreedForwardsDoes DEF Open
  <2>2. QED
    BY <1>0, <2>1
<1>6. QED
  BY <1>1, <1>2, <1>3, <1>4, <1>5, StepKinds

\* fd_count keeps step with the open sockets, failed registrations included,
\* through any sequence of calls; only one made through a freed block counts an
\* entry out that is still there (event.c: event_regis).
THEOREM FdCountKeepsStep == Spec => FdCountDrift
<1>1. IInv /\ [Next]_vars =>
        [Uncounted' = Uncounted \/ (Uncounted' = Uncounted + 1 /\ ServesFreed)]_vars
  BY UncountedStep
<1>2. QED
  BY <1>1, InvariantHolds, PTL DEF Spec, FdCountDrift

-----------------------------------------------------------------------------
(* Answers.                                                                  *)

LEMMA RepliesStep ==
  ASSUME IInv, [Next]_vars, NEW q \in Query, answers'[q] # answers[q], ~ServesFreed
  PROVE  \E a \in Query : /\ answers[q] = <<>> /\ answers'[q] = <<a>>
                          /\ portOf[a] = portOf[q]
<1>1. CASE UNCHANGED answers
  BY <1>1
<1>2. ASSUME NEW f \in Fd, NEW c \in Cell, ResponseForwarded(f, c)
      PROVE  \E a \in Query : /\ answers[q] = <<>> /\ answers'[q] = <<a>>
                              /\ portOf[a] = portOf[q]
  <2> DEFINE r == cell[c].cli
             b == Head(rx[cell[c].fd])
  <2>1. /\ r \in Query /\ b \in Query /\ answers[r] = <<>>
        /\ answers' = [answers EXCEPT ![r] = Append(@, b)]
        /\ portOf[b] = portOf[r]
    BY <1>2, ResponseForwardedDoes
  <2> HIDE DEF r, b
  <2>2. q = r /\ answers'[q] = Append(<<>>, b)
    BY <2>1 DEF IInv, TypeOK
  <2>3. Append(<<>>, b) = <<b>>
    OBVIOUS
  <2>4. QED
    BY <2>1, <2>2, <2>3
<1>3. ASSUME NEW f \in Fd, NEW c \in Cell, FreedForwards(f, c)
      PROVE  FALSE
  BY <1>3, FreedForwardsDoes
<1>4. ASSUME NEW c \in Cell, NEW r \in Query, NEW f \in Fd, NEW p \in Port,
             \/ ClientAdded(c, r, f, p)
             \/ RegisterFails(c, r, f, p)
             \/ ListAddFails(c, r, f, p)
      PROVE  UNCHANGED answers
  BY <1>4, AddingDoes
<1>5. QED
  BY <1>1, <1>2, <1>3, <1>4, StepKinds

\* What a handler sends through an allocated block is the first answer its
\* requester gets and an answer to a query that left from the same port: it goes
\* astray only when the port is used again, however blocks and descriptors are
\* (net.c: handle_dns_response).
THEOREM NoMisdeliveryWithoutReuse == Spec => RepliesMatch
<1>1. IInv /\ [Next]_vars =>
        [\A q \in Query :
           answers'[q] # answers[q] /\ ~ServesFreed
             => \E a \in Query : /\ answers[q] = <<>> /\ answers'[q] = <<a>>
                                 /\ portOf[a] = portOf[q]]_vars
  BY RepliesStep
<1>2. QED
  BY <1>1, InvariantHolds, PTL DEF Spec, RepliesMatch

-----------------------------------------------------------------------------
(* The listening socket is served only when a datagram waits on it.        *)

LEMMA ListenStep ==
  TypeOK /\ ListenNeverBlocks /\ [Next]_vars => ListenNeverBlocks'
<1> SUFFICES ASSUME TypeOK, ListenNeverBlocks, [Next]_vars
             PROVE  ListenNeverBlocks'
  OBVIOUS
<1> USE DEF ListenNeverBlocks
<1>1. CASE EpollWait
  <2>1. <<Listen, Listen>> \in Ready => inq # {}
    BY ProxyAssumption DEF ProxyAssumption, Ready
  <2>2. \A E \in Reports : E \subseteq Ready
    BY DEF Reports
  <2>3. QED
    BY <1>1, <2>1, <2>2 DEF EpollWait, netVars
<1>2. ASSUME NEW c \in Cell, NEW q \in Query, Receive(c, q)
      PROVE  ListenNeverBlocks'
  BY <1>2 DEF Receive, TakeListen, Take
<1>3. ASSUME batch' \subseteq batch, inq \subseteq inq'
      PROVE  ListenNeverBlocks'
  BY <1>3
<1>4. CASE UNCHANGED vars \/ Environment \/ Tick \/ ReadFails \/ HandleDnsResponse
  <2>1. batch' \subseteq batch /\ inq \subseteq inq'
    BY <1>4 DEF vars, netVars, Environment, SendQuery, Answer, StrayDatagram,
         Deliver, TimePasses, ClockSetBack, Tick, ReadFails, TakeListen, Take,
         HandleDnsResponse, NothingToRead, ResponseDiscarded,
         ResponseForwarded, TakeResponse, StaleDispatch, FreedGoesNowhere,
         FreedDiscards, FreedForwards, FreedReads, TakeFreed
  <2>2. QED
    BY <1>3, <2>1
<1>5. QED
  BY <1>1, <1>2, <1>4 DEF Next, Loop, ReadFromClient, QueryDropped,
     ClientAdded, RegisterFails, ListAddFails, Forward, Exited

\* read_from_client is never called without a datagram waiting on the blocking
\* listening socket, whatever the requesters, the ticks and the failures do
\* (net.c: read_from_client, event.c: event_loop).
THEOREM ListenSocketNeverBlocks == Spec => []ListenNeverBlocks
<1>1. Init => ListenNeverBlocks
  BY DEF Init, ListenNeverBlocks
<1>2. QED
  BY <1>1, ListenStep, TypeCorrect, PTL DEF Spec

-----------------------------------------------------------------------------
(* Registrations.  A client forgotten by the list could leave its            *)
(* registration behind; without that failure a registration names a listed   *)
(* client that owns the descriptor.                                          *)

Registered ==
  \A f \in Fd : epoll[f] # Nil => epoll[f] \in clis /\ cell[epoll[f]].fd = f

LEMMA RegisteredStep ==
  ASSUME "list" \notin Faults
  PROVE  IInv /\ Registered /\ [Next]_vars => Registered'
<1> SUFFICES ASSUME IInv, Registered, [Next]_vars
             PROVE  Registered'
  OBVIOUS
<1> USE DEF Registered, IInv
<1>1. ASSUME NEW C \in SUBSET clis, DeleteClients(C)
      PROVE  Registered'
  <2>1. /\ clis' = clis \ C
        /\ \A d \in clis' : cell'[d] = cell[d]
    BY <1>1, DeleteClientsKeep
  <2>2. ASSUME NEW f \in Fd, epoll'[f] # Nil
        PROVE  epoll'[f] \in clis' /\ cell'[epoll'[f]].fd = f
    <3>1. f \notin FdsOf(C) /\ epoll'[f] = epoll[f]
      BY <1>1, <2>2 DEF DeleteClients
    <3>2. epoll[f] \in clis /\ cell[epoll[f]].fd = f
      BY <2>2, <3>1
    <3>3. epoll[f] \notin C
      BY <3>1, <3>2 DEF FdsOf
    <3>4. QED
      BY <2>1, <3>1, <3>2, <3>3
  <2>3. QED
    BY <2>2
<1>2. ASSUME NEW c \in Cell, NEW q \in Query, NEW f \in Fd, NEW p \in Port,
             ClientAdded(c, q, f, p)
      PROVE  Registered'
  <2>1. /\ c \notin clis /\ clis' = clis \cup {c}
        /\ epoll' = [epoll EXCEPT ![f] = c]
        /\ cell' = [cell EXCEPT ![c] = NewClient(f, q)]
    BY <1>2, ForwardKeeps DEF ClientAdded
  <2>2. cell'[c].fd = f /\ \A d \in clis : cell'[d] = cell[d]
    BY <2>1 DEF NewClient, TypeOK
  <2>3. QED
    BY <2>1, <2>2 DEF TypeOK
<1>3. CASE UNCHANGED <<epoll, clis, cell>>
  BY <1>3
<1>4. ASSUME NEW c \in Cell, NEW q \in Query, NEW f \in Fd, NEW p \in Port,
             RegisterFails(c, q, f, p) \/ ListAddFails(c, q, f, p)
      PROVE  Registered'
  BY <1>3, <1>4 DEF RegisterFails, ListAddFails, MayFail
<1>5. ASSUME NEW f \in Fd, NEW c \in Cell, ResponseForwarded(f, c)
      PROVE  Registered'
  BY <1>1, <1>5, ResponseForwardedDoes
<1>6. ASSUME NEW f \in Fd, NEW c \in Cell, FreedForwards(f, c)
      PROVE  Registered'
  <2>1. UNCHANGED <<cell, clis>>
    BY <1>6, FreedForwardsDoes
  <2>2. \A g \in Fd : epoll'[g] \in {epoll[g], Nil}
    BY <1>6 DEF FreedForwards, TypeOK
  <2>3. QED
    BY <2>1, <2>2
<1>7. QED
  BY <1>1, <1>2, <1>3, <1>4, <1>5, <1>6, StepKinds

-----------------------------------------------------------------------------
(* The batch.  Of the events still to serve no two name the same block, so   *)
(* that a handler frees no block another event is about, and no freed block  *)
(* is called through twice.  The query a freed block held is unanswered when *)
(* a call through the block is still to come.                                *)

OneEventPerBlock ==
  \A f, g \in Fd : \A c \in Cell :
    <<f, c>> \in batch /\ <<g, c>> \in batch => f = g

FreedUnanswered ==
  \A f \in Fd : \A c \in Cell :
    <<f, c>> \in batch /\ cell[c] = Nil /\ remains[c] # Nil
      => answers[remains[c].cli] = <<>>

BatchInv ==
  /\ IInv /\ Registered /\ OneEventPerBlock /\ ReportedAlive
  /\ FreedUnanswered /\ AnsweredOnce

LEMMA ReadyIsAlive ==
  ASSUME IInv, Registered
  PROVE  /\ \A e \in Ready : Live(e)
         /\ \A f \in Fd, c \in Cell : <<f, c>> \in Ready => cell[c] # Nil
         /\ \A f, g \in Fd : \A c \in Cell :
              <<f, c>> \in Ready /\ <<g, c>> \in Ready => f = g
<1>1. \A f \in Fd, c \in Cell :
        <<f, c>> \in Ready => epoll[f] = c /\ epoll[f] # Nil
  BY ProxyAssumption DEF ProxyAssumption, Ready
<1>2. \A e \in Ready : e = <<Listen, Listen>>
                       \/ \E f \in Fd : e = <<f, epoll[f]>> /\ epoll[f] # Nil
  BY DEF Ready
<1>3. \A e \in Ready : Live(e)
  BY <1>2, ProxyAssumption
  DEF ProxyAssumption, Live, Registered, IInv, ClientsListed
<1>4. \A f \in Fd, c \in Cell : <<f, c>> \in Ready => cell[c] # Nil
  BY <1>1 DEF Registered, IInv, ClientsListed
<1>5. QED
  BY <1>1, <1>3, <1>4 DEF Registered

\* The batch only shrinks between one epoll_wait and the next, and a freed
\* block keeps its query or gets one nobody has answered.
LEMMA BatchKept ==
  ASSUME BatchInv, [Next]_vars
  PROVE  \/ EpollWait
         \/ /\ batch' \subseteq batch
            /\ phase' # "tick" \/ (phase' = phase /\ cell' = cell)
<1>1. CASE Environment \/ UNCHANGED vars
  BY <1>1 DEF Environment, SendQuery, Answer, StrayDatagram, Deliver,
     TimePasses, ClockSetBack, tableVars, vars
<1>2. CASE Tick
  BY <1>2 DEF Tick
<1>3. CASE ReadFromClient
  BY <1>3 DEF ReadFromClient, ReadFails, QueryDropped, ClientAdded,
     RegisterFails, ListAddFails, Forward, Receive, TakeListen, Take
<1>4. CASE HandleDnsResponse
  BY <1>4 DEF HandleDnsResponse, NothingToRead, ResponseDiscarded,
     ResponseForwarded, StaleDispatch, FreedGoesNowhere, FreedDiscards,
     FreedForwards, FreedReads, TakeFreed, TakeResponse, Take
<1>5. QED
  BY <1>1, <1>2, <1>3, <1>4 DEF Next, Loop, Exited

\* Unless it is an answer to the query of a block, a step leaves the answers to
\* what freed blocks hold as they are.
LEMMA FreedKept ==
  ASSUME BatchInv, batch' \subseteq batch, UNCHANGED answers,
         \A c \in Cell :
           cell'[c] = Nil /\ remains'[c] # Nil
             => \/ cell[c] = Nil /\ remains'[c] = remains[c]
                \/ answers[remains'[c].cli] = <<>>
  PROVE  FreedUnanswered' /\ AnsweredOnce'
BY DEF BatchInv, FreedUnanswered, AnsweredOnce

LEMMA DeletionKeepsFreed ==
  ASSUME BatchInv, batch' \subseteq batch, NEW C \in SUBSET clis,
         DeleteClients(C), UNCHANGED answers
  PROVE  FreedUnanswered' /\ AnsweredOnce'
<1>1. C \cap clis = C
  OBVIOUS
<1>2. ASSUME NEW c \in Cell, cell'[c] = Nil, remains'[c] # Nil
      PROVE  \/ cell[c] = Nil /\ remains'[c] = remains[c]
             \/ answers[remains'[c].cli] = <<>>
  <2>1. CASE c \in C
    <3>1. remains'[c].cli = cell[c].cli
      BY <1>1, <2>1 DEF DeleteClients, WhatRemains
    <3>2. QED
      BY <2>1, <3>1 DEF BatchInv, IInv, ReadOnce
  <2>2. CASE c \notin C
    BY <1>1, <1>2, <2>2 DEF DeleteClients
  <2>3. QED
    BY <2>1, <2>2
<1>3. QED
  BY <1>2, FreedKept

LEMMA ReceiptKeepsFreed ==
  ASSUME BatchInv, NEW c \in Cell, NEW q \in Query,
         \/ QueryDropped(c, q)
         \/ \E f \in Fd, p \in Port : \/ ClientAdded(c, q, f, p)
                                      \/ RegisterFails(c, q, f, p)
                                      \/ ListAddFails(c, q, f, p)
  PROVE  FreedUnanswered' /\ AnsweredOnce'
<1> USE DEF BatchInv, IInv
<1>1. /\ batch' \subseteq batch /\ UNCHANGED answers
      /\ cell[c] = Nil /\ q \in inq
  BY DEF QueryDropped, ClientAdded, RegisterFails, ListAddFails, Forward,
         Receive, TakeListen, Take
<1>2. answers[q] = <<>>
  BY <1>1, ReceivedQueryIsFresh
<1>3. \A d \in Cell : d # c => cell'[d] = cell[d] /\ remains'[d] = remains[d]
  BY DEF QueryDropped, ClientAdded, RegisterFails, ListAddFails, TypeOK
<1>4. remains'[c] # Nil => remains'[c].cli = q
  <2>1. CASE QueryDropped(c, q)
    BY <2>1 DEF QueryDropped, TypeOK
  <2>2. ASSUME NEW f \in Fd, NEW p \in Port, ClientAdded(c, q, f, p)
        PROVE  remains'[c] = Nil
    BY <2>2 DEF ClientAdded, TypeOK
  <2>3. ASSUME NEW f \in Fd, NEW p \in Port,
               RegisterFails(c, q, f, p) \/ ListAddFails(c, q, f, p)
        PROVE  remains'[c].cli = q
    BY <2>3 DEF RegisterFails, ListAddFails, WhatRemains, NewClient, TypeOK
  <2>4. QED
    BY <2>1, <2>2, <2>3
<1>5. QED
  BY <1>1, <1>2, <1>3, <1>4, FreedKept

\* One answer to the query a block holds, with the block's event served: no
\* event to come is for a freed block that holds the query.
LEMMA AnswerKeepsFreed ==
  ASSUME BatchInv, NEW f \in Fd, NEW c \in Cell, NEW r \in Query, NEW a \in Query,
         <<f, c>> \in batch, batch' = batch \ {<<f, c>>},
         HeldBy(c) = r, answers[r] = <<>>,
         answers' = [answers EXCEPT ![r] = Append(@, a)],
         \A d \in Cell : d # c => cell'[d] = cell[d] /\ remains'[d] = remains[d]
  PROVE  FreedUnanswered' /\ AnsweredOnce'
<1> USE DEF BatchInv, IInv
<1>1. /\ answers'[r] = Append(<<>>, a)
      /\ \A s \in Query : s # r => answers'[s] = answers[s]
  BY DEF TypeOK
<1>2. ASSUME NEW g \in Fd, NEW d \in Cell, <<g, d>> \in batch',
             cell'[d] = Nil, remains'[d] # Nil
      PROVE  answers'[remains'[d].cli] = <<>>
  <2>1. d # c /\ <<g, d>> \in batch
    BY <1>2 DEF OneEventPerBlock
  <2>2. cell[d] = Nil /\ remains[d] # Nil /\ remains'[d] = remains[d]
    BY <1>2, <2>1
  <2>3. HeldBy(d) = remains[d].cli /\ remains[d].cli \in Query
    BY <2>2, RemnantType DEF HeldBy
  <2>4. remains[d].cli # r
    BY <2>1, <2>3, NilIsNoQuery DEF ReadOnce
  <2>5. QED
    BY <1>1, <2>1, <2>2, <2>3, <2>4 DEF FreedUnanswered
<1>3. ASSUME NEW s \in Query
      PROVE  Len(answers'[s]) <= 1
  <2>1. CASE s = r
    <3>1. Len(Append(<<>>, a)) = 1
      OBVIOUS
    <3>2. QED
      BY <1>1, <2>1, <3>1
  <2>2. CASE s # r
    BY <1>1, <2>2 DEF AnsweredOnce
  <2>3. QED
    BY <2>1, <2>2
<1>4. QED
  BY <1>2, <1>3 DEF FreedUnanswered, AnsweredOnce

LEMMA FreedStep ==
  ASSUME BatchInv, [Next]_vars
  PROVE  FreedUnanswered' /\ AnsweredOnce'
<1> USE DEF BatchInv, IInv
<1>1. CASE EpollWait
  <2>1. batch' \subseteq Ready \/ batch' = {}
    BY <1>1 DEF EpollWait, Reports
  <2>2. UNCHANGED <<cell, answers>>
    BY <1>1 DEF EpollWait, netVars
  <2>3. QED
    BY <2>1, <2>2, ReadyIsAlive DEF FreedUnanswered, AnsweredOnce
<1>2. CASE UNCHANGED <<cell, remains, answers>> /\ batch' \subseteq batch
  BY <1>2, FreedKept
<1>3. CASE Tick
  <2>1. UNCHANGED <<batch, answers>>
    BY <1>3 DEF Tick, netVars
  <2>2. CASE UNCHANGED tableVars
    BY <1>2, <2>1, <2>2 DEF tableVars
  <2>3. CASE DeleteClients(Selected(clock'))
    <3>1. Selected(clock') \in SUBSET clis
      BY DEF Selected
    <3>2. QED
      BY <2>1, <2>3, <3>1, DeletionKeepsFreed
  <2>4. QED
    BY <1>3, <2>2, <2>3 DEF Tick, SrvCron, CheckTimeout
<1>4. CASE Environment \/ UNCHANGED vars \/ ReadFails
  <2>1. UNCHANGED <<cell, remains, answers>> /\ batch' \subseteq batch
    BY <1>4 DEF Environment, SendQuery, Answer, StrayDatagram, Deliver,
       TimePasses, ClockSetBack, ReadFails, TakeListen, Take, vars, tableVars,
       netVars
  <2>2. QED
    BY <1>2, <2>1
<1>5. ASSUME NEW c \in Cell, NEW q \in Query,
             \/ QueryDropped(c, q)
             \/ \E f \in Fd, p \in Port : \/ ClientAdded(c, q, f, p)
                                          \/ RegisterFails(c, q, f, p)
                                          \/ ListAddFails(c, q, f, p)
      PROVE  FreedUnanswered' /\ AnsweredOnce'
  BY <1>5, ReceiptKeepsFreed
<1>6. ASSUME NEW f \in Fd, NEW c \in Cell,
             \/ NothingToRead(f, c) \/ ResponseDiscarded(f, c)
             \/ FreedGoesNowhere(f, c) \/ FreedDiscards(f, c)
      PROVE  FreedUnanswered' /\ AnsweredOnce'
  <2>1. UNCHANGED <<cell, remains, answers>> /\ batch' \subseteq batch
    BY <1>6 DEF NothingToRead, ResponseDiscarded, TakeResponse, Take, tableVars,
       FreedGoesNowhere, FreedDiscards, FreedReads, TakeFreed
  <2>2. QED
    BY <1>2, <2>1
<1>7. ASSUME NEW f \in Fd, NEW c \in Cell, ResponseForwarded(f, c)
      PROVE  FreedUnanswered' /\ AnsweredOnce'
  <2>1. /\ c \in clis /\ cell[c].cli \in Query /\ Head(rx[cell[c].fd]) \in Query
        /\ answers[cell[c].cli] = <<>>
        /\ answers' = [answers EXCEPT ![cell[c].cli] =
                        Append(@, Head(rx[cell[c].fd]))]
        /\ DeleteClients({c})
        /\ <<f, c>> \in batch /\ batch' = batch \ {<<f, c>>}
    BY <1>7, ResponseForwardedDoes
  <2>2. HeldBy(c) = cell[c].cli
    BY <2>1, ClientFields
  <2>3. \A d \in Cell : d # c => cell'[d] = cell[d] /\ remains'[d] = remains[d]
    BY <2>1 DEF DeleteClients
  <2>4. QED
    BY <2>1, <2>2, <2>3, AnswerKeepsFreed
<1>8. ASSUME NEW f \in Fd, NEW c \in Cell, FreedForwards(f, c)
      PROVE  FreedUnanswered' /\ AnsweredOnce'
  <2>1. /\ FreedReads(f, c)
        /\ Head(rx[remains[c].fd]) # Stray
        /\ answers' = [answers EXCEPT ![remains[c].cli] =
                        Append(@, Head(rx[remains[c].fd]))]
    BY <1>8 DEF FreedForwards
  <2>2. Head(rx[remains[c].fd]) \in Query
    BY <2>1, FreedReadsDoes, ReadIsRouted
  <2>3. /\ cell[c] = Nil /\ remains[c] # Nil /\ remains[c].cli \in Query
        /\ HeldBy(c) = remains[c].cli
        /\ UNCHANGED <<cell, remains>>
        /\ <<f, c>> \in batch /\ batch' = batch \ {<<f, c>>}
    BY <2>1, FreedReadsDoes
  <2>4. answers[remains[c].cli] = <<>>
    BY <2>3 DEF FreedUnanswered
  <2>5. QED
    BY <2>1, <2>2, <2>3, <2>4, AnswerKeepsFreed
<1>9. QED
  BY <1>1, <1>3, <1>4, <1>5, <1>6, <1>7, <1>8
  DEF Next, Loop, ReadFromClient, HandleDnsResponse, StaleDispatch, Exited

LEMMA BatchStep ==
  ASSUME "list" \notin Faults
  PROVE  BatchInv /\ [Next]_vars => BatchInv'
<1> SUFFICES ASSUME BatchInv, [Next]_vars
             PROVE  BatchInv'
  OBVIOUS
<1>1. IInv' /\ Registered' /\ FreedUnanswered' /\ AnsweredOnce'
  BY InvariantStep, RegisteredStep, FreedStep DEF BatchInv
<1>2. CASE EpollWait
  <2>1. batch' \subseteq Ready \/ batch' = batch
    BY <1>2 DEF EpollWait, Reports
  <2>2. UNCHANGED cell /\ (phase' = "tick" => batch' \subseteq Ready)
    BY <1>2 DEF EpollWait, Reports
  <2>3. OneEventPerBlock'
    BY <2>1, ReadyIsAlive DEF OneEventPerBlock, BatchInv
  <2>4. \A e \in Ready : Live(e)'
    BY <2>2, ReadyIsAlive DEF Live, BatchInv
  <2>5. ReportedAlive'
    BY <2>2, <2>4 DEF ReportedAlive
  <2>6. QED
    BY <1>1, <2>3, <2>5 DEF BatchInv
<1>3. CASE /\ batch' \subseteq batch
           /\ phase' # "tick" \/ (phase' = phase /\ cell' = cell)
  <2>1. OneEventPerBlock'
    BY <1>3 DEF OneEventPerBlock, BatchInv
  <2>2. ReportedAlive'
    BY <1>3 DEF ReportedAlive, Live, BatchInv
  <2>3. QED
    BY <1>1, <2>1, <2>2 DEF BatchInv
<1>4. QED
  BY <1>2, <1>3, BatchKept

THEOREM BatchInvariant ==
  ASSUME "list" \notin Faults
  PROVE  Spec => []BatchInv
<1>1. Init => BatchInv
  <2>1. ASSUME Init
        PROVE  FreedUnanswered /\ AnsweredOnce
    BY <2>1 DEF Init, FreedUnanswered, AnsweredOnce
  <2>2. QED
    BY <2>1, InitInvariant
    DEF Init, BatchInv, Registered, OneEventPerBlock, ReportedAlive
<1>2. QED
  BY <1>1, BatchStep, PTL DEF Spec

\* As long as a client can be put on the list, what epoll_wait reports is alive
\* when it is reported: a dangling event comes only from the tick that follows
\* (event.c: event_loop).
THEOREM ReportsAreAlive ==
  ASSUME "list" \notin Faults
  PROVE  Spec => []ReportedAlive
BY BatchInvariant, PTL DEF BatchInv

\* As long as a client can be put on the list, no requester is answered twice,
\* however often and late the server answers, whichever other calls fail and
\* whatever is called through freed blocks (net.c: handle_dns_response,
\* delete_client).
THEOREM AtMostOneAnswer ==
  ASSUME "list" \notin Faults
  PROVE  Spec => []AnsweredOnce
BY BatchInvariant, PTL DEF BatchInv

LEMMA HandlersKeepStep ==
  ASSUME BatchInv, [Next]_vars, phase = "serve", NEW e \in batch \cap batch',
         Live(e)
  PROVE  Live(e)'
<1> USE DEF BatchInv, IInv
<1>1. ASSUME UNCHANGED cell
      PROVE  Live(e)'
  BY <1>1 DEF Live
<1>2. ASSUME NEW c \in Cell, NEW q \in Query, NEW f \in Fd, NEW p \in Port,
             ClientAdded(c, q, f, p)
      PROVE  Live(e)'
  BY <1>2 DEF ClientAdded, Forward, Receive, Live, TypeOK
<1>3. ASSUME NEW f \in Fd, NEW c \in Cell, ResponseForwarded(f, c)
      PROVE  Live(e)'
  <2>1. /\ c \in clis /\ DeleteClients({c})
        /\ <<f, c>> \in batch /\ <<f, c>> \notin batch'
    BY <1>3, ResponseForwardedDoes
  <2>2. \A d \in Cell : d # c => cell'[d] = cell[d]
    BY <2>1 DEF DeleteClients
  <2>3. CASE e[1] \in Fd
    <3>1. PICK g \in Fd, d \in Cell : e = <<g, d>>
      BY <2>3, ProxyAssumption DEF ProxyAssumption, TypeOK, Event
    <3>2. d # c
      BY <2>1, <3>1 DEF OneEventPerBlock
    <3>3. QED
      BY <2>2, <3>1, <3>2 DEF Live
  <2>4. QED
    BY <2>3 DEF Live
<1>4. ASSUME NEW c \in Cell, NEW q \in Query, NEW f \in Fd, NEW p \in Port,
             RegisterFails(c, q, f, p) \/ ListAddFails(c, q, f, p)
      PROVE  Live(e)'
  BY <1>1, <1>4 DEF RegisterFails, ListAddFails
<1>5. ASSUME NEW f \in Fd, NEW c \in Cell, FreedForwards(f, c)
      PROVE  Live(e)'
  BY <1>1, <1>5, FreedForwardsDoes
<1>6. QED
  BY <1>1, <1>2, <1>3, <1>4, <1>5, StepKinds

\* As long as a client can be put on the list, serving one event of a batch
\* frees no block another event of the batch names: only the tick that event_loop
\* runs between epoll_wait and the handlers does (event.c: event_loop).
THEOREM HandlersKeepTheBatch ==
  ASSUME "list" \notin Faults
  PROVE  Spec => HandlersKeepBatch
<1>1. BatchInv /\ [Next]_vars
        => [phase = "serve" => \A e \in batch \cap batch' : Live(e) => Live(e)']_vars
  BY HandlersKeepStep
<1>2. QED
  BY <1>1, BatchInvariant, PTL DEF Spec, HandlersKeepBatch

-----------------------------------------------------------------------------
(* The proxy implements the relay: each step of the proxy is a step of the  *)
(* relay on the queries' status, or leaves it alone.                        *)

StatusOf == [q \in Query |-> Status(q)]

LEMMA StatusSame ==
  ASSUME UNCHANGED <<unsent, inq, cell, clis, answers>>
  PROVE  UNCHANGED R!vars
BY DEF R!vars, Status

\* A listed client's query is pending, a queued query is queued.
LEMMA StatusInHand ==
  ASSUME IInv
  PROVE  /\ \A c \in clis : Status(cell[c].cli) = "pending"
         /\ \A q \in inq : Status(q) = "queued"
<1>1. ASSUME NEW c \in clis
      PROVE  Status(cell[c].cli) = "pending"
  <2>1. c \in Cell /\ HeldBy(c) = cell[c].cli
    BY ClientFields DEF IInv
  <2>2. cell[c].cli \notin unsent \cup inq
    BY <2>1 DEF IInv, ReadOnce
  <2>3. QED
    BY <2>2 DEF Status
<1>2. ASSUME NEW q \in inq
      PROVE  Status(q) = "queued"
  BY <1>2 DEF Status, IInv, ReadOnce
<1>3. QED
  BY <1>1, <1>2

\* No two clients have the same query.
LEMMA QueriesApart ==
  ASSUME IInv, NEW c \in clis, NEW d \in Cell, HeldBy(d) = cell[c].cli
  PROVE  c = d
<1>1. c \in Cell /\ HeldBy(c) = cell[c].cli /\ cell[c].cli \in Query
  BY ClientFields DEF IInv
<1>2. QED
  BY <1>1, NilIsNoQuery DEF IInv, ReadOnce

\* Removing clients loses their queries and nothing else.
LEMMA DeletionLoses ==
  ASSUME IInv, NEW C \in SUBSET clis, DeleteClients(C),
         UNCHANGED <<unsent, inq, answers>>
  PROVE  R!Lose({cell[c].cli : c \in C})
<1> DEFINE Q == {cell[c].cli : c \in C}
<1>1. /\ clis' = clis \ C
      /\ \A d \in clis' : cell'[d] = cell[d]
  BY DeleteClientsKeep DEF IInv
<1>2. \A q \in Q : q \in Query /\ StatusOf[q] = "pending"
  BY StatusInHand, ClientFields DEF IInv, StatusOf
<1>3. ASSUME NEW q \in Query
      PROVE  Status(q)' = IF q \in Q THEN "lost" ELSE Status(q)
  <2>1. CASE q \in Q
    <3>1. q \notin unsent \cup inq
      BY <1>2, <2>1 DEF StatusOf, Status
    <3>2. answers[q] = <<>>
      BY <2>1 DEF IInv, ReadOnce
    <3>3. \A d \in clis' : cell'[d].cli # q
      <4>1. \A d \in clis, c \in C : cell[d].cli = cell[c].cli => c = d
        BY QueriesApart, ClientFields DEF IInv
      <4>2. QED
        BY <1>1, <2>1, <4>1
    <3>4. QED
      BY <2>1, <3>1, <3>2, <3>3 DEF Status
  <2>2. CASE q \notin Q
    <3>1. (\E d \in clis' : cell'[d].cli = q) <=> \E d \in clis : cell[d].cli = q
      BY <1>1, <2>2
    <3>2. QED
      BY <2>2, <3>1 DEF Status
  <2>3. QED
    BY <2>1, <2>2
<1>4. QED
  BY <1>2, <1>3 DEF R!Lose, R!InHand, StatusOf

\* A query that is received without becoming a client's is lost.
LEMMA ReceiveLoses ==
  ASSUME IInv, NEW q \in inq, inq' = inq \ {q},
         UNCHANGED <<unsent, answers, cell, clis>>
  PROVE  R!Lose({q})
<1>1. Status(q) = "queued" /\ q \in Query /\ q \notin unsent
  BY StatusInHand, ReceivedQueryIsFresh
<1>2. Status(q)' = "lost"
  BY <1>1, ReceivedQueryIsFresh DEF Status
<1>3. \A r \in Query : r # q => Status(r)' = Status(r)
  BY DEF Status
<1>4. QED
  BY <1>1, <1>2, <1>3 DEF R!Lose, R!InHand

LEMMA ClientAddedAccepts ==
  ASSUME IInv, NEW c \in Cell, NEW q \in Query, NEW f \in Fd, NEW p \in Port,
         ClientAdded(c, q, f, p)
  PROVE  R!Accept(q)
<1>1. /\ q \in inq /\ inq' = inq \ {q} /\ UNCHANGED <<unsent, answers>>
      /\ c \notin clis /\ clis' = clis \cup {c}
      /\ cell' = [cell EXCEPT ![c] = NewClient(f, q)]
  BY DEF ClientAdded, Forward, Receive, IInv, ClientsListed
<1>2. cell'[c].cli = q /\ \A d \in clis : cell'[d] = cell[d]
  BY <1>1 DEF NewClient, IInv, TypeOK
<1>3. Status(q) = "queued" /\ q \notin unsent
  BY <1>1, StatusInHand, ReceivedQueryIsFresh
<1>4. Status(q)' = "pending"
  BY <1>1, <1>2, <1>3 DEF Status
<1>5. ASSUME NEW r \in Query, r # q
      PROVE  Status(r)' = Status(r)
  <2>1. (\E d \in clis' : cell'[d].cli = r) <=> \E d \in clis : cell[d].cli = r
    BY <1>1, <1>2, <1>5
  <2>2. QED
    BY <1>1, <1>5, <2>1 DEF Status
<1>6. QED
  BY <1>1, <1>3, <1>4, <1>5 DEF R!Accept, R!Move

\* An answer leaves one requester answered and the status of the others alone.
LEMMA AnsweringReplies ==
  ASSUME IInv, NEW r \in Query, NEW a \in Query,
         Status(r) \in {"pending", "lost"}, a \notin unsent \cup inq,
         answers' = [answers EXCEPT ![r] = Append(@, a)],
         UNCHANGED <<inq, unsent>>,
         \A d \in clis' : cell'[d].cli # r,
         \A s \in Query : s # r =>
           ((\E d \in clis' : cell'[d].cli = s) <=> \E d \in clis : cell[d].cli = s)
  PROVE  R!Reply(r, a)
<1>1. Status(a) \notin {"unsent", "queued"}
  BY DEF Status
<1>2. r \notin unsent \cup inq
  BY DEF Status
<1>3. answers'[r] # <<>>
  <2>1. answers[r] \in Seq(Query) /\ answers'[r] = Append(answers[r], a)
    BY DEF IInv, TypeOK
  <2>2. Len(Append(answers[r], a)) = Len(answers[r]) + 1
        /\ Len(answers[r]) \in Nat
    BY <2>1, AppendProperties, LenProperties
  <2>3. QED
    BY <2>1, <2>2, EmptySeq
<1>4. Status(r)' = "answered"
  BY <1>2, <1>3 DEF Status
<1>5. ASSUME NEW s \in Query, s # r
      PROVE  Status(s)' = Status(s)
  <2>1. answers'[s] = answers[s]
    BY <1>5 DEF IInv, TypeOK
  <2>2. QED
    BY <1>5, <2>1 DEF Status
<1>6. QED
  BY <1>1, <1>4, <1>5 DEF R!Reply, R!Move

LEMMA ResponseForwardedReplies ==
  ASSUME IInv, NEW f \in Fd, NEW c \in Cell, ResponseForwarded(f, c)
  PROVE  \E r, a \in Query : R!Reply(r, a)
<1> DEFINE r == cell[c].cli
           a == Head(rx[cell[c].fd])
<1>1. /\ c \in clis /\ cell[c].fd \in Fd /\ r \in Query /\ a \in Query
      /\ rx[cell[c].fd] # <<>> /\ a # Stray
      /\ answers' = [answers EXCEPT ![r] = Append(@, a)]
      /\ DeleteClients({c})
      /\ UNCHANGED <<inq, unsent>>
  BY ResponseForwardedDoes
<1>2. a \notin unsent \cup inq
  BY <1>1, ReadIsRouted
<1>3. Status(r) = "pending"
  BY <1>1, StatusInHand
<1>4. /\ clis' = clis \ {c}
      /\ \A d \in clis' : cell'[d] = cell[d]
  BY <1>1, DeleteClientsKeep DEF IInv
<1>5. \A d \in clis : cell[d].cli = r => d = c
  BY <1>1, QueriesApart, ClientFields DEF IInv
<1>6. \A d \in clis' : cell'[d].cli # r
  BY <1>4, <1>5
<1>7. \A s \in Query : s # r =>
        ((\E d \in clis' : cell'[d].cli = s) <=> \E d \in clis : cell[d].cli = s)
  BY <1>4
<1> HIDE DEF r, a
<1>8. R!Reply(r, a)
  BY <1>1, <1>2, <1>3, <1>6, <1>7, AnsweringReplies
<1>9. QED
  BY <1>1, <1>8

\* A handler called through a freed block answers a query that was given up.
LEMMA FreedForwardsReplies ==
  ASSUME BatchInv, NEW f \in Fd, NEW c \in Cell, FreedForwards(f, c)
  PROVE  \E r, a \in Query : R!Reply(r, a)
<1> DEFINE r == remains[c].cli
           a == Head(rx[remains[c].fd])
<1> USE DEF BatchInv
<1>1. /\ FreedReads(f, c) /\ a # Stray
      /\ answers' = [answers EXCEPT ![r] = Append(@, a)]
  BY DEF FreedForwards
<1>2. /\ cell[c] = Nil /\ remains[c] # Nil /\ c \notin clis
      /\ remains[c].fd \in Fd /\ r \in Query /\ HeldBy(c) = r
      /\ rx[remains[c].fd] # <<>>
      /\ UNCHANGED <<cell, clis, inq, unsent>>
      /\ <<f, c>> \in batch
  BY <1>1, FreedReadsDoes
<1>3. a \in Query /\ a \notin unsent \cup inq
  BY <1>1, <1>2, ReadIsRouted
<1>4. \A d \in clis : cell[d].cli # r
  BY <1>2, QueriesApart
<1>5. Status(r) = "lost"
  <2>1. r \notin unsent \cup inq
    BY <1>2 DEF IInv, ReadOnce
  <2>2. answers[r] = <<>>
    BY <1>2 DEF FreedUnanswered
  <2>3. QED
    BY <1>4, <2>1, <2>2 DEF Status
<1>6. \A d \in clis' : cell'[d].cli # r
  BY <1>2, <1>4
<1>7. \A s \in Query : s # r =>
        ((\E d \in clis' : cell'[d].cli = s) <=> \E d \in clis : cell[d].cli = s)
  BY <1>2
<1> HIDE DEF r, a
<1>8. R!Reply(r, a)
  BY <1>1, <1>2, <1>3, <1>5, <1>6, <1>7, AnsweringReplies
<1>9. QED
  BY <1>2, <1>3, <1>8

LEMMA StepImplementsRelay ==
  BatchInv /\ [Next]_vars => [R!Next]_(R!vars)
<1> SUFFICES ASSUME BatchInv, IInv, [Next]_vars
             PROVE  R!Next \/ UNCHANGED R!vars
  BY DEF BatchInv
<1> USE DEF R!Next
<1>1. ASSUME NEW q \in Query, SendQuery(q)
      PROVE  R!Next
  <2>1. /\ q \in unsent /\ unsent' = unsent \ {q} /\ inq' = inq \cup {q}
        /\ UNCHANGED <<cell, clis, answers>>
    BY <1>1 DEF SendQuery, tableVars
  <2>2. Status(q) = "unsent" /\ Status(q)' = "queued"
    BY <2>1 DEF Status
  <2>3. \A r \in Query : r # q => Status(r)' = Status(r)
    BY <2>1 DEF Status
  <2>4. R!Send(q)
    BY <2>1, <2>2, <2>3 DEF R!Send, R!Move
  <2>5. QED
    BY <2>4
<1>2. CASE Tick
  <2>1. UNCHANGED <<unsent, inq, answers>>
    BY <1>2 DEF Tick, netVars
  <2>2. CASE UNCHANGED tableVars
    BY <2>1, <2>2, StatusSame DEF tableVars
  <2>3. CASE DeleteClients(Selected(clock'))
    <3>1. Selected(clock') \in SUBSET clis
      BY DEF Selected
    <3>2. R!Lose({cell[c].cli : c \in Selected(clock')})
      BY <2>1, <2>3, <3>1, DeletionLoses
    <3>3. {cell[c].cli : c \in Selected(clock')} \in SUBSET Query
      BY <3>1, ClientFields DEF IInv
    <3>4. QED
      BY <3>2, <3>3
  <2>4. QED
    BY <1>2, <2>2, <2>3 DEF Tick, SrvCron, CheckTimeout
<1>3. ASSUME NEW c \in Cell, NEW q \in Query,
             \/ QueryDropped(c, q)
             \/ \E f \in Fd, p \in Port : \/ RegisterFails(c, q, f, p)
                                          \/ ListAddFails(c, q, f, p)
      PROVE  R!Next
  <2>1. R!Lose({q})
    BY <1>3, ReceiveLoses
    DEF QueryDropped, RegisterFails, ListAddFails, Forward, Receive
  <2>2. {q} \in SUBSET Query
    OBVIOUS
  <2>3. QED
    BY <2>1, <2>2
<1>4. ASSUME NEW c \in Cell, NEW q \in Query, NEW f \in Fd, NEW p \in Port,
             ClientAdded(c, q, f, p)
      PROVE  R!Next
  BY <1>4, ClientAddedAccepts
<1>5. ASSUME NEW f \in Fd, NEW c \in Cell,
             ResponseForwarded(f, c) \/ FreedForwards(f, c)
      PROVE  R!Next
  BY <1>5, ResponseForwardedReplies, FreedForwardsReplies
<1>6. CASE \/ EpollWait \/ ReadFails \/ TimePasses
           \/ \E b \in BackSteps : ClockSetBack(b)
           \/ \E q \in Query, f \in Fd : Answer(q, f)
           \/ \E f \in Fd : StrayDatagram(f)
           \/ \E f \in Fd, c \in Cell : \/ NothingToRead(f, c)
                                        \/ ResponseDiscarded(f, c)
                                        \/ FreedGoesNowhere(f, c)
                                        \/ FreedDiscards(f, c)
           \/ UNCHANGED vars
  <2>1. UNCHANGED <<unsent, inq, cell, clis, answers>>
    BY <1>6 DEF EpollWait, ReadFails, TakeListen, TimePasses, ClockSetBack, Answer,
                StrayDatagram, Deliver, NothingToRead, ResponseDiscarded,
                TakeResponse, FreedGoesNowhere, FreedDiscards, FreedReads,
                TakeFreed, vars, tableVars, netVars
  <2>2. QED
    BY <2>1, StatusSame
<1>7. QED
  BY <1>1, <1>2, <1>3, <1>4, <1>5, <1>6
  DEF Next, Loop, ReadFromClient, HandleDnsResponse, StaleDispatch, Environment,
      Exited

\* As long as a client can be put on the list, the proxy implements the relay:
\* whichever other calls fail, however answers are repeated or delayed, and
\* whatever is called through freed blocks, a query is taken up once and answered
\* at most once, while it is pending or after it was given up (net.c:
\* read_from_client, handle_dns_response, check_timeout).
THEOREM ProxyImplementsRelay ==
  ASSUME "list" \notin Faults
  PROVE  Spec => ImplementsRelay
<1>1. Init => R!Init
  BY DEF Init, R!Init, Status
<1>2. QED
  BY <1>1, BatchInvariant, StepImplementsRelay, PTL
  DEF Spec, ImplementsRelay, R!Spec

-----------------------------------------------------------------------------
(* The clock the handlers use.                                               *)

\* The first tick, which finds the clock beyond CronInterval, sets last_check;
\* from then on t and the clock are read in the same tick.
ClockInv ==
  /\ IInv
  /\ last_check >= 0
  /\ last_check = 0 => last_tick = StartTime
  /\ last_check # 0 => last_tick <= clock

LEMMA ClockStep ==
  ASSUME ClockInv, [Next]_vars
  PROVE  /\ ClockInv'
         /\ phase = "tick" /\ phase' = "serve" /\ last_check' # 0
              => now - clock' <= Interval
<1>1. IInv'
  BY InvariantStep DEF ClockInv
<1>2. /\ now \in Int /\ last_tick \in Int /\ clock \in Int /\ last_check \in Int
      /\ Interval \in Nat /\ CronInterval \in Nat /\ StartTime \in Nat
      /\ CronInterval < StartTime /\ last_check >= 0
      /\ last_check = 0 => last_tick = StartTime
      /\ last_check # 0 => last_tick <= clock
  BY ProxyAssumption DEF ProxyAssumption, ClockInv, IInv, TypeOK
<1>3. CASE Tick
  <2>1. CASE now - last_tick >= Interval
    <3>1. clock' = now /\ last_tick' = now
      BY <1>3, <2>1 DEF Tick, SrvCron
    <3>2. last_check' \in Int /\ last_check' >= 0 /\ last_check' # 0
      <4>1. CASE now - last_check > CronInterval
        <5>1. last_check' = now
          BY <1>3, <2>1, <3>1, <4>1 DEF Tick, SrvCron
        <5>2. QED
          BY <1>2, <4>1, <5>1
      <4>2. CASE ~(now - last_check > CronInterval)
        <5>1. last_check' = last_check
          BY <1>3, <2>1, <3>1, <4>2 DEF Tick, SrvCron
        <5>2. last_check # 0
          BY <1>2, <2>1, <4>2
        <5>3. QED
          BY <1>2, <5>1, <5>2
      <4>3. QED
        BY <4>1, <4>2
    <3>3. QED
      BY <1>1, <1>2, <3>1, <3>2 DEF ClockInv
  <2>2. CASE ~(now - last_tick >= Interval)
    <3>1. clock' = clock /\ last_tick' = last_tick /\ last_check' = last_check
      BY <1>3, <2>2 DEF Tick
    <3>2. QED
      BY <1>1, <1>2, <2>2, <3>1 DEF ClockInv
  <2>3. QED
    BY <2>1, <2>2
<1>4. CASE EpollWait \/ Environment \/ Exited \/ UNCHANGED vars
  <2>1. /\ UNCHANGED <<clock, last_tick, last_check>>
        /\ ~(phase = "tick" /\ phase' = "serve")
    BY <1>4 DEF EpollWait, Environment, SendQuery, Answer, StrayDatagram, Deliver,
       TimePasses, ClockSetBack, Exited, vars, timeVars
  <2>2. QED
    BY <1>1, <2>1 DEF ClockInv
<1>5. CASE ReadFromClient
  <2>1. TakeListen
    BY <1>5 DEF ReadFromClient, ReadFails, QueryDropped, ClientAdded, RegisterFails,
       ListAddFails, Forward, Receive
  <2>2. UNCHANGED <<clock, last_tick, last_check>> /\ phase = "serve"
    BY <2>1 DEF TakeListen, Take, timeVars
  <2>3. QED
    BY <1>1, <2>2 DEF ClockInv
<1>6. CASE HandleDnsResponse
  <2>1. \E f \in Fd, c \in Cell : Take(<<f, c>>) /\ UNCHANGED timeVars
    BY <1>6 DEF HandleDnsResponse, NothingToRead, ResponseDiscarded,
       ResponseForwarded, StaleDispatch, FreedGoesNowhere, FreedDiscards,
       FreedForwards, FreedReads, TakeFreed, TakeResponse, timeVars
  <2>2. UNCHANGED <<clock, last_tick, last_check>> /\ phase = "serve"
    BY <2>1 DEF Take, timeVars
  <2>3. QED
    BY <1>1, <2>2 DEF ClockInv
<1>7. QED
  BY <1>3, <1>4, <1>5, <1>6 DEF Next, Loop

\* Whatever the wall clock does, from the first tick on the handlers that follow
\* one compute expire_at from a clock that is at most an interval behind, although
\* srv_cron reads it only when event_loop finds that an interval has passed; before
\* the first tick nothing is claimed (srv.c: srv_cron, event.c: event_loop).
THEOREM HandlersSeeFreshClock == Spec => ClockFresh
<1>1. Init => ClockInv
  <2>1. Init => IInv
    BY InitInvariant
  <2>2. QED
    BY <2>1 DEF Init, ClockInv
<1>2. ClockInv /\ [Next]_vars => ClockInv'
  BY ClockStep
<1>3. ClockInv /\ [Next]_vars
        => [phase = "tick" /\ phase' = "serve" /\ last_check' # 0
              => now - clock' <= Interval]_vars
  BY ClockStep
<1>4. QED
  BY <1>1, <1>2, <1>3, PTL DEF Spec, ClockFresh

=============================================================================
