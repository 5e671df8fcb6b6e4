------------------------------- MODULE Proxy -------------------------------
(***************************************************************************)
(* The running proxy: the single-threaded event loop of src/event.c, the   *)
(* handlers of src/net.c it dispatches to, the cron of src/srv.c it ticks, *)
(* and the kernel objects they share (descriptors, epoll registrations,    *)
(* receive queues).                                                        *)
(*                                                                         *)
(* A query datagram is read from the listening socket, a client_t is       *)
(* allocated for it, and the query is sent to the upstream server through  *)
(* a fresh UDP socket.  When the answer arrives on that socket it is sent  *)
(* to the requester and the client_t is deleted.  The cron deletes clients *)
(* by their expire_at.                                                     *)
(*                                                                         *)
(* One step is one epoll_wait, one tick, or one handler call: nothing else *)
(* runs in the process between them, while datagrams arrive and time       *)
(* passes between any two of them.                                         *)
(***************************************************************************)
EXTENDS Integers, FiniteSets, Sequences

CONSTANTS
  Query,         \* the query datagrams that may be sent to the proxy
  Cell,          \* heap blocks that malloc may return for a client_t
  Fd,            \* descriptors left to the process for upstream sockets
  Port,          \* ephemeral ports the kernel may bind such a socket to
  MaxRx,         \* datagrams a socket's receive buffer holds
  MaxEvents,     \* entries of evs[], 512 in event_loop
  Interval,      \* DEFAULT_EVENT_INTERVAL
  CronInterval,  \* CRON_INTERVAL
  ReadTimeout,   \* READ_TIMEOUT
  StartTime,     \* wall clock when the loop is entered
  MaxTime,       \* bound on the wall clock
  MaxReplies,    \* bound on the answers a requester gets through freed blocks
  BackSteps,     \* amounts by which the wall clock may be set back
  Faults,        \* the system calls and allocations that may fail
  Nil,           \* a free block, a closed descriptor, no registration
  Listen,        \* the listening socket, as descriptor and as data.ptr
  Stray          \* a datagram that does not come from the DNS server

FaultKinds ==
  {"malloc", "recvfrom", "socket", "sendto", "epoll_ctl", "list", "reply",
   "epoll_wait"}

Client == [fd : Fd, cli : Query, expire_at : Int]

\* What handle_dns_response reads through a client_t: its descriptor, and the
\* requester it answers.
Remnant == [fd : Fd, cli : Query]

ASSUME ProxyAssumption ==
  /\ MaxRx \in Nat \ {0} /\ MaxEvents \in Nat \ {0}
  /\ Interval \in Nat /\ CronInterval \in Nat /\ ReadTimeout \in Nat
  /\ StartTime \in Nat /\ MaxTime \in Nat /\ CronInterval < StartTime
  /\ BackSteps \subseteq Nat /\ MaxReplies \in Nat
  /\ Faults \subseteq FaultKinds
  /\ IsFiniteSet(Cell) /\ IsFiniteSet(Fd)
  /\ Nil \notin Query \cup Cell \cup Fd \cup Port \cup Client \cup Remnant
  /\ Listen \notin Cell \cup Fd \cup {Nil}
  /\ Stray \notin Query

VARIABLES
  phase,       \* where event_loop is: "tick" after epoll_wait, else "serve"
  batch,       \* evs[]: the reported <<descriptor, data.ptr>> still to serve
  now,         \* gettimeofday
  last_tick,   \* event_loop's t
  clock,       \* fnsproxy_srv.clock
  last_check,  \* fnsproxy_srv.last_check
  cell,        \* the heap: the client_t in each block, Nil when free
  remains,     \* what a free block still holds of the last client_t in it
  clis,        \* fnsproxy_srv.clis: blocks on the client list
  bound,       \* port of each open upstream socket, Nil when closed
  rx,          \* receive queue of each upstream socket
  epoll,       \* data.ptr registered for each descriptor, Nil when none
  fd_count,    \* fnsproxy_srv.evt.fd_count
  inq,         \* queries waiting in the listening socket
  unsent,      \* queries no requester has sent yet
  portOf,      \* port from which each query was forwarded, Nil when not
  answers      \* history: the answers sent to each query's requester

tableVars  == <<cell, remains, clis, bound, rx, epoll, fd_count>>
timeVars   == <<now, last_tick, clock, last_check>>
netVars    == <<inq, unsent, portOf, answers>>
vars == <<phase, batch, timeVars, tableVars, netVars>>

Event  == (Fd \X Cell) \cup {<<Listen, Listen>>}

MayFail(call) == call \in Faults

-----------------------------------------------------------------------------
(* The environment: requesters, the upstream server, time.                 *)

SendQuery(q) ==
  /\ q \in unsent
  /\ unsent' = unsent \ {q}
  /\ inq' = inq \cup {q}
  /\ UNCHANGED <<phase, batch, timeVars, tableVars, portOf, answers>>

Deliver(f, d) ==
  /\ bound[f] # Nil
  /\ Len(rx[f]) < MaxRx
  /\ rx' = [rx EXCEPT ![f] = Append(@, d)]
  /\ UNCHANGED <<phase, batch, timeVars, netVars,
                 cell, remains, clis, bound, epoll, fd_count>>

\* The server answers q, any number of times and as late as it likes; the
\* answer reaches whichever socket is now bound to the port q came from.
Answer(q, f) == portOf[q] # Nil /\ bound[f] = portOf[q] /\ Deliver(f, q)

StrayDatagram(f) == Deliver(f, Stray)

TimePasses ==
  /\ now < MaxTime
  /\ now' = now + 1
  /\ UNCHANGED <<phase, batch, last_tick, clock, last_check,
                 tableVars, netVars>>

\* gettimeofday is not monotonic: an administrator or NTP may set it back.
ClockSetBack(b) ==
  /\ b <= now
  /\ now' = now - b
  /\ UNCHANGED <<phase, batch, last_tick, clock, last_check,
                 tableVars, netVars>>

-----------------------------------------------------------------------------
(* The client table.                                                       *)

\* (a bug: delete_client forgets the descriptor)
FdsOfForgotten(C) == {}

FdsOf(C) == {cell[c].fd : c \in C}

\* (a bug: EVENT_DEL does not count down)
CountAddedOnly(n) == fd_count' = fd_count + (IF n > 0 THEN n ELSE 0)

\* event_regis counts n more (or fewer) entries, whether or not the epoll_ctl
\* that follows succeeds.
CountEntries(n) == fd_count' = fd_count + n

\* What free leaves of a client_t.
WhatRemains(k) == [fd |-> k.fd, cli |-> k.cli]

\* delete_client for every client of C: the registration goes first; only a
\* client found on the list is unlinked, closed and freed.
DeleteClients(C) ==
  LET listed == C \cap clis IN
  /\ CountEntries(-Cardinality(C))
  /\ epoll' = [f \in Fd |-> IF f \in FdsOf(C) THEN Nil ELSE epoll[f]]
  /\ clis'  = clis \ listed
  /\ bound' = [f \in Fd |-> IF f \in FdsOf(listed) THEN Nil ELSE bound[f]]
  /\ rx'    = [f \in Fd |-> IF f \in FdsOf(listed) THEN <<>> ELSE rx[f]]
  /\ cell'  = [c \in Cell |-> IF c \in listed THEN Nil ELSE cell[c]]
  /\ remains' =
       [c \in Cell |-> IF c \in listed THEN WhatRemains(cell[c]) ELSE remains[c]]

\* check_timeout walks the whole list and deletes the clients it selects.
Selected(time) == {c \in clis : cell[c].expire_at > time}

CheckTimeout == DeleteClients(Selected(clock'))

SrvCron ==
  /\ clock' = now
  /\ IF clock' - last_check > CronInterval
       THEN last_check' = clock' /\ CheckTimeout
       ELSE UNCHANGED <<last_check, tableVars>>

-----------------------------------------------------------------------------
(* event_loop.                                                             *)

\* (a bug: the listening socket is not registered)
UpstreamReady ==
  {<<f, epoll[f]>> : f \in {g \in Fd : epoll[g] # Nil /\ rx[g] # <<>>}}

Ready ==
  {<<f, epoll[f]>> : f \in {g \in Fd : epoll[g] # Nil /\ rx[g] # <<>>}}
    \cup (IF inq = {} THEN {} ELSE {<<Listen, Listen>>})

\* What epoll_wait may report: everything that is ready, or MaxEvents of it.
\* With nothing ready it returns at the interval, or at once on EINTR.
Reports ==
  IF Cardinality(Ready) <= MaxEvents
    THEN {Ready}
    ELSE {E \in SUBSET Ready : Cardinality(E) = MaxEvents}

\* Only what a block still named by a registration holds can matter from here.
EpollWait ==
  /\ phase = "serve" /\ batch = {}
  /\ \/ batch' \in Reports /\ phase' = "tick"
     \/ MayFail("epoll_wait") /\ phase' = "exited" /\ UNCHANGED batch
  /\ remains' =
       [c \in Cell |-> IF \E f \in Fd : epoll[f] = c THEN remains[c] ELSE Nil]
  /\ UNCHANGED <<timeVars, cell, clis, bound, rx, epoll, fd_count, netVars>>

\* (a bug: t moves on with every round, whether it ticks or not)
TickTimeMovesOn ==
  /\ phase = "tick"
  /\ phase' = "serve"
  /\ last_tick' = now
  /\ IF now - last_tick >= Interval
       THEN SrvCron
       ELSE UNCHANGED <<clock, last_check, tableVars>>
  /\ UNCHANGED <<batch, now, netVars>>

Tick ==
  /\ phase = "tick"
  /\ phase' = "serve"
  /\ IF now - last_tick >= Interval
       THEN SrvCron /\ last_tick' = now
       ELSE UNCHANGED <<last_tick, clock, last_check, tableVars>>
  /\ UNCHANGED <<batch, now, netVars>>

\* (a bug: the dispatch loop may not advance past the event)
TakeAgain(e) ==
  /\ phase = "serve"
  /\ e \in batch
  /\ batch' \in {batch, batch \ {e}}

Take(e) ==
  /\ phase = "serve"
  /\ e \in batch
  /\ batch' = batch \ {e}

-----------------------------------------------------------------------------
(* read_from_client, called for the listening socket whatever the event.   *)

TakeListen == Take(<<Listen, Listen>>) /\ UNCHANGED <<phase, timeVars>>

\* malloc or recvfrom fails: the datagram stays queued.
ReadFails ==
  /\ TakeListen
  /\ \/ MayFail("malloc") \/ MayFail("recvfrom")
     \/ \A c \in Cell : cell[c] # Nil
  /\ UNCHANGED <<tableVars, netVars>>

\* (a bug: the datagram is peeked at and left in the queue)
ReceivePeeking(c, q) ==
  /\ TakeListen
  /\ cell[c] = Nil
  /\ q \in inq
  /\ UNCHANGED <<inq, unsent, answers>>

\* A block is allocated and q received into it.
Receive(c, q) ==
  /\ TakeListen
  /\ cell[c] = Nil
  /\ q \in inq
  /\ inq' = inq \ {q}
  /\ UNCHANGED <<unsent, answers>>

\* socket or the upstream sendto fails: the block is freed, the query is lost.
\* recvfrom has written the requester into the block, over the last one.
QueryDropped(c, q) ==
  /\ Receive(c, q)
  /\ MayFail("socket") \/ MayFail("sendto") \/ \A f \in Fd : bound[f] # Nil
  /\ IF remains[c] = Nil
       THEN UNCHANGED remains
       ELSE remains' =
              [remains EXCEPT ![c] = [fd |-> remains[c].fd, cli |-> q]]
  /\ UNCHANGED <<cell, clis, bound, rx, epoll, fd_count, portOf>>

\* The upstream socket f is open, bound to p by sendto, and q is on its way.
Forward(c, q, f, p) ==
  /\ Receive(c, q)
  /\ bound[f] = Nil
  /\ p \notin {bound[g] : g \in Fd}
  /\ bound' = [bound EXCEPT ![f] = p]
  /\ rx' = [rx EXCEPT ![f] = <<>>]
  /\ portOf' = [portOf EXCEPT ![q] = p]
  /\ CountEntries(1)

\* (a bug: the client is given the listening descriptor)
NewClientOnListen(f, q) ==
  [fd |-> Listen, cli |-> q, expire_at |-> clock + ReadTimeout]

NewClient(f, q) ==
  [fd |-> f, cli |-> q, expire_at |-> clock + ReadTimeout]

\* (a bug: the client's socket is not registered)
ClientAddedUnregistered(c, q, f, p) ==
  /\ Forward(c, q, f, p)
  /\ cell' = [cell EXCEPT ![c] = NewClient(f, q)]
  /\ remains' = [remains EXCEPT ![c] = Nil]
  /\ clis' = clis \cup {c}
  /\ UNCHANGED epoll

ClientAdded(c, q, f, p) ==
  /\ Forward(c, q, f, p)
  /\ epoll' = [epoll EXCEPT ![f] = c]
  /\ cell' = [cell EXCEPT ![c] = NewClient(f, q)]
  /\ remains' = [remains EXCEPT ![c] = Nil]
  /\ clis' = clis \cup {c}

\* epoll_ctl fails: the block is freed, the descriptor stays open.
RegisterFails(c, q, f, p) ==
  /\ MayFail("epoll_ctl")
  /\ Forward(c, q, f, p)
  /\ remains' = [remains EXCEPT ![c] = WhatRemains(NewClient(f, q))]
  /\ UNCHANGED <<epoll, cell, clis>>

\* dlist_add_node_tail fails: the block is freed, its registration stays.
ListAddFails(c, q, f, p) ==
  /\ MayFail("list")
  /\ Forward(c, q, f, p)
  /\ epoll' = [epoll EXCEPT ![f] = c]
  /\ remains' = [remains EXCEPT ![c] = WhatRemains(NewClient(f, q))]
  /\ UNCHANGED <<cell, clis>>

-----------------------------------------------------------------------------
(* handle_dns_response, called with the block named by the event.          *)

TakeResponse(f, c) ==
  /\ Take(<<f, c>>)
  /\ cell[c] # Nil
  /\ UNCHANGED <<timeVars, inq, unsent, portOf>>

Queue(c) == rx[cell[c].fd]

\* (a bug: the requester's address is shared by the clients)
AnyRequester(c) == cell[CHOOSE d \in clis : TRUE].cli

Requester(c) == cell[c].cli

\* recvfrom finds nothing, or fails though a datagram is queued, or the event
\* is not EVENT_RD: the socket is non-blocking, the handler returns.
NothingToRead(f, c) ==
  /\ TakeResponse(f, c)
  /\ Queue(c) = <<>> \/ MayFail("recvfrom")
  /\ UNCHANGED <<phase, tableVars, answers>>

\* (a bug: a datagram that did not come from the server is only peeked at)
ResponseDiscardedUnread(f, c) ==
  /\ TakeResponse(f, c)
  /\ Queue(c) # <<>>
  /\ Head(Queue(c)) = Stray \/ MayFail("reply")
  /\ UNCHANGED <<phase, tableVars, answers>>

\* The datagram is read and the client kept: it did not come from the server,
\* or the sendto to the requester failed.
ResponseDiscarded(f, c) ==
  /\ TakeResponse(f, c)
  /\ Queue(c) # <<>>
  /\ Head(Queue(c)) = Stray \/ MayFail("reply")
  /\ rx' = [rx EXCEPT ![cell[c].fd] = Tail(@)]
  /\ UNCHANGED <<phase, cell, remains, clis, bound, epoll, fd_count, answers>>

\* (a bug: the client survives its answer)
ResponseForwardedKept(f, c) ==
  /\ TakeResponse(f, c)
  /\ Queue(c) # <<>>
  /\ Head(Queue(c)) # Stray
  /\ answers' = [answers EXCEPT ![Requester(c)] = Append(@, Head(Queue(c)))]
  /\ rx' = [rx EXCEPT ![cell[c].fd] = Tail(@)]
  /\ UNCHANGED <<phase, cell, remains, clis, bound, epoll, fd_count>>

\* (a bug: the handler checks the other clients' timeouts too)
ResponseForwardedReaping(f, c) ==
  /\ TakeResponse(f, c)
  /\ Queue(c) # <<>>
  /\ Head(Queue(c)) # Stray
  /\ answers' = [answers EXCEPT ![Requester(c)] = Append(@, Head(Queue(c)))]
  /\ DeleteClients({c} \cup Selected(clock))
  /\ UNCHANGED phase

ResponseForwarded(f, c) ==
  /\ TakeResponse(f, c)
  /\ Queue(c) # <<>>
  /\ Head(Queue(c)) # Stray
  /\ answers' = [answers EXCEPT ![Requester(c)] = Append(@, Head(Queue(c)))]
  /\ DeleteClients({c})
  /\ UNCHANGED phase

-----------------------------------------------------------------------------
(* The event names a block that was freed after epoll_wait reported it, or  *)
(* whose registration outlived it: handle() calls through the ent->f of a   *)
(* free block, which is undefined.  The call goes nowhere and the process   *)
(* dies, or the block reads as a client whose descriptor has nothing to     *)
(* read, or it still is the client it last was, and the handler serves it.  *)

TakeFreed(f, c) ==
  /\ Take(<<f, c>>)
  /\ cell[c] = Nil
  /\ UNCHANGED <<timeVars, cell, remains, clis, bound, inq, unsent, portOf>>

FreedGoesNowhere(f, c) ==
  /\ TakeFreed(f, c)
  /\ phase' \in {"serve", "exited"}
  /\ UNCHANGED <<rx, epoll, fd_count, answers>>

\* The descriptor may be open: never closed, or given to another client since.
FreedReads(f, c) ==
  /\ TakeFreed(f, c)
  /\ remains[c] # Nil
  /\ rx[remains[c].fd] # <<>>
  /\ rx' = [rx EXCEPT ![remains[c].fd] = Tail(@)]
  /\ UNCHANGED phase

FreedDiscards(f, c) ==
  /\ FreedReads(f, c)
  /\ Head(rx[remains[c].fd]) = Stray \/ MayFail("reply")
  /\ UNCHANGED <<epoll, fd_count, answers>>

\* The last requester of the block is answered.  delete_client deregisters the
\* descriptor, whoever has it, and does not find the block on the list.
FreedForwards(f, c) ==
  /\ FreedReads(f, c)
  /\ Head(rx[remains[c].fd]) # Stray
  /\ Len(answers[remains[c].cli]) < MaxReplies
  /\ answers' = [answers EXCEPT ![remains[c].cli] =
                   Append(@, Head(rx[remains[c].fd]))]
  /\ epoll' = [epoll EXCEPT ![remains[c].fd] = Nil]
  /\ CountEntries(-1)

StaleDispatch(f, c) ==
  \/ FreedGoesNowhere(f, c)
  \/ FreedDiscards(f, c)
  \/ FreedForwards(f, c)

-----------------------------------------------------------------------------
\* srv_init reads the clock before the options, the geo file, the log and the
\* daemon; the loop is entered any time later, or after the clock was set back.
StartClocks == 0..StartTime \cup {StartTime + b : b \in BackSteps}

Init ==
  /\ phase = "serve" /\ batch = {}
  /\ now = StartTime /\ last_tick = StartTime
  /\ clock \in StartClocks /\ last_check = 0
  /\ cell = [c \in Cell |-> Nil] /\ clis = {}
  /\ remains = [c \in Cell |-> Nil]
  /\ bound = [f \in Fd |-> Nil] /\ rx = [f \in Fd |-> <<>>]
  /\ epoll = [f \in Fd |-> Nil] /\ fd_count = 1
  /\ inq = {} /\ unsent = Query
  /\ portOf = [q \in Query |-> Nil] /\ answers = [q \in Query |-> <<>>]

ReadFromClient ==
  \/ ReadFails
  \/ \E c \in Cell, q \in Query :
       \/ QueryDropped(c, q)
       \/ \E f \in Fd, p \in Port :
            \/ ClientAdded(c, q, f, p)
            \/ RegisterFails(c, q, f, p)
            \/ ListAddFails(c, q, f, p)

HandleDnsResponse ==
  \E f \in Fd, c \in Cell :
    \/ NothingToRead(f, c)
    \/ ResponseDiscarded(f, c)
    \/ ResponseForwarded(f, c)
    \/ StaleDispatch(f, c)

Loop == EpollWait \/ Tick \/ ReadFromClient \/ HandleDnsResponse

Environment ==
  \/ \E q \in Query : SendQuery(q)
  \/ \E q \in Query, f \in Fd : Answer(q, f)
  \/ \E f \in Fd : StrayDatagram(f)
  \/ TimePasses
  \/ \E b \in BackSteps : ClockSetBack(b)

\* Once the process has exited only the environment moves.
Exited == phase = "exited" /\ UNCHANGED vars

Next == Loop \/ Environment \/ Exited

Spec == Init /\ [][Next]_vars

\* The process keeps running its loop; nothing is assumed of the environment.
FairSpec == Spec /\ WF_vars(Loop)

-----------------------------------------------------------------------------
(* Properties.                                                             *)

\* Every variable has its type; a free descriptor has an empty queue.
TypeOK ==
  /\ phase \in {"tick", "serve", "exited"}
  /\ batch \subseteq Event
  /\ now \in Int /\ last_tick \in Int /\ clock \in Int /\ last_check \in Int
  /\ cell \in [Cell -> Client \cup {Nil}]
  /\ remains \in [Cell -> Remnant \cup {Nil}]
  /\ clis \subseteq Cell
  /\ bound \in [Fd -> Port \cup {Nil}]
  /\ rx \in [Fd -> Seq(Query \cup {Stray})]
  /\ epoll \in [Fd -> Cell \cup {Nil}]
  /\ fd_count \in Int
  /\ inq \subseteq Query /\ unsent \subseteq Query
  /\ portOf \in [Query -> Port \cup {Nil}]
  /\ answers \in [Query -> Seq(Query)]

\* The step calls a handler through a block that was free already.
ServesFreed ==
  /\ phase = "serve"
  /\ \E e \in batch \ batch' : e[1] \in Fd /\ cell[e[2]] = Nil

\* The blocks on the client list are exactly the allocated ones; each has an
\* open socket of its own, registered for no other block.
ClientsListed ==
  /\ clis = {c \in Cell : cell[c] # Nil}
  /\ \A c \in clis :
       /\ bound[cell[c].fd] # Nil
       /\ epoll[cell[c].fd] \in {c, Nil}
  /\ \A c, d \in clis : cell[c].fd = cell[d].fd => c = d

\* Whichever calls fail, the list holds the allocated clients, each with an
\* open socket of its own, which is registered when the client is added and
\* stays so until the client is deleted, unless a handler called through a
\* freed block deregisters the descriptor it last had (net.c: read_from_client,
\* delete_client).
ClientsServed ==
  /\ []ClientsListed
  /\ [][\A c \in clis' :
          (c \notin clis \/ epoll[cell[c].fd] = c) /\ ~ServesFreed
            => epoll'[cell'[c].fd] = c]_vars

\* Open upstream sockets that are no client's: nothing will close them.
Orphans == {f \in Fd : bound[f] # Nil /\ \A c \in clis : cell[c].fd # f}

\* An upstream socket is orphaned only by a read_from_client whose registration
\* or list allocation fails after the socket was opened, and then that one
\* socket, for good: neither the cron, nor an answer, nor a handler called
\* through a freed block leaves a socket behind (net.c: the error paths of
\* read_from_client, delete_client).
OrphansOnlyByFailure ==
  [][\/ Orphans' = Orphans
     \/ /\ <<Listen, Listen>> \in batch \ batch'
        /\ MayFail("epoll_ctl") \/ MayFail("list")
        /\ clis' = clis
        /\ \E f \in Fd : bound[f] = Nil /\ Orphans' = Orphans \cup {f}]_vars

\* Sockets, the listening one included, that fd_count does not count.
Uncounted == 1 + Cardinality({f \in Fd : bound[f] # Nil}) - fd_count

\* fd_count counts the open sockets, those whose registration failed included,
\* and falls behind by one only when a handler called through a freed block
\* counts an entry out a second time: no other sequence of failed and completed
\* calls makes it drift (event.c: event_regis, net.c: delete_client).
FdCountDrift ==
  [][\/ Uncounted' = Uncounted
     \/ Uncounted' = Uncounted + 1 /\ ServesFreed]_vars

\* An event still names the client it was raised for.
Live(e) == e[1] \in Fd => cell[e[2]] # Nil /\ cell[e[2]].fd = e[1]

\* Every event epoll_wait has just reported names a live client.
ReportedAlive == phase = "tick" => \A e \in batch : Live(e)

\* A handler never invalidates another event of the batch it is called from:
\* only the tick between epoll_wait and the handlers can (event.c: event_loop).
HandlersKeepBatch ==
  [][phase = "serve" => \A e \in batch \cap batch' : Live(e) => Live(e)']_vars

\* The listening socket is blocking: its handler is only ever called with a
\* datagram waiting, or the whole proxy would stall in recvfrom (net.c:
\* read_from_client).
ListenNeverBlocks == <<Listen, Listen>> \in batch => inq # {}

\* srv_cron reads the clock on every tick, so from the first tick on, which
\* sets last_check, the handlers compute expire_at from a clock at most
\* Interval behind, whatever the wall clock does; before it, the clock is as
\* old as srv_init (srv.c: srv_cron, event.c: event_loop).
ClockFresh ==
  [][phase = "tick" /\ phase' = "serve" /\ last_check' # 0
       => now - clock' <= Interval]_vars

\* Each requester gets at most one answer per query, whatever the server
\* repeats, with every call but the list allocation free to fail and handlers
\* called through freed blocks (net.c: handle_dns_response, delete_client).
AnsweredOnce == \A q \in Query : Len(answers[q]) <= 1

\* Unless it is sent by a handler called through a freed block, an answer is
\* the first its requester gets, and one to a query that left from the same
\* ephemeral port: descriptors and blocks are reused freely, the transaction id
\* is never compared (net.c: handle_dns_response).
RepliesMatch ==
  [][\A q \in Query :
       answers'[q] # answers[q] /\ ~ServesFreed
         => \E a \in Query :
              /\ answers[q] = <<>> /\ answers'[q] = <<a>>
              /\ portOf[a] = portOf[q]]_vars

\* The query a block holds, or held last: that of the client, or the one
\* recvfrom left behind.
HeldBy(c) == IF cell[c] # Nil THEN cell[c].cli
             ELSE IF remains[c] # Nil THEN remains[c].cli ELSE Nil

\* A query is in one place: with its requester, in the listening socket, or
\* read into one block; nothing is answered before it is read, nor a client
\* kept that has been answered.
ReadOnce ==
  /\ unsent \cap inq = {}
  /\ \A q \in unsent \cup inq : portOf[q] = Nil /\ answers[q] = <<>>
  /\ \A c \in Cell : HeldBy(c) \notin unsent \cup inq
  /\ \A c, d \in Cell : HeldBy(c) # Nil /\ HeldBy(c) = HeldBy(d) => c = d
  /\ \A c \in clis : answers[cell[c].cli] = <<>>

\* A client listens on the port its query left from, and a socket holds only
\* stray datagrams and answers to queries that left from its port.
RoutedByPort ==
  /\ \A c \in clis : portOf[cell[c].cli] = bound[cell[c].fd]
  /\ \A f \in Fd : bound[f] = Nil => rx[f] = <<>>
  /\ \A f \in Fd : \A i \in 1..Len(rx[f]) :
       rx[f][i] # Stray => portOf[rx[f][i]] = bound[f]

\* No query is duplicated or mixed up between the listening socket, the clients,
\* the freed blocks and the sockets, whichever calls fail and however blocks,
\* descriptors and ports are reused (net.c: read_from_client,
\* handle_dns_response, delete_client).
QueriesAccounted == ReadOnce /\ RoutedByPort

\* Every query datagram the listening socket has queued is read, unless the
\* process exits (event.c: level-triggered epoll_wait).
QueriesRead == \A q \in Query : (q \in inq) ~> (q \notin inq \/ phase = "exited")

\* A full receive queue of a registered socket is read from, or the socket is
\* closed or deregistered (net.c: handle_dns_response).
Unread(f) == epoll[f] # Nil /\ Len(rx[f]) = MaxRx
ResponsesRead == \A f \in Fd : Unread(f) ~> (~Unread(f) \/ phase = "exited")

\* READ_TIMEOUT (net.c:18): the cron deletes no client before its expire_at.
NoEarlyTimeout ==
  [][\A c \in Cell :
       phase = "tick" /\ cell[c] # Nil /\ cell'[c] = Nil
         => cell[c].expire_at <= clock']_vars

\* Whichever socket the datagrams wait in, the loop comes to them (event.c:
\* event_loop).
DatagramsRead == QueriesRead /\ ResponsesRead

=============================================================================
