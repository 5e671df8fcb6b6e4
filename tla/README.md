# A formal model of fnsproxy

fnsproxy is a DNS proxy: it reads queries from a UDP socket, passes each of
them on to one upstream DNS server through a socket of its own, replaces the
address in the answer according to a *geo file*, and sends the answer to the
requester. This directory holds TLA+ modules that model it, TLC configurations
that check the models on small instances, and TLAPS proofs of the most
important properties for every value of the constants.

    tlc -workers 2 -config proxy.cfg MCProxy     # check one run
    tlapm ProxyProofs.tla                        # check the proofs of a module

`PROJECT.json` lists the components, the runs, a mutant of the model for every
property (each run finds its mutants wrong), the source lines each definition
stands for, the hazards and the theorems.

## 1. Inventory

The program is one process with one thread. Everything that runs after start-up
runs inside `event_loop`.

| component | state it keeps | operations | what is hard about it |
|---|---|---|---|
| event loop (`event.c`) | `evs[]`, `t`, `fd_count`, the epoll set, `added` of each entry | `event_regis`, `event_loop`, `handle` | events are fetched first and served later, the tick runs in between; counting before `epoll_ctl` has succeeded; a clock that may be set back |
| client table and handlers (`net.c`) | a heap block per query (`client_t`), its socket, the requester's address, `expire_at` | `read_from_client`, `handle_dns_response`, `check_timeout`, `delete_client` | seven calls that may fail, each with an unwinding of its own; answers that are late, repeated or stray; blocks, descriptors and ports that are reused at once; a blocking listening socket |
| server (`srv.c`, `main.c`) | `fnsproxy_srv`: clock, last_check, options; the user it runs as | `option_parse`, `srv_init`, `srv_serve`, `srv_su`, `srv_cron` | the order of the start-up steps, what a failure of one leaves, and who is told of it |
| geo loader (`geo.c`) | the table under construction, a stack of included files | `geo_load`, `geo_parse_cidr`, `geo_parse_range`, `geo_unload` | a retry loop of insert and delete; recursion on `include`; giving up halfway |
| radix trie (`radix.c`) | nodes, values, parents | insert, delete, find, free | chains that are created and freed piecewise; failed allocations in between |
| range table (`range.c`) | a vector of ranges per 64K block, the default | insert, delete, get | cutting and splitting at the borders of ranges and blocks; wrap-around of `uint32_t` |
| vector (`vector.c`) | data, count, slots | push, resize | growth that fails |
| client list (`dlist.c`) | a doubly linked list | add, delete, search, iterate | deleting while iterating |
| DNS walk (`dns.c`) | a pointer into the packet | `dns_parse_proxy`, `process_ip` | lengths and names taken from the packet, which may end anywhere |
| log files (`log.c`) | descriptors, the files and their numbered predecessors | `log_write`, `log_rotate` | chains of renames that a crash or a failure may cut off |
| error display, clock reading, build files | - | output, `gettimeofday` | nothing the rest depends on |

How they interact: `event_loop` calls `srv_cron` (the tick) and the handlers by
function pointer; `srv_cron` calls `check_timeout`; the handlers and
`check_timeout` share the client list, the heap, the epoll set and the
descriptors, all through `delete_client` and `event_regis`; the answer handler
calls `dns_parse_proxy`, which looks addresses up in the trie or the range table
that `geo_load` has built before the loop is entered. After that the tables are
only read.

What makes them correct: a client is always reachable by exactly one
registration and freed once; a query is answered at most once, and by an answer
to the same query; the listening socket is never read without a datagram; every
queued query is read; lookups return what the lines of the geo file say; the
address an answer leads to is replaced and nothing else in it; the loop is
entered with everything in place or the start fails and says so; the links of the
client list agree after any deletions; log lines stay in order and only the
oldest are dropped.

The hazards, each at its line and with the properties that cover it, are in
`PROJECT.json`; those no property covers say why.

## 2. Modules

| module | models | with |
|---|---|---|
| `Proxy` | event loop, handlers, cron, kernel objects | `MCProxy`, `proxy*.cfg` |
| `Relay` | abstract: what the proxy promises its requesters | - |
| `ProxyRelay` | the refinement mapping from `Proxy` to `Relay` | `proxy.cfg` |
| `ProxyProofs` | theorems about them | - |
| `GeoLoad`, `GeoLoadProofs` | reading a geo file and the files it includes | `MCGeoLoad`, `geo_load_twice.cfg` |
| `Startup`, `StartupProofs` | from `main` to the event loop, with `GeoLoad` in the middle | `MCStartup`, `startup.cfg` |
| `Radix` | the trie | `MCRadix`, `radix.cfg` |
| `GeoCidr` | the lines of a CIDR file, as calls of `Radix`, which it extends | `MCGeoCidr`, `geo_cidr.cfg` |
| `RadixProofs` | theorems about `Radix` and `GeoCidr` | - |
| `Range`, `RangeProofs` | the range table, called as the lines of a range file do | `MCRange`, `range.cfg` |
| `Dns` | the walk over a DNS answer, byte by byte | - |
| `DnsMessages` | messages, their bytes, and what should become of them | `MCDns`, `dns.cfg` |
| `DnsProofs` | theorems about both | - |
| `Dlist`, `DlistProofs` | the client list, and the loop that deletes from it | `MCDlist`, `dlist.cfg` |
| `LogFiles`, `LogFilesProofs` | writing and rotating the log | `MCLogFiles`, `log.cfg` |

### Proxy

One step is one `epoll_wait`, one tick decision (with the whole cron), or one
handler call. That grain is the program's own: the process has one thread, and
between two such steps only the environment acts. Environment actions are
`SendQuery`, `Answer` (any number of times for a forwarded query, to whichever
socket is now bound to the port it left from), `StrayDatagram`, `TimePasses` and
`ClockSetBack`.

The variables are the program's: `batch` is the unserved part of `evs[]`
(`phase` says whether the tick decision is still to come), `last_tick` is the
loop's `t`, `clock` and `last_check` are `fnsproxy_srv`'s, `cell` is the heap
(`malloc` may return any free block, so that reuse happens), `clis` the list,
`bound`, `rx` and `epoll` are the kernel's view of the upstream sockets,
`fd_count` is `evt.fd_count`. `remains` is what a freed block still holds of its last
client, as far as `handle_dns_response` reads it: the descriptor and the requester.
`answers` is a history variable.

`Next` has one disjunct per path through the code: `EpollWait`, `Tick`, the
outcomes of `read_from_client` (`ReadFails`, `QueryDropped`, `ClientAdded`,
`RegisterFails`, `ListAddFails`), of `handle_dns_response` (`NothingToRead`,
`ResponseDiscarded`, `ResponseForwarded`), and `StaleDispatch`, a call through an
entry whose block has been freed, since the event was fetched or because a failed
list allocation has left its registration behind. `Faults` names the calls that may
fail. `CheckTimeout` carries the comparison of net.c:163 as it is written,
`expire_at > clock`.

What a call through a freed block does is undefined, and `StaleDispatch` is what this
program's own heap may make of it: the call goes nowhere or the process dies
(`FreedGoesNowhere`), or the block still reads as the client it last was, and the
handler serves it (`FreedReads`): it reads from the descriptor that client had, which
may since have been given to another client or have been left open, drops what it has
read (`FreedDiscards`) or sends it to the old requester and takes the descriptor out
of the epoll set and of `fd_count`, whoever owns it now (`FreedForwards`); the block
is not on the list, so that nothing is closed or freed. A block that has been
allocated again is the new client, and is served as such. `MaxReplies` bounds the
answers a requester is sent that way.

In the initial state the clock is that of `srv_init`, which reads it before the
options, the geo file, the log and the daemon: it is as old as these have taken, or
ahead if the clock was set back meanwhile (`StartClocks`).

`NothingToRead` also stands for the other ways in which the handler returns at once:
`recvfrom` fails though a datagram waits, or the event is not `EVENT_RD` (net.c:74),
which a UDP socket that is not connected does not raise by itself.
`set_non_block`, whose result net.c:128 does not look at, is taken to succeed:
`fcntl` gets and sets the flags of a socket that has just been opened.

`Relay` has a status per query (unsent, queued, pending, answered, lost) and
the answers. `ProxyRelay` computes the status from the proxy's variables and
states `ImplementsRelay`. A query the proxy has given up is `lost`; it may still be
answered, once, by a handler that is called through the block it was in, and the relay
promises no more than that.

### GeoLoad

`stack` is the stack of running `geo_load` calls, each in a file at a line;
`content` is what the files hold, any texts, chosen in the initial state. A line
is blank, carried out, rejected, an include, or (`last`) a range that ends in the last
block, at which `range_insert` either returns -1 or never does (`InsertNeverReturns`,
pc `endless`): what carrying a line out means is the matter of `GeoCidr` and `Range`.
A file ends where its text does (`EndOfFile`) or at a read that fails (`ReadFails`):
`fgets` returns NULL for both and geo.c:259 does not ask which it was, so that
the rest of the file is dropped and loading goes on. The history variable `cut`
remembers that this has happened. A call that has opened its file and then
fails closes it and unloads the table (`Unload`), and its caller does the same
with the table it still has a pointer to. What the second `geo_unload` then does
is undefined: the model lets it free the blocks again or read a mode that leads to
the assertion.

### Radix and GeoCidr

A trie node is named by the path of bits from the root, so `left`, `right` and
`parent` need no variables and the state is which nodes are allocated (`nodes`)
and what they hold (`value`). A key and a mask of the code are the path of the
bits the mask keeps. Insert has a path for each place where an allocation may
fail; delete frees the leaf and, going up, each ancestor that has become
useless; `radix_tree_free` is stepwise (`FreeStep`).

`GeoCidr` carries out one line at a time: a line is a verb, what `parse_cidr`
makes of the CIDR and what `inet_aton` makes of the address (`Bad` when they
reject it). It extends `Radix`, so that a line acts by `Insert` and `Delete` themselves;
`FileSpec` is its specification. The retry loop of `geo_parse_cidr` is stepwise. `routes` is a
history of what the file has asked for, against which lookups are compared.

### Range

One step is one round of the loop of `range_insert` or `range_delete`, with `n`
wrapping like the code's `uint32_t`; an address is a block and a low part, as
in `n >> 16` and `n & 0xffff`. The vector of a block is a sequence; the search
from its last entry comes down to the last entry that starts at or before the
end of the new range (`Candidate`). Calls are any; the history variable `careful`
says whether all of them so far have kept clear of the three defects below: no range
in the last block, none before all others of a block, no delete whose last block
would be skipped (`SafeInsert`, `SafeDelete`). What these defects break is stated
as long as `careful` holds; that the calls return is stated of all.

### Startup

`Startup` extends `GeoLoad` and runs it as one of the steps of `srv_serve`. Each
step has an action that carries it out and, where the code looks at the result,
one that ends the process (`Exit`); where it does not look (`srv_su`, `daemon`) the
failure leaves the state as it is and the next step follows. `shell` is the exit
status the caller gets, from the process or, once `daemon` has forked, from its
parent. What the options say is reduced to whether there is a user, whether to
daemonize, and the port.

### Dns and DnsMessages

The packet is a sequence of bytes and `p` the offset of the code's pointer: the
walk is about bytes and lengths, and this is the one model that keeps them. One
step is one round of the loop. `reads` is the set of offsets the step has read,
for `InBounds`. `Dns` takes any packets (`Packet`) and any table (`Geo`, what
`geo_get` answers); `DnsMessages` says what the bytes of a message are and what
message the requester should get, as a reference for the walk: it works on
records and never on bytes. Its messages are any `WellFormed` ones: the records of the
three sections one after the other, with the number of each in the header; an owner name is
text, a pointer, or part text and part pointer (`Written`, `Pointer`, `Partial`), of any length;
counts, types and lengths are two bytes.

### Dlist

`prev`, `next`, `head`, `tail` and `len` are the program's, nodes are addresses,
and a node that has been freed keeps nothing, so that following a stale pointer
shows. `order` is a history of what the calls should have made of the list, the
reference the links are compared with. The loop is that of `check_timeout`, its
body `delete_client` with the search and the search's iterator, or nothing. That
the search has no memory for its iterator ends the process (dlist.c:261); the
model says `"crashed"`.

### LogFiles

Lines are numbered and sizes counted in lines. `path.i` is the file `i` and
`path` itself the file `LogNumber`, so that the files in the order of their
numbers should be the log. A step is a system call that changes something, so that the process can
die between any two (`Crash`); then it is started again with what is on disk.
The results of `rename` and `write` fail as the code lets them, unnoticed.

## 3. What the runs check

A property that is the conjunction of named parts has its parts in brackets; there is a mutant
for each part.

| run | instance | shows |
|---|---|---|
| `proxy` | 3 queries, 2 blocks, 2 descriptors, 2 ports, queues of 2, batches of 2 events, the clock may be set back, every call but the list allocation may fail | `TypeOK`, `ReportedAlive`, `ListenNeverBlocks`, `AnsweredOnce`, `HandlersKeepBatch`, `ClockFresh`, `ImplementsRelay` |
| `proxy_all` | 3 queries, 3 blocks, 2 descriptors, 2 ports, queues of 1, batches of any size, every call may fail | `QueriesAccounted`, `ClientsServed`, `OrphansOnlyByFailure`, `FdCountDrift`, `RepliesMatch` |
| `proxy_live` | fairness of the loop | `DatagramsRead` (`QueriesRead`, `ResponsesRead`) |
| `radix` | 2-bit keys, two values and 0, failing allocations | `TreeSound` (`TypeOK`, `WellRooted`), `FindIsLongestMatch`, `LookupsIsolated`, `NoDeadLeaf`, `FreedInTheEnd` |
| `geo_cidr` | two addresses and 0.0.0.0 over 2-bit prefixes, failing allocations | `LinesRespected`, `RetryDecides` (`SecondTryDecides`, `RepeatedRouteReplaced`) |
| `range` | 3 blocks of 3 addresses, any 2 calls or 3 careful ones, failing allocations | `TableSound` (`TypeOK`, `Ordered`), `CallsContained` (`OutsideUntouched`, `DeleteOnlyClears`), `CallsTakeEffect` (`InsertSetsAll`, `DeleteUndoesInsert`), `CallsReturn` (`OthersReturn`, `EndlessNeverSucceeds`) |
| `startup` | 2 files of up to 2 lines, each of which may be missing or stop being readable, 3 descriptors; ports 53, 5353, 0 and 65589; started by root; every step may fail | `StartSound` (`GeoLoad`'s `TypeOK` and `LoadedWhole`, `StartTypeOK`, `ReadyWhenServing`, `UserOrPort`), `StatusTruthful`, `FilesClosed`, `NothingAfterUnload`, `StartEnds` |
| `dns` | up to 3 records in one or two sections, types of one and two bytes, 5 names of every kind, lengths that are wrong, up to 20 bytes missing (61,184 states) | `WalkSound` (`TypeOK`, `InBounds`), `AnswersTranslated` (`AddressTranslated`, `NothingElseChanged`), `RoundsAdvance`, `Returns` |
| `dlist` | 3 nodes, 3 values, loops in both directions | `ListSound` (`TypeOK`, `WellLinked`, `IndexCountsBothWays`), `NodesFreedOnce` (`IteratorsOnList`, `DestroyFreesAll`), `LoopsVisitAll` (`LoopReturnsAll`, `OnlyReturnedDeleted`), `LoopsEnd` |
| `log` | 3 numbered files, files full beyond one line, 14 lines, 3 crashes or failing calls | `InOrder`, `FilesSound` (`TypeOK`, `SizeBounded`, `AppendsToCurrent`), `OldestDropped` (`OnlyFileZeroDropped`, `DroppedIsOld`) |

Two runs are expected to be violated; each shows that the code disagrees with
what its comments say of it:

| run | property | what the code does |
|---|---|---|
| `proxy_early` | `NoEarlyTimeout` | net.c:163 compares the wrong way round: the first check drops a client whose `READ_TIMEOUT` has not passed (and no check drops one whose timeout has passed) |
| `geo_load_twice` | `ModeKnown` | geo.c:279, 303-304: a failed included file unloads the table, and so does the file that includes it |

Other defects are carried by the models as the code has them, and the properties
say what holds beside them:

- geo.c:190: a `default` line of a CIDR file is parsed as a CIDR after it has been
  recognised, and fails, and with it the file (`GeoCidr!BadLine`).
- range.c:177: a range before all others of its block is pushed behind them,
  after which an overlap with a later one is no longer noticed; range.c:50: an
  insert up to the last block wraps around, starts over at 0.0.0.0 and need not
  return; range.c:214: the step of a delete lacks the mask range.c:50 has, and
  skips the last block when the low part of start is above that of end. Without
  `careful` TLC shows the first and the third as violations of `Ordered` and
  `DeleteUndoesInsert`. `CallsReturn` says which calls the second keeps from returning:
  all that reach the last block, but for the deletes that skip it and the
  inserts that meet a clash or find no memory.
- geo.c:285: with `-r` a line of the geo file that reaches 255.255.255.255 is such a
  call, and the start never ends; `StartEnds` names that way of not ending.
- geo.c:259: a read error is taken for the end of the file, and the loop is entered
  with the lines before it only: `LoadedWhole` and `ReadyWhenServing` claim the whole
  only without one (`~cut`).
- srv.c:69: the user is changed before the socket is bound, so that `-u` and the
  default port exclude each other: `UserOrPort` says what is left. A `srv_su` that
  fails, perhaps between `setgid` and `setuid`, leaves the server running as it is.
- main.c:75, net.c:38: a port above 65535 is taken modulo 65536.
- log.c:73: a crash in the middle of the renames leaves a free number among the
  files; the next file goes there, and the log is no longer in the order of the
  numbers. A rename that fails (log.c:77) lets the next one replace the file left behind. `InOrder`
  holds up to such an event (`cut`), `OnlyFileZeroDropped` in all others.
- log.c:80: the rotation that finds all names taken moves them down and then
  lets the full file grow by a line.
- dns.c:59: a name that is part text, part pointer is scanned for a zero byte,
  and the type is read where that ends: the address of such an answer is not
  replaced. `NothingElseChanged` says that no harm is done to it, nor to the others,
  as long as the type of a record behind such a name is in 1..255 (`Readable`); when it
  is another, the type's own bytes or later ones are taken for the end of the name, and
  what follows, perhaps an address that is none, may be replaced.
- dns.c:57-70: the numbers of records in the header are not read, so that the walk goes
  on into the authority and additional sections: where an answer has only aliases, an
  address that follows in these is replaced. `Translated` has it so (`Decisive`).
- dlist.c:261: without memory for its iterator a search ends the process; `LoopsEnd` takes
  that (`"crashed"`) for an end and does not speak against it.
- net.c:143-152: a failed registration leaves the socket open, a failed list allocation
  the registration too, which from then on names a freed block: `OrphansOnlyByFailure`
  says that only these leave a socket behind, and `StaleDispatch` what the
  registration leads to.
- event.c:61: the entry is counted before `epoll_ctl` has succeeded, so that `fd_count` is
  not the number of registrations: `FdCountDrift` says that it is that of open sockets,
  until a freed block is served.

One consequence of what `proxy_early` shows is worth a word: since the cron runs between
`epoll_wait` and the handlers, the clients it deletes may be named in the batch
that is about to be served. `StaleDispatch` is what then happens: another client's
answer may be read and sent to the wrong requester, and that client's socket be taken out
of the epoll set, so that it waits for its answer in vain. `ClientsServed`,
`FdCountDrift` and `RepliesMatch` hold of all steps but these (`ServesFreed`), and say so
in as many words; `AnsweredOnce`, `ImplementsRelay`, `OrphansOnlyByFailure` and
`QueriesAccounted` hold of these too. `HandlersKeepBatch` says that no handler does to the
batch what the tick does, and `ReportedAlive` that the batch is sound when it is
fetched, before the tick.

`ReportedAlive`, `HandlersKeepBatch`, `AnsweredOnce` and `ImplementsRelay` are false of the
code when the list allocation fails: the registration left behind names a free block,
which may be given to another client, or be left behind by a second failure; then two
registrations lead to the same block, and its requester is answered through both. That is
the one fault the run `proxy` leaves out.

**Bounds, and why they are enough.** *Proxy*: one query more than there are
descriptors makes sockets run out and be reused; two ports let two clients hold
different ports or one after the other the same; a receive queue of two holds an
answer and its repetition or a stray datagram; time up to 6 with a read timeout
of 3 lets a client be created, expire and outlive its timeout. In `proxy` the two blocks
are reused soon after they are freed, in `proxy_all` they are as
many as the queries, so that allocation is never the bound. Two answers sent through freed
blocks are one more than `AnsweredOnce` allows (`MaxReplies`). `MaxTime`, `MaxRx`, `MaxReplies`
and the finite `Query` are the bounds on what would be unbounded. *Radix*: two
bits give a node with both children, a chain of two nodes to create in part and
to cut in part, and a root. *GeoCidr*: two bits again,
as the lines only add the retry loop. *Range*: three addresses per block is the
least that can be split into three ranges, two usable blocks make the middle and the
last round of the loop differ, and three calls suffice for a split followed by a
delete and another insert (`MaxLines`); two suffice for a call to meet what one that
is not careful has left (`MaxMixed`). *GeoLoad*, *Startup*: two files make every
cycle and, with three descriptors, an include of an include and a cycle that runs
into the limit; two lines put something before or after an include, or a second
include after a first. Of the ports one is root's, one is not, one is 0 and one is
root's only modulo 65536. A range line up to the last block is one of the kinds of lines,
and a read may fail at each of them. *Dns*: two aliases before an address make the loop go
round twice at any place, the record they lead to is in the answer or the additional
section, of 256 and the types above some are a known type modulo 256, and twenty bytes off the end cut through every field of the
last record and into the one before. *Dlist*: three nodes have a first, a middle and a last
one, each of which the loop may delete. *LogFiles*: three numbered files make
two renames, so that a crash or failure can lie between; 14 lines fill all
files and rotate twice more; three faults leave room for a failure, a crash and another. Symmetry is used on sets of model values
that are not ordered, and never with a liveness property.

**Deadlock** is checked in every run. Where the program really stops the model
has a stuttering disjunct that says so: `Exited`, `Freed`, `Failed`, `Ended`, `Started`,
`Returned`, and `Done` of `Range` and `LogFiles`, where the bound on the calls or lines is reached.

**Fairness.** `Proxy!FairSpec` assumes weak fairness of `Loop`, the process
itself: it is one thread that never waits but in `epoll_wait` with a timeout
(that the listening socket, which is blocking, is no exception is
`ListenNeverBlocks`). Nothing is assumed of the environment, of time or of any
single handler. That a ready socket is served in the end follows from
`epoll_wait` reporting every ready descriptor, `MaxEvents` being at least their
number in `proxy_live`. `Radix!FairSpec` and `Range!FairSpec` assume that a call which
has begun runs on, which is true of sequential code; that memory runs out is not
part of it, so that no call is shown to return only because it fails.
`InsertNeverReturns` of `GeoLoad` is a step from which there is none, not a step that
is never taken: `StartEnds` has to name it. `Startup!StartSpec`, `Dns!FairSpec` and `Dlist!FairSpec` say the same of start-up,
of the walk over a packet and of the calls on the list (`Proceed`: whether another call is made is
left open). `LogFiles` needs no fairness.

## 4. What is proved

For every value of the constants that meets the assumptions of the module:
`ProxyAssumption` (finite sets of blocks and descriptors, any set of queries and
ports, any timeouts, any `Faults`), `GeoLoadAssumption`, `StartupAssumption` (any
ports and options), `DnsAssumption` (any packets of bytes, any table of four-byte
addresses), `MessageAssumption` (any well-formed messages, cut off anywhere), `PacketAssumption`
(the packets are their bytes), `RadixAssumption` (keys of any width, any values, with or without
failing allocations), `RangeAssumption` (any number and size of blocks), `DlistAssumption`
(a finite memory, any clients) and `LogAssumption` (any number and size of files,
any number of lines, crashes and failures).

| theorem | states |
|---|---|
| `TypeCorrect` | `Spec => []TypeOK` |
| `QueriesAlwaysAccounted` | `Spec => []QueriesAccounted` |
| `ClientsAlwaysServed` | `Spec => ClientsServed` |
| `OrphansOnlyFromFailures` | `Spec => OrphansOnlyByFailure` |
| `FdCountKeepsStep` | `Spec => FdCountDrift` |
| `NoMisdeliveryWithoutReuse` | `Spec => RepliesMatch` |
| `ListenSocketNeverBlocks` | `Spec => []ListenNeverBlocks` |
| `HandlersSeeFreshClock` | `Spec => ClockFresh`, for any timeouts, ticks and clocks |
| `ReportsAreAlive`, `HandlersKeepTheBatch` | `ReportedAlive`, `HandlersKeepBatch`, if the list allocation does not fail |
| `AtMostOneAnswer` | `AnsweredOnce`, if the list allocation does not fail |
| `ProxyImplementsRelay` | `ImplementsRelay`, the refinement, if the list allocation does not fail |
| `NoFileStaysOpen` | `Spec => []FilesClosed` of `GeoLoad`, for any files, texts and includes |
| `NoLineAfterUnload` | `Spec => NothingAfterUnload` of `GeoLoad` |
| `TheWholeIsLoaded` | `Spec => [](TypeOK /\ LoadedWhole)` of `GeoLoad`: all lines, unless a read has failed |
| `StartLoadsOnce` | `StartSpec => Spec`: `Startup` implements `GeoLoad` |
| `StartStaysSound`, `StatusIsTruthful` | `StartSpec => []StartSound`, `StartSpec => []StatusTruthful` |
| `TreeStaysSound` | `Spec => []TreeSound` of `Radix`, for keys of any width |
| `LookupsAreExact` | `Spec => []FindIsLongestMatch`: a lookup finds the longest stored prefix |
| `CallsStayIsolated`, `DeletesLeaveNoDeadLeaf` | `Spec => LookupsIsolated`, `Spec => NoDeadLeaf` |
| `LinesCallTheTrie` | `FileSpec => Spec`: the lines of a CIDR file only do to the trie what its calls do |
| `LinesAreRespected` | `FileSpec => []LinesRespected` of `GeoCidr`, for any lines |
| `SecondRoundDecides` | `FileSpec => RetryDecides` |
| `RangesKeepToBlocks` | `Spec => []TypeOK` of `Range`, for any calls |
| `TableStaysSound` | `Spec => []TableSound`: in order as long as the calls are careful |
| `CallsStayContained`, `CallsDoTakeEffect` | `Spec => CallsContained`, `Spec => CallsTakeEffect`, which say so too |
| `EndlessCallsNeverSucceed` | `Spec => EndlessNeverSucceeds`: what `CallsReturn` says of the calls that reach the last block |
| `ListStaysSound`, `NodesAreFreedOnce` | `Spec => []ListSound`, `Spec => []NodesFreedOnce` of `Dlist` |
| `LoopVisitsAll` | `Spec => LoopsVisitAll`, for a list of any length |
| `LinesStayInOrder`, `OldestFirst` | `Spec => []InOrder`, `Spec => OldestDropped` of `LogFiles` |
| `FilesStaySound` | `Spec => []FilesSound`, if there are at least two names |
| `WalkStaysInPacket` | `Spec => []WalkSound` of `Dns`, for any packet |
| `RoundsGoForward` | `Spec => RoundsAdvance` of `Dns`, for any packet |
| `AddressesAreTranslated` | `Spec => []AnswersTranslated` of `DnsMessages`, for any messages and any cut |

The condition on `Faults` is that of run `proxy`; section 3 says why the four properties
are false without it.

**The argument.** None of the properties of `Proxy` is inductive: to see that a client
has not been answered one must know that its query is held by no other block, that no
query returns to the listening socket once read, and that the receive queue of
a client's socket holds only answers to queries that left from its port. The
inductive invariant `IInv` of `ProxyProofs` is the conjunction of `TypeOK`,
`ClientsListed`, `ReadOnce` and `RoutedByPort`; it holds whatever fails and whatever is
called through freed blocks. The proofs have one lemma for each group of actions (time
and network, handlers that change nothing in the table, `DeleteClients`,
`ClientAdded`, the failing registrations, `ResponseForwarded`, the calls through freed
blocks) and combine them in `InvariantStep`. `OrphansOnlyByFailure` and `FdCountDrift`
follow from which sockets a step opens, closes or disowns, the second by counting with the
library's facts on cardinality; `ClientsServed` and `RepliesMatch` from `StepKinds`, which
tells the steps that touch a registration or send an answer from the others.

`AnsweredOnce` needs more, since freed blocks are served: `BatchInv` strengthens `IInv` by
what the batch refers to. While no list allocation fails, a registration names a live
client whose descriptor it is (`Registered`), a batch has one event for each block
(`OneEventPerBlock`), and the requester that a freed block of the batch still names has had
no answer (`FreedUnanswered`): the cron frees only clients that have had none, and the
one event that could reach the block is gone when it has been served.
`StepImplementsRelay` shows under `BatchInv` that each action maps to one step of `Relay` or
to a stutter; a tick maps to `Lose` of the set of queries whose clients it deletes, and an
answer sent through a freed block to `Reply` of a query that was lost. `ClockFresh` needs
`ClockInv`: from the first tick on, which finds the clock beyond `CronInterval` and sets
`last_check`, the loop's `t` is never ahead of the clock, so that a tick that is not due
finds the clock recent, and one that is due reads it.

For `GeoLoad` the invariant `LoadInv` says that there is an open file for each
running call and that, once the table is freed, only failing calls are left on
the stack. `LoadedWhole` compares what has been applied with the whole expansion
of the files, if no read has failed, and says nothing before the end: `WholeInv` says of every state that
there is an account of it (`Accounts`), for each running call the sequence of what
its lines so far have carried out, the last of them ending in the account of the
call it is waiting for. The expansion is a recursive function over a depth that
grows with the include; that such functions exist is shown from the least number
at which one would not (`Levels`, `Sums`).

`Startup` runs `GeoLoad` as one of its steps, and its other steps leave the
variables of `GeoLoad` alone. So its behaviours are behaviours of `GeoLoad`
(`StartLoadsOnce`), and the theorems about `GeoLoad` hold of them; `StartInv`
adds what each step of `main` has left behind for those after it.

For `Radix` the invariant `RadixInv` is `TreeSound` with the node named at which
`radix_tree_free` stands; what it takes is reasoning about paths. A node on the way to
an allocated one is allocated and, unless it is the last, has a child (`Ancestors`).
Hence the nodes freed with a leaf are closed downwards (`FreedFacts`), and no node that
stays can have lost an ancestor: the deepest one lost would have its child lost too.
That the walk of `radix_tree_free` comes to a leaf follows from the longest of the
paths it may go down (`LeafBelowFound`). A lookup stops where a node is missing
(`ReachedFound`); a value stored further on would need that node (`WalkMeetsAll`), so
that what the walk meets is all that is stored for the key, and the two action
properties follow from which value a call sets (`OneValueSet`, `MatchIsolated`) and
from the loop having gone up as far as it can (`LeafLeavesNoDead`).

A CIDR file does to the trie what its calls do (`FileStep`), so that `RadixInv` and
the theorems above hold of the trie it fills. `FileInv` compares what is stored with
what the file has asked for: the same between two lines and in the first round of the
retry loop, less the route of the line in its second. Why there is no third round is
in its last part: a second insert finds no value in its way, so that it fails only for
want of a node, and the delete after it then finds none and gives up.
`LinesRespected` then is `LookupsAreExact`.

For `Range` there is a lemma for each of the things a call does to the vector of
a block, whatever the vector is: a range cut into another and what is left of it
on either side (`PiecesDivide`, `PlacedInBlock`), the first range of a block
(`PushedFirst`), one taken out (`RemovedValue`), and the invalid entry that a
failed split leaves (`PushedInvalid`). Each says what the vector then holds, that it
is in order, and which addresses are looked up differently. The invariant
`RangeInv` adds to the types where the loop is (`Loop`: in a block of the call or
just behind, never wrapped), that nothing is pushed before other ranges in the blocks
ahead (`Room`), and what has been done in the blocks behind (`Inserted`,
`Undone`); `LoopFacts` turns the code's comparisons of addresses into
comparisons of blocks. `Types` holds of any calls and `RangeInv` of careful ones, since the
code breaks it otherwise (section 3); a call that is not careful ends `careful` for good
(`CarefulLasts`). `EndlessCallsNeverSucceed` needs only where the loop is.

For `Dlist` the invariant `ListInv` keeps `order`, the list as it should be,
beside the links, and `Looping` says how far the loop of `check_timeout` has come:
what it has returned is the first part of the list it began with, in its
direction, and what it has not is on the list unchanged, at the end it is going to.
The links after a call are shown from positions in the list (`At`), one lemma for
each of the calls.

For `LogFiles` the invariant `LogInv` says which file is open in which phase,
where the renames of a rotation have come to (`Shifting`), and that there is no gap among the
names unless a rotation has been cut off (`NoGap`). `Sizes` bounds each
file by what may still be added in the phase it is in. `FilesStaySound` needs
`LogNumber > 1`: `log_init` also takes 1 (the server passes `LOG_FILE_NUM`, 10),
and then the shift renames nothing and the one file grows without a bound.

For `Dns` the invariant `WalkInv` adds to `TypeOK` where the pointer is in each
phase: at the question behind the header, in the loop never before it, and at an
address with twelve bytes of the packet ahead. That the pointer, taken one back
after a name, still has a whole record ahead of it (`NameSkipped`) follows from
where a scan for a zero byte can end (`ScanEnds`), and that from the least element
of a set of offsets.

`AddressesAreTranslated` relates that walk over bytes to records. A message is its
`Opening` and its records one after the other; `FlattenSeq` is a recursive function,
and what it computes is the last of its `Sums`, the first records joined, whose
existence is shown like that of GeoLoad's. So the record `k` begins at the offset
`Off(m, k)` and every byte of a packet is one of its records' (`MessageLaid`,
`PacketBytes`). From there a lemma each says what the walk reads of an owner's name,
written, pointer or part of both (`NameRead`), of the type and length behind it
(`RoundRead`) and of an address (`AddressRead`). The invariant `AnswersInv` says, of a
truthful and readable message, at which of its records the walk is, all before it being aliases,
and that nothing is overwritten before it returns. `TranslatedBytes` says which bytes of the
message that should come out differ from those that came in: the four of the first
record that is no alias, when it is an address the table has. Where the
packet ends a name is not scanned to its end, so that a type of two bytes may be misread
there (`Astray`); no address fits behind it any more, and the record is none that is to be
replaced (`AstrayHarmless`). The types, counts
and lengths are any words, the names, data, number of records in each section and cut any.

**Only model-checked:** liveness (`QueriesRead`, `ResponsesRead`, `FreedInTheEnd`,
`CallsReturn`, `StartEnds`, `Returns`, `LoopsEnd`), which is out of the
prover's reach, as it needs `ENABLED`. Every other property of the passing runs is
a theorem's, some under the conditions the table names. The two violations are
counterexamples of TLC's.

## 5. What is not modelled

`errdsp.c`, `range_dump`, `boot_notify` and the build files only write text;
`times.c` is the variable `now` of `Proxy`. In `Proxy` an answer is the name of
the query it belongs to, so that the rewriting of `Dns` does not show there.
Parsing of numbers and addresses is reduced to whether it succeeds; the address
listened on plays no part, which leaves out that net.c:36 does not look at
`inet_aton`. The log is modelled with one file, as the program asks for it: the
file per level of `LOG_MULTI_YES` and `log_close` are not reached, nor are
`event_stop`, `EVENT_WR` and `EPOLL_CTL_MOD`, `srv_destroy`, the vector's iterator,
and `dlist_dup`, `dlist_create` and `dlist_free`. A line of the log of which only
a part could be written counts as a line. Data races do not exist: there is one thread.

## 6. Plan

Done: all modules of section 2, and theorems about each for every safety and action
property. What is left is not planned: liveness, which stays with TLC; the five hazards
without a property, each of which says why in `PROJECT.json`: four are in the models, and
the code does go wrong there (the fall-through at geo.c:190, as `BadLine`; the two of
range.c that end `careful`; the search without memory of dlist.c:261), and the result of
`inet_aton` that net.c:36 ignores plays no part in any state modelled; and the paths of section 5 that this
program does not reach.
