--------------------------- MODULE StartupProofs ---------------------------
(***************************************************************************)
(* Theorems about the way from main to the event loop, for any options,    *)
(* any ports and geo files, and any failures.                              *)
(***************************************************************************)
EXTENDS Startup, GeoLoadProofs

\* The steps before the geo files, and those after them.
Before == {"options", "signals", "su", "epoll", "socket", "regis"}
After  == {"log", "daemon", "loop"}

\* What each step of main has left behind for the next ones.
StartInv ==
  /\ StartTypeOK
  /\ step \in Before => pc = "create"
  /\ step \in After => pc = "done" /\ result = "geo"
  /\ step \in {"regis", "geo"} \cup After =>
       bound # 0 /\ (ids.user # "root" => bound >= FirstFreePort)
  /\ step \in {"geo"} \cup After => epoll = "watching"
  /\ step \in {"daemon", "loop"} => logger = TRUE
  /\ step \notin {"loop", "exited"} => shell = Waiting
  /\ step = "loop" => shell \in {Waiting, 0}
  /\ step = "exited" => shell # Waiting /\ (shell = 0 => pc = "create")

LEMMA SixteenBits == 2^16 = 65536
OBVIOUS

LEMMA ListenedType == StartTypeOK => Listened \in Nat /\ Listened < 65536
<1> SUFFICES ASSUME StartTypeOK PROVE Listened \in Nat /\ Listened < 65536
  OBVIOUS
<1> DEFINE p == opts.port
<1>1. p \in Int
  <2>1. p \in Ports \cup {53}
    BY DEF StartTypeOK, DEFAULT_LISTEN_PORT
  <2> HIDE DEF p
  <2>2. QED
    BY <2>1, StartupAssumption
<1>2. \A n \in Int : n % 65536 \in Nat /\ n % 65536 < 65536
  OBVIOUS
<1>3. Listened = p % 65536
  BY SixteenBits DEF Listened
<1> HIDE DEF p
<1>4. QED
  BY <1>1, <1>2, <1>3

LEMMA StartInvStep == StartInv /\ [StartNext]_startVars => StartInv'
<1> SUFFICES ASSUME StartInv, [StartNext]_startVars PROVE StartInv'
  OBVIOUS
<1> USE DEF Before, After, Waiting, FirstFreePort
<1>1. CASE MainStep
  <2> USE DEF vars, Goes, Exit
  <2>0. UNCHANGED <<pc, result>>
    BY <1>1 DEF MainStep
  <2>1. CASE OptionParse
    BY <2>0, <2>1 DEF OptionParse, StartInv, StartTypeOK
  <2>2. CASE OptionRefused \/ HelpOrVersion \/ SetSigHandlers \/ SetSigHandlersFails
    BY <2>0, <2>2 DEF OptionRefused, HelpOrVersion, SetSigHandlers, SetSigHandlersFails,
                      StartInv, StartTypeOK
  <2>3. CASE SrvSu
    BY <2>0, <2>3 DEF SrvSu, StartInv, StartTypeOK
  <2>4. CASE EventInit \/ EventInitFails \/ CreateUdpSocketFails
    BY <2>0, <2>4 DEF EventInit, EventInitFails, CreateUdpSocketFails, StartInv, StartTypeOK
  <2>5. CASE CreateUdpSocket
    <3>1. Listened \in Nat /\ Listened < 65536
      BY ListenedType DEF StartInv
    <3>2. bound' \in Nat /\ bound' < 65536 /\ bound' # 0 /\ (ids.user # "root" => bound' >= FirstFreePort)
      BY <2>5, <3>1 DEF CreateUdpSocket, MayBind
    <3>3. QED
      BY <2>0, <2>5, <3>2, SixteenBits DEF CreateUdpSocket, StartInv, StartTypeOK
  <2>6. CASE EventRegis \/ EventRegisFails
    BY <2>0, <2>6 DEF EventRegis, EventRegisFails, StartInv, StartTypeOK
  <2>7. CASE GeoLoaded \/ GeoFails \/ GeoAborts
    BY <2>0, <2>7 DEF GeoLoaded, GeoFails, GeoAborts, StartInv, StartTypeOK
  <2>8. CASE LogInit
    <3>1. /\ step = "log" /\ step' = "daemon" /\ logger' = TRUE
          /\ UNCHANGED <<opts, ids, epoll, bound, shell>>
      BY <2>8 DEF LogInit
    <3>2. logger' \in BOOLEAN
      BY <3>1
    <3>3. StartTypeOK'
      BY <3>1, <3>2 DEF StartInv, StartTypeOK
    <3>4. QED
      BY <2>0, <3>1, <3>3 DEF StartInv
  <2>9. CASE LogInitFails \/ Daemon
    BY <2>0, <2>9 DEF LogInitFails, Daemon, StartInv, StartTypeOK
  <2>10. QED
    BY <1>1, <2>1, <2>2, <2>3, <2>4, <2>5, <2>6, <2>7, <2>8, <2>9 DEF MainStep
<1>2. CASE GeoLoadStep
  BY <1>2 DEF GeoLoadStep, serveVars, StartInv, StartTypeOK
<1>3. CASE UNCHANGED startVars
  BY <1>3 DEF startVars, serveVars, vars, StartInv, StartTypeOK
<1>4. QED
  BY <1>1, <1>2, <1>3 DEF StartNext, Starting, Started

\* What is left behind is as it should be in every state of the start.
THEOREM StartInvariant == StartSpec => []StartInv
<1>1. StartInit => StartInv
  <2> SUFFICES ASSUME StartInit PROVE StartInv
    OBVIOUS
  <2>1. StartTypeOK
    <3>1. ids \in [group : {Starter, "user"}, user : {Starter, "user"}]
      BY DEF StartInit
    <3>2. opts \in [user : BOOLEAN, daemon : BOOLEAN,
                   port : Ports \cup {DEFAULT_LISTEN_PORT}]
      BY DEF StartInit
    <3>3. bound \in 0..(2^16 - 1)
      BY SixteenBits DEF StartInit
    <3>4. step = "options" /\ epoll = "none" /\ logger \in BOOLEAN /\ shell = Waiting
      BY DEF StartInit
    <3>5. QED
      BY <3>1, <3>2, <3>3, <3>4 DEF StartTypeOK
  <2>2. step = "options" /\ shell = Waiting /\ pc = "create"
    BY DEF StartInit, Init
  <2>3. QED
    BY <2>1, <2>2 DEF StartInv, Before, After
<1>2. QED
  BY <1>1, StartInvStep, PTL DEF StartSpec

\* What the start does to the files and the table is geo_load, once
\* (srv.c: srv_serve).
THEOREM StartLoadsOnce == StartSpec => Spec
<1>1. StartInit => Init
  BY DEF StartInit
<1>2. [StartNext]_startVars => [Next]_vars
  BY DEF StartNext, Starting, Started, MainStep, GeoLoadStep, Next, startVars
<1>3. QED
  BY <1>1, <1>2, PTL DEF StartSpec, Spec

\* Whatever fails on the way, what is loaded and opened is sound, and the loop is
\* entered with all of it: a watched socket on a port that the process may have, an
\* open log and a table that holds every line, unless a read of a geo file has failed
\* (srv.c: srv_serve).
THEOREM StartStaysSound == StartSpec => []StartSound
<1>1. StartInv /\ LoadInv /\ TypeOK /\ LoadedWhole => StartSound
  <2> SUFFICES ASSUME StartInv, LoadInv, TypeOK, LoadedWhole PROVE StartSound
    OBVIOUS
  <2>1. ASSUME step = "loop" PROVE open = 0
    <3>1. pc = "done"
      BY <2>1 DEF StartInv, After
    <3>2. open = Len(stack) /\ stack = <<>>
      BY <3>1 DEF LoadInv
    <3>3. QED
      BY <3>2
  <2>2. ReadyWhenServing
    BY <2>1 DEF ReadyWhenServing, StartInv, After, LoadedWhole
  <2>3. UserOrPort
    BY DEF UserOrPort, StartInv, After
  <2>4. QED
    BY <2>2, <2>3 DEF StartSound, StartInv
<1>2. QED
  BY <1>1, StartInvariant, StartLoadsOnce, LoadInvariant, TheWholeIsLoaded, PTL

\* A status of 0 is never given for a start that has failed, nor by a daemon that is
\* not serving (srv.c: srv_serve).
THEOREM StatusIsTruthful == StartSpec => []StatusTruthful
<1>1. StartInv => StatusTruthful
  BY DEF StartInv, StartTypeOK, StatusTruthful, Before, After, Waiting
<1>2. QED
  BY <1>1, StartInvariant, PTL

=============================================================================
