------------------------------ MODULE Startup ------------------------------
(***************************************************************************)
(* From main to the event loop: option_parse and set_sig_handlers of       *)
(* src/main.c, and srv_serve of src/srv.c with the change of user, the     *)
(* listening socket, the geo files (GeoLoad), the log and the daemon, each *)
(* of which may fail.                                                      *)
(***************************************************************************)
EXTENDS GeoLoad

CONSTANTS
  Ports,      \* numbers that may be given for -p
  Privileged  \* whether root starts the server

DEFAULT_LISTEN_PORT == 53

\* Ports below it are root's.
FirstFreePort == 1024

ASSUME StartupAssumption ==
  /\ Ports \subseteq Int
  /\ Privileged \in BOOLEAN

VARIABLES
  step,   \* where main is; "loop" in event_loop, "exited"
  opts,   \* fnsproxy_srv.user is set, .daemon, .port
  ids,    \* whom the process runs as
  epoll,  \* "none", "made", or "watching" the listening socket
  bound,  \* the port of the listening socket, 0 without one
  logger, \* log_has_init
  shell   \* the status the shell that started the server sees, Waiting until then

serveVars == <<step, opts, ids, epoll, bound, logger, shell>>
startVars == <<vars, serveVars>>

Waiting == -1

Starter == IF Privileged THEN "root" ELSE "starter"

Goes(from, to) == step = from /\ step' = to /\ UNCHANGED shell

\* (a bug: a failure is reported, and the server goes on)
ExitIgnored(from, next) ==
  step = from /\ step' = next /\ UNCHANGED <<opts, ids, epoll, bound, logger, shell>>

\* err_notify or usage, and exit(1) in place of the next step.
Exit(from, next) ==
  /\ step = from /\ step' = "exited" /\ shell' = 1
  /\ UNCHANGED <<opts, ids, epoll, bound, logger>>

\* The options of the command line, each of which may come to an exit(1).
OptionParse ==
  /\ Goes("options", "signals")
  /\ \E u, d \in BOOLEAN, p \in Ports \cup {DEFAULT_LISTEN_PORT} :
       opts' = [user |-> u, daemon |-> d, port |-> p]
  /\ UNCHANGED <<ids, epoll, bound, logger>>

OptionRefused == Exit("options", "signals")

HelpOrVersion ==
  /\ step = "options" /\ step' = "exited" /\ shell' = 0
  /\ UNCHANGED <<opts, ids, epoll, bound, logger>>

SetSigHandlers == /\ Goes("signals", "su")
                  /\ UNCHANGED <<opts, ids, epoll, bound, logger>>

SetSigHandlersFails == Exit("signals", "su")

\* (a bug: the user is changed once the socket is made)
SrvSuLate ==
  /\ \/ Goes("su", "epoll") /\ UNCHANGED ids
     \/ /\ step = "geo" /\ opts.user
        /\ ids' = [group |-> "user", user |-> "user"]
        /\ UNCHANGED <<step, shell>>
  /\ UNCHANGED <<opts, epoll, bound, logger>>

\* srv_su: whichever of getpwnam, setgid and setuid fails, srv_serve goes on.
SrvSu ==
  /\ Goes("su", "epoll")
  /\ \/ UNCHANGED ids
     \/ opts.user /\ ids' = [ids EXCEPT !.group = "user"]
     \/ opts.user /\ ids' = [group |-> "user", user |-> "user"]
  /\ UNCHANGED <<opts, epoll, bound, logger>>

EventInit ==
  /\ Goes("epoll", "socket")
  /\ epoll' = "made"
  /\ UNCHANGED <<opts, ids, bound, logger>>

EventInitFails == Exit("epoll", "socket")

\* (a bug: the number is taken as it is)
ListenedWide == opts.port

\* htons keeps 16 bits of the number; bind to port 0 takes a free port.
Listened == opts.port % 2^16

MayBind == Listened = 0 \/ Listened >= FirstFreePort \/ ids.user = "root"

CreateUdpSocket ==
  /\ MayBind
  /\ Goes("socket", "regis")
  /\ bound' = IF Listened = 0 THEN FirstFreePort ELSE Listened
  /\ UNCHANGED <<opts, ids, epoll, logger>>

\* (a bug: bind is tried again until it succeeds)
CreateUdpSocketRetried == step = "socket" /\ ~MayBind /\ UNCHANGED serveVars

CreateUdpSocketFails == Exit("socket", "regis")

EventRegis ==
  /\ Goes("regis", "geo")
  /\ epoll' = "watching"
  /\ UNCHANGED <<opts, ids, bound, logger>>

EventRegisFails == Exit("regis", "geo")

GeoLoadStep == step = "geo" /\ Load /\ UNCHANGED serveVars

GeoLoaded ==
  /\ pc = "done" /\ result = "geo"
  /\ Goes("geo", "log")
  /\ UNCHANGED <<opts, ids, epoll, bound, logger>>

GeoFails == pc = "done" /\ result = "NULL" /\ Exit("geo", "log")

\* The second geo_unload has ended the process.
GeoAborts ==
  /\ step = "geo" /\ pc = "aborted"
  /\ step' = "exited" /\ shell' = 134
  /\ UNCHANGED <<opts, ids, epoll, bound, logger>>

LogInit ==
  /\ Goes("log", "daemon")
  /\ logger' = TRUE
  /\ UNCHANGED <<opts, ids, epoll, bound>>

LogInitFails == Exit("log", "daemon")

\* (a bug: the daemon is started first of all, and its parent exits with 0)
DaemonEarly ==
  /\ \/ step = "signals" /\ UNCHANGED step
     \/ step = "daemon" /\ step' = "loop"
  /\ \/ ~opts.daemon /\ UNCHANGED shell
     \/ opts.daemon /\ shell' = 0
  /\ UNCHANGED <<opts, ids, epoll, bound, logger>>

\* daemon(1, 1) forks, and the parent exits with 0; when it cannot, the server
\* stays in the foreground and says nothing.
Daemon ==
  /\ step = "daemon" /\ step' = "loop"
  /\ \/ UNCHANGED shell
     \/ opts.daemon /\ shell' = 0
  /\ UNCHANGED <<opts, ids, epoll, bound, logger>>

StartInit ==
  /\ Init
  /\ step = "options"
  /\ opts = [user |-> FALSE, daemon |-> FALSE, port |-> DEFAULT_LISTEN_PORT]
  /\ ids = [group |-> Starter, user |-> Starter]
  /\ epoll = "none" /\ bound = 0 /\ logger = FALSE /\ shell = Waiting

MainStep ==
  /\ \/ OptionParse \/ OptionRefused \/ HelpOrVersion
     \/ SetSigHandlers \/ SetSigHandlersFails
     \/ SrvSu
     \/ EventInit \/ EventInitFails
     \/ CreateUdpSocket \/ CreateUdpSocketFails
     \/ EventRegis \/ EventRegisFails
     \/ GeoLoaded \/ GeoFails \/ GeoAborts
     \/ LogInit \/ LogInitFails
     \/ Daemon
  /\ UNCHANGED vars

Starting == MainStep \/ GeoLoadStep

Started == /\ step \in {"loop", "exited"} \/ pc = "endless"
           /\ UNCHANGED startVars

StartNext == Starting \/ Started

\* One process, which runs main without waiting for anybody.
StartSpec == StartInit /\ [][StartNext]_startVars /\ WF_startVars(Starting)

-----------------------------------------------------------------------------
(* Properties.                                                              *)

\* The process runs as root, as the starter or as the user asked for, and
\* what it has opened are an epoll instance and a socket on a 16-bit port.
StartTypeOK ==
  /\ step \in {"options", "signals", "su", "epoll", "socket", "regis", "geo",
               "log", "daemon", "loop", "exited"}
  /\ opts \in [user : BOOLEAN, daemon : BOOLEAN,
               port : Ports \cup {DEFAULT_LISTEN_PORT}]
  /\ ids \in [group : {Starter, "user"}, user : {Starter, "user"}]
  /\ epoll \in {"none", "made", "watching"}
  /\ bound \in 0..(2^16 - 1)
  /\ logger \in BOOLEAN
  /\ shell \in {Waiting, 0, 1, 134}

\* The event loop is entered only with everything its handlers use in place:
\* a watched socket, an open log and a table that holds every line of the geo
\* files, unless a read of one has failed (srv.c: srv_serve).
ReadyWhenServing ==
  step = "loop" =>
    /\ epoll = "watching" /\ bound # 0 /\ logger
    /\ result = "geo" /\ table = "live" /\ open = 0
    /\ ~cut => applied = Expansion[Main]

\* The user is changed before the socket is made: who serves on one of root's
\* ports, such as the default one, serves as root, so -u is of no use there
\* (srv.c: srv_serve, srv_su).
UserOrPort ==
  step = "loop" /\ ids.user # "root" => bound >= FirstFreePort

\* A status of 0 means that help or the version was asked for, or that the
\* daemon is serving; a start that fails says so, daemon or not, although the
\* file errors are found last (srv.c: srv_serve).
StatusTruthful ==
  /\ shell = 0 => step = "loop" \/ (step = "exited" /\ pc = "create")
  /\ step = "exited" => shell # Waiting
  /\ step = "exited" /\ pc # "create" => shell # 0

\* Whatever the options, the files and the failures, the server comes to serve
\* or the process ends, although a geo file may include itself, unless it is
\* caught in the insert of a range that ends in the last block; nothing else
\* keeps the start from ending (main.c: main, geo.c: geo_load, fopen).
StartEnds == <>(step \in {"loop", "exited"} \/ pc = "endless")

\* What is so far loaded and opened is sound, and whole and in the right hands
\* when the loop is entered (srv.c: srv_serve).
StartSound ==
  TypeOK /\ StartTypeOK /\ LoadedWhole /\ ReadyWhenServing /\ UserOrPort

=============================================================================
