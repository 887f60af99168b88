----------------------------- MODULE ServerMain -----------------------------
(***************************************************************************)
(* The main thread of server/aesdsocket.c and its signals: the set-up of   *)
(* the socket, daemonize, the accept loop, and signal_handler, which runs  *)
(* on top of main, of another handler or of a connection's thread.         *)
(* AesdSocket has what the connections' threads do; here one stands for    *)
(* all of them: it logs, and it opens and closes files.                    *)
(*                                                                         *)
(* syslog has a lock: a handler that interrupts its holder and logs waits  *)
(* for ever.  Each signal comes once.  A handler keeps its own signal out  *)
(* and no other (sa_mask is empty).                                        *)
(***************************************************************************)
EXTENDS Integers, SequencesExt

CONSTANTS
  Signals,      \* SIGINT and SIGTERM
  Main, Thread, \* who runs handlers, and holds syslog's lock
  NoHolder,     \* nobody holds it
  MaxFd,        \* bound on the descriptor table
  ClosedAtStart,\* which of 0, 1, 2 the parent may have closed: a set of sets
  SetupFaults   \* what may fail

Actors == {Main, Thread}
SetupFaultSites == {"getaddrinfo", "socket", "setsockopt", "bind", "fork",
                    "setsid", "chdir", "listen", "accept"}

ASSUME SetupAssumption ==
  /\ Main # Thread /\ (Actors \cup {NoHolder}) \cap Signals = {}
  /\ NoHolder \notin Actors /\ MaxFd \in Nat /\ MaxFd > 3
  /\ ClosedAtStart \subseteq SUBSET (0 .. 2)
  /\ SetupFaults \subseteq SetupFaultSites /\ IsFiniteSet(Signals)

VARIABLES
  at,          \* where main is
  daemon_mode, servinfo, server_fd, terminated,  \* as in the code
  connected,   \* a connection was accepted: there is a thread
  table,       \* the descriptor table
  stack,       \* the handlers on top of main and of the thread, newest last
  handler,     \* where each signal's handler is
  by,          \* history: who has run it
  log_holder,  \* who is in syslog
  stolen       \* history: a thread's descriptor was closed behind its back

config     == <<daemon_mode, servinfo, connected>>
fd_table   == <<table, stolen>>
handlers   == <<terminated, stack, handler, by>>
serverVars == <<at, config, server_fd, fd_table, handlers, log_holder>>

MainFds == 0 .. MaxFd

NothingDone ==
  /\ daemon_mode = FALSE
  /\ servinfo = "none" /\ server_fd = -1 /\ terminated = FALSE
  /\ connected = FALSE
  /\ table = [n \in MainFds |-> IF n < 3 THEN "inherited" ELSE "closed"]
  /\ stack = [x \in Actors |-> <<>>]
  /\ handler = [s \in Signals |-> "none"]
  /\ by = [s \in Signals |-> NoHolder]
  /\ log_holder = NoHolder /\ stolen = FALSE

ServerInit == at = "parse" /\ NothingDone

MainMoves(l, next) == stack[Main] = <<>> /\ at = l /\ at' = next

CanFail(call) == call \in SetupFaults

HasRoom == \E n \in MainFds : table[n] = "closed"

FreeFd == Min({n \in MainFds : table[n] = "closed"})

IsSocket == server_fd \in MainFds /\ table[server_fd] = "socket"

\* close(server_fd), whatever that number is by now.
CloseServer ==
  /\ table' = [n \in MainFds |-> IF n = server_fd THEN "closed" ELSE table[n]]
  /\ stolen' = (stolen \/ (server_fd \in MainFds /\ table[server_fd] = "thread"))

-----------------------------------------------------------------------------
\* main: setting up.

Parse ==
  /\ MainMoves("parse", "getaddrinfo")
  /\ daemon_mode' \in BOOLEAN
  /\ \E closed \in ClosedAtStart :
       table' = [n \in MainFds |-> IF n \in closed THEN "closed" ELSE table[n]]
  /\ UNCHANGED <<servinfo, connected, server_fd, stolen, handlers, log_holder>>

\* A call that has failed is logged, then undone.
SetupFails ==
  /\ \/ at \in {"getaddrinfo", "socket", "setsockopt", "bind", "listen"}
          /\ CanFail(at) /\ MainMoves(at, "fail")
     \/ at \in {"setsockopt", "bind", "listen"}
          /\ ~IsSocket /\ MainMoves(at, "fail")
     \/ at \in {"fork", "setsid", "chdir"} /\ CanFail(at) /\ MainMoves(at, "die")
  /\ UNCHANGED <<config, server_fd, fd_table, handlers, log_holder>>

GetAddress ==
  /\ MainMoves("getaddrinfo", "socket") /\ servinfo' = "live"
  /\ UNCHANGED <<daemon_mode, connected, server_fd, fd_table, handlers,
                 log_holder>>

MakeSocket ==
  /\ MainMoves("socket", "setsockopt")
  /\ server_fd' = FreeFd /\ table' = [table EXCEPT ![FreeFd] = "socket"]
  /\ UNCHANGED <<config, stolen, handlers, log_holder>>

SetOption ==
  /\ MainMoves("setsockopt", "bind") /\ IsSocket
  /\ UNCHANGED <<config, server_fd, fd_table, handlers, log_holder>>

BindSocket ==
  /\ MainMoves("bind", IF daemon_mode THEN "fork" ELSE "listen") /\ IsSocket
  /\ servinfo' = "freed"
  /\ UNCHANGED <<daemon_mode, connected, server_fd, fd_table, handlers,
                 log_holder>>

\* daemonize: the child goes on, in a new session, at the root.
Daemonize ==
  /\ \/ MainMoves("fork", "setsid") \/ MainMoves("setsid", "chdir")
     \/ MainMoves("chdir", "close_std")
  /\ UNCHANGED <<config, server_fd, fd_table, handlers, log_holder>>

CloseStd ==
  /\ MainMoves("close_std", "open_null")
  /\ table' = [n \in MainFds |-> IF n < 3 THEN "closed" ELSE table[n]]
  /\ UNCHANGED <<config, server_fd, stolen, handlers, log_holder>>

\* /dev/null three times, each at the lowest number that is free.
OpenNull ==
  /\ MainMoves("open_null", "listen")
  /\ table' = [n \in MainFds |-> IF n < 3 THEN "null" ELSE table[n]]
  /\ UNCHANGED <<config, server_fd, stolen, handlers, log_holder>>

\* Nobody looks at what listen returns.
BugListen ==
  /\ MainMoves("listen", "test")
  /\ UNCHANGED <<config, server_fd, fd_table, handlers, log_holder>>

Listen ==
  /\ MainMoves("listen", "test") /\ IsSocket
  /\ UNCHANGED <<config, server_fd, fd_table, handlers, log_holder>>

\* close and freeaddrinfo, of what there is, and return -1.
GiveBack ==
  /\ MainMoves("undo", "exited") /\ CloseServer
  /\ servinfo' = IF servinfo = "live" THEN "freed" ELSE servinfo
  /\ UNCHANGED <<daemon_mode, connected, server_fd, handlers, log_holder>>

-----------------------------------------------------------------------------
\* main: the accept loop.

TestTerminate ==
  /\ MainMoves("test", IF terminated THEN "stop" ELSE "accept")
  /\ UNCHANGED <<config, server_fd, fd_table, handlers, log_holder>>

\* A bad descriptor fails at once; a good one waits for a client.
CallAccept ==
  /\ MainMoves("accept", IF IsSocket THEN "accepting" ELSE "failed")
  /\ UNCHANGED <<config, server_fd, fd_table, handlers, log_holder>>

AcceptClient ==
  /\ MainMoves("accepting", "log_client") /\ HasRoom
  /\ table' = [table EXCEPT ![FreeFd] = "thread"] /\ connected' = TRUE
  /\ UNCHANGED <<daemon_mode, servinfo, server_fd, stolen, handlers,
                 log_holder>>

AcceptFails ==
  /\ MainMoves("accepting", "failed") /\ (CanFail("accept") \/ ~HasRoom)
  /\ UNCHANGED <<config, server_fd, fd_table, handlers, log_holder>>

AfterFailure ==
  /\ MainMoves("failed", IF terminated THEN "stop" ELSE "log_failed")
  /\ UNCHANGED <<config, server_fd, fd_table, handlers, log_holder>>

\* What AesdSocket calls exit from the loop; the rest of main is there.
Stop ==
  /\ MainMoves("stop", "shutdown") /\ CloseServer
  /\ UNCHANGED <<config, server_fd, handlers, log_holder>>

-----------------------------------------------------------------------------
\* syslog, and who calls it.

AfterLog == [fail |-> "undo", die |-> "died",
             log_client |-> "test", log_failed |-> "test"]

EnterSyslog(x) == log_holder = NoHolder /\ log_holder' = x

LeaveSyslog(x) == log_holder = x /\ log_holder' = NoHolder

MainLogs ==
  /\ stack[Main] = <<>> /\ at \in DOMAIN AfterLog
  /\ EnterSyslog(Main)
  /\ UNCHANGED <<at, config, server_fd, fd_table, handlers>>

MainLogged ==
  /\ LeaveSyslog(Main) /\ MainMoves(at, AfterLog[at])
  /\ UNCHANGED <<config, server_fd, fd_table, handlers>>

ThreadRuns == connected /\ stack[Thread] = <<>> /\ at \notin {"exited", "died"}

ThreadLogs ==
  /\ ThreadRuns /\ EnterSyslog(Thread)
  /\ UNCHANGED <<at, config, server_fd, fd_table, handlers>>

ThreadLogged ==
  /\ ThreadRuns /\ LeaveSyslog(Thread)
  /\ UNCHANGED <<at, config, server_fd, fd_table, handlers>>

ThreadOpens ==
  /\ ThreadRuns /\ HasRoom /\ table' = [table EXCEPT ![FreeFd] = "thread"]
  /\ UNCHANGED <<at, config, server_fd, stolen, handlers, log_holder>>

ThreadCloses ==
  /\ ThreadRuns
  /\ \E n \in MainFds : table[n] = "thread"
                          /\ table' = [table EXCEPT ![n] = "closed"]
  /\ UNCHANGED <<at, config, server_fd, stolen, handlers, log_holder>>

-----------------------------------------------------------------------------
\* signal_handler

Deliver(s, x) ==
  /\ handler[s] = "none" /\ at \notin {"exited", "died"}
  /\ x = Thread => connected
  /\ stack' = [stack EXCEPT ![x] = Append(@, s)]
  /\ handler' = [handler EXCEPT ![s] = "log"]
  /\ by' = [by EXCEPT ![s] = x]
  /\ UNCHANGED <<at, config, server_fd, fd_table, terminated, log_holder>>

\* The handler is on top of whoever runs it, and the process is there.
Handles(s, now, next) ==
  /\ handler[s] = now /\ Last(stack[by[s]]) = s
  /\ at \notin {"exited", "died"}
  /\ handler' = [handler EXCEPT ![s] = next]

HandlerLogs(s) ==
  /\ Handles(s, "log", "logging") /\ EnterSyslog(s)
  /\ UNCHANGED <<at, config, server_fd, fd_table, terminated, stack, by>>

HandlerLogged(s) ==
  /\ Handles(s, "logging", "set") /\ LeaveSyslog(s)
  /\ UNCHANGED <<at, config, server_fd, fd_table, terminated, stack, by>>

\* The flag is forgotten: the socket is closed, that should do.
BugHandlerSets(s) ==
  /\ Handles(s, "set", "close")
  /\ UNCHANGED <<at, config, server_fd, fd_table, terminated, stack, by,
                 log_holder>>

HandlerSets(s) ==
  /\ Handles(s, "set", "close") /\ terminated' = TRUE
  /\ UNCHANGED <<at, config, server_fd, fd_table, stack, by, log_holder>>

HandlerCloses(s) ==
  /\ IF server_fd = -1
     THEN Handles(s, "close", "return") /\ UNCHANGED fd_table
     ELSE Handles(s, "close", "clear") /\ CloseServer
  /\ UNCHANGED <<at, config, server_fd, terminated, stack, by, log_holder>>

\* The number stays in the variable.
BugHandlerClears(s) ==
  /\ Handles(s, "clear", "return")
  /\ UNCHANGED <<at, config, server_fd, fd_table, terminated, stack, by,
                 log_holder>>

HandlerClears(s) ==
  /\ Handles(s, "clear", "return") /\ server_fd' = -1
  /\ UNCHANGED <<at, config, fd_table, terminated, stack, by, log_holder>>

\* Behind the last handler on top of main, accept has been interrupted.
HandlerReturns(s) ==
  /\ Handles(s, "return", "done")
  /\ stack' = [stack EXCEPT ![by[s]] = Front(@)]
  /\ at' = IF at = "accepting" /\ stack[Main] # <<>> /\ stack'[Main] = <<>>
           THEN "failed" ELSE at
  /\ UNCHANGED <<config, server_fd, fd_table, terminated, by, log_holder>>

HandlerStep(s) ==
  \/ HandlerLogged(s) \/ HandlerSets(s) \/ HandlerCloses(s)
  \/ HandlerClears(s) \/ HandlerReturns(s)

\* What main does without waiting for a client.
MainMove ==
  \/ Parse \/ SetupFails \/ GetAddress \/ MakeSocket \/ SetOption
  \/ BindSocket \/ Daemonize \/ CloseStd \/ OpenNull \/ Listen \/ GiveBack
  \/ TestTerminate \/ CallAccept \/ AfterFailure \/ Stop \/ MainLogged

ServerNext ==
  \/ MainMove \/ AcceptClient \/ AcceptFails \/ MainLogs
  \/ ThreadLogs \/ ThreadLogged \/ ThreadOpens \/ ThreadCloses
  \/ \E s \in Signals :
       HandlerLogs(s) \/ HandlerStep(s) \/ \E x \in Actors : Deliver(s, x)

\* Main, the thread and handlers run when they can, and who waits for syslog's
\* lock gets it some time.  No client need come.
ServerFairness ==
  /\ WF_serverVars(MainMove) /\ SF_serverVars(MainLogs)
  /\ WF_serverVars(ThreadLogged)
  /\ \A s \in Signals :
       WF_serverVars(HandlerStep(s)) /\ SF_serverVars(HandlerLogs(s))

ServerSpec == ServerInit /\ [][ServerNext]_serverVars

-----------------------------------------------------------------------------

Setup == {"parse", "getaddrinfo", "socket", "setsockopt", "bind", "fork",
          "setsid", "chdir", "close_std", "open_null", "listen"}
Loop  == {"test", "accept", "accepting", "failed", "log_client", "log_failed",
          "stop"}
Gone  == {"shutdown", "exited", "died"}

ServerTypeOK ==
  /\ at \in Setup \cup Loop \cup Gone \cup {"fail", "die", "undo"}
  /\ {daemon_mode, terminated, connected, stolen} \subseteq BOOLEAN
  /\ servinfo \in {"none", "live", "freed"}
  /\ server_fd \in MainFds \cup {-1}
  /\ table \in [MainFds -> {"closed", "inherited", "null", "socket", "thread"}]
  /\ stack \in [Actors -> Seq(Signals)]
  /\ handler \in [Signals -> {"none", "log", "logging", "set", "close",
                              "clear", "return", "done"}]
  /\ by \in [Signals -> Actors \cup {NoHolder}]
  /\ log_holder \in Actors \cup Signals \cup {NoHolder}

Arrived == {s \in Signals : handler[s] # "none"}

\* main reaches its loop with a socket that listens and, as a daemon, with all
\* three standard descriptors at /dev/null, even if its parent had left some of
\* them closed; or it returns and has given the socket and the address list back
\* (lines 347-390, daemonize).
StartsWholeOrNotAtAll ==
  /\ at \in Loop /\ Arrived = {}
       => IsSocket /\ (daemon_mode => \A n \in 0 .. 2 : table[n] = "null")
  /\ at \in Loop \cup {"exited"} => servinfo # "live"
  /\ at = "exited" => "socket" \notin Range(table)

\* Closing server_fd never closes a descriptor that a thread was given under
\* the same number meanwhile, if one signal comes and main handles it.  Two
\* handlers, or one beside main, may both close it (lines 88-91, 443-445).
ThreadsKeepTheirFiles ==
  stolen => Cardinality(Arrived) > 1 \/ \E s \in Signals : by[s] = Thread

\* The top handler of some stack waits for a lock that is held below it.
StuckInSyslog ==
  \E x \in Actors : /\ stack[x] # <<>> /\ handler[Last(stack[x])] = "log"
                    /\ log_holder \in {x} \cup Range(Front(stack[x]))

\* A signal ends the accept loop, or the set-up before it, wherever it comes;
\* but if it interrupts syslog, or runs in a thread while main waits for a
\* client, it may not (lines 84-92, 403-412).
SignalEndsAccepting ==
  \A s \in Signals :
    handler[s] = "log" ~> \/ at \in Gone \/ StuckInSyslog
                          \/ at = "accepting" /\ \E t \in Signals : by[t] = Thread
=============================================================================
