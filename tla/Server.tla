------------------------------- MODULE Server -------------------------------
(* tasarch::gdb::server on the bg_executor: the main thread starts and stops *)
(* the server, a coroutine accepts clients, and each client gets a           *)
(* connection with a processing loop of its own.                             *)
(*                                                                           *)
(* run_mutex covers start(), stop() and the adding of a connection; the      *)
(* loop's test of `running` is not covered.  stop() is one step, since all   *)
(* that anyone else reads of it is `running`; start() is two, since the      *)
(* constructor of the acceptor may throw with `running` already set.         *)
EXTENDS BgExecutor

CONSTANTS Clients,     \* each connects once
          MayVanish    \* whether a client may be gone when it is accepted

ASSUME ServerAssumption == MayVanish \in BOOLEAN

VARIABLES
    running,
    run_mutex,      \* "free", or held by "start"
    started,        \* a start() has returned since the last stop()
    acceptor,       \* accept_connection: "none", "spawned", "accepting",
                    \* "accepted", "top" of its loop, or "leaving"
    tcp_conn,       \* the clients accepted and not yet given a connection
    connections,    \* the clients whose connection the server owns
    loops,          \* process(): "none", "running" or "exited"
    client          \* "away", "pending", "vanished", "accepted", "refused"

serverVars == <<running, run_mutex, started, connections>>
acceptVars == <<acceptor, tcp_conn, loops, client>>
vars == <<exVars, serverVars, acceptVars>>

TypeOK ==
    /\ ExTypeOK
    /\ running \in BOOLEAN /\ started \in BOOLEAN
    /\ run_mutex \in {"free", "start"}
    /\ acceptor \in {"none", "spawned", "accepting", "accepted", "top", "leaving"}
    /\ tcp_conn \subseteq Clients /\ Cardinality(tcp_conn) <= 1
    /\ connections \subseteq Clients
    /\ loops \in [Clients -> {"none", "running", "exited"}]
    /\ client \in [Clients -> {"away", "pending", "vanished", "accepted", "refused"}]

Init ==
    /\ ExInit
    /\ running = FALSE /\ run_mutex = "free" /\ started = FALSE
    /\ acceptor = "none" /\ tcp_conn = {} /\ connections = {}
    /\ loops = [c \in Clients |-> "none"]
    /\ client = [c \in Clients |-> "away"]

MainIsFree == main = "free" /\ run_mutex = "free"

-----------------------------------------------------------------------------
(* The main thread: start() and stop() of the server and of the executor     *)

\* Mutant of SetRunning: `running` is not set.
SetRunningNever == UNCHANGED running

SetRunning == running' = TRUE

\* A server that has been started only warns, and goes on all the same.
start ==
    /\ MainIsFree
    /\ SetRunning
    /\ run_mutex' = "start"
    /\ UNCHANGED <<exVars, started, connections, acceptVars>>

\* The port is in use as long as an acceptor is open: its constructor throws.
StartAcceptor ==
    /\ run_mutex = "start"
    /\ run_mutex' = "free"
    /\ \/ /\ acceptor = "none"
          /\ acceptor' = "spawned"
          /\ started' = TRUE
       \/ /\ acceptor # "none"
          /\ UNCHANGED <<acceptor, started>>
    /\ UNCHANGED <<exVars, running, connections, tcp_conn, loops, client>>

\* connections.clear() destroys the connections it has just told to stop.
stop ==
    /\ MainIsFree
    /\ running
    /\ running' = FALSE
    /\ connections' = {}
    /\ started' = FALSE
    /\ UNCHANGED <<exVars, run_mutex, acceptVars>>

Executor ==
    /\ \/ run_mutex = "free" /\ (start_executor \/ stop_executor)
       \/ ExMain
       \/ \E t \in Threads : WaitForThreads(t)
    /\ UNCHANGED <<serverVars, acceptVars>>

-----------------------------------------------------------------------------
(* accept_connection, on an io thread                                        *)

\* The coroutine is between two suspensions: one thread is busy with it.
InHandler == acceptor \in {"accepted", "top", "leaving"}

ThreadLeaves(t) ==
    /\ InHandler => \E u \in Threads \ {t} : threads[u] = "serving"
    /\ RunReturns(t)
    /\ UNCHANGED <<serverVars, acceptVars>>

AtLoopTop == \/ acceptor = "spawned" /\ Serving
             \/ acceptor = "top"

AcceptElse == UNCHANGED <<exVars, running, run_mutex, started>>

\* Mutants of GoesOn: `running` is not looked at; one client is accepted.
GoesOnAlways == TRUE
GoesOnOnce   == running /\ acceptor = "spawned"

GoesOn == running

LoopTop ==
    /\ AtLoopTop
    /\ acceptor' = IF GoesOn THEN "accepting" ELSE "leaving"
    /\ UNCHANGED <<tcp_conn, connections, loops, client>>
    /\ AcceptElse

\* With a client that is gone async_accept or remote_endpoint() throws, and the
\* coroutine ends.
Accept(c) ==
    /\ acceptor = "accepting" /\ Serving
    /\ \/ /\ client[c] = "pending"
          /\ client' = [client EXCEPT ![c] = "accepted"]
          /\ tcp_conn' = tcp_conn \cup {c}
          /\ acceptor' = "accepted"
       \/ /\ client[c] = "vanished"
          /\ acceptor' = "leaving"
          /\ UNCHANGED <<client, tcp_conn>>
    /\ UNCHANGED <<connections, loops>>
    /\ AcceptElse

\* Mutant of MoveSocket: the socket is not moved into the connection.
MoveSocketCopies == UNCHANGED tcp_conn

MoveSocket == tcp_conn' = {}

StartConnection ==
    /\ acceptor = "accepted"
    /\ run_mutex = "free"
    /\ connections' = connections \cup tcp_conn
    /\ loops' = [c \in Clients |-> IF c \in tcp_conn THEN "running"
                                   ELSE loops[c]]
    /\ MoveSocket
    /\ acceptor' = "top"
    /\ UNCHANGED client
    /\ AcceptElse

\* The coroutine's frame goes, and with it the acceptor and its backlog.
Leave ==
    /\ acceptor = "leaving"
    /\ acceptor' = "none"
    /\ client' = [c \in Clients |-> IF client[c] = "pending" THEN "refused"
                                    ELSE client[c]]
    /\ UNCHANGED <<tcp_conn, connections, loops>>
    /\ AcceptElse

accept_connection ==
    LoopTop \/ (\E c \in Clients : Accept(c)) \/ StartConnection \/ Leave

\* What ends a processing loop is the subject of Connection.
LoopExits(c) ==
    /\ loops[c] = "running" /\ Serving
    /\ loops' = [loops EXCEPT ![c] = "exited"]
    /\ UNCHANGED <<acceptor, tcp_conn, connections, client>>
    /\ AcceptElse

-----------------------------------------------------------------------------
(* The clients                                                               *)

ClientElse == UNCHANGED <<exVars, serverVars, acceptor, tcp_conn, loops>>

Connect(c) ==
    /\ client[c] = "away" /\ acceptor # "none"
    /\ client' = [client EXCEPT ![c] = "pending"]
    /\ ClientElse

Vanish(c) ==
    /\ MayVanish
    /\ client[c] = "pending"
    /\ client' = [client EXCEPT ![c] = "vanished"]
    /\ ClientElse

Next ==
    \/ start \/ StartAcceptor \/ stop \/ Executor
    \/ \E t \in Threads : ThreadLeaves(t)
    \/ accept_connection
    \/ \E c \in Clients : LoopExits(c) \/ Connect(c) \/ Vanish(c)

Spec == Init /\ [][Next]_vars

\* The operating system runs every thread, and the executor what is ready.
FairSpec ==
    /\ Spec
    /\ WF_vars(ExMain /\ UNCHANGED <<serverVars, acceptVars>>)
    /\ WF_vars(StartAcceptor) /\ WF_vars(accept_connection)
    /\ \A t \in Threads :
          /\ WF_vars(WaitForThreads(t) /\ UNCHANGED <<serverVars, acceptVars>>)
          /\ WF_vars(ThreadLeaves(t))

-----------------------------------------------------------------------------

Vanished == \E c \in Clients : client[c] = "vanished"

(* The loop's test of `running` is stale by the time a client comes: after   *)
(* stop() one more client may get a connection, but never a second one, even *)
(* if the server is started and stopped again meanwhile.  All others, those  *)
(* included whose loops have ended, stop() gives back (server.cpp 33-60).    *)
LateAcceptOnce == ~running => \A c, d \in connections : c = d

(* A start() that returned leaves the server accepting until stop(), unless  *)
(* a client was gone when it was accepted: an old coroutine that still waits *)
(* for its last client does not take the new acceptor with it.               *)
AcceptsWhenStarted ==
    started /\ ~Vanished => acceptor \notin {"none", "leaving"}

(* When the main thread is done with its calls, as main() is after start(),  *)
(* every client that connects to the started server gets its connection.     *)
ClientIsServed ==
    <>[](run_mutex = "free") =>
        \A c \in Clients :
            client[c] = "pending" ~> \/ loops[c] # "none"
                                     \/ ~started \/ ~ex_running \/ Vanished

(* connection.cpp 77-79: a loop that is stopped finds its stop signal and    *)
(* exits.  For that its connection has to be there as long as it runs.       *)
LoopHasConnection ==
    \A c \in Clients : loops[c] = "running" => c \in connections
=============================================================================
