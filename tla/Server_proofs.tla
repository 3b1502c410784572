---------------------------- MODULE Server_proofs ---------------------------
(* What start() and stop() of the executor promise, for every number of      *)
(* threads and however often it is restarted; then what start() and stop()   *)
(* of the server leave behind, for any clients and any number of io threads. *)
EXTENDS Server, FiniteSetTheorems, TLAPS

\* What holds of each thread at each point of the main thread.
ByMain ==
    /\ main = "creating" => ex_running /\ ~created_threads
    /\ main = "joining" => ~ex_running /\ \A t \in Threads : threads[t] # "none"
    /\ main = "free" /\ ex_running => \A t \in Threads : threads[t] # "none"
    /\ main = "free" /\ ~ex_running => All("none")

\* The idle coroutine of the latest start() is there.
Busy == ex_running => /\ idles # 0 /\ ~ctx_stopped
                      /\ \A t \in Threads : threads[t] # "done"

ExInv == ExTypeOK /\ ByMain /\ Busy

\* Only true when the wait loop reads created_threads as written.
NoneServesEarly ==
    ~created_threads => \A t \in Threads : threads[t] \notin {"serving", "done"}

-----------------------------------------------------------------------------

LEMMA ExInitInv == ExInit => ExInv /\ NoneServesEarly
<1> SUFFICES ASSUME ExInit PROVE ExInv /\ NoneServesEarly
  OBVIOUS
<1>1. ExTypeOK
  <2>1. 0 \in 0..MaxStarts
    BY BgExecutorAssumption
  <2> QED BY <2>1 DEF ExInit, ExTypeOK
<1>2. ByMain /\ Busy /\ NoneServesEarly
  BY DEF ExInit, ByMain, Busy, NoneServesEarly, All
<1> QED BY <1>1, <1>2 DEF ExInv

LEMMA StartInv == ASSUME ExInv, start_executor PROVE ExInv' /\ NoneServesEarly'
<1>1. All("none")
  BY DEF ExInv, ByMain, start_executor, ResetCreated, SpawnIdle
<1>2. idles' = idles + 1 /\ idles \in 0..MaxStarts /\ idles < MaxStarts
  BY DEF start_executor, ResetCreated, SpawnIdle, ExInv, ExTypeOK
<1>3. idles' \in 0..MaxStarts /\ idles' # 0
  BY <1>2, BgExecutorAssumption
<1> QED BY <1>1, <1>3
        DEF start_executor, ResetCreated, SpawnIdle, ExInv, ExTypeOK, ByMain, Busy, NoneServesEarly, All

LEMMA StopInv == ASSUME ExInv, stop_executor PROVE ExInv'
BY DEF stop_executor, StopContext, ExInv, ExTypeOK, ByMain, Busy, All

LEMMA MainInv == ASSUME ExInv, ExMain PROVE ExInv'
<1>1. CASE CreateThread
  BY <1>1 DEF CreateThread, ExInv, ExTypeOK, ByMain, Busy
<1>2. CASE AllCreated
  BY <1>2 DEF AllCreated, ExInv, ExTypeOK, ByMain, Busy
<1>3. CASE JoinThreads
  BY <1>3 DEF JoinThreads, ExInv, ExTypeOK, ByMain, Busy, All
<1> QED BY <1>1, <1>2, <1>3 DEF ExMain

\* A step of one thread leaves every other where it is.
LEMMA ThreadInv ==
    ASSUME ExInv, NEW t \in Threads, WaitForThreads(t) \/ RunReturns(t)
    PROVE  ExInv'
<1>1. threads[t] \in {"waiting", "serving"}
  BY DEF WaitForThreads, RunReturns
<1>2. PICK status \in {"serving", "spinning", "done"} : Becomes(t, status)
  BY DEF WaitForThreads, RunReturns
<1>3. ExTypeOK'
  BY <1>2 DEF Becomes, ExInv, ExTypeOK
<1>4. ByMain'
  BY <1>1, <1>2 DEF Becomes, ExInv, ExTypeOK, ByMain, All
<1>5. Busy'
  <2>1. CASE WaitForThreads(t)
    BY <2>1 DEF WaitForThreads, Becomes, ExInv, ExTypeOK, Busy
  <2>2. CASE RunReturns(t)
    BY <2>2 DEF RunReturns, Becomes, ExInv, ExTypeOK, Busy
  <2> QED BY <2>1, <2>2
<1> QED BY <1>3, <1>4, <1>5 DEF ExInv

LEMMA ExStepInv == ExInv /\ [ExNext]_exVars => ExInv'
<1> SUFFICES ASSUME ExInv, [ExNext]_exVars PROVE ExInv'
  OBVIOUS
<1>1. CASE UNCHANGED exVars
  BY <1>1 DEF exVars, ExInv, ExTypeOK, ByMain, Busy, All
<1> QED BY <1>1, StartInv, StopInv, MainInv, ThreadInv DEF ExNext

LEMMA EarlyStepInv ==
    ASSUME "dropped" \notin WaitOutcomes
    PROVE  ExInv /\ NoneServesEarly /\ [ExNext]_exVars => NoneServesEarly'
<1> SUFFICES ASSUME ExInv, NoneServesEarly, [ExNext]_exVars
             PROVE  NoneServesEarly'
  OBVIOUS
<1>1. CASE start_executor
  BY <1>1, StartInv
<1>2. CASE stop_executor
  BY <1>2 DEF stop_executor, StopContext, NoneServesEarly
<1>3. CASE ExMain
  BY <1>3 DEF ExMain, CreateThread, AllCreated, JoinThreads, NoneServesEarly,
              ExInv, ExTypeOK
<1>4. ASSUME NEW t \in Threads, WaitForThreads(t) \/ RunReturns(t)
      PROVE  NoneServesEarly'
  BY <1>4 DEF WaitForThreads, RunReturns, Becomes, NoneServesEarly, ExInv,
              ExTypeOK
<1>5. CASE UNCHANGED exVars
  BY <1>5 DEF exVars, NoneServesEarly
<1> QED BY <1>1, <1>2, <1>3, <1>4, <1>5 DEF ExNext

-----------------------------------------------------------------------------

(* stop() has joined every thread when it returns: none is left to run a     *)
(* coroutine, whatever the wait loop has become.                             *)
THEOREM StopJoinsAll == ExSpec => []StoppedIsQuiet
<1>1. ExInv => StoppedIsQuiet
  BY DEF ExInv, ByMain, StoppedIsQuiet
<1> QED BY <1>1, ExInitInv, ExStepInv, PTL DEF ExSpec

(* The idle coroutine keeps every thread in io_context.run() until stop().   *)
THEOREM IdleKeepsServing == ExSpec => []KeepsServing
<1>1. ExInv => KeepsServing
  BY DEF ExInv, Busy, KeepsServing
<1> QED BY <1>1, ExInitInv, ExStepInv, PTL DEF ExSpec

(* All threads exist before the first handler runs, after every start(), if  *)
(* the compiler leaves the wait loop in place.                               *)
THEOREM WaitIsEnough ==
    ASSUME "dropped" \notin WaitOutcomes
    PROVE  ExSpec => []CreatedBeforeServing
<1>1. ExInv /\ NoneServesEarly => CreatedBeforeServing
  BY DEF ExInv, ByMain, ExTypeOK, NoneServesEarly, CreatedBeforeServing, All
<1> QED BY <1>1, ExInitInv, ExStepInv, EarlyStepInv, PTL DEF ExSpec

-----------------------------------------------------------------------------

\* A server that has been stopped owes at most the client it waits for.
LateInv ==
    /\ \A c, d \in tcp_conn : c = d
    /\ acceptor # "accepted" => tcp_conn = {}
    /\ LateAcceptOnce
    /\ ~running /\ acceptor \in {"accepting", "accepted"} => connections = {}

ClientType ==
    client \in [Clients -> {"away", "pending", "vanished", "accepted",
                           "refused"}]

AcceptInv == /\ ClientType
             /\ started \/ run_mutex = "start" => running
             /\ AcceptsWhenStarted

\* The executor's steps, and those of the clients' loops, change none of this.
serverView == <<running, run_mutex, started, acceptor, tcp_conn, connections,
                client>>

LEMMA OtherSteps ==
    ASSUME NEW t, NEW c,
           Executor \/ ThreadLeaves(t) \/ LoopExits(c) \/ UNCHANGED vars
    PROVE  UNCHANGED serverView
BY DEF Executor, ThreadLeaves, LoopExits, AcceptElse, vars, serverVars,
       acceptVars, serverView

-----------------------------------------------------------------------------

LEMMA LateStep == LateInv /\ [Next]_vars => LateInv'
<1> SUFFICES ASSUME LateInv, [Next]_vars PROVE LateInv'
  OBVIOUS
<1>1. CASE start \/ StartAcceptor \/ stop
  BY <1>1 DEF start, SetRunning, StartAcceptor, stop, acceptVars, LateInv, LateAcceptOnce
<1>2. CASE accept_connection
  <2>1. CASE LoopTop \/ Leave
    BY <2>1 DEF LoopTop, GoesOn, Leave, AtLoopTop, AcceptElse, LateInv, LateAcceptOnce
  <2>2. ASSUME NEW c \in Clients, Accept(c) PROVE LateInv'
    BY <2>2 DEF Accept, AcceptElse, LateInv, LateAcceptOnce
  <2>3. CASE StartConnection
    BY <2>3 DEF StartConnection, MoveSocket, AcceptElse, LateInv, LateAcceptOnce
  <2> QED BY <1>2, <2>1, <2>2, <2>3 DEF accept_connection
<1>3. ASSUME NEW c \in Clients, Connect(c) \/ Vanish(c) PROVE LateInv'
  BY <1>3 DEF Connect, Vanish, ClientElse, serverVars, LateInv, LateAcceptOnce
<1>4. CASE UNCHANGED serverView
  BY <1>4 DEF serverView, LateInv, LateAcceptOnce
<1>5. ASSUME NEW t, NEW c,
             Executor \/ ThreadLeaves(t) \/ LoopExits(c) \/ UNCHANGED vars
      PROVE  LateInv'
  BY <1>4, <1>5, OtherSteps
<1> QED BY <1>1, <1>2, <1>3, <1>5 DEF Next

\* What the steps of accept_connection and of the clients do to client: a
\* client that was gone when it was accepted is never forgotten.
LEMMA ClientStep ==
    ASSUME ClientType, NEW c \in Clients,
           Accept(c) \/ Leave \/ Connect(c) \/ Vanish(c)
    PROVE  ClientType' /\ (Vanished => Vanished')
<1>1. ClientType'
  BY DEF Accept, Leave, Connect, Vanish, ClientType
<1>2. ASSUME NEW d \in Clients, client[d] = "vanished"
      PROVE  client'[d] = "vanished"
  BY <1>2 DEF Accept, Leave, Connect, Vanish, ClientType
<1> QED BY <1>1, <1>2 DEF Vanished

LEMMA AcceptStep == AcceptInv /\ [Next]_vars => AcceptInv'
<1> SUFFICES ASSUME AcceptInv, [Next]_vars PROVE AcceptInv'
  OBVIOUS
<1>1. CASE start \/ StartAcceptor \/ stop
  <2>1. UNCHANGED client
    BY <1>1 DEF start, SetRunning, StartAcceptor, stop, acceptVars
  <2>2. ClientType' /\ Vanished' = Vanished
    BY <2>1 DEF AcceptInv, ClientType, Vanished
  <2>3. CASE start
    BY <2>2, <2>3 DEF start, SetRunning, acceptVars, AcceptInv, AcceptsWhenStarted
  <2>4. CASE StartAcceptor
    BY <2>2, <2>4 DEF StartAcceptor, AcceptInv, AcceptsWhenStarted
  <2>5. CASE stop
    BY <2>2, <2>5
    DEF stop, MainIsFree, acceptVars, AcceptInv, AcceptsWhenStarted
  <2> QED BY <1>1, <2>3, <2>4, <2>5
<1>2. CASE LoopTop \/ StartConnection
  BY <1>2 DEF LoopTop, GoesOn, StartConnection, MoveSocket, AcceptElse, AcceptInv, ClientType,
              AcceptsWhenStarted, Vanished
<1>3. ASSUME NEW c \in Clients, Leave \/ Connect(c) \/ Vanish(c)
      PROVE  AcceptInv'
  <2>1. ClientType' /\ (Vanished => Vanished')
    BY <1>3, ClientStep DEF AcceptInv
  <2>2. UNCHANGED <<running, run_mutex, started>>
        /\ (acceptor' = acceptor \/ acceptor = "leaving")
    BY <1>3 DEF Leave, Connect, Vanish, ClientElse, AcceptElse, serverVars
  <2> QED BY <2>1, <2>2 DEF AcceptInv, AcceptsWhenStarted
<1>4. ASSUME NEW c \in Clients, Accept(c) PROVE AcceptInv'
  <2>1. ClientType' /\ (Vanished => Vanished')
    BY <1>4, ClientStep DEF AcceptInv
  <2>2. UNCHANGED <<running, run_mutex, started>>
        /\ (acceptor' = "accepted" \/ client[c] = "vanished")
    BY <1>4 DEF Accept, AcceptElse
  <2>3. client[c] = "vanished" => Vanished
    BY DEF Vanished
  <2> QED BY <2>1, <2>2, <2>3 DEF AcceptInv, AcceptsWhenStarted
<1>5. CASE Leave /\ Clients = {}
  BY <1>5 DEF Leave, AcceptElse, AcceptInv, ClientType, AcceptsWhenStarted,
              Vanished
<1>6. CASE UNCHANGED serverView
  BY <1>6 DEF serverView, AcceptInv, ClientType, AcceptsWhenStarted, Vanished
<1>7. ASSUME NEW t, NEW c,
             Executor \/ ThreadLeaves(t) \/ LoopExits(c) \/ UNCHANGED vars
      PROVE  AcceptInv'
  BY <1>6, <1>7, OtherSteps
<1> QED BY <1>1, <1>2, <1>3, <1>4, <1>5, <1>7 DEF Next, accept_connection

-----------------------------------------------------------------------------

(* However often the server is started and stopped, a stopped server gives   *)
(* at most one more client a connection.                                     *)
THEOREM StopAcceptsOneMore == Spec => []LateAcceptOnce
<1>1. Init => LateInv
  BY DEF Init, LateInv, LateAcceptOnce
<1>2. LateInv => LateAcceptOnce
  BY DEF LateInv
<1> QED BY <1>1, <1>2, LateStep, PTL DEF Spec

(* A start() that returned keeps its acceptor until stop(), as long as no    *)
(* client was gone when it was accepted.                                     *)
THEOREM StartKeepsAccepting == Spec => []AcceptsWhenStarted
<1>1. Init => AcceptInv
  BY DEF Init, AcceptInv, ClientType, AcceptsWhenStarted
<1>2. AcceptInv => AcceptsWhenStarted
  BY DEF AcceptInv
<1> QED BY <1>1, <1>2, AcceptStep, PTL DEF Spec

-----------------------------------------------------------------------------
(* The executor under the server                                             *)

\* The server's part of TypeOK, but for the size of tcp_conn.
ServerType ==
    /\ running \in BOOLEAN /\ started \in BOOLEAN
    /\ run_mutex \in {"free", "start"}
    /\ acceptor \in {"none", "spawned", "accepting", "accepted", "top", "leaving"}
    /\ tcp_conn \subseteq Clients /\ connections \subseteq Clients
    /\ loops \in [Clients -> {"none", "running", "exited"}]

LEMMA ServerTypeStep == ServerType /\ [Next]_vars => ServerType'
<1> SUFFICES ASSUME ServerType, [Next]_vars PROVE ServerType'
  OBVIOUS
<1> USE DEF ServerType
<1>1. CASE start \/ StartAcceptor \/ stop
  BY <1>1 DEF start, SetRunning, StartAcceptor, stop, acceptVars
<1>2. CASE LoopTop \/ Leave
  BY <1>2 DEF LoopTop, Leave, AcceptElse
<1>3. ASSUME NEW c \in Clients, Accept(c) PROVE ServerType'
  BY <1>3 DEF Accept, AcceptElse
<1>4. CASE StartConnection
  BY <1>4 DEF StartConnection, MoveSocket, AcceptElse
<1>5. ASSUME NEW c \in Clients, LoopExits(c) PROVE ServerType'
  BY <1>5 DEF LoopExits, AcceptElse
<1>6. ASSUME NEW c \in Clients, Connect(c) \/ Vanish(c) PROVE ServerType'
  BY <1>6 DEF Connect, Vanish, ClientElse, serverVars
<1>7. ASSUME NEW t, Executor \/ ThreadLeaves(t) \/ UNCHANGED vars
      PROVE  ServerType'
  BY <1>7 DEF Executor, ThreadLeaves, vars, serverVars, acceptVars
<1> QED BY <1>1, <1>2, <1>3, <1>4, <1>5, <1>6, <1>7 DEF Next, accept_connection

\* The server only ever calls the executor: every step of it is one of the
\* executor's, or leaves the executor alone.
LEMMA ExecutorStep == [Next]_vars => [ExNext]_exVars
<1> SUFFICES ASSUME [Next]_vars PROVE [ExNext]_exVars
  OBVIOUS
<1>1. CASE start \/ StartAcceptor \/ stop
  BY <1>1 DEF start, StartAcceptor, stop
<1>2. CASE Executor
  BY <1>2 DEF Executor, ExNext
<1>3. ASSUME NEW t \in Threads, ThreadLeaves(t) PROVE ExNext
  BY <1>3 DEF ThreadLeaves, ExNext
<1>4. CASE accept_connection
  BY <1>4 DEF accept_connection, LoopTop, Accept, StartConnection, Leave,
              AcceptElse
<1>5. ASSUME NEW c \in Clients, LoopExits(c) \/ Connect(c) \/ Vanish(c)
      PROVE  UNCHANGED exVars
  BY <1>5 DEF LoopExits, Connect, Vanish, AcceptElse, ClientElse
<1>6. CASE UNCHANGED vars
  BY <1>6 DEF vars
<1> QED BY <1>1, <1>2, <1>3, <1>4, <1>5, <1>6 DEF Next

(* Seen from the executor, the server with its clients is one more user of   *)
(* start() and stop(): what holds of every use of the executor, of its       *)
(* threads before, in and after io_context.run(), holds under the server.    *)
THEOREM ServerUsesExecutor == Spec => ExSpec
<1>1. Init => ExInit
  BY DEF Init
<1> QED BY <1>1, ExecutorStep, PTL DEF Spec, ExSpec

(* Under the server, too, no io thread falls out of io_context.run() while   *)
(* the executor runs, and none is left once its stop() has returned.         *)
COROLLARY ExecutorServesServer == Spec => [](StoppedIsQuiet /\ KeepsServing)
BY ServerUsesExecutor, StopJoinsAll, IdleKeepsServing, PTL

(* Every variable of the server and of the executor under it keeps its type, *)
(* and tcp_conn is the socket of one client at most.                         *)
THEOREM ServerTypeCorrect == Spec => []TypeOK
<1>1. Init => ServerType /\ LateInv /\ AcceptInv
  BY DEF Init, ServerType, LateInv, LateAcceptOnce, AcceptInv, ClientType,
         AcceptsWhenStarted
<1>2. Init => ExInv
  BY ExInitInv DEF Init
<1>3. ASSUME ServerType, LateInv PROVE Cardinality(tcp_conn) <= 1
  <2>1. CASE tcp_conn = {}
    BY <2>1, FS_EmptySet
  <2>2. CASE tcp_conn # {}
    <3>1. PICK c \in tcp_conn : tcp_conn = {c}
      BY <1>3, <2>2 DEF LateInv
    <3> QED BY <3>1, FS_Singleton
  <2> QED BY <2>1, <2>2
<1>4. ServerType /\ LateInv /\ AcceptInv /\ ExInv => TypeOK
  BY <1>3 DEF ServerType, AcceptInv, ClientType, ExInv, TypeOK
<1>5. ExInv /\ [Next]_vars => ExInv'
  BY ExStepInv, ExecutorStep
<1> QED BY <1>1, <1>2, <1>4, <1>5, ServerTypeStep, LateStep, AcceptStep, PTL
        DEF Spec
=============================================================================
