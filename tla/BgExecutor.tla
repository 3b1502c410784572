----------------------------- MODULE BgExecutor -----------------------------
(* tasarch::gdb::bg_executor: the io_context on which every coroutine runs,  *)
(* and the threads that serve it.  start() and stop() are called from the    *)
(* main thread only; they can be called again and again.  A thread first     *)
(* spins on created_threads, a plain bool that the main thread writes: a     *)
(* data race, of which WaitOutcomes lists what a build may make:             *)
(*   reload   the loop reads the flag again and again                        *)
(*   hoisted  it is read once, and the thread spins for ever on what it saw  *)
(*   dropped  a loop without effects is taken to end: the thread goes on     *)
(* No exception leaves run(): everything on the io_context is a coroutine    *)
(* spawned with `detached`, which swallows them.                             *)
EXTENDS Integers, FiniteSets

CONSTANTS num_threads,
          WaitOutcomes,
          MaxStarts       \* bound: how often the executor is started

ASSUME BgExecutorAssumption ==
    /\ num_threads \in Nat \ {0}
    /\ WaitOutcomes \subseteq {"reload", "hoisted", "dropped"}
    /\ MaxStarts \in Nat

Threads == 1..num_threads

VARIABLES
    main,             \* the main thread: "free", or in start() "creating",
                      \* or in stop() "joining"
    ex_running,       \* running
    created_threads,
    ctx_stopped,      \* the io_context has been told to stop
    idles,            \* idle() coroutines that wait on their timers
    threads           \* "none", "waiting", "spinning", "serving" (in
                      \* io_context.run()) or "done"

exVars == <<main, ex_running, created_threads, ctx_stopped, idles, threads>>

ExTypeOK ==
    /\ main \in {"free", "creating", "joining"}
    /\ ex_running \in BOOLEAN /\ created_threads \in BOOLEAN
    /\ ctx_stopped \in BOOLEAN
    /\ idles \in 0..MaxStarts
    /\ threads \in [Threads -> {"none", "waiting", "spinning", "serving", "done"}]

ExInit ==
    /\ main = "free"
    /\ ex_running = FALSE /\ created_threads = FALSE /\ ctx_stopped = FALSE
    /\ idles = 0
    /\ threads = [t \in Threads |-> "none"]

All(status) == \A t \in Threads : threads[t] = status

-----------------------------------------------------------------------------

\* Mutant of ResetCreated: created_threads is left from the last time.
ResetCreatedNever == UNCHANGED created_threads

ResetCreated == created_threads' = FALSE

\* Mutant of SpawnIdle: nothing keeps the io_context busy.
SpawnIdleNever == UNCHANGED idles

SpawnIdle == idles' = idles + 1

\* start() of a running executor only warns.
start_executor ==
    /\ main = "free" /\ ~ex_running
    /\ idles < MaxStarts
    /\ ex_running' = TRUE
    /\ ResetCreated
    /\ ctx_stopped' = FALSE
    /\ SpawnIdle
    /\ main' = "creating"
    /\ UNCHANGED threads

CreateThread ==
    /\ main = "creating"
    /\ \E t \in Threads : /\ threads[t] = "none"
                          /\ \A u \in 1..(t - 1) : threads[u] # "none"
                          /\ threads' = [threads EXCEPT ![t] = "waiting"]
    /\ UNCHANGED <<main, ex_running, created_threads, ctx_stopped, idles>>

AllCreated ==
    /\ main = "creating"
    /\ \A t \in Threads : threads[t] # "none"
    /\ created_threads' = TRUE
    /\ main' = "free"
    /\ UNCHANGED <<ex_running, ctx_stopped, idles, threads>>

Becomes(t, status) ==
    /\ threads' = [threads EXCEPT ![t] = status]
    /\ UNCHANGED <<main, ex_running, created_threads, ctx_stopped, idles>>

\* The loop at the start of run().
WaitForThreads(t) ==
    /\ threads[t] = "waiting"
    /\ \/ /\ created_threads \/ "dropped" \in WaitOutcomes
          /\ Becomes(t, "serving")
       \/ /\ ~created_threads /\ "hoisted" \in WaitOutcomes
          /\ Becomes(t, "spinning")

\* io_context.run() returns when it is stopped, or has nothing left to do.
RunReturns(t) ==
    /\ threads[t] = "serving"
    /\ ctx_stopped \/ idles = 0
    /\ Becomes(t, "done")

\* Mutant of StopContext: the io_context is not told.
StopContextNever == UNCHANGED ctx_stopped

StopContext == ctx_stopped' = TRUE

\* stop() of an executor that does not run only warns.
stop_executor ==
    /\ main = "free" /\ ex_running
    /\ ex_running' = FALSE
    /\ StopContext
    /\ main' = "joining"
    /\ UNCHANGED <<created_threads, idles, threads>>

\* Mutant of JoinThreads: one thread is waited for.
JoinThreadsFirst ==
    /\ main = "joining"
    /\ threads[1] = "done"
    /\ threads' = [t \in Threads |-> IF threads[t] = "done" THEN "none"
                                     ELSE threads[t]]
    /\ main' = "free"
    /\ UNCHANGED <<ex_running, created_threads, ctx_stopped, idles>>

JoinThreads ==
    /\ main = "joining"
    /\ All("done")
    /\ threads' = [t \in Threads |-> "none"]
    /\ main' = "free"
    /\ UNCHANGED <<ex_running, created_threads, ctx_stopped, idles>>

ExMain == CreateThread \/ AllCreated \/ JoinThreads

ExNext == \/ start_executor \/ stop_executor \/ ExMain
          \/ \E t \in Threads : WaitForThreads(t) \/ RunReturns(t)

ExSpec == ExInit /\ [][ExNext]_exVars

\* Some thread takes up the next handler that is ready.
Serving == ~ctx_stopped /\ \E t \in Threads : threads[t] = "serving"

-----------------------------------------------------------------------------
(* No thread runs a handler before all of them exist, the first time the     *)
(* executor is started or a later one ("Wait with enabling running, till all *)
(* threads are started!", bg_executor.cpp 38-47).                            *)
CreatedBeforeServing ==
    (\E t \in Threads : threads[t] = "serving")
        => \A t \in Threads : threads[t] # "none"

(* stop() "Waits for them to exit" (bg_executor.h 65): once it has returned  *)
(* no thread is left that could run a coroutine.                             *)
StoppedIsQuiet == main = "free" /\ ~ex_running => All("none")

(* As long as the executor runs no thread falls out of io_context.run():     *)
(* there is always work (bg_executor.h 54-62).                               *)
KeepsServing == ex_running => \A t \in Threads : threads[t] # "done"

(* stop() returns, and the executor can be started again.                    *)
StopReturns == main = "joining" ~> main = "free"

(* bg_executor.h 17: "we can even completely reset the coroutine state, by   *)
(* restarting the bg_executor."  After a restart there is the one coroutine  *)
(* that start() has made, and none from before.                              *)
RestartResets == idles <= 1
=============================================================================
