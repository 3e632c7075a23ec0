----------------------------- MODULE TaskFanOut -----------------------------
(***************************************************************************)
(* The fan-out of tests/task/task.cc (TEST(Task, Fib)) on the task        *)
(* runtime: a Fib task with seq_number n > 1 spawns Fib(n-1) and Fib(n-2) *)
(* with PerformAsync, both pointing at a TaskSemaphore complete{2} on its *)
(* own stack, and waits for it (task/task_semaphore.cc: a CAS of 0 to 0,  *)
(* Yield on failure).  Each child writes its result, and its Defer        *)
(* signals the parent's semaphore; the root task's Defer calls Exit       *)
(* instead, which stops the pool.                                          *)
(*                                                                         *)
(* The runtime is TaskRuntime itself: worker loop, rings, stealing,       *)
(* PostTask and shutdown are its actions; the task code below replaces    *)
(* its arbitrary task calls.                                              *)
(***************************************************************************)
EXTENDS Naturals, Sequences, FiniteSets

CONSTANTS
    NumWorkers,     \* threads of the pool (2 in the test)
    Tasks,          \* task identities, one per Fib call of the tree
    Root,           \* the entrypoint task
    QueueCapacity,  \* ring capacity
    FibN            \* seq_number of the entrypoint (10 in the test)

ASSUME Root \in Tasks /\ FibN \in Nat

VARIABLES pc, running, finished, current, pending, yieldReq, got, logTask,
          queue, tstate, ops, reg, ready, wakeup, born, stopCalled, scan

VARIABLES
    seq,      \* seq_number argument of each task
    parent,   \* the task whose semaphore `sem` points to (None for the root)
    kids,     \* the tasks holding `left` and `right` of each task
    fpc,      \* where each task's exec lambda is
    result,   \* TestData::int_val each task writes
    count     \* TaskSemaphore::count_ of the semaphore on each task's stack

TR == INSTANCE TaskRuntime WITH
        EntryPoints <- {Root}, MaxEvents <- 1, MaxOps <- 0,
        WaitFlagChoices <- {}, DebugName <- FALSE, StopInStartup <- FALSE

None == TR!None
fibVars == <<seq, parent, kids, fpc, result, count>>
rtVars == <<pc, running, finished, current, pending, yieldReq, got, logTask,
           queue, tstate, ops, reg, ready, wakeup, born, stopCalled, scan>>
vars == <<rtVars, fibVars>>

(* The reference: the n-th Fibonacci number.                              *)
RECURSIVE FibRef(_)
FibRef(n) == IF n <= 1 THEN n ELSE FibRef(n - 1) + FibRef(n - 2)

(* Tasks of the call tree of Fib(n).                                      *)
RECURSIVE TreeSize(_)
TreeSize(n) == IF n <= 1 THEN 1 ELSE 1 + TreeSize(n - 1) + TreeSize(n - 2)

ASSUME Cardinality(Tasks) >= TreeSize(FibN)

Init ==
    /\ TR!Init
    /\ seq = [t \in Tasks |-> IF t = Root THEN FibN ELSE 0]
    /\ parent = [t \in Tasks |-> None]
    /\ kids = [t \in Tasks |-> <<>>]
    /\ fpc = [t \in Tasks |-> "start"]
    /\ result = [t \in Tasks |-> 0]
    /\ count = [t \in Tasks |-> 0]

-----------------------------------------------------------------------------
(* The exec lambda of Fib, one step per stretch between runtime calls or  *)
(* shared-memory accesses.                                                 *)
Me(w) == current[w]

(* seq_number <= 1: result->int_val = seq_number and return into the      *)
(* Defer.                                                                   *)
BaseCase(w) ==
    LET t == Me(w) IN
    /\ pc[w] = "running" /\ fpc[t] = "start" /\ seq[t] <= 1
    /\ result' = [result EXCEPT ![t] = seq[t]]
    /\ fpc' = [fpc EXCEPT ![t] = "defer"]
    /\ UNCHANGED <<seq, parent, kids, count>> /\ UNCHANGED rtVars

(* TaskSemaphore complete{2}, then PerformAsync<Fib>(&left, n - 1, ...)   *)
(* and PerformAsync<Fib>(&right, n - 2, ...); the runtime hands out the   *)
(* next free task each time.                                               *)
Spawn(w, arg) ==
    LET t == Me(w)
        f == CHOOSE f \in Tasks : tstate[f] = "Free"
    IN
    /\ TR!PerformAsync(w) /\ UNCHANGED ops
    /\ seq' = [seq EXCEPT ![f] = arg]
    /\ parent' = [parent EXCEPT ![f] = t]
    /\ kids' = [kids EXCEPT ![t] = Append(@, f)]
    /\ UNCHANGED result

(* Mutant: the semaphore is created with complete{1}.                      *)
SpawnLeftCountOne(w) ==
    /\ pc[w] = "running" /\ fpc[Me(w)] = "start" /\ seq[Me(w)] > 1
    /\ Spawn(w, seq[Me(w)] - 1)
    /\ count' = [count EXCEPT ![Me(w)] = 1]
    /\ fpc' = [fpc EXCEPT ![Me(w)] = "right"]

SpawnLeft(w) ==
    /\ pc[w] = "running" /\ fpc[Me(w)] = "start" /\ seq[Me(w)] > 1
    /\ Spawn(w, seq[Me(w)] - 1)
    /\ count' = [count EXCEPT ![Me(w)] = 2]
    /\ fpc' = [fpc EXCEPT ![Me(w)] = "right"]

SpawnRight(w) ==
    /\ pc[w] = "running" /\ fpc[Me(w)] = "right"
    /\ Spawn(w, seq[Me(w)] - 2)
    /\ fpc' = [fpc EXCEPT ![Me(w)] = "wait"]
    /\ UNCHANGED count

(* TaskSemaphore::Wait: compare_exchange(0 -> 0) succeeds only when the   *)
(* count is 0; otherwise Yield and try again when resumed.                 *)
(* Mutant: the wait passes once one child has signalled.                    *)
SemWaitOneLeft(w) ==
    LET t == Me(w) IN
    /\ pc[w] = "running" /\ fpc[t] = "wait"
    /\ IF count[t] <= 1
         THEN /\ fpc' = [fpc EXCEPT ![t] = "sum"]
              /\ UNCHANGED rtVars
         ELSE /\ TR!Yield(w) /\ UNCHANGED ops
              /\ UNCHANGED fpc
    /\ UNCHANGED <<seq, parent, kids, result, count>>

SemWait(w) ==
    LET t == Me(w) IN
    /\ pc[w] = "running" /\ fpc[t] = "wait"
    /\ IF count[t] = 0
         THEN /\ fpc' = [fpc EXCEPT ![t] = "sum"]
              /\ UNCHANGED rtVars
         ELSE /\ TR!Yield(w) /\ UNCHANGED ops
              /\ UNCHANGED fpc
    /\ UNCHANGED <<seq, parent, kids, result, count>>

(* result->int_val = left.int_val + right.int_val.                         *)
Sum(w) ==
    LET t == Me(w) IN
    /\ pc[w] = "running" /\ fpc[t] = "sum"
    /\ result' = [result EXCEPT ![t] = result[kids[t][1]] + result[kids[t][2]]]
    /\ fpc' = [fpc EXCEPT ![t] = "defer"]
    /\ UNCHANGED <<seq, parent, kids, count>> /\ UNCHANGED rtVars

(* TaskSemaphore::Signal: XYAssert(count_ > 0), then fetch_sub(1) on the   *)
(* parent's semaphore; the lambda then returns.                            *)
(* Mutant: the Defer returns without signalling the parent.                 *)
SignalDropped(w) ==
    LET t == Me(w) IN
    /\ pc[w] = "running" /\ fpc[t] = "defer" /\ parent[t] # None
    /\ fpc' = [fpc EXCEPT ![t] = "done"]
    /\ TR!TaskReturn(w)
    /\ UNCHANGED <<seq, parent, kids, result, count>>

Signal(w) ==
    LET t == Me(w) IN
    /\ pc[w] = "running" /\ fpc[t] = "defer" /\ parent[t] # None
    /\ count' = [count EXCEPT ![parent[t]] = @ - 1]
    /\ fpc' = [fpc EXCEPT ![t] = "done"]
    /\ TR!TaskReturn(w)
    /\ UNCHANGED <<seq, parent, kids, result>>

(* The root's Defer: sem == nullptr, so tc->Exit().                         *)
RootExit(w) ==
    LET t == Me(w) IN
    /\ pc[w] = "running" /\ fpc[t] = "defer" /\ parent[t] = None
    /\ TR!Exit(w) /\ UNCHANGED ops
    /\ fpc' = [fpc EXCEPT ![t] = "done"]
    /\ UNCHANGED <<seq, parent, kids, result, count>>

FibStep(w) ==
    BaseCase(w) \/ SpawnLeft(w) \/ SpawnRight(w) \/ SemWait(w) \/ Sum(w)
    \/ Signal(w) \/ RootExit(w)

(* The pool's own steps, which leave the tasks' data alone.                *)
RuntimeStep(w) ==
    /\ \/ TR!LoopHead(w) \/ TR!Wait(w) \/ TR!QueueEvents(w)
       \/ TR!DequeNextTask(w) \/ TR!ScanPeer(w) \/ TR!PostTask(w)
       \/ TR!StopInternal(w)
    /\ UNCHANGED fibVars

Next ==
    \/ TR!Construct /\ UNCHANGED fibVars
    \/ \E w \in TR!Workers : RuntimeStep(w) \/ FibStep(w)

(* Every worker thread is scheduled: weak fairness on its steps and on the *)
(* code of the task it runs.                                               *)
Spec ==
    /\ Init /\ [][Next]_vars
    /\ WF_vars(TR!Construct /\ UNCHANGED fibVars)
    /\ \A w \in TR!Workers : WF_vars(RuntimeStep(w)) /\ WF_vars(FibStep(w))

-----------------------------------------------------------------------------
TypeOK ==
    /\ TR!TypeOK
    /\ seq \in [Tasks -> 0 .. FibN]
    /\ parent \in [Tasks -> Tasks \cup {None}]
    /\ kids \in [Tasks -> Seq(Tasks)]
    /\ fpc \in [Tasks -> {"start", "right", "wait", "sum", "defer", "done"}]
    /\ result \in [Tasks -> Nat]
    /\ count \in [Tasks -> 0 .. 2]

Stopped == \A w \in TR!Workers : pc[w] = "stopped"

(* When Run() returns (every worker stopped), the entrypoint's result is   *)
(* the FibN-th Fibonacci number, as ASSERT_EQ(test_data.int_val, 55)       *)
(* checks for n = 10: no parent summed before both children wrote.        *)
ResultIsFib == Stopped => result[Root] = FibRef(FibN)

(* The test terminates: Run() returns because the root's Exit stops the   *)
(* pool, although parents spin on Yield while their children run.          *)
RunReturns == <>Stopped

=============================================================================
