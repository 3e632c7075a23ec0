---------------------------- MODULE TaskRuntime ----------------------------
(***************************************************************************)
(* The fiber task runtime of xynq: the worker threads of the pool          *)
(* (task/worker_thread.cc), the fiber-side primitives a task calls         *)
(* (task/task_context.{h,cc}, task/task.cc), the shared epoll reactor      *)
(* (event/epoll/event/eventqueue.cc) and the pool lifecycle                *)
(* (task/task_manager.cc).                                                 *)
(*                                                                         *)
(* A task is a model value.  What a task's own code does between two      *)
(* suspensions is abstracted to the runtime calls it can make: spawn       *)
(* (PerformAsync), Yield, WaitEvent, Exit, or return from its entry.  The  *)
(* number of such calls a task makes is bounded by MaxOps.                 *)
(*                                                                         *)
(* Each worker's local MRSWRing is a bounded sequence here (the ring       *)
(* itself is refined in MRSWRing.tla).  The reactor keeps, per task, the   *)
(* registration of the event source that task waits on (the tag of the    *)
(* epoll registration is the task pointer), and the eventfd used for       *)
(* wakeups is one boolean: readable or drained.                            *)
(***************************************************************************)
EXTENDS Naturals, Sequences, FiniteSets, SequencesExt

CONSTANTS
    NumWorkers,      \* threads of the pool (TaskManager num_threads_)
    Tasks,           \* task identities (model values)
    EntryPoints,     \* tasks handed to worker 0 by TaskManager::Run
    QueueCapacity,   \* capacity of each local MRSWRing (1024 in the code)
    MaxEvents,       \* events one epoll_wait may return (max_events_at_once)
    MaxOps,          \* runtime calls one task makes before it must return
    WaitFlagChoices, \* flag sets a task may pass to WaitEvent
    DebugName,       \* XYNQ_TASK_HAS_DEBUGNAME: debug logging of task names
    StopInStartup    \* whether TaskManager::Stop may run before all workers exist

Workers == 0 .. NumWorkers - 1
Flags == {"Read", "Write", "ExactlyOnce"}
None == "none"

ASSUME /\ NumWorkers \in Nat \ {0}
       /\ EntryPoints \subseteq Tasks /\ EntryPoints # {}
       /\ QueueCapacity \in Nat \ {0}
       /\ MaxEvents \in Nat \ {0}
       /\ MaxOps \in Nat
       /\ WaitFlagChoices \subseteq SUBSET Flags \ {{}}
       /\ DebugName \in BOOLEAN /\ StopInStartup \in BOOLEAN

VARIABLES
    pc,          \* control point of each worker thread
    running,     \* WorkerThread::running_
    finished,    \* WorkerThread::finished_
    current,     \* ExecutionState::current_task_
    pending,     \* ExecutionState::pending_event_flags_ ({}: has_pending_event_ false)
    yieldReq,    \* ExecutionState::yield_
    got,         \* tags returned by the last epoll_wait of the worker
    logTask,     \* task whose debug name the worker logs after publishing it
    queue,       \* WorkerThread::local_task_queue_
    tstate,      \* Task::state_, plus "Free" (not created) and "Destroyed"
    ops,         \* runtime calls the task has made so far
    reg,         \* epoll registration of each task's event source
    ready,       \* the task's event source is readable/writable
    wakeup,      \* the wakeup eventfd holds a count
    born,        \* number of WorkerThread objects constructed by Run()
    stopCalled,  \* TaskManager::Stop has been called (by the exit handler)
    scan         \* offset of the ring DequeNextTask's loop is looking at

vars == <<pc, running, finished, current, pending, yieldReq, got, logTask,
          queue, tstate, ops, reg, ready, wakeup, born, stopCalled, scan>>

PC == {"unborn", "loop", "waiting", "events", "drain", "running", "post",
       "postlog", "stopping", "stopped", "scan"}
TaskStates == {"Free", "NotStarted", "Executing", "Suspended", "Destroyed"}
Registration == [added : BOOLEAN, armed : BOOLEAN, once : BOOLEAN]
Live == {"NotStarted", "Executing", "Suspended"}

(* Run() constructs workers 1 .. N-1 first and worker 0 last.              *)
BirthOrder == [i \in 1 .. NumWorkers |-> IF i < NumWorkers THEN i ELSE 0]
Constructed(w) == \E i \in 1 .. born : BirthOrder[i] = w

-----------------------------------------------------------------------------
(* MRSWRing::Push: a full ring refuses the element, and every caller in    *)
(* worker_thread.cc ignores the returned bool.                             *)
Push(q, t) == IF Len(q) < QueueCapacity THEN Append(q, t) ELSE q

(* EpollEventQueue::AddEvent: ADD or MOD, EPOLLONESHOT iff ExactlyOnce.    *)
AddEvent(t, flags) ==
    reg' = [reg EXCEPT ![t] = [added |-> TRUE, armed |-> TRUE,
                               once |-> "ExactlyOnce" \in flags]]

(* Registrations epoll_wait can report: armed and the source is ready.     *)
Deliverable == {t \in Tasks : reg[t].armed /\ ready[t]}

(* The wakeup eventfd, which the EpollEventQueue constructor registers     *)
(* for Read with no task tag and no EPOLLONESHOT: level-triggered, it      *)
(* makes every epoll_wait return while it holds a count.                   *)
WakeupReadable == wakeup

(* The rest of EpollEventQueue::Wait: read the eventfd until it is empty.  *)
DrainWakeup == wakeup' = FALSE

(* WorkerThread::DelayedStop on each worker of ws: a relaxed store of      *)
(* false to running_, seen by its loop head at the next iteration.         *)
DelayedStop(ws) == running' = [v \in Workers |-> IF v \in ws THEN FALSE ELSE running[v]]

(* WorkerThread::DeferredExit: DelayedStop on the calling worker only.     *)
DeferredExit(w) == DelayedStop({w})

(* EpollEventQueue::InterruptAll: eight bytes written to the wakeup        *)
(* eventfd, which stays readable and so wakes every epoll_wait.            *)
InterruptAll == wakeup' = TRUE

(* WorkerThread::QueueTask: a TaskTuple pushed on w's own ring.            *)
QueueTask(w, t) == queue' = [queue EXCEPT ![w] = Push(@, t)]

(* WorkerThread::DestroyTask: the Task is deleted.                         *)
DestroyTask(t) == tstate' = [tstate EXCEPT ![t] = "Destroyed"]

-----------------------------------------------------------------------------
Init ==
    /\ pc = [w \in Workers |-> "unborn"]
    /\ running = [w \in Workers |-> FALSE]
    /\ finished = [w \in Workers |-> FALSE]
    /\ current = [w \in Workers |-> None]
    /\ pending = [w \in Workers |-> {}]
    /\ yieldReq = [w \in Workers |-> FALSE]
    /\ got = [w \in Workers |-> {}]
    /\ logTask = [w \in Workers |-> None]
    /\ queue = [w \in Workers |-> <<>>]
    /\ tstate = [t \in Tasks |-> IF t \in EntryPoints THEN "NotStarted" ELSE "Free"]
    /\ ops = [t \in Tasks |-> 0]
    /\ reg = [t \in Tasks |-> [added |-> FALSE, armed |-> FALSE, once |-> FALSE]]
    /\ ready = [t \in Tasks |-> FALSE]
    /\ wakeup = FALSE
    /\ born = 0
    /\ stopCalled = FALSE
    /\ scan = [w \in Workers |-> 0]

(* Mutation: worker 0's constructor queues the entrypoints without        *)
(* InterruptAll.                                                           *)
ConstructNoInterrupt ==
    LET w == BirthOrder[born + 1] IN
    /\ born < NumWorkers
    /\ born' = born + 1
    /\ pc' = [pc EXCEPT ![w] = "loop"]
    /\ running' = [running EXCEPT ![w] = TRUE]
    /\ finished' = [finished EXCEPT ![w] = FALSE]
    /\ queue' = IF w = 0 THEN [queue EXCEPT ![0] = FoldLeft(Push, <<>>, SetToSeq(EntryPoints))]
                         ELSE queue
    /\ UNCHANGED <<current, pending, yieldReq, got, logTask, tstate, ops,
                   reg, ready, stopCalled, scan, wakeup>>

(* TaskManager::Run constructs the next WorkerThread and starts it.  The   *)
(* constructor sets running_ and finished_; worker 0's constructor pushes  *)
(* the entrypoints into its ring and calls InterruptAll.                   *)
Construct ==
    LET w == BirthOrder[born + 1] IN
    /\ born < NumWorkers
    /\ born' = born + 1
    /\ pc' = [pc EXCEPT ![w] = "loop"]
    /\ running' = [running EXCEPT ![w] = TRUE]
    /\ finished' = [finished EXCEPT ![w] = FALSE]
    /\ IF w = 0
         THEN /\ queue' = [queue EXCEPT ![0] = FoldLeft(Push, <<>>, SetToSeq(EntryPoints))]
              /\ InterruptAll
         ELSE UNCHANGED <<queue, wakeup>>
    /\ UNCHANGED <<current, pending, yieldReq, got, logTask, tstate, ops,
                   reg, ready, stopCalled, scan>>

(* ThreadProc loop head: while (running_) ... else finished_ = true and    *)
(* StopInternal().                                                         *)
(* ThreadProc past its loop: finished_ = true.                            *)
MarkFinished(w) == finished' = [finished EXCEPT ![w] = TRUE]

LoopHead(w) ==
    /\ pc[w] = "loop"
    /\ IF running[w]
         THEN /\ pc' = [pc EXCEPT ![w] = "waiting"]
              /\ UNCHANGED finished
         ELSE /\ pc' = [pc EXCEPT ![w] = "stopping"]
              /\ MarkFinished(w)
    /\ UNCHANGED <<running, current, pending, yieldReq, got, logTask, queue,
                   tstate, ops, reg, ready, wakeup, born, stopCalled, scan>>

(* Mutation: registrations stay armed when reported (no EPOLLONESHOT).   *)
WaitNoOneshot(w) ==
    /\ pc[w] = "waiting"
    /\ \E evs \in SUBSET Deliverable :
         /\ Cardinality(evs) <= MaxEvents
         /\ evs # {} \/ WakeupReadable
         /\ got' = [got EXCEPT ![w] = evs]
    /\ pc' = [pc EXCEPT ![w] = "events"]
    /\ UNCHANGED <<running, finished, current, pending, yieldReq, logTask,
                   queue, tstate, ops, reg, ready, wakeup, born, stopCalled, scan>>

(* epoll_wait(-1) returns once the eventfd or some registration is ready:  *)
(* up to MaxEvents tagged events; EPOLLONESHOT registrations that are      *)
(* reported are disarmed by the kernel.                                    *)
Wait(w) ==
    /\ pc[w] = "waiting"
    /\ \E evs \in SUBSET Deliverable :
         /\ Cardinality(evs) <= MaxEvents
         /\ evs # {} \/ WakeupReadable
         /\ got' = [got EXCEPT ![w] = evs]
         /\ reg' = [t \in Tasks |-> IF t \in evs /\ reg[t].once
                                      THEN [reg[t] EXCEPT !.armed = FALSE]
                                      ELSE reg[t]]
    /\ pc' = [pc EXCEPT ![w] = "events"]
    /\ UNCHANGED <<running, finished, current, pending, yieldReq, logTask,
                   queue, tstate, ops, ready, wakeup, born, stopCalled, scan>>

(* Mutation: the null-tag test of ThreadProc inverted, so tagged events   *)
(* are skipped.                                                            *)
QueueEventsDropTagged(w) ==
    /\ pc[w] = "events"
    /\ DrainWakeup
    /\ got' = [got EXCEPT ![w] = {}]
    /\ pc' = [pc EXCEPT ![w] = "drain"]
    /\ UNCHANGED <<running, finished, current, pending, yieldReq, logTask,
                   queue, tstate, ops, reg, ready, born, stopCalled, scan>>

(* The rest of EventQueue::Wait drains the eventfd; ThreadProc then        *)
(* queues every tagged event's task on the local ring and skips untagged   *)
(* (wakeup) events.                                                        *)
QueueEvents(w) ==
    /\ pc[w] = "events"
    /\ DrainWakeup
    /\ queue' = [queue EXCEPT ![w] = FoldLeft(Push, @, SetToSeq(got[w]))]
    /\ got' = [got EXCEPT ![w] = {}]
    /\ pc' = [pc EXCEPT ![w] = "drain"]
    /\ UNCHANGED <<running, finished, current, pending, yieldReq, logTask,
                   tstate, ops, reg, ready, born, stopCalled, scan>>

-----------------------------------------------------------------------------
(* DequeNextTask pops the local ring first.  Otherwise it loops over      *)
(* threads_[i % N] for i = index_ .. index_+N-1, one ring (and its lock)  *)
(* per step, and pops the first non-empty one; a ring is looked at once,  *)
(* so a push to it after that is missed.  The popped task is bound to a   *)
(* Task if it has none (CreateTask), then PreTask sets current_task_ and  *)
(* Task::Execute / Task::Resume sets the state to Executing and switches  *)
(* to the fiber; a task resumed after WaitEvent consumes its source's     *)
(* readiness (the recv/send/accept that follows).                          *)
PreTask(w, t) == current' = [current EXCEPT ![w] = t]

(* Task::Execute on a NotStarted task, Task::Resume on a Suspended one:    *)
(* state_ = Executing, then the switch to the fiber.                       *)
SwitchIn(t) == tstate' = [tstate EXCEPT ![t] = "Executing"]

ExecuteTask(w, t) ==
    /\ PreTask(w, t)
    /\ SwitchIn(t)
    /\ pc' = [pc EXCEPT ![w] = "running"]

RunTask(w, v, t) ==
    /\ queue' = [queue EXCEPT ![v] = Tail(@)]
    /\ ExecuteTask(w, t)
    /\ ready' = [ready EXCEPT ![t] = FALSE]

DequeNextTask(w) ==
    /\ pc[w] = "drain"
    /\ IF queue[w] # <<>>
         THEN /\ RunTask(w, w, Head(queue[w]))
              /\ UNCHANGED scan
         ELSE /\ pc' = [pc EXCEPT ![w] = "scan"]
              /\ scan' = [scan EXCEPT ![w] = 0]
              /\ UNCHANGED <<current, queue, tstate, ready>>
    /\ UNCHANGED <<running, finished, pending, yieldReq, got, logTask, ops,
                   reg, wakeup, born, stopCalled>>

ScanTarget(w) == (w + scan[w]) % NumWorkers

(* One iteration of the scan loop; past the last ring, DequeNextTask      *)
(* returns false and ThreadProc goes back to its loop head.                *)
ScanPeer(w) ==
    LET v == ScanTarget(w) IN
    /\ pc[w] = "scan"
    /\ IF queue[v] # <<>>
         THEN RunTask(w, v, Head(queue[v]))
         ELSE /\ pc' = [pc EXCEPT ![w] = IF scan[w] + 1 = NumWorkers
                                           THEN "loop" ELSE "scan"]
              /\ UNCHANGED <<current, queue, tstate, ready>>
    /\ scan' = [scan EXCEPT ![w] = (@ + 1) % NumWorkers]
    /\ UNCHANGED <<running, finished, pending, yieldReq, got, logTask, ops,
                   reg, wakeup, born, stopCalled>>

-----------------------------------------------------------------------------
(* TaskContext::PerformAsync: a new TaskTuple on the current worker's      *)
(* ring, then InterruptAll.  The task keeps running.                       *)
PerformAsync(w) ==
    /\ pc[w] = "running"
    /\ \E f \in Tasks : tstate[f] = "Free"
    /\ LET f == CHOOSE f \in Tasks : tstate[f] = "Free" IN
         /\ tstate' = [tstate EXCEPT ![f] = "NotStarted"]
         /\ QueueTask(w, f)
    /\ InterruptAll
    /\ UNCHANGED <<pc, running, finished, current, pending, yieldReq, got,
                   logTask, reg, ready, born, stopCalled, scan>>

(* Task::Suspend: state_ = Suspended and switch back to the worker.        *)
Suspend(w) ==
    /\ tstate' = [tstate EXCEPT ![current[w]] = "Suspended"]
    /\ pc' = [pc EXCEPT ![w] = "post"]

(* TaskContext::Yield sets yield_ and suspends.                            *)
Yield(w) ==
    /\ pc[w] = "running"
    /\ yieldReq' = [yieldReq EXCEPT ![w] = TRUE]
    /\ Suspend(w)
    /\ UNCHANGED <<running, finished, current, pending, got, logTask, queue,
                   reg, ready, wakeup, born, stopCalled, scan>>

(* Mutation: WaitEvent registers the event before suspending, the race   *)
(* its comment warns about.                                                *)
WaitEventEager(w, flags) ==
    /\ pc[w] = "running"
    /\ pending' = [pending EXCEPT ![w] = flags]
    /\ AddEvent(current[w], flags)
    /\ Suspend(w)
    /\ UNCHANGED <<running, finished, current, yieldReq, got, logTask, queue,
                   ready, wakeup, born, stopCalled, scan>>

(* TaskContext::WaitEvent stores the pending event and its flags and       *)
(* suspends; the registration itself is left to PostTask.                  *)
WaitEvent(w, flags) ==
    /\ pc[w] = "running"
    /\ pending' = [pending EXCEPT ![w] = flags]
    /\ Suspend(w)
    /\ UNCHANGED <<running, finished, current, yieldReq, got, logTask, queue,
                   reg, ready, wakeup, born, stopCalled, scan>>

(* TaskContext::Exit: DeferredExit (running_ = false on this worker only)  *)
(* and suspend with neither a pending event nor a yield.                   *)
Exit(w) ==
    /\ pc[w] = "running"
    /\ DeferredExit(w)
    /\ Suspend(w)
    /\ UNCHANGED <<finished, current, pending, yieldReq, got, logTask, queue,
                   reg, ready, wakeup, born, stopCalled, scan>>

(* The task's exec function returns: the fiber trampoline switches back    *)
(* with the state still Executing.                                         *)
TaskReturn(w) ==
    /\ pc[w] = "running"
    /\ pc' = [pc EXCEPT ![w] = "post"]
    /\ UNCHANGED <<running, finished, current, pending, yieldReq, got, logTask,
                   queue, tstate, ops, reg, ready, wakeup, born, stopCalled, scan>>

(* An arbitrary task's code: between two suspensions it makes one of the   *)
(* runtime calls above, at most MaxOps of them before it must return.      *)
TaskCall(w) == pc[w] = "running" /\ ops[current[w]] < MaxOps
Used(w) == ops' = [ops EXCEPT ![current[w]] = @ + 1]

CallPerformAsync(w) == TaskCall(w) /\ Used(w) /\ PerformAsync(w)
CallYield(w) == TaskCall(w) /\ Used(w) /\ Yield(w)
CallWaitEvent(w) == TaskCall(w) /\ Used(w) /\ \E flags \in WaitFlagChoices : WaitEvent(w, flags)
CallExit(w) == TaskCall(w) /\ Used(w) /\ Exit(w)

TaskStep(w) ==
    CallPerformAsync(w) \/ CallYield(w) \/ CallWaitEvent(w) \/ CallExit(w) \/ TaskReturn(w)

-----------------------------------------------------------------------------
(* Mutation: the yield branch of PostTask forgets to requeue the task.    *)
PostTaskYieldDrops(w) ==
    LET t == current[w] IN
    /\ pc[w] = "post"
    /\ CASE pending[w] # {} ->
              /\ AddEvent(t, pending[w])
              /\ pending' = [pending EXCEPT ![w] = {}]
              /\ UNCHANGED <<yieldReq, tstate>>
         [] pending[w] = {} /\ yieldReq[w] ->
              /\ yieldReq' = [yieldReq EXCEPT ![w] = FALSE]
              /\ UNCHANGED <<pending, reg, tstate>>
         [] OTHER ->
              /\ tstate' = [tstate EXCEPT ![t] = "Destroyed"]
              /\ UNCHANGED <<pending, yieldReq, reg>>
    /\ current' = [current EXCEPT ![w] = None]
    /\ IF DebugName /\ (pending[w] # {} \/ yieldReq[w])
         THEN /\ pc' = [pc EXCEPT ![w] = "postlog"]
              /\ logTask' = [logTask EXCEPT ![w] = t]
         ELSE /\ pc' = [pc EXCEPT ![w] = "drain"]
              /\ UNCHANGED logTask
    /\ UNCHANGED <<running, finished, got, ops, ready, wakeup, born,
                   stopCalled, scan, queue>>

(* Mutation: PostTask leaves exec_.current_task_ set.                     *)
ClearCurrentSkipped(w) == UNCHANGED current

(* The last step of PostTask: exec_.current_task_ = nullptr.              *)
ClearCurrent(w) == current' = [current EXCEPT ![w] = None]

(* WorkerThread::PostTask after the fiber switched back: register the      *)
(* pending event with the task as tag, or requeue a yielding task on the   *)
(* local ring, or destroy the task; then clear current_task_.  With        *)
(* XYNQ_TASK_HAS_DEBUGNAME the first two branches then log                 *)
(* task->debug_name_, after the task has been published to other workers. *)
PostTask(w) ==
    LET t == current[w] IN
    /\ pc[w] = "post"
    /\ CASE pending[w] # {} ->
              /\ AddEvent(t, pending[w])
              /\ pending' = [pending EXCEPT ![w] = {}]
              /\ UNCHANGED <<yieldReq, queue, tstate>>
         [] pending[w] = {} /\ yieldReq[w] ->
              /\ QueueTask(w, t)
              /\ yieldReq' = [yieldReq EXCEPT ![w] = FALSE]
              /\ UNCHANGED <<pending, reg, tstate>>
         [] OTHER ->
              /\ DestroyTask(t)
              /\ UNCHANGED <<pending, yieldReq, queue, reg>>
    /\ ClearCurrent(w)
    /\ IF DebugName /\ (pending[w] # {} \/ yieldReq[w])
         THEN /\ pc' = [pc EXCEPT ![w] = "postlog"]
              /\ logTask' = [logTask EXCEPT ![w] = t]
         ELSE /\ pc' = [pc EXCEPT ![w] = "drain"]
              /\ UNCHANGED logTask
    /\ UNCHANGED <<running, finished, got, ops, ready, wakeup, born, stopCalled, scan>>

(* The "Will suspend" / "Yielding" log line reads task->debug_name_.       *)
PostTaskLog(w) ==
    /\ pc[w] = "postlog"
    /\ pc' = [pc EXCEPT ![w] = "drain"]
    /\ logTask' = [logTask EXCEPT ![w] = None]
    /\ UNCHANGED <<running, finished, current, pending, yieldReq, got, queue,
                   tstate, ops, reg, ready, wakeup, born, stopCalled, scan>>

(* Mutation: StopInternal's loop without InterruptAll.                    *)
StopInternalNoInterrupt(w) ==
    /\ pc[w] = "stopping"
    /\ DelayedStop({v \in Workers : ~finished[v]})
    /\ pc' = IF \A v \in Workers : finished[v]
               THEN [pc EXCEPT ![w] = "stopped"] ELSE pc
    /\ UNCHANGED <<finished, current, pending, yieldReq, got, logTask, queue,
                   tstate, ops, reg, ready, born, stopCalled, scan, wakeup>>

(* One round of TaskManager::StopInternal's do-while: DelayedStop on every *)
(* worker not finished, InterruptAll, and leave once all are finished.     *)
(* finished_ of a worker not yet constructed reads as false here.          *)
StopInternal(w) ==
    /\ pc[w] = "stopping"
    /\ DelayedStop({v \in Workers : ~finished[v]})
    /\ InterruptAll
    /\ pc' = IF \A v \in Workers : finished[v]
               THEN [pc EXCEPT ![w] = "stopped"] ELSE pc
    /\ UNCHANGED <<finished, current, pending, yieldReq, got, logTask, queue,
                   tstate, ops, reg, ready, born, stopCalled, scan>>

(* TaskManager::Stop: DelayedStop on every worker, then InterruptAll.  It  *)
(* asserts only that threads_ is allocated, which Run does before          *)
(* constructing any worker.                                                *)
Stop == DelayedStop(Workers) /\ InterruptAll

(* The SIGINT/SIGTERM handler main.cc installs before Run(): the           *)
(* exit_called test_and_set lets only the first signal through, which      *)
(* calls the installed handler, TaskManager::Stop.  StopInStartup admits   *)
(* the signal while Run() is still constructing workers.                   *)
ExitHandler ==
    /\ ~stopCalled
    /\ IF StopInStartup THEN born >= 1 ELSE born = NumWorkers
    /\ stopCalled' = TRUE
    /\ Stop
    /\ UNCHANGED <<pc, finished, current, pending, yieldReq, got, logTask,
                   queue, tstate, ops, reg, ready, born, scan>>

(* The peer of a socket the task waits on makes it readable/writable.     *)
SourceReady(t) ==
    /\ reg[t].armed /\ ~ready[t]
    /\ ready' = [ready EXCEPT ![t] = TRUE]
    /\ UNCHANGED <<pc, running, finished, current, pending, yieldReq, got,
                   logTask, queue, tstate, ops, reg, wakeup, born, stopCalled, scan>>

-----------------------------------------------------------------------------
Worker(w) ==
    \/ LoopHead(w) \/ Wait(w) \/ QueueEvents(w)
    \/ DequeNextTask(w) \/ ScanPeer(w)
    \/ TaskStep(w) \/ PostTask(w) \/ PostTaskLog(w) \/ StopInternal(w)

Next ==
    \/ Construct
    \/ ExitHandler
    \/ \E w \in Workers : Worker(w)
    \/ \E t \in Tasks : SourceReady(t)

(* Every worker thread is scheduled by the OS: weak fairness on each of    *)
(* its steps.  epoll_wait returns while a registration stays deliverable   *)
(* or the eventfd stays readable.  The peers of sockets and the exit       *)
(* handler are the environment: no fairness.                               *)
Fairness ==
    /\ WF_vars(Construct)
    /\ \A w \in Workers :
         /\ WF_vars(LoopHead(w)) /\ WF_vars(Wait(w)) /\ WF_vars(QueueEvents(w))
         /\ WF_vars(DequeNextTask(w)) /\ WF_vars(ScanPeer(w))
         /\ WF_vars(TaskStep(w)) /\ WF_vars(PostTask(w))
         /\ WF_vars(PostTaskLog(w)) /\ WF_vars(StopInternal(w))

Spec == Init /\ [][Next]_vars /\ Fairness

-----------------------------------------------------------------------------
TypeOK ==
    /\ pc \in [Workers -> PC]
    /\ running \in [Workers -> BOOLEAN] /\ finished \in [Workers -> BOOLEAN]
    /\ current \in [Workers -> Tasks \cup {None}]
    /\ pending \in [Workers -> SUBSET Flags]
    /\ yieldReq \in [Workers -> BOOLEAN]
    /\ got \in [Workers -> SUBSET Tasks]
    /\ logTask \in [Workers -> Tasks \cup {None}]
    /\ queue \in [Workers -> Seq(Tasks)]
    /\ \A w \in Workers : Len(queue[w]) <= QueueCapacity
    /\ tstate \in [Tasks -> TaskStates]
    /\ ops \in [Tasks -> 0 .. MaxOps]
    /\ reg \in [Tasks -> Registration]
    /\ ready \in [Tasks -> BOOLEAN]
    /\ wakeup \in BOOLEAN /\ born \in 0 .. NumWorkers /\ stopCalled \in BOOLEAN
    /\ scan \in [Workers -> 0 .. NumWorkers - 1]
    \* PreTask asserts exec_.current_task_ == nullptr: a worker holds a
    \* current task exactly from PreTask until the end of PostTask.
    /\ \A w \in Workers : current[w] # None <=> pc[w] \in {"running", "post"}

(* Places a task can be found in: TaskManager::entrypoints_ until worker  *)
(* 0 takes them, each occurrence on a ring, each epoll result buffer      *)
(* holding it, each worker running it, its armed registration.            *)
Places(t) ==
    (IF t \in EntryPoints /\ ~Constructed(0) THEN 1 ELSE 0) +
    MapThenSumSet(LAMBDA v : Len(SelectSeq(queue[v], LAMBDA x : x = t)), Workers)
    + Quantify(Workers, LAMBDA v : t \in got[v])
    + Quantify(Workers, LAMBDA v : current[v] = t)
    + (IF reg[t].armed THEN 1 ELSE 0)

(* A task that exists is in exactly one place, and a task that does not    *)
(* (not yet spawned, or deleted by PostTask) is in none: no spawned or     *)
(* yielding task is lost by a ring push, and no task is queued twice by a  *)
(* yield racing an event or by two epoll_wait calls reporting one source.  *)
TaskAccounting ==
    \A t \in Tasks : Places(t) = IF tstate[t] \in Live THEN 1 ELSE 0

(* The assertion of ThreadProc after DequeNextTask: every task on a ring   *)
(* or in an epoll result is NotStarted or Suspended, never one that is     *)
(* executing on another worker or that PostTask has deleted.               *)
QueuedTasksRunnable ==
    \A w \in Workers :
        \A t \in Range(queue[w]) \cup got[w] : tstate[t] \in {"NotStarted", "Suspended"}

(* No task runs on two workers at once: the fiber and its stack are used   *)
(* by one thread only.                                                     *)
SingleExecutor ==
    \A v, w \in Workers : v # w /\ current[v] # None => current[v] # current[w]

(* The debug log line after PostTask publishes the task (to epoll or the  *)
(* ring) reads a task that another worker has not deleted meanwhile.      *)
PostLogSafe ==
    \A w \in Workers : pc[w] = "postlog" => tstate[logTask[w]] # "Destroyed"

Stopping == \E w \in Workers : pc[w] \in {"stopping", "stopped"}

(* A spawned or entry task is eventually started unless the pool stops.   *)
SpawnedTaskStarts ==
    \A t \in Tasks : tstate[t] = "NotStarted" ~> (tstate[t] # "NotStarted" \/ Stopping)

(* A task whose awaited source became ready is eventually resumed unless   *)
(* the pool stops: the epoll registration made by PostTask is reported,   *)
(* queued and dequeued.                                                    *)
ReadyTaskResumes ==
    \A t \in Tasks : (reg[t].armed /\ ready[t]) ~> (tstate[t] = "Executing" \/ Stopping)

(* Once one worker leaves its loop (Exit or Stop), every worker finishes: *)
(* StopInternal's DelayedStop and InterruptAll reach threads that are      *)
(* asleep in epoll_wait or busy with tasks.                                *)
AllWorkersStop ==
    Stopping ~> \A w \in Workers : pc[w] = "stopped"

=============================================================================
