\* Two workers, an entry task and one task it may spawn, three runtime calls
\* each (so a task can spawn, wait and then yield or exit); the
\* Read|ExactlyOnce and Write|ExactlyOnce waits of TcpStream; up to two
\* events per epoll_wait.  Rings never overflow at this size.  XYNQ_DEBUG
\* build: PostTask logs after it has published the task.  Safety, and
\* progress under the fairness of the worker threads.
CONSTANTS
    NumWorkers = 2
    Tasks = {t1, t2}
    EntryPoints = {t1}
    QueueCapacity = 3
    MaxEvents = 2
    MaxOps = 3
    WaitFlagChoices = {{"Read", "ExactlyOnce"}, {"Write", "ExactlyOnce"}}
    DebugName = TRUE
    StopInStartup = FALSE
SPECIFICATION Spec
CHECK_DEADLOCK FALSE
PROPERTIES
    SpawnedTaskStarts
    ReadyTaskResumes
    AllWorkersStop
INVARIANTS
    TypeOK
    TaskAccounting
    QueuedTasksRunnable
    SingleExecutor
