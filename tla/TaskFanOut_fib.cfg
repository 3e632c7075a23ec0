\* Fib(4) on two workers: nine tasks (the whole call tree, three levels of
\* parents), so parents are suspended in the Yield spin while children and
\* grandchildren run on either worker, stolen or not.
CONSTANTS
    NumWorkers = 2
    Tasks = {t1, t2, t3, t4, t5, t6, t7, t8, t9}
    Root = t1
    QueueCapacity = 9
    FibN = 4
SPECIFICATION Spec
CHECK_DEADLOCK FALSE
INVARIANTS
    TypeOK
    ResultIsFib
PROPERTIES
    RunReturns
