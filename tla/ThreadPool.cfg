\* Two clients, two workers, a task from a client and one that a running task
\* adds.  Symmetry is not used: it is unsound for the temporal properties.
SPECIFICATION FairSpec
CONSTANTS
    c1 = c1
    c2 = c2
    t1 = t1
    t2 = t2
    None = None
    Clients <- TwoClients
    Owner = c1
    NWorkers = 2
    Tasks <- TwoTasks
    Nested = {t2}
INVARIANTS
    TypeOK
    Conservation
    OneJoiner
    StoppedIsQuiet
PROPERTIES
    WaitMeansDone
    ImplementsContract
    AcceptedTasksRun
    StopReturns
    WaitReturns
