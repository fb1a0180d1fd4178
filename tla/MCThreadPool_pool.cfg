CONSTANTS
    w1 = w1
    w2 = w2
    w3 = w3
    t1 = t1
    t2 = t2
    t3 = t3
    NoThread = NoThread
    NoTask = NoTask
    Workers <- MCWorkers3
    Tasks <- MCTasks3
    MaxSpurious = 1

SPECIFICATION WorkerFairSpec

INVARIANTS
    TasksConserved
    NoLostWakeup
    CounterExact
    FreeLosesNothingQueued

PROPERTIES
    QueuedIsTaken
    TaskQueueSpec
