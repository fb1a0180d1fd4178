CONSTANTS
    w1 = w1
    w2 = w2
    w3 = w3
    t1 = t1
    t2 = t2
    t3 = t3
    NoThread = NoThread
    NoTask = NoTask
    Workers <- MCWorkers2
    Tasks <- MCTasks2
    MaxSpurious = 0

SPECIFICATION Spec

INVARIANT
    AwaitReturnsIdle
