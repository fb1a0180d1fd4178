CONSTANTS
    w1 = w1
    w2 = w2
    t1 = t1
    t2 = t2
    u1 = u1
    u2 = u2
    u3 = u3
    NoThread = NoThread
    NoTask = NoTask
    NoReferer = NoReferer
    NoEntry = NoEntry
    Workers <- MCWorkers
    Tasks <- MCTasks
    Strings <- MCStrings
    Log <- MCLog
    MaxSpurious = 1
    TopSize = 2

SPECIFICATION LogFairSpec

INVARIANTS
    AddIsMissing
    TotalsExact
    TopIsRight

PROPERTY
    ProgramEnds
