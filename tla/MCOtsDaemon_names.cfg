SPECIFICATION Spec
CONSTANTS
    p1 = p1
    p2 = p2
    c1 = c1
    c2 = c2
    long = long
    short = short
    mixed = mixed
    NoProc = NoProc
    NoClient = NoClient
    Procs <- MCProcs
    Path <- long
    Names <- MCNames
    Overlay <- MCOverlay
    Clients <- MCNoClient
INVARIANT OneDaemon
INVARIANT PidFileNamesDaemon
INVARIANT ServerIsReachable
SYMMETRY Symmetry
