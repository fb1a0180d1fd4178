SPECIFICATION FairSpec
CONSTANTS
    p1 = p1
    p2 = p2
    c1 = c1
    c2 = c2
    long = long
    short = short
    mixed = mixed
    NoProc = NoProc
    NoClient = NoClient
    Procs <- MCProcs
    Path <- long
    Names <- MCOneName
    Overlay <- MCSameName
    Clients <- MCClients
INVARIANT TypeOK
INVARIANT NameFreeForBind
INVARIANT ClientsAreHeld
PROPERTY NoClientIsKept
