CONSTANTS
    a = a
    b = b
    c = c
    d = d
    NoKey = NoKey
    HashValues <- MCHashes
    InitialCap = 2
    Keys <- MCKeys
    MaxCap = 8

SPECIFICATION AnyCallSpec

SYMMETRY Symmetry

INVARIANTS
    StoredIsFound
    RoomIsCounted

PROPERTY
    KeySetSpec
