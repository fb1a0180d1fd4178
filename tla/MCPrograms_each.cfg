SPECIFICATION ProgramsFairSpec
CONSTANTS
    Greeting <- MCGreeting
    Reply <- MCReply
    BufferSize = 5
    BUFFER_SIZE = 3
    Pointer = 8
    MaxChunk = 6
    MaxAnswer = 40
    Names <- MCNames
    Archives <- MCArchives
    Sources <- MCSources
    Codes <- MCCodes
    Blank = "_"
    Texts <- MCTexts
    Messages <- MCMessages
INVARIANTS
    WholeConversation
    BufferHolds
    EntriesAreListed
    TextIsKept
    CountsExact
    CrcIsDivision
PROPERTIES
    ScanEnds
    EndsUnlessSplit
