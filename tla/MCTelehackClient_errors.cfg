SPECIFICATION FairSpec
CONSTANTS
    Greeting <- MCGreeting
    Reply <- MCReply
    BufferSize = 5
PROPERTY ErrorsEndIt
