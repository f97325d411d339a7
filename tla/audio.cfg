SPECIFICATION FairSpec
CONSTANTS
    OutChannels = 2
    Quantum = 2
    OutSize = 6
    OutChunk = 4
    InSize = 4
    MaxInChannels = 2
    Samples = 8
    MaxPosted = 1
    None = None
INVARIANTS
    TypeOK
    SamplesConserved
    ChunksFit
    ChannelsInStep
    CapturedAsSpoken
PROPERTIES
    ImplementsStream
    KeepsPlaying
    CloseResolves
CHECK_DEADLOCK FALSE
