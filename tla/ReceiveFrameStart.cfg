SPECIFICATION Spec
CONSTANTS
    SeqSpace = 16
    StartSize = 2
    MaxSize = 4
    MissingAge = 3
    NoPacket = NoPacket
    MaxStashedFrames = 3
    PaddingAge = 2
    GopAge = 2
    RekeyAge = 3
    Streams <- MCStreams
    StreamLengths = {6}
    MaxFramePackets = 3
    MaxPadding = 1
    FirstSeq = 14
    OldSeqNumThreshold = 4
    MaxReorder = 3
    MaxDeliveries = 6
INVARIANT SearchFindsFrameStart
CHECK_DEADLOCK FALSE
