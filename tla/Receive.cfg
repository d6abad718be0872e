SPECIFICATION Spec
CONSTANTS
    SeqSpace = 16
    StartSize = 2
    MaxSize = 4
    MissingAge = 3
    NoPacket = NoPacket
    MaxStashedFrames = 3
    PaddingAge = 2
    GopAge = 2
    RekeyAge = 3
    Streams <- MCStreams
    StreamLengths = {5, 6}
    MaxFramePackets = 2
    MaxPadding = 2
    FirstSeq = 14
    OldSeqNumThreshold = 4
    MaxReorder = 2
    MaxDeliveries = 6
INVARIANTS TypeOK BufferNeverFull NothingWithheld
PROPERTY ShowsOnlyDecodable
CHECK_DEADLOCK FALSE
