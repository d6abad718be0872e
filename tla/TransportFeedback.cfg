SPECIFICATION Spec
CONSTANTS
    SeqSpace = 16
    ByteSpan = 4
    BaseSpan = 16
    TickUnits = 2
    MaxTwoBit = 1
    MaxOneBit = 3
    MaxRunLength = 4
    MaxReported = 5
    HeaderBytes = 20
    ChunkBytes = 2
    MaxBytes = 31
    Nothing = Nothing
    FirstSeq = 14
    HistoryWindow = 8
    MsUnits = 4
    StartTime = 400
    SendGaps = {4}
    PeerStarts = {186}
    ArrivalGaps = {1, 9}
    MaxPackets = 5
    MaxUnsignalled = 1
    MaxReorder = 1
    MaxMessages = 2
    MaxProcessed = 2
INVARIANTS MessagesFaithful ReceivedOnce ReceiveTimesAgree
CHECK_DEADLOCK FALSE
