SPECIFICATION RSpec
CONSTANTS
    SeqSpan = 12
    kMaxCapacity = 3
    kMaxPaddingHistory = 3
    kMinPacketDurationMs = 1
    kMinPacketDurationRtt = 2
    kPacketCullingDelayFactor = 2
    EnablePaddingPrio = FALSE
    MaxGap = 1
    MaxReorder = 0
    InitialNewest <- MCInitialNewest
    Rtts <- MCRtts
    Capacities <- MCCapacities
    MaxTime = 3
    MaxInserted = 3
    MaxRetransmit = 2
    NackLists <- MCNackLists
INVARIANT PendingIsInPacer
