SPECIFICATION RSpec
CONSTANTS
    SeqSpan = 12
    kMaxCapacity = 2
    kMaxPaddingHistory = 2
    kMinPacketDurationMs = 1
    kMinPacketDurationRtt = 2
    kPacketCullingDelayFactor = 2
    EnablePaddingPrio = TRUE
    MaxGap = 1
    MaxReorder = 0
    InitialNewest <- MCInitialNewest
    Rtts <- MCRtts
    Capacities <- MCCapacities
    MaxTime = 2
    MaxInserted = 3
    MaxRetransmit = 2
    NackLists <- MCNackLists
INVARIANTS NoDuplicateRetransmission RetransmissionsSpaced AlwaysHasSendTime
           PendingUnlessDropped WithinLimits
