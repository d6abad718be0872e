SPECIFICATION Spec
CONSTANTS
    SeqSpan = 12
    kMaxCapacity = 2
    kMaxPaddingHistory = 3
    kMinPacketDurationMs = 1
    kMinPacketDurationRtt = 2
    kPacketCullingDelayFactor = 2
    EnablePaddingPrio = TRUE
    MaxGap = 1
    MaxReorder = 1
    InitialNewest <- MCInitialNewest
    Rtts <- MCRtts
    Capacities <- MCCapacities
    MaxTime = 2
    MaxInserted = 3
    MaxRetransmit = 1
INVARIANTS TypeOK FrontPopulated SlotOrder EveryStoredPacketIsFound SentUnlessPending
           PaddingPointersLive IInv
PROPERTY CullingSparesLivePackets
