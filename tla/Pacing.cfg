SPECIFICATION Spec
CONSTANTS
    MinProbePackets = 3
    MinProbeDelta = 1
    MinProbeDuration = 3
    MaxProbeDelay = 1
    ProbeTimeout = 4
    MinProbePacketSize = 2
    CongestedInterval = 3
    MaxDebtInTime = 3
    MaxElapsedTime = 6
    MaxEarlyProbe = 1
    QueueTimeLimit = 8
    PaddingDuration = 1
    HoldBack = 1
    StatsInterval = 1
    MinStatsInterval = 1
    InitialRate = 2
    Modules = {"audio", "video"}
    InitialModules <- MCInitialModules
    AudioModules = {"audio"}
    PayloadPadding = {"video"}
    Padding = {"audio", "video"}
    Rates <- MCRates
    ProbeRate = 2
    PacketSizes = {6}
    Window = 2
    MaxTime = 9
    MaxLate = 1
    MaxPackets = 2
    MaxProbes = 2
    MaxCalls = 2
    MaxEvents = 3
INVARIANTS ProbeRateKept LastModuleRegistered WakeupPending NeverSilent QueueDrains
CHECK_DEADLOCK FALSE
