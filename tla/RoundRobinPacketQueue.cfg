SPECIFICATION Spec
CONSTANTS
    Ssrcs = {s1, s2}
    Types <- MCTypes
    Sizes <- MCSizes
    HeadersSize = 1
    Overheads <- MCOverheads
    kMaxLeadingSize = 2
    MaxTime = 2
    MaxPackets = 3
INVARIANTS SchedulingMatchesQueues AccountsMatchContents QueueTimeIsTimeWaited
PROPERTY FifoPerStreamAndType
