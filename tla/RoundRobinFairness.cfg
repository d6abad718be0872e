SPECIFICATION Spec
CONSTANTS
    Ssrcs = {s1, s2}
    Types <- OneType
    Sizes <- OneSize
    HeadersSize = 0
    Overheads <- NoOverheads
    kMaxLeadingSize = 1
    MaxTime = 0
    MaxPackets = 10
INVARIANT BoundedBypass
