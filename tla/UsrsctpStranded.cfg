SPECIFICATION Spec
CONSTANTS
    a = a
    b = b
    s1 = s1
    s2 = s2
    Peers = {a, b}
    Writers <- OneSize
    Closures <- OneCloser
    Connected = {a, b}
    Sids = {s1, s2}
    Limits <- MCLimits
    kSctpSendBufferSize = 4
    MaxStarts <- NoStarts
    MaxOpens <- OneOpening
    MaxMessages = 2
    MaxFailures <- NoFailures
    ReuseAfterRefusal = FALSE
PROPERTY ResetStreamCompletes
CHECK_DEADLOCK FALSE
