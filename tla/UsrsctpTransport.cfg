SPECIFICATION Spec
CONSTANTS
    a = a
    b = b
    s1 = s1
    s2 = s2
    Peers = {a, b}
    Writers <- MCWriters
    Closures <- MCClosures
    Connected = {a}
    Sids = {s1, s2}
    Limits <- MCLimits
    kSctpSendBufferSize = 4
    MaxStarts <- MCMaxStarts
    MaxOpens <- MCMaxOpens
    MaxMessages = 2
    MaxFailures <- MCMaxFailures
    ReuseAfterRefusal = FALSE
INVARIANTS BufferedStreamKnown MessagesArriveWhole ClosedStreamsLoseNothing RemoteCloseIsReal NoStreamStuck NoWriterStuck
CHECK_DEADLOCK FALSE
