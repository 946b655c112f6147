SPECIFICATION LiveSpec
CONSTANTS
    u1 = u1
    u2 = u2
    t1 = t1
    UdpRequests <- UdpOnes
    TcpRequests <- TcpOnes
    MaxConcurrent = 2
    MaxIdle = 1
    NumSockets = 3
    MaxDuplicates = 1
    None = None
INVARIANTS TypeOK SocketHasOneOwner AnswerIsOwn
PROPERTY ProxyDrains
CHECK_DEADLOCK FALSE
