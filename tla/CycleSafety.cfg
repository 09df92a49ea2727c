SPECIFICATION SafeSpec
CONSTANTS
    r1 = r1
    r2 = r2
    p1 = p1
    p2 = p2
    Requests <- MCRequests
    Peers <- MCPeers
    PeerOf <- OnePeer
    RetryCount = 1
    DiscoveryRetries = 1
    Timeout = 2
    Lifetime = 2
    FirstHandle = 1
    FirstMsgId = 101
    ReplyKinds <- AllReplyKinds
    MaxSends = 5
    MaxFailures = 1
    MaxOutages = 1
CHECK_DEADLOCK FALSE
INVARIANTS TypeOK GeneratorAndDispatcherAgree KnownReplyHasRequest KeptWhileAwaited ExpiryIsScheduled
PROPERTY ImplementsServiceSafely
