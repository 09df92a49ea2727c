SPECIFICATION Spec
CONSTANTS
    r1 = r1
    r2 = r2
    p1 = p1
    p2 = p2
    Requests <- MCRequests
    Peers <- MCPeers
    PeerOf <- TwoPeers
    RetryCount = 1
    DiscoveryRetries = 0
    Timeout = 2
    Lifetime = 2
    FirstHandle = 1
    FirstMsgId = 101
    ReplyKinds <- CommunityKinds
    MaxSends = 4
    MaxFailures = 1
    MaxOutages = 0
INVARIANT AcceptedIsPursued
PROPERTY ImplementsService
