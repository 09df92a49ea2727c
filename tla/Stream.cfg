SPECIFICATION Spec
CONSTANTS
    Peers = {p1, p2}
    Listeners = {p1}
    Callers = {p2}
    ClientMode = TRUE
    NestedConnect = FALSE
    MaxMessages = 3
    MaxConns = 2
CHECK_DEADLOCK FALSE
INVARIANTS QueueIsServed NoSilentLoss InOrder
PROPERTY ComesToRest
