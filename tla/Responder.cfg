SPECIFICATION Spec
CONSTANTS
    r1 = r1
    r2 = r2
    r3 = r3
    alice = alice
    bob = bob
    Requests = {r1, r2, r3}
    Requesters = {alice, bob}
    From <- FromMC
    Loop = loop
    Nobody = nobody
    Outcomes = {"value", "smiError", "report", "refused", "crash"}
    MaxCloses = 1
    Lifetime = 1
INVARIANTS OwnIdentity CachesAgree
PROPERTY DeferredEnds
