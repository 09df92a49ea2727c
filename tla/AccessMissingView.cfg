SPECIFICATION Spec
CONSTANTS
    Users <- MCUsers
    Levels = {1, 2}
    ContextNames <- MCContextNames
    Subtrees <- MCSubtrees
    Masks <- MCMasks
    Oids <- MCOids
    MaxRows = 3
INVARIANT NotGivenIsDenied
