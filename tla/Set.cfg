SPECIFICATION Spec
CONSTANTS
    Objects = {a, b, f}
    Missing = missing
    Values = {v1, v2}
    BadValue = bad
    Unset = unset
    None = none
    ReadView = {a, f}
    WriteView = {a, b, f}
    FailsAfter = {f}
    FailsBefore = {b}
    MaxBindings = 2
INVARIANT SetIsAtomic
PROPERTY OperationEnds
