SPECIFICATION RowSpec
CONSTANTS
    Rows = {r1}
    Index = index
    Data = data
    Extra = extra
    Status = status
    Present = {index, data, status}
    v1 = v1
    v2 = v2
    Columns <- TableColumns
    StatusColumn = status
    IndexColumns = {index}
    OptionalColumns = {}
    Default <- Defaults
    CellValues = {v1, v2}
    BadValue = bad
    IndexValue = ix
    NoValue = noValue
    None = none
    MaxBindings = 2
    DataValues = {v1, v2}
    Commands = {"createAndGo", "destroy", "active"}
    RowRequests <- AnyRequest
INVARIANTS RowIsWhole RefusedLeavesNoTrace
