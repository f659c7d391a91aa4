CONSTANTS
    Fields = {"num", "str"}
    CellValNum <- MCCellValNum
    Nullable = {"str"}
    BufferSize = 4
    Values <- FlatValues
    Batches = {}
    SubarrayCells = 2
    Leftovers <- MCLeftovers
    MaxInputs = 3
    MaxErrors = 0
SPECIFICATION Spec
CHECK_DEADLOCK FALSE
INVARIANTS
    RegisteredLive
