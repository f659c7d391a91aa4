CONSTANTS
    Fields = {"num", "str"}
    CellValNum <- MCCellValNum
    Nullable = {"str"}
    BufferSize = 4
    Values <- Rows
    Batches = {}
    SubarrayCells = 2
    Leftovers <- MCLeftovers
    MaxInputs = 2
    MaxErrors = 0
SPECIFICATION Spec
CHECK_DEADLOCK FALSE
INVARIANTS
    FixedCellsFit
