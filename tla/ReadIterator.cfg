CONSTANTS
    Fields = {"num", "str", "opt"}
    VarFields = {"str"}
    CellValNum <- MCCellValNum
    NCells = 4
    CellEnd <- MCCellEnd
    Handles = {"num", "str", "opt"}
    FieldOf <- MCFieldOf
    Managed = {"num", "str", "opt"}
    Allocator <- TightAllocator
    UserSpaces <- MCUserSpaces
    Stack <- CollectStack
    ClearedBy <- Uncleared
    Drivers = {"next"}
    MaxSpace = 20
    MaxErrors = 2
SPECIFICATION Spec
\* An iterator ends with the final result or an error.
CHECK_DEADLOCK FALSE
INVARIANTS
    NoPanic
PROPERTIES
    FinalIsWhole
