CONSTANTS
    Fields = {"num", "str", "opt"}
    VarFields = {"str"}
    CellValNum <- MCCellValNum
    NCells = 3
    CellEnd <- MCCellEnd
    Handles = {"num", "str", "opt"}
    FieldOf <- MCFieldOf
    Managed = {"num"}
    Allocator <- TightAllocator
    UserSpaces <- MCUserSpaces
    Stack <- MixedStack
    ClearedBy <- Uncleared
    Drivers = {"step"}
    MaxSpace = 10
    MaxErrors = 1
SPECIFICATION Spec
\* A panic ends the thread.
CHECK_DEADLOCK FALSE
INVARIANTS
    RawBuffersFresh
    PanicsOnlyUncleared
