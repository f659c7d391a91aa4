CONSTANTS
    Fields = {"num", "str", "opt"}
    VarFields = {"str"}
    CellValNum <- MCCellValNum
    NCells = 3
    CellEnd <- MCCellEnd
    Handles = {"num", "str", "opt"}
    FieldOf <- MCFieldOf
    Managed = {"num", "str", "opt"}
    Allocator <- TightAllocator
    UserSpaces <- MCUserSpaces
    Stack <- CollectStack
    ClearedBy <- Cloned
    Drivers = {"step", "execute"}
    MaxSpace = 20
    MaxErrors = 0
SPECIFICATION Spec
INVARIANTS
    ExactlyOnce
