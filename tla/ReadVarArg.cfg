CONSTANTS
    Fields = {"num", "str", "opt"}
    VarFields = {"str"}
    CellValNum <- MCCellValNum
    NCells = 3
    CellEnd <- MCCellEnd
    Handles = {"num", "str", "opt"}
    FieldOf <- MCFieldOf
    Managed = {"opt"}
    Allocator <- DefaultAllocator
    UserSpaces <- MCUserSpaces
    Stack <- VarArgStack
    ClearedBy <- Blank
    Drivers = {"step"}
    MaxSpace = 10
    MaxErrors = 1
SPECIFICATION Spec
INVARIANTS
    NotEnoughSpaceGrows
    Inductive
PROPERTIES
    KeepsContract
