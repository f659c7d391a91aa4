CONSTANTS
    Fields = {"num", "str"}
    VarFields = {"str"}
    CellValNum <- MCCellValNum
    NCells = 3
    CellEnd <- MCCellEnd
    Handles = {"num", "str"}
    FieldOf <- MCFieldOf
    Managed = {"num", "str"}
    Allocator <- TightAllocator
    UserSpaces <- MCUserSpaces
    Stack <- ManagedVarArgStack
    ClearedBy <- Blank
    Drivers = {"execute"}
    MaxSpace = 20
    MaxErrors = 0
SPECIFICATION FairSpec
PROPERTIES
    ExecuteReturns
