CONSTANTS
    Fields = {"num", "str", "opt"}
    VarFields = {"str"}
    CellValNum <- MCCellValNum
    NCells = 3
    CellEnd <- MCCellEnd
    Handles = {"num", "str", "opt"}
    FieldOf <- MCFieldOf
    Managed = {"num", "str", "opt"}
    Allocator <- TightAllocator
    UserSpaces <- MCUserSpaces
    Stack <- CollectStack
    ClearedBy <- Blank
    Drivers = {"step", "execute"}
    MaxSpace = 20
    MaxErrors = 2
SPECIFICATION FairSpec
INVARIANTS
    TypeOK
    ExactlyOnce
    SubmitsCurrentBuffers
    NotEnoughSpaceGrows
    NoPanic
PROPERTIES
    FinalIsWhole
    ExecuteReturns
    KeepsContract
