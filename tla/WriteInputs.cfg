CONSTANTS
    Fields = {"num", "str", "opt"}
    CellValNum <- MCCellValNum
    Nullable = {"str", "opt"}
    BufferSize = 4
    Values <- AllValues
    Batches <- MCBatches
    SubarrayCells = 2
    Leftovers <- MCLeftovers
    MaxInputs = 4
    MaxErrors = 1
SPECIFICATION Spec
CHECK_DEADLOCK FALSE
INVARIANTS
    TypeOK
    StaleOnlyIfMissing
    FragmentIsGiven
    AcceptedIsWritten
    CompleteInputs
    ProvidersFaithful
