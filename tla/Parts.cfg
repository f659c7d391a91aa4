CONSTANTS
    TMin <- MCTMin
    TMax <- MCTMax
    CountMax = 100
    CellNumbers <- MCCellNumbers
    RangeInputs <- MCRangeInputs
    RangeLists <- MCRangeLists
    Slices <- MCSlices
    Coordinates <- MCCoordinates
    Grids <- MCGrids
    Asked <- MCAsked
    FilterInputs <- MCFilterInputs
    Contexts <- MCContexts
    Allowances <- MCAllowances
    DimensionDatatypes <- MCDimensionDatatypes
    Limits <- MCLimits
    Conditions <- MCConditions
    ConditionCells <- MCConditionCells
    Failing <- MCFailing
    Outputs <- MCOutputs
    MaxListWidth = 2
    Requests <- MCRequests
    FieldOf <- MCFieldOf
    MaxSteps = 3
    VarSized <- MCVarSized
    Boxes <- MCBoxes
    Leq <- MCLeq
    MaxFragments = 2
    MaxLoads = 2
    MaxHandles = 4
    MaxFailures = 2
    ExploreChunks = 3
    Inputs <- MCInputs
    Fails <- MCFails
SPECIFICATION Spec
INVARIANTS
    ArrowRoundTrip
    CellsAlgebra
    DatatypesAgree
    RangeAlgebra
    SubarraysAsGiven
    FilterRoundTrip
    DrawnDimensionsFit
    SchemaRoundTrip
    ConditionMeans
    ConditionShrinks
    YieldsCells
    SlicesLive
    AnswersRight
    
    FragmentsSeen
    HandlesFreedOnce
    ShrinkFindsCulprit
PROPERTIES
    ShrinkProgress
    ShrinkEnds
CHECK_DEADLOCK FALSE
