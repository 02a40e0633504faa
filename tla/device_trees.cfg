SPECIFICATION Spec
CONSTANTS
    None = None
    Setups <- MCSetups
    Targets <- MCTargets
    PropNames <- MCPropNames
    Nul <- MCNul
    DtbLike <- MCDtbLike
    TreeNames <- MCTreeNames
    MinBlob = 64
    MaxBlob = 300
    MaxRuns = 4
INVARIANTS
    TypeOK
    Edited
    Described
    OnlyNops
    DumpShowsTree
    HitsOrdered
    FindsRegular
    IndexTrue
PROPERTIES
    RunsEnd
CHECK_DEADLOCK FALSE
