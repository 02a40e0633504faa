SPECIFICATION Spec
CONSTANTS
    None = None
    Setups <- MCSetups
    Targets <- MCTargets
    PropNames <- MCPropNames
    Nul <- MCNul
    DtbLike <- MCDtbLike
    TreeNames <- MCTreeNames
    MinBlob = 64
    MaxBlob = 300
    MaxRuns = 1
INVARIANT
    FindsEveryBlob
CHECK_DEADLOCK FALSE
