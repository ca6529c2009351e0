CONSTANTS
    e1 = e1
    e2 = e2
    f1 = f1
    Envs <- MCEnvs
    Eager <- MCEager
    Fields <- MCFields
    MaxOps = 3
    MaxCalls = 2
    MaxRuns = 1
    RefCounts = {0, 1}
SPECIFICATION Spec
INVARIANTS
    ExitedEnvFullyMaterialized
PROPERTIES
    OpGraphRefinement
CHECK_DEADLOCK FALSE
