CONSTANTS
    e1 = e1
    e2 = e2
    f1 = f1
    Envs <- MCEnvs
    Eager <- MCEager
    Fields <- MCFields
    MaxOps = 3
    MaxCalls = 2
    MaxRuns = 2
    RefCounts = {0, 1, 2}
SPECIFICATION Spec
INVARIANT
    ArgsMaterializedFirst
CHECK_DEADLOCK FALSE
