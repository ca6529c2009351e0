CONSTANTS
    Envs <- OneEnvs
    Objs <- OneObjs
    WbOf <- OneWbOf
    e1 = e1
    e2 = e2
    w1 = w1
    w2 = w2
    f1 = f1
    f2 = f2
    none = none
    None <- none
    Fields <- MCFields
    Vals <- MCVals
SPECIFICATION Spec
CHECK_DEADLOCK FALSE
INVARIANT WhiteboardContract
