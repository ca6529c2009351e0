CONSTANTS
    f = f
    g = g
    tInt = tInt
    tStr = tStr
    none = none
    Funcs <- MCFuncs
    Types <- MCTypes
    Annot <- MCAnnot
    Proxies <- MCOps
    ObjAttrs = {"_op"}
    Methods = {"m"}
    Attrs = {"y"}
    Vals = {0, 1}
    Produced <- MCProduced
    None <- none
    MaxCalls = 2
SPECIFICATION ApiSpec
CHECK_DEADLOCK FALSE
INVARIANT
    GetterOnlyCalledOnUse
