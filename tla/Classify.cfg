CONSTANTS
    StdNames <- MCStdNames
    NoDist <- MCNoDist
    LocalFiles <- MCLocalFiles
SPECIFICATION Spec
INVARIANTS
    
    TopLevelPathLocatesPackage
