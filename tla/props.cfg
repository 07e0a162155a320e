CONSTANTS
    k1 = k1  x1 = x1
    None = None  Absent = Absent  Null = Null
    Names <- MCNames
    Scripts <- MCScripts
SPECIFICATION Spec
INVARIANTS
    RankedPrecedence
