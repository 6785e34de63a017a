CONSTANTS
    a = a
    b = b
    c = c
    e1 = e1
    e2 = e2
    NoExpr = NoExpr
    Vals = {a, b, c}
    Exprs = {e1, e2}
    MaxIns = 2
    MaxQueue = 4
    MaxOps = 6
    MaxDepth = 4
SPECIFICATION Spec
INVARIANTS
    CheckCycleCorrect
    ReportedPathHasCycle
    RecursivelyDefinedCorrect
    OperationCountOfTree
    IsFunctionalCorrect
PROPERTIES
    Terminates
    RecursivelyDefinedTerminates
    IsFunctionalTerminates
