CONSTANTS
    t0 = t0  t1 = t1  s0 = s0
    eBinary = eBinary  eCast = eCast
    NoExpr = NoExpr  NoVal = NoVal
    Vals = {t0, t1, s0}
    TVs = {t0, t1}
    Exprs = {eBinary, eCast}
    CastExprs = {eCast}
    ExprInputs <- MCExprInputs
    ExprOutputs <- MCExprOutputs
    DType <- MCDType
    AliasPairs = {}
    IsKernel = FALSE
    MaxInputs = 1
    MaxOutputs = 1
    MaxTopLevel = 3

SPECIFICATION HostSpec
INVARIANT TopLevelExprsRegistered
\* A host program is built by a finite sequence of calls, then stops.
CHECK_DEADLOCK FALSE
