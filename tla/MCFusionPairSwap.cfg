CONSTANTS
    t0 = t0  t1 = t1  s0 = s0  eBinary = eBinary
    NoExpr = NoExpr  NoVal = NoVal
    Vals = {t0, t1, s0}
    TVs = {t0, t1}
    Exprs = {eBinary}
    CastExprs = {}
    ExprInputs <- MCExprInputs
    ExprOutputs <- MCExprOutputs
    DType <- MCDType
    AliasPairs <- MCAliasPairs
    IsKernel = FALSE
    MaxInputs = 1
    MaxOutputs = 1

SPECIFICATION SpecWithSwap
INVARIANT PairUsesCacheSound
