CONSTANTS
    t0 = t0  t1 = t1  t2 = t2  s0 = s0  s1 = s1
    eBinary = eBinary  eCast = eCast
    eMeta = eMeta  eScalar = eScalar  eWelford = eWelford  eWelfordN = eWelfordN
    NoExpr = NoExpr  NoVal = NoVal
    Vals = {t0, t1, s0, s1}
    TVs = {t0, t1}
    CastExprs = {eCast}
    ExprInputs <- MCExprInputs
    ExprOutputs <- MCExprOutputs
    DType <- MCDType
    Exprs = {eCast}
    IsKernel = FALSE
    MaxInputs = 1
    MaxOutputs = 2
    AliasPairs <- MCNoAliasPairs

SPECIFICATION Spec
INVARIANT DeclaredIOLive
