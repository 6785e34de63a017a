CONSTANTS
    t0 = t0  t1 = t1  t2 = t2  s0 = s0  s1 = s1
    eCast = eCast  eCastT2 = eCastT2  eMeta = eMeta  eMetaT2 = eMetaT2
    eScalar = eScalar  eFull = eFull
    f1 = f1  f2 = f2
    NoExpr = NoExpr  NoVal = NoVal  NoFusion = NoFusion
    Vals = {t0, t1, t2}
    TVs = {t0, t1, t2}
    Exprs = {eCast, eCastT2}
    CastExprs = {eCast, eCastT2}
    ExprInputs <- MCExprInputs
    ExprOutputs <- MCExprOutputs
    DType <- MCDType
    IsKernel = FALSE
    MaxInputs = 1
    MaxOutputs = 1
    AliasPairs <- MCNoAliasPairs
    ReplaceCalls <- MCReplaceCalls
    SubstituteFor <- MCSubstituteFor
    Fusions = {f1, f2}
    F = f1
    GuardDepth = 3
SPECIFICATION ComposedSpec
PROPERTY ImplementsScopedFusion
PROPERTY ReplaceValInAllCorrect
