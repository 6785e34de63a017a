------------------------------ MODULE MCFusion ------------------------------
(* A small Fusion: TensorViews t0, t1 and scalars s0, s1.                   *)
(*   eBinary : t0, s0 -> t1   (a BinaryOp with a scalar operand)            *)
(*   eCast   : t0     -> t1   (a Cast, a second definition of t1)           *)
(*   eMeta   : t0     -> s1   (GetMetaData-like: tensor to scalar)          *)
(*   eScalar : s1     -> s0   (a scalar op that gives s0 a definition)      *)
(*   eWelford: t0     -> t1, t2 (a two-output op: average and variance)    *)
(*   eWelfordN: t0    -> t1, s1 (average and the scalar count N)           *)
(* eMeta and eScalar form a scalar-only bridge from t0 into eBinary.        *)
(* t2, eWelford and eWelfordN only occur in the configurations that list *)
(* them.                                                                    *)
EXTENDS FusionQueries, TLC

CONSTANTS t0, t1, t2, s0, s1, eBinary, eCast, eMeta, eScalar, eWelford, eWelfordN

\* The operands of each Expr, as e->inputs() and e->outputs().
BaseInputs ==
    (eBinary :> <<t0, s0>>) @@ (eCast :> <<t0>>) @@ (eMeta :> <<t0>>)
    @@ (eScalar :> <<s1>>) @@ (eWelford :> <<t0>>) @@ (eWelfordN :> <<t0>>)

BaseOutputs ==
    (eBinary :> <<t1>>) @@ (eCast :> <<t1>>) @@ (eMeta :> <<s1>>)
    @@ (eScalar :> <<s0>>) @@ (eWelford :> <<t1, t2>>)
    @@ (eWelfordN :> <<t1, s1>>)

MCExprInputs == [e \in Exprs |-> BaseInputs[e]]
MCExprOutputs == [e \in Exprs |-> BaseOutputs[e]]

MCDType == [v \in Vals |-> IF v \in TVs THEN "Float" ELSE "Int"]

\* aliasOutputToInput(t1, t0, type): the in-place update pattern
MCAliasPairs == {<<t1, t0>>}
MCNoAliasPairs == {}
=============================================================================
