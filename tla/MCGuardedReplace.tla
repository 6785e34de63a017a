-------------------------- MODULE MCGuardedReplace --------------------------
(* Fusion f1 holds TensorViews t0, t1, t2 and the Cast eCast : t0 -> t1;   *)
(* replaceValInAllExprInputsAndFusionOutputs(t0, t2) builds              *)
(* eCastT2 : t2 -> t1.  f2 is another Fusion a caller can make current.   *)
(* The scalar bridge of MCGuardedReplaceStale.cfg instead has             *)
(*   eMeta   : t0 -> s1   (tensor to scalar; the substitute is eMetaT2)     *)
(*   eScalar : s1 -> s0   (scalar-only)                                    *)
(*   eFull   : s0 -> t1   (a tensor built from a scalar)                   *)
(* so that a scalar-only registerExpr can make eMeta live.                *)
EXTENDS GuardedReplace, TLC

CONSTANTS t0, t1, t2, s0, s1, eCast, eCastT2, eMeta, eMetaT2, eScalar, eFull, f1, f2

BaseInputs == (eCast :> <<t0>>) @@ (eCastT2 :> <<t2>>) @@ (eMeta :> <<t0>>)
    @@ (eMetaT2 :> <<t2>>) @@ (eScalar :> <<s1>>) @@ (eFull :> <<s0>>)
MCExprInputs == [e \in Exprs |-> BaseInputs[e]]
BaseOutputs == (eCast :> <<t1>>) @@ (eCastT2 :> <<t1>>) @@ (eMeta :> <<s1>>)
    @@ (eMetaT2 :> <<s1>>) @@ (eScalar :> <<s0>>) @@ (eFull :> <<t1>>)
MCExprOutputs == [e \in Exprs |-> BaseOutputs[e]]
MCDType == [v \in Vals |-> IF v \in TVs THEN "Float" ELSE "Int"]
MCReplaceCalls == {<<t0, t2>>}
MCSubstituteFor == <<eCast, t0, t2>> :> eCastT2
MCBridgeSubstituteFor == <<eMeta, t0, t2>> :> eMetaT2
MCNoAliasPairs == {}
=============================================================================
