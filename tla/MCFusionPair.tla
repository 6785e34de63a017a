---------------------------- MODULE MCFusionPair ----------------------------
(* Two containers over TensorViews t0, t1 and the scalar s0, with the       *)
(* BinaryOp eBinary : t0, s0 -> t1 (a TV input, whose use only invalidates  *)
(* the TV use lists, and a scalar input, whose use is recorded at once).    *)
EXTENDS FusionPair

CONSTANTS t0, t1, s0, eBinary

MCExprInputs == [e \in Exprs |-> <<t0, s0>>]
MCExprOutputs == [e \in Exprs |-> <<t1>>]
MCDType == [v \in Vals |-> IF v \in TVs THEN "Float" ELSE "Int"]
MCAliasPairs == {}
=============================================================================
