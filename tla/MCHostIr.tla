------------------------------ MODULE MCHostIr ------------------------------
(* A host program over TensorViews t0, t1 and the scalar s0:               *)
(*   eBinary : t0, s0 -> t1    eCast : t0 -> t1                             *)
(* two host Exprs writing the same TensorView t1.                           *)
EXTENDS HostIr

CONSTANTS t0, t1, s0, eBinary, eCast

MCExprInputs == [e \in Exprs |-> IF e = eBinary THEN <<t0, s0>> ELSE <<t0>>]
MCExprOutputs == [e \in Exprs |-> <<t1>>]
MCDType == [v \in Vals |-> IF v \in TVs THEN "Float" ELSE "Int"]
=============================================================================
