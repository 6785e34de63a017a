------------------------------- MODULE MCIrUtils -------------------------------
(***************************************************************************)
(* The ir_utils functions that only read their arguments: one call of     *)
(* normalizeNew2Old, normalizeOld2New (module Reorder) or compareDomains  *)
(* (module DomainCompare) per behaviour.  The function not called keeps   *)
(* its variables at the values of "no call": Reorder's `done` set with    *)
(* the call "none", DomainCompare's status "idle".  One call at a time   *)
(* keeps the state space the sum of the two, not their product.          *)
(*                                                                         *)
(* compareDomains runs on one tensor's transform history:                 *)
(*   eSplit  : i0     -> i1, i2   (split of a root axis)                    *)
(*   eMerge  : i2, i3 -> i4       (merge with the broadcast root axis i3)   *)
(*   eSplitS : s0     -> s1, s2   (split of a symbolic axis into two)       *)
(* so {i0, i3, s0} is its root domain and {i1, i4, s1, s2} its loop domain; *)
(* i3 is also the one additional ID callers pass.                          *)
(***************************************************************************)
EXTENDS TLC

CONSTANTS MaxDims, IDs, IdExprs, Symbolic, Broadcast, Additional,
          i0, i1, i2, i3, i4, s0, s1, s2, eSplit, eMerge, eSplitS

VARIABLES call, rResult, done,
          dom0, dom1, ignoreBcast, additional, addl, pending, frontier, status, result

MCIdIn  == (eSplit :> {i0}) @@ (eMerge :> {i2, i3}) @@ (eSplitS :> {s0})
MCIdOut == (eSplit :> {i1, i2}) @@ (eMerge :> {i4}) @@ (eSplitS :> {s1, s2})

R == INSTANCE Reorder WITH result <- rResult
D == INSTANCE DomainCompare WITH IdIn <- MCIdIn, IdOut <- MCIdOut

rVars == <<call, rResult, done>>
dVars == <<dom0, dom1, ignoreBcast, additional, addl, pending, frontier, status, result>>
vars == <<rVars, dVars>>

NoReorderCall == call = [fn |-> "none"] /\ rResult = R!Error /\ done = TRUE
NoCompareCall ==
    /\ dom0 = {} /\ dom1 = {} /\ ignoreBcast = FALSE /\ additional = {} /\ addl = {}
    /\ pending = {} /\ frontier = {} /\ status = "idle" /\ result = D!Equivalent

Init == \/ R!Init /\ NoCompareCall
        \/ NoReorderCall /\ D!Init

ReorderStep == (R!CallNew2Old \/ R!CallOld2New) /\ UNCHANGED dVars
CompareStep == (D!LoopStep \/ D!Finish) /\ UNCHANGED rVars
Returned == done /\ (D!Ended \/ status = "idle") /\ UNCHANGED vars

Next == ReorderStep \/ CompareStep \/ Returned

\* compareDomains is a sequential loop that, once entered, keeps executing.
Spec == Init /\ [][Next]_vars /\ WF_vars(CompareStep)

-----------------------------------------------------------------------------
(* A vector that normalizeNew2Old or normalizeOld2New returns is a        *)
(* permutation of the axes.                                                *)
NormalizedIsPermutation == R!NormalizedIsPermutation

(* normalizeOld2New honours every entry of a request whose old axes stay  *)
(* distinct after wrapping and keeps the other axes in order.             *)
Old2NewPlacesAxes == R!Old2NewPlacesAxes

(* validateDomainEquivalence returns for any two domains of one tensor.    *)
DomainsOfOneTensorValidate == D!DomainsOfOneTensorValidate

(* When the symbolic pass leaves both checks to run, a domain validated   *)
(* against a domain of a tensor is a domain of that tensor.               *)
ValidatedDomainIsDerivedWhenChecked == D!ValidatedDomainIsDerivedWhenChecked

(* Any domain validated against a domain of a tensor is one of its domains *)
(* (fails: a symbolic ID on one side switches the other side's check off). *)
ValidatedDomainIsDerived == D!ValidatedDomainIsDerived
=============================================================================
