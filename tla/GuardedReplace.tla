--------------------------- MODULE GuardedReplace ---------------------------
(***************************************************************************)
(* FusionGuard composed with a Fusion F and its mutator.  Nodes are built  *)
(* under the active container (IrBuilder::create registers a new Val or    *)
(* Expr in FusionGuard::getCurFusion()), so a client's registerVal and     *)
(* registerExpr reach F only while F is active; every other method is     *)
(* called on F itself.  replaceValInExprInputs opens                      *)
(* `FusionGuard fg(expr->fusion())` around SubstituteInExpr, so the Expr *)
(* it builds lands in the use's own Fusion whatever the caller has made   *)
(* current; the guard's destructor then restores the caller's slot.       *)
(* Between calls, guards open and close and setCurFusion runs anywhere.  *)
(***************************************************************************)
EXTENDS FusionMutators

CONSTANTS
    Fusions,      \* Fusion objects, F among them
    NoFusion,     \* nullptr
    GuardDepth,   \* bound on the number of nested guards of the caller
    F             \* the Fusion whose graph is modelled

ASSUME F \in Fusions

VARIABLES
    active,       \* FusionGuard::active_fusion_
    guards        \* prev_fusion_ of each live guard, innermost last

guardVars == <<active, guards>>
composedVars == <<allVars, guardVars>>

G == INSTANCE FusionGuard WITH MaxDepth <- GuardDepth

\* The step builds a Val or an Expr (IrBuilder::create).
Created == ~(vals' \subseteq vals) \/ ~(exprs' \subseteq exprs)

(* A Fusion method between calls; one that builds a node changes F only  *)
(* while F is the active Fusion (a node built under another Fusion, or   *)
(* under nullptr, where IrBuilder::create fails, leaves F as it is).     *)
GuardedClientCall ==
    /\ ClientCall
    /\ Created => active = F
    /\ UNCHANGED guardVars

(* The caller's scopes: a FusionGuard built or destroyed, setCurFusion.  *)
GuardStep ==
    /\ Idle
    /\ G!Next
    /\ UNCHANGED allVars

Begin ==
    /\ \E c \in ReplaceCalls : ReplaceBegin(c[1], c[2])
    /\ UNCHANGED guardVars

\* One substitution with the new Expr built in `fusion`.
SubstituteBuiltIn(fusion) ==
    /\ ReplaceUse(fusion = F)
    /\ UNCHANGED guardVars

(* replaceValInExprInputs: FusionGuard fg(expr->fusion()) makes F active  *)
(* while SubstituteInExpr builds the Expr, and its destructor restores   *)
(* the caller's active Fusion: the slot is unchanged after the step.     *)
GuardedSubstitute == SubstituteBuiltIn(F)

End ==
    /\ ReplaceEnd
    /\ UNCHANGED guardVars

ComposedInit == MutInit /\ G!Init

ComposedNext ==
    \/ GuardedClientCall
    \/ GuardStep
    \/ Begin
    \/ GuardedSubstitute
    \/ End

ComposedSpec == ComposedInit /\ [][ComposedNext]_composedVars

-----------------------------------------------------------------------------
(* The guards still implement scoped acquisition (spec 5) when the scopes *)
(* interleave with Fusion calls and with the mutator's own guards.        *)
ImplementsScopedFusion == G!ImplementsScopedFusion
=============================================================================
