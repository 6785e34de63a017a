--------------------------- MODULE FusionMutators ---------------------------
(***************************************************************************)
(* ir_utils::replaceValInAllExprInputsAndFusionOutputs(old_val, new_val)  *)
(* on a Fusion.  It copies old_val->uses() (Val::uses() first rebuilds the *)
(* TV use lists when they are invalid), then for each Expr of the copy     *)
(* calls replaceValInExprInputs, whose SubstituteInExpr builds an Expr of  *)
(* the same kind and outputs with old_val replaced by new_val among the    *)
(* inputs; building it registers it, and SSA registerExpr removes the old  *)
(* definition of its outputs, the use itself.  Last, a declared output    *)
(* old_val is replaced by new_val through replaceOutput.                   *)
(*                                                                         *)
(* The call runs to completion before any other Fusion method: the copy,  *)
(* each substitution and the output step are one action each, and the     *)
(* Fusion actions are disabled while a call is in progress.  The module   *)
(* GuardedReplace composes these actions with FusionGuard.                *)
(***************************************************************************)
EXTENDS FusionQueries

CONSTANTS
    ReplaceCalls,   \* the <<old_val, new_val>> pairs callers pass
    SubstituteFor   \* SubstituteFor[<<e, ref, sub>>] : the Expr object that
                    \* SubstituteInExpr builds from e (one object per call)

ASSUME
    /\ ReplaceCalls \subseteq Vals \X Vals
    /\ \A k \in DOMAIN SubstituteFor :
          /\ k \in Exprs \X Vals \X Vals
          /\ SubstituteFor[k] \in Exprs
          /\ ExprInputs[SubstituteFor[k]] = ReplaceAll(ExprInputs[k[1]], k[2], k[3])
          /\ ExprOutputs[SubstituteFor[k]] = ExprOutputs[k[1]]
          /\ (SubstituteFor[k] \in CastExprs) = (k[1] \in CastExprs)

VARIABLES
    oldVal,     \* old_val of the call in progress, NoVal between calls
    newVal,     \* new_val of the call in progress
    pending     \* the Exprs of the copied use list not yet substituted

mutVars == <<oldVal, newVal, pending>>
allVars == <<vars, mutVars>>

Idle == oldVal = NoVal

\* The Expr replaceValInExprInputs(e, oldVal, newVal) registers.
Substitute(e) == SubstituteFor[<<e, oldVal, newVal>>]

\* The Expr objects only SubstituteInExpr builds.
Substitutes == {SubstituteFor[k] : k \in DOMAIN SubstituteFor}

MutInit ==
    /\ Init
    /\ oldVal = NoVal /\ newVal = NoVal /\ pending = {}

\* The call that takes old_val's raw use list, skipping the rebuild.
ReplaceBeginWithoutReset(old, new) ==
    /\ Idle
    /\ {old, new} \subseteq vals
    /\ \A u \in UsesWithoutReset(old) :
          /\ <<u, old, new>> \in DOMAIN SubstituteFor
          /\ SubstituteFor[<<u, old, new>>] \notin exprs \cup removed
    /\ pending' = UsesWithoutReset(old)
    /\ oldVal' = old /\ newVal' = new
    /\ UNCHANGED vars

(* The call begins: `auto uses = old_val->uses()`.  For a TensorView with *)
(* invalid use lists uses() runs resetTvUses() first, a state change of   *)
(* its own.  Each substitution builds a fresh Expr object: the model has  *)
(* one per <<use, old_val, new_val>> and starts a call only while none of *)
(* them has been built yet.                                               *)
ReplaceBegin(old, new) ==
    /\ Idle
    /\ {old, new} \subseteq vals
    /\ \A u \in Uses(old) :
          /\ <<u, old, new>> \in DOMAIN SubstituteFor
          /\ SubstituteFor[<<u, old, new>>] \notin exprs \cup removed
    /\ pending' = Uses(old)
    /\ oldVal' = old /\ newVal' = new
    /\ IF old \in TVs /\ ~tvUsesValid THEN ResetTvUses ELSE UNCHANGED vars

(* One iteration of the loop: replaceValInExprInputs(use, old, new),     *)
(* with the new Expr built in the container `builtHere` says: only one    *)
(* built in this Fusion is registered here, and its SSA step removes `use` *)
(* as the old definition of its outputs.  A use not reading old_val would *)
(* be returned unchanged (nothing substituted, nothing registered).       *)
ReplaceUse(builtHere) ==
    /\ ~Idle
    /\ \E u \in pending :
          /\ pending' = pending \ {u}
          /\ IF builtHere /\ oldVal \in Ins(u) THEN RegisterExpr(Substitute(u))
                                               ELSE UNCHANGED vars
    /\ UNCHANGED <<oldVal, newVal>>

\* The end of the call without the output step.
ReplaceEndKeepingOutput ==
    /\ ~Idle /\ pending = {}
    /\ oldVal' = NoVal /\ newVal' = NoVal
    /\ UNCHANGED <<vars, pending>>

(* The loop is done: if old_val is flagged isFusionOutput, replaceOutput. *)
(* Its NVF_CHECK throws when the flag is set but old_val is not found in  *)
(* outputs_; the exception ends the call with the substitutions made.     *)
ReplaceEnd ==
    /\ ~Idle /\ pending = {}
    /\ \/ oldVal \in isOutput /\ ReplaceOutput(oldVal, newVal)
       \/ oldVal \in isOutput /\ oldVal \notin ToSet(outputs) /\ UNCHANGED vars
       \/ oldVal \notin isOutput /\ UNCHANGED vars
    /\ oldVal' = NoVal /\ newVal' = NoVal
    /\ UNCHANGED pending

(* Between calls any Fusion method runs, except that the substitutes are  *)
(* built by the mutator only.                                             *)
ClientCall ==
    /\ Idle /\ Next /\ (exprs' \ exprs) \cap Substitutes = {}
    /\ UNCHANGED mutVars

-----------------------------------------------------------------------------
(* replaceValInAllExprInputsAndFusionOutputs leaves old_val read, among   *)
(* the live Exprs, only by Exprs that new_val is itself computed from (a  *)
(* new_val built from old_val): no live use was missed by the copy of     *)
(* old_val->uses() taken at the start.  And an old_val flagged and found  *)
(* as a declared output has given its place in outputs_ to new_val.       *)
(* It holds while the TV use lists are either flagged invalid or right;   *)
(* a list left stale but flagged valid by a scalar-only registerExpr     *)
(* breaks it (MCGuardedReplaceStale.cfg).                                 *)
ReplaceValInAllCorrect ==
    [][~Idle /\ Idle' =>
         \A o \in {oldVal}, n \in {newVal} :
            /\ (\A e \in LiveUsers(o) : Outs(e) \cap Upstream({n}, {}) # {})'
            /\ o \in isOutput /\ o \in ToSet(outputs) =>
                  (o \notin ToSet(outputs) /\ n \in ToSet(outputs))'
      ]_allVars
=============================================================================
