----------------------------- MODULE FusionPair -----------------------------
(***************************************************************************)
(* Two Fusion objects, a and b, and the operations that move a graph from *)
(* one to the other (container.h 111-239): Fusion::copy, the copy and     *)
(* move constructors and assignments, all built from clear(), copy() and  *)
(* the friend swap(a, b).  Each container is an instance of Fusion (with  *)
(* the structural queries of FusionQueries); any of its own methods can   *)
(* be called between the transfers.                                       *)
(*                                                                         *)
(* A Val or Expr is named by the same model value in both containers: the *)
(* IrCloner maps each object of `from` to a fresh object of `to`, and the *)
(* name stands for "the object of this container that corresponds".      *)
(***************************************************************************)
EXTENDS Naturals, Sequences, SequencesExt

CONSTANTS Vals, TVs, Exprs, ExprInputs, ExprOutputs, CastExprs, DType,
          AliasPairs, IsKernel, MaxInputs, MaxOutputs, NoExpr, NoVal

VARIABLES
    aVals, aExprs, aRemoved, aDefinition, aUses, aInputs, aOutputs,
    aIsInput, aIsOutput, aIoAlias, aTvUsesValid,
    bVals, bExprs, bRemoved, bDefinition, bUses, bInputs, bOutputs,
    bIsInput, bIsOutput, bIoAlias, bTvUsesValid

aVars == <<aVals, aExprs, aRemoved, aDefinition, aUses, aInputs, aOutputs,
           aIsInput, aIsOutput, aIoAlias, aTvUsesValid>>
bVars == <<bVals, bExprs, bRemoved, bDefinition, bUses, bInputs, bOutputs,
           bIsInput, bIsOutput, bIoAlias, bTvUsesValid>>
vars == <<aVars, bVars>>

A == INSTANCE FusionQueries WITH
    vals <- aVals, exprs <- aExprs, removed <- aRemoved,
    definition <- aDefinition, uses <- aUses, inputs <- aInputs,
    outputs <- aOutputs, isInput <- aIsInput, isOutput <- aIsOutput,
    ioAlias <- aIoAlias, tvUsesValid <- aTvUsesValid
B == INSTANCE FusionQueries WITH
    vals <- bVals, exprs <- bExprs, removed <- bRemoved,
    definition <- bDefinition, uses <- bUses, inputs <- bInputs,
    outputs <- bOutputs, isInput <- bIsInput, isOutput <- bIsOutput,
    ioAlias <- bIoAlias, tvUsesValid <- bTvUsesValid

-----------------------------------------------------------------------------
(* The whole state of a container as a record, and writing one back.      *)
StateA == [vals |-> aVals, exprs |-> aExprs, removed |-> aRemoved,
           definition |-> aDefinition, uses |-> aUses, inputs |-> aInputs,
           outputs |-> aOutputs, isInput |-> aIsInput, isOutput |-> aIsOutput,
           ioAlias |-> aIoAlias, tvUsesValid |-> aTvUsesValid]
StateB == [vals |-> bVals, exprs |-> bExprs, removed |-> bRemoved,
           definition |-> bDefinition, uses |-> bUses, inputs |-> bInputs,
           outputs |-> bOutputs, isInput |-> bIsInput, isOutput |-> bIsOutput,
           ioAlias |-> bIoAlias, tvUsesValid |-> bTvUsesValid]

SetA(r) ==
    /\ aVals' = r.vals /\ aExprs' = r.exprs /\ aRemoved' = r.removed
    /\ aDefinition' = r.definition /\ aUses' = r.uses
    /\ aInputs' = r.inputs /\ aOutputs' = r.outputs
    /\ aIsInput' = r.isInput /\ aIsOutput' = r.isOutput
    /\ aIoAlias' = r.ioAlias /\ aTvUsesValid' = r.tvUsesValid
SetB(r) ==
    /\ bVals' = r.vals /\ bExprs' = r.exprs /\ bRemoved' = r.removed
    /\ bDefinition' = r.definition /\ bUses' = r.uses
    /\ bInputs' = r.inputs /\ bOutputs' = r.outputs
    /\ bIsInput' = r.isInput /\ bIsOutput' = r.isOutput
    /\ bIoAlias' = r.ioAlias /\ bTvUsesValid' = r.tvUsesValid

Containers == {"a", "b"}
St(c) == IF c = "a" THEN StateA ELSE StateB
\* `to` becomes rTo and `from` becomes rFrom.
Write(to, rTo, rFrom) ==
    IF to = "a" THEN SetA(rTo) /\ SetB(rFrom) ELSE SetB(rTo) /\ SetA(rFrom)

-----------------------------------------------------------------------------
(* Fusion::clear: IrContainer::clear frees every object; lists, aliases   *)
(* and managed data are emptied and all_tv_uses_valid_ is reset.          *)
Cleared ==
    [vals |-> {}, exprs |-> {}, removed |-> {},
     definition |-> [v \in Vals |-> NoExpr], uses |-> [v \in Vals |-> {}],
     inputs |-> <<>>, outputs |-> <<>>, isInput |-> {}, isOutput |-> {},
     ioAlias |-> [v \in Vals |-> A!NoAlias], tvUsesValid |-> FALSE]

(* The state x holds after swap(x, y): IrContainer::swap and the swaps of *)
(* inputs_, outputs_, io_alias_ and the permuted maps give it y's graph;  *)
(* all_tv_uses_valid_ is not swapped, x keeps its own.                    *)
Swapped(x, y) == [y EXCEPT !.tvUsesValid = x.tvUsesValid]

(* Fusion::copy(from, to) on a cleared `to`: IrContainer::copy clones    *)
(* every Val and Expr of vals_ / exprs_, live or dead; definitions and    *)
(* use lists are cloned as they are; inputs_ and outputs_ are cloned and  *)
(* their Vals flagged (a clone also keeps its original's flags, from      *)
(* Val's cloning constructor); io_alias_ and all_tv_uses_valid_ are      *)
(* copied.                                                                *)
Copied(s) ==
    [s EXCEPT !.isInput = @ \cup ToSet(s.inputs),
              !.isOutput = @ \cup ToSet(s.outputs)]

-----------------------------------------------------------------------------
(* Fusion::copy(from, to), and the copy constructor Fusion(const Fusion&), *)
(* which is IrContainer's copy followed by Fusion::copy into `this`.     *)
CopyInto(to, from) ==
    /\ to # from
    /\ Write(to, Copied(St(from)), St(from))

\* operator=(const Fusion&) without the clear() of `this`.
CopyAssignNoClear(to, from) ==
    /\ to # from
    /\ LET tmp == Copied(St(from))
       IN  Write(to, Swapped(St(to), tmp), St(from))

(* Fusion::operator=(const Fusion& other): Fusion copy(other); clear();   *)
(* swap( *this, copy); the temporary, now holding the cleared state, is   *)
(* destroyed.                                                             *)
CopyAssign(to, from) ==
    /\ to # from
    /\ LET tmp == Copied(St(from))
       IN  Write(to, Swapped(Cleared, tmp), St(from))

\* operator=(Fusion&&) without the clear() of `this`: a plain swap.
MoveAssignNoClear(to, from) ==
    /\ to # from
    /\ Write(to, Swapped(St(to), St(from)), Swapped(St(from), St(to)))

(* Fusion::operator=(Fusion&& other): clear(); swap( *this, other).  The   *)
(* move constructor Fusion(Fusion&&) swaps a fresh (empty, invalid)      *)
(* Fusion with `other`, which is the same step.                          *)
MoveAssign(to, from) ==
    /\ to # from
    /\ Write(to, Swapped(Cleared, St(from)), Swapped(St(from), Cleared))

(* The friend swap(a, b) called directly.                                *)
SwapFusions ==
    Write("a", Swapped(StateA, StateB), Swapped(StateB, StateA))

-----------------------------------------------------------------------------
(* The methods of one container, the other unchanged.  replaceOutput     *)
(* replaces an output by another TensorView: replaceOutput(o, o) clears   *)
(* the flag of an output still listed (run fusion_dangling_output), after *)
(* which no copy of the Fusion can agree with it.  aliasOutputToInput is  *)
(* left out: io_alias_ is moved as a whole and its own checks are in the  *)
(* fusion_io and fusion_alias_stale runs.                                 *)
OpA ==
    /\ \/ \E v \in Vals : A!RegisterVal(v) \/ A!RemoveVal(v)
                          \/ A!AddInput(v) \/ A!AddOutput(v)
                          \/ A!RemoveInput(v) \/ A!RemoveOutput(v)
       \/ \E e \in Exprs : A!RegisterExpr(e) \/ A!RemoveExpr(e)
       \/ \E o \in Vals, r \in aVals \cap TVs : o # r /\ A!ReplaceOutput(o, r)
       \/ A!ResetTvUses
    /\ UNCHANGED bVars
OpB ==
    /\ \/ \E v \in Vals : B!RegisterVal(v) \/ B!RemoveVal(v)
                          \/ B!AddInput(v) \/ B!AddOutput(v)
                          \/ B!RemoveInput(v) \/ B!RemoveOutput(v)
       \/ \E e \in Exprs : B!RegisterExpr(e) \/ B!RemoveExpr(e)
       \/ \E o \in Vals, r \in bVals \cap TVs : o # r /\ B!ReplaceOutput(o, r)
       \/ B!ResetTvUses
    /\ UNCHANGED aVars

Init == A!Init /\ B!Init

Next ==
    \/ OpA \/ OpB
    \/ \E to, from \in Containers :
          CopyInto(to, from) \/ CopyAssign(to, from) \/ MoveAssign(to, from)

Spec == Init /\ [][Next]_vars

\* The same, with direct calls of swap(a, b).
NextWithSwap == Next \/ SwapFusions
SpecWithSwap == Init /\ [][NextWithSwap]_vars

-----------------------------------------------------------------------------
(* What a caller of a Fusion can observe: its graph, lists, flags and     *)
(* aliases, and the use lists that Val::uses() returns (rebuilt first     *)
(* when the TV use lists are invalid).                                    *)
ObsA == [StateA EXCEPT !.uses = [v \in Vals |-> A!Uses(v)],
                       !.removed = {}, !.tvUsesValid = FALSE]
ObsB == [StateB EXCEPT !.uses = [v \in Vals |-> B!Uses(v)],
                       !.removed = {}, !.tvUsesValid = FALSE]
Obs(c) == IF c = "a" THEN ObsA ELSE ObsB

(* Copies are values: after a copy construction or copy assignment the   *)
(* target is observably the source, which is unchanged; after a move the *)
(* target is observably what the source was and the source is empty --   *)
(* whatever the state of either use-list cache.                          *)
TransfersPreserveGraph ==
    [][\A to, from \in Containers :
         /\ CopyInto(to, from) \/ CopyAssign(to, from)
               => Obs(to)' = Obs(from) /\ Obs(from)' = Obs(from)
         /\ MoveAssign(to, from)
               => Obs(to)' = Obs(from) /\ Obs(from)' = Cleared]_vars

(* In both containers, all_tv_uses_valid_ is only set while every TV use  *)
(* list is what resetTvUses would compute, across copies and moves.       *)
PairUsesCacheSound == A!UsesCacheSound /\ B!UsesCacheSound
=============================================================================
