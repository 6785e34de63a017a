------------------------------- MODULE Fusion -------------------------------
(***************************************************************************)
(* The graph container of nvFuser, class Fusion (its fusion.cpp is shipped *)
(* in src/csrc/host_ir/container.h from line 64 on).  A Fusion owns Val    *)
(* and Expr objects (IrContainer::vals_ / exprs_), keeps for every Val its *)
(* definition and its use list, the declared inputs_ and outputs_ with the *)
(* isFusionInput / isFusionOutput flags mirrored on the Vals, the io_alias_ *)
(* map, and the all_tv_uses_valid_ flag that says whether the use lists of *)
(* TensorViews may be trusted or must be rebuilt by resetTvUses().        *)
(*                                                                         *)
(* Data is abstracted away: a Val is a model value that is or is not a    *)
(* TensorView and has a data type; an Expr is a model value whose inputs  *)
(* and outputs are fixed when it is constructed.  Every state-changing    *)
(* method of Fusion that touches this structure is one action.  A failed  *)
(* NVF_CHECK / NVF_ERROR aborts the call, so its negation is a guard.     *)
(***************************************************************************)
EXTENDS Naturals, Sequences, FiniteSets, SequencesExt

CONSTANTS
    Vals,         \* Val objects that can be created in this container
    TVs,          \* those whose getValType() is ValType::TensorView
    Exprs,        \* Expr objects that can be created in this container
    ExprInputs,   \* ExprInputs[e] : e->inputs(), fixed at construction
    ExprOutputs,  \* ExprOutputs[e] : e->outputs(), fixed at construction
    CastExprs,    \* the Exprs that are UnaryOp(UnaryOpType::Cast)
    DType,        \* DType[v] : v->getDataType()
    AliasPairs,   \* the <<output, input>> pairs callers pass to aliasOutputToInput
    IsKernel,     \* TRUE for the kir::Kernel flavour (non-SSA registerExpr)
    MaxInputs,    \* bound on Len(inputs_)
    MaxOutputs,   \* bound on Len(outputs_): addOutput has no duplicate check
    NoExpr,       \* a nullptr Expr*
    NoVal         \* a nullptr Val*

ASSUME
    /\ TVs \subseteq Vals
    /\ CastExprs \subseteq Exprs
    /\ AliasPairs \subseteq Vals \X Vals
    /\ ExprInputs \in [Exprs -> Seq(Vals)]
    /\ ExprOutputs \in [Exprs -> Seq(Vals) \ {<<>>}]
    /\ \A e \in CastExprs : Len(ExprInputs[e]) = 1 /\ Len(ExprOutputs[e]) = 1
    /\ IsKernel \in BOOLEAN
    /\ MaxInputs \in Nat /\ MaxOutputs \in Nat
    /\ NoExpr \notin Exprs /\ NoVal \notin Vals

VARIABLES
    vals,         \* IrContainer::vals_ : the registered, live Vals
    exprs,        \* IrContainer::exprs_ : the registered, live Exprs
    removed,      \* statements deleted by removeVal / removeExpr
    definition,   \* definition[v] : Val::definition_
    uses,         \* uses[v] : Val::uses_
    inputs,       \* Fusion::inputs_
    outputs,      \* Fusion::outputs_
    isInput,      \* the Vals whose isFusionInput() flag is set
    isOutput,     \* the Vals whose isFusionOutput() flag is set
    ioAlias,      \* Fusion::io_alias_ : output -> AliasInfo
    tvUsesValid   \* Fusion::all_tv_uses_valid_

vars == <<vals, exprs, removed, definition, uses, inputs, outputs,
          isInput, isOutput, ioAlias, tvUsesValid>>

AliasTypes == {"InplaceUpdate", "Other"}
NoAlias == [io |-> NoVal, type |-> "NoAlias", hide |-> FALSE]
AliasInfo == [io : Vals, type : AliasTypes, hide : BOOLEAN]

Ins(e)  == ToSet(ExprInputs[e])
Outs(e) == ToSet(ExprOutputs[e])
InsOf(D) == UNION {Ins(d) : d \in D}
OutsOf(D) == UNION {Outs(d) : d \in D}

-----------------------------------------------------------------------------
(* The expressions that StmtSort::getExprs(fusion) visits: every Expr     *)
(* reachable from the declared outputs through definitions and inputs.    *)
RECURSIVE Upstream(_, _)
Upstream(frontier, seen) ==
    IF frontier \subseteq seen THEN seen
    ELSE LET new  == frontier \ seen
             defs == {definition[v] : v \in new} \ {NoExpr}
         IN  Upstream(InsOf(defs), seen \cup new)

LiveVals == Upstream(ToSet(outputs), {})
LiveExprs == {definition[v] : v \in LiveVals} \ {NoExpr}
LiveUsers(v) == {e \in LiveExprs : v \in Ins(e)}

-----------------------------------------------------------------------------
(* Fusion::removeExpr applied to every Expr of D: each output loses its   *)
(* definition, each input drops the Expr from its uses (Val::removeUse),  *)
(* and the Expr leaves the container.                                     *)
ClearedDefinitions(D) ==
    [v \in Vals |-> IF v \in OutsOf(D) THEN NoExpr ELSE definition[v]]

\* A removeExpr that forgets Val::removeUse on its inputs.
DetachUsesForgotten(D) == uses

DetachUses(D) ==
    [v \in Vals |-> IF v \in InsOf(D) THEN uses[v] \ D ELSE uses[v]]

\* Val::removeUse calls invalidateTvUses() when it erased an entry of a TV.
RemoveUseInvalidates(D) ==
    \E d \in D : \E v \in Ins(d) \cap TVs : d \in uses[v]

Init ==
    /\ vals = {}
    /\ exprs = {}
    /\ removed = {}
    /\ definition = [v \in Vals |-> NoExpr]
    /\ uses = [v \in Vals |-> {}]
    /\ inputs = <<>>
    /\ outputs = <<>>
    /\ isInput = {}
    /\ isOutput = {}
    /\ ioAlias = [v \in Vals |-> NoAlias]
    /\ tvUsesValid = FALSE

-----------------------------------------------------------------------------
(* Fusion::registerVal (IrBuilder::create): a Val never seen before.      *)
RegisterVal(v) ==
    /\ v \notin vals \cup removed
    /\ vals' = vals \cup {v}
    /\ UNCHANGED <<exprs, removed, definition, uses, inputs, outputs,
                   isInput, isOutput, ioAlias, tvUsesValid>>

\* A registerExpr that overwrites an existing definition without
\* removing the old defining Expr (the SSA branch dropped).
RegisterExprKeepingOld(e) ==
    /\ e \notin exprs \cup removed
    /\ Ins(e) \cup Outs(e) \subseteq vals
    /\ exprs' = exprs \cup {e}
    /\ definition' = [v \in Vals |-> IF v \in Outs(e) THEN e ELSE definition[v]]
    /\ uses' = [v \in Vals |-> IF v \in Ins(e) \ TVs THEN uses[v] \cup {e} ELSE uses[v]]
    /\ tvUsesValid' = (tvUsesValid /\ Ins(e) \cup Outs(e) \subseteq Vals \ TVs)
    /\ UNCHANGED <<vals, removed, inputs, outputs, isInput, isOutput, ioAlias>>

(* Fusion::registerExpr.  Non-TV inputs get the use added; a TV input     *)
(* only invalidates the TV use lists.  In SSA mode an existing definition *)
(* of an output is removed first; in a Kernel it is kept.  Setting the   *)
(* definition of a TV output invalidates the TV use lists.               *)
RegisterExpr(e) ==
    /\ e \notin exprs \cup removed
    /\ Ins(e) \cup Outs(e) \subseteq vals
    /\ LET old     == IF IsKernel THEN {}
                      ELSE {definition[o] : o \in Outs(e)} \ {NoExpr}
           defined == IF IsKernel
                      THEN {o \in Outs(e) : definition[o] = NoExpr}
                      ELSE Outs(e)
           after   == DetachUses(old)
       IN  /\ exprs' = (exprs \ old) \cup {e}
           /\ removed' = removed \cup old
           /\ definition' = [v \in Vals |-> IF v \in defined THEN e
                                           ELSE ClearedDefinitions(old)[v]]
           /\ uses' = [v \in Vals |-> IF v \in Ins(e) \ TVs
                                     THEN after[v] \cup {e} ELSE after[v]]
           /\ tvUsesValid' = /\ tvUsesValid
                             /\ Ins(e) \cap TVs = {}
                             /\ defined \cap TVs = {}
                             /\ ~RemoveUseInvalidates(old)
    /\ UNCHANGED <<vals, inputs, outputs, isInput, isOutput, ioAlias>>

(* Fusion::removeExpr                                                      *)
RemoveExpr(e) ==
    /\ e \in exprs
    /\ exprs' = exprs \ {e}
    /\ removed' = removed \cup {e}
    /\ definition' = ClearedDefinitions({e})
    /\ uses' = DetachUses({e})
    /\ tvUsesValid' = (tvUsesValid /\ ~RemoveUseInvalidates({e}))
    /\ UNCHANGED <<vals, inputs, outputs, isInput, isOutput, ioAlias>>

\* removeVal as it was before NVIDIA/Fuser#1270: only the uses recorded
\* in val->uses() are removed, not dead Exprs that still read the Val.
RemoveValLiveUsesOnly(v) ==
    /\ v \in vals
    /\ v \notin isInput
    /\ v \notin isOutput
    /\ LET D == ({definition[v]} \ {NoExpr}) \cup uses[v]
       IN  /\ exprs' = exprs \ D
           /\ removed' = removed \cup D \cup {v}
           /\ definition' = ClearedDefinitions(D)
           /\ uses' = DetachUses(D)
           /\ tvUsesValid' = (tvUsesValid /\ ~RemoveUseInvalidates(D))
    /\ vals' = vals \ {v}
    /\ UNCHANGED <<inputs, outputs, isInput, isOutput, ioAlias>>

(* Fusion::removeVal: refused for a flagged input or output; removes the  *)
(* definition and every Expr of exprs_ (live or dead) reading the Val.    *)
RemoveVal(v) ==
    /\ v \in vals
    /\ v \notin isInput
    /\ v \notin isOutput
    /\ LET D == ({definition[v]} \ {NoExpr}) \cup {e \in exprs : v \in Ins(e)}
       IN  /\ exprs' = exprs \ D
           /\ removed' = removed \cup D \cup {v}
           /\ definition' = ClearedDefinitions(D)
           /\ uses' = DetachUses(D)
           /\ tvUsesValid' = (tvUsesValid /\ ~RemoveUseInvalidates(D))
    /\ vals' = vals \ {v}
    /\ UNCHANGED <<inputs, outputs, isInput, isOutput, ioAlias>>

-----------------------------------------------------------------------------
\* An addInput without the duplicated-input check.
AddInputUnchecked(v) ==
    /\ v \in vals
    /\ Len(inputs) < MaxInputs
    /\ inputs' = Append(inputs, v)
    /\ isInput' = isInput \cup {v}
    /\ tvUsesValid' = FALSE
    /\ UNCHANGED <<vals, exprs, removed, definition, uses, outputs,
                   isOutput, ioAlias>>

(* Fusion::addInput: a duplicate input is refused.                         *)
AddInput(v) ==
    /\ v \in vals
    /\ v \notin isInput
    /\ Len(inputs) < MaxInputs
    /\ inputs' = Append(inputs, v)
    /\ isInput' = isInput \cup {v}
    /\ tvUsesValid' = FALSE
    /\ UNCHANGED <<vals, exprs, removed, definition, uses, outputs,
                   isOutput, ioAlias>>

(* Fusion::addOutput: only TensorViews; no duplicate check.               *)
AddOutput(v) ==
    /\ v \in vals \cap TVs
    /\ Len(outputs) < MaxOutputs
    /\ outputs' = Append(outputs, v)
    /\ isOutput' = isOutput \cup {v}
    /\ tvUsesValid' = FALSE
    /\ UNCHANGED <<vals, exprs, removed, definition, uses, inputs,
                   isInput, ioAlias>>

(* Fusion::removeInput: erase the first occurrence, clear the flag.       *)
RemoveInput(v) ==
    /\ v \in vals
    /\ inputs' = RemoveFirst(inputs, v)
    /\ isInput' = isInput \ {v}
    /\ tvUsesValid' = FALSE
    /\ UNCHANGED <<vals, exprs, removed, definition, uses, outputs,
                   isOutput, ioAlias>>

(* Fusion::removeOutput: erase the first occurrence, clear the flag.      *)
RemoveOutput(v) ==
    /\ v \in vals
    /\ outputs' = RemoveFirst(outputs, v)
    /\ isOutput' = isOutput \ {v}
    /\ tvUsesValid' = FALSE
    /\ UNCHANGED <<vals, exprs, removed, definition, uses, inputs,
                   isInput, ioAlias>>

\* A replaceOutput that accepts a null replacement.
ReplaceOutputUnchecked(o, r) ==
    /\ o \in ToSet(outputs)
    /\ outputs' = ReplaceAll(outputs, o, r)
    /\ isOutput' = (isOutput \cup ({r} \cap TVs)) \ ({o} \cap TVs)
    /\ tvUsesValid' = FALSE
    /\ ioAlias' = IF ioAlias[o] = NoAlias THEN ioAlias
                  ELSE [ioAlias EXCEPT ![o] = NoAlias, ![r] = ioAlias[o]]
    /\ UNCHANGED <<vals, exprs, removed, definition, uses, inputs, isInput>>

(* Fusion::replaceOutput: every occurrence of o becomes r; the flag is set *)
(* on r, then cleared on o (each only for a TensorView); an alias entry   *)
(* of o moves to r.  A null replacement is dereferenced, hence r # NoVal. *)
ReplaceOutput(o, r) ==
    /\ o \in ToSet(outputs)
    /\ r # NoVal
    /\ outputs' = ReplaceAll(outputs, o, r)
    /\ isOutput' = (isOutput \cup ({r} \cap TVs)) \ ({o} \cap TVs)
    /\ tvUsesValid' = FALSE
    /\ ioAlias' = IF ioAlias[o] = NoAlias THEN ioAlias
                  ELSE [ioAlias EXCEPT ![o] = NoAlias, ![r] = ioAlias[o]]
    /\ UNCHANGED <<vals, exprs, removed, definition, uses, inputs, isInput>>

(* The use lists resetTvUses leaves: TV use lists are rebuilt from the    *)
(* live Exprs; every input of a live Expr (TV or not) gets it added.      *)
RebuiltUses ==
    [v \in Vals |-> (IF v \in vals \cap TVs THEN {} ELSE uses[v]) \cup LiveUsers(v)]

(* Fusion::resetTvUses, run by Val::uses() on a TensorView while the TV   *)
(* use lists are invalid.                                                 *)
ResetTvUses ==
    /\ uses' = RebuiltUses
    /\ tvUsesValid' = TRUE
    /\ UNCHANGED <<vals, exprs, removed, definition, inputs, outputs,
                   isInput, isOutput, ioAlias>>

(* Fusion::isAliasCompatible: same data type and same value type.       *)
IsAliasCompatible(left, right) ==
    /\ DType[left] = DType[right]
    /\ (left \in TVs) = (right \in TVs)

(* Fusion::aliasOutputToInput.  For InplaceUpdate an input that is not a  *)
(* fusion input must be the output of a Cast, which is looked through.    *)
(* The castOp inserted when data types differ is not modelled: that case  *)
(* is excluded.  An output that is not yet declared is declared, hidden.  *)
AliasOutputToInput(out, in, type) ==
    LET src == IF type = "InplaceUpdate" /\ in \notin isInput
               THEN ExprInputs[definition[in]][1] ELSE in
    IN  /\ type = "InplaceUpdate" /\ in \notin isInput
              => definition[in] \in CastExprs
        /\ IsAliasCompatible(src, out)
        /\ ioAlias' = [ioAlias EXCEPT ![out] =
                         [io |-> src, type |-> type, hide |-> out \notin isOutput]]
        /\ IF out \in isOutput
           THEN UNCHANGED <<outputs, isOutput, tvUsesValid>>
           ELSE /\ out \in TVs
                /\ Len(outputs) < MaxOutputs
                /\ outputs' = Append(outputs, out)
                /\ isOutput' = isOutput \cup {out}
                /\ tvUsesValid' = FALSE
        /\ UNCHANGED <<vals, exprs, removed, definition, uses, inputs, isInput>>

-----------------------------------------------------------------------------
Next ==
    \/ \E v \in Vals : RegisterVal(v)
    \/ \E e \in Exprs : RegisterExpr(e)
    \/ \E e \in Exprs : RemoveExpr(e)
    \/ \E v \in Vals : RemoveVal(v)
    \/ \E v \in Vals : AddInput(v)
    \/ \E v \in Vals : AddOutput(v)
    \/ \E v \in Vals : RemoveInput(v)
    \/ \E v \in Vals : RemoveOutput(v)
    \* callers (replaceValue, replaceValInAllExprInputsAndFusionOutputs)
    \* replace a tensor by a tensor
    \/ \E o \in Vals, r \in (vals \cap TVs) \cup {NoVal} : ReplaceOutput(o, r)
    \/ ResetTvUses
    \/ \E p \in AliasPairs, t \in AliasTypes :
          /\ {p[1], p[2]} \subseteq vals
          /\ AliasOutputToInput(p[1], p[2], t)

Spec == Init /\ [][Next]_vars

-----------------------------------------------------------------------------
TypeOK ==
    /\ vals \subseteq Vals /\ exprs \subseteq Exprs
    /\ removed \subseteq Vals \cup Exprs
    /\ definition \in [Vals -> Exprs \cup {NoExpr}]
    /\ uses \in [Vals -> SUBSET Exprs]
    /\ inputs \in Seq(Vals) /\ outputs \in Seq(Vals)
    /\ Len(inputs) <= MaxInputs /\ Len(outputs) <= MaxOutputs
    /\ isInput \subseteq Vals /\ isOutput \subseteq Vals
    /\ ioAlias \in [Vals -> AliasInfo \cup {NoAlias}]
    /\ tvUsesValid \in BOOLEAN

(* Spec 3 and 8: every input and output of an Expr of the container       *)
(* belongs to the container; in particular after removeVal(v) no Expr,    *)
(* live or dead, still points at v (the scan of all exprs_ in removeVal). *)
ExprOperandsRegistered ==
    \A e \in exprs : Ins(e) \cup Outs(e) \subseteq vals

(* Single assignment (registerExpr in a non-Kernel Fusion): a definition  *)
(* is a live Expr that has the Val as output, and every output of a live  *)
(* Expr has that Expr as its definition, across redefinitions and removals.*)
DefinitionsAgree ==
    /\ \A v \in vals : definition[v] # NoExpr =>
          definition[v] \in exprs /\ v \in Outs(definition[v])
    /\ \A e \in exprs : \A o \in Outs(e) : definition[o] = e

(* A use list never names a removed Expr or one that does not read the    *)
(* Val (removeExpr detaching uses, resetTvUses rebuilding them).           *)
UsesAreOperands ==
    \A v \in Vals : uses[v] \subseteq {e \in exprs : v \in Ins(e)}

(* The isFusionInput flags are exactly the Vals of inputs_, each once:    *)
(* addInput refuses duplicates and removeInput clears the flag.           *)
InputFlagsAgree ==
    /\ isInput = ToSet(inputs)
    /\ Len(inputs) = Cardinality(ToSet(inputs))

(* Spec 4.1: removeVal fails for a declared input or output, so inputs_   *)
(* and outputs_ only hold live Vals.                                      *)
DeclaredIOLive ==
    ToSet(inputs) \cup ToSet(outputs) \subseteq vals

(* An io_alias_ entry names live Vals: an aliased output and the input   *)
(* it aliases are not freed while the entry stays (Fusion::copy clones    *)
(* both).                                                                 *)
AliasEntriesLive ==
    \A v \in Vals : ioAlias[v] # NoAlias => v \in vals /\ ioAlias[v].io \in vals

(* When all_tv_uses_valid_ is set, the use list of every TensorView is    *)
(* what resetTvUses would compute: its readers among the live Exprs.      *)
UsesCacheSound ==
    tvUsesValid => \A t \in vals \cap TVs : uses[t] = LiveUsers(t)

=============================================================================
