---------------------------- MODULE FusionQueries ----------------------------
(***************************************************************************)
(* The read-only structural queries over a Fusion: ir_utils producer /    *)
(* consumer / sibling lookups and Fusion::getTerminatingOutputs.  They     *)
(* read Val::uses(), which for a TensorView first runs resetTvUses() when *)
(* the TV use lists are invalid, so a query sees RebuiltUses then.  The   *)
(* queries change nothing else: they are operators over the state of      *)
(* Fusion, checked in every state it reaches.                             *)
(***************************************************************************)
EXTENDS Fusion

\* Val::uses() without the lazy rebuild of invalid TV use lists.
UsesWithoutReset(v) == uses[v]

(* Val::uses(): a TensorView read while all_tv_uses_valid_ is false gets  *)
(* its use list rebuilt first.                                            *)
Uses(v) ==
    IF v \in TVs /\ ~tvUsesValid THEN RebuiltUses[v] ELSE uses[v]

(* ir_utils::producerValsOf: the (deduplicated) inputs of the definition. *)
ProducerValsOf(v) ==
    IF definition[v] = NoExpr THEN {} ELSE Ins(definition[v])

(* ir_utils::consumerValsOf: the outputs of every use.                    *)
ConsumerValsOf(v) == OutsOf(Uses(v))

(* ir_utils::siblingValsOf: the other outputs of the definition.          *)
SiblingValsOf(v) ==
    IF definition[v] = NoExpr THEN {} ELSE Outs(definition[v]) \ {v}

(* The TensorView variants filter by type (filterByType<TensorView>).    *)
ProducerTvsOf(v) == ProducerValsOf(v) \cap TVs
ConsumerTvsOf(v) == ConsumerValsOf(v) \cap TVs
SiblingTvsOf(v) == SiblingValsOf(v) \cap TVs

(* The is_reachable_to_output lambda of getTerminatingOutputs: a walk over *)
(* consumers through uses(), with a visited set against cycles, that      *)
(* stops at the first consumer flagged isFusionOutput.                    *)
RECURSIVE ReachesOutput(_, _)
ReachesOutput(frontier, seen) ==
    LET new == frontier \ seen
    IN  IF new = {} THEN FALSE
        ELSE IF new \cap isOutput # {} THEN TRUE
        ELSE ReachesOutput(UNION {ConsumerValsOf(c) : c \in new}, seen \cup new)

IsReachableToOutput(v) == ReachesOutput(ConsumerValsOf(v), {})

(* Fusion::getTerminatingOutputs: the declared outputs from which no other *)
(* output can be reached.                                                 *)
GetTerminatingOutputs ==
    SelectSeq(outputs, LAMBDA o : ~IsReachableToOutput(o))

(* InputsOf::outputs: the Vals without a definition that the walk from  *)
(* the given Vals back through definitions reaches (Fusion::inputsOf).   *)
InputsOf(S) == {v \in Upstream(S, {}) : definition[v] = NoExpr}

(* DependencyCheck::getAllValsBetween(from, to): the Vals on a definition *)
(* path from a Val of from to a Val of to.                               *)
ValsBetween(from, to) ==
    {v \in Upstream(to, {}) : Upstream({v}, {}) \cap from # {}}

(* Fusion::usedMathVals: the Vals between the leaves of the outputs and   *)
(* the outputs, plus every other output of a multi-output definition of   *)
(* one of them.                                                           *)
UsedMathVals ==
    LET between == ValsBetween(InputsOf(ToSet(outputs)), ToSet(outputs))
        multi   == {d \in {definition[v] : v \in between} \ {NoExpr} :
                        Len(ExprOutputs[d]) >= 2}
    IN  between \cup OutsOf(multi)

(* Fusion::terminatingMathVals: the used Vals with an empty use list      *)
(* (unordered_uses, through Val::uses()) and a definition.               *)
TerminatingMathVals ==
    {v \in UsedMathVals : Uses(v) = {} /\ definition[v] # NoExpr}

-----------------------------------------------------------------------------
\* Reference: the Vals computed, through live Exprs, from v.
RECURSIVE LiveDownstream(_, _)
LiveDownstream(frontier, seen) ==
    LET new == frontier \ seen
        next == UNION {Outs(e) : e \in {x \in LiveExprs : Ins(x) \cap new # {}}}
    IN  IF new = {} THEN seen ELSE LiveDownstream(next, seen \cup new)

ComputedFrom(v) ==
    LiveDownstream(UNION {Outs(e) : e \in LiveUsers(v)}, {})

(* getTerminatingOutputs returns exactly the declared outputs from which  *)
(* no Val flagged as a fusion output is computed by live Exprs, whatever  *)
(* the state of the TV use cache when it is called.                       *)
TerminatingOutputsCorrect ==
    \A i \in 1..Len(outputs) :
        (outputs[i] \in ToSet(GetTerminatingOutputs))
            <=> ComputedFrom(outputs[i]) \cap isOutput = {}

(* Reference closure of the contract: the Vals the outputs are computed  *)
(* from, and every output of an Expr computing them, used or not.        *)
UsedClosure == LiveVals \cup OutsOf(LiveExprs)

(* terminatingMathVals returns what its contract says (spec 3): the Vals *)
(* of the used closure (multi-output siblings included) that have a      *)
(* definition and no use inside the closure.  It fails: the code tests    *)
(* the raw use list, and a scalar's list keeps readers that are dead     *)
(* (MCFusionTerminating.cfg: the count output of a Welford read only by  *)
(* a dead scalar Expr is left out).                                      *)
TerminatingMathValsAsSpecified ==
    TerminatingMathVals =
        {v \in UsedClosure :
            /\ definition[v] # NoExpr
            /\ \A e \in exprs : v \in Ins(e) => Outs(e) \cap UsedClosure = {}}
=============================================================================
