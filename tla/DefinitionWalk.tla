--------------------------- MODULE DefinitionWalk ---------------------------
(***************************************************************************)
(* Two breadth-first walks of ir_utils over the definition graph, both    *)
(* popping a Val from the front of a deque and pushing the inputs of its  *)
(* definition at the back:                                                *)
(*   isRecursivelyDefined(val): does val feed its own definition?  It     *)
(*     keeps a visited set and stops as soon as an input equals val.      *)
(*   getOperationCount(val): counts one op per definition popped; it has  *)
(*     no visited set, so a shared input is counted once per use.         *)
(*   isFunctional(v): recursive, no visited set; true for a leaf, false   *)
(*     for an ElectSync definition, else all_of over the inputs, which     *)
(*     stops at the first input that is not functional.                    *)
(* One loop iteration, or one call or return of the recursion (kept as an *)
(* explicit stack of frames), is one action.  The three calls are made on *)
(* the same graph and the same Val, one after the other.                  *)
(***************************************************************************)
EXTENDS IrGraph

CONSTANTS
    Roots,        \* the Vals the functions are called on
    ElectSync,    \* the Exprs that are UnaryOp(UnaryOpType::ElectSync)
    MaxDepth,     \* bound on isFunctional's recursion depth (unbounded on a cycle)
    MaxQueue,     \* bounds on getOperationCount's deque and count, which
    MaxOps        \* grow without end on a cyclic graph

VARIABLES
    def, ins,     \* the graph: Val::definition(), Expr::inputs()
    val,          \* the argument of both calls
    rdQueue,      \* isRecursivelyDefined: vals_to_visit
    rdVisited,    \* isRecursivelyDefined: visited_vals
    rdResult,     \* the value returned
    rdDone,       \* isRecursivelyDefined has returned
    ocQueue,      \* getOperationCount: vals
    numOps,       \* getOperationCount: num_ops
    ocDone,       \* getOperationCount has returned
    fnStack,      \* isFunctional: the active calls, [v, i] with i the inputs
                  \* of v's definition already found functional
    fnResult,     \* the value isFunctional returned
    fnDone        \* isFunctional has returned

fnVars == <<fnStack, fnResult, fnDone>>
vars == <<def, ins, val, rdQueue, rdVisited, rdResult, rdDone,
          ocQueue, numOps, ocDone, fnVars>>

\* The inputs of the definition of v, in order; empty for a leaf.
DefInputs(v) == IF def[v] = NoExpr THEN <<>> ELSE ins[def[v]]

Init ==
    /\ def \in Definitions
    /\ ins \in InputLists
    /\ val \in Roots
    /\ rdQueue = <<val>>
    /\ rdVisited = {}
    /\ rdResult = FALSE
    /\ rdDone = FALSE
    /\ ocQueue = <<val>>
    /\ numOps = 0
    /\ ocDone = FALSE
    /\ fnStack = <<[v |-> val, i |-> 0]>>
    /\ fnResult = FALSE
    /\ fnDone = FALSE

-----------------------------------------------------------------------------
\* The walk testing each input against the popped Val instead of `val`.
RdVisitAgainstPopped ==
    LET v == Head(rdQueue)
        inps == DefInputs(v)
    IN  /\ ~rdDone
        /\ rdQueue # <<>>
        /\ rdVisited' = rdVisited \cup {v}
        /\ IF \E i \in 1..Len(inps) : inps[i] = v
           THEN /\ rdResult' = TRUE /\ rdDone' = TRUE
                /\ rdQueue' = Tail(rdQueue)
           ELSE /\ rdQueue' = Tail(rdQueue) \o
                      SelectSeq(inps, LAMBDA x : x \notin rdVisited \cup {v})
                /\ UNCHANGED <<rdResult, rdDone>>
        /\ UNCHANGED <<def, ins, val, ocQueue, numOps, ocDone, fnVars>>

\* The walk pushing inputs without the visited_vals test.
RdVisitUnmarked ==
    LET v == Head(rdQueue)
        inps == DefInputs(v)
    IN  /\ ~rdDone
        /\ rdQueue # <<>>
        /\ rdVisited' = rdVisited \cup {v}
        /\ IF \E i \in 1..Len(inps) : inps[i] = val
           THEN /\ rdResult' = TRUE /\ rdDone' = TRUE
                /\ rdQueue' = Tail(rdQueue)
           ELSE /\ rdQueue' = Tail(rdQueue) \o inps
                /\ UNCHANGED <<rdResult, rdDone>>
        /\ UNCHANGED <<def, ins, val, ocQueue, numOps, ocDone, fnVars>>

(* isRecursivelyDefined, one iteration: pop v, mark it visited; a leaf is *)
(* skipped; an input equal to val returns true (the inputs before it were *)
(* already pushed, but the deque is dropped); every other input not yet   *)
(* visited is pushed at the back.                                         *)
RdVisit ==
    LET v == Head(rdQueue)
        inps == DefInputs(v)
    IN  /\ ~rdDone
        /\ rdQueue # <<>>
        /\ rdVisited' = rdVisited \cup {v}
        /\ IF \E i \in 1..Len(inps) : inps[i] = val
           THEN /\ rdResult' = TRUE /\ rdDone' = TRUE
                /\ rdQueue' = Tail(rdQueue)
           ELSE /\ rdQueue' = Tail(rdQueue) \o
                      SelectSeq(inps, LAMBDA x : x \notin rdVisited \cup {v})
                /\ UNCHANGED <<rdResult, rdDone>>
        /\ UNCHANGED <<def, ins, val, ocQueue, numOps, ocDone, fnVars>>

(* The deque is empty: isRecursivelyDefined returns false.                *)
RdReturnFalse ==
    /\ ~rdDone
    /\ rdQueue = <<>>
    /\ rdDone' = TRUE
    /\ UNCHANGED <<def, ins, val, rdQueue, rdVisited, rdResult, ocQueue, numOps,
                   ocDone, fnVars>>

-----------------------------------------------------------------------------
\* The count taken before the null-definition test.
OcVisitCountingLeaves ==
    LET v == Head(ocQueue)
    IN  /\ ~ocDone
        /\ ocQueue # <<>>
        /\ Len(ocQueue) - 1 + Len(DefInputs(v)) <= MaxQueue
        /\ numOps < MaxOps
        /\ numOps' = numOps + 1
        /\ ocQueue' = Tail(ocQueue) \o DefInputs(v)
        /\ UNCHANGED <<def, ins, val, rdQueue, rdVisited, rdResult, rdDone, ocDone,
                       fnVars>>

(* getOperationCount, one iteration: pop v; a Val with a definition       *)
(* counts one op and pushes all inputs of the definition at the back.     *)
(* The deque grows without bound on a cyclic graph: MaxQueue caps it.     *)
OcVisit ==
    LET v == Head(ocQueue)
    IN  /\ ~ocDone
        /\ ocQueue # <<>>
        /\ Len(ocQueue) - 1 + Len(DefInputs(v)) <= MaxQueue
        /\ numOps < MaxOps
        /\ numOps' = IF def[v] = NoExpr THEN numOps ELSE numOps + 1
        /\ ocQueue' = Tail(ocQueue) \o DefInputs(v)
        /\ UNCHANGED <<def, ins, val, rdQueue, rdVisited, rdResult, rdDone, ocDone,
                       fnVars>>

(* The deque is empty: getOperationCount returns num_ops.                 *)
OcReturn ==
    /\ ~ocDone
    /\ ocQueue = <<>>
    /\ ocDone' = TRUE
    /\ UNCHANGED <<def, ins, val, rdQueue, rdVisited, rdResult, rdDone,
                   ocQueue, numOps, fnVars>>

\* getOperationCount has reached MaxQueue or MaxOps: on a cyclic graph it
\* never returns, and the model stops following it there.
OcAtBound ==
    /\ ~ocDone
    /\ ocQueue # <<>>
    /\ \/ Len(ocQueue) - 1 + Len(DefInputs(Head(ocQueue))) > MaxQueue
       \/ numOps >= MaxOps

-----------------------------------------------------------------------------
\* isFunctional is called once the other two calls have returned.
FnCalled == rdDone /\ (ocDone \/ OcAtBound) /\ ~fnDone /\ fnStack # <<>>

Top == fnStack[Len(fnStack)]
TopDef == def[Top.v]

\* A return that does not move the caller past the input it called on.
FnReturnNoAdvance(b) ==
    \/ /\ ~b \/ Len(fnStack) = 1
       /\ fnStack' = <<>> /\ fnResult' = b /\ fnDone' = TRUE
    \/ /\ b /\ Len(fnStack) > 1
       /\ fnStack' = Front(fnStack)
       /\ UNCHANGED <<fnResult, fnDone>>

(* The innermost call returns b.  The outermost one ends isFunctional;   *)
(* true moves the caller's all_of on to its next input; false makes      *)
(* every enclosing all_of, and so every enclosing call, return false.    *)
FnReturn(b) ==
    \/ /\ ~b \/ Len(fnStack) = 1
       /\ fnStack' = <<>> /\ fnResult' = b /\ fnDone' = TRUE
    \/ /\ b /\ Len(fnStack) > 1
       /\ fnStack' = [Front(fnStack) EXCEPT ![Len(fnStack) - 1].i = @ + 1]
       /\ UNCHANGED <<fnResult, fnDone>>

FnStepVars == <<def, ins, val, rdQueue, rdVisited, rdResult, rdDone,
                ocQueue, numOps, ocDone>>

(* A Val without a definition is functional.                             *)
FnLeaf ==
    /\ FnCalled /\ TopDef = NoExpr
    /\ FnReturn(TRUE) /\ UNCHANGED FnStepVars

(* A Val defined by ElectSync is not.                                    *)
FnElectSync ==
    /\ FnCalled /\ TopDef \in ElectSync
    /\ FnReturn(FALSE) /\ UNCHANGED FnStepVars

\* all_of that returns once one input is functional.
FnAllInputsAnyOf ==
    /\ FnCalled /\ TopDef \notin ElectSync \cup {NoExpr}
    /\ Top.i >= 1 \/ Len(ins[TopDef]) = 0
    /\ FnReturn(TRUE) /\ UNCHANGED FnStepVars

(* all_of has found every input functional.                              *)
FnAllInputs ==
    /\ FnCalled /\ TopDef \notin ElectSync \cup {NoExpr}
    /\ Top.i = Len(ins[TopDef])
    /\ FnReturn(TRUE) /\ UNCHANGED FnStepVars

(* all_of calls isFunctional on the next input of the definition.        *)
FnCall ==
    /\ FnCalled /\ TopDef \notin ElectSync \cup {NoExpr}
    /\ Top.i < Len(ins[TopDef])
    /\ Len(fnStack) < MaxDepth
    /\ fnStack' = Append(fnStack, [v |-> ins[TopDef][Top.i + 1], i |-> 0])
    /\ UNCHANGED <<fnResult, fnDone>> /\ UNCHANGED FnStepVars

\* The recursion is MaxDepth deep: on a cyclic graph it never returns (the
\* stack overflows), and the model stops following it there.
FnAtBound ==
    /\ FnCalled /\ TopDef \notin ElectSync \cup {NoExpr}
    /\ Top.i < Len(ins[TopDef])
    /\ Len(fnStack) >= MaxDepth

FnStep == FnLeaf \/ FnElectSync \/ FnAllInputs \/ FnCall

-----------------------------------------------------------------------------
\* The three calls have returned (or were cut at their bounds).
Returned ==
    /\ rdDone /\ (ocDone \/ OcAtBound) /\ (fnDone \/ FnAtBound)
    /\ UNCHANGED vars

Step == RdVisit \/ RdReturnFalse \/ OcVisit \/ OcReturn \/ FnStep

Next == Step \/ Returned

Spec == Init /\ [][Next]_vars /\ WF_vars(Step)

-----------------------------------------------------------------------------
\* Reference: val is reachable from the inputs of its own definition.
FeedsItself(v) == v \in ReachAvoiding(def, ins, Succ(def, ins, v), {}, {})

\* Reference: the ops of the definition tree of v, a shared input counted
\* once per use; defined for an acyclic graph.
RECURSIVE OpTree(_)
OpTree(v) ==
    IF def[v] = NoExpr THEN 0
    ELSE 1 + FoldSeq(LAMBDA x, acc : OpTree(x) + acc, 0, ins[def[v]])

IsDag == ~HasCycleFrom(def, ins, {}, Vals)

\* Reference: no Val v is computed from, v included, is defined by ElectSync.
FunctionalRef(v) ==
    \A u \in ({v} \cup ReachAvoiding(def, ins, Succ(def, ins, v), {}, {})) \cap Vals :
        def[u] \notin ElectSync

\* Reference: no cycle can be reached from v through definitions and inputs.
AcyclicBelow(v) == ~HasCycleFrom(def, ins, {}, {v})

TypeOK ==
    /\ def \in Definitions /\ ins \in InputLists
    /\ rdQueue \in Seq(Vals) /\ rdVisited \subseteq Vals
    /\ rdResult \in BOOLEAN /\ rdDone \in BOOLEAN
    /\ ocQueue \in Seq(Vals) /\ numOps \in Nat /\ ocDone \in BOOLEAN
    /\ fnStack \in Seq([v : Vals, i : 0..MaxIns])
    /\ fnResult \in BOOLEAN /\ fnDone \in BOOLEAN

(* isRecursivelyDefined(val) returns true exactly when val is one of the  *)
(* Vals its own definition is computed from, through any chain, even when *)
(* another cycle not through val is met first (the visited set keeps that *)
(* one from looping).                                                     *)
RecursivelyDefinedCorrect ==
    rdDone => (rdResult = FeedsItself(val))

(* On an acyclic graph getOperationCount returns the number of ops of the *)
(* expression tree of val: a shared sub-expression is counted once per    *)
(* use (there is no visited set), leaves count nothing.                   *)
OperationCountOfTree ==
    ocDone /\ IsDag => numOps = OpTree(val)

(* isRecursivelyDefined returns on every graph.                           *)
RecursivelyDefinedTerminates == <>rdDone

(* When isFunctional(val) returns, it says whether no Val val is computed *)
(* from is defined by ElectSync: all_of may stop at the first input found *)
(* not functional, but must not stop before the last input otherwise; on  *)
(* a cyclic graph it can only return false, found before the cycle.      *)
IsFunctionalCorrect ==
    fnDone => (fnResult = FunctionalRef(val))

(* isFunctional returns whenever no cycle lies below val, however often a *)
(* shared sub-graph is visited again for want of a visited set.          *)
IsFunctionalTerminates ==
    AcyclicBelow(val) => <>fnDone
=============================================================================
