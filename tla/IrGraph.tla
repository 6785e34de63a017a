------------------------------ MODULE IrGraph ------------------------------
(***************************************************************************)
(* The definition graph that the traversals of ir_utils (checkCycle,      *)
(* isRecursivelyDefined, getOperationCount) walk: a Val points to its     *)
(* definition (at most one Expr), an Expr to its ordered inputs.  The     *)
(* graph is arbitrary, cycles included: checkCycle exists to find them.   *)
(***************************************************************************)
EXTENDS Naturals, Sequences, SequencesExt

CONSTANTS
    Vals,     \* Val objects
    Exprs,    \* Expr objects
    NoExpr,   \* a nullptr definition
    MaxIns    \* bound on the number of inputs of an Expr

ASSUME NoExpr \notin Exprs /\ MaxIns \in Nat

Stmts == Vals \cup Exprs

\* Every definition map and every input list an Expr can have.
Definitions == [Vals -> Exprs \cup {NoExpr}]
InputLists  == [Exprs -> BoundedSeq(Vals, MaxIns)]

(* The anonymous next() of ir_utils: a Val leads to its definition, an    *)
(* Expr to its inputs, in order.                                           *)
NextOf(def, ins, s) ==
    IF s \in Vals THEN (IF def[s] = NoExpr THEN <<>> ELSE <<def[s]>>)
    ELSE ins[s]

Succ(def, ins, s) == ToSet(NextOf(def, ins, s))

(* The Stmts reachable in one or more steps from `frontier` without       *)
(* entering `stop`.                                                        *)
RECURSIVE ReachAvoiding(_, _, _, _, _)
ReachAvoiding(def, ins, frontier, stop, seen) ==
    LET new == (frontier \ stop) \ seen
    IN  IF new = {} THEN seen
        ELSE ReachAvoiding(def, ins,
                           UNION {Succ(def, ins, s) : s \in new}, stop,
                           seen \cup new)

\* Reference: a cycle lies in the part of the graph reachable from `to`
\* without entering `from`.
HasCycleFrom(def, ins, from, to) ==
    LET region == ReachAvoiding(def, ins, to, from, {})
    IN  \E s \in region :
           s \in ReachAvoiding(def, ins, Succ(def, ins, s), Stmts \ region, {})

\* Reference: the Stmts of S contain a whole cycle.
ContainsCycle(def, ins, S) ==
    \E s \in S : s \in ReachAvoiding(def, ins, Succ(def, ins, s), Stmts \ S, {})
=============================================================================
