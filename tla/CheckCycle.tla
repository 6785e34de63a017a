----------------------------- MODULE CheckCycle -----------------------------
(***************************************************************************)
(* ir_utils::checkCycle(fusion, from, to): a depth-first walk from the    *)
(* Vals `to` towards definitions and their inputs, kept in a deque used  *)
(* as a stack, with a `path` set of the Stmts being expanded and a       *)
(* `visited` set of the finished ones.  Each iteration of its while loop *)
(* is one action; which branch of the loop body runs is decided by the   *)
(* same tests in the same order as in the code.  The graph, `from` and   *)
(* `to` are chosen once, in Init, among all small graphs.                *)
(***************************************************************************)
EXTENDS IrGraph

CONSTANTS
    Targets,      \* the `to` vectors callers pass (e.g. fusion->outputs())
    Boundaries    \* the `from` sets callers pass

VARIABLES
    def, ins,     \* the graph: Val::definition(), Expr::inputs()
    from, to,     \* the arguments
    queue,        \* std::deque<Statement*> queue
    path,         \* std::unordered_set<Statement*> path
    visited,      \* std::unordered_set<Statement*> visited
    result,       \* the returned vector, as a set
    done          \* checkCycle has returned

vars == <<def, ins, from, to, queue, path, visited, result, done>>

Init ==
    /\ def \in Definitions
    /\ ins \in InputLists
    /\ from \in Boundaries
    /\ to \in Targets
    /\ queue = to
    /\ path = {}
    /\ visited = {}
    /\ result = {}
    /\ done = FALSE

\* The Stmt at the front of the deque and what next() gives for it.
Top == Head(queue)
Nexts == NextOf(def, ins, Top)

Looping == ~done /\ queue # <<>>

(* Early termination: a boundary Stmt or an already visited one is popped. *)
Skip ==
    /\ Looping
    /\ Top \in from \cup visited
    /\ queue' = Tail(queue)
    /\ UNCHANGED <<def, ins, from, to, path, visited, result, done>>

(* A leaf (a Val without definition, an Expr without inputs) is popped    *)
(* and marked visited.                                                    *)
Leaf ==
    /\ Looping
    /\ Top \notin from \cup visited
    /\ Nexts = <<>>
    /\ queue' = Tail(queue)
    /\ visited' = visited \cup {Top}
    /\ UNCHANGED <<def, ins, from, to, path, result, done>>

\* The clean-up branch with path.erase(iter) forgotten.
CleanupKeepingPath ==
    /\ Looping
    /\ Top \notin from \cup visited
    /\ Nexts # <<>>
    /\ Top \in path
    /\ queue' = Tail(queue)
    /\ visited' = visited \cup {Top}
    /\ UNCHANGED <<def, ins, from, to, path, result, done>>

(* A Stmt met again on the path has had all its inputs finished: it is    *)
(* popped, leaves the path and is visited.                                *)
Cleanup ==
    /\ Looping
    /\ Top \notin from \cup visited
    /\ Nexts # <<>>
    /\ Top \in path
    /\ queue' = Tail(queue)
    /\ path' = path \ {Top}
    /\ visited' = visited \cup {Top}
    /\ UNCHANGED <<def, ins, from, to, result, done>>

\* The expansion with path.insert(val) forgotten.
ExpandWithoutPathInsert ==
    /\ Looping
    /\ Top \notin from \cup visited
    /\ Nexts # <<>>
    /\ Top \notin path
    /\ \A i \in 1..Len(Nexts) : Nexts[i] \notin path \cup {Top}
    /\ queue' = Reverse(Nexts) \o queue
    /\ UNCHANGED <<def, ins, from, to, path, visited, result, done>>

(* The Stmt goes on the path and, none of its next Stmts being on it, each *)
(* is pushed to the front in turn (so the last one ends up on top); the   *)
(* Stmt itself stays below them.                                          *)
Expand ==
    /\ Looping
    /\ Top \notin from \cup visited
    /\ Nexts # <<>>
    /\ Top \notin path
    /\ \A i \in 1..Len(Nexts) : Nexts[i] \notin path \cup {Top}
    /\ path' = path \cup {Top}
    /\ queue' = Reverse(Nexts) \o queue
    /\ UNCHANGED <<def, ins, from, to, visited, result, done>>

\* The cycle report copying the path before the Stmt is put on it.
FoundCycleBeforeInsert ==
    /\ Looping
    /\ Top \notin from \cup visited
    /\ Nexts # <<>>
    /\ Top \notin path
    /\ \E i \in 1..Len(Nexts) : Nexts[i] \in path \cup {Top}
    /\ result' = path
    /\ done' = TRUE
    /\ UNCHANGED <<def, ins, from, to, queue, path, visited>>

(* A next Stmt already on the path closes a cycle: the path, with the     *)
(* Stmt just put on it, is returned.                                      *)
FoundCycle ==
    /\ Looping
    /\ Top \notin from \cup visited
    /\ Nexts # <<>>
    /\ Top \notin path
    /\ \E i \in 1..Len(Nexts) : Nexts[i] \in path \cup {Top}
    /\ result' = path \cup {Top}
    /\ done' = TRUE
    /\ path' = path \cup {Top}
    /\ UNCHANGED <<def, ins, from, to, queue, visited>>

(* The deque is empty: no cycle, an empty vector is returned.             *)
Finish ==
    /\ ~done
    /\ queue = <<>>
    /\ result' = {}
    /\ done' = TRUE
    /\ UNCHANGED <<def, ins, from, to, queue, path, visited>>

\* The call has returned; nothing changes any more.
Returned == done /\ UNCHANGED vars

Step == Skip \/ Leaf \/ Cleanup \/ Expand \/ FoundCycle \/ Finish

Next == Step \/ Returned

\* The loop is sequential code: once started it keeps running.
Spec == Init /\ [][Next]_vars /\ WF_vars(Step)

-----------------------------------------------------------------------------
TypeOK ==
    /\ def \in Definitions /\ ins \in InputLists
    /\ queue \in Seq(Stmts)
    /\ path \subseteq Stmts /\ visited \subseteq Stmts
    /\ result \subseteq Stmts /\ done \in BOOLEAN

(* Spec 4.5 and 8: when checkCycle returns, its result is non-empty       *)
(* exactly when a cycle is reachable from `to` without entering `from`:   *)
(* the path/visited bookkeeping of the loop neither misses a cycle nor    *)
(* reports one in a DAG with shared sub-graphs.                           *)
CheckCycleCorrect ==
    done => (result # {} <=> HasCycleFrom(def, ins, from, ToSet(to)))

(* The vector returned on a cycle holds a whole cycle, not only some of   *)
(* the Stmts leading to it.                                               *)
ReportedPathHasCycle ==
    result # {} => ContainsCycle(def, ins, result)

(* checkCycle returns on every graph, cyclic or not (spec 9 asks for      *)
(* termination under dead-code graphs).                                   *)
Terminates == <>done
=============================================================================
