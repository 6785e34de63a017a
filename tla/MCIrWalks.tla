------------------------------ MODULE MCIrWalks ------------------------------
(***************************************************************************)
(* checkCycle, isRecursivelyDefined, getOperationCount and isFunctional   *)
(* called on the same graph: every graph of three Vals and two Exprs with *)
(* at most two inputs each, e2 being an ElectSync.  checkCycle is called  *)
(* on one or two targets with an empty boundary, a Val boundary or an     *)
(* Expr boundary; the definition walks on a.  The calls only read the     *)
(* graph, so their order does not matter: checkCycle runs first and the   *)
(* definition walks once it has returned, which keeps the state space the *)
(* sum of the runs.                                                       *)
(***************************************************************************)
CONSTANTS a, b, c, e1, e2, NoExpr, Vals, Exprs, MaxIns, MaxQueue, MaxOps,
          MaxDepth

VARIABLES def, ins, from, to, queue, path, visited, result, done,
          val, rdQueue, rdVisited, rdResult, rdDone, ocQueue, numOps, ocDone,
          fnStack, fnResult, fnDone

MCTargets == {<<a>>, <<a, b>>}
MCBoundaries == {{}, {b}, {e1}}
MCRoots == {a}
MCElectSync == {e2}

CC == INSTANCE CheckCycle WITH Targets <- MCTargets, Boundaries <- MCBoundaries
DW == INSTANCE DefinitionWalk WITH Roots <- MCRoots, ElectSync <- MCElectSync

ccVars == <<from, to, queue, path, visited, result, done>>
dwVars == <<val, rdQueue, rdVisited, rdResult, rdDone, ocQueue, numOps, ocDone,
            fnStack, fnResult, fnDone>>
vars == <<def, ins, ccVars, dwVars>>

Init == CC!Init /\ DW!Init

CcStep == CC!Step /\ UNCHANGED dwVars
DwStep == done /\ DW!Step /\ UNCHANGED ccVars
Returned == done /\ DW!Returned /\ UNCHANGED ccVars

Next == CcStep \/ DwStep \/ Returned

\* Each call is a sequential loop that, once entered, keeps executing.
Spec == Init /\ [][Next]_vars /\ WF_vars(CcStep) /\ WF_vars(DwStep)

-----------------------------------------------------------------------------
(* checkCycle returns a non-empty path exactly when a cycle is reachable  *)
(* from the targets without passing the boundary.                         *)
CheckCycleCorrect == CC!CheckCycleCorrect

(* Every Stmt checkCycle reports lies on a cycle of the graph.            *)
ReportedPathHasCycle == CC!ReportedPathHasCycle

(* checkCycle returns on every graph, cyclic ones included.               *)
Terminates == CC!Terminates

(* isRecursivelyDefined answers whether a's definition graph leads back  *)
(* to a.                                                                  *)
RecursivelyDefinedCorrect == DW!RecursivelyDefinedCorrect

(* getOperationCount counts the Exprs of the definition tree of a, with a *)
(* shared input counted once per path.                                    *)
OperationCountOfTree == DW!OperationCountOfTree

(* isRecursivelyDefined returns on every graph.                           *)
RecursivelyDefinedTerminates == DW!RecursivelyDefinedTerminates

(* isFunctional(a) answers whether nothing a is computed from is defined  *)
(* by ElectSync (e2), whenever it returns.                                *)
IsFunctionalCorrect == DW!IsFunctionalCorrect

(* isFunctional(a) returns whenever no cycle lies below a.                *)
IsFunctionalTerminates == DW!IsFunctionalTerminates
=============================================================================
