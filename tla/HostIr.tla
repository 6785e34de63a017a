------------------------------- MODULE HostIr -------------------------------
(***************************************************************************)
(* hir::HostIrContainer (container.h 27-60): a Fusion (SSA, not a        *)
(* kir::Kernel) that also keeps the host program, a manually managed      *)
(* vector top_level_exprs_ of Expr pointers.  A host program is built by  *)
(* creating Vals and Exprs (IrBuilder::create registers them), declaring  *)
(* inputs and outputs, and pushing Exprs at the back of the program.      *)
(***************************************************************************)
EXTENDS Fusion

CONSTANT MaxTopLevel    \* bound on Len(top_level_exprs_)

VARIABLE topLevel       \* HostIrContainer::top_level_exprs_

hostVars == <<vars, topLevel>>

HostInit == Init /\ topLevel = <<>>

(* HostIrContainer::pushBackTopLevelExprs: assertInContainer(expr), then  *)
(* push_back.                                                             *)
PushBackTopLevelExprs(e) ==
    /\ e \in exprs
    /\ Len(topLevel) < MaxTopLevel
    /\ topLevel' = Append(topLevel, e)
    /\ UNCHANGED vars

\* The Fusion calls that build a host program.
BuildStep ==
    /\ \/ \E v \in Vals : RegisterVal(v) \/ AddInput(v) \/ AddOutput(v)
       \/ \E e \in Exprs : RegisterExpr(e)
    /\ UNCHANGED topLevel

HostNext == BuildStep \/ \E e \in Exprs : PushBackTopLevelExprs(e)

HostSpec == HostInit /\ [][HostNext]_hostVars

-----------------------------------------------------------------------------
(* The host program only holds Exprs of the container: pushBackTopLevel- *)
(* Exprs asserts it, and building the rest of the program must not free   *)
(* an Expr the program still points to.                                   *)
TopLevelExprsRegistered == ToSet(topLevel) \subseteq exprs
=============================================================================
