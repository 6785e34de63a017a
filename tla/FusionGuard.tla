---------------------------- MODULE FusionGuard ----------------------------
(***************************************************************************)
(* FusionGuard (container.h 92-109): the thread_local active_fusion_ slot  *)
(* and the RAII guards that save it.  A guard's constructor saves the     *)
(* active Fusion in prev_fusion_ and installs its own; the destructor     *)
(* writes prev_fusion_ back.  Guards are automatic objects, so C++ runs   *)
(* destructors in reverse order of construction, on normal exit and on   *)
(* unwinding alike: the live guards form a stack.  setCurFusion writes    *)
(* the slot directly.  The slot is thread_local, so one thread is enough. *)
(***************************************************************************)
EXTENDS Naturals, Sequences

CONSTANTS
    Fusions,      \* Fusion objects
    NoFusion,     \* nullptr
    MaxDepth      \* bound on the number of nested guards

VARIABLES
    active,       \* FusionGuard::active_fusion_
    guards        \* prev_fusion_ of each live guard, innermost last

vars == <<active, guards>>

FusionPtrs == Fusions \cup {NoFusion}

\* thread_local Fusion* FusionGuard::active_fusion_ = nullptr
Init == active = NoFusion /\ guards = <<>>

(* FusionGuard::FusionGuard(fusion): prev_fusion_(active_fusion_), then   *)
(* active_fusion_ = fusion.                                               *)
Enter(f) ==
    /\ Len(guards) < MaxDepth
    /\ active' = f
    /\ guards' = Append(guards, active)

\* A destructor that resets the slot to nullptr instead of restoring it.
ExitClearing ==
    /\ guards # <<>>
    /\ active' = NoFusion
    /\ guards' = SubSeq(guards, 1, Len(guards) - 1)

(* FusionGuard::~FusionGuard: active_fusion_ = prev_fusion_ of the        *)
(* innermost live guard.                                                  *)
Exit ==
    /\ guards # <<>>
    /\ active' = guards[Len(guards)]
    /\ guards' = SubSeq(guards, 1, Len(guards) - 1)

(* FusionGuard::setCurFusion: overwrites the slot, no guard involved.     *)
SetCurFusion(f) ==
    /\ active' = f
    /\ UNCHANGED guards

Next ==
    \/ \E f \in FusionPtrs : Enter(f)
    \/ Exit
    \/ \E f \in FusionPtrs : SetCurFusion(f)

Spec == Init /\ [][Next]_vars

-----------------------------------------------------------------------------
(* The refinement mapping: the Fusion of scope i is what the next guard   *)
(* saved when it was built, or the active slot for the innermost scope;   *)
(* the base is what the outermost guard saved.                            *)
Scoped == INSTANCE ScopedFusion WITH
    base   <- IF guards = <<>> THEN active ELSE guards[1],
    scopes <- [i \in 1..Len(guards) |->
                 IF i = Len(guards) THEN active ELSE guards[i + 1]]

(* The guards implement scoped acquisition (spec 5): leaving a guard's    *)
(* scope, normally or by an exception, makes current again exactly the    *)
(* Fusion current in the enclosing scope, and a setCurFusion inside a     *)
(* scope lasts only until that scope ends.                                *)
ImplementsScopedFusion == Scoped!Spec
=============================================================================
