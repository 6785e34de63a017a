---------------------------- MODULE ScopedFusion ----------------------------
(***************************************************************************)
(* What the active-Fusion slot promises (spec 5 and 9): scoped            *)
(* acquisition.  Each open scope names the Fusion that is current inside  *)
(* it; closing the scope makes the enclosing scope's Fusion current again, *)
(* whatever happened inside.  Outside every scope a base value is current. *)
(* Setting the current Fusion rebinds the innermost scope only.           *)
(***************************************************************************)
EXTENDS Naturals, Sequences

CONSTANTS Fusions, NoFusion

VARIABLES
    base,     \* the Fusion current outside every scope
    scopes    \* the Fusion current in each open scope, innermost last

Current == IF scopes = <<>> THEN base ELSE scopes[Len(scopes)]

Init == base = NoFusion /\ scopes = <<>>

Open(f) == scopes' = Append(scopes, f) /\ UNCHANGED base

Close == scopes # <<>> /\ scopes' = SubSeq(scopes, 1, Len(scopes) - 1)
         /\ UNCHANGED base

Rebind(f) ==
    IF scopes = <<>> THEN base' = f /\ UNCHANGED scopes
    ELSE scopes' = [scopes EXCEPT ![Len(scopes)] = f] /\ UNCHANGED base

Next == \E f \in Fusions \cup {NoFusion} : Open(f) \/ Rebind(f)
        \/ Close

Spec == Init /\ [][Next]_<<base, scopes>>
=============================================================================
