---------------------------- MODULE DomainCompare ----------------------------
(***************************************************************************)
(* ir_utils::compareDomains(dom0, dom1, additional_ids, ignore_broadcast) *)
(* and validateDomainEquivalence.  IterDomains are connected by transform *)
(* Exprs (split, merge, resize).  compareDomains asks IRBFS for the        *)
(* transforms between dom0 + additional_ids and dom1, each with the       *)
(* direction it is crossed in, replays them on a frontier set that starts *)
(* as dom0 + additional_ids, drops the symbolic IDs found on both sides,  *)
(* and reports whether dom1 has IDs the frontier does not reach and       *)
(* whether the frontier has IDs dom1 does not reach.  A failed NVF_ERROR  *)
(* ends the call (no caller under src/ catches it): the result "error".  *)
(*                                                                         *)
(* The loop over the traversed Exprs is one action per iteration; the    *)
(* code before the loop and after it are one action each.  IRBFS is not  *)
(* under src/: ExprsBetween and Reachable follow the traversal spec 4.4   *)
(* describes.  The domains are sets: a duplicated entry only trips the   *)
(* two NVF_ERRORs at the start, which the model leaves out.              *)
(***************************************************************************)
EXTENDS FiniteSets

CONSTANTS
    IDs,          \* IterDomain objects
    IdExprs,      \* transform Exprs between them
    IdIn,         \* IdIn[e]  : e->inputs()
    IdOut,        \* IdOut[e] : e->outputs()
    Symbolic,     \* IDs with getIterType() == IterType::Symbolic
    Broadcast,    \* IDs with isBroadcast()
    Additional    \* the IDs callers pass as additional_ids

ASSUME
    /\ IdIn \in [IdExprs -> SUBSET IDs] /\ IdOut \in [IdExprs -> SUBSET IDs]
    /\ Symbolic \cup Broadcast \cup Additional \subseteq IDs

VARIABLES
    dom0,         \* the dom0 argument
    dom1,         \* the dom1 argument (dom1_set before the symbolic pass)
    ignoreBcast,  \* ignore_broadcast
    additional,   \* the additional_ids argument
    addl,         \* additional_ids_set, which grows during the loop
    pending,      \* the traversals of `exprs` not yet replayed
    frontier,     \* the frontier set
    status,       \* "running", "error" (an NVF_ERROR), or "returned"
    result        \* the CompareDomainResult once returned

vars == <<dom0, dom1, ignoreBcast, additional, addl, pending, frontier, status, result>>

Results == [dom0Unreachable : BOOLEAN, dom1Unreachable : BOOLEAN]
Equivalent == [dom0Unreachable |-> FALSE, dom1Unreachable |-> FALSE]

\* A traversal is an Expr with the direction IRBFS crosses it in.
From(t) == IF t.fwd THEN IdIn[t.e] ELSE IdOut[t.e]
To(t)   == IF t.fwd THEN IdOut[t.e] ELSE IdIn[t.e]

(* IRBFS from a set of IDs: an Expr is crossed forward once all its       *)
(* inputs are visited, backward once all its outputs are, and each Expr  *)
(* once.  Returns the traversals made, level by level, to a fixpoint.    *)
RECURSIVE Visit(_, _)
Visit(seen, done) ==
    LET usedE == {t.e : t \in done}
        fwd   == {[e |-> e, fwd |-> TRUE] : e \in {e \in IdExprs \ usedE : IdIn[e] \subseteq seen}}
        bwd   == {[e |-> e, fwd |-> FALSE] :
                    e \in {e \in IdExprs \ usedE : IdOut[e] \subseteq seen /\ ~(IdIn[e] \subseteq seen)}}
        next  == fwd \cup bwd
    IN  IF next = {} THEN done
        ELSE Visit(seen \cup UNION {To(t) : t \in next}, done \cup next)

\* IRBFS::getReachableValsFrom: the IDs a traversal from S reaches.
Reachable(S) == S \cup UNION {To(t) : t \in Visit(S, {})}

(* IRBFS::getExprsBetween(from, to): the traversals on the way from      *)
(* `from` to `to`, found by walking back from `to` through the traversal *)
(* that visited each ID (the IDs of `from` are where the walk stops).    *)
RECURSIVE Needed(_, _, _)
Needed(T, targets, from) ==
    LET n == {t \in T : To(t) \cap (targets \ from) # {}}
        more == targets \cup UNION {From(t) : t \in n}
    IN  IF more = targets THEN n ELSE Needed(T, more, from)

ExprsBetween(from, to) == Needed(Visit(from, {}), to, from)

-----------------------------------------------------------------------------
(* The call, up to the loop: the empty-domains early return, then        *)
(* dom0.insert(additional_ids), the IRBFS query and the frontier.         *)
Init ==
    \E d0, d1 \in SUBSET IDs, add \in SUBSET Additional, ib \in BOOLEAN :
       /\ dom0 = d0 /\ dom1 = d1 /\ ignoreBcast = ib
       /\ additional = add /\ addl = add
       /\ result = Equivalent
       /\ IF d0 = {} /\ d1 = {}
          THEN /\ status = "returned"
               /\ pending = {} /\ frontier = {}
          ELSE /\ status = "running"
               /\ pending = ExprsBetween(d0 \cup add, d1)
               /\ frontier = d0 \cup add

(* IRBFS returns the traversals in an order where the ID each one comes *)
(* from is visited first: the next one replayed is any whose `from` side *)
(* no other pending traversal still produces.                            *)
Ready(t) == \A u \in pending \ {t} : To(u) \cap From(t) = {}

(* An Expr whose `from` side is all additional IDs only extends them.    *)
SkipAdditional(t) ==
    /\ From(t) \subseteq addl
    /\ addl' = addl \cup To(t)
    /\ UNCHANGED <<frontier, status>>

\* The replay that inserts the `to` IDs but never erases the `from` IDs.
ReplayKeepingFrom(t) ==
    LET ignorable(v) == (ignoreBcast /\ v \in Broadcast) \/ v \in addl
        ins == To(t) \ addl
    IN  /\ ~(From(t) \subseteq addl)
        /\ IF \/ ins \cap frontier # {}
              \/ \E v \in From(t) : v \notin frontier /\ ~ignorable(v)
           THEN status' = "error" /\ UNCHANGED frontier
           ELSE frontier' = frontier \cup ins /\ UNCHANGED status
        /\ UNCHANGED addl

(* Otherwise each `to` ID not additional must be new to the frontier,    *)
(* and each `from` ID must be erased from it unless it is ignorable.     *)
Replay(t) ==
    LET ignorable(v) == (ignoreBcast /\ v \in Broadcast) \/ v \in addl
        ins == To(t) \ addl
    IN  /\ ~(From(t) \subseteq addl)
        /\ IF \/ ins \cap frontier # {}
              \/ \E v \in From(t) : v \notin frontier /\ ~ignorable(v)
           THEN status' = "error" /\ UNCHANGED frontier
           ELSE frontier' = (frontier \cup ins) \ From(t) /\ UNCHANGED status
        /\ UNCHANGED addl

LoopStep ==
    /\ status = "running"
    /\ \E t \in pending :
          /\ Ready(t)
          /\ pending' = pending \ {t}
          /\ SkipAdditional(t) \/ Replay(t)
    /\ UNCHANGED <<dom0, dom1, ignoreBcast, additional, result>>

(* check_ids(ids, target): an ID to check, neither symbolic nor an       *)
(* ignored broadcast, that is not in target is unreachable, and an       *)
(* NVF_ERROR if target reaches it all the same (it is redundant).         *)
\* check_ids skipping broadcasts whatever ignore_broadcast says.
IgnoredAnyBroadcast(v) == v \in Symbolic \/ v \in Broadcast
Ignored(v) == v \in Symbolic \/ (ignoreBcast /\ v \in Broadcast)
Missing(ids, target) == {v \in ids : ~Ignored(v) /\ v \notin target}
Redundant(ids, target) == Missing(ids, target) \cap Reachable(target) # {}

(* After the loop: the symbolic IDs in both the frontier and dom1_set are *)
(* erased from both; each check_ids runs only while the other side has   *)
(* no symbolic ID left, dom1 (the argument, not dom1_set) first.         *)
Finish ==
    /\ status = "running" /\ pending = {}
    /\ LET both  == {v \in frontier \cap dom1 : v \in Symbolic}
           front == frontier \ both
           d1set == dom1 \ both
           check1 == front \cap Symbolic = {}
           check0 == d1set \cap Symbolic = {}
       IN  IF \/ check1 /\ Redundant(dom1, front)
              \/ check0 /\ Redundant(front, d1set)
           THEN status' = "error" /\ UNCHANGED result
           ELSE /\ status' = "returned"
                /\ result' = [dom1Unreachable |-> check1 /\ Missing(dom1, front) # {},
                              dom0Unreachable |-> check0 /\ Missing(front, d1set) # {}]
    /\ UNCHANGED <<dom0, dom1, ignoreBcast, additional, addl, pending, frontier>>

\* validateDomainEquivalence: it returns exactly when compareDomains reports
\* neither side unreachable; any other outcome is an NVF_ERROR.
Validated == status = "returned" /\ result = Equivalent

\* compareDomains has returned or thrown.
Ended == status \in {"returned", "error"}

Returned == Ended /\ UNCHANGED vars

Next == LoopStep \/ Finish \/ Returned

Spec == Init /\ [][Next]_vars /\ WF_vars(LoopStep \/ Finish)

-----------------------------------------------------------------------------
(* Reference: the domains a domain D turns into by applying transforms    *)
(* forward, each replacing its inputs, all in D, by its outputs.         *)
RECURSIVE DerivedDomains(_)
DerivedDomains(D) ==
    {D} \cup UNION {DerivedDomains((D \ IdIn[e]) \cup IdOut[e]) :
                    e \in {e \in IdExprs : IdIn[e] \subseteq D /\ IdOut[e] \cap D = {}}}

\* The root IDs, which no transform produces.
RootDomain == IDs \ UNION {IdOut[e] : e \in IdExprs}

\* The IDs a comparison is about: neither symbolic nor a broadcast the
\* caller asked to ignore.
Compared(D) == {v \in D \ Symbolic : ~(ignoreBcast /\ v \in Broadcast)}

\* D and a domain derived from the same roots as D0 agree on the IDs
\* compared.
DerivedUpToIgnored(D0, D) ==
    \E R \in SUBSET RootDomain :
       /\ D0 \in DerivedDomains(R)
       /\ \E C \in DerivedDomains(R) : Compared(C) = Compared(D)

SameTensor(D0, D1) == \E R \in SUBSET RootDomain : {D0, D1} \subseteq DerivedDomains(R)

(* Completeness: compareDomains on two domains of one tensor, say its    *)
(* root and its loop domain, replays every split and merge between them   *)
(* and validateDomainEquivalence returns; no broadcast, symbolic ID or    *)
(* traversal order makes it report an ID unreachable or throw.            *)
DomainsOfOneTensorValidate ==
    Ended /\ addl = {} /\ SameTensor(dom0, dom1) => Validated

(* Spec 4.4 and its open question (section 9): the symbolic IDs found in *)
(* both the frontier and dom1 are dropped from both sides.  Whenever that *)
(* leaves both check_ids to run (no other symbolic ID on either side) and  *)
(* validateDomainEquivalence returns for dom0 (with additional_ids) a     *)
(* domain of a tensor, dom1 is a domain of the same tensor up to the IDs  *)
(* compared: dropping symbolic IDs carried over unchanged, or derived by   *)
(* the same transforms on both sides, masks no missing, extra or redundant *)
(* ID.                                                                     *)
ValidatedDomainIsDerivedWhenChecked ==
    LET d0 == dom0 \cup additional
    IN  Validated /\ dom0 \cup dom1 # {} /\ frontier \cap Symbolic = dom1 \cap Symbolic
          /\ SameTensor(d0, d0)
          => DerivedUpToIgnored(d0, dom1)

(* The same promise when a symbolic ID stays on one side only: the code   *)
(* then skips the other side's check_ids altogether.                      *)
ValidatedDomainIsDerived ==
    Validated /\ addl = {} /\ SameTensor(dom0, dom0) => DerivedUpToIgnored(dom0, dom1)

TypeOK ==
    /\ dom0 \subseteq IDs /\ dom1 \subseteq IDs /\ ignoreBcast \in BOOLEAN
    /\ additional \subseteq Additional
    /\ addl \subseteq IDs /\ frontier \subseteq IDs
    /\ pending \subseteq [e : IdExprs, fwd : BOOLEAN]
    /\ status \in {"running", "error", "returned"} /\ result \in Results

==============================================================================
