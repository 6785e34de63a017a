------------------------------- MODULE Reorder -------------------------------
(***************************************************************************)
(* ir_utils::normalizeNew2Old and ir_utils::normalizeOld2New, the         *)
(* canonicalisation of the axis maps given to TensorView::reorder: wrap   *)
(* negative axes by adding ndims, refuse out-of-range and duplicate       *)
(* entries (NVF_CHECK), and build the full new2old permutation.           *)
(* An Old2New map is a std::unordered_map: the order in which its entries *)
(* are copied into the wrapped map is the hash order, unknown here, so it *)
(* is chosen by \E among all orders.  One call is one action.             *)
(***************************************************************************)
EXTENDS Integers, Sequences, FiniteSets, SequencesExt

CONSTANT MaxDims    \* largest ndims a call is made with

\* A returned vector, or a failed NVF_CHECK.
Ok(v) == [ok |-> TRUE, vec |-> v]
Error == [ok |-> FALSE, vec |-> <<>>]

Axes(n) == 0..(n - 1)
\* The axes callers may pass, one beyond each end of the valid range.
CallAxes(n) == (-n - 1)..n

Wrap(x, n) == IF x < 0 THEN x + n ELSE x

\* The vectors normalizeNew2Old is called with: any length up to ndims + 1.
New2OldCalls ==
    UNION {[ndims : {n}, in : BoundedSeq(CallAxes(n), n + 1)] : n \in 1..MaxDims}

\* The unordered_maps normalizeOld2New is called with, up to two entries
\* (a function from old axes to new axes).
Old2NewCalls ==
    UNION {[ndims : {n}, in : UNION {[K -> CallAxes(n)] :
               K \in {K \in SUBSET CallAxes(n) : Cardinality(K) <= 2}}] :
           n \in 1..MaxDims}

-----------------------------------------------------------------------------
\* normalizeNew2Old without the duplicate-entry check.
NormalizeNew2OldUnchecked(in, n) ==
    LET new2old == [i \in 1..Len(in) |-> Wrap(in[i], n)]
    IN  IF Len(in) # n \/ \E i \in 1..n : new2old[i] \notin Axes(n)
        THEN Error
        ELSE Ok(new2old)

(* normalizeNew2Old: the length must be ndims, every wrapped entry in     *)
(* range, no entry twice; the result is the wrapped vector.               *)
NormalizeNew2Old(in, n) ==
    LET new2old == [i \in 1..Len(in) |-> Wrap(in[i], n)]
    IN  IF \/ Len(in) # n
           \/ \E i \in 1..n : new2old[i] \notin Axes(n)
           \/ Cardinality(ToSet(new2old)) # n
        THEN Error
        ELSE Ok(new2old)

(* The std::transform into an std::inserter of an unordered_map: entries  *)
(* are inserted in iteration order `order` (a sequence of the keys), and  *)
(* insert keeps the first entry of a key that two wrapped keys collide on. *)
WrappedMap(in, n, order) ==
    LET keep(m, k) == LET w == Wrap(k, n)
                      IN  IF w \in DOMAIN m THEN m
                          ELSE [x \in DOMAIN m \cup {w} |->
                                  IF x = w THEN Wrap(in[k], n) ELSE m[x]]
    IN  FoldLeft(keep, [x \in {} |-> 0], order)

\* The holes filled from a std::unordered_set, here in decreasing order.
FillHolesUnsorted(partial, n) ==
    LET left  == SetToSortSeq(Axes(n) \ {partial[i] : i \in 1..n},
                             LAMBDA x, y : x > y)
        rank(i) == Cardinality({j \in 1..n : j <= i /\ partial[j] = -1})
    IN  [i \in 1..n |-> IF partial[i] = -1 THEN left[rank(i)] ELSE partial[i]]

(* The positions not given, in increasing order, fill the holes of        *)
(* new2old (the -1 entries) from left to right.                           *)
FillHoles(partial, n) ==
    LET left  == SetToSortSeq(Axes(n) \ {partial[i] : i \in 1..n},
                             LAMBDA x, y : x < y)
        rank(i) == Cardinality({j \in 1..n : j <= i /\ partial[j] = -1})
    IN  [i \in 1..n |-> IF partial[i] = -1 THEN left[rank(i)] ELSE partial[i]]

(* normalizeOld2New: wrap keys and values, refuse out-of-range ones and   *)
(* duplicate old or new positions (counted on the wrapped map), put each  *)
(* old axis at its new position and fill the rest in relative order.      *)
NormalizeOld2New(in, n, order) ==
    LET old2new == WrappedMap(in, n, order)
        olds == DOMAIN old2new
        news == {old2new[k] : k \in olds}
        partial == [i \in 1..n |-> IF \E k \in olds : old2new[k] = i - 1
                                   THEN CHOOSE k \in olds : old2new[k] = i - 1
                                   ELSE -1]
    IN  IF \/ \E k \in olds : k \notin Axes(n) \/ old2new[k] \notin Axes(n)
           \/ Cardinality(news) # Cardinality(olds)
        THEN Error
        ELSE Ok(FillHoles(partial, n))

-----------------------------------------------------------------------------
VARIABLES
    call,     \* the function called and its arguments
    result,   \* Ok(new2old), 1-based here, or Error
    done      \* the call has returned

vars == <<call, result, done>>

Init ==
    /\ call \in [fn : {"New2Old"}, arg : New2OldCalls] \cup
                [fn : {"Old2New"}, arg : Old2NewCalls]
    /\ result = Error
    /\ done = FALSE

CallNew2Old ==
    /\ ~done /\ call.fn = "New2Old"
    /\ result' = NormalizeNew2Old(call.arg.in, call.arg.ndims)
    /\ done' = TRUE
    /\ UNCHANGED call

CallOld2New ==
    /\ ~done /\ call.fn = "Old2New"
    /\ \E order \in SetToSeqs(DOMAIN call.arg.in) :
          result' = NormalizeOld2New(call.arg.in, call.arg.ndims, order)
    /\ done' = TRUE
    /\ UNCHANGED call

\* The call has returned.
Returned == done /\ UNCHANGED vars

Next == CallNew2Old \/ CallOld2New \/ Returned

Spec == Init /\ [][Next]_vars

-----------------------------------------------------------------------------
Returns == done /\ result.ok

IsPermutation(p, n) == Len(p) = n /\ ToSet(p) = Axes(n)

TypeOK ==
    /\ result \in [ok : BOOLEAN, vec : Seq(-1..(MaxDims - 1))]
    /\ done \in BOOLEAN

(* A vector that either function returns is a permutation of the axes:   *)
(* reorder never loses or duplicates an axis of the TensorView.           *)
NormalizedIsPermutation ==
    Returns => IsPermutation(result.vec, call.arg.ndims)

(* When normalizeOld2New returns, every old->new entry the caller asked   *)
(* for was in range and holds in the returned new2old, after wrapping      *)
(* negative axes; a request it cannot honour fails (spec 7: invariant      *)
(* violations are never silently ignored).                                *)
Old2NewHonoursRequest ==
    Returns /\ call.fn = "Old2New" =>
        LET n == call.arg.ndims
        IN  \A k \in DOMAIN call.arg.in :
               /\ Wrap(k, n) \in Axes(n)
               /\ Wrap(call.arg.in[k], n) \in Axes(n)
               /\ result.vec[Wrap(call.arg.in[k], n) + 1] = Wrap(k, n)

\* The old axes of a request are distinct once wrapped.
DistinctOldAxes(arg) ==
    \A k, j \in DOMAIN arg.in : Wrap(k, arg.ndims) = Wrap(j, arg.ndims) => k = j

(* For a request whose old axes stay distinct after wrapping, every       *)
(* old->new entry holds in the returned new2old and the axes not named    *)
(* keep their relative order.                                             *)
Old2NewPlacesAxes ==
    Returns /\ call.fn = "Old2New" /\ DistinctOldAxes(call.arg) =>
        LET n == call.arg.ndims
            named == {Wrap(k, n) : k \in DOMAIN call.arg.in}
        IN  /\ \A k \in DOMAIN call.arg.in :
                  result.vec[Wrap(call.arg.in[k], n) + 1] = Wrap(k, n)
            /\ \A i, j \in 1..n :
                  i < j /\ result.vec[i] \notin named /\ result.vec[j] \notin named
                      => result.vec[i] < result.vec[j]
=============================================================================
