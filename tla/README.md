# TLA+ models of the nvFuser IR core

These modules model the parts of the repository that keep and walk nvFuser's
IR graph. `Fusion` (in `src/csrc/host_ir/container.h`) is the container that
owns Vals and Exprs. The `ir_utils` functions in `src/unnamed/part_000` run
structural queries, traversals and axis-map normalisation over it. Every
definition names the source lines it models in the `map` of `PROJECT.json`.

## The system

| Part | Source | State | Operations |
|---|---|---|---|
| Fusion container | container.h 92-884 | `vals_`, `exprs_`, each Val's `definition_` and `uses_`, `inputs_`/`outputs_` with the `isFusionInput`/`isFusionOutput` flags, `io_alias_`, `all_tv_uses_valid_` | `clear`, `registerVal`, `registerExpr` (SSA vs kernel), `removeExpr`, `removeVal`, `addInput`, `addOutput`, `removeInput`, `removeOutput`, `replaceOutput`, `resetTvUses`, `aliasOutputToInput`, `copy`, `swap` |
| Structural queries | part_000 286-404, container.h 402, 695-811 | none (they read the container) | `producerValsOf`, `consumerValsOf`, `siblingValsOf` and their TV variants, `getTerminatingOutputs`, `usedMathVals`, `terminatingMathVals`, `isNoOp` |
| Cycle detector | part_000 980-1080 | a deque and the `path`/`visited` sets | `checkCycle` |
| Definition walks | part_000 1192-1265 | a deque, a visited set, a counter | `isFunctional`, `isRecursivelyDefined`, `getOperationCount` |
| Axis maps | part_000 23-160 | none (pure functions) | `normalizeNew2Old`, `normalizeOld2New` |
| Mutators | part_000 162-666 | the container | `SubstituteInExpr`, `replaceValInAllExprInputsAndFusionOutputs`, `transferDefinitionToNewOutputs`, `replaceValue`, `replaceValRecursively` |
| Domain comparator | part_000 804-975 | a frontier of IterDomains | `compareDomains`, `validateDomainEquivalence` |
| Fusion copy and move | container.h 111-239 | two Fusions | `Fusion::copy`, copy/move constructors and assignments, the friend `swap` |
| FusionGuard | container.h 92-109 | the thread-local `active_fusion_`, each guard's `prev_fusion_` | guard construction and destruction, `setCurFusion` |
| HostIrContainer | container.h 27-60 | a Fusion plus `top_level_exprs_` | `pushBackTopLevelExprs` |
| Benchmarks and CI | shape_inference.cpp, part_001-003 | — | — |

How the parts interact:

- Every mutator and every IR builder goes through `registerExpr` and
  `removeExpr`. Each Val's `uses_` list is a cache. For TensorViews it is
  rebuilt lazily, when `Val::uses()` is called and `all_tv_uses_valid_` is
  false.
- The queries read `definition()` and `uses()`. So a stale cache changes
  what producers, consumers and `getTerminatingOutputs` return.
- The traversals (`checkCycle` and the definition walks) read only
  definitions and Expr inputs.
- The copy and move operations are built from `clear()`, `Fusion::copy`
  and `swap`. They carry the graph, the lists, the aliases and the
  `all_tv_uses_valid_` flag from one Fusion to another.
- IR builders register new nodes in the Fusion that `FusionGuard` makes
  current. A HostIrContainer is such a Fusion, in SSA mode, and it keeps
  its host program as raw Expr pointers.

## Modules

| Module | Models | State ↔ code |
|---|---|---|
| `Fusion` | the container | See the correspondence below. |
| `FusionQueries` | the queries (EXTENDS `Fusion`) | `Uses(v)` is `Val::uses()`: for a TV it gives `RebuiltUses` while the cache is invalid. The queries are operators, checked in every reachable Fusion state. `GetTerminatingOutputs` follows the lambda's visited-set walk. `InputsOf` is `InputsOf::outputs`, and `UsedMathVals` is `getAllValsBetween` (the `ValsBetween` closure, taken from the spec because DependencyCheck is not under src/) plus the sibling pass. `TerminatingMathVals` keeps the used Vals whose `Uses` is empty and that have a definition. |
| `IrGraph` | the graph the traversals walk | `def`, `ins`, and `NextOf`, which is the code's `next()`. It also holds the recursive reference definitions (`ReachAvoiding`, `HasCycleFrom`, `ContainsCycle`). |
| `CheckCycle` | `checkCycle` | One action per branch of the loop body, tested in the code's order. `queue` is the deque, with its front as `Head`. `path` and `visited` are the two sets. |
| `DefinitionWalk` | `isRecursivelyDefined`, `getOperationCount` and `isFunctional` on the same graph and Val | One action per loop iteration, checked against `FeedsItself` and the recursive `OpTree`. The recursion of `isFunctional` is an explicit stack `fnStack` of frames `[v, i]`, where `i` counts the inputs `all_of` has found functional. Each branch is one action: `FnLeaf` (no definition), `FnElectSync`, `FnAllInputs` (every input functional) and `FnCall` (recurse on the next input). `FnReturn` pops a frame. A false result unwinds every frame at once, because each enclosing `all_of` stops there. It is checked against `FunctionalRef`. |
| `Reorder` | both normalisations | Operators. `normalizeOld2New` takes the `unordered_map` iteration order as a `\E`-chosen sequence of keys. One call is one action. |
| `DomainCompare` | `compareDomains` and `validateDomainEquivalence` | `frontier` is the code's `frontier`, `pending` the traversal Exprs from `getExprsBetween` not yet replayed, and `status` is running, error (an `NVF_ERROR` was thrown) or returned. `result` is the returned record. `LoopStep` is one iteration of the replay loop: it skips an Expr whose from-side is all additional IDs, or it replays it, throwing when a to-ID is already in the frontier or a from-ID is missing and not ignorable. `Finish` is the code after the loop: the symbolic IDs found on both sides are dropped, then each side's check runs only when the other side holds no symbolic ID. `IRBFS` is not under src/, so `Visit`, `Needed` and `ExprsBetween` (the traversal) and `Ready` (its order) come from the spec. An order is any one in which no pending Expr still produces an ID the chosen one reads. Duplicate IDs in one domain are left out: domains are sets, so the duplicate-entry `NVF_ERROR`s cannot fire. |
| `ScopedFusion` | what FusionGuard promises (abstract) | `base` is the Fusion current outside every scope. `scopes` is a stack with one entry per open scope. `Open`, `Close` and `Rebind` (the current scope now names another Fusion) are its actions. |
| `FusionGuard` | the guard | `active` is `active_fusion_`. `guards` is the sequence of live guards' `prev_fusion_`, innermost last. `Enter` is the constructor, `Exit` the destructor (normal or exceptional scope exit), and `SetCurFusion` is `setCurFusion`. `Scoped == INSTANCE ScopedFusion WITH ...` maps the innermost scope to `active` and each outer scope to the `prev_fusion_` saved by the guard above it. |
| `FusionPair` | two Fusions `a` and `b` | Each is an `INSTANCE FusionQueries WITH` its own variables. A container's state is a record. `Cleared` is `clear()`. `Swapped(x, y)` is what `x` holds after `swap(x, y)`. `Copied` is `Fusion::copy`. `CopyInto`, `CopyAssign` and `MoveAssign` are the constructors and assignments (the move constructor is `MoveAssign` into a fresh, empty Fusion). `SwapFusions` is a direct call of `swap`. `OpA`/`OpB` are any Fusion method on one container. |
| `FusionMutators` | `replaceValInAllExprInputsAndFusionOutputs` (EXTENDS `FusionQueries`) | `oldVal`/`newVal` are the arguments of the call in progress, and `pending` is the part of the copied `uses()` list not yet processed. `ReplaceBegin` is the copy, including the lazy `resetTvUses` that `uses()` runs. `ReplaceUse` is one iteration (`replaceValInExprInputs`), which registers the substitute Expr `SubstituteFor[<<use, old, new>>]` that `SubstituteInExpr` builds. The SSA `registerExpr` frees the old use. `ReplaceEnd` is the `replaceOutput` step, including its throwing branch. `ClientCall` is any other Fusion method between calls. |
| `GuardedReplace` | the mutator composed with `FusionGuard` | `active` and `guards` come from `FusionGuard`. A client call that creates a node succeeds in this Fusion only while it is the active one (`GuardedClientCall`). The mutator's own guard is `Begin`/`End` around the call, and `GuardedSubstitute` builds each substitute in `expr->fusion()`. That `SubstituteInExpr` builds under the active Fusion at all is OptOutMutator's behaviour, which is outside src/; no property depends on it. |
| `HostIr` | HostIrContainer (EXTENDS `Fusion`) | `topLevel` is `top_level_exprs_`. `PushBackTopLevelExprs` is `pushBackTopLevelExprs`. `BuildStep` is the Fusion calls a host program is built with. |
| `MCFusion`, `MCFusionPair`, `MCHostIr`, `MCIrWalks`, `MCIrUtils`, `MCGuardedReplace` | model values and tables for TLC | `MCIrWalks` also runs `checkCycle` and then the definition walks on the same graph. The calls only read the graph, so running them in sequence loses nothing, and the state space is the sum of the two runs rather than their product. `MCIrUtils` composes `Reorder` and `DomainCompare` the same way: a behaviour is one call of either function, and the other's variables keep their no-call values. |

The `Fusion` state and the code:

- `vals` and `exprs` are `vals_` and `exprs_`. `removed` holds the freed
  objects, which cannot be registered again.
- `definition` and `uses` are the per-Val fields. `inputs` and `outputs` are
  sequences, so duplicates are possible. `isInput` and `isOutput` are the
  flag sets. `ioAlias` is `io_alias_`, and `tvUsesValid` is
  `all_tv_uses_valid_`.
- An Expr's operands are fixed by the `ExprInputs`/`ExprOutputs` constants.
  This matches the code: an Expr's operand lists are set in its constructor.
- `IsKernel` selects the kir::Kernel variant of `registerExpr`, which does
  not redefine outputs.
- Every action models the whole method. Its NVF_ERROR/NVF_CHECK conditions
  and early returns are guards, and the nested calls are inlined.
  - `removeExpr` clears definitions, detaches uses and invalidates the cache.
  - `removeVal` checks the flags, then removes the definition and every
    Expr, live or dead, that reads the Val.
  - `aliasOutputToInput` sets `io_alias_`, then calls `addOutput`.

`Fusion` has no fairness. It is a single-threaded library, and any sequence
of calls is a possible client.

The loops of `CheckCycle`, `DefinitionWalk` and `DomainCompare` carry weak fairness. Each is
a sequential loop that, once entered, keeps executing. `FusionGuard`,
`FusionPair`, `GuardedReplace` and `HostIr` have no fairness: any sequence of scopes and
calls is possible, and their properties are safety properties.

## Runs

All runs use small model values. In the Fusion runs, each reachable state
is a sequence of API calls on up to 5 Vals (`t0`, `t1`, `t2` TensorViews;
`s0`, `s1` scalars) and up to 4 of these Exprs:

| Expr | Computes | Role |
|---|---|---|
| `eBinary` | `t1 = t0 op s0` | gives two producers |
| `eCast` | `t1 = cast(t0)` | a second definer of `t1`, which exercises SSA redefinition |
| `eMeta` | `s1 = meta(t0)` | a TV read by a scalar-output Expr |
| `eScalar` | `s0 = f(s1)` | a scalar-only Expr |
| `eWelford` | `t1, t2 = welford(t0)` | a two-output Expr, a third definer of `t1` (`fusion_queries` only) |
| `eWelfordN` | `t1, s1 = welford(t0)` | average and scalar count N (`MCFusionTerminating.cfg` only) |

These four Exprs make the interesting cases possible: redefinition, removal
of a shared input, a use path through scalars, and aliasing `t1` to `t0`.
`MaxInputs` and `MaxOutputs` cap the lengths of `inputs_` and `outputs_`.
Two output slots are enough to hold a duplicate output.

| Run | Checks | Result |
|---|---|---|
| `fusion_queries` | `ExprOperandsRegistered`, `DefinitionsAgree`, `UsesAreOperands`, `TerminatingOutputsCorrect` | pass, ~295k states, about 35 s, with `eBinary`, `eCast`, `eMeta` and `eWelford`. After any call sequence, Exprs reference only live Vals, definitions agree with Expr outputs, and uses name only readers. `getTerminatingOutputs` reads the lazily rebuilt use lists and agrees with the live graph. Every Expr here that reads a TensorView invalidates the use lists when registered, so the lists are flagged invalid or right; the stale-but-valid case needs `eScalar` and is `replace_stale_uses`. |
| `fusion_io` | `TypeOK`, `InputFlagsAgree` | pass, ~221k states. Two input slots, with aliasing enabled. |
| `fusion_dangling_output` | `DeclaredIOLive` | violation. A duplicate `addOutput` then `removeOutput`, or `replaceOutput(o, o)`, clears the flag while `o` stays in `outputs_`. `removeVal(o)` then succeeds. |
| `fusion_alias_stale` | `AliasEntriesLive` | violation. `removeVal` of an aliased input leaves `io_alias_` naming a freed Val. |
| `ir_walks` | `CheckCycleCorrect`, `ReportedPathHasCycle`, `Terminates`, `RecursivelyDefinedCorrect`, `OperationCountOfTree`, `RecursivelyDefinedTerminates`, `IsFunctionalCorrect`, `IsFunctionalTerminates` | pass, ~583k states, about 2.5 min. Every graph on 3 Vals and 2 Exprs with up to 2 inputs each, self-loops and diamonds included; `e2` is an ElectSync. `MaxQueue = 4` and `MaxOps = 6` never bind on a DAG of this size, whose maxima are 4 and 3. They only cut `getOperationCount` on cyclic graphs, where it never returns. Likewise `MaxDepth = 4` exceeds the 3 frames of the deepest acyclic recursion of `isFunctional`, so it binds only on a cycle, where the real recursion overflows the stack. |
| `ir_utils` | `NormalizedIsPermutation`, `Old2NewPlacesAxes`, `DomainsOfOneTensorValidate`, `ValidatedDomainIsDerivedWhenChecked` | pass, ~740k states, about 20 s. The axis maps: every call with ndims ≤ 3 and every value in range ±1; for Old2New, maps of at most 2 entries in every iteration order. `compareDomains`: every pair of domains over 8 IDs and every replay order. The graph has a split `i0 → i1, i2`, a merge `i2, i3 → i4` whose input `i3` is a broadcast and also the one possible additional ID, and a split of the symbolic `s0` into `s1, s2`. Any two domains of one tensor validate, whatever order the traversal is replayed in. A validated pair is derived from each other up to ignored IDs whenever both checks ran, so dropping the symbolic IDs found on both sides hides nothing. `MCReorder.cfg` still checks `Reorder` alone. |
| `reorder_collision` | `Old2NewHonoursRequest` | violation. With ndims 1, the map `{-1: -2, 0: 0}` is accepted and the out-of-range entry is silently dropped. |
| `guarded_replace` | `ImplementsScopedFusion`, `ReplaceValInAllCorrect` | pass, ~187k states, about 30 s. Guards are nested 3 deep over two Fusions `f1`, `f2` and `nullptr`, with `setCurFusion` anywhere. They are interleaved with every method of Fusion `f1` (on `t0`, `t1`, `t2`, `eCast: t1 = cast(t0)`) and with `replaceValInAllExprInputsAndFusionOutputs(t0, t2)`, whose substitute is `eCastT2: t1 = cast(t2)`. The guards still implement the scope stack of `ScopedFusion`. Each call leaves no live Expr reading `t0`, whatever Fusion the caller made current, when it starts with the TV use lists flagged invalid (then `uses()` rebuilds them) or right. A declared output `t0` gives its place to `t2`. With tensor-only Exprs the lists are never stale and flagged valid: that case is `replace_stale_uses`. |
| `replace_stale_uses` | `ReplaceValInAllCorrect` | violation, in `MCGuardedReplaceStale.cfg` (one guard level), with the scalar bridge `eMeta: s1 = meta(t0)`, `eScalar: s0 = f(s1)`, `eFull: t1 = full(s0)`. Declare `t1`, let `uses()` rebuild the lists while `eMeta` is dead, then register `eScalar`: `eMeta` becomes live, the lists stay flagged valid, and `replaceValInAll(t0, t2)` copies an empty `t0->uses()` and leaves `eMeta` reading `t0`. |
| `fusion_transfers` | `PairUsesCacheSound`, `TransfersPreserveGraph` | pass, ~108k states. Copies and moves in both directions, interleaved with every method of both containers. |
| `fusion_swap_stale_uses` | `PairUsesCacheSound` | violation. A direct `swap(a, b)` gives a Fusion flagged valid the other's stale use lists. |
| `host_ir_ssa_redefinition` | `TopLevelExprsRegistered` | violation. Push `eBinary`, then register `eCast`, which writes the same `t1`: SSA `registerExpr` frees `eBinary`, which stays in the program. |

**Bounds of the new runs.**
- *`fusion_transfers`.* Each container has `t0`, `t1`, `s0` and the one Expr
  `eBinary`. This is enough to make a container's TV cache stale and then
  copy it, and to redefine, remove and re-declare outputs before a
  transfer.
- *No aliases in `fusion_transfers`.* Aliases multiply a single container's
  states by about 20, and `io_alias_` is copied as a whole. Alias
  handling is checked by `fusion_io` and `fusion_alias_stale`.
- *`MCHostIr`.* `MaxTopLevel = 3`. Building a host program ends, so
  deadlock is not checked there.

**Symbolic IDs in `compareDomains`.** The spec leaves open whether
removing symbolic IDs can mask a real mismatch (part_000 896-899). The
model splits the question. Dropping the symbolic IDs present on both sides
is sound: `ValidatedDomainIsDerivedWhenChecked` holds with `s1` and `s2`
both dropped. What masks is the skipped check. A symbolic ID on one side
only turns off the check of the other side (part_000 946-953), so
`dom0 = {s0}` against `dom1 = {i0}` validates although `i0` is unrelated.
`MCIrUtilsMasking.cfg` reproduces this against `ValidatedDomainIsDerived`.
It is listed as a hazard rather than a run, because the code's comment
defers the case on purpose.

**Bounds of `guarded_replace`.** One Fusion holds the graph, and the second
exists so that the caller can make another Fusion current. Substitutes are
Expr objects that only the mutator builds: a client never registers
`eCastT2` itself. A substitute that would read its own output (for example,
`t0 -> t2` in an Expr that also defines `t2`) closes a cycle. The code does
not check for this, and it is left to `checkCycle`, so no configuration
offers such a substitute. This case is listed as a hazard. `MCFusionGuard.cfg`
still checks the guard alone on `FusionGuard` (120 states).

**Why `eScalar` is left out of `fusion_queries` and `guarded_replace`.**
`eScalar` is the one Expr whose registration can leave the TV use lists
stale while flagged valid (finding 3). Every query and mutator that reads
`uses()` then goes wrong with them, so the passing runs check the code on
the graphs where the cache is maintained. The stale case is shown once, at
its most visible effect, by `replace_stale_uses`. `MCFusionStaleUses.cfg`
shows the root cause on its own: `UsesCacheSound` fails in `MCFusion`.

**`terminatingMathVals` and dead scalar readers.** Spec 3 says the terminating
Vals are those with a definition and no use within the used closure. The
code tests the raw use list, and a scalar's use list keeps its dead readers.
`MCFusionTerminating.cfg` shows it: register `eWelfordN` and a dead
`eScalar` reading its count `s1`, declare `t1`, and
`TerminatingMathValsAsSpecified` fails because `s1` is left out. A
TensorView sibling in the same position is reported, because its list is
rebuilt from live Exprs. This is listed as a hazard (container.h 733)
rather than a finding, because the contract is a single sentence of the
spec.

Each property of a passing run has a mutant in `PROJECT.json`. A mutant is a
plausible slip in the modelled code, and its run finds the property
violated.

## Findings

Details and line numbers are in `PROJECT.json`:

1. **Dangling output.** The `isFusionOutput` flag and `outputs_` can
   disagree, and `removeVal` only checks the flag.
2. **Stale alias.** `io_alias_` is never cleaned, and `copy` clones the
   dangling entries.
3. **Stale TV use cache.** A scalar-only `registerExpr` does not invalidate
   the TV use lists, so `replaceValInAllExprInputsAndFusionOutputs` can
   miss a live reader of the Val it replaces.
4. **Kernel `removeVal`.** In non-SSA mode, `removeVal` leaves a dangling
   second definer (not re-checked, see below).
5. **Key collisions.** `normalizeOld2New` drops colliding keys before its
   checks.
6. **`swap` keeps the cache flag.** `swap` does not exchange
   `all_tv_uses_valid_`, so a Fusion can report stale TV use lists as
   valid. The assignment operators are safe only because they `clear()`
   the target first.
7. **Dangling host program.** `pushBackTopLevelExprs` checks membership only
   when the Expr is pushed. HostIrContainer is not a Kernel, so a later SSA
   redefinition frees a pushed Expr.

Finding 4 (Kernel `removeVal`) was shown by an earlier run in Kernel mode
(`IsKernel = TRUE`). That run is no longer kept: kir::Kernel is defined
outside src/, and the other runs check the SSA container that Fusion and
HostIrContainer are.

## Not modelled yet (plan)

1. **The other mutators.** These are `transferDefinitionToNewOutputs` and
   `replaceValRecursively`. Their work is done by OptOutMutator, which is
   defined outside src/. `replaceValRecursively` builds Vals and Exprs of
   any kind.
2. **`isNoOp` and `validateInputs`.** `isNoOp` needs the extents of
   IterDomains. `validateInputs` is weakened to `inContainer` (its TODO), and
   every Val reached from a registered output passes that check.
3. **`registerExpr` throwing part-way.** `IrContainer::registerExpr` runs
   before the operand asserts (container.h 634). A fault action would show
   the corrupted container that a caller catching the error keeps.
4. **HostIr under FusionGuard.** `GuardedReplace` already composes the
   guard with a Fusion. The same composition with `HostIr` would let
   top-level pushes and builders target different containers.

These are left out for good:

- the benchmarks and CI files (I/O and configuration);
- the per-IR-node type predicates, which are stateless dispatch;
- memory types, data types beyond the cast test, and the
  `permuted_*_map_`, `managed_data_` and `is_during_update_uses_`
  bookkeeping, which no property distinguishes;
- the kernel executors and default stream of HostIrContainer: opaque owned
  objects, and `getDefaultStream` is defined outside src/;
- object lifetime. The models never destroy a Fusion, so `~Fusion` leaving
  `active_fusion_` dangling is listed as a hazard without a property.
