# TLA+ models of Adaptive Smart Replay (ASR)

This directory holds the formal models of the ASR controller of the storage
server. The controller lives in `src/src/openaurora/backend/storage/adaptive_sr.c`,
with its interface in `src/src/openaurora/include/storage/adaptive_sr.h`. The models are
checked with TLC, and the main invariants are proved with TLAPS.

## 1. The system

ASR sets the number of WAL records the redo worker may replay in one batch
(the *replay budget*). It derives the budget from three load signals. The parts
of the code, and how they interact:

| Part | Code | State | Operations |
|---|---|---|---|
| Ingest counters | `ASR_RecordReplayTask`, `ASR_RecordHotMiss`, `ASR_RecordWalIngest` (c:132-169) | three `atomic_uint_fast64_t` counters | an unlocked read of `enable_adaptive_sr`, then a relaxed fetch-add |
| Smoother / tick | `asr_update_smoothed_metrics` (c:241-363) and helpers `ewma_update`, `compute_pressure`, `budget_from_aggressiveness` | `last_*` snapshots, three EWMAs, aggressiveness, `current_budget`, `last_measurement` (under `metrics_lock`) | one tick computes dt, the counter deltas, EWMAs, pressures, weighted aggressiveness, step limit, budget mapping and hysteresis |
| Controller thread | `asr_controller_main` (c:370-386) | `asr_shutdown_requested`, the thread | `while (!flag) { tick; usleep(200ms); }` |
| Lifecycle | `ASR_Init`, `ASR_StartController`, `ASR_Shutdown` (c:392-465) | `asr_controller_tid` | install the default config and reset the budget; clear the flag and `pthread_create`; set the flag and `pthread_join` |
| Configuration | `ASR_UpdateConfig`, `ASR_GetConfig` (c:470-495) | `asr_config` under `asr_config_lock` (an rwlock) | unvalidated whole-struct copy; a read-locked pointer whose lock is never released |
| Budget readers | `ASR_GetCurrentBudget`, `ASR_ReadMetrics`, `ASR_SetBudget` (c:174-235) | read `current_budget` under the mutex | `ASR_SetBudget` has no caller |
| Redo worker | the `ApplyXlogUntil` loop in the integration guide (`src/unnamed/part_002`:153-181) | `replay_budget`, `records_replayed`, `EndRecPtr` | reads the budget once, applies records in LSN order, calls `ASR_RecordReplayTask(1)` for each, breaks at the budget or at a NULL read |

The actors that run concurrently are:
- the hot-path threads that call the ingest functions;
- the controller thread or threads;
- the server's main thread, which calls Init, Start, UpdateConfig and Shutdown;
- the WAL receiver, the GetPage@LSN handler and the redo worker (`part_000`,
  `part_002`), which call the ingest functions and read the budget.

A tick holds both the config read lock and `metrics_lock` for its whole
length. Its only concurrent partners are the ingest adds, which take no lock,
and the shutdown flag.

## 2. Module `ASR` (the core)

`ASR.tla` models everything in the table above except the redo worker and the
budget readers, which change no state.

**State.** The variables, each with its C counterpart:

| Variable | C |
|---|---|
| `config` | `asr_config` |
| `count[k]` | the atomic counters |
| `last[k]` | `last_total_tasks`, `last_total_misses`, `last_wal_bytes` |
| `queueEwma`, `missRateEwma`, `walBpsEwma` | the EWMAs |
| `aggressiveness`, `budget` | `current_aggressiveness`, `current_budget` |
| `measured` | `last_measurement != 0` |
| `shutdownRequested` | `asr_shutdown_requested` |
| `tid` | `asr_controller_tid` |
| `ctl[t]` | where controller thread `t` is: idle, at the loop test, about to tick, returned |
| `main` | the main thread: before `ASR_Init`, ready, or blocked in `pthread_join` |
| `starts` | a bounded count of `ASR_StartController` calls |
| `pending` | a ghost: the increments since the last tick's loads (a natural number; `MaxPending` bounds ASR's own callers) |
| `rdHeld` | the read holds of `asr_config_lock` left by `ASR_GetConfig` |
| `writer`, `updArg` | an `ASR_UpdateConfig` waiting in `pthread_rwlock_wrlock`, and its argument |

**Data abstraction.** Each double of the code is an integer counting `1/Unit`,
and division rounds down. The uint64 counters are taken modulo `CounterMod`,
so wrap-around happens inside the model. `time(NULL)` becomes the whole seconds
`Elapsed` between ticks, together with whether `last_measurement` was ever set.
A zero there is the code's `dt = 0.1` clamp. Logging is omitted.

**Actions.** There is one action per function:
- `ASR_RecordReplayTask(n)`, `ASR_RecordHotMiss` and `ASR_RecordWalIngest(n)`: each is
  the enable test followed by a wrapping add.
- `CtlCheck(t)`: the loop test.
- `CtlTick(t)`: the whole of `asr_update_smoothed_metrics`, then the sleep.
- `ASR_Init`.
- `ASR_StartController`: either the spawn succeeds, or `pthread_create` fails.
  On failure POSIX leaves the handle undefined and the code never resets it,
  so `tid` keeps its value or becomes the id of a thread that never runs
  (glibc stores the new descriptor before `clone` fails).
- `ASR_Shutdown`, then `JoinController`, which is the return from `pthread_join`:
  once the thread has left its loop or, for the dead handle of a failed spawn,
  at once. Joining that handle is undefined; glibc reads the descriptor's
  thread id as already 0. Either way the code then clears the handle.
- `ASR_UpdateConfig(c)`, with `c` drawn from `Configs`: the call enters and
  waits for the write lock; `ConfigWriteLocked` is the `wrlock` returning once
  no read lock is held, followed by the copy.
- `ASR_GetConfig`: a read lock that is never released (at most `MaxGetConfig`).
  glibc's default rwlock prefers readers, so it does not wait for a waiting writer.
  `ASR_Init` also takes the write lock, so it waits for `rdHeld = 0`.

A tick holds the read lock only inside its own atomic step, so it never
blocks the writer across steps; that is why only `ASR_GetConfig` leaves a hold.

The miss-rate sample is translated as written. The test at c:286 compares
`total_tasks` with `last_total_tasks` after line 278 has already overwritten it.

**Fairness.** The model assumes weak fairness of each controller thread's two
steps, of the joiner's wake-up and of `ConfigWriteLocked`. The OS scheduler
runs a runnable thread, `usleep` returns, and `pthread_rwlock_wrlock` returns
when the lock is free. Nothing is assumed of the ingest callers or of the main
thread.

## 2b. Modules `ReplayWorker` and `ReplayAbstract` (composition and refinement)

`ReplayWorker.tla` EXTENDS `ASR` and adds the collaborators of the integration
guide. Records are numbered by LSN:
- `received` is the number of records the WAL receiver has flushed.
- `applied` is `EndRecPtr`.
- `target`, `B`, `replayed` and `wpc` are the `lsn` argument, `replay_budget`,
  `records_replayed` and where the worker is.

The actions:
- `WalReceive` flushes a record and calls `ASR_RecordWalIngest`.
- `ReadHotMiss` is a page read that waits on replay and calls `ASR_RecordHotMiss`.
- `WorkerEnter` reads the budget once, for a target LSN not yet replayed.
- `WorkerReached` is the loop test failing.
- `WorkerReadNull` is `XLogReadRecord` returning NULL at the end of the flushed WAL.
- `WorkerApply` does the redo, `records_replayed++` and `ASR_RecordReplayTask(1)`,
  then breaks when `records_replayed >= replay_budget`.
- Every non-ingest action of `ASR` runs alongside (`AsrStep`).

In this module the ingest counters take their increments from these callers.

`ReplayAbstract.tla` is what replay promises (spec 1 and 4.4): records are
flushed one at a time, and the next unreplayed flushed record is replayed,
and no record is skipped or replayed before it is flushed. `ReplayWorker`
instantiates it as `Abs`, `WITH flushed <- received, replayedUpTo <- applied`.
The composition `RSpec` assumes no fairness: nothing in the repository calls
`ApplyXlogUntil`, so no progress of replay is claimed. The promise that every
flushed record is eventually replayed rests on such a caller, and is left out.


## 3. Runs (`MC_ASR.tla`, `MC_ReplayWorker.tla` and the `.cfg` files)

`MC_ASR` defines the configurations. Their reference rates are `QSTAR = WSTAR = 0.2`
and `RSTAR = 0.1`, low enough that one increment per second saturates a
pressure. The default has `BMIN = 1`, `BMAX = 11`, `HYST = 2` and
`MAX_STEP = 0.2`, and is disabled, as `asr_default_config` is. The other
configurations are:
- an enabled copy of the default;
- a narrow one with `BMIN = 4`, `BMAX = 8` and `HYST = 5`;
- the same narrow range with `HYST = 3` (in `swap_near_range`).

Every run uses `Unit = 10`, `CounterMod = 2` (so the counters wrap after two
adds) and at most one increment per counter between ticks.

| Run | Expect | What it shows |
|---|---|---|
| `smoother` (`MC_ASR_smoother.cfg`) | pass | `TypeOK`, `BudgetInRange` and `SmootherDeltasExact` hold with one thread, swaps between the enabled and the disabled default, one leaked `ASR_GetConfig`, and 1 or 2 s between ticks. |
| `lifecycle` (`MC_ASR_lifecycle.cfg`) | pass | `ShutdownCompletes`: every join returns, across two starts, including a failed `pthread_create` whose dead handle `ASR_Shutdown` then joins (390 200 states). |
| `replay_batch` (`MC_ReplayWorker_batch.cfg`) | pass | `ReplayTypeOK` and `BatchWithinBudget`: with a budget range of 1..11, no call replays more than the budget it read, while ticks move the budget during the call (763 156 states). |
| `config_swap` (`MC_ASR_swap.cfg`) | violation | `TickKeepsBudgetInRange`: after a swap to the narrow configuration, hysteresis (c:340) keeps a budget of 1 below `BMIN = 4`. |
| `swap_near_range` (`MC_ASR_near.cfg`) | pass | `TickBudgetNearRange`: with swaps to the narrow range, the hold does keep a budget below `BMIN`, but never `HYST` or more away from the range the tick read (1 982 792 states). |
| `disabled_tick` (`MC_ASR_disabled.cfg`) | violation | `DisabledBudgetFrozen`: a running controller keeps ticking after a disable and raises the budget (c:379 never reads `enable_adaptive_sr`). |
| `miss_rate` (`MC_ASR_miss.cfg`) | violation | `MissRateFollowsSpec`: the miss sample is always 0 (c:278 before c:286). |
| `double_start` (`MC_ASR_orphan.cfg`) | violation | `ControllerStoppedAfterShutdown`: a second start overwrites the handle (c:424), so `ASR_Shutdown` returns with the first thread still looping. |
| `getconfig_deadlock` (`MC_ASR_getconfig.cfg`) | violation | `UpdateConfigReturns`: one `ASR_GetConfig` (c:473) keeps its read lock, so a later `ASR_UpdateConfig` waits forever. The spec (section 8) says `UpdateConfig(GetConfig())` round-trips. |
| `malformed_config` (`MC_ASR_malformed.cfg`) | violation | `ConfigWellFormed`: `ASR_UpdateConfig` (c:489) installs `BMAX < BMIN`, which spec section 7 says it must reject. |

`smoother` and `getconfig_deadlock` skip the deadlock check: there an
`ASR_GetConfig` before `ASR_Init` really does leave the bootstrap blocked in
`ASR_Init` for good. Every other run checks it.

**Bounds.** Why these bounds are enough:
- Wrap-around needs only `CounterMod = 2`.
- The pressures saturate at one increment.
- A budget range of 1..11, with a step limit of 0.2, takes several ticks to cross, so hysteresis both holds and releases.
- Two starts are the least that expose a restart and a double start.
- A `dt` of 0 s is left out of the passing runs because it multiplies the EWMA range; see the hazards.
- `MaxGetConfig = 1` is enough to leak a lock.
- The replay run uses `MaxRecords = 3`, so a batch of budget 3 can fill.
  One thread and 1 s ticks keep the budget moving during a call.
- `swap_near_range` needs two narrow configurations: with `HYST = 5` the hold
  keeps a budget of 1 below `BMIN = 4`; with `HYST = 3` a budget exactly
  `HYST` below `BMIN` must move, which is where an off-by-one hold shows.

Each property of a passing run has a mutant in `ASR.tla` that a plausible bug
would produce, and TLC finds the property broken under it:
- `DeltaSigned`, the delta in signed arithmetic, breaks `TypeOK`: after a
  wrap the rate, and with it an EWMA, goes negative.
- `HysteresisAtMost` (`<=` for `<` in the hold) breaks `TickBudgetNearRange`.
- `ASR_InitKeepsBudget` breaks `BudgetInRange`.
- `DeltaSigned` breaks `SmootherDeltasExact`.
- `CtlCheckIgnoresFlag` breaks `ShutdownCompletes`.
- In `ReplayWorker.tla`, `WorkerApplyPastBudget` (`>` for `>=`) breaks
  `BatchWithinBudget`.
- `WorkerApplyNoNullCheck`, which drops the NULL test, breaks `ReplayTypeOK`.

## 4. Proofs (`ASR_proofs.tla`, `ReplayWorker_proofs.tla`)

`ASR_proofs.tla` proves the following with TLAPS:
- `TypeCorrect`: `Spec => []TypeOK` for every value of the constants that
  satisfies `ConstantsAssumption`. The invariant is strengthened to
  `IInv == TypeOK /\ ConfigInstalled /\ NoThreadBeforeInit`:
  - `ConfigInstalled` says that after `ASR_Init` the configuration is the
    default or one of `Configs`, never the zeroed static struct;
  - `NoThreadBeforeInit` says that no controller thread exists before
    `ASR_Init`.

  The proof has one step per action. The tick's step rests on arithmetic
  lemmas about the helpers:
  - `EwmaUpdateNat`, `RateNat` and `MissSampleNat`: the EWMAs stay natural numbers;
  - `DtPositive`: dt is positive;
  - `DeltaRange`: the wrap delta lies in the counter range;
  - `ComputePressureRange`: a pressure is clamped to [0, 1];
  - `BudgetFromAggressivenessInRange`.
- `BudgetAlwaysInRange`: `Spec => []BudgetInRange` under the assumption
  `ConfigBoundsFixed`, which says that every configuration has the default's
  `BMIN <= BMAX`. The proof uses `IInv`:
  - `ASR_Init` resets the budget to `BMIN`;
  - a tick's budget is `Hysteresis(BudgetFromAggressiveness(..))`, and the
    mapped value is clamped into range, while the held value was in range by
    induction;
  - a configuration swap keeps the same bounds.

  Without the assumption the theorem is false, and the `config_swap` run is
  the counterexample.

- `SmootherDeltasAlwaysExact`: `Spec => []SmootherDeltasExact` for every counter
  width. The inductive invariant is `IInv /\ PendingWithinBound /\ CountsAhead`:
  - `CountsAhead` says each counter equals `(last + pending) % CounterMod`.
    It is needed because `SmootherDeltasExact` alone says nothing of what the
    next add does to the wrap.
  - `PendingWithinBound` bounds the ghost by `MaxPending`.
  - `NextCounterCases` groups the steps of `Next` into ingest calls, ticks and
    steps that leave the counters alone; both step lemmas cite it.

  `TypeOK` itself only says that `pending` is a natural number, because the
  composition's collaborators are not bound by `MaxPending`. The step rests on
  the lemmas `ModAdd` and `ModSub`, which cover modular addition and the
  unsigned subtraction of a small increment, using `MaxPending < CounterMod`.
- `TickBudgetAlwaysNearRange`: `Spec => TickBudgetNearRange`, an action
  property, under `OrderedBounds` (every installable configuration has
  `BMIN <= BMAX`; the code does not check it, c:489). Configurations may be
  swapped freely. The argument (`TickBudgetNear`): a tick publishes either the
  freshly mapped budget, which `BudgetFromAggressivenessInRange` puts in range,
  or the budget it found, and the hold keeps that only while it is less than
  `HYST` from the mapped one. So the out-of-range budget `config_swap` shows is
  bounded by `HYST`. Only `IInv` is needed.
- `BudgetAlwaysPositive`: `Spec => [](budget >= 1)` under `PositiveBounds`,
  which says that every installable configuration has `1 <= BMIN <= BMAX`, as
  the default (10, 2000) has. The code does not check this (c:489), so it is a
  hypothesis on the callers. Before `ASR_Init` the budget is the static 100.
  After it, a tick publishes either the held budget or a mapped one, which
  `BudgetFromAggressivenessInRange` puts at or above `BMIN`.
- `ShutdownStopsController`:
  `Spec /\ [][StartWhenStopped]_vars => []ControllerStoppedAfterShutdown`.
  `StartWhenStopped` is the caller discipline that `ASR_StartController` is
  only called with no handle set; `double_start` breaks it. The inductive
  invariant is `IInv /\ OneController /\ JoiningHasThread`:
  - `OneController`: only the thread that `asr_controller_tid` names is out of
    the idle state;
  - `JoiningHasThread`: a joiner has a real handle. It is needed because
    `ctl[tid]` is meaningless for `tid = 0`.

  The failed-spawn path is included: a dead handle names an idle thread, so
  `OneController` still holds. TLC checked the theorem's statement on an
  instance with two thread ids and three starts, under the start discipline as
  a conjunct of the next-state relation. `double_start` shows the property
  fails without it.
- `MissRateAlwaysZero`: `Spec => [](missRateEwma = 0)` for every instance.
  This is the `miss_rate` finding in general: the sample is always 0
  (`MissSampleZero`), and `EwmaUpdate(0, 0) = 0`.

`ReplayWorker_proofs.tla` (which EXTENDS `ReplayWorker` and `ASR_proofs`)
proves the following:
- `ReplaySafetyRefinement`: `RSpec => Abs!Init /\ [][Abs!Next]_absVars` for
  every `MaxRecords` and every configuration.
  - The initial state maps to the abstract one.
  - A flush maps to `Receive`, and an applied record maps to `Apply`.
  - Every other step leaves `received` and `applied` unchanged.

  No invariant is needed, because the guards of `WalReceive` and `WorkerApply`
  are exactly those of the abstract actions.
- `ReplayTypeCorrect`: `RSpec => []ReplayTypeOK`. The inductive invariant is
  `TIInv == IInv /\ ReplayTypeOK`. The ASR steps are steps of ASR's `Next`
  (`AsrStepIsNext`), so `NextIInv` carries over. The collaborators' ingest
  calls keep `IInv` by `RecordIngestIInv`.
- `BatchAlwaysWithinBudget`: `RSpec => []BatchWithinBudget` under
  `PositiveBounds`. The inductive invariant adds `BudgetPositive` and
  `BatchInv`, which says that inside a call `replayed < B`. The entry reads
  `B = budget >= 1` with `replayed = 0`. Each apply keeps `replayed <= B` and
  leaves the loop once `replayed >= B`. The hypothesis is spec 3's
  `b_min >= 1`. With a budget of 0, the apply-then-test loop would still
  replay one record.

Some things stay with TLC only:
- The liveness property `ShutdownCompletes`, and `UpdateConfigReturns`, which
  `getconfig_deadlock` breaks. They need ENABLED and fairness, which are out
  of the prover's reach here.
- The violation runs. For three of them a theorem states the hypothesis
  under which the property holds, or what holds instead:
  `TickBudgetAlwaysNearRange` (for `config_swap`), `ShutdownStopsController`
  (for `double_start`) and `MissRateAlwaysZero` (for `miss_rate`).

## 5. Not modelled

- **The unlocked enable read in ingest** (c:139): the read and the add are one
  step, so a disable between them is not explored.
- **Whole-second `time(NULL)`** (c:263): the model has no real time, so
  mis-scaled rates cannot be stated. The clamp itself is covered by `TypeCorrect`
  for every `Elapsed`.
- **`ASR_SetBudget`**: it has no caller, so it is not modelled.
  `ASR_GetCurrentBudget` and `ASR_ReadMetrics` only read state.
- **Scripts and prose** (`part_001`, `part_003`, `asr_quickstart.sh`): shell
  scripts and prose, outside any model.

`PROJECT.json` lists the components, runs, mutants, the source lines each
definition models, the findings and the hazards.
