-------------------------------- MODULE ASR --------------------------------
(***************************************************************************)
(* Adaptive Smart Replay core: src/.../backend/storage/adaptive_sr.c.      *)
(*                                                                         *)
(* The process-wide state of adaptive_sr.c: the configuration cell         *)
(* (asr_config under asr_config_lock), the three atomic ingest counters,   *)
(* the smoother and controller state kept under metrics_lock, the          *)
(* shutdown flag and the controller thread handle.  The actors are the     *)
(* hot-path ingest callers, the storage server's main thread (ASR_Init,    *)
(* ASR_StartController, ASR_UpdateConfig, ASR_Shutdown) and the controller *)
(* threads running asr_controller_main.                                    *)
(*                                                                         *)
(* Data abstraction.  Every double of the code (rates, EWMAs, pressures,   *)
(* weights, MAX_STEP, aggressiveness) is an integer counting 1/Unit, and a *)
(* division rounds down.  The 64-bit counters are kept modulo CounterMod.  *)
(* time(NULL) is abstracted to the whole seconds that elapse between two   *)
(* ticks, drawn from Elapsed; only last_measurement = 0 versus non-zero is *)
(* kept (variable measured).  Logging is left out.                         *)
(***************************************************************************)
EXTENDS Integers

CONSTANTS
    Unit,           \* fixed-point denominator of the code's doubles
    CounterMod,     \* modulus standing for 2^64 of the uint64_t counters
    MaxPending,     \* bound on increments of one counter between two ticks
    MaxStarts,      \* bound on the number of ASR_StartController calls
    MaxGetConfig,   \* bound on the number of ASR_GetConfig calls
    Threads,        \* thread ids pthread_create may hand out
    NoThread,       \* asr_controller_tid = 0
    Elapsed,        \* whole seconds time(NULL) may advance between ticks
    DefaultConfig,  \* asr_default_config
    Configs         \* configurations ASR_UpdateConfig may be passed

\* The three raw counters of ASRMetricsInternal.
Counters == {"tasks", "misses", "wal"}

\* The fields of ASRConfig that the model keeps (verbose_metrics only logs).
ConfigType ==
    [QSTAR : Nat \ {0}, RSTAR : Nat \ {0}, WSTAR : Nat \ {0},
     BMIN : Int, BMAX : Int, WQ : Nat, WM : Nat, WW : Nat,
     HYST : Int, MAX_STEP : Nat, enable : BOOLEAN]

ASSUME ConstantsAssumption ==
    /\ Unit \in Nat \ {0}
    /\ Unit % 10 = 0
    /\ CounterMod \in Nat \ {0}
    /\ MaxPending \in 1 .. (CounterMod - 1)
    /\ MaxStarts \in Nat
    /\ MaxGetConfig \in Nat
    /\ NoThread \notin Threads
    /\ Elapsed \subseteq Nat /\ Elapsed # {}
    /\ DefaultConfig \in ConfigType
    /\ Configs \subseteq ConfigType

VARIABLES
    config,             \* asr_config
    count,              \* count[k]: the atomic counter k
    last,               \* last[k]: last_total_tasks / _misses / last_wal_bytes
    queueEwma,          \* queue_ewma
    missRateEwma,       \* miss_rate_ewma
    walBpsEwma,         \* wal_bps_ewma
    aggressiveness,     \* current_aggressiveness
    budget,             \* current_budget
    measured,           \* last_measurement # 0
    shutdownRequested,  \* asr_shutdown_requested
    tid,                \* asr_controller_tid
    ctl,                \* ctl[t]: where controller thread t is
    main,               \* the storage server main thread
    starts,             \* ASR_StartController calls so far (bounded)
    pending,            \* ghost: increments of count[k] not yet seen by a tick
    rdHeld,             \* read locks on asr_config_lock taken by ASR_GetConfig
    writer,             \* an ASR_UpdateConfig call waits in pthread_rwlock_wrlock
    updArg              \* the *new_config of that call

vars == <<config, count, last, queueEwma, missRateEwma, walBpsEwma,
          aggressiveness, budget, measured, shutdownRequested, tid, ctl,
          main, starts, pending, rdHeld, writer, updArg>>

\* The state of asr_config_lock and of the configuration path's call.
lockVars == <<rdHeld, writer, updArg>>

\* The zero-initialised static asr_config before ASR_Init copies defaults.
ZeroConfig ==
    [QSTAR |-> 0, RSTAR |-> 0, WSTAR |-> 0, BMIN |-> 0, BMAX |-> 0,
     WQ |-> 0, WM |-> 0, WW |-> 0, HYST |-> 0, MAX_STEP |-> 0,
     enable |-> FALSE]

-----------------------------------------------------------------------------
(* Pure helpers of adaptive_sr.c.                                          *)

AbsVal(x) == IF x < 0 THEN -x ELSE x

\* #define EWMA_ALPHA 0.3, in units of 1/Unit.
EwmaAlpha == (3 * Unit) \div 10

\* ewma_update(old_val, new_val)
EwmaUpdate(old, new) == (EwmaAlpha * new + (Unit - EwmaAlpha) * old) \div Unit

\* compute_pressure(raw, expected): 0 at or below expected, 1 at 2x.
ComputePressure(raw, expected) ==
    IF raw <= expected THEN 0
    ELSE LET e == (raw * Unit) \div expected - Unit
         IN  IF e > Unit THEN Unit ELSE e

\* budget_from_aggressiveness(A, cfg): clamp A to [0,1], then floor.
BudgetFromAggressiveness(A, cfg) ==
    LET a == IF A < 0 THEN 0 ELSE IF A > Unit THEN Unit ELSE A
    IN  cfg.BMIN + (a * (cfg.BMAX - cfg.BMIN)) \div Unit

\* Mutant: the delta taken in signed arithmetic, so a wrap goes negative.
DeltaSigned(k) == count[k] - last[k]

\* Unsigned wrap subtraction: total_x - asr_metrics.last_x.
Delta(k) == (count[k] - last[k]) % CounterMod

-----------------------------------------------------------------------------
(* Initial state: the static initialisers of adaptive_sr.c.                *)

Init ==
    /\ config = ZeroConfig
    /\ count = [k \in Counters |-> 0]
    /\ last = [k \in Counters |-> 0]
    /\ queueEwma = 0 /\ missRateEwma = 0 /\ walBpsEwma = 0
    /\ aggressiveness = 0
    /\ budget = 100
    /\ measured = FALSE
    /\ shutdownRequested = FALSE
    /\ tid = NoThread
    /\ ctl = [t \in Threads |-> "idle"]
    /\ main = "boot"
    /\ starts = 0
    /\ pending = [k \in Counters |-> 0]
    /\ rdHeld = 0
    /\ writer = FALSE
    /\ updArg = DefaultConfig   \* no call in progress; the value is unused

-----------------------------------------------------------------------------
(* Ingest: lock-free fetch-add after an unlocked read of the enable flag.  *)

\* atomic_fetch_add(&counter_k, n): wraps at the counter's width.
FetchAdd(k, n) ==
    /\ count' = [count EXCEPT ![k] = (@ + n) % CounterMod]
    /\ pending' = [pending EXCEPT ![k] = @ + n]

\* An ingest call from an unconstrained caller: the enable test, then the
\* add; MaxPending bounds the callers' increments between two ticks.
Ingest(k, n) ==
    /\ config.enable
    /\ pending[k] + n <= MaxPending
    /\ FetchAdd(k, n)
    /\ UNCHANGED <<config, last, queueEwma, missRateEwma, walBpsEwma,
                   aggressiveness, budget, measured, shutdownRequested, tid,
                   ctl, main, starts>>
    /\ UNCHANGED lockVars

\* ASR_RecordReplayTask(count); count <= 0 returns early.
ASR_RecordReplayTask(n) == n > 0 /\ Ingest("tasks", n)

\* ASR_RecordHotMiss()
ASR_RecordHotMiss == Ingest("misses", 1)

\* ASR_RecordWalIngest(bytes); bytes == 0 returns early.
ASR_RecordWalIngest(n) == n > 0 /\ Ingest("wal", n)

-----------------------------------------------------------------------------
(* The controller tick, asr_update_smoothed_metrics, run atomically: it    *)
(* holds the config read lock and metrics_lock throughout.  e is the       *)
(* number of seconds time(NULL) advanced since the previous tick.          *)

\* dt in units of 1/Unit seconds, floored at 0.1 s.
Dt(e) ==
    LET dt == IF ~measured THEN Unit ELSE e * Unit
    IN  IF dt < Unit \div 10 THEN Unit \div 10 ELSE dt

\* (double)delta / dt, in units of 1/Unit per second.
Rate(d, e) == (d * Unit * Unit) \div Dt(e)

\* new_miss_rate: the branch tests total_tasks against last_total_tasks
\* after line 278 has already stored total_tasks there.
MissSample(lastTasksNow) ==
    IF count["tasks"] > lastTasksNow
    THEN (Delta("misses") * Unit) \div (Delta("tasks") + 1)
    ELSE 0

\* Step-limit: move at most MAX_STEP away from current_aggressiveness.
StepLimit(target, cfg) ==
    LET d == target - aggressiveness
    IN  IF AbsVal(d) > cfg.MAX_STEP
        THEN IF d > 0 THEN aggressiveness + cfg.MAX_STEP
                      ELSE aggressiveness - cfg.MAX_STEP
        ELSE target

\* Mutant: the hold taken when the change is at most HYST.
HysteresisAtMost(new, cfg) ==
    IF AbsVal(new - budget) <= cfg.HYST THEN budget ELSE new

\* Hysteresis: keep last_budget when the change is below HYST.
Hysteresis(new, cfg) ==
    IF AbsVal(new - budget) < cfg.HYST THEN budget ELSE new

UpdateSmoothedMetrics(e) ==
    LET cfg  == config
        q    == EwmaUpdate(queueEwma, Rate(Delta("tasks"), e))
        m    == EwmaUpdate(missRateEwma, MissSample(count["tasks"]))
        w    == EwmaUpdate(walBpsEwma, Rate(Delta("wal"), e))
        raw  == (cfg.WQ * ComputePressure(q, cfg.QSTAR)
                 + cfg.WM * ComputePressure(m, cfg.RSTAR)
                 + cfg.WW * ComputePressure(w, cfg.WSTAR)) \div Unit
        aggC == IF raw > Unit THEN Unit ELSE IF raw < 0 THEN 0 ELSE raw
        agg  == StepLimit(aggC, cfg)
    IN  /\ queueEwma' = q
        /\ missRateEwma' = m
        /\ walBpsEwma' = w
        /\ last' = count
        /\ aggressiveness' = agg
        /\ budget' = Hysteresis(BudgetFromAggressiveness(agg, cfg), cfg)
        /\ measured' = TRUE
        /\ pending' = [k \in Counters |-> 0]

-----------------------------------------------------------------------------
(* The controller thread, asr_controller_main: test the flag, tick, sleep. *)

\* Mutant: a loop that never tests the shutdown flag.
CtlCheckIgnoresFlag(t) ==
    /\ ctl[t] = "top"
    /\ ctl' = [ctl EXCEPT ![t] = "tick"]
    /\ UNCHANGED <<config, count, last, queueEwma, missRateEwma, walBpsEwma,
                   aggressiveness, budget, measured, shutdownRequested, tid,
                   main, starts, pending>>
    /\ UNCHANGED lockVars

\* while (!asr_shutdown_requested)
CtlCheck(t) ==
    /\ ctl[t] = "top"
    /\ ctl' = [ctl EXCEPT ![t] = IF shutdownRequested THEN "done" ELSE "tick"]
    /\ UNCHANGED <<config, count, last, queueEwma, missRateEwma, walBpsEwma,
                   aggressiveness, budget, measured, shutdownRequested, tid,
                   main, starts, pending>>
    /\ UNCHANGED lockVars

\* asr_update_smoothed_metrics(); usleep(200ms)
CtlTick(t) ==
    /\ ctl[t] = "tick"
    /\ \E e \in Elapsed : UpdateSmoothedMetrics(e)
    /\ ctl' = [ctl EXCEPT ![t] = "top"]
    /\ UNCHANGED <<config, count, shutdownRequested, tid, main, starts>>
    /\ UNCHANGED lockVars

-----------------------------------------------------------------------------
(* The main thread's API calls.                                            *)

\* Mutant: ASR_Init that leaves the static current_budget = 100 in place.
ASR_InitKeepsBudget ==
    /\ main = "boot"
    /\ rdHeld = 0
    /\ config' = DefaultConfig
    /\ main' = "ready"
    /\ UNCHANGED <<count, last, queueEwma, missRateEwma, walBpsEwma,
                   aggressiveness, budget, measured, shutdownRequested, tid,
                   ctl, starts, pending>>
    /\ UNCHANGED lockVars

\* ASR_Init: copy the defaults under the write lock (which waits out the
\* read locks ASR_GetConfig left held), then current_budget = BMIN.
ASR_Init ==
    /\ main = "boot"
    /\ rdHeld = 0
    /\ config' = DefaultConfig
    /\ budget' = DefaultConfig.BMIN
    /\ main' = "ready"
    /\ UNCHANGED <<count, last, queueEwma, missRateEwma, walBpsEwma,
                   aggressiveness, measured, shutdownRequested, tid, ctl,
                   starts, pending>>
    /\ UNCHANGED lockVars

\* ASR_StartController: no-op when disabled; else clear the flag and call
\* pthread_create(&asr_controller_tid, ...).  On failure the code logs and
\* returns, and POSIX leaves the handle undefined: glibc stores the
\* descriptor of a thread that never runs before clone fails, or fails
\* before it stores anything.  Either value stays in asr_controller_tid.
ASR_StartController ==
    /\ main = "ready"
    /\ starts < MaxStarts
    /\ starts' = starts + 1
    /\ IF ~config.enable
       THEN UNCHANGED <<shutdownRequested, tid, ctl>>
       ELSE /\ shutdownRequested' = FALSE
            /\ \/ \E t \in Threads :
                    /\ ctl[t] = "idle"
                    /\ ctl' = [ctl EXCEPT ![t] = "top"]
                    /\ tid' = t
               \/ /\ tid' \in {tid} \cup {t \in Threads : ctl[t] = "idle"}
                  /\ UNCHANGED ctl
    /\ UNCHANGED <<config, count, last, queueEwma, missRateEwma, walBpsEwma,
                   aggressiveness, budget, measured, main, pending>>
    /\ UNCHANGED lockVars

\* ASR_Shutdown: raise the flag; join asr_controller_tid when set.
ASR_Shutdown ==
    /\ main = "ready"
    /\ shutdownRequested' = TRUE
    /\ main' = IF tid # NoThread THEN "joining" ELSE "ready"
    /\ UNCHANGED <<config, count, last, queueEwma, missRateEwma, walBpsEwma,
                   aggressiveness, budget, measured, tid, ctl, starts,
                   pending>>
    /\ UNCHANGED lockVars

\* pthread_join returns once the thread has left its loop.  On the handle
\* of a thread that never ran (a failed pthread_create) the join is
\* undefined; glibc finds the descriptor's tid already 0 and returns at
\* once.  Either way, with or without an error, the code then sets tid = 0.
JoinController ==
    /\ main = "joining"
    /\ ctl[tid] \in {"done", "idle"}
    /\ ctl' = [ctl EXCEPT ![tid] = "idle"]
    /\ tid' = NoThread
    /\ main' = "ready"
    /\ UNCHANGED <<config, count, last, queueEwma, missRateEwma, walBpsEwma,
                   aggressiveness, budget, measured, shutdownRequested,
                   starts, pending>>
    /\ UNCHANGED lockVars

\* ASR_GetConfig: pthread_rwlock_rdlock and return &asr_config.  The
\* release function its comment names does not exist: the lock stays held.
\* glibc's default rwlock prefers readers, so a waiting writer does not
\* hold the call back.
ASR_GetConfig ==
    /\ rdHeld < MaxGetConfig
    /\ rdHeld' = rdHeld + 1
    /\ UNCHANGED <<config, count, last, queueEwma, missRateEwma, walBpsEwma,
                   aggressiveness, budget, measured, shutdownRequested, tid,
                   ctl, main, starts, pending, writer, updArg>>

\* ASR_UpdateConfig(new_config), called from the configuration path at any
\* time: a NULL argument returns at once (not modelled: it changes nothing);
\* otherwise the call blocks in pthread_rwlock_wrlock.
ASR_UpdateConfig(c) ==
    /\ ~writer
    /\ writer' = TRUE
    /\ updArg' = c
    /\ UNCHANGED <<config, count, last, queueEwma, missRateEwma, walBpsEwma,
                   aggressiveness, budget, measured, shutdownRequested, tid,
                   ctl, main, starts, pending, rdHeld>>

\* The write lock is granted once no read lock is held (a tick holds its
\* read lock only inside one step): memcpy with no validation, unlock.
ConfigWriteLocked ==
    /\ writer
    /\ rdHeld = 0
    /\ config' = updArg
    /\ writer' = FALSE
    /\ UNCHANGED <<count, last, queueEwma, missRateEwma, walBpsEwma,
                   aggressiveness, budget, measured, shutdownRequested, tid,
                   ctl, main, starts, pending, rdHeld, updArg>>

-----------------------------------------------------------------------------

Next ==
    \/ \E n \in 1 .. MaxPending : ASR_RecordReplayTask(n)
    \/ ASR_RecordHotMiss
    \/ \E n \in 1 .. MaxPending : ASR_RecordWalIngest(n)
    \/ \E t \in Threads : CtlCheck(t) \/ CtlTick(t)
    \/ ASR_Init
    \/ ASR_StartController
    \/ ASR_Shutdown
    \/ JoinController
    \/ ASR_GetConfig
    \/ \E c \in Configs : ASR_UpdateConfig(c)
    \/ ConfigWriteLocked

\* The OS schedules every runnable controller thread and wakes a joiner
\* and a writer whose lock has become free.
Fairness ==
    /\ \A t \in Threads : WF_vars(CtlCheck(t)) /\ WF_vars(CtlTick(t))
    /\ WF_vars(JoinController)
    /\ WF_vars(ConfigWriteLocked)

Spec == Init /\ [][Next]_vars /\ Fairness

-----------------------------------------------------------------------------
(* Properties.                                                             *)

\* Every variable holds a value of its C type's abstraction.
TypeOK ==
    /\ config \in Configs \cup {DefaultConfig, ZeroConfig}
    /\ count \in [Counters -> 0 .. (CounterMod - 1)]
    /\ last \in [Counters -> 0 .. (CounterMod - 1)]
    /\ queueEwma \in Nat /\ missRateEwma \in Nat /\ walBpsEwma \in Nat
    /\ aggressiveness \in Int
    /\ budget \in Int
    /\ measured \in BOOLEAN
    /\ shutdownRequested \in BOOLEAN
    /\ tid \in Threads \cup {NoThread}
    /\ ctl \in [Threads -> {"idle", "top", "tick", "done"}]
    /\ main \in {"boot", "ready", "joining"}
    /\ starts \in 0 .. MaxStarts
    /\ pending \in [Counters -> Nat]
    /\ rdHeld \in 0 .. MaxGetConfig
    /\ writer \in BOOLEAN
    /\ updArg \in Configs \cup {DefaultConfig}

\* Spec 3 and 8: after ASR_Init the published current_budget lies in
\* [BMIN, BMAX] of the configuration in force, whatever ticks, hysteresis
\* holds and configuration swaps have happened.
BudgetInRange ==
    main # "boot" => config.BMIN <= budget /\ budget <= config.BMAX

\* Spec 4.2 and 8: the delta a tick computes by unsigned wrap subtraction
\* equals the increments ingest made since the previous tick's loads, for
\* each counter, across wraps of the counters.
SmootherDeltasExact == \A k \in Counters : Delta(k) = pending[k]

\* Spec 7: ASR_UpdateConfig rejects a malformed configuration (b_max <=
\* b_min among them) and keeps the prior one, so the configuration in
\* force after ASR_Init always has BMIN < BMAX.
ConfigWellFormed == main # "boot" => config.BMIN < config.BMAX

\* Spec 4.3: once ASR_Shutdown has returned (flag set, handle cleared) no
\* controller thread is still inside asr_controller_main's loop.
ControllerStoppedAfterShutdown ==
    (main = "ready" /\ shutdownRequested /\ tid = NoThread)
        => \A t \in Threads : ctl[t] \in {"idle", "done"}

\* Spec 8: while ASR is disabled the published budget does not change
\* (a configuration swap or ASR_Init aside); the code's tick never tests
\* enable_adaptive_sr.
DisabledBudgetFrozen ==
    [][(main # "boot" /\ ~config.enable /\ config' = config)
          => budget' = budget]_vars

\* Spec 4.2: every tick folds m_raw = misses_delta / (tasks_delta + 1) into
\* miss_rate_ewma.
MissRateFollowsSpec ==
    [][\A t \in Threads :
          CtlTick(t) =>
            missRateEwma' =
              EwmaUpdate(missRateEwma,
                         (Delta("misses") * Unit) \div (Delta("tasks") + 1))]_vars

\* Spec 3 and 8: the budget a tick leaves published lies in [BMIN, BMAX] of
\* the configuration the tick read, even when hysteresis keeps the old one.
TickKeepsBudgetInRange ==
    [][\A t \in Threads :
          CtlTick(t) => config.BMIN <= budget' /\ budget' <= config.BMAX]_vars

\* What the code does keep of spec 3 when a swap narrows the range: the
\* budget a tick publishes lies in [BMIN, BMAX] of the configuration it read
\* or, when the hysteresis hold (c:337-340) keeps a stale budget, less than
\* HYST away from a budget in that range.
TickBudgetNearRange ==
    [][\A t \in Threads :
          CtlTick(t) =>
            \E b \in config.BMIN .. config.BMAX :
               budget' = b \/ AbsVal(budget' - b) < config.HYST]_vars

\* Spec 5: a thread blocked in ASR_Shutdown's pthread_join eventually
\* returns, because the controller sees the flag within one cycle.
ShutdownCompletes == main = "joining" ~> main = "ready"

\* Spec 6 and 8 (update_config(get_config()) leaves behaviour unchanged):
\* an ASR_UpdateConfig call eventually installs its configuration and
\* returns, whatever ASR_GetConfig calls came before it.
UpdateConfigReturns == writer ~> ~writer

=============================================================================
