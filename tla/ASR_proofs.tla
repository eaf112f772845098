----------------------------- MODULE ASR_proofs -----------------------------
(***************************************************************************)
(* Proofs about the ASR core for every value of the constants.             *)
(*                                                                         *)
(* TypeOK is inductive as it stands.  BudgetInRange is not: a step of      *)
(* ASR_UpdateConfig must not install ZeroConfig or a configuration with    *)
(* other budget bounds, and a tick must start from a budget already in     *)
(* range.  The inductive invariant IInv adds that after ASR_Init the       *)
(* configuration is the default or one of Configs, and the theorem assumes *)
(* that these all share the default's BMIN <= BMAX (the passing runs'      *)
(* instance; the swap run shows what happens otherwise).                   *)
(***************************************************************************)
EXTENDS ASR, TLAPS

USE ConstantsAssumption

-----------------------------------------------------------------------------
(* Arithmetic facts about the helpers of adaptive_sr.c.                    *)

\* ewma_update of two non-negative values is non-negative.
LEMMA EwmaUpdateNat ==
    ASSUME NEW old \in Nat, NEW new \in Nat
    PROVE  EwmaUpdate(old, new) \in Nat
<1>1. EwmaAlpha \in 0 .. Unit
    BY DEF EwmaAlpha
<1>2. EwmaAlpha * new + (Unit - EwmaAlpha) * old \in Nat
    BY <1>1
<1>. QED
    BY <1>2 DEF EwmaUpdate

\* dt is at least 0.1 s, a positive number of 1/Unit seconds.
LEMMA DtPositive ==
    ASSUME NEW e \in Nat, measured \in BOOLEAN
    PROVE  Dt(e) \in Nat \ {0}
BY DEF Dt

\* A rate of a non-negative delta is non-negative.
LEMMA RateNat ==
    ASSUME NEW d \in Nat, NEW e \in Nat, measured \in BOOLEAN
    PROVE  Rate(d, e) \in Nat
<1>1. Dt(e) \in Nat \ {0}
    BY DtPositive
<1>2. d * Unit * Unit \in Nat
    OBVIOUS
<1>. QED
    BY <1>1, <1>2 DEF Rate

\* The unsigned wrap subtraction stays within the counter's width.
LEMMA DeltaRange ==
    ASSUME count \in [Counters -> 0 .. (CounterMod - 1)],
           last \in [Counters -> 0 .. (CounterMod - 1)],
           NEW k \in Counters
    PROVE  Delta(k) \in 0 .. (CounterMod - 1)
BY DEF Delta

\* new_miss_rate is non-negative.
LEMMA MissSampleNat ==
    ASSUME count \in [Counters -> 0 .. (CounterMod - 1)],
           last \in [Counters -> 0 .. (CounterMod - 1)],
           NEW l \in Int
    PROVE  MissSample(l) \in Nat
<1>1. Delta("misses") \in Nat /\ Delta("tasks") \in Nat
    BY DeltaRange DEF Counters
<1>. QED
    BY <1>1 DEF MissSample

\* budget_from_aggressiveness lands in [BMIN, BMAX] whatever A is.
LEMMA BudgetFromAggressivenessInRange ==
    ASSUME NEW A \in Int, NEW cfg,
           cfg.BMIN \in Int, cfg.BMAX \in Int, cfg.BMIN <= cfg.BMAX
    PROVE  BudgetFromAggressiveness(A, cfg) \in cfg.BMIN .. cfg.BMAX
<1> DEFINE a == IF A < 0 THEN 0 ELSE IF A > Unit THEN Unit ELSE A
           d == cfg.BMAX - cfg.BMIN
<1>1. a \in 0 .. Unit /\ d \in Nat
    OBVIOUS
<1>2. a * d \in 0 .. Unit * d
    BY <1>1
<1>3. (a * d) \div Unit \in 0 .. d
    BY <1>2
<1>. QED
    BY <1>3 DEF BudgetFromAggressiveness

\* compute_pressure of a non-negative value against a positive reference.
LEMMA ComputePressureRange ==
    ASSUME NEW raw \in Nat, NEW expected \in Nat \ {0}
    PROVE  ComputePressure(raw, expected) \in 0 .. Unit
<1>1. CASE raw <= expected
    BY <1>1 DEF ComputePressure
<1>2. CASE raw > expected
    <2>1. raw * Unit >= expected * Unit
        BY <1>2
    <2>2. (raw * Unit) \div expected >= Unit
        BY <2>1
    <2>. QED
        BY <1>2, <2>2 DEF ComputePressure
<1>. QED
    BY <1>1, <1>2

-----------------------------------------------------------------------------
(* The inductive invariant.                                                *)

\* After ASR_Init the configuration is the default or one passed to
\* ASR_UpdateConfig, never the zeroed static struct.
ConfigInstalled == main # "boot" => config \in Configs \cup {DefaultConfig}

\* No controller thread exists before ASR_Init.
NoThreadBeforeInit == main = "boot" => \A t \in Threads : ctl[t] = "idle"

IInv == TypeOK /\ ConfigInstalled /\ NoThreadBeforeInit

LEMMA InitIInv == Init => IInv
<1> SUFFICES ASSUME Init PROVE IInv
    OBVIOUS
<1>1. /\ count \in [Counters -> 0 .. (CounterMod - 1)]
      /\ last \in [Counters -> 0 .. (CounterMod - 1)]
      /\ pending \in [Counters -> Nat]
    BY DEF Init
<1>2. /\ ctl \in [Threads -> {"idle", "top", "tick", "done"}]
      /\ starts \in 0 .. MaxStarts
    BY DEF Init
<1>3. config \in Configs \cup {DefaultConfig, ZeroConfig}
    BY DEF Init
<1>5. /\ queueEwma \in Nat /\ missRateEwma \in Nat /\ walBpsEwma \in Nat
      /\ aggressiveness \in Int /\ budget \in Int
    BY DEF Init
<1>6. /\ measured \in BOOLEAN /\ shutdownRequested \in BOOLEAN
      /\ tid \in Threads \cup {NoThread}
      /\ main \in {"boot", "ready", "joining"}
    BY DEF Init
<1>8. /\ rdHeld \in 0 .. MaxGetConfig /\ updArg \in Configs \cup {DefaultConfig}
    BY DEF Init
<1>9. writer \in BOOLEAN
    BY Zenon DEF Init
<1>7. TypeOK
    BY <1>1, <1>2, <1>3, <1>5, <1>6, <1>8, <1>9 DEF TypeOK
<1>4. NoThreadBeforeInit
    BY DEF Init, NoThreadBeforeInit
<1>. QED
    BY <1>7, <1>4 DEF Init, IInv, ConfigInstalled

\* One ingest call keeps IInv.
LEMMA IngestIInv ==
    ASSUME IInv, NEW k \in Counters, NEW n \in 1 .. MaxPending, Ingest(k, n)
    PROVE  IInv'
<1>1. count' \in [Counters -> 0 .. (CounterMod - 1)]
    BY DEF IInv, TypeOK, Ingest, FetchAdd
<1>2. pending' \in [Counters -> Nat]
    BY DEF IInv, TypeOK, Ingest, FetchAdd
<1>. QED
    BY <1>1, <1>2 DEF IInv, TypeOK, ConfigInstalled, NoThreadBeforeInit,
                     Ingest, lockVars

\* One tick of a controller thread keeps IInv.
LEMMA TickIInv ==
    ASSUME IInv, NEW t \in Threads, CtlTick(t)
    PROVE  /\ IInv'
           /\ \E A \in Int :
                budget' = Hysteresis(BudgetFromAggressiveness(A, config), config)
<1>1. main # "boot"
    BY DEF IInv, NoThreadBeforeInit, CtlTick
<1>2. config \in ConfigType
    BY <1>1 DEF IInv, ConfigInstalled
<1>3. PICK e \in Elapsed : UpdateSmoothedMetrics(e)
    BY DEF CtlTick
<1>4. /\ count \in [Counters -> 0 .. (CounterMod - 1)]
      /\ last \in [Counters -> 0 .. (CounterMod - 1)]
      /\ measured \in BOOLEAN
      /\ queueEwma \in Nat /\ missRateEwma \in Nat /\ walBpsEwma \in Nat
      /\ aggressiveness \in Int /\ budget \in Int
    BY DEF IInv, TypeOK
<1> DEFINE cfg  == config
           q    == EwmaUpdate(queueEwma, Rate(Delta("tasks"), e))
           m    == EwmaUpdate(missRateEwma, MissSample(count["tasks"]))
           w    == EwmaUpdate(walBpsEwma, Rate(Delta("wal"), e))
           raw  == (cfg.WQ * ComputePressure(q, cfg.QSTAR)
                    + cfg.WM * ComputePressure(m, cfg.RSTAR)
                    + cfg.WW * ComputePressure(w, cfg.WSTAR)) \div Unit
           aggC == IF raw > Unit THEN Unit ELSE IF raw < 0 THEN 0 ELSE raw
           agg  == StepLimit(aggC, cfg)
<1>5. q \in Nat /\ m \in Nat /\ w \in Nat
    <2>1. e \in Nat
        OBVIOUS
    <2>2. Delta("tasks") \in Nat /\ Delta("wal") \in Nat
        BY <1>4, DeltaRange DEF Counters
    <2>3. Rate(Delta("tasks"), e) \in Nat /\ Rate(Delta("wal"), e) \in Nat
        BY <1>4, <2>1, <2>2, RateNat
    <2>4. MissSample(count["tasks"]) \in Nat
        BY <1>4, MissSampleNat DEF Counters
    <2>. QED
        BY <1>4, <2>3, <2>4, EwmaUpdateNat
<1>6. raw \in Int
    <2>1. /\ ComputePressure(q, cfg.QSTAR) \in 0 .. Unit
          /\ ComputePressure(m, cfg.RSTAR) \in 0 .. Unit
          /\ ComputePressure(w, cfg.WSTAR) \in 0 .. Unit
        BY <1>2, <1>5, ComputePressureRange DEF ConfigType
    <2>. QED
        BY <1>2, <2>1 DEF ConfigType
<1>7. agg \in Int
    BY <1>2, <1>4, <1>6 DEF StepLimit, AbsVal, ConfigType
<1>8. BudgetFromAggressiveness(agg, cfg) \in Int
    BY <1>2, <1>7 DEF BudgetFromAggressiveness, ConfigType
<1>9. Hysteresis(BudgetFromAggressiveness(agg, cfg), cfg) \in Int
    BY <1>2, <1>4, <1>8 DEF Hysteresis, AbsVal, ConfigType
<1>10. /\ queueEwma' = q /\ missRateEwma' = m /\ walBpsEwma' = w
       /\ last' = count /\ aggressiveness' = agg
       /\ budget' = Hysteresis(BudgetFromAggressiveness(agg, cfg), cfg)
       /\ measured' = TRUE /\ pending' = [k \in Counters |-> 0]
    BY <1>3 DEF UpdateSmoothedMetrics
<1>11. TypeOK'
    BY <1>4, <1>5, <1>7, <1>9, <1>10 DEF IInv, TypeOK, CtlTick, lockVars
<1>12. IInv'
    BY <1>11 DEF IInv, ConfigInstalled, NoThreadBeforeInit, CtlTick
<1>. QED
    BY <1>7, <1>10, <1>12


\* Every step of Next, or a stutter, keeps IInv.
LEMMA NextIInv == IInv /\ [Next]_vars => IInv'
<1> SUFFICES ASSUME IInv, [Next]_vars PROVE IInv'
    OBVIOUS
<1>1. ASSUME NEW n \in 1 .. MaxPending, ASR_RecordReplayTask(n) PROVE IInv'
    BY <1>1, IngestIInv DEF ASR_RecordReplayTask, Counters
<1>2. CASE ASR_RecordHotMiss
    BY <1>2, IngestIInv DEF ASR_RecordHotMiss, Counters
<1>3. ASSUME NEW n \in 1 .. MaxPending, ASR_RecordWalIngest(n) PROVE IInv'
    BY <1>3, IngestIInv DEF ASR_RecordWalIngest, Counters
<1>4. ASSUME NEW t \in Threads, CtlCheck(t) PROVE IInv'
    BY <1>4 DEF CtlCheck, IInv, TypeOK, ConfigInstalled, NoThreadBeforeInit,
                lockVars
<1>5. ASSUME NEW t \in Threads, CtlTick(t) PROVE IInv'
    BY <1>5, TickIInv
<1>6. CASE ASR_Init
    <2>1. budget' \in Int
        BY <1>6 DEF ASR_Init, ConfigType
    <2>2. config' \in Configs \cup {DefaultConfig} /\ main' = "ready"
        BY <1>6 DEF ASR_Init
    <2>. QED
        BY <1>6, <2>1, <2>2
        DEF ASR_Init, IInv, TypeOK, ConfigInstalled, NoThreadBeforeInit,
            lockVars
<1>7. CASE ASR_StartController
    <2>1. main' = "ready" /\ config' = config
        BY <1>7 DEF ASR_StartController
    <2>2. starts' \in 0 .. MaxStarts
        BY <1>7 DEF ASR_StartController, IInv, TypeOK
    <2>3. tid' \in Threads \cup {NoThread} /\ shutdownRequested' \in BOOLEAN
        BY <1>7 DEF ASR_StartController, IInv, TypeOK
    <2>4. ctl' \in [Threads -> {"idle", "top", "tick", "done"}]
        BY <1>7 DEF ASR_StartController, IInv, TypeOK
    <2>6. UNCHANGED lockVars
        BY <1>7 DEF ASR_StartController
    <2>5. main = "ready"
        BY <1>7 DEF ASR_StartController
    <2>. QED
        BY <1>7, <2>1, <2>2, <2>3, <2>4, <2>5, <2>6
        DEF ASR_StartController, IInv, TypeOK, ConfigInstalled,
            NoThreadBeforeInit, lockVars
<1>8. CASE ASR_Shutdown
    BY <1>8 DEF ASR_Shutdown, IInv, TypeOK, ConfigInstalled, NoThreadBeforeInit,
                lockVars
<1>9. CASE JoinController
    BY <1>9 DEF JoinController, IInv, TypeOK, ConfigInstalled,
                NoThreadBeforeInit, lockVars
<1>10. ASSUME NEW c \in Configs, ASR_UpdateConfig(c) PROVE IInv'
    BY <1>10 DEF ASR_UpdateConfig, IInv, TypeOK, ConfigInstalled, NoThreadBeforeInit
<1>12. CASE ASR_GetConfig
    BY <1>12 DEF ASR_GetConfig, IInv, TypeOK, ConfigInstalled, NoThreadBeforeInit
<1>13. CASE ConfigWriteLocked
    BY <1>13 DEF ConfigWriteLocked, IInv, TypeOK, ConfigInstalled,
                 NoThreadBeforeInit
<1>11. CASE UNCHANGED vars
    BY <1>11 DEF vars, IInv, TypeOK, ConfigInstalled, NoThreadBeforeInit
<1>. QED
    BY <1>1, <1>2, <1>3, <1>4, <1>5, <1>6, <1>7, <1>8, <1>9, <1>10, <1>11,
       <1>12, <1>13
    DEF Next

-----------------------------------------------------------------------------
(* Type correctness.                                                       *)

\* Every reachable state gives each variable of adaptive_sr.c a value of
\* its type, for every value of the constants.
THEOREM TypeCorrect == Spec => []TypeOK
<1>1. Init => IInv
    BY InitIInv
<1>2. IInv /\ [Next]_vars => IInv'
    BY NextIInv
<1>3. IInv => TypeOK
    BY DEF IInv
<1>. QED
    BY <1>1, <1>2, <1>3, PTL DEF Spec

-----------------------------------------------------------------------------
(* The published budget stays within the configured bounds.                *)

\* Every configuration ASR_UpdateConfig may install keeps the default's
\* budget bounds, and those bounds are ordered.
ConfigBoundsFixed ==
    /\ DefaultConfig.BMIN <= DefaultConfig.BMAX
    /\ \A c \in Configs : c.BMIN = DefaultConfig.BMIN /\ c.BMAX = DefaultConfig.BMAX

\* After ASR_Init the bounds in force are the default's.
LEMMA InstalledBounds ==
    ASSUME ConfigBoundsFixed, IInv, main # "boot"
    PROVE  /\ config.BMIN = DefaultConfig.BMIN
           /\ config.BMAX = DefaultConfig.BMAX
           /\ DefaultConfig.BMIN \in Int /\ DefaultConfig.BMAX \in Int
<1>1. config \in Configs \cup {DefaultConfig}
    BY DEF IInv, ConfigInstalled
<1>2. DefaultConfig.BMIN \in Int /\ DefaultConfig.BMAX \in Int
    BY DEF ConfigType
<1>. QED
    BY <1>1, <1>2 DEF ConfigBoundsFixed

\* A tick publishes either the budget it found or a freshly mapped one.
LEMMA TickBudgetInRange ==
    ASSUME ConfigBoundsFixed, IInv, BudgetInRange, NEW t \in Threads, CtlTick(t)
    PROVE  BudgetInRange'
<1>1. main # "boot" /\ main' = main /\ config' = config
    BY DEF IInv, NoThreadBeforeInit, CtlTick
<1>2. PICK A \in Int :
        budget' = Hysteresis(BudgetFromAggressiveness(A, config), config)
    BY TickIInv
<1>3. /\ config.BMIN = DefaultConfig.BMIN /\ config.BMAX = DefaultConfig.BMAX
      /\ config.BMIN \in Int /\ config.BMAX \in Int
      /\ config.BMIN <= config.BMAX
    BY <1>1, InstalledBounds DEF ConfigBoundsFixed
<1>4. BudgetFromAggressiveness(A, config) \in config.BMIN .. config.BMAX
    BY <1>3, BudgetFromAggressivenessInRange
<1>5. budget \in config.BMIN .. config.BMAX
    BY <1>1, <1>3 DEF BudgetInRange, IInv, TypeOK
<1>6. budget' \in config.BMIN .. config.BMAX
    BY <1>2, <1>4, <1>5 DEF Hysteresis
<1>. QED
    BY <1>1, <1>6 DEF BudgetInRange

\* Every step keeps BudgetInRange, given IInv in both states.
LEMMA NextBudgetInRange ==
    ASSUME ConfigBoundsFixed, IInv, BudgetInRange, [Next]_vars
    PROVE  BudgetInRange'
<1>1. ASSUME NEW t \in Threads, CtlTick(t) PROVE BudgetInRange'
    BY <1>1, TickBudgetInRange
<1>2. CASE ASR_Init
    <2>1. DefaultConfig.BMIN \in Int /\ DefaultConfig.BMAX \in Int
        BY DEF ConfigType
    <2>. QED
        BY <1>2, <2>1 DEF ASR_Init, BudgetInRange, ConfigBoundsFixed
<1>3. CASE ConfigWriteLocked
    <2>1. CASE main = "boot"
        BY <1>3, <2>1 DEF ConfigWriteLocked, BudgetInRange
    <2>2. CASE main # "boot"
        <3>1. config.BMIN = DefaultConfig.BMIN /\ config.BMAX = DefaultConfig.BMAX
            BY <2>2, InstalledBounds
        <3>2. updArg \in Configs \cup {DefaultConfig}
            BY DEF IInv, TypeOK
        <3>3. updArg.BMIN = DefaultConfig.BMIN /\ updArg.BMAX = DefaultConfig.BMAX
            BY <3>2 DEF ConfigBoundsFixed
        <3>. QED
            BY <1>3, <2>2, <3>1, <3>3 DEF ConfigWriteLocked, BudgetInRange
    <2>. QED
        BY <2>1, <2>2
<1>9. ASSUME NEW c \in Configs, ASR_UpdateConfig(c) PROVE BudgetInRange'
    BY <1>9 DEF ASR_UpdateConfig, BudgetInRange
<1>10. CASE ASR_GetConfig
    BY <1>10 DEF ASR_GetConfig, BudgetInRange
<1>4. ASSUME NEW n \in 1 .. MaxPending, NEW k \in Counters, Ingest(k, n)
      PROVE  BudgetInRange'
    BY <1>4 DEF Ingest, BudgetInRange
<1>5. ASSUME NEW t \in Threads, CtlCheck(t) PROVE BudgetInRange'
    BY <1>5 DEF CtlCheck, BudgetInRange
<1>6. CASE ASR_StartController
    BY <1>6 DEF ASR_StartController, BudgetInRange
<1>7. CASE ASR_Shutdown \/ JoinController
    BY <1>7 DEF ASR_Shutdown, JoinController, BudgetInRange
<1>8. CASE UNCHANGED vars
    BY <1>8 DEF vars, BudgetInRange
<1>. QED
    BY <1>1, <1>2, <1>3, <1>4, <1>5, <1>6, <1>7, <1>8, <1>9, <1>10
    DEF Next, ASR_RecordReplayTask, ASR_RecordHotMiss, ASR_RecordWalIngest,
        Counters

\* With every configuration sharing the default's budget bounds, the
\* budget ASR publishes after ASR_Init always lies in [BMIN, BMAX], across
\* ticks, hysteresis holds and configuration swaps, for every instance.
THEOREM BudgetAlwaysInRange ==
    ASSUME ConfigBoundsFixed
    PROVE  Spec => []BudgetInRange
<1>1. Init => IInv /\ BudgetInRange
    BY InitIInv DEF Init, BudgetInRange
<1>2. IInv /\ BudgetInRange /\ [Next]_vars => (IInv /\ BudgetInRange)'
    BY NextIInv, NextBudgetInRange
<1>. QED
    BY <1>1, <1>2, PTL DEF Spec

\* Every configuration that can be installed has ordered budget bounds, as
\* asr_default_config has.  ASR_UpdateConfig does not check it (c:489):
\* this is a hypothesis on its callers.
OrderedBounds == \A c \in Configs \cup {DefaultConfig} : c.BMIN <= c.BMAX

\* A tick publishes the freshly mapped budget, which is in range, or keeps
\* the budget it found, which is then less than HYST from the mapped one.
LEMMA TickBudgetNear ==
    ASSUME OrderedBounds, IInv, NEW t \in Threads, CtlTick(t)
    PROVE  \E b \in config.BMIN .. config.BMAX :
              budget' = b \/ AbsVal(budget' - b) < config.HYST
<1>1. config \in Configs \cup {DefaultConfig}
    BY DEF IInv, NoThreadBeforeInit, ConfigInstalled, CtlTick
<1>2. /\ config.BMIN \in Int /\ config.BMAX \in Int /\ config.HYST \in Int
      /\ config.BMIN <= config.BMAX
    BY <1>1, ConstantsAssumption DEF OrderedBounds, ConfigType
<1>3. PICK A \in Int :
        budget' = Hysteresis(BudgetFromAggressiveness(A, config), config)
    BY TickIInv
<1> DEFINE new == BudgetFromAggressiveness(A, config)
<1>4. new \in config.BMIN .. config.BMAX
    BY <1>2, BudgetFromAggressivenessInRange
<1>5. budget \in Int
    BY DEF IInv, TypeOK
<1>6. budget' = new \/ AbsVal(budget' - new) < config.HYST
    BY <1>2, <1>3, <1>4, <1>5 DEF Hysteresis, AbsVal
<1>. QED
    BY <1>4, <1>6

\* For every instance whose configurations have ordered bounds, however
\* the configuration path swaps them under a running controller, no tick
\* publishes a budget HYST or more away from the range of the configuration
\* it read: the stale budget the config_swap run exhibits is the most the
\* hysteresis hold can leave out of range.
THEOREM TickBudgetAlwaysNearRange ==
    ASSUME OrderedBounds
    PROVE  Spec => TickBudgetNearRange
<1>1. Init => IInv
    BY InitIInv
<1>2. IInv /\ [Next]_vars => IInv'
    BY NextIInv
<1>3. IInv /\ [Next]_vars
        => [\A t \in Threads :
               CtlTick(t) =>
                 \E b \in config.BMIN .. config.BMAX :
                    budget' = b \/ AbsVal(budget' - b) < config.HYST]_vars
    BY TickBudgetNear
<1>. QED
    BY <1>1, <1>2, <1>3, PTL DEF Spec, TickBudgetNearRange

-----------------------------------------------------------------------------
(* The published budget stays positive.                                    *)

\* Every configuration that can be installed has a positive, ordered budget
\* range, as asr_default_config (BMIN 10, BMAX 2000) has.  ASR_UpdateConfig
\* does not check it (c:489): this is a hypothesis on its callers.
PositiveBounds ==
    \A c \in Configs \cup {DefaultConfig} : 1 <= c.BMIN /\ c.BMIN <= c.BMAX

\* current_budget, which the redo worker reads as its replay_budget.
BudgetPositive == budget >= 1

LEMMA TickBudgetPositive ==
    ASSUME PositiveBounds, IInv, BudgetPositive, NEW t \in Threads, CtlTick(t)
    PROVE  BudgetPositive'
<1>1. config \in Configs \cup {DefaultConfig}
    BY DEF IInv, NoThreadBeforeInit, ConfigInstalled, CtlTick
<1>2. /\ config.BMIN \in Int /\ config.BMAX \in Int
      /\ 1 <= config.BMIN /\ config.BMIN <= config.BMAX
    BY <1>1 DEF PositiveBounds, ConfigType
<1>3. PICK A \in Int :
        budget' = Hysteresis(BudgetFromAggressiveness(A, config), config)
    BY TickIInv
<1>4. BudgetFromAggressiveness(A, config) \in config.BMIN .. config.BMAX
    BY <1>2, BudgetFromAggressivenessInRange
<1>. QED
    BY <1>2, <1>3, <1>4 DEF Hysteresis, BudgetPositive

LEMMA NextBudgetPositive ==
    ASSUME PositiveBounds, IInv, BudgetPositive, [Next]_vars
    PROVE  BudgetPositive'
<1>1. ASSUME NEW t \in Threads, CtlTick(t) PROVE BudgetPositive'
    BY <1>1, TickBudgetPositive
<1>2. CASE ASR_Init
    BY <1>2 DEF ASR_Init, PositiveBounds, BudgetPositive
<1>3. CASE UNCHANGED budget
    BY <1>3 DEF BudgetPositive
<1>. QED
    <2>1. ASSUME NEW t \in Threads, CtlCheck(t) PROVE UNCHANGED budget
        BY <2>1 DEF CtlCheck
    <2>2. ASSUME NEW k \in Counters, NEW n \in 1 .. MaxPending, Ingest(k, n)
          PROVE  UNCHANGED budget
        BY <2>2 DEF Ingest
    <2>3. ASR_StartController \/ ASR_Shutdown \/ JoinController \/ ASR_GetConfig
          \/ ConfigWriteLocked \/ (\E c \in Configs : ASR_UpdateConfig(c))
          \/ UNCHANGED vars
          => UNCHANGED budget
        BY DEF ASR_StartController, ASR_Shutdown, JoinController,
               ASR_GetConfig, ConfigWriteLocked, ASR_UpdateConfig, vars
    <2>. QED
        BY <1>1, <1>2, <1>3, <2>1, <2>2, <2>3
        DEF Next, ASR_RecordReplayTask, ASR_RecordHotMiss, ASR_RecordWalIngest,
            Counters

\* When every installable configuration has 1 <= BMIN <= BMAX, the budget
\* the controller publishes is positive at all times: before ASR_Init (the
\* static 100), after it (BMIN), and after every tick, even one whose
\* hysteresis keeps a budget mapped under an earlier configuration.
THEOREM BudgetAlwaysPositive ==
    ASSUME PositiveBounds
    PROVE  Spec => []BudgetPositive
<1>1. Init => IInv /\ BudgetPositive
    BY InitIInv DEF Init, BudgetPositive
<1>2. IInv /\ BudgetPositive /\ [Next]_vars => (IInv /\ BudgetPositive)'
    BY NextIInv, NextBudgetPositive
<1>. QED
    BY <1>1, <1>2, PTL DEF Spec

-----------------------------------------------------------------------------
(* A single controller is stopped by ASR_Shutdown.                         *)

\* Only the thread asr_controller_tid names is ever out of the idle state.
OneController == \A t \in Threads : ctl[t] # "idle" => t = tid

\* A main thread blocked in pthread_join joins a real thread.
JoiningHasThread == main = "joining" => tid # NoThread

\* The caller discipline the double_start run breaks: the server calls
\* ASR_StartController only when no controller handle is set (at startup,
\* or after an ASR_Shutdown has joined the previous thread).
StartWhenStopped == ASR_StartController => tid = NoThread

LEMMA NextOneController ==
    ASSUME IInv, OneController, JoiningHasThread, [Next]_vars, StartWhenStopped
    PROVE  OneController' /\ JoiningHasThread'
<1>0. /\ ctl \in [Threads -> {"idle", "top", "tick", "done"}]
      /\ tid \in Threads \cup {NoThread}
      /\ NoThread \notin Threads
    BY ConstantsAssumption DEF IInv, TypeOK
<1>1. ASSUME NEW t \in Threads, CtlCheck(t) \/ CtlTick(t)
      PROVE  OneController' /\ JoiningHasThread'
    <2>1. /\ ctl[t] # "idle" /\ ctl'[t] # "idle"
          /\ \A s \in Threads \ {t} : ctl'[s] = ctl[s]
          /\ UNCHANGED <<tid, main>>
        BY <1>0, <1>1 DEF CtlCheck, CtlTick
    <2>. QED
        BY <2>1 DEF OneController, JoiningHasThread
<1>2. CASE ASR_StartController
    <2>1. tid = NoThread /\ main = "ready" /\ main' = "ready"
        BY <1>2 DEF StartWhenStopped, ASR_StartController
    <2>2. \A s \in Threads : ctl[s] = "idle"
        BY <1>0, <2>1 DEF OneController
    <2>3. CASE UNCHANGED ctl
        BY <2>1, <2>2, <2>3 DEF OneController, JoiningHasThread
    <2>4. ASSUME NEW t \in Threads, ctl' = [ctl EXCEPT ![t] = "top"], tid' = t
          PROVE  OneController' /\ JoiningHasThread'
        BY <1>0, <2>1, <2>2, <2>4 DEF OneController, JoiningHasThread
    <2>. QED
        BY <1>2, <2>3, <2>4 DEF ASR_StartController
<1>3. CASE JoinController
    <2>1. tid \in Threads
        BY <1>0, <1>3 DEF JoinController, JoiningHasThread
    <2>2. /\ ctl' = [ctl EXCEPT ![tid] = "idle"] /\ tid' = NoThread
          /\ main' = "ready"
        BY <1>3 DEF JoinController
    <2>. QED
        BY <1>0, <2>1, <2>2 DEF OneController, JoiningHasThread
<1>4. CASE ASR_Shutdown
    BY <1>4 DEF ASR_Shutdown, OneController, JoiningHasThread
<1>5. CASE UNCHANGED <<ctl, tid, main>>
    BY <1>5 DEF OneController, JoiningHasThread
<1>. QED
    <2>1. ASSUME NEW k \in Counters, NEW n \in 1 .. MaxPending, Ingest(k, n)
          PROVE  UNCHANGED <<ctl, tid, main>>
        BY <2>1 DEF Ingest
    <2>2. ASR_Init \/ ASR_GetConfig \/ ConfigWriteLocked
          \/ (\E c \in Configs : ASR_UpdateConfig(c)) \/ UNCHANGED vars
          => UNCHANGED <<ctl, tid>>
        BY DEF ASR_Init, ASR_GetConfig, ConfigWriteLocked, ASR_UpdateConfig, vars
    <2>3. ASR_Init => main' = "ready"
        BY DEF ASR_Init
    <2>4. ASR_GetConfig \/ ConfigWriteLocked
          \/ (\E c \in Configs : ASR_UpdateConfig(c)) \/ UNCHANGED vars
          => UNCHANGED main
        BY DEF ASR_GetConfig, ConfigWriteLocked, ASR_UpdateConfig, vars
    <2>5. CASE ASR_Init
        BY <2>2, <2>3, <2>5 DEF OneController, JoiningHasThread
    <2>. QED
        BY <1>1, <1>2, <1>3, <1>4, <1>5, <2>1, <2>2, <2>4, <2>5
        DEF Next, ASR_RecordReplayTask, ASR_RecordHotMiss, ASR_RecordWalIngest,
            Counters

\* When ASR_StartController is only called with no controller handle set,
\* every ASR_Shutdown that returns with the handle cleared leaves no
\* controller thread inside asr_controller_main's loop, across any number
\* of restarts and failed pthread_create calls.  The double_start run shows
\* the property fails without the discipline.
THEOREM ShutdownStopsController ==
    Spec /\ [][StartWhenStopped]_vars => []ControllerStoppedAfterShutdown
<1>1. Init => IInv /\ OneController /\ JoiningHasThread
    BY InitIInv DEF Init, OneController, JoiningHasThread
<1>2. IInv /\ OneController /\ JoiningHasThread /\ [Next]_vars
        /\ [StartWhenStopped]_vars
        => (IInv /\ OneController /\ JoiningHasThread)'
    <2> SUFFICES ASSUME IInv, OneController, JoiningHasThread, [Next]_vars,
                        [StartWhenStopped]_vars
                 PROVE  (IInv /\ OneController /\ JoiningHasThread)'
        OBVIOUS
    <2>1. CASE UNCHANGED vars
        BY <2>1 DEF vars, IInv, TypeOK, ConfigInstalled, NoThreadBeforeInit,
                    OneController, JoiningHasThread
    <2>2. CASE StartWhenStopped
        BY <2>2, NextIInv, NextOneController
    <2>. QED
        BY <2>1, <2>2
<1>3. IInv /\ OneController => ControllerStoppedAfterShutdown
    BY ConstantsAssumption DEF IInv, TypeOK, OneController,
                               ControllerStoppedAfterShutdown
<1>. QED
    BY <1>1, <1>2, <1>3, PTL DEF Spec

-----------------------------------------------------------------------------
(* The lost hot-miss signal.                                               *)

\* The miss sample of every tick is 0: it compares total_tasks with the
\* last_total_tasks that line 278 has just set to total_tasks.
LEMMA MissSampleZero == IInv => MissSample(count["tasks"]) = 0
<1>1. IInv => count["tasks"] \in Int
    BY DEF IInv, TypeOK, Counters
<1>. QED
    BY <1>1 DEF MissSample

\* The hot-miss signal never reaches the controller (c:278 before c:286):
\* for every configuration and every load, miss_rate_ewma stays 0, so the
\* hot-miss pressure, the signal weighted 0.6 by default, never moves the
\* budget.  The miss_rate run shows the same on a small instance.
THEOREM MissRateAlwaysZero == Spec => [](missRateEwma = 0)
<1>1. Init => IInv /\ missRateEwma = 0
    BY InitIInv DEF Init
<1>2. IInv /\ missRateEwma = 0 /\ [Next]_vars => missRateEwma' = 0
    <2> SUFFICES ASSUME IInv, missRateEwma = 0, [Next]_vars
                 PROVE  missRateEwma' = 0
        OBVIOUS
    <2>1. ASSUME NEW t \in Threads, CtlTick(t) PROVE missRateEwma' = 0
        <3>1. PICK e \in Elapsed : UpdateSmoothedMetrics(e)
            BY <2>1 DEF CtlTick
        <3>2. missRateEwma' = EwmaUpdate(0, MissSample(count["tasks"]))
            BY <3>1 DEF UpdateSmoothedMetrics
        <3>3. EwmaUpdate(0, 0) = 0
            BY ConstantsAssumption DEF EwmaUpdate, EwmaAlpha
        <3>. QED
            BY <3>2, <3>3, MissSampleZero
    <2>2. CASE UNCHANGED missRateEwma
        BY <2>2
    <2>. QED
        <3>1. ASSUME NEW t \in Threads, CtlCheck(t) PROVE UNCHANGED missRateEwma
            BY <3>1 DEF CtlCheck
        <3>2. ASSUME NEW k \in Counters, NEW n \in 1 .. MaxPending, Ingest(k, n)
              PROVE  UNCHANGED missRateEwma
            BY <3>2 DEF Ingest
        <3>3. ASR_Init \/ ASR_StartController \/ ASR_Shutdown \/ JoinController
              \/ ASR_GetConfig \/ ConfigWriteLocked
              \/ (\E c \in Configs : ASR_UpdateConfig(c)) \/ UNCHANGED vars
              => UNCHANGED missRateEwma
            BY DEF ASR_Init, ASR_StartController, ASR_Shutdown, JoinController,
                   ASR_GetConfig, ConfigWriteLocked, ASR_UpdateConfig, vars
        <3>. QED
            BY <2>1, <2>2, <3>1, <3>2, <3>3
            DEF Next, ASR_RecordReplayTask, ASR_RecordHotMiss, ASR_RecordWalIngest,
                Counters
<1>3. IInv /\ missRateEwma = 0 /\ [Next]_vars => (IInv /\ missRateEwma = 0)'
    BY <1>2, NextIInv
<1>. QED
    BY <1>1, <1>3, PTL DEF Spec

-----------------------------------------------------------------------------
(* Counter deltas across wrap-around.                                      *)

\* Below the modulus, reducing changes nothing.
LEMMA ModBelow ==
    ASSUME NEW M \in Nat \ {0}, NEW y \in 0 .. (M - 1)
    PROVE  y % M = y
BY SMT

\* Between the modulus and twice it, reducing subtracts it once.
LEMMA ModAbove ==
    ASSUME NEW M \in Nat \ {0}, NEW y \in Int, y - M \in 0 .. (M - 1)
    PROVE  y % M = y - M
<1>1. y = (y - M) + 1 * M
    OBVIOUS
<1>. QED
    BY <1>1, SMT

\* A negative value above minus the modulus reduces to itself plus it.
LEMMA ModNeg ==
    ASSUME NEW M \in Nat \ {0}, NEW y \in Int, y + M \in 0 .. (M - 1)
    PROVE  y % M = y + M
<1>1. y = (y + M) + (-1) * M
    OBVIOUS
<1>. QED
    BY <1>1, SMT

\* Adding a small increment to a wrapped sum is wrapping the larger sum.
LEMMA ModAdd ==
    ASSUME NEW M \in Nat \ {0}, NEW a \in 0 .. (M - 1), NEW p \in Nat,
           NEW n \in Nat, p + n \in 0 .. (M - 1)
    PROVE  (((a + p) % M) + n) % M = (a + p + n) % M
<1>1. CASE a + p < M
    <2>1. (a + p) % M = a + p
        BY <1>1, ModBelow
    <2>. QED
        BY <2>1
<1>2. CASE a + p >= M
    <2>1. (a + p) % M = a + p - M
        BY <1>2, ModAbove
    <2>2. (a + p + n) % M = a + p + n - M
        BY <1>2, ModAbove
    <2>3. (a + p + n - M) % M = a + p + n - M
        BY <1>2, ModBelow
    <2>. QED
        BY <2>1, <2>2, <2>3
<1>. QED
    BY <1>1, <1>2

\* Unsigned wrap subtraction recovers an increment smaller than the width.
LEMMA ModSub ==
    ASSUME NEW M \in Nat \ {0}, NEW a \in 0 .. (M - 1), NEW p \in 0 .. (M - 1)
    PROVE  (((a + p) % M) - a) % M = p
<1>1. CASE a + p < M
    <2>1. (a + p) % M = a + p
        BY <1>1, ModBelow
    <2>2. p % M = p
        BY ModBelow
    <2>. QED
        BY <2>1, <2>2
<1>2. CASE a + p >= M
    <2>0. (a + p) - M \in 0 .. (M - 1) /\ (p - M) + M \in 0 .. (M - 1)
        BY <1>2, SMT
    <2>1. (a + p) % M = a + p - M
        <3>1. a + p = (a + p - M) + 1 * M
            OBVIOUS
        <3>. QED
            BY <2>0, <3>1, SMT
    <2>2. (p - M) % M = p
        BY <2>0, ModNeg
    <2>. QED
        BY <2>1, <2>2
<1>. QED
    BY <1>1, <1>2

\* Every counter is its last loaded value plus the increments since.
CountsAhead ==
    \A k \in Counters : count[k] = (last[k] + pending[k]) % CounterMod

\* Between two ticks ingest adds at most MaxPending to one counter.
PendingWithinBound == \A k \in Counters : pending[k] <= MaxPending

LEMMA InitPendingWithinBound == Init => PendingWithinBound
BY ConstantsAssumption DEF Init, PendingWithinBound

\* The steps of Next grouped by what they do to the three ingest counters:
\* an ingest call, a controller tick, or a step that leaves them alone.
LEMMA NextCounterCases ==
    ASSUME Next
    PROVE  \/ \E k \in Counters, n \in 1 .. MaxPending : Ingest(k, n)
           \/ \E t \in Threads : CtlTick(t)
           \/ UNCHANGED <<count, last, pending>>
<1>1. ASSUME NEW t \in Threads, CtlCheck(t) PROVE UNCHANGED <<count, last, pending>>
    BY <1>1 DEF CtlCheck
<1>2. ASR_Init \/ ASR_StartController \/ ASR_Shutdown \/ JoinController
      \/ ASR_GetConfig \/ ConfigWriteLocked \/ (\E c \in Configs : ASR_UpdateConfig(c))
      => UNCHANGED <<count, last, pending>>
    BY DEF ASR_Init, ASR_StartController, ASR_Shutdown, JoinController,
           ASR_GetConfig, ConfigWriteLocked, ASR_UpdateConfig
<1>3. (\E n \in 1 .. MaxPending : ASR_RecordReplayTask(n)) \/ ASR_RecordHotMiss
      \/ (\E n \in 1 .. MaxPending : ASR_RecordWalIngest(n))
      => \E k \in Counters, n \in 1 .. MaxPending : Ingest(k, n)
    BY ConstantsAssumption
    DEF ASR_RecordReplayTask, ASR_RecordHotMiss, ASR_RecordWalIngest, Counters
<1>. QED
    BY <1>1, <1>2, <1>3, Zenon DEF Next

LEMMA NextPendingWithinBound ==
    IInv /\ PendingWithinBound /\ [Next]_vars => PendingWithinBound'
<1> SUFFICES ASSUME IInv, PendingWithinBound, [Next]_vars
             PROVE  PendingWithinBound'
    OBVIOUS
<1>1. ASSUME NEW k \in Counters, NEW n \in 1 .. MaxPending, Ingest(k, n)
      PROVE  PendingWithinBound'
    BY <1>1 DEF Ingest, FetchAdd, PendingWithinBound, IInv, TypeOK
<1>2. ASSUME NEW t \in Threads, CtlTick(t) PROVE PendingWithinBound'
    <2>1. pending' = [k \in Counters |-> 0]
        BY <1>2 DEF CtlTick, UpdateSmoothedMetrics
    <2>. QED
        BY <2>1, ConstantsAssumption DEF PendingWithinBound
<1>3. CASE UNCHANGED pending
    BY <1>3 DEF PendingWithinBound
<1>4. CASE UNCHANGED vars
    BY <1>4 DEF vars, PendingWithinBound
<1>. QED
    BY <1>1, <1>2, <1>3, <1>4, NextCounterCases

LEMMA InitCountsAhead == Init => CountsAhead
BY SMT DEF Init, CountsAhead

LEMMA NextCountsAhead ==
    IInv /\ PendingWithinBound /\ CountsAhead /\ [Next]_vars => CountsAhead'
<1> SUFFICES ASSUME IInv, PendingWithinBound, CountsAhead, [Next]_vars
             PROVE  CountsAhead'
    OBVIOUS
<1>1. /\ count \in [Counters -> 0 .. (CounterMod - 1)]
      /\ last \in [Counters -> 0 .. (CounterMod - 1)]
      /\ pending \in [Counters -> 0 .. MaxPending]
    BY DEF IInv, TypeOK, PendingWithinBound
<1>2. ASSUME NEW k \in Counters, NEW n \in 1 .. MaxPending, Ingest(k, n)
      PROVE  CountsAhead'
    <2> SUFFICES ASSUME NEW j \in Counters
                 PROVE  count'[j] = (last'[j] + pending'[j]) % CounterMod
        BY DEF CountsAhead
    <2>1. last' = last
        BY <1>2 DEF Ingest
    <2>2. CASE j = k
        <3>1. count'[j] = (count[j] + n) % CounterMod
              /\ pending'[j] = pending[j] + n
            BY <1>1, <1>2, <2>2 DEF Ingest, FetchAdd
        <3>2. count[j] = (last[j] + pending[j]) % CounterMod
            BY DEF CountsAhead
        <3>3. pending[j] + n \in 0 .. (CounterMod - 1)
            BY <1>1, <1>2, <2>2, ConstantsAssumption DEF Ingest
        <3>4. (((last[j] + pending[j]) % CounterMod) + n) % CounterMod
                = (last[j] + pending[j] + n) % CounterMod
            BY <1>1, <3>3, ModAdd
        <3>. QED
            BY <1>1, <2>1, <3>1, <3>2, <3>4
    <2>3. CASE j # k
        BY <1>1, <1>2, <2>1, <2>3 DEF Ingest, FetchAdd, CountsAhead
    <2>. QED
        BY <2>2, <2>3
<1>3. ASSUME NEW t \in Threads, CtlTick(t) PROVE CountsAhead'
    <2>1. last' = count /\ pending' = [k \in Counters |-> 0] /\ count' = count
        BY <1>3 DEF CtlTick, UpdateSmoothedMetrics
    <2>. QED
        BY <1>1, <2>1, SMT DEF CountsAhead
<1>4. CASE UNCHANGED <<count, last, pending>>
    BY <1>4 DEF CountsAhead
<1>5. CASE UNCHANGED vars
    BY <1>5 DEF vars, CountsAhead
<1>. QED
    BY <1>2, <1>3, <1>4, <1>5, NextCounterCases

\* The delta each tick computes by unsigned wrap subtraction from the three
\* counters equals what the ingest calls added since the previous tick,
\* however often the counters have wrapped, for every counter width.
THEOREM SmootherDeltasAlwaysExact == Spec => []SmootherDeltasExact
<1>1. Init => IInv /\ PendingWithinBound /\ CountsAhead
    BY InitIInv, InitPendingWithinBound, InitCountsAhead
<1>2. IInv /\ PendingWithinBound /\ CountsAhead /\ [Next]_vars
        => (IInv /\ PendingWithinBound /\ CountsAhead)'
    BY NextIInv, NextPendingWithinBound, NextCountsAhead
<1>3. IInv /\ PendingWithinBound /\ CountsAhead => SmootherDeltasExact
    <2> SUFFICES ASSUME IInv, PendingWithinBound, CountsAhead, NEW k \in Counters
                 PROVE  Delta(k) = pending[k]
        BY DEF SmootherDeltasExact
    <2>1. /\ last[k] \in 0 .. (CounterMod - 1)
          /\ pending[k] \in 0 .. (CounterMod - 1)
        BY ConstantsAssumption DEF IInv, TypeOK, PendingWithinBound
    <2>2. count[k] = (last[k] + pending[k]) % CounterMod
        BY DEF CountsAhead
    <2>. QED
        BY <2>1, <2>2, ModSub DEF Delta
<1>. QED
    BY <1>1, <1>2, <1>3, PTL DEF Spec

=============================================================================
