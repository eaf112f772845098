CONSTANTS
    Unit = 10
    CounterMod = 2
    MaxPending = 1
    MaxStarts = 1
    MaxGetConfig = 1
    Threads = {t1}
    NoThread = NoThread
    Elapsed = {1, 2}
    DefaultConfig <- MC_Default
    Configs <- MC_Configs

SPECIFICATION Spec

INVARIANT TypeOK
INVARIANT BudgetInRange
INVARIANT SmootherDeltasExact

\* ASR_GetConfig before ASR_Init leaves the bootstrap blocked in ASR_Init
\* for good (the getconfig run shows it): the system really stops there.
CHECK_DEADLOCK FALSE
