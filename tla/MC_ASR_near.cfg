\* Swaps that narrow the budget range: the hysteresis hold may keep a
\* stale budget below BMIN, never HYST or more away from the range.
CONSTANTS
    Unit = 10
    CounterMod = 2
    MaxPending = 1
    MaxStarts = 1
    MaxGetConfig = 0
    Threads = {t1}
    NoThread = NoThread
    Elapsed = {1}
    DefaultConfig <- MC_Default
    Configs <- MC_ConfigsNear

SPECIFICATION Spec

PROPERTY TickBudgetNearRange
