CONSTANTS
    Unit = 10
    CounterMod = 2
    MaxPending = 1
    MaxStarts = 1
    MaxGetConfig = 0
    Threads = {t1}
    NoThread = NoThread
    Elapsed = {1}
    DefaultConfig <- MC_Default
    Configs <- MC_ConfigsMalformed

SPECIFICATION Spec

INVARIANT ConfigWellFormed
