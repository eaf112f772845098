CONSTANTS
    Unit = 10
    CounterMod = 2
    MaxPending = 1
    MaxStarts = 2
    MaxGetConfig = 1
    Threads = {t1}
    NoThread = NoThread
    Elapsed = {1}
    DefaultConfig <- MC_Default
    Configs <- MC_ConfigsOn

SPECIFICATION Spec

PROPERTY UpdateConfigReturns

CHECK_DEADLOCK FALSE
