CONSTANTS
    Unit = 10
    CounterMod = 2
    MaxPending = 1
    MaxStarts = 1
    MaxGetConfig = 0
    Threads = {t1}
    NoThread = NoThread
    Elapsed = {1}
    MaxRecords = 3
    DefaultConfig <- MC_RDefault
    Configs <- MC_RConfigs

SPECIFICATION RSpec

INVARIANT ReplayTypeOK
INVARIANT BatchWithinBudget
