\* Two slices, two restarts each, a failing runner and two signals of any kind at
\* any point, or one of these beside a killed master and the start of a second.
SPECIFICATION FairSpec
CONSTANTS
    a = a
    b = b
    Specs = {a, b}
    Restartable = TRUE
    MaxRestarts = 2
    Signals = {"term", "usr1", "hup"}
    MaxSignals = 2
    MaxFails = 1
    MaxStarts = 2
    MaxKills = 1
    MaxEvents = 3
INVARIANTS OneProcessPerSlice
PROPERTIES StopCompletes RestartCompletes
CHECK_DEADLOCK FALSE
