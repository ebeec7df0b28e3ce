\* A signal, no crash, and a message that is held.
SPECIFICATION Spec
CONSTANTS
    Queues <- MCQueues
    NextQ <- MCNextQ
    Msgs = {"m1"}
    Procs = {"in0", "cli"}
    Serves <- OneRunner
    Nobody = "nobody"
    Unloadable = {}
    MaxBakCount = 3
    Fate <- HoldOnly
    InQ <- MCInQ
    MaxFiles = 3
    MaxCrashes = 0
    MaxSignals = 1
    MaxUnshunts = 1
INVARIANTS NothingVanishes
