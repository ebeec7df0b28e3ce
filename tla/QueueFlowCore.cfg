\* One runner and the unshunt command, two messages: one is
\* forwarded, the other fails, is kept or is held.
SPECIFICATION Spec
CONSTANTS
    Queues <- MCQueues
    NextQ <- MCNextQ
    Msgs = {"m1", "m2"}
    Procs = {"in0", "cli"}
    Serves <- OneRunner
    Nobody = "nobody"
    Unloadable = {}
    MaxBakCount = 3
    Fate <- Mixed
    InQ <- MCInQ
    MaxFiles = 3
    MaxCrashes = 1
    MaxSignals = 1
    MaxUnshunts = 1
INVARIANTS TypeOK NoLoss NeverLost DuplicatesNeedFaults
