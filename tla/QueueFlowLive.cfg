\* Two slices of one queue, every outcome but hold, a message that cannot be
\* loaded; two crashes are enough for an entry to reach a limit of one backup.
SPECIFICATION FairSpec
CONSTANTS
    Queues <- MCQueues
    NextQ <- MCNextQ
    Msgs = {"m1", "m2"}
    Procs = {"in0", "in1"}
    Serves <- TwoSlices
    Nobody = "nobody"
    Unloadable = {"m2"}
    MaxBakCount = 1
    Fate <- AllButHold
    InQ <- MCInQ
    MaxFiles = 2
    MaxCrashes = 2
    MaxSignals = 1
    MaxUnshunts = 1
INVARIANTS BackupsTriedAgain
PROPERTIES KeepsCustody QueuesDrain StopHonoured
