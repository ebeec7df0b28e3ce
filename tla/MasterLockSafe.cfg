\* Three masters, one forced after the check, one without it.
SPECIFICATION LockSpec
CONSTANTS
    Masters = {"m1", "m2", "m3"}
    Forced = {"m2", "m3"}
    Direct = {"m3"}
    Commands = {"c1", "c2"}
    Nobody = "nobody"
    MaxPerished = 2
INVARIANTS TwoMastersNeedForce PidFileNamesMaster
CHECK_DEADLOCK FALSE
