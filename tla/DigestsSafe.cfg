SPECIFICATION FairSpec
CONSTANTS
    Msgs = {"x", "y"}
    Readers = {"m", "t"}
    Changing = "t"
    Wishes <- MCWishes
    Former = "o"
    Dates <- FirstDays
    Scenarios <- MCScenarios
INVARIANTS EachPostingInOneDigest NumbersRise
PROPERTIES ReadersGetEverything
CHECK_DEADLOCK FALSE
