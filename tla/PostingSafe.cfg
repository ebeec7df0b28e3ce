SPECIFICATION FairSpec
CONSTANTS
    MaxNesting = 5
    Addrs = {"ann", "ann2", "bob", "eve", "list"}
    Posting = "list"
    Other <- MCOther
    SiteChecks <- MCSiteChecks
    JumpChain = "hold"
    PublicSuffixes <- MCPublicSuffixes
    Wants <- MCWants
    Administrators = {"bob"}
    SiteOwner = "eve"
    RemoveDkim = TRUE
    Preservable = TRUE
    Members = {"ann", "bob"}
    Scenarios <- AllScenarios
    Bans = {"eve"}
    Joiners = {"eve"}
    HeaderMatches <- MCHeaderMatches
    MaxResponses = 1
    ThisList <- MCThisList
    AllLists <- MCAllLists
    AliasDomains <- MCAliasDomains
    Verified = {"ann", "ann2", "bob"}
    MaxLines = 1
INVARIANTS OneDisposition DecidesByTheFirstCase BannedStayOut AuthorNamedOrHidden ReadersReadWhatIsAllowed AnswersAreTrue
PROPERTIES RunnersRest
CHECK_DEADLOCK FALSE
