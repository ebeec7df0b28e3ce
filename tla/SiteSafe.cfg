SPECIFICATION Spec
CONSTANTS
    Emails = {"a", "b"}
    Lists = {"l", "k"}
    Domains = {"d"}
    DomainOf <- MCDomainOf
    Styles = {"legacy-default", "legacy-announce", "private-default", "no such style"}
    MaxPosition = 2
    Scenarios <- MCScenarios
    Targets <- MCTargets
    OldLists <- MCOldLists
    Configs <- MCConfigs
    Patterns = {"x", "y", "z"}
    Uris = {"plain", "perlist", "local"}
    PerList = {"perlist"}
    Local = {"local"}
INVARIANTS ReferencesHold OnceOnARoster PositionsConsecutive MailServerInformed TemplatesUsable
CHECK_DEADLOCK FALSE
