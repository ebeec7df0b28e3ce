\* One list, in three scopes: see MCScopes.
SPECIFICATION Spec
CONSTANTS
    Lists = {"ant"}
    Emails = {"anne"}
    Processes = {p1, p2}
    Scopes <- MCScopes
    MaxTokens = 3
    MaxChanges = 1
    MaxOverlaps = 1
SYMMETRY Alike
INVARIANTS TokensLeadSomewhere OneRequestPerEmail ModeratorsDecide ConsentGiven
CHECK_DEADLOCK FALSE
