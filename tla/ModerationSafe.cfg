\* Two runners, two moderators, two failing transactions, over each database.
SPECIFICATION Spec
CONSTANTS
    c1 = c1  c2 = c2  c3 = c3
    l1 = l1  l2 = l2  m1 = m1  m2 = m2
    Copies = {c1, c2, c3}
    Posting <- Crossposted
    Runners = {r1, r2}
    Moderators = {x1, x2}
    Backends = {"sqlite", "postgresql", "mysql"}
    MaxIds = 4
    MaxFaults = 2
SYMMETRY Permuted
INVARIANTS RequestsResolvable DecidedOnce HeldUntilDecided AnswersWhatWasShown
CHECK_DEADLOCK FALSE
