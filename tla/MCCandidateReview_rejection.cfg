SPECIFICATION Spec
CONSTANTS
    c1 = c1
    c2 = c2
    t1 = t1
    t2 = t2
    Candidates = {c1, c2}
    Profiles <- MCProfiles
    Tabs = {t1, t2}
    MaxCommands = 2
    MaxReviews = 3
SYMMETRY Symmetry
INVARIANTS
    RejectionHolds
CHECK_DEADLOCK FALSE
