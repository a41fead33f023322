SPECIFICATION Spec
CONSTANTS
    c1 = c1
    c2 = c2
    t1 = t1
    t2 = t2
    Candidates = {c1, c2}
    Profiles <- MCProfiles
    Tabs = {t1, t2}
    MaxCommands = 2
    MaxReviews = 1
SYMMETRY Symmetry
INVARIANTS
    DisallowFailsClosed
    GatesOutlastCorrections
CHECK_DEADLOCK FALSE
