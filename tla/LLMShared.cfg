SPECIFICATION FairSpec
CONSTANTS
    t1 = t1
    t2 = t2
    Threads = {t1, t2}
    Attempts = 2
    Threshold = 3
    Reset = 2
    Outages = TRUE
    Oddities = TRUE
INVARIANT TypeOK
PROPERTY KeepsOpening
PROPERTY Recovers
