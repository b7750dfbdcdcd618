SPECIFICATION FairSpec
CONSTANTS
    t1 = t1
    t2 = t2
    Threads = {t1, t2}
    PredictLimit = 2
    PredictWindow = 2
    LoginLimit = 1
    LoginWindow = 1
    MaxFailures = 1
    FailureWindow = 2
    MaxLag = 1
INVARIANT TypeOK
INVARIANT LimitIsKept
INVARIANT FailuresAreBounded
PROPERTY GuardsReopen
