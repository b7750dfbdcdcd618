SPECIFICATION FairSpec
CONSTANTS
    k1 = k1
    q1 = q1
    q2 = q2
    Ticks = {k1}
    Requests = {q1}
    Legacy = Legacy
    Settings <- Deployments
    MaxDeaths = 1
    None = None
INVARIANT TypeOK
INVARIANT TrainingsAreTraceable
INVARIANT DoneRunIsReported
INVARIANT SuccessLeavesModel
PROPERTY WorkEnds
CHECK_DEADLOCK FALSE
