SPECIFICATION FairSpec
CONSTANTS
    r1 = r1
    r2 = r2
    Requests = {r1, r2}
    MaxVersion = 2
    MaxCrashes = 1
    Outages = TRUE
INVARIANT TypeOK
INVARIANT AnswerIsNoOlder
PROPERTY RowMovesForward
PROPERTY RowConverges
