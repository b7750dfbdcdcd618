SPECIFICATION TurnsSpec
CONSTANTS
    Clients = {c1, c2}
    Trainings = {t1, t2}
    Reports = {r1}
    None = None
    Backend = "local"
    Faults = {"crash", "alias"}
    First = t1
INVARIANT RunsAreTrue
INVARIANT AliasAgrees
PROPERTY ImplementsContract
PROPERTY RequestsEnd
PROPERTY TrainingsSettle
