SPECIFICATION Spec
CONSTANTS
    Clients = {c1, c2}
    Trainings = {t1, t2}
    Reports = {r1}
    None = None
    Backend = "blob"
    Faults = {}
INVARIANT NoModelIsLost
