SPECIFICATION Spec
CONSTANTS
    Clients = {c1, c2}
    Trainings = {t1, t2}
    Reports = {}
    None = None
    Backend = "blob"
    Faults = {"crash", "read", "write", "alias"}
SYMMETRY Symmetry
INVARIANT TypeOK
INVARIANT ServedModelIsPromoted
INVARIANT ThresholdGate
