SPECIFICATION Spec
CONSTANTS
    p1 = p1
    p2 = p2
    a1 = a1
    a2 = a2
    None = None
    Ingesters = {p1, p2}
    Assets = {a1, a2}
    MaxEvents = 4
SYMMETRY Symmetry
INVARIANT RiskHasAlert
