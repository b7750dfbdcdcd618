SPECIFICATION Spec
CONSTANTS
    a1 = a1
    a2 = a2
    r1 = r1
    None = None
    Admins = {a1, a2}
    Readers = {r1}
    Bootstrapped = FALSE
    MaxUpdates = 3
    Scale = 3
    Default <- DefaultLimits
SYMMETRY Symmetry
INVARIANT TypeOK
INVARIANT OneAuthorKeepsOrder
INVARIANT AuditTrailIsComplete
INVARIANT LastUpdateIsInForce
PROPERTY NoChangeWithoutAudit
