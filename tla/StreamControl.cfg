SPECIFICATION MCSpec
CONSTANTS
    w1 = w1
    d1 = d1
    a1 = a1
    a2 = a2
    Admins = {a1, a2}
    Workers = {w1}
    Processors = {d1}
    Faults = {"hub", "database", "crash"}
    MaxCommands = 2
    MaxEvents = 3
    MaxBatch = 2
INVARIANT TypeOK
INVARIANT StoredInHubOrder
INVARIANT BatchIsIsolated
INVARIANT StopIsObeyed
INVARIANT CommandsTakeEffect
PROPERTY ConsumersKeepReceiving
