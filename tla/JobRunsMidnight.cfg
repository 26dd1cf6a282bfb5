\* Commit before the response; an undated message redelivered after midnight.
SPECIFICATION Spec
CONSTANTS
    m1 = m1
    None = None
    Workers = {w1, w2}
    Messages = {m1}
    Undated = {m1}
    MaxDay = 1
    Results = {r1, r2}
    MaxAttempts = 2
    MaxFaults = 1
    Orchestrations <- NoKeys
SYMMETRY Symmetric
INVARIANTS OneRunPerMessage
