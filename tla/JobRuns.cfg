\* Both orders of commit and reply, with and without an orchestrated key; three handlers, an undated message, three deliveries, midnight, two faults.
SPECIFICATION FairSpec
CONSTANTS
    m1 = m1
    None = None
    Workers = {w1, w2, w3}
    Messages = {m1}
    Undated = {m1}
    MaxDay = 1
    Results = {r1, r2}
    MaxAttempts = 3
    MaxFaults = 2
    Orchestrations <- FirstDay
INVARIANTS IInv OneExecutor RepeatsNeedFaults AckedIsRecorded
PROPERTIES SuccessIsFinal LedgerSpec EventuallyRecorded
