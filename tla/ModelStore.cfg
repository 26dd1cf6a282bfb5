\* Two sessions, three jobs at a time, one fault.
SPECIFICATION FairSpec
CONSTANTS
    a1 = a1
    a2 = a2
    a3 = a3
    n1 = n1
    n2 = n2
    n3 = n3
    t1 = t1
    t2 = t2
    t3 = t3
    None = None
    Sessions = {w1, w2}
    Jobs = {a1, a2, a3, n1, n2, n3, t1, t2, t3}
    Payload <- Bodies
    Rank <- Ranks
    Commands = {a3, n2, t3}
    Plans <- PlansOfThree
    MaxAttempts = 5
    MaxFaults = 1
INVARIANTS TypeOK RowsWhole OneRunPerScope ReplacesEarlier RegistryMatches OverlayIsCurrent
PROPERTIES EventuallyStored
