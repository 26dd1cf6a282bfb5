\* Every deployment, with an exception or a crash.
SPECIFICATION FairSpec
CONSTANTS
    h1 = h1
    h2 = h2
    r1 = r1
    r2 = r2
    NFiles = 2
    Runs = {r1, r2}
    Hosts = {h1, h2}
    Prefixes = {{1, 2}}
    Deployments <- AllDeployments
    MaxWrites = 3
    MaxFaults = 1
INVARIANTS TypeOK Covered LineageIsPublished RowsAreUnique
PROPERTIES EventuallyMirrored
CHECK_DEADLOCK FALSE
