\* A payload for each half of the dataset, no fault.
SPECIFICATION FairSpec
CONSTANTS
    h1 = h1
    h2 = h2
    r1 = r1
    r2 = r2
    NFiles = 2
    Runs = {r1, r2}
    Hosts = {h1, h2}
    Prefixes = {{1}, {2}}
    Deployments <- TwoPayloads
    MaxWrites = 2
    MaxFaults = 0
PROPERTIES DetectsNewObjects
