\* R2 listing without limit, one object that is written once, no fault.
SPECIFICATION Spec
CONSTANTS
    h1 = h1
    h2 = h2
    r1 = r1
    r2 = r2
    NFiles = 2
    Runs = {r1, r2}
    Hosts = {h1, h2}
    Prefixes = {{1, 2}}
    Deployments <- OneWrite
    MaxWrites = 2
    MaxFaults = 0
PROPERTIES NoReread
