\* CSV files with one, two or no reference date and COTAHIST files; two sessions, three calls of a request, two faults.
SPECIFICATION FairSpec
CONSTANTS
    csv = csv
    cota = cota
    None = None
    Sessions = {w1, w2}
    Cotahist = {cota}
    Dates = {101, 102, 201}
    Papers = {1, 2}
    Liquidity = {0, 1, 2}
    Requests <- AllRequests
    Plans <- SomePlans
    MaxAttempts = 3
    MaxFaults = 2
INVARIANTS TypeOK ManifestIsTrue CountsAddUp SilverHasBronze BestIsKept InstrumentsSpan
PROPERTIES EventuallyIngested
CHECK_DEADLOCK FALSE
