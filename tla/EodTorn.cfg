\* Two sessions correct the same snapshot, no fault.
SPECIFICATION Spec
CONSTANTS
    b1 = b1
    b2 = b2
    b3 = b3
    q1 = q1
    q2 = q2
    p1 = p1
    p2 = p2
    None = None
    Sessions = {w1, w2}
    Tickers = {1}
    Portfolios = {p1}
    Prices <- ClosePrices
    Versions = {"v1", "v2"}
    Batches = {b1, b2, b3}
    Items <- Corrected
    Requests = {}
    PortfolioOf <- PortfolioOfRequest
    Expected <- ExpectedOfRequest
    MaxAttempts <- Once
    MaxFaults = 0
INVARIANTS HashMatches
