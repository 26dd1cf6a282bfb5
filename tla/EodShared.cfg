\* One batch, then a reconciliation for each of two portfolios, no fault.
SPECIFICATION Spec
CONSTANTS
    b1 = b1
    b2 = b2
    b3 = b3
    q1 = q1
    q2 = q2
    p1 = p1
    p2 = p2
    None = None
    Sessions = {w1, w2}
    Tickers = {1, 2}
    Portfolios = {p1, p2}
    Prices <- ClosePrices
    Versions = {"v1", "v2"}
    Batches = {b1}
    Items <- Crossed
    Requests = {q1, q2}
    PortfolioOf <- PortfolioOfRequest
    Expected <- ExpectedOfRequest
    MaxAttempts <- Enough
    MaxFaults = 0
INVARIANTS CuratedAgrees
