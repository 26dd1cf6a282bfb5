---------------------------- MODULE MCEodPipeline ----------------------------
(***************************************************************************)
(* Small instances of EodPipeline for TLC.  Prices are in hundredths: 10025 *)
(* is 25 basis points above 10000.                                         *)
(***************************************************************************)
EXTENDS EodPipeline, TLC

CONSTANTS b1, b2, b3, q1, q2, p1, p2

Snapshot(t, close, src) == [tk |-> t, close |-> close, src |-> src]

\* Two batches over the same tickers in opposite orders, and a batch that names
\* a ticker twice; one reconciliation.
ClosePrices == {0, 10000, 10025, 10026}
Crossed == b1 :> <<Snapshot(1, 10000, "v1"), Snapshot(2, 10025, "v1")>>
        @@ b2 :> <<Snapshot(2, 10026, "v2"), Snapshot(1, 10000, "v2")>>
        @@ b3 :> <<Snapshot(1, 10026, "v1"), Snapshot(1, 10000, "v1")>>

\* A snapshot, and two corrections of it: of its close and of its version.
Corrected == b1 :> <<Snapshot(1, 10000, "v1")>>
          @@ b2 :> <<Snapshot(1, 10025, "v1")>>
          @@ b3 :> <<Snapshot(1, 10000, "v2")>>

\* As many attempts as each batch may need, and a retry of anything else.
Enough == [k \in Tasks |-> IF k \in {b1, b2} THEN 4 ELSE 2]
Once   == [k \in Tasks |-> 1]

PortfolioOfRequest == [q \in Requests |-> IF q = q2 THEN p2 ELSE p1]
ExpectedOfRequest  == [q \in Requests |-> [t \in Tickers |-> 10000]]
=============================================================================
