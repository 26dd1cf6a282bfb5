----------------------- MODULE MCHistoricalIngestion -----------------------
(***************************************************************************)
(* A small instance of HistoricalIngestion for TLC.                        *)
(***************************************************************************)
EXTENDS HistoricalIngestion

CONSTANTS csv, cota

Market(name) == CHOOSE m \in Markets : MarketTypes[m] = name

Quote(date, market, paper, trades, volume) ==
    [quote |-> TRUE, date |-> date, market |-> Market(market), paper |-> paper,
     spec |-> "equity", bdi |-> "02", trades |-> trades, volume |-> volume, valid |-> TRUE]

\* Three versions of one quote, the last two beaten by the first in one measure
\* only; the same paper in another month and in another market.
Versions == {Quote(101, "spot", 1, 1, 1), Quote(101, "spot", 1, 0, 2), Quote(101, "spot", 1, 1, 0)}
Elsewhere == {Quote(201, "spot", 1, 0, 0), Quote(102, "fractional", 1, 1, 1)}

\* A second paper, a line without a date, and a line the validator rejects.
Undated == Quote(None, "spot", 1, 2, 0)
Others == {Quote(101, "spot", 2, 0, 0), Undated,
           [Quote(102, "fractional", 2, 0, 0) EXCEPT !.valid = FALSE]}

\* Files of up to two lines of any kind, and three-line files: three versions of
\* one quote in any order, three quotes of one paper in any order.
SomeFiles ==
    SeqOf(Versions \cup Elsewhere \cup Others, 2)
    \cup [1 .. 3 -> Versions]
    \cup {f \in [1 .. 3 -> Elsewhere \cup {Quote(101, "spot", 1, 1, 1)}] :
             \A i, j \in 1 .. 3 : i # j => f[i] # f[j]}

\* A COTAHIST file: a header, quotes, a trailer.
Framed(quotes) ==
    LET frame == [Quote(101, "spot", 1, 2, 2) EXCEPT !.quote = FALSE]
    IN  <<frame>> \o quotes \o <<frame>>

\* What the enricher tells apart: one paper as share, unit and option.
Kinds == {Quote(101, "spot", 1, 1, 1),
          [Quote(102, "spot", 1, 1, 1) EXCEPT !.bdi = "other"],
          [Quote(102, "spot", 1, 1, 1) EXCEPT !.spec = "fund"],
          Quote(102, "call_option", 1, 1, 1),
          [Quote(201, "debt", 1, 1, 1) EXCEPT !.spec = "none"]}

Request(file, ref) == [file |-> file, day |-> 1, ref |-> ref]

AllRequests == {Request(csv, 102), Request(csv, 201), Request(csv, None), Request(cota, None)}

\* One reference date for any file; two for a file that dates its lines, or
\* some of them; none at all; a COTAHIST file.
SomePlans ==
    { [asked |-> {Request(csv, 102)}, contents |-> SomeFiles],
      [asked |-> {Request(csv, 102), Request(csv, 201)},
       contents |-> {<<Quote(101, "spot", 1, 1, 1), Quote(201, "spot", 1, 0, 0)>>,
                     <<Quote(101, "spot", 1, 1, 1), Undated>>}],
      [asked |-> {Request(csv, None)},
       contents |-> {<<Undated>>} \cup {<<a, b>> : a, b \in Elsewhere}],
      [asked |-> {Request(cota, None)},
       contents |-> {Framed(<<>>), Framed(<<Undated>>)} \cup {Framed(<<a, b>>) : a, b \in Kinds}] }
=============================================================================
