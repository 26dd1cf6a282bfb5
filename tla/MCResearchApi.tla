--------------------------- MODULE MCResearchApi ---------------------------
(***************************************************************************)
(* A small instance of ResearchApi for TLC.  Every plan is a set of calls  *)
(* made in any order, by two sessions at a time.                           *)
(***************************************************************************)
EXTENDS ResearchApi

Slugs  == <<"income", "hedge">>
Limits == [income |-> <<12>>, hedge |-> [key \in 2 .. 3 |-> 30 + key]]

Severities == [s \in 1 .. 2 |-> -4 * s]

\* A vector of the request: tickers priced by hand, and a default.
ByHand == [default |-> -1, tickers |-> [A |-> -3], indices |-> NoRows]

\* A mapping in the body of an event.
Asset(a, type, weight) == [asset |-> a, type |-> type, weight |-> weight]

Template == [default |-> -8, tickers |-> [B |-> -5]]

Bodies ==
  [ seed1 |-> [kind |-> "seed"],
    seed2 |-> [kind |-> "seed"],
    hedge |-> [kind |-> "template", slug |-> "hedge", constraints |-> [key \in {2, 7} |-> 90 - key]],
    other |-> [kind |-> "template", slug |-> "other", constraints |-> <<10>>],
    fund  |-> [kind |-> "portfolio", name |-> "fund", template |-> "hedge", capital |-> 100,
                   positions |-> [A |-> 2, B |-> 1]],
    fund2 |-> [kind |-> "portfolio", name |-> "fund", template |-> "hedge", capital |-> 50,
                   positions |-> [A |-> 1]],
    book  |-> [kind |-> "portfolio", name |-> "book", template |-> "other", capital |-> 100,
                   positions |-> [A |-> 2, B |-> 1]],
    index |-> [kind |-> "event", code |-> "ev", scope |-> "indice", severity |-> 2,
                   maps |-> {Asset("A", "equity", 1), Asset("A", "index", 2)}],
    world |-> [kind |-> "event", code |-> "ev", scope |-> "global", severity |-> 1, maps |-> {}],
    mapA  |-> [kind |-> "mapping", event |-> "ev", asset |-> "A", type |-> "adr", weight |-> 3],
    mapB  |-> [kind |-> "mapping", event |-> "ev", asset |-> "B", type |-> "equity", weight |-> 2],
    prof  |-> [kind |-> "profile", event |-> "ev", name |-> "base", template |-> Template],
    from  |-> [kind |-> "derive", event |-> "ev", profile |-> None, slug |-> "stress"],
    fromP |-> [kind |-> "derive", event |-> "ev", profile |-> "base", slug |-> "stress"],
    hand  |-> [kind |-> "scenario", slug |-> "stress", vector |-> ByHand],
    hand2 |-> [kind |-> "scenario", slug |-> "stress", vector |-> [ByHand EXCEPT !.default = 0]],
    run1  |-> [kind |-> "run", slug |-> "stress", portfolio |-> "book", date |-> 1],
    run2  |-> [kind |-> "run", slug |-> "stress", portfolio |-> "book", date |-> 1],
    asIs  |-> [kind |-> "whatif", slug |-> "stress", portfolio |-> "book", date |-> 1, assumed |-> None],
    twice |-> [kind |-> "whatif", slug |-> "stress", portfolio |-> "book", date |-> 1,
                   assumed |-> [multiplier |-> 2, tickers |-> [B |-> -7]]] ]

\* Seeds against a client's template of a default slug; scenarios derived from an
\* event that grows; two runs and two scenarios of one slug; all of it in a row.
Factory    == {"seed1", "seed2", "hedge", "fund", "fund2"}
Deriving   == {"index", "mapA", "mapB", "prof", "from", "hand"}
Profiled   == {"index", "world", "prof", "from", "fromP"}
Running2   == {"other", "book", "hand", "hand2", "run1", "run2", "asIs", "twice"}
Throughout == {"other", "book", "world", "mapB", "from", "run1", "asIs"}
AllPlans   == {Factory, Deriving, Profiled, Running2, Throughout}
=============================================================================
