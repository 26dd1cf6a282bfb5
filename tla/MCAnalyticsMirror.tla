-------------------------- MODULE MCAnalyticsMirror --------------------------
(***************************************************************************)
(* Small instances of AnalyticsMirror for TLC.                             *)
(***************************************************************************)
EXTENDS AnalyticsMirror, TLC

CONSTANTS h1, h2, r1, r2

OneHost  == r1 :> h1 @@ r2 :> h1
TwoHosts == r1 :> h1 @@ r2 :> h2

OwnRows == 1 :> 1 @@ 2 :> 2
Twins   == 1 :> 1 @@ 2 :> 1

\* R2 listing, one run at a time, any limit, a disk that outlives a crash.
OnR2 ==
    [runs |-> {r1}, hostOf |-> OneHost, prefixes |-> {{1, 2}}, limits |-> {0, 1},
     byTime |-> TRUE, native |-> TRUE, rowsOf |-> OwnRows, keyless |-> {},
     ties |-> FALSE, invalid |-> TRUE, keepDisk |-> TRUE, writes |-> 3]

\* The local listing, without a limit.
OnDisk == [OnR2 EXCEPT !.byTime = FALSE, !.limits = {0}]

\* No native table, in containers that lose their disk.
ExternalOnly == [OnR2 EXCEPT !.native = FALSE, !.keepDisk = FALSE]

\* Two containers at once, objects with equal times.
Containers ==
    [OnR2 EXCEPT !.runs = {r1, r2}, !.hostOf = TwoHosts, !.ties = TRUE,
                 !.invalid = FALSE, !.keepDisk = FALSE, !.writes = 2]

\* Two runs at once on one host, which share its watermark.
Overlapping == [OnR2 EXCEPT !.runs = {r1, r2}, !.invalid = FALSE, !.writes = 2]

\* The same, one object at a time, of the same rows.
TwinObjects == [Overlapping EXCEPT !.limits = {1}, !.rowsOf = Twins]

\* One run at a time, which takes both objects of the same rows.
TwinBatch == [OnR2 EXCEPT !.limits = {0}, !.rowsOf = Twins, !.invalid = FALSE, !.writes = 2]

\* The rows of one object have no key.
NullKeys == [OnR2 EXCEPT !.keyless = {1}, !.invalid = FALSE, !.writes = 2]

AllDeployments ==
    {OnR2, OnDisk, ExternalOnly, Containers, Overlapping, TwinObjects, TwinBatch, NullKeys}

\* R2 listing, one run at a time, no limit.
Plain == {[OnR2 EXCEPT !.limits = {0}, !.invalid = FALSE, !.writes = 2]}

\* The same, with one object written once.
OneWrite == {[OnR2 EXCEPT !.limits = {0}, !.invalid = FALSE, !.writes = 1]}

\* The same, with two writes and a payload for each half of the dataset.
TwoPayloads == {[OnR2 EXCEPT !.limits = {0}, !.invalid = FALSE, !.writes = 2,
                             !.prefixes = {{1}, {2}}]}
=============================================================================
