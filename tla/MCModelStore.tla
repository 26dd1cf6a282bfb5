---------------------------- MODULE MCModelStore ----------------------------
(***************************************************************************)
(* Small instances of ModelStore for TLC.                                  *)
(***************************************************************************)
EXTENDS ModelStore, TLC

CONSTANTS a1, a2, a3, n1, n2, n3, t1, t2, t3

Section(name, detail, rows) == [name |-> name, detail |-> detail, rows |-> rows]

Economic(portfolio, sections, run_models, persist) ==
    [kind |-> "economic", portfolio |-> portfolio, sections |-> sections,
     run_models |-> run_models, persist |-> persist, day |-> 1]

Training(dataset) ==
    [kind |-> "training", portfolio |-> "p", model |-> "m", dataset |-> dataset, day |-> 1]

\* Runs for a portfolio over crossed factors, two with CAPM metrics before them,
\* against different indices; runs without a portfolio, of which the last asks for
\* EGARCH when its section is one of GARCH and has no fundamentals for its
\* multiples; trainings on two datasets, one of them twice.
Capm == Section("asset", "market", <<0>>)
Factors(rows) == Section("asset", "", rows)
Garch(rows) == Section("asset", "garch", rows)

Bodies ==
       a1 :> Economic("p", "capm" :> Capm @@ "apt" :> Factors(<<1, 2>>), {}, FALSE)
    @@ a2 :> Economic("p", "capm" :> Section("asset", "other", <<0>>)
                           @@ "apt" :> Factors(<<2, 1>>), {}, TRUE)
    @@ a3 :> Economic("p", "capm" :> Capm @@ "apt" :> Factors(<<2, 3>>), {"apt"}, TRUE)
    @@ n1 :> Economic(None, "arima" :> Section("asset", "sarima", <<1>>)
                            @@ "garch" :> Garch(<<1, 2>>)
                            @@ "multiples" :> Factors(<<1>>)
                            @@ "dcf" :> Factors(<<0>>), {}, TRUE)
    @@ n2 :> Economic(None, "garch" :> Garch(<<1, 2>>), {"garch"}, FALSE)
    @@ n3 :> Economic(None, "garch" :> Garch(<<1, 2>>)
                            @@ "multiples" :> Factors(<<>>)
                            @@ "dcf" :> Factors(<<0>>), {"egarch", "multiples", "dcf"}, TRUE)
    @@ t1 :> Training("d1") @@ t2 :> Training("d2") @@ t3 :> Training("d1")

Ranks == a1 :> 1 @@ a2 :> 2 @@ a3 :> 3 @@ n1 :> 1 @@ n2 :> 2 @@ n3 :> 3
         @@ t1 :> 1 @@ t2 :> 2 @@ t3 :> 3

PlansOfThree == {{a1, a2, a3}, {n1, n2, n3}, {t1, t2, t3}}
=============================================================================
