----------------------------- MODULE ResearchApi -----------------------------
(***************************************************************************)
(* The routes of portfolios, events and scenarios together: clients call   *)
(* the services of PortfolioFactory and ScenarioLab, whose sessions share  *)
(* the database, repeat calls that fail and may lose replies.              *)
(***************************************************************************)
EXTENDS ScenarioLab

CONSTANT
    Plans   \* the sets of calls that clients may make together

ASSUME ResearchApiAssumption ==
    /\ Plans \subseteq SUBSET Calls
    /\ \A k \in Calls : Valid(Ask[k])
    /\ \A k \in Calls :
          Ask[k].kind = "profile" => ProfileId(Ask[k].event, Ask[k].name) # None

Init == \E plan \in Plans : InitWith(plan)

Call(k) == \E w \in Sessions : FactoryCall(w, k) \/ LabCall(w, k)

Step(w) == Flush(w) \/ Commit(w) \/ FactoryStep(w) \/ LabStep(w)

\* What the system and its clients do of themselves.
Progress ==
    \/ \E w \in Sessions : Step(w)
    \/ \E k \in DOMAIN asked : Call(k)

\* Every call is answered or given up.
Quiescent ==
    /\ DOMAIN asked = DOMAIN told \cup refused
    /\ UNCHANGED vars

Next ==
    \/ Progress
    \/ \E w \in Sessions : Crash(w)
    \/ Quiescent

Spec == Init /\ [][Next]_vars

\* Requests run on, and a client without an answer calls again: something does
\* as long as anything can.  That is all that EventuallyAnswered needs.
Fairness == WF_vars(Progress)

FairSpec == Spec /\ Fairness

-----------------------------------------------------------------------------
(* Properties.                                                             *)

Stages == {"idle", "user", "family", "seed", "template", "commit",
           "mappings", "profiles", "derive", "run", "whatif"}

\* A session works on a call that was made, what it flushes is in its memory,
\* and at its commit it has an answer to give.
SessionType(s) ==
    /\ DOMAIN s = DOMAIN Idle
    /\ s.at \in Stages
    /\ IF s.at = "idle" THEN s = Idle ELSE s.call \in DOMAIN asked
    /\ s.new \cup s.held \cup s.todo \subseteq DOMAIN s.mem
    /\ s.at = "commit" => s.answer \in DOMAIN db \cup DOMAIN s.mem

\* Every variable has its type, that of each session as above.
TypeOK ==
    /\ DOMAIN asked \in Plans
    /\ DOMAIN ses = Sessions
    /\ \A w \in Sessions : SessionType(ses[w])
    /\ DOMAIN told \subseteq DOMAIN asked
    /\ refused \subseteq DOMAIN asked
    /\ faults \in 0 .. MaxFaults

\* What any call was ever told is in the database and stays there, unchanged:
\* two calls that name one slug, code or run were told the same, whatever the
\* races, crashes and repetitions between them.
AnswersHold ==
    \A k \in DOMAIN told : Has(told[k].id) /\ db[told[k].id] = told[k].row

\* After an answered seed the default templates exist, each with all of its
\* default constraints at their default values, even where a client had made a
\* template of that slug with other constraints before or meanwhile.
SeedIsComplete ==
    (\E k \in DOMAIN told : asked[k].kind = "seed") =>
        \A n \in 1 .. Len(DefaultSlugs) :
            LET slug == DefaultSlugs[n]
            IN  /\ Has(TemplateId(slug))
                /\ \A key \in DOMAIN DefaultConstraints[slug] :
                      /\ Has(ConstraintId(slug, key))
                      /\ db[ConstraintId(slug, key)].value = DefaultConstraints[slug][key]

\* A stored run, simulated or counterfactual, prices every position of its
\* portfolio: a run never sees a portfolio without all of its positions.
RunsCoverPortfolio ==
    \A i \in DOMAIN db : i[1] \in {"run", "whatif"} =>
        /\ {PositionId(i[3], t) : t \in DOMAIN db[i].impact} = Positions(i[3])
        /\ db[i].nav = db[PortfolioId(i[3])].capital + SumFunction(db[i].impact)

Neutral(assumed) == assumed = None \/ (assumed.multiplier = 1 /\ assumed.tickers = NoRows)

\* A counterfactual run that assumes nothing agrees with the simulation of the
\* same scenario, portfolio and date, whichever was made first.
NeutralAgrees ==
    \A i \in DOMAIN db :
        LET run == RunId(i[2], i[3], i[4])
        IN  i[1] = "whatif" /\ Neutral(db[i].assumed) /\ Has(run) =>
                db[i].impact = db[run].impact /\ db[i].nav = db[run].nav

\* A scenario derived from an event takes account of every mapping, and of the
\* presence of a profile, that was committed when its request began.  (It may
\* see a later profile and miss a mapping committed before that one, since the
\* two are read one after the other.)
DerivedIsCurrent ==
    \A w \in Sessions :
        LET s == ses[w]
        IN  s.at = "commit" /\ asked[s.call].kind = "derive" /\ s.answer \in s.new =>
                LET scenario == s.mem[s.answer]
                IN  \A i \in s.seen.known :
                        IF i[1] = "mapping" THEN i \in scenario.assets ELSE scenario.profile # None

\* All calls are answered in the end, repeated after conflicts and faults as
\* long as it takes; only calls whose handler does not look for the earlier
\* row can be given up.
EventuallyAnswered == <>(DOMAIN asked = DOMAIN told \cup refused)

-----------------------------------------------------------------------------
(* The abstract specification.                                             *)

Atomic == INSTANCE AtomicApi

\* Whatever overlaps, conflicts, crashes and is repeated, what becomes of the
\* tables and what clients are told is what calls carried out one after the
\* other, each at one instant, could have made of them.
ImplementsAtomicApi == Atomic!Spec

-----------------------------------------------------------------------------
(* The inductive invariant behind AnswersHold.                             *)

\* Rows that are changed after their INSERT; no reply names one of them.
Amendable(i) == i[1] = "constraint"

\* A flush writes new rows and constraints only; a row that a session holds is
\* not committed yet, unless it is a constraint; the answer of a session at its
\* commit is a committed row or one of its own.
FlushInv(s) ==
    /\ \A i \in s.todo : i \in s.new \/ Amendable(i)
    /\ \A i \in s.held : Has(i) => Amendable(i)
    /\ s.at = "commit" =>
          /\ s.answer \in DOMAIN db \cup s.todo \cup s.held
          /\ ~ Amendable(s.answer)

\* The templates that a seed is done with are committed or its own, and what it
\* keeps unsaved are constraints in its memory.
SeedInv(s) ==
    /\ s.at = "seed" => asked[s.call].kind = "seed"
    /\ s.at \in {"user", "family", "seed"} /\ asked[s.call].kind = "seed" =>
          /\ DOMAIN s.seen = {"done", "unsaved"}
          /\ s.seen.done \in 0 .. Len(DefaultSlugs)
          /\ \A n \in 1 .. s.seen.done :
                TemplateId(DefaultSlugs[n]) \in DOMAIN db \cup s.todo \cup s.held
          /\ \A i \in s.seen.unsaved : Amendable(i) /\ i \in DOMAIN s.mem

\* No two sessions hold one row.
LockInv == \A v, w \in Sessions : v # w => ses[v].held \cap ses[w].held = {}

ToldInv == \A k \in DOMAIN told : ~ Amendable(told[k].id)

IInv ==
    /\ TypeOK
    /\ \A w \in Sessions : FlushInv(ses[w]) /\ SeedInv(ses[w])
    /\ LockInv
    /\ ToldInv
    /\ AnswersHold
=============================================================================
