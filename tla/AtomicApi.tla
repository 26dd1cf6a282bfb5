----------------------------- MODULE AtomicApi -----------------------------
(***************************************************************************)
(* What the routes of portfolios, events and scenarios promise: a call is  *)
(* carried out as a whole, at one instant, on the tables as they are then, *)
(* any number of times until its client gets the reply.  ResearchApi, with *)
(* its overlapping sessions, conflicts and faults, implements this.        *)
(*                                                                         *)
(* One thing is left open, because the code leaves it open: which of the   *)
(* event's mappings and profiles a derived scenario takes account of.      *)
(***************************************************************************)
EXTENDS ResearchTables

CONSTANTS
    Ask,    \* the body of each call
    Plans   \* the sets of calls that clients may make together

VARIABLES
    asked,  \* the calls that clients make in this behaviour, with their bodies
    told    \* what each answered call was told: a key and its row

vars == <<db, asked, told>>

Init ==
    /\ \E plan \in Plans : asked = [k \in plan |-> Ask[k]]
    /\ db = NoRows
    /\ told = NoRows

-----------------------------------------------------------------------------
(* Rows that more than one call may add.                                   *)

System == Over(Row(UserId, "system"), Row(FamilyId, "system"))

\* The default templates and their constraints.
Defaults == {DefaultSlugs[n] : n \in 1 .. Len(DefaultSlugs)}

DefaultTemplates ==
    [i \in {TemplateId(slug) : slug \in Defaults} |-> [constraints |-> DefaultConstraints[i[2]]]]

DefaultRows ==
    [i \in UNION {{ConstraintId(slug, key) : key \in DOMAIN DefaultConstraints[slug]} :
                     slug \in Defaults}
        |-> [value |-> DefaultConstraints[i[2]][i[3]]]]

-----------------------------------------------------------------------------
(* The calls.                                                              *)

\* The row that the reply to a call names.
Named(b) ==
    CASE b.kind = "seed"                  -> TemplateId(DefaultSlugs[Len(DefaultSlugs)])
      [] b.kind = "template"              -> TemplateId(b.slug)
      [] b.kind = "portfolio"             -> PortfolioId(b.name)
      [] b.kind = "event"                 -> EventId(b.code)
      [] b.kind = "mapping"               -> MappingId(b.event, b.asset, b.type)
      [] b.kind = "profile"               -> ProfileId(b.event, b.name)
      [] b.kind \in {"scenario", "derive"} -> ScenarioId(b.slug)
      [] b.kind = "run"                   -> RunId(b.slug, b.portfolio, b.date)
      [] b.kind = "whatif"                -> WhatIfId(b.slug, b.portfolio, b.date)

\* Rows that exist already stay as they are.
AddNew(rows) == db' = Over(db, rows)

\* The rows of a call are added unless there is one of the name, or only if
\* there is none.
FindOrAdd(b, rows) == IF Has(Named(b)) THEN UNCHANGED db ELSE AddNew(rows)

Insert(b, rows) == ~ Has(Named(b)) /\ AddNew(rows)

\* Whatever was there, the default constraints have their default values then.
Seed(b) ==
    /\ b.kind = "seed"
    /\ db' = Over(DefaultRows, Over(db, Over(System, DefaultTemplates)))

CreateTemplate(b) ==
    /\ b.kind = "template"
    /\ FindOrAdd(b, Over(System, TemplateRows(b.slug, b.constraints)))

CreateInstance(b) ==
    /\ b.kind = "portfolio"
    /\ Has(TemplateId(b.template))
    /\ Insert(b, PortfolioRows(b))

CreateEvent(b) ==
    /\ b.kind = "event"
    /\ FindOrAdd(b, EventRows(b))

AddAssetMapping(b) ==
    /\ b.kind = "mapping"
    /\ Has(EventId(b.event))
    /\ Insert(b, MappingRows(b.event, {b}))

AddImpactProfile(b) ==
    /\ b.kind = "profile"
    /\ Has(EventId(b.event))
    /\ Insert(b, ProfileRows(b))

CreateScenario(b) ==
    /\ b.kind = "scenario"
    /\ FindOrAdd(b, ScenarioRows(b))

DeriveScenario(b) ==
    /\ b.kind = "derive"
    /\ Has(EventId(b.event))
    /\ \E maps \in SUBSET Mappings(b.event) :
       \E p \in IF b.profile = None THEN Profiles(b.event) \cup {None}
                ELSE Profiles(b.event) \cap {ProfileId(b.event, b.profile)} :
       \E row \in DerivedRows(b.event, maps, p) : FindOrAdd(b, Row(Named(b), row))

RunScenario(b) ==
    /\ b.kind = "run"
    /\ Has(ScenarioId(b.slug)) /\ Has(PortfolioId(b.portfolio))
    /\ FindOrAdd(b, RunRows(b))

RunCounterfactual(b) ==
    /\ b.kind = "whatif"
    /\ Has(ScenarioId(b.slug)) /\ Has(PortfolioId(b.portfolio))
    /\ FindOrAdd(b, WhatIfRows(b))

Execute(b) ==
    \/ Seed(b) \/ CreateTemplate(b) \/ CreateInstance(b)
    \/ CreateEvent(b) \/ AddAssetMapping(b) \/ AddImpactProfile(b)
    \/ CreateScenario(b) \/ DeriveScenario(b)
    \/ RunScenario(b) \/ RunCounterfactual(b)

\* The client gets the reply, or it is lost.
Reply(k) ==
    \/ told' = Over(Row(k, [id |-> Named(asked[k]), row |-> db'[Named(asked[k])]]), told)
    \/ UNCHANGED told

Next ==
    /\ \E k \in DOMAIN asked \ DOMAIN told : Execute(asked[k]) /\ Reply(k)
    /\ UNCHANGED asked

Spec == Init /\ [][Next]_vars
=============================================================================
