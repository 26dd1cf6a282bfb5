----------------------------- MODULE ScenarioLab -----------------------------
(***************************************************************************)
(* EventCatalogService and ScenarioLabService: events with their asset     *)
(* mappings and impact profiles, the scenarios derived from them or given  *)
(* by hand, and their runs against the portfolios of PortfolioFactory.     *)
(***************************************************************************)
EXTENDS PortfolioFactory

-----------------------------------------------------------------------------
(* Events.                                                                 *)

\* create_event with its mappings, unless the code exists.
CreateEvent(w, k) ==
    /\ Opens(w, k, "event")
    /\ LET id == EventId(asked[k].code)
       IN  Become(w, Answering(
               IF Has(id) THEN Started(k, "commit")
               ELSE Adding(Started(k, "commit"), EventRows(asked[k])), id))
    /\ UNCHANGED <<db, asked, told, refused, faults>>

\* A child of an event that exists, added without looking for an earlier one.
AddToEvent(w, k, id, rows) ==
    /\ Has(EventId(asked[k].event))
    /\ Become(w, Answering(Adding(Started(k, "commit"), rows), id))
    /\ UNCHANGED <<db, asked, told, refused, faults>>

AddAssetMapping(w, k) ==
    /\ Opens(w, k, "mapping")
    /\ LET b == asked[k]
       IN  AddToEvent(w, k, MappingId(b.event, b.asset, b.type), MappingRows(b.event, {b}))

AddImpactProfile(w, k) ==
    /\ Opens(w, k, "profile")
    /\ LET b == asked[k]
       IN  AddToEvent(w, k, ProfileId(b.event, b.name), ProfileRows(b))

-----------------------------------------------------------------------------
(* Scenarios.                                                              *)

CreateScenarioBlindly(w, k) ==
    /\ Opens(w, k, "scenario")
    /\ Become(w, Answering(Adding(Started(k, "commit"), ScenarioRows(asked[k])), ScenarioId(asked[k].slug)))
    /\ UNCHANGED <<db, asked, told, refused, faults>>

\* create_scenario, unless the slug exists.
CreateScenario(w, k) ==
    /\ Opens(w, k, "scenario")
    /\ LET id == ScenarioId(asked[k].slug)
       IN  Become(w, Answering(
               IF Has(id) THEN Started(k, "commit")
               ELSE Adding(Started(k, "commit"), ScenarioRows(asked[k])), id))
    /\ UNCHANGED <<db, asked, told, refused, faults>>

\* create_scenario_from_event: get_event reads the event, then its mappings,
\* then its profiles, each in a statement of its own.  known is what was
\* committed when the call began (for DerivedIsCurrent).
DeriveScenario(w, k) ==
    /\ Opens(w, k, "derive")
    /\ LET e == asked[k].event
       IN  /\ Has(EventId(e))
           /\ asked[k].profile # None => Has(ProfileId(e, asked[k].profile))
           /\ Become(w, [Started(k, "mappings") EXCEPT
                            !.seen = [known |-> Mappings(e) \cup Profiles(e),
                                      maps |-> {}, profiles |-> {}]])
    /\ UNCHANGED <<db, asked, told, refused, faults>>

ReadHandMade(w) ==
    /\ Running(w, "mappings")
    /\ Become(w, [ses[w] EXCEPT !.at = "profiles",
                     !.seen.maps = {i \in Mappings(Body(w).event) : i[4] = "equity"}])
    /\ UNCHANGED <<db, asked, told, refused, faults>>

ReadMappings(w) ==
    /\ Running(w, "mappings")
    /\ Become(w, [ses[w] EXCEPT !.at = "profiles", !.seen.maps = Mappings(Body(w).event)])
    /\ UNCHANGED <<db, asked, told, refused, faults>>

ReadProfiles(w) ==
    /\ Running(w, "profiles")
    /\ Become(w, [ses[w] EXCEPT !.at = "derive", !.seen.profiles = Profiles(Body(w).event)])
    /\ UNCHANGED <<db, asked, told, refused, faults>>

\* _resolve_profile: the profile asked for, or the first of the event's, which
\* may be any of them.
Resolved(w) ==
    LET wanted == Body(w).profile
        found  == ses[w].seen.profiles
    IN  IF wanted # None THEN {ProfileId(Body(w).event, wanted)}
        ELSE IF found # {} THEN found ELSE {None}

AddDerived(w) ==
    /\ Running(w, "derive")
    /\ LET b  == Body(w)
           id == ScenarioId(b.slug)
       IN  \/ Has(id) /\ Become(w, Answering(ses[w], id))
           \/ /\ ~ Has(id)
              /\ \E p \in Resolved(w) : \E row \in DerivedRows(b.event, ses[w].seen.maps, p) :
                    Become(w, Answering(Adding(ses[w], Row(id, row)), id))
    /\ UNCHANGED <<db, asked, told, refused, faults>>

-----------------------------------------------------------------------------
(* Runs.                                                                   *)

\* run_scenario and run_counterfactual read the scenario and the portfolio
\* with its positions; a scenario or portfolio not found answers 404, which
\* changes nothing.
StartRun(w, k) ==
    /\ \E kind \in {"run", "whatif"} : Opens(w, k, kind)
    /\ Has(ScenarioId(asked[k].slug))
    /\ Has(PortfolioId(asked[k].portfolio))
    /\ Become(w, Started(k, asked[k].kind))
    /\ UNCHANGED <<db, asked, told, refused, faults>>

RunUnsaved(w) ==
    /\ Running(w, "run")
    /\ Become(w, Answering(ses[w], RunId(Body(w).slug, Body(w).portfolio, Body(w).date)))
    /\ UNCHANGED <<db, asked, told, refused, faults>>

\* The run of the scenario, portfolio and date, if there is one; otherwise the
\* scenario's stored vector is applied to the portfolio.
RunScenario(w) ==
    /\ Running(w, "run")
    /\ LET b  == Body(w)
           id == RunId(b.slug, b.portfolio, b.date)
       IN  Become(w, Answering(IF Has(id) THEN ses[w] ELSE Adding(ses[w], RunRows(b)), id))
    /\ UNCHANGED <<db, asked, told, refused, faults>>

\* An earlier run is returned whatever its assumptions were.
RunCounterfactual(w) ==
    /\ Running(w, "whatif")
    /\ LET b  == Body(w)
           id == WhatIfId(b.slug, b.portfolio, b.date)
       IN  Become(w, Answering(IF Has(id) THEN ses[w] ELSE Adding(ses[w], WhatIfRows(b)), id))
    /\ UNCHANGED <<db, asked, told, refused, faults>>

LabCall(w, k) ==
    \/ CreateEvent(w, k) \/ AddAssetMapping(w, k) \/ AddImpactProfile(w, k)
    \/ CreateScenario(w, k) \/ DeriveScenario(w, k) \/ StartRun(w, k)

LabStep(w) ==
    \/ ReadMappings(w) \/ ReadProfiles(w) \/ AddDerived(w)
    \/ RunScenario(w) \/ RunCounterfactual(w)
=============================================================================
