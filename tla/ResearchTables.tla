--------------------------- MODULE ResearchTables ---------------------------
(***************************************************************************)
(* The tables of portfolios, events and scenarios, and what their rows are *)
(* made of.  A row is known by its natural key, which carries a unique     *)
(* constraint.                                                             *)
(*                                                                         *)
(* A family is an opaque row; a constraint has a value and a position a    *)
(* market value (quantity times close price).  Shocks are integers, in     *)
(* units in which 5/4 of a base shock is whole.  Texts, sectors, macro     *)
(* factors, confidences and durations are left out.                        *)
(***************************************************************************)
EXTENDS Integers, Sequences, Functions

CONSTANTS
    None,                \* no call, no value
    DefaultSlugs,        \* DEFAULT_PORTFOLIO_TEMPLATES: their slugs, in order,
    DefaultConstraints,  \*   and the constraints of each: a function from keys
    BaseShock            \* the shock of each severity when no profile gives one

\* _default_shock_for_event
ASSUME ResearchTablesAssumption == \A s \in DOMAIN BaseShock : BaseShock[s] \in Int

VARIABLE
    db   \* committed rows: a function from natural keys to contents

NoRows == <<>>

Has(id) == id \in DOMAIN db

\* Rows on top of others, and a single row.
Over(rows, others) ==
    [i \in DOMAIN rows \cup DOMAIN others |-> IF i \in DOMAIN rows THEN rows[i] ELSE others[i]]

Row(id, content) == [i \in {id} |-> content]

-----------------------------------------------------------------------------
(* Keys.                                                                   *)

UserId                  == <<"user">>
FamilyId                == <<"family">>
TemplateId(slug)        == <<"template", slug>>
ConstraintId(slug, key) == <<"constraint", slug, key>>
PortfolioId(p)          == <<"portfolio", p>>
PositionId(p, t)        == <<"position", p, t>>
EventId(e)              == <<"event", e>>
MappingId(e, a, type)   == <<"mapping", e, a, type>>
ProfileId(e, n)         == <<"profile", e, n>>
ScenarioId(slug)        == <<"scenario", slug>>
RunId(slug, p, d)       == <<"run", slug, p, d>>
WhatIfId(slug, p, d)    == <<"whatif", slug, p, d>>

Positions(p) == {i \in DOMAIN db : i[1] = "position" /\ i[2] = p}
Mappings(e)  == {i \in DOMAIN db : i[1] = "mapping" /\ i[2] = e}
Profiles(e)  == {i \in DOMAIN db : i[1] = "profile" /\ i[2] = e}

-----------------------------------------------------------------------------
(* The bodies that the request schemas let through.                        *)

ValidMapping(m) == m.weight \in Nat

\* The schema lets a body name an asset of one type twice, but the flush of the
\* second mapping breaks the unique constraint, whenever it is tried, and nothing
\* of the event stays; such a body is left out.
ValidEvent(b) ==
    /\ b.scope \in {"brasil", "global", "setor", "empresa", "indice"}
    /\ b.severity \in DOMAIN BaseShock
    /\ \A m \in b.maps : ValidMapping(m)
    /\ \A m, n \in b.maps : m.asset = n.asset /\ m.type = n.type => m = n

IsShocks(f) == \A t \in DOMAIN f : f[t] \in Int

ValidScenario(b) ==
    /\ DOMAIN b.vector = {"default", "tickers", "indices"}
    /\ b.vector.default \in Int /\ IsShocks(b.vector.tickers) /\ IsShocks(b.vector.indices)

\* A profile's template is taken as it comes.  One with anything but numbers in
\* it makes every derivation from it fail before a row is added; it is left out.
IsTemplate(template) ==
    /\ template.default \in Int \cup {None}
    /\ IsShocks(template.tickers)

Valid(b) ==
    /\ b.kind = "mapping" => ValidMapping(b)
    /\ b.kind = "event" => ValidEvent(b)
    /\ b.kind = "scenario" => ValidScenario(b)
    /\ b.kind = "profile" => IsTemplate(b.template)

-----------------------------------------------------------------------------
(* Rows from the bodies of calls.                                          *)

ConstraintRows(ids, wanted) == [i \in ids |-> [value |-> wanted[i[3]]]]

\* A template with its constraints.
TemplateRows(slug, constraints) ==
    Over(Row(TemplateId(slug), [constraints |-> constraints]),
         ConstraintRows({ConstraintId(slug, key) : key \in DOMAIN constraints}, constraints))

\* A portfolio with its positions.
PortfolioRows(b) ==
    Over(Row(PortfolioId(b.name), [capital |-> b.capital]),
         [i \in {PositionId(b.name, t) : t \in DOMAIN b.positions} |-> b.positions[i[3]]])

\* The mappings of an event: the weight of each asset and type.
MappingRows(e, maps) ==
    [i \in {MappingId(e, m.asset, m.type) : m \in maps} |->
        (CHOOSE m \in maps : m.asset = i[3] /\ m.type = i[4]).weight]

\* An event with its mappings.
EventRows(b) ==
    Over(Row(EventId(b.code), [scope |-> b.scope, severity |-> b.severity]),
         MappingRows(b.code, b.maps))

ProfileRows(b) == Row(ProfileId(b.event, b.name), b.template)

\* A scenario with what it was derived from.
ScenarioRow(event, profile, assets, vector) ==
    [event |-> event, profile |-> profile, assets |-> assets, vector |-> vector]

\* A scenario given by hand is derived from nothing.
ScenarioRows(b) == Row(ScenarioId(b.slug), ScenarioRow(None, None, {}, b.vector))

-----------------------------------------------------------------------------
(* Shock vectors.                                                          *)

\* severity's default, or the profile's, and a quarter more for a global event.
BaseOf(event, profile) ==
    LET base == IF profile # None /\ profile.default # None
                THEN profile.default ELSE BaseShock[event.severity]
    IN  IF event.scope = "global" THEN (base * 5) \div 4 ELSE base

\* event_to_shock_vector; weight gives the weight of each mapping.  Where two
\* mappings name one asset the later one wins, and won says which: the rows
\* come in no particular order.
ShockVector(event, profile, weight, won) ==
    LET base      == BaseOf(event, profile)
        isIndex(i) == event.scope = "indice" /\ i[4] = "index"
        priced(S) == [a \in {i[3] : i \in S} |->
                         base * weight[CHOOSE i \in S \cap won : i[3] = a]]
        explicit  == IF profile = None THEN NoRows ELSE profile.tickers
    IN  [default |-> IF event.scope \in {"brasil", "global"} THEN base ELSE 0,
         tickers |-> Over(explicit, priced({i \in DOMAIN weight : ~ isIndex(i)})),
         indices |-> priced({i \in DOMAIN weight : isIndex(i)})]

\* The choices of winners: one mapping of each asset, in each section.
Winners(event, maps) ==
    LET section(i) == <<i[3], event.scope = "indice" /\ i[4] = "index">>
    IN  {won \in SUBSET maps :
            /\ {section(i) : i \in won} = {section(i) : i \in maps}
            /\ \A i, j \in won : section(i) = section(j) => i = j}

\* The scenarios that may be derived from an event, the mappings maps and the
\* profile p of it.
DerivedRows(e, maps, p) ==
    LET event   == db[EventId(e)]
        profile == IF p = None THEN None ELSE db[p]
    IN  {ScenarioRow(e, p, maps, ShockVector(event, profile, [i \in maps |-> db[i]], won)) :
            won \in Winners(event, maps)}

\* Only the ticker overrides and the default of a vector are ever applied.
ShockOf(vector, t) == IF t \in DOMAIN vector.tickers THEN vector.tickers[t] ELSE vector.default

AppliedToNamed(p, vector) ==
    LET impact == [t \in {i[3] : i \in Positions(p)} \cap DOMAIN vector.tickers |->
                      db[PositionId(p, t)] * ShockOf(vector, t)]
    IN  [impact |-> impact, nav |-> db[PortfolioId(p)].capital + SumFunction(impact)]

\* apply_shock_vector_to_portfolio.
Applied(p, vector) ==
    LET impact == [t \in {i[3] : i \in Positions(p)} |->
                      db[PositionId(p, t)] * ShockOf(vector, t)]
    IN  [impact |-> impact, nav |-> db[PortfolioId(p)].capital + SumFunction(impact)]

AdjustedFromZero(vector, assumed) ==
    [vector EXCEPT !.default = 0,
                   !.tickers = Over(IF assumed = None THEN NoRows ELSE assumed.tickers, @)]

\* _apply_counterfactual_assumptions: the multiplier scales the vector, and the
\* overrides of the request are taken as they are.
Adjusted(vector, assumed) ==
    IF assumed = None THEN vector
    ELSE [vector EXCEPT
             !.default = @ * assumed.multiplier,
             !.tickers = Over(assumed.tickers, [t \in DOMAIN @ |-> @[t] * assumed.multiplier])]

\* A run of a scenario's stored vector, and one under assumptions.
RunRows(b) ==
    Row(RunId(b.slug, b.portfolio, b.date), Applied(b.portfolio, db[ScenarioId(b.slug)].vector))

WhatIfRows(b) ==
    LET vector == Adjusted(db[ScenarioId(b.slug)].vector, b.assumed)
    IN  Row(WhatIfId(b.slug, b.portfolio, b.date),
            Over([assumed |-> b.assumed], Applied(b.portfolio, vector)))
=============================================================================
