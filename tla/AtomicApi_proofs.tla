--------------------------- MODULE AtomicApi_proofs ---------------------------
(***************************************************************************)
(* The sessions of ResearchApi implement AtomicApi: each call is carried   *)
(* out at its commit.  With it, what the tables hold: complete seeds, runs *)
(* that price their whole portfolio, scenarios that are current.           *)
(*                                                                         *)
(* The invariant is about what a session carries: the rows that its call   *)
(* would write at one instant, on the tables as they are now.  So that a   *)
(* commit of another session can be reasoned about, everything that is     *)
(* read from the tables is stated of tables d given as an argument.        *)
(***************************************************************************)
EXTENDS ResearchApi_proofs

-----------------------------------------------------------------------------
(* What is read from tables d.                                             *)

PositionsIn(d, p) == {i \in DOMAIN d : i[1] = "position" /\ i[2] = p}
MappingsIn(d, e)  == {i \in DOMAIN d : i[1] = "mapping" /\ i[2] = e}
ProfilesIn(d, e)  == {i \in DOMAIN d : i[1] = "profile" /\ i[2] = e}

AppliedIn(d, p, vector) ==
    LET impact == [t \in {i[3] : i \in PositionsIn(d, p)} |->
                      d[PositionId(p, t)] * ShockOf(vector, t)]
    IN  [impact |-> impact, nav |-> d[PortfolioId(p)].capital + SumFunction(impact)]

DerivedIn(d, e, maps, p) ==
    LET event   == d[EventId(e)]
        profile == IF p = None THEN None ELSE d[p]
    IN  {ScenarioRow(e, p, maps, ShockVector(event, profile, [i \in maps |-> d[i]], won)) :
            won \in Winners(event, maps)}

\* The profiles that a call may derive a scenario with.
Usable(d, b) ==
    IF b.profile = None THEN ProfilesIn(d, b.event) \cup {None}
    ELSE ProfilesIn(d, b.event) \cap {ProfileId(b.event, b.profile)}

\* The scenarios that a call may derive.
Derivable(d, b) ==
    UNION {DerivedIn(d, b.event, maps, p) : maps \in SUBSET MappingsIn(d, b.event), p \in Usable(d, b)}

RunIn(d, b) == AppliedIn(d, b.portfolio, d[ScenarioId(b.slug)].vector)

WhatIfIn(d, b) ==
    Over([assumed |-> b.assumed],
         AppliedIn(d, b.portfolio, Adjusted(d[ScenarioId(b.slug)].vector, b.assumed)))

-----------------------------------------------------------------------------
(* What a call writes.                                                     *)

\* None stands for no key, in the body of a profile too.
Proper(b) == Valid(b) /\ (b.kind = "profile" => ProfileId(b.event, b.name) # None)

\* As AtomicApi has them.
System           == Atomic!System
DefaultTemplates == Atomic!DefaultTemplates
DefaultRows      == Atomic!DefaultRows
Named(b)         == Atomic!Named(b)

\* The rows that the call may write, were the tables d; there is a choice only
\* where a scenario is derived.
Writes(b, d) ==
    CASE b.kind = "seed"      -> {Over(DefaultRows, Over(System, DefaultTemplates))}
      [] b.kind = "template"  -> {Over(System, TemplateRows(b.slug, b.constraints))}
      [] b.kind = "portfolio" -> {PortfolioRows(b)}
      [] b.kind = "event"     -> {EventRows(b)}
      [] b.kind = "mapping"   -> {MappingRows(b.event, {b})}
      [] b.kind = "profile"   -> {ProfileRows(b)}
      [] b.kind = "scenario"  -> {ScenarioRows(b)}
      [] b.kind = "derive"    -> {Row(ScenarioId(b.slug), row) : row \in Derivable(d, b)}
      [] b.kind = "run"       -> {Row(RunId(b.slug, b.portfolio, b.date), RunIn(d, b))}
      [] b.kind = "whatif"    -> {Row(WhatIfId(b.slug, b.portfolio, b.date), WhatIfIn(d, b))}

\* The rows that a call refers to.
Needs(b) ==
    CASE b.kind = "portfolio"             -> {TemplateId(b.template)}
      [] b.kind \in {"mapping", "profile"} -> {EventId(b.event)}
      [] b.kind = "derive"                ->
             {EventId(b.event)} \cup
             (IF b.profile = None THEN {} ELSE {ProfileId(b.event, b.profile)})
      [] b.kind \in {"run", "whatif"}     -> {ScenarioId(b.slug), PortfolioId(b.portfolio)}
      [] OTHER                            -> {}

\* The calls that answer with an earlier row of the name.
Finders == {"template", "event", "scenario", "derive", "run", "whatif"}

Kinds == {"seed", "portfolio", "mapping", "profile"} \cup Finders

-----------------------------------------------------------------------------
(* What a session s that works on a call b carries, on tables d.           *)

StageInv(s, b) ==
    /\ b.kind \in Kinds
    /\ s.at \in {"user", "family"} => b.kind \in {"seed", "template"}
    /\ s.at \in {"seed", "template", "run", "whatif"} => b.kind = s.at
    /\ s.at \in {"mappings", "profiles", "derive"} => b.kind = "derive"
    /\ s.at = "commit" => s.answer = Named(b)

\* A row to be inserted is locked and not committed; only a seed updates rows.
HeldInv(s, b, d) ==
    /\ \A i \in s.new \cap s.held : i \notin DOMAIN d
    /\ b.kind # "seed" => s.todo \cup s.held \subseteq s.new

Carries(s, rows) == \A i \in DOMAIN s.mem : i \in DOMAIN rows /\ s.mem[i] = rows[i]

\* Row i is flushed or about to be, or committed; a default constraint with its
\* default value.
Settled(s, d, i) ==
    \/ i \in s.todo \cup s.held
    \/ i \in DOMAIN d /\ (i \in DOMAIN DefaultRows => d[i] = DefaultRows[i])

\* A session that has not read anything yet that its rows depend on.
EmptyInv(s) ==
    s.at \in {"mappings", "profiles", "derive", "run", "whatif"} => DOMAIN s.mem = {}

\* The user and the family come first, in a call to the factory.
SystemInv(s, d) ==
    /\ s.at \in {"family", "seed", "template"} => UserId \in DOMAIN d \cup s.todo \cup s.held
    /\ s.at \in {"seed", "template"} => FamilyId \in DOMAIN d \cup s.todo \cup s.held

\* The constraints of the templates that a seed is done with.
DoneInv(s, b, d) ==
    s.at \in {"user", "family", "seed"} /\ b.kind = "seed" =>
        \A n \in 1 .. s.seen.done : \A key \in DOMAIN DefaultConstraints[DefaultSlugs[n]] :
            LET i == ConstraintId(DefaultSlugs[n], key)
            IN  i \in s.seen.unsaved \/ Settled(s, d, i)

\* What a derivation has read is still there.
ReadInv(s, b, d) ==
    /\ s.at \in {"mappings", "profiles", "derive"} =>
          /\ DOMAIN s.seen = {"known", "maps", "profiles"}
          /\ s.seen.known \subseteq MappingsIn(d, b.event) \cup ProfilesIn(d, b.event)
    /\ s.at \in {"profiles", "derive"} =>
          /\ s.seen.maps \subseteq MappingsIn(d, b.event)
          /\ \A i \in s.seen.known : i[1] = "mapping" => i \in s.seen.maps
    /\ s.at = "derive" =>
          /\ s.seen.profiles \subseteq ProfilesIn(d, b.event)
          /\ \A i \in s.seen.known : i[1] = "profile" => i \in s.seen.profiles

\* The scenario derived takes account of what was known when the call began.
CurrentInv(s, b) ==
    s.at = "commit" /\ b.kind = "derive" /\ s.answer \in s.new =>
        \A i \in s.seen.known :
            IF i[1] = "mapping" THEN i \in s.mem[s.answer].assets
            ELSE s.mem[s.answer].profile # None

\* The answer was found, and nothing is written.
Found(s, b, d) ==
    /\ b.kind \in Finders /\ Named(b) \in DOMAIN d
    /\ s.todo \cup s.held = {}

\* All of rows is written.
Lands(s, b, d, rows) ==
    /\ rows \in Writes(b, d)
    /\ Carries(s, rows)
    /\ \A i \in DOMAIN rows : Settled(s, d, i)
    /\ b.kind = "seed" \/ Named(b) \in s.new \cap (s.todo \cup s.held)

RowsInv(s, b, d) ==
    /\ s.at \in {"user", "family", "seed", "template"} =>
          \A rows \in Writes(b, d) : Carries(s, rows)
    /\ s.at = "commit" => Found(s, b, d) \/ \E rows \in Writes(b, d) : Lands(s, b, d, rows)

Content(s, b, d) ==
    /\ StageInv(s, b)
    /\ Needs(b) \subseteq DOMAIN d
    /\ HeldInv(s, b, d)
    /\ EmptyInv(s) /\ SystemInv(s, d) /\ DoneInv(s, b, d)
    /\ ReadInv(s, b, d) /\ CurrentInv(s, b)
    /\ RowsInv(s, b, d)

-----------------------------------------------------------------------------
(* What the tables d hold.                                                 *)

IsVector(v) ==
    /\ {"default", "tickers"} \subseteq DOMAIN v
    /\ v.default \in Int
    /\ IsShocks(v.tickers)

RunsExact(d) ==
    \A i \in DOMAIN d : i[1] \in {"run", "whatif"} =>
        /\ {ScenarioId(i[2]), PortfolioId(i[3])} \subseteq DOMAIN d
        /\ LET vector == d[ScenarioId(i[2])].vector
           IN  IF i[1] = "run" THEN d[i] = AppliedIn(d, i[3], vector)
               ELSE d[i] = Over([assumed |-> d[i].assumed],
                                AppliedIn(d, i[3], Adjusted(vector, d[i].assumed)))

RowType(i, row) ==
    /\ i[1] = "constraint" => row = [value |-> row.value]
    /\ i[1] = "position" => i = PositionId(i[2], i[3])
    /\ i[1] = "mapping" => row \in Nat
    /\ i[1] = "event" => row.severity \in DOMAIN BaseShock
    /\ i[1] = "profile" => i # None /\ IsTemplate(row)
    /\ i[1] = "scenario" => IsVector(row.vector)

Tables(d) ==
    /\ d = [i \in DOMAIN d |-> d[i]]
    /\ \A i \in DOMAIN d : RowType(i, d[i])
    /\ RunsExact(d)

\* Each session works on a call of its own that is not answered yet.
CallsInv ==
    /\ asked = [k \in DOMAIN asked |-> Ask[k]]
    /\ \A w \in Sessions : ses[w].at # "idle" => ses[w].call \notin DOMAIN told
    /\ \A v, w \in Sessions :
          v # w /\ ses[v].at # "idle" /\ ses[w].at # "idle" => ses[v].call # ses[w].call

CInv ==
    /\ CallsInv
    /\ \A w \in Sessions : ses[w].at # "idle" => Content(ses[w], asked[ses[w].call], db)
    /\ Tables(db)
    /\ SeedIsComplete

-----------------------------------------------------------------------------
(* Rows over rows.                                                         *)

LEMMA OverLeft ==
  ASSUME NEW rows, NEW others, NEW i \in DOMAIN rows
  PROVE  Over(rows, others)[i] = rows[i]
  BY DEF Over

LEMMA OverRight ==
  ASSUME NEW rows, NEW others, NEW i \in DOMAIN others, i \notin DOMAIN rows
  PROVE  Over(rows, others)[i] = others[i]
  BY DEF Over

LEMMA OverNothing ==
  ASSUME NEW rows, DOMAIN rows = {}, NEW d, d = [i \in DOMAIN d |-> d[i]]
  PROVE  Over(rows, d) = d
  BY DEF Over

\* Writing the flushed rows, none of which is committed, adds rows.
LEMMA WriteIsAdd ==
  ASSUME NEW held, NEW mem, NEW d, NEW rows,
         \A i \in held : i \notin DOMAIN d /\ i \in DOMAIN rows /\ mem[i] = rows[i],
         \A i \in DOMAIN rows : i \in DOMAIN d \cup held
  PROVE  Over([i \in held |-> mem[i]], d) = Over(d, rows)
  BY DEF Over

LEMMA InRow ==
  ASSUME NEW id, NEW content, NEW i \in DOMAIN Row(id, content)
  PROVE  i = id /\ Row(id, content)[i] = content
  BY DEF Row

LEMMA RowIs ==
  ASSUME NEW id, NEW content
  PROVE  DOMAIN Row(id, content) = {id} /\ Row(id, content)[id] = content
  BY DEF Row

-----------------------------------------------------------------------------
(* The operators of AtomicApi are those of the services, and both read the *)
(* tables as they are.                                                     *)

LEMMA AppliedIs ==
  \A p, vector : /\ Applied(p, vector) = AppliedIn(db, p, vector)
                 /\ Atomic!Applied(p, vector) = AppliedIn(db, p, vector)
<1>1. \A p, vector : Applied(p, vector) = AppliedIn(db, p, vector)
  BY DEF AppliedIn, PositionsIn, Applied, Positions
<1>2. \A p, vector : Atomic!Applied(p, vector) = Applied(p, vector)
  BY DEF Applied, Atomic!Applied, Positions, Atomic!Positions, ShockOf, Atomic!ShockOf,
     PositionId, Atomic!PositionId, PortfolioId, Atomic!PortfolioId,
     SumFunction, SumFunctionOnSet, FoldFunctionOnSet, MapThenFoldSet,
     Atomic!SumFunction, Atomic!SumFunctionOnSet, Atomic!FoldFunctionOnSet, Atomic!MapThenFoldSet
<1>3. QED
  BY <1>1, <1>2

LEMMA DerivedIs ==
  \A e, maps, p : /\ DerivedRows(e, maps, p) = DerivedIn(db, e, maps, p)
                  /\ Atomic!DerivedRows(e, maps, p) = DerivedIn(db, e, maps, p)
  BY DEF DerivedIn, DerivedRows, Atomic!DerivedRows, EventId, Atomic!EventId,
     ScenarioRow, Atomic!ScenarioRow, ShockVector, Atomic!ShockVector,
     Winners, Atomic!Winners, BaseOf, Atomic!BaseOf, Over, Atomic!Over, NoRows, Atomic!NoRows

LEMMA AdjustedIs ==
  \A vector, assumed : Atomic!Adjusted(vector, assumed) = Adjusted(vector, assumed)
  BY DEF Adjusted, Atomic!Adjusted, Over, Atomic!Over

LEMMA SameBasics ==
  /\ \A id : Atomic!Has(id) <=> Has(id)
  /\ \A rows, others : Atomic!Over(rows, others) = Over(rows, others)
  /\ \A id, content : Atomic!Row(id, content) = Row(id, content)
  /\ Atomic!NoRows = NoRows
  BY DEF Has, Over, Row, NoRows, Atomic!Has, Atomic!Over, Atomic!Row, Atomic!NoRows

LEMMA SameKeys ==
  /\ Atomic!UserId = UserId /\ Atomic!FamilyId = FamilyId
  /\ \A x : /\ Atomic!TemplateId(x) = TemplateId(x) /\ Atomic!PortfolioId(x) = PortfolioId(x)
            /\ Atomic!EventId(x) = EventId(x) /\ Atomic!ScenarioId(x) = ScenarioId(x)
  /\ \A x, y : /\ Atomic!ConstraintId(x, y) = ConstraintId(x, y)
               /\ Atomic!ProfileId(x, y) = ProfileId(x, y)
  /\ \A x, y, z : /\ Atomic!MappingId(x, y, z) = MappingId(x, y, z)
                  /\ Atomic!RunId(x, y, z) = RunId(x, y, z)
                  /\ Atomic!WhatIfId(x, y, z) = WhatIfId(x, y, z)
  /\ \A e : /\ Atomic!Mappings(e) = MappingsIn(db, e) /\ Mappings(e) = MappingsIn(db, e)
            /\ Atomic!Profiles(e) = ProfilesIn(db, e) /\ Profiles(e) = ProfilesIn(db, e)
  BY DEF UserId, FamilyId, TemplateId, PortfolioId, EventId, ScenarioId, ConstraintId, ProfileId,
     MappingId, RunId, WhatIfId, MappingsIn, ProfilesIn, Mappings, Profiles,
     Atomic!UserId, Atomic!FamilyId, Atomic!TemplateId, Atomic!PortfolioId, Atomic!EventId,
     Atomic!ScenarioId, Atomic!ConstraintId, Atomic!ProfileId, Atomic!MappingId, Atomic!RunId,
     Atomic!WhatIfId, Atomic!Mappings, Atomic!Profiles

LEMMA SameRows ==
  /\ \A slug, values : Atomic!TemplateRows(slug, values) = TemplateRows(slug, values)
  /\ \A b : Atomic!PortfolioRows(b) = PortfolioRows(b)
  /\ \A e, maps : Atomic!MappingRows(e, maps) = MappingRows(e, maps)
  /\ \A b : Atomic!EventRows(b) = EventRows(b)
  /\ \A b : Atomic!ProfileRows(b) = ProfileRows(b)
  /\ \A b : Atomic!ScenarioRows(b) = ScenarioRows(b)
<1>1. \A slug, values : Atomic!TemplateRows(slug, values) = TemplateRows(slug, values)
  BY DEF TemplateRows, Over, Row, TemplateId, ConstraintRows, ConstraintId,
     Atomic!TemplateRows, Atomic!Over, Atomic!Row, Atomic!TemplateId, Atomic!ConstraintRows,
     Atomic!ConstraintId
<1>2. \A b : Atomic!PortfolioRows(b) = PortfolioRows(b)
  BY DEF PortfolioRows, Over, Row, PortfolioId, PositionId,
     Atomic!PortfolioRows, Atomic!Over, Atomic!Row, Atomic!PortfolioId, Atomic!PositionId
<1>3. \A e, maps : Atomic!MappingRows(e, maps) = MappingRows(e, maps)
  BY DEF MappingRows, Atomic!MappingRows, MappingId, Atomic!MappingId
<1>4. \A b : Atomic!EventRows(b) = EventRows(b)
  BY DEF EventRows, Over, Row, EventId, MappingRows, MappingId,
     Atomic!EventRows, Atomic!Over, Atomic!Row, Atomic!EventId, Atomic!MappingRows, Atomic!MappingId
<1>5. \A b : Atomic!ProfileRows(b) = ProfileRows(b)
  BY DEF ProfileRows, Row, ProfileId, Atomic!ProfileRows, Atomic!Row, Atomic!ProfileId
<1>6. \A b : Atomic!ScenarioRows(b) = ScenarioRows(b)
  BY DEF ScenarioRows, Row, ScenarioId, ScenarioRow, NoRows,
     Atomic!ScenarioRows, Atomic!Row, Atomic!ScenarioId, Atomic!ScenarioRow, Atomic!NoRows
<1>7. QED
  BY <1>1, <1>2, <1>3, <1>4, <1>5, <1>6

LEMMA SameRuns ==
  \A b : /\ RunRows(b) = Row(RunId(b.slug, b.portfolio, b.date), RunIn(db, b))
         /\ Atomic!RunRows(b) = RunRows(b)
         /\ WhatIfRows(b) = Row(WhatIfId(b.slug, b.portfolio, b.date), WhatIfIn(db, b))
         /\ Atomic!WhatIfRows(b) = WhatIfRows(b)
  BY AppliedIs, AdjustedIs, SameBasics, SameKeys
     DEF RunRows, RunIn, WhatIfRows, WhatIfIn, Atomic!RunRows, Atomic!WhatIfRows

-----------------------------------------------------------------------------
(* What a call names and writes, kind by kind.                             *)

LEMMA NamedIs ==
  ASSUME NEW b
  PROVE  /\ b.kind = "seed" => Named(b) = TemplateId(DefaultSlugs[Len(DefaultSlugs)])
         /\ b.kind = "template" => Named(b) = TemplateId(b.slug)
         /\ b.kind = "portfolio" => Named(b) = PortfolioId(b.name)
         /\ b.kind = "event" => Named(b) = EventId(b.code)
         /\ b.kind = "mapping" => Named(b) = MappingId(b.event, b.asset, b.type)
         /\ b.kind = "profile" => Named(b) = ProfileId(b.event, b.name)
         /\ b.kind \in {"scenario", "derive"} => Named(b) = ScenarioId(b.slug)
         /\ b.kind = "run" => Named(b) = RunId(b.slug, b.portfolio, b.date)
         /\ b.kind = "whatif" => Named(b) = WhatIfId(b.slug, b.portfolio, b.date)
  BY SameKeys DEF Named, Atomic!Named

SeedRows == Over(DefaultRows, Over(System, DefaultTemplates))

LEMMA SeedWrites ==
  ASSUME NEW b, NEW d, b.kind = "seed"
  PROVE  Writes(b, d) = {SeedRows}
  BY DEF Writes, SeedRows

LEMMA TemplateWrites ==
  ASSUME NEW b, NEW d, b.kind = "template"
  PROVE  Writes(b, d) = {Over(System, TemplateRows(b.slug, b.constraints))}
  BY DEF Writes

LEMMA PortfolioWrites ==
  ASSUME NEW b, NEW d, b.kind = "portfolio"
  PROVE  Writes(b, d) = {PortfolioRows(b)}
  BY DEF Writes

LEMMA EventWrites ==
  ASSUME NEW b, NEW d, b.kind = "event"
  PROVE  Writes(b, d) = {EventRows(b)}
  BY DEF Writes

LEMMA MappingWrites ==
  ASSUME NEW b, NEW d, b.kind = "mapping"
  PROVE  Writes(b, d) = {MappingRows(b.event, {b})}
  BY DEF Writes

LEMMA ProfileWrites ==
  ASSUME NEW b, NEW d, b.kind = "profile"
  PROVE  Writes(b, d) = {Row(ProfileId(b.event, b.name), b.template)}
  BY DEF Writes, ProfileRows

LEMMA ScenarioWrites ==
  ASSUME NEW b, NEW d, b.kind = "scenario"
  PROVE  Writes(b, d) = {Row(ScenarioId(b.slug), ScenarioRow(None, None, {}, b.vector))}
  BY DEF Writes, ScenarioRows

LEMMA DeriveWrites ==
  ASSUME NEW b, NEW d, b.kind = "derive"
  PROVE  Writes(b, d) = {Row(ScenarioId(b.slug), row) : row \in Derivable(d, b)}
  BY DEF Writes

LEMMA RunWrites ==
  ASSUME NEW b, NEW d, b.kind = "run"
  PROVE  Writes(b, d) = {Row(RunId(b.slug, b.portfolio, b.date), RunIn(d, b))}
  BY DEF Writes

LEMMA WhatIfWrites ==
  ASSUME NEW b, NEW d, b.kind = "whatif"
  PROVE  Writes(b, d) = {Row(WhatIfId(b.slug, b.portfolio, b.date), WhatIfIn(d, b))}
  BY DEF Writes

LEMMA NeedsAre ==
  ASSUME NEW b
  PROVE  /\ b.kind = "portfolio" => Needs(b) = {TemplateId(b.template)}
         /\ b.kind \in {"mapping", "profile"} => Needs(b) = {EventId(b.event)}
         /\ b.kind = "derive" =>
               /\ EventId(b.event) \in Needs(b)
               /\ b.profile # None => ProfileId(b.event, b.profile) \in Needs(b)
               /\ \A i \in Needs(b) : \/ i = EventId(b.event)
                                      \/ b.profile # None /\ i = ProfileId(b.event, b.profile)
         /\ b.kind \in {"run", "whatif"} =>
               Needs(b) = {ScenarioId(b.slug), PortfolioId(b.portfolio)}
         /\ b.kind \in {"seed", "template", "event", "scenario"} => Needs(b) = {}
  BY DEF Needs

\* The default rows of AtomicApi, spelled out.
LEMMA SystemIs ==
  /\ DOMAIN System = {UserId, FamilyId}
  /\ \A i \in DOMAIN System : System[i] = "system"
<1> DEFINE user   == Row(UserId, "system")
           family == Row(FamilyId, "system")
<1>1. System = Over(user, family)
  BY SameBasics, SameKeys DEF System, Atomic!System
<1>2. /\ DOMAIN user = {UserId} /\ user[UserId] = "system"
      /\ DOMAIN family = {FamilyId} /\ family[FamilyId] = "system"
  BY RowIs
<1> HIDE DEF user, family
<1>3. QED
  BY <1>1, <1>2, OverDomain, OverLeft, OverRight

LEMMA DefaultRowsAre ==
  /\ \A n \in 1 .. Len(DefaultSlugs) : \A key \in DOMAIN DefaultConstraints[DefaultSlugs[n]] :
        LET i == ConstraintId(DefaultSlugs[n], key)
        IN  /\ i \in DOMAIN DefaultRows
            /\ DefaultRows[i] = [value |-> DefaultConstraints[DefaultSlugs[n]][key]]
  /\ \A i \in DOMAIN DefaultRows :
        \E n \in 1 .. Len(DefaultSlugs) : \E key \in DOMAIN DefaultConstraints[DefaultSlugs[n]] :
            i = ConstraintId(DefaultSlugs[n], key)
  BY SameKeys DEF DefaultRows, Atomic!DefaultRows, Atomic!Defaults, ConstraintId

LEMMA DefaultTemplatesAre ==
  /\ \A n \in 1 .. Len(DefaultSlugs) :
        LET i == TemplateId(DefaultSlugs[n])
        IN  /\ i \in DOMAIN DefaultTemplates
            /\ DefaultTemplates[i] = [constraints |-> DefaultConstraints[DefaultSlugs[n]]]
  /\ \A i \in DOMAIN DefaultTemplates :
        \E n \in 1 .. Len(DefaultSlugs) : i = TemplateId(DefaultSlugs[n])
  BY SameKeys DEF DefaultTemplates, Atomic!DefaultTemplates, Atomic!Defaults, TemplateId

LEMMA DefaultIds ==
  /\ \A i \in DOMAIN DefaultRows : i[1] = "constraint"
  /\ \A i \in DOMAIN System : i[1] \in {"user", "family"}
  /\ \A i \in DOMAIN DefaultTemplates : i[1] = "template"
<1>1. \A i \in DOMAIN DefaultRows : i[1] = "constraint"
  BY DefaultRowsAre DEF ConstraintId
<1>2. \A i \in DOMAIN System : i[1] \in {"user", "family"}
  BY SystemIs DEF UserId, FamilyId
<1>3. \A i \in DOMAIN DefaultTemplates : i[1] = "template"
  BY DefaultTemplatesAre DEF TemplateId
<1>4. QED
  BY <1>1, <1>2, <1>3

LEMMA SeedRowsAre ==
  /\ DOMAIN SeedRows = DOMAIN DefaultRows \cup DOMAIN System \cup DOMAIN DefaultTemplates
  /\ \A i \in DOMAIN DefaultRows : SeedRows[i] = DefaultRows[i]
  /\ \A i \in DOMAIN System : SeedRows[i] = System[i]
  /\ \A i \in DOMAIN DefaultTemplates : SeedRows[i] = DefaultTemplates[i]
<1> DEFINE lower == Over(System, DefaultTemplates)
<1>1. DOMAIN lower = DOMAIN System \cup DOMAIN DefaultTemplates
  BY OverDomain
<1>2. \A i \in DOMAIN System : lower[i] = System[i]
  BY OverLeft
<1>3. \A i \in DOMAIN DefaultTemplates : lower[i] = DefaultTemplates[i]
  BY OverRight, DefaultIds
<1>4. SeedRows = Over(DefaultRows, lower)
  BY DEF SeedRows
<1> HIDE DEF lower
<1>5. DOMAIN SeedRows = DOMAIN DefaultRows \cup DOMAIN lower
  BY <1>4, OverDomain
<1>6. \A i \in DOMAIN DefaultRows : SeedRows[i] = DefaultRows[i]
  BY <1>4, OverLeft
<1>7. \A i \in DOMAIN lower : i \notin DOMAIN DefaultRows => SeedRows[i] = lower[i]
  BY <1>4, OverRight
<1>8. QED
  BY <1>1, <1>2, <1>3, <1>5, <1>6, <1>7, DefaultIds

-----------------------------------------------------------------------------
(* How the tables grow.                                                    *)

\* Tables d become e: rows are added, only default constraints change, and a
\* portfolio that is there gets no more positions.
Grows(d, e) ==
    /\ DOMAIN d \subseteq DOMAIN e
    /\ \A i \in DOMAIN d : e[i] = d[i] \/ (i \in DOMAIN DefaultRows /\ e[i] = DefaultRows[i])
    /\ \A i \in DOMAIN e \ DOMAIN d : i[1] = "position" => PortfolioId(i[2]) \notin DOMAIN d

LEMMA GrowsKeeps ==
  ASSUME NEW d, NEW e, Grows(d, e), NEW i \in DOMAIN d, i[1] # "constraint"
  PROVE  i \in DOMAIN e /\ e[i] = d[i]
  BY DefaultIds DEF Grows

LEMMA AppliedGrows ==
  ASSUME NEW d, NEW e, Tables(d), Grows(d, e), NEW p, PortfolioId(p) \in DOMAIN d, NEW vector
  PROVE  PositionsIn(e, p) = PositionsIn(d, p) /\ AppliedIn(e, p, vector) = AppliedIn(d, p, vector)
<1>1. PositionsIn(e, p) = PositionsIn(d, p)
  BY DEF Grows, PositionsIn
<1>2. \A t \in {i[3] : i \in PositionsIn(d, p)} : e[PositionId(p, t)] = d[PositionId(p, t)]
  <2>1. TAKE t \in {i[3] : i \in PositionsIn(d, p)}
  <2>2. PositionId(p, t) \in DOMAIN d
    BY DEF PositionsIn, Tables, RowType, PositionId
  <2>3. QED
    BY <2>2, GrowsKeeps DEF PositionId
<1>3. e[PortfolioId(p)] = d[PortfolioId(p)]
  BY GrowsKeeps DEF PortfolioId
<1> DEFINE impact(f) == [t \in {i[3] : i \in PositionsIn(f, p)} |->
                            f[PositionId(p, t)] * ShockOf(vector, t)]
<1>4. impact(e) = impact(d)
  BY <1>1, <1>2
<1>5. \A f : AppliedIn(f, p, vector) =
                [impact |-> impact(f), nav |-> f[PortfolioId(p)].capital + SumFunction(impact(f))]
  BY DEF AppliedIn
<1> HIDE DEF impact
<1>6. AppliedIn(e, p, vector) = AppliedIn(d, p, vector)
  BY <1>3, <1>4, <1>5
<1>7. QED
  BY <1>1, <1>6

LEMMA RunGrows ==
  ASSUME NEW d, NEW e, Tables(d), Grows(d, e), NEW b,
         {ScenarioId(b.slug), PortfolioId(b.portfolio)} \subseteq DOMAIN d
  PROVE  RunIn(e, b) = RunIn(d, b) /\ WhatIfIn(e, b) = WhatIfIn(d, b)
<1>1. e[ScenarioId(b.slug)] = d[ScenarioId(b.slug)]
  BY GrowsKeeps DEF ScenarioId
<1>2. \A vector : AppliedIn(e, b.portfolio, vector) = AppliedIn(d, b.portfolio, vector)
  BY AppliedGrows
<1>3. QED
  BY <1>1, <1>2 DEF RunIn, WhatIfIn

LEMMA DerivedGrows ==
  ASSUME NEW d, NEW e, Grows(d, e), NEW b, EventId(b.event) \in DOMAIN d
  PROVE  Derivable(d, b) \subseteq Derivable(e, b)
<1>1. MappingsIn(d, b.event) \subseteq MappingsIn(e, b.event)
  BY DEF Grows, MappingsIn
<1>2. Usable(d, b) \subseteq Usable(e, b)
  BY DEF Grows, Usable, ProfilesIn
<1>3. ASSUME NEW maps \in SUBSET MappingsIn(d, b.event), NEW p \in Usable(d, b)
      PROVE  DerivedIn(d, b.event, maps, p) = DerivedIn(e, b.event, maps, p)
  <2>1. e[EventId(b.event)] = d[EventId(b.event)]
    BY GrowsKeeps DEF EventId
  <2>2. p # None => e[p] = d[p]
    BY GrowsKeeps DEF Usable, ProfilesIn
  <2>3. [i \in maps |-> d[i]] = [i \in maps |-> e[i]]
    <3>1. \A i \in maps : e[i] = d[i]
      BY GrowsKeeps DEF MappingsIn
    <3>2. QED
      BY <3>1
  <2>4. (IF p = None THEN None ELSE d[p]) = (IF p = None THEN None ELSE e[p])
    BY <2>2
  <2>5. QED
    BY <2>1, <2>3, <2>4 DEF DerivedIn
<1>4. QED
  BY <1>1, <1>2, <1>3 DEF Derivable

\* What a call may write stays what it may write.
LEMMA WritesGrow ==
  ASSUME NEW d, NEW e, Tables(d), Grows(d, e), NEW b, b.kind \in Kinds, Needs(b) \subseteq DOMAIN d
  PROVE  Writes(b, d) \subseteq Writes(b, e)
<1>1. CASE b.kind = "derive"
  <2>1. Derivable(d, b) \subseteq Derivable(e, b)
    BY <1>1, DerivedGrows, NeedsAre
  <2>2. /\ Writes(b, d) = {Row(ScenarioId(b.slug), row) : row \in Derivable(d, b)}
        /\ Writes(b, e) = {Row(ScenarioId(b.slug), row) : row \in Derivable(e, b)}
    BY <1>1, DeriveWrites
  <2>3. QED
    BY <2>1, <2>2
<1>2. CASE b.kind \in {"run", "whatif"}
  <2>1. RunIn(e, b) = RunIn(d, b) /\ WhatIfIn(e, b) = WhatIfIn(d, b)
    BY <1>2, RunGrows, NeedsAre
  <2>2. CASE b.kind = "run"
    BY <2>1, <2>2, RunWrites
  <2>3. CASE b.kind = "whatif"
    BY <2>1, <2>3, WhatIfWrites
  <2>4. QED
    BY <1>2, <2>2, <2>3
<1>3. b.kind = "seed" => Writes(b, d) = Writes(b, e)
  BY SeedWrites
<1>4. b.kind = "template" => Writes(b, d) = Writes(b, e)
  BY TemplateWrites
<1>5. b.kind = "portfolio" => Writes(b, d) = Writes(b, e)
  BY PortfolioWrites
<1>6. b.kind = "event" => Writes(b, d) = Writes(b, e)
  BY EventWrites
<1>7. b.kind = "mapping" => Writes(b, d) = Writes(b, e)
  BY MappingWrites
<1>8. b.kind = "profile" => Writes(b, d) = Writes(b, e)
  BY ProfileWrites
<1>9. b.kind = "scenario" => Writes(b, d) = Writes(b, e)
  BY ScenarioWrites
<1>10. QED
  BY <1>1, <1>2, <1>3, <1>4, <1>5, <1>6, <1>7, <1>8, <1>9 DEF Kinds, Finders

-----------------------------------------------------------------------------
(* The rows of each kind of call.                                          *)

LEMMA TemplateRowsAre ==
  ASSUME NEW slug, NEW values, NEW i \in DOMAIN TemplateRows(slug, values)
  PROVE  /\ i = TemplateId(slug) \/ \E key \in DOMAIN values : i = ConstraintId(slug, key)
         /\ i[1] = "constraint" =>
               TemplateRows(slug, values)[i] = [value |-> TemplateRows(slug, values)[i].value]
<1> DEFINE rows     == TemplateRows(slug, values)
           ids      == {ConstraintId(slug, key) : key \in DOMAIN values}
           template == Row(TemplateId(slug), [constraints |-> values])
           added    == ConstraintRows(ids, values)
<1>1. rows = Over(template, added)
  BY DEF TemplateRows
<1>2. DOMAIN template = {TemplateId(slug)} /\ DOMAIN added = ids
  BY RowIs DEF ConstraintRows
<1>3. \A j \in ids : added[j] = [value |-> added[j].value]
  BY DEF ConstraintRows
<1> HIDE DEF template, added, rows
<1>4. DOMAIN rows = {TemplateId(slug)} \cup ids
  BY <1>1, <1>2, OverDomain
<1>5. ASSUME i[1] = "constraint"
      PROVE  rows[i] = [value |-> rows[i].value]
  <2>1. i # TemplateId(slug)
    BY <1>5 DEF TemplateId
  <2>2. i \in ids
    BY <1>4, <2>1 DEF rows
  <2>3. rows[i] = added[i]
    BY <1>1, <1>2, <2>1, <2>2, OverRight
  <2>4. QED
    BY <1>3, <2>2, <2>3
<1>6. QED
  BY <1>4, <1>5 DEF rows

LEMMA PortfolioRowsAre ==
  ASSUME NEW b
  PROVE  DOMAIN PortfolioRows(b) =
             {PortfolioId(b.name)} \cup {PositionId(b.name, t) : t \in DOMAIN b.positions}
<1> DEFINE portfolio == Row(PortfolioId(b.name), [capital |-> b.capital])
           positions == [i \in {PositionId(b.name, t) : t \in DOMAIN b.positions} |->
                            b.positions[i[3]]]
<1>1. PortfolioRows(b) = Over(portfolio, positions)
  BY DEF PortfolioRows
<1>2. DOMAIN portfolio = {PortfolioId(b.name)}
  BY RowIs
<1>3. DOMAIN positions = {PositionId(b.name, t) : t \in DOMAIN b.positions}
  OBVIOUS
<1> HIDE DEF portfolio, positions
<1>4. QED
  BY <1>1, <1>2, <1>3, OverDomain

LEMMA MappingRowsAre ==
  ASSUME NEW e, NEW maps, \A m \in maps : ValidMapping(m), NEW i \in DOMAIN MappingRows(e, maps)
  PROVE  i[1] = "mapping" /\ i[2] = e /\ MappingRows(e, maps)[i] \in Nat
<1>1. DOMAIN MappingRows(e, maps) = {MappingId(e, m.asset, m.type) : m \in maps}
  BY DEF MappingRows
<1>2. PICK m0 \in maps : i = MappingId(e, m0.asset, m0.type)
  BY <1>1
<1>3. QED
  <2>1. i[1] = "mapping" /\ i[2] = e /\ i[3] = m0.asset /\ i[4] = m0.type
    BY <1>2 DEF MappingId
  <2> DEFINE m == CHOOSE m \in maps : m.asset = i[3] /\ m.type = i[4]
  <2>2. m \in maps
    BY <2>1
  <2>3. MappingRows(e, maps)[i] = m.weight
    BY <1>2 DEF MappingRows
  <2>4. QED
    BY <2>1, <2>2, <2>3 DEF ValidMapping

LEMMA EventRowsAre ==
  ASSUME NEW b, ValidEvent(b), NEW rows, rows = EventRows(b)
  PROVE  /\ EventId(b.code) \in DOMAIN rows
         /\ \A i \in DOMAIN rows :
               \/ i = EventId(b.code) /\ rows[i].severity \in DOMAIN BaseShock
               \/ i[1] = "mapping" /\ rows[i] \in Nat
<1> DEFINE id    == EventId(b.code)
           event == Row(id, [scope |-> b.scope, severity |-> b.severity])
           maps  == MappingRows(b.code, b.maps)
<1>1. rows = Over(event, maps)
  BY DEF EventRows
<1>2. DOMAIN event = {id} /\ event[id].severity \in DOMAIN BaseShock
  <2>1. DOMAIN event = {id} /\ event[id] = [scope |-> b.scope, severity |-> b.severity]
    BY RowIs
  <2>2. QED
    BY <2>1 DEF ValidEvent
<1>3. \A i \in DOMAIN maps : i[1] = "mapping" /\ maps[i] \in Nat
  <2>1. \A m \in b.maps : ValidMapping(m)
    BY DEF ValidEvent
  <2>2. QED
    BY <2>1, MappingRowsAre
<1> HIDE DEF event, maps, id
<1>4. DOMAIN rows = {id} \cup DOMAIN maps
  BY <1>1, <1>2, OverDomain
<1>5. rows[id] = event[id]
  BY <1>1, <1>2, OverLeft
<1>6. \A i \in DOMAIN maps : i # id => rows[i] = maps[i]
  BY <1>1, <1>2, OverRight
<1>7. QED
  BY <1>2, <1>3, <1>4, <1>5, <1>6 DEF id

\* A derived scenario has a vector of numbers.
LEMMA DerivedVector ==
  ASSUME NEW event, event.severity \in DOMAIN BaseShock,
         NEW profile, profile = None \/ IsTemplate(profile),
         NEW weight, \A i \in DOMAIN weight : weight[i] \in Nat,
         NEW won \in Winners(event, DOMAIN weight)
  PROVE  IsVector(ShockVector(event, profile, weight, won))
<1> DEFINE base       == BaseOf(event, profile)
           isIndex(i) == event.scope = "indice" /\ i[4] = "index"
           given      == {i \in DOMAIN weight : ~ isIndex(i)}
           priced     == [a \in {i[3] : i \in given} |->
                             base * weight[CHOOSE i \in given \cap won : i[3] = a]]
           explicit   == IF profile = None THEN NoRows ELSE profile.tickers
           v          == ShockVector(event, profile, weight, won)
<1>1. base \in Int
  BY ResearchTablesAssumption DEF BaseOf, IsTemplate
<1>2. /\ v.default = IF event.scope \in {"brasil", "global"} THEN base ELSE 0
      /\ v.tickers = Over(explicit, priced)
      /\ {"default", "tickers"} \subseteq DOMAIN v
  BY DEF ShockVector
<1>3. \A a \in DOMAIN priced : priced[a] \in Int
  <2>1. TAKE a \in DOMAIN priced
  <2>2. PICK i \in given : i[3] = a
    OBVIOUS
  <2>3. PICK j \in won : j[3] = i[3] /\ (isIndex(j) <=> isIndex(i))
    <3> DEFINE section(n) == <<n[3], isIndex(n)>>
    <3>1. {section(n) : n \in won} = {section(n) : n \in DOMAIN weight}
      BY DEF Winners
    <3>2. i \in DOMAIN weight
      OBVIOUS
    <3>3. section(i) \in {section(n) : n \in won}
      BY <3>1, <3>2
    <3>4. PICK j \in won : section(j) = section(i)
      BY <3>3
    <3>5. section(j)[1] = section(i)[1] /\ section(j)[2] = section(i)[2]
      BY <3>4
    <3>6. \A n : section(n)[1] = n[3]
      OBVIOUS
    <3>7. \A n : section(n)[2] = isIndex(n)
      OBVIOUS
    <3> HIDE DEF section, isIndex
    <3>8. QED
      BY <3>5, <3>6, <3>7
  <2>4. j \in given \cap won /\ j[3] = a
    BY <2>2, <2>3 DEF Winners
  <2> DEFINE m == CHOOSE m \in given \cap won : m[3] = a
  <2>5. m \in given \cap won
    BY <2>4
  <2>6. weight[m] \in Int
    BY <2>5
  <2>7. priced[a] = base * weight[m]
    OBVIOUS
  <2> HIDE DEF base, m
  <2>8. QED
    BY <1>1, <2>6, <2>7
<1>4. \A a \in DOMAIN explicit : explicit[a] \in Int
  BY DEF NoRows, IsTemplate, IsShocks
<1> HIDE DEF base, priced, explicit, v
<1>5. ASSUME NEW a \in DOMAIN v.tickers
      PROVE  v.tickers[a] \in Int
  <2>1. a \in DOMAIN explicit \cup DOMAIN priced
    BY <1>2, OverDomain
  <2>2. CASE a \in DOMAIN explicit
    BY <1>2, <1>4, <2>2, OverLeft
  <2>3. CASE a \notin DOMAIN explicit
    BY <1>2, <1>3, <2>1, <2>3, OverRight
  <2>4. QED
    BY <2>2, <2>3
<1>6. QED
  BY <1>1, <1>2, <1>5 DEF IsVector, IsShocks, v

\* A row that the derivation makes is a scenario with such a vector, and it is
\* of the event's mappings and the profile.
LEMMA DerivedIsScenario ==
  ASSUME NEW d, Tables(d), NEW b, EventId(b.event) \in DOMAIN d,
         NEW maps \in SUBSET MappingsIn(d, b.event), NEW p \in Usable(d, b),
         NEW row \in DerivedIn(d, b.event, maps, p)
  PROVE  /\ IsVector(row.vector)
         /\ row.assets = maps /\ row.profile = p
<1> DEFINE event   == d[EventId(b.event)]
           profile == IF p = None THEN None ELSE d[p]
           weight  == [i \in maps |-> d[i]]
<1>1. event.severity \in DOMAIN BaseShock
  <2>1. RowType(EventId(b.event), event)
    BY DEF Tables
  <2>2. QED
    BY <2>1 DEF RowType, EventId
<1>2. profile = None \/ IsTemplate(profile)
  <2>1. CASE p = None
    BY <2>1
  <2>2. CASE p # None
    <3>1. p \in DOMAIN d /\ p[1] = "profile"
      BY <2>2 DEF Usable, ProfilesIn
    <3>2. RowType(p, d[p])
      BY <3>1 DEF Tables
    <3>3. QED
      BY <2>2, <3>1, <3>2 DEF RowType
  <2>3. QED
    BY <2>1, <2>2
<1>3. DOMAIN weight = maps /\ \A i \in DOMAIN weight : weight[i] \in Nat
  <2>1. ASSUME NEW i \in maps PROVE d[i] \in Nat
    <3>1. i \in DOMAIN d /\ i[1] = "mapping"
      BY DEF MappingsIn
    <3>2. RowType(i, d[i])
      BY <3>1 DEF Tables
    <3>3. QED
      BY <3>1, <3>2 DEF RowType
  <2>2. QED
    BY <2>1
<1>4. PICK won \in Winners(event, maps) :
         row = ScenarioRow(b.event, p, maps, ShockVector(event, profile, weight, won))
  BY DEF DerivedIn
<1>5. row.vector = ShockVector(event, profile, weight, won) /\ row.assets = maps /\ row.profile = p
  BY <1>4 DEF ScenarioRow
<1> HIDE DEF event, profile, weight
<1>6. QED
  BY <1>1, <1>2, <1>3, <1>5, DerivedVector

\* What a call writes has the types of its tables.
LEMMA WritesTyped ==
  ASSUME NEW d, Tables(d), NEW b, b.kind \in Kinds, Proper(b), Needs(b) \subseteq DOMAIN d,
         NEW rows \in Writes(b, d), NEW i \in DOMAIN rows
  PROVE  RowType(i, rows[i])
<1>1. CASE b.kind = "seed"
  <2>1. rows = SeedRows
    BY <1>1, SeedWrites
  <2>2. CASE i \in DOMAIN DefaultRows
    <3>1. rows[i] = DefaultRows[i] /\ i[1] = "constraint"
      BY <2>1, <2>2, SeedRowsAre, DefaultIds
    <3>2. DefaultRows[i] = [value |-> DefaultRows[i].value]
      BY <2>2 DEF DefaultRows, Atomic!DefaultRows
    <3>3. QED
      BY <3>1, <3>2 DEF RowType
  <2>3. CASE i \in DOMAIN System \cup DOMAIN DefaultTemplates
    <3>1. i[1] \in {"user", "family", "template"}
      BY <2>3, DefaultIds
    <3>2. QED
      BY <3>1 DEF RowType
  <2>4. QED
    BY <2>1, <2>2, <2>3, SeedRowsAre
<1>2. CASE b.kind = "template"
  <2> DEFINE added == TemplateRows(b.slug, b.constraints)
  <2>1. rows = Over(System, added)
    BY <1>2, TemplateWrites
  <2>2. CASE i \in DOMAIN System
    <3>1. i[1] \in {"user", "family"}
      BY <2>2, DefaultIds
    <3>2. QED
      BY <3>1 DEF RowType
  <2>3. CASE i \notin DOMAIN System
    <3>1. i \in DOMAIN added /\ rows[i] = added[i]
      <4> HIDE DEF added
      <4>1. i \in DOMAIN added
        BY <2>1, <2>3, OverDomain
      <4>2. QED
        BY <2>1, <2>3, <4>1, OverRight
    <3>2. i = TemplateId(b.slug) \/ \E key \in DOMAIN b.constraints : i = ConstraintId(b.slug, key)
      BY <3>1, TemplateRowsAre
    <3>3. i[1] \in {"template", "constraint"}
      BY <3>2 DEF TemplateId, ConstraintId
    <3>4. i[1] = "constraint" => added[i] = [value |-> added[i].value]
      BY <3>1, TemplateRowsAre
    <3> HIDE DEF added
    <3>5. QED
      BY <3>1, <3>3, <3>4 DEF RowType
  <2>4. QED
    BY <2>2, <2>3
<1>3. CASE b.kind = "portfolio"
  <2>1. i = PortfolioId(b.name) \/ \E t : i = PositionId(b.name, t)
    <3>1. rows = PortfolioRows(b)
      BY <1>3, PortfolioWrites
    <3>2. QED
      BY <3>1, PortfolioRowsAre
  <2>2. QED
    BY <2>1 DEF RowType, PortfolioId, PositionId
<1>4. CASE b.kind = "event"
  <2>1. rows = EventRows(b) /\ ValidEvent(b)
    BY <1>4, EventWrites DEF Proper, Valid
  <2>2. \/ i = EventId(b.code) /\ rows[i].severity \in DOMAIN BaseShock
        \/ i[1] = "mapping" /\ rows[i] \in Nat
    BY <2>1, EventRowsAre
  <2>3. QED
    BY <2>2 DEF RowType, EventId
<1>5. CASE b.kind = "mapping"
  <2>1. rows = MappingRows(b.event, {b}) /\ \A m \in {b} : ValidMapping(m)
    <3>1. rows = MappingRows(b.event, {b})
      BY <1>5, MappingWrites
    <3>2. ValidMapping(b)
      BY <1>5 DEF Proper, Valid
    <3>3. QED
      BY <3>1, <3>2
  <2>2. i[1] = "mapping" /\ rows[i] \in Nat
    BY <2>1, MappingRowsAre
  <2>3. QED
    BY <2>2 DEF RowType
<1>6. CASE b.kind = "profile"
  <2>1. rows = Row(ProfileId(b.event, b.name), b.template) /\ IsTemplate(b.template)
    BY <1>6, ProfileWrites DEF Proper, Valid
  <2>2. i = ProfileId(b.event, b.name) /\ rows[i] = b.template
    BY <2>1, InRow
  <2>3. QED
    BY <1>6, <2>1, <2>2 DEF RowType, ProfileId, Proper
<1>7. CASE b.kind = "scenario"
  <2>1. rows = Row(ScenarioId(b.slug), ScenarioRow(None, None, {}, b.vector)) /\ ValidScenario(b)
    BY <1>7, ScenarioWrites DEF Proper, Valid
  <2>2. i = ScenarioId(b.slug) /\ rows[i].vector = b.vector
    BY <2>1, InRow DEF ScenarioRow
  <2>3. IsVector(b.vector)
    BY <2>1 DEF ValidScenario, IsVector
  <2>4. QED
    BY <2>2, <2>3 DEF RowType, ScenarioId
<1>8. CASE b.kind = "derive"
  <2>1. PICK row \in Derivable(d, b) : rows = Row(ScenarioId(b.slug), row)
    BY <1>8, DeriveWrites
  <2>2. i = ScenarioId(b.slug) /\ rows[i] = row
    BY <2>1, InRow
  <2>3. IsVector(row.vector)
    <3>1. EventId(b.event) \in DOMAIN d
      BY <1>8, NeedsAre
    <3>2. PICK maps \in SUBSET MappingsIn(d, b.event), p \in Usable(d, b) :
              row \in DerivedIn(d, b.event, maps, p)
      BY DEF Derivable
    <3>3. QED
      BY <3>1, <3>2, DerivedIsScenario
  <2>4. QED
    BY <2>2, <2>3 DEF RowType, ScenarioId
<1>9. CASE b.kind = "run"
  <2>1. i = RunId(b.slug, b.portfolio, b.date)
    BY <1>9, RunWrites, InRow
  <2>2. QED
    BY <2>1 DEF RowType, RunId
<1>10. CASE b.kind = "whatif"
  <2>1. i = WhatIfId(b.slug, b.portfolio, b.date)
    BY <1>10, WhatIfWrites, InRow
  <2>2. QED
    BY <2>1 DEF RowType, WhatIfId
<1>11. QED
  BY <1>1, <1>2, <1>3, <1>4, <1>5, <1>6, <1>7, <1>8, <1>9, <1>10 DEF Kinds, Finders

\* Positions come with their portfolio only, and a run comes alone.
LEMMA WritesIds ==
  ASSUME NEW d, NEW b, b.kind \in Kinds, Proper(b), NEW rows \in Writes(b, d), NEW i \in DOMAIN rows
  PROVE  /\ i[1] = "position" => b.kind = "portfolio" /\ i[2] = b.name
         /\ i[1] = "run" =>
               /\ b.kind = "run" /\ i[2] = b.slug /\ i[3] = b.portfolio
               /\ rows[i] = RunIn(d, b)
         /\ i[1] = "whatif" =>
               /\ b.kind = "whatif" /\ i[2] = b.slug /\ i[3] = b.portfolio
               /\ rows[i] = WhatIfIn(d, b)
<1>1. CASE b.kind = "seed"
  <2>1. rows = SeedRows
    BY <1>1, SeedWrites
  <2>2. i[1] \in {"constraint", "user", "family", "template"}
    BY <2>1, SeedRowsAre, DefaultIds
  <2>3. QED
    BY <2>2
<1>2. CASE b.kind = "template"
  <2> DEFINE added == TemplateRows(b.slug, b.constraints)
  <2>1. rows = Over(System, added)
    BY <1>2, TemplateWrites
  <2>2. \A j \in DOMAIN added : j = TemplateId(b.slug) \/ \E key : j = ConstraintId(b.slug, key)
    BY TemplateRowsAre
  <2> HIDE DEF added
  <2>3. i \in DOMAIN System \cup DOMAIN added
    BY <2>1, OverDomain
  <2>4. i[1] \in {"user", "family", "template", "constraint"}
    BY <2>2, <2>3, DefaultIds DEF TemplateId, ConstraintId
  <2>5. QED
    BY <2>4
<1>3. CASE b.kind = "portfolio"
  <2>1. i = PortfolioId(b.name) \/ \E t : i = PositionId(b.name, t)
    <3>1. rows = PortfolioRows(b)
      BY <1>3, PortfolioWrites
    <3>2. QED
      BY <3>1, PortfolioRowsAre
  <2>2. QED
    BY <1>3, <2>1 DEF PortfolioId, PositionId
<1>4. CASE b.kind = "event"
  <2>1. rows = EventRows(b) /\ ValidEvent(b)
    BY <1>4, EventWrites DEF Proper, Valid
  <2>2. i = EventId(b.code) \/ i[1] = "mapping"
    BY <2>1, EventRowsAre
  <2>3. QED
    BY <2>2 DEF EventId
<1>5. CASE b.kind = "mapping"
  <2>1. rows = MappingRows(b.event, {b}) /\ \A m \in {b} : ValidMapping(m)
    <3>1. rows = MappingRows(b.event, {b})
      BY <1>5, MappingWrites
    <3>2. ValidMapping(b)
      BY <1>5 DEF Proper, Valid
    <3>3. QED
      BY <3>1, <3>2
  <2>2. i[1] = "mapping"
    BY <2>1, MappingRowsAre
  <2>3. QED
    BY <2>2
<1>6. CASE b.kind = "profile"
  <2>1. i = ProfileId(b.event, b.name)
    BY <1>6, ProfileWrites, InRow
  <2>2. QED
    BY <2>1 DEF ProfileId
<1>7. CASE b.kind \in {"scenario", "derive"}
  <2>1. \E row : rows = Row(ScenarioId(b.slug), row)
    BY <1>7, ScenarioWrites, DeriveWrites
  <2>2. i = ScenarioId(b.slug)
    BY <2>1, InRow
  <2>3. QED
    BY <2>2 DEF ScenarioId
<1>8. CASE b.kind = "run"
  <2>1. i = RunId(b.slug, b.portfolio, b.date) /\ rows[i] = RunIn(d, b)
    BY <1>8, RunWrites, InRow
  <2>2. QED
    BY <1>8, <2>1 DEF RunId
<1>9. CASE b.kind = "whatif"
  <2>1. i = WhatIfId(b.slug, b.portfolio, b.date) /\ rows[i] = WhatIfIn(d, b)
    BY <1>9, WhatIfWrites, InRow
  <2>2. QED
    BY <1>9, <2>1 DEF WhatIfId
<1>10. QED
  BY <1>1, <1>2, <1>3, <1>4, <1>5, <1>6, <1>7, <1>8, <1>9 DEF Kinds, Finders

-----------------------------------------------------------------------------
(* A commit.                                                               *)

\* What a commit writes: nothing, the default rows over what is there, or new
\* rows beside it.
Adds(b, d, e, rows) ==
    /\ rows \in Writes(b, d)
    /\ Named(b) \notin DOMAIN d
    /\ e = Over(d, rows)

Wrote(b, d, e) ==
    \/ b.kind \in Finders /\ Named(b) \in DOMAIN d /\ e = d
    \/ b.kind = "seed" /\ e = Over(DefaultRows, Over(d, Over(System, DefaultTemplates)))
    \/ b.kind \in Kinds \ {"seed"} /\ \E rows \in Writes(b, d) : Adds(b, d, e, rows)

LEMMA SameFunction ==
  ASSUME NEW a, NEW b, NEW c, NEW d, NEW f, NEW g, f = Over(a, b), g = Over(c, d),
         DOMAIN f = DOMAIN g, \A i \in DOMAIN f : f[i] = g[i]
  PROVE  f = g
  BY DEF Over

\* A seed writes the default rows, whatever there was.
LEMMA SeedWrote ==
  ASSUME NEW s, NEW d, s.todo = {},
         \A i \in s.held : i \in DOMAIN SeedRows /\ s.mem[i] = SeedRows[i],
         \A i \in s.held : i \in DOMAIN d => Amendable(i),
         \A i \in DOMAIN SeedRows : Settled(s, d, i)
  PROVE  Over([i \in s.held |-> s.mem[i]], d)
             = Over(DefaultRows, Over(d, Over(System, DefaultTemplates)))
<1> DEFINE held  == [i \in s.held |-> s.mem[i]]
           lower == Over(System, DefaultTemplates)
           above == Over(d, lower)
           f     == Over(held, d)
           g     == Over(DefaultRows, above)
<1>1. DOMAIN held = s.held /\ \A i \in s.held : held[i] = s.mem[i]
  OBVIOUS
<1>2. SeedRows = Over(DefaultRows, lower)
  BY DEF SeedRows
<1> HIDE DEF held, lower
<1>3. DOMAIN f = s.held \cup DOMAIN d
  BY <1>1, OverDomain
<1>4. DOMAIN above = DOMAIN d \cup DOMAIN lower
  BY OverDomain
<1>5. DOMAIN g = DOMAIN DefaultRows \cup DOMAIN above
  BY OverDomain
<1>6. DOMAIN SeedRows = DOMAIN DefaultRows \cup DOMAIN lower
  BY <1>2, OverDomain
<1>7. DOMAIN f = DOMAIN g
  BY <1>3, <1>4, <1>5, <1>6 DEF Settled
<1>8. ASSUME NEW i \in DOMAIN f
      PROVE  f[i] = g[i]
  <2>1. CASE i \in DOMAIN DefaultRows
    <3>1. g[i] = DefaultRows[i] /\ SeedRows[i] = DefaultRows[i]
      BY <1>2, <2>1, OverLeft
    <3>2. CASE i \in s.held
      <4>1. f[i] = s.mem[i]
        BY <1>1, <3>2, OverLeft
      <4>2. QED
        BY <3>1, <3>2, <4>1
    <3>3. CASE i \notin s.held
      <4>1. i \in DOMAIN d /\ d[i] = DefaultRows[i]
        BY <1>6, <2>1, <3>3 DEF Settled
      <4>2. f[i] = d[i]
        BY <1>1, <3>3, <4>1, OverRight
      <4>3. QED
        BY <3>1, <4>1, <4>2
    <3>4. QED
      BY <3>2, <3>3
  <2>2. CASE i \notin DOMAIN DefaultRows /\ i \in DOMAIN d
    <3>1. i \notin s.held
      <4>1. SUFFICES ASSUME i \in s.held PROVE FALSE
        OBVIOUS
      <4>2. i \in DOMAIN SeedRows /\ i[1] = "constraint"
        BY <2>2, <4>1 DEF Amendable
      <4>3. QED
        BY <2>2, <4>2, SeedRowsAre, DefaultIds
    <3>2. f[i] = d[i]
      BY <1>1, <2>2, <3>1, OverRight
    <3>3. above[i] = d[i]
      BY <2>2, OverLeft
    <3> HIDE DEF above
    <3>4. g[i] = above[i]
      BY <1>4, <2>2, OverRight
    <3>5. QED
      BY <3>2, <3>3, <3>4
  <2>3. CASE i \notin DOMAIN DefaultRows /\ i \notin DOMAIN d
    <3>1. i \in s.held /\ i \in DOMAIN lower
      BY <1>3, <1>6, <2>3
    <3>2. f[i] = s.mem[i] /\ s.mem[i] = SeedRows[i]
      BY <1>1, <3>1, OverLeft
    <3>3. SeedRows[i] = lower[i]
      BY <1>2, <2>3, <3>1, OverRight
    <3>4. above[i] = lower[i]
      BY <2>3, <3>1, OverRight
    <3> HIDE DEF above
    <3>5. g[i] = above[i]
      BY <1>4, <2>3, <3>1, OverRight
    <3>6. QED
      BY <3>2, <3>3, <3>4, <3>5
  <2>4. QED
    BY <2>1, <2>2, <2>3
<1> HIDE DEF f, g, above
<1>9. f = g
  BY <1>7, <1>8, SameFunction DEF f, g
<1>10. QED
  BY <1>9 DEF f, g, above, lower, held

\* A session at its commit writes what its call writes.
LEMMA CommitWrote ==
  ASSUME NEW s, NEW b, NEW d, Tables(d), Content(s, b, d),
         s.at = "commit", s.todo = {}, s.new \cup s.held \subseteq DOMAIN s.mem,
         \A i \in s.held : i \in DOMAIN d => Amendable(i)
  PROVE  Wrote(b, d, Over([i \in s.held |-> s.mem[i]], d))
<1> DEFINE e == Over([i \in s.held |-> s.mem[i]], d)
<1>1. CASE Found(s, b, d)
  <2> DEFINE held == [i \in s.held |-> s.mem[i]]
  <2>1. s.held = {}
    BY <1>1 DEF Found
  <2>2. DOMAIN held = {}
    BY <2>1
  <2> HIDE DEF held
  <2>3. Over(held, d) = d
    BY <2>2, OverNothing DEF Tables
  <2>4. e = d
    BY <2>3 DEF held
  <2> HIDE DEF e
  <2>5. QED
    BY <1>1, <2>4 DEF Wrote, Found, e
<1>2. ASSUME NEW rows \in Writes(b, d), Lands(s, b, d, rows)
      PROVE  Wrote(b, d, e)
  <2>1. \A i \in s.held : i \in DOMAIN rows /\ s.mem[i] = rows[i]
    BY <1>2 DEF Lands, Carries
  <2>2. \A i \in DOMAIN rows : Settled(s, d, i)
    BY <1>2 DEF Lands
  <2>3. CASE b.kind = "seed"
    <3>1. rows = SeedRows
      BY <2>3, SeedWrites
    <3>2. e = Over(DefaultRows, Over(d, Over(System, DefaultTemplates)))
      BY <2>1, <2>2, <3>1, SeedWrote
    <3> HIDE DEF e
    <3>3. QED
      BY <2>3, <3>2 DEF Wrote, e
  <2>4. CASE b.kind # "seed"
    <3>1. \A i \in s.held : i \notin DOMAIN d
      BY <2>4 DEF Content, HeldInv
    <3>2. e = Over(d, rows)
      BY <2>1, <2>2, <3>1, WriteIsAdd DEF Settled
    <3>3. Named(b) \notin DOMAIN d
      BY <1>2, <2>4 DEF Lands, Content, HeldInv
    <3>4. b.kind \in Kinds
      BY DEF Content, StageInv
    <3> HIDE DEF e
    <3>5. QED
      BY <1>2, <2>4, <3>2, <3>3, <3>4 DEF Wrote, Adds, e
  <2>5. QED
    BY <2>3, <2>4
<1>3. QED
  BY <1>1, <1>2 DEF Content, RowsInv

\* So the tables grow by a commit.
LEMMA WroteGrows ==
  ASSUME NEW b, NEW d, NEW e, Tables(d), Proper(b), Wrote(b, d, e)
  PROVE  Grows(d, e)
<1>1. CASE e = d
  BY <1>1 DEF Grows
<1>2. CASE b.kind = "seed" /\ e = Over(DefaultRows, Over(d, Over(System, DefaultTemplates)))
  <2> DEFINE lower == Over(System, DefaultTemplates)
             above == Over(d, lower)
  <2>1. DOMAIN lower = DOMAIN System \cup DOMAIN DefaultTemplates
    BY OverDomain
  <2> HIDE DEF lower
  <2>2. DOMAIN above = DOMAIN d \cup DOMAIN lower
    BY OverDomain
  <2>3. \A i \in DOMAIN d : above[i] = d[i]
    BY OverLeft
  <2> HIDE DEF above
  <2>4. e = Over(DefaultRows, above)
    BY <1>2 DEF above, lower
  <2>5. DOMAIN e = DOMAIN DefaultRows \cup DOMAIN above
    BY <2>4, OverDomain
  <2>6. \A i \in DOMAIN DefaultRows : e[i] = DefaultRows[i]
    BY <2>4, OverLeft
  <2>7. \A i \in DOMAIN above : i \notin DOMAIN DefaultRows => e[i] = above[i]
    BY <2>4, OverRight
  <2>8. \A i \in DOMAIN e \ DOMAIN d : i[1] \in {"constraint", "user", "family", "template"}
    BY <2>1, <2>2, <2>5, DefaultIds
  <2>9. QED
    BY <2>2, <2>3, <2>5, <2>6, <2>7, <2>8 DEF Grows
<1>3. ASSUME NEW rows \in Writes(b, d), Adds(b, d, e, rows), b.kind \in Kinds
      PROVE  Grows(d, e)
  <2>1. DOMAIN e = DOMAIN d \cup DOMAIN rows
    BY <1>3, OverDomain DEF Adds
  <2>2. \A i \in DOMAIN d : e[i] = d[i]
    BY <1>3, OverLeft DEF Adds
  <2>3. ASSUME NEW i \in DOMAIN e \ DOMAIN d, i[1] = "position"
        PROVE  PortfolioId(i[2]) \notin DOMAIN d
    <3>1. b.kind = "portfolio" /\ i[2] = b.name
      BY <1>3, <2>1, <2>3, WritesIds
    <3>2. Named(b) = PortfolioId(b.name)
      BY <3>1, NamedIs
    <3>3. QED
      BY <1>3, <3>1, <3>2 DEF Adds
  <2>4. QED
    BY <2>1, <2>2, <2>3 DEF Grows
<1>4. QED
  BY <1>1, <1>2, <1>3 DEF Wrote

-----------------------------------------------------------------------------
(* What a session carries, and what the tables hold, when the tables grow. *)

LEMMA SettledGrows ==
  ASSUME NEW s, NEW d, NEW e, Grows(d, e), NEW i, Settled(s, d, i)
  PROVE  Settled(s, e, i)
  BY DEF Grows, Settled

LEMMA SubsetsGrow ==
  ASSUME NEW d, NEW e, Grows(d, e), NEW event
  PROVE  /\ MappingsIn(d, event) \subseteq MappingsIn(e, event)
         /\ ProfilesIn(d, event) \subseteq ProfilesIn(e, event)
  BY DEF Grows, MappingsIn, ProfilesIn

\* What another session commits leaves a session in order, unless it is a row
\* that this one holds.
LEMMA ContentGrows ==
  ASSUME NEW s, NEW b, NEW d, NEW e, Tables(d), Grows(d, e), Content(s, b, d),
         \A i \in s.held : i \in DOMAIN e => i \in DOMAIN d
  PROVE  Content(s, b, e)
<1>1. StageInv(s, b) /\ EmptyInv(s) /\ CurrentInv(s, b)
  BY DEF Content
<1>2. Needs(b) \subseteq DOMAIN d /\ b.kind \in Kinds
  BY DEF Content, StageInv
<1>3. Needs(b) \subseteq DOMAIN e
  BY <1>2 DEF Grows
<1>4. HeldInv(s, b, e)
  BY DEF Content, HeldInv
<1>5. SystemInv(s, e)
  BY DEF Content, SystemInv, Grows
<1>6. DoneInv(s, b, e)
  BY SettledGrows DEF Content, DoneInv
<1>7. ReadInv(s, b, e)
  BY SubsetsGrow DEF Content, ReadInv
<1>8. RowsInv(s, b, e)
  <2>1. ASSUME s.at \in {"user", "family", "seed", "template"}, NEW rows \in Writes(b, e)
        PROVE  Carries(s, rows)
    <3>1. b.kind \in {"seed", "template"}
      BY <2>1 DEF Content, StageInv
    <3>2. Writes(b, e) = Writes(b, d)
      BY <3>1, SeedWrites, TemplateWrites
    <3>3. QED
      BY <2>1, <3>2 DEF Content, RowsInv
  <2>2. ASSUME Found(s, b, d) PROVE Found(s, b, e)
    BY <2>2 DEF Found, Grows
  <2>3. ASSUME NEW rows \in Writes(b, d), Lands(s, b, d, rows)
        PROVE  rows \in Writes(b, e) /\ Lands(s, b, e, rows)
    <3>1. rows \in Writes(b, e)
      BY <1>2, WritesGrow
    <3>2. QED
      BY <2>3, <3>1, SettledGrows DEF Lands
  <2>4. QED
    BY <2>1, <2>2, <2>3 DEF Content, RowsInv
<1>9. QED
  BY <1>1, <1>3, <1>4, <1>5, <1>6, <1>7, <1>8 DEF Content

\* A run stays what the scenario makes of the portfolio.
LEMMA RunsExactGrows ==
  ASSUME NEW d, NEW e, Tables(d), Grows(d, e), NEW i \in DOMAIN d, i[1] \in {"run", "whatif"}
  PROVE  /\ {ScenarioId(i[2]), PortfolioId(i[3])} \subseteq DOMAIN e
         /\ i[1] = "run" => e[i] = AppliedIn(e, i[3], e[ScenarioId(i[2])].vector)
         /\ i[1] = "whatif" =>
               e[i] = Over([assumed |-> e[i].assumed],
                           AppliedIn(e, i[3], Adjusted(e[ScenarioId(i[2])].vector, e[i].assumed)))
<1>1. {ScenarioId(i[2]), PortfolioId(i[3])} \subseteq DOMAIN d
  BY DEF Tables, RunsExact
<1>2. e[i] = d[i] /\ e[ScenarioId(i[2])] = d[ScenarioId(i[2])]
  BY <1>1, GrowsKeeps DEF ScenarioId
<1>3. \A vector : AppliedIn(e, i[3], vector) = AppliedIn(d, i[3], vector)
  BY <1>1, AppliedGrows
<1>4. {ScenarioId(i[2]), PortfolioId(i[3])} \subseteq DOMAIN e
  BY <1>1 DEF Grows
<1>5. i[1] = "run" => d[i] = AppliedIn(d, i[3], d[ScenarioId(i[2])].vector)
  BY DEF Tables, RunsExact
<1>6. i[1] = "whatif" =>
          d[i] = Over([assumed |-> d[i].assumed],
                      AppliedIn(d, i[3], Adjusted(d[ScenarioId(i[2])].vector, d[i].assumed)))
  BY DEF Tables, RunsExact
<1>7. QED
  BY <1>2, <1>3, <1>4, <1>5, <1>6

\* So does one that is added.
LEMMA RunAdded ==
  ASSUME NEW d, NEW e, Tables(d), Grows(d, e), NEW b, b.kind \in Kinds, Proper(b),
         Needs(b) \subseteq DOMAIN d, NEW rows \in Writes(b, d), NEW i \in DOMAIN rows,
         e[i] = rows[i], i[1] \in {"run", "whatif"}
  PROVE  /\ {ScenarioId(i[2]), PortfolioId(i[3])} \subseteq DOMAIN e
         /\ i[1] = "run" => e[i] = AppliedIn(e, i[3], e[ScenarioId(i[2])].vector)
         /\ i[1] = "whatif" =>
               e[i] = Over([assumed |-> e[i].assumed],
                           AppliedIn(e, i[3], Adjusted(e[ScenarioId(i[2])].vector, e[i].assumed)))
<1>1. b.kind \in {"run", "whatif"} /\ i[2] = b.slug /\ i[3] = b.portfolio
  BY WritesIds
<1>2. {ScenarioId(b.slug), PortfolioId(b.portfolio)} \subseteq DOMAIN d
  BY <1>1, NeedsAre
<1>3. RunIn(e, b) = RunIn(d, b) /\ WhatIfIn(e, b) = WhatIfIn(d, b)
  BY <1>2, RunGrows
<1>4. {ScenarioId(i[2]), PortfolioId(i[3])} \subseteq DOMAIN e
  BY <1>1, <1>2 DEF Grows
<1>5. ASSUME i[1] = "run" PROVE e[i] = AppliedIn(e, i[3], e[ScenarioId(i[2])].vector)
  <2>1. rows[i] = RunIn(d, b)
    BY <1>5, WritesIds
  <2>2. QED
    BY <1>1, <1>3, <2>1 DEF RunIn
<1>6. ASSUME i[1] = "whatif"
      PROVE  e[i] = Over([assumed |-> e[i].assumed],
                         AppliedIn(e, i[3], Adjusted(e[ScenarioId(i[2])].vector, e[i].assumed)))
  <2>1. rows[i] = WhatIfIn(d, b)
    BY <1>6, WritesIds
  <2>2. WhatIfIn(e, b).assumed = b.assumed
    BY DEF WhatIfIn, Over
  <2>3. e[i] = WhatIfIn(e, b) /\ e[i].assumed = b.assumed
    BY <1>3, <2>1, <2>2
  <2>4. QED
    BY <1>1, <2>3 DEF WhatIfIn
<1>7. QED
  BY <1>4, <1>5, <1>6

\* The tables keep their types, and their runs, when a call is carried out.
LEMMA TablesWrote ==
  ASSUME NEW b, NEW d, NEW e, Tables(d), b.kind \in Kinds, Proper(b), Needs(b) \subseteq DOMAIN d,
         Wrote(b, d, e)
  PROVE  Tables(e)
<1>1. Grows(d, e)
  BY WroteGrows
<1>2. e = [i \in DOMAIN e |-> e[i]]
  BY DEF Wrote, Adds, Tables, Over
<1>3. ASSUME NEW i \in DOMAIN e
      PROVE  \/ i \in DOMAIN d /\ e[i] = d[i]
             \/ i[1] = "constraint" /\ e[i] = [value |-> e[i].value]
             \/ \E rows \in Writes(b, d) : i \in DOMAIN rows /\ e[i] = rows[i]
  <2>1. CASE e = d
    BY <2>1
  <2>2. CASE b.kind = "seed" /\ e = Over(DefaultRows, Over(d, Over(System, DefaultTemplates)))
    <3> DEFINE lower == Over(System, DefaultTemplates)
               above == Over(d, lower)
    <3>1. SeedRows = Over(DefaultRows, lower) /\ SeedRows \in Writes(b, d)
      BY <2>2, SeedWrites DEF SeedRows
    <3>2. e = Over(DefaultRows, above)
      BY <2>2
    <3> HIDE DEF lower
    <3>3. DOMAIN above = DOMAIN d \cup DOMAIN lower
      BY OverDomain
    <3>4. CASE i \in DOMAIN DefaultRows
      <4>1. e[i] = DefaultRows[i] /\ SeedRows[i] = DefaultRows[i]
        BY <3>1, <3>2, <3>4, OverLeft
      <4>2. i \in DOMAIN SeedRows
        BY <3>1, <3>4, OverDomain
      <4>3. QED
        BY <3>1, <4>1, <4>2
    <3>5. CASE i \notin DOMAIN DefaultRows
      <4>1. i \in DOMAIN above
        <5> HIDE DEF above
        <5>1. DOMAIN e = DOMAIN DefaultRows \cup DOMAIN above
          BY <3>2, OverDomain
        <5>2. QED
          BY <3>5, <5>1
      <4>2. e[i] = above[i]
        BY <3>2, <3>5, <4>1, OverRight
      <4>3. CASE i \in DOMAIN d
        <5>1. above[i] = d[i]
          BY <4>3, OverLeft
        <5>2. QED
          BY <4>2, <4>3, <5>1
      <4>4. CASE i \notin DOMAIN d
        <5>1. i \in DOMAIN lower
          BY <3>3, <4>1, <4>4
        <5>2. above[i] = lower[i]
          BY <4>4, <5>1, OverRight
        <5>3. SeedRows[i] = lower[i]
          BY <3>1, <3>5, <5>1, OverRight
        <5>4. i \in DOMAIN SeedRows
          BY <3>1, <5>1, OverDomain
        <5> HIDE DEF above
        <5>5. QED
          BY <3>1, <4>2, <5>2, <5>3, <5>4
      <4>5. QED
        BY <4>3, <4>4
    <3>6. QED
      BY <3>4, <3>5
  <2>3. ASSUME NEW rows \in Writes(b, d), Adds(b, d, e, rows)
        PROVE  \/ i \in DOMAIN d /\ e[i] = d[i]
               \/ i \in DOMAIN rows /\ e[i] = rows[i]
    <3>1. e = Over(d, rows)
      BY <2>3 DEF Adds
    <3>2. i \in DOMAIN d \cup DOMAIN rows
      BY <3>1, OverDomain
    <3>3. CASE i \in DOMAIN d
      BY <3>1, <3>3, OverLeft
    <3>4. CASE i \notin DOMAIN d
      BY <3>1, <3>2, <3>4, OverRight
    <3>5. QED
      BY <3>3, <3>4
  <2>4. QED
    BY <2>1, <2>2, <2>3 DEF Wrote
<1>4. ASSUME NEW i \in DOMAIN e
      PROVE  RowType(i, e[i])
  <2>1. CASE i \in DOMAIN d /\ e[i] = d[i]
    BY <2>1 DEF Tables
  <2>2. CASE i[1] = "constraint" /\ e[i] = [value |-> e[i].value]
    BY <2>2 DEF RowType
  <2>3. CASE \E rows \in Writes(b, d) : i \in DOMAIN rows /\ e[i] = rows[i]
    BY <2>3, WritesTyped
  <2>4. QED
    BY <1>3, <2>1, <2>2, <2>3
<1>5. ASSUME NEW i \in DOMAIN e, i[1] \in {"run", "whatif"}
      PROVE  /\ {ScenarioId(i[2]), PortfolioId(i[3])} \subseteq DOMAIN e
             /\ i[1] = "run" => e[i] = AppliedIn(e, i[3], e[ScenarioId(i[2])].vector)
             /\ i[1] = "whatif" =>
                   e[i] = Over([assumed |-> e[i].assumed],
                               AppliedIn(e, i[3], Adjusted(e[ScenarioId(i[2])].vector, e[i].assumed)))
  <2>1. CASE i \in DOMAIN d
    BY <1>1, <1>5, <2>1, RunsExactGrows
  <2>2. CASE i \notin DOMAIN d
    <3>1. PICK rows \in Writes(b, d) : i \in DOMAIN rows /\ e[i] = rows[i]
      BY <1>3, <1>5, <2>2
    <3>2. QED
      BY <1>1, <1>5, <3>1, RunAdded
  <2>3. QED
    BY <2>1, <2>2
<1>6. RunsExact(e)
  BY <1>5 DEF RunsExact
<1>7. QED
  BY <1>2, <1>4, <1>6 DEF Tables

-----------------------------------------------------------------------------
(* What a commit writes is what AtomicApi's action writes.                 *)

LEMMA AtomicSeed ==
  ASSUME NEW b, b.kind = "seed", Wrote(b, db, db')
  PROVE  Atomic!Seed(b)
<1>1. db' = Over(DefaultRows, Over(db, Over(System, DefaultTemplates)))
  BY DEF Wrote, Finders, Kinds
<1>2. QED
  BY <1>1, SameBasics DEF Atomic!Seed, DefaultRows, System, DefaultTemplates

\* A call other than a seed finds the row that it names or adds its own.
LEMMA FoundOrAdded ==
  ASSUME NEW b, b.kind # "seed", Wrote(b, db, db')
  PROVE  \/ /\ b.kind \in Finders /\ Has(Named(b)) /\ UNCHANGED db
            /\ \A rows : Atomic!FindOrAdd(b, rows)
         \/ \E rows \in Writes(b, db) :
               /\ ~ Has(Named(b))
               /\ Atomic!FindOrAdd(b, rows) /\ Atomic!Insert(b, rows)
<1>1. CASE b.kind \in Finders /\ Named(b) \in DOMAIN db /\ db' = db
  BY <1>1, SameBasics DEF Atomic!FindOrAdd, Named, Has
<1>2. ASSUME NEW rows \in Writes(b, db), Adds(b, db, db', rows)
      PROVE  ~ Has(Named(b)) /\ Atomic!FindOrAdd(b, rows) /\ Atomic!Insert(b, rows)
  BY <1>2, SameBasics DEF Adds, Has, Named, Atomic!FindOrAdd, Atomic!Insert, Atomic!AddNew
<1>3. QED
  BY <1>1, <1>2 DEF Wrote

LEMMA AtomicFactory ==
  ASSUME NEW b, b.kind \in {"template", "portfolio"}, Needs(b) \subseteq DOMAIN db, Wrote(b, db, db')
  PROVE  Atomic!CreateTemplate(b) \/ Atomic!CreateInstance(b)
<1>1. CASE b.kind = "template"
  <2> DEFINE rows == Over(System, TemplateRows(b.slug, b.constraints))
  <2>1. Writes(b, db) = {rows}
    BY <1>1, TemplateWrites
  <2>2. Atomic!Over(Atomic!System, Atomic!TemplateRows(b.slug, b.constraints)) = rows
    BY SameBasics, SameRows DEF System
  <2> HIDE DEF rows
  <2>3. Atomic!FindOrAdd(b, rows)
    BY <1>1, <2>1, FoundOrAdded
  <2>4. QED
    BY <1>1, <2>2, <2>3 DEF Atomic!CreateTemplate
<1>2. CASE b.kind = "portfolio"
  <2>1. Writes(b, db) = {PortfolioRows(b)} /\ b.kind \notin Finders
    BY <1>2, PortfolioWrites DEF Finders
  <2>2. Atomic!Insert(b, PortfolioRows(b))
    BY <1>2, <2>1, FoundOrAdded
  <2>3. Has(TemplateId(b.template))
    BY <1>2, NeedsAre DEF Has
  <2>4. QED
    BY <1>2, <2>2, <2>3, SameBasics, SameKeys, SameRows DEF Atomic!CreateInstance
<1>3. QED
  BY <1>1, <1>2

LEMMA AtomicEvents ==
  ASSUME NEW b, b.kind \in {"event", "mapping", "profile", "scenario"},
         Needs(b) \subseteq DOMAIN db, Wrote(b, db, db')
  PROVE  \/ Atomic!CreateEvent(b) \/ Atomic!AddAssetMapping(b) \/ Atomic!AddImpactProfile(b)
         \/ Atomic!CreateScenario(b)
<1>1. CASE b.kind = "event"
  <2>1. Writes(b, db) = {EventRows(b)}
    BY <1>1, EventWrites
  <2>2. Atomic!FindOrAdd(b, EventRows(b))
    BY <1>1, <2>1, FoundOrAdded
  <2>3. QED
    BY <1>1, <2>2, SameRows DEF Atomic!CreateEvent
<1>2. CASE b.kind = "mapping"
  <2>1. Writes(b, db) = {MappingRows(b.event, {b})} /\ b.kind \notin Finders
    BY <1>2, MappingWrites DEF Finders
  <2>2. Atomic!Insert(b, MappingRows(b.event, {b}))
    BY <1>2, <2>1, FoundOrAdded
  <2>3. Has(EventId(b.event))
    BY <1>2, NeedsAre DEF Has
  <2>4. QED
    BY <1>2, <2>2, <2>3, SameBasics, SameKeys, SameRows DEF Atomic!AddAssetMapping
<1>3. CASE b.kind = "profile"
  <2>1. Writes(b, db) = {ProfileRows(b)} /\ b.kind \notin Finders
    BY <1>3, ProfileWrites DEF Finders, ProfileRows
  <2>2. Atomic!Insert(b, ProfileRows(b))
    BY <1>3, <2>1, FoundOrAdded
  <2>3. Has(EventId(b.event))
    BY <1>3, NeedsAre DEF Has
  <2>4. QED
    BY <1>3, <2>2, <2>3, SameBasics, SameKeys, SameRows DEF Atomic!AddImpactProfile
<1>4. CASE b.kind = "scenario"
  <2>1. Writes(b, db) = {ScenarioRows(b)}
    BY <1>4, ScenarioWrites DEF ScenarioRows
  <2>2. Atomic!FindOrAdd(b, ScenarioRows(b))
    BY <1>4, <2>1, FoundOrAdded
  <2>3. QED
    BY <1>4, <2>2, SameRows DEF Atomic!CreateScenario
<1>5. QED
  BY <1>1, <1>2, <1>3, <1>4

\* From no mappings and a usable profile, some scenario may be derived.
LEMMA SomeDerived ==
  ASSUME NEW b, b.kind = "derive", Needs(b) \subseteq DOMAIN db
  PROVE  \E maps \in SUBSET MappingsIn(db, b.event) : \E p \in Usable(db, b) :
            \E row : row \in DerivedIn(db, b.event, maps, p)
<1>1. \E p : p \in Usable(db, b)
  <2>1. CASE b.profile = None
    BY <2>1 DEF Usable
  <2>2. CASE b.profile # None
    <3>1. ProfileId(b.event, b.profile) \in DOMAIN db
      BY <2>2, NeedsAre
    <3>2. QED
      BY <2>2, <3>1 DEF Usable, ProfilesIn, ProfileId
  <2>3. QED
    BY <2>1, <2>2
<1>2. \A event : {} \in Winners(event, {})
  BY DEF Winners
<1>3. ASSUME NEW p \in Usable(db, b)
      PROVE  \E row : row \in DerivedIn(db, b.event, {}, p)
  BY <1>2 DEF DerivedIn
<1>4. {} \in SUBSET MappingsIn(db, b.event)
  OBVIOUS
<1>5. QED
  BY <1>1, <1>3, <1>4

LEMMA AtomicDerive ==
  ASSUME NEW b, b.kind = "derive", Needs(b) \subseteq DOMAIN db, Wrote(b, db, db')
  PROVE  Atomic!DeriveScenario(b)
<1>1. Has(EventId(b.event))
  BY NeedsAre DEF Has
<1>2. Usable(db, b) = IF b.profile = None THEN Atomic!Profiles(b.event) \cup {None}
                      ELSE Atomic!Profiles(b.event) \cap {Atomic!ProfileId(b.event, b.profile)}
  BY SameKeys DEF Usable
<1>3. ASSUME NEW maps \in SUBSET MappingsIn(db, b.event), NEW p \in Usable(db, b),
             NEW row \in DerivedIn(db, b.event, maps, p),
             Atomic!FindOrAdd(b, Row(Named(b), row))
      PROVE  Atomic!DeriveScenario(b)
  BY <1>1, <1>2, <1>3, SameBasics, SameKeys, DerivedIs DEF Atomic!DeriveScenario, Named
<1>4. CASE \A rows : Atomic!FindOrAdd(b, rows)
  BY <1>3, <1>4, SomeDerived
<1>5. ASSUME NEW rows \in Writes(b, db), Atomic!FindOrAdd(b, rows)
      PROVE  Atomic!DeriveScenario(b)
  <2>1. PICK row \in Derivable(db, b) : rows = Row(ScenarioId(b.slug), row)
    BY DeriveWrites
  <2>2. PICK maps \in SUBSET MappingsIn(db, b.event), p \in Usable(db, b) :
            row \in DerivedIn(db, b.event, maps, p)
    BY DEF Derivable
  <2>3. rows = Row(Named(b), row)
    BY <2>1, NamedIs
  <2>4. QED
    BY <1>3, <1>5, <2>2, <2>3
<1>6. QED
  BY <1>4, <1>5, FoundOrAdded

LEMMA AtomicRuns ==
  ASSUME NEW b, b.kind \in {"run", "whatif"}, Needs(b) \subseteq DOMAIN db, Wrote(b, db, db')
  PROVE  Atomic!RunScenario(b) \/ Atomic!RunCounterfactual(b)
<1>1. Has(ScenarioId(b.slug)) /\ Has(PortfolioId(b.portfolio))
  BY NeedsAre DEF Has
<1>2. CASE b.kind = "run"
  <2>1. Writes(b, db) = {RunRows(b)}
    BY <1>2, RunWrites, SameRuns
  <2>2. Atomic!FindOrAdd(b, RunRows(b))
    BY <1>2, <2>1, FoundOrAdded
  <2>3. QED
    BY <1>1, <1>2, <2>2, SameBasics, SameKeys, SameRuns DEF Atomic!RunScenario
<1>3. CASE b.kind = "whatif"
  <2>1. Writes(b, db) = {WhatIfRows(b)}
    BY <1>3, WhatIfWrites, SameRuns
  <2>2. Atomic!FindOrAdd(b, WhatIfRows(b))
    BY <1>3, <2>1, FoundOrAdded
  <2>3. QED
    BY <1>1, <1>3, <2>2, SameBasics, SameKeys, SameRuns DEF Atomic!RunCounterfactual
<1>4. QED
  BY <1>2, <1>3

LEMMA AtomicExecute ==
  ASSUME NEW b, b.kind \in Kinds, Needs(b) \subseteq DOMAIN db, Wrote(b, db, db')
  PROVE  Atomic!Execute(b)
<1>1. b.kind = "seed" => Atomic!Seed(b)
  BY AtomicSeed
<1>2. b.kind \in {"template", "portfolio"} => Atomic!CreateTemplate(b) \/ Atomic!CreateInstance(b)
  BY AtomicFactory
<1>3. b.kind \in {"event", "mapping", "profile", "scenario"} =>
          \/ Atomic!CreateEvent(b) \/ Atomic!AddAssetMapping(b) \/ Atomic!AddImpactProfile(b)
          \/ Atomic!CreateScenario(b)
  BY AtomicEvents
<1>4. b.kind = "derive" => Atomic!DeriveScenario(b)
  BY AtomicDerive
<1>5. b.kind \in {"run", "whatif"} => Atomic!RunScenario(b) \/ Atomic!RunCounterfactual(b)
  BY AtomicRuns
<1>6. QED
  BY <1>1, <1>2, <1>3, <1>4, <1>5 DEF Kinds, Finders, Atomic!Execute

-----------------------------------------------------------------------------
(* A step of one session.                                                  *)

\* What another session carries does not matter to this one, as long as the
\* tables stay.
LEMMA ContentStep ==
  ASSUME IInv, CInv, NEW w \in Sessions, NEW t, Become(w, t), UNCHANGED <<db, asked, told>>,
         t.at # "idle" =>
             /\ Content(t, asked[t.call], db)
             /\ t.call \notin DOMAIN told
             /\ \A v \in Sessions \ {w} : ses[v].at # "idle" => ses[v].call # t.call
  PROVE  CInv'
<1>1. DOMAIN ses' = Sessions /\ \A v \in Sessions : ses'[v] = IF v = w THEN t ELSE ses[v]
  BY DEF IInv, TypeOK, Become
<1>2. CallsInv'
  BY <1>1 DEF CInv, CallsInv
<1>3. ASSUME NEW v \in Sessions, ses'[v].at # "idle"
      PROVE  Content(ses'[v], asked'[ses'[v].call], db')
  BY <1>1, <1>3 DEF CInv
<1>4. Tables(db)'
  BY DEF CInv
<1>5. SeedIsComplete'
  BY DEF CInv, SeedIsComplete, Has
<1>6. QED
  BY <1>2, <1>3, <1>4, <1>5 DEF CInv

\* A session that works on.
LEMMA WorkStep ==
  ASSUME IInv, CInv, NEW w \in Sessions, NEW t, Become(w, t), UNCHANGED <<db, asked, told>>,
         ses[w].at # "idle", t.call = ses[w].call, Content(t, Body(w), db)
  PROVE  CInv'
<1>1. /\ t.call \notin DOMAIN told
      /\ \A v \in Sessions \ {w} : ses[v].at # "idle" => ses[v].call # t.call
  BY DEF CInv, CallsInv
<1>2. QED
  BY <1>1, ContentStep DEF Body

\* A session that begins.
LEMMA BeginStep ==
  ASSUME IInv, CInv, NEW w \in Sessions, NEW k, NEW kind, Opens(w, k, kind),
         NEW t, Become(w, t), UNCHANGED <<db, asked, told>>,
         t.call = k, Content(t, asked[k], db)
  PROVE  CInv'
<1>1. /\ t.call \notin DOMAIN told
      /\ \A v \in Sessions \ {w} : ses[v].at # "idle" => ses[v].call # t.call
  BY DEF Opens
<1>2. QED
  BY <1>1, ContentStep

\* A session that ends.
LEMMA EndStep ==
  ASSUME IInv, CInv, NEW w \in Sessions, Become(w, Idle), UNCHANGED <<db, asked, told>>
  PROVE  CInv'
  BY ContentStep DEF Idle

LEMMA OpensValid ==
  ASSUME IInv, CInv, NEW w \in Sessions, NEW k, NEW kind, Opens(w, k, kind)
  PROVE  k \in DOMAIN asked /\ asked[k].kind = kind /\ Proper(asked[k])
  BY ResearchApiAssumption DEF Opens, CInv, CallsInv, IInv, TypeOK, Proper

LEMMA WorkValid ==
  ASSUME IInv, CInv, NEW w \in Sessions, ses[w].at # "idle"
  PROVE  /\ Proper(Body(w)) /\ Content(ses[w], Body(w), db)
         /\ DOMAIN ses[w] = Fields
         /\ ses[w].new \cup ses[w].held \cup ses[w].todo \subseteq DOMAIN ses[w].mem
         /\ \A i \in ses[w].held : Has(i) => Amendable(i)
<1>1. ses[w].call \in DOMAIN asked
  BY DEF IInv, TypeOK, SessionType
<1>2. asked[ses[w].call] = Ask[ses[w].call] /\ ses[w].call \in Calls
  BY <1>1, ResearchApiAssumption DEF CInv, CallsInv, IInv, TypeOK
<1>3. QED
  BY <1>2, ResearchApiAssumption, RunningSound DEF CInv, Body, Sound, Proper

-----------------------------------------------------------------------------
(* What handlers do to the rows in memory.                                 *)

LEMMA AddingParts ==
  ASSUME NEW s, DOMAIN s = Fields, NEW rows
  PROVE  /\ DOMAIN Adding(s, rows) = Fields
         /\ Adding(s, rows).at = s.at /\ Adding(s, rows).call = s.call
         /\ Adding(s, rows).seen = s.seen /\ Adding(s, rows).held = s.held
         /\ Adding(s, rows).todo = s.todo \cup DOMAIN rows
         /\ Adding(s, rows).new = s.new \cup DOMAIN rows
  BY AddingFields

LEMMA AddingMem ==
  ASSUME NEW s, DOMAIN s = Fields, NEW rows
  PROVE  Adding(s, rows).mem = Over(rows, s.mem)
  BY DEF Adding, Keeping, Fields

LEMMA SyncedMem ==
  ASSUME NEW s, DOMAIN s = Fields, NEW slug, NEW ids
  PROVE  Synced(s, slug, ids).mem = Over(ConstraintRows(ids, DefaultConstraints[slug]), s.mem)
  BY DEF Synced, Keeping, Fields

LEMMA SyncedNew ==
  ASSUME NEW s, DOMAIN s = Fields, NEW slug, NEW ids
  PROVE  Synced(s, slug, ids).new = s.new \cup {i \in ids : ~ Has(i)}
  BY DEF Synced, Keeping, Fields

LEMMA SyncedParts ==
  ASSUME NEW s, DOMAIN s = Fields, DOMAIN s.seen = {"done", "unsaved"}, NEW slug, NEW ids
  PROVE  /\ Synced(s, slug, ids).at = s.at /\ Synced(s, slug, ids).call = s.call
         /\ Synced(s, slug, ids).todo = s.todo /\ Synced(s, slug, ids).held = s.held
  BY SyncedFields

LEMMA NextIndex ==
  ASSUME NEW n \in 0 .. Len(DefaultSlugs), n < Len(DefaultSlugs)
  PROVE  n + 1 \in 1 .. Len(DefaultSlugs)
  BY PortfolioFactoryAssumption

LEMMA CarriesMore ==
  ASSUME NEW s, NEW t, NEW more, NEW rows, Carries(s, rows), t.mem = Over(more, s.mem),
         \A i \in DOMAIN more : i \in DOMAIN rows /\ rows[i] = more[i]
  PROVE  Carries(t, rows)
  BY DEF Carries, Over

\* A session without rows that finds the row its call names.
LEMMA FoundAnswer ==
  ASSUME NEW s, DOMAIN s = Fields, s.new = {}, s.todo = {}, s.held = {},
         NEW b, b.kind \in Finders, NEW d, Needs(b) \subseteq DOMAIN d, Named(b) \in DOMAIN d,
         NEW id, id = Named(b), NEW t, t = Answering(s, id)
  PROVE  Content(t, b, d)
<1>1. /\ t.at = "commit" /\ t.answer = id
      /\ t.new = {} /\ t.todo = {} /\ t.held = {}
  BY AnsweringFields
<1>2. StageInv(t, b)
  BY <1>1 DEF StageInv, Kinds
<1>3. HeldInv(t, b, d)
  BY <1>1 DEF HeldInv
<1>4. EmptyInv(t) /\ SystemInv(t, d) /\ DoneInv(t, b, d) /\ ReadInv(t, b, d)
  BY <1>1 DEF EmptyInv, SystemInv, DoneInv, ReadInv
<1>5. CurrentInv(t, b)
  BY <1>1 DEF CurrentInv
<1>6. Found(t, b, d)
  BY <1>1 DEF Found
<1>7. RowsInv(t, b, d)
  BY <1>1, <1>6 DEF RowsInv
<1>8. QED
  BY <1>2, <1>3, <1>4, <1>5, <1>7 DEF Content

\* A session whose rows, with those that it adds now, are all that its call
\* writes.
LEMMA LandsAnswer ==
  ASSUME NEW s, DOMAIN s = Fields,
         NEW b, b.kind \in Kinds, NEW d, Needs(b) \subseteq DOMAIN d,
         HeldInv(s, b, d), NEW rows, Lands(s, b, d, rows),
         NEW id, id = Named(b), NEW t, t = Answering(s, id),
         b.kind = "derive" =>
             \A i \in s.seen.known :
                IF i[1] = "mapping" THEN i \in s.mem[id].assets ELSE s.mem[id].profile # None
  PROVE  Content(t, b, d)
<1>1. /\ t.at = "commit" /\ t.answer = id /\ t.mem = s.mem /\ t.seen = s.seen
      /\ t.new = s.new /\ t.todo = s.todo /\ t.held = s.held
  BY AnsweringFields
<1>2. StageInv(t, b)
  BY <1>1 DEF StageInv
<1>3. HeldInv(t, b, d)
  BY <1>1 DEF HeldInv
<1>4. EmptyInv(t) /\ SystemInv(t, d) /\ DoneInv(t, b, d) /\ ReadInv(t, b, d)
  BY <1>1 DEF EmptyInv, SystemInv, DoneInv, ReadInv
<1>5. CurrentInv(t, b)
  BY <1>1 DEF CurrentInv
<1>6. Lands(t, b, d, rows)
  BY <1>1 DEF Lands, Carries, Settled
<1>7. RowsInv(t, b, d)
  BY <1>1, <1>6 DEF RowsInv, Lands
<1>8. QED
  BY <1>2, <1>3, <1>4, <1>5, <1>7 DEF Content

\* A session without rows that adds all that its call writes.
LEMMA AddedAnswer ==
  ASSUME NEW s, DOMAIN s = Fields, DOMAIN s.mem = {}, s.new = {}, s.todo = {}, s.held = {},
         NEW b, b.kind \in Kinds \ {"seed"}, NEW d, Needs(b) \subseteq DOMAIN d,
         NEW rows \in Writes(b, d), Named(b) \in DOMAIN rows,
         NEW id, id = Named(b), NEW t, t = Answering(Adding(s, rows), id),
         b.kind = "derive" =>
             \A i \in s.seen.known :
                IF i[1] = "mapping" THEN i \in rows[id].assets ELSE rows[id].profile # None
  PROVE  Content(t, b, d)
<1> DEFINE u == Adding(s, rows)
<1>1. /\ DOMAIN u = Fields /\ u.seen = s.seen
      /\ u.todo = DOMAIN rows /\ u.new = DOMAIN rows /\ u.held = {}
  <2>1. DOMAIN u = Fields /\ u.seen = s.seen /\ u.held = s.held
    BY AddingParts
  <2>2. u.todo = s.todo \cup DOMAIN rows /\ u.new = s.new \cup DOMAIN rows
    BY AddingParts
  <2>3. QED
    BY <2>1, <2>2
<1>2. u.mem = Over(rows, s.mem)
  BY AddingMem
<1> HIDE DEF u
<1>3. DOMAIN u.mem = DOMAIN rows /\ \A i \in DOMAIN rows : u.mem[i] = rows[i]
  <2>1. DOMAIN u.mem = DOMAIN rows \cup DOMAIN s.mem
    BY <1>2, OverDomain
  <2>2. \A i \in DOMAIN rows : u.mem[i] = rows[i]
    BY <1>2, OverLeft
  <2>3. QED
    BY <2>1, <2>2
<1>4. HeldInv(u, b, d)
  BY <1>1 DEF HeldInv
<1>5. Lands(u, b, d, rows)
  BY <1>1, <1>3 DEF Lands, Carries, Settled
<1>6. t = Answering(u, id)
  BY DEF u
<1>7. QED
  BY <1>1, <1>3, <1>4, <1>5, <1>6, LandsAnswer

\* A session that has not begun to write, or to read.
LEMMA StartedEmpty ==
  ASSUME NEW k, NEW step, NEW s, s = Started(k, step)
  PROVE  /\ DOMAIN s = Fields /\ DOMAIN s.mem = {}
         /\ s.new = {} /\ s.todo = {} /\ s.held = {}
         /\ s.at = step /\ s.call = k
  BY StartedFields DEF NoRows

LEMMA AnsweringCall ==
  ASSUME NEW s, DOMAIN s = Fields, NEW rows, NEW id
  PROVE  /\ Answering(s, id).call = s.call
         /\ Answering(Adding(s, rows), id).call = s.call
<1>1. DOMAIN Adding(s, rows) = Fields /\ Adding(s, rows).call = s.call
  BY AddingFields
<1>2. Answering(s, id).call = s.call
  BY AnsweringFields
<1>3. Answering(Adding(s, rows), id).call = Adding(s, rows).call
  BY <1>1, AnsweringFields
<1>4. QED
  BY <1>1, <1>2, <1>3

-----------------------------------------------------------------------------
(* The handlers that begin with their answer.                              *)

LEMMA CreateInstanceContent ==
  ASSUME IInv, CInv, NEW w \in Sessions, NEW k, CreateInstance(w, k)
  PROVE  CInv'
<1> DEFINE b == asked[k]
           s == Started(k, "commit")
           t == Answering(Adding(s, PortfolioRows(b)), PortfolioId(b.name))
<1>1. Opens(w, k, "portfolio") /\ Has(TemplateId(b.template)) /\ Become(w, t)
      /\ UNCHANGED <<db, asked, told>>
  BY DEF CreateInstance
<1>2. b.kind = "portfolio"
  BY <1>1 DEF Opens
<1>3. Writes(b, db) = {PortfolioRows(b)} /\ Named(b) = PortfolioId(b.name)
  BY <1>2, PortfolioWrites, NamedIs
<1>4. Needs(b) \subseteq DOMAIN db
  BY <1>1, <1>2, NeedsAre DEF Has
<1>5. Named(b) \in DOMAIN PortfolioRows(b)
  BY <1>3, PortfolioRowsAre
<1>6. t.call = k
  BY StartedEmpty, AnsweringCall
<1>7. Content(t, b, db)
  BY <1>2, <1>3, <1>4, <1>5, StartedEmpty, AddedAnswer DEF Kinds
<1> HIDE DEF t
<1>8. QED
  BY <1>1, <1>6, <1>7, BeginStep

LEMMA CreateEventContent ==
  ASSUME IInv, CInv, NEW w \in Sessions, NEW k, CreateEvent(w, k)
  PROVE  CInv'
<1> DEFINE b    == asked[k]
           s    == Started(k, "commit")
           id   == EventId(b.code)
           old  == Answering(s, id)
           made == Answering(Adding(s, EventRows(b)), id)
<1>1. /\ Opens(w, k, "event") /\ UNCHANGED <<db, asked, told>>
      /\ Become(w, Answering(IF Has(id) THEN s ELSE Adding(s, EventRows(b)), id))
  BY DEF CreateEvent
<1>2. b.kind = "event" /\ Proper(b)
  BY <1>1, OpensValid
<1>3. Writes(b, db) = {EventRows(b)} /\ Named(b) = id /\ Needs(b) = {}
  BY <1>2, EventWrites, NamedIs, NeedsAre
<1>4. Named(b) \in DOMAIN EventRows(b)
  BY <1>2, <1>3, EventRowsAre DEF Proper, Valid
<1>5. old.call = k /\ made.call = k
  BY StartedEmpty, AnsweringCall
<1>6. CASE Has(id)
  <2>1. Content(old, b, db)
    BY <1>2, <1>3, <1>6, StartedEmpty, FoundAnswer DEF Finders, Has
  <2>2. Become(w, old)
    BY <1>1, <1>6
  <2> HIDE DEF old
  <2>3. QED
    BY <1>1, <1>5, <2>1, <2>2, BeginStep
<1>7. CASE ~ Has(id)
  <2>1. Content(made, b, db)
    BY <1>2, <1>3, <1>4, StartedEmpty, AddedAnswer DEF Kinds, Finders
  <2>2. Become(w, made)
    BY <1>1, <1>7
  <2> HIDE DEF made
  <2>3. QED
    BY <1>1, <1>5, <2>1, <2>2, BeginStep
<1>8. QED
  BY <1>6, <1>7

LEMMA CreateScenarioContent ==
  ASSUME IInv, CInv, NEW w \in Sessions, NEW k, CreateScenario(w, k)
  PROVE  CInv'
<1> DEFINE b    == asked[k]
           s    == Started(k, "commit")
           id   == ScenarioId(b.slug)
           old  == Answering(s, id)
           made == Answering(Adding(s, ScenarioRows(b)), id)
<1>1. /\ Opens(w, k, "scenario") /\ UNCHANGED <<db, asked, told>>
      /\ Become(w, Answering(IF Has(id) THEN s ELSE Adding(s, ScenarioRows(b)), id))
  BY DEF CreateScenario
<1>2. b.kind = "scenario"
  BY <1>1 DEF Opens
<1>3. Writes(b, db) = {ScenarioRows(b)} /\ Named(b) = id /\ Needs(b) = {}
  BY <1>2, ScenarioWrites, NamedIs, NeedsAre DEF ScenarioRows
<1>4. Named(b) \in DOMAIN ScenarioRows(b)
  <2>1. id \in DOMAIN Row(id, ScenarioRow(None, None, {}, b.vector))
    BY RowIs
  <2>2. QED
    BY <1>3, <2>1 DEF ScenarioRows
<1>5. old.call = k /\ made.call = k
  BY StartedEmpty, AnsweringCall
<1>6. CASE Has(id)
  <2>1. Content(old, b, db)
    BY <1>2, <1>3, <1>6, StartedEmpty, FoundAnswer DEF Finders, Has
  <2>2. Become(w, old)
    BY <1>1, <1>6
  <2> HIDE DEF old
  <2>3. QED
    BY <1>1, <1>5, <2>1, <2>2, BeginStep
<1>7. CASE ~ Has(id)
  <2>1. Content(made, b, db)
    BY <1>2, <1>3, <1>4, StartedEmpty, AddedAnswer DEF Kinds, Finders
  <2>2. Become(w, made)
    BY <1>1, <1>7
  <2> HIDE DEF made
  <2>3. QED
    BY <1>1, <1>5, <2>1, <2>2, BeginStep
<1>8. QED
  BY <1>6, <1>7

\* A mapping or a profile of an event.
LEMMA AddToEventContent ==
  ASSUME IInv, CInv, NEW w \in Sessions, NEW k, NEW kind \in {"mapping", "profile"},
         Opens(w, k, kind), NEW id, NEW rows, AddToEvent(w, k, id, rows),
         id = Named(asked[k]), id \in DOMAIN rows, rows \in Writes(asked[k], db)
  PROVE  CInv'
<1> DEFINE b == asked[k]
           s == Started(k, "commit")
           t == Answering(Adding(s, rows), id)
<1>1. Has(EventId(b.event)) /\ Become(w, t) /\ UNCHANGED <<db, asked, told>>
  BY DEF AddToEvent
<1>2. b.kind = kind
  BY DEF Opens
<1>3. Needs(b) \subseteq DOMAIN db
  BY <1>1, <1>2, NeedsAre DEF Has
<1>4. t.call = k
  BY StartedEmpty, AnsweringCall
<1>5. Content(t, b, db)
  BY <1>2, <1>3, StartedEmpty, AddedAnswer DEF Kinds
<1> HIDE DEF t
<1>6. QED
  BY <1>1, <1>4, <1>5, BeginStep

LEMMA ChildrenContent ==
  ASSUME IInv, CInv, NEW w \in Sessions, NEW k, AddAssetMapping(w, k) \/ AddImpactProfile(w, k)
  PROVE  CInv'
<1> DEFINE b == asked[k]
<1>1. CASE AddAssetMapping(w, k)
  <2> DEFINE id   == MappingId(b.event, b.asset, b.type)
             rows == MappingRows(b.event, {b})
  <2>1. Opens(w, k, "mapping") /\ AddToEvent(w, k, id, rows)
    BY <1>1 DEF AddAssetMapping
  <2>2. b.kind = "mapping"
    BY <2>1 DEF Opens
  <2>3. id = Named(b) /\ rows \in Writes(b, db)
    BY <2>2, NamedIs, MappingWrites
  <2>4. id \in DOMAIN rows
    BY DEF MappingRows
  <2> HIDE DEF id, rows
  <2>5. QED
    BY <2>1, <2>3, <2>4, AddToEventContent
<1>2. CASE AddImpactProfile(w, k)
  <2> DEFINE id   == ProfileId(b.event, b.name)
             rows == ProfileRows(b)
  <2>1. Opens(w, k, "profile") /\ AddToEvent(w, k, id, rows)
    BY <1>2 DEF AddImpactProfile
  <2>2. b.kind = "profile"
    BY <2>1 DEF Opens
  <2>3. id = Named(b) /\ rows \in Writes(b, db)
    BY <2>2, NamedIs, ProfileWrites DEF ProfileRows
  <2>4. id \in DOMAIN rows
    BY DEF ProfileRows, Row
  <2> HIDE DEF id, rows
  <2>5. QED
    BY <2>1, <2>3, <2>4, AddToEventContent
<1>3. QED
  BY <1>1, <1>2

-----------------------------------------------------------------------------
(* A statement of a flush.                                                 *)

LEMMA FlushContent ==
  ASSUME IInv, CInv, NEW w \in Sessions, Flush(w)
  PROVE  CInv'
<1> DEFINE s == ses[w]
           b == Body(w)
<1>1. UNCHANGED <<db, asked, told>>
  BY DEF Flush
<1>2. PICK id \in s.todo :
          \/ ~ (id \in s.new /\ Has(id)) /\ Written(w, id)
          \/ Become(w, Idle)
  BY DEF Flush
<1>3. s.at # "idle"
  BY DEF IInv, TypeOK, SessionType, Idle
<1>4. DOMAIN s = Fields /\ Content(s, b, db)
  BY <1>3, WorkValid
<1>5. CASE ~ (id \in s.new /\ Has(id)) /\ Written(w, id)
  <2> DEFINE t == [s EXCEPT !.todo = @ \ {id}, !.held = @ \cup {id}]
  <2>1. /\ t.at = s.at /\ t.call = s.call /\ t.answer = s.answer
        /\ t.mem = s.mem /\ t.new = s.new /\ t.seen = s.seen
        /\ t.todo = s.todo \ {id} /\ t.held = s.held \cup {id}
    BY <1>4 DEF Fields
  <2>2. Become(w, t)
    BY <1>5 DEF Written
  <2> HIDE DEF t
  <2>3. t.todo \cup t.held = s.todo \cup s.held
    BY <1>2, <2>1
  <2>4. \A i : Settled(s, db, i) => Settled(t, db, i)
    BY <2>3 DEF Settled
  <2>5. StageInv(t, b) /\ EmptyInv(t) /\ CurrentInv(t, b) /\ ReadInv(t, b, db)
    BY <1>4, <2>1 DEF Content, StageInv, EmptyInv, CurrentInv, ReadInv
  <2>6. HeldInv(t, b, db)
    BY <1>4, <1>5, <2>1, <2>3 DEF Content, HeldInv, Has
  <2>7. SystemInv(t, db)
    BY <1>4, <2>1, <2>3 DEF Content, SystemInv
  <2>8. DoneInv(t, b, db)
    BY <1>4, <2>1, <2>4 DEF Content, DoneInv
  <2>9. RowsInv(t, b, db)
    <3>1. \A rows : Carries(s, rows) => Carries(t, rows)
      BY <2>1 DEF Carries
    <3>2. ~ Found(s, b, db)
      BY <1>2 DEF Found
    <3>3. ASSUME NEW rows \in Writes(b, db), Lands(s, b, db, rows)
          PROVE  Lands(t, b, db, rows)
      BY <2>1, <2>3, <2>4, <3>1, <3>3 DEF Lands
    <3>4. QED
      BY <1>4, <2>1, <3>1, <3>2, <3>3 DEF Content, RowsInv
  <2>10. Content(t, b, db)
    BY <1>4, <2>5, <2>6, <2>7, <2>8, <2>9 DEF Content
  <2>11. QED
    BY <1>1, <1>3, <2>1, <2>2, <2>10, WorkStep
<1>6. CASE Become(w, Idle)
  BY <1>1, <1>6, EndStep
<1>7. QED
  BY <1>2, <1>5, <1>6

-----------------------------------------------------------------------------
(* The handlers of PortfolioFactory.                                       *)

LEMMA SystemRows ==
  ASSUME NEW b, b.kind \in {"seed", "template"}, NEW d, NEW rows \in Writes(b, d),
         NEW i \in {UserId, FamilyId}
  PROVE  i \in DOMAIN rows /\ rows[i] = "system"
<1>1. i \in DOMAIN System /\ System[i] = "system"
  BY SystemIs
<1>2. CASE b.kind = "seed"
  <2>1. rows = SeedRows
    BY <1>2, SeedWrites
  <2>2. QED
    BY <1>1, <2>1, SeedRowsAre
<1>3. CASE b.kind = "template"
  <2>1. rows = Over(System, TemplateRows(b.slug, b.constraints))
    BY <1>3, TemplateWrites
  <2> DEFINE added == TemplateRows(b.slug, b.constraints)
  <2>2. rows = Over(System, added)
    BY <2>1
  <2> HIDE DEF added
  <2>3. rows[i] = System[i]
    BY <1>1, <2>2, OverLeft
  <2>4. DOMAIN rows = DOMAIN System \cup DOMAIN added
    BY <2>2, OverDomain
  <2>5. QED
    BY <1>1, <2>3, <2>4
<1>4. QED
  BY <1>2, <1>3

LEMMA GetOrCreateContent ==
  ASSUME IInv, CInv, NEW w \in Sessions, NEW step \in {"user", "family"},
         NEW id, id = IF step = "user" THEN UserId ELSE FamilyId,
         NEW next \in {"family", "seed", "template"},
         next = "family" <=> step = "user",
         next \in {"seed", "template"} => Body(w).kind = next,
         GetOrCreate(w, step, id, next)
  PROVE  CInv'
<1> DEFINE b == Body(w)
           s == [ses[w] EXCEPT !.at = next]
           u == Adding(s, Row(id, "system"))
<1>1. /\ ses[w].at = step /\ UNCHANGED <<db, asked, told>>
      /\ Become(w, IF Has(id) THEN s ELSE u)
  BY DEF GetOrCreate, Running
<1>2. DOMAIN ses[w] = Fields /\ Content(ses[w], b, db)
  BY <1>1, WorkValid
<1>3. /\ DOMAIN s = Fields /\ s.at = next /\ s.call = ses[w].call /\ s.seen = ses[w].seen
      /\ s.mem = ses[w].mem
      /\ s.new = ses[w].new /\ s.todo = ses[w].todo /\ s.held = ses[w].held
  BY <1>2 DEF Fields
<1> HIDE DEF s
<1>4. b.kind \in {"seed", "template"}
  BY <1>1, <1>2 DEF Content, StageInv
<1>5. \A rows \in Writes(b, db) : Carries(s, rows)
  BY <1>1, <1>2, <1>3 DEF Content, RowsInv, Carries
<1>6. ASSUME NEW t, DOMAIN t = Fields, t.at = next, t.seen = s.seen, t.held = s.held,
             \/ Has(id) /\ t.new = s.new /\ t.todo = s.todo
             \/ ~ Has(id) /\ t.new = s.new \cup {id} /\ t.todo = s.todo \cup {id},
             \A rows \in Writes(b, db) : Carries(t, rows)
      PROVE  Content(t, b, db)
  <2>1. id \in DOMAIN db \cup t.todo \cup t.held
    BY <1>6 DEF Has
  <2>2. s.todo \subseteq t.todo
    BY <1>6
  <2>3. StageInv(t, b)
    BY <1>2, <1>4, <1>6 DEF Content, StageInv
  <2>4. HeldInv(t, b, db)
    BY <1>2, <1>3, <1>6 DEF Content, HeldInv, Has
  <2>5. EmptyInv(t) /\ CurrentInv(t, b) /\ ReadInv(t, b, db)
    BY <1>6 DEF EmptyInv, CurrentInv, ReadInv
  <2>6. SystemInv(t, db)
    BY <1>1, <1>2, <1>3, <1>6, <2>1, <2>2 DEF Content, SystemInv
  <2>7. \A i : Settled(ses[w], db, i) => Settled(t, db, i)
    BY <1>3, <1>6, <2>2 DEF Settled
  <2>8. DoneInv(t, b, db)
    BY <1>1, <1>2, <1>3, <1>6, <2>7 DEF Content, DoneInv
  <2>9. RowsInv(t, b, db)
    BY <1>6 DEF RowsInv
  <2>10. QED
    BY <1>2, <2>3, <2>4, <2>5, <2>6, <2>8, <2>9 DEF Content
<1>7. CASE Has(id)
  <2>1. Content(s, b, db)
    BY <1>3, <1>5, <1>6, <1>7
  <2>2. Become(w, s)
    BY <1>1, <1>7
  <2>3. QED
    BY <1>1, <1>3, <2>1, <2>2, WorkStep
<1>8. CASE ~ Has(id)
  <2>1. /\ DOMAIN u = Fields /\ u.at = s.at /\ u.call = s.call /\ u.seen = s.seen
        /\ u.held = s.held
    BY <1>3, AddingParts
  <2>2. u.todo = s.todo \cup {id} /\ u.new = s.new \cup {id}
    <3> DEFINE row == Row(id, "system")
    <3>1. DOMAIN row = {id}
      BY RowIs
    <3> HIDE DEF row
    <3>2. Adding(s, row).todo = s.todo \cup DOMAIN row /\ Adding(s, row).new = s.new \cup DOMAIN row
      BY <1>3, AddingParts
    <3>3. QED
      BY <3>1, <3>2 DEF row
  <2>3. ASSUME NEW rows \in Writes(b, db) PROVE Carries(u, rows)
    <3>1. id \in DOMAIN rows /\ rows[id] = "system"
      BY <1>4, SystemRows
    <3>2. u.mem = Over(Row(id, "system"), s.mem)
      BY <1>3, AddingMem
    <3>3. \A i \in DOMAIN Row(id, "system") : i \in DOMAIN rows /\ rows[i] = Row(id, "system")[i]
      BY <3>1, InRow
    <3> HIDE DEF u
    <3>4. QED
      BY <1>5, <3>2, <3>3, CarriesMore
  <2>4. Become(w, u)
    BY <1>1, <1>8
  <2> HIDE DEF u
  <2>5. Content(u, b, db)
    BY <1>3, <1>6, <1>8, <2>1, <2>2, <2>3
  <2>6. QED
    BY <1>1, <1>3, <2>1, <2>4, <2>5, WorkStep
<1>9. QED
  BY <1>7, <1>8

LEMMA SystemContent ==
  ASSUME IInv, CInv, NEW w \in Sessions, SystemUser(w) \/ DefaultFamily(w)
  PROVE  CInv'
<1>1. CASE SystemUser(w)
  <2>1. GetOrCreate(w, "user", UserId, "family")
    BY <1>1 DEF SystemUser
  <2>2. QED
    BY <2>1, GetOrCreateContent
<1>2. CASE DefaultFamily(w)
  <2> DEFINE next == IF Body(w).kind = "seed" THEN "seed" ELSE "template"
  <2>1. GetOrCreate(w, "family", FamilyId, next)
    BY <1>2 DEF DefaultFamily
  <2>2. ses[w].at = "family"
    BY <2>1 DEF GetOrCreate, Running
  <2>3. Body(w).kind \in {"seed", "template"}
    BY <2>2, WorkValid DEF Content, StageInv
  <2>4. next \in {"seed", "template"} /\ Body(w).kind = next
    BY <2>3
  <2> HIDE DEF next
  <2>5. QED
    BY <2>1, <2>4, GetOrCreateContent
<1>3. QED
  BY <1>1, <1>2

LEMMA SeedTemplatesContent ==
  ASSUME IInv, CInv, NEW w \in Sessions, NEW k, SeedTemplates(w, k)
  PROVE  CInv'
<1> DEFINE b == asked[k]
           s == Started(k, "user")
           t == [s EXCEPT !.seen = [done |-> 0, unsaved |-> {}]]
<1>1. Opens(w, k, "seed") /\ Become(w, t) /\ UNCHANGED <<db, asked, told>>
  BY DEF SeedTemplates
<1>2. b.kind = "seed"
  BY <1>1 DEF Opens
<1>3. /\ DOMAIN s = Fields /\ DOMAIN s.mem = {}
      /\ s.new = {} /\ s.todo = {} /\ s.held = {}
      /\ s.at = "user" /\ s.call = k
  BY StartedEmpty
<1> HIDE DEF s
<1>4. /\ t.at = "user" /\ t.call = k /\ DOMAIN t.mem = {}
      /\ t.new = {} /\ t.todo = {} /\ t.held = {} /\ t.seen.done = 0
  BY <1>3 DEF Fields
<1> HIDE DEF t
<1>5. StageInv(t, b) /\ Needs(b) \subseteq DOMAIN db
  BY <1>2, <1>4, NeedsAre DEF StageInv, Kinds
<1>6. HeldInv(t, b, db) /\ EmptyInv(t) /\ SystemInv(t, db)
  BY <1>4 DEF HeldInv, EmptyInv, SystemInv
<1>7. DoneInv(t, b, db)
  BY <1>4 DEF DoneInv
<1>8. ReadInv(t, b, db) /\ CurrentInv(t, b)
  BY <1>4 DEF ReadInv, CurrentInv
<1>9. RowsInv(t, b, db)
  BY <1>4 DEF RowsInv, Carries
<1>10. Content(t, b, db)
  BY <1>5, <1>6, <1>7, <1>8, <1>9 DEF Content
<1>11. QED
  BY <1>1, <1>4, <1>10, BeginStep

LEMMA CreateTemplateContent ==
  ASSUME IInv, CInv, NEW w \in Sessions, NEW k, CreateTemplate(w, k)
  PROVE  CInv'
<1> DEFINE b   == asked[k]
           id  == TemplateId(b.slug)
           old == Answering(Started(k, "commit"), id)
           t   == Started(k, "user")
<1>1. /\ Opens(w, k, "template") /\ UNCHANGED <<db, asked, told>>
      /\ Become(w, IF Has(id) THEN old ELSE t)
  BY DEF CreateTemplate
<1>2. b.kind = "template"
  BY <1>1 DEF Opens
<1>3. Named(b) = id /\ Needs(b) = {}
  BY <1>2, NamedIs, NeedsAre
<1>4. CASE Has(id)
  <2>1. Content(old, b, db)
    BY <1>2, <1>3, <1>4, StartedEmpty, FoundAnswer DEF Finders, Has
  <2>2. Become(w, old) /\ old.call = k
    BY <1>1, <1>4, StartedEmpty, AnsweringCall
  <2> HIDE DEF old
  <2>3. QED
    BY <1>1, <2>1, <2>2, BeginStep
<1>5. CASE ~ Has(id)
  <2>1. /\ DOMAIN t.mem = {}
        /\ t.new = {} /\ t.todo = {} /\ t.held = {}
        /\ t.at = "user" /\ t.call = k
    BY StartedEmpty
  <2>2. Become(w, t)
    BY <1>1, <1>5
  <2> HIDE DEF t
  <2>3. StageInv(t, b) /\ HeldInv(t, b, db) /\ EmptyInv(t)
    BY <1>2, <2>1 DEF StageInv, Kinds, Finders, HeldInv, EmptyInv
  <2>4. SystemInv(t, db) /\ DoneInv(t, b, db) /\ ReadInv(t, b, db) /\ CurrentInv(t, b)
    BY <1>2, <2>1 DEF SystemInv, DoneInv, ReadInv, CurrentInv
  <2>5. RowsInv(t, b, db)
    BY <2>1 DEF RowsInv, Carries
  <2>6. Content(t, b, db)
    BY <1>3, <2>3, <2>4, <2>5 DEF Content
  <2>7. QED
    BY <1>1, <2>1, <2>2, <2>6, BeginStep
<1>6. QED
  BY <1>4, <1>5

\* A seed at a template.
LEMMA SeedingIs ==
  ASSUME IInv, CInv, NEW w \in Sessions, ses[w].at = "seed"
  PROVE  /\ Body(w).kind = "seed"
         /\ DOMAIN ses[w] = Fields /\ DOMAIN ses[w].seen = {"done", "unsaved"}
         /\ ses[w].seen.done \in 0 .. Len(DefaultSlugs)
         /\ Content(ses[w], Body(w), db)
         /\ Carries(ses[w], SeedRows)
         /\ ses[w].seen.unsaved \subseteq DOMAIN ses[w].mem
<1>1. DOMAIN ses[w] = Fields /\ Content(ses[w], Body(w), db)
  BY WorkValid
<1>2. SeedInv(ses[w]) /\ asked[ses[w].call].kind = "seed"
  BY DEF IInv, SeedInv
<1>3. Writes(Body(w), db) = {SeedRows}
  BY <1>2, SeedWrites DEF Body
<1>4. Carries(ses[w], SeedRows)
  BY <1>1, <1>3 DEF Content, RowsInv
<1>5. QED
  BY <1>1, <1>2, <1>4 DEF SeedInv, Body

\* Session s is that of w, with all that was unsaved, before the constraints of
\* the next template.
Prepared(w, s) ==
    /\ DOMAIN s = Fields /\ DOMAIN s.seen = {"done", "unsaved"}
    /\ s.at = "seed" /\ s.call = ses[w].call /\ s.held = ses[w].held
    /\ s.seen.done = ses[w].seen.done /\ ses[w].todo \subseteq s.todo
    /\ ses[w].seen.unsaved \subseteq s.todo \cup s.seen.unsaved
    /\ HeldInv(s, Body(w), db) /\ Carries(s, SeedRows)

\* The constraints of a template are those in ids, and settled ones.
Covered(s, slug, ids) ==
    /\ \A i \in ids : \E key \in DOMAIN DefaultConstraints[slug] : i = ConstraintId(slug, key)
    /\ \A key \in DOMAIN DefaultConstraints[slug] :
          ConstraintId(slug, key) \in ids \/ Settled(s, db, ConstraintId(slug, key))

\* The constraints of the next template are as they should be, or will be.
LEMMA SyncedContent ==
  ASSUME IInv, CInv, NEW w \in Sessions, ses[w].at = "seed",
         ses[w].seen.done < Len(DefaultSlugs),
         NEW slug, slug = DefaultSlugs[ses[w].seen.done + 1],
         NEW s, Prepared(w, s), NEW ids, Covered(s, slug, ids),
         Become(w, Synced(s, slug, ids)), UNCHANGED <<db, asked, told>>
  PROVE  CInv'
<1> DEFINE b    == Body(w)
           t    == Synced(s, slug, ids)
           done == ses[w].seen.done
           more == ConstraintRows(ids, DefaultConstraints[slug])
<1>1. /\ b.kind = "seed" /\ done \in 0 .. Len(DefaultSlugs)
      /\ Content(ses[w], b, db)
  BY SeedingIs
<1>2. /\ DOMAIN s = Fields /\ DOMAIN s.seen = {"done", "unsaved"}
      /\ s.at = "seed" /\ s.call = ses[w].call /\ s.held = ses[w].held
      /\ s.seen.done = done /\ ses[w].todo \subseteq s.todo
      /\ ses[w].seen.unsaved \subseteq s.todo \cup s.seen.unsaved
      /\ HeldInv(s, b, db) /\ Carries(s, SeedRows)
  BY DEF Prepared
<1>3. done + 1 \in 1 .. Len(DefaultSlugs)
  BY <1>1, NextIndex
<1>4. /\ t.at = "seed" /\ t.call = ses[w].call
      /\ t.todo = s.todo /\ t.held = s.held
      /\ t.seen.unsaved = s.seen.unsaved \cup ids /\ t.seen.done = done + 1
  <2>1. t.at = s.at /\ t.call = s.call /\ t.todo = s.todo /\ t.held = s.held
    BY <1>2, SyncedParts
  <2>2. t.seen.unsaved = s.seen.unsaved \cup ids /\ t.seen.done = s.seen.done + 1
    <3>1. DOMAIN s = Fields /\ DOMAIN s.seen = {"done", "unsaved"}
      BY <1>2
    <3>2. QED
      BY <3>1 DEF Synced, Keeping, Fields
  <2> HIDE DEF t
  <2>3. QED
    BY <1>2, <2>1, <2>2
<1>5. t.mem = Over(more, s.mem) /\ t.new = s.new \cup {i \in ids : ~ Has(i)}
  <2>1. t.mem = Over(more, s.mem)
    BY <1>2, SyncedMem
  <2>2. t.new = s.new \cup {i \in ids : ~ Has(i)}
    BY <1>2, SyncedNew
  <2>3. QED
    BY <2>1, <2>2
<1> HIDE DEF t
<1>6. Carries(t, SeedRows)
  <2>1. ASSUME NEW i \in ids
        PROVE  i \in DOMAIN SeedRows /\ SeedRows[i] = more[i]
    <3>1. PICK key \in DOMAIN DefaultConstraints[slug] : i = ConstraintId(slug, key)
      BY DEF Covered
    <3>2. i \in DOMAIN DefaultRows /\ DefaultRows[i] = [value |-> DefaultConstraints[slug][key]]
      BY <1>3, <3>1, DefaultRowsAre
    <3>3. i \in DOMAIN SeedRows /\ SeedRows[i] = DefaultRows[i]
      BY <3>2, SeedRowsAre
    <3>4. more[i] = [value |-> DefaultConstraints[slug][key]]
      BY <3>1 DEF ConstraintRows, ConstraintId
    <3>5. QED
      BY <3>2, <3>3, <3>4
  <2>2. DOMAIN more = ids
    BY DEF ConstraintRows
  <2> HIDE DEF more
  <2>3. QED
    BY <1>2, <1>5, <2>1, <2>2, CarriesMore
<1>7. StageInv(t, b)
  BY <1>1, <1>4 DEF StageInv, Kinds
<1>8. HeldInv(t, b, db)
  BY <1>2, <1>1, <1>4, <1>5 DEF HeldInv, Has
<1>9. EmptyInv(t) /\ ReadInv(t, b, db) /\ CurrentInv(t, b)
  BY <1>4 DEF EmptyInv, ReadInv, CurrentInv
<1>10. SystemInv(t, db)
  BY <1>2, <1>1, <1>4 DEF Content, SystemInv
<1>11. DoneInv(t, b, db)
  <2>1. ASSUME NEW n \in 1 .. done + 1, NEW key \in DOMAIN DefaultConstraints[DefaultSlugs[n]]
        PROVE  \/ ConstraintId(DefaultSlugs[n], key) \in t.seen.unsaved
               \/ Settled(t, db, ConstraintId(DefaultSlugs[n], key))
    <3> DEFINE i == ConstraintId(DefaultSlugs[n], key)
    <3>1. CASE n = done + 1
      <4>1. i \in ids \/ Settled(s, db, i)
        BY <3>1 DEF Covered
      <4>2. QED
        BY <1>4, <4>1 DEF Settled
    <3>2. CASE n \in 1 .. done
      <4>1. i \in ses[w].seen.unsaved \/ Settled(ses[w], db, i)
        BY <1>1, <3>2 DEF Content, DoneInv
      <4>2. CASE i \in ses[w].seen.unsaved
        BY <1>2, <1>4, <4>2 DEF Settled
      <4>3. CASE Settled(ses[w], db, i)
        BY <1>2, <1>4, <4>3 DEF Settled
      <4>4. QED
        BY <4>1, <4>2, <4>3
    <3>3. QED
      BY <1>1, <3>1, <3>2
  <2>2. QED
    BY <1>4, <2>1 DEF DoneInv
<1>12. RowsInv(t, b, db)
  <2>1. Writes(b, db) = {SeedRows}
    BY <1>1, SeedWrites
  <2>2. QED
    BY <1>4, <1>6, <2>1 DEF RowsInv
<1>13. Content(t, b, db)
  BY <1>1, <1>7, <1>8, <1>9, <1>10, <1>11, <1>12 DEF Content
<1>14. t.call = ses[w].call /\ Become(w, t)
  BY <1>4 DEF t
<1>15. QED
  BY <1>13, <1>14, WorkStep

LEMMA SeedExistingContent ==
  ASSUME IInv, CInv, NEW w \in Sessions, SeedExisting(w)
  PROVE  CInv'
<1> DEFINE s    == ses[w]
           slug == DefaultSlugs[s.seen.done + 1]
           ids  == ToSync(slug, DefaultConstraints[slug])
<1>1. /\ s.at = "seed" /\ s.seen.done < Len(DefaultSlugs)
      /\ Become(w, Synced(s, slug, ids)) /\ UNCHANGED <<db, asked, told>>
  BY DEF SeedExisting, Running
<1>2. /\ Body(w).kind = "seed"
      /\ DOMAIN s = Fields /\ DOMAIN s.seen = {"done", "unsaved"}
      /\ s.seen.done \in 0 .. Len(DefaultSlugs)
      /\ Carries(s, SeedRows)
  BY <1>1, SeedingIs
<1>3. HeldInv(s, Body(w), db)
  BY <1>1, SeedingIs DEF Content
<1>4. \A i \in ids : \E key \in DOMAIN DefaultConstraints[slug] : i = ConstraintId(slug, key)
  BY DEF ToSync
<1>5. ASSUME NEW key \in DOMAIN DefaultConstraints[slug], ConstraintId(slug, key) \notin ids
      PROVE  Settled(s, db, ConstraintId(slug, key))
  <2> DEFINE i == ConstraintId(slug, key)
  <2>1. i \in DOMAIN db /\ db[i].value = DefaultConstraints[slug][key]
    BY <1>5 DEF ToSync, ConstraintId, Has
  <2>2. db[i] = [value |-> db[i].value]
    <3>1. RowType(i, db[i])
      BY <2>1 DEF CInv, Tables
    <3>2. QED
      BY <3>1 DEF RowType, ConstraintId
  <2>3. s.seen.done + 1 \in 1 .. Len(DefaultSlugs)
    BY <1>1, <1>2, NextIndex
  <2>4. DefaultRows[i] = [value |-> DefaultConstraints[slug][key]]
    BY <2>3, DefaultRowsAre
  <2>5. QED
    BY <2>1, <2>2, <2>4 DEF Settled
<1>6. Prepared(w, s)
  BY <1>1, <1>2, <1>3 DEF Prepared
<1>7. Covered(s, slug, ids)
  BY <1>4, <1>5 DEF Covered
<1> HIDE DEF ids
<1>8. QED
  BY <1>1, <1>6, <1>7, SyncedContent

LEMMA SeedMissingContent ==
  ASSUME IInv, CInv, NEW w \in Sessions, SeedMissing(w)
  PROVE  CInv'
<1> DEFINE b    == Body(w)
           slug == DefaultSlugs[ses[w].seen.done + 1]
           id   == TemplateId(slug)
           row  == Row(id, [constraints |-> DefaultConstraints[slug]])
           u    == Saving(ses[w])
           s    == Adding(u, row)
           all  == {ConstraintId(slug, key) : key \in DOMAIN DefaultConstraints[slug]}
<1>1. /\ ses[w].at = "seed" /\ ses[w].seen.done < Len(DefaultSlugs) /\ ~ Has(id)
      /\ Become(w, Synced(s, slug, all)) /\ UNCHANGED <<db, asked, told>>
  BY DEF SeedMissing, Running
<1>2. /\ b.kind = "seed"
      /\ DOMAIN ses[w] = Fields /\ DOMAIN ses[w].seen = {"done", "unsaved"}
      /\ ses[w].seen.done \in 0 .. Len(DefaultSlugs)
      /\ Carries(ses[w], SeedRows)
  BY <1>1, SeedingIs
<1>3. HeldInv(ses[w], b, db)
  BY <1>1, SeedingIs DEF Content
<1>4. /\ DOMAIN u = Fields
      /\ u.at = ses[w].at /\ u.call = ses[w].call /\ u.mem = ses[w].mem
      /\ u.new = ses[w].new /\ u.held = ses[w].held
      /\ u.todo = ses[w].todo \cup ses[w].seen.unsaved
      /\ DOMAIN u.seen = {"done", "unsaved"}
      /\ u.seen.unsaved = {} /\ u.seen.done = ses[w].seen.done
  BY <1>2, SavingFields
<1> HIDE DEF u
<1>5. DOMAIN row = {id} /\ row[id] = [constraints |-> DefaultConstraints[slug]]
  <2> DEFINE content == [constraints |-> DefaultConstraints[slug]]
  <2> HIDE DEF content
  <2>1. DOMAIN Row(id, content) = {id} /\ Row(id, content)[id] = content
    BY RowIs
  <2>2. QED
    BY <2>1 DEF content
<1>6. id \in DOMAIN SeedRows /\ SeedRows[id] = [constraints |-> DefaultConstraints[slug]]
  <2>1. ses[w].seen.done + 1 \in 1 .. Len(DefaultSlugs)
    BY <1>1, <1>2, NextIndex
  <2>2. /\ id \in DOMAIN DefaultTemplates
        /\ DefaultTemplates[id] = [constraints |-> DefaultConstraints[slug]]
    BY <2>1, DefaultTemplatesAre
  <2>3. QED
    BY <2>2, SeedRowsAre
<1> HIDE DEF row
<1>7. /\ DOMAIN s = Fields /\ s.at = u.at /\ s.call = u.call /\ s.seen = u.seen
      /\ s.held = u.held
  BY <1>4, AddingParts
<1>8. s.todo = u.todo \cup {id} /\ s.new = u.new \cup {id}
  BY <1>4, <1>5, AddingParts
<1>9. s.mem = Over(row, u.mem)
  BY <1>4, AddingMem
<1> HIDE DEF s
<1>10. Carries(u, SeedRows)
  BY <1>2, <1>4 DEF Carries
<1>11. Carries(s, SeedRows)
  BY <1>5, <1>6, <1>9, <1>10, CarriesMore
<1>12. HeldInv(s, b, db)
  BY <1>1, <1>2, <1>3, <1>4, <1>7, <1>8 DEF HeldInv, Has
<1>13. Covered(s, slug, all)
  BY DEF Covered
<1>14. Prepared(w, s)
  BY <1>1, <1>4, <1>7, <1>8, <1>11, <1>12 DEF Prepared
<1>15. slug = DefaultSlugs[ses[w].seen.done + 1]
  OBVIOUS
<1> HIDE DEF slug, id, all
<1>16. QED
  BY <1>1, <1>13, <1>14, <1>15, SyncedContent

LEMMA SeedEndContent ==
  ASSUME IInv, CInv, NEW w \in Sessions, SeedEnd(w)
  PROVE  CInv'
<1> DEFINE b  == Body(w)
           s  == Saving(ses[w])
           id == TemplateId(DefaultSlugs[Len(DefaultSlugs)])
           t  == Answering(s, id)
<1>1. /\ ses[w].at = "seed" /\ ses[w].seen.done = Len(DefaultSlugs)
      /\ Become(w, t) /\ UNCHANGED <<db, asked, told>>
  BY DEF SeedEnd, Running
<1>2. /\ b.kind = "seed"
      /\ DOMAIN ses[w] = Fields /\ DOMAIN ses[w].seen = {"done", "unsaved"}
      /\ Carries(ses[w], SeedRows)
  BY <1>1, SeedingIs
<1>3. Content(ses[w], b, db)
  BY <1>1, SeedingIs
<1>4. /\ DOMAIN s = Fields
      /\ s.call = ses[w].call /\ s.mem = ses[w].mem
      /\ s.new = ses[w].new /\ s.held = ses[w].held
      /\ s.todo = ses[w].todo \cup ses[w].seen.unsaved
  BY <1>2, SavingFields
<1> HIDE DEF s
<1>5. HeldInv(s, b, db)
  BY <1>2, <1>3, <1>4 DEF Content, HeldInv
<1>6. Writes(b, db) = {SeedRows} /\ Named(b) = id
  BY <1>2, SeedWrites, NamedIs
<1>7. ASSUME NEW i \in DOMAIN SeedRows
      PROVE  Settled(s, db, i)
  <2>1. CASE i \in DOMAIN DefaultRows
    <3>1. PICK n \in 1 .. Len(DefaultSlugs) :
              \E key \in DOMAIN DefaultConstraints[DefaultSlugs[n]] : i = ConstraintId(DefaultSlugs[n], key)
      BY <2>1, DefaultRowsAre
    <3>2. i \in ses[w].seen.unsaved \/ Settled(ses[w], db, i)
      BY <1>1, <1>2, <1>3, <3>1 DEF Content, DoneInv
    <3>3. QED
      BY <1>4, <3>2 DEF Settled
  <2>2. CASE i \in DOMAIN System
    <3>1. i \in {UserId, FamilyId}
      BY <2>2, SystemIs
    <3>2. i \in DOMAIN db \cup ses[w].todo \cup ses[w].held
      BY <1>1, <1>3, <3>1 DEF Content, SystemInv
    <3>3. i \notin DOMAIN DefaultRows
      BY <2>2, DefaultIds
    <3>4. QED
      BY <1>4, <3>2, <3>3 DEF Settled
  <2>3. CASE i \in DOMAIN DefaultTemplates
    <3>1. PICK n \in 1 .. Len(DefaultSlugs) : i = TemplateId(DefaultSlugs[n])
      BY <2>3, DefaultTemplatesAre
    <3>2. i \in DOMAIN db \cup ses[w].todo \cup ses[w].held
      BY <1>1, <1>2, <3>1 DEF IInv, SeedInv, Body
    <3>3. i \notin DOMAIN DefaultRows
      BY <2>3, DefaultIds
    <3>4. QED
      BY <1>4, <3>2, <3>3 DEF Settled
  <2>4. QED
    BY <2>1, <2>2, <2>3, SeedRowsAre
<1>8. Lands(s, b, db, SeedRows)
  BY <1>2, <1>4, <1>6, <1>7 DEF Lands, Carries
<1>9. Content(t, b, db)
  <2>1. Needs(b) \subseteq DOMAIN db
    BY <1>3 DEF Content
  <2>2. QED
    BY <1>2, <1>4, <1>5, <1>6, <1>8, <2>1, LandsAnswer DEF Kinds
<1>10. t.call = ses[w].call
  BY <1>4, AnsweringCall
<1> HIDE DEF t
<1>11. QED
  BY <1>1, <1>9, <1>10, WorkStep

LEMMA AddTemplateContent ==
  ASSUME IInv, CInv, NEW w \in Sessions, AddTemplate(w)
  PROVE  CInv'
<1> DEFINE b     == Body(w)
           added == TemplateRows(b.slug, b.constraints)
           s     == Adding(ses[w], added)
           id    == TemplateId(b.slug)
           rows  == Over(System, added)
           t     == Answering(s, id)
<1>1. ses[w].at = "template" /\ Become(w, t) /\ UNCHANGED <<db, asked, told>>
  BY DEF AddTemplate, Running
<1>2. DOMAIN ses[w] = Fields /\ Content(ses[w], b, db)
  BY <1>1, WorkValid
<1>3. b.kind = "template"
  BY <1>1, <1>2 DEF Content, StageInv
<1>4. Writes(b, db) = {rows} /\ Named(b) = id
  BY <1>3, TemplateWrites, NamedIs
<1>5. \A i \in DOMAIN added : i[1] \in {"template", "constraint"}
  BY TemplateRowsAre DEF TemplateId, ConstraintId
<1>6. id \in DOMAIN added
  <2> DEFINE template == Row(id, [constraints |-> b.constraints])
             others   == ConstraintRows({ConstraintId(b.slug, key) : key \in DOMAIN b.constraints},
                                        b.constraints)
  <2>1. added = Over(template, others)
    BY DEF TemplateRows
  <2>2. id \in DOMAIN template
    <3> DEFINE content == [constraints |-> b.constraints]
    <3> HIDE DEF content
    <3>1. id \in DOMAIN Row(id, content)
      BY RowIs
    <3>2. QED
      BY <3>1 DEF content
  <2> HIDE DEF template, others, added
  <2>3. QED
    BY <2>1, <2>2, OverDomain
<1> HIDE DEF added
<1>7. DOMAIN rows = DOMAIN System \cup DOMAIN added
  BY OverDomain
<1>8. ASSUME NEW i \in DOMAIN added PROVE rows[i] = added[i]
  <2>1. i \notin DOMAIN System
    BY <1>5, DefaultIds
  <2>2. QED
    BY <2>1, OverRight
<1> HIDE DEF rows
<1>9. Carries(ses[w], rows)
  BY <1>1, <1>2, <1>4 DEF Content, RowsInv
<1>10. /\ DOMAIN s = Fields /\ s.call = ses[w].call /\ s.held = ses[w].held
       /\ s.todo = ses[w].todo \cup DOMAIN added /\ s.new = ses[w].new \cup DOMAIN added
  BY <1>2, AddingParts
<1>11. s.mem = Over(added, ses[w].mem)
  BY <1>2, AddingMem
<1> HIDE DEF s
<1>12. Carries(s, rows)
  BY <1>7, <1>8, <1>9, <1>11, CarriesMore
<1>13. HeldInv(s, b, db)
  BY <1>2, <1>3, <1>10 DEF Content, HeldInv
<1>14. ASSUME NEW i \in DOMAIN rows PROVE Settled(s, db, i)
  <2>1. CASE i \in DOMAIN added
    BY <1>10, <2>1 DEF Settled
  <2>2. CASE i \in DOMAIN System
    <3>1. i \in {UserId, FamilyId}
      BY <2>2, SystemIs
    <3>2. i \in DOMAIN db \cup ses[w].todo \cup ses[w].held
      BY <1>1, <1>2, <3>1 DEF Content, SystemInv
    <3>3. i \notin DOMAIN DefaultRows
      BY <2>2, DefaultIds
    <3>4. QED
      BY <1>10, <3>2, <3>3 DEF Settled
  <2>3. QED
    BY <1>7, <2>1, <2>2
<1>15. Lands(s, b, db, rows)
  BY <1>4, <1>6, <1>10, <1>12, <1>14 DEF Lands
<1>16. Content(t, b, db)
  <2>1. Needs(b) \subseteq DOMAIN db
    BY <1>2 DEF Content
  <2>2. QED
    BY <1>3, <1>4, <1>10, <1>13, <1>15, <2>1, LandsAnswer DEF Kinds, Finders
<1>17. t.call = ses[w].call
  BY <1>10, AnsweringCall
<1> HIDE DEF t
<1>18. QED
  BY <1>1, <1>16, <1>17, WorkStep

-----------------------------------------------------------------------------
(* The handlers of ScenarioLab.                                            *)

\* A session that reads, or is about to price a run, has no rows.
LEMMA ReaderIs ==
  ASSUME IInv, CInv, NEW w \in Sessions, ses[w].at \in {"mappings", "profiles", "derive", "run", "whatif"}
  PROVE  /\ Content(ses[w], Body(w), db) /\ Proper(Body(w))
         /\ DOMAIN ses[w] = Fields /\ DOMAIN ses[w].mem = {}
         /\ ses[w].new = {} /\ ses[w].todo = {} /\ ses[w].held = {}
<1>1. Content(ses[w], Body(w), db) /\ Proper(Body(w)) /\ DOMAIN ses[w] = Fields
  BY WorkValid
<1>2. ses[w].new \cup ses[w].held \cup ses[w].todo \subseteq DOMAIN ses[w].mem
  BY WorkValid
<1>3. DOMAIN ses[w].mem = {}
  BY <1>1 DEF Content, EmptyInv
<1>4. QED
  BY <1>1, <1>2, <1>3

\* A session that has no rows, and has read what ReadInv says.
LEMMA ReaderContent ==
  ASSUME NEW s, NEW b, s.at \in {"mappings", "profiles", "derive", "run", "whatif"},
         b.kind \in {"derive", "run", "whatif"},
         s.at \in {"run", "whatif"} => b.kind = s.at,
         s.at \in {"mappings", "profiles", "derive"} => b.kind = "derive",
         DOMAIN s.mem = {}, s.new = {}, s.todo = {}, s.held = {},
         NEW d, Needs(b) \subseteq DOMAIN d, ReadInv(s, b, d)
  PROVE  Content(s, b, d)
<1>1. StageInv(s, b)
  BY DEF StageInv, Kinds, Finders
<1>2. HeldInv(s, b, d) /\ EmptyInv(s)
  BY DEF HeldInv, EmptyInv
<1>3. SystemInv(s, d) /\ DoneInv(s, b, d) /\ CurrentInv(s, b) /\ RowsInv(s, b, d)
  BY DEF SystemInv, DoneInv, CurrentInv, RowsInv
<1>4. QED
  BY <1>1, <1>2, <1>3 DEF Content

LEMMA DeriveScenarioContent ==
  ASSUME IInv, CInv, NEW w \in Sessions, NEW k, DeriveScenario(w, k)
  PROVE  CInv'
<1> DEFINE b == asked[k]
           e == b.event
           s == Started(k, "mappings")
           t == [s EXCEPT !.seen = [known |-> Mappings(e) \cup Profiles(e),
                                    maps |-> {}, profiles |-> {}]]
<1>1. /\ Opens(w, k, "derive") /\ Has(EventId(e))
      /\ b.profile # None => Has(ProfileId(e, b.profile))
      /\ Become(w, t) /\ UNCHANGED <<db, asked, told>>
  BY DEF DeriveScenario
<1>2. b.kind = "derive"
  BY <1>1 DEF Opens
<1>3. Needs(b) \subseteq DOMAIN db
  BY <1>1, <1>2, NeedsAre DEF Has
<1>4. /\ DOMAIN s = Fields /\ DOMAIN s.mem = {}
      /\ s.new = {} /\ s.todo = {} /\ s.held = {}
      /\ s.at = "mappings" /\ s.call = k
  BY StartedEmpty
<1> HIDE DEF s
<1>5. /\ t.at = "mappings" /\ t.call = k /\ DOMAIN t.mem = {}
      /\ t.new = {} /\ t.todo = {} /\ t.held = {}
      /\ t.seen = [known |-> Mappings(e) \cup Profiles(e), maps |-> {}, profiles |-> {}]
  BY <1>4 DEF Fields
<1> HIDE DEF t
<1>6. ReadInv(t, b, db)
  <2>1. DOMAIN t.seen = {"known", "maps", "profiles"} /\ t.seen.known = Mappings(e) \cup Profiles(e)
    BY <1>5
  <2>2. QED
    BY <1>5, <2>1, SameKeys DEF ReadInv
<1>7. Content(t, b, db)
  BY <1>2, <1>3, <1>5, <1>6, ReaderContent
<1>8. QED
  BY <1>1, <1>5, <1>7, BeginStep

LEMMA ReadMappingsContent ==
  ASSUME IInv, CInv, NEW w \in Sessions, ReadMappings(w)
  PROVE  CInv'
<1> DEFINE b == Body(w)
           s == ses[w]
           t == [s EXCEPT !.at = "profiles", !.seen.maps = Mappings(b.event)]
<1>1. s.at = "mappings" /\ Become(w, t) /\ UNCHANGED <<db, asked, told>>
  BY DEF ReadMappings, Running
<1>2. /\ Content(s, b, db) /\ DOMAIN s = Fields /\ DOMAIN s.mem = {}
      /\ s.new = {} /\ s.todo = {} /\ s.held = {}
  BY <1>1, ReaderIs
<1>3. /\ b.kind = "derive" /\ Needs(b) \subseteq DOMAIN db
      /\ DOMAIN s.seen = {"known", "maps", "profiles"}
      /\ s.seen.known \subseteq MappingsIn(db, b.event) \cup ProfilesIn(db, b.event)
  BY <1>1, <1>2 DEF Content, StageInv, ReadInv
<1>4. /\ t.at = "profiles" /\ t.call = s.call /\ DOMAIN t.mem = {}
      /\ t.new = {} /\ t.todo = {} /\ t.held = {}
      /\ DOMAIN t.seen = DOMAIN s.seen
      /\ t.seen.known = s.seen.known /\ t.seen.maps = Mappings(b.event)
  BY <1>2, <1>3 DEF Fields
<1> HIDE DEF t
<1>5. ReadInv(t, b, db)
  <2>1. t.seen.maps = MappingsIn(db, b.event)
    BY <1>4, SameKeys
  <2>2. \A i \in t.seen.known : i[1] = "mapping" => i \in t.seen.maps
    BY <1>3, <1>4, <2>1 DEF ProfilesIn
  <2>3. QED
    BY <1>3, <1>4, <2>1, <2>2 DEF ReadInv
<1>6. Content(t, b, db)
  BY <1>3, <1>4, <1>5, ReaderContent
<1>7. QED
  BY <1>1, <1>4, <1>6, WorkStep

LEMMA ReadProfilesContent ==
  ASSUME IInv, CInv, NEW w \in Sessions, ReadProfiles(w)
  PROVE  CInv'
<1> DEFINE b == Body(w)
           s == ses[w]
           t == [s EXCEPT !.at = "derive", !.seen.profiles = Profiles(b.event)]
<1>1. s.at = "profiles" /\ Become(w, t) /\ UNCHANGED <<db, asked, told>>
  BY DEF ReadProfiles, Running
<1>2. /\ Content(s, b, db) /\ DOMAIN s = Fields /\ DOMAIN s.mem = {}
      /\ s.new = {} /\ s.todo = {} /\ s.held = {}
  BY <1>1, ReaderIs
<1>3. /\ b.kind = "derive" /\ Needs(b) \subseteq DOMAIN db
      /\ DOMAIN s.seen = {"known", "maps", "profiles"}
      /\ s.seen.known \subseteq MappingsIn(db, b.event) \cup ProfilesIn(db, b.event)
      /\ s.seen.maps \subseteq MappingsIn(db, b.event)
      /\ \A i \in s.seen.known : i[1] = "mapping" => i \in s.seen.maps
  BY <1>1, <1>2 DEF Content, StageInv, ReadInv
<1>4. /\ t.at = "derive" /\ t.call = s.call /\ DOMAIN t.mem = {}
      /\ t.new = {} /\ t.todo = {} /\ t.held = {}
      /\ DOMAIN t.seen = DOMAIN s.seen
      /\ t.seen.known = s.seen.known /\ t.seen.maps = s.seen.maps
      /\ t.seen.profiles = Profiles(b.event)
  BY <1>2, <1>3 DEF Fields
<1> HIDE DEF t
<1>5. ReadInv(t, b, db)
  <2>1. t.seen.profiles = ProfilesIn(db, b.event)
    BY <1>4, SameKeys
  <2>2. \A i \in t.seen.known : i[1] = "profile" => i \in t.seen.profiles
    BY <1>3, <1>4, <2>1 DEF MappingsIn
  <2>3. QED
    BY <1>3, <1>4, <2>1, <2>2 DEF ReadInv
<1>6. Content(t, b, db)
  BY <1>3, <1>4, <1>5, ReaderContent
<1>7. QED
  BY <1>1, <1>4, <1>6, WorkStep

LEMMA AddDerivedContent ==
  ASSUME IInv, CInv, NEW w \in Sessions, AddDerived(w)
  PROVE  CInv'
<1> DEFINE b  == Body(w)
           s  == ses[w]
           id == ScenarioId(b.slug)
<1>1. s.at = "derive" /\ UNCHANGED <<db, asked, told>>
  BY DEF AddDerived, Running
<1>2. /\ Content(s, b, db) /\ DOMAIN s = Fields /\ DOMAIN s.mem = {}
      /\ s.new = {} /\ s.todo = {} /\ s.held = {}
  BY <1>1, ReaderIs
<1>3. /\ b.kind = "derive" /\ Needs(b) \subseteq DOMAIN db
      /\ s.seen.known \subseteq MappingsIn(db, b.event) \cup ProfilesIn(db, b.event)
      /\ s.seen.maps \subseteq MappingsIn(db, b.event)
      /\ \A i \in s.seen.known : i[1] = "mapping" => i \in s.seen.maps
      /\ s.seen.profiles \subseteq ProfilesIn(db, b.event)
      /\ \A i \in s.seen.known : i[1] = "profile" => i \in s.seen.profiles
  BY <1>1, <1>2 DEF Content, StageInv, ReadInv
<1>4. Named(b) = id
  BY <1>3, NamedIs
<1>5. CASE Has(id) /\ Become(w, Answering(s, id))
  <2> DEFINE t == Answering(s, id)
  <2>1. Content(t, b, db)
    BY <1>2, <1>3, <1>4, <1>5, FoundAnswer DEF Finders, Has
  <2>2. t.call = s.call
    BY <1>2, AnsweringCall
  <2>3. Become(w, t)
    BY <1>5
  <2> HIDE DEF t
  <2>4. QED
    BY <1>1, <2>1, <2>2, <2>3, WorkStep
<1>6. ASSUME NEW p \in Resolved(w), NEW row \in DerivedRows(b.event, s.seen.maps, p),
             Become(w, Answering(Adding(s, Row(id, row)), id))
      PROVE  CInv'
  <2> DEFINE rows == Row(id, row)
             t    == Answering(Adding(s, rows), id)
  <2>1. p \in Usable(db, b) /\ (b.profile = None /\ s.seen.profiles # {} => p \in s.seen.profiles)
    <3>1. CASE b.profile = None
      BY <1>3, <3>1 DEF Resolved, Usable
    <3>2. CASE b.profile # None
      <4>1. p = ProfileId(b.event, b.profile)
        BY <3>2 DEF Resolved
      <4>2. p \in DOMAIN db
        BY <1>3, <3>2, <4>1, NeedsAre
      <4>3. QED
        BY <3>2, <4>1, <4>2 DEF Usable, ProfilesIn, ProfileId
    <3>3. QED
      BY <3>1, <3>2
  <2>2. row \in DerivedIn(db, b.event, s.seen.maps, p)
    BY DerivedIs
  <2>3. row.assets = s.seen.maps /\ row.profile = p
    <3>1. EventId(b.event) \in DOMAIN db /\ Tables(db)
      BY <1>3, NeedsAre DEF CInv
    <3> DEFINE maps == s.seen.maps
    <3>2. maps \in SUBSET MappingsIn(db, b.event) /\ p \in Usable(db, b)
      BY <1>3, <2>1
    <3>3. row \in DerivedIn(db, b.event, maps, p)
      BY <2>2
    <3> HIDE DEF maps
    <3>4. row.assets = maps /\ row.profile = p
      BY <3>1, <3>2, <3>3, DerivedIsScenario
    <3>5. QED
      BY <3>4 DEF maps
  <2>4. rows \in Writes(b, db)
    <3>1. row \in Derivable(db, b)
      BY <1>3, <2>1, <2>2 DEF Derivable
    <3>2. QED
      BY <1>3, <3>1, DeriveWrites
  <2>5. DOMAIN rows = {id} /\ rows[id] = row
    BY RowIs
  <2>6. ASSUME NEW i \in s.seen.known
        PROVE  IF i[1] = "mapping" THEN i \in row.assets ELSE row.profile # None
    <3>1. CASE i[1] = "mapping"
      BY <1>3, <2>3, <3>1
    <3>2. CASE i[1] # "mapping"
      <4>1. i[1] = "profile" /\ i \in s.seen.profiles
        BY <1>3, <3>2 DEF MappingsIn, ProfilesIn
      <4>2. p \in DOMAIN db /\ p[1] = "profile"
        <5>1. CASE b.profile = None
          BY <1>3, <2>1, <4>1, <5>1 DEF ProfilesIn
        <5>2. CASE b.profile # None
          BY <2>1, <5>2 DEF Usable, ProfilesIn
        <5>3. QED
          BY <5>1, <5>2
      <4>3. RowType(p, db[p])
        BY <4>2 DEF CInv, Tables
      <4>4. QED
        BY <2>3, <3>2, <4>2, <4>3 DEF RowType
    <3>3. QED
      BY <3>1, <3>2
  <2>7. Become(w, t) /\ t.call = s.call
    BY <1>2, <1>6, AnsweringCall
  <2> HIDE DEF rows
  <2>8. Content(t, b, db)
    BY <1>2, <1>3, <1>4, <2>4, <2>5, <2>6, AddedAnswer DEF Kinds, Finders
  <2> HIDE DEF t
  <2>9. QED
    BY <1>1, <2>7, <2>8, WorkStep
<1>7. QED
  BY <1>5, <1>6 DEF AddDerived

LEMMA StartRunContent ==
  ASSUME IInv, CInv, NEW w \in Sessions, NEW k, StartRun(w, k)
  PROVE  CInv'
<1> DEFINE b == asked[k]
           t == Started(k, b.kind)
<1>1. PICK kind \in {"run", "whatif"} : Opens(w, k, kind)
  BY DEF StartRun
<1>2. b.kind = kind
  BY <1>1 DEF Opens
<1>3. /\ Become(w, t) /\ UNCHANGED <<db, asked, told>>
      /\ {ScenarioId(b.slug), PortfolioId(b.portfolio)} \subseteq DOMAIN db
  BY DEF StartRun, Has
<1>4. Needs(b) \subseteq DOMAIN db
  BY <1>2, <1>3, NeedsAre
<1>5. /\ t.at = b.kind /\ t.call = k /\ DOMAIN t.mem = {}
      /\ t.new = {} /\ t.todo = {} /\ t.held = {}
  BY StartedEmpty
<1> HIDE DEF t
<1>6. ReadInv(t, b, db)
  BY <1>2, <1>5 DEF ReadInv
<1>7. Content(t, b, db)
  BY <1>2, <1>4, <1>5, <1>6, ReaderContent
<1>8. QED
  BY <1>1, <1>3, <1>5, <1>7, BeginStep

\* A run of either kind.
LEMMA RunContent ==
  ASSUME IInv, CInv, NEW w \in Sessions, ses[w].at \in {"run", "whatif"},
         NEW id, id = Named(Body(w)), NEW rows \in Writes(Body(w), db), id \in DOMAIN rows,
         Become(w, Answering(IF Has(id) THEN ses[w] ELSE Adding(ses[w], rows), id)),
         UNCHANGED <<db, asked, told>>
  PROVE  CInv'
<1> DEFINE b    == Body(w)
           s    == ses[w]
           old  == Answering(s, id)
           made == Answering(Adding(s, rows), id)
<1>1. /\ Content(s, b, db) /\ DOMAIN s = Fields /\ DOMAIN s.mem = {}
      /\ s.new = {} /\ s.todo = {} /\ s.held = {}
  BY ReaderIs
<1>2. b.kind \in {"run", "whatif"} /\ Needs(b) \subseteq DOMAIN db
  BY <1>1 DEF Content, StageInv
<1>3. old.call = s.call /\ made.call = s.call
  BY <1>1, AnsweringCall
<1>4. CASE Has(id)
  <2>1. Content(old, b, db)
    BY <1>1, <1>2, <1>4, FoundAnswer DEF Finders, Has
  <2>2. Become(w, old)
    BY <1>4
  <2> HIDE DEF old
  <2>3. QED
    BY <1>3, <2>1, <2>2, WorkStep
<1>5. CASE ~ Has(id)
  <2>1. Content(made, b, db)
    BY <1>1, <1>2, AddedAnswer DEF Kinds, Finders
  <2>2. Become(w, made)
    BY <1>5
  <2> HIDE DEF made
  <2>3. QED
    BY <1>3, <2>1, <2>2, WorkStep
<1>6. QED
  BY <1>4, <1>5

LEMMA RunsContent ==
  ASSUME IInv, CInv, NEW w \in Sessions, RunScenario(w) \/ RunCounterfactual(w)
  PROVE  CInv'
<1> DEFINE b == Body(w)
<1>1. CASE RunScenario(w)
  <2> DEFINE id   == RunId(b.slug, b.portfolio, b.date)
             rows == RunRows(b)
  <2>1. /\ ses[w].at = "run" /\ UNCHANGED <<db, asked, told>>
        /\ Become(w, Answering(IF Has(id) THEN ses[w] ELSE Adding(ses[w], rows), id))
    BY <1>1 DEF RunScenario, Running
  <2>2. Content(ses[w], b, db)
    BY <2>1, ReaderIs
  <2>3. b.kind = "run"
    BY <2>1, <2>2 DEF Content, StageInv
  <2>4. id = Named(b) /\ rows \in Writes(b, db)
    BY <2>3, NamedIs, RunWrites, SameRuns
  <2>5. id \in DOMAIN rows
    BY RowIs, SameRuns
  <2> HIDE DEF id, rows
  <2>6. QED
    BY <2>1, <2>4, <2>5, RunContent
<1>2. CASE RunCounterfactual(w)
  <2> DEFINE id   == WhatIfId(b.slug, b.portfolio, b.date)
             rows == WhatIfRows(b)
  <2>1. /\ ses[w].at = "whatif" /\ UNCHANGED <<db, asked, told>>
        /\ Become(w, Answering(IF Has(id) THEN ses[w] ELSE Adding(ses[w], rows), id))
    BY <1>2 DEF RunCounterfactual, Running
  <2>2. Content(ses[w], b, db)
    BY <2>1, ReaderIs
  <2>3. b.kind = "whatif"
    BY <2>1, <2>2 DEF Content, StageInv
  <2>4. id = Named(b) /\ rows \in Writes(b, db)
    BY <2>3, NamedIs, WhatIfWrites, SameRuns
  <2>5. id \in DOMAIN rows
    BY RowIs, SameRuns
  <2> HIDE DEF id, rows
  <2>6. QED
    BY <2>1, <2>4, <2>5, RunContent
<1>3. QED
  BY <1>1, <1>2

-----------------------------------------------------------------------------
(* A commit, and every other step.                                         *)

LEMMA CommitIs ==
  ASSUME IInv, CInv, NEW w \in Sessions, Commit(w)
  PROVE  /\ Body(w).kind \in Kinds /\ Proper(Body(w)) /\ Needs(Body(w)) \subseteq DOMAIN db
         /\ ses[w].answer = Named(Body(w))
         /\ ses[w].call \in DOMAIN asked \ DOMAIN told
         /\ Wrote(Body(w), db, db')
         /\ Grows(db, db')
         /\ DOMAIN db' = ses[w].held \cup DOMAIN db
<1> DEFINE s == ses[w]
           b == Body(w)
<1>1. /\ s.at = "commit" /\ s.todo = {}
      /\ db' = Over([i \in s.held |-> s.mem[i]], db)
  BY DEF Commit, Running
<1>2. /\ Proper(b) /\ Content(s, b, db)
      /\ s.new \cup s.held \subseteq DOMAIN s.mem
      /\ \A i \in s.held : Has(i) => Amendable(i)
  BY <1>1, WorkValid
<1>3. Tables(db)
  BY DEF CInv
<1>4. Wrote(b, db, db')
  BY <1>1, <1>2, <1>3, CommitWrote DEF Has
<1>5. Grows(db, db')
  BY <1>2, <1>3, <1>4, WroteGrows
<1>6. b.kind \in Kinds /\ Needs(b) \subseteq DOMAIN db /\ s.answer = Named(b)
  BY <1>1, <1>2 DEF Content, StageInv
<1>7. s.call \in DOMAIN asked \ DOMAIN told
  BY <1>1 DEF CInv, CallsInv, IInv, TypeOK, SessionType
<1>8. DOMAIN db' = s.held \cup DOMAIN db
  BY <1>1 DEF Over
<1>9. QED
  BY <1>2, <1>4, <1>5, <1>6, <1>7, <1>8

\* The default templates, in tables d.
Complete(d) ==
    \A n \in 1 .. Len(DefaultSlugs) :
        LET slug == DefaultSlugs[n]
        IN  /\ TemplateId(slug) \in DOMAIN d
            /\ \A key \in DOMAIN DefaultConstraints[slug] :
                  /\ ConstraintId(slug, key) \in DOMAIN d
                  /\ d[ConstraintId(slug, key)].value = DefaultConstraints[slug][key]

LEMMA SeedCompletes ==
  ASSUME NEW d, NEW e, e = Over(DefaultRows, Over(d, Over(System, DefaultTemplates)))
  PROVE  Complete(e)
<1> DEFINE lower == Over(System, DefaultTemplates)
           above == Over(d, lower)
<1>1. DOMAIN lower = DOMAIN System \cup DOMAIN DefaultTemplates
  BY OverDomain
<1> HIDE DEF lower
<1>2. DOMAIN above = DOMAIN d \cup DOMAIN lower
  BY OverDomain
<1> HIDE DEF above
<1>3. e = Over(DefaultRows, above)
  BY DEF above, lower
<1>4. DOMAIN e = DOMAIN DefaultRows \cup DOMAIN above
  BY <1>3, OverDomain
<1>5. \A i \in DOMAIN DefaultRows : e[i] = DefaultRows[i]
  BY <1>3, OverLeft
<1>6. ASSUME NEW n \in 1 .. Len(DefaultSlugs)
      PROVE  TemplateId(DefaultSlugs[n]) \in DOMAIN e
  BY <1>1, <1>2, <1>4, DefaultTemplatesAre
<1>7. ASSUME NEW n \in 1 .. Len(DefaultSlugs), NEW key \in DOMAIN DefaultConstraints[DefaultSlugs[n]]
      PROVE  /\ ConstraintId(DefaultSlugs[n], key) \in DOMAIN e
             /\ e[ConstraintId(DefaultSlugs[n], key)].value = DefaultConstraints[DefaultSlugs[n]][key]
  <2> DEFINE i == ConstraintId(DefaultSlugs[n], key)
  <2>1. i \in DOMAIN DefaultRows /\ DefaultRows[i] = [value |-> DefaultConstraints[DefaultSlugs[n]][key]]
    BY DefaultRowsAre
  <2> HIDE DEF i
  <2>2. i \in DOMAIN e /\ e[i].value = DefaultConstraints[DefaultSlugs[n]][key]
    BY <1>4, <1>5, <2>1
  <2>3. QED
    BY <2>2 DEF i
<1>8. QED
  BY <1>6, <1>7 DEF Complete

LEMMA CompleteGrows ==
  ASSUME NEW d, NEW e, Grows(d, e), Complete(d)
  PROVE  Complete(e)
<1>1. ASSUME NEW n \in 1 .. Len(DefaultSlugs)
      PROVE  TemplateId(DefaultSlugs[n]) \in DOMAIN e
  BY DEF Complete, Grows
<1>2. ASSUME NEW n \in 1 .. Len(DefaultSlugs), NEW key \in DOMAIN DefaultConstraints[DefaultSlugs[n]]
      PROVE  /\ ConstraintId(DefaultSlugs[n], key) \in DOMAIN e
             /\ e[ConstraintId(DefaultSlugs[n], key)].value = DefaultConstraints[DefaultSlugs[n]][key]
  <2> DEFINE i == ConstraintId(DefaultSlugs[n], key)
  <2>1. i \in DOMAIN d /\ d[i].value = DefaultConstraints[DefaultSlugs[n]][key]
    BY DEF Complete
  <2>2. DefaultRows[i] = [value |-> DefaultConstraints[DefaultSlugs[n]][key]]
    BY DefaultRowsAre
  <2>3. QED
    BY <2>1, <2>2 DEF Grows
<1>3. QED
  BY <1>1, <1>2 DEF Complete

LEMMA CommitContent ==
  ASSUME IInv, CInv, NEW w \in Sessions, Commit(w)
  PROVE  CInv'
<1> DEFINE s == ses[w]
           b == Body(w)
<1>1. /\ b.kind \in Kinds /\ Proper(b) /\ Needs(b) \subseteq DOMAIN db
      /\ s.call \in DOMAIN asked \ DOMAIN told
      /\ Wrote(b, db, db')
      /\ Grows(db, db')
      /\ DOMAIN db' = s.held \cup DOMAIN db
  BY CommitIs
<1>2. Tables(db)
  BY DEF CInv
<1>3. Tables(db')
  BY <1>1, <1>2, TablesWrote
<1>4. DOMAIN ses' = Sessions /\ \A v \in Sessions : ses'[v] = IF v = w THEN Idle ELSE ses[v]
  BY DEF Commit, IInv, TypeOK, Become
<1>5. s.at = "commit" /\ Idle.at = "idle"
  BY DEF Commit, Running, Idle
<1>6. UNCHANGED asked /\ DOMAIN told' \subseteq DOMAIN told \cup {s.call}
  <2> DEFINE reply == [id |-> s.answer, row |-> Over([i \in s.held |-> s.mem[i]], db)[s.answer]]
             row   == Row(s.call, reply)
  <2>1. UNCHANGED asked /\ (told' = Over(row, told) \/ told' = told)
    BY DEF Commit
  <2> HIDE DEF reply
  <2>2. DOMAIN row = {s.call}
    BY RowIs
  <2> HIDE DEF row
  <2>3. DOMAIN Over(row, told) = DOMAIN row \cup DOMAIN told
    BY OverDomain
  <2>4. QED
    BY <2>1, <2>2, <2>3
<1>7. CallsInv'
  BY <1>4, <1>5, <1>6 DEF CInv, CallsInv
<1>8. ASSUME NEW v \in Sessions, ses'[v].at # "idle"
      PROVE  Content(ses'[v], asked'[ses'[v].call], db')
  <2>1. v # w /\ ses'[v] = ses[v] /\ ses[v].at # "idle"
    BY <1>4, <1>5, <1>8
  <2>2. Content(ses[v], asked[ses[v].call], db)
    BY <2>1 DEF CInv
  <2>3. \A i \in ses[v].held : i \in DOMAIN db' => i \in DOMAIN db
    BY <1>1, <2>1 DEF IInv, LockInv
  <2>4. Content(ses[v], asked[ses[v].call], db')
    BY <1>1, <1>2, <2>2, <2>3, ContentGrows
  <2>5. QED
    BY <1>6, <2>1, <2>4
<1>9. SeedIsComplete'
  <2>1. SUFFICES ASSUME NEW k \in DOMAIN told', asked'[k].kind = "seed" PROVE Complete(db')
    BY DEF SeedIsComplete, Complete, Has
  <2>2. CASE k \in DOMAIN told
    <3>1. Complete(db)
      BY <1>6, <2>1, <2>2 DEF CInv, SeedIsComplete, Complete, Has
    <3>2. QED
      BY <1>1, <3>1, CompleteGrows
  <2>3. CASE k = s.call
    <3>1. b.kind = "seed"
      BY <1>6, <2>1, <2>3 DEF Body
    <3>2. db' = Over(DefaultRows, Over(db, Over(System, DefaultTemplates)))
      BY <1>1, <3>1 DEF Wrote, Finders, Kinds
    <3>3. QED
      BY <3>2, SeedCompletes
  <2>4. QED
    BY <1>6, <2>1, <2>2, <2>3
<1>10. QED
  BY <1>3, <1>7, <1>8, <1>9 DEF CInv

LEMMA InitContent == ASSUME Init PROVE CInv
<1>1. /\ db = NoRows /\ told = NoRows /\ ses = [w \in Sessions |-> Idle]
      /\ \E calls : asked = [k \in calls |-> Ask[k]]
  BY DEF Init, InitWith
<1>2. DOMAIN NoRows = {}
  BY DEF NoRows
<1>3. \A w \in Sessions : ses[w].at = "idle"
  BY <1>1 DEF Idle
<1>4. CallsInv
  BY <1>1, <1>2, <1>3 DEF CallsInv
<1>5. Tables(db)
  <2>1. NoRows = [i \in DOMAIN NoRows |-> NoRows[i]]
    BY DEF NoRows
  <2>2. QED
    BY <1>1, <1>2, <2>1 DEF Tables, RunsExact
<1>6. SeedIsComplete
  BY <1>1, <1>2 DEF SeedIsComplete
<1>7. QED
  BY <1>3, <1>4, <1>5, <1>6 DEF CInv

LEMMA CallContent ==
  ASSUME IInv, CInv, NEW w \in Sessions, NEW k, FactoryCall(w, k) \/ LabCall(w, k)
  PROVE  CInv' /\ UNCHANGED <<db, asked, told>>
<1>1. UNCHANGED <<db, asked, told>>
  BY DEF FactoryCall, LabCall, SeedTemplates, CreateTemplate, CreateInstance, CreateEvent,
     AddAssetMapping, AddImpactProfile, AddToEvent, CreateScenario, DeriveScenario, StartRun
<1>2. FactoryCall(w, k) => CInv'
  BY SeedTemplatesContent, CreateTemplateContent, CreateInstanceContent DEF FactoryCall
<1>3. LabCall(w, k) => CInv'
  BY CreateEventContent, ChildrenContent, CreateScenarioContent, DeriveScenarioContent,
     StartRunContent DEF LabCall
<1>4. QED
  BY <1>1, <1>2, <1>3

LEMMA StepContent ==
  ASSUME IInv, CInv, NEW w \in Sessions, Flush(w) \/ FactoryStep(w) \/ LabStep(w) \/ Crash(w)
  PROVE  CInv' /\ UNCHANGED <<db, asked, told>>
<1>1. UNCHANGED <<db, asked, told>>
  BY DEF Flush, Crash, FactoryStep, SystemUser, DefaultFamily, GetOrCreate, SeedExisting,
     SeedMissing, SeedEnd, AddTemplate, LabStep, ReadMappings, ReadProfiles, AddDerived,
     RunScenario, RunCounterfactual
<1>2. Flush(w) => CInv'
  BY FlushContent
<1>3. FactoryStep(w) => CInv'
  BY SystemContent, SeedExistingContent, SeedMissingContent, SeedEndContent, AddTemplateContent
     DEF FactoryStep
<1>4. LabStep(w) => CInv'
  BY ReadMappingsContent, ReadProfilesContent, AddDerivedContent, RunsContent DEF LabStep
<1>5. Crash(w) => CInv'
  BY <1>1, EndStep DEF Crash
<1>6. QED
  BY <1>1, <1>2, <1>3, <1>4, <1>5

\* Only a commit changes the tables, or answers a call.
LEMMA NextContent ==
  ASSUME IInv, CInv, [Next]_vars
  PROVE  CInv' /\ (UNCHANGED <<db, asked, told>> \/ \E w \in Sessions : Commit(w))
<1>1. CASE UNCHANGED vars
  <2>1. UNCHANGED <<db, ses, asked, told>>
    BY <1>1 DEF vars
  <2>2. CallsInv' /\ SeedIsComplete'
    BY <2>1 DEF CInv, CallsInv, SeedIsComplete, Has
  <2>3. ASSUME NEW v \in Sessions, ses'[v].at # "idle"
        PROVE  Content(ses'[v], asked'[ses'[v].call], db')
    BY <2>1, <2>3 DEF CInv
  <2>4. Tables(db')
    BY <2>1 DEF CInv
  <2>5. QED
    BY <2>1, <2>2, <2>3, <2>4 DEF CInv
<1>2. ASSUME NEW w \in Sessions, Flush(w) \/ FactoryStep(w) \/ LabStep(w) \/ Crash(w)
      PROVE  CInv' /\ UNCHANGED <<db, asked, told>>
  BY <1>2, StepContent
<1>3. ASSUME NEW w \in Sessions, Commit(w)
      PROVE  CInv'
  BY <1>3, CommitContent
<1>4. ASSUME NEW w \in Sessions, NEW k, FactoryCall(w, k) \/ LabCall(w, k)
      PROVE  CInv' /\ UNCHANGED <<db, asked, told>>
  BY <1>4, CallContent
<1>5. QED
  BY <1>1, <1>2, <1>3, <1>4 DEF Next, Progress, Step, Call, Quiescent

LEMMA Contents == Spec => [](IInv /\ CInv)
<1>1. CInv /\ IInv /\ [Next]_vars => CInv'
  BY NextContent
<1>2. QED
  BY Invariance, InitContent, <1>1, PTL DEF Spec

-----------------------------------------------------------------------------
(* The refinement.                                                         *)

LEMMA AtomicInit == Init => Atomic!Init
<1> SUFFICES ASSUME Init PROVE Atomic!Init
  OBVIOUS
<1>1. PICK plan \in Plans : InitWith(plan)
  BY DEF Init
<1>2. QED
  BY <1>1, SameBasics DEF InitWith, Atomic!Init

\* A commit carries its call out.
LEMMA AtomicCommit ==
  ASSUME IInv, CInv, NEW w \in Sessions, Commit(w)
  PROVE  Atomic!Next
<1> DEFINE k == ses[w].call
           b == asked[k]
<1>1. /\ k \in DOMAIN asked \ DOMAIN told
      /\ b.kind \in Kinds /\ Needs(b) \subseteq DOMAIN db /\ Wrote(b, db, db')
      /\ ses[w].answer = Named(b)
  BY CommitIs DEF Body
<1>2. Atomic!Execute(b)
  BY <1>1, AtomicExecute
<1>3. Atomic!Reply(k)
  <2>1. CASE UNCHANGED told
    BY <2>1 DEF Atomic!Reply
  <2>2. CASE told' = Over(Row(k, [id |-> ses[w].answer, row |-> db'[ses[w].answer]]), told)
    <3>1. told' = Over(Row(k, [id |-> Named(b), row |-> db'[Named(b)]]), told)
      BY <1>1, <2>2
    <3>2. QED
      BY <3>1, SameBasics DEF Atomic!Reply, Named
  <2>3. QED
    BY <2>1, <2>2 DEF Commit
<1>4. UNCHANGED asked
  BY DEF Commit
<1>5. QED
  BY <1>1, <1>2, <1>3, <1>4 DEF Atomic!Next

\* What becomes of the tables and what clients are told, through any conflicts,
\* crashes, lost replies and repetitions of overlapping requests, is what calls
\* carried out one at a time could have made of them: a call is carried out at
\* its commit, and no other statement is seen.
THEOREM Refinement == Spec => ImplementsAtomicApi
<1>1. IInv /\ CInv /\ [Next]_vars => [Atomic!Next]_(Atomic!vars)
  <2> SUFFICES ASSUME IInv, CInv, [Next]_vars PROVE [Atomic!Next]_(Atomic!vars)
    OBVIOUS
  <2>1. CASE UNCHANGED <<db, asked, told>>
    BY <2>1 DEF Atomic!vars
  <2>2. ASSUME NEW w \in Sessions, Commit(w) PROVE Atomic!Next
    BY <2>2, AtomicCommit
  <2>3. QED
    BY <2>1, <2>2, NextContent
<1>2. QED
  BY AtomicInit, Contents, <1>1, PTL DEF Spec, ImplementsAtomicApi, Atomic!Spec

-----------------------------------------------------------------------------
(* What the tables hold.                                                   *)

\* Once a seed has been answered, the default templates are there with all of
\* their constraints at the default values, whoever made a template of that
\* slug before, or while the seed ran, and with whatever constraints.
THEOREM SeedComplete == Spec => []SeedIsComplete
<1>1. CInv => SeedIsComplete
  BY DEF CInv
<1>2. QED
  BY Contents, <1>1, PTL

LEMMA AppliedCovers ==
  ASSUME NEW d, Tables(d), NEW p, NEW vector
  PROVE  /\ {PositionId(p, t) : t \in DOMAIN AppliedIn(d, p, vector).impact} = PositionsIn(d, p)
         /\ AppliedIn(d, p, vector).nav
                = d[PortfolioId(p)].capital + SumFunction(AppliedIn(d, p, vector).impact)
<1>1. DOMAIN AppliedIn(d, p, vector).impact = {i[3] : i \in PositionsIn(d, p)}
  BY DEF AppliedIn
<1>2. \A i \in PositionsIn(d, p) : i = PositionId(p, i[3])
  BY DEF PositionsIn, Tables, RowType
<1>3. {PositionId(p, t) : t \in DOMAIN AppliedIn(d, p, vector).impact} = PositionsIn(d, p)
  BY <1>1, <1>2
<1>4. AppliedIn(d, p, vector).nav
          = d[PortfolioId(p)].capital + SumFunction(AppliedIn(d, p, vector).impact)
  BY DEF AppliedIn
<1>5. QED
  BY <1>3, <1>4

\* The two figures of a run, of either kind, are those of a vector applied.
LEMMA RunFigures ==
  ASSUME NEW d, Tables(d), NEW i \in DOMAIN d, i[1] \in {"run", "whatif"}
  PROVE  LET stored  == d[ScenarioId(i[2])].vector
             vector  == IF i[1] = "run" THEN stored ELSE Adjusted(stored, d[i].assumed)
             applied == AppliedIn(d, i[3], vector)
         IN  d[i].impact = applied.impact /\ d[i].nav = applied.nav
<1> DEFINE stored == d[ScenarioId(i[2])].vector
<1>1. CASE i[1] = "run"
  <2>1. d[i] = AppliedIn(d, i[3], stored)
    BY <1>1 DEF Tables, RunsExact
  <2>2. QED
    BY <1>1, <2>1
<1>2. CASE i[1] = "whatif"
  <2> DEFINE applied == AppliedIn(d, i[3], Adjusted(stored, d[i].assumed))
  <2>1. d[i] = Over([assumed |-> d[i].assumed], applied)
    BY <1>2 DEF Tables, RunsExact
  <2>2. DOMAIN applied = {"impact", "nav"}
    BY DEF AppliedIn
  <2> HIDE DEF applied
  <2>3. /\ Over([assumed |-> d[i].assumed], applied).impact = applied.impact
        /\ Over([assumed |-> d[i].assumed], applied).nav = applied.nav
    BY <2>2 DEF Over
  <2>4. d[i].impact = applied.impact /\ d[i].nav = applied.nav
    BY <2>1, <2>3
  <2>5. QED
    BY <1>2, <2>4 DEF applied
<1>3. QED
  BY <1>1, <1>2

\* A stored run, simulated or counterfactual, prices every position of its
\* portfolio and no other, however its request overlapped those that made the
\* portfolio and the scenario; no position is added to a portfolio later.
THEOREM RunsCover == Spec => []RunsCoverPortfolio
<1>1. CInv => RunsCoverPortfolio
  <2> SUFFICES ASSUME CInv, NEW i \in DOMAIN db, i[1] \in {"run", "whatif"}
               PROVE  /\ {PositionId(i[3], t) : t \in DOMAIN db[i].impact} = Positions(i[3])
                      /\ db[i].nav = db[PortfolioId(i[3])].capital + SumFunction(db[i].impact)
    BY DEF RunsCoverPortfolio
  <2> DEFINE vector  == IF i[1] = "run" THEN db[ScenarioId(i[2])].vector
                        ELSE Adjusted(db[ScenarioId(i[2])].vector, db[i].assumed)
             applied == AppliedIn(db, i[3], vector)
  <2>1. Tables(db)
    BY DEF CInv
  <2>2. db[i].impact = applied.impact /\ db[i].nav = applied.nav
    BY <2>1, RunFigures
  <2> HIDE DEF vector
  <2>3. /\ {PositionId(i[3], t) : t \in DOMAIN applied.impact} = PositionsIn(db, i[3])
        /\ applied.nav = db[PortfolioId(i[3])].capital + SumFunction(applied.impact)
    BY <2>1, AppliedCovers
  <2>4. Positions(i[3]) = PositionsIn(db, i[3])
    BY DEF Positions, PositionsIn
  <2> HIDE DEF applied
  <2>5. QED
    BY <2>2, <2>3, <2>4
<1>2. QED
  BY Contents, <1>1, PTL

\* Assuming nothing leaves a vector of numbers as it is, where it is applied.
LEMMA NeutralVector ==
  ASSUME NEW vector, IsVector(vector), NEW assumed, Neutral(assumed)
  PROVE  \A t : ShockOf(Adjusted(vector, assumed), t) = ShockOf(vector, t)
<1>1. CASE assumed = None
  BY <1>1 DEF Adjusted
<1>2. CASE assumed # None
  <2> DEFINE scaled == [t \in DOMAIN vector.tickers |-> vector.tickers[t] * assumed.multiplier]
             over   == Over(assumed.tickers, scaled)
             v      == Adjusted(vector, assumed)
  <2>1. assumed.multiplier = 1 /\ assumed.tickers = NoRows
    BY <1>2 DEF Neutral
  <2>2. v.default = vector.default * assumed.multiplier /\ v.tickers = over
    BY <1>2 DEF Adjusted, IsVector
  <2>3. v.default = vector.default
    BY <2>1, <2>2 DEF IsVector
  <2>4. \A t \in DOMAIN vector.tickers : scaled[t] = vector.tickers[t]
    BY <2>1 DEF IsVector, IsShocks
  <2>5. DOMAIN scaled = DOMAIN vector.tickers /\ DOMAIN NoRows = {}
    BY DEF NoRows
  <2> HIDE DEF scaled
  <2>6. over = Over(NoRows, scaled)
    BY <2>1
  <2> HIDE DEF over, v
  <2>7. DOMAIN over = DOMAIN scaled
    <3>1. DOMAIN over = DOMAIN NoRows \cup DOMAIN scaled
      BY <2>6, OverDomain
    <3>2. QED
      BY <2>5, <3>1
  <2>8. \A t \in DOMAIN scaled : over[t] = scaled[t]
    BY <2>5, <2>6, OverRight
  <2>9. \A t : ShockOf(v, t) = ShockOf(vector, t)
    BY <2>2, <2>3, <2>4, <2>5, <2>7, <2>8 DEF ShockOf
  <2>10. QED
    BY <2>9 DEF v
<1>3. QED
  BY <1>1, <1>2

LEMMA SameShocks ==
  ASSUME NEW d, NEW p, NEW u, NEW v, \A t : ShockOf(u, t) = ShockOf(v, t)
  PROVE  AppliedIn(d, p, u) = AppliedIn(d, p, v)
  BY DEF AppliedIn

\* A counterfactual run that assumes nothing has the figures of the simulation
\* of its scenario, portfolio and date, whichever was made first.
THEOREM NeutralRuns == Spec => []NeutralAgrees
<1>1. CInv => NeutralAgrees
  <2> SUFFICES ASSUME CInv, NEW i \in DOMAIN db, i[1] = "whatif", Neutral(db[i].assumed),
                      RunId(i[2], i[3], i[4]) \in DOMAIN db
               PROVE  LET run == RunId(i[2], i[3], i[4])
                      IN  db[i].impact = db[run].impact /\ db[i].nav = db[run].nav
    BY DEF NeutralAgrees, Has
  <2> DEFINE run    == RunId(i[2], i[3], i[4])
             stored == db[ScenarioId(i[2])].vector
             vector == Adjusted(stored, db[i].assumed)
  <2>1. Tables(db)
    BY DEF CInv
  <2>2. run \in DOMAIN db /\ run[1] = "run" /\ run[2] = i[2] /\ run[3] = i[3]
    BY DEF RunId
  <2> HIDE DEF run
  <2>3. LET applied == AppliedIn(db, i[3], stored)
        IN  db[run].impact = applied.impact /\ db[run].nav = applied.nav
    BY <2>1, <2>2, RunFigures
  <2>4. LET applied == AppliedIn(db, i[3], vector)
        IN  db[i].impact = applied.impact /\ db[i].nav = applied.nav
    BY <2>1, RunFigures
  <2>5. IsVector(stored)
    <3>1. ScenarioId(i[2]) \in DOMAIN db
      BY <2>1 DEF Tables, RunsExact
    <3>2. RowType(ScenarioId(i[2]), db[ScenarioId(i[2])])
      BY <2>1, <3>1 DEF Tables
    <3>3. QED
      BY <3>2 DEF RowType, ScenarioId
  <2>6. AppliedIn(db, i[3], vector) = AppliedIn(db, i[3], stored)
    BY <2>5, NeutralVector, SameShocks
  <2>7. QED
    BY <2>3, <2>4, <2>6 DEF run
<1>2. QED
  BY Contents, <1>1, PTL

\* A scenario derived from an event takes account of every mapping, and of the
\* presence of a profile, that was committed when its request began.
THEOREM DerivedCurrent == Spec => []DerivedIsCurrent
<1>1. IInv /\ CInv => DerivedIsCurrent
  <2> SUFFICES ASSUME CInv, NEW w \in Sessions,
                      ses[w].at = "commit", asked[ses[w].call].kind = "derive",
                      ses[w].answer \in ses[w].new, NEW i \in ses[w].seen.known
               PROVE  LET scenario == ses[w].mem[ses[w].answer]
                      IN  IF i[1] = "mapping" THEN i \in scenario.assets ELSE scenario.profile # None
    BY DEF DerivedIsCurrent
  <2>1. CurrentInv(ses[w], asked[ses[w].call])
    BY DEF CInv, Content
  <2>2. QED
    BY <2>1 DEF CurrentInv
<1>2. QED
  BY Contents, <1>1, PTL
=============================================================================
