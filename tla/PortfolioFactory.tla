-------------------------- MODULE PortfolioFactory --------------------------
(***************************************************************************)
(* PortfolioFactoryService: the seed of the default templates, the         *)
(* creation of templates and of portfolios with their positions.           *)
(***************************************************************************)
EXTENDS OrmSessions

\* Constraint keys are numbers, in the order in which the seed adds them.
ASSUME PortfolioFactoryAssumption ==
    /\ Len(DefaultSlugs) \in Nat \ {0}
    /\ \A m, n \in 1 .. Len(DefaultSlugs) : m < n =>
          /\ DefaultSlugs[m] # DefaultSlugs[n]
          /\ \A a \in DOMAIN DefaultConstraints[DefaultSlugs[m]],
               b \in DOMAIN DefaultConstraints[DefaultSlugs[n]] : a < b

\* _sync_constraints: the rows that the wanted values add or change.
ToSync(slug, wanted) ==
    {i \in {ConstraintId(slug, key) : key \in DOMAIN wanted} :
        ~ Has(i) \/ db[i].value # wanted[i[3]]}

-----------------------------------------------------------------------------
(* The system user and the default family, for both services below.        *)

\* _get_or_create_system_user and _get_or_create_default_family.
GetOrCreate(w, step, id, next) ==
    /\ Running(w, step)
    /\ LET s == [ses[w] EXCEPT !.at = next]
       IN  Become(w, IF Has(id) THEN s ELSE Adding(s, Row(id, "system")))
    /\ UNCHANGED <<db, asked, told, refused, faults>>

SystemUser(w) == GetOrCreate(w, "user", UserId, "family")

DefaultFamily(w) ==
    GetOrCreate(w, "family", FamilyId, IF Body(w).kind = "seed" THEN "seed" ELSE "template")

-----------------------------------------------------------------------------
(* seed_default_templates.                                                 *)

\* seen counts the templates done; unsaved constraints stay in memory until
\* the next flush.
SeedTemplates(w, k) ==
    /\ Opens(w, k, "seed")
    /\ Become(w, [Started(k, "user") EXCEPT !.seen = [done |-> 0, unsaved |-> {}]])
    /\ UNCHANGED <<db, asked, told, refused, faults>>

\* Session s once the constraints in ids have been given their default values.
Synced(s, slug, ids) ==
    [Keeping(s, ConstraintRows(ids, DefaultConstraints[slug]), {i \in ids : ~ Has(i)}) EXCEPT
        !.seen = [done |-> @.done + 1, unsaved |-> @.unsaved \cup ids]]

\* Session s as it flushes what is unsaved.
Saving(s) == [s EXCEPT !.todo = @ \cup s.seen.unsaved, !.seen.unsaved = {}]

SeedSkipsExisting(w) ==
    /\ Running(w, "seed")
    /\ ses[w].seen.done < Len(DefaultSlugs)
    /\ LET slug == DefaultSlugs[ses[w].seen.done + 1]
       IN  /\ Has(TemplateId(slug))
           /\ Become(w, Synced(ses[w], slug, {}))
    /\ UNCHANGED <<db, asked, told, refused, faults>>

\* A template that exists, whoever made it, has its constraints synchronised.
SeedExisting(w) ==
    /\ Running(w, "seed")
    /\ ses[w].seen.done < Len(DefaultSlugs)
    /\ LET slug == DefaultSlugs[ses[w].seen.done + 1]
       IN  /\ Has(TemplateId(slug))
           /\ Become(w, Synced(ses[w], slug, ToSync(slug, DefaultConstraints[slug])))
    /\ UNCHANGED <<db, asked, told, refused, faults>>

\* A missing template is added and flushed, with what is unsaved before it; its
\* constraints are then unsaved themselves.
SeedMissing(w) ==
    /\ Running(w, "seed")
    /\ ses[w].seen.done < Len(DefaultSlugs)
    /\ LET slug == DefaultSlugs[ses[w].seen.done + 1]
           id   == TemplateId(slug)
           s    == Adding(Saving(ses[w]), Row(id, [constraints |-> DefaultConstraints[slug]]))
           all  == {ConstraintId(slug, key) : key \in DOMAIN DefaultConstraints[slug]}
       IN  /\ ~ Has(id)
           /\ Become(w, Synced(s, slug, all))
    /\ UNCHANGED <<db, asked, told, refused, faults>>

\* The last flush; the reply names the templates.
SeedEnd(w) ==
    /\ Running(w, "seed")
    /\ ses[w].seen.done = Len(DefaultSlugs)
    /\ Become(w, Answering(Saving(ses[w]), TemplateId(DefaultSlugs[Len(DefaultSlugs)])))
    /\ UNCHANGED <<db, asked, told, refused, faults>>

-----------------------------------------------------------------------------
(* create_template and create_instance.                                    *)

CreateTemplate(w, k) ==
    /\ Opens(w, k, "template")
    /\ LET id == TemplateId(asked[k].slug)
       IN  Become(w, IF Has(id) THEN Answering(Started(k, "commit"), id) ELSE Started(k, "user"))
    /\ UNCHANGED <<db, asked, told, refused, faults>>

AddTemplateAlone(w) ==
    /\ Running(w, "template")
    /\ LET b == Body(w)
       IN  Become(w, Answering(
               Adding(ses[w], Row(TemplateId(b.slug), [constraints |-> b.constraints])), TemplateId(b.slug)))
    /\ UNCHANGED <<db, asked, told, refused, faults>>

\* The template with its constraints, flushed together.
AddTemplate(w) ==
    /\ Running(w, "template")
    /\ LET b == Body(w)
       IN  Become(w, Answering(Adding(ses[w], TemplateRows(b.slug, b.constraints)), TemplateId(b.slug)))
    /\ UNCHANGED <<db, asked, told, refused, faults>>

\* No earlier instance is looked for: (template, name, date), here one name, is
\* left to the unique constraint.  The template's id comes from a reply.
CreateInstance(w, k) ==
    /\ Opens(w, k, "portfolio")
    /\ LET b == asked[k]
       IN  /\ Has(TemplateId(b.template))
           /\ Become(w, Answering(Adding(Started(k, "commit"), PortfolioRows(b)), PortfolioId(b.name)))
    /\ UNCHANGED <<db, asked, told, refused, faults>>

FactoryCall(w, k) == SeedTemplates(w, k) \/ CreateTemplate(w, k) \/ CreateInstance(w, k)

FactoryStep(w) ==
    \/ SystemUser(w) \/ DefaultFamily(w)
    \/ SeedExisting(w) \/ SeedMissing(w) \/ SeedEnd(w)
    \/ AddTemplate(w)
=============================================================================
