------------------------- MODULE ResearchApi_proofs -------------------------
(***************************************************************************)
(* Proofs about ResearchApi, for any sessions, calls, bodies and default   *)
(* templates, and any number of faults.                                    *)
(***************************************************************************)
EXTENDS ResearchApi, TLAPS

Fields == {"at", "call", "seen", "answer", "mem", "new", "todo", "held"}

LEMMA IdleFields == DOMAIN Idle = Fields
  BY DEF Idle, Fields

\* Rows laid over others keep the names of both.
LEMMA OverDomain ==
  ASSUME NEW rows, NEW others
  PROVE  DOMAIN Over(rows, others) = DOMAIN rows \cup DOMAIN others
  BY DEF Over

LEMMA KeepingFields ==
  ASSUME NEW s, DOMAIN s = Fields, NEW rows, NEW added,
         NEW t, t = Keeping(s, rows, added)
  PROVE  /\ DOMAIN t = Fields
         /\ t.at = s.at /\ t.call = s.call /\ t.seen = s.seen /\ t.answer = s.answer
         /\ t.todo = s.todo /\ t.held = s.held
         /\ t.new = s.new \cup added
         /\ DOMAIN t.mem = DOMAIN rows \cup DOMAIN s.mem
  BY OverDomain DEF Keeping, Fields

LEMMA AddingFields ==
  ASSUME NEW s, DOMAIN s = Fields, NEW rows,
         NEW t, t = Adding(s, rows)
  PROVE  /\ DOMAIN t = Fields
         /\ t.at = s.at /\ t.call = s.call /\ t.seen = s.seen /\ t.answer = s.answer
         /\ t.todo = s.todo \cup DOMAIN rows
         /\ t.held = s.held
         /\ t.new = s.new \cup DOMAIN rows
         /\ DOMAIN t.mem = DOMAIN rows \cup DOMAIN s.mem
  <1> DEFINE u == Keeping(s, rows, DOMAIN rows)
  <1>1. /\ DOMAIN u = Fields
        /\ u.at = s.at /\ u.call = s.call /\ u.seen = s.seen /\ u.answer = s.answer
        /\ u.todo = s.todo /\ u.held = s.held
        /\ u.new = s.new \cup DOMAIN rows
        /\ DOMAIN u.mem = DOMAIN rows \cup DOMAIN s.mem
    BY KeepingFields
  <1>2. t = [u EXCEPT !.todo = @ \cup DOMAIN rows]
    BY DEF Adding
  <1> HIDE DEF u
  <1>3. QED
    BY <1>1, <1>2 DEF Fields

LEMMA AnsweringFields ==
  ASSUME NEW s, DOMAIN s = Fields, NEW id,
         NEW t, t = Answering(s, id)
  PROVE  /\ DOMAIN t = Fields
         /\ t.at = "commit" /\ t.answer = id
         /\ t.call = s.call /\ t.seen = s.seen /\ t.mem = s.mem
         /\ t.new = s.new /\ t.todo = s.todo /\ t.held = s.held
  BY DEF Answering, Fields

LEMMA StartedFields ==
  ASSUME NEW k, NEW step, NEW t, t = Started(k, step)
  PROVE  /\ DOMAIN t = Fields
         /\ t.at = step /\ t.call = k
         /\ t.mem = NoRows /\ t.new = {} /\ t.todo = {} /\ t.held = {}
  BY DEF Started, Idle, Fields


LEMMA SavingFields ==
  ASSUME NEW s, DOMAIN s = Fields, DOMAIN s.seen = {"done", "unsaved"},
         NEW t, t = Saving(s)
  PROVE  /\ DOMAIN t = Fields
         /\ t.at = s.at /\ t.call = s.call /\ t.answer = s.answer /\ t.mem = s.mem
         /\ t.new = s.new /\ t.held = s.held
         /\ t.todo = s.todo \cup s.seen.unsaved
         /\ DOMAIN t.seen = {"done", "unsaved"}
         /\ t.seen.unsaved = {} /\ t.seen.done = s.seen.done
  BY DEF Saving, Fields

LEMMA SyncedFields ==
  ASSUME NEW s, DOMAIN s = Fields, DOMAIN s.seen = {"done", "unsaved"},
         NEW slug, NEW ids, NEW t, t = Synced(s, slug, ids)
  PROVE  /\ DOMAIN t = Fields
         /\ t.at = s.at /\ t.call = s.call /\ t.answer = s.answer
         /\ t.todo = s.todo /\ t.held = s.held
         /\ s.new \subseteq t.new /\ t.new \subseteq s.new \cup ids
         /\ DOMAIN t.mem = ids \cup DOMAIN s.mem
         /\ DOMAIN t.seen = {"done", "unsaved"}
         /\ t.seen.unsaved = s.seen.unsaved \cup ids /\ t.seen.done = s.seen.done + 1
  <1> DEFINE rows  == ConstraintRows(ids, DefaultConstraints[slug])
             added == {i \in ids : ~ Has(i)}
             u     == Keeping(s, rows, added)
  <1>1. DOMAIN rows = ids /\ added \subseteq ids
    BY DEF ConstraintRows
  <1>2. /\ DOMAIN u = Fields
        /\ u.at = s.at /\ u.call = s.call /\ u.seen = s.seen /\ u.answer = s.answer
        /\ u.todo = s.todo /\ u.held = s.held
        /\ u.new = s.new \cup added
        /\ DOMAIN u.mem = DOMAIN rows \cup DOMAIN s.mem
    BY KeepingFields
  <1>3. t = [u EXCEPT !.seen = [done |-> @.done + 1, unsaved |-> @.unsaved \cup ids]]
    BY DEF Synced
  <1> HIDE DEF u, added, rows
  <1>4. QED
    BY <1>1, <1>2, <1>3 DEF Fields

-----------------------------------------------------------------------------
(* A step of a handler: it changes its session, and nothing else.          *)

SessionInv(s) == SessionType(s) /\ FlushInv(s) /\ SeedInv(s)

\* A step that leaves its session in order, and takes no row that another
\* session holds, keeps the invariant.
LEMMA SessionStep ==
  ASSUME IInv, NEW w \in Sessions, NEW t, Become(w, t), SessionInv(t),
         \A i \in t.held \ ses[w].held : ~ Locked(w, i),
         UNCHANGED <<db, asked, told>>,
         refused' \subseteq DOMAIN asked, faults' \in 0 .. MaxFaults
  PROVE  IInv'
<1>1. DOMAIN ses' = Sessions /\ \A v \in Sessions : ses'[v] = IF v = w THEN t ELSE ses[v]
  BY DEF IInv, TypeOK, Become
<1>2. TypeOK'
  BY <1>1 DEF IInv, TypeOK, SessionInv, SessionType
<1>3. (\A v \in Sessions : FlushInv(ses[v]))'
  BY <1>1 DEF IInv, SessionInv, FlushInv, Has
<1>4. (\A v \in Sessions : SeedInv(ses[v]))'
  BY <1>1 DEF IInv, SessionInv, SeedInv, Has
<1>5. LockInv'
  BY <1>1 DEF IInv, LockInv, Locked
<1>6. (ToldInv /\ AnswersHold)'
  BY DEF IInv, ToldInv, AnswersHold, Has
<1>7. QED
  BY <1>2, <1>3, <1>4, <1>5, <1>6 DEF IInv

\* A session that starts over is in order.
LEMMA IdleInv == SessionInv(Idle) /\ Idle.held = {}
  BY DEF SessionInv, SessionType, FlushInv, SeedInv, Idle, Stages

\* A statement of a flush, done or failed.
LEMMA FlushStep == ASSUME IInv, NEW w \in Sessions, Flush(w) PROVE IInv'
<1>1. UNCHANGED <<db, asked, told>> /\ faults' \in 0 .. MaxFaults
  BY DEF Flush, IInv, TypeOK
<1>2. PICK id \in ses[w].todo :
          /\ ~ Locked(w, id)
          /\ \/ /\ ~ (id \in ses[w].new /\ Has(id))
                /\ Written(w, id)
                /\ UNCHANGED refused
             \/ /\ id \in ses[w].new /\ Has(id)
                /\ Become(w, Idle)
                /\ refused' = refused \cup {k \in {ses[w].call} : asked[k].kind \in NoLookup}
  BY DEF Flush
<1>3. DOMAIN ses[w] = Fields /\ SessionInv(ses[w])
  BY IdleFields DEF IInv, TypeOK, SessionType, SessionInv
<1>4. ses[w].at # "idle"
  BY <1>3 DEF SessionInv, SessionType, Idle
<1>5. CASE /\ ~ (id \in ses[w].new /\ Has(id))
           /\ Written(w, id)
           /\ UNCHANGED refused
  <2> DEFINE t == [ses[w] EXCEPT !.todo = @ \ {id}, !.held = @ \cup {id}]
  <2>1. /\ DOMAIN t = Fields
        /\ t.at = ses[w].at /\ t.call = ses[w].call /\ t.answer = ses[w].answer
        /\ t.mem = ses[w].mem /\ t.new = ses[w].new /\ t.seen = ses[w].seen
        /\ t.todo = ses[w].todo \ {id} /\ t.held = ses[w].held \cup {id}
    BY <1>3 DEF Fields
  <2>2. Become(w, t)
    BY <1>5 DEF Written
  <2> HIDE DEF t
  <2>3. SessionType(t)
    BY <1>3, <1>4, <2>1, IdleFields DEF SessionInv, SessionType
  <2>4. FlushInv(t)
    BY <1>2, <1>3, <1>5, <2>1 DEF SessionInv, FlushInv
  <2>5. SeedInv(t)
    BY <1>3, <2>1 DEF SessionInv, SeedInv
  <2>6. refused' \subseteq DOMAIN asked
    BY <1>5 DEF IInv, TypeOK
  <2>7. \A i \in t.held \ ses[w].held : ~ Locked(w, i)
    BY <1>2, <2>1
  <2>8. QED
    BY <1>1, <2>2, <2>3, <2>4, <2>5, <2>6, <2>7, SessionStep DEF SessionInv
<1>6. CASE /\ id \in ses[w].new /\ Has(id)
           /\ Become(w, Idle)
           /\ refused' = refused \cup {k \in {ses[w].call} : asked[k].kind \in NoLookup}
  <2>1. refused' \subseteq DOMAIN asked
    BY <1>3, <1>4, <1>6 DEF IInv, TypeOK, SessionInv, SessionType
  <2>2. QED
    BY <1>1, <1>6, <2>1, IdleInv, SessionStep
<1>7. QED
  BY <1>2, <1>5, <1>6

\* An instance that dies.
LEMMA CrashStep == ASSUME IInv, NEW w \in Sessions, Crash(w) PROVE IInv'
<1>1. faults' \in 0 .. MaxFaults /\ refused' \subseteq DOMAIN asked
  BY OrmSessionsAssumption DEF Crash, IInv, TypeOK
<1>2. QED
  BY <1>1, IdleInv, SessionStep DEF Crash

\* A commit: the rows it writes over committed ones are constraints, which no
\* reply names.
LEMMA CommitStep == ASSUME IInv, NEW w \in Sessions, Commit(w) PROVE IInv'
<1> DEFINE s       == ses[w]
           written == Over([i \in s.held |-> s.mem[i]], db)
<1>1. /\ s.at = "commit" /\ s.todo = {} /\ Become(w, Idle) /\ db' = written
      /\ UNCHANGED <<asked, refused>>
  BY DEF Commit, Running
<1>2. /\ s.answer \in DOMAIN db \cup s.held /\ ~ Amendable(s.answer)
      /\ s.call \in DOMAIN asked
      /\ \A i \in s.held : Has(i) => Amendable(i)
  BY <1>1 DEF IInv, FlushInv, TypeOK, SessionType
<1>3. /\ DOMAIN written = s.held \cup DOMAIN db
      /\ \A i \in DOMAIN db \ s.held : written[i] = db[i]
  BY DEF Over
<1>4. DOMAIN ses' = Sessions /\ \A v \in Sessions : ses'[v] = IF v = w THEN Idle ELSE ses[v]
  BY <1>1 DEF IInv, TypeOK, Become
<1>5. /\ \A k \in DOMAIN told : k \in DOMAIN told' /\ (k = s.call \/ told'[k] = told[k])
      /\ \A k \in DOMAIN told' :
            \/ k \in DOMAIN told /\ told'[k] = told[k]
            \/ k = s.call /\ told'[k] = [id |-> s.answer, row |-> written[s.answer]]
      /\ faults' \in 0 .. MaxFaults
  <2>1. faults \in 0 .. MaxFaults
    BY DEF IInv, TypeOK
  <2>2. CASE /\ told' = Over(Row(s.call, [id |-> s.answer, row |-> written[s.answer]]), told)
             /\ UNCHANGED faults
    BY <2>1, <2>2 DEF Over, Row
  <2>3. CASE faults < MaxFaults /\ faults' = faults + 1 /\ UNCHANGED told
    BY <2>1, <2>3, OrmSessionsAssumption
  <2>4. QED
    BY <2>2, <2>3 DEF Commit
<1> HIDE DEF written
<1>6. TypeOK'
  BY <1>1, <1>2, <1>3, <1>4, <1>5, IdleInv DEF IInv, TypeOK, SessionType, SessionInv
<1>7. (\A v \in Sessions : FlushInv(ses[v]))'
  BY <1>1, <1>3, <1>4, IdleInv DEF IInv, LockInv, FlushInv, SessionInv, Has
<1>8. (\A v \in Sessions : SeedInv(ses[v]))'
  BY <1>1, <1>3, <1>4, IdleInv DEF IInv, SeedInv, SessionInv
<1>9. LockInv'
  BY <1>4, IdleInv DEF IInv, LockInv
<1>10. ToldInv'
  BY <1>2, <1>5 DEF IInv, ToldInv
<1>11. AnswersHold'
  BY <1>1, <1>2, <1>3, <1>5 DEF IInv, AnswersHold, ToldInv, Has
<1>12. QED
  BY <1>6, <1>7, <1>8, <1>9, <1>10, <1>11 DEF IInv

-----------------------------------------------------------------------------
(* What the handlers have in common.                                       *)

\* A session that works on a call and whose flushed rows are in order.
Sound(s) ==
    /\ DOMAIN s = Fields
    /\ s.call \in DOMAIN asked
    /\ s.new \cup s.held \cup s.todo \subseteq DOMAIN s.mem
    /\ \A i \in s.todo : i \in s.new \/ Amendable(i)
    /\ \A i \in s.held : Has(i) => Amendable(i)

LEMMA FixedIds ==
  /\ ~ Amendable(UserId) /\ ~ Amendable(FamilyId)
  /\ \A x : /\ ~ Amendable(TemplateId(x)) /\ ~ Amendable(PortfolioId(x))
            /\ ~ Amendable(EventId(x)) /\ ~ Amendable(ScenarioId(x))
  /\ \A x, y : ~ Amendable(ProfileId(x, y))
  /\ \A x, y, z : /\ ~ Amendable(MappingId(x, y, z))
                  /\ ~ Amendable(RunId(x, y, z)) /\ ~ Amendable(WhatIfId(x, y, z))
  BY DEF Amendable, UserId, FamilyId, TemplateId, PortfolioId, EventId, ScenarioId,
     ProfileId, MappingId, RunId, WhatIfId

\* A session at a step of a handler is in order and works on a call.
LEMMA RunningSound ==
  ASSUME IInv, NEW w \in Sessions, ses[w].at # "idle"
  PROVE  Sound(ses[w])
  BY IdleFields DEF IInv, TypeOK, SessionType, FlushInv, Sound

\* So is the session of a call that begins.
LEMMA StartedSound ==
  ASSUME NEW k \in DOMAIN asked, NEW step
  PROVE  Sound(Started(k, step)) /\ Started(k, step).held = {}
  BY StartedFields DEF Sound, NoRows

LEMMA AddingSound ==
  ASSUME NEW s, Sound(s), NEW rows
  PROVE  /\ Sound(Adding(s, rows))
         /\ Adding(s, rows).held = s.held /\ DOMAIN rows \subseteq Adding(s, rows).todo
  BY AddingFields DEF Sound

Unchanged == UNCHANGED <<db, asked, told, refused, faults>>

\* The last step of a handler: a sound session answers with a row that is
\* committed or that it is about to flush.
LEMMA AnswerStep ==
  ASSUME IInv, NEW w \in Sessions, NEW s, Sound(s), s.held \subseteq ses[w].held,
         NEW id, ~ Amendable(id), id \in DOMAIN db \cup s.todo \cup s.held,
         Become(w, Answering(s, id)), Unchanged
  PROVE  IInv'
<1> DEFINE t == Answering(s, id)
<1>1. /\ DOMAIN t = Fields
      /\ t.at = "commit" /\ t.answer = id
      /\ t.call = s.call /\ t.seen = s.seen /\ t.mem = s.mem
      /\ t.new = s.new /\ t.todo = s.todo /\ t.held = s.held
  BY AnsweringFields DEF Sound
<1> HIDE DEF t
<1>2. SessionInv(t)
  BY <1>1, IdleFields DEF Sound, SessionInv, SessionType, FlushInv, SeedInv, Stages, Has
<1>3. refused' \subseteq DOMAIN asked /\ faults' \in 0 .. MaxFaults
  BY DEF IInv, TypeOK, Unchanged
<1>4. QED
  BY <1>1, <1>2, <1>3, SessionStep DEF t, Unchanged

\* An earlier step of a handler.
LEMMA RunStep ==
  ASSUME IInv, NEW w \in Sessions, NEW s, Sound(s), s.held \subseteq ses[w].held,
         s.at \in Stages \ {"idle", "commit"}, SeedInv(s),
         Become(w, s), Unchanged
  PROVE  IInv'
<1>1. SessionInv(s)
  BY IdleFields DEF Sound, SessionInv, SessionType, FlushInv, Stages
<1>2. refused' \subseteq DOMAIN asked /\ faults' \in 0 .. MaxFaults
  BY DEF IInv, TypeOK, Unchanged
<1>3. QED
  BY <1>1, <1>2, SessionStep DEF Unchanged

\* A call that a client makes has a free session.
LEMMA OpensCall ==
  ASSUME NEW w \in Sessions, NEW k, NEW kind, Opens(w, k, kind)
  PROVE  k \in DOMAIN asked /\ asked[k].kind = kind /\ ses[w] = Idle
  BY DEF Opens

-----------------------------------------------------------------------------
(* The handlers of PortfolioFactory.                                       *)

LEMMA GetOrCreateStep ==
  ASSUME IInv, NEW w \in Sessions, NEW step \in {"user", "family"}, NEW id,
         NEW next \in {"family", "seed", "template"},
         next = "seed" => Body(w).kind = "seed",
         GetOrCreate(w, step, id, next)
  PROVE  IInv'
<1> DEFINE s == [ses[w] EXCEPT !.at = next]
<1>1. ses[w].at = step /\ Unchanged /\ Become(w, IF Has(id) THEN s ELSE Adding(s, Row(id, "system")))
  BY DEF GetOrCreate, Running, Unchanged
<1>2. Sound(ses[w])
  BY <1>1, RunningSound
<1>3. /\ DOMAIN s = Fields /\ s.at = next
      /\ s.call = ses[w].call /\ s.seen = ses[w].seen /\ s.mem = ses[w].mem
      /\ s.new = ses[w].new /\ s.todo = ses[w].todo /\ s.held = ses[w].held
  BY <1>2 DEF Sound, Fields
<1> HIDE DEF s
<1>4. Sound(s)
  BY <1>2, <1>3 DEF Sound
<1>5. SeedInv(s)
  BY <1>1, <1>3 DEF IInv, SeedInv, Body
<1>6. CASE Has(id)
  BY <1>1, <1>3, <1>4, <1>5, <1>6, RunStep DEF Stages
<1>7. CASE ~ Has(id)
  <2> DEFINE t == Adding(s, Row(id, "system"))
  <2>1. Sound(t) /\ t.held = s.held
    BY <1>4, AddingSound
  <2>2. t.at = s.at /\ t.call = s.call /\ t.seen = s.seen /\ DOMAIN s.mem \subseteq DOMAIN t.mem
    BY <1>4, AddingFields DEF Sound
  <2>3. s.todo \subseteq t.todo
    BY <1>4, AddingFields DEF Sound
  <2> HIDE DEF t
  <2>4. SeedInv(t)
    BY <1>5, <2>1, <2>2, <2>3 DEF SeedInv
  <2>5. Become(w, t)
    BY <1>1, <1>7 DEF t
  <2>6. QED
    BY <1>1, <1>3, <2>1, <2>2, <2>4, <2>5, RunStep DEF Stages
<1>8. QED
  BY <1>6, <1>7

\* _get_or_create_system_user and _get_or_create_default_family.
LEMMA UserAndFamilySteps ==
  ASSUME IInv, NEW w \in Sessions, SystemUser(w) \/ DefaultFamily(w)
  PROVE  IInv'
<1>1. CASE SystemUser(w)
  BY <1>1, GetOrCreateStep DEF SystemUser
<1>2. CASE DefaultFamily(w)
  BY <1>2, GetOrCreateStep DEF DefaultFamily
<1>3. QED
  BY <1>1, <1>2

\* What holds of the session of a seed between two templates.
LEMMA SeedSession ==
  ASSUME IInv, NEW w \in Sessions, Running(w, "seed")
  PROVE  /\ Sound(ses[w]) /\ SeedInv(ses[w]) /\ ses[w].at = "seed"
         /\ asked[ses[w].call].kind = "seed"
         /\ DOMAIN ses[w].seen = {"done", "unsaved"}
         /\ \A i \in ses[w].seen.unsaved : Amendable(i) /\ i \in DOMAIN ses[w].mem
<1>1. ses[w].at = "seed"
  BY DEF Running
<1>2. QED
  BY <1>1, RunningSound DEF IInv, SeedInv

\* A sound session of a seed that has synchronised some constraints is in order.
LEMMA SyncedStep ==
  ASSUME IInv, NEW w \in Sessions, NEW s, Sound(s), s.held \subseteq ses[w].held,
         s.at = "seed", asked[s.call].kind = "seed",
         DOMAIN s.seen = {"done", "unsaved"},
         s.seen.done \in 0 .. Len(DefaultSlugs) - 1,
         \A n \in 1 .. s.seen.done + 1 :
             TemplateId(DefaultSlugs[n]) \in DOMAIN db \cup s.todo \cup s.held,
         \A i \in s.seen.unsaved : Amendable(i) /\ i \in DOMAIN s.mem,
         NEW slug, NEW ids, \A i \in ids : Amendable(i),
         Become(w, Synced(s, slug, ids)), Unchanged
  PROVE  IInv'
<1> DEFINE t == Synced(s, slug, ids)
<1>1. /\ DOMAIN t = Fields
      /\ t.at = s.at /\ t.call = s.call
      /\ t.todo = s.todo /\ t.held = s.held
      /\ s.new \subseteq t.new /\ t.new \subseteq s.new \cup ids
      /\ DOMAIN t.mem = ids \cup DOMAIN s.mem
      /\ DOMAIN t.seen = {"done", "unsaved"}
      /\ t.seen.unsaved = s.seen.unsaved \cup ids /\ t.seen.done = s.seen.done + 1
  BY SyncedFields DEF Sound
<1> HIDE DEF t
<1>2. Sound(t)
  BY <1>1 DEF Sound
<1>3. SeedInv(t)
  BY <1>1, PortfolioFactoryAssumption DEF SeedInv
<1>4. QED
  BY <1>1, <1>2, <1>3, RunStep DEF Stages, t

LEMMA ConstraintIds == \A slug, key : Amendable(ConstraintId(slug, key))
  BY DEF Amendable, ConstraintId

\* Flushing what is unsaved leaves the session of a seed sound.
LEMMA SavingSound ==
  ASSUME NEW s, Sound(s), DOMAIN s.seen = {"done", "unsaved"},
         \A i \in s.seen.unsaved : Amendable(i) /\ i \in DOMAIN s.mem
  PROVE  /\ Sound(Saving(s)) /\ Saving(s).held = s.held
         /\ Saving(s).at = s.at /\ Saving(s).call = s.call
         /\ DOMAIN Saving(s).seen = {"done", "unsaved"}
         /\ Saving(s).seen.unsaved = {} /\ Saving(s).seen.done = s.seen.done
         /\ s.todo \subseteq Saving(s).todo
  BY SavingFields DEF Sound

\* seed_default_templates, template by template.
LEMMA SeedSteps ==
  ASSUME IInv, NEW w \in Sessions, SeedExisting(w) \/ SeedMissing(w) \/ SeedEnd(w)
  PROVE  IInv'
<1>1. Running(w, "seed") /\ Unchanged
  BY DEF SeedExisting, SeedMissing, SeedEnd, Unchanged
<1>2. /\ Sound(ses[w]) /\ SeedInv(ses[w]) /\ ses[w].at = "seed"
      /\ asked[ses[w].call].kind = "seed"
      /\ DOMAIN ses[w].seen = {"done", "unsaved"}
      /\ \A i \in ses[w].seen.unsaved : Amendable(i) /\ i \in DOMAIN ses[w].mem
  BY <1>1, SeedSession
<1> DEFINE saved == Saving(ses[w])
<1>3. /\ Sound(saved) /\ saved.held = ses[w].held
      /\ saved.at = "seed" /\ saved.call = ses[w].call
      /\ DOMAIN saved.seen = {"done", "unsaved"}
      /\ saved.seen.unsaved = {} /\ saved.seen.done = ses[w].seen.done
      /\ ses[w].todo \subseteq saved.todo
  BY <1>2, SavingSound
<1> HIDE DEF saved
<1>4. CASE SeedExisting(w)
  <2> DEFINE slug == DefaultSlugs[ses[w].seen.done + 1]
             ids  == ToSync(slug, DefaultConstraints[slug])
  <2>1. \A i \in ids : Amendable(i)
    BY ConstraintIds DEF ToSync
  <2>2. Become(w, Synced(ses[w], slug, ids))
    BY <1>4 DEF SeedExisting
  <2>3. ses[w].seen.done \in 0 .. Len(DefaultSlugs) - 1
    BY <1>2, <1>4, PortfolioFactoryAssumption DEF SeedExisting, SeedInv
  <2>4. \A n \in 1 .. ses[w].seen.done + 1 :
           TemplateId(DefaultSlugs[n]) \in DOMAIN db \cup ses[w].todo \cup ses[w].held
    BY <1>2, <1>4, <2>3 DEF SeedExisting, SeedInv, Has
  <2> HIDE DEF ids, slug
  <2>5. QED
    BY <1>1, <1>2, <2>1, <2>2, <2>3, <2>4, SyncedStep
<1>5. CASE SeedMissing(w)
  <2> DEFINE slug == DefaultSlugs[ses[w].seen.done + 1]
             rows == Row(TemplateId(slug), [constraints |-> DefaultConstraints[slug]])
             s    == Adding(saved, rows)
             all  == {ConstraintId(slug, key) : key \in DOMAIN DefaultConstraints[slug]}
  <2>1. \A i \in all : Amendable(i)
    BY ConstraintIds
  <2>2. Become(w, Synced(s, slug, all))
    BY <1>5 DEF SeedMissing, saved
  <2>3. Sound(s) /\ s.held = saved.held /\ TemplateId(slug) \in s.todo
    BY <1>3, AddingSound DEF Row
  <2>4. /\ s.at = saved.at /\ s.call = saved.call /\ s.seen = saved.seen
        /\ saved.todo \subseteq s.todo /\ DOMAIN saved.mem \subseteq DOMAIN s.mem
    <3>1. DOMAIN saved = Fields
      BY <1>3 DEF Sound
    <3> HIDE DEF rows
    <3>2. QED
      BY <3>1, AddingFields
  <2>5. ses[w].seen.done \in 0 .. Len(DefaultSlugs) - 1
    <3>1. ses[w].seen.done < Len(DefaultSlugs)
      BY <1>5 DEF SeedMissing
    <3>2. ses[w].seen.done \in 0 .. Len(DefaultSlugs)
      BY <1>2 DEF SeedInv
    <3> HIDE DEF s, all
    <3>3. QED
      BY <3>1, <3>2, PortfolioFactoryAssumption
  <2> HIDE DEF s, all
  <2>6. s.seen.done = ses[w].seen.done
    BY <1>3, <2>4
  <2>7. \A n \in 1 .. ses[w].seen.done :
           TemplateId(DefaultSlugs[n]) \in DOMAIN db \cup s.todo \cup s.held
    BY <1>2, <1>3, <2>3, <2>4 DEF SeedInv
  <2>8. \A n \in 1 .. s.seen.done + 1 :
           TemplateId(DefaultSlugs[n]) \in DOMAIN db \cup s.todo \cup s.held
    BY <2>3, <2>5, <2>6, <2>7
  <2> HIDE DEF slug
  <2>9. \A i \in s.seen.unsaved : Amendable(i) /\ i \in DOMAIN s.mem
    BY <1>3, <2>4
  <2>10. QED
    BY <1>1, <1>2, <1>3, <2>1, <2>2, <2>3, <2>4, <2>5, <2>6, <2>8, <2>9, SyncedStep
<1>6. CASE SeedEnd(w)
  <2> DEFINE id == TemplateId(DefaultSlugs[Len(DefaultSlugs)])
  <2>1. Become(w, Answering(saved, id))
    BY <1>6 DEF SeedEnd, saved
  <2>2. ~ Amendable(id)
    BY FixedIds
  <2>3. id \in DOMAIN db \cup saved.todo \cup saved.held
    BY <1>1, <1>2, <1>3, <1>6, PortfolioFactoryAssumption DEF SeedEnd, SeedInv
  <2> HIDE DEF id
  <2>4. QED
    BY <1>1, <1>3, <2>1, <2>2, <2>3, AnswerStep
<1>7. QED
  BY <1>4, <1>5, <1>6

LEMMA RowDomain == \A id, content : DOMAIN Row(id, content) = {id}
  BY DEF Row

LEMMA OverRow == \A id, content, others : id \in DOMAIN Over(Row(id, content), others)
<1>1. TAKE id, content, others
<1> DEFINE row == Row(id, content)
<1>2. id \in DOMAIN row
  BY RowDomain
<1> HIDE DEF row
<1>3. DOMAIN Over(row, others) = DOMAIN row \cup DOMAIN others
  BY OverDomain
<1>4. id \in DOMAIN Over(row, others)
  BY <1>2, <1>3
<1>5. QED
  BY <1>4 DEF row

\* The rows of a call hold the one its reply names.
LEMMA RowsHoldName ==
  /\ \A slug, values : TemplateId(slug) \in DOMAIN TemplateRows(slug, values)
  /\ \A b : PortfolioId(b.name) \in DOMAIN PortfolioRows(b)
  /\ \A b : EventId(b.code) \in DOMAIN EventRows(b)
  /\ \A b : MappingId(b.event, b.asset, b.type) \in DOMAIN MappingRows(b.event, {b})
  /\ \A b : ProfileId(b.event, b.name) \in DOMAIN ProfileRows(b)
  /\ \A b : ScenarioId(b.slug) \in DOMAIN ScenarioRows(b)
  /\ \A b : RunId(b.slug, b.portfolio, b.date) \in DOMAIN RunRows(b)
  /\ \A b : WhatIfId(b.slug, b.portfolio, b.date) \in DOMAIN WhatIfRows(b)
<1>1. \A slug, values : TemplateId(slug) \in DOMAIN TemplateRows(slug, values)
  BY OverRow DEF TemplateRows
<1>2. \A b : PortfolioId(b.name) \in DOMAIN PortfolioRows(b)
  BY OverRow DEF PortfolioRows
<1>3. \A b : EventId(b.code) \in DOMAIN EventRows(b)
  BY OverRow DEF EventRows
<1>4. \A b : MappingId(b.event, b.asset, b.type) \in DOMAIN MappingRows(b.event, {b})
  BY DEF MappingRows
<1>5. /\ \A b : ProfileId(b.event, b.name) \in DOMAIN ProfileRows(b)
      /\ \A b : ScenarioId(b.slug) \in DOMAIN ScenarioRows(b)
      /\ \A b : RunId(b.slug, b.portfolio, b.date) \in DOMAIN RunRows(b)
      /\ \A b : WhatIfId(b.slug, b.portfolio, b.date) \in DOMAIN WhatIfRows(b)
  <2>1. \A b : ProfileId(b.event, b.name) \in DOMAIN ProfileRows(b)
    BY RowDomain DEF ProfileRows
  <2>2. \A b : ScenarioId(b.slug) \in DOMAIN ScenarioRows(b)
    BY RowDomain DEF ScenarioRows
  <2>3. \A b : RunId(b.slug, b.portfolio, b.date) \in DOMAIN RunRows(b)
    BY RowDomain DEF RunRows
  <2>4. \A b : WhatIfId(b.slug, b.portfolio, b.date) \in DOMAIN WhatIfRows(b)
    BY RowDomain DEF WhatIfRows
  <2>5. QED
    BY <2>1, <2>2, <2>3, <2>4
<1>6. QED
  BY <1>1, <1>2, <1>3, <1>4, <1>5

\* A handler that adds rows and answers with one of them.
LEMMA AddStep ==
  ASSUME IInv, NEW w \in Sessions, NEW s, Sound(s), s.held \subseteq ses[w].held,
         NEW rows, NEW id \in DOMAIN rows, ~ Amendable(id),
         Become(w, Answering(Adding(s, rows), id)), Unchanged
  PROVE  IInv'
<1> DEFINE t == Adding(s, rows)
<1>1. Sound(t) /\ t.held = s.held /\ id \in t.todo
  BY AddingSound
<1>2. Become(w, Answering(t, id))
  OBVIOUS
<1> HIDE DEF t
<1>3. QED
  BY <1>1, <1>2, AnswerStep

\* A call that begins and changes what its session has seen, no more.
LEMMA SeenStep ==
  ASSUME IInv, NEW w \in Sessions, NEW k \in DOMAIN asked,
         NEW step \in Stages \ {"idle", "commit", "seed"}, NEW seen,
         Become(w, [Started(k, step) EXCEPT !.seen = seen]), Unchanged,
         asked[k].kind = "seed" =>
             DOMAIN seen = {"done", "unsaved"} /\ seen.done = 0 /\ seen.unsaved = {}
  PROVE  IInv'
<1> DEFINE s == Started(k, step)
           t == [s EXCEPT !.seen = seen]
<1>1. /\ DOMAIN s = Fields
      /\ s.at = step /\ s.call = k
      /\ s.mem = NoRows /\ s.new = {} /\ s.todo = {} /\ s.held = {}
  BY StartedFields
<1> HIDE DEF s
<1>2. /\ DOMAIN t = Fields
      /\ t.at = step /\ t.call = k /\ t.seen = seen
      /\ t.mem = NoRows /\ t.new = {} /\ t.todo = {} /\ t.held = {}
  BY <1>1 DEF Fields
<1>3. Become(w, t)
  BY DEF s
<1> HIDE DEF t
<1>4. Sound(t)
  BY <1>2 DEF Sound
<1>5. SeedInv(t)
  BY <1>2, PortfolioFactoryAssumption DEF SeedInv
<1>6. QED
  BY <1>2, <1>3, <1>4, <1>5, RunStep

\* A call that begins with nothing seen.
LEMMA StartStep ==
  ASSUME IInv, NEW w \in Sessions, NEW k \in DOMAIN asked,
         NEW step \in Stages \ {"idle", "commit", "seed"},
         Become(w, Started(k, step)), Unchanged, asked[k].kind # "seed"
  PROVE  IInv'
<1> DEFINE s == Started(k, step)
<1>1. Sound(s) /\ s.at = step /\ s.call = k /\ s.held = {}
  BY StartedSound, StartedFields
<1> HIDE DEF s
<1>2. SeedInv(s)
  BY <1>1 DEF SeedInv
<1>3. QED
  BY <1>1, <1>2, RunStep DEF s

\* seed_default_templates begins, create_template, create_instance.
LEMMA FactoryCallStep ==
  ASSUME IInv, NEW w \in Sessions, NEW k, FactoryCall(w, k)
  PROVE  IInv'
<1> DEFINE s == Started(k, "commit")
<1>1. CASE SeedTemplates(w, k)
  <2>1. k \in DOMAIN asked /\ "user" \in Stages \ {"idle", "commit", "seed"}
    BY <1>1, OpensCall DEF SeedTemplates, Stages
  <2>2. Become(w, [Started(k, "user") EXCEPT !.seen = [done |-> 0, unsaved |-> {}]]) /\ Unchanged
    BY <1>1 DEF SeedTemplates, Unchanged
  <2>3. QED
    BY <2>1, <2>2, SeenStep
<1>2. CASE CreateTemplate(w, k)
  <2> DEFINE id == TemplateId(asked[k].slug)
  <2>1. k \in DOMAIN asked /\ asked[k].kind = "template" /\ Unchanged
    BY <1>2, OpensCall DEF CreateTemplate, Unchanged
  <2>2. Become(w, IF Has(id) THEN Answering(s, id) ELSE Started(k, "user"))
    BY <1>2 DEF CreateTemplate
  <2>3. Sound(s) /\ s.held = {} /\ ~ Amendable(id) /\ "user" \in Stages \ {"idle", "commit", "seed"}
    BY <2>1, StartedSound, FixedIds DEF Stages
  <2> HIDE DEF id, s
  <2>4. CASE Has(id)
    BY <2>1, <2>2, <2>3, <2>4, AnswerStep DEF Has
  <2>5. CASE ~ Has(id)
    BY <2>1, <2>2, <2>3, <2>5, StartStep
  <2>6. QED
    BY <2>4, <2>5
<1>3. CASE CreateInstance(w, k)
  <2> DEFINE id   == PortfolioId(asked[k].name)
             rows == PortfolioRows(asked[k])
  <2>1. k \in DOMAIN asked /\ Unchanged /\ Become(w, Answering(Adding(s, rows), id))
    BY <1>3, OpensCall DEF CreateInstance, Unchanged
  <2>2. Sound(s) /\ s.held = {} /\ ~ Amendable(id) /\ id \in DOMAIN rows
    BY <2>1, StartedSound, FixedIds, RowsHoldName
  <2> HIDE DEF rows, id, s
  <2>3. QED
    BY <2>1, <2>2, AddStep
<1>4. QED
  BY <1>1, <1>2, <1>3 DEF FactoryCall

\* create_template adds the template with its constraints.
LEMMA AddTemplateStep ==
  ASSUME IInv, NEW w \in Sessions, AddTemplate(w)
  PROVE  IInv'
<1> DEFINE b    == Body(w)
           id   == TemplateId(b.slug)
           rows == TemplateRows(b.slug, b.constraints)
<1>1. ses[w].at = "template" /\ Unchanged /\ Become(w, Answering(Adding(ses[w], rows), id))
  BY DEF AddTemplate, Running, Unchanged
<1>2. Sound(ses[w]) /\ ~ Amendable(id) /\ id \in DOMAIN rows
  BY <1>1, RunningSound, FixedIds, RowsHoldName
<1> HIDE DEF rows, id
<1>3. QED
  BY <1>1, <1>2, AddStep

-----------------------------------------------------------------------------
(* The handlers of ScenarioLab.                                            *)

\* A call that answers with the row it finds, or adds rows and answers with one.
LEMMA FindOrAddStep ==
  ASSUME IInv, NEW w \in Sessions, NEW k \in DOMAIN asked,
         NEW rows, NEW id \in DOMAIN rows, ~ Amendable(id),
         Become(w, Answering(IF Has(id) THEN Started(k, "commit")
                             ELSE Adding(Started(k, "commit"), rows), id)),
         Unchanged
  PROVE  IInv'
<1> DEFINE s == Started(k, "commit")
<1>1. Sound(s) /\ s.held = {}
  BY StartedSound
<1>2. Become(w, Answering(IF Has(id) THEN s ELSE Adding(s, rows), id))
  OBVIOUS
<1> HIDE DEF s
<1>3. CASE Has(id)
  BY <1>1, <1>2, <1>3, AnswerStep DEF Has
<1>4. CASE ~ Has(id)
  BY <1>1, <1>2, <1>4, AddStep
<1>5. QED
  BY <1>3, <1>4

\* create_event, add_asset_mapping, add_impact_profile, create_scenario, and the
\* beginning of create_scenario_from_event and of runs.
LEMMA LabCallStep ==
  ASSUME IInv, NEW w \in Sessions, NEW k, LabCall(w, k)
  PROVE  IInv'
<1>1. ASSUME NEW id, NEW rows, k \in DOMAIN asked, ~ Amendable(id), id \in DOMAIN rows, Unchanged,
             Become(w, Answering(IF Has(id) THEN Started(k, "commit")
                                 ELSE Adding(Started(k, "commit"), rows), id))
      PROVE  IInv'
  BY <1>1, FindOrAddStep
<1>2. ASSUME NEW id, NEW rows, AddToEvent(w, k, id, rows), k \in DOMAIN asked, ~ Amendable(id),
             id \in DOMAIN rows
      PROVE  IInv'
  <2> DEFINE s == Started(k, "commit")
  <2>1. Unchanged /\ Become(w, Answering(Adding(s, rows), id))
    BY <1>2 DEF AddToEvent, Unchanged
  <2>2. Sound(s) /\ s.held = {}
    BY <1>2, StartedSound
  <2> HIDE DEF s
  <2>3. QED
    BY <1>2, <2>1, <2>2, AddStep
<1>3. CASE CreateEvent(w, k) \/ CreateScenario(w, k)
  <2>1. k \in DOMAIN asked /\ Unchanged
    BY <1>3, OpensCall DEF CreateEvent, CreateScenario, Unchanged
  <2>2. CASE CreateEvent(w, k)
    BY <1>1, <2>1, <2>2, FixedIds, RowsHoldName DEF CreateEvent
  <2>3. CASE CreateScenario(w, k)
    BY <1>1, <2>1, <2>3, FixedIds, RowsHoldName DEF CreateScenario
  <2>4. QED
    BY <1>3, <2>2, <2>3
<1>4. CASE AddAssetMapping(w, k)
  <2> DEFINE id   == MappingId(asked[k].event, asked[k].asset, asked[k].type)
             rows == MappingRows(asked[k].event, {asked[k]})
  <2>1. k \in DOMAIN asked /\ AddToEvent(w, k, id, rows)
    BY <1>4, OpensCall DEF AddAssetMapping
  <2>2. ~ Amendable(id) /\ id \in DOMAIN rows
    BY FixedIds, RowsHoldName
  <2> HIDE DEF id, rows
  <2>3. QED
    BY <1>2, <2>1, <2>2
<1>5. CASE AddImpactProfile(w, k)
  <2> DEFINE id   == ProfileId(asked[k].event, asked[k].name)
             rows == ProfileRows(asked[k])
  <2>1. k \in DOMAIN asked /\ AddToEvent(w, k, id, rows)
    BY <1>5, OpensCall DEF AddImpactProfile
  <2>2. ~ Amendable(id) /\ id \in DOMAIN rows
    BY FixedIds, RowsHoldName
  <2> HIDE DEF id, rows
  <2>3. QED
    BY <1>2, <2>1, <2>2
<1>6. CASE DeriveScenario(w, k)
  <2> DEFINE e    == asked[k].event
             seen == [known |-> Mappings(e) \cup Profiles(e), maps |-> {}, profiles |-> {}]
  <2>1. k \in DOMAIN asked /\ asked[k].kind = "derive" /\ "mappings" \in Stages \ {"idle", "commit", "seed"}
    BY <1>6, OpensCall DEF DeriveScenario, Stages
  <2>2. Unchanged /\ Become(w, [Started(k, "mappings") EXCEPT !.seen = seen])
    BY <1>6 DEF DeriveScenario, Unchanged
  <2> HIDE DEF seen
  <2>3. QED
    BY <2>1, <2>2, SeenStep
<1>7. CASE StartRun(w, k)
  <2>1. /\ k \in DOMAIN asked /\ asked[k].kind \in {"run", "whatif"}
        /\ {"run", "whatif"} \subseteq Stages \ {"idle", "commit", "seed"}
    BY <1>7, OpensCall DEF StartRun, Stages
  <2>2. Unchanged /\ Become(w, Started(k, asked[k].kind))
    BY <1>7 DEF StartRun, Unchanged
  <2>3. QED
    BY <2>1, <2>2, StartStep
<1>8. QED
  BY <1>3, <1>4, <1>5, <1>6, <1>7 DEF LabCall

\* A step of a handler that only changes what its session has seen and where it
\* stands.
LEMMA ReadStep ==
  ASSUME IInv, NEW w \in Sessions, ses[w].at \in {"mappings", "profiles"}, NEW s,
         DOMAIN s = Fields, s.at \in {"profiles", "derive"}, s.call = ses[w].call,
         s.mem = ses[w].mem, s.new = ses[w].new, s.todo = ses[w].todo, s.held = ses[w].held,
         Become(w, s), Unchanged
  PROVE  IInv'
<1>1. Sound(s)
  BY RunningSound DEF Sound
<1>2. SeedInv(s)
  BY DEF SeedInv
<1>3. QED
  BY <1>1, <1>2, RunStep DEF Stages

\* The steps of create_scenario_from_event and of runs.
LEMMA LabStepStep ==
  ASSUME IInv, NEW w \in Sessions, LabStep(w)
  PROVE  IInv'
<1>1. ASSUME ses[w].at # "idle" PROVE Sound(ses[w])
  BY <1>1, RunningSound
<1>2. CASE ReadMappings(w)
  <2> DEFINE maps == Mappings(Body(w).event)
             s    == [ses[w] EXCEPT !.at = "profiles", !.seen.maps = maps]
  <2>1. ses[w].at = "mappings" /\ Unchanged /\ Become(w, s)
    BY <1>2 DEF ReadMappings, Running, Unchanged
  <2> HIDE DEF maps
  <2>2. /\ DOMAIN s = Fields /\ s.at = "profiles" /\ s.call = ses[w].call
        /\ s.mem = ses[w].mem /\ s.new = ses[w].new /\ s.todo = ses[w].todo /\ s.held = ses[w].held
    BY <1>1, <2>1 DEF Sound, Fields
  <2> HIDE DEF s
  <2>3. QED
    BY <2>1, <2>2, ReadStep
<1>3. CASE ReadProfiles(w)
  <2> DEFINE found == Profiles(Body(w).event)
             s     == [ses[w] EXCEPT !.at = "derive", !.seen.profiles = found]
  <2>1. ses[w].at = "profiles" /\ Unchanged /\ Become(w, s)
    BY <1>3 DEF ReadProfiles, Running, Unchanged
  <2> HIDE DEF found
  <2>2. /\ DOMAIN s = Fields /\ s.at = "derive" /\ s.call = ses[w].call
        /\ s.mem = ses[w].mem /\ s.new = ses[w].new /\ s.todo = ses[w].todo /\ s.held = ses[w].held
    BY <1>1, <2>1 DEF Sound, Fields
  <2> HIDE DEF s
  <2>3. QED
    BY <2>1, <2>2, ReadStep
<1>4. ASSUME NEW id, NEW rows, ses[w].at # "idle", Unchanged, ~ Amendable(id), id \in DOMAIN rows,
             \/ Has(id) /\ Become(w, Answering(ses[w], id))
             \/ Become(w, Answering(Adding(ses[w], rows), id))
      PROVE  IInv'
  <2>1. CASE Has(id) /\ Become(w, Answering(ses[w], id))
    BY <1>1, <1>4, <2>1, AnswerStep DEF Has
  <2>2. CASE Become(w, Answering(Adding(ses[w], rows), id))
    BY <1>1, <1>4, <2>2, AddStep
  <2>3. QED
    BY <1>4, <2>1, <2>2
<1>5. CASE AddDerived(w)
  <2> DEFINE id == ScenarioId(Body(w).slug)
  <2>1. /\ ses[w].at # "idle" /\ Unchanged /\ ~ Amendable(id)
        /\ \/ Has(id) /\ Become(w, Answering(ses[w], id))
           \/ \E row : Become(w, Answering(Adding(ses[w], Row(id, row)), id))
    BY <1>5, FixedIds DEF AddDerived, Running, Unchanged
  <2>2. \A row : id \in DOMAIN Row(id, row)
    BY RowDomain
  <2> HIDE DEF id
  <2>3. CASE Has(id) /\ Become(w, Answering(ses[w], id))
    BY <1>4, <2>1, <2>2, <2>3
  <2>4. ASSUME NEW row, Become(w, Answering(Adding(ses[w], Row(id, row)), id)) PROVE IInv'
    BY <1>4, <2>1, <2>2, <2>4
  <2>5. QED
    BY <2>1, <2>3, <2>4
<1>6. CASE RunScenario(w)
  <2> DEFINE id   == RunId(Body(w).slug, Body(w).portfolio, Body(w).date)
             rows == RunRows(Body(w))
  <2>1. /\ ses[w].at # "idle" /\ Unchanged /\ ~ Amendable(id) /\ id \in DOMAIN rows
        /\ Become(w, Answering(IF Has(id) THEN ses[w] ELSE Adding(ses[w], rows), id))
    BY <1>6, FixedIds, RowsHoldName DEF RunScenario, Running, Unchanged
  <2> HIDE DEF id, rows
  <2>2. QED
    BY <1>4, <2>1
<1>7. CASE RunCounterfactual(w)
  <2> DEFINE id   == WhatIfId(Body(w).slug, Body(w).portfolio, Body(w).date)
             rows == WhatIfRows(Body(w))
  <2>1. /\ ses[w].at # "idle" /\ Unchanged /\ ~ Amendable(id) /\ id \in DOMAIN rows
        /\ Become(w, Answering(IF Has(id) THEN ses[w] ELSE Adding(ses[w], rows), id))
    BY <1>7, FixedIds, RowsHoldName DEF RunCounterfactual, Running, Unchanged
  <2> HIDE DEF id, rows
  <2>2. QED
    BY <1>4, <2>1
<1>8. QED
  BY <1>2, <1>3, <1>5, <1>6, <1>7 DEF LabStep

-----------------------------------------------------------------------------
(* The theorems.                                                           *)

LEMMA InitIInv == Init => IInv
<1> SUFFICES ASSUME Init PROVE IInv
  OBVIOUS
<1>1. PICK plan \in Plans : InitWith(plan)
  BY DEF Init
<1>2. \A w \in Sessions : ses[w] = Idle
  BY <1>1 DEF InitWith
<1>3. TypeOK
  BY <1>1, <1>2, IdleInv, OrmSessionsAssumption DEF InitWith, TypeOK, SessionInv, NoRows
<1>4. \A w \in Sessions : FlushInv(ses[w]) /\ SeedInv(ses[w])
  BY <1>2, IdleInv DEF SessionInv
<1>5. LockInv
  BY <1>2, IdleInv DEF LockInv
<1>6. ToldInv /\ AnswersHold
  BY <1>1 DEF InitWith, NoRows, ToldInv, AnswersHold
<1>7. QED
  BY <1>3, <1>4, <1>5, <1>6 DEF IInv

LEMMA StutterStep == IInv /\ UNCHANGED vars => IInv'
  BY DEF IInv, vars, TypeOK, SessionType, FlushInv, SeedInv, LockInv, ToldInv, AnswersHold, Has

\* Every step, of a handler, a flush, a commit or a fault, keeps the inductive
\* invariant.
LEMMA StepIInv == IInv /\ [Next]_vars => IInv'
<1> SUFFICES ASSUME IInv, [Next]_vars
             PROVE  IInv'
  OBVIOUS
<1>1. ASSUME NEW w \in Sessions, Step(w)
      PROVE  IInv'
  BY <1>1, FlushStep, CommitStep, UserAndFamilySteps, SeedSteps, AddTemplateStep, LabStepStep
     DEF Step, FactoryStep
<1>2. ASSUME NEW k, Call(k)
      PROVE  IInv'
  BY <1>2, FactoryCallStep, LabCallStep DEF Call
<1>3. ASSUME NEW w \in Sessions, Crash(w)
      PROVE  IInv'
  BY <1>3, CrashStep
<1>4. CASE UNCHANGED vars
  BY <1>4, StutterStep
<1>5. QED
  BY <1>1, <1>2, <1>3, <1>4 DEF Next, Progress, Quiescent

LEMMA Invariance == Spec => []IInv
  BY InitIInv, StepIInv, PTL DEF Spec

\* Sessions, replies and faults keep their types for any calls and sessions.
THEOREM TypeCorrect == Spec => []TypeOK
<1>1. IInv => TypeOK
  BY DEF IInv
<1>2. QED
  BY Invariance, <1>1, PTL

\* What any client was ever told, by any route of portfolios, events and
\* scenarios, is committed and stays as told.
THEOREM AnswersStand == Spec => []AnswersHold
<1>1. IInv => AnswersHold
  BY DEF IInv
<1>2. QED
  BY Invariance, <1>1, PTL
=============================================================================
