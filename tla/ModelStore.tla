----------------------------- MODULE ModelStore -----------------------------
(***************************************************************************)
(* The rows of the quantitative models: EconomicModelsEngineService.run    *)
(* and TensorflowBaselineService.train in concurrent database sessions     *)
(* over PostgreSQL at READ COMMITTED.                                      *)
(*                                                                         *)
(* A run of the engine visits its models in a fixed order.  The tables of  *)
(* capm, dcf and the feature snapshots hold one row per scope, which is    *)
(* upserted; those of apt, arima, garch and multiples hold several, which  *)
(* are deleted and inserted anew.  The scope of a model's rows has a       *)
(* portfolio that may be NULL, and a unique constraint over a NULL         *)
(* excludes nothing.  A training saves its artifact, which no rollback     *)
(* takes back, and then upserts registry, training run and prediction run. *)
(*                                                                         *)
(* A run for a portfolio, which is taken to exist, ends with the overlay   *)
(* of PortfolioOptimizerService, which reads the six tables, one statement *)
(* each, in the same session.                                              *)
(***************************************************************************)
EXTENDS Integers, Sequences, FiniteSets

CONSTANTS
    Sessions,     \* concurrent database sessions
    Jobs,         \* requests for a run of the engine or for a training,
    Payload,      \*   and their bodies; some of them
    Commands,     \*   are commands of the CLI, others requests to the API
    Plans,        \* the sets of jobs that are asked for together
    Rank,         \* the order of the random primary keys of the jobs' rows
    None,         \* no portfolio, no job
    MaxAttempts,  \* bound on the attempts made for a job
    MaxFaults     \* bound on exceptions and crashes

ASSUME ModelStoreAssumption ==
    /\ Plans \subseteq SUBSET Jobs
    /\ Commands \subseteq Jobs
    /\ None \notin Jobs
    /\ \A j \in Jobs :
          /\ Payload[j].kind \in {"economic", "training"}
          /\ Payload[j].kind = "economic" =>
                \A name \in DOMAIN Payload[j].sections :
                    LET rows == Payload[j].sections[name].rows
                    IN  /\ rows \in Seq(Nat)
                        /\ name \in {"capm", "dcf"} => rows = <<0>>
          /\ Payload[j].kind = "training" => Payload[j].model # None
    /\ Rank \in [Jobs -> Nat]
    /\ MaxAttempts \in Nat
    /\ MaxFaults \in Nat

VARIABLES
    db,        \* committed rows: a function from ids to columns
    artifact,  \* the saved model files: a function from paths to jobs
    ses,       \* the state of each session
    plan,      \* the jobs asked for in this behaviour
    known,     \* the recorded jobs, each with those recorded when it began
    attempts,  \* attempts made for each job
    faults     \* faults so far

vars == <<db, artifact, ses, plan, known, attempts, faults>>

Empty == <<>>

\* The id of a row is the scope it is looked up by, the key that tells rows of
\* one scope apart and the job that inserted it.  The scope is table, owner,
\* names, and the reference date with its window.
TableOf(id) == id[1][1]
OwnerOf(id) == id[1][2]
SameKey(i, k) == i[1] = k[1] /\ i[2] = k[2]

\* A session before its first statement.
Idle == [at |-> "idle", job |-> None, began |-> {}, n |-> 0,
         dels |-> {}, todo |-> <<>>, waiting |-> FALSE, mine |-> Empty, gone |-> {},
         read |-> 0, overlay |-> {}]

Init ==
    /\ db = Empty
    /\ artifact = Empty
    /\ ses = [w \in Sessions |-> Idle]
    /\ plan \in Plans
    /\ known = Empty
    /\ attempts = [j \in Jobs |-> 0]
    /\ faults = 0

-----------------------------------------------------------------------------
(* What a job writes: items in order of their places, each about the rows  *)
(* of a scope.                                                             *)

Sections == <<"capm", "apt", "arima", "garch", "multiples", "dcf">>
Replaced == {"apt", "arima", "garch", "multiples"}

\* The names in run_models that ask for a section.
Families(p, s) ==
    CASE s = "arima" -> {"arima", "sarima"}
      [] s = "garch" -> {p.sections[s].detail}
      [] OTHER       -> {s}

ShouldRun(p, s) ==
    /\ s \in DOMAIN p.sections
    /\ p.run_models = {} \/ Families(p, s) \cap p.run_models # {}

\* _resolve_entity_key: an entity stands for a portfolio, an asset, a series or
\* the reference date itself.
EntityKey(p) ==
    LET present == SelectSeq(<<"capm", "apt", "multiples", "dcf", "arima", "garch">>,
                             LAMBDA s : s \in DOMAIN p.sections)
        first == present[1]
    IN  IF p.portfolio # None THEN <<"portfolio", p.portfolio>>
        ELSE IF present = <<>> THEN <<"reference", p.day>>
        ELSE <<IF first \in {"arima", "garch"} THEN "series" ELSE "asset", p.sections[first].name>>

Scope(p, s) == <<s, p.portfolio, <<p.sections[s].name, p.sections[s].detail>>, p.day>>

\* A row's computed columns are represented by the job that computed them.
SectionItem(j, s) ==
    [scope |-> Scope(Payload[j], s), rows |-> Payload[j].sections[s].rows,
     cols |-> [fit |-> j], lazy |-> FALSE]

\* A row upserted by itself; lazy if no flush follows a change of it.
RowItem(scope, cols, lazy) == [scope |-> scope, rows |-> <<0>>, cols |-> cols, lazy |-> lazy]

\* The sections that are run, each at its place, and after them the snapshot.
EconomicItems(j) ==
    LET p == Payload[j]
        models_run == {n \in DOMAIN Sections : ShouldRun(p, Sections[n])}
        snapshot == RowItem(<<"snapshot", EntityKey(p), <<>>, p.day>>,
                            [portfolio |-> p.portfolio, source_models |-> models_run, features |-> j],
                            FALSE)
    IN  [n \in models_run \cup (IF p.persist THEN {Len(Sections) + 1} ELSE {}) |->
            IF n \in models_run THEN SectionItem(j, Sections[n]) ELSE snapshot]

\* _artifact_path: name with version, and date.
ArtifactPath(p) == <<p.model, p.day>>

TrainingItems(j) ==
    LET p == Payload[j]
        path == ArtifactPath(p)
    IN  << RowItem(<<"registry", p.model, <<>>, 0>>, [metrics |-> j, artifact |-> path], TRUE),
           RowItem(<<"training", p.model, p.dataset, p.day>>, [metrics |-> j, artifact |-> path], TRUE),
           RowItem(<<"prediction", p.model, p.portfolio, p.day>>,
                   [metrics |-> j, training |-> p.dataset], FALSE) >>

Items == [j \in Jobs |->
             IF Payload[j].kind = "economic" THEN EconomicItems(j) ELSE TrainingItems(j)]

-----------------------------------------------------------------------------
(* Sessions.                                                               *)

Become(w, s) == ses' = [ses EXCEPT ![w] = s]

\* The items that a session has not handled, and the one it is at.
Remaining(s) == {n \in DOMAIN Items[s.job] : n > s.n}
Place(s)     == CHOOSE n \in Remaining(s) : \A m \in Remaining(s) : n <= m
Current(s)   == Items[s.job][Place(s)]

\* The rows that a session has written or deleted and not committed.
Holds(s) == DOMAIN s.mine \cup s.gone

NullNeverMatches(scope) == {id \in DOMAIN db : id[1] = scope /\ OwnerOf(id) # None}

\* The rows that a session sees: what is committed, but for its own writes.
View(s) ==
    [id \in (DOMAIN db \ s.gone) \cup DOMAIN s.mine |->
        IF id \in DOMAIN s.mine THEN s.mine[id] ELSE db[id]]

\* The committed rows of a scope; _filter_portfolio compares a missing portfolio
\* with IS NULL.
Found(scope) == {id \in DOMAIN db : id[1] = scope}

\* A unique constraint over a NULL portfolio excludes nothing.
Unique(id) == OwnerOf(id) # None

Inserts(s, it) ==
    [k \in 1 .. Len(it.rows) |-> [insert |-> TRUE, id |-> <<it.scope, it.rows[k], s.job>>, cols |-> it.cols]]

TrainingRunKept(id, cols) ==
    IF TableOf(id) = "training" THEN {} ELSE {c \in DOMAIN cols : cols[c] # db[id][c]}

\* The columns that an assignment changes, compared with the row as loaded.
Changed(id, cols) == {c \in DOMAIN cols : cols[c] # db[id][c]}

\* A session goes on with its next item when its flush is done.
Sent(s) == IF s.dels = {} /\ s.todo = <<>> THEN [s EXCEPT !.at = "item", !.n = Place(s)] ELSE s

DeletingLast(s) == s.dels # {} /\ s.todo = <<>>

\* replace_* flush the deletions before they add the new rows; one flush for
\* both would send the INSERTs first.
Deleting(s) == s.dels # {}

\* Rows are deleted in the order of their primary keys, which are random but the
\* same for all sessions; key and rank stand for it.
FirstOf(ids) ==
    CHOOSE i \in ids : \A k \in ids :
        i[2] < k[2] \/ (i[2] = k[2] /\ Rank[i[3]] <= Rank[k[3]])

\* The row that the next statement of a flush writes.
NextWrite(s) == IF Deleting(s) THEN FirstOf(s.dels) ELSE Head(s.todo).id

\* Uncommitted writes of the two rows exclude each other.
Clash(i, k) == i = k \/ (Unique(i) /\ SameKey(i, k))

Obstructs(u, w) == u # w /\ \E id \in Holds(ses[u]) : Clash(NextWrite(ses[w]), id)

\* The next statement of a flush can be executed: nothing uncommitted is in its
\* way, and no other session has waited for the same row before.
Ready(w) ==
    /\ ses[w].at = "flush"
    /\ \A u \in Sessions \ {w} :
          /\ ~ Obstructs(u, w)
          /\ ses[u].waiting /\ ~ ses[w].waiting /\ ~ Obstructs(w, u)
             => ~ Clash(NextWrite(ses[w]), NextWrite(ses[u]))

-----------------------------------------------------------------------------
(* Steps.                                                                  *)

\* One session works on a job at a time (JobRuns is about that), again after a
\* failure.
Start(w, j) ==
    /\ ses[w] = Idle
    /\ j \in plan \ DOMAIN known
    /\ attempts[j] < MaxAttempts
    /\ \A v \in Sessions : ses[v].job # j
    /\ attempts' = [attempts EXCEPT ![j] = @ + 1]
    /\ Become(w, [Idle EXCEPT !.at = IF Payload[j].kind = "training" THEN "save" ELSE "item",
                              !.job = j, !.began = DOMAIN known])
    /\ UNCHANGED <<db, artifact, plan, known, faults>>

\* A request without a SUCCEEDED execution is run; one with an execution is not.
Begin(w, j) == j \notin Commands /\ Start(w, j)

\* A command has no execution row; each call of it is a job of its own, which
\* may have the body of another job.
RunCommand(w, j) == j \in Commands /\ Start(w, j)

\* model.save: after the fit and before the first SELECT.
SaveArtifact(w) ==
    /\ ses[w].at = "save"
    /\ LET path == ArtifactPath(Payload[ses[w].job])
       IN  artifact' = [x \in DOMAIN artifact \cup {path} |->
                           IF x = path THEN ses[w].job ELSE artifact[x]]
    /\ Become(w, [ses[w] EXCEPT !.at = "item"])
    /\ UNCHANGED <<db, plan, known, attempts, faults>>

\* A session at its next item, whose rows are of a replaced table or not.
At(w, isReplaced) ==
    /\ ses[w].at = "item"
    /\ Remaining(ses[w]) # {}
    /\ (Current(ses[w]).scope[1] \in Replaced) = isReplaced

ReplaceByKey(w) ==
    /\ At(w, TRUE)
    /\ LET s == ses[w]
           new == Inserts(s, Current(s))
       IN  Become(w, Sent([s EXCEPT !.at = "flush", !.todo = new,
               !.dels = {id \in Found(Current(s).scope) :
                            \E k \in 1 .. Len(new) : SameKey(id, new[k].id)}]))
    /\ UNCHANGED <<db, artifact, plan, known, attempts, faults>>

\* replace_*: the rows of the scope are selected, to be deleted, and the new
\* ones are inserted in the order of the model's output.
ReplaceRows(w) ==
    /\ At(w, TRUE)
    /\ LET s == ses[w]
       IN  Become(w, Sent([s EXCEPT !.at = "flush",
                                    !.dels = Found(Current(s).scope),
                                    !.todo = Inserts(s, Current(s))]))
    /\ UNCHANGED <<db, artifact, plan, known, attempts, faults>>

\* An upsert that finds no row adds one and flushes; UPDATEs still pending go
\* first.
AddRow(w) ==
    /\ At(w, FALSE)
    /\ Found(Current(ses[w]).scope) = {}
    /\ Become(w, [ses[w] EXCEPT !.at = "flush", !.todo = @ \o Inserts(ses[w], Current(ses[w]))])
    /\ UNCHANGED <<db, artifact, plan, known, attempts, faults>>

\* An upsert that finds a row (any, if there are several) assigns its columns.
\* Only what differs from the loaded row is updated, at the next flush.
ChangeRow(w) ==
    /\ At(w, FALSE)
    /\ \E id \in Found(Current(ses[w]).scope) :
          LET s == ses[w]
              it == Current(s)
              differ == Changed(id, it.cols)
              update == [insert |-> FALSE, id |-> id, cols |-> [c \in differ |-> it.cols[c]]]
              t == [s EXCEPT !.todo = IF differ = {} THEN @ ELSE Append(@, update)]
          IN  Become(w, IF it.lazy THEN [t EXCEPT !.n = Place(s)] ELSE Sent([t EXCEPT !.at = "flush"]))
    /\ UNCHANGED <<db, artifact, plan, known, attempts, faults>>

\* The next statement of a flush meets an uncommitted write and waits.
Block(w) ==
    /\ ses[w].at = "flush"
    /\ ~ ses[w].waiting
    /\ \E u \in Sessions : Obstructs(u, w)
    /\ Become(w, [ses[w] EXCEPT !.waiting = TRUE])
    /\ UNCHANGED <<db, artifact, plan, known, attempts, faults>>

DeleteBlindly(w) ==
    /\ Ready(w)
    /\ Deleting(ses[w])
    /\ LET id == FirstOf(ses[w].dels)
       IN  Become(w, Sent([ses[w] EXCEPT !.dels = @ \ {id}, !.waiting = FALSE,
                                         !.gone = @ \cup {id}]))
    /\ UNCHANGED <<db, artifact, plan, known, attempts, faults>>

\* One DELETE of a flush.  A row that another session has deleted and committed
\* meanwhile is just not there.
Delete(w) ==
    /\ Ready(w)
    /\ Deleting(ses[w])
    /\ LET id == FirstOf(ses[w].dels)
       IN  Become(w, Sent([ses[w] EXCEPT !.dels = @ \ {id}, !.waiting = FALSE,
                                         !.gone = @ \cup ({id} \cap DOMAIN db)]))
    /\ UNCHANGED <<db, artifact, plan, known, attempts, faults>>

\* The columns of an UPDATE, over the row as it is committed now.
Merged(stmt) ==
    [c \in DOMAIN db[stmt.id] |-> IF c \in DOMAIN stmt.cols THEN stmt.cols[c] ELSE db[stmt.id][c]]

NeverTaken(w, stmt) == FALSE

KeyTaken(w, stmt) ==
    /\ stmt.insert
    /\ Unique(stmt.id)
    /\ \E id \in DOMAIN db \ ses[w].gone : SameKey(id, stmt.id)

\* One INSERT or UPDATE of a flush.
Send(w) ==
    /\ Ready(w)
    /\ ~ Deleting(ses[w])
    /\ LET s == ses[w]
           stmt == Head(s.todo)
           row == IF stmt.insert THEN stmt.cols ELSE Merged(stmt)
       IN  /\ ~ KeyTaken(w, stmt)
           /\ Become(w, Sent([s EXCEPT !.todo = Tail(@), !.waiting = FALSE,
                  !.mine = [id \in DOMAIN @ \cup {stmt.id} |-> IF id = stmt.id THEN row ELSE @[id]]]))
    /\ UNCHANGED <<db, artifact, plan, known, attempts, faults>>

\* IntegrityError: the key was committed meanwhile.  The session rolls back.
Conflict(w) ==
    /\ Ready(w)
    /\ ~ Deleting(ses[w])
    /\ KeyTaken(w, Head(ses[w].todo))
    /\ Become(w, Idle)
    /\ UNCHANGED <<db, artifact, plan, known, attempts, faults>>

OverlayCommitted(s, table) ==
    LET p == Payload[s.job]
        rows == {id \in DOMAIN db : id[1][1] = table /\ id[1][2] = p.portfolio /\ id[1][4] = p.day}
    IN  {[scope |-> id[1], step |-> id[2], fit |-> db[id].fit] : id \in rows}

\* What the overlay selects from a table: the rows of portfolio and date, with
\* any market index, factor or model family.
OverlayRows(s, table) ==
    LET p == Payload[s.job]
        rows == {id \in DOMAIN View(s) :
                    id[1][1] = table /\ id[1][2] = p.portfolio /\ id[1][4] = p.day}
    IN  {[scope |-> id[1], step |-> id[2], fit |-> View(s)[id].fit] : id \in rows}

\* What the overlay makes of them: the first steps of forecasts only; the mean
\* of an asset's multiples, and of the others the row that comes last, which may
\* be any.
Kept(table, rows) ==
    LET eligible == {r \in rows : table \in {"arima", "garch"} => r.step = 1}
        asset(r) == r.scope[3][1]
    IN  IF table = "multiples" THEN {eligible}
        ELSE {R \in SUBSET eligible :
                \A r \in eligible : Cardinality({x \in R : asset(x) = asset(r)}) = 1}

OverlayOf(j) ==
    IF Payload[j].kind = "economic" /\ Payload[j].portfolio # None THEN Sections ELSE <<>>

\* build_economic_overlay reads the next table, after the last item.
ReadOverlay(w) ==
    /\ ses[w].at = "item"
    /\ Remaining(ses[w]) = {}
    /\ LET s == ses[w]
           k == s.read + 1
       IN  /\ k <= Len(OverlayOf(s.job))
           /\ \E used \in Kept(Sections[k], OverlayRows(s, Sections[k])) :
                 Become(w, [s EXCEPT !.read = k, !.overlay = @ \cup used])
    /\ UNCHANGED <<db, artifact, plan, known, attempts, faults>>

\* The execution is set to SUCCEEDED in the same transaction.
Commit(w) ==
    /\ ses[w].at = "item"
    /\ Remaining(ses[w]) = {}
    /\ ses[w].read = Len(OverlayOf(ses[w].job))
    /\ LET s == ses[w]
       IN  /\ db' = View(s)
           /\ known' = [j \in DOMAIN known \cup {s.job} |-> IF j = s.job THEN s.began ELSE known[j]]
    /\ Become(w, Idle)
    /\ UNCHANGED <<artifact, plan, attempts, faults>>

WaitsFor(v, u) == ses[v].waiting /\ Obstructs(u, v)

\* PostgreSQL breaks a cycle of waiting sessions by aborting one of them.
DeadlockVictim(w) ==
    /\ \E S \in SUBSET Sessions :
          w \in S /\ \A v \in S : \E u \in S : WaitsFor(v, u)
    /\ Become(w, Idle)
    /\ UNCHANGED <<db, artifact, plan, known, attempts, faults>>

\* An exception anywhere, or the death of the instance.
Fail(w) ==
    /\ ses[w] # Idle
    /\ faults < MaxFaults
    /\ faults' = faults + 1
    /\ Become(w, Idle)
    /\ UNCHANGED <<db, artifact, plan, known, attempts>>

Step(w) ==
    \/ SaveArtifact(w) \/ ReplaceRows(w) \/ AddRow(w) \/ ChangeRow(w)
    \/ Block(w) \/ Delete(w) \/ Send(w) \/ Conflict(w) \/ ReadOverlay(w) \/ Commit(w) \/ DeadlockVictim(w)

\* Every job is recorded or given up.
Quiescent ==
    /\ \A w \in Sessions : ses[w] = Idle
    /\ \A j \in plan : j \in DOMAIN known \/ attempts[j] = MaxAttempts
    /\ UNCHANGED vars

Next ==
    \/ \E w \in Sessions : Step(w) \/ Fail(w) \/ \E j \in Jobs : Begin(w, j) \/ RunCommand(w, j)
    \/ Quiescent

Spec == Init /\ [][Next]_vars

\* Sessions go on until they end, and while jobs are not recorded one of them is
\* asked for again.
Fairness ==
    /\ \A w \in Sessions : WF_vars(Step(w))
    /\ WF_vars(\E w \in Sessions, j \in Jobs : Begin(w, j) \/ RunCommand(w, j))

FairSpec == Spec /\ Fairness

-----------------------------------------------------------------------------
(* Properties.                                                             *)

Columns == {"fit", "portfolio", "source_models", "features", "metrics", "artifact", "training"}

\* Rows have the columns of their tables, sessions their fields, and nobody
\* tries a job more often than allowed.
TypeOK ==
    /\ \A id \in DOMAIN db : id[3] \in plan /\ DOMAIN db[id] \subseteq Columns
    /\ \A x \in DOMAIN artifact : artifact[x] \in plan
    /\ \A w \in Sessions :
          /\ ses[w].at \in {"idle", "save", "item", "flush"}
          /\ ses[w].job \in plan \cup {None}
          /\ ses[w].began \subseteq DOMAIN known
          /\ ses[w].gone \subseteq DOMAIN db
    /\ plan \in Plans
    /\ DOMAIN known \subseteq plan
    /\ \A j \in DOMAIN known : known[j] \subseteq plan
    /\ attempts \in [Jobs -> 0 .. MaxAttempts]
    /\ faults \in 0 .. MaxFaults

\* The items of a recorded job that replaced the rows of their scope.
ReplacedBy(j) == {it \in {Items[j][n] : n \in DOMAIN Items[j]} : it.scope[1] \in Replaced}

Written(j, it) == {<<it.scope, it.rows[k], j>> : k \in 1 .. Len(it.rows)}

Left(j, it) == Written(j, it) \cap DOMAIN db

\* A recorded run's factors, forecast steps or multiples are all there or all
\* replaced: whatever sessions delete and insert at the same time, nobody reads
\* half of a forecast, not even in scopes without a portfolio, which no
\* constraint protects.
RowsWhole ==
    \A j \in DOMAIN known : \A it \in ReplacedBy(j) : Left(j, it) \in {{}, Written(j, it)}

\* Two runs that have a factor, step or multiple in common never both leave
\* rows in one scope of a portfolio: the loser of a race is rolled back by the
\* unique constraint and replaces the other's rows when it is repeated.
OneRunPerScope ==
    \A i, j \in DOMAIN known : \A a \in ReplacedBy(i), b \in ReplacedBy(j) :
        (/\ i # j
         /\ a.scope = b.scope
         /\ a.scope[2] # None
         /\ \E k \in 1 .. Len(a.rows), m \in 1 .. Len(b.rows) : a.rows[k] = b.rows[m])
        => Left(i, a) = {} \/ Left(j, b) = {}

\* A run replaces: where a recorded run wrote its rows, no row is left of a run
\* that was recorded before it began, with or without a portfolio, although the
\* deletions of concurrent runs overlap and may be rolled back.
ReplacesEarlier ==
    \A j \in DOMAIN known : \A i \in known[j] :
        \A a \in ReplacedBy(i), b \in ReplacedBy(j) : a.scope = b.scope => Left(i, a) = {}

\* The metrics that the registry shows for a model are those that one of its
\* training runs has: concurrent trainings, of one dataset or several, update
\* registry and training run together although their UPDATEs wait in memory for
\* different flushes.  (Two trainings never get equal metrics here.)
RegistryMatches ==
    \A r \in DOMAIN db : TableOf(r) = "registry" =>
        \E t \in DOMAIN db :
            TableOf(t) = "training" /\ OwnerOf(t) = OwnerOf(r) /\ db[t].metrics = db[r].metrics

\* Where a run has rows of its own, its overlay is made of them or of rows that
\* were recorded while it went on, never of what it replaced, although every
\* table is read by a statement of its own and other runs commit in between.
\* (Rows of another market index or model family, which the run left alone, may
\* be preferred to its own whatever their age.)
OverlayIsCurrent ==
    \A w \in Sessions : \A r \in ses[w].overlay :
        LET s == ses[w]
        IN  (\E n \in DOMAIN Items[s.job] : Items[s.job][n].scope = r.scope)
                => r.fit = s.job \/ r.fit \notin s.began

\* Conflicts, deadlocks and a fault cost attempts, but every job gets recorded
\* before its attempts run out.
EventuallyStored == <>(DOMAIN known = plan)
=============================================================================
