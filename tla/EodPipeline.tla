----------------------------- MODULE EodPipeline -----------------------------
(***************************************************************************)
(* The end-of-day pipeline: MarketDataService.ingest_snapshots and         *)
(* EodReconciliationService.reconcile, each in a database session of its   *)
(* own, over PostgreSQL (READ COMMITTED) and the lake.                     *)
(*                                                                         *)
(* A session loads rows, changes them in memory, flushes INSERTs and       *)
(* UPDATEs that lock their rows, writes lake artifacts (which no rollback  *)
(* takes back) and commits.  The ORM's UPDATE names only the columns whose *)
(* new value differs from the loaded one.  One reference date, one market, *)
(* one scenario slug.                                                      *)
(***************************************************************************)
EXTENDS Integers, Sequences, FiniteSets

CONSTANTS
    Sessions,     \* concurrent database sessions
    Tickers,      \* numbers, in the order of the rows' primary keys
    Portfolios,
    Prices,       \* the closes of snapshots and expectations
    Versions,     \* values of source_version
    Batches,      \* snapshot batches, and
    Items,        \*   the sequence of [tk, close, src] of each batch
    Requests,     \* reconciliations, and
    PortfolioOf,  \*   the portfolio of each request
    Expected,     \*   expected_by_ticker of each, None for a ticker not named
    None,         \* no row, no artifact, no task
    MaxAttempts,  \* bound on the attempts made for each batch or request
    MaxFaults     \* bound on crashes and failures of the lake

Item == [tk : Tickers, close : Prices, src : Versions]

Tasks == Batches \cup Requests

ASSUME EodPipelineAssumption ==
    /\ Tickers \subseteq Int
    /\ Prices \subseteq Nat
    /\ \A b \in Batches : Items[b] \in Seq(Item)
    /\ PortfolioOf \in [Requests -> Portfolios]
    /\ Expected \in [Requests -> [Tickers -> Prices \cup {None}]]
    /\ Batches \cap Requests = {}
    /\ None \notin Tasks \cup Prices
    /\ MaxAttempts \in [Tasks -> Nat]
    /\ MaxFaults \in Nat

\* The rows, by natural key: market_eod_snapshots, eod_comparisons and
\* job_executions have a unique constraint each.
SnapshotId(t)      == <<"snapshot", t>>
ComparisonId(p, t) == <<"comparison", p, t>>
JobId(q)           == <<"job", q>>
Ids == {SnapshotId(t) : t \in Tickers}
       \cup {ComparisonId(p, t) : p \in Portfolios, t \in Tickers}
       \cup {JobId(q) : q \in Requests}

VARIABLES
    db,        \* committed rows
    raw,       \* lake layer raw: the snapshot artifact of each ticker
    curated,   \* lake layer curated: the comparisons artifact
    pc,        \* what each session does next
    task,      \* the batch or request each session serves
    loaded,    \* the rows each session read
    want,      \* the rows each session has in memory, None if untouched
    flushed,   \* the rows each session has written and locked
    waits,     \* the row each session is blocked on, None if not blocked
    stored,    \* the artifacts each ingestion has written
    attempts,  \* attempts made for each task
    acked,     \* the tasks whose sender has a 2xx reply
    faults     \* faults so far

lakeVars == <<raw, curated>>
sessVars == <<pc, task, loaded, want, flushed, waits, stored>>
vars == <<db, lakeVars, sessVars, attempts, acked, faults>>

Nothing == [i \in Ids |-> None]

Init ==
    /\ db = Nothing
    /\ raw = [t \in Tickers |-> None]
    /\ curated = None
    /\ pc = [w \in Sessions |-> "idle"]
    /\ task = [w \in Sessions |-> None]
    /\ loaded = [w \in Sessions |-> Nothing]
    /\ want = [w \in Sessions |-> Nothing]
    /\ flushed = [w \in Sessions |-> {}]
    /\ waits = [w \in Sessions |-> None]
    /\ stored = [w \in Sessions |-> {}]
    /\ attempts = [k \in Tasks |-> 0]
    /\ acked = {}
    /\ faults = 0

-----------------------------------------------------------------------------
(* Rows.                                                                   *)

\* _build_ingest_hash: the hash stands for the columns it is made of.
SnapshotRow(item) ==
    [close |-> item.close, src |-> item.src, hash |-> <<item.close, item.src>>]

Abs(n) == IF n < 0 THEN -n ELSE n

\* _tracking_error_bps and _resolve_verdict: within 25 basis points is inline,
\* and so is anything against an expected close of zero.
Verdict(expected, actual) ==
    CASE expected = 0 \/ Abs(actual - expected) * 10000 <= 25 * expected -> "inline"
      [] expected # 0 /\ (actual - expected) * 10000 > 25 * expected -> "outperformed"
      [] OTHER -> "underperformed"

ComparisonRow(expected, actual) ==
    [expected |-> expected, actual |-> actual, verdict |-> Verdict(expected, actual)]

RunningJobRow == [status |-> "RUNNING"]

\* The row of a reconciliation, which is committed only after its last update.
JobRow == [status |-> "SUCCEEDED"]

\* The row a session's UPDATE leaves: the columns it changed over the rest.
Merge(now, old, new) ==
    IF old = None THEN new
    ELSE [c \in DOMAIN new |-> IF new[c] # old[c] THEN new[c] ELSE now[c]]

SnapshotRows == [close : Prices, src : Versions, hash : Prices \X Versions]
ComparisonRows ==
    [expected : Prices, actual : Prices,
     verdict : {"inline", "outperformed", "underperformed"}]
Rows == SnapshotRows \cup ComparisonRows \cup [status : {"SUCCEEDED"}]

ASSUME NoRowAssumption == None \notin Rows

-----------------------------------------------------------------------------
(* Sessions.                                                               *)

Goto(w, phase) == pc' = [pc EXCEPT ![w] = phase]

LoseReply ==
    /\ faults < MaxFaults
    /\ faults' = faults + 1
    /\ UNCHANGED acked

\* The session is over: committed, or rolled back and closed.
Over(w) ==
    /\ Goto(w, "idle")
    /\ task' = [task EXCEPT ![w] = None]
    /\ loaded' = [loaded EXCEPT ![w] = Nothing]
    /\ want' = [want EXCEPT ![w] = Nothing]
    /\ flushed' = [flushed EXCEPT ![w] = {}]
    /\ waits' = [waits EXCEPT ![w] = None]
    /\ stored' = [stored EXCEPT ![w] = {}]

\* Rows a flush still has to write: an unchanged row writes nothing.
Dirty(w) == {i \in Ids \ flushed[w] : want[w][i] # None /\ want[w][i] # loaded[w][i]}

BatchTickers == [b \in Batches |-> {Items[b][n].tk : n \in DOMAIN Items[b]}]

\* The places of a ticker in a batch.
Places(b, t) == {n \in DOMAIN Items[b] : Items[b][n].tk = t}

\* The place of the first item of each ticker of a batch, and the last item.
Position ==
    [b \in Batches |-> [t \in BatchTickers[b] |->
        CHOOSE n \in Places(b, t) : \A m \in Places(b, t) : n <= m]]

LastItem ==
    [b \in Batches |-> [t \in BatchTickers[b] |->
        Items[b][CHOOSE n \in Places(b, t) : \A m \in Places(b, t) : n >= m]]]

Repeated == [b \in Batches |-> {t \in BatchTickers[b] : Cardinality(Places(b, t)) > 1}]

TickerOf(i) == i[Len(i)]

\* The unit of work sends INSERTs in the order of session.add, which is that of
\* the batch, then UPDATEs in the order of the primary keys.  The tickers of a
\* request are listed in the order of their numbers.
FlushBefore(w, i, j) ==
    LET isNew(k) == loaded[w][k] = None
        place(k) == IF isNew(k) /\ task[w] \in Batches
                    THEN Position[task[w]][TickerOf(k)] ELSE TickerOf(k)
    IN  IF isNew(i) = isNew(j) THEN place(i) < place(j) ELSE isNew(i)

NextDirty(w, i) == i \in Dirty(w) /\ \A j \in Dirty(w) \ {i} : FlushBefore(w, i, j)

Locked(w, i) == i \in flushed[w]

\* The row of i has no uncommitted write of another session.
RowFree(w, i) == \A v \in Sessions \ {w} : ~ Locked(v, i)

\* A row added twice in one batch (autoflush is off, so the second SELECT does
\* not see the first) violates the unique constraint by itself.
AddedTwice(w, i) ==
    /\ task[w] \in Batches
    /\ TickerOf(i) \in Repeated[task[w]]

\* The next statement of a flush meets a locked row and waits.
Block(w) ==
    /\ pc[w] = "flush"
    /\ waits[w] = None
    /\ \E i \in Dirty(w) :
          /\ NextDirty(w, i)
          /\ ~ RowFree(w, i)
          /\ waits' = [waits EXCEPT ![w] = i]
    /\ UNCHANGED <<db, lakeVars, pc, task, loaded, want, flushed, stored, attempts, acked, faults>>

\* One INSERT or UPDATE of a flush.  A released row goes to a session that waits
\* for it first; an INSERT whose key was committed in the meantime raises: HTTP
\* 500 and a rollback.
Flush(w) ==
    /\ pc[w] = "flush"
    /\ \/ /\ Dirty(w) = {}
          /\ Goto(w, IF task[w] \in Batches THEN "lake" ELSE "commit")
          /\ UNCHANGED <<task, loaded, want, flushed, waits, stored>>
       \/ \E i \in Dirty(w) :
             /\ NextDirty(w, i)
             /\ RowFree(w, i)
             /\ waits[w] = i \/ \A v \in Sessions : waits[v] # i
             /\ IF loaded[w][i] = None /\ (db[i] # None \/ AddedTwice(w, i))
                THEN Over(w)
                ELSE /\ flushed' = [flushed EXCEPT ![w] = @ \cup {i}]
                     /\ waits' = [waits EXCEPT ![w] = None]
                     /\ UNCHANGED <<pc, task, loaded, want, stored>>
    /\ UNCHANGED <<db, lakeVars, attempts, acked, faults>>

\* session.commit(), and the reply, which may be lost.
Commit(w) ==
    /\ pc[w] = "commit"
    /\ db' = [i \in Ids |->
                IF i \in flushed[w] THEN Merge(db[i], loaded[w][i], want[w][i]) ELSE db[i]]
    /\ \/ acked' = acked \cup {task[w]} /\ UNCHANGED faults
       \/ LoseReply
    /\ Over(w)
    /\ UNCHANGED <<lakeVars, attempts>>

\* A session is opened for a task; its sender calls again only when no call is
\* in flight (JobRuns has the overlapping deliveries of one request).
Open(w, k) ==
    /\ pc[w] = "idle"
    /\ k \notin acked
    /\ \A v \in Sessions : task[v] # k
    /\ attempts[k] < MaxAttempts[k]
    /\ attempts' = [attempts EXCEPT ![k] = @ + 1]

-----------------------------------------------------------------------------
(* ingest_snapshots.                                                       *)

IngestAddsAll(w, b) ==
    /\ Open(w, b)
    /\ Goto(w, "flush")
    /\ task' = [task EXCEPT ![w] = b]
    /\ want' = [want EXCEPT ![w] =
          [i \in Ids |-> IF \E t \in BatchTickers[b] : i = SnapshotId(t)
                         THEN SnapshotRow(LastItem[b][TickerOf(i)]) ELSE None]]
    /\ UNCHANGED <<db, lakeVars, loaded, flushed, waits, stored, acked, faults>>

\* The rows of the batch are selected and changed or added, in memory; the
\* last item of a ticker prevails.
Ingest(w, b) ==
    /\ Open(w, b)
    /\ Goto(w, "flush")
    /\ task' = [task EXCEPT ![w] = b]
    /\ LET touched == {SnapshotId(t) : t \in BatchTickers[b]}
       IN  /\ loaded' = [loaded EXCEPT ![w] =
                            [i \in Ids |-> IF i \in touched THEN db[i] ELSE None]]
           /\ want' = [want EXCEPT ![w] =
                          [i \in Ids |-> IF i \in touched
                                         THEN SnapshotRow(LastItem[b][TickerOf(i)]) ELSE None]]
    /\ UNCHANGED <<db, lakeVars, flushed, waits, stored, acked, faults>>

StoreFirstOnly(w) ==
    /\ pc[w] = "lake"
    /\ LET t == Items[task[w]][1].tk
       IN  raw' = [raw EXCEPT ![t] = want[w][SnapshotId(t)]]
    /\ Goto(w, "commit")
    /\ UNCHANGED <<db, curated, task, loaded, want, flushed, waits, stored, attempts, acked, faults>>

\* write_records for the next (market, ticker) of the batch, and after the last
\* one the call returns.  The artifact holds all the records of the ticker; it
\* is represented by the one that prevails.
StoreRaw(w) ==
    /\ pc[w] = "lake"
    /\ \/ /\ BatchTickers[task[w]] = stored[w]
          /\ Goto(w, "commit")
          /\ UNCHANGED <<raw, stored>>
       \/ \E t \in BatchTickers[task[w]] \ stored[w] :
             /\ \A u \in BatchTickers[task[w]] \ (stored[w] \cup {t}) :
                   Position[task[w]][t] < Position[task[w]][u]
             /\ raw' = [raw EXCEPT ![t] = want[w][SnapshotId(t)]]
             /\ stored' = [stored EXCEPT ![w] = @ \cup {t}]
             /\ UNCHANGED pc
    /\ UNCHANGED <<db, curated, task, loaded, want, flushed, waits, attempts, acked, faults>>

-----------------------------------------------------------------------------
(* reconcile.                                                              *)

Asked(q) == {t \in Tickers : Expected[q][t] # None}

\* The artifact holds comparisons of the request's portfolio.
Curated(q) == curated # None /\ curated.portfolio = PortfolioOf[q]

ReconcileReusesArtifact(w, q) ==
    /\ Open(w, q)
    /\ \/ /\ db[JobId(q)] # None \/ Curated(q)
          /\ \/ acked' = acked \cup {q} /\ UNCHANGED faults
             \/ LoseReply
          /\ UNCHANGED <<pc, task, want, flushed>>
       \/ /\ db[JobId(q)] = None
          /\ ~ Curated(q)
          /\ Goto(w, "snapshots")
          /\ task' = [task EXCEPT ![w] = q]
          /\ want' = [want EXCEPT ![w][JobId(q)] = JobRow]
          /\ flushed' = [flushed EXCEPT ![w] = {JobId(q)}]
          /\ UNCHANGED <<acked, faults>>
    /\ UNCHANGED <<db, lakeVars, loaded, waits, stored>>

\* A SUCCEEDED job is reused; otherwise its RUNNING row is inserted.
Reconcile(w, q) ==
    /\ Open(w, q)
    /\ \/ /\ db[JobId(q)] # None
          /\ \/ acked' = acked \cup {q} /\ UNCHANGED faults
             \/ LoseReply
          /\ UNCHANGED <<pc, task, want, flushed>>
       \/ /\ db[JobId(q)] = None
          /\ Goto(w, "snapshots")
          /\ task' = [task EXCEPT ![w] = q]
          /\ want' = [want EXCEPT ![w][JobId(q)] = JobRow]
          /\ flushed' = [flushed EXCEPT ![w] = {JobId(q)}]
          /\ UNCHANGED <<acked, faults>>
    /\ UNCHANGED <<db, lakeVars, loaded, waits, stored>>

CompareFound(w) ==
    /\ pc[w] = "snapshots"
    /\ LET q == task[w]
       IN  /\ Goto(w, "comparisons")
           /\ want' = [want EXCEPT ![w] = [i \in Ids |->
                  IF \E t \in Asked(q) : i = ComparisonId(PortfolioOf[q], t) /\ db[SnapshotId(t)] # None
                  THEN ComparisonRow(Expected[q][TickerOf(i)], db[SnapshotId(TickerOf(i))].close)
                  ELSE @[i]]]
           /\ UNCHANGED <<task, loaded, flushed, waits, stored>>
    /\ UNCHANGED <<db, lakeVars, attempts, acked, faults>>

\* The snapshots of the asked tickers are read in one statement; a missing one
\* raises.  The comparison of each ticker is computed from what was read.
Compare(w) ==
    /\ pc[w] = "snapshots"
    /\ LET q == task[w]
       IN  IF \E t \in Asked(q) : db[SnapshotId(t)] = None
           THEN Over(w)
           ELSE /\ Goto(w, "comparisons")
                /\ want' = [want EXCEPT ![w] = [i \in Ids |->
                       IF \E t \in Asked(q) : i = ComparisonId(PortfolioOf[q], t)
                       THEN ComparisonRow(Expected[q][TickerOf(i)], db[SnapshotId(TickerOf(i))].close)
                       ELSE @[i]]]
                /\ UNCHANGED <<task, loaded, flushed, waits, stored>>
    /\ UNCHANGED <<db, lakeVars, attempts, acked, faults>>

\* The existing comparisons are selected and changed in memory, or added.
LoadComparisons(w) ==
    /\ pc[w] = "comparisons"
    /\ Goto(w, "curate")
    /\ LET q == task[w]
       IN  loaded' = [loaded EXCEPT ![w] = [i \in Ids |->
              IF \E t \in Asked(q) : i = ComparisonId(PortfolioOf[q], t) THEN db[i] ELSE None]]
    /\ UNCHANGED <<db, lakeVars, task, want, flushed, waits, stored, attempts, acked, faults>>

\* The artifact of the date and slug is written before the flush; its key does
\* not name the portfolio.
StoreCurated(w) ==
    /\ pc[w] = "curate"
    /\ Goto(w, "flush")
    /\ LET q == task[w]
       IN  curated' = [portfolio |-> PortfolioOf[q],
                       rows |-> [t \in Asked(q) |-> want[w][ComparisonId(PortfolioOf[q], t)]]]
    /\ UNCHANGED <<db, raw, task, loaded, want, flushed, waits, stored, attempts, acked, faults>>

-----------------------------------------------------------------------------
(* Faults.                                                                 *)

\* The lake stays unreachable after the retries, or the instance dies.
Fail(w) ==
    /\ pc[w] # "idle"
    /\ faults < MaxFaults
    /\ faults' = faults + 1
    /\ Over(w)
    /\ UNCHANGED <<db, lakeVars, attempts, acked>>

\* v is blocked on a row that u has locked.
WaitsFor(v, u) == waits[v] # None /\ u # v /\ Locked(u, waits[v])

\* PostgreSQL breaks a cycle of waiting sessions by aborting one of them.
DeadlockVictim(w) ==
    /\ \E S \in SUBSET Sessions :
          w \in S /\ \A v \in S : \E u \in S : WaitsFor(v, u)
    /\ Over(w)
    /\ UNCHANGED <<db, lakeVars, attempts, acked, faults>>

-----------------------------------------------------------------------------
Step(w) ==
    \/ Block(w) \/ Flush(w) \/ StoreRaw(w) \/ Commit(w) \/ DeadlockVictim(w)
    \/ Compare(w) \/ LoadComparisons(w) \/ StoreCurated(w)

Call(k) ==
    \E w \in Sessions :
        \/ k \in Batches /\ Ingest(w, k)
        \/ k \in Requests /\ Reconcile(w, k)

\* Every task is answered or given up.
Quiescent ==
    /\ \A w \in Sessions : pc[w] = "idle"
    /\ \A k \in Tasks : k \in acked \/ attempts[k] = MaxAttempts[k]
    /\ UNCHANGED vars

Next ==
    \/ \E k \in Tasks : Call(k)
    \/ \E w \in Sessions : Step(w) \/ Fail(w)
    \/ Quiescent

Spec == Init /\ [][Next]_vars

\* A session goes on until it ends: locks are released, calls to the lake
\* return, a deadlock is broken.  A sender without an answer calls again.
Fairness ==
    /\ \A w \in Sessions : WF_vars(Step(w))
    /\ \A k \in Tasks : WF_vars(Call(k))

FairSpec == Spec /\ Fairness

-----------------------------------------------------------------------------
(* Properties.                                                             *)

Phases == {"idle", "flush", "lake", "commit", "snapshots", "comparisons", "curate"}

\* Every variable has its type.
TypeOK ==
    /\ db \in [Ids -> Rows \cup {None}]
    /\ raw \in [Tickers -> Rows \cup {None}]
    /\ curated # None =>
          /\ curated.portfolio \in Portfolios
          /\ DOMAIN curated.rows \subseteq Tickers
          /\ \A t \in DOMAIN curated.rows : curated.rows[t] \in Rows
    /\ pc \in [Sessions -> Phases]
    /\ task \in [Sessions -> Tasks \cup {None}]
    /\ loaded \in [Sessions -> [Ids -> Rows \cup {None}]]
    /\ want \in [Sessions -> [Ids -> Rows \cup {None}]]
    /\ flushed \in [Sessions -> SUBSET Ids]
    /\ waits \in [Sessions -> Ids \cup {None}]
    /\ stored \in [Sessions -> SUBSET Tickers]
    /\ attempts \in [Tasks -> Nat]
    /\ \A k \in Tasks : attempts[k] <= MaxAttempts[k]
    /\ acked \subseteq Tasks
    /\ faults \in 0 .. MaxFaults

\* No committed snapshot lacks its raw artifact: the lake is written before the
\* commit, so a crash or a rollback may leave an artifact without its row but
\* never a row without its artifact.
SnapshotHasArtifact ==
    \A t \in Tickers : db[SnapshotId(t)] # None => raw[t] # None

\* What a job recorded as SUCCEEDED leaves: a comparison for every ticker asked
\* for, and a curated artifact with the same comparisons, although the artifact
\* is written first, by a call that may have failed since, from snapshots that
\* other sessions go on changing (curated comparisons are written without
\* corrupting the history).
CuratedAgrees ==
    \A q \in Requests : db[JobId(q)] # None =>
        /\ curated.portfolio = PortfolioOf[q]
        /\ \A t \in Asked(q) :
              LET row == db[ComparisonId(PortfolioOf[q], t)]
              IN  row # None /\ curated.rows[t] = row

\* The artifact that a failed reconciliation leaves, with no job row and no
\* comparisons to go with it, does not stay so if the call is repeated more often
\* than there are failures to come: a repetition is recorded (and CuratedAgrees
\* says that the artifact is then its own).
ArtifactGetsRecorded ==
    \A q \in Requests :
        Curated(q) /\ MaxAttempts[q] - attempts[q] > MaxFaults - faults ~> db[JobId(q)] # None

\* The tickers that a batch names twice all have a row.
Storable(b) == \A t \in Repeated[b] : db[SnapshotId(t)] # None

\* Batches get stored although lock waits, deadlocks and conflicts of concurrent
\* batches roll whole batches back, if their senders call again; one that repeats
\* a ticker, if it is first sent when the ticker has a row.
EventuallyIngested ==
    /\ <>(\A b \in Batches : Repeated[b] = {} => b \in acked)
    /\ \A b \in {c \in Batches : Repeated[c] # {}} :
          attempts[b] = 0 /\ Storable(b) ~> b \in acked

\* There is one canonical snapshot per ticker and date: the hash of the row is
\* that of its close and source version.
HashMatches ==
    \A t \in Tickers : LET row == db[SnapshotId(t)]
                       IN  row # None => row.hash = <<row.close, row.src>>
=============================================================================
