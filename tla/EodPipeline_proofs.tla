-------------------------- MODULE EodPipeline_proofs --------------------------
(***************************************************************************)
(* Proofs about EodPipeline, for any sessions, tickers, batches, requests  *)
(* and faults.                                                             *)
(***************************************************************************)
EXTENDS EodPipeline, NaturalOrder

-----------------------------------------------------------------------------
(* The invariant.                                                          *)

RowsOf(i) ==
    IF i[1] = "snapshot" THEN SnapshotRows
    ELSE IF i[1] = "comparison" THEN ComparisonRows ELSE {JobRow}

MaybeRowsOf(i) == RowsOf(i) \cup {None}

\* The rows that a session may write for a task.
Own(k) ==
    {i \in Ids :
        \/ k \in Batches /\ \E t \in BatchTickers[k] : i = SnapshotId(t)
        \/ /\ k \in Requests
           /\ i = JobId(k) \/ \E t \in Asked(k) : i = ComparisonId(PortfolioOf[k], t)}

\* Rows are of their tables, and what was read was committed and still is.
KindInv(w) ==
    \A i \in Ids :
        /\ loaded[w][i] \in MaybeRowsOf(i)
        /\ want[w][i] \in MaybeRowsOf(i)
        /\ loaded[w][i] # None => db[i] # None

\* What each phase says of the session.
PhaseInv(w) ==
    /\ pc[w] = "idle" =>
          /\ task[w] = None
          /\ loaded[w] = Nothing /\ want[w] = Nothing
          /\ flushed[w] = {} /\ stored[w] = {}
    /\ pc[w] # "idle" => task[w] \in Tasks
    /\ pc[w] = "lake" => task[w] \in Batches
    /\ pc[w] \in {"snapshots", "comparisons", "curate"} =>
          task[w] \in Requests /\ flushed[w] = {JobId(task[w])}

\* What a session has in memory belongs to its task, and is there when the
\* handler has put it there.
WantInv(w) ==
    /\ \A i \in Ids : want[w][i] # None => i \in Own(task[w])
    /\ \A i \in flushed[w] : i \in Ids /\ want[w][i] # None
    /\ task[w] \in Batches => \A t \in BatchTickers[task[w]] : want[w][SnapshotId(t)] # None
    /\ task[w] \in Requests =>
          /\ want[w][JobId(task[w])] = JobRow
          /\ loaded[w][JobId(task[w])] = None
          /\ JobId(task[w]) \in flushed[w]
          /\ pc[w] # "snapshots" =>
                \A t \in Asked(task[w]) : want[w][ComparisonId(PortfolioOf[task[w]], t)] # None

\* An ingestion has written the artifacts it counts, at its commit all of them.
StoredInv(w) ==
    /\ \A t \in stored[w] : raw[t] # None
    /\ pc[w] = "commit" /\ task[w] \in Batches => BatchTickers[task[w]] \subseteq stored[w]

\* An uncommitted INSERT finds its key free.
NewInv(w) == \A i \in flushed[w] : loaded[w][i] = None => db[i] = None

SessionInv(w) == KindInv(w) /\ PhaseInv(w) /\ WantInv(w) /\ StoredInv(w) /\ NewInv(w)

\* No two sessions serve one task or have written one row.
Apart(v, w) ==
    /\ flushed[v] \cap flushed[w] = {}
    /\ task[v] = task[w] => task[w] = None

IInv ==
    /\ TypeOK
    /\ \A i \in Ids : db[i] \in MaybeRowsOf(i)
    /\ \A w \in Sessions : SessionInv(w)
    /\ \A v, w \in Sessions : v # w => Apart(v, w)
    /\ SnapshotHasArtifact

-----------------------------------------------------------------------------
(* Rows and ids.                                                           *)

\* The ids of the three tables.
LEMMA IdsOfTables ==
  /\ \A t \in Tickers : SnapshotId(t) \in Ids /\ RowsOf(SnapshotId(t)) = SnapshotRows
  /\ \A p \in Portfolios, t \in Tickers :
        ComparisonId(p, t) \in Ids /\ RowsOf(ComparisonId(p, t)) = ComparisonRows
  /\ \A q \in Requests : JobId(q) \in Ids /\ RowsOf(JobId(q)) = {JobRow}
  BY DEF Ids, SnapshotId, ComparisonId, JobId, RowsOf

\* No row is None, and rows of the tables are rows.
LEMMA RowsAreRows ==
  \A i : RowsOf(i) \subseteq Rows /\ None \notin RowsOf(i)
  BY NoRowAssumption DEF RowsOf, Rows, JobRow

\* The last item of a ticker in a batch is an item of that ticker.
LEMMA LastItemType ==
  ASSUME NEW b \in Batches, NEW t \in BatchTickers[b]
  PROVE  LastItem[b][t] \in Item /\ LastItem[b][t].tk = t
<1>1. Items[b] \in Seq(Item)
  BY EodPipelineAssumption
<1>2. Places(b, t) \subseteq 0 .. Len(Items[b]) /\ Places(b, t) # {}
  BY <1>1 DEF Places, BatchTickers
<1>3. \E n \in Places(b, t) : \A m \in Places(b, t) : n >= m
  <2> HIDE DEF Places
  <2> QED
    BY <1>1, <1>2, GreatestElement
<1> DEFINE n == CHOOSE n \in Places(b, t) : \A m \in Places(b, t) : n >= m
<1>4. n \in Places(b, t)
  BY <1>3
<1>5. LastItem[b][t] = Items[b][n]
  BY DEF LastItem
<1> HIDE DEF n
<1>6. n \in 1 .. Len(Items[b]) /\ Items[b][n].tk = t
  BY <1>1, <1>4 DEF Places
<1>7. Items[b][n] \in Item
  BY <1>1, <1>6
<1> QED
  BY <1>5, <1>6, <1>7

\* Batches name tickers, and their items make rows of snapshots.
LEMMA BatchTickersType ==
  ASSUME NEW b \in Batches
  PROVE  BatchTickers[b] \subseteq Tickers
<1>1. Items[b] \in Seq(Item)
  BY EodPipelineAssumption
<1>2. \A n \in DOMAIN Items[b] : Items[b][n] \in Item
  BY <1>1
<1>3. \A n \in DOMAIN Items[b] : Items[b][n].tk \in Tickers
  BY <1>2 DEF Item
<1> QED
  BY <1>3 DEF BatchTickers

LEMMA SnapshotRowType ==
  ASSUME NEW item \in Item
  PROVE  SnapshotRow(item) \in SnapshotRows
  BY DEF SnapshotRow, SnapshotRows, Item

LEMMA ComparisonRowType ==
  ASSUME NEW expected \in Prices, NEW actual \in Prices
  PROVE  ComparisonRow(expected, actual) \in ComparisonRows
  BY DEF ComparisonRow, ComparisonRows, Verdict

\* An UPDATE leaves a row of the table.
LEMMA MergeType ==
  ASSUME NEW i \in Ids, NEW now \in MaybeRowsOf(i), NEW old \in MaybeRowsOf(i),
         NEW new \in RowsOf(i), old # None => now # None
  PROVE  Merge(now, old, new) \in RowsOf(i)
<1>1. CASE old = None
  BY <1>1 DEF Merge
<1>2. CASE old # None
  <2>1. now \in RowsOf(i) /\ old \in RowsOf(i)
    BY <1>2 DEF MaybeRowsOf
  <2> DEFINE row == [c \in DOMAIN new |-> IF new[c] # old[c] THEN new[c] ELSE now[c]]
  <2>2. Merge(now, old, new) = row
    BY <1>2 DEF Merge
  <2>3. CASE RowsOf(i) = SnapshotRows
    BY <2>1, <2>2, <2>3 DEF SnapshotRows
  <2>4. CASE RowsOf(i) = ComparisonRows
    BY <2>1, <2>2, <2>4 DEF ComparisonRows
  <2>5. CASE RowsOf(i) = {JobRow}
    BY <2>1, <2>2, <2>5 DEF JobRow
  <2> QED
    BY <2>3, <2>4, <2>5 DEF RowsOf
<1> QED
  BY <1>1, <1>2

-----------------------------------------------------------------------------
(* Initial states, and the steps of one session.                           *)

LEMMA InitIInv == Init => IInv
<1> SUFFICES ASSUME Init
             PROVE  IInv
  OBVIOUS
<1> USE DEF Init, Nothing
<1>1. TypeOK
  BY EodPipelineAssumption DEF TypeOK, Phases
<1>2. ASSUME NEW w \in Sessions
      PROVE  SessionInv(w)
  <2>1. KindInv(w) /\ NewInv(w)
    BY DEF KindInv, NewInv, MaybeRowsOf
  <2>2. PhaseInv(w)
    BY DEF PhaseInv
  <2>3. WantInv(w) /\ StoredInv(w)
    BY EodPipelineAssumption DEF WantInv, StoredInv, Tasks
  <2> QED
    BY <2>1, <2>2, <2>3 DEF SessionInv
<1>3. SnapshotHasArtifact
  BY IdsOfTables DEF SnapshotHasArtifact
<1> QED
  BY <1>1, <1>2, <1>3 DEF IInv, Apart, MaybeRowsOf

\* A session is in the next state what it is now.
Still(v) ==
    /\ pc'[v] = pc[v] /\ task'[v] = task[v]
    /\ loaded'[v] = loaded[v] /\ want'[v] = want[v]
    /\ flushed'[v] = flushed[v] /\ stored'[v] = stored[v]

\* A session that stands still stays in order when the rows it has written are
\* not, and no row or artifact is lost.
LEMMA StillInOrder ==
  ASSUME IInv, NEW v \in Sessions, Still(v),
         \A i \in Ids : db[i] # None => db'[i] # None,
         \A i \in flushed[v] : db'[i] = db[i],
         \A t \in Tickers : raw[t] # None => raw'[t] # None
  PROVE  SessionInv(v)'
<1>1. SessionInv(v)
  BY DEF IInv
<1>2. stored[v] \subseteq Tickers
  BY DEF IInv, TypeOK
<1>3. KindInv(v)' /\ NewInv(v)'
  BY <1>1 DEF SessionInv, KindInv, NewInv, Still
<1>4. PhaseInv(v)' /\ WantInv(v)'
  BY <1>1 DEF SessionInv, PhaseInv, WantInv, Still
<1>5. StoredInv(v)'
  BY <1>1, <1>2 DEF SessionInv, StoredInv, Still
<1> QED
  BY <1>3, <1>4, <1>5 DEF SessionInv

\* A step of w that commits nothing keeps the invariant if w stays in order and
\* apart from the others, and no artifact is lost.
LEMMA SessionStep ==
  ASSUME NEW w \in Sessions, IInv, TypeOK', db' = db,
         \A v \in Sessions \ {w} : Still(v),
         \A t \in Tickers : raw[t] # None => raw'[t] # None,
         SessionInv(w)',
         \A v \in Sessions \ {w} : Apart(v, w)'
  PROVE  IInv'
<1>1. ASSUME NEW v \in Sessions
      PROVE  SessionInv(v)'
  BY StillInOrder
<1>2. ASSUME NEW u \in Sessions, NEW v \in Sessions, u # v
      PROVE  Apart(u, v)'
  <2>1. CASE u # w /\ v # w
    <3>1. Apart(u, v) /\ Still(u) /\ Still(v)
      BY <1>2, <2>1 DEF IInv
    <3> QED
      BY <3>1 DEF Apart, Still
  <2>2. CASE v = w
    BY <1>2, <2>2
  <2>3. CASE u = w
    <3>1. Apart(v, u)'
      BY <1>2, <2>3
    <3> QED
      BY <3>1 DEF Apart
  <2> QED
    BY <2>1, <2>2, <2>3
<1>3. SnapshotHasArtifact'
  BY DEF IInv, SnapshotHasArtifact
<1> QED
  BY <1>1, <1>2, <1>3 DEF IInv

\* A step that no session, row or artifact notices.
LEMMA NothingMoves ==
  ASSUME IInv, TypeOK', db' = db, raw' = raw, \A v \in Sessions : Still(v)
  PROVE  IInv'
<1>1. \A v \in Sessions : SessionInv(v)'
  BY StillInOrder
<1>2. \A u, v \in Sessions : u # v => Apart(u, v)'
  BY DEF IInv, Apart, Still
<1> QED
  BY <1>1, <1>2 DEF IInv, SnapshotHasArtifact

\* A session that is over has nothing left, and its neighbours stand still.
LEMMA OverIsClean ==
  ASSUME NEW w \in Sessions, IInv, Over(w)
  PROVE  /\ \A v \in Sessions \ {w} : Still(v) /\ Apart(v, w)'
         /\ SessionInv(w)'
<1>1. /\ pc'[w] = "idle" /\ task'[w] = None
      /\ loaded'[w] = Nothing /\ want'[w] = Nothing
      /\ flushed'[w] = {} /\ stored'[w] = {}
  BY DEF Over, Goto, IInv, TypeOK
<1>2. \A v \in Sessions \ {w} : Still(v)
  BY DEF Over, Goto, IInv, TypeOK, Still
<1>3. SessionInv(w)'
  <2>1. KindInv(w)' /\ NewInv(w)'
    BY <1>1 DEF KindInv, NewInv, Nothing, MaybeRowsOf
  <2>2. PhaseInv(w)' /\ WantInv(w)' /\ StoredInv(w)'
    BY <1>1, EodPipelineAssumption DEF PhaseInv, WantInv, StoredInv, Nothing, Tasks
  <2> QED
    BY <2>1, <2>2 DEF SessionInv
<1> QED
  BY <1>1, <1>2, <1>3 DEF Apart

\* The variables of a session have their types after it is over.
LEMMA OverType ==
  ASSUME NEW w \in Sessions, TypeOK, Over(w)
  PROVE  /\ pc' \in [Sessions -> Phases]
         /\ task' \in [Sessions -> Tasks \cup {None}]
         /\ loaded' \in [Sessions -> [Ids -> Rows \cup {None}]]
         /\ want' \in [Sessions -> [Ids -> Rows \cup {None}]]
         /\ flushed' \in [Sessions -> SUBSET Ids]
         /\ waits' \in [Sessions -> Ids \cup {None}]
         /\ stored' \in [Sessions -> SUBSET Tickers]
<1>1. "idle" \in Phases /\ Nothing \in [Ids -> Rows \cup {None}]
  BY DEF Phases, Nothing
<1> QED
  BY <1>1 DEF Over, Goto, TypeOK

\* A rollback, and the end of a session for any other reason.
LEMMA SessionEnds ==
  ASSUME NEW w \in Sessions, IInv, Over(w), faults' \in 0 .. MaxFaults,
         UNCHANGED <<db, lakeVars, attempts, acked>>
  PROVE  IInv'
<1>1. TypeOK'
  <2>1. TypeOK
    BY DEF IInv
  <2> QED
    BY <2>1, OverType DEF TypeOK, lakeVars
<1> QED
  BY <1>1, OverIsClean, SessionStep DEF lakeVars

-----------------------------------------------------------------------------
(* The actions.                                                            *)

LEMMA BlockStep ==
  ASSUME NEW w \in Sessions, IInv, Block(w)
  PROVE  IInv'
<1>1. TypeOK'
  <2>1. PICK i \in Ids : waits' = [waits EXCEPT ![w] = i]
    BY DEF Block, Dirty
  <2>2. TypeOK
    BY DEF IInv
  <2> QED
    BY <2>1, <2>2 DEF Block, TypeOK, lakeVars
<1> QED
  BY <1>1, NothingMoves DEF Block, lakeVars, Still

LEMMA FlushEnds ==
  ASSUME NEW w \in Sessions, IInv, Flush(w), Dirty(w) = {}
  PROVE  IInv'
<1> DEFINE next == IF task[w] \in Batches THEN "lake" ELSE "commit"
<1>1. /\ pc[w] = "flush" /\ Goto(w, next)
      /\ UNCHANGED <<db, lakeVars, task, loaded, want, flushed, stored, waits,
                     attempts, acked, faults>>
  BY DEF Flush
<1>2. TypeOK /\ SessionInv(w) /\ pc[w] # "idle"
  BY <1>1 DEF IInv
<1>3. /\ pc'[w] = next
      /\ \A v \in Sessions \ {w} : Still(v)
  BY <1>1, <1>2 DEF Goto, TypeOK, Still
<1>4. TypeOK'
  BY <1>1, <1>2 DEF TypeOK, Goto, Phases, lakeVars
<1>5. SessionInv(w)'
  <2>1. KindInv(w)' /\ NewInv(w)' /\ WantInv(w)'
    BY <1>1, <1>2, <1>3 DEF SessionInv, KindInv, NewInv, WantInv
  <2>2. PhaseInv(w)' /\ StoredInv(w)'
    BY <1>1, <1>2, <1>3 DEF SessionInv, PhaseInv, StoredInv, lakeVars
  <2> QED
    BY <2>1, <2>2 DEF SessionInv
<1>6. \A v \in Sessions \ {w} : Apart(v, w)'
  BY <1>1 DEF IInv, Apart
<1> QED
  BY <1>1, <1>3, <1>4, <1>5, <1>6, SessionStep DEF lakeVars

LEMMA FlushWrites ==
  ASSUME NEW w \in Sessions, IInv, pc[w] = "flush",
         NEW i \in Dirty(w), RowFree(w, i), loaded[w][i] = None => db[i] = None,
         flushed' = [flushed EXCEPT ![w] = @ \cup {i}],
         waits' = [waits EXCEPT ![w] = None],
         UNCHANGED <<db, lakeVars, pc, task, loaded, want, stored, attempts, acked, faults>>
  PROVE  IInv'
<1>1. TypeOK /\ SessionInv(w)
  BY DEF IInv
<1>2. i \in Ids /\ want[w][i] # None
  BY DEF Dirty
<1>3. /\ flushed'[w] = flushed[w] \cup {i}
      /\ \A v \in Sessions \ {w} : Still(v)
  BY <1>1 DEF TypeOK, Still
<1>4. TypeOK'
  BY <1>1, <1>2 DEF TypeOK, lakeVars
<1>5. SessionInv(w)'
  <2>1. KindInv(w)' /\ NewInv(w)'
    BY <1>1, <1>2, <1>3 DEF SessionInv, KindInv, NewInv
  <2>2. WantInv(w)'
    BY <1>1, <1>2, <1>3 DEF SessionInv, WantInv
  <2>3. PhaseInv(w)' /\ StoredInv(w)'
    BY <1>1, <1>3 DEF SessionInv, PhaseInv, StoredInv, lakeVars
  <2> QED
    BY <2>1, <2>2, <2>3 DEF SessionInv
<1>6. \A v \in Sessions \ {w} : Apart(v, w)'
  BY <1>3 DEF IInv, Apart, RowFree, Locked, Still
<1> QED
  BY <1>3, <1>4, <1>5, <1>6, SessionStep DEF lakeVars

LEMMA FlushStep ==
  ASSUME NEW w \in Sessions, IInv, Flush(w)
  PROVE  IInv'
<1>1. CASE Dirty(w) = {}
  BY <1>1, FlushEnds
<1>2. CASE Dirty(w) # {}
  <2>1. PICK i \in Dirty(w) :
           /\ RowFree(w, i)
           /\ IF loaded[w][i] = None /\ (db[i] # None \/ AddedTwice(w, i))
              THEN Over(w)
              ELSE /\ flushed' = [flushed EXCEPT ![w] = @ \cup {i}]
                   /\ waits' = [waits EXCEPT ![w] = None]
                   /\ UNCHANGED <<pc, task, loaded, want, stored>>
    BY <1>2 DEF Flush
  <2>2. pc[w] = "flush" /\ UNCHANGED <<db, lakeVars, attempts, acked, faults>>
    BY DEF Flush
  <2>3. CASE loaded[w][i] = None /\ (db[i] # None \/ AddedTwice(w, i))
    <3>1. faults' \in 0 .. MaxFaults
      BY <2>2 DEF IInv, TypeOK
    <3> QED
      BY <2>1, <2>2, <2>3, <3>1, SessionEnds
  <2>4. CASE ~ (loaded[w][i] = None /\ (db[i] # None \/ AddedTwice(w, i)))
    BY <2>1, <2>2, <2>4, FlushWrites
  <2> QED
    BY <2>3, <2>4
<1> QED
  BY <1>1, <1>2

LEMMA FailStep ==
  ASSUME NEW w \in Sessions, IInv, Fail(w)
  PROVE  IInv'
<1>1. faults' \in 0 .. MaxFaults
  BY EodPipelineAssumption DEF IInv, TypeOK, Fail
<1> QED
  BY <1>1, SessionEnds DEF Fail

LEMMA DeadlockVictimStep ==
  ASSUME NEW w \in Sessions, IInv, DeadlockVictim(w)
  PROVE  IInv'
<1>1. faults' \in 0 .. MaxFaults
  BY DEF IInv, TypeOK, DeadlockVictim
<1> QED
  BY <1>1, SessionEnds DEF DeadlockVictim

\* A commit: every row it writes is a row of its table, and for every snapshot
\* the batch has written the artifact before.
LEMMA CommitStep ==
  ASSUME NEW w \in Sessions, IInv, Commit(w)
  PROVE  IInv'
<1>1. /\ TypeOK /\ SessionInv(w) /\ pc[w] = "commit" /\ task[w] \in Tasks
      /\ \A i \in Ids : db[i] \in MaybeRowsOf(i)
  BY DEF IInv, Commit, SessionInv, PhaseInv
<1>2. /\ Over(w)
      /\ UNCHANGED <<lakeVars, attempts>>
      /\ db' = [i \in Ids |->
                  IF i \in flushed[w] THEN Merge(db[i], loaded[w][i], want[w][i]) ELSE db[i]]
      /\ faults' \in 0 .. MaxFaults /\ acked' \subseteq Tasks
  <2>1. faults' \in 0 .. MaxFaults /\ acked' \subseteq Tasks
    BY <1>1, EodPipelineAssumption DEF Commit, LoseReply, TypeOK
  <2> QED
    BY <2>1 DEF Commit
<1>3. ASSUME NEW i \in flushed[w]
      PROVE  db'[i] \in RowsOf(i)
  <2>1. i \in Ids /\ want[w][i] \in RowsOf(i)
    BY <1>1 DEF SessionInv, WantInv, KindInv, MaybeRowsOf
  <2>2. Merge(db[i], loaded[w][i], want[w][i]) \in RowsOf(i)
    BY <1>1, <2>1, MergeType DEF SessionInv, KindInv
  <2> QED
    BY <1>2, <2>1, <2>2
<1>4. \A i \in Ids \ flushed[w] : db'[i] = db[i]
  BY <1>2
<1>5. ASSUME NEW i \in Ids
      PROVE  db'[i] \in MaybeRowsOf(i) /\ (db[i] # None => db'[i] # None)
  BY <1>1, <1>3, <1>4, RowsAreRows DEF MaybeRowsOf
<1>6. TypeOK'
  <2>1. db' \in [Ids -> Rows \cup {None}]
    BY <1>2, <1>5, RowsAreRows DEF MaybeRowsOf
  <2> QED
    BY <1>1, <1>2, <2>1, OverType DEF TypeOK, lakeVars
<1>7. SessionInv(w)' /\ \A v \in Sessions \ {w} : Still(v) /\ Apart(v, w)'
  BY <1>2, OverIsClean
<1>8. ASSUME NEW v \in Sessions
      PROVE  SessionInv(v)'
  <2>1. CASE v = w
    BY <1>7, <2>1
  <2>2. CASE v # w
    <3>1. \A i \in flushed[v] : db'[i] = db[i]
      BY <1>1, <1>4, <2>2 DEF IInv, Apart, TypeOK
    <3> QED
      BY <1>2, <1>5, <1>7, <2>2, <3>1, StillInOrder DEF lakeVars
  <2> QED
    BY <2>1, <2>2
<1>9. ASSUME NEW u \in Sessions, NEW v \in Sessions, u # v
      PROVE  Apart(u, v)'
  <2>1. CASE u # w /\ v # w
    BY <1>7, <1>9, <2>1 DEF IInv, Apart, Still
  <2>2. CASE u = w \/ v = w
    BY <1>7, <1>9, <2>2 DEF Apart
  <2> QED
    BY <2>1, <2>2
<1>10. SnapshotHasArtifact'
  <2> SUFFICES ASSUME NEW t \in Tickers, db'[SnapshotId(t)] # None
               PROVE  raw[t] # None
    BY <1>2 DEF SnapshotHasArtifact, lakeVars
  <2>1. SnapshotId(t) \in Ids
    BY IdsOfTables
  <2>2. CASE SnapshotId(t) \notin flushed[w]
    BY <1>4, <2>1, <2>2 DEF IInv, SnapshotHasArtifact
  <2>3. CASE SnapshotId(t) \in flushed[w]
    <3>1. SnapshotId(t) \in Own(task[w])
      BY <1>1, <2>1, <2>3 DEF SessionInv, WantInv
    <3>2. task[w] \in Batches /\ t \in BatchTickers[task[w]]
      BY <3>1 DEF Own, SnapshotId, ComparisonId, JobId
    <3> QED
      BY <1>1, <3>2 DEF SessionInv, StoredInv
  <2> QED
    BY <2>2, <2>3
<1> QED
  BY <1>5, <1>6, <1>8, <1>9, <1>10 DEF IInv

\* What opening a session for a task says of the others.
LEMMA OpenIsApart ==
  ASSUME NEW w \in Sessions, NEW k \in Tasks, IInv, Open(w, k)
  PROVE  /\ pc[w] = "idle" /\ loaded[w] = Nothing /\ want[w] = Nothing
         /\ flushed[w] = {} /\ stored[w] = {}
         /\ \A v \in Sessions : task[v] # k
         /\ attempts' \in [Tasks -> Nat]
         /\ \A j \in Tasks : attempts'[j] <= MaxAttempts[j]
<1>1. TypeOK /\ PhaseInv(w)
  BY DEF IInv, SessionInv
<1>2. attempts' = [attempts EXCEPT ![k] = @ + 1] /\ attempts[k] < MaxAttempts[k]
  BY DEF Open
<1>3. attempts' \in [Tasks -> Nat]
  BY <1>1, <1>2 DEF TypeOK
<1>4. ASSUME NEW j \in Tasks
      PROVE  attempts'[j] <= MaxAttempts[j]
  <2>1. attempts[j] \in Nat /\ MaxAttempts[j] \in Nat /\ attempts[j] <= MaxAttempts[j]
    BY <1>1, EodPipelineAssumption DEF TypeOK
  <2>2. attempts'[j] = IF j = k THEN attempts[j] + 1 ELSE attempts[j]
    BY <1>1, <1>2 DEF TypeOK
  <2> QED
    BY <1>2, <2>1, <2>2
<1> QED
  BY <1>1, <1>3, <1>4 DEF Open, PhaseInv

LEMMA IngestStep ==
  ASSUME NEW w \in Sessions, NEW b \in Batches, IInv, Ingest(w, b)
  PROVE  IInv'
<1> DEFINE touched == {SnapshotId(t) : t \in BatchTickers[b]}
           read == [i \in Ids |-> IF i \in touched THEN db[i] ELSE None]
           new == [i \in Ids |-> IF i \in touched
                                 THEN SnapshotRow(LastItem[b][TickerOf(i)]) ELSE None]
<1>1. /\ TypeOK /\ \A i \in Ids : db[i] \in MaybeRowsOf(i)
      /\ b \in Tasks /\ b \notin Requests /\ b # None
  BY EodPipelineAssumption DEF IInv, Tasks
<1>2. /\ Open(w, b) /\ Goto(w, "flush")
      /\ task' = [task EXCEPT ![w] = b]
      /\ loaded' = [loaded EXCEPT ![w] = read]
      /\ want' = [want EXCEPT ![w] = new]
      /\ UNCHANGED <<db, lakeVars, flushed, waits, stored, acked, faults>>
  BY DEF Ingest
<1>3. ASSUME NEW t \in BatchTickers[b]
      PROVE  /\ t \in Tickers /\ SnapshotId(t) \in Ids
             /\ SnapshotRow(LastItem[b][t]) \in SnapshotRows
             /\ TickerOf(SnapshotId(t)) = t
             /\ RowsOf(SnapshotId(t)) = SnapshotRows
  BY BatchTickersType, LastItemType, SnapshotRowType, IdsOfTables DEF TickerOf, SnapshotId
<1>4. ASSUME NEW i \in Ids
      PROVE  read[i] \in MaybeRowsOf(i) /\ new[i] \in MaybeRowsOf(i)
  <2>1. CASE i \in touched
    <3>1. PICK t \in BatchTickers[b] : i = SnapshotId(t)
      BY <2>1
    <3> QED
      BY <1>1, <1>3, <2>1, <3>1 DEF MaybeRowsOf
  <2>2. CASE i \notin touched
    BY <2>2 DEF MaybeRowsOf
  <2> QED
    BY <2>1, <2>2
<1>5. \A i \in Ids : read[i] # None => db[i] # None
  OBVIOUS
<1>6. \A i \in Ids : new[i] # None => i \in touched
  OBVIOUS
<1>7. \A t \in BatchTickers[b] : new[SnapshotId(t)] # None
  <2> SUFFICES ASSUME NEW t \in BatchTickers[b]
               PROVE  new[SnapshotId(t)] # None
    OBVIOUS
  <2>1. new[SnapshotId(t)] = SnapshotRow(LastItem[b][t])
    BY <1>3
  <2> QED
    BY <1>3, <2>1, RowsAreRows
<1>8. read \in [Ids -> Rows \cup {None}] /\ new \in [Ids -> Rows \cup {None}]
  BY <1>4, RowsAreRows DEF MaybeRowsOf
<1>9. touched \subseteq Own(b)
  BY <1>3 DEF Own
<1> HIDE DEF touched, read, new
<1>10. /\ pc'[w] = "flush" /\ task'[w] = b /\ loaded'[w] = read /\ want'[w] = new
       /\ \A v \in Sessions \ {w} : Still(v)
  BY <1>1, <1>2 DEF Goto, TypeOK, Still
<1>11. TypeOK'
  <2>1. attempts' \in [Tasks -> Nat] /\ \A j \in Tasks : attempts'[j] <= MaxAttempts[j]
    BY <1>1, <1>2, OpenIsApart
  <2> QED
    BY <1>1, <1>2, <1>8, <2>1 DEF TypeOK, Goto, Phases, lakeVars
<1>12. flushed'[w] = {} /\ stored'[w] = {} /\ \A v \in Sessions : task[v] # b
  BY <1>1, <1>2, OpenIsApart
<1>13. SessionInv(w)'
  <2>1. KindInv(w)' /\ NewInv(w)'
    BY <1>2, <1>4, <1>5, <1>10, <1>12 DEF KindInv, NewInv, MaybeRowsOf, RowsOf
  <2>2. WantInv(w)'
    BY <1>1, <1>6, <1>7, <1>9, <1>10, <1>12 DEF WantInv
  <2>3. PhaseInv(w)' /\ StoredInv(w)'
    BY <1>1, <1>10, <1>12 DEF PhaseInv, StoredInv
  <2> QED
    BY <2>1, <2>2, <2>3 DEF SessionInv
<1>14. \A v \in Sessions \ {w} : Apart(v, w)'
  BY <1>10, <1>12 DEF Apart, Still
<1> QED
  BY <1>2, <1>10, <1>11, <1>13, <1>14, SessionStep DEF lakeVars

LEMMA StoreRawStep ==
  ASSUME NEW w \in Sessions, IInv, StoreRaw(w)
  PROVE  IInv'
<1>1. TypeOK /\ SessionInv(w) /\ pc[w] = "lake" /\ task[w] \in Batches
  BY DEF IInv, StoreRaw, SessionInv, PhaseInv
<1>2. UNCHANGED <<db, curated, task, loaded, want, flushed, waits, attempts, acked, faults>>
  BY DEF StoreRaw
<1>3. CASE /\ BatchTickers[task[w]] = stored[w]
           /\ Goto(w, "commit")
           /\ UNCHANGED <<raw, stored>>
  <2>1. pc'[w] = "commit" /\ \A v \in Sessions \ {w} : Still(v)
    BY <1>1, <1>2, <1>3 DEF Goto, TypeOK, Still
  <2>2. TypeOK'
    BY <1>1, <1>2, <1>3 DEF TypeOK, Goto, Phases
  <2>3. SessionInv(w)'
    <3>1. KindInv(w)' /\ NewInv(w)' /\ WantInv(w)'
      BY <1>1, <1>2, EodPipelineAssumption DEF SessionInv, KindInv, NewInv, WantInv
    <3>2. PhaseInv(w)' /\ StoredInv(w)'
      BY <1>1, <1>2, <1>3, <2>1 DEF SessionInv, PhaseInv, StoredInv
    <3> QED
      BY <3>1, <3>2 DEF SessionInv
  <2>4. \A v \in Sessions \ {w} : Apart(v, w)'
    BY <1>2 DEF IInv, Apart
  <2> QED
    BY <1>2, <1>3, <2>1, <2>2, <2>3, <2>4, SessionStep
<1>4. ASSUME NEW t \in BatchTickers[task[w]],
             raw' = [raw EXCEPT ![t] = want[w][SnapshotId(t)]],
             stored' = [stored EXCEPT ![w] = @ \cup {t}],
             UNCHANGED pc
      PROVE  IInv'
  <2>1. t \in Tickers /\ SnapshotId(t) \in Ids
    BY <1>1, BatchTickersType, IdsOfTables
  <2>2. want[w][SnapshotId(t)] # None
    BY <1>1 DEF SessionInv, WantInv
  <2>3. /\ raw'[t] # None
        /\ \A u \in Tickers : raw[u] # None => raw'[u] # None
    BY <1>1, <1>4, <2>1, <2>2 DEF TypeOK
  <2>4. stored'[w] = stored[w] \cup {t} /\ \A v \in Sessions \ {w} : Still(v)
    BY <1>1, <1>2, <1>4 DEF TypeOK, Still
  <2>5. TypeOK'
    <3>1. want[w][SnapshotId(t)] \in Rows \cup {None}
      BY <1>1, <2>1 DEF TypeOK
    <3> QED
      BY <1>1, <1>2, <1>4, <2>1, <3>1 DEF TypeOK
  <2>6. SessionInv(w)'
    <3>1. KindInv(w)' /\ NewInv(w)' /\ WantInv(w)'
      BY <1>1, <1>2, EodPipelineAssumption DEF SessionInv, KindInv, NewInv, WantInv
    <3>2. PhaseInv(w)'
      BY <1>1, <1>2, <1>4 DEF SessionInv, PhaseInv
    <3>3. stored[w] \subseteq Tickers
      BY <1>1 DEF TypeOK
    <3>4. StoredInv(w)'
      BY <1>1, <1>2, <1>4, <2>3, <2>4, <3>3 DEF SessionInv, StoredInv
    <3> QED
      BY <3>1, <3>2, <3>4 DEF SessionInv
  <2>7. \A v \in Sessions \ {w} : Apart(v, w)'
    BY <1>2 DEF IInv, Apart
  <2> QED
    BY <1>2, <2>3, <2>4, <2>5, <2>6, <2>7, SessionStep
<1> QED
  BY <1>3, <1>4 DEF StoreRaw

LEMMA ReconcileStep ==
  ASSUME NEW w \in Sessions, NEW q \in Requests, IInv, Reconcile(w, q)
  PROVE  IInv'
<1>1. /\ TypeOK /\ q \in Tasks /\ q \notin Batches /\ q # None /\ JobId(q) \in Ids
      /\ \A v \in Sessions : SessionInv(v)
  BY EodPipelineAssumption, IdsOfTables DEF IInv, Tasks
<1>2. Open(w, q) /\ UNCHANGED <<db, lakeVars, loaded, waits, stored>>
  BY DEF Reconcile
<1>3. /\ pc[w] = "idle" /\ loaded[w] = Nothing /\ want[w] = Nothing
      /\ flushed[w] = {} /\ stored[w] = {}
      /\ \A v \in Sessions : task[v] # q
      /\ attempts' \in [Tasks -> Nat]
      /\ \A j \in Tasks : attempts'[j] <= MaxAttempts[j]
  BY <1>1, <1>2, OpenIsApart
<1>4. CASE /\ \/ acked' = acked \cup {q} /\ UNCHANGED faults
              \/ LoseReply
           /\ UNCHANGED <<pc, task, want, flushed>>
  <2>1. acked' \subseteq Tasks /\ faults' \in 0 .. MaxFaults
    BY <1>1, <1>4, EodPipelineAssumption DEF LoseReply, TypeOK
  <2>2. TypeOK'
    BY <1>1, <1>2, <1>3, <1>4, <2>1 DEF TypeOK, lakeVars
  <2> QED
    BY <1>2, <1>4, <2>2, NothingMoves DEF Still, lakeVars
<1>5. CASE /\ db[JobId(q)] = None
           /\ Goto(w, "snapshots")
           /\ task' = [task EXCEPT ![w] = q]
           /\ want' = [want EXCEPT ![w][JobId(q)] = JobRow]
           /\ flushed' = [flushed EXCEPT ![w] = {JobId(q)}]
           /\ UNCHANGED <<acked, faults>>
  <2>1. /\ pc'[w] = "snapshots" /\ task'[w] = q
        /\ want'[w] = [Nothing EXCEPT ![JobId(q)] = JobRow]
        /\ loaded'[w] = Nothing /\ flushed'[w] = {JobId(q)} /\ stored'[w] = {}
        /\ \A v \in Sessions \ {w} : Still(v)
    BY <1>1, <1>2, <1>3, <1>5 DEF Goto, TypeOK, Still
  <2>2. \A i \in Ids : want'[w][i] = IF i = JobId(q) THEN JobRow ELSE None
    BY <1>1, <2>1 DEF Nothing
  <2>3. RowsOf(JobId(q)) = {JobRow} /\ JobRow \in Rows /\ JobRow # None
    BY IdsOfTables, RowsAreRows
  <2>4. TypeOK'
    BY <1>1, <1>2, <1>3, <1>5, <2>3 DEF TypeOK, Goto, Phases, lakeVars
  <2>5. SessionInv(w)'
    <3>1. KindInv(w)' /\ NewInv(w)'
      BY <1>2, <1>5, <2>1, <2>2, <2>3 DEF KindInv, NewInv, MaybeRowsOf, Nothing
    <3>2. JobId(q) \in Own(q)
      BY <1>1 DEF Own
    <3>3. WantInv(w)'
      BY <1>1, <2>1, <2>2, <2>3, <3>2 DEF WantInv, Nothing
    <3>4. PhaseInv(w)' /\ StoredInv(w)'
      BY <1>1, <2>1 DEF PhaseInv, StoredInv
    <3> QED
      BY <3>1, <3>3, <3>4 DEF SessionInv
  <2>6. ASSUME NEW v \in Sessions \ {w}
        PROVE  Apart(v, w)'
    <3>1. JobId(q) \notin flushed[v]
      <4> SUFFICES ASSUME JobId(q) \in flushed[v]
                   PROVE  FALSE
        OBVIOUS
      <4>1. JobId(q) \in Own(task[v])
        BY <1>1 DEF SessionInv, WantInv
      <4>2. task[v] = q
        BY <4>1 DEF Own, SnapshotId, ComparisonId, JobId
      <4> QED
        BY <1>3, <4>2
    <3> QED
      BY <1>3, <2>1, <3>1 DEF Apart, Still
  <2> QED
    BY <1>2, <2>1, <2>4, <2>5, <2>6, SessionStep DEF lakeVars
<1> QED
  BY <1>4, <1>5 DEF Reconcile

\* The comparisons of a request.
LEMMA AskedType ==
  ASSUME NEW q \in Requests, NEW t \in Asked(q)
  PROVE  /\ t \in Tickers /\ Expected[q][t] \in Prices /\ PortfolioOf[q] \in Portfolios
         /\ ComparisonId(PortfolioOf[q], t) \in Ids
         /\ RowsOf(ComparisonId(PortfolioOf[q], t)) = ComparisonRows
         /\ TickerOf(ComparisonId(PortfolioOf[q], t)) = t
         /\ ComparisonId(PortfolioOf[q], t) # JobId(q)
<1>1. t \in Tickers /\ Expected[q][t] \in Prices /\ PortfolioOf[q] \in Portfolios
  BY EodPipelineAssumption DEF Asked
<1> QED
  BY <1>1, IdsOfTables DEF TickerOf, ComparisonId, JobId

LEMMA CompareStep ==
  ASSUME NEW w \in Sessions, IInv, Compare(w)
  PROVE  IInv'
<1> DEFINE q == task[w]
           Compared(i) == \E t \in Asked(q) : i = ComparisonId(PortfolioOf[q], t)
           new == [i \in Ids |->
                     IF Compared(i)
                     THEN ComparisonRow(Expected[q][TickerOf(i)], db[SnapshotId(TickerOf(i))].close)
                     ELSE want[w][i]]
<1>1. /\ TypeOK /\ SessionInv(w) /\ q \in Requests /\ pc[w] = "snapshots"
      /\ flushed[w] = {JobId(q)} /\ q \notin Batches
      /\ \A i \in Ids : db[i] \in MaybeRowsOf(i)
  BY EodPipelineAssumption DEF IInv, Compare, SessionInv, PhaseInv
<1>2. UNCHANGED <<db, lakeVars, attempts, acked, faults>>
  BY DEF Compare
<1>3. CASE \E t \in Asked(q) : db[SnapshotId(t)] = None
  <2>1. faults' \in 0 .. MaxFaults /\ Over(w)
    BY <1>1, <1>2, <1>3 DEF TypeOK, Compare
  <2> QED
    BY <1>2, <2>1, SessionEnds
<1>4. CASE \A t \in Asked(q) : db[SnapshotId(t)] # None
  <2>1. /\ Goto(w, "comparisons")
        /\ want' = [want EXCEPT ![w] = new]
        /\ UNCHANGED <<task, loaded, flushed, waits, stored>>
    BY <1>1, <1>4 DEF Compare, TypeOK
  <2>2. ASSUME NEW t \in Asked(q)
        PROVE  new[ComparisonId(PortfolioOf[q], t)] \in ComparisonRows
    <3>1. db[SnapshotId(t)].close \in Prices
      <4>1. db[SnapshotId(t)] \in SnapshotRows
        BY <1>1, <1>4, AskedType, IdsOfTables DEF MaybeRowsOf
      <4> QED
        BY <4>1 DEF SnapshotRows
    <3>2. new[ComparisonId(PortfolioOf[q], t)]
             = ComparisonRow(Expected[q][t], db[SnapshotId(t)].close)
      BY <1>1, AskedType
    <3> QED
      BY <1>1, <3>1, <3>2, AskedType, ComparisonRowType
  <2>3. \A i \in Ids : ~ Compared(i) => new[i] = want[w][i]
    OBVIOUS
  <2>4. ASSUME NEW i \in Ids
        PROVE  new[i] \in MaybeRowsOf(i) /\ (new[i] # None => i \in Own(q))
    <3>1. CASE Compared(i)
      <4>1. PICK t \in Asked(q) : i = ComparisonId(PortfolioOf[q], t)
        BY <3>1
      <4>2. i \in Own(q)
        BY <1>1, <4>1 DEF Own
      <4> QED
        BY <1>1, <2>2, <4>1, <4>2, AskedType DEF MaybeRowsOf
    <3>2. CASE ~ Compared(i)
      BY <1>1, <2>3, <3>2 DEF SessionInv, KindInv, WantInv
    <3> QED
      BY <3>1, <3>2
  <2>5. new \in [Ids -> Rows \cup {None}]
    BY <2>4, RowsAreRows DEF MaybeRowsOf
  <2>6. new[JobId(q)] = JobRow
    <3>1. ~ Compared(JobId(q)) /\ JobId(q) \in Ids
      BY <1>1, IdsOfTables, AskedType
    <3> QED
      BY <1>1, <2>3, <3>1 DEF SessionInv, WantInv
  <2>7. \A t \in Asked(q) : new[ComparisonId(PortfolioOf[q], t)] # None
    <3>1. None \notin ComparisonRows
      BY NoRowAssumption DEF Rows
    <3> QED
      BY <2>2, <3>1
  <2> HIDE DEF new
  <2>8. /\ pc'[w] = "comparisons" /\ want'[w] = new
        /\ \A v \in Sessions \ {w} : Still(v)
    BY <1>1, <2>1 DEF Goto, TypeOK, Still
  <2>9. TypeOK'
    BY <1>1, <1>2, <2>1, <2>5 DEF TypeOK, Goto, Phases, lakeVars
  <2>10. SessionInv(w)'
    <3>1. KindInv(w)' /\ NewInv(w)'
      BY <1>1, <1>2, <2>1, <2>4, <2>8 DEF SessionInv, KindInv, NewInv, MaybeRowsOf, RowsOf
    <3>2. WantInv(w)'
      <4>1. JobId(q) \in Ids /\ JobRow # None
        BY <1>1, IdsOfTables, RowsAreRows
      <4> QED
        BY <1>1, <2>1, <2>4, <2>6, <2>7, <2>8, <4>1 DEF SessionInv, WantInv
    <3>3. PhaseInv(w)' /\ StoredInv(w)'
      BY <1>1, <1>2, <2>1, <2>8 DEF SessionInv, PhaseInv, StoredInv, lakeVars
    <3> QED
      BY <3>1, <3>2, <3>3 DEF SessionInv
  <2>11. \A v \in Sessions \ {w} : Apart(v, w)'
    BY <2>1 DEF IInv, Apart
  <2> QED
    BY <1>2, <2>8, <2>9, <2>10, <2>11, SessionStep DEF lakeVars
<1> QED
  BY <1>3, <1>4

LEMMA LoadComparisonsStep ==
  ASSUME NEW w \in Sessions, IInv, LoadComparisons(w)
  PROVE  IInv'
<1> DEFINE q == task[w]
           read == [i \in Ids |->
                      IF \E t \in Asked(q) : i = ComparisonId(PortfolioOf[q], t)
                      THEN db[i] ELSE None]
<1>1. /\ TypeOK /\ SessionInv(w) /\ q \in Requests /\ pc[w] = "comparisons"
      /\ flushed[w] = {JobId(q)} /\ q \notin Batches
      /\ \A i \in Ids : db[i] \in MaybeRowsOf(i)
  BY EodPipelineAssumption DEF IInv, LoadComparisons, SessionInv, PhaseInv
<1>2. /\ Goto(w, "curate")
      /\ loaded' = [loaded EXCEPT ![w] = read]
      /\ UNCHANGED <<db, lakeVars, task, want, flushed, waits, stored, attempts, acked, faults>>
  BY DEF LoadComparisons
<1>3. \A i \in Ids : read[i] \in MaybeRowsOf(i) /\ (read[i] # None => db[i] # None)
  BY <1>1 DEF MaybeRowsOf
<1>4. read \in [Ids -> Rows \cup {None}]
  BY <1>3, RowsAreRows DEF MaybeRowsOf
<1>5. read[JobId(q)] = None
  <2>1. JobId(q) \in Ids /\ \A t \in Asked(q) : JobId(q) # ComparisonId(PortfolioOf[q], t)
    BY <1>1, IdsOfTables, AskedType
  <2> QED
    BY <2>1
<1> HIDE DEF read
<1>6. /\ pc'[w] = "curate" /\ loaded'[w] = read
      /\ \A v \in Sessions \ {w} : Still(v)
  BY <1>1, <1>2 DEF Goto, TypeOK, Still
<1>7. TypeOK'
  BY <1>1, <1>2, <1>4 DEF TypeOK, Goto, Phases, lakeVars
<1>8. SessionInv(w)'
  <2>1. KindInv(w)'
    BY <1>1, <1>2, <1>3, <1>6 DEF SessionInv, KindInv, MaybeRowsOf, RowsOf
  <2>2. NewInv(w)'
    BY <1>1, <1>2, <1>6 DEF SessionInv, NewInv, WantInv
  <2>3. WantInv(w)'
    BY <1>1, <1>2, <1>5, <1>6 DEF SessionInv, WantInv
  <2>4. PhaseInv(w)' /\ StoredInv(w)'
    BY <1>1, <1>2, <1>6 DEF SessionInv, PhaseInv, StoredInv, lakeVars
  <2> QED
    BY <2>1, <2>2, <2>3, <2>4 DEF SessionInv
<1>9. \A v \in Sessions \ {w} : Apart(v, w)'
  BY <1>2 DEF IInv, Apart
<1> QED
  BY <1>2, <1>6, <1>7, <1>8, <1>9, SessionStep DEF lakeVars

LEMMA StoreCuratedStep ==
  ASSUME NEW w \in Sessions, IInv, StoreCurated(w)
  PROVE  IInv'
<1> DEFINE q == task[w]
           rows == [t \in Asked(q) |-> want[w][ComparisonId(PortfolioOf[q], t)]]
<1>1. /\ TypeOK /\ SessionInv(w) /\ q \in Requests /\ pc[w] = "curate" /\ q \notin Batches
  BY EodPipelineAssumption DEF IInv, StoreCurated, SessionInv, PhaseInv
<1>2. /\ Goto(w, "flush")
      /\ curated' = [portfolio |-> PortfolioOf[q], rows |-> rows]
      /\ UNCHANGED <<db, raw, task, loaded, want, flushed, waits, stored, attempts, acked, faults>>
  BY DEF StoreCurated
<1>3. \A t \in Asked(q) : rows[t] \in Rows /\ t \in Tickers /\ PortfolioOf[q] \in Portfolios
  <2>1. \A t \in Asked(q) : want[w][ComparisonId(PortfolioOf[q], t)] # None
    BY <1>1 DEF SessionInv, WantInv
  <2> QED
    BY <1>1, <2>1, AskedType DEF TypeOK
<1>4. PortfolioOf[q] \in Portfolios
  BY <1>1, EodPipelineAssumption
<1>5. pc'[w] = "flush" /\ \A v \in Sessions \ {w} : Still(v)
  BY <1>1, <1>2 DEF Goto, TypeOK, Still
<1>6. TypeOK'
  <2> DEFINE artifact == [portfolio |-> PortfolioOf[q], rows |-> rows]
  <2>1. /\ artifact.portfolio \in Portfolios
        /\ DOMAIN artifact.rows \subseteq Tickers
        /\ \A t \in DOMAIN artifact.rows : artifact.rows[t] \in Rows
    BY <1>3, <1>4
  <2> HIDE DEF artifact
  <2> QED
    BY <1>1, <1>2, <2>1 DEF TypeOK, Goto, Phases, artifact
<1>7. SessionInv(w)'
  <2>1. KindInv(w)' /\ NewInv(w)'
    BY <1>1, <1>2 DEF SessionInv, KindInv, NewInv
  <2>2. WantInv(w)'
    BY <1>1, <1>2, <1>5 DEF SessionInv, WantInv
  <2>3. PhaseInv(w)' /\ StoredInv(w)'
    BY <1>1, <1>2, <1>5 DEF SessionInv, PhaseInv, StoredInv
  <2> QED
    BY <2>1, <2>2, <2>3 DEF SessionInv
<1>8. \A v \in Sessions \ {w} : Apart(v, w)'
  BY <1>2 DEF IInv, Apart
<1> QED
  BY <1>2, <1>5, <1>6, <1>7, <1>8, SessionStep

LEMMA NextIInv == IInv /\ [Next]_vars => IInv'
<1> SUFFICES ASSUME IInv, [Next]_vars
             PROVE  IInv'
  OBVIOUS
<1>1. CASE UNCHANGED vars
  <2>1. TypeOK'
    BY <1>1 DEF IInv, TypeOK, vars, lakeVars, sessVars
  <2> QED
    BY <1>1, <2>1, NothingMoves DEF vars, lakeVars, sessVars, Still
<1>2. ASSUME NEW k \in Tasks, Call(k)
      PROVE  IInv'
  BY <1>2, IngestStep, ReconcileStep DEF Call
<1>3. ASSUME NEW w \in Sessions, Step(w)
      PROVE  IInv'
  BY <1>3, BlockStep, FlushStep, StoreRawStep, CommitStep, DeadlockVictimStep,
     CompareStep, LoadComparisonsStep, StoreCuratedStep DEF Step
<1>4. ASSUME NEW w \in Sessions, Fail(w)
      PROVE  IInv'
  BY <1>4, FailStep
<1>5. CASE Quiescent
  BY <1>1, <1>5 DEF Quiescent
<1> QED
  BY <1>1, <1>2, <1>3, <1>4, <1>5 DEF Next

-----------------------------------------------------------------------------
(* Theorems.                                                               *)

THEOREM Invariance == Spec => []IInv
<1> QED
  BY InitIInv, NextIInv, PTL DEF Spec

\* Every variable keeps its type: the rows of ingest_snapshots and reconcile,
\* those an UPDATE of changed columns leaves included, are rows of their tables.
THEOREM TypeCorrect == Spec => []TypeOK
<1>1. IInv => TypeOK
  BY DEF IInv
<1> QED
  BY <1>1, Invariance, PTL

\* No committed snapshot lacks its raw artifact, whatever batches and
\* reconciliations run side by side, crash, wait for each other and are retried.
THEOREM ArtifactFirst == Spec => []SnapshotHasArtifact
<1>1. IInv => SnapshotHasArtifact
  BY DEF IInv
<1> QED
  BY <1>1, Invariance, PTL

-----------------------------------------------------------------------------
(* The curated artifact, when one portfolio is reconciled.                 *)

\* The key of the artifact has the date and the slug only: EodShared.cfg shows
\* what two requests do to it.
OneRequest == \A p, q \in Requests : p = q

RowId(q, t) == ComparisonId(PortfolioOf[q], t)

\* While a request is served its comparisons do not change under it, the artifact
\* has the rows it is about to write, and at its commit they are all written or
\* as they were.
CuratedInv(w) ==
    task[w] \in Requests =>
        /\ pc[w] \in {"curate", "flush", "commit"} =>
              \A t \in Asked(task[w]) : loaded[w][RowId(task[w], t)] = db[RowId(task[w], t)]
        /\ pc[w] \in {"flush", "commit"} =>
              /\ curated.portfolio = PortfolioOf[task[w]]
              /\ \A t \in Asked(task[w]) : curated.rows[t] = want[w][RowId(task[w], t)]
        /\ pc[w] = "commit" => Dirty(w) = {}

CInv == IInv /\ (\A w \in Sessions : CuratedInv(w)) /\ CuratedAgrees

LEMMA InitCInv == Init => CInv
<1> SUFFICES ASSUME Init
             PROVE  CInv
  OBVIOUS
<1>1. \A w \in Sessions : CuratedInv(w)
  BY EodPipelineAssumption DEF Init, CuratedInv, Tasks
<1>2. CuratedAgrees
  BY IdsOfTables DEF Init, Nothing, CuratedAgrees
<1> QED
  BY <1>1, <1>2, InitIInv DEF CInv

\* A step of w that leaves rows and artifact alone.
LEMMA CuratedStep ==
  ASSUME NEW w \in Sessions, CInv, IInv', db' = db, curated' = curated,
         \A v \in Sessions \ {w} : Still(v),
         CuratedInv(w)'
  PROVE  CInv'
<1>1. ASSUME NEW v \in Sessions \ {w}
      PROVE  CuratedInv(v)'
  <2>1. CuratedInv(v) /\ Still(v)
    BY DEF CInv
  <2>2. Dirty(v)' = Dirty(v)
    BY <2>1 DEF Dirty, Still
  <2> QED
    BY <2>1, <2>2 DEF CuratedInv, Still
<1>2. CuratedAgrees'
  BY DEF CInv, CuratedAgrees
<1> QED
  BY <1>1, <1>2 DEF CInv

LEMMA CuratedOver ==
  ASSUME NEW w \in Sessions, CInv, IInv', Over(w), db' = db, curated' = curated
  PROVE  CInv'
<1>1. \A v \in Sessions \ {w} : Still(v)
  BY OverIsClean DEF CInv
<1>2. task'[w] = None
  BY DEF Over, CInv, IInv, TypeOK
<1>3. CuratedInv(w)'
  BY <1>2, EodPipelineAssumption DEF CuratedInv, Tasks
<1> QED
  BY <1>1, <1>3, CuratedStep

LEMMA CuratedFlush ==
  ASSUME NEW w \in Sessions, CInv, IInv', Flush(w)
  PROVE  CInv'
<1>1. TypeOK /\ CuratedInv(w) /\ UNCHANGED <<db, curated>> /\ pc[w] = "flush"
  BY DEF CInv, IInv, Flush, lakeVars
<1>2. CASE Over(w)
  BY <1>1, <1>2, CuratedOver
<1>3. CASE /\ Dirty(w) = {}
           /\ Goto(w, IF task[w] \in Batches THEN "lake" ELSE "commit")
           /\ UNCHANGED <<task, loaded, want, flushed, waits, stored>>
  <2>1. \A v \in Sessions \ {w} : Still(v)
    BY <1>1, <1>3 DEF Goto, TypeOK, Still
  <2>2. CuratedInv(w)'
    BY <1>1, <1>3 DEF CuratedInv, Dirty
  <2> QED
    BY <1>1, <2>1, <2>2, CuratedStep
<1>4. ASSUME NEW i \in Ids,
             flushed' = [flushed EXCEPT ![w] = @ \cup {i}],
             UNCHANGED <<pc, task, loaded, want, stored>>
      PROVE  CInv'
  <2>1. \A v \in Sessions \ {w} : Still(v)
    BY <1>1, <1>4 DEF TypeOK, Still
  <2>2. CuratedInv(w)'
    BY <1>1, <1>4 DEF CuratedInv
  <2> QED
    BY <1>1, <2>1, <2>2, CuratedStep
<1> QED
  BY <1>2, <1>3, <1>4 DEF Flush, Dirty

LEMMA CuratedIngest ==
  ASSUME NEW w \in Sessions, NEW b \in Batches, CInv, IInv', Ingest(w, b)
  PROVE  CInv'
<1>1. TypeOK /\ UNCHANGED <<db, curated>> /\ b \notin Requests
  BY EodPipelineAssumption DEF CInv, IInv, Ingest, lakeVars
<1>2. \A v \in Sessions \ {w} : Still(v)
  BY <1>1 DEF Ingest, Goto, TypeOK, Still
<1>3. task'[w] = b
  BY <1>1 DEF Ingest, TypeOK
<1>4. CuratedInv(w)'
  BY <1>1, <1>3 DEF CuratedInv
<1> QED
  BY <1>1, <1>2, <1>4, CuratedStep

LEMMA CuratedStoreRaw ==
  ASSUME NEW w \in Sessions, CInv, IInv', StoreRaw(w)
  PROVE  CInv'
<1>1. TypeOK /\ UNCHANGED <<db, curated, task, loaded, want, flushed>> /\ task[w] \notin Requests
  BY EodPipelineAssumption DEF CInv, IInv, SessionInv, PhaseInv, StoreRaw
<1>2. \A v \in Sessions \ {w} : Still(v)
  BY <1>1 DEF StoreRaw, Goto, TypeOK, Still
<1>3. CuratedInv(w)'
  BY <1>1 DEF CuratedInv
<1> QED
  BY <1>1, <1>2, <1>3, CuratedStep

LEMMA CuratedReconcile ==
  ASSUME NEW w \in Sessions, NEW q \in Requests, CInv, IInv', Reconcile(w, q)
  PROVE  CInv'
<1>1. TypeOK /\ UNCHANGED <<db, curated, loaded, stored>> /\ CuratedInv(w)
  BY DEF CInv, IInv, Reconcile, lakeVars
<1>2. CASE UNCHANGED <<pc, task, want, flushed>>
  <2>1. CuratedInv(w)'
    BY <1>1, <1>2 DEF CuratedInv, Dirty
  <2> QED
    BY <1>1, <1>2, <2>1, CuratedStep DEF Still
<1>3. CASE Goto(w, "snapshots") /\ db[JobId(q)] = None
  <2>1. pc'[w] = "snapshots"
    BY <1>1, <1>3 DEF Goto, TypeOK
  <2>2. \A v \in Sessions \ {w} : Still(v)
    BY <1>1, <1>3 DEF Reconcile, Goto, TypeOK, Still
  <2>3. CuratedInv(w)'
    BY <2>1 DEF CuratedInv
  <2> QED
    BY <1>1, <2>2, <2>3, CuratedStep
<1> QED
  BY <1>2, <1>3 DEF Reconcile

LEMMA CuratedCompare ==
  ASSUME NEW w \in Sessions, CInv, IInv', Compare(w)
  PROVE  CInv'
<1>1. TypeOK /\ UNCHANGED <<db, curated>>
  BY DEF CInv, IInv, Compare, lakeVars
<1>2. CASE Over(w)
  BY <1>1, <1>2, CuratedOver
<1>3. CASE ~ Over(w)
  <2>1. pc'[w] = "comparisons" /\ \A v \in Sessions \ {w} : Still(v)
    BY <1>1, <1>3 DEF Compare, Goto, TypeOK, Still
  <2>2. CuratedInv(w)'
    BY <2>1 DEF CuratedInv
  <2> QED
    BY <1>1, <2>1, <2>2, CuratedStep
<1> QED
  BY <1>2, <1>3

LEMMA CuratedLoad ==
  ASSUME NEW w \in Sessions, CInv, IInv', LoadComparisons(w)
  PROVE  CInv'
<1> DEFINE q == task[w]
<1>1. /\ TypeOK /\ q \in Requests
      /\ UNCHANGED <<db, curated, task, want, flushed, stored>>
      /\ Goto(w, "curate")
      /\ loaded' = [loaded EXCEPT ![w] =
            [i \in Ids |-> IF \E t \in Asked(q) : i = RowId(q, t) THEN db[i] ELSE None]]
  BY DEF CInv, IInv, SessionInv, PhaseInv, LoadComparisons, lakeVars, RowId
<1>2. pc'[w] = "curate" /\ task'[w] = q /\ \A v \in Sessions \ {w} : Still(v)
  BY <1>1 DEF Goto, TypeOK, Still
<1>3. \A t \in Asked(q) : loaded'[w][RowId(q, t)] = db[RowId(q, t)]
  <2>1. \A t \in Asked(q) : RowId(q, t) \in Ids
    BY <1>1, AskedType DEF RowId
  <2> QED
    BY <1>1, <2>1 DEF TypeOK
<1>4. CuratedInv(w)'
  BY <1>1, <1>2, <1>3 DEF CuratedInv
<1> QED
  BY <1>1, <1>2, <1>4, CuratedStep

\* The artifact is overwritten while the request is not recorded: no other
\* session serves it.
LEMMA CuratedStore ==
  ASSUME OneRequest, NEW w \in Sessions, CInv, IInv', StoreCurated(w)
  PROVE  CInv'
<1> DEFINE q == task[w]
<1>1. /\ TypeOK /\ SessionInv(w) /\ CuratedInv(w) /\ q \in Requests /\ q # None
      /\ pc[w] = "curate"
      /\ UNCHANGED <<db, task, loaded, want, flushed, stored>>
      /\ Goto(w, "flush")
      /\ curated' = [portfolio |-> PortfolioOf[q], rows |-> [t \in Asked(q) |-> want[w][RowId(q, t)]]]
  BY EodPipelineAssumption
  DEF CInv, IInv, SessionInv, PhaseInv, StoreCurated, RowId, Tasks
<1>2. pc'[w] = "flush" /\ task'[w] = q /\ \A v \in Sessions \ {w} : Still(v)
  BY <1>1 DEF Goto, TypeOK, Still
<1>3. CuratedInv(w)'
  BY <1>1, <1>2 DEF CuratedInv
<1>4. ASSUME NEW v \in Sessions \ {w}
      PROVE  CuratedInv(v)'
  <2>1. task[v] # q
    BY <1>1 DEF CInv, IInv, Apart
  <2>2. task'[v] \notin Requests
    BY <1>1, <1>2, <2>1 DEF OneRequest, Still
  <2> QED
    BY <2>2 DEF CuratedInv
<1>5. db[JobId(q)] = None
  BY <1>1 DEF SessionInv, WantInv, NewInv
<1>6. CuratedAgrees'
  BY <1>1, <1>5 DEF OneRequest, CuratedAgrees
<1> QED
  BY <1>3, <1>4, <1>6 DEF CInv

\* A commit writes what the artifact has, or the rows of a batch only.
LEMMA CuratedCommit ==
  ASSUME OneRequest, NEW w \in Sessions, CInv, IInv', Commit(w)
  PROVE  CInv'
<1>1. /\ TypeOK /\ SessionInv(w) /\ CuratedInv(w) /\ pc[w] = "commit" /\ task[w] \in Tasks
      /\ Over(w) /\ curated' = curated
      /\ db' = [i \in Ids |->
                  IF i \in flushed[w] THEN Merge(db[i], loaded[w][i], want[w][i]) ELSE db[i]]
  BY DEF CInv, IInv, SessionInv, PhaseInv, Commit, lakeVars
<1>2. task'[w] = None /\ \A v \in Sessions \ {w} : Still(v)
  <2>1. task'[w] = None
    BY <1>1 DEF Over, TypeOK
  <2> QED
    BY <1>1, <2>1, OverIsClean DEF CInv
<1>3. CuratedInv(w)'
  BY <1>2, EodPipelineAssumption DEF CuratedInv, Tasks
<1>4. CASE task[w] \in Batches
  <2>1. ASSUME NEW q \in Requests
        PROVE  /\ db'[JobId(q)] = db[JobId(q)]
               /\ \A t \in Asked(q) : db'[RowId(q, t)] = db[RowId(q, t)]
    <3>1. \A i \in flushed[w] : i \in Own(task[w])
      BY <1>1 DEF SessionInv, WantInv
    <3>2. JobId(q) \notin flushed[w] /\ \A t \in Tickers : RowId(q, t) \notin flushed[w]
      BY <1>4, <3>1, EodPipelineAssumption
      DEF Own, JobId, SnapshotId, ComparisonId, RowId
    <3>3. JobId(q) \in Ids /\ \A t \in Asked(q) : RowId(q, t) \in Ids /\ t \in Tickers
      BY IdsOfTables, AskedType DEF RowId
    <3> QED
      BY <1>1, <3>2, <3>3
  <2>2. ASSUME NEW v \in Sessions \ {w}
        PROVE  CuratedInv(v)'
    <3>1. CuratedInv(v) /\ Still(v)
      BY <1>2 DEF CInv
    <3> QED
      BY <1>1, <2>1, <3>1 DEF CuratedInv, Still, Dirty
  <2>3. CuratedAgrees'
    BY <1>1, <2>1 DEF CInv, CuratedAgrees, RowId
  <2> QED
    BY <1>3, <2>2, <2>3 DEF CInv
<1>5. CASE task[w] \in Requests
  <2> DEFINE q == task[w]
  <2>1. q # None /\ q \notin Batches
    BY <1>5, EodPipelineAssumption DEF Tasks
  <2>2. ASSUME NEW v \in Sessions \ {w}
        PROVE  CuratedInv(v)'
    <3>1. task[v] # q
      BY <2>1 DEF CInv, IInv, Apart
    <3>2. task'[v] \notin Requests
      BY <1>2, <1>5, <3>1 DEF OneRequest, Still
    <3> QED
      BY <3>2 DEF CuratedInv
  <2>3. ASSUME NEW t \in Asked(q)
        PROVE  db'[RowId(q, t)] = want[w][RowId(q, t)] /\ want[w][RowId(q, t)] # None
    <3> DEFINE i == RowId(q, t)
    <3>1. i \in Ids
      BY <1>5, AskedType DEF RowId
    <3>2. loaded[w][i] = db[i] /\ want[w][i] \in RowsOf(i) /\ want[w][i] # None
      <4>1. loaded[w][i] = db[i]
        BY <1>1, <1>5 DEF CuratedInv
      <4>2. want[w][i] # None
        BY <1>1, <1>5 DEF SessionInv, WantInv, RowId
      <4>3. want[w][i] \in RowsOf(i)
        BY <1>1, <3>1, <4>2 DEF SessionInv, KindInv, MaybeRowsOf
      <4> QED
        BY <4>1, <4>2, <4>3
    <3>3. CASE i \in flushed[w]
      <4>1. want[w][i] \in ComparisonRows
        BY <1>5, <3>2, AskedType DEF RowId
      <4>2. Merge(db[i], db[i], want[w][i]) = want[w][i]
        <5> HIDE DEF i
        <5> QED
          BY <4>1 DEF Merge, ComparisonRows
      <4>3. db'[i] = Merge(db[i], loaded[w][i], want[w][i])
        BY <1>1, <3>1, <3>3
      <4> QED
        BY <3>2, <4>2, <4>3
    <3>4. CASE i \notin flushed[w]
      <4>1. want[w][i] = loaded[w][i]
        BY <1>1, <1>5, <3>1, <3>2, <3>4 DEF CuratedInv, Dirty
      <4> QED
        BY <1>1, <3>1, <3>2, <3>4, <4>1
    <3> QED
      BY <3>3, <3>4
  <2>4. CuratedAgrees'
    <3>1. /\ curated.portfolio = PortfolioOf[q]
          /\ \A t \in Asked(q) : curated.rows[t] = want[w][RowId(q, t)]
      BY <1>1, <1>5 DEF CuratedInv
    <3> QED
      BY <1>1, <1>5, <2>3, <3>1 DEF OneRequest, CuratedAgrees, RowId
  <2> QED
    BY <1>3, <2>2, <2>4 DEF CInv
<1> QED
  BY <1>1, <1>4, <1>5 DEF Tasks

LEMMA NextCInv ==
  ASSUME OneRequest
  PROVE  CInv /\ [Next]_vars => CInv'
<1> SUFFICES ASSUME CInv, [Next]_vars
             PROVE  CInv'
  OBVIOUS
<1> IInv'
  BY NextIInv DEF CInv
<1>1. CASE UNCHANGED vars
  BY <1>1
  DEF CInv, CuratedInv, CuratedAgrees, Dirty, vars, lakeVars, sessVars
<1>2. ASSUME NEW k \in Tasks, Call(k)
      PROVE  CInv'
  BY <1>2, CuratedIngest, CuratedReconcile DEF Call
<1>3. ASSUME NEW w \in Sessions, Step(w)
      PROVE  CInv'
  <2>1. CASE Block(w)
    <3>1. UNCHANGED <<db, curated, pc, task, loaded, want, flushed, stored>>
      BY <2>1 DEF Block, lakeVars
    <3>2. CuratedInv(w)'
      BY <3>1 DEF CInv, CuratedInv, Dirty
    <3> QED
      BY <3>1, <3>2, CuratedStep DEF Still
  <2>2. CASE DeadlockVictim(w)
    BY <2>2, CuratedOver DEF DeadlockVictim, lakeVars
  <2> QED
    BY <1>3, <2>1, <2>2, CuratedFlush, CuratedStoreRaw, CuratedCommit, CuratedCompare,
       CuratedLoad, CuratedStore DEF Step
<1>4. ASSUME NEW w \in Sessions, Fail(w)
      PROVE  CInv'
  BY <1>4, CuratedOver DEF Fail, lakeVars
<1>5. CASE Quiescent
  BY <1>1, <1>5 DEF Quiescent
<1> QED
  BY <1>1, <1>2, <1>3, <1>4, <1>5 DEF Next

\* With one reconciliation of the date and slug, a recorded job has a comparison
\* for every ticker asked for and a curated artifact with the same comparisons,
\* although the artifact is written first, by calls that may have died since.
THEOREM ArtifactAgrees ==
  ASSUME OneRequest
  PROVE  Spec => []CuratedAgrees
<1>1. CInv => CuratedAgrees
  BY DEF CInv
<1> QED
  BY <1>1, InitCInv, NextCInv, PTL DEF Spec
=============================================================================
