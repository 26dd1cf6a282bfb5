-------------------------- MODULE ModelStore_proofs --------------------------
(***************************************************************************)
(* Proofs about ModelStore, for any sessions, jobs, payloads, plans and    *)
(* faults.                                                                 *)
(***************************************************************************)
EXTENDS ModelStore, NaturalOrder

-----------------------------------------------------------------------------
(* The invariant.                                                          *)

Fields == {"at", "job", "began", "n", "dels", "todo", "waiting", "mine", "gone", "read", "overlay"}

Sequence(q) == \E S : q \in Seq(S)

\* The rows that a session has deleted or is going to delete.
Removed(s) == s.gone \cup s.dels

\* The form of a session, and what its phase says of it.
ShapeInv(s) ==
    /\ DOMAIN s = Fields
    /\ s.at \in {"idle", "save", "item", "flush"}
    /\ s.n \in Nat
    /\ Sequence(s.todo)
    /\ s.began \subseteq DOMAIN known
    /\ s.at = "idle" => s = Idle
    /\ s.at # "idle" => s.job \in plan \ DOMAIN known
    /\ s.at # "flush" => s.dels = {}
    /\ s.at = "flush" => Remaining(s) # {}

\* A statement that waits in memory adds a row of the job or changes a committed
\* row of a table whose rows nobody deletes.
StatementInv(s, stmt) ==
    /\ stmt.insert => stmt.id[2] \in Nat /\ stmt.id[3] = s.job /\ DOMAIN stmt.cols \subseteq Columns
    /\ ~ stmt.insert => stmt.id \in DOMAIN db /\ TableOf(stmt.id) \notin Replaced

TodoInv(s) == \A k \in 1 .. Len(s.todo) : StatementInv(s, s.todo[k])

\* What a session has written.
MineInv(s) ==
    \A id \in DOMAIN s.mine :
        /\ id[2] \in Nat
        /\ DOMAIN s.mine[id] \subseteq Columns
        /\ id[3] = s.job \/ id \in DOMAIN db
        /\ TableOf(id) \in Replaced => id[3] = s.job

\* What it deletes was committed, and what it has deleted still is.
GoneInv(s) ==
    /\ s.gone \subseteq DOMAIN db
    /\ \A id \in Removed(s) : id[2] \in Nat /\ id[3] \in DOMAIN known /\ TableOf(id) \in Replaced

\* It deletes all that is left of an item of a recorded job, or nothing of it.
WholeInv(s) ==
    \A i \in DOMAIN known : \A it \in ReplacedBy(i) :
        Removed(s) \cap Written(i, it) = {} \/ Left(i, it) \subseteq Removed(s)

\* Of the items of jobs recorded before a session began, whatever is left in the
\* scope is among these rows.
Swept(s, scope, ids) ==
    \A i \in s.began : \A a \in ReplacedBy(i) : a.scope = scope => Left(i, a) \subseteq ids

\* The rows of the items handled are written, and what they replace is deleted;
\* those of the item at hand are written or going to be.
ItemsInv(s) ==
    /\ s.at # "idle" =>
          \A n \in DOMAIN Items[s.job] :
              LET it == Items[s.job][n]
              IN  n <= s.n /\ it.scope[1] \in Replaced =>
                     Written(s.job, it) \subseteq DOMAIN s.mine /\ Swept(s, it.scope, s.gone)
    /\ s.at = "flush" /\ Current(s).scope[1] \in Replaced =>
          /\ Written(s.job, Current(s)) \subseteq DOMAIN s.mine \cup {s.todo[k].id : k \in 1 .. Len(s.todo)}
          /\ Swept(s, Current(s).scope, Removed(s))

\* Beside a row that a session has written, no other job's row of its key stays.
KeyInv(s) ==
    \A p \in DOMAIN db \ s.gone, q \in DOMAIN s.mine : Unique(q) /\ SameKey(p, q) => p[3] = q[3]

SessionInv(s) ==
    /\ ShapeInv(s) /\ TodoInv(s) /\ MineInv(s) /\ GoneInv(s)
    /\ WholeInv(s) /\ ItemsInv(s) /\ KeyInv(s)

\* A flush that has nothing left to do is over.
Flushing(s) == s.at = "flush" => s.dels # {} \/ s.todo # <<>>

\* A session works on another job than s, and uncommitted writes do not clash.
Apart(v, s) ==
    /\ ses[v].job = s.job => s.job = None
    /\ \A i \in Holds(ses[v]), k \in Holds(s) : ~ Clash(i, k)

RowInv ==
    /\ \A id \in DOMAIN db : id[2] \in Nat /\ id[3] \in DOMAIN known /\ DOMAIN db[id] \subseteq Columns
    /\ \A p, q \in DOMAIN db : Unique(p) /\ SameKey(p, q) => p[3] = q[3]

BookInv ==
    /\ plan \in Plans
    /\ DOMAIN known \subseteq plan
    /\ \A j \in DOMAIN known : known[j] \subseteq DOMAIN known
    /\ attempts \in [Jobs -> 0 .. MaxAttempts]
    /\ faults \in 0 .. MaxFaults
    /\ \A x \in DOMAIN artifact : artifact[x] \in plan

IInv ==
    /\ BookInv
    /\ RowInv
    /\ DOMAIN ses = Sessions
    /\ \A w \in Sessions : SessionInv(ses[w]) /\ Flushing(ses[w])
    /\ \A v, w \in Sessions : v # w => Apart(v, ses[w])
    /\ RowsWhole
    /\ ReplacesEarlier

-----------------------------------------------------------------------------
(* Items, rows and the order of statements.                                *)

\* An item has columns that the tables have and, if none is replaced, a row.
ItemOk(it) ==
    /\ it.rows \in Seq(Nat)
    /\ DOMAIN it.cols \subseteq Columns
    /\ it.scope[1] \notin Replaced => it.rows # <<>>

LEMMA RowItemOk ==
  ASSUME NEW scope, NEW cols, NEW lazy, DOMAIN cols \subseteq Columns
  PROVE  ItemOk(RowItem(scope, cols, lazy))
<1>1. <<0>> \in Seq(Nat) /\ <<0>> # <<>>
  OBVIOUS
<1> QED
  BY <1>1 DEF ItemOk, RowItem

LEMMA SectionItemOk ==
  ASSUME NEW j \in Jobs, Payload[j].kind = "economic",
         NEW s \in DOMAIN Payload[j].sections, s \in {Sections[n] : n \in DOMAIN Sections}
  PROVE  ItemOk(SectionItem(j, s))
<1>1. /\ Payload[j].sections[s].rows \in Seq(Nat)
      /\ s \in {"capm", "dcf"} => Payload[j].sections[s].rows # <<>>
  <2>1. Payload[j].sections[s].rows \in Seq(Nat)
    BY ModelStoreAssumption
  <2>2. s \in {"capm", "dcf"} => Payload[j].sections[s].rows = <<0>>
    BY ModelStoreAssumption
  <2>3. <<0>> # <<>>
    OBVIOUS
  <2> QED
    BY <2>1, <2>2, <2>3
<1>2. DOMAIN SectionItem(j, s).cols \subseteq Columns
  BY DEF SectionItem, Columns
<1>3. SectionItem(j, s).rows = Payload[j].sections[s].rows /\ SectionItem(j, s).scope[1] = s
  BY DEF SectionItem, Scope
<1>4. s \notin Replaced => s \in {"capm", "dcf"}
  BY DEF Sections, Replaced
<1> QED
  BY <1>1, <1>2, <1>3, <1>4 DEF ItemOk

LEMMA ItemFacts ==
  ASSUME NEW j \in Jobs, NEW n \in DOMAIN Items[j]
  PROVE  n \in Nat \ {0} /\ ItemOk(Items[j][n])
<1>1. CASE Payload[j].kind = "economic"
  <2> DEFINE p == Payload[j]
             models_run == {m \in DOMAIN Sections : ShouldRun(p, Sections[m])}
             snapshot == RowItem(<<"snapshot", EntityKey(p), <<>>, p.day>>,
                            [portfolio |-> p.portfolio, source_models |-> models_run, features |-> j],
                            FALSE)
             places == models_run \cup (IF p.persist THEN {Len(Sections) + 1} ELSE {})
  <2>1. Items[j] = [m \in places |-> IF m \in models_run THEN SectionItem(j, Sections[m]) ELSE snapshot]
    BY <1>1 DEF Items, EconomicItems
  <2>2. places \subseteq Nat \ {0}
    BY DEF Sections
  <2>3. CASE n \in models_run
    <3>1. Sections[n] \in DOMAIN p.sections /\ n \in DOMAIN Sections
      BY <2>3 DEF ShouldRun
    <3>2. Items[j][n] = SectionItem(j, Sections[n])
      BY <2>1, <2>3
    <3>3. ItemOk(SectionItem(j, Sections[n]))
      BY <1>1, <3>1, SectionItemOk
    <3>4. n \in places
      BY <2>1
    <3> QED
      BY <2>2, <3>2, <3>3, <3>4
  <2>4. CASE n \notin models_run
    <3>1. Items[j][n] = snapshot
      BY <2>1, <2>4
    <3>2. {"portfolio", "source_models", "features"} \subseteq Columns
      BY DEF Columns
    <3>3. ItemOk(snapshot)
      BY <3>2, RowItemOk
    <3> QED
      BY <2>1, <2>2, <3>1, <3>3
  <2> QED
    BY <2>3, <2>4
<1>2. CASE Payload[j].kind # "economic"
  <2>1. Items[j] = TrainingItems(j)
    BY <1>2 DEF Items
  <2>2. DOMAIN TrainingItems(j) = 1 .. 3
    BY DEF TrainingItems
  <2>3. {"metrics", "artifact", "training"} \subseteq Columns
    BY DEF Columns
  <2>4. \A m \in 1 .. 3 : \E scope, cols, lazy :
           TrainingItems(j)[m] = RowItem(scope, cols, lazy) /\ DOMAIN cols \subseteq Columns
    <3> DEFINE p == Payload[j]
               path == ArtifactPath(p)
               fitted == [metrics |-> j, artifact |-> path]
               predicted == [metrics |-> j, training |-> p.dataset]
    <3>1. /\ TrainingItems(j)[1] = RowItem(<<"registry", p.model, <<>>, 0>>, fitted, TRUE)
          /\ TrainingItems(j)[2] = RowItem(<<"training", p.model, p.dataset, p.day>>, fitted, TRUE)
          /\ TrainingItems(j)[3] = RowItem(<<"prediction", p.model, p.portfolio, p.day>>, predicted, FALSE)
      BY DEF TrainingItems
    <3>2. DOMAIN fitted \subseteq Columns /\ DOMAIN predicted \subseteq Columns
      BY <2>3
    <3>3. \A m \in 1 .. 3 : m = 1 \/ m = 2 \/ m = 3
      OBVIOUS
    <3> HIDE DEF p, path, fitted, predicted
    <3> QED
      BY <3>1, <3>2, <3>3, Zenon
  <2>5. ItemOk(Items[j][n])
    BY <2>1, <2>2, <2>4, RowItemOk
  <2> QED
    BY <2>1, <2>2, <2>5
<1> QED
  BY <1>1, <1>2

\* The next place is the least of those that remain.
LEMMA PlaceFacts ==
  ASSUME NEW s, s.job \in Jobs, Remaining(s) # {}
  PROVE  Place(s) \in Remaining(s) /\ \A m \in Remaining(s) : Place(s) <= m
<1>1. Remaining(s) \subseteq Nat
  BY ItemFacts DEF Remaining
<1>2. \E n \in Remaining(s) : \A m \in Remaining(s) : n <= m
  BY <1>1, LeastElement
<1> QED
  BY <1>2 DEF Place

\* The statements that add an item's rows.
LEMMA InsertsFacts ==
  ASSUME NEW s, NEW it, ItemOk(it)
  PROVE  /\ Sequence(Inserts(s, it))
         /\ it.rows # <<>> => Inserts(s, it) # <<>>
         /\ Len(Inserts(s, it)) = Len(it.rows)
         /\ \A k \in 1 .. Len(it.rows) :
               /\ Inserts(s, it)[k].insert
               /\ Inserts(s, it)[k].id = <<it.scope, it.rows[k], s.job>>
               /\ Inserts(s, it)[k].cols = it.cols
         /\ \A k \in 1 .. Len(it.rows) : it.rows[k] \in Nat
<1> DEFINE q == Inserts(s, it)
           n == Len(it.rows)
           stmt(k) == [insert |-> TRUE, id |-> <<it.scope, it.rows[k], s.job>>, cols |-> it.cols]
<1>1. it.rows \in Seq(Nat)
  BY DEF ItemOk
<1>2. n \in Nat /\ (it.rows # <<>> => n # 0) /\ \A k \in 1 .. n : it.rows[k] \in Nat
  BY <1>1
<1>3. q = [k \in 1 .. n |-> stmt(k)]
  BY DEF Inserts
<1>4. q \in Seq({stmt(k) : k \in 1 .. n})
  <2> HIDE DEF stmt, n
  <2> QED
    BY <1>2, <1>3
<1>5. Len(q) = n
  <2> HIDE DEF stmt, n
  <2> QED
    BY <1>2, <1>3
<1>6. it.rows # <<>> => q # <<>>
  BY <1>2, <1>5
<1>8. \A k \in 1 .. n : /\ q[k].insert
                        /\ q[k].id = <<it.scope, it.rows[k], s.job>>
                        /\ q[k].cols = it.cols
  BY <1>3
<1> HIDE DEF q, n, stmt
<1>9. Sequence(q)
  BY <1>4 DEF Sequence
<1> QED
  BY <1>2, <1>5, <1>6, <1>8, <1>9 DEF q, n

\* Sequences stay sequences.
LEMMA SequenceFacts ==
  ASSUME NEW q, Sequence(q)
  PROVE  /\ Len(q) \in Nat
         /\ q # <<>> => /\ Sequence(Tail(q))
                        /\ Len(Tail(q)) = Len(q) - 1
                        /\ \A k \in 1 .. Len(q) - 1 : Tail(q)[k] = q[k + 1]
                        /\ Head(q) = q[1]
                        /\ 1 \in 1 .. Len(q)
<1>1. PICK S : q \in Seq(S)
  BY DEF Sequence
<1>2. q # <<>> => Tail(q) \in Seq(S)
  BY <1>1
<1>3. q # <<>> => /\ Len(Tail(q)) = Len(q) - 1
                  /\ \A k \in 1 .. Len(q) - 1 : Tail(q)[k] = q[k + 1]
                  /\ Head(q) = q[1]
                  /\ 1 \in 1 .. Len(q)
  BY <1>1
<1> QED
  BY <1>1, <1>2, <1>3 DEF Sequence

LEMMA AppendFacts ==
  ASSUME NEW q, Sequence(q), NEW e
  PROVE  /\ Sequence(Append(q, e))
         /\ Len(Append(q, e)) = Len(q) + 1
         /\ \A k \in 1 .. Len(q) + 1 : Append(q, e)[k] = IF k = Len(q) + 1 THEN e ELSE q[k]
<1>1. PICK S : q \in Seq(S)
  BY DEF Sequence
<1> DEFINE T == S \cup {e}
<1>2. q \in Seq(T) /\ e \in T
  BY <1>1
<1> HIDE DEF T
<1>3. Append(q, e) \in Seq(T)
  BY <1>2
<1>4. Sequence(Append(q, e))
  BY <1>3 DEF Sequence
<1>5. /\ Len(Append(q, e)) = Len(q) + 1
      /\ \A k \in 1 .. Len(q) + 1 : Append(q, e)[k] = IF k = Len(q) + 1 THEN e ELSE q[k]
  BY <1>2
<1> QED
  BY <1>4, <1>5

LEMMA ConcatFacts ==
  ASSUME NEW q, Sequence(q), NEW r, Sequence(r)
  PROVE  /\ Sequence(q \o r)
         /\ Len(q \o r) = Len(q) + Len(r)
         /\ \A k \in 1 .. Len(q) + Len(r) :
               (q \o r)[k] = IF k <= Len(q) THEN q[k] ELSE r[k - Len(q)]
<1>1. PICK S : q \in Seq(S)
  BY DEF Sequence
<1>2. PICK R : r \in Seq(R)
  BY DEF Sequence
<1> DEFINE T == S \cup R
<1>3. q \in Seq(T) /\ r \in Seq(T)
  BY <1>1, <1>2
<1> HIDE DEF T
<1>4. q \o r \in Seq(T)
  BY <1>3
<1>5. Sequence(q \o r)
  BY <1>4 DEF Sequence
<1>6. /\ Len(q \o r) = Len(q) + Len(r)
      /\ \A k \in 1 .. Len(q) + Len(r) :
            (q \o r)[k] = IF k <= Len(q) THEN q[k] ELSE r[k - Len(q)]
  BY <1>3
<1> QED
  BY <1>5, <1>6

\* The first of some rows is one of them.
LEMMA FirstOfIsIn ==
  ASSUME NEW ids, ids # {}, \A id \in ids : id[2] \in Nat /\ id[3] \in Jobs
  PROVE  FirstOf(ids) \in ids
<1> DEFINE keys == {id[2] : id \in ids}
<1>1. PICK key \in keys : \A k \in keys : key <= k
  <2>1. keys \subseteq Nat /\ keys # {}
    OBVIOUS
  <2> HIDE DEF keys
  <2> QED
    BY <2>1, LeastElement
<1> DEFINE least == {id \in ids : id[2] = key}
           ranks == {Rank[id[3]] : id \in least}
<1>2. PICK rank \in ranks : \A r \in ranks : rank <= r
  <2>1. ranks \subseteq Nat
    BY ModelStoreAssumption
  <2>2. ranks # {}
    BY <1>1
  <2> HIDE DEF ranks
  <2> QED
    BY <2>1, <2>2, LeastElement
<1>3. PICK i \in least : rank = Rank[i[3]]
  BY <1>2
<1>4. ASSUME NEW k \in ids
      PROVE  i[2] < k[2] \/ (i[2] = k[2] /\ Rank[i[3]] <= Rank[k[3]])
  <2>1. key <= k[2] /\ key \in Nat /\ k[2] \in Nat
    BY <1>1
  <2>2. CASE k[2] = key
    <3>1. k \in least
      BY <2>2
    <3>2. Rank[i[3]] <= Rank[k[3]]
      BY <1>2, <1>3, <3>1
    <3> QED
      BY <2>2, <3>2
  <2>3. CASE k[2] # key
    BY <2>1, <2>3
  <2> QED
    BY <2>2, <2>3
<1>5. i \in ids
  OBVIOUS
<1> HIDE DEF keys, least, ranks
<1> QED
  BY <1>4, <1>5, Zenon DEF FirstOf

-----------------------------------------------------------------------------
(* Steps that leave the rows and the records as they are.                  *)

LEMMA SameRows ==
  ASSUME UNCHANGED <<db, plan, known>>, NEW w \in Sessions, SessionInv(ses'[w])
  PROVE  SessionInv(ses[w])'
<1> DEFINE t == ses'[w]
<1> USE DEF SessionInv
<1>1. ShapeInv(ses[w])'
  BY DEF ShapeInv
<1>2. TodoInv(ses[w])' /\ MineInv(ses[w])' /\ GoneInv(ses[w])' /\ KeyInv(ses[w])'
  BY DEF TodoInv, StatementInv, MineInv, GoneInv, KeyInv
<1>3. WholeInv(ses[w])'
  BY DEF WholeInv, Left
<1>4. ItemsInv(ses[w])'
  BY DEF ItemsInv, Swept, Left
<1> QED
  BY <1>1, <1>2, <1>3, <1>4

\* Clashes are mutual.
LEMMA ClashIsMutual ==
  ASSUME NEW i, NEW k, Clash(i, k)
  PROVE  Clash(k, i)
  BY DEF Clash, SameKey, Unique, OwnerOf

\* A step of a session that commits nothing keeps the invariant if the session
\* stays in order and apart from the others.
LEMMA SessionStep ==
  ASSUME NEW w \in Sessions, IInv, NEW t, Become(w, t),
         UNCHANGED <<db, plan, known>>, BookInv',
         SessionInv(t), Flushing(t), \A v \in Sessions \ {w} : Apart(v, t)
  PROVE  IInv'
<1>1. /\ DOMAIN ses' = Sessions
      /\ ses'[w] = t
      /\ \A v \in Sessions \ {w} : ses'[v] = ses[v]
  BY DEF Become, IInv
<1>2. ASSUME NEW v \in Sessions
      PROVE  SessionInv(ses[v])' /\ Flushing(ses[v])'
  <2>1. SessionInv(ses'[v]) /\ Flushing(ses'[v])
    <3>1. CASE v = w
      BY <1>1, <3>1
    <3>2. CASE v # w
      <4>1. ses'[v] = ses[v]
        BY <1>1, <3>2
      <4>2. SessionInv(ses[v]) /\ Flushing(ses[v])
        BY DEF IInv
      <4> QED
        BY <4>1, <4>2
    <3> QED
      BY <3>1, <3>2
  <2>2. Flushing(ses[v])'
    BY <2>1 DEF Flushing
  <2> QED
    BY <2>1, <2>2, SameRows
<1>3. ASSUME NEW u \in Sessions, NEW v \in Sessions, u # v
      PROVE  Apart(u, ses[v])'
  <2>1. CASE v = w
    <3>1. Apart(u, t) /\ ses'[u] = ses[u] /\ ses'[v] = t
      BY <1>1, <1>3, <2>1
    <3> QED
      BY <3>1 DEF Apart
  <2>2. CASE u = w
    <3>1. Apart(v, t) /\ ses'[v] = ses[v] /\ ses'[u] = t
      BY <1>1, <1>3, <2>2
    <3>2. t.job = ses[v].job => t.job = None
      BY <3>1 DEF Apart
    <3>3. \A i \in Holds(t), k \in Holds(ses[v]) : ~ Clash(i, k)
      BY <3>1, ClashIsMutual DEF Apart
    <3> QED
      BY <3>1, <3>2, <3>3 DEF Apart
  <2>3. CASE u # w /\ v # w
    <3>1. Apart(u, ses[v]) /\ ses'[u] = ses[u] /\ ses'[v] = ses[v]
      BY <1>1, <1>3, <2>3 DEF IInv
    <3> QED
      BY <3>1 DEF Apart
  <2> QED
    BY <2>1, <2>2, <2>3
<1>4. RowInv' /\ RowsWhole' /\ ReplacesEarlier'
  BY DEF IInv, RowInv, RowsWhole, ReplacesEarlier, Left
<1> QED
  BY <1>1, <1>2, <1>3, <1>4 DEF IInv

\* A session that writes nothing and keeps its job stays apart from the others.
LEMMA StaysApart ==
  ASSUME NEW w \in Sessions, IInv, NEW t,
         t.job = ses[w].job, Holds(t) \subseteq Holds(ses[w]),
         NEW v \in Sessions \ {w}
  PROVE  Apart(v, t)
<1>1. Apart(v, ses[w])
  BY DEF IInv
<1> QED
  BY <1>1 DEF Apart

\* A session before its first statement, for no job or for one of its own.
LEMMA FreshInOrder ==
  ASSUME plan \in Plans, NEW t, DOMAIN t = Fields,
         t.mine = Empty, t.gone = {}, t.dels = {}, t.todo = <<>>, t.n = 0,
         \/ t.at = "idle" /\ t = Idle
         \/ t.at \in {"save", "item"} /\ t.job \in plan \ DOMAIN known,
         t.began \subseteq DOMAIN known
  PROVE  SessionInv(t) /\ Flushing(t) /\ Holds(t) = {}
<1>1. ShapeInv(t)
  <2>1. <<>> \in Seq({})
    OBVIOUS
  <2>2. Sequence(t.todo)
    BY <2>1 DEF Sequence
  <2> QED
    BY <2>2 DEF ShapeInv
<1>2. TodoInv(t) /\ MineInv(t) /\ GoneInv(t) /\ KeyInv(t)
  BY DEF TodoInv, MineInv, GoneInv, KeyInv, Removed, Empty
<1>3. WholeInv(t)
  BY DEF WholeInv, Removed
<1>4. ItemsInv(t)
  <2>1. CASE t.at = "idle"
    BY <2>1 DEF ItemsInv
  <2>2. CASE t.at # "idle"
    <3>1. t.job \in Jobs
      BY <2>2, ModelStoreAssumption
    <3>2. \A n \in DOMAIN Items[t.job] : ~ (n <= t.n)
      BY <3>1, ItemFacts
    <3> QED
      BY <2>2, <3>2 DEF ItemsInv
  <2> QED
    BY <2>1, <2>2
<1>5. Flushing(t) /\ Holds(t) = {}
  BY DEF Flushing, Holds, Empty
<1> QED
  BY <1>1, <1>2, <1>3, <1>4, <1>5 DEF SessionInv

LEMMA IdleInOrder ==
  ASSUME plan \in Plans
  PROVE  SessionInv(Idle) /\ Flushing(Idle) /\ Holds(Idle) = {} /\ Idle.job = None
<1>1. /\ DOMAIN Idle = Fields
      /\ Idle.mine = Empty /\ Idle.gone = {} /\ Idle.dels = {} /\ Idle.todo = <<>>
      /\ Idle.n = 0 /\ Idle.at = "idle" /\ Idle.began = {} /\ Idle.job = None
  BY DEF Idle, Fields
<1>2. Idle.began \subseteq DOMAIN known
  BY <1>1
<1>3. \/ Idle.at = "idle" /\ Idle = Idle
      \/ Idle.at \in {"save", "item"} /\ Idle.job \in plan \ DOMAIN known
  BY <1>1
<1>4. SessionInv(Idle) /\ Flushing(Idle) /\ Holds(Idle) = {}
  <2> HIDE DEF Idle
  <2> QED
    BY <1>1, <1>2, <1>3, FreshInOrder
<1> QED
  BY <1>1, <1>4

\* A rollback: the session is gone, with all that it has not committed.
LEMMA SessionEnds ==
  ASSUME NEW w \in Sessions, IInv, Become(w, Idle), UNCHANGED <<db, plan, known>>, BookInv'
  PROVE  IInv'
<1>1. SessionInv(Idle) /\ Flushing(Idle) /\ Holds(Idle) = {} /\ Idle.job = None
  BY IdleInOrder DEF IInv, BookInv
<1>2. \A v \in Sessions \ {w} : Apart(v, Idle)
  BY <1>1 DEF Apart
<1> HIDE DEF Idle
<1> QED
  BY <1>1, <1>2, SessionStep

\* Of the records, a step changes attempts and faults or nothing.
LEMMA BookStays ==
  ASSUME IInv, UNCHANGED <<artifact, plan, known, attempts, faults>>
  PROVE  BookInv'
  BY DEF IInv, BookInv

\* What is known of a session that is not idle.
LEMMA SessionFacts ==
  ASSUME NEW w \in Sessions, IInv
  PROVE  /\ SessionInv(ses[w]) /\ ShapeInv(ses[w]) /\ Flushing(ses[w])
         /\ ses[w].at # "idle" => ses[w].job \in Jobs /\ ses[w].job \notin DOMAIN known
<1>1. SessionInv(ses[w]) /\ ShapeInv(ses[w]) /\ Flushing(ses[w])
  BY DEF IInv, SessionInv
<1>2. plan \subseteq Jobs
  BY ModelStoreAssumption DEF IInv, BookInv
<1> QED
  BY <1>1, <1>2 DEF ShapeInv

-----------------------------------------------------------------------------
(* The actions.                                                            *)

LEMMA InitIInv == Init => IInv
<1> SUFFICES ASSUME Init
             PROVE  IInv
  OBVIOUS
<1>1. BookInv
  BY ModelStoreAssumption DEF Init, BookInv, Empty
<1>2. RowInv /\ RowsWhole /\ ReplacesEarlier
  BY DEF Init, Empty, RowInv, RowsWhole, ReplacesEarlier
<1>3. \A w \in Sessions : SessionInv(ses[w]) /\ Flushing(ses[w])
  BY IdleInOrder DEF Init
<1>4. \A v, w \in Sessions : Apart(v, ses[w])
  BY IdleInOrder DEF Init, Apart
<1> QED
  BY <1>1, <1>2, <1>3, <1>4 DEF Init, IInv

\* What a session has to do and has done says the same when only its phase, its
\* place or its overlay changes.
LEMMA WorkStays ==
  ASSUME NEW s, SessionInv(s), NEW t, t.job = s.job, t.began = s.began,
         t.mine = s.mine, t.gone = s.gone, t.dels = s.dels, t.todo = s.todo
  PROVE  TodoInv(t) /\ MineInv(t) /\ GoneInv(t) /\ WholeInv(t) /\ KeyInv(t)
<1>1. TodoInv(t) /\ MineInv(t)
  BY DEF SessionInv, TodoInv, StatementInv, MineInv
<1>2. GoneInv(t) /\ WholeInv(t) /\ KeyInv(t)
  BY DEF SessionInv, GoneInv, WholeInv, KeyInv, Removed
<1> QED
  BY <1>1, <1>2

\* The same place of the same job has the same item.
LEMMA SamePlace ==
  ASSUME NEW s, NEW t, t.job = s.job, t.n = s.n
  PROVE  Remaining(t) = Remaining(s) /\ Place(t) = Place(s) /\ Current(t) = Current(s)
<1>1. Remaining(t) = Remaining(s)
  BY DEF Remaining
<1> QED
  BY <1>1 DEF Place, Current

\* Going on with the next item when nothing is left of the flush.
LEMMA SentInOrder ==
  ASSUME plan \in Plans, NEW t, SessionInv(t), t.at = "flush"
  PROVE  /\ SessionInv(Sent(t)) /\ Flushing(Sent(t))
         /\ Holds(Sent(t)) = Holds(t) /\ Sent(t).job = t.job
<1>1. CASE t.dels # {} \/ t.todo # <<>>
  BY <1>1 DEF Sent, Flushing
<1>2. CASE t.dels = {} /\ t.todo = <<>>
  <2> DEFINE u == [t EXCEPT !.at = "item", !.n = Place(t)]
  <2>1. Sent(t) = u
    BY <1>2 DEF Sent
  <2>2. ShapeInv(t) /\ ItemsInv(t)
    BY DEF SessionInv
  <2>3. /\ DOMAIN u = Fields
        /\ u.at = "item" /\ u.n = Place(t)
        /\ u.job = t.job /\ u.began = t.began /\ u.dels = t.dels /\ u.todo = t.todo
        /\ u.mine = t.mine /\ u.gone = t.gone
    BY <2>2 DEF ShapeInv, Fields
  <2> HIDE DEF u
  <2>4. t.job \in Jobs /\ t.job \in plan \ DOMAIN known
    BY <2>2, ModelStoreAssumption DEF ShapeInv
  <2>5. Place(t) \in Remaining(t) /\ \A m \in Remaining(t) : Place(t) <= m
    BY <2>2, <2>4, PlaceFacts DEF ShapeInv
  <2>6. Place(t) \in Nat
    BY <2>4, <2>5, ItemFacts DEF Remaining
  <2>7. ShapeInv(u)
    BY <1>2, <2>2, <2>3, <2>4, <2>6 DEF ShapeInv
  <2>8. TodoInv(u) /\ MineInv(u) /\ GoneInv(u) /\ WholeInv(u) /\ KeyInv(u)
    BY <2>3, WorkStays
  <2>9. ASSUME NEW n \in DOMAIN Items[t.job], n <= Place(t), Items[t.job][n].scope[1] \in Replaced
        PROVE  /\ Written(t.job, Items[t.job][n]) \subseteq DOMAIN t.mine
               /\ Swept(t, Items[t.job][n].scope, t.gone)
    <3>1. CASE n <= t.n
      BY <2>2, <2>9, <3>1 DEF ItemsInv
    <3>2. CASE ~ (n <= t.n)
      <4>1. n \in Nat /\ t.n \in Nat
        BY <2>2, <2>4, ItemFacts DEF ShapeInv
      <4>2. n \in Remaining(t)
        BY <3>2, <4>1 DEF Remaining
      <4>3. n = Place(t)
        BY <2>5, <2>6, <2>9, <4>1, <4>2
      <4>4. Items[t.job][n] = Current(t)
        BY <4>3 DEF Current
      <4>5. {t.todo[k].id : k \in 1 .. Len(t.todo)} = {}
        BY <1>2
      <4>6. Removed(t) = t.gone
        BY <1>2 DEF Removed
      <4> QED
        BY <2>2, <2>9, <4>4, <4>5, <4>6 DEF ItemsInv
    <3> QED
      BY <3>1, <3>2
  <2>10. ItemsInv(u)
    <3>1. \A scope, ids : Swept(u, scope, ids) <=> Swept(t, scope, ids)
      BY <2>3 DEF Swept
    <3> QED
      BY <2>3, <2>9, <3>1 DEF ItemsInv
  <2>11. SessionInv(u)
    BY <2>7, <2>8, <2>10 DEF SessionInv
  <2>12. Flushing(u) /\ Holds(u) = Holds(t)
    BY <2>3 DEF Flushing, Holds
  <2> QED
    BY <2>1, <2>3, <2>11, <2>12
<1> QED
  BY <1>1, <1>2

\* A session whose phase, overlay or waiting alone changes.
LEMMA PhaseInOrder ==
  ASSUME NEW s, SessionInv(s), Flushing(s), s.at # "idle",
         NEW t, DOMAIN t = Fields, t.job = s.job, t.began = s.began, t.n = s.n,
         t.mine = s.mine, t.gone = s.gone, t.dels = s.dels, t.todo = s.todo,
         t.at = s.at \/ (s.at = "save" /\ t.at = "item")
  PROVE  SessionInv(t) /\ Flushing(t) /\ Holds(t) = Holds(s)
<1>1. ShapeInv(s) /\ ItemsInv(s)
  BY DEF SessionInv
<1>2. Remaining(t) = Remaining(s) /\ Current(t) = Current(s) /\ Removed(t) = Removed(s)
  BY SamePlace DEF Removed
<1>3. ShapeInv(t)
  BY <1>1, <1>2 DEF ShapeInv
<1>4. TodoInv(t) /\ MineInv(t) /\ GoneInv(t) /\ WholeInv(t) /\ KeyInv(t)
  BY WorkStays
<1>5. \A scope, ids : Swept(t, scope, ids) <=> Swept(s, scope, ids)
  BY DEF Swept
<1>6. ItemsInv(t)
  BY <1>1, <1>2, <1>5 DEF ItemsInv
<1>7. Flushing(t) /\ Holds(t) = Holds(s)
  BY DEF Flushing, Holds
<1> QED
  BY <1>3, <1>4, <1>6, <1>7 DEF SessionInv

\* The whole step of such a session.
LEMMA PhaseStep ==
  ASSUME NEW w \in Sessions, IInv, ses[w].at # "idle", NEW t, Become(w, t),
         UNCHANGED <<db, plan, known>>, BookInv',
         DOMAIN t = Fields, t.job = ses[w].job, t.began = ses[w].began, t.n = ses[w].n,
         t.mine = ses[w].mine, t.gone = ses[w].gone, t.dels = ses[w].dels, t.todo = ses[w].todo,
         t.at = ses[w].at \/ (ses[w].at = "save" /\ t.at = "item")
  PROVE  IInv'
<1>1. SessionInv(ses[w]) /\ Flushing(ses[w])
  BY SessionFacts
<1>2. SessionInv(t) /\ Flushing(t) /\ Holds(t) = Holds(ses[w])
  BY <1>1, PhaseInOrder
<1>3. \A v \in Sessions \ {w} : Apart(v, t)
  BY <1>2, StaysApart
<1> QED
  BY <1>2, <1>3, SessionStep

LEMMA StartStep ==
  ASSUME NEW w \in Sessions, NEW j \in Jobs, IInv, Start(w, j)
  PROVE  IInv'
<1> DEFINE at == IF Payload[j].kind = "training" THEN "save" ELSE "item"
           t == [Idle EXCEPT !.at = at, !.job = j, !.began = DOMAIN known]
<1>1. /\ DOMAIN t = Fields
      /\ t.mine = Empty /\ t.gone = {} /\ t.dels = {} /\ t.todo = <<>> /\ t.n = 0
      /\ t.at \in {"save", "item"} /\ t.job = j /\ t.began = DOMAIN known
  BY DEF Idle, Fields
<1>2. Become(w, t) /\ UNCHANGED <<db, plan, known>>
  BY DEF Start
<1> HIDE DEF t
<1>3. j \in plan \ DOMAIN known /\ \A v \in Sessions : ses[v].job # j
  BY DEF Start
<1>4. plan \in Plans
  BY DEF IInv, BookInv
<1>5. SessionInv(t) /\ Flushing(t) /\ Holds(t) = {}
  <2>1. /\ \/ t.at = "idle" /\ t = Idle
           \/ t.at \in {"save", "item"} /\ t.job \in plan \ DOMAIN known
        /\ t.began \subseteq DOMAIN known
    BY <1>1, <1>3
  <2> QED
    BY <1>1, <1>4, <2>1, FreshInOrder
<1>6. \A v \in Sessions \ {w} : Apart(v, t)
  BY <1>1, <1>3, <1>5 DEF Apart
<1>7. BookInv'
  BY ModelStoreAssumption DEF Start, IInv, BookInv
<1> QED
  BY <1>2, <1>5, <1>6, <1>7, SessionStep

LEMMA SaveArtifactStep ==
  ASSUME NEW w \in Sessions, IInv, SaveArtifact(w)
  PROVE  IInv'
<1> DEFINE t == [ses[w] EXCEPT !.at = "item"]
<1>1. ses[w].at = "save" /\ Become(w, t) /\ UNCHANGED <<db, plan, known>>
  BY DEF SaveArtifact
<1>2. ShapeInv(ses[w])
  BY SessionFacts
<1>3. /\ DOMAIN t = Fields /\ t.job = ses[w].job /\ t.began = ses[w].began /\ t.n = ses[w].n
      /\ t.mine = ses[w].mine /\ t.gone = ses[w].gone /\ t.dels = ses[w].dels /\ t.todo = ses[w].todo
      /\ t.at = "item"
  BY <1>2 DEF ShapeInv, Fields
<1>4. BookInv'
  <2>1. ses[w].job \in plan
    BY <1>1, <1>2 DEF ShapeInv
  <2> QED
    BY <2>1 DEF SaveArtifact, IInv, BookInv
<1> HIDE DEF t
<1> QED
  BY <1>1, <1>3, <1>4, PhaseStep

LEMMA BlockStep ==
  ASSUME NEW w \in Sessions, IInv, Block(w)
  PROVE  IInv'
<1> DEFINE t == [ses[w] EXCEPT !.waiting = TRUE]
<1>1. /\ ses[w].at = "flush" /\ Become(w, t)
      /\ UNCHANGED <<db, artifact, plan, known, attempts, faults>>
  BY DEF Block
<1>2. ShapeInv(ses[w])
  BY SessionFacts
<1>3. /\ DOMAIN t = Fields /\ t.job = ses[w].job /\ t.began = ses[w].began /\ t.n = ses[w].n
      /\ t.mine = ses[w].mine /\ t.gone = ses[w].gone /\ t.dels = ses[w].dels /\ t.todo = ses[w].todo
      /\ t.at = ses[w].at
  BY <1>2 DEF ShapeInv, Fields
<1> HIDE DEF t
<1> QED
  BY <1>1, <1>3, PhaseStep, BookStays

LEMMA ReadOverlayStep ==
  ASSUME NEW w \in Sessions, IInv, ReadOverlay(w)
  PROVE  IInv'
<1>1. PICK k, used : Become(w, [ses[w] EXCEPT !.read = k, !.overlay = @ \cup used])
  BY DEF ReadOverlay
<1> DEFINE t == [ses[w] EXCEPT !.read = k, !.overlay = @ \cup used]
<1>2. /\ ses[w].at = "item" /\ Become(w, t)
      /\ UNCHANGED <<db, artifact, plan, known, attempts, faults>>
  BY <1>1 DEF ReadOverlay
<1>3. ShapeInv(ses[w])
  BY SessionFacts
<1>4. /\ DOMAIN t = Fields /\ t.job = ses[w].job /\ t.began = ses[w].began /\ t.n = ses[w].n
      /\ t.mine = ses[w].mine /\ t.gone = ses[w].gone /\ t.dels = ses[w].dels /\ t.todo = ses[w].todo
      /\ t.at = ses[w].at
  BY <1>3 DEF ShapeInv, Fields
<1> HIDE DEF t
<1> QED
  BY <1>2, <1>4, PhaseStep, BookStays

\* What is known where a session comes to an item.
LEMMA AtFacts ==
  ASSUME NEW w \in Sessions, IInv, NEW isReplaced, At(w, isReplaced)
  PROVE  /\ SessionInv(ses[w]) /\ ShapeInv(ses[w])
         /\ ses[w].at = "item" /\ ses[w].dels = {}
         /\ ses[w].job \in Jobs /\ ses[w].job \in plan \ DOMAIN known
         /\ Remaining(ses[w]) # {}
         /\ ItemOk(Current(ses[w]))
         /\ Place(ses[w]) \in Nat
<1>1. SessionInv(ses[w]) /\ ShapeInv(ses[w]) /\ ses[w].at = "item" /\ Remaining(ses[w]) # {}
  BY SessionFacts DEF At
<1>2. ses[w].dels = {} /\ ses[w].job \in Jobs /\ ses[w].job \in plan \ DOMAIN known
  BY <1>1, SessionFacts DEF ShapeInv
<1>3. Place(ses[w]) \in DOMAIN Items[ses[w].job]
  BY <1>1, <1>2, PlaceFacts DEF Remaining
<1>4. ItemOk(Current(ses[w])) /\ Place(ses[w]) \in Nat
  BY <1>2, <1>3, ItemFacts DEF Current
<1> QED
  BY <1>1, <1>2, <1>4

\* The statements that add an item's rows are in order.
LEMMA InsertsInOrder ==
  ASSUME NEW s, NEW it, ItemOk(it), NEW t, t.job = s.job,
         NEW k \in 1 .. Len(Inserts(s, it))
  PROVE  StatementInv(t, Inserts(s, it)[k])
<1> DEFINE stmt == Inserts(s, it)[k]
<1>1. k \in 1 .. Len(it.rows)
  BY InsertsFacts
<1>2. stmt.insert /\ stmt.id = <<it.scope, it.rows[k], s.job>> /\ stmt.cols = it.cols
  BY <1>1, InsertsFacts
<1>3. it.rows[k] \in Nat /\ DOMAIN it.cols \subseteq Columns
  BY <1>1, InsertsFacts DEF ItemOk
<1> HIDE DEF stmt
<1>4. stmt.id[2] = it.rows[k] /\ stmt.id[3] = s.job
  BY <1>2
<1> QED
  BY <1>2, <1>3, <1>4 DEF StatementInv, stmt

\* The rows of a scope are all that is left of the items of that scope, and
\* nothing of others.
LEMMA FoundFacts ==
  ASSUME NEW scope, NEW i, NEW it
  PROVE  /\ it.scope = scope => Left(i, it) \subseteq Found(scope)
         /\ it.scope # scope => Found(scope) \cap Written(i, it) = {}
<1>1. \A id \in Written(i, it) : id[1] = it.scope
  BY DEF Written
<1> QED
  BY <1>1 DEF Found, Left

LEMMA ReplaceRowsStep ==
  ASSUME NEW w \in Sessions, IInv, ReplaceRows(w)
  PROVE  IInv'
<1> DEFINE s == ses[w]
           it == Current(s)
           new == Inserts(s, it)
           t == [s EXCEPT !.at = "flush", !.dels = Found(it.scope), !.todo = new]
<1>1. At(w, TRUE) /\ UNCHANGED <<db, artifact, plan, known, attempts, faults>>
  BY DEF ReplaceRows
<1>2. /\ SessionInv(s) /\ ShapeInv(s) /\ s.at = "item" /\ s.dels = {}
      /\ s.job \in Jobs /\ s.job \in plan \ DOMAIN known /\ Remaining(s) # {} /\ ItemOk(it)
  BY <1>1, AtFacts
<1>3. it.scope[1] \in Replaced
  BY <1>1 DEF At
<1>4. /\ Sequence(new) /\ Len(new) = Len(it.rows)
      /\ \A k \in 1 .. Len(it.rows) : new[k].id = <<it.scope, it.rows[k], s.job>>
  BY <1>2, InsertsFacts
<1>5. /\ DOMAIN t = Fields /\ t.at = "flush" /\ t.dels = Found(it.scope) /\ t.todo = new
      /\ t.job = s.job /\ t.began = s.began /\ t.n = s.n /\ t.mine = s.mine /\ t.gone = s.gone
  BY <1>2 DEF ShapeInv, Fields
<1>6. Become(w, Sent(t))
  BY DEF ReplaceRows
<1> HIDE DEF t, new
<1>7. Remaining(t) = Remaining(s) /\ Current(t) = it
  BY <1>5, SamePlace
<1>8. ShapeInv(t)
  BY <1>2, <1>4, <1>5, <1>7 DEF ShapeInv
<1>9. TodoInv(t)
  BY <1>2, <1>5, InsertsInOrder DEF TodoInv, new
<1>10. MineInv(t) /\ KeyInv(t)
  BY <1>2, <1>5 DEF SessionInv, MineInv, KeyInv
<1>11. GoneInv(t)
  <2>1. \A id \in Found(it.scope) : id[2] \in Nat /\ id[3] \in DOMAIN known /\ TableOf(id) \in Replaced
    BY <1>3 DEF Found, TableOf, IInv, RowInv
  <2>2. GoneInv(s)
    BY <1>2 DEF SessionInv
  <2> QED
    BY <1>5, <2>1, <2>2 DEF GoneInv, Removed
<1>12. WholeInv(t)
  <2>1. ASSUME NEW i \in DOMAIN known, NEW a \in ReplacedBy(i)
        PROVE  Removed(t) \cap Written(i, a) = {} \/ Left(i, a) \subseteq Removed(t)
    <3>1. Removed(t) = Removed(s) \cup Found(it.scope)
      BY <1>2, <1>5 DEF Removed
    <3>2. Removed(s) \cap Written(i, a) = {} \/ Left(i, a) \subseteq Removed(s)
      BY <1>2 DEF SessionInv, WholeInv
    <3> QED
      BY <3>1, <3>2, FoundFacts
  <2> QED
    BY <2>1 DEF WholeInv
<1>13. ItemsInv(t)
  <2>1. \A scope, ids : Swept(t, scope, ids) <=> Swept(s, scope, ids)
    BY <1>5 DEF Swept
  <2>2. ItemsInv(s)
    BY <1>2 DEF SessionInv
  <2>3. Written(t.job, it) \subseteq {t.todo[k].id : k \in 1 .. Len(t.todo)}
    BY <1>4, <1>5 DEF Written
  <2>4. Swept(t, it.scope, Removed(t))
    <3>1. Found(it.scope) \subseteq Removed(t)
      BY <1>5 DEF Removed
    <3>2. ASSUME NEW i, NEW a, a.scope = it.scope
          PROVE  Left(i, a) \subseteq Removed(t)
      BY <3>1, <3>2, FoundFacts
    <3> QED
      BY <3>2 DEF Swept
  <2>5. \A n \in DOMAIN Items[t.job] :
            n <= t.n /\ Items[t.job][n].scope[1] \in Replaced =>
              /\ Written(t.job, Items[t.job][n]) \subseteq DOMAIN t.mine
              /\ Swept(t, Items[t.job][n].scope, t.gone)
    BY <1>2, <1>5, <2>1, <2>2 DEF ItemsInv
  <2> QED
    BY <1>7, <2>3, <2>4, <2>5 DEF ItemsInv
<1>14. SessionInv(t)
  BY <1>8, <1>9, <1>10, <1>11, <1>12, <1>13 DEF SessionInv
<1> DEFINE r == Sent(t)
<1>15. SessionInv(r) /\ Flushing(r) /\ Holds(r) = Holds(t) /\ r.job = t.job
  BY <1>5, <1>14, SentInOrder DEF IInv, BookInv
<1>16. Holds(t) = Holds(s)
  BY <1>5 DEF Holds
<1> HIDE DEF r
<1> QED
  BY <1>1, <1>5, <1>6, <1>15, <1>16, SessionStep, StaysApart, BookStays DEF r

\* A session that comes to an item of a table without replacement and has more
\* statements to send afterwards.
LEMMA LongerTodo ==
  ASSUME IInv, NEW s, SessionInv(s), s.at = "item", Remaining(s) # {},
         Current(s).scope[1] \notin Replaced,
         NEW t, DOMAIN t = Fields, t.job = s.job, t.began = s.began, t.n = s.n,
         t.mine = s.mine, t.gone = s.gone, t.dels = s.dels,
         t.at \in {"item", "flush"}, Sequence(t.todo), TodoInv(t)
  PROVE  SessionInv(t) /\ Holds(t) = Holds(s)
<1>1. ShapeInv(s) /\ ItemsInv(s)
  BY DEF SessionInv
<1>2. Remaining(t) = Remaining(s) /\ Current(t) = Current(s) /\ Removed(t) = Removed(s)
  BY SamePlace DEF Removed
<1>3. ShapeInv(t)
  BY <1>1, <1>2 DEF ShapeInv
<1>4. MineInv(t) /\ GoneInv(t) /\ WholeInv(t) /\ KeyInv(t)
  BY <1>2 DEF SessionInv, MineInv, GoneInv, WholeInv, KeyInv
<1>5. \A scope, ids : Swept(t, scope, ids) <=> Swept(s, scope, ids)
  BY DEF Swept
<1>6. ItemsInv(t)
  BY <1>1, <1>2, <1>5 DEF ItemsInv
<1> QED
  BY <1>3, <1>4, <1>6 DEF SessionInv, Holds

LEMMA AddRowStep ==
  ASSUME NEW w \in Sessions, IInv, AddRow(w)
  PROVE  IInv'
<1> DEFINE s == ses[w]
           new == Inserts(s, Current(s))
           t == [s EXCEPT !.at = "flush", !.todo = @ \o new]
<1>1. /\ At(w, FALSE) /\ Become(w, t)
      /\ UNCHANGED <<db, artifact, plan, known, attempts, faults>>
  BY DEF AddRow
<1>2. /\ SessionInv(s) /\ ShapeInv(s) /\ s.at = "item"
      /\ Remaining(s) # {} /\ ItemOk(Current(s))
  BY <1>1, AtFacts
<1>3. Current(s).scope[1] \notin Replaced
  BY <1>1 DEF At
<1>4. /\ DOMAIN t = Fields /\ t.at = "flush" /\ t.todo = s.todo \o new /\ t.dels = s.dels
      /\ t.job = s.job /\ t.began = s.began /\ t.n = s.n /\ t.mine = s.mine /\ t.gone = s.gone
  BY <1>2 DEF ShapeInv, Fields
<1>5. Sequence(new) /\ new # <<>> /\ Sequence(s.todo)
  BY <1>2, <1>3, InsertsFacts DEF ShapeInv, ItemOk
<1>6. \A k \in 1 .. Len(new) : StatementInv(t, new[k])
  BY <1>2, <1>4, InsertsInOrder
<1>7. \A k \in 1 .. Len(s.todo) : StatementInv(t, s.todo[k])
  BY <1>2, <1>4 DEF SessionInv, TodoInv, StatementInv
<1> HIDE DEF t, new
<1>8. /\ Sequence(t.todo) /\ Len(t.todo) = Len(s.todo) + Len(new)
      /\ \A k \in 1 .. Len(s.todo) + Len(new) :
            t.todo[k] = IF k <= Len(s.todo) THEN s.todo[k] ELSE new[k - Len(s.todo)]
  BY <1>4, <1>5, ConcatFacts
<1>9. Len(s.todo) \in Nat /\ Len(new) \in Nat /\ Len(new) # 0
  <2>1. Len(s.todo) \in Nat /\ Len(new) \in Nat
    BY <1>5, SequenceFacts
  <2>2. 1 \in 1 .. Len(new)
    BY <1>5, SequenceFacts
  <2> QED
    BY <2>1, <2>2
<1>10. TodoInv(t)
  <2>1. ASSUME NEW k \in 1 .. Len(t.todo)
        PROVE  StatementInv(t, t.todo[k])
    <3>1. CASE k <= Len(s.todo)
      BY <1>7, <1>8, <1>9, <3>1
    <3>2. CASE ~ (k <= Len(s.todo))
      <4>1. k - Len(s.todo) \in 1 .. Len(new)
        BY <1>8, <1>9, <3>2
      <4>2. t.todo[k] = new[k - Len(s.todo)]
        BY <1>8, <3>2
      <4> QED
        BY <1>6, <4>1, <4>2
    <3> QED
      BY <3>1, <3>2
  <2> QED
    BY <2>1 DEF TodoInv
<1>11. SessionInv(t) /\ Holds(t) = Holds(s)
  BY <1>2, <1>3, <1>4, <1>8, <1>10, LongerTodo
<1>12. Flushing(t)
  <2>1. Len(t.todo) # 0
    BY <1>8, <1>9
  <2>2. t.todo # <<>>
    BY <2>1
  <2> QED
    BY <2>2 DEF Flushing
<1> QED
  BY <1>1, <1>4, <1>11, <1>12, SessionStep, StaysApart, BookStays

LEMMA ChangeRowStep ==
  ASSUME NEW w \in Sessions, IInv, ChangeRow(w)
  PROVE  IInv'
<1> DEFINE s == ses[w]
           it == Current(s)
           differ(id) == Changed(id, it.cols)
           update(id) == [insert |-> FALSE, id |-> id, cols |-> [c \in differ(id) |-> it.cols[c]]]
           next(id) == [s EXCEPT !.todo = IF differ(id) = {} THEN @ ELSE Append(@, update(id))]
<1>1. /\ At(w, FALSE)
      /\ UNCHANGED <<db, artifact, plan, known, attempts, faults>>
  BY DEF ChangeRow
<1>2. PICK id \in Found(it.scope) :
         Become(w, IF it.lazy THEN [next(id) EXCEPT !.n = Place(s)]
                   ELSE Sent([next(id) EXCEPT !.at = "flush"]))
  BY DEF ChangeRow
<1>3. /\ SessionInv(s) /\ ShapeInv(s) /\ s.at = "item" /\ s.dels = {}
      /\ s.job \in Jobs /\ Remaining(s) # {} /\ Place(s) \in Nat
  BY <1>1, AtFacts
<1>4. it.scope[1] \notin Replaced
  BY <1>1 DEF At
<1> DEFINE e == update(id)
           todo == IF differ(id) = {} THEN s.todo ELSE Append(s.todo, e)
           t == [s EXCEPT !.todo = todo]
<1>5. /\ DOMAIN t = Fields /\ t.at = "item" /\ t.todo = todo /\ t.dels = s.dels
      /\ t.job = s.job /\ t.began = s.began /\ t.n = s.n /\ t.mine = s.mine /\ t.gone = s.gone
  BY <1>3 DEF ShapeInv, Fields
<1>6. next(id) = t
  OBVIOUS
<1>7. ~ e.insert /\ e.id = id
  OBVIOUS
<1>8. id \in DOMAIN db /\ TableOf(id) \notin Replaced
  BY <1>4 DEF Found, TableOf
<1> HIDE DEF e, differ
<1>9. \A u : StatementInv(u, e)
  BY <1>7, <1>8 DEF StatementInv
<1>10. /\ Sequence(s.todo) /\ Len(s.todo) \in Nat
       /\ \A k \in 1 .. Len(s.todo) : \A u : u.job = s.job => StatementInv(u, s.todo[k])
  BY <1>3, SequenceFacts DEF ShapeInv, SessionInv, TodoInv, StatementInv
<1>11. Sequence(todo) /\ \A k \in 1 .. Len(todo) : \A u : u.job = s.job => StatementInv(u, todo[k])
  <2>1. CASE differ(id) = {}
    BY <1>10, <2>1
  <2>2. CASE differ(id) # {}
    <3>1. todo = Append(s.todo, e)
      BY <2>2
    <3> HIDE DEF todo
    <3>2. /\ Sequence(todo) /\ Len(todo) = Len(s.todo) + 1
          /\ \A k \in 1 .. Len(s.todo) + 1 : todo[k] = IF k = Len(s.todo) + 1 THEN e ELSE s.todo[k]
      BY <1>10, <3>1, AppendFacts
    <3>3. \A k \in 1 .. Len(s.todo) + 1 : k = Len(s.todo) + 1 \/ k \in 1 .. Len(s.todo)
      BY <1>10
    <3> QED
      BY <1>9, <1>10, <3>2, <3>3
  <2> QED
    BY <2>1, <2>2
<1> HIDE DEF t, todo
<1>12. CASE it.lazy
  <2> DEFINE u == [t EXCEPT !.n = Place(s)]
  <2>1. Become(w, u)
    BY <1>2, <1>6, <1>12
  <2>2. /\ DOMAIN u = Fields /\ u.at = "item" /\ u.todo = todo /\ u.dels = s.dels
        /\ u.job = s.job /\ u.began = s.began /\ u.n = Place(s) /\ u.mine = s.mine /\ u.gone = s.gone
    BY <1>5 DEF Fields
  <2> HIDE DEF u
  <2>3. ShapeInv(u)
    BY <1>3, <1>11, <2>2 DEF ShapeInv
  <2>4. TodoInv(u)
    BY <1>11, <2>2 DEF TodoInv
  <2>5. MineInv(u) /\ GoneInv(u) /\ WholeInv(u) /\ KeyInv(u)
    BY <1>3, <2>2 DEF SessionInv, MineInv, GoneInv, WholeInv, KeyInv, Removed
  <2>6. ItemsInv(u)
    <3>1. \A scope, ids : Swept(u, scope, ids) <=> Swept(s, scope, ids)
      BY <2>2 DEF Swept
    <3>2. ASSUME NEW n \in DOMAIN Items[s.job], n <= Place(s), Items[s.job][n].scope[1] \in Replaced
          PROVE  n <= s.n
      <4>1. n \in Nat /\ s.n \in Nat
        BY <1>3, ItemFacts DEF ShapeInv
      <4>2. CASE n \in Remaining(s)
        <5>1. n = Place(s)
          BY <1>3, <3>2, <4>1, <4>2, PlaceFacts
        <5> QED
          BY <1>4, <3>2, <5>1 DEF Current
      <4>3. CASE n \notin Remaining(s)
        BY <4>1, <4>3 DEF Remaining
      <4> QED
        BY <4>2, <4>3
    <3>3. ItemsInv(s)
      BY <1>3 DEF SessionInv
    <3> QED
      BY <1>3, <2>2, <3>1, <3>2, <3>3 DEF ItemsInv
  <2>7. SessionInv(u) /\ Flushing(u) /\ Holds(u) = Holds(s)
    BY <2>2, <2>3, <2>4, <2>5, <2>6 DEF SessionInv, Flushing, Holds
  <2> QED
    BY <1>1, <2>1, <2>2, <2>7, SessionStep, StaysApart, BookStays
<1>13. CASE ~ it.lazy
  <2> DEFINE u == [t EXCEPT !.at = "flush"]
  <2>1. Become(w, Sent(u))
    BY <1>2, <1>6, <1>13
  <2>2. /\ DOMAIN u = Fields /\ u.at = "flush" /\ u.todo = todo /\ u.dels = s.dels
        /\ u.job = s.job /\ u.began = s.began /\ u.n = s.n /\ u.mine = s.mine /\ u.gone = s.gone
    BY <1>5 DEF Fields
  <2> HIDE DEF u
  <2>3. TodoInv(u)
    BY <1>11, <2>2 DEF TodoInv
  <2>4. SessionInv(u) /\ Holds(u) = Holds(s)
    BY <1>3, <1>4, <1>11, <2>2, <2>3, LongerTodo
  <2>5. /\ SessionInv(Sent(u)) /\ Flushing(Sent(u))
        /\ Holds(Sent(u)) = Holds(s) /\ Sent(u).job = s.job
    BY <2>2, <2>4, SentInOrder DEF IInv, BookInv
  <2> DEFINE r == Sent(u)
  <2> HIDE DEF r
  <2>6. Become(w, r) /\ SessionInv(r) /\ Flushing(r) /\ Holds(r) = Holds(s) /\ r.job = s.job
    BY <2>1, <2>5 DEF r
  <2> QED
    BY <1>1, <2>6, SessionStep, StaysApart, BookStays
<1> QED
  BY <1>12, <1>13

\* The row of the next statement is of the form of all rows.
LEMMA NextWriteFacts ==
  ASSUME NEW w \in Sessions, IInv, Ready(w)
  PROVE  /\ SessionInv(ses[w]) /\ ShapeInv(ses[w])
         /\ ses[w].at = "flush" /\ ses[w].job \in Jobs /\ ses[w].job \notin DOMAIN known
         /\ Deleting(ses[w]) =>
               FirstOf(ses[w].dels) \in ses[w].dels /\ NextWrite(ses[w]) = FirstOf(ses[w].dels)
         /\ ~ Deleting(ses[w]) =>
               /\ ses[w].dels = {} /\ ses[w].todo # <<>>
               /\ NextWrite(ses[w]) = Head(ses[w].todo).id
               /\ StatementInv(ses[w], Head(ses[w].todo))
<1> DEFINE s == ses[w]
<1>1. SessionInv(s) /\ ShapeInv(s) /\ Flushing(s) /\ s.at = "flush"
  BY SessionFacts DEF Ready
<1>2. s.job \in Jobs /\ s.job \notin DOMAIN known
  BY <1>1, SessionFacts
<1>3. ASSUME Deleting(s)
      PROVE  FirstOf(s.dels) \in s.dels /\ NextWrite(s) = FirstOf(s.dels)
  <2>1. s.dels # {}
    BY <1>3 DEF Deleting
  <2>2. DOMAIN known \subseteq Jobs
    BY ModelStoreAssumption DEF IInv, BookInv
  <2>3. \A id \in s.dels : id[2] \in Nat /\ id[3] \in Jobs
    BY <1>1, <2>2 DEF SessionInv, GoneInv, Removed
  <2>4. FirstOf(s.dels) \in s.dels
    <3> DEFINE ids == s.dels
    <3> HIDE DEF ids
    <3>1. ids # {} /\ \A id \in ids : id[2] \in Nat /\ id[3] \in Jobs
      BY <2>1, <2>3 DEF ids
    <3>2. FirstOf(ids) \in ids
      BY <3>1, FirstOfIsIn
    <3> QED
      BY <3>2 DEF ids
  <2> QED
    BY <1>3, <2>4 DEF NextWrite
<1>4. ASSUME ~ Deleting(s)
      PROVE  /\ s.dels = {} /\ s.todo # <<>>
             /\ NextWrite(s) = Head(s.todo).id
             /\ StatementInv(s, Head(s.todo))
  <2>1. s.dels = {} /\ s.todo # <<>>
    BY <1>1, <1>4 DEF Deleting, Flushing
  <2>2. Head(s.todo) = s.todo[1] /\ 1 \in 1 .. Len(s.todo)
    BY <1>1, <2>1, SequenceFacts DEF ShapeInv
  <2>3. StatementInv(s, Head(s.todo))
    BY <1>1, <2>2 DEF SessionInv, TodoInv
  <2> QED
    BY <1>4, <2>1, <2>3 DEF NextWrite
<1> HIDE DEF s
<1> QED
  BY <1>1, <1>2, <1>3, <1>4 DEF s

\* A session that writes the row nobody is in the way of stays apart.
LEMMA WritesApart ==
  ASSUME NEW w \in Sessions, IInv, Ready(w), NEW t, t.job = ses[w].job,
         Holds(t) \subseteq Holds(ses[w]) \cup {NextWrite(ses[w])},
         NEW v \in Sessions \ {w}
  PROVE  Apart(v, t)
<1>1. Apart(v, ses[w])
  BY DEF IInv
<1>2. \A id \in Holds(ses[v]) : ~ Clash(NextWrite(ses[w]), id)
  BY DEF Ready, Obstructs
<1>3. \A id \in Holds(ses[v]) : ~ Clash(id, NextWrite(ses[w]))
  BY <1>2, ClashIsMutual
<1> QED
  BY <1>1, <1>3 DEF Apart

LEMMA DeleteStep ==
  ASSUME NEW w \in Sessions, IInv, Delete(w)
  PROVE  IInv'
<1> DEFINE s == ses[w]
           id == FirstOf(s.dels)
           t == [s EXCEPT !.dels = @ \ {id}, !.waiting = FALSE, !.gone = @ \cup ({id} \cap DOMAIN db)]
<1>1. /\ Ready(w) /\ Deleting(s) /\ Become(w, Sent(t))
      /\ UNCHANGED <<db, artifact, plan, known, attempts, faults>>
  BY DEF Delete
<1>2. /\ SessionInv(s) /\ ShapeInv(s) /\ s.at = "flush"
      /\ id \in s.dels /\ NextWrite(s) = id
  BY <1>1, NextWriteFacts
<1>3. /\ DOMAIN t = Fields /\ t.at = "flush" /\ t.todo = s.todo /\ t.dels = s.dels \ {id}
      /\ t.job = s.job /\ t.began = s.began /\ t.n = s.n /\ t.mine = s.mine
      /\ t.gone = s.gone \cup ({id} \cap DOMAIN db)
  BY <1>2 DEF ShapeInv, Fields
<1> HIDE DEF t, id
<1>4. Remaining(t) = Remaining(s) /\ Current(t) = Current(s)
  BY <1>3, SamePlace
<1>5. /\ Removed(t) \subseteq Removed(s)
      /\ Removed(s) \cap DOMAIN db \subseteq Removed(t)
      /\ s.gone \subseteq t.gone
  BY <1>2, <1>3 DEF Removed
<1>6. ShapeInv(t)
  BY <1>2, <1>3, <1>4 DEF ShapeInv
<1>7. TodoInv(t) /\ MineInv(t) /\ KeyInv(t)
  BY <1>2, <1>3 DEF SessionInv, TodoInv, StatementInv, MineInv, KeyInv
<1>8. GoneInv(t)
  BY <1>2, <1>3, <1>5 DEF SessionInv, GoneInv
<1>9. \A i, it : Left(i, it) \subseteq Removed(s) => Left(i, it) \subseteq Removed(t)
  BY <1>5 DEF Left
<1>10. WholeInv(t)
  BY <1>2, <1>5, <1>9 DEF SessionInv, WholeInv
<1>11. ItemsInv(t)
  <2>1. ItemsInv(s)
    BY <1>2 DEF SessionInv
  <2>2. \A scope : Swept(s, scope, s.gone) => Swept(t, scope, t.gone)
    BY <1>3, <1>5 DEF Swept
  <2>3. \A scope : Swept(s, scope, Removed(s)) => Swept(t, scope, Removed(t))
    BY <1>3, <1>9 DEF Swept
  <2>4. \A n \in DOMAIN Items[t.job] :
            n <= t.n /\ Items[t.job][n].scope[1] \in Replaced =>
              /\ Written(t.job, Items[t.job][n]) \subseteq DOMAIN t.mine
              /\ Swept(t, Items[t.job][n].scope, t.gone)
    BY <1>2, <1>3, <2>1, <2>2 DEF ItemsInv
  <2>5. Current(t).scope[1] \in Replaced =>
          /\ Written(t.job, Current(t)) \subseteq
                DOMAIN t.mine \cup {t.todo[k].id : k \in 1 .. Len(t.todo)}
          /\ Swept(t, Current(t).scope, Removed(t))
    BY <1>2, <1>3, <1>4, <2>1, <2>3 DEF ItemsInv
  <2> QED
    BY <2>4, <2>5 DEF ItemsInv
<1>12. SessionInv(t)
  BY <1>6, <1>7, <1>8, <1>10, <1>11 DEF SessionInv
<1>13. Holds(t) \subseteq Holds(s) \cup {id}
  BY <1>3 DEF Holds
<1> DEFINE r == Sent(t)
<1> HIDE DEF r
<1>14. Become(w, r) /\ SessionInv(r) /\ Flushing(r) /\ Holds(r) = Holds(t) /\ r.job = s.job
  BY <1>1, <1>3, <1>12, SentInOrder DEF r, IInv, BookInv
<1>15. \A v \in Sessions \ {w} : Apart(v, r)
  BY <1>1, <1>2, <1>13, <1>14, WritesApart
<1> QED
  BY <1>1, <1>14, <1>15, SessionStep, BookStays

LEMMA SendStep ==
  ASSUME NEW w \in Sessions, IInv, Send(w)
  PROVE  IInv'
<1> DEFINE s == ses[w]
           stmt == Head(s.todo)
           row == IF stmt.insert THEN stmt.cols ELSE Merged(stmt)
           mine == [id \in DOMAIN s.mine \cup {stmt.id} |-> IF id = stmt.id THEN row ELSE s.mine[id]]
           t == [s EXCEPT !.todo = Tail(@), !.waiting = FALSE, !.mine = mine]
<1>1. /\ Ready(w) /\ ~ Deleting(s) /\ ~ KeyTaken(w, stmt)
      /\ UNCHANGED <<db, artifact, plan, known, attempts, faults>>
  BY DEF Send
<1>2. Become(w, Sent(t))
  BY DEF Send
<1>3. /\ SessionInv(s) /\ ShapeInv(s) /\ s.at = "flush"
      /\ s.dels = {} /\ s.todo # <<>> /\ NextWrite(s) = stmt.id /\ StatementInv(s, stmt)
  BY <1>1, NextWriteFacts
<1>4. /\ DOMAIN t = Fields /\ t.at = "flush" /\ t.todo = Tail(s.todo) /\ t.dels = s.dels
      /\ t.job = s.job /\ t.began = s.began /\ t.n = s.n /\ t.mine = mine /\ t.gone = s.gone
  BY <1>3 DEF ShapeInv, Fields
<1>5. DOMAIN row \subseteq Columns
  <2>1. CASE stmt.insert
    BY <1>3, <2>1 DEF StatementInv
  <2>2. CASE ~ stmt.insert
    <3>1. DOMAIN db[stmt.id] \subseteq Columns
      BY <1>3, <2>2 DEF StatementInv, IInv, RowInv
    <3>2. DOMAIN Merged(stmt) = DOMAIN db[stmt.id]
      BY DEF Merged
    <3> QED
      BY <2>2, <3>1, <3>2
  <2> QED
    BY <2>1, <2>2
<1> HIDE DEF t, row
<1>6. /\ DOMAIN mine = DOMAIN s.mine \cup {stmt.id}
      /\ mine[stmt.id] = row
      /\ \A id \in DOMAIN s.mine : id # stmt.id => mine[id] = s.mine[id]
  OBVIOUS
<1> HIDE DEF mine, stmt
<1>7. Remaining(t) = Remaining(s) /\ Current(t) = Current(s) /\ Removed(t) = Removed(s)
  BY <1>4, SamePlace DEF Removed
<1>8. /\ Sequence(Tail(s.todo)) /\ Len(s.todo) \in Nat /\ Len(Tail(s.todo)) = Len(s.todo) - 1
      /\ \A k \in 1 .. Len(s.todo) - 1 : Tail(s.todo)[k] = s.todo[k + 1]
      /\ stmt = s.todo[1]
  BY <1>3, SequenceFacts DEF ShapeInv, stmt
<1>9. ShapeInv(t)
  BY <1>3, <1>4, <1>7, <1>8 DEF ShapeInv
<1>10. TodoInv(t)
  <2>1. ASSUME NEW k \in 1 .. Len(t.todo)
        PROVE  StatementInv(t, t.todo[k])
    <3>1. k + 1 \in 1 .. Len(s.todo) /\ t.todo[k] = s.todo[k + 1]
      BY <1>4, <1>8
    <3>2. StatementInv(s, s.todo[k + 1])
      BY <1>3, <3>1 DEF SessionInv, TodoInv
    <3> QED
      BY <1>4, <3>1, <3>2 DEF StatementInv
  <2> QED
    BY <2>1 DEF TodoInv
<1>11. MineInv(t)
  <2>1. ASSUME NEW id \in DOMAIN t.mine
        PROVE  /\ id[2] \in Nat
               /\ DOMAIN t.mine[id] \subseteq Columns
               /\ id[3] = t.job \/ id \in DOMAIN db
               /\ TableOf(id) \in Replaced => id[3] = t.job
    <3>1. CASE id = stmt.id
      <4>1. DOMAIN t.mine[id] \subseteq Columns
        BY <1>4, <1>5, <1>6, <3>1
      <4>2. CASE stmt.insert
        BY <1>3, <1>4, <3>1, <4>1, <4>2 DEF StatementInv
      <4>3. CASE ~ stmt.insert
        BY <1>3, <1>4, <3>1, <4>1, <4>3 DEF StatementInv, IInv, RowInv
      <4> QED
        BY <4>2, <4>3
    <3>2. CASE id # stmt.id
      <4>1. id \in DOMAIN s.mine /\ t.mine[id] = s.mine[id]
        BY <1>4, <1>6, <3>2
      <4> QED
        BY <1>3, <1>4, <4>1 DEF SessionInv, MineInv
    <3> QED
      BY <3>1, <3>2
  <2> QED
    BY <2>1 DEF MineInv
<1>12. GoneInv(t) /\ WholeInv(t)
  BY <1>3, <1>4, <1>7 DEF SessionInv, GoneInv, WholeInv
<1>13. ItemsInv(t)
  <2>1. ItemsInv(s)
    BY <1>3 DEF SessionInv
  <2>2. \A scope, ids : Swept(t, scope, ids) <=> Swept(s, scope, ids)
    BY <1>4 DEF Swept
  <2>3. DOMAIN s.mine \subseteq DOMAIN t.mine
    BY <1>4, <1>6
  <2>4. ASSUME NEW k \in 1 .. Len(s.todo)
        PROVE  s.todo[k].id \in DOMAIN t.mine \cup {t.todo[m].id : m \in 1 .. Len(t.todo)}
    <3>1. CASE k = 1
      BY <1>4, <1>6, <1>8, <3>1
    <3>2. CASE k # 1
      <4>1. k - 1 \in 1 .. Len(t.todo) /\ t.todo[k - 1] = s.todo[k]
        BY <1>4, <1>8, <3>2
      <4> QED
        BY <4>1
    <3> QED
      BY <3>1, <3>2
  <2>5. DOMAIN s.mine \cup {s.todo[k].id : k \in 1 .. Len(s.todo)}
          \subseteq DOMAIN t.mine \cup {t.todo[m].id : m \in 1 .. Len(t.todo)}
    BY <2>3, <2>4
  <2> QED
    BY <1>3, <1>4, <1>7, <2>1, <2>2, <2>3, <2>5 DEF ItemsInv
<1>14. KeyInv(t)
  <2>1. ASSUME NEW p \in DOMAIN db \ s.gone, Unique(stmt.id), SameKey(p, stmt.id)
        PROVE  p[3] = stmt.id[3]
    <3>1. CASE stmt.insert
      BY <1>1, <2>1, <3>1 DEF KeyTaken
    <3>2. CASE ~ stmt.insert
      <4>1. stmt.id \in DOMAIN db
        BY <1>3, <3>2 DEF StatementInv
      <4>2. Unique(p)
        BY <2>1 DEF Unique, OwnerOf, SameKey
      <4> QED
        BY <2>1, <4>1, <4>2 DEF IInv, RowInv
    <3> QED
      BY <3>1, <3>2
  <2>2. KeyInv(s)
    BY <1>3 DEF SessionInv
  <2> QED
    BY <1>4, <1>6, <2>1, <2>2 DEF KeyInv
<1>15. SessionInv(t)
  BY <1>9, <1>10, <1>11, <1>12, <1>13, <1>14 DEF SessionInv
<1>16. Holds(t) \subseteq Holds(s) \cup {stmt.id}
  BY <1>4, <1>6 DEF Holds
<1> DEFINE r == Sent(t)
<1> HIDE DEF r
<1>17. Become(w, r) /\ SessionInv(r) /\ Flushing(r) /\ Holds(r) = Holds(t) /\ r.job = s.job
  BY <1>2, <1>4, <1>15, SentInOrder DEF r, IInv, BookInv
<1>18. \A v \in Sessions \ {w} : Apart(v, r)
  BY <1>1, <1>3, <1>16, <1>17, WritesApart
<1> QED
  BY <1>1, <1>17, <1>18, SessionStep, BookStays

\* A row of an item of a job, and what an item of a job says.
LEMMA WrittenFacts ==
  ASSUME NEW j, NEW it \in ReplacedBy(j)
  PROVE  \A id \in Written(j, it) : id[1] = it.scope /\ id[3] = j /\ TableOf(id) \in Replaced
  BY DEF Written, ReplacedBy, TableOf

\* What a commit of w does to rows and records.
LEMMA CommitFacts ==
  ASSUME NEW w \in Sessions, IInv, Commit(w)
  PROVE  /\ SessionInv(ses[w]) /\ ses[w].job \in Jobs /\ ses[w].job \in plan \ DOMAIN known
         /\ ses[w].began \subseteq DOMAIN known
         /\ DOMAIN db' = (DOMAIN db \ ses[w].gone) \cup DOMAIN ses[w].mine
         /\ \A id \in DOMAIN db' : db'[id] = IF id \in DOMAIN ses[w].mine THEN ses[w].mine[id] ELSE db[id]
         /\ DOMAIN known' = DOMAIN known \cup {ses[w].job}
         /\ known'[ses[w].job] = ses[w].began
         /\ \A j \in DOMAIN known : known'[j] = known[j]
<1> DEFINE s == ses[w]
<1>1. /\ s.at = "item" /\ Remaining(s) = {} /\ db' = View(s)
      /\ known' = [j \in DOMAIN known \cup {s.job} |-> IF j = s.job THEN s.began ELSE known[j]]
  BY DEF Commit
<1>2. /\ SessionInv(s) /\ ShapeInv(s) /\ s.dels = {} /\ s.job \in Jobs
      /\ s.job \in plan \ DOMAIN known /\ s.began \subseteq DOMAIN known
  BY <1>1, SessionFacts DEF ShapeInv
<1> HIDE DEF s
<1>3. /\ DOMAIN db' = (DOMAIN db \ s.gone) \cup DOMAIN s.mine
      /\ \A id \in DOMAIN db' : db'[id] = IF id \in DOMAIN s.mine THEN s.mine[id] ELSE db[id]
  BY <1>1 DEF View
<1>4. /\ DOMAIN known' = DOMAIN known \cup {s.job}
      /\ known'[s.job] = s.began
      /\ \A j \in DOMAIN known : known'[j] = known[j]
  BY <1>1, <1>2
<1> QED
  BY <1>2, <1>3, <1>4 DEF s

\* What is left of an item of an earlier job after a commit of w: all or nothing
\* of what was.
LEMMA CommitLeaves ==
  ASSUME NEW w \in Sessions, IInv, Commit(w), NEW i \in DOMAIN known, NEW it \in ReplacedBy(i)
  PROVE  /\ Written(i, it) \cap DOMAIN db' = Left(i, it) \ ses[w].gone
         /\ Left(i, it) \cap ses[w].gone = {} \/ Left(i, it) \subseteq ses[w].gone
<1> DEFINE s == ses[w]
<1>1. /\ SessionInv(s) /\ s.job \notin DOMAIN known /\ s.at = "item"
      /\ DOMAIN db' = (DOMAIN db \ s.gone) \cup DOMAIN s.mine
  BY CommitFacts DEF Commit
<1>2. i # s.job
  BY <1>1
<1> HIDE DEF s
<1>3. Written(i, it) \cap DOMAIN s.mine = {}
  <2>1. \A id \in Written(i, it) : id[3] = i /\ TableOf(id) \in Replaced
    BY WrittenFacts
  <2> QED
    BY <1>1, <1>2, <2>1 DEF SessionInv, MineInv
<1>4. Written(i, it) \cap DOMAIN db' = Left(i, it) \ s.gone
  BY <1>1, <1>3 DEF Left
<1>5. s.gone \cap Written(i, it) = {} \/ Left(i, it) \subseteq s.gone
  BY <1>1 DEF SessionInv, ShapeInv, WholeInv, Removed
<1>6. Left(i, it) \subseteq Written(i, it)
  BY DEF Left
<1> QED
  BY <1>4, <1>5, <1>6 DEF s

\* The items of the job itself are there, and what they replace is deleted.
LEMMA CommitWrites ==
  ASSUME NEW w \in Sessions, IInv, Commit(w), NEW it \in ReplacedBy(ses[w].job)
  PROVE  /\ Written(ses[w].job, it) \subseteq DOMAIN db'
         /\ Swept(ses[w], it.scope, ses[w].gone)
<1> DEFINE s == ses[w]
<1>1. /\ SessionInv(s) /\ s.job \in Jobs
      /\ DOMAIN db' = (DOMAIN db \ s.gone) \cup DOMAIN s.mine
  BY CommitFacts
<1>2. s.at = "item" /\ Remaining(s) = {}
  BY DEF Commit
<1> HIDE DEF s
<1>3. PICK n \in DOMAIN Items[s.job] : it = Items[s.job][n] /\ it.scope[1] \in Replaced
  BY DEF ReplacedBy, s
<1>4. n <= s.n
  <2>1. n \in Nat /\ s.n \in Nat
    BY <1>1, ItemFacts DEF SessionInv, ShapeInv
  <2> QED
    BY <1>2, <2>1 DEF Remaining
<1>5. Written(s.job, it) \subseteq DOMAIN s.mine /\ Swept(s, it.scope, s.gone)
  BY <1>1, <1>2, <1>3, <1>4 DEF SessionInv, ItemsInv
<1> QED
  BY <1>1, <1>5 DEF s

\* A commit of w leaves the other sessions in order.
LEMMA OthersInOrder ==
  ASSUME NEW w \in Sessions, IInv, Commit(w), NEW v \in Sessions \ {w}
  PROVE  SessionInv(ses[v])' /\ Flushing(ses[v])'
<1> DEFINE s == ses[w]
           t == ses[v]
<1>1. ses'[v] = t /\ plan' = plan
  BY DEF Commit, Become, IInv
<1>2. SessionInv(t) /\ ShapeInv(t) /\ Flushing(t)
  BY SessionFacts
<1>3. SessionInv(s) /\ s.job \in Jobs
  BY CommitFacts
<1>4. DOMAIN db' = (DOMAIN db \ s.gone) \cup DOMAIN s.mine
  BY CommitFacts
<1>5. DOMAIN known' = DOMAIN known \cup {s.job}
  BY CommitFacts
<1>6. Apart(w, t)
  BY DEF IInv
<1>7. \A i \in DOMAIN known : \A it \in ReplacedBy(i) : Written(i, it) \cap DOMAIN db' \subseteq Left(i, it)
  BY CommitLeaves
<1>8. t.began \subseteq DOMAIN known
  BY <1>2 DEF ShapeInv
<1>9. t.job # s.job
  BY <1>3, <1>6, ModelStoreAssumption DEF Apart
<1> HIDE DEF s, t
<1>10. \A i \in Holds(s), k \in Holds(t) : ~ Clash(i, k)
  BY <1>6 DEF Apart, s
<1>11. ShapeInv(t)'
  <2>1. t' = t
    BY <1>1 DEF t
  <2> QED
    BY <1>1, <1>2, <1>5, <1>9, <2>1 DEF ShapeInv
<1>12. t' = t
  BY <1>1 DEF t
<1>13. \A id \in DOMAIN db : id \in Holds(t) \/ TableOf(id) \notin Replaced => id \in DOMAIN db'
  <2>1. \A id \in s.gone : TableOf(id) \in Replaced /\ id \in Holds(s)
    BY <1>3 DEF SessionInv, GoneInv, Removed, Holds
  <2>2. \A id \in s.gone : id \notin Holds(t)
    BY <1>10, <2>1 DEF Clash
  <2> QED
    BY <1>4, <2>1, <2>2
<1>14. TodoInv(t)'
  BY <1>2, <1>12, <1>13 DEF SessionInv, TodoInv, StatementInv
<1>15. MineInv(t)'
  <2>1. DOMAIN t.mine \subseteq Holds(t)
    BY DEF Holds
  <2> QED
    BY <1>2, <1>12, <1>13, <2>1 DEF SessionInv, MineInv
<1>16. GoneInv(t)'
  <2>1. t.gone \subseteq Holds(t)
    BY DEF Holds
  <2> QED
    BY <1>2, <1>5, <1>12, <1>13, <2>1 DEF SessionInv, GoneInv, Removed
<1>17. WholeInv(t)'
  <2>1. ASSUME NEW i \in DOMAIN known', NEW it \in ReplacedBy(i)
        PROVE  Removed(t) \cap Written(i, it) = {} \/ Written(i, it) \cap DOMAIN db' \subseteq Removed(t)
    <3>1. CASE i \in DOMAIN known
      <4>1. Removed(t) \cap Written(i, it) = {} \/ Left(i, it) \subseteq Removed(t)
        BY <1>2, <3>1 DEF SessionInv, WholeInv
      <4> QED
        BY <1>7, <3>1, <4>1
    <3>2. CASE i \notin DOMAIN known
      <4>1. \A id \in Removed(t) : id[3] \in DOMAIN known
        BY <1>2 DEF SessionInv, GoneInv
      <4> QED
        BY <3>2, <4>1, WrittenFacts
    <3> QED
      BY <3>1, <3>2
  <2> QED
    BY <1>12, <2>1 DEF WholeInv, Removed, Left
<1>18. ItemsInv(t)'
  <2>1. \A scope, ids : Swept(t, scope, ids) => Swept(t, scope, ids)'
    BY <1>7, <1>8, <1>12 DEF Swept, Left
  <2>2. ItemsInv(t)
    BY <1>2 DEF SessionInv
  <2> QED
    BY <1>12, <2>1, <2>2 DEF ItemsInv, Removed
<1>19. KeyInv(t)'
  <2>1. ASSUME NEW p \in DOMAIN db' \ t.gone, NEW q \in DOMAIN t.mine, Unique(q), SameKey(p, q)
        PROVE  p[3] = q[3]
    <3>1. CASE p \in DOMAIN s.mine
      <4>1. ~ Clash(p, q)
        BY <1>10, <3>1 DEF Holds
      <4>2. Unique(p)
        BY <2>1 DEF Unique, OwnerOf, SameKey
      <4> QED
        BY <2>1, <4>1, <4>2 DEF Clash
    <3>2. CASE p \notin DOMAIN s.mine
      <4>1. p \in DOMAIN db
        BY <1>4, <3>2
      <4> QED
        BY <1>2, <2>1, <4>1 DEF SessionInv, KeyInv
    <3> QED
      BY <3>1, <3>2
  <2> QED
    BY <1>12, <2>1 DEF KeyInv
<1>20. Flushing(t)'
  BY <1>2, <1>12 DEF Flushing
<1> QED
  BY <1>11, <1>14, <1>15, <1>16, <1>17, <1>18, <1>19, <1>20 DEF SessionInv, t

LEMMA CommitStep ==
  ASSUME NEW w \in Sessions, IInv, Commit(w)
  PROVE  IInv'
<1> DEFINE s == ses[w]
<1>1. /\ DOMAIN ses' = Sessions /\ ses'[w] = Idle
      /\ \A v \in Sessions \ {w} : ses'[v] = ses[v]
      /\ UNCHANGED <<artifact, plan, attempts, faults>>
  BY DEF Commit, Become, IInv
<1>2. /\ SessionInv(s) /\ s.job \in Jobs /\ s.job \in plan \ DOMAIN known
      /\ s.began \subseteq DOMAIN known
      /\ DOMAIN known' = DOMAIN known \cup {s.job}
      /\ known'[s.job] = s.began
      /\ \A j \in DOMAIN known : known'[j] = known[j]
  BY CommitFacts
<1>3. /\ DOMAIN db' = (DOMAIN db \ s.gone) \cup DOMAIN s.mine
      /\ \A id \in DOMAIN db' : db'[id] = IF id \in DOMAIN s.mine THEN s.mine[id] ELSE db[id]
  BY CommitFacts
<1> HIDE DEF s
<1>4. BookInv'
  <2>1. DOMAIN known' \subseteq plan
    BY <1>2 DEF IInv, BookInv
  <2>2. \A j \in DOMAIN known' : known'[j] \subseteq DOMAIN known'
    BY <1>2 DEF IInv, BookInv
  <2> QED
    BY <1>1, <2>1, <2>2 DEF IInv, BookInv
<1>5. RowInv'
  <2>1. MineInv(s) /\ GoneInv(s) /\ KeyInv(s)
    BY <1>2 DEF SessionInv
  <2>2. ASSUME NEW id \in DOMAIN db'
        PROVE  id[2] \in Nat /\ id[3] \in DOMAIN known' /\ DOMAIN db'[id] \subseteq Columns
    <3>1. CASE id \in DOMAIN s.mine
      BY <1>2, <1>3, <2>1, <3>1 DEF MineInv, IInv, RowInv
    <3>2. CASE id \notin DOMAIN s.mine
      BY <1>2, <1>3, <3>2 DEF IInv, RowInv
    <3> QED
      BY <3>1, <3>2
  <2>3. ASSUME NEW p \in DOMAIN db', NEW q \in DOMAIN db', Unique(p), SameKey(p, q)
        PROVE  p[3] = q[3]
    <3>1. Unique(q) /\ SameKey(q, p)
      BY <2>3 DEF Unique, OwnerOf, SameKey
    <3>2. CASE p \in DOMAIN db \ s.gone /\ q \in DOMAIN db \ s.gone
      BY <2>3, <3>2 DEF IInv, RowInv
    <3>3. CASE p \in DOMAIN db \ s.gone /\ q \in DOMAIN s.mine
      BY <2>1, <2>3, <3>1, <3>3 DEF KeyInv
    <3>4. CASE p \in DOMAIN s.mine /\ q \in DOMAIN db \ s.gone
      <4>1. q[3] = p[3]
        BY <2>1, <2>3, <3>1, <3>4 DEF KeyInv
      <4> QED
        BY <4>1
    <3>5. CASE p \in DOMAIN s.mine /\ q \in DOMAIN s.mine
      <4>1. ASSUME NEW r \in DOMAIN s.mine, r[3] # s.job
            PROVE  r \in DOMAIN db \ s.gone
        BY <2>1, <4>1 DEF MineInv, GoneInv, Removed
      <4>2. CASE p[3] = s.job /\ q[3] = s.job
        BY <4>2
      <4>3. CASE p[3] # s.job
        <5>1. p \in DOMAIN db \ s.gone
          BY <3>5, <4>1, <4>3
        <5> QED
          BY <2>1, <3>1, <3>5, <2>3, <5>1 DEF KeyInv
      <4>4. CASE q[3] # s.job
        <5>1. q \in DOMAIN db \ s.gone
          BY <3>5, <4>1, <4>4
        <5>2. q[3] = p[3]
          BY <2>1, <2>3, <3>1, <3>5, <5>1 DEF KeyInv
        <5> QED
          BY <5>2
      <4> QED
        BY <4>2, <4>3, <4>4
    <3> QED
      BY <1>3, <3>2, <3>3, <3>4, <3>5
  <2> QED
    BY <2>2, <2>3 DEF RowInv
<1>6. ASSUME NEW v \in Sessions
      PROVE  SessionInv(ses[v])' /\ Flushing(ses[v])'
  <2>1. CASE v # w
    BY <2>1, OthersInOrder
  <2>2. CASE v = w
    <3>1. /\ DOMAIN Idle = Fields /\ Idle.at = "idle" /\ Idle.n = 0
          /\ Idle.mine = Empty /\ Idle.gone = {} /\ Idle.dels = {} /\ Idle.todo = <<>> /\ Idle.began = {}
      BY DEF Idle, Fields
    <3>2. Sequence(<<>>)
      BY <<>> \in Seq({}) DEF Sequence
    <3>3. ses'[v] = Idle
      BY <1>1, <2>2
    <3> HIDE DEF Idle
    <3>4. ShapeInv(ses[v])'
      BY <3>1, <3>2, <3>3 DEF ShapeInv
    <3>5. TodoInv(ses[v])' /\ MineInv(ses[v])' /\ GoneInv(ses[v])' /\ KeyInv(ses[v])'
      BY <3>1, <3>3 DEF TodoInv, MineInv, GoneInv, KeyInv, Removed, Empty
    <3>6. WholeInv(ses[v])' /\ ItemsInv(ses[v])' /\ Flushing(ses[v])'
      BY <3>1, <3>3 DEF WholeInv, ItemsInv, Removed, Flushing
    <3> QED
      BY <3>4, <3>5, <3>6 DEF SessionInv
  <2> QED
    BY <2>1, <2>2
<1>7. ASSUME NEW u \in Sessions, NEW v \in Sessions, u # v
      PROVE  Apart(u, ses[v])'
  <2>1. Holds(Idle) = {} /\ Idle.job = None
    BY DEF Holds, Idle, Empty
  <2> HIDE DEF Idle
  <2>2. CASE u = w \/ v = w
    BY <1>1, <1>7, <2>1, <2>2 DEF Apart
  <2>3. CASE u # w /\ v # w
    <3>1. Apart(u, ses[v]) /\ ses'[u] = ses[u] /\ ses'[v] = ses[v]
      BY <1>1, <1>7, <2>3 DEF IInv
    <3> QED
      BY <3>1 DEF Apart
  <2> QED
    BY <2>2, <2>3
<1>8. RowsWhole'
  <2>1. ASSUME NEW j \in DOMAIN known', NEW it \in ReplacedBy(j)
        PROVE  Written(j, it) \cap DOMAIN db' \in {{}, Written(j, it)}
    <3>1. CASE j \in DOMAIN known
      <4>1. Left(j, it) \in {{}, Written(j, it)}
        BY <3>1 DEF IInv, RowsWhole
      <4>2. /\ Written(j, it) \cap DOMAIN db' = Left(j, it) \ s.gone
            /\ Left(j, it) \cap s.gone = {} \/ Left(j, it) \subseteq s.gone
        BY <3>1, CommitLeaves DEF s
      <4> QED
        BY <4>1, <4>2
    <3>2. CASE j = s.job
      <4>1. Written(j, it) \subseteq DOMAIN db'
        BY <3>2, CommitWrites DEF s
      <4> QED
        BY <4>1
    <3> QED
      BY <1>2, <3>1, <3>2
  <2> QED
    BY <2>1 DEF RowsWhole, Left
<1>9. ReplacesEarlier'
  <2>1. ASSUME NEW j \in DOMAIN known', NEW i \in known'[j],
               NEW a \in ReplacedBy(i), NEW b \in ReplacedBy(j), a.scope = b.scope
        PROVE  Written(i, a) \cap DOMAIN db' = {}
    <3>1. i \in DOMAIN known
      BY <1>2 DEF IInv, BookInv
    <3>2. Written(i, a) \cap DOMAIN db' = Left(i, a) \ s.gone
      BY <3>1, CommitLeaves DEF s
    <3>3. CASE j \in DOMAIN known
      <4>1. Left(i, a) = {}
        BY <1>2, <2>1, <3>3 DEF IInv, ReplacesEarlier
      <4> QED
        BY <3>2, <4>1
    <3>4. CASE j = s.job
      <4>1. i \in s.began
        BY <1>2, <3>4
      <4>2. Swept(s, b.scope, s.gone)
        BY <3>4, CommitWrites DEF s
      <4>3. Left(i, a) \subseteq s.gone
        BY <2>1, <4>1, <4>2 DEF Swept
      <4> QED
        BY <3>2, <4>3
    <3> QED
      BY <1>2, <3>3, <3>4
  <2> QED
    BY <2>1 DEF ReplacesEarlier, Left
<1> QED
  BY <1>1, <1>4, <1>5, <1>6, <1>7, <1>8, <1>9 DEF IInv

-----------------------------------------------------------------------------
(* The theorems.                                                           *)

LEMMA StepIInv ==
  ASSUME NEW w \in Sessions, IInv, Step(w)
  PROVE  IInv'
<1>1. CASE Conflict(w) \/ DeadlockVictim(w)
  <2>1. Become(w, Idle) /\ UNCHANGED <<db, artifact, plan, known, attempts, faults>>
    BY <1>1 DEF Conflict, DeadlockVictim
  <2> QED
    BY <2>1, SessionEnds, BookStays
<1> QED
  BY <1>1, SaveArtifactStep, ReplaceRowsStep, AddRowStep, ChangeRowStep, BlockStep,
     DeleteStep, SendStep, ReadOverlayStep, CommitStep DEF Step

LEMMA FailStep ==
  ASSUME NEW w \in Sessions, IInv, Fail(w)
  PROVE  IInv'
<1>1. BookInv'
  BY ModelStoreAssumption DEF Fail, IInv, BookInv
<1> QED
  BY <1>1, SessionEnds DEF Fail

LEMMA UnchangedIInv ==
  ASSUME IInv, UNCHANGED vars
  PROVE  IInv'
<1>1. BookInv' /\ RowInv' /\ RowsWhole' /\ ReplacesEarlier'
  BY DEF vars, IInv, BookInv, RowInv, RowsWhole, ReplacesEarlier, Left
<1>2. \A w \in Sessions : SessionInv(ses'[w]) /\ Flushing(ses'[w])
  BY DEF vars, IInv
<1>3. \A w \in Sessions : SessionInv(ses[w])'
  BY <1>2, SameRows DEF vars
<1>4. \A w \in Sessions : Flushing(ses[w])'
  BY <1>2 DEF Flushing
<1>5. \A v, w \in Sessions : v # w => Apart(v, ses[w])'
  BY DEF vars, IInv, Apart
<1> QED
  BY <1>1, <1>3, <1>4, <1>5 DEF vars, IInv

LEMMA NextIInv == IInv /\ [Next]_vars => IInv'
<1> SUFFICES ASSUME IInv, [Next]_vars
             PROVE  IInv'
  OBVIOUS
<1>1. CASE Next
  <2>1. CASE Quiescent
    BY <2>1, UnchangedIInv DEF Quiescent
  <2>2. ASSUME NEW w \in Sessions, Step(w) \/ Fail(w) \/ \E j \in Jobs : Begin(w, j) \/ RunCommand(w, j)
        PROVE  IInv'
    BY <2>2, StepIInv, FailStep, StartStep DEF Begin, RunCommand
  <2> QED
    BY <1>1, <2>1, <2>2 DEF Next
<1> QED
  BY <1>1, UnchangedIInv

\* The inductive invariant of the sessions, their statements and the rows.
THEOREM Invariance == Spec => []IInv
  BY InitIInv, NextIInv, PTL DEF Spec

\* Rows have the columns of their tables and were written by recorded jobs, and
\* what a session has deleted is still committed: nobody else deletes it.
THEOREM TypeCorrect == Spec => []TypeOK
<1>1. IInv => TypeOK
  <2> SUFFICES ASSUME IInv
               PROVE  TypeOK
    OBVIOUS
  <2>1. \A id \in DOMAIN db : id[3] \in plan /\ DOMAIN db[id] \subseteq Columns
    BY DEF IInv, RowInv, BookInv
  <2>2. ASSUME NEW w \in Sessions
        PROVE  /\ ses[w].at \in {"idle", "save", "item", "flush"}
               /\ ses[w].job \in plan \cup {None}
               /\ ses[w].began \subseteq DOMAIN known
               /\ ses[w].gone \subseteq DOMAIN db
    <3>1. ShapeInv(ses[w]) /\ GoneInv(ses[w])
      BY DEF IInv, SessionInv
    <3>2. Idle.job = None
      BY DEF Idle
    <3> HIDE DEF Idle
    <3> QED
      BY <3>1, <3>2 DEF ShapeInv, GoneInv
  <2>3. \A j \in DOMAIN known : known[j] \subseteq plan
    BY DEF IInv, BookInv
  <2> QED
    BY <2>1, <2>2, <2>3 DEF TypeOK, IInv, BookInv
<1> QED
  BY <1>1, Invariance, PTL

\* What a recorded run has replaced is there as a whole or not at all, in scopes
\* with and without a portfolio.
THEOREM WholeOrGone == Spec => []RowsWhole
<1>1. IInv => RowsWhole
  BY DEF IInv
<1> QED
  BY <1>1, Invariance, PTL

\* Where a run wrote its rows, none is left of a run recorded before it began.
THEOREM RunsReplace == Spec => []ReplacesEarlier
<1>1. IInv => ReplacesEarlier
  BY DEF IInv
<1> QED
  BY <1>1, Invariance, PTL

\* Of two runs of a portfolio that share a factor, step or multiple at most one
\* has rows in the scope: their rows are whole, and the shared one is unique.
THEOREM OneRunStays == Spec => []OneRunPerScope
<1>1. IInv => OneRunPerScope
  <2> SUFFICES ASSUME IInv,
                      NEW i \in DOMAIN known, NEW j \in DOMAIN known,
                      NEW a \in ReplacedBy(i), NEW b \in ReplacedBy(j),
                      i # j, a.scope = b.scope, a.scope[2] # None,
                      NEW k \in 1 .. Len(a.rows), NEW m \in 1 .. Len(b.rows),
                      a.rows[k] = b.rows[m],
                      Left(i, a) # {}, Left(j, b) # {}
               PROVE  FALSE
    BY DEF OneRunPerScope
  <2> DEFINE p == <<a.scope, a.rows[k], i>>
             q == <<b.scope, b.rows[m], j>>
  <2>1. Left(i, a) = Written(i, a) /\ Left(j, b) = Written(j, b)
    BY DEF IInv, RowsWhole
  <2>2. p \in Written(i, a) /\ q \in Written(j, b)
    BY DEF Written
  <2>3. p \in DOMAIN db /\ q \in DOMAIN db
    BY <2>1, <2>2 DEF Left
  <2>4. Unique(p) /\ SameKey(p, q)
    BY DEF Unique, OwnerOf, SameKey
  <2>5. p[3] = q[3]
    BY <2>3, <2>4 DEF IInv, RowInv
  <2> QED
    BY <2>5
<1> QED
  BY <1>1, Invariance, PTL
-----------------------------------------------------------------------------
(* Columns: who has computed a row.  This invariant is about the sessions   *)
(* that the first one describes, and preserved with it.                    *)

\* The column that tells which job has computed a row.
Stamp(table) ==
    IF table = "snapshot" THEN "features"
    ELSE IF table \in {"registry", "training", "prediction"} THEN "metrics"
    ELSE "fit"

Computed(id, cols, j) == Stamp(TableOf(id)) \in DOMAIN cols /\ cols[Stamp(TableOf(id))] = j

\* A row of one of the items of the job that inserts it.
Own(id) == \E n \in DOMAIN Items[id[3]] : id \in Written(id[3], Items[id[3]][n])

Scopes(j) == {Items[j][n].scope : n \in DOMAIN Items[j]}

\* A committed row was computed by a recorded job: of a replaced table, by the
\* one that inserted it.
ComputedInv ==
    \A id \in DOMAIN db :
        /\ Own(id)
        /\ \E j \in DOMAIN known : Computed(id, db[id], j)
        /\ TableOf(id) \in Replaced => Computed(id, db[id], id[3])

\* A write that job j makes or is going to make is about its scopes and says so.
WriteOk(j, id, cols) == id[1] \in Scopes(j) /\ Own(id) /\ Computed(id, cols, j)

WritesInv(s) ==
    /\ \A id \in DOMAIN s.mine : WriteOk(s.job, id, s.mine[id])
    /\ \A k \in 1 .. Len(s.todo) : WriteOk(s.job, s.todo[k].id, s.todo[k].cols)

\* The rows that a session has written or is going to write.
Writes(s) == DOMAIN s.mine \cup {s.todo[k].id : k \in 1 .. Len(s.todo)}

Reached(s, n) == n <= s.n \/ (s.at = "flush" /\ n = Place(s))

\* In the scope of each upserted item that a session has reached it writes a row.
ReachedInv(s) ==
    s.at # "idle" =>
        \A n \in DOMAIN Items[s.job] :
            Reached(s, n) /\ Items[s.job][n].scope[1] \notin Replaced =>
                \E id \in Writes(s) : id[1] = Items[s.job][n].scope

\* Between two flushes, what waits in memory is what a lazy item has left.
LazyInv(s) ==
    s.at # "flush" /\ s.todo # <<>> =>
        s.n \in DOMAIN Items[s.job] /\ Items[s.job][s.n].lazy

OverlayInv(s) ==
    /\ s.read \in Nat
    /\ \A r \in s.overlay :
          (\E n \in DOMAIN Items[s.job] : Items[s.job][n].scope = r.scope)
              => r.fit = s.job \/ r.fit \notin s.began

ColumnsInv(s) == WritesInv(s) /\ ReachedInv(s) /\ LazyInv(s) /\ OverlayInv(s)

CInv ==
    /\ ComputedInv
    /\ \A w \in Sessions : ColumnsInv(ses[w])
    /\ RegistryMatches

\* What an item says of its rows: their columns, and whose they are.
ItemComputed(j, it) ==
    /\ Stamp(it.scope[1]) \in DOMAIN it.cols
    /\ it.cols[Stamp(it.scope[1])] = j
    /\ it.scope[1] \notin Replaced => it.rows = <<0>>
    /\ it.scope[1] \in Replaced => Payload[j].kind = "economic"
    /\ it.lazy => Payload[j].kind = "training"
    /\ it.scope[1] \in {"registry", "training"} =>
          Payload[j].kind = "training" /\ it.scope[2] = Payload[j].model
    /\ it.scope[1] = "registry" => it.scope = <<"registry", Payload[j].model, <<>>, 0>>

LEMMA SectionItemColumns ==
  ASSUME NEW j \in Jobs, Payload[j].kind = "economic",
         NEW s \in DOMAIN Payload[j].sections, s \in {Sections[n] : n \in DOMAIN Sections}
  PROVE  ItemComputed(j, SectionItem(j, s))
<1> DEFINE it == SectionItem(j, s)
<1>1. s \in {"capm", "apt", "arima", "garch", "multiples", "dcf"}
  BY DEF Sections
<1>2. /\ it.scope[1] = s /\ it.rows = Payload[j].sections[s].rows
      /\ it.cols = [fit |-> j] /\ it.lazy = FALSE
  BY DEF SectionItem, Scope
<1>3. Stamp(s) = "fit"
  BY <1>1 DEF Stamp
<1>4. s \notin Replaced => s \in {"capm", "dcf"}
  BY <1>1 DEF Replaced
<1>5. s \in {"capm", "dcf"} => Payload[j].sections[s].rows = <<0>>
  BY ModelStoreAssumption
<1>6. it.cols["fit"] = j /\ "fit" \in DOMAIN it.cols
  BY <1>2
<1> HIDE DEF it
<1>7. s \notin {"registry", "training"}
  BY <1>1
<1>8. ItemComputed(j, it)
  BY <1>2, <1>3, <1>4, <1>5, <1>6, <1>7 DEF ItemComputed
<1> QED
  BY <1>8 DEF it

LEMMA EconomicColumns ==
  ASSUME NEW j \in Jobs, Payload[j].kind = "economic", NEW n \in DOMAIN Items[j]
  PROVE  ItemComputed(j, Items[j][n])
<1> DEFINE p == Payload[j]
           models_run == {m \in DOMAIN Sections : ShouldRun(p, Sections[m])}
           cols == [portfolio |-> p.portfolio, source_models |-> models_run, features |-> j]
           snapshot == RowItem(<<"snapshot", EntityKey(p), <<>>, p.day>>, cols, FALSE)
           places == models_run \cup (IF p.persist THEN {Len(Sections) + 1} ELSE {})
<1>1. Items[j] = [m \in places |-> IF m \in models_run THEN SectionItem(j, Sections[m]) ELSE snapshot]
  BY DEF Items, EconomicItems
<1>2. CASE n \in models_run
  <2>1. Sections[n] \in DOMAIN p.sections /\ n \in DOMAIN Sections
    BY <1>2 DEF ShouldRun
  <2>2. Items[j][n] = SectionItem(j, Sections[n])
    BY <1>1, <1>2
  <2>3. ItemComputed(j, SectionItem(j, Sections[n]))
    BY <2>1, SectionItemColumns
  <2> QED
    BY <2>2, <2>3
<1>3. CASE n \notin models_run
  <2>1. Items[j][n] = snapshot
    BY <1>1, <1>3
  <2>2. "features" \in DOMAIN cols /\ cols["features"] = j
    OBVIOUS
  <2> HIDE DEF cols
  <2>3. /\ snapshot.scope[1] = "snapshot" /\ snapshot.cols = cols
        /\ snapshot.lazy = FALSE /\ snapshot.rows = <<0>>
    BY DEF RowItem
  <2>4. Stamp("snapshot") = "features" /\ "snapshot" \notin Replaced
    BY DEF Stamp, Replaced
  <2> HIDE DEF snapshot
  <2>5. ItemComputed(j, snapshot)
    BY <2>2, <2>3, <2>4 DEF ItemComputed
  <2> QED
    BY <2>1, <2>5
<1> QED
  BY <1>2, <1>3

LEMMA TrainingColumns ==
  ASSUME NEW j \in Jobs, Payload[j].kind = "training"
  PROVE  /\ DOMAIN Items[j] = 1 .. 3
         /\ Items[j][1].scope = <<"registry", Payload[j].model, <<>>, 0>>
         /\ \E x, y : Items[j][2].scope = <<"training", Payload[j].model, x, y>>
         /\ \E x, y : Items[j][3].scope = <<"prediction", Payload[j].model, x, y>>
         /\ Items[j][3].lazy = FALSE
         /\ \A n \in 1 .. 3 : /\ Items[j][n].rows = <<0>>
                              /\ "metrics" \in DOMAIN Items[j][n].cols
                              /\ Items[j][n].cols["metrics"] = j
<1> DEFINE p == Payload[j]
           path == ArtifactPath(p)
           fitted == [metrics |-> j, artifact |-> path]
           predicted == [metrics |-> j, training |-> p.dataset]
           registry == <<"registry", p.model, <<>>, 0>>
           training == <<"training", p.model, p.dataset, p.day>>
           prediction == <<"prediction", p.model, p.portfolio, p.day>>
<1>1. Items[j] = << RowItem(registry, fitted, TRUE),
                    RowItem(training, fitted, TRUE),
                    RowItem(prediction, predicted, FALSE) >>
  BY DEF Items, TrainingItems
<1>2. /\ "metrics" \in DOMAIN fitted /\ fitted["metrics"] = j
      /\ "metrics" \in DOMAIN predicted /\ predicted["metrics"] = j
  OBVIOUS
<1> HIDE DEF fitted, predicted, registry, training, prediction
<1>3. /\ DOMAIN Items[j] = 1 .. 3
      /\ Items[j][1] = RowItem(registry, fitted, TRUE)
      /\ Items[j][2] = RowItem(training, fitted, TRUE)
      /\ Items[j][3] = RowItem(prediction, predicted, FALSE)
  BY <1>1
<1>4. \A scope, cols, lazy : /\ RowItem(scope, cols, lazy).scope = scope
                             /\ RowItem(scope, cols, lazy).rows = <<0>>
                             /\ RowItem(scope, cols, lazy).cols = cols
  BY DEF RowItem
<1>5. \A n \in 1 .. 3 : n = 1 \/ n = 2 \/ n = 3
  OBVIOUS
<1>6. ASSUME NEW n \in 1 .. 3
      PROVE  /\ Items[j][n].rows = <<0>>
             /\ "metrics" \in DOMAIN Items[j][n].cols
             /\ Items[j][n].cols["metrics"] = j
  <2>1. \E scope, cols, lazy :
           Items[j][n] = RowItem(scope, cols, lazy) /\ cols \in {fitted, predicted}
    BY <1>3, <1>5, Zenon
  <2>2. Items[j][n].rows = <<0>> /\ Items[j][n].cols \in {fitted, predicted}
    BY <1>4, <2>1
  <2> QED
    BY <1>2, <2>2
<1>7. /\ Items[j][1].scope = registry
      /\ Items[j][2].scope = training
      /\ Items[j][3].scope = prediction
  <2>1. RowItem(registry, fitted, TRUE).scope = registry
    BY <1>4
  <2>2. RowItem(training, fitted, TRUE).scope = training
    BY <1>4
  <2>3. RowItem(prediction, predicted, FALSE).scope = prediction
    BY <1>4
  <2> QED
    BY <1>3, <2>1, <2>2, <2>3
<1>8. Items[j][3].lazy = FALSE
  BY <1>3 DEF RowItem
<1> QED
  BY <1>3, <1>6, <1>7, <1>8 DEF registry, training, prediction

LEMMA ItemColumns ==
  ASSUME NEW j \in Jobs, NEW n \in DOMAIN Items[j]
  PROVE  ItemComputed(j, Items[j][n])
<1>1. CASE Payload[j].kind = "economic"
  BY <1>1, EconomicColumns
<1>2. CASE Payload[j].kind = "training"
  <2> DEFINE it == Items[j][n]
  <2>1. DOMAIN Items[j] = 1 .. 3
    BY <1>2, TrainingColumns
  <2>2. n = 1 \/ n = 2 \/ n = 3
    BY <2>1
  <2>3. it.rows = <<0>> /\ "metrics" \in DOMAIN it.cols /\ it.cols["metrics"] = j
    BY <1>2, <2>1, TrainingColumns
  <2>4. Items[j][1].scope = <<"registry", Payload[j].model, <<>>, 0>>
    BY <1>2, TrainingColumns
  <2>5. PICK x2, y2 : Items[j][2].scope = <<"training", Payload[j].model, x2, y2>>
    BY <1>2, TrainingColumns
  <2>6. PICK x3, y3 : Items[j][3].scope = <<"prediction", Payload[j].model, x3, y3>>
    BY <1>2, TrainingColumns
  <2>7. /\ it.scope[1] \in {"registry", "training", "prediction"}
        /\ it.scope[2] = Payload[j].model
        /\ it.scope[1] = "registry" => it.scope = <<"registry", Payload[j].model, <<>>, 0>>
    <3>1. CASE n = 1
      BY <2>4, <3>1
    <3>2. CASE n = 2
      BY <2>5, <3>2
    <3>3. CASE n = 3
      BY <2>6, <3>3
    <3> QED
      BY <2>2, <3>1, <3>2, <3>3
  <2> HIDE DEF it
  <2>8. Stamp(it.scope[1]) = "metrics" /\ it.scope[1] \notin Replaced
    BY <2>7 DEF Stamp, Replaced
  <2>9. ItemComputed(j, it)
    BY <1>2, <2>3, <2>7, <2>8 DEF ItemComputed
  <2> QED
    BY <2>9 DEF it
<1> QED
  BY <1>1, <1>2, ModelStoreAssumption

\* The last item of a job is not a lazy one.
LEMMA LazyIsNotLast ==
  ASSUME NEW j \in Jobs, NEW n \in DOMAIN Items[j], Items[j][n].lazy
  PROVE  \E m \in DOMAIN Items[j] : m > n
<1>1. Payload[j].kind = "training"
  BY ItemColumns DEF ItemComputed
<1>2. DOMAIN Items[j] = 1 .. 3 /\ Items[j][3].lazy = FALSE
  BY <1>1, TrainingColumns
<1>3. n \in 1 .. 3 /\ n # 3
  BY <1>2
<1> QED
  BY <1>2, <1>3

-----------------------------------------------------------------------------
(* The columns that a session writes.                                      *)

\* A step that commits nothing keeps this invariant if the session does.
LEMMA ColumnsStep ==
  ASSUME NEW w \in Sessions, IInv, CInv, NEW t, Become(w, t),
         UNCHANGED <<db, known>>, ColumnsInv(t)
  PROVE  CInv'
<1>1. \A v \in Sessions : ses'[v] = IF v = w THEN t ELSE ses[v]
  BY DEF Become, IInv
<1>2. \A v \in Sessions : ColumnsInv(ses'[v])
  BY <1>1 DEF CInv
<1>3. \A v \in Sessions : ColumnsInv(ses[v])'
  BY <1>2 DEF ColumnsInv, WritesInv, ReachedInv, Reached, Writes, LazyInv, OverlayInv
<1>4. ComputedInv' /\ RegistryMatches'
  BY DEF CInv, ComputedInv, RegistryMatches
<1> QED
  BY <1>3, <1>4 DEF CInv

\* A session before its first statement.
LEMMA FreshColumns ==
  ASSUME NEW t, t.mine = Empty, t.todo = <<>>, t.n = 0, t.overlay = {}, t.read = 0,
         t.at \in {"idle", "save", "item"}, t.at # "idle" => t.job \in Jobs
  PROVE  ColumnsInv(t)
<1>1. WritesInv(t) /\ LazyInv(t) /\ OverlayInv(t)
  BY DEF WritesInv, LazyInv, OverlayInv, Empty
<1>2. ReachedInv(t)
  <2>1. ASSUME t.at # "idle", NEW n \in DOMAIN Items[t.job]
        PROVE  ~ Reached(t, n)
    <3>1. n \in Nat \ {0}
      BY <2>1, ItemFacts
    <3> QED
      BY <3>1 DEF Reached
  <2> QED
    BY <2>1 DEF ReachedInv
<1> QED
  BY <1>1, <1>2 DEF ColumnsInv

LEMMA IdleColumns == ColumnsInv(Idle)
<1>1. /\ Idle.mine = Empty /\ Idle.todo = <<>> /\ Idle.n = 0 /\ Idle.overlay = {} /\ Idle.read = 0
      /\ Idle.at = "idle"
  BY DEF Idle
<1> HIDE DEF Idle
<1> QED
  BY <1>1, FreshColumns

\* A session whose phase, waiting or deletions alone change.
LEMMA SameColumns ==
  ASSUME NEW s, ColumnsInv(s), s.at # "idle",
         NEW t, t.job = s.job, t.began = s.began, t.n = s.n, t.mine = s.mine, t.todo = s.todo,
         t.overlay = s.overlay, t.read = s.read, t.at = s.at \/ (s.at = "save" /\ t.at = "item")
  PROVE  ColumnsInv(t)
<1>1. Place(t) = Place(s)
  BY SamePlace
<1>2. WritesInv(t) /\ LazyInv(t) /\ OverlayInv(t)
  BY DEF ColumnsInv, WritesInv, LazyInv, OverlayInv
<1>3. ReachedInv(t)
  BY <1>1 DEF ColumnsInv, ReachedInv, Reached, Writes
<1> QED
  BY <1>2, <1>3 DEF ColumnsInv

\* A session that goes on with its next item when nothing is left of its flush.
LEMMA SentColumns ==
  ASSUME NEW t, ColumnsInv(t), DOMAIN t = Fields, t.at = "flush", t.job \in Jobs,
         Remaining(t) # {}, t.n \in Nat
  PROVE  ColumnsInv(Sent(t))
<1>1. CASE ~ (t.dels = {} /\ t.todo = <<>>)
  BY <1>1 DEF Sent
<1>2. CASE t.dels = {} /\ t.todo = <<>>
  <2> DEFINE u == [t EXCEPT !.at = "item", !.n = Place(t)]
  <2>1. Sent(t) = u
    BY <1>2 DEF Sent
  <2>2. /\ u.at = "item" /\ u.n = Place(t)
        /\ u.job = t.job /\ u.began = t.began /\ u.todo = t.todo
        /\ u.mine = t.mine /\ u.overlay = t.overlay /\ u.read = t.read
    BY DEF Fields
  <2> HIDE DEF u
  <2>3. WritesInv(u) /\ LazyInv(u) /\ OverlayInv(u)
    BY <1>2, <2>2 DEF ColumnsInv, WritesInv, LazyInv, OverlayInv
  <2>4. Place(t) \in Remaining(t) /\ \A m \in Remaining(t) : Place(t) <= m
    BY PlaceFacts
  <2>5. ASSUME NEW n \in DOMAIN Items[t.job], Reached(u, n)
        PROVE  Reached(t, n)
    <3>1. n \in Nat /\ Place(t) \in Nat
      BY <2>4, ItemFacts DEF Remaining
    <3>2. n <= Place(t)
      BY <2>2, <2>5 DEF Reached
    <3>3. CASE n <= t.n
      BY <3>3 DEF Reached
    <3>4. CASE ~ (n <= t.n)
      <4>1. n \in Remaining(t)
        BY <3>1, <3>4 DEF Remaining
      <4>2. n = Place(t)
        BY <2>4, <3>1, <3>2, <4>1
      <4> QED
        BY <4>2 DEF Reached
    <3> QED
      BY <3>3, <3>4
  <2>6. ReachedInv(t)
    BY DEF ColumnsInv
  <2>7. Writes(u) = Writes(t)
    BY <2>2 DEF Writes
  <2>8. ReachedInv(u)
    BY <2>2, <2>5, <2>6, <2>7 DEF ReachedInv
  <2> QED
    BY <2>1, <2>3, <2>8 DEF ColumnsInv
<1> QED
  BY <1>1, <1>2

\* What is known of the columns of a session at work.
LEMMA ColumnFacts ==
  ASSUME NEW w \in Sessions, IInv, CInv, ses[w].at # "idle"
  PROVE  /\ ColumnsInv(ses[w]) /\ DOMAIN ses[w] = Fields /\ ses[w].n \in Nat
         /\ ses[w].job \in Jobs /\ ses[w].job \notin DOMAIN known
         /\ Sequence(ses[w].todo)
         /\ ses[w].at = "flush" => Remaining(ses[w]) # {}
  BY SessionFacts DEF CInv, ShapeInv

\* Past its last item a session has nothing left in memory.
LEMMA NothingPending ==
  ASSUME NEW w \in Sessions, IInv, CInv, ses[w].at = "item", Remaining(ses[w]) = {}
  PROVE  ses[w].todo = <<>>
<1> DEFINE s == ses[w]
<1>1. s.job \in Jobs /\ LazyInv(s) /\ s.n \in Nat
  BY ColumnFacts DEF ColumnsInv
<1> SUFFICES ASSUME s.todo # <<>>
             PROVE  FALSE
  OBVIOUS
<1>2. s.n \in DOMAIN Items[s.job] /\ Items[s.job][s.n].lazy
  BY <1>1 DEF LazyInv
<1>3. PICK m \in DOMAIN Items[s.job] : m > s.n
  BY <1>1, <1>2, LazyIsNotLast
<1>4. m \in Remaining(s)
  BY <1>3 DEF Remaining
<1> QED
  BY <1>4

\* By then it has written a row in the scope of each of its upserted items.
LEMMA AllWritten ==
  ASSUME NEW w \in Sessions, IInv, CInv, ses[w].at = "item", Remaining(ses[w]) = {},
         NEW n \in DOMAIN Items[ses[w].job], Items[ses[w].job][n].scope[1] \notin Replaced
  PROVE  \E id \in DOMAIN ses[w].mine : id[1] = Items[ses[w].job][n].scope
<1> DEFINE s == ses[w]
<1>1. s.job \in Jobs /\ ReachedInv(s) /\ s.n \in Nat /\ s.at = "item"
  BY ColumnFacts DEF ColumnsInv
<1>2. s.todo = <<>>
  BY NothingPending
<1>3. Remaining(s) = {} /\ n \in DOMAIN Items[s.job] /\ Items[s.job][n].scope[1] \notin Replaced
  OBVIOUS
<1> HIDE DEF s
<1>4. n \in Nat
  BY <1>1, <1>3, ItemFacts
<1>5. Reached(s, n)
  BY <1>1, <1>3, <1>4 DEF Remaining, Reached
<1>6. \E id \in Writes(s) : id[1] = Items[s.job][n].scope
  BY <1>1, <1>3, <1>5 DEF ReachedInv
<1>7. Writes(s) = DOMAIN s.mine
  BY <1>2 DEF Writes
<1> QED
  BY <1>6, <1>7 DEF s

LEMMA StartColumns ==
  ASSUME NEW w \in Sessions, NEW j \in Jobs, IInv, CInv, Start(w, j)
  PROVE  CInv'
<1> DEFINE at == IF Payload[j].kind = "training" THEN "save" ELSE "item"
           t == [Idle EXCEPT !.at = at, !.job = j, !.began = DOMAIN known]
<1>1. /\ t.mine = Empty /\ t.todo = <<>> /\ t.n = 0 /\ t.overlay = {} /\ t.read = 0
      /\ t.at \in {"save", "item"} /\ t.job = j
  BY DEF Idle
<1>2. Become(w, t) /\ UNCHANGED <<db, known>>
  BY DEF Start
<1> HIDE DEF t
<1>3. ColumnsInv(t)
  BY <1>1, FreshColumns
<1> QED
  BY <1>2, <1>3, ColumnsStep

LEMMA SaveArtifactColumns ==
  ASSUME NEW w \in Sessions, IInv, CInv, SaveArtifact(w)
  PROVE  CInv'
<1> DEFINE t == [ses[w] EXCEPT !.at = "item"]
<1>1. ses[w].at = "save" /\ Become(w, t) /\ UNCHANGED <<db, known>>
  BY DEF SaveArtifact
<1>2. ColumnsInv(ses[w]) /\ DOMAIN ses[w] = Fields
  BY <1>1, ColumnFacts
<1>3. /\ t.job = ses[w].job /\ t.began = ses[w].began /\ t.n = ses[w].n /\ t.mine = ses[w].mine
      /\ t.todo = ses[w].todo /\ t.overlay = ses[w].overlay
      /\ t.read = ses[w].read /\ t.at = "item"
  BY <1>2 DEF Fields
<1> HIDE DEF t
<1>4. ColumnsInv(t)
  BY <1>1, <1>2, <1>3, SameColumns
<1> QED
  BY <1>1, <1>4, ColumnsStep

LEMMA BlockColumns ==
  ASSUME NEW w \in Sessions, IInv, CInv, Block(w)
  PROVE  CInv'
<1> DEFINE t == [ses[w] EXCEPT !.waiting = TRUE]
<1>1. ses[w].at = "flush" /\ Become(w, t) /\ UNCHANGED <<db, known>>
  BY DEF Block
<1>2. ColumnsInv(ses[w]) /\ DOMAIN ses[w] = Fields
  BY <1>1, ColumnFacts
<1>3. /\ t.job = ses[w].job /\ t.began = ses[w].began /\ t.n = ses[w].n /\ t.mine = ses[w].mine
      /\ t.todo = ses[w].todo /\ t.overlay = ses[w].overlay
      /\ t.read = ses[w].read /\ t.at = "flush"
  BY <1>1, <1>2 DEF Fields
<1> HIDE DEF t
<1>4. ColumnsInv(t)
  BY <1>1, <1>2, <1>3, SameColumns
<1> QED
  BY <1>1, <1>4, ColumnsStep

LEMMA DeleteColumns ==
  ASSUME NEW w \in Sessions, IInv, CInv, Delete(w)
  PROVE  CInv'
<1> DEFINE s == ses[w]
           id == FirstOf(s.dels)
           t == [s EXCEPT !.dels = @ \ {id}, !.waiting = FALSE, !.gone = @ \cup ({id} \cap DOMAIN db)]
<1>1. Ready(w) /\ Become(w, Sent(t)) /\ UNCHANGED <<db, known>>
  BY DEF Delete
<1>2. /\ ColumnsInv(s) /\ DOMAIN s = Fields /\ s.n \in Nat /\ s.job \in Jobs
      /\ s.at = "flush" /\ Remaining(s) # {}
  BY <1>1, ColumnFacts DEF Ready
<1>3. /\ DOMAIN t = Fields /\ t.at = "flush" /\ t.todo = s.todo
      /\ t.overlay = s.overlay /\ t.read = s.read
      /\ t.job = s.job /\ t.began = s.began /\ t.n = s.n /\ t.mine = s.mine
  BY <1>2 DEF Fields
<1> HIDE DEF t, s
<1>4. ColumnsInv(t)
  BY <1>2, <1>3, SameColumns
<1>5. Remaining(t) # {}
  BY <1>2, <1>3, SamePlace
<1>6. ColumnsInv(Sent(t))
  BY <1>2, <1>3, <1>4, <1>5, SentColumns
<1> QED
  BY <1>1, <1>6, ColumnsStep

\* The rows that an item inserts are its own and say which job computed them.
InsertOk(s, it, stmt) == WriteOk(s.job, stmt.id, stmt.cols) /\ stmt.id[1] = it.scope

LEMMA InsertsComputed ==
  ASSUME NEW s, s.job \in Jobs, NEW n \in DOMAIN Items[s.job],
         NEW k \in 1 .. Len(Inserts(s, Items[s.job][n]))
  PROVE  InsertOk(s, Items[s.job][n], Inserts(s, Items[s.job][n])[k])
<1> DEFINE it == Items[s.job][n]
           stmt == Inserts(s, it)[k]
<1>1. ItemOk(it)
  BY ItemFacts
<1>2. k \in 1 .. Len(it.rows) /\ stmt.id = <<it.scope, it.rows[k], s.job>> /\ stmt.cols = it.cols
  <2>1. Len(Inserts(s, it)) = Len(it.rows)
    BY <1>1, InsertsFacts
  <2>2. k \in 1 .. Len(it.rows)
    BY <2>1
  <2> HIDE DEF it
  <2> QED
    BY <1>1, <2>2, InsertsFacts
<1>3. Stamp(it.scope[1]) \in DOMAIN it.cols /\ it.cols[Stamp(it.scope[1])] = s.job
  BY ItemColumns DEF ItemComputed
<1>4. it.scope \in Scopes(s.job)
  BY DEF Scopes
<1> HIDE DEF stmt
<1>5. stmt.id[1] = it.scope /\ stmt.id[3] = s.job /\ TableOf(stmt.id) = it.scope[1]
  BY <1>2 DEF TableOf
<1>6. stmt.id \in Written(s.job, it)
  BY <1>2 DEF Written
<1>7. Own(stmt.id)
  BY <1>5, <1>6 DEF Own
<1>8. Computed(stmt.id, stmt.cols, s.job)
  BY <1>2, <1>3, <1>5 DEF Computed
<1> QED
  BY <1>4, <1>5, <1>7, <1>8 DEF WriteOk, InsertOk, stmt

\* A session at an item, its columns and its place.
LEMMA AtColumns ==
  ASSUME NEW w \in Sessions, IInv, CInv, NEW isReplaced, At(w, isReplaced)
  PROVE  /\ ColumnsInv(ses[w]) /\ DOMAIN ses[w] = Fields /\ ses[w].at = "item"
         /\ ses[w].n \in Nat /\ ses[w].job \in Jobs /\ ses[w].job \notin DOMAIN known
         /\ Sequence(ses[w].todo) /\ Remaining(ses[w]) # {}
         /\ Place(ses[w]) \in DOMAIN Items[ses[w].job]
         /\ Current(ses[w]) = Items[ses[w].job][Place(ses[w])]
         /\ ItemOk(Current(ses[w]))
<1>1. ses[w].at = "item" /\ Remaining(ses[w]) # {}
  BY DEF At
<1>2. /\ ColumnsInv(ses[w]) /\ DOMAIN ses[w] = Fields
      /\ ses[w].n \in Nat /\ ses[w].job \in Jobs /\ ses[w].job \notin DOMAIN known
      /\ Sequence(ses[w].todo)
  BY <1>1, ColumnFacts
<1>3. Place(ses[w]) \in DOMAIN Items[ses[w].job]
  BY <1>1, <1>2, PlaceFacts DEF Remaining
<1> QED
  BY <1>1, <1>2, <1>3, AtFacts DEF Current

LEMMA ReplaceRowsColumns ==
  ASSUME NEW w \in Sessions, IInv, CInv, ReplaceRows(w)
  PROVE  CInv'
<1> DEFINE s == ses[w]
           it == Current(s)
           new == Inserts(s, it)
           t == [s EXCEPT !.at = "flush", !.dels = Found(it.scope), !.todo = new]
<1>1. At(w, TRUE) /\ Become(w, Sent(t)) /\ UNCHANGED <<db, known>>
  BY DEF ReplaceRows
<1>2. /\ ColumnsInv(s) /\ DOMAIN s = Fields /\ s.at = "item" /\ s.n \in Nat /\ s.job \in Jobs
      /\ Remaining(s) # {} /\ Place(s) \in DOMAIN Items[s.job] /\ it = Items[s.job][Place(s)]
  BY <1>1, AtColumns
<1>3. it.scope[1] \in Replaced
  BY <1>1 DEF At
<1>4. s.todo = <<>>
  <2>1. Payload[s.job].kind = "economic"
    BY <1>2, <1>3, ItemColumns DEF ItemComputed
  <2>2. s.n \in DOMAIN Items[s.job] /\ Items[s.job][s.n].lazy => Payload[s.job].kind = "training"
    BY <1>2, ItemColumns DEF ItemComputed
  <2> QED
    BY <1>2, <2>1, <2>2 DEF ColumnsInv, LazyInv
<1>5. /\ DOMAIN t = Fields /\ t.at = "flush" /\ t.todo = new
      /\ t.overlay = s.overlay /\ t.read = s.read
      /\ t.job = s.job /\ t.began = s.began /\ t.n = s.n /\ t.mine = s.mine
  BY <1>2 DEF Fields
<1>6. \A k \in 1 .. Len(new) : WriteOk(s.job, new[k].id, new[k].cols)
  BY <1>2, InsertsComputed DEF InsertOk
<1> HIDE DEF t, new, s, it
<1>7. Remaining(t) = Remaining(s) /\ Place(t) = Place(s)
  BY <1>5, SamePlace
<1>8. WritesInv(t)
  BY <1>2, <1>5, <1>6 DEF ColumnsInv, WritesInv
<1>9. OverlayInv(t) /\ LazyInv(t)
  BY <1>2, <1>5 DEF ColumnsInv, OverlayInv, LazyInv
<1>10. ReachedInv(t)
  <2>1. Writes(s) = DOMAIN s.mine
    BY <1>4 DEF Writes
  <2>2. DOMAIN s.mine \subseteq Writes(t)
    BY <1>5 DEF Writes
  <2>3. \A n \in DOMAIN Items[s.job] : Reached(t, n) => Reached(s, n) \/ n = Place(s)
    BY <1>5, <1>7 DEF Reached
  <2>4. ReachedInv(s)
    BY <1>2 DEF ColumnsInv
  <2> QED
    BY <1>2, <1>3, <1>5, <2>1, <2>2, <2>3, <2>4 DEF ReachedInv
<1>11. ColumnsInv(t)
  BY <1>8, <1>9, <1>10 DEF ColumnsInv
<1>12. ColumnsInv(Sent(t))
  BY <1>2, <1>5, <1>7, <1>11, SentColumns
<1> QED
  BY <1>1, <1>12, ColumnsStep

LEMMA AddRowColumns ==
  ASSUME NEW w \in Sessions, IInv, CInv, AddRow(w)
  PROVE  CInv'
<1> DEFINE s == ses[w]
           it == Current(s)
           new == Inserts(s, it)
           t == [s EXCEPT !.at = "flush", !.todo = @ \o new]
<1>1. At(w, FALSE) /\ Become(w, t) /\ UNCHANGED <<db, known>>
  BY DEF AddRow
<1>2. /\ ColumnsInv(s) /\ DOMAIN s = Fields /\ s.at = "item" /\ s.n \in Nat /\ s.job \in Jobs
      /\ Sequence(s.todo) /\ Remaining(s) # {}
      /\ Place(s) \in DOMAIN Items[s.job] /\ it = Items[s.job][Place(s)] /\ ItemOk(it)
  BY <1>1, AtColumns
<1>3. it.scope[1] \notin Replaced
  BY <1>1 DEF At
<1>4. /\ t.at = "flush" /\ t.todo = s.todo \o new
      /\ t.overlay = s.overlay /\ t.read = s.read
      /\ t.job = s.job /\ t.began = s.began /\ t.n = s.n /\ t.mine = s.mine
  BY <1>2 DEF Fields
<1>5. Sequence(new) /\ new # <<>>
  BY <1>2, <1>3, InsertsFacts DEF ItemOk
<1>6. ASSUME NEW k \in 1 .. Len(new)
      PROVE  WriteOk(s.job, new[k].id, new[k].cols) /\ new[k].id[1] = it.scope
  <2>1. InsertOk(s, it, new[k])
    BY <1>2, InsertsComputed
  <2> QED
    BY <2>1 DEF InsertOk
<1> HIDE DEF t, new, s, it
<1>7. Place(t) = Place(s)
  BY <1>4, SamePlace
<1>8. /\ Len(t.todo) = Len(s.todo) + Len(new)
      /\ \A k \in 1 .. Len(s.todo) + Len(new) :
            t.todo[k] = IF k <= Len(s.todo) THEN s.todo[k] ELSE new[k - Len(s.todo)]
  BY <1>2, <1>4, <1>5, ConcatFacts
<1>9. Len(s.todo) \in Nat /\ Len(new) \in Nat /\ 1 \in 1 .. Len(new)
  BY <1>2, <1>5, SequenceFacts
<1>10. \A k \in 1 .. Len(s.todo) : k \in 1 .. Len(t.todo) /\ t.todo[k] = s.todo[k]
  BY <1>8, <1>9
<1>11. WritesInv(t)
  <2>1. ASSUME NEW k \in 1 .. Len(t.todo)
        PROVE  WriteOk(s.job, t.todo[k].id, t.todo[k].cols)
    <3>1. CASE k <= Len(s.todo)
      <4>1. k \in 1 .. Len(s.todo)
        BY <1>8, <1>9, <3>1
      <4> QED
        BY <1>2, <1>10, <4>1 DEF ColumnsInv, WritesInv
    <3>2. CASE ~ (k <= Len(s.todo))
      <4>1. k - Len(s.todo) \in 1 .. Len(new) /\ t.todo[k] = new[k - Len(s.todo)]
        BY <1>8, <1>9, <3>2
      <4> QED
        BY <1>6, <4>1
    <3> QED
      BY <3>1, <3>2
  <2> QED
    BY <1>2, <1>4, <2>1 DEF ColumnsInv, WritesInv
<1>12. OverlayInv(t) /\ LazyInv(t)
  BY <1>2, <1>4 DEF ColumnsInv, OverlayInv, LazyInv
<1>13. ReachedInv(t)
  <2>1. Writes(s) \subseteq Writes(t)
    BY <1>4, <1>10 DEF Writes
  <2>2. \E id \in Writes(t) : id[1] = it.scope
    <3> DEFINE k == Len(s.todo) + 1
    <3>1. k \in 1 .. Len(t.todo)
      BY <1>8, <1>9
    <3>2. ~ (k <= Len(s.todo)) /\ k - Len(s.todo) = 1 /\ k \in 1 .. Len(s.todo) + Len(new)
      BY <1>9
    <3>3. t.todo[k] = new[1]
      BY <1>8, <3>2
    <3>4. t.todo[k].id \in Writes(t)
      BY <3>1 DEF Writes
    <3> QED
      BY <1>6, <1>9, <3>3, <3>4
  <2>3. \A n \in DOMAIN Items[s.job] : Reached(t, n) => Reached(s, n) \/ n = Place(s)
    BY <1>4, <1>7 DEF Reached
  <2>4. ReachedInv(s)
    BY <1>2 DEF ColumnsInv
  <2> QED
    BY <1>2, <1>4, <2>1, <2>2, <2>3, <2>4 DEF ReachedInv
<1>14. ColumnsInv(t)
  BY <1>11, <1>12, <1>13 DEF ColumnsInv
<1> QED
  BY <1>1, <1>14, ColumnsStep

LEMMA ChangeRowColumns ==
  ASSUME NEW w \in Sessions, IInv, CInv, ChangeRow(w)
  PROVE  CInv'
<1> DEFINE s == ses[w]
           it == Current(s)
           differ(id) == Changed(id, it.cols)
           update(id) == [insert |-> FALSE, id |-> id, cols |-> [c \in differ(id) |-> it.cols[c]]]
           next(id) == [s EXCEPT !.todo = IF differ(id) = {} THEN @ ELSE Append(@, update(id))]
<1>1. At(w, FALSE) /\ UNCHANGED <<db, known>>
  BY DEF ChangeRow
<1>2. PICK id \in Found(it.scope) :
         Become(w, IF it.lazy THEN [next(id) EXCEPT !.n = Place(s)]
                   ELSE Sent([next(id) EXCEPT !.at = "flush"]))
  BY DEF ChangeRow
<1>3. /\ ColumnsInv(s) /\ DOMAIN s = Fields /\ s.at = "item" /\ s.n \in Nat /\ s.job \in Jobs
      /\ s.job \notin DOMAIN known /\ Sequence(s.todo) /\ Remaining(s) # {}
      /\ Place(s) \in DOMAIN Items[s.job] /\ it = Items[s.job][Place(s)]
  BY <1>1, AtColumns
<1>4. it.scope[1] \notin Replaced
  BY <1>1 DEF At
<1> DEFINE e == update(id)
           t == [s EXCEPT !.todo = Append(s.todo, e)]
           column == Stamp(TableOf(id))
<1>5. id \in DOMAIN db /\ id[1] = it.scope /\ TableOf(id) = it.scope[1]
  BY DEF Found, TableOf
<1>6. column \in DOMAIN it.cols /\ it.cols[column] = s.job
  <2>1. ItemComputed(s.job, it)
    BY <1>3, ItemColumns
  <2> QED
    BY <1>5, <2>1 DEF ItemComputed
<1>7. PICK j \in DOMAIN known : Computed(id, db[id], j)
  BY <1>5 DEF CInv, ComputedInv
<1>8. column \in differ(id)
  <2>1. db[id][column] = j /\ j # s.job
    BY <1>3, <1>7 DEF Computed
  <2> QED
    BY <1>6, <2>1 DEF Changed
<1>9. next(id) = t
  BY <1>8
<1>10. e.id = id /\ e.cols = [c \in differ(id) |-> it.cols[c]]
  OBVIOUS
<1>11. Computed(id, e.cols, s.job)
  BY <1>6, <1>8, <1>10 DEF Computed
<1>12. WriteOk(s.job, e.id, e.cols) /\ e.id[1] = it.scope
  <2>1. it.scope \in Scopes(s.job)
    BY <1>3 DEF Scopes
  <2>2. Own(id)
    BY <1>5 DEF CInv, ComputedInv
  <2> QED
    BY <1>5, <1>10, <1>11, <2>1, <2>2 DEF WriteOk
<1>13. /\ DOMAIN t = Fields /\ t.at = "item" /\ t.todo = Append(s.todo, e)
       /\ t.overlay = s.overlay /\ t.read = s.read
       /\ t.job = s.job /\ t.began = s.began /\ t.n = s.n /\ t.mine = s.mine
  BY <1>3 DEF Fields
<1> HIDE DEF e, t, differ, column
<1>14. /\ Len(t.todo) = Len(s.todo) + 1
       /\ \A k \in 1 .. Len(s.todo) + 1 : t.todo[k] = IF k = Len(s.todo) + 1 THEN e ELSE s.todo[k]
       /\ Len(s.todo) \in Nat
  BY <1>3, <1>13, AppendFacts, SequenceFacts
<1>15. WritesInv(t)
  <2>1. ASSUME NEW k \in 1 .. Len(t.todo)
        PROVE  WriteOk(s.job, t.todo[k].id, t.todo[k].cols)
    <3>1. CASE k = Len(s.todo) + 1
      BY <1>12, <1>14, <3>1
    <3>2. CASE k # Len(s.todo) + 1
      <4>1. k \in 1 .. Len(s.todo) /\ t.todo[k] = s.todo[k]
        BY <1>14, <3>2
      <4> QED
        BY <1>3, <4>1 DEF ColumnsInv, WritesInv
    <3> QED
      BY <3>1, <3>2
  <2> QED
    BY <1>3, <1>13, <2>1 DEF ColumnsInv, WritesInv
<1>16. Writes(s) \subseteq Writes(t) /\ \E i \in Writes(t) : i[1] = it.scope
  <2>1. \A k \in 1 .. Len(s.todo) : k \in 1 .. Len(t.todo) /\ t.todo[k] = s.todo[k]
    BY <1>14
  <2>2. Len(t.todo) \in 1 .. Len(t.todo) /\ t.todo[Len(t.todo)] = e
    BY <1>14
  <2>3. e.id \in Writes(t)
    BY <2>2 DEF Writes
  <2> QED
    BY <1>12, <1>13, <2>1, <2>3 DEF Writes
\* Whatever the session goes on with, it has reached this item and no later one.
<1>17. ASSUME NEW u, u.job = s.job, u.began = s.began, u.mine = s.mine,
              u.overlay = s.overlay, u.read = s.read,
              u.todo = t.todo, \/ u.at = "flush" /\ u.n = s.n
                               \/ u.at = "item" /\ u.n = Place(s) /\ it.lazy
       PROVE  ColumnsInv(u)
  <2>1. Writes(u) = Writes(t)
    BY <1>13, <1>17 DEF Writes
  <2>2. WritesInv(u) /\ OverlayInv(u)
    BY <1>3, <1>13, <1>15, <1>17 DEF ColumnsInv, WritesInv, OverlayInv
  <2>3. LazyInv(u)
    BY <1>3, <1>17 DEF LazyInv
  <2>4. ASSUME NEW n \in DOMAIN Items[s.job], Reached(u, n)
        PROVE  Reached(s, n) \/ n = Place(s)
    <3>1. CASE u.at = "flush" /\ u.n = s.n
      <4>1. Place(u) = Place(s)
        BY <1>17, <3>1, SamePlace
      <4> QED
        BY <2>4, <3>1, <4>1 DEF Reached
    <3>2. CASE u.at = "item" /\ u.n = Place(s)
      <4>1. n <= Place(s)
        BY <2>4, <3>2 DEF Reached
      <4>2. Place(s) \in Remaining(s) /\ \A m \in Remaining(s) : Place(s) <= m
        BY <1>3, PlaceFacts
      <4>3. n \in Nat /\ Place(s) \in Nat
        BY <1>3, ItemFacts
      <4>4. CASE n <= s.n
        BY <4>4 DEF Reached
      <4>5. CASE ~ (n <= s.n)
        <5>1. n \in Remaining(s)
          BY <1>3, <4>3, <4>5 DEF Remaining
        <5> QED
          BY <4>1, <4>2, <4>3, <5>1
      <4> QED
        BY <4>4, <4>5
    <3> QED
      BY <1>17, <3>1, <3>2
  <2>5. ReachedInv(s)
    BY <1>3 DEF ColumnsInv
  <2>6. ReachedInv(u)
    <3>1. ASSUME NEW n \in DOMAIN Items[s.job], Reached(u, n), Items[s.job][n].scope[1] \notin Replaced
          PROVE  \E i \in Writes(t) : i[1] = Items[s.job][n].scope
      <4>1. CASE n = Place(s)
        BY <1>3, <1>16, <4>1
      <4>2. CASE Reached(s, n)
        <5>1. \E i \in Writes(s) : i[1] = Items[s.job][n].scope
          BY <1>3, <2>5, <3>1, <4>2 DEF ReachedInv
        <5> QED
          BY <1>16, <5>1
      <4> QED
        BY <2>4, <3>1, <4>1, <4>2
    <3> QED
      BY <1>17, <2>1, <3>1 DEF ReachedInv
  <2> QED
    BY <2>2, <2>3, <2>6 DEF ColumnsInv
<1>18. CASE it.lazy
  <2> DEFINE u == [t EXCEPT !.n = Place(s)]
  <2>1. Become(w, u)
    BY <1>2, <1>9, <1>18
  <2>2. /\ u.job = s.job /\ u.began = s.began /\ u.mine = s.mine
        /\ u.overlay = s.overlay /\ u.read = s.read
        /\ u.todo = t.todo /\ u.at = "item" /\ u.n = Place(s)
    BY <1>13 DEF Fields
  <2> HIDE DEF u
  <2>3. ColumnsInv(u)
    BY <1>17, <1>18, <2>2
  <2> QED
    BY <1>1, <2>1, <2>3, ColumnsStep
<1>19. CASE ~ it.lazy
  <2> DEFINE u == [t EXCEPT !.at = "flush"]
  <2>1. Become(w, Sent(u))
    BY <1>2, <1>9, <1>19
  <2>2. /\ u.job = s.job /\ u.began = s.began /\ u.mine = s.mine
        /\ u.overlay = s.overlay /\ u.read = s.read
        /\ u.todo = t.todo /\ u.at = "flush" /\ u.n = s.n /\ DOMAIN u = Fields
    BY <1>13 DEF Fields
  <2> HIDE DEF u
  <2>3. ColumnsInv(u)
    BY <1>17, <2>2
  <2>4. Remaining(u) # {}
    BY <1>3, <2>2, SamePlace
  <2>5. ColumnsInv(Sent(u))
    BY <1>3, <2>2, <2>3, <2>4, SentColumns
  <2> QED
    BY <1>1, <2>1, <2>5, ColumnsStep
<1> QED
  BY <1>18, <1>19

LEMMA SendColumns ==
  ASSUME NEW w \in Sessions, IInv, CInv, Send(w)
  PROVE  CInv'
<1> DEFINE s == ses[w]
           stmt == Head(s.todo)
           row == IF stmt.insert THEN stmt.cols ELSE Merged(stmt)
           mine == [id \in DOMAIN s.mine \cup {stmt.id} |-> IF id = stmt.id THEN row ELSE s.mine[id]]
           t == [s EXCEPT !.todo = Tail(@), !.waiting = FALSE, !.mine = mine]
<1>1. Ready(w) /\ ~ Deleting(s) /\ UNCHANGED <<db, known>>
  BY DEF Send
<1>2. Become(w, Sent(t))
  BY DEF Send
<1>3. s.todo # <<>> /\ StatementInv(s, stmt)
  BY <1>1, NextWriteFacts
<1>4. /\ ColumnsInv(s) /\ DOMAIN s = Fields /\ s.n \in Nat /\ s.job \in Jobs
      /\ s.at = "flush" /\ Remaining(s) # {} /\ Sequence(s.todo)
  BY <1>1, ColumnFacts DEF Ready
<1>5. /\ DOMAIN t = Fields /\ t.at = "flush" /\ t.todo = Tail(s.todo)
      /\ t.overlay = s.overlay /\ t.read = s.read
      /\ t.job = s.job /\ t.began = s.began /\ t.n = s.n /\ t.mine = mine
  BY <1>4 DEF Fields
<1> HIDE DEF t, row
<1>6. /\ DOMAIN mine = DOMAIN s.mine \cup {stmt.id}
      /\ mine[stmt.id] = row
      /\ \A id \in DOMAIN s.mine : id # stmt.id => mine[id] = s.mine[id]
  OBVIOUS
<1> HIDE DEF mine, stmt, s
<1>7. /\ Len(s.todo) \in Nat /\ Len(Tail(s.todo)) = Len(s.todo) - 1
      /\ \A k \in 1 .. Len(s.todo) - 1 : Tail(s.todo)[k] = s.todo[k + 1]
      /\ stmt = s.todo[1] /\ 1 \in 1 .. Len(s.todo)
  BY <1>3, <1>4, SequenceFacts DEF stmt
<1>8. WriteOk(s.job, stmt.id, stmt.cols)
  BY <1>4, <1>7 DEF ColumnsInv, WritesInv
<1>9. Computed(stmt.id, row, s.job)
  <2> DEFINE column == Stamp(TableOf(stmt.id))
  <2>1. column \in DOMAIN stmt.cols /\ stmt.cols[column] = s.job
    BY <1>8 DEF WriteOk, Computed
  <2>2. CASE stmt.insert
    BY <2>1, <2>2 DEF row, Computed
  <2>3. CASE ~ stmt.insert
    <3>1. stmt.id \in DOMAIN db
      BY <1>3, <2>3 DEF StatementInv
    <3>2. column \in DOMAIN db[stmt.id]
      BY <3>1 DEF CInv, ComputedInv, Computed
    <3> HIDE DEF column
    <3>3. row[column] = s.job /\ column \in DOMAIN row
      BY <2>1, <2>3, <3>2 DEF row, Merged
    <3> QED
      BY <3>3 DEF Computed, column
  <2> QED
    BY <2>2, <2>3
<1>10. WritesInv(t)
  <2>1. ASSUME NEW id \in DOMAIN t.mine
        PROVE  WriteOk(s.job, id, t.mine[id])
    <3>1. CASE id = stmt.id
      BY <1>5, <1>6, <1>8, <1>9, <3>1 DEF WriteOk
    <3>2. CASE id # stmt.id
      BY <1>4, <1>5, <1>6, <3>2 DEF ColumnsInv, WritesInv
    <3> QED
      BY <3>1, <3>2
  <2>2. ASSUME NEW k \in 1 .. Len(t.todo)
        PROVE  WriteOk(s.job, t.todo[k].id, t.todo[k].cols)
    <3>1. k + 1 \in 1 .. Len(s.todo) /\ t.todo[k] = s.todo[k + 1]
      BY <1>5, <1>7
    <3> QED
      BY <1>4, <3>1 DEF ColumnsInv, WritesInv
  <2> QED
    BY <1>5, <2>1, <2>2 DEF WritesInv
<1>11. OverlayInv(t) /\ LazyInv(t)
  BY <1>4, <1>5 DEF ColumnsInv, OverlayInv, LazyInv
<1>12. Remaining(t) # {} /\ Place(t) = Place(s)
  BY <1>4, <1>5, SamePlace
<1>13. ReachedInv(t)
  <2>1. ASSUME NEW k \in 1 .. Len(s.todo)
        PROVE  s.todo[k].id \in Writes(t)
    <3>1. CASE k = 1
      BY <1>5, <1>6, <1>7, <3>1 DEF Writes
    <3>2. CASE k # 1
      <4>1. k - 1 \in 1 .. Len(t.todo) /\ t.todo[k - 1] = s.todo[k]
        BY <1>5, <1>7, <3>2
      <4> QED
        BY <4>1 DEF Writes
    <3> QED
      BY <3>1, <3>2
  <2>2. Writes(s) \subseteq Writes(t)
    BY <1>5, <1>6, <2>1 DEF Writes
  <2>3. \A n : Reached(t, n) => Reached(s, n)
    BY <1>4, <1>5, <1>12 DEF Reached
  <2> QED
    BY <1>4, <1>5, <2>2, <2>3 DEF ColumnsInv, ReachedInv
<1>14. ColumnsInv(t)
  BY <1>10, <1>11, <1>13 DEF ColumnsInv
<1>15. ColumnsInv(Sent(t))
  BY <1>4, <1>5, <1>12, <1>14, SentColumns
<1> QED
  BY <1>1, <1>2, <1>15, ColumnsStep

\* A row of an upserted table is the one row that its job has in its scope.
LEMMA OwnFacts ==
  ASSUME NEW id, Own(id), id[3] \in Jobs
  PROVE  /\ TableOf(id) \notin Replaced => id = <<id[1], 0, id[3]>>
         /\ \E n \in DOMAIN Items[id[3]] : id[1] = Items[id[3]][n].scope
         /\ TableOf(id) \in Replaced =>
               \E it \in ReplacedBy(id[3]) : it.scope = id[1] /\ id \in Written(id[3], it)
<1>1. PICK n \in DOMAIN Items[id[3]] : id \in Written(id[3], Items[id[3]][n])
  BY DEF Own
<1> DEFINE it == Items[id[3]][n]
<1>2. PICK k \in 1 .. Len(it.rows) : id = <<it.scope, it.rows[k], id[3]>>
  BY <1>1 DEF Written
<1>3. it.scope[1] \notin Replaced => it.rows = <<0>>
  BY ItemColumns DEF ItemComputed
<1>4. id[1] = it.scope /\ TableOf(id) = it.scope[1]
  BY <1>2 DEF TableOf
<1>5. id \in Written(id[3], it) /\ it \in {Items[id[3]][m] : m \in DOMAIN Items[id[3]]}
  BY <1>1
<1> HIDE DEF it
<1>6. ASSUME it.rows = << 0 >>
      PROVE  id = <<id[1], 0, id[3]>>
  <2>1. it.rows[k] = 0
    BY <1>6
  <2> QED
    BY <1>2, <1>4, <2>1
<1>7. TableOf(id) \in Replaced => it \in ReplacedBy(id[3])
  BY <1>4, <1>5 DEF ReplacedBy
<1> QED
  BY <1>3, <1>4, <1>5, <1>6, <1>7 DEF it

\* The jobs that inserted the rows of the database and of a session.
LEMMA InsertedByJobs ==
  ASSUME NEW w \in Sessions, IInv, ses[w].at # "idle"
  PROVE  /\ \A id \in DOMAIN db : id[3] \in Jobs /\ id[3] \in DOMAIN known
         /\ \A id \in DOMAIN ses[w].mine : id[3] \in Jobs
<1>1. DOMAIN known \subseteq Jobs
  BY ModelStoreAssumption DEF IInv, BookInv
<1>2. ses[w].job \in Jobs /\ MineInv(ses[w])
  BY SessionFacts DEF SessionInv
<1> QED
  BY <1>1, <1>2 DEF IInv, RowInv, MineInv

\* Where a portfolio's scope has a row that the session has written, it sees no
\* other row of an upserted table.
LEMMA OnlyRow ==
  ASSUME NEW w \in Sessions, IInv, CInv, ses[w].at # "idle",
         NEW q \in DOMAIN ses[w].mine, NEW p \in DOMAIN db \ ses[w].gone,
         p[1] = q[1], TableOf(q) \notin Replaced, OwnerOf(q) # None
  PROVE  p = q
<1> DEFINE s == ses[w]
<1>1. KeyInv(s) /\ WritesInv(s)
  BY DEF IInv, SessionInv, CInv, ColumnsInv
<1>2. Own(p) /\ Own(q)
  BY <1>1 DEF CInv, ComputedInv, WritesInv, WriteOk
<1>3. p[3] \in Jobs /\ q[3] \in Jobs
  BY InsertedByJobs
<1>4. TableOf(p) \notin Replaced
  BY DEF TableOf
<1>5. p = <<p[1], 0, p[3]>>
  BY <1>2, <1>3, <1>4, OwnFacts
<1>6. q = <<q[1], 0, q[3]>>
  BY <1>2, <1>3, OwnFacts
<1>7. p[2] = 0 /\ q[2] = 0
  BY <1>5, <1>6
<1>8. SameKey(p, q) /\ Unique(q)
  BY <1>7 DEF SameKey, Unique
<1>9. p[3] = q[3]
  BY <1>1, <1>8 DEF KeyInv
<1> QED
  BY <1>5, <1>6, <1>9

\* A session that has written all its items sees, in their scopes, rows of its own
\* or of jobs that were recorded while it went on.
LEMMA SeesCurrent ==
  ASSUME NEW w \in Sessions, IInv, CInv, ses[w].at = "item", Remaining(ses[w]) = {},
         NEW id \in DOMAIN View(ses[w]), Stamp(TableOf(id)) = "fit", OwnerOf(id) # None,
         NEW n \in DOMAIN Items[ses[w].job], id[1] = Items[ses[w].job][n].scope
  PROVE  View(ses[w])[id].fit = ses[w].job \/ View(ses[w])[id].fit \notin ses[w].began
<1> DEFINE s == ses[w]
<1>1. /\ SessionInv(s) /\ ColumnsInv(s) /\ s.job \in Jobs /\ s.n \in Nat
      /\ s.at = "item" /\ Remaining(s) = {}
  BY SessionFacts, ColumnFacts
<1>2. /\ n \in DOMAIN Items[s.job] /\ id[1] = Items[s.job][n].scope
      /\ TableOf(id) = Items[s.job][n].scope[1]
  BY DEF TableOf
<1>3. CASE id \in DOMAIN s.mine
  <2>1. View(s)[id] = s.mine[id]
    BY <1>3 DEF View
  <2>2. Computed(id, s.mine[id], s.job)
    BY <1>1, <1>3 DEF ColumnsInv, WritesInv, WriteOk
  <2> QED
    BY <2>1, <2>2 DEF Computed
<1>4. CASE id \notin DOMAIN s.mine
  <2>1. id \in DOMAIN db \ s.gone
    BY <1>4 DEF View
  <2>2. CASE TableOf(id) \in Replaced
    <3>1. View(s)[id] = db[id]
      BY <1>4, <2>1 DEF View
    <3>2. db[id].fit = id[3] /\ Own(id)
      BY <2>1, <2>2 DEF CInv, ComputedInv, Computed
    <3>3. id[3] \in Jobs
      BY <1>1, <2>1, InsertedByJobs
    <3>4. PICK it \in ReplacedBy(id[3]) : it.scope = id[1] /\ id \in Written(id[3], it)
      BY <2>2, <3>2, <3>3, OwnFacts
    <3>5. id \in Left(id[3], it)
      BY <2>1, <3>4 DEF Left
    <3>6. n <= s.n
      <4>1. n \in Nat
        BY <1>1, ItemFacts
      <4> QED
        BY <1>1, <4>1 DEF Remaining
    <3>7. Swept(s, id[1], s.gone)
      <4>1. ItemsInv(s)
        BY <1>1 DEF SessionInv
      <4> HIDE DEF s
      <4> QED
        BY <1>1, <1>2, <2>2, <3>6, <4>1 DEF ItemsInv
    <3>8. id[3] \notin s.began
      BY <2>1, <3>4, <3>5, <3>7 DEF Swept
    <3> QED
      BY <3>1, <3>2, <3>8
  <2>3. CASE TableOf(id) \notin Replaced
    <3>1. PICK q \in DOMAIN s.mine : q[1] = id[1]
      BY <1>1, <1>2, <2>3, AllWritten
    <3>2. TableOf(q) \notin Replaced /\ OwnerOf(q) # None
      BY <2>3, <3>1 DEF TableOf, OwnerOf
    <3>3. id = q
      BY <1>1, <2>1, <3>1, <3>2, OnlyRow
    <3> QED
      BY <1>4, <3>1, <3>3
  <2> QED
    BY <2>2, <2>3
<1> QED
  BY <1>3, <1>4

\* What the overlay uses of a table is among the rows that it reads.
LEMMA KeptFacts ==
  ASSUME NEW table, NEW rows, NEW used \in Kept(table, rows)
  PROVE  used \subseteq rows
  BY DEF Kept

LEMMA ReadOverlayColumns ==
  ASSUME NEW w \in Sessions, IInv, CInv, ReadOverlay(w)
  PROVE  CInv'
<1> DEFINE s == ses[w]
           k == s.read + 1
           p == Payload[s.job]
<1>1. /\ s.at = "item" /\ Remaining(s) = {} /\ UNCHANGED <<db, known>>
      /\ k <= Len(OverlayOf(s.job))
  BY DEF ReadOverlay
<1>2. PICK used \in Kept(Sections[k], OverlayRows(s, Sections[k])) :
         Become(w, [s EXCEPT !.read = k, !.overlay = @ \cup used])
  BY DEF ReadOverlay
<1> DEFINE t == [s EXCEPT !.read = k, !.overlay = @ \cup used]
<1>3. ColumnsInv(s) /\ DOMAIN s = Fields /\ s.job \in Jobs
  BY <1>1, ColumnFacts
<1>4. /\ t.job = s.job /\ t.began = s.began /\ t.n = s.n /\ t.mine = s.mine
      /\ t.todo = s.todo /\ t.at = s.at /\ t.overlay = s.overlay \cup used /\ t.read = k
  BY <1>3 DEF Fields
<1>5. k \in 1 .. 6 /\ p.portfolio # None
  <2>1. s.read \in Nat
    BY <1>3 DEF ColumnsInv, OverlayInv
  <2>2. OverlayOf(s.job) # <<>>
    BY <1>1, <2>1
  <2>3. p.portfolio # None /\ OverlayOf(s.job) = Sections
    BY <2>2 DEF OverlayOf
  <2>4. Len(Sections) = 6
    BY DEF Sections
  <2> QED
    BY <1>1, <2>1, <2>3, <2>4
<1>6. Stamp(Sections[k]) = "fit"
  <2> DEFINE table == Sections[k]
  <2>1. table \in {"capm", "apt", "arima", "garch", "multiples", "dcf"}
    BY <1>5 DEF Sections
  <2> HIDE DEF table
  <2>2. Stamp(table) = "fit"
    BY <2>1 DEF Stamp
  <2> QED
    BY <2>2 DEF table
<1>7. ASSUME NEW r \in used, NEW n \in DOMAIN Items[s.job], Items[s.job][n].scope = r.scope
      PROVE  r.fit = s.job \/ r.fit \notin s.began
  <2>1. r \in OverlayRows(s, Sections[k])
    BY <1>2, KeptFacts
  <2>2. PICK id \in DOMAIN View(s) :
           /\ id[1][1] = Sections[k] /\ id[1][2] = p.portfolio
           /\ r = [scope |-> id[1], step |-> id[2], fit |-> View(s)[id].fit]
    <3> HIDE DEF k, s
    <3> QED
      BY <2>1 DEF OverlayRows
  <2>3. r.scope = id[1] /\ r.fit = View(s)[id].fit
    BY <2>2
  <2>4. Stamp(TableOf(id)) = "fit" /\ OwnerOf(id) # None
    BY <1>5, <1>6, <2>2 DEF TableOf, OwnerOf
  <2>5. View(s)[id].fit = s.job \/ View(s)[id].fit \notin s.began
    BY <1>1, <1>7, <2>3, <2>4, SeesCurrent
  <2> QED
    BY <2>3, <2>5
<1> HIDE DEF t
<1>8. OverlayInv(t)
  <2>1. \A r \in s.overlay :
           (\E n \in DOMAIN Items[s.job] : Items[s.job][n].scope = r.scope)
               => r.fit = s.job \/ r.fit \notin s.began
    BY <1>3 DEF ColumnsInv, OverlayInv
  <2>2. k \in Nat
    BY <1>5
  <2> HIDE DEF s, k
  <2> QED
    BY <1>4, <1>7, <2>1, <2>2 DEF OverlayInv
<1>9. WritesInv(t) /\ LazyInv(t)
  BY <1>3, <1>4 DEF ColumnsInv, WritesInv, LazyInv
<1>10. ReachedInv(t)
  <2>1. Place(t) = Place(s)
    BY <1>4, SamePlace
  <2>2. ReachedInv(s) /\ s.at = "item"
    BY <1>1, <1>3 DEF ColumnsInv
  <2>3. Writes(t) = Writes(s)
    BY <1>4 DEF Writes
  <2>4. \A n : Reached(t, n) <=> Reached(s, n)
    BY <1>4, <2>1 DEF Reached
  <2> HIDE DEF s
  <2> QED
    BY <1>4, <2>2, <2>3, <2>4 DEF ReachedInv
<1> QED
  BY <1>1, <1>2, <1>8, <1>9, <1>10, ColumnsStep DEF ColumnsInv, t

\* The committed rows of a registry or training table belong to a training.
LEMMA TrainingRow ==
  ASSUME NEW id, Own(id), id[3] \in Jobs, TableOf(id) = "registry"
  PROVE  /\ id[1] = <<"registry", OwnerOf(id), <<>>, 0>>
         /\ OwnerOf(id) # None
<1>1. PICK n \in DOMAIN Items[id[3]] : id[1] = Items[id[3]][n].scope
  BY OwnFacts
<1>2. Items[id[3]][n].scope[1] = "registry"
  BY <1>1 DEF TableOf
<1>3. Payload[id[3]].kind = "training" /\ id[1] = <<"registry", Payload[id[3]].model, <<>>, 0>>
  BY <1>1, <1>2, ItemColumns DEF ItemComputed
<1>4. OwnerOf(id) = Payload[id[3]].model
  BY <1>3 DEF OwnerOf
<1>5. Payload[id[3]].model # None
  BY <1>3, ModelStoreAssumption
<1> QED
  BY <1>3, <1>4, <1>5

\* A training that has written its items has written a row of its model in the
\* registry and one among the training runs.
LEMMA TrainingWrites ==
  ASSUME NEW w \in Sessions, IInv, CInv, ses[w].at = "item", Remaining(ses[w]) = {},
         NEW id \in DOMAIN ses[w].mine, TableOf(id) \in {"registry", "training"}
  PROVE  /\ \E q \in DOMAIN ses[w].mine :
               q[1] = <<"registry", OwnerOf(id), <<>>, 0>> /\ ses[w].mine[q].metrics = ses[w].job
         /\ \E q \in DOMAIN ses[w].mine :
               /\ TableOf(q) = "training" /\ OwnerOf(q) = OwnerOf(id)
               /\ ses[w].mine[q].metrics = ses[w].job
<1> DEFINE s == ses[w]
           j == s.job
<1>1. /\ WritesInv(s) /\ j \in Jobs /\ s.at = "item" /\ Remaining(s) = {}
      /\ id \in DOMAIN s.mine
  BY ColumnFacts DEF ColumnsInv
<1>2. PICK n \in DOMAIN Items[j] : id[1] = Items[j][n].scope
  BY <1>1 DEF WritesInv, WriteOk, Scopes
<1>3. Payload[j].kind = "training" /\ OwnerOf(id) = Payload[j].model
  <2>1. Items[j][n].scope[1] \in {"registry", "training"}
    BY <1>2 DEF TableOf
  <2> QED
    BY <1>1, <1>2, <2>1, ItemColumns DEF ItemComputed, OwnerOf
<1>4. /\ DOMAIN Items[j] = 1 .. 3
      /\ Items[j][1].scope = <<"registry", Payload[j].model, <<>>, 0>>
  BY <1>1, <1>3, TrainingColumns
<1>5. PICK x, y : Items[j][2].scope = <<"training", Payload[j].model, x, y>>
  BY <1>1, <1>3, TrainingColumns
<1>6. 1 \in DOMAIN Items[j] /\ 2 \in DOMAIN Items[j]
  BY <1>4
<1>7. Items[j][1].scope[1] = "registry" /\ Items[j][2].scope[1] = "training"
  <2>1. Items[j][1].scope[1] = "registry"
    BY ONLY <1>4
  <2>2. Items[j][2].scope[1] = "training"
    BY ONLY <1>5
  <2> QED
    BY <2>1, <2>2
<1>8. "registry" \notin Replaced /\ "training" \notin Replaced
  BY DEF Replaced
<1>9. PICK q1 \in DOMAIN s.mine : q1[1] = Items[j][1].scope
  <2>1. Items[j][1].scope[1] \notin Replaced
    BY <1>7, <1>8
  <2> QED
    BY <1>1, <1>6, <2>1, AllWritten
<1>10. PICK q2 \in DOMAIN s.mine : q2[1] = Items[j][2].scope
  <2>1. Items[j][2].scope[1] \notin Replaced
    BY <1>7, <1>8
  <2> QED
    BY <1>1, <1>6, <2>1, AllWritten
<1>11. TableOf(q1) = "registry" /\ TableOf(q2) = "training" /\ OwnerOf(q2) = Payload[j].model
  <2>1. q2[1][1] = "training" /\ q2[1][2] = Payload[j].model
    BY <1>5, <1>10
  <2> QED
    BY <1>7, <1>9, <2>1 DEF TableOf, OwnerOf
<1>12. Stamp("registry") = "metrics" /\ Stamp("training") = "metrics"
  BY DEF Stamp
<1>13. Computed(q1, s.mine[q1], j) /\ Computed(q2, s.mine[q2], j)
  BY <1>1 DEF WritesInv, WriteOk
<1>14. s.mine[q1].metrics = j /\ s.mine[q2].metrics = j
  BY <1>11, <1>12, <1>13 DEF Computed
<1> QED
  BY <1>3, <1>4, <1>9, <1>11, <1>14

LEMMA CommitRegistry ==
  ASSUME NEW w \in Sessions, IInv, CInv, Commit(w)
  PROVE  RegistryMatches'
<1> DEFINE s == ses[w]
<1>1. /\ s.at = "item" /\ Remaining(s) = {}
  BY DEF Commit
<1>2. /\ SessionInv(s)
      /\ DOMAIN db' = (DOMAIN db \ s.gone) \cup DOMAIN s.mine
      /\ \A id \in DOMAIN db' : db'[id] = IF id \in DOMAIN s.mine THEN s.mine[id] ELSE db[id]
  BY CommitFacts
<1>3. \A id \in s.gone : TableOf(id) \in Replaced
  BY <1>2 DEF SessionInv, GoneInv, Removed
<1>4. "registry" \notin Replaced /\ "training" \notin Replaced
  BY DEF Replaced
<1> HIDE DEF s
<1>5. ASSUME NEW r \in DOMAIN db', TableOf(r) = "registry"
      PROVE  \E t \in DOMAIN db' :
                TableOf(t) = "training" /\ OwnerOf(t) = OwnerOf(r) /\ db'[t].metrics = db'[r].metrics
  <2>1. CASE r \in DOMAIN s.mine
    <3>1. s.mine[r].metrics = s.job
      <4>1. Computed(r, s.mine[r], s.job)
        BY <2>1 DEF CInv, ColumnsInv, WritesInv, WriteOk, s
      <4>2. Stamp("registry") = "metrics"
        BY DEF Stamp
      <4> QED
        BY <1>5, <4>1, <4>2 DEF Computed
    <3>2. PICK q \in DOMAIN s.mine : /\ TableOf(q) = "training" /\ OwnerOf(q) = OwnerOf(r)
                                     /\ s.mine[q].metrics = s.job
      BY <1>1, <1>5, <2>1, TrainingWrites DEF s
    <3>3. q \in DOMAIN db' /\ db'[q] = s.mine[q] /\ db'[r] = s.mine[r]
      BY <1>2, <2>1
    <3> QED
      BY <3>1, <3>2, <3>3
  <2>2. CASE r \notin DOMAIN s.mine
    <3>1. r \in DOMAIN db \ s.gone /\ db'[r] = db[r]
      BY <1>2, <2>2
    <3>2. PICK t \in DOMAIN db :
             TableOf(t) = "training" /\ OwnerOf(t) = OwnerOf(r) /\ db[t].metrics = db[r].metrics
      BY <1>5, <3>1 DEF CInv, RegistryMatches
    <3>3. t \in DOMAIN db'
      BY <1>2, <1>3, <1>4, <3>2
    <3>4. t \notin DOMAIN s.mine
      <4> SUFFICES ASSUME t \in DOMAIN s.mine
                   PROVE  FALSE
        OBVIOUS
      <4>1. PICK q \in DOMAIN s.mine : q[1] = <<"registry", OwnerOf(t), <<>>, 0>>
        BY <1>1, <3>2, TrainingWrites DEF s
      <4>2. r[1] = <<"registry", OwnerOf(r), <<>>, 0>> /\ OwnerOf(r) # None
        <5>1. Own(r) /\ r[3] \in Jobs
          BY <1>1, <3>1, InsertedByJobs DEF CInv, ComputedInv, s
        <5> QED
          BY <1>5, <5>1, TrainingRow
      <4>3. r[1] = q[1] /\ TableOf(q) = "registry" /\ OwnerOf(q) # None
        BY <3>2, <4>1, <4>2 DEF TableOf, OwnerOf
      <4>4. r = q
        BY <1>1, <1>4, <3>1, <4>3, OnlyRow DEF s
      <4> QED
        BY <2>2, <4>4
    <3>5. db'[t] = db[t]
      BY <1>2, <3>3, <3>4
    <3> QED
      BY <3>1, <3>2, <3>3, <3>5
  <2> QED
    BY <2>1, <2>2
<1> QED
  BY <1>5 DEF RegistryMatches

LEMMA CommitColumns ==
  ASSUME NEW w \in Sessions, IInv, CInv, Commit(w)
  PROVE  CInv'
<1> DEFINE s == ses[w]
<1>1. \A v \in Sessions : ses'[v] = IF v = w THEN Idle ELSE ses[v]
  BY DEF Commit, Become, IInv
<1>2. /\ SessionInv(s)
      /\ DOMAIN db' = (DOMAIN db \ s.gone) \cup DOMAIN s.mine
      /\ \A id \in DOMAIN db' : db'[id] = IF id \in DOMAIN s.mine THEN s.mine[id] ELSE db[id]
      /\ DOMAIN known' = DOMAIN known \cup {s.job}
  BY CommitFacts
<1> HIDE DEF s
<1>3. ASSUME NEW v \in Sessions
      PROVE  ColumnsInv(ses[v])'
  <2>1. ColumnsInv(ses'[v])
    BY <1>1, IdleColumns DEF CInv
  <2> QED
    BY <2>1 DEF ColumnsInv, WritesInv, ReachedInv, Reached, Writes, LazyInv, OverlayInv
<1>4. ASSUME NEW id \in DOMAIN db'
      PROVE  /\ Own(id)
             /\ \E j \in DOMAIN known' : Computed(id, db'[id], j)
             /\ TableOf(id) \in Replaced => Computed(id, db'[id], id[3])
  <2>1. CASE id \in DOMAIN s.mine
    <3>1. WriteOk(s.job, id, s.mine[id])
      BY <2>1 DEF CInv, ColumnsInv, WritesInv, s
    <3>2. TableOf(id) \in Replaced => id[3] = s.job
      BY <1>2, <2>1 DEF SessionInv, MineInv
    <3>3. db'[id] = s.mine[id] /\ s.job \in DOMAIN known'
      BY <1>2, <2>1
    <3> QED
      BY <3>1, <3>2, <3>3 DEF WriteOk
  <2>2. CASE id \notin DOMAIN s.mine
    <3>1. id \in DOMAIN db /\ db'[id] = db[id]
      BY <1>2, <2>2
    <3> QED
      BY <1>2, <3>1 DEF CInv, ComputedInv
  <2> QED
    BY <2>1, <2>2
<1>5. ComputedInv'
  BY <1>4 DEF ComputedInv
<1> QED
  BY <1>3, <1>5, CommitRegistry DEF CInv

LEMMA InitCInv == Init => CInv
<1> SUFFICES ASSUME Init
             PROVE  CInv
  OBVIOUS
<1>1. ComputedInv /\ RegistryMatches
  BY DEF Init, Empty, ComputedInv, RegistryMatches
<1>2. \A w \in Sessions : ColumnsInv(ses[w])
  BY IdleColumns DEF Init
<1> QED
  BY <1>1, <1>2 DEF CInv

LEMMA StepCInv ==
  ASSUME NEW w \in Sessions, IInv, CInv, Step(w) \/ Fail(w)
  PROVE  CInv'
<1>1. CASE Conflict(w) \/ DeadlockVictim(w) \/ Fail(w)
  <2>1. Become(w, Idle) /\ UNCHANGED <<db, known>>
    BY <1>1 DEF Conflict, DeadlockVictim, Fail
  <2> QED
    BY <2>1, IdleColumns, ColumnsStep
<1> QED
  BY <1>1, SaveArtifactColumns, ReplaceRowsColumns, AddRowColumns, ChangeRowColumns, BlockColumns,
     DeleteColumns, SendColumns, ReadOverlayColumns, CommitColumns DEF Step

LEMMA NextCInv == IInv /\ CInv /\ [Next]_vars => CInv'
<1> SUFFICES ASSUME IInv, CInv, [Next]_vars
             PROVE  CInv'
  OBVIOUS
<1>1. ASSUME UNCHANGED vars
      PROVE  CInv'
  <2>1. ComputedInv' /\ RegistryMatches'
    BY <1>1 DEF vars, CInv, ComputedInv, RegistryMatches
  <2>2. \A w \in Sessions : ColumnsInv(ses'[w])
    BY <1>1 DEF vars, CInv
  <2>3. \A w \in Sessions : ColumnsInv(ses[w])'
    BY <2>2 DEF ColumnsInv, WritesInv, ReachedInv, Reached, Writes, LazyInv, OverlayInv
  <2> QED
    BY <2>1, <2>3 DEF CInv
<1>2. CASE Next
  <2>1. CASE Quiescent
    BY <1>1, <2>1 DEF Quiescent
  <2>2. ASSUME NEW w \in Sessions, Step(w) \/ Fail(w) \/ \E j \in Jobs : Begin(w, j) \/ RunCommand(w, j)
        PROVE  CInv'
    BY <2>2, StepCInv, StartColumns DEF Begin, RunCommand
  <2> QED
    BY <1>2, <2>1, <2>2 DEF Next
<1> QED
  BY <1>1, <1>2

LEMMA ColumnsHold == Spec => []CInv
  BY Invariance, InitCInv, NextCInv, PTL DEF Spec

\* The metrics in the registry are those of one of the model's training runs:
\* whoever writes one of the two rows writes both by its commit, and the unique
\* key lets nobody else hold the registry row meanwhile.
THEOREM RegistryAgrees == Spec => []RegistryMatches
<1>1. CInv => RegistryMatches
  BY DEF CInv
<1> QED
  BY <1>1, ColumnsHold, PTL

\* In the scopes of its own items a run's overlay uses what it has computed or
\* what was recorded while it went on: it has deleted or overwritten the rest.
THEOREM OverlayHolds == Spec => []OverlayIsCurrent
<1>1. CInv => OverlayIsCurrent
  BY DEF CInv, ColumnsInv, OverlayInv, OverlayIsCurrent
<1> QED
  BY <1>1, ColumnsHold, PTL
=============================================================================
