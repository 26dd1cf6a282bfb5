---------------------- MODULE HistoricalIngestion_proofs ----------------------
(***************************************************************************)
(* Proofs about HistoricalIngestion, for any sessions, files, requests and *)
(* faults.  The first part is about what overlapping, failing and repeated *)
(* calls leave in the lake, whatever a call computes from the file: two    *)
(* requests that read the same records write the same objects.  The second *)
(* is about what is computed: the passes over the lines, the records that  *)
(* are kept, the instruments and the counts; and that the lake holds it.   *)
(***************************************************************************)
EXTENDS HistoricalIngestion, NaturalOrder, TLAPS

-----------------------------------------------------------------------------
(* Names and puts.                                                         *)

\* Where the call of a session has got to.
Phases == {"idle", "parse", "raw", "meta", "quotes", "instruments", "manifest"}

AllPartitions == UNION {Partitions(memory[r]) : r \in asked}

TInv ==
    /\ memory = [r \in asked |-> RowsOf(text, r)]
    /\ pc \in [Sessions -> Phases]
    /\ serves \in [Sessions -> asked \cup {None}]
    /\ todo \in [Sessions -> SUBSET AllPartitions]
    /\ \A w \in Sessions : pc[w] # "idle" => serves[w] \in asked

LEMMA Names ==
  ASSUME NEW r, NEW q, NEW p, NEW o
  PROVE  /\ RawName(r)[1] = "raw" /\ MetaName(r)[1] = "meta"
         /\ QuotesName(r, p)[1] = "quotes" /\ QuotesName(r, p)[2] = p /\ QuotesName(r, p)[3] = IdOf(r)
         /\ InstrumentsName(r)[1] = "instruments" /\ InstrumentsName(r)[2] = IdOf(r)
         /\ ManifestName(r)[1] = "manifest"
         /\ IdOf(q) = IdOf(r) =>
               /\ QuotesName(q, p) = QuotesName(r, p)
               /\ InstrumentsName(q) = InstrumentsName(r) /\ ManifestName(q) = ManifestName(r)
         /\ QuotesName(q, o) = QuotesName(r, p) => IdOf(q) = IdOf(r) /\ o = p
         /\ InstrumentsName(q) = InstrumentsName(r) => IdOf(q) = IdOf(r)
         /\ ManifestName(q) = ManifestName(r) => IdOf(q) = IdOf(r)
<1> HIDE DEF IdOf
<1> QED
  BY DEF RawName, MetaName, QuotesName, InstrumentsName, ManifestName

LEMMA PutType ==
  ASSUME NEW name, NEW object, Put(name, object)
  PROVE  /\ DOMAIN lake' = DOMAIN lake \cup {name}
         /\ lake'[name] = object
         /\ \A n \in DOMAIN lake : n # name => lake'[n] = lake[n]
BY DEF Put

LEMMA InitType == Init => TInv
BY DEF Init, TInv, Phases

\* A session's step leaves the others alone.
Moves(w, phase) ==
    /\ pc' = [pc EXCEPT ![w] = phase]
    /\ UNCHANGED inputs

LEMMA MoveType ==
  ASSUME TInv, NEW w \in Sessions, NEW phase \in Phases, Moves(w, phase),
         \/ serves' = serves /\ pc[w] # "idle"
         \/ \E r \in asked : serves' = [serves EXCEPT ![w] = r]
         \/ phase = "idle" /\ serves' = [serves EXCEPT ![w] = None],
         todo' \in [Sessions -> SUBSET AllPartitions]
  PROVE  TInv'
<1>1. AllPartitions' = AllPartitions
  BY DEF Moves, AllPartitions, Partitions, inputs
<1>2. pc' \in [Sessions -> Phases] /\ pc'[w] = phase /\ \A v \in Sessions \ {w} : pc'[v] = pc[v]
  BY DEF TInv, Moves
<1>3. serves' \in [Sessions -> asked \cup {None}]
  BY DEF TInv
<1>4. \A v \in Sessions : pc'[v] # "idle" => serves'[v] \in asked
  BY <1>2 DEF TInv
<1> QED
  BY <1>1, <1>2, <1>3, <1>4 DEF TInv, Moves, inputs

LEMMA NextType == TInv /\ [Next]_vars => TInv'
<1> SUFFICES ASSUME TInv, [Next]_vars
             PROVE  TInv'
  OBVIOUS
<1>1. CASE UNCHANGED vars
  BY <1>1 DEF TInv, AllPartitions, Partitions, vars, inputs
<1>2. ASSUME NEW w \in Sessions, NEW r \in Requests, Begin(w, r)
      PROVE  TInv'
  BY <1>2, MoveType DEF Begin, Goto, Moves, Phases, TInv
<1>3. ASSUME NEW w \in Sessions, Prepare(w)
      PROVE  TInv'
  BY <1>3, MoveType DEF Prepare, Goto, Moves, Phases, TInv
<1>4. ASSUME NEW w \in Sessions, StoreRaw(w) \/ StoreInstruments(w) \/ StoreManifest(w)
      PROVE  TInv'
  BY <1>4, MoveType DEF StoreRaw, StoreInstruments, StoreManifest, Goto, Moves, Phases, TInv
<1>5. ASSUME NEW w \in Sessions, StoreMetadata(w)
      PROVE  TInv'
  <2>1. serves[w] \in asked
    BY <1>5 DEF TInv, StoreMetadata
  <2>2. Partitions(Data(w)) \subseteq AllPartitions
    BY <2>1 DEF AllPartitions, Data
  <2>3. todo' \in [Sessions -> SUBSET AllPartitions]
    BY <1>5, <2>2 DEF TInv, StoreMetadata
  <2> QED
    BY <1>5, <2>3, MoveType DEF StoreMetadata, Goto, Moves, Phases
<1>6. ASSUME NEW w \in Sessions, StoreQuotes(w)
      PROVE  TInv'
  <2>1. PICK p \in todo[w] :
           /\ todo' = [todo EXCEPT ![w] = @ \ {p}]
           /\ Goto(w, IF todo[w] = {p} THEN "instruments" ELSE "quotes")
    BY <1>6 DEF StoreQuotes
  <2>2. todo' \in [Sessions -> SUBSET AllPartitions]
    BY <2>1 DEF TInv
  <2> QED
    BY <1>6, <2>1, <2>2, MoveType DEF StoreQuotes, Goto, Moves, Phases
<1>7. ASSUME NEW w \in Sessions, Fail(w)
      PROVE  TInv'
  <2>1. todo' \in [Sessions -> SUBSET AllPartitions]
    BY <1>7 DEF TInv, Fail
  <2> QED
    BY <1>7, <2>1, MoveType DEF Fail, Goto, Moves, Phases
<1> QED
  BY <1>1, <1>2, <1>3, <1>4, <1>5, <1>6, <1>7 DEF Next, Step

-----------------------------------------------------------------------------
(* Bronze before silver.                                                   *)

\* What a session has made sure of by each phase.
BronzeOf(w) ==
    /\ pc[w] \in {"raw", "meta", "quotes", "instruments", "manifest"} => Accepted(serves[w])
    /\ pc[w] \in {"meta", "quotes", "instruments", "manifest"} => Has(RawName(serves[w]))
    /\ pc[w] \in {"quotes", "instruments", "manifest"} => Has(MetaName(serves[w]))

BInv == (\A w \in Sessions : BronzeOf(w)) /\ SilverHasBronze

LEMMA InitBronze == Init => BInv
BY DEF Init, BInv, BronzeOf, SilverHasBronze, Has, Stored

\* Nothing is ever deleted.
Grows == DOMAIN lake \subseteq DOMAIN lake'

LEMMA SilverStep ==
  ASSUME SilverHasBronze, UNCHANGED inputs, Grows, NEW q, NEW name,
         DOMAIN lake' \subseteq DOMAIN lake \cup {name},
         name[1] \in {"quotes", "instruments"} =>
             q \in asked /\ Accepted(q) /\ Has(RawName(q)) /\ Has(MetaName(q)),
         name[1] = "quotes" => name[3] = IdOf(q),
         name[1] = "instruments" => name[2] = IdOf(q)
  PROVE  SilverHasBronze'
<1> SUFFICES ASSUME NEW r \in asked, Has(InstrumentsName(r))' \/ Stored(r)' # {}
             PROVE  \E b \in Sharing(r) : Accepted(b) /\ Has(RawName(b))' /\ Has(MetaName(b))'
  BY DEF SilverHasBronze, inputs, Sharing, Accepted
<1>1. \A b : RawName(b)' = RawName(b) /\ MetaName(b)' = MetaName(b) /\ InstrumentsName(b)' = InstrumentsName(b)
  BY DEF RawName, MetaName, InstrumentsName, inputs
<1>2. CASE Has(InstrumentsName(r)) \/ Stored(r) # {}
  <2>1. PICK b \in Sharing(r) : Accepted(b) /\ Has(RawName(b)) /\ Has(MetaName(b))
    BY <1>2 DEF SilverHasBronze
  <2> QED
    BY <1>1, <2>1 DEF Has, Grows
<1>3. CASE ~ (Has(InstrumentsName(r)) \/ Stored(r) # {})
  <2>1. \/ name = InstrumentsName(r)
        \/ name[1] = "quotes" /\ name[3] = IdOf(r)
    BY <1>1, <1>3 DEF Has, Stored
  <2>2. q \in Sharing(r) /\ Accepted(q) /\ Has(RawName(q)) /\ Has(MetaName(q))
    BY <2>1, Names DEF Sharing
  <2> QED
    BY <1>1, <2>2 DEF Has, Grows
<1> QED
  BY <1>2, <1>3

LEMMA BronzeStep ==
  ASSUME BInv, UNCHANGED inputs, Grows, NEW w \in Sessions, NEW phase, Moves(w, phase), TInv,
         \A v \in Sessions \ {w} : serves'[v] = serves[v]
  PROVE  \A v \in Sessions \ {w} : BronzeOf(v)'
<1> SUFFICES ASSUME NEW v \in Sessions \ {w}
             PROVE  BronzeOf(v)'
  OBVIOUS
<1>1. pc'[v] = pc[v] /\ serves'[v] = serves[v]
  BY DEF Moves, TInv
<1> QED
  BY <1>1 DEF BInv, BronzeOf, Has, Grows, Accepted, inputs, RawName, MetaName

LEMMA NextBronze == TInv /\ BInv /\ [Next]_vars => BInv'
<1> SUFFICES ASSUME TInv, BInv, [Next]_vars
             PROVE  BInv'
  OBVIOUS
<1>1. CASE UNCHANGED vars
  BY <1>1 DEF BInv, BronzeOf, SilverHasBronze, Sharing, Stored, Accepted, Has, RawName, MetaName,
              InstrumentsName, vars, inputs
<1>2. ASSUME NEW w \in Sessions, NEW phase \in {"idle", "parse", "raw"}, Moves(w, phase),
             UNCHANGED lake, \A v \in Sessions \ {w} : serves'[v] = serves[v],
             phase = "raw" => Accepted(serves[w]) /\ serves' = serves
      PROVE  BInv'
  <2>1. SilverHasBronze'
    BY <1>2 DEF BInv, SilverHasBronze, Sharing, Stored, Accepted, Has, RawName, MetaName,
                InstrumentsName, inputs, Moves
  <2>2. pc'[w] = phase
    BY <1>2 DEF Moves, TInv
  <2>3. BronzeOf(w)'
    BY <1>2, <2>2 DEF BronzeOf, Accepted, Moves, inputs
  <2> QED
    BY <1>2, <2>1, <2>3, BronzeStep DEF BInv, Grows, Moves
<1>3. ASSUME NEW w \in Sessions, NEW r \in Requests, Begin(w, r)
      PROVE  BInv'
  BY <1>2, <1>3 DEF Begin, Goto, Moves, TInv
<1>4. ASSUME NEW w \in Sessions, Prepare(w)
      PROVE  BInv'
  BY <1>2, <1>4 DEF Prepare, Goto, Moves, TInv
<1>5. ASSUME NEW w \in Sessions, Fail(w)
      PROVE  BInv'
  BY <1>2, <1>5 DEF Fail, Goto, Moves, TInv
<1>6. ASSUME NEW w \in Sessions, NEW name, NEW object, NEW phase, Put(name, object), Moves(w, phase),
             serves[w] \in asked, BronzeOf(w),
             name[1] \in {"quotes", "instruments"} => pc[w] \in {"quotes", "instruments"},
             name[1] = "quotes" => name[3] = IdOf(serves[w]),
             name[1] = "instruments" => name[2] = IdOf(serves[w]),
             \A v \in Sessions \ {w} : serves'[v] = serves[v],
             BronzeOf(w)'
      PROVE  BInv'
  <2>1. Grows /\ DOMAIN lake' \subseteq DOMAIN lake \cup {name}
    BY <1>6, PutType DEF Grows
  <2>2. SilverHasBronze'
    BY <1>6, <2>1, SilverStep DEF BInv, Moves, BronzeOf
  <2> QED
    BY <1>6, <2>1, <2>2, BronzeStep DEF BInv, Moves
<1>7. ASSUME NEW w \in Sessions, StoreRaw(w)
      PROVE  BInv'
  <2>1. /\ pc[w] = "raw" /\ Put(RawName(serves[w]), text) /\ Moves(w, "meta") /\ serves' = serves
        /\ serves[w] \in asked /\ BronzeOf(w) /\ pc'[w] = "meta"
    BY <1>7 DEF StoreRaw, Goto, Moves, TInv, BInv
  <2>2. BronzeOf(w)'
    <3>1. memory' = memory /\ serves' = serves
      BY <2>1 DEF Moves, inputs
    <3>2. RawName(serves[w])' = RawName(serves[w]) /\ (Accepted(serves[w])' <=> Accepted(serves[w]))
      BY <3>1 DEF RawName, Accepted
    <3>3. RawName(serves[w]) \in DOMAIN lake'
      BY <2>1, PutType
    <3> QED
      BY <2>1, <3>2, <3>3 DEF BronzeOf, Has
  <2> QED
    BY <1>6, <2>1, <2>2, Names
<1>8. ASSUME NEW w \in Sessions, StoreMetadata(w)
      PROVE  BInv'
  <2>1. /\ pc[w] = "meta" /\ Put(MetaName(serves[w]), [source |-> Len(Data(w).records)])
        /\ Moves(w, "quotes") /\ serves' = serves
        /\ serves[w] \in asked /\ BronzeOf(w) /\ pc'[w] = "quotes"
    BY <1>8 DEF StoreMetadata, Goto, Moves, TInv, BInv
  <2>2. BronzeOf(w)'
    BY <2>1, PutType DEF BronzeOf, Accepted, Has, RawName, MetaName, Moves, inputs
  <2> QED
    BY <1>6, <2>1, <2>2, Names
<1>9. ASSUME NEW w \in Sessions, StoreQuotes(w)
      PROVE  BInv'
  <2>1. PICK p \in todo[w] :
           /\ Put(QuotesName(serves[w], p), Members(Data(w).kept, p))
           /\ Goto(w, IF todo[w] = {p} THEN "instruments" ELSE "quotes")
    BY <1>9 DEF StoreQuotes
  <2>2. /\ pc[w] = "quotes" /\ serves' = serves /\ serves[w] \in asked /\ BronzeOf(w)
        /\ pc'[w] \in {"quotes", "instruments"} /\ Moves(w, pc'[w])
    BY <1>9, <2>1 DEF StoreQuotes, Goto, Moves, TInv, BInv
  <2>3. BronzeOf(w)'
    BY <2>1, <2>2, PutType DEF BronzeOf, Accepted, Has, RawName, MetaName, Moves, inputs
  <2> QED
    BY <1>6, <2>1, <2>2, <2>3, Names
<1>10. ASSUME NEW w \in Sessions, StoreInstruments(w)
       PROVE  BInv'
  <2>1. /\ pc[w] = "instruments" /\ Put(InstrumentsName(serves[w]), Data(w).instruments)
        /\ Moves(w, "manifest") /\ serves' = serves
        /\ serves[w] \in asked /\ BronzeOf(w) /\ pc'[w] = "manifest"
    BY <1>10 DEF StoreInstruments, Goto, Moves, TInv, BInv
  <2>2. BronzeOf(w)'
    BY <2>1, PutType DEF BronzeOf, Accepted, Has, RawName, MetaName, Moves, inputs
  <2> QED
    BY <1>6, <2>1, <2>2, Names
<1>11. ASSUME NEW w \in Sessions, StoreManifest(w)
       PROVE  BInv'
  <2>1. /\ pc[w] = "manifest" /\ Put(ManifestName(serves[w]), Manifest(Data(w)))
        /\ Moves(w, "idle") /\ serves' = [serves EXCEPT ![w] = None]
        /\ serves[w] \in asked /\ BronzeOf(w) /\ pc'[w] = "idle"
    BY <1>11 DEF StoreManifest, Goto, Moves, TInv, BInv
  <2>2. BronzeOf(w)'
    BY <2>1 DEF BronzeOf
  <2>3. \A v \in Sessions \ {w} : serves'[v] = serves[v]
    BY <2>1 DEF TInv
  <2> QED
    BY <1>6, <2>1, <2>2, <2>3, Names
<1> QED
  BY <1>1, <1>3, <1>4, <1>5, <1>7, <1>8, <1>9, <1>10, <1>11 DEF Next, Step

\* Every silver object, also one left by a call that failed, has the file and its
\* metadata in the bronze layer, stored by a request that accepted the file.
THEOREM SilverFollowsBronze == Spec => []SilverHasBronze
<1>1. TInv /\ BInv /\ [Next]_vars => (TInv /\ BInv)'
  BY NextType, NextBronze
<1>2. BInv => SilverHasBronze
  BY DEF BInv
<1> QED
  BY InitType, InitBronze, <1>1, <1>2, PTL DEF Spec

-----------------------------------------------------------------------------
(* The manifest and the objects it names.                                  *)

AllStored(r) == \A p \in Partitions(memory[r]) : Has(QuotesName(r, p))

\* The objects of an ingestion are those that any of its requests writes.
ObjectsInv(r) ==
    /\ \A name \in Stored(r) :
          \E p \in Partitions(memory[r]) :
              name = QuotesName(r, p) /\ lake[name] = Members(memory[r].kept, p)
    /\ Has(InstrumentsName(r)) => lake[InstrumentsName(r)] = memory[r].instruments
    /\ Has(ManifestName(r)) =>
          /\ lake[ManifestName(r)] = Manifest(memory[r])
          /\ Has(InstrumentsName(r))
          /\ AllStored(r)

\* What a call for it has stored by each phase.
CallInv(r, w) ==
    serves[w] \in Sharing(r) =>
        /\ pc[w] = "quotes" =>
              /\ todo[w] \subseteq Partitions(memory[r])
              /\ \A p \in Partitions(memory[r]) \ todo[w] : Has(QuotesName(r, p))
        /\ pc[w] \in {"instruments", "manifest"} => AllStored(r)
        /\ pc[w] = "manifest" => Has(InstrumentsName(r))

IngestionInv(r) == ObjectsInv(r) /\ \A w \in Sessions : CallInv(r, w)

MInv == \A r \in asked : Undisputed(r) => IngestionInv(r)

\* Requests that read the same records have the same rows to write.
LEMMA SameRows ==
  ASSUME TInv, NEW r \in asked, Undisputed(r), NEW q \in Sharing(r)
  PROVE  /\ memory[q].kept = memory[r].kept
         /\ memory[q].instruments = memory[r].instruments
         /\ Partitions(memory[q]) = Partitions(memory[r])
         /\ Manifest(memory[q]) = Manifest(memory[r])
<1>1. /\ q \in asked /\ r \in Sharing(r) /\ Accepted(q) /\ Accepted(r)
      /\ memory[q].records = memory[r].records
  BY DEF Undisputed, Sharing
<1>2. ASSUME NEW b \in asked, Accepted(b)
      PROVE  /\ memory[b].kept = Kept(memory[b].records)
             /\ memory[b].instruments = Instruments(memory[b].kept)
             /\ memory[b].dups = Duplicates(memory[b].records)
  <2>1. memory[b] = RowsOf(text, b) /\ memory[b] # None
    BY <1>2 DEF TInv, Accepted
  <2> DEFINE records == Parse(text, b)
             bronze == BronzeDate(records, b)
             inst == Instruments(Kept(records))
             dups == Duplicates(records)
  <2>2. memory[b] = [records |-> records, kept |-> Kept(records), dups |-> dups,
                     instruments |-> inst, bronze |-> bronze]
    BY <2>1 DEF RowsOf
  <2> HIDE DEF records, bronze, inst, dups
  <2>3. /\ memory[b].records = records /\ memory[b].kept = Kept(records)
        /\ memory[b].instruments = inst /\ memory[b].dups = dups
    BY <2>2
  <2> QED
    BY <2>3 DEF inst, dups
<1>3. /\ memory[q].kept = memory[r].kept /\ memory[q].instruments = memory[r].instruments
      /\ memory[q].dups = memory[r].dups
  BY <1>1, <1>2
<1>4. Partitions(memory[q]) = Partitions(memory[r])
  BY <1>3 DEF Partitions
<1> QED
  BY <1>1, <1>3, <1>4 DEF Manifest

LEMMA InitManifest == Init => MInv
BY DEF Init, MInv, IngestionInv, ObjectsInv, CallInv, Has, Stored

\* An object is put that is not of the ingestion of r, or is what it should be.
LEMMA ObjectsStep ==
  ASSUME NEW r, ObjectsInv(r), UNCHANGED inputs, NEW name, NEW object, Put(name, object),
         \/ /\ ~ (name[1] = "quotes" /\ name[3] = IdOf(r))
            /\ name # InstrumentsName(r) /\ name # ManifestName(r)
         \/ \E p \in Partitions(memory[r]) :
                name = QuotesName(r, p) /\ object = Members(memory[r].kept, p)
         \/ name = InstrumentsName(r) /\ object = memory[r].instruments
         \/ /\ name = ManifestName(r) /\ object = Manifest(memory[r])
            /\ Has(InstrumentsName(r)) /\ AllStored(r)
  PROVE  ObjectsInv(r)'
<1>1. /\ DOMAIN lake' = DOMAIN lake \cup {name} /\ lake'[name] = object
      /\ \A n \in DOMAIN lake : n # name => lake'[n] = lake[n]
  BY PutType
<1>2. /\ InstrumentsName(r)[1] = "instruments" /\ ManifestName(r)[1] = "manifest"
      /\ \A p : QuotesName(r, p)[1] = "quotes" /\ QuotesName(r, p)[3] = IdOf(r)
  BY Names
<1>3. memory' = memory /\ \A m : Has(m) => Has(m)'
  BY <1>1 DEF inputs, Has
<1>4. ASSUME NEW n \in Stored(r)'
      PROVE  \E p \in Partitions(memory[r]) :
                 n = QuotesName(r, p) /\ lake'[n] = Members(memory[r].kept, p)
  <2>1. n \in DOMAIN lake \cup {name} /\ n[1] = "quotes" /\ n[3] = IdOf(r)
    BY <1>1, <1>4 DEF Stored
  <2>2. CASE n = name
    BY <1>1, <1>2, <2>1, <2>2
  <2>3. CASE n # name
    <3>1. n \in Stored(r) /\ lake'[n] = lake[n]
      BY <1>1, <2>1, <2>3 DEF Stored
    <3> QED
      BY <3>1 DEF ObjectsInv
  <2> QED
    BY <2>2, <2>3
<1>5. Has(InstrumentsName(r))' => lake'[InstrumentsName(r)] = memory[r].instruments
  <2>1. CASE name = InstrumentsName(r)
    BY <1>1, <1>2, <2>1
  <2>2. CASE name # InstrumentsName(r)
    BY <1>1, <2>2 DEF ObjectsInv, Has
  <2> QED
    BY <2>1, <2>2
<1>6. Has(ManifestName(r))' =>
         lake'[ManifestName(r)] = Manifest(memory[r]) /\ Has(InstrumentsName(r)) /\ AllStored(r)
  <2>1. CASE name = ManifestName(r)
    BY <1>1, <1>2, <2>1
  <2>2. CASE name # ManifestName(r)
    BY <1>1, <2>2 DEF ObjectsInv, Has
  <2> QED
    BY <2>1, <2>2
<1>7. AllStored(r) => AllStored(r)'
  BY <1>3 DEF AllStored, Partitions, Has, QuotesName
<1>8. /\ Partitions(memory[r])' = Partitions(memory[r]) /\ Manifest(memory[r])' = Manifest(memory[r])
      /\ InstrumentsName(r)' = InstrumentsName(r) /\ ManifestName(r)' = ManifestName(r)
      /\ Has(InstrumentsName(r)) => Has(InstrumentsName(r))'
      /\ \A p : Members(memory[r].kept, p)' = Members(memory[r].kept, p)
                /\ QuotesName(r, p)' = QuotesName(r, p)
  BY <1>3 DEF Partitions, Manifest, InstrumentsName, ManifestName, Has, Members, QuotesName, IdOf
<1> QED
  BY <1>3, <1>4, <1>5, <1>6, <1>7, <1>8 DEF ObjectsInv

\* The other calls still know what they knew.
LEMMA OtherCalls ==
  ASSUME TInv, NEW r, IngestionInv(r), NEW w \in Sessions, NEW phase, Moves(w, phase), Grows,
         \A v \in Sessions \ {w} : serves'[v] = serves[v] /\ todo'[v] = todo[v],
         NEW v \in Sessions \ {w}
  PROVE  CallInv(r, v)'
<1>1. pc'[v] = pc[v] /\ serves'[v] = serves[v] /\ todo'[v] = todo[v] /\ memory' = memory /\ asked' = asked
  BY DEF Moves, TInv, inputs
<1>2. CallInv(r, v)
  BY DEF IngestionInv
<1>3. Sharing(r)' = Sharing(r) /\ Partitions(memory[r])' = Partitions(memory[r])
  BY <1>1 DEF Sharing, Partitions
<1>4. /\ \A p : Has(QuotesName(r, p)) => Has(QuotesName(r, p))'
      /\ Has(InstrumentsName(r)) => Has(InstrumentsName(r))'
  BY DEF Grows, Has, QuotesName, InstrumentsName
<1>5. AllStored(r) => AllStored(r)'
  BY <1>3, <1>4 DEF AllStored
<1> QED
  BY <1>1, <1>2, <1>3, <1>4, <1>5 DEF CallInv

LEMMA ManifestStep ==
  ASSUME TInv, NEW r \in asked, Undisputed(r), IngestionInv(r), Next
  PROVE  IngestionInv(r)'
<1>1. ASSUME NEW w \in Sessions, NEW phase \in {"idle", "parse", "raw"}, Moves(w, phase),
             UNCHANGED lake,
             \A v \in Sessions \ {w} : serves'[v] = serves[v] /\ todo'[v] = todo[v]
      PROVE  IngestionInv(r)'
  <2>1. ObjectsInv(r)'
    BY <1>1 DEF IngestionInv, ObjectsInv, AllStored, Stored, Has, Partitions, Manifest, Members,
                Moves, inputs
  <2>2. CallInv(r, w)'
    <3>1. pc'[w] = phase
      BY <1>1 DEF Moves, TInv
    <3> QED
      BY <1>1, <3>1 DEF CallInv
  <2> QED
    BY <1>1, <2>1, <2>2, OtherCalls DEF IngestionInv, Grows
<1>2. ASSUME NEW w \in Sessions, NEW q \in Requests, Begin(w, q)
      PROVE  IngestionInv(r)'
  BY <1>1, <1>2 DEF Begin, Goto, Moves, TInv
<1>3. ASSUME NEW w \in Sessions, Prepare(w)
      PROVE  IngestionInv(r)'
  BY <1>1, <1>3 DEF Prepare, Goto, Moves, TInv
<1>4. ASSUME NEW w \in Sessions, Fail(w)
      PROVE  IngestionInv(r)'
  BY <1>1, <1>4 DEF Fail, Goto, Moves, TInv
<1>5. ASSUME NEW w \in Sessions, NEW name, NEW object, Put(name, object), NEW phase,
             Moves(w, phase),
             \A v \in Sessions \ {w} : serves'[v] = serves[v] /\ todo'[v] = todo[v],
             \/ /\ ~ (name[1] = "quotes" /\ name[3] = IdOf(r))
                /\ name # InstrumentsName(r) /\ name # ManifestName(r)
             \/ \E p \in Partitions(memory[r]) :
                    name = QuotesName(r, p) /\ object = Members(memory[r].kept, p)
             \/ name = InstrumentsName(r) /\ object = memory[r].instruments
             \/ /\ name = ManifestName(r) /\ object = Manifest(memory[r])
                /\ Has(InstrumentsName(r)) /\ AllStored(r),
             CallInv(r, w)'
      PROVE  IngestionInv(r)'
  <2>1. Grows
    BY <1>5, PutType DEF Grows
  <2>2. UNCHANGED inputs /\ Sessions' = Sessions
    BY <1>5 DEF Moves
  <2>3. ObjectsInv(r)'
    BY <1>5, <2>2, ObjectsStep DEF IngestionInv
  <2> QED
    BY <1>5, <2>1, <2>3, OtherCalls DEF IngestionInv
<1>6. /\ InstrumentsName(r)[1] = "instruments" /\ ManifestName(r)[1] = "manifest"
      /\ \A p : QuotesName(r, p)[1] = "quotes" /\ QuotesName(r, p)[3] = IdOf(r)
  BY Names
<1>7. ASSUME NEW w \in Sessions, StoreRaw(w)
      PROVE  IngestionInv(r)'
  <2>1. /\ Put(RawName(serves[w]), text) /\ Moves(w, "meta") /\ UNCHANGED <<serves, todo>>
        /\ pc'[w] = "meta"
    BY <1>7 DEF StoreRaw, Goto, Moves, TInv
  <2>2. CallInv(r, w)'
    BY <2>1 DEF CallInv
  <2> QED
    BY <1>5, <1>6, <2>1, <2>2, Names
<1>8. ASSUME NEW w \in Sessions, StoreMetadata(w)
      PROVE  IngestionInv(r)'
  <2>1. /\ Put(MetaName(serves[w]), [source |-> Len(Data(w).records)])
        /\ Moves(w, "quotes") /\ serves' = serves /\ pc'[w] = "quotes"
        /\ todo' = [todo EXCEPT ![w] = Partitions(memory[serves[w]])]
        /\ todo'[w] = Partitions(memory[serves[w]])
        /\ memory' = memory /\ asked' = asked
    BY <1>8 DEF StoreMetadata, Goto, Moves, TInv, Data, inputs
  <2>2. CallInv(r, w)'
    <3> SUFFICES ASSUME serves[w] \in Sharing(r)
                 PROVE  CallInv(r, w)'
      BY <2>1 DEF CallInv, Sharing
    <3>1. todo'[w] = Partitions(memory[r]) /\ Partitions(memory[r])' = Partitions(memory[r])
      BY <2>1, SameRows DEF Partitions
    <3> QED
      BY <2>1, <3>1 DEF CallInv
  <2>3. \A v \in Sessions \ {w} : serves'[v] = serves[v] /\ todo'[v] = todo[v]
    BY <2>1 DEF TInv
  <2> QED
    BY <1>5, <1>6, <2>1, <2>2, <2>3, Names
<1>9. ASSUME NEW w \in Sessions, StoreQuotes(w)
      PROVE  IngestionInv(r)'
  <2>1. PICK p \in todo[w] :
           /\ Put(QuotesName(serves[w], p), Members(memory[serves[w]].kept, p))
           /\ todo' = [todo EXCEPT ![w] = @ \ {p}]
           /\ Goto(w, IF todo[w] = {p} THEN "instruments" ELSE "quotes")
    BY <1>9 DEF StoreQuotes, Data
  <2> DEFINE name == QuotesName(serves[w], p)
             object == Members(memory[serves[w]].kept, p)
  <2>2. /\ pc[w] = "quotes" /\ serves' = serves /\ serves[w] \in asked
        /\ pc'[w] = (IF todo[w] = {p} THEN "instruments" ELSE "quotes") /\ Moves(w, pc'[w])
        /\ todo'[w] = todo[w] \ {p} /\ memory' = memory /\ asked' = asked
        /\ \A v \in Sessions \ {w} : serves'[v] = serves[v] /\ todo'[v] = todo[v]
    BY <1>9, <2>1 DEF StoreQuotes, Goto, Moves, TInv, inputs
  <2>3. CASE serves[w] \in Sharing(r)
    <3>1. IdOf(serves[w]) = IdOf(r)
      BY <2>3 DEF Sharing
    <3>2. name = QuotesName(r, p) /\ object = Members(memory[r].kept, p)
      BY <2>3, <3>1, Names, SameRows
    <3>3. /\ todo[w] \subseteq Partitions(memory[r])
          /\ \A o \in Partitions(memory[r]) \ todo[w] : Has(QuotesName(r, o))
      BY <2>2, <2>3 DEF IngestionInv, CallInv
    <3>4. \A o : Has(QuotesName(r, o)) \/ o = p => Has(QuotesName(r, o))'
      BY <2>1, <3>2, PutType DEF Has, QuotesName
    <3>5. Partitions(memory[r])' = Partitions(memory[r])
      BY <2>2 DEF Partitions
    <3>6. \A o \in Partitions(memory[r]) \ todo'[w] : Has(QuotesName(r, o))'
      BY <2>2, <3>3, <3>4
    <3>7. CallInv(r, w)'
      BY <2>2, <3>3, <3>5, <3>6 DEF CallInv, AllStored
    <3> QED
      BY <1>5, <2>1, <2>2, <3>2, <3>3, <3>7
  <2>4. CASE serves[w] \notin Sharing(r)
    <3>1. name[1] = "quotes" /\ name[3] # IdOf(r)
      BY <2>2, <2>4, Names DEF Sharing
    <3>2. CallInv(r, w)'
      BY <2>2, <2>4 DEF CallInv, Sharing
    <3> QED
      BY <1>5, <1>6, <2>1, <2>2, <3>1, <3>2
  <2> QED
    BY <2>3, <2>4
<1>10. ASSUME NEW w \in Sessions, StoreInstruments(w)
       PROVE  IngestionInv(r)'
  <2>1. /\ Put(InstrumentsName(serves[w]), memory[serves[w]].instruments)
        /\ pc[w] = "instruments" /\ Moves(w, "manifest") /\ UNCHANGED <<serves, todo>>
        /\ pc'[w] = "manifest" /\ serves[w] \in asked /\ memory' = memory /\ asked' = asked
    BY <1>10 DEF StoreInstruments, Goto, Moves, TInv, Data, inputs
  <2>2. CASE serves[w] \in Sharing(r)
    <3>1. InstrumentsName(serves[w]) = InstrumentsName(r) /\ memory[serves[w]].instruments = memory[r].instruments
      BY <2>2, Names, SameRows DEF Sharing
    <3>2. AllStored(r) /\ Has(InstrumentsName(r))'
      BY <2>1, <2>2, <3>1, PutType DEF IngestionInv, CallInv, Has, InstrumentsName
    <3>3. AllStored(r)'
      BY <2>1, <3>2, PutType DEF AllStored, Partitions, Has, QuotesName
    <3>4. CallInv(r, w)'
      BY <2>1, <3>2, <3>3 DEF CallInv
    <3> QED
      BY <1>5, <2>1, <3>1, <3>4
  <2>3. CASE serves[w] \notin Sharing(r)
    <3>1. InstrumentsName(serves[w]) # InstrumentsName(r)
      BY <2>1, <2>3, Names DEF Sharing
    <3>2. CallInv(r, w)'
      BY <2>1, <2>3 DEF CallInv, Sharing
    <3> QED
      BY <1>5, <1>6, <2>1, <3>1, <3>2, Names
  <2> QED
    BY <2>2, <2>3
<1>11. ASSUME NEW w \in Sessions, StoreManifest(w)
       PROVE  IngestionInv(r)'
  <2>1. /\ Put(ManifestName(serves[w]), Manifest(memory[serves[w]]))
        /\ pc[w] = "manifest" /\ Moves(w, "idle")
        /\ \A v \in Sessions \ {w} : serves'[v] = serves[v] /\ todo'[v] = todo[v]
        /\ pc'[w] = "idle" /\ serves[w] \in asked
    BY <1>11 DEF StoreManifest, Goto, Moves, TInv, Data
  <2>2. CallInv(r, w)'
    BY <2>1 DEF CallInv
  <2>3. CASE serves[w] \in Sharing(r)
    <3>1. ManifestName(serves[w]) = ManifestName(r) /\ Manifest(memory[serves[w]]) = Manifest(memory[r])
      BY <2>3, Names, SameRows DEF Sharing
    <3>2. Has(InstrumentsName(r)) /\ AllStored(r)
      BY <2>1, <2>3 DEF IngestionInv, CallInv
    <3> QED
      BY <1>5, <2>1, <2>2, <3>1, <3>2
  <2>4. CASE serves[w] \notin Sharing(r)
    <3>1. ManifestName(serves[w]) # ManifestName(r)
      BY <2>1, <2>4, Names DEF Sharing
    <3> QED
      BY <1>5, <1>6, <2>1, <2>2, <3>1, Names
  <2> QED
    BY <2>3, <2>4
<1> QED
  BY <1>2, <1>3, <1>4, <1>7, <1>8, <1>9, <1>10, <1>11 DEF Next, Step

LEMMA NextManifest == TInv /\ MInv /\ [Next]_vars => MInv'
<1> SUFFICES ASSUME TInv, MInv, [Next]_vars, NEW r \in asked', Undisputed(r)'
             PROVE  IngestionInv(r)'
  BY DEF MInv
<1>1. UNCHANGED inputs
  BY DEF Next, Step, Begin, Prepare, StoreRaw, StoreMetadata, StoreQuotes, StoreInstruments,
         StoreManifest, Fail, vars
<1>2. r \in asked /\ Undisputed(r)
  BY <1>1 DEF Undisputed, Sharing, Accepted, inputs
<1>3. IngestionInv(r)
  BY <1>2 DEF MInv
<1>4. CASE UNCHANGED vars
  BY <1>3, <1>4 DEF IngestionInv, ObjectsInv, CallInv, AllStored, Stored, Sharing, Has, Partitions,
                    Manifest, Members, vars, inputs
<1>5. CASE Next
  BY <1>2, <1>3, <1>5, ManifestStep
<1> QED
  BY <1>4, <1>5

\* At every moment a manifest names the silver objects of its ingestion, all of
\* them and no others, with their row counts, for any overlaps and failures of the
\* requests that read the same records.
THEOREM ManifestsStayTrue == Spec => []ManifestIsTrue
<1>1. MInv => ManifestIsTrue
  <2> SUFFICES ASSUME MInv, NEW r \in asked, Has(ManifestName(r)), Undisputed(r)
               PROVE  LET m == lake[ManifestName(r)]
                      IN  /\ Stored(r) = {QuotesName(r, p) : p \in DOMAIN m.rows}
                          /\ \A p \in DOMAIN m.rows : Cardinality(lake[QuotesName(r, p)]) = m.rows[p]
                          /\ Has(InstrumentsName(r))
                          /\ Cardinality(DOMAIN lake[InstrumentsName(r)]) = m.instruments
    BY DEF ManifestIsTrue
  <2> DEFINE m == lake[ManifestName(r)]
             kept == memory[r].kept
  <2>1. /\ m = Manifest(memory[r]) /\ Has(InstrumentsName(r)) /\ AllStored(r)
        /\ lake[InstrumentsName(r)] = memory[r].instruments
        /\ \A name \in Stored(r) :
              \E p \in Partitions(memory[r]) : name = QuotesName(r, p) /\ lake[name] = Members(kept, p)
    BY DEF MInv, IngestionInv, ObjectsInv
  <2>2. /\ m.rows = [p \in Partitions(memory[r]) |-> Cardinality(Members(kept, p))]
        /\ m.instruments = Cardinality(DOMAIN memory[r].instruments)
    BY <2>1 DEF Manifest
  <2>3. \A p : QuotesName(r, p)[1] = "quotes" /\ QuotesName(r, p)[3] = IdOf(r)
    BY Names
  <2>4. \A p \in Partitions(memory[r]) : QuotesName(r, p) \in Stored(r)
    BY <2>1, <2>3 DEF AllStored, Stored, Has
  <2>5. \A p \in Partitions(memory[r]) : lake[QuotesName(r, p)] = Members(kept, p)
    BY <2>1, <2>4, Names
  <2> HIDE DEF m, kept
  <2>6. Stored(r) = {QuotesName(r, p) : p \in DOMAIN m.rows}
    BY <2>1, <2>2, <2>4
  <2>7. \A p \in DOMAIN m.rows : Cardinality(lake[QuotesName(r, p)]) = m.rows[p]
    BY <2>2, <2>5
  <2> QED
    BY <2>1, <2>2, <2>6, <2>7 DEF m
<1>2. TInv /\ MInv /\ [Next]_vars => (TInv /\ MInv)'
  BY NextType, NextManifest
<1> QED
  BY InitType, InitManifest, <1>1, <1>2, PTL DEF Spec

-----------------------------------------------------------------------------
(* A file is read by one pass over its lines.  A fold over a tuple takes   *)
(* the same steps as a recursive function, and its result is found one line*)
(* at a time.                                                              *)

LEMMA Maxima ==
  ASSUME NEW n \in Nat
  PROVE  /\ \A s \in SUBSET (1 .. n) : s # {} => Max(s) \in s
         /\ \A k \in 1 .. n :
               /\ k \in 0 .. n /\ k - 1 \in 0 .. n
               /\ 1 .. k \in SUBSET (1 .. n) /\ 1 .. k # {}
               /\ Max(1 .. k) = k /\ (1 .. k) \ {k} = 1 .. k - 1
<1>1. ASSUME NEW s \in SUBSET (1 .. n), s # {}
      PROVE  Max(s) \in s
  <2>1. \E x \in s : \A y \in s : x >= y
    BY <1>1, GreatestElement, s \subseteq 0 .. n
  <2> QED
    BY <2>1 DEF Max
<1>2. ASSUME NEW k \in 1 .. n
      PROVE  Max(1 .. k) = k
  <2>1. k \in 1 .. k /\ \A y \in 1 .. k : k >= y
    OBVIOUS
  <2>2. \A x \in 1 .. k : (\A y \in 1 .. k : x >= y) => x = k
    OBVIOUS
  <2>3. \A x, z \in 1 .. k : (\A y \in 1 .. k : x >= y) /\ (\A y \in 1 .. k : z >= y) => x = z
    OBVIOUS
  <2> QED
    BY <2>1, <2>2 DEF Max
<1>3. ASSUME NEW k \in 1 .. n
      PROVE  /\ k \in 0 .. n /\ k - 1 \in 0 .. n
             /\ 1 .. k \in SUBSET (1 .. n) /\ 1 .. k # {}
             /\ (1 .. k) \ {k} = 1 .. k - 1
  <2>1. k \in 1 .. k
    OBVIOUS
  <2>2. k \in 0 .. n /\ k - 1 \in 0 .. n
    OBVIOUS
  <2>3. 1 .. k \in SUBSET (1 .. n) /\ (1 .. k) \ {k} = 1 .. k - 1
    OBVIOUS
  <2> QED
    BY <2>1, <2>2, <2>3
<1> QED
  BY <1>1, <1>2, <1>3

\* h is what a pass over the numbers from 1 to n makes of each set of them: from
\* base, a step g for each number.
Pass(h, n, base, g) ==
    /\ h[{}] = base
    /\ \A s \in SUBSET (1 .. n) : s # {} =>
          Max(s) \in s /\ h[s] = g[<<h[s \ {Max(s)}], Max(s)>>]

\* A pass over the numbers from 1 to n, as the folds of the library make it.
LEMMA Passes ==
  ASSUME NEW n \in Nat, NEW V, NEW base \in V, NEW g, Steps(g, V, 1 .. n)
  PROVE  \E h \in [SUBSET (1 .. n) -> V] : Pass(h, n, base, g)
<1> DEFINE T == 1 .. n
           c == [s \in SUBSET T |-> Max(s)]
<1>1. IsFiniteSet(T)
  BY FS_Interval
<1>2. \A s \in SUBSET T : s # {} => Max(s) \in s
  BY Maxima
<1>3. \A s \in SUBSET T : c[s] = Max(s)
  OBVIOUS
<1> HIDE DEF c, T
<1>4. Chooses(c, T)
  BY <1>2, <1>3 DEF Chooses
<1>5. Steps(g, V, T)
  BY DEF T
<1>6. PICK h \in [SUBSET T -> V] : Recursion(h, T, base, c, g)
  BY <1>1, <1>4, <1>5, RecursionOverSubsets, Zenon
<1>7. h[{}] = base /\ \A s \in SUBSET T : s # {} => Max(s) \in s /\ h[s] = g[<<h[s \ {Max(s)}], Max(s)>>]
  BY <1>2, <1>3, <1>6 DEF Recursion
<1> QED
  BY <1>6, <1>7 DEF T, Pass

\* The pass of deduplicate, record after record.
LEMMA DeduplicatePass ==
  ASSUME NEW S, NEW records \in Seq(S)
  PROVE  \E pass :
            /\ pass[0] = [k \in {KeyOf(x) : x \in ToSet(records)} |-> None]
            /\ \A n \in 1 .. Len(records) : pass[n] = Take(pass[n - 1], records[n])
            /\ Deduplicate(records) = pass[Len(records)]
<1> DEFINE N == Len(records)
           R == ToSet(records)
           K == {KeyOf(x) : x \in R}
           V == [K -> R \cup {None}]
           base == [k \in K |-> None]
           Body(f) == [s \in SUBSET (1 .. N) |->
                          IF s = {} THEN base ELSE Take(f[s \ {Max(s)}], records[Max(s)])]
           f0 == CHOOSE f : f = Body(f)
           g == [p \in V \X (1 .. N) |-> Take(p[1], records[p[2]])]
<1>1. N \in Nat /\ DOMAIN records = 1 .. N /\ \A n \in 1 .. N : records[n] \in R
  BY DEF ToSet
<1>2. base \in V
  OBVIOUS
<1>3. \A b \in V, x \in R : Take(b, x) \in V
  BY DEF Take
<1>4. Steps(g, V, 1 .. N)
  <2> HIDE DEF V, R, N
  <2> QED
    BY <1>1, <1>3 DEF Steps
<1>5. \A b \in V, n \in 1 .. N : g[<<b, n>>] = Take(b, records[n])
  <2> HIDE DEF V, R, N
  <2> QED
    OBVIOUS
<1>6. Deduplicate(records) = f0[1 .. N]
  <2>1. DOMAIN records = 1 .. N
    BY <1>1
  <2> HIDE DEF Take, KeyOf, Max, ToSet, N
  <2> QED
    BY <2>1, Zenon DEF Deduplicate, FoldLeft, MapThenFoldSet
<1> HIDE DEF V, base, g, N, R, K
<1>7. PICK h \in [SUBSET (1 .. N) -> V] : Pass(h, N, base, g)
  BY <1>1, <1>2, <1>4, Passes, Zenon
<1>8. h = Body(h)
  <2>1. ASSUME NEW s \in SUBSET (1 .. N), s # {}
        PROVE  h[s] = Take(h[s \ {Max(s)}], records[Max(s)])
    <3>1. s \ {Max(s)} \in SUBSET (1 .. N) /\ Max(s) \in 1 .. N
      BY <1>7, <2>1 DEF Pass
    <3>2. h[s \ {Max(s)}] \in V
      BY <1>7, <3>1
    <3> QED
      BY <1>5, <1>7, <2>1, <3>1, <3>2 DEF Pass
  <2> QED
    BY <1>7, <2>1 DEF Pass
<1>9. f0 = Body(f0)
  <2> HIDE DEF Body
  <2> QED
    BY <1>8
<1> HIDE DEF f0
<1> DEFINE pass == [n \in 0 .. N |-> f0[1 .. n]]
<1>10. pass[0] = base
  <2>1. 0 \in 0 .. N /\ 1 .. 0 = {}
    BY <1>1
  <2>2. f0[{}] = base
    BY <1>9
  <2> QED
    BY <2>1, <2>2
<1>11. ASSUME NEW n \in 1 .. N
       PROVE  pass[n] = Take(pass[n - 1], records[n])
  <2>1. /\ n \in 0 .. N /\ n - 1 \in 0 .. N
        /\ 1 .. n \in SUBSET (1 .. N) /\ 1 .. n # {}
        /\ Max(1 .. n) = n /\ (1 .. n) \ {n} = 1 .. n - 1
    BY <1>1, Maxima
  <2>4. f0[1 .. n] = Take(f0[1 .. n - 1], records[n])
    BY <1>9, <2>1
  <2> QED
    BY <2>1, <2>4
<1>12. pass[N] = f0[1 .. N]
  BY <1>1
<1> QED
  <2> HIDE DEF pass
  <2> QED
    BY <1>6, <1>10, <1>11, <1>12 DEF N, base, K, R

\* The pass of build_instrument_rows, record after record.
LEMMA InstrumentsPass ==
  ASSUME NEW S, NEW records \in Seq(S)
  PROVE  \E pass :
            /\ pass[0] = [k \in {InstrumentOf(x) : x \in ToSet(records)} |-> None]
            /\ \A n \in 1 .. Len(records) : pass[n] = Register(pass[n - 1], records[n])
            /\ Instruments(records) = pass[Len(records)]
<1> DEFINE N == Len(records)
           R == ToSet(records)
           K == {InstrumentOf(x) : x \in R}
           Row == [market : {x.market : x \in R}, first : {x.date : x \in R}, last : {x.date : x \in R}]
           V == [K -> Row \cup {None}]
           base == [k \in K |-> None]
           Body(f) == [s \in SUBSET (1 .. N) |->
                          IF s = {} THEN base ELSE Register(f[s \ {Max(s)}], records[Max(s)])]
           f0 == CHOOSE f : f = Body(f)
           g == [p \in V \X (1 .. N) |-> Register(p[1], records[p[2]])]
<1>1. N \in Nat /\ DOMAIN records = 1 .. N /\ \A n \in 1 .. N : records[n] \in R
  BY DEF ToSet
<1>2. base \in V
  OBVIOUS
<1>3. \A b \in V, x \in R : Register(b, x) \in V
  <2> SUFFICES ASSUME NEW b \in V, NEW x \in R
               PROVE  Register(b, x) \in V
    OBVIOUS
  <2>1. InstrumentOf(x) \in K
    OBVIOUS
  <2>2. ASSUME NEW row \in Row
        PROVE  Extend(row, x) \in Row
    BY DEF Extend
  <2>3. [market |-> x.market, first |-> x.date, last |-> x.date] \in Row
    OBVIOUS
  <2> HIDE DEF Row, K
  <2> QED
    BY <2>1, <2>2, <2>3 DEF Register
<1>4. Steps(g, V, 1 .. N)
  <2> HIDE DEF V, R, N
  <2> QED
    BY <1>1, <1>3 DEF Steps
<1>5. \A b \in V, n \in 1 .. N : g[<<b, n>>] = Register(b, records[n])
  <2> HIDE DEF V, R, N
  <2> QED
    OBVIOUS
<1>6. Instruments(records) = f0[1 .. N]
  <2>1. DOMAIN records = 1 .. N
    BY <1>1
  <2> HIDE DEF Register, InstrumentOf, Max, ToSet, N
  <2> QED
    BY <2>1, Zenon DEF Instruments, FoldLeft, MapThenFoldSet
<1> HIDE DEF V, base, g, N, R, K, Row
<1>7. PICK h \in [SUBSET (1 .. N) -> V] : Pass(h, N, base, g)
  BY <1>1, <1>2, <1>4, Passes, Zenon
<1>8. h = Body(h)
  <2>1. ASSUME NEW s \in SUBSET (1 .. N), s # {}
        PROVE  h[s] = Register(h[s \ {Max(s)}], records[Max(s)])
    <3>1. s \ {Max(s)} \in SUBSET (1 .. N) /\ Max(s) \in 1 .. N
      BY <1>7, <2>1 DEF Pass
    <3>2. h[s \ {Max(s)}] \in V
      BY <1>7, <3>1
    <3> QED
      BY <1>5, <1>7, <2>1, <3>1, <3>2 DEF Pass
  <2> QED
    BY <1>7, <2>1 DEF Pass
<1>9. f0 = Body(f0)
  <2> HIDE DEF Body
  <2> QED
    BY <1>8
<1> HIDE DEF f0
<1> DEFINE pass == [n \in 0 .. N |-> f0[1 .. n]]
<1>10. pass[0] = base
  <2>1. 0 \in 0 .. N /\ 1 .. 0 = {}
    BY <1>1
  <2>2. f0[{}] = base
    BY <1>9
  <2> QED
    BY <2>1, <2>2
<1>11. ASSUME NEW n \in 1 .. N
       PROVE  pass[n] = Register(pass[n - 1], records[n])
  <2>1. /\ n \in 0 .. N /\ n - 1 \in 0 .. N
        /\ 1 .. n \in SUBSET (1 .. N) /\ 1 .. n # {}
        /\ Max(1 .. n) = n /\ (1 .. n) \ {n} = 1 .. n - 1
    BY <1>1, Maxima
  <2>4. f0[1 .. n] = Register(f0[1 .. n - 1], records[n])
    BY <1>9, <2>1
  <2> QED
    BY <2>1, <2>4
<1>12. pass[N] = f0[1 .. N]
  BY <1>1
<1> QED
  <2> HIDE DEF pass
  <2> QED
    BY <1>6, <1>10, <1>11, <1>12 DEF N, base, K, R

\* The pass of the parser, line after line.
LEMMA ParsePass ==
  ASSUME NEW S, NEW content \in Seq(S), NEW r
  PROVE  \E pass :
            /\ pass[0] = <<>>
            /\ \A n \in 1 .. Len(content) :
                  pass[n] = IF content[n].quote \/ r.file \notin Cotahist
                            THEN Append(pass[n - 1], Enrich(content[n], DateOf(content[n], r), n))
                            ELSE pass[n - 1]
            /\ Parse(content, r) = pass[Len(content)]
<1> DEFINE N == Len(content)
           Read(n) == Enrich(content[n], DateOf(content[n], r), n)
           Quoted(n) == content[n].quote \/ r.file \notin Cotahist
           V == Seq({Read(n) : n \in 1 .. N})
           base == <<>>
           Body(f) == [s \in SUBSET (1 .. N) |->
                          IF s = {} THEN base
                          ELSE IF Quoted(Max(s)) THEN Append(f[s \ {Max(s)}], Read(Max(s)))
                               ELSE f[s \ {Max(s)}]]
           f0 == CHOOSE f : f = Body(f)
           g == [p \in V \X (1 .. N) |->
                    IF Quoted(p[2]) THEN Append(p[1], Read(p[2])) ELSE p[1]]
<1>1. N \in Nat /\ DOMAIN content = 1 .. N
  OBVIOUS
<1>2. base \in V
  OBVIOUS
<1>3. \A b \in V, n \in 1 .. N : Append(b, Read(n)) \in V
  OBVIOUS
<1>4. Steps(g, V, 1 .. N)
  <2> HIDE DEF V, N, Read, Quoted
  <2> QED
    BY <1>1, <1>3 DEF Steps
<1>5. \A b \in V, n \in 1 .. N :
         g[<<b, n>>] = IF Quoted(n) THEN Append(b, Read(n)) ELSE b
  <2> HIDE DEF V, N, Read, Quoted
  <2> QED
    OBVIOUS
<1>6. Parse(content, r) = f0[1 .. N]
  <2>1. DOMAIN content = 1 .. N
    BY <1>1
  <2> DEFINE ids == [i \in DOMAIN content |-> i]
             F(f) == [s \in SUBSET (1 .. N) |->
                          IF s = {} THEN base
                          ELSE IF Quoted(ids[Max(s)]) THEN Append(f[s \ {Max(s)}], Read(ids[Max(s)]))
                               ELSE f[s \ {Max(s)}]]
  <2>2. DOMAIN ids = 1 .. N
    BY <2>1
  <2>3. Parse(content, r) = (CHOOSE f : f = F(f))[1 .. N]
    <3> HIDE DEF Max, N, Enrich, DateOf, ids
    <3>1. Parse(content, r) = FoldLeftDomain(LAMBDA records, n :
             IF Quoted(n) THEN Append(records, Read(n)) ELSE records, <<>>, content)
      BY Zenon DEF Parse
    <3>2. @ = FoldLeft(LAMBDA records, n :
             IF Quoted(n) THEN Append(records, Read(n)) ELSE records, <<>>, ids)
      BY Zenon DEF FoldLeftDomain, ids
    <3> QED
      BY <2>2, <3>1, <3>2, Zenon DEF FoldLeft, MapThenFoldSet
  <2>4. \A s \in SUBSET (1 .. N) : s # {} => ids[Max(s)] = Max(s)
    BY <1>1, Maxima
  <2>5. \A f : F(f) = Body(f)
    <3> HIDE DEF Quoted, Read, base, N, ids
    <3> QED
      BY <2>4
  <2> HIDE DEF F, Body
  <2> QED
    BY <2>3, <2>5
<1> HIDE DEF V, base, g, N, Read, Quoted
<1>7. PICK h \in [SUBSET (1 .. N) -> V] : Pass(h, N, base, g)
  BY <1>1, <1>2, <1>4, Passes, Zenon
<1>8. h = Body(h)
  <2>1. ASSUME NEW s \in SUBSET (1 .. N), s # {}
        PROVE  h[s] = IF Quoted(Max(s)) THEN Append(h[s \ {Max(s)}], Read(Max(s)))
                      ELSE h[s \ {Max(s)}]
    <3>1. s \ {Max(s)} \in SUBSET (1 .. N) /\ Max(s) \in 1 .. N
      BY <1>7, <2>1 DEF Pass
    <3>2. h[s \ {Max(s)}] \in V
      BY <1>7, <3>1
    <3> QED
      BY <1>5, <1>7, <2>1, <3>1, <3>2 DEF Pass
  <2> QED
    BY <1>7, <2>1 DEF Pass
<1>9. f0 = Body(f0)
  <2> HIDE DEF Body
  <2> QED
    BY <1>8
<1> HIDE DEF f0
<1> DEFINE pass == [n \in 0 .. N |-> f0[1 .. n]]
<1>10. pass[0] = base
  <2>1. 0 \in 0 .. N /\ 1 .. 0 = {}
    BY <1>1
  <2>2. f0[{}] = base
    BY <1>9
  <2> QED
    BY <2>1, <2>2
<1>11. ASSUME NEW n \in 1 .. N
       PROVE  pass[n] = IF Quoted(n) THEN Append(pass[n - 1], Read(n)) ELSE pass[n - 1]
  <2>1. /\ n \in 0 .. N /\ n - 1 \in 0 .. N
        /\ 1 .. n \in SUBSET (1 .. N) /\ 1 .. n # {}
        /\ Max(1 .. n) = n /\ (1 .. n) \ {n} = 1 .. n - 1
    BY <1>1, Maxima
  <2>4. f0[1 .. n] = IF Quoted(n) THEN Append(f0[1 .. n - 1], Read(n)) ELSE f0[1 .. n - 1]
    BY <1>9, <2>1
  <2> QED
    BY <2>1, <2>4
<1>12. pass[N] = f0[1 .. N]
  BY <1>1
<1> QED
  <2> HIDE DEF pass
  <2> QED
    BY <1>6, <1>10, <1>11, <1>12 DEF N, base, Read, Quoted

-----------------------------------------------------------------------------
(* What a file holds: every record of it is what one of its lines gives.   *)

\* The records that a file can give, and that are as the lines of an accepted one.
ReadLines(content, r) ==
    {Enrich(content[n], DateOf(content[n], r), n) : n \in 1 .. Len(content)}

Sound(records) ==
    /\ records \in Seq(Record)
    /\ \A x, y \in ToSet(records) : x.line = y.line => x = y

LEMMA ParseReads ==
  ASSUME NEW S, NEW content \in Seq(S), NEW r
  PROVE  Parse(content, r) \in Seq(ReadLines(content, r))
<1> DEFINE N == Len(content)
           L == ReadLines(content, r)
           Read(n) == Enrich(content[n], DateOf(content[n], r), n)
<1>1. N \in Nat /\ \A n \in 1 .. N : Read(n) \in L
  BY DEF ReadLines
<1>2. PICK pass :
         /\ pass[0] = <<>>
         /\ \A n \in 1 .. N :
               pass[n] = IF content[n].quote \/ r.file \notin Cotahist
                         THEN Append(pass[n - 1], Read(n)) ELSE pass[n - 1]
         /\ Parse(content, r) = pass[N]
  BY ParsePass
<1>a. <<>> \in Seq(L) /\ \A s \in Seq(L), x \in L : Append(s, x) \in Seq(L)
  <2> HIDE DEF L
  <2> QED
    OBVIOUS
<1> HIDE DEF L, Read, N
<1> DEFINE G == {n \in Nat : n <= N => pass[n] \in Seq(L)}
<1>3. 0 \in G
  BY <1>2, <1>a
<1>4. ASSUME NEW n \in Nat, n \in G
      PROVE  n + 1 \in G
  <2> SUFFICES ASSUME n + 1 <= N
               PROVE  pass[n + 1] \in Seq(L)
    OBVIOUS
  <2>1. n + 1 \in 1 .. N /\ pass[n] \in Seq(L) /\ (n + 1) - 1 = n
    BY <1>1, <1>4
  <2>2. Read(n + 1) \in L
    BY <1>1, <2>1
  <2>3. \/ pass[n + 1] = Append(pass[n], Read(n + 1))
        \/ pass[n + 1] = pass[n]
    BY <1>2, <2>1
  <2>4. CASE pass[n + 1] = Append(pass[n], Read(n + 1))
    BY <1>a, <2>1, <2>2, <2>4
  <2>5. CASE pass[n + 1] = pass[n]
    BY <2>1, <2>5
  <2> QED
    BY <2>3, <2>4, <2>5
<1>5. N \in G
  <2> HIDE DEF G
  <2> QED
    BY <1>1, <1>3, <1>4, NumbersByInduction
<1> QED
  BY <1>1, <1>2, <1>5 DEF L

LEMMA EnrichType ==
  ASSUME NEW line \in Line, NEW date, NEW n \in Nat
  PROVE  LET x == Enrich(line, date, n)
         IN  /\ x.line = n /\ x.date = date
             /\ x.valid /\ date \in Dates => x \in Record
<1>1. AssetType(line) \in Assets
  BY Zenon DEF AssetType, Assets, Specifications, Line
<1>2. Segment(line, AssetType(line)) \in Segments
  <2> HIDE DEF AssetType
  <2> QED
    BY Zenon DEF Segment, Segments
<1> DEFINE a == AssetType(line)
           g == Segment(line, a)
<1> HIDE DEF a, g
<1>3. /\ line.quote \in BOOLEAN /\ line.market \in Markets /\ line.paper \in Papers
      /\ line.trades \in Liquidity /\ line.volume \in Liquidity
  BY DEF Line
<1>4. line.valid = TRUE \/ line.valid = FALSE
  BY DEF Line
<1>5. Enrich(line, date, n) =
         [quote |-> line.quote, date |-> date, market |-> line.market, paper |-> line.paper,
          asset |-> a, segment |-> g, trades |-> line.trades, volume |-> line.volume,
          valid |-> line.valid, line |-> n]
  BY Zenon DEF Enrich, a, g
<1>6. a \in Assets /\ g \in Segments
  BY <1>1, <1>2 DEF a, g
<1> DEFINE x == Enrich(line, date, n)
<1>7. x.line = n /\ x.date = date
  BY <1>5
<1>8. ASSUME line.valid = FALSE
      PROVE  ~ x.valid
  <2>1. x = [quote |-> line.quote, date |-> date, market |-> line.market, paper |-> line.paper,
             asset |-> a, segment |-> g, trades |-> line.trades, volume |-> line.volume,
             valid |-> FALSE, line |-> n]
    BY <1>5, <1>8
  <2>2. x.valid = FALSE
    BY <2>1
  <2> HIDE DEF x
  <2> QED
    BY <2>2
<1>9. ASSUME line.valid = TRUE, date \in Dates
      PROVE  x \in Record
  <2>1. x = [quote |-> line.quote, date |-> date, market |-> line.market, paper |-> line.paper,
             asset |-> a, segment |-> g, trades |-> line.trades, volume |-> line.volume,
             valid |-> TRUE, line |-> n]
    BY <1>5, <1>9
  <2> HIDE DEF x
  <2> QED
    BY <1>3, <1>6, <1>9, <2>1 DEF Record
<1> HIDE DEF x
<1>10. x.line = n /\ x.date = date /\ (x.valid /\ date \in Dates => x \in Record)
  BY <1>4, <1>7, <1>8, <1>9
<1> QED
  BY <1>10 DEF x

LEMMA AcceptedRecords ==
  ASSUME NEW content \in Seq(Line), NEW r \in Requests, ~ Refused(Parse(content, r))
  PROVE  Sound(Parse(content, r))
<1> DEFINE records == Parse(content, r)
<1>1. records \in Seq(ReadLines(content, r))
  BY ParseReads
<1>2. \A x \in ToSet(records) : x \in ReadLines(content, r) /\ x.valid /\ x.date # None
  BY <1>1 DEF Refused, ToSet
<1>3. \A x \in ReadLines(content, r) : \E n \in 1 .. Len(content) :
         x = Enrich(content[n], DateOf(content[n], r), n)
  BY DEF ReadLines
<1>4. \A n \in 1 .. Len(content) : content[n] \in Line /\ n \in Nat
  OBVIOUS
<1>5. ASSUME NEW line \in Line
      PROVE  DateOf(line, r) \in Dates \cup {None}
  BY HistoricalIngestionAssumption DEF DateOf, Line
<1>6. ASSUME NEW x \in ToSet(records)
      PROVE  x \in Record
  <2>1. PICK n \in 1 .. Len(content) : x = Enrich(content[n], DateOf(content[n], r), n)
    BY <1>2, <1>3
  <2>2. DateOf(content[n], r) \in Dates \cup {None}
    BY <1>4, <1>5
  <2> HIDE DEF records
  <2> QED
    BY <1>2, <1>4, <2>1, <2>2, EnrichType
<1>7. ASSUME NEW x \in ToSet(records), NEW y \in ToSet(records), x.line = y.line
      PROVE  x = y
  <2>1. PICK n \in 1 .. Len(content) : x = Enrich(content[n], DateOf(content[n], r), n)
    BY <1>2, <1>3
  <2>2. PICK m \in 1 .. Len(content) : y = Enrich(content[m], DateOf(content[m], r), m)
    BY <1>2, <1>3
  <2>3. x.line = n /\ y.line = m
    BY <1>4, <2>1, <2>2, EnrichType
  <2> QED
    BY <1>7, <2>1, <2>2, <2>3
<1>8. records \in Seq(Record)
  <2>1. \A i \in 1 .. Len(records) : records[i] \in ToSet(records)
    BY <1>1 DEF ToSet
  <2> HIDE DEF records
  <2> QED
    BY <1>1, <1>6, <2>1
<1> QED
  BY <1>7, <1>8 DEF Sound

-----------------------------------------------------------------------------
(* deduplicate keeps a best record of every key.                           *)

LEMMA Measures ==
  ASSUME NEW a \in Record
  PROVE  a.trades \in Int /\ a.volume \in Int /\ a.line \in Int
<1>1. a.trades \in Liquidity /\ a.volume \in Liquidity /\ a.line \in Nat
  BY DEF Record
<1>2. \A v \in Liquidity : v \in Int
  BY HistoricalIngestionAssumption
<1> QED
  BY <1>1, <1>2

\* The order of the documentation is that of the comparison in the code.
LEMMA BeatsIsPreferred ==
  ASSUME NEW a \in Record, NEW b \in Record
  PROVE  Beats(a, b) <=> Preferred(a, b)
<1>1. /\ a.trades \in Int /\ a.volume \in Int /\ a.line \in Int
      /\ b.trades \in Int /\ b.volume \in Int /\ b.line \in Int
  BY Measures
<1> DEFINE rank(x) == <<x.trades, x.volume, x.line>>
           Wins(i) == rank(a)[i] > rank(b)[i] /\ \A j \in 1 .. i - 1 : rank(a)[j] = rank(b)[j]
<1>2. Beats(a, b) <=> Wins(1) \/ Wins(2) \/ Wins(3)
  <2>1. Beats(a, b) <=> \E i \in 1 .. 3 : Wins(i)
    BY DEF Beats
  <2> HIDE DEF Wins
  <2> QED
    BY <2>1
<1>3. Wins(1) <=> a.trades > b.trades
  OBVIOUS
<1>4. Wins(2) <=> a.volume > b.volume /\ a.trades = b.trades
  OBVIOUS
<1>5. Wins(3) <=> a.line > b.line /\ a.trades = b.trades /\ a.volume = b.volume
  OBVIOUS
<1> HIDE DEF Wins
<1> QED
  BY <1>1, <1>2, <1>3, <1>4, <1>5 DEF Preferred

LEMMA PreferenceOrder ==
  ASSUME NEW a \in Record, NEW b \in Record, NEW c \in Record
  PROVE  /\ ~ Preferred(a, a)
         /\ Preferred(a, b) /\ ~ Preferred(c, b) => ~ Preferred(c, a)
         /\ ~ Preferred(a, b) /\ ~ Preferred(b, a) => a.line = b.line
<1>1. /\ a.trades \in Int /\ a.volume \in Int /\ a.line \in Int
      /\ b.trades \in Int /\ b.volume \in Int /\ b.line \in Int
      /\ c.trades \in Int /\ c.volume \in Int /\ c.line \in Int
  BY Measures
<1> QED
  BY <1>1 DEF Preferred

\* What the pass of deduplicate has found among the first n records.
Keys(records) == {KeyOf(x) : x \in ToSet(records)}

SoFar(b, records, n) ==
    /\ b \in [Keys(records) -> ToSet(records) \cup {None}]
    /\ \A k \in Keys(records) :
          b[k] = None => \A m \in 1 .. n : KeyOf(records[m]) # k
    /\ \A k \in Keys(records) :
          b[k] # None =>
              /\ KeyOf(b[k]) = k
              /\ \A m \in 1 .. n : KeyOf(records[m]) = k => ~ Preferred(records[m], b[k])

LEMMA TakeStep ==
  ASSUME NEW records, Sound(records), NEW n \in 1 .. Len(records),
         NEW b, SoFar(b, records, n - 1)
  PROVE  SoFar(Take(b, records[n]), records, n)
<1> DEFINE x == records[n]
           k0 == KeyOf(x)
           K == Keys(records)
           R == ToSet(records)
           t == Take(b, x)
<1>1. records \in Seq(Record) /\ Len(records) \in Nat /\ n \in Nat
  BY DEF Sound
<1>2. /\ \A m \in 1 .. Len(records) : records[m] \in R /\ records[m] \in Record
      /\ \A y \in R : y \in Record
      /\ None \notin R
  BY <1>1, NoRecordAssumption DEF ToSet
<1>3. x \in R /\ k0 \in K
  BY <1>2 DEF Keys
<1>4. b \in [K -> R \cup {None}]
  BY DEF SoFar
<1>5. /\ t \in [K -> R \cup {None}]
      /\ \A k \in K \ {k0} : t[k] = b[k]
      /\ t[k0] = IF b[k0] = None \/ Preferred(x, b[k0]) THEN x ELSE b[k0]
  <2> HIDE DEF K, R, x
  <2> QED
    BY <1>3, <1>4 DEF Take
<1>6. 1 .. n = (1 .. n - 1) \cup {n} /\ \A m \in 1 .. n : m \in 1 .. Len(records)
  BY <1>1
<1>7. ASSUME NEW k \in K, k # k0
      PROVE  /\ t[k] = None => \A m \in 1 .. n : KeyOf(records[m]) # k
             /\ t[k] # None =>
                   /\ KeyOf(t[k]) = k
                   /\ \A m \in 1 .. n : KeyOf(records[m]) = k => ~ Preferred(records[m], t[k])
  <2>1. t[k] = b[k]
    BY <1>5, <1>7
  <2> HIDE DEF t, K
  <2> QED
    BY <1>6, <1>7, <2>1 DEF SoFar, K
<1>8. t[k0] # None
  BY <1>2, <1>3, <1>5
<1>9. KeyOf(t[k0]) = k0
  <2>1. CASE t[k0] = x
    BY <2>1
  <2>2. CASE t[k0] = b[k0]
    BY <1>3, <1>8, <2>2 DEF SoFar
  <2> QED
    BY <1>5, <2>1, <2>2
<1>10. ASSUME NEW m \in 1 .. n, KeyOf(records[m]) = k0
       PROVE  ~ Preferred(records[m], t[k0])
  <2>1. m = n \/ m \in 1 .. n - 1
    BY <1>6
  <2>2. x \in Record /\ records[m] \in Record
    BY <1>2, <1>6
  <2>3. CASE b[k0] = None
    <3>1. t[k0] = x /\ m = n
      BY <1>3, <1>5, <1>10, <2>1, <2>3 DEF SoFar
    <3> QED
      BY <2>2, <3>1, PreferenceOrder
  <2>4. CASE b[k0] # None
    <3>1. b[k0] \in Record
      BY <1>2, <1>3, <1>4, <2>4
    <3>2. m # n => ~ Preferred(records[m], b[k0])
      BY <1>3, <1>10, <2>1, <2>4 DEF SoFar
    <3>3. CASE Preferred(x, b[k0])
      <4>1. t[k0] = x
        BY <1>5, <3>3
      <4> HIDE DEF x, t
      <4> QED
        BY <2>2, <3>1, <3>2, <3>3, <4>1, PreferenceOrder DEF x
    <3>4. CASE ~ Preferred(x, b[k0])
      <4>1. t[k0] = b[k0]
        BY <1>5, <2>4, <3>4
      <4> QED
        BY <3>2, <3>4, <4>1
    <3> QED
      BY <3>3, <3>4
  <2> QED
    BY <2>3, <2>4
<1> HIDE DEF t, k0
<1> QED
  BY <1>5, <1>7, <1>8, <1>9, <1>10 DEF SoFar, t

\* The best records, as the documentation has it.
BestOf(records) ==
    LET lines == ToSet(records)
    IN  {x \in lines : \A y \in lines : KeyOf(y) = KeyOf(x) => ~ Beats(y, x)}

\* deduplicate chooses a record for each key, which no other of the key beats.
LEMMA DeduplicateChooses ==
  ASSUME NEW records, Sound(records)
  PROVE  LET best == Deduplicate(records)
         IN  /\ best \in [Keys(records) -> ToSet(records)]
             /\ \A k \in Keys(records) :
                   /\ KeyOf(best[k]) = k
                   /\ \A y \in ToSet(records) : KeyOf(y) = k => ~ Preferred(y, best[k])
<1> DEFINE N == Len(records)
           best == Deduplicate(records)
           K == Keys(records)
           R == ToSet(records)
<1>1. records \in Seq(Record) /\ N \in Nat /\ DOMAIN records = 1 .. N
  BY DEF Sound
<1>2. PICK pass :
         /\ pass[0] = [k \in {KeyOf(x) : x \in ToSet(records)} |-> None]
         /\ \A n \in 1 .. N : pass[n] = Take(pass[n - 1], records[n])
         /\ best = pass[N]
  BY <1>1, DeduplicatePass
<1> HIDE DEF best, N
<1> DEFINE G == {n \in Nat : n <= N => SoFar(pass[n], records, n)}
<1>3. 0 \in G
  <2>1. pass[0] = [k \in K |-> None]
    BY <1>2 DEF Keys
  <2>2. 1 .. 0 = {}
    OBVIOUS
  <2> HIDE DEF K
  <2>3. SoFar(pass[0], records, 0)
    BY <2>1, <2>2 DEF SoFar, K
  <2> QED
    BY <2>3
<1>4. ASSUME NEW n \in Nat, n \in G
      PROVE  n + 1 \in G
  <2> SUFFICES ASSUME n + 1 <= N
               PROVE  SoFar(pass[n + 1], records, n + 1)
    OBVIOUS
  <2>1. n + 1 \in 1 .. N /\ (n + 1) - 1 = n
    BY <1>1
  <2>2. SoFar(pass[n], records, n)
    BY <1>1, <1>4
  <2>3. pass[n + 1] = Take(pass[n], records[n + 1])
    BY <1>2, <2>1
  <2> QED
    BY <2>1, <2>2, <2>3, TakeStep DEF N
<1>5. SoFar(best, records, N)
  <2>1. N \in G
    <3> HIDE DEF G
    <3> QED
      BY <1>1, <1>3, <1>4, NumbersByInduction
  <2> QED
    BY <1>1, <1>2, <2>1
<1>6. ASSUME NEW k \in K
      PROVE  best[k] # None
  <2>1. PICK x \in R : KeyOf(x) = k
    BY DEF Keys
  <2>2. PICK m \in 1 .. N : x = records[m]
    BY <1>1 DEF ToSet
  <2> QED
    BY <1>5, <2>1, <2>2 DEF SoFar
<1>7. ASSUME NEW k \in K, NEW y \in R, KeyOf(y) = k
      PROVE  ~ Preferred(y, best[k])
  <2>1. PICK m \in 1 .. N : y = records[m]
    BY <1>1 DEF ToSet
  <2> QED
    BY <1>5, <1>6, <1>7, <2>1 DEF SoFar
<1>8. best \in [K -> R]
  <2>1. best \in [K -> R \cup {None}]
    BY <1>5 DEF SoFar
  <2> QED
    BY <1>6, <2>1
<1>9. \A k \in K : KeyOf(best[k]) = k
  BY <1>5, <1>6 DEF SoFar
<1> HIDE DEF K, R
<1>10. /\ best \in [K -> R]
       /\ \A k \in K : KeyOf(best[k]) = k /\ \A y \in R : KeyOf(y) = k => ~ Preferred(y, best[k])
  BY <1>7, <1>8, <1>9
<1> QED
  BY <1>10 DEF K, R, best

\* The records it chooses are the best ones, one for each key.
LEMMA ChosenAreBest ==
  ASSUME NEW records, Sound(records)
  PROVE  LET best == Deduplicate(records)
         IN  /\ {best[k] : k \in DOMAIN best} = BestOf(records)
             /\ best \in [Keys(records) -> BestOf(records)]
             /\ \A k \in Keys(records) : KeyOf(best[k]) = k
<1> DEFINE best == Deduplicate(records)
           K == Keys(records)
           R == ToSet(records)
<1>1. /\ best \in [K -> R]
      /\ \A k \in K : KeyOf(best[k]) = k /\ \A y \in R : KeyOf(y) = k => ~ Preferred(y, best[k])
  BY DeduplicateChooses
<1>2. \A x \in R : x \in Record /\ KeyOf(x) \in K
  BY DEF Sound, ToSet, Keys
<1>3. BestOf(records) = {x \in R : \A y \in R : KeyOf(y) = KeyOf(x) => ~ Preferred(y, x)}
  <2>1. \A x, y \in R : Beats(y, x) <=> Preferred(y, x)
    BY <1>2, BeatsIsPreferred
  <2> HIDE DEF R
  <2> QED
    BY <2>1 DEF BestOf, R
<1> HIDE DEF best, K, R
<1>4. \A k \in K : best[k] \in BestOf(records)
  BY <1>1, <1>3
<1>5. ASSUME NEW x \in BestOf(records)
      PROVE  KeyOf(x) \in K /\ x = best[KeyOf(x)]
  <2> DEFINE k == KeyOf(x)
             b == best[k]
  <2>1. k \in K /\ x \in R /\ b \in R
    BY <1>1, <1>2, <1>3
  <2>2. KeyOf(b) = k /\ ~ Preferred(x, b) /\ ~ Preferred(b, x)
    BY <1>1, <1>3, <2>1
  <2>3. x.line = b.line
    BY <1>2, <2>1, <2>2, PreferenceOrder
  <2> QED
    BY <2>1, <2>3 DEF Sound, R
<1>6. DOMAIN best = K
  BY <1>1
<1>7. {best[k] : k \in DOMAIN best} = BestOf(records)
  BY <1>4, <1>5, <1>6
<1>8. best \in [K -> BestOf(records)] /\ \A k \in K : KeyOf(best[k]) = k
  BY <1>1, <1>4
<1> QED
  BY <1>7, <1>8 DEF best, K

-----------------------------------------------------------------------------
(* kept_rows in the order of their keys: nothing is lost by the sorting.   *)

LEMMA KeyParts ==
  ASSUME NEW a \in Record
  PROVE  a.date \in Int /\ a.market \in Int /\ a.paper \in Int
<1>1. a.date \in Dates /\ a.market \in Markets /\ a.paper \in Papers
  BY DEF Record
<1>2. (\A v \in Dates : v \in Int) /\ (\A v \in Papers : v \in Int)
  BY HistoricalIngestionAssumption
<1>3. \A v \in Markets : v \in Int
  BY DEF Markets, MarketTypes
<1> QED
  BY <1>1, <1>2, <1>3

LEMMA KeyOrder ==
  ASSUME NEW a \in Record, NEW b \in Record, NEW c \in Record
  PROVE  /\ ~ Precedes(a, a)
         /\ Precedes(a, b) /\ Precedes(b, c) => Precedes(a, c)
         /\ KeyOf(a) # KeyOf(b) => Precedes(a, b) \/ Precedes(b, a)
<1>1. /\ a.date \in Int /\ a.market \in Int /\ a.paper \in Int
      /\ b.date \in Int /\ b.market \in Int /\ b.paper \in Int
      /\ c.date \in Int /\ c.market \in Int /\ c.paper \in Int
  BY KeyParts
<1>2. KeyOf(a) = KeyOf(b) <=> a.date = b.date /\ a.market = b.market /\ a.paper = b.paper
  BY DEF KeyOf
<1> QED
  BY <1>1, <1>2 DEF Precedes

\* Records with different keys can be sorted: each goes to the place after
\* those that precede it.
LEMMA Sorting ==
  ASSUME NEW S \in SUBSET Record, IsFiniteSet(S),
         \A x, y \in S : KeyOf(x) = KeyOf(y) => x = y
  PROVE  \E s \in [1 .. Cardinality(S) -> S] :
            \A j \in DOMAIN s : \A i \in 1 .. j - 1 : Precedes(s[i], s[j])
<1> DEFINE N == Cardinality(S)
           Before(x) == {y \in S : Precedes(y, x)}
           place == [x \in S |-> Cardinality(Before(x)) + 1]
<1>1. N \in Nat
  BY FS_CardinalityType
<1>2. ASSUME NEW x \in S
      PROVE  /\ IsFiniteSet(Before(x)) /\ Cardinality(Before(x)) \in Nat
             /\ x \notin Before(x) /\ Before(x) \cup {x} \subseteq S
             /\ Cardinality(Before(x) \cup {x}) = place[x]
  <2>1. x \notin Before(x)
    BY KeyOrder
  <2>2. Before(x) \in SUBSET S
    OBVIOUS
  <2>3. IsFiniteSet(Before(x))
    <3> HIDE DEF Before
    <3> QED
      BY <2>2, FS_Subset
  <2>4. Cardinality(Before(x)) \in Nat
    BY <2>3, FS_CardinalityType
  <2>5. Cardinality(Before(x) \cup {x}) = Cardinality(Before(x)) + 1
    <3> HIDE DEF Before
    <3> QED
      BY <2>1, <2>3, FS_AddElement
  <2> QED
    BY <2>1, <2>2, <2>3, <2>4, <2>5
<1> DEFINE Upto(x) == Before(x) \cup {x}
<1>3. ASSUME NEW x \in S
      PROVE  place[x] \in 1 .. N
  <2>1. Upto(x) \in SUBSET S /\ Cardinality(Upto(x)) = place[x]
    BY <1>2
  <2>2. Cardinality(Upto(x)) <= N
    <3> HIDE DEF Upto
    <3> QED
      BY <2>1, FS_Subset
  <2>3. Cardinality(Before(x)) \in Nat /\ place[x] = Cardinality(Before(x)) + 1
    BY <1>2
  <2> HIDE DEF place, Upto, Before, N
  <2> QED
    BY <1>1, <2>1, <2>2, <2>3
<1>4. ASSUME NEW x \in S, NEW y \in S, Precedes(x, y)
      PROVE  place[x] < place[y]
  <2>1. Upto(x) \in SUBSET Before(y)
    BY <1>4, KeyOrder
  <2>2. IsFiniteSet(Before(y)) /\ Cardinality(Upto(x)) = place[x]
    BY <1>2
  <2>3. Cardinality(Upto(x)) <= Cardinality(Before(y))
    <3> HIDE DEF Upto, Before
    <3> QED
      BY <2>1, <2>2, FS_Subset
  <2>4. Cardinality(Before(y)) \in Nat /\ place[y] = Cardinality(Before(y)) + 1
    BY <1>2
  <2>5. place[x] \in Int
    BY <1>3
  <2> HIDE DEF place, Upto, Before
  <2> QED
    BY <2>2, <2>3, <2>4, <2>5
<1>5. \A x, y \in S : x # y => Precedes(x, y) \/ Precedes(y, x)
  BY KeyOrder
<1>6. \A x, y \in S : place[x] < place[y] => Precedes(x, y)
  <2> SUFFICES ASSUME NEW x \in S, NEW y \in S, place[x] < place[y]
               PROVE  Precedes(x, y)
    OBVIOUS
  <2>1. place[x] \in Int /\ place[y] \in Int
    BY <1>3
  <2>2. Precedes(y, x) => place[y] < place[x]
    BY <1>4
  <2>3. x = y \/ Precedes(x, y) \/ Precedes(y, x)
    BY <1>5
  <2> HIDE DEF place
  <2> QED
    BY <2>1, <2>2, <2>3
<1>7. place \in Injection(S, 1 .. N)
  <2>1. \A x, y \in S : place[x] = place[y] => x = y
    <3> SUFFICES ASSUME NEW x \in S, NEW y \in S, place[x] = place[y], x # y
                 PROVE  FALSE
      OBVIOUS
    <3>1. place[x] < place[y] \/ place[y] < place[x]
      BY <1>4, <1>5
    <3> HIDE DEF place
    <3> QED
      BY <1>3, <3>1
  <2>2. place \in [S -> 1 .. N]
    BY <1>3
  <2>3. DOMAIN place = S
    OBVIOUS
  <2> HIDE DEF place, N
  <2> QED
    BY <2>1, <2>2, <2>3 DEF Injection, IsInjective
<1>8. place \in Surjection(S, 1 .. N)
  <2>1. IsFiniteSet(1 .. N) /\ Cardinality(1 .. N) = N
    BY <1>1, FS_Interval
  <2> HIDE DEF place
  <2> QED
    BY <1>7, <2>1, FS_Injection
<1>9. \A i \in 1 .. N : \E x \in S : place[x] = i
  <2> HIDE DEF place, N
  <2> QED
    BY <1>8 DEF Surjection
<1> DEFINE s == [i \in 1 .. N |-> CHOOSE x \in S : place[x] = i]
<1>10. s \in [1 .. N -> S] /\ \A i \in 1 .. N : place[s[i]] = i
  <2> HIDE DEF place, N
  <2> QED
    BY <1>9
<1>11. ASSUME NEW j \in 1 .. N, NEW i \in 1 .. j - 1
       PROVE  Precedes(s[i], s[j])
  <2>1. i \in 1 .. N /\ i < j
    BY <1>1
  <2>2. place[s[i]] < place[s[j]] /\ s[i] \in S /\ s[j] \in S
    BY <1>10, <2>1
  <2> HIDE DEF s, place
  <2> QED
    BY <1>6, <2>2
<1> HIDE DEF s
<1> QED
  BY <1>10, <1>11

\* What deduplicate returns has the best records, each of them once.
LEMMA KeptIsBest ==
  ASSUME NEW records, Sound(records)
  PROVE  /\ Kept(records) \in Seq(Record)
         /\ ToSet(Kept(records)) = BestOf(records)
         /\ IsFiniteSet(BestOf(records))
         /\ Len(Kept(records)) = Cardinality(BestOf(records))
<1> DEFINE S == BestOf(records)
           N == Cardinality(S)
           kept == Kept(records)
           Sorted(s) == \A j \in DOMAIN s : \A i \in 1 .. j - 1 : Precedes(s[i], s[j])
<1>1. S \in SUBSET ToSet(records) /\ ToSet(records) \in SUBSET Record
  BY DEF BestOf, Sound, ToSet
<1>2. IsFiniteSet(S)
  <2> DEFINE M == Len(records)
             f == [i \in 1 .. M |-> records[i]]
  <2>1. M \in Nat /\ DOMAIN records = 1 .. M
    BY DEF Sound
  <2>2. f \in Surjection(1 .. M, ToSet(records))
    BY <2>1 DEF Surjection, ToSet
  <2>3. IsFiniteSet(1 .. M)
    BY <2>1, FS_Interval
  <2>4. IsFiniteSet(ToSet(records))
    <3> HIDE DEF f, M
    <3> QED
      BY <2>2, <2>3, FS_Surjection
  <2> QED
    BY <1>1, <2>4, FS_Subset
<1>3. \A x, y \in S : KeyOf(x) = KeyOf(y) => x = y
  <2> DEFINE best == Deduplicate(records)
  <2>1. /\ {best[k] : k \in DOMAIN best} = S
        /\ \A k \in DOMAIN best : KeyOf(best[k]) = k
    BY ChosenAreBest
  <2> HIDE DEF best, S
  <2> QED
    BY <2>1
<1>4. kept = CHOOSE s \in [1 .. N -> S] : Sorted(s)
  <2> DEFINE best == Deduplicate(records)
             rows == {best[k] : k \in DOMAIN best}
  <2>1. rows = S
    BY ChosenAreBest
  <2>2. kept = CHOOSE s \in [1 .. Cardinality(rows) -> rows] : Sorted(s)
    BY DEF Kept
  <2> HIDE DEF rows, S
  <2> QED
    BY <2>1, <2>2
<1>5. \E s \in [1 .. N -> S] : Sorted(s)
  <2> HIDE DEF S
  <2> QED
    BY <1>1, <1>2, <1>3, Sorting
<1>6. kept \in [1 .. N -> S] /\ Sorted(kept)
  <2> HIDE DEF Sorted, N, S, kept
  <2> QED
    BY <1>4, <1>5
<1>7. N \in Nat
  BY <1>2, FS_CardinalityType
<1> HIDE DEF S, N, kept
<1>8. kept \in Seq(Record) /\ Len(kept) = N /\ DOMAIN kept = 1 .. N
  BY <1>1, <1>6, <1>7
<1>9. \A i, j \in 1 .. N : kept[i] = kept[j] => i = j
  <2> SUFFICES ASSUME NEW i \in 1 .. N, NEW j \in 1 .. N, kept[i] = kept[j], i < j
               PROVE  FALSE
    BY <1>7
  <2>1. Precedes(kept[i], kept[j]) /\ kept[i] \in Record
    BY <1>1, <1>6, <1>7, <1>8, i \in 1 .. j - 1
  <2> QED
    BY <2>1, KeyOrder
<1>10. ToSet(kept) = S
  <2>1. IsFiniteSet(1 .. N) /\ Cardinality(1 .. N) = N
    BY <1>7, FS_Interval
  <2>2. kept \in Injection(1 .. N, S)
    BY <1>6, <1>8, <1>9 DEF Injection, IsInjective
  <2>3. kept \in Surjection(1 .. N, S)
    BY <1>2, <2>1, <2>2, FS_Injection DEF N
  <2> QED
    BY <1>6, <1>8, <2>3 DEF Surjection, ToSet
<1> QED
  BY <1>2, <1>8, <1>10 DEF S, N, kept

-----------------------------------------------------------------------------
(* build_instrument_rows: each instrument spans the dates of its records.  *)

\* The instruments of the kept records.
InstrumentsOf(kept) == {InstrumentOf(x) : x \in ToSet(kept)}

\* The row of an instrument spans the dates of its records among the first n.
SpansUpTo(row, kept, i, n) ==
    /\ row \in Span
    /\ \E m \in 1 .. n : InstrumentOf(kept[m]) = i /\ kept[m].date = row.first
    /\ \E m \in 1 .. n : InstrumentOf(kept[m]) = i /\ kept[m].date = row.last
    /\ \A m \in 1 .. n :
          InstrumentOf(kept[m]) = i => row.first <= kept[m].date /\ kept[m].date <= row.last

\* What the pass of build_instrument_rows has made of the first n records.
Registered(t, kept, n) ==
    /\ t \in [InstrumentsOf(kept) -> Span \cup {None}]
    /\ \A i \in InstrumentsOf(kept) :
          /\ t[i] = None => \A m \in 1 .. n : InstrumentOf(kept[m]) # i
          /\ t[i] # None => SpansUpTo(t[i], kept, i, n)

LEMMA DatesAreNumbers ==
  /\ \A x \in Record : x.date \in Dates
  /\ \A row \in Span : row.first \in Dates /\ row.last \in Dates
  /\ \A d \in Dates : d \in Int
<1>1. \A x \in Record : x.date \in Dates
  BY DEF Record
<1>2. \A row \in Span : row.first \in Dates /\ row.last \in Dates
  BY DEF Span
<1>3. \A d \in Dates : d \in Int
  BY HistoricalIngestionAssumption
<1> QED
  BY <1>1, <1>2, <1>3

LEMMA ExtendSpans ==
  ASSUME NEW kept \in Seq(Record), NEW n \in 1 .. Len(kept), NEW row,
         SpansUpTo(row, kept, InstrumentOf(kept[n]), n - 1)
  PROVE  SpansUpTo(Extend(row, kept[n]), kept, InstrumentOf(kept[n]), n)
<1> DEFINE x == kept[n]
           i == InstrumentOf(x)
           e == Extend(row, x)
<1>1. /\ \A m \in 1 .. n : kept[m] \in Record /\ kept[m].date \in Int
      /\ n \in 1 .. n /\ x.date \in Dates
      /\ 1 .. n = (1 .. n - 1) \cup {n}
  <2>1. Len(kept) \in Nat /\ \A m \in 1 .. Len(kept) : kept[m] \in Record
    OBVIOUS
  <2>2. \A m \in 1 .. n : m \in 1 .. Len(kept)
    BY <2>1
  <2>3. n \in 1 .. n /\ 1 .. n = (1 .. n - 1) \cup {n}
    BY <2>1
  <2> QED
    BY <2>1, <2>2, <2>3, DatesAreNumbers
<1>2. row \in Span /\ row.first \in Int /\ row.last \in Int
  BY DatesAreNumbers DEF SpansUpTo
<1>3. /\ e \in Span
      /\ e.first = IF x.date < row.first THEN x.date ELSE row.first
      /\ e.last  = IF x.date > row.last THEN x.date ELSE row.last
  <2> HIDE DEF x
  <2> QED
    BY <1>1, <1>2 DEF Extend, Span
<1>4. \E m \in 1 .. n : InstrumentOf(kept[m]) = i /\ kept[m].date = e.first
  <2>1. PICK m \in 1 .. n - 1 : InstrumentOf(kept[m]) = i /\ kept[m].date = row.first
    BY DEF SpansUpTo
  <2> HIDE DEF e, i
  <2>2. CASE x.date < row.first
    BY <1>1, <1>3, <2>2 DEF i
  <2>3. CASE ~ (x.date < row.first)
    BY <1>1, <1>3, <2>1, <2>3
  <2> QED
    BY <2>2, <2>3
<1>5. \E m \in 1 .. n : InstrumentOf(kept[m]) = i /\ kept[m].date = e.last
  <2>1. PICK m \in 1 .. n - 1 : InstrumentOf(kept[m]) = i /\ kept[m].date = row.last
    BY DEF SpansUpTo
  <2> HIDE DEF e, i
  <2>2. CASE x.date > row.last
    BY <1>1, <1>3, <2>2 DEF i
  <2>3. CASE ~ (x.date > row.last)
    BY <1>1, <1>3, <2>1, <2>3
  <2> QED
    BY <2>2, <2>3
<1>6. ASSUME NEW m \in 1 .. n, InstrumentOf(kept[m]) = i
      PROVE  e.first <= kept[m].date /\ kept[m].date <= e.last
  <2>1. m = n \/ m \in 1 .. n - 1
    BY <1>1
  <2>2. e.first <= row.first /\ e.first <= x.date /\ row.last <= e.last /\ x.date <= e.last
    <3> HIDE DEF e, x
    <3>1. x.date \in Int
      BY <1>1 DEF x
    <3> QED
      BY <1>2, <1>3, <3>1
  <2>3. m # n => row.first <= kept[m].date /\ kept[m].date <= row.last
    BY <1>6, <2>1 DEF SpansUpTo
  <2>4. e.first \in Int /\ e.last \in Int
    BY <1>3, DatesAreNumbers
  <2> HIDE DEF e
  <2> QED
    BY <1>1, <1>2, <2>2, <2>3, <2>4
<1> HIDE DEF e, i
<1>7. SpansUpTo(e, kept, i, n)
  BY <1>3, <1>4, <1>5, <1>6 DEF SpansUpTo
<1> QED
  BY <1>7 DEF e, i

LEMMA RegisterStep ==
  ASSUME NEW kept \in Seq(Record), NEW n \in 1 .. Len(kept),
         NEW t, Registered(t, kept, n - 1)
  PROVE  Registered(Register(t, kept[n]), kept, n)
<1> DEFINE x == kept[n]
           i0 == InstrumentOf(x)
           I == InstrumentsOf(kept)
           u == Register(t, x)
           new == [market |-> x.market, first |-> x.date, last |-> x.date]
<1>1. /\ x \in Record /\ n \in Nat /\ n \in 1 .. n
      /\ 1 .. n = (1 .. n - 1) \cup {n}
  OBVIOUS
<1>2. i0 \in I
  BY DEF InstrumentsOf, ToSet
<1>3. t \in [I -> Span \cup {None}]
  BY DEF Registered
<1>4. /\ DOMAIN u = I
      /\ \A i \in I \ {i0} : u[i] = t[i]
      /\ u[i0] = IF t[i0] = None THEN new ELSE Extend(t[i0], x)
  <2> HIDE DEF I, x
  <2> QED
    BY <1>2, <1>3 DEF Register
<1>5. u = [i \in I |-> u[i]]
  <2> HIDE DEF I, x
  <2> QED
    BY <1>2, <1>3 DEF Register
<1>6. ASSUME NEW i \in I, i # i0
      PROVE  /\ u[i] = None => \A m \in 1 .. n : InstrumentOf(kept[m]) # i
             /\ u[i] # None => SpansUpTo(u[i], kept, i, n)
  <2>1. u[i] = t[i]
    BY <1>4, <1>6
  <2>2. t[i] = None => \A m \in 1 .. n - 1 : InstrumentOf(kept[m]) # i
    BY DEF Registered
  <2>3. t[i] # None => SpansUpTo(t[i], kept, i, n - 1)
    BY DEF Registered
  <2> HIDE DEF u, I
  <2> QED
    BY <1>1, <1>6, <2>1, <2>2, <2>3 DEF SpansUpTo
<1>7. u[i0] # None /\ SpansUpTo(u[i0], kept, i0, n)
  <2>1. CASE t[i0] = None
    <3>1. \A m \in 1 .. n - 1 : InstrumentOf(kept[m]) # i0
      BY <1>2, <2>1 DEF Registered
    <3>2. new \in Span /\ new.first = x.date /\ new.last = x.date /\ x.date <= x.date
      <4> HIDE DEF x
      <4>1. x.market \in Markets /\ x.date \in Dates /\ x.date \in Int
        BY <1>1, DatesAreNumbers DEF Record
      <4> QED
        BY <4>1 DEF Span
    <3> HIDE DEF new
    <3>3. u[i0] = new
      BY <1>4, <2>1
    <3>4. SpansUpTo(new, kept, i0, n)
      BY <1>1, <3>1, <3>2 DEF SpansUpTo
    <3> QED
      BY <3>2, <3>3, <3>4, NoRecordAssumption
  <2>2. CASE t[i0] # None
    <3>1. SpansUpTo(t[i0], kept, i0, n - 1)
      BY <1>2, <2>2 DEF Registered
    <3>2. SpansUpTo(Extend(t[i0], x), kept, i0, n)
      BY <3>1, ExtendSpans
    <3>3. u[i0] = Extend(t[i0], x)
      BY <1>4, <2>2
    <3> HIDE DEF u, i0
    <3> QED
      BY <3>2, <3>3, NoRecordAssumption DEF SpansUpTo
  <2> QED
    BY <2>1, <2>2
<1>8. \A i \in I : u[i] \in Span \cup {None}
  <2> HIDE DEF u, I
  <2>1. \A i \in I : t[i] \in Span \cup {None}
    BY <1>3
  <2> QED
    BY <1>4, <1>7, <2>1 DEF SpansUpTo
<1> HIDE DEF u, I, i0
<1>9. u \in [I -> Span \cup {None}]
  BY <1>5, <1>8
<1> QED
  BY <1>6, <1>7, <1>9 DEF Registered, u, I

\* Each instrument of the records has a row with its first and its last date.
Spans(table, S) ==
    /\ DOMAIN table = {InstrumentOf(x) : x \in S}
    /\ \A i \in DOMAIN table :
          /\ table[i] \in Span
          /\ \E x \in S : InstrumentOf(x) = i /\ x.date = table[i].first
          /\ \E x \in S : InstrumentOf(x) = i /\ x.date = table[i].last
          /\ \A x \in S : InstrumentOf(x) = i => table[i].first <= x.date /\ x.date <= table[i].last

LEMMA InstrumentsAreSpans ==
  ASSUME NEW kept \in Seq(Record)
  PROVE  Spans(Instruments(kept), ToSet(kept))
<1> DEFINE N == Len(kept)
           table == Instruments(kept)
           I == InstrumentsOf(kept)
<1>1. N \in Nat /\ ToSet(kept) = {kept[m] : m \in 1 .. N}
  BY DEF ToSet
<1>2. PICK pass :
         /\ pass[0] = [i \in {InstrumentOf(x) : x \in ToSet(kept)} |-> None]
         /\ \A n \in 1 .. N : pass[n] = Register(pass[n - 1], kept[n])
         /\ table = pass[N]
  BY InstrumentsPass
<1> HIDE DEF table, N
<1> DEFINE G == {n \in Nat : n <= N => Registered(pass[n], kept, n)}
<1>3. 0 \in G
  <2>1. pass[0] = [i \in I |-> None]
    BY <1>2 DEF InstrumentsOf
  <2>2. 1 .. 0 = {}
    OBVIOUS
  <2> HIDE DEF I
  <2>3. Registered(pass[0], kept, 0)
    BY <2>1, <2>2 DEF Registered, I
  <2> QED
    BY <2>3
<1>4. ASSUME NEW n \in Nat, n \in G
      PROVE  n + 1 \in G
  <2> SUFFICES ASSUME n + 1 <= N
               PROVE  Registered(pass[n + 1], kept, n + 1)
    OBVIOUS
  <2>1. n + 1 \in 1 .. N /\ (n + 1) - 1 = n
    BY <1>1
  <2>2. Registered(pass[n], kept, n)
    BY <1>1, <1>4
  <2>3. pass[n + 1] = Register(pass[n], kept[n + 1])
    BY <1>2, <2>1
  <2> QED
    BY <2>1, <2>2, <2>3, RegisterStep DEF N
<1>5. Registered(table, kept, N)
  <2>1. N \in G
    <3> HIDE DEF G
    <3> QED
      BY <1>1, <1>3, <1>4, NumbersByInduction
  <2> QED
    BY <1>1, <1>2, <2>1
<1>6. DOMAIN table = I
  BY <1>5 DEF Registered
<1>7. ASSUME NEW i \in I
      PROVE  SpansUpTo(table[i], kept, i, N)
  <2>1. \E m \in 1 .. N : InstrumentOf(kept[m]) = i
    BY <1>1 DEF InstrumentsOf
  <2>2. table[i] # None
    BY <1>5, <2>1 DEF Registered
  <2> QED
    BY <1>5, <2>2 DEF Registered
<1> HIDE DEF I
<1>8. \A i \in DOMAIN table :
         /\ table[i] \in Span
         /\ \E x \in ToSet(kept) : InstrumentOf(x) = i /\ x.date = table[i].first
         /\ \E x \in ToSet(kept) : InstrumentOf(x) = i /\ x.date = table[i].last
         /\ \A x \in ToSet(kept) : InstrumentOf(x) = i => table[i].first <= x.date /\ x.date <= table[i].last
  <2> SUFFICES ASSUME NEW i \in DOMAIN table
               PROVE  /\ table[i] \in Span
                      /\ \E x \in ToSet(kept) : InstrumentOf(x) = i /\ x.date = table[i].first
                      /\ \E x \in ToSet(kept) : InstrumentOf(x) = i /\ x.date = table[i].last
                      /\ \A x \in ToSet(kept) :
                            InstrumentOf(x) = i => table[i].first <= x.date /\ x.date <= table[i].last
    OBVIOUS
  <2>1. SpansUpTo(table[i], kept, i, N)
    BY <1>6, <1>7
  <2>2. \A m \in 1 .. N :
           InstrumentOf(kept[m]) = i => table[i].first <= kept[m].date /\ kept[m].date <= table[i].last
    BY <2>1 DEF SpansUpTo
  <2>3. \E m \in 1 .. N : InstrumentOf(kept[m]) = i /\ kept[m].date = table[i].first
    BY <2>1 DEF SpansUpTo
  <2>4. \E m \in 1 .. N : InstrumentOf(kept[m]) = i /\ kept[m].date = table[i].last
    BY <2>1 DEF SpansUpTo
  <2>5. table[i] \in Span
    BY <2>1 DEF SpansUpTo
  <2> QED
    BY <1>1, <2>2, <2>3, <2>4, <2>5
<1> QED
  BY <1>6, <1>8 DEF Spans, table, I, InstrumentsOf

-----------------------------------------------------------------------------
(* The rows of the parts add up to the records kept.                       *)

\* The rows of the parts of a set add up to its size.
LEMMA PartsAddUp ==
  ASSUME NEW S, IsFiniteSet(S), NEW m,
         m.rows = [p \in {PartitionOf(x) : x \in S} |-> Cardinality({x \in S : PartitionOf(x) = p})]
  PROVE  MapThenSumSet(LAMBDA p : m.rows[p], DOMAIN m.rows) = Cardinality(S)
<1> DEFINE T == {PartitionOf(x) : x \in S}
           Of(p) == {x \in S : PartitionOf(x) = p}
           In(s) == {x \in S : PartitionOf(x) \in s}
           Some(s) == CHOOSE p \in s : TRUE
           Body(f) == [s \in SUBSET T |->
                          IF s = {} THEN 0 ELSE m.rows[Some(s)] + f[s \ {Some(s)}]]
           f0 == CHOOSE f : f = Body(f)
           c == [s \in SUBSET T |-> Some(s)]
           g == [a \in Nat \X T |-> m.rows[a[2]] + a[1]]
<1>1. /\ DOMAIN m.rows = T
      /\ \A p \in T : m.rows[p] = Cardinality(Of(p))
  <2> HIDE DEF T
  <2>1. m.rows = [p \in T |-> Cardinality(Of(p))]
    BY DEF T
  <2> QED
    BY <2>1
<1>2. \A s \in SUBSET T :
         /\ IsFiniteSet(s) /\ Cardinality(s) \in Nat
         /\ IsFiniteSet(In(s)) /\ Cardinality(In(s)) \in Nat
  <2> DEFINE part == [x \in S |-> PartitionOf(x)]
  <2>1. part \in Surjection(S, T)
    BY DEF Surjection
  <2>2. IsFiniteSet(T)
    <3> HIDE DEF part, T
    <3> QED
      BY <2>1, FS_Surjection
  <2>3. \A s : In(s) \in SUBSET S
    OBVIOUS
  <2> HIDE DEF T, In
  <2> QED
    BY <2>2, <2>3, FS_Subset, FS_CardinalityType
<1>3. \A p \in T : IsFiniteSet(Of(p)) /\ m.rows[p] \in Nat
  <2> SUFFICES ASSUME NEW p \in T
               PROVE  IsFiniteSet(Of(p)) /\ m.rows[p] \in Nat
    OBVIOUS
  <2>1. Of(p) \in SUBSET S
    OBVIOUS
  <2>2. IsFiniteSet(Of(p))
    <3> HIDE DEF Of
    <3> QED
      BY <2>1, FS_Subset
  <2>3. Cardinality(Of(p)) \in Nat
    BY <2>2, FS_CardinalityType
  <2> HIDE DEF Of, T
  <2> QED
    BY <1>1, <2>2, <2>3
<1>4. MapThenSumSet(LAMBDA p : m.rows[p], DOMAIN m.rows) = f0[T]
  <2>1. DOMAIN m.rows = T
    BY <1>1
  <2> HIDE DEF T
  <2> QED
    BY <2>1, Zenon DEF MapThenSumSet, MapThenFoldSet
<1>a. \A p \in T : m.rows[p] \in Nat
  BY <1>3
<1>5. PICK h \in [SUBSET T -> Nat] : Recursion(h, T, 0, c, g)
  <2>1. IsFiniteSet(T)
    BY <1>2
  <2>2. Chooses(c, T)
    <3> HIDE DEF T
    <3> QED
      BY DEF Chooses
  <2>3. Steps(g, Nat, T)
    <3> HIDE DEF T
    <3> QED
      BY <1>a DEF Steps
  <2>4. 0 \in Nat
    OBVIOUS
  <2> HIDE DEF T, c, g
  <2> QED
    BY <2>1, <2>2, <2>3, <2>4, RecursionOverSubsets, Zenon
<1>6. h = Body(h)
  <2>1. \A s \in SUBSET T : s # {} => Some(s) \in T
    <3> HIDE DEF T
    <3> QED
      OBVIOUS
  <2>2. ASSUME NEW s \in SUBSET T, s # {}
        PROVE  h[s] = m.rows[Some(s)] + h[s \ {Some(s)}]
    <3>1. s \ {Some(s)} \in SUBSET T /\ c[s] = Some(s)
      <4> HIDE DEF T
      <4> QED
        OBVIOUS
    <3>2. h[s \ {Some(s)}] \in Nat
      BY <3>1
    <3>3. h[s] = g[<<h[s \ {Some(s)}], Some(s)>>]
      <4> HIDE DEF T, c, g, Some
      <4> QED
        BY <1>5, <2>2, <3>1 DEF Recursion
    <3> HIDE DEF T, Some
    <3> QED
      BY <2>1, <2>2, <3>2, <3>3
  <2>3. h[{}] = 0
    BY <1>5 DEF Recursion
  <2> HIDE DEF T, Some
  <2> QED
    BY <2>2, <2>3
<1>7. f0 = Body(f0)
  <2> HIDE DEF Body
  <2> QED
    BY <1>6
<1> HIDE DEF f0
<1>b. \A s, p : p \in s /\ s \in SUBSET T =>
         /\ p \in T /\ s \ {p} \in SUBSET T
         /\ In(s) = In(s \ {p}) \cup Of(p) /\ In(s \ {p}) \cap Of(p) = {}
  <2> HIDE DEF T
  <2> QED
    OBVIOUS
<1>c. In({}) = {} /\ In(T) = S /\ \A s : s # {} => Some(s) \in s
  OBVIOUS
<1> HIDE DEF T, Of, In, Some
<1>8. ASSUME NEW s \in SUBSET T, s # {}
      PROVE  /\ Some(s) \in s /\ s \ {Some(s)} \in SUBSET T
             /\ Cardinality(s \ {Some(s)}) = Cardinality(s) - 1
             /\ Cardinality(In(s)) = m.rows[Some(s)] + Cardinality(In(s \ {Some(s)}))
  <2> DEFINE p == Some(s)
             rest == s \ {p}
  <2>1. p \in s
    BY <1>8, <1>c
  <2> HIDE DEF p
  <2>2. rest \in SUBSET T /\ p \in T
    BY <2>1
  <2>3. Cardinality(rest) = Cardinality(s) - 1
    <3>1. IsFiniteSet(s)
      BY <1>2
    <3> QED
      BY <2>1, <3>1, FS_RemoveElement
  <2> HIDE DEF rest
  <2>4. In(s) = In(rest) \cup Of(p) /\ In(rest) \cap Of(p) = {}
    BY <1>b, <2>1, Zenon DEF rest
  <2>5. IsFiniteSet(In(rest)) /\ Cardinality(In(rest)) \in Nat /\ IsFiniteSet(Of(p))
    BY <1>2, <1>3, <2>2
  <2>6. m.rows[p] = Cardinality(Of(p)) /\ m.rows[p] \in Nat
    BY <1>1, <1>3, <2>2
  <2>7. Cardinality(In(rest) \cup Of(p)) = Cardinality(In(rest)) + Cardinality(Of(p))
    <3>1. Cardinality(In(rest) \cap Of(p)) = 0
      BY <2>4, FS_EmptySet, Zenon
    <3>2. Cardinality(In(rest) \cup Of(p))
             = Cardinality(In(rest)) + Cardinality(Of(p)) - Cardinality(In(rest) \cap Of(p))
      BY <2>5, FS_Union
    <3> QED
      BY <2>5, <2>6, <3>1, <3>2
  <2>8. Cardinality(In(s)) = Cardinality(In(rest) \cup Of(p))
    BY <2>4, Zenon
  <2>9. Cardinality(In(s)) = m.rows[p] + Cardinality(In(rest))
    BY <2>5, <2>6, <2>7, <2>8
  <2> QED
    BY <2>1, <2>2, <2>3, <2>9 DEF p, rest
<1> DEFINE G == {k \in Nat : \A s \in SUBSET T : Cardinality(s) <= k => f0[s] = Cardinality(In(s))}
<1>d. \A s \in SUBSET T : IsFiniteSet(s) /\ Cardinality(s) \in Nat
  BY <1>2
<1>9. f0[{}] = Cardinality(In({}))
  <2>1. f0[{}] = 0
    BY <1>7
  <2> QED
    BY <1>c, <2>1, FS_EmptySet
<1>10. 0 \in G
  <2>1. ASSUME NEW s \in SUBSET T, Cardinality(s) <= 0
        PROVE  f0[s] = Cardinality(In(s))
    <3>1. IsFiniteSet(s) /\ Cardinality(s) = 0
      BY <1>d, <2>1
    <3>2. s = {}
      BY <3>1, FS_EmptySet
    <3> QED
      BY <1>9, <3>2
  <2> QED
    BY <2>1
<1>11. ASSUME NEW k \in Nat, k \in G
       PROVE  k + 1 \in G
  <2>1. ASSUME NEW s \in SUBSET T, Cardinality(s) <= k + 1, s # {}
        PROVE  f0[s] = Cardinality(In(s))
    <3> DEFINE rest == s \ {Some(s)}
    <3>1. rest \in SUBSET T /\ Cardinality(rest) <= k
      <4>1. Cardinality(s) \in Nat /\ Cardinality(rest) = Cardinality(s) - 1
        BY <1>d, <1>8, <2>1
      <4>2. rest \in SUBSET T
        OBVIOUS
      <4> HIDE DEF rest
      <4> QED
        BY <2>1, <4>1, <4>2
    <3>2. f0[rest] = Cardinality(In(rest))
      <4> HIDE DEF rest
      <4> QED
        BY <1>11, <3>1
    <3>3. f0[s] = m.rows[Some(s)] + f0[rest]
      BY <1>7, <2>1
    <3>4. Cardinality(In(s)) = m.rows[Some(s)] + Cardinality(In(rest))
      BY <1>8, <2>1
    <3> HIDE DEF rest
    <3> QED
      BY <3>2, <3>3, <3>4
  <2>2. \A s \in SUBSET T : Cardinality(s) <= k + 1 => f0[s] = Cardinality(In(s))
    BY <1>9, <2>1
  <2> QED
    BY <2>2
<1>12. f0[T] = Cardinality(In(T))
  <2>1. T \in SUBSET T
    OBVIOUS
  <2>2. Cardinality(T) \in Nat
    BY <1>d, <2>1
  <2>3. Cardinality(T) \in G
    <3> HIDE DEF G
    <3> QED
      BY <1>10, <1>11, <2>2, NumbersByInduction
  <2> QED
    BY <2>1, <2>2, <2>3
<1> QED
  BY <1>4, <1>12, <1>c, Zenon

-----------------------------------------------------------------------------
(* Each record is kept or counted as a duplicate.                          *)

\* Each record is the first of its key or a duplicate.
LEMMA KeysAndDuplicates ==
  ASSUME NEW records, Sound(records)
  PROVE  /\ IsFiniteSet(Keys(records)) /\ Duplicates(records) \in Nat
         /\ Cardinality(Keys(records)) + Duplicates(records) = Len(records)
<1> DEFINE N == Len(records)
           Repeats == {n \in DOMAIN records : \E m \in 1 .. n - 1 : KeyOf(records[m]) = KeyOf(records[n])}
           Firsts == (1 .. N) \ Repeats
           K == Keys(records)
           f == [n \in Firsts |-> KeyOf(records[n])]
<1>1. N \in Nat /\ DOMAIN records = 1 .. N
  BY DEF Sound
<1>2. IsFiniteSet(1 .. N) /\ Cardinality(1 .. N) = N
  <2> HIDE DEF N
  <2> QED
    BY <1>1, FS_Interval
<1>3. Repeats \in SUBSET (1 .. N)
  BY <1>1
<1>4. IsFiniteSet(Repeats) /\ Cardinality(Repeats) \in Nat
  <2> HIDE DEF Repeats, N
  <2> QED
    BY <1>2, <1>3, FS_Subset, FS_CardinalityType
<1>5. IsFiniteSet(Firsts) /\ Cardinality(Firsts) = N - Cardinality(Repeats)
  <2>1. Firsts \in SUBSET (1 .. N) /\ (1 .. N) \cap Repeats = Repeats
    BY <1>3
  <2>2. Cardinality(Firsts) = Cardinality(1 .. N) - Cardinality((1 .. N) \cap Repeats)
    <3> HIDE DEF Repeats, N
    <3> QED
      BY <1>2, FS_Difference
  <2>3. IsFiniteSet(Firsts)
    <3> HIDE DEF Firsts, N
    <3> QED
      BY <1>2, <2>1, FS_Subset
  <2> HIDE DEF Firsts, Repeats, N
  <2> QED
    BY <1>2, <2>1, <2>2, <2>3
<1>6. \A x \in ToSet(records) : \E n \in 1 .. N : x = records[n]
  BY <1>1 DEF ToSet
<1>7. f \in [Firsts -> K]
  <2>1. \A n \in 1 .. N : records[n] \in ToSet(records)
    BY <1>1 DEF ToSet
  <2> QED
    BY <2>1 DEF Keys
<1>8. ASSUME NEW n \in Firsts, NEW m \in Firsts, f[n] = f[m]
      PROVE  n = m
  <2>1. n \in 1 .. N /\ m \in 1 .. N /\ KeyOf(records[n]) = KeyOf(records[m])
    BY <1>8
  <2>2. ~ (m \in 1 .. n - 1) /\ ~ (n \in 1 .. m - 1)
    BY <1>1, <1>8
  <2> HIDE DEF Firsts, Repeats, f
  <2> QED
    BY <1>1, <2>1, <2>2
<1>9. ASSUME NEW k \in K
      PROVE  \E n \in Firsts : f[n] = k
  <2> DEFINE Of == {n \in 1 .. N : KeyOf(records[n]) = k}
  <2>1. Of # {}
    BY <1>6 DEF Keys
  <2>2. PICK n \in Of : \A m \in Of : n <= m
    <3>1. Of \subseteq Nat
      BY <1>1
    <3> HIDE DEF Of
    <3> QED
      BY <2>1, <3>1, LeastElement
  <2>3. n \in 1 .. N /\ KeyOf(records[n]) = k
    OBVIOUS
  <2>4. \A m \in 1 .. n - 1 : m \in 1 .. N /\ ~ (n <= m)
    BY <1>1, <2>3
  <2>5. n \notin Repeats
    <3>1. \A m \in 1 .. n - 1 : KeyOf(records[m]) # k
      BY <2>2, <2>4
    <3> HIDE DEF Of
    <3> QED
      BY <2>3, <3>1
  <2> HIDE DEF Repeats
  <2> QED
    BY <2>3, <2>5
<1>10. IsFiniteSet(K) /\ Cardinality(K) = Cardinality(Firsts)
  <2>1. DOMAIN f = Firsts
    OBVIOUS
  <2> HIDE DEF f, Firsts, K
  <2>2. f \in Bijection(Firsts, K)
    BY <1>7, <1>8, <1>9, <2>1 DEF Bijection, Injection, Surjection, IsInjective
  <2>3. ExistsBijection(Firsts, K)
    BY <2>2 DEF ExistsBijection
  <2> QED
    BY <1>5, <2>3, FS_Bijection
<1>11. Duplicates(records) = Cardinality(Repeats)
  BY DEF Duplicates
<1> HIDE DEF Repeats, K, N, Firsts
<1>12. IsFiniteSet(K) /\ Duplicates(records) \in Nat /\ Cardinality(K) + Duplicates(records) = N
  BY <1>1, <1>4, <1>5, <1>10, <1>11
<1> QED
  BY <1>12 DEF K, N

\* The counts of a file add up: the kept records and the duplicates are all.
LEMMA CountsOfRecords ==
  ASSUME NEW records, Sound(records)
  PROVE  Len(Kept(records)) + Duplicates(records) = Len(records)
<1> DEFINE best == Deduplicate(records)
           K == Keys(records)
           B == BestOf(records)
<1>1. /\ {best[k] : k \in DOMAIN best} = B /\ best \in [K -> B]
      /\ \A k \in K : KeyOf(best[k]) = k
  BY ChosenAreBest
<1> HIDE DEF best, K, B
<1>2. best \in Bijection(K, B)
  BY <1>1 DEF Bijection, Injection, Surjection, IsInjective
<1>3. ExistsBijection(K, B)
  BY <1>2 DEF ExistsBijection
<1>4. IsFiniteSet(K) /\ Cardinality(K) + Duplicates(records) = Len(records)
  BY KeysAndDuplicates DEF K
<1>5. Cardinality(B) = Cardinality(K)
  BY <1>3, <1>4, FS_Bijection
<1>6. Len(Kept(records)) = Cardinality(B)
  BY KeptIsBest DEF B
<1> QED
  BY <1>4, <1>5, <1>6

-----------------------------------------------------------------------------
(* Every stored object is what an accepted request that shares it writes.  *)

\* What a call has computed from an accepted file.
LEMMA AcceptedRows ==
  ASSUME memory = [r \in asked |-> RowsOf(text, r)], asked \subseteq Requests, text \in Seq(Line),
         NEW q \in asked, Accepted(q)
  PROVE  /\ Sound(memory[q].records)
         /\ memory[q].kept = Kept(memory[q].records)
         /\ memory[q].dups = Duplicates(memory[q].records)
         /\ memory[q].instruments = Instruments(memory[q].kept)
<1> DEFINE records == Parse(text, q)
           kept == Kept(records)
<1>1. memory[q] = RowsOf(text, q) /\ RowsOf(text, q) # None
  BY DEF Accepted
<1>2. /\ ~ Refused(records)
      /\ memory[q] = [records |-> records, kept |-> kept, dups |-> Duplicates(records),
                      instruments |-> Instruments(kept), bronze |-> BronzeDate(records, q)]
  <2> HIDE DEF Refused, Parse, Kept, Duplicates, Instruments, BronzeDate
  <2> QED
    BY <1>1, Zenon DEF RowsOf
<1>3. Sound(records)
  BY <1>2, AcceptedRecords
<1> HIDE DEF records, kept
<1>4. /\ memory[q].records = records /\ memory[q].kept = kept
      /\ memory[q].dups = Duplicates(records) /\ memory[q].instruments = Instruments(kept)
  BY <1>2
<1> QED
  BY <1>3, <1>4 DEF kept

\* What the call of request q may have stored.
Writes(q, name, object) ==
    \/ name = RawName(q) /\ object = text
    \/ name = MetaName(q) /\ object = [source |-> Len(memory[q].records)]
    \/ \E p \in Partitions(memory[q]) : name = QuotesName(q, p) /\ object = Members(memory[q].kept, p)
    \/ name = InstrumentsName(q) /\ object = memory[q].instruments
    \/ name = ManifestName(q) /\ object = Manifest(memory[q])

\* Every stored object is what an accepted request writes under its name.
Written ==
    \A name \in DOMAIN lake : \E q \in asked : Accepted(q) /\ Writes(q, name, lake[name])

\* A call that writes has an accepted file and partitions of its own to write.
Holding(w) ==
    /\ pc[w] \in {"raw", "meta", "quotes", "instruments", "manifest"} => Accepted(serves[w])
    /\ pc[w] = "quotes" => todo[w] \subseteq Partitions(Data(w))
    /\ pc[w] # "quotes" => todo[w] = {}

Counters ==
    /\ asked \subseteq Requests
    /\ text \in Seq(Line)
    /\ attempts \in [Requests -> 0 .. MaxAttempts]
    /\ done \subseteq asked
    /\ faults \in 0 .. MaxFaults

RInv == Counters /\ (\A w \in Sessions : Holding(w)) /\ Written

LEMMA InitRows == Init => RInv
<1> SUFFICES ASSUME Init
             PROVE  RInv
  OBVIOUS
<1>1. PICK plan \in Plans : asked = plan.asked /\ text \in plan.contents
  BY DEF Init
<1>2. asked \subseteq Requests /\ text \in Seq(Line) /\ MaxAttempts \in Nat /\ MaxFaults \in Nat
  BY <1>1, HistoricalIngestionAssumption
<1>3. Counters
  BY <1>2 DEF Init, Counters
<1>4. ASSUME NEW w \in Sessions
      PROVE  Holding(w)
  BY DEF Init, Holding
<1>5. Written
  BY DEF Init, Written
<1> QED
  BY <1>3, <1>4, <1>5 DEF RInv

LEMMA WrittenStep ==
  ASSUME Written, UNCHANGED inputs, NEW q \in asked, Accepted(q),
         NEW name, NEW object, Put(name, object), Writes(q, name, object)
  PROVE  Written'
<1>1. \A r, n, o : (Accepted(r)' <=> Accepted(r)) /\ (Writes(r, n, o)' <=> Writes(r, n, o))
  BY DEF inputs, Accepted, Writes, RawName, MetaName, QuotesName, InstrumentsName, ManifestName
<1>2. /\ DOMAIN lake' = DOMAIN lake \cup {name} /\ lake'[name] = object
      /\ \A n \in DOMAIN lake : n # name => lake'[n] = lake[n]
  BY PutType
<1>3. ASSUME NEW n \in DOMAIN lake'
      PROVE  \E r \in asked : Accepted(r) /\ Writes(r, n, lake'[n])
  <2>1. CASE n = name
    BY <1>2, <2>1
  <2>2. CASE n # name
    <3>1. n \in DOMAIN lake /\ lake'[n] = lake[n]
      BY <1>2, <1>3, <2>2
    <3> QED
      BY <3>1 DEF Written
  <2> QED
    BY <2>1, <2>2
<1> QED
  BY <1>1, <1>3 DEF Written, inputs

\* A step of one session keeps what the others hold.
LEMMA HoldingStep ==
  ASSUME \A v \in Sessions : Holding(v), UNCHANGED inputs, NEW w \in Sessions,
         \A v \in Sessions \ {w} : pc'[v] = pc[v] /\ serves'[v] = serves[v] /\ todo'[v] = todo[v],
         Holding(w)'
  PROVE  \A v \in Sessions : Holding(v)'
<1>1. ASSUME NEW v \in Sessions \ {w}
      PROVE  Holding(v)'
  <2>1. /\ Accepted(serves[v])' <=> Accepted(serves[v])
        /\ Partitions(Data(v))' = Partitions(Data(v))
    BY <1>1 DEF inputs, Accepted, Data, Partitions
  <2>2. pc'[v] = pc[v] /\ serves'[v] = serves[v] /\ todo'[v] = todo[v] /\ Holding(v)
    BY <1>1
  <2> QED
    BY <2>1, <2>2 DEF Holding
<1> QED
  BY <1>1

LEMMA NextRows == TInv /\ RInv /\ [Next]_vars => RInv'
<1> SUFFICES ASSUME TInv, RInv, [Next]_vars
             PROVE  RInv'
  OBVIOUS
<1>1. CASE UNCHANGED vars
  BY <1>1 DEF RInv, Counters, Holding, Written, Writes, vars, inputs, Accepted, Data, Partitions,
     RawName, MetaName, QuotesName, InstrumentsName, ManifestName
<1>2. /\ \A v \in Sessions : Holding(v)
      /\ \A v \in Sessions : pc[v] # "idle" => serves[v] \in asked
      /\ DOMAIN pc = Sessions /\ DOMAIN serves = Sessions /\ DOMAIN todo = Sessions
      /\ Written /\ Counters
  BY DEF RInv, TInv
<1>3. UNCHANGED <<inputs, lake>> => Written'
  BY <1>2 DEF Written, Writes, inputs, Accepted, Partitions,
     RawName, MetaName, QuotesName, InstrumentsName, ManifestName
<1>4. ASSUME NEW w \in Sessions, NEW r \in Requests, Begin(w, r)
      PROVE  RInv'
  <2>1. Holding(w)'
    BY <1>2, <1>4 DEF Begin, Goto, Holding
  <2>2. \A v \in Sessions : Holding(v)'
    BY <1>2, <1>4, <2>1, HoldingStep DEF Begin, Goto
  <2>3. Counters'
    BY <1>2, <1>4, HistoricalIngestionAssumption DEF Begin, Counters, inputs
  <2>4. Written'
    BY <1>3, <1>4 DEF Begin
  <2> QED
    BY <2>2, <2>3, <2>4 DEF RInv
<1>5. ASSUME NEW w \in Sessions, Prepare(w)
      PROVE  RInv'
  <2>1. Holding(w)'
    BY <1>2, <1>5 DEF Prepare, Goto, Holding, inputs, Accepted
  <2>2. \A v \in Sessions : Holding(v)'
    BY <1>2, <1>5, <2>1, HoldingStep DEF Prepare, Goto
  <2>3. Counters'
    BY <1>2, <1>5 DEF Prepare, Counters, inputs
  <2>4. Written'
    BY <1>3, <1>5 DEF Prepare
  <2> QED
    BY <2>2, <2>3, <2>4 DEF RInv
<1>6. ASSUME NEW w \in Sessions, StoreRaw(w)
      PROVE  RInv'
  <2>1. Accepted(serves[w]) /\ serves[w] \in asked
    BY <1>2, <1>6 DEF StoreRaw, Holding
  <2>2. Holding(w)'
    BY <1>2, <1>6, <2>1 DEF StoreRaw, Goto, Holding, inputs, Accepted
  <2>3. \A v \in Sessions : Holding(v)'
    BY <1>2, <1>6, <2>2, HoldingStep DEF StoreRaw, Goto
  <2>4. Counters'
    BY <1>2, <1>6 DEF StoreRaw, Counters, inputs
  <2>5. Written'
    BY <1>2, <1>6, <2>1, WrittenStep DEF StoreRaw, Writes
  <2> QED
    BY <2>3, <2>4, <2>5 DEF RInv
<1>7. ASSUME NEW w \in Sessions, StoreMetadata(w)
      PROVE  RInv'
  <2>1. Accepted(serves[w]) /\ serves[w] \in asked
    BY <1>2, <1>7 DEF StoreMetadata, Holding
  <2>2. Holding(w)'
    BY <1>2, <1>7, <2>1 DEF StoreMetadata, Goto, Holding, inputs, Accepted, Data, Partitions
  <2>3. \A v \in Sessions : Holding(v)'
    BY <1>2, <1>7, <2>2, HoldingStep DEF StoreMetadata, Goto
  <2>4. Counters'
    BY <1>2, <1>7 DEF StoreMetadata, Counters, inputs
  <2>5. Written'
    BY <1>2, <1>7, <2>1, WrittenStep DEF StoreMetadata, Writes, Data
  <2> QED
    BY <2>3, <2>4, <2>5 DEF RInv
<1>8. ASSUME NEW w \in Sessions, StoreQuotes(w)
      PROVE  RInv'
  <2>1. Accepted(serves[w]) /\ serves[w] \in asked /\ todo[w] \subseteq Partitions(Data(w))
    BY <1>2, <1>8 DEF StoreQuotes, Holding
  <2>2. PICK p \in todo[w] :
           /\ Put(QuotesName(serves[w], p), Members(Data(w).kept, p))
           /\ todo' = [todo EXCEPT ![w] = @ \ {p}]
           /\ Goto(w, IF todo[w] = {p} THEN "instruments" ELSE "quotes")
    BY <1>8 DEF StoreQuotes
  <2>3. UNCHANGED <<inputs, serves, attempts, done, faults>>
    BY <1>8 DEF StoreQuotes
  <2>4. Holding(w)'
    <3>1. todo'[w] = todo[w] \ {p} /\ pc'[w] = IF todo[w] = {p} THEN "instruments" ELSE "quotes"
      BY <1>2, <2>2 DEF Goto
    <3>2. Accepted(serves[w])' /\ Partitions(Data(w))' = Partitions(Data(w))
      BY <2>1, <2>3 DEF inputs, Accepted, Data, Partitions
    <3> QED
      BY <2>1, <3>1, <3>2 DEF Holding
  <2>5. \A v \in Sessions : Holding(v)'
    BY <1>2, <2>2, <2>3, <2>4, HoldingStep DEF Goto
  <2>6. Counters'
    BY <1>2, <2>3 DEF Counters, inputs
  <2>7. Written'
    <3>1. Writes(serves[w], QuotesName(serves[w], p), Members(Data(w).kept, p))
      BY <2>1 DEF Writes, Data
    <3> QED
      BY <1>2, <2>1, <2>2, <2>3, <3>1, WrittenStep
  <2> QED
    BY <2>5, <2>6, <2>7 DEF RInv
<1>9. ASSUME NEW w \in Sessions, StoreInstruments(w)
      PROVE  RInv'
  <2>1. Accepted(serves[w]) /\ serves[w] \in asked
    BY <1>2, <1>9 DEF StoreInstruments, Holding
  <2>2. Holding(w)'
    BY <1>2, <1>9, <2>1 DEF StoreInstruments, Goto, Holding, inputs, Accepted
  <2>3. \A v \in Sessions : Holding(v)'
    BY <1>2, <1>9, <2>2, HoldingStep DEF StoreInstruments, Goto
  <2>4. Counters'
    BY <1>2, <1>9 DEF StoreInstruments, Counters, inputs
  <2>5. Written'
    BY <1>2, <1>9, <2>1, WrittenStep DEF StoreInstruments, Writes, Data
  <2> QED
    BY <2>3, <2>4, <2>5 DEF RInv
<1>10. ASSUME NEW w \in Sessions, StoreManifest(w)
       PROVE  RInv'
  <2>1. Accepted(serves[w]) /\ serves[w] \in asked
    BY <1>2, <1>10 DEF StoreManifest, Holding
  <2>2. Holding(w)'
    BY <1>2, <1>10 DEF StoreManifest, Goto, Holding
  <2>3. \A v \in Sessions : Holding(v)'
    BY <1>2, <1>10, <2>2, HoldingStep DEF StoreManifest, Goto
  <2>4. Counters'
    BY <1>2, <1>10, <2>1 DEF StoreManifest, Counters, inputs
  <2>5. Written'
    BY <1>2, <1>10, <2>1, WrittenStep DEF StoreManifest, Writes, Data
  <2> QED
    BY <2>3, <2>4, <2>5 DEF RInv
<1>11. ASSUME NEW w \in Sessions, Fail(w)
       PROVE  RInv'
  <2>1. Holding(w)'
    BY <1>2, <1>11 DEF Fail, Goto, Holding
  <2>2. \A v \in Sessions : Holding(v)'
    BY <1>2, <1>11, <2>1, HoldingStep DEF Fail, Goto
  <2>3. Counters'
    <3>1. MaxFaults \in Nat
      BY HistoricalIngestionAssumption
    <3> QED
      BY <1>2, <1>11, <3>1 DEF Fail, Counters, inputs
  <2>4. Written'
    BY <1>3, <1>11 DEF Fail
  <2> QED
    BY <2>2, <2>3, <2>4 DEF RInv
<1> QED
  BY <1>1, <1>4, <1>5, <1>6, <1>7, <1>8, <1>9, <1>10, <1>11 DEF Next, Step

LEMMA RowsHold == Spec => [](TInv /\ RInv)
BY InitType, InitRows, NextType, NextRows, PTL DEF Spec

-----------------------------------------------------------------------------
(* The invariants of what is stored.                                       *)

\* What the objects of an accepted request are made of.
LEMMA RowFacts ==
  ASSUME TInv, Counters, NEW q \in asked, Accepted(q)
  PROVE  /\ Sound(memory[q].records)
         /\ memory[q].kept \in Seq(Record) /\ ToSet(memory[q].kept) = Best(q)
         /\ IsFiniteSet(Best(q)) /\ Len(memory[q].kept) = Cardinality(Best(q))
         /\ memory[q].dups \in Nat
         /\ Len(memory[q].kept) + memory[q].dups = Len(memory[q].records)
         /\ Spans(memory[q].instruments, Best(q))
<1>1. /\ Sound(memory[q].records)
      /\ memory[q].kept = Kept(memory[q].records)
      /\ memory[q].dups = Duplicates(memory[q].records)
      /\ memory[q].instruments = Instruments(memory[q].kept)
  BY AcceptedRows DEF TInv, Counters
<1>2. Best(q) = BestOf(memory[q].records)
  BY DEF Best, BestOf
<1> DEFINE records == memory[q].records
           kept == memory[q].kept
<1> HIDE DEF records, kept
<1>3. /\ kept \in Seq(Record) /\ ToSet(kept) = Best(q)
      /\ IsFiniteSet(Best(q)) /\ Len(kept) = Cardinality(Best(q))
  BY <1>1, <1>2, KeptIsBest DEF records, kept
<1>4. Duplicates(records) \in Nat /\ Len(kept) + Duplicates(records) = Len(records)
  BY <1>1, KeysAndDuplicates, CountsOfRecords DEF records, kept
<1>5. Spans(Instruments(kept), ToSet(kept))
  BY <1>3, InstrumentsAreSpans
<1> QED
  BY <1>1, <1>3, <1>4, <1>5 DEF records, kept

LEMMA RecordParts ==
  ASSUME NEW x \in Record
  PROVE  /\ PartitionOf(x) \in Markets \X Months
         /\ InstrumentOf(x) \in Papers \X Assets \X Segments
<1>1. /\ x.market \in Markets /\ x.date \in Dates
      /\ x.paper \in Papers /\ x.asset \in Assets /\ x.segment \in Segments
  BY DEF Record
<1>2. MonthOf(x.date) \in Months
  BY <1>1 DEF MonthOf, Months
<1> HIDE DEF Assets, Segments, Markets, Months
<1> QED
  BY <1>1, <1>2 DEF PartitionOf, InstrumentOf

LEMMA PartitionType ==
  ASSUME TInv, Counters, NEW q \in asked, Accepted(q)
  PROVE  Partitions(memory[q]) \subseteq Markets \X Months
<1>1. \A x \in ToSet(memory[q].kept) : x \in Record
  BY RowFacts DEF ToSet
<1>2. \A x \in ToSet(memory[q].kept) : PartitionOf(x) \in Markets \X Months
  BY <1>1, RecordParts
<1> QED
  BY <1>2 DEF Partitions

LEMMA ObjectType ==
  ASSUME TInv, Counters, NEW q \in asked, Accepted(q), NEW name, NEW object, Writes(q, name, object)
  PROVE  WellTyped(name, object)
<1> DEFINE data == memory[q]
<1>1. /\ data.records \in Seq(Record) /\ data.kept \in Seq(Record)
      /\ ToSet(data.kept) = Best(q) /\ IsFiniteSet(Best(q)) /\ Spans(data.instruments, Best(q))
      /\ data.dups \in Nat
  BY RowFacts DEF Sound
<1>2. \A x \in Best(q) : x \in Record
  BY <1>1 DEF ToSet
<1> HIDE DEF data
<1>3. CASE name = RawName(q) /\ object = text
  BY <1>3, Names DEF WellTyped
<1>4. CASE name = MetaName(q) /\ object = [source |-> Len(data.records)]
  <2>1. object.source \in Nat /\ name[1] = "meta"
    BY <1>1, <1>4, Names
  <2> QED
    BY <2>1 DEF WellTyped
<1>5. ASSUME NEW p \in Partitions(data), name = QuotesName(q, p), object = Members(data.kept, p)
      PROVE  WellTyped(name, object)
  <2>1. object # {} /\ \A x \in object : x \in Record
    BY <1>1, <1>2, <1>5 DEF Members, Partitions
  <2>2. name[1] = "quotes"
    BY <1>5, Names
  <2> QED
    BY <2>1, <2>2 DEF WellTyped
<1>6. CASE name = InstrumentsName(q) /\ object = data.instruments
  <2>1. \A i \in DOMAIN object : object[i] \in Span
    BY <1>1, <1>6 DEF Spans
  <2>2. DOMAIN object \subseteq Papers \X Assets \X Segments
    BY <1>1, <1>2, <1>6, RecordParts DEF Spans
  <2>3. name[1] = "instruments"
    BY <1>6, Names
  <2> QED
    BY <2>1, <2>2, <2>3 DEF WellTyped
<1>7. CASE name = ManifestName(q) /\ object = Manifest(data)
  <2>1. DOMAIN object.rows \subseteq Markets \X Months
    <3>1. object.rows = [p \in Partitions(data) |-> Cardinality(Members(data.kept, p))]
      BY <1>7 DEF Manifest
    <3> QED
      BY <3>1, PartitionType DEF data
  <2>2. Cardinality(DOMAIN data.instruments) \in Nat
    <3> DEFINE T == DOMAIN data.instruments
               f == [x \in Best(q) |-> InstrumentOf(x)]
    <3>1. f \in Surjection(Best(q), T)
      BY <1>1 DEF Spans, Surjection
    <3> HIDE DEF f, T
    <3>2. IsFiniteSet(T)
      BY <1>1, <3>1, FS_Surjection
    <3> QED
      BY <3>2, FS_CardinalityType DEF T
  <2>3. /\ object.source = Len(data.records) /\ object.kept = Len(data.kept)
        /\ object.dups = data.dups /\ object.instruments = Cardinality(DOMAIN data.instruments)
    BY <1>7 DEF Manifest
  <2>4. {object.source, object.kept, object.dups, object.instruments} \subseteq Nat
    BY <1>1, <2>2, <2>3
  <2>5. name[1] = "manifest"
    BY <1>7, Names
  <2> QED
    BY <2>1, <2>4, <2>5 DEF WellTyped
<1> QED
  BY <1>3, <1>4, <1>5, <1>6, <1>7 DEF Writes, data

\* Every variable and every stored object has its type: the records of a file
\* that the validator accepts are complete, and so is what is made of them.
THEOREM TypeCorrect == Spec => []TypeOK
<1>1. TInv /\ RInv => TypeOK
  <2> SUFFICES ASSUME TInv, RInv
               PROVE  TypeOK
    OBVIOUS
  <2>1. Counters /\ Written /\ \A w \in Sessions : Holding(w)
    BY DEF RInv
  <2>2. \A name \in DOMAIN lake : WellTyped(name, lake[name])
    BY <2>1, ObjectType DEF Written
  <2>3. ASSUME NEW r \in asked, Accepted(r)
        PROVE  \A x \in ToSet(memory[r].kept) : x \in Record
    BY <2>1, <2>3, RowFacts DEF ToSet
  <2>4. ASSUME NEW w \in Sessions
        PROVE  todo[w] \subseteq Markets \X Months
    <3>1. CASE pc[w] = "quotes"
      <4>1. /\ serves[w] \in asked /\ Accepted(serves[w])
            /\ todo[w] \subseteq Partitions(memory[serves[w]])
        BY <2>1, <3>1 DEF TInv, Holding, Data
      <4> QED
        BY <2>1, <4>1, PartitionType
    <3>2. CASE pc[w] # "quotes"
      BY <2>1, <3>2 DEF Holding
    <3> QED
      BY <3>1, <3>2
  <2>5. /\ pc \in [Sessions -> {"idle", "parse", "raw", "meta", "quotes", "instruments", "manifest"}]
        /\ serves \in [Sessions -> asked \cup {None}]
    BY DEF TInv, Phases
  <2> QED
    BY <2>1, <2>2, <2>3, <2>4, <2>5 DEF TypeOK, Counters
<1> QED
  BY <1>1, RowsHold, PTL

\* What is stored under a name was written by a request that shares it.
LEMMA StoredBy ==
  ASSUME Written, NEW r \in asked
  PROVE  /\ \A name \in Stored(r) : \E q \in Sharing(r) :
               /\ q \in asked /\ Accepted(q)
               /\ \E p \in Partitions(memory[q]) : name[2] = p /\ lake[name] = Members(memory[q].kept, p)
         /\ Has(InstrumentsName(r)) => \E q \in Sharing(r) :
               q \in asked /\ Accepted(q) /\ lake[InstrumentsName(r)] = memory[q].instruments
         /\ Has(ManifestName(r)) => \E q \in Sharing(r) :
               q \in asked /\ Accepted(q) /\ lake[ManifestName(r)] = Manifest(memory[q])
<1>1. ASSUME NEW name \in Stored(r)
      PROVE  \E q \in Sharing(r) :
               /\ q \in asked /\ Accepted(q)
               /\ \E p \in Partitions(memory[q]) : name[2] = p /\ lake[name] = Members(memory[q].kept, p)
  <2>1. name \in DOMAIN lake /\ name[1] = "quotes" /\ name[3] = IdOf(r)
    BY DEF Stored
  <2>2. PICK q \in asked : Accepted(q) /\ Writes(q, name, lake[name])
    BY <2>1 DEF Written
  <2>3. PICK p \in Partitions(memory[q]) : name = QuotesName(q, p) /\ lake[name] = Members(memory[q].kept, p)
    BY <2>1, <2>2, Names DEF Writes
  <2>4. IdOf(q) = IdOf(r) /\ name[2] = p
    BY <2>1, <2>3, Names
  <2> QED
    BY <2>2, <2>3, <2>4 DEF Sharing
<1>2. ASSUME Has(InstrumentsName(r))
      PROVE  \E q \in Sharing(r) :
                q \in asked /\ Accepted(q) /\ lake[InstrumentsName(r)] = memory[q].instruments
  <2> DEFINE name == InstrumentsName(r)
  <2>1. name[1] = "instruments"
    BY Names
  <2>2. PICK q \in asked : Accepted(q) /\ Writes(q, name, lake[name])
    BY <1>2 DEF Written, Has
  <2>3. name = InstrumentsName(q) /\ lake[name] = memory[q].instruments
    <3> HIDE DEF name
    <3> QED
      BY <2>1, <2>2, Names DEF Writes
  <2>4. IdOf(q) = IdOf(r)
    BY <2>3, Names
  <2> QED
    BY <2>2, <2>3, <2>4 DEF Sharing
<1>3. ASSUME Has(ManifestName(r))
      PROVE  \E q \in Sharing(r) :
                q \in asked /\ Accepted(q) /\ lake[ManifestName(r)] = Manifest(memory[q])
  <2> DEFINE name == ManifestName(r)
  <2>1. name[1] = "manifest"
    BY Names
  <2>2. PICK q \in asked : Accepted(q) /\ Writes(q, name, lake[name])
    BY <1>3 DEF Written, Has
  <2>3. name = ManifestName(q) /\ lake[name] = Manifest(memory[q])
    <3> HIDE DEF name
    <3> QED
      BY <2>1, <2>2, Names DEF Writes
  <2>4. IdOf(q) = IdOf(r)
    BY <2>3, Names
  <2> QED
    BY <2>2, <2>3, <2>4 DEF Sharing
<1> QED
  BY <1>1, <1>2, <1>3

\* A stored partition has the best records of its market and month and no
\* others: the pass of deduplicate keeps the record that the rule of the
\* documentation picks, whatever the file.
THEOREM BestIsStored == Spec => []BestIsKept
<1>1. TInv /\ RInv => BestIsKept
  <2> SUFFICES ASSUME TInv, RInv, NEW r \in asked, NEW name \in Stored(r)
               PROVE  \E q \in Sharing(r) :
                         /\ Accepted(q)
                         /\ lake[name] = {x \in Best(q) : <<x.market, x.date \div 100>> = name[2]}
    BY DEF BestIsKept
  <2>1. Counters /\ Written
    BY DEF RInv
  <2>2. PICK q \in Sharing(r) :
           /\ q \in asked /\ Accepted(q)
           /\ \E p \in Partitions(memory[q]) : name[2] = p /\ lake[name] = Members(memory[q].kept, p)
    BY <2>1, StoredBy
  <2>3. ToSet(memory[q].kept) = Best(q)
    BY <2>1, <2>2, RowFacts
  <2>4. Members(memory[q].kept, name[2]) = {x \in Best(q) : PartitionOf(x) = name[2]}
    BY <2>3 DEF Members
  <2>5. \A x : PartitionOf(x) = <<x.market, x.date \div 100>>
    BY DEF PartitionOf, MonthOf
  <2>6. lake[name] = {x \in Best(q) : <<x.market, x.date \div 100>> = name[2]}
    BY <2>2, <2>4, <2>5
  <2> QED
    BY <2>2, <2>6
<1> QED
  BY <1>1, RowsHold, PTL

\* The stored instruments span the dates of the best records, each of them.
THEOREM SpansAreStored == Spec => []InstrumentsSpan
<1>1. TInv /\ RInv => InstrumentsSpan
  <2> SUFFICES ASSUME TInv, RInv, NEW r \in asked, Has(InstrumentsName(r))
               PROVE  LET table == lake[InstrumentsName(r)]
                      IN  \E q \in {q \in Sharing(r) : Accepted(q)} :
                LET quoted(i) == {x.date : x \in {y \in Best(q) : <<y.paper, y.asset, y.segment>> = i}}
                IN  /\ DOMAIN table = {<<x.paper, x.asset, x.segment>> : x \in Best(q)}
                    /\ \A i \in DOMAIN table :
                          /\ {table[i].first, table[i].last} \subseteq quoted(i)
                          /\ \A date \in quoted(i) : table[i].first <= date /\ date <= table[i].last
    BY DEF InstrumentsSpan
  <2> DEFINE table == lake[InstrumentsName(r)]
  <2>1. Counters /\ Written
    BY DEF RInv
  <2>2. PICK q \in Sharing(r) :
           q \in asked /\ Accepted(q) /\ table = memory[q].instruments
    BY <2>1, StoredBy
  <2>3. Spans(table, Best(q))
    BY <2>1, <2>2, RowFacts
  <2> DEFINE quoted(i) == {x.date : x \in {y \in Best(q) : <<y.paper, y.asset, y.segment>> = i}}
  <2> HIDE DEF table
  <2>4. \A x : InstrumentOf(x) = <<x.paper, x.asset, x.segment>>
    BY DEF InstrumentOf
  <2>5. DOMAIN table = {<<x.paper, x.asset, x.segment>> : x \in Best(q)}
    BY <2>3, <2>4 DEF Spans
  <2>6. ASSUME NEW i \in DOMAIN table
        PROVE  /\ {table[i].first, table[i].last} \subseteq quoted(i)
               /\ \A date \in quoted(i) : table[i].first <= date /\ date <= table[i].last
    <3>1. quoted(i) = {x.date : x \in {y \in Best(q) : InstrumentOf(y) = i}}
      BY <2>4
    <3> HIDE DEF quoted
    <3>2. \E x \in Best(q) : InstrumentOf(x) = i /\ x.date = table[i].first
      BY <2>3 DEF Spans
    <3>3. \E x \in Best(q) : InstrumentOf(x) = i /\ x.date = table[i].last
      BY <2>3 DEF Spans
    <3>4. \A x \in Best(q) : InstrumentOf(x) = i => table[i].first <= x.date /\ x.date <= table[i].last
      BY <2>3 DEF Spans
    <3> QED
      BY <3>1, <3>2, <3>3, <3>4
  <2> HIDE DEF quoted
  <2>7. q \in {s \in Sharing(r) : Accepted(s)}
    BY <2>2
  <2> QED
    BY <2>5, <2>6, <2>7 DEF table, quoted
<1> QED
  BY <1>1, RowsHold, PTL

\* The counts of a manifest add up to the records of the file.
THEOREM CountsAreRight == Spec => []CountsAddUp
<1>1. TInv /\ RInv => CountsAddUp
  <2> SUFFICES ASSUME TInv, RInv, NEW r \in asked, Has(ManifestName(r))
               PROVE  LET m == lake[ManifestName(r)]
                      IN  MapThenSumSet(LAMBDA p : m.rows[p], DOMAIN m.rows) + m.dups = m.source
    BY Zenon DEF CountsAddUp
  <2> DEFINE m == lake[ManifestName(r)]
  <2>1. Counters /\ Written
    BY DEF RInv
  <2>2. PICK q \in Sharing(r) : q \in asked /\ Accepted(q) /\ m = Manifest(memory[q])
    BY <2>1, StoredBy
  <2> DEFINE S == ToSet(memory[q].kept)
  <2> HIDE DEF m
  <2>3. /\ IsFiniteSet(S) /\ Cardinality(S) = Len(memory[q].kept)
        /\ Len(memory[q].kept) + memory[q].dups = Len(memory[q].records)
    BY <2>1, <2>2, RowFacts
  <2>4. /\ m.rows = [p \in {PartitionOf(x) : x \in S} |-> Cardinality({x \in S : PartitionOf(x) = p})]
        /\ m.dups = memory[q].dups /\ m.source = Len(memory[q].records)
    BY <2>2 DEF Manifest, Partitions, Members
  <2>5. MapThenSumSet(LAMBDA p : m.rows[p], DOMAIN m.rows) = Cardinality(S)
    <3> HIDE DEF S
    <3> QED
      BY <2>3, <2>4, PartsAddUp, Zenon
  <2> HIDE DEF S
  <2>6. Cardinality(S) + m.dups = m.source
    BY <2>3, <2>4
  <2>7. MapThenSumSet(LAMBDA p : m.rows[p], DOMAIN m.rows) + m.dups = m.source
    BY <2>5, <2>6, Zenon
  <2> QED
    BY <2>7, Zenon DEF m
<1> QED
  BY <1>1, RowsHold, PTL
=============================================================================
