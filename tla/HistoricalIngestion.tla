------------------------- MODULE HistoricalIngestion -------------------------
(***************************************************************************)
(* HistoricalB3IngestionService.ingest_bytes: a source file is parsed,     *)
(* validated, enriched, deduplicated and written to the lake as bronze     *)
(* objects (the file and its metadata), silver objects (quotes by          *)
(* partition, then instruments) and, last, a manifest.  Every object name  *)
(* is a function of the request and the file, so a second call of the same *)
(* request (a redelivery, a CLI run, a retry after a crash) writes over    *)
(* the objects of the first.                                               *)
(*                                                                         *)
(* The lake is the object store (R2): each put is atomic and nothing is    *)
(* ever deleted.                                                           *)
(***************************************************************************)
EXTENDS Integers, Sequences, FiniteSets, SequencesExt, TLC

CONSTANTS
    Sessions,      \* concurrent ingestions, over the service and the CLI
    Cotahist,      \* the source files in the COTAHIST format; others are CSV.
                   \*   A file stands for its name and checksum
    Dates,         \* numbers yyyymmdd, of which MonthOf and YearOf take a part
    Papers,        \* numbers, standing for the tickers in sort order, each with
                   \*   its isin
    Liquidity,     \* values of trade_count and of trade_volume
    Requests,      \* [file, day, ref]: source file, processing_date and
                   \*   reference_date, which may be None
    Plans,         \* [asked, contents]: requests for one file that are made
                   \*   together, and what the file may hold
    None,
    MaxAttempts,   \* bound on the calls made for a request
    MaxFaults      \* bound on crashes and failed puts

\* The market types in their sort order, by which lines name them; "market_"
\* is one without a name in the table of the enricher.
MarketTypes == <<"auction", "call_option", "debt", "exercise_call", "exercise_put", "fractional",
                 "future", "market_", "put_option", "spot", "term">>

Markets == DOMAIN MarketTypes

\* What specification code, name and ticker say of an asset: the first test of
\* _infer_asset_type that they pass.
Specifications == {"etf", "fund", "bdr", "unit", "equity", "none"}

\* A line of a COTAHIST file may be another record than a quote; valid says
\* whether the record passes the validator.
Line == [quote : BOOLEAN, date : Dates \cup {None}, market : Markets, paper : Papers,
         spec : Specifications, bdi : {"02", "other"},
         trades : Liquidity, volume : Liquidity, valid : BOOLEAN]

ASSUME HistoricalIngestionAssumption ==
    /\ Dates \subseteq Nat
    /\ Papers \subseteq Nat
    /\ Liquidity \subseteq Int
    /\ None \notin Dates
    /\ \A r \in Requests : r.ref \in Dates \cup {None}
    /\ \A plan \in Plans :
          /\ plan.asked \subseteq Requests
          /\ \A q, r \in plan.asked : q.file = r.file
          /\ \A c \in plan.contents : c \in Seq(Line)
    /\ MaxAttempts \in Nat
    /\ MaxFaults \in Nat

VARIABLES
    asked,     \* the requests made in this behaviour, and
    text,      \*   the content of their file; neither ever changes, and so
    memory,    \*   does not what ingest_bytes makes of the file for each request
    lake,      \* the stored objects: a function from names
    pc,        \* what each session does next
    serves,    \* the request of each session
    todo,      \* the partitions each session still has to write
    attempts,  \* calls made for each request
    done,      \* requests whose caller got the result
    faults     \* faults so far

inputs == <<asked, text, memory>>
vars == <<inputs, lake, pc, serves, todo, attempts, done, faults>>

-----------------------------------------------------------------------------
(* From a file to its rows.                                                *)

ShiftedMonth(d) == (d \div 100) + 1

\* The year and month of a date, and its year.
MonthOf(d) == d \div 100
YearOf(d)  == d \div 10000

Months == {d \div 100 : d \in Dates}

\* _infer_asset_type: derivatives by their market, the others by what they are
\* called.
AssetType(line) ==
    LET market == MarketTypes[line.market]
    IN  CASE market \in {"call_option", "put_option", "exercise_call", "exercise_put"} -> "option"
          [] market = "future" -> "future"
          [] market \notin {"call_option", "put_option", "exercise_call", "exercise_put", "future"}
             /\ line.spec # "none" -> line.spec
          [] line.spec = "none" /\ market = "debt" -> "debt"
          [] OTHER -> "other"

\* _infer_segment.
Segment(line, asset) ==
    CASE MarketTypes[line.market] = "fractional" -> "fractional"
      [] MarketTypes[line.market] # "fractional" /\ asset \in {"option", "future"} -> "derivatives"
      [] MarketTypes[line.market] # "fractional" /\ asset \in {"fund", "etf"} -> "funds"
      [] MarketTypes[line.market] # "fractional" /\ asset \in {"bdr", "debt"} -> asset
      [] OTHER -> IF line.bdi = "02" THEN "cash_equities" ELSE "other"

\* The date of a line, None if the parser finds none: a line of a CSV file
\* without a date takes the reference_date of the request.
DateOf(line, r) ==
    IF line.date = None /\ r.file \notin Cotahist THEN r.ref ELSE line.date

\* enrich: a record with its line number and what the enricher infers.
Enrich(line, date, n) ==
    [quote |-> line.quote, date |-> date, market |-> line.market, paper |-> line.paper,
     asset |-> AssetType(line), segment |-> Segment(line, AssetType(line)),
     trades |-> line.trades, volume |-> line.volume, valid |-> line.valid, line |-> n]

\* The enriched records of the file, line by line; COTAHIST lines that are no
\* quotes are passed over.
Parse(content, r) ==
    LET read(records, n) ==
            IF content[n].quote \/ r.file \notin Cotahist
            THEN Append(records, Enrich(content[n], DateOf(content[n], r), n))
            ELSE records
    IN  FoldLeftDomain(read, <<>>, content)

\* What stops a request before anything is written: no record, a record without
\* a date, or one that breaks a rule of the validator.
Refused(records) == records = <<>> \/ \E x \in ToSet(records) : ~ x.valid \/ x.date = None

\* _infer_reference_date: the earliest date of the file.
ReferenceDate(records, r) ==
    LET dates == {x.date : x \in ToSet(records)}
    IN  IF r.ref # None THEN r.ref ELSE CHOOSE d \in dates : \A e \in dates : d <= e

KeyOf(record) == <<record.date, record.market, record.paper>>

PreferVolume(candidate, current) ==
    \/ candidate.volume > current.volume
    \/ candidate.volume = current.volume /\ candidate.trades > current.trades

\* _is_preferred: trade_count, then trade_volume, then the later line.
Preferred(candidate, current) ==
    \/ candidate.trades > current.trades
    \/ /\ candidate.trades = current.trades
       /\ \/ candidate.volume > current.volume
          \/ candidate.volume = current.volume /\ candidate.line > current.line

\* deduplicate: one pass over the records, which keeps one for each key.
Take(best, record) ==
    [best EXCEPT ![KeyOf(record)] = IF @ = None \/ Preferred(record, @) THEN record ELSE @]

Deduplicate(records) ==
    FoldLeft(Take, [k \in {KeyOf(x) : x \in ToSet(records)} |-> None], records)

\* The sort of deduplicate, by date, then market, then paper.
Precedes(a, b) ==
    \/ a.date < b.date
    \/ a.date = b.date /\ a.market < b.market
    \/ a.date = b.date /\ a.market = b.market /\ a.paper < b.paper

\* What deduplicate returns: the kept records in that order, which has each of
\* them once as no record comes before itself.
Kept(records) ==
    LET best == Deduplicate(records)
        rows == {best[k] : k \in DOMAIN best}
    IN  CHOOSE s \in [1 .. Cardinality(rows) -> rows] :
            \A j \in DOMAIN s : \A i \in 1 .. j - 1 : Precedes(s[i], s[j])

\* duplicate_count: the records whose key was met before.
Duplicates(records) ==
    Cardinality({n \in DOMAIN records : \E m \in 1 .. n - 1 : KeyOf(records[m]) = KeyOf(records[n])})

\* The group of a quote; the groups are written in the order of their first
\* records.
PartitionOf(record) == <<record.market, MonthOf(record.date)>>

MembersByMarket(kept, p) == {record \in ToSet(kept) : PartitionOf(record)[1] = p[1]}

Members(kept, p) == {record \in ToSet(kept) : PartitionOf(record) = p}

FirstPartition(kept, ps) ==
    LET n == CHOOSE i \in 1 .. Len(kept) :
                /\ PartitionOf(kept[i]) \in ps
                /\ \A j \in 1 .. i - 1 : PartitionOf(kept[j]) \notin ps
    IN  PartitionOf(kept[n])

KeepDates(row, record) == row

\* build_instrument_rows: the first record of an instrument makes its row, the
\* dates of which the later ones widen.
Extend(row, record) ==
    [row EXCEPT !.first = IF record.date < @ THEN record.date ELSE @,
                !.last  = IF record.date > @ THEN record.date ELSE @]

InstrumentOf(record) == <<record.paper, record.asset, record.segment>>

Register(table, record) ==
    [table EXCEPT ![InstrumentOf(record)] =
        IF @ = None THEN [market |-> record.market, first |-> record.date, last |-> record.date]
        ELSE Extend(@, record)]

Instruments(kept) ==
    FoldLeft(Register, [i \in {InstrumentOf(x) : x \in ToSet(kept)} |-> None], kept)

\* The bronze objects are named by the reference date, of a COTAHIST file by
\* its year.
BronzeDate(records, r) ==
    IF r.file \in Cotahist THEN YearOf(ReferenceDate(records, r)) ELSE ReferenceDate(records, r)

\* What ingest_bytes has in memory before its first write, None if it refuses the
\* file before.
RowsOf(content, r) ==
    LET records == Parse(content, r)
        kept == Kept(records)
    IN  IF Refused(records) THEN None
        ELSE [records |-> records, kept |-> kept, dups |-> Duplicates(records),
              instruments |-> Instruments(kept), bronze |-> BronzeDate(records, r)]

Accepted(r) == memory[r] # None

-----------------------------------------------------------------------------
(* Object names.                                                           *)

\* ingestion_id: the hash of dataset type, processing date, file name and
\* checksum; the reference date is not part of it.
IdOf(r) == <<r.file, r.day>>

RawName(r)         == <<"raw", memory[r].bronze, r.day, r.file>>
MetaName(r)        == <<"meta", memory[r].bronze, IdOf(r)>>
QuotesName(r, p)   == <<"quotes", p, IdOf(r)>>
InstrumentsName(r) == <<"instruments", IdOf(r)>>
ManifestName(r)    == <<"manifest", IdOf(r)>>

Has(name) == name \in DOMAIN lake

Partitions(data) == {PartitionOf(record) : record \in ToSet(data.kept)}

Manifest(data) ==
    [source |-> Len(data.records), kept |-> Len(data.kept), dups |-> data.dups,
     instruments |-> Cardinality(DOMAIN data.instruments),
     rows |-> [p \in Partitions(data) |-> Cardinality(Members(data.kept, p))]]

Init ==
    /\ \E plan \in Plans : asked = plan.asked /\ text \in plan.contents
    /\ memory = [r \in asked |-> RowsOf(text, r)]
    /\ lake = <<>>
    /\ pc = [w \in Sessions |-> "idle"]
    /\ serves = [w \in Sessions |-> None]
    /\ todo = [w \in Sessions |-> {}]
    /\ attempts = [r \in Requests |-> 0]
    /\ done = {}
    /\ faults = 0

-----------------------------------------------------------------------------
(* One ingestion.                                                          *)

Goto(w, phase) == pc' = [pc EXCEPT ![w] = phase]

\* What a session has in memory.
Data(w) == memory[serves[w]]

\* A call of the request by the command line or a job route; the attempts cover
\* redeliveries, other callers and overlapping calls.
Begin(w, r) ==
    /\ pc[w] = "idle"
    /\ r \in asked
    /\ attempts[r] < MaxAttempts
    /\ attempts' = [attempts EXCEPT ![r] = @ + 1]
    /\ Goto(w, "parse")
    /\ serves' = [serves EXCEPT ![w] = r]
    /\ UNCHANGED <<inputs, lake, todo, done, faults>>

\* The file is parsed, checked and deduplicated, all of it in memory; a file
\* that is not accepted raises.
Prepare(w) ==
    /\ pc[w] = "parse"
    /\ \/ /\ Accepted(serves[w])
          /\ Goto(w, "raw")
          /\ UNCHANGED serves
       \/ /\ ~ Accepted(serves[w])
          /\ Goto(w, "idle")
          /\ serves' = [serves EXCEPT ![w] = None]
    /\ UNCHANGED <<inputs, lake, todo, attempts, done, faults>>

PutIfAbsent(name, content) ==
    /\ ~ Has(name)
    /\ lake' = [n \in DOMAIN lake \cup {name} |-> IF n = name THEN content ELSE lake[n]]

\* put_object replaces what is there.
Put(name, content) ==
    lake' = [n \in DOMAIN lake \cup {name} |-> IF n = name THEN content ELSE lake[n]]

StoreRawOrSkip(w) ==
    /\ pc[w] = "raw"
    /\ \/ Put(RawName(serves[w]), text)
       \/ UNCHANGED lake
    /\ Goto(w, "meta")
    /\ UNCHANGED <<inputs, serves, todo, attempts, done, faults>>

StoreRaw(w) ==
    /\ pc[w] = "raw"
    /\ Put(RawName(serves[w]), text)
    /\ Goto(w, "meta")
    /\ UNCHANGED <<inputs, serves, todo, attempts, done, faults>>

StoreMetadata(w) ==
    /\ pc[w] = "meta"
    /\ Put(MetaName(serves[w]), [source |-> Len(Data(w).records)])
    /\ todo' = [todo EXCEPT ![w] = Partitions(Data(w))]
    /\ Goto(w, "quotes")
    /\ UNCHANGED <<inputs, serves, attempts, done, faults>>

StoreOnePartition(w) ==
    /\ pc[w] = "quotes"
    /\ \E p \in todo[w] :
          /\ p = FirstPartition(Data(w).kept, todo[w])
          /\ Put(QuotesName(serves[w], p), Members(Data(w).kept, p))
    /\ todo' = [todo EXCEPT ![w] = {}]
    /\ Goto(w, "instruments")
    /\ UNCHANGED <<inputs, serves, attempts, done, faults>>

\* The next partition, in the order of the sorted records.
StoreQuotes(w) ==
    /\ pc[w] = "quotes"
    /\ \E p \in todo[w] :
          /\ p = FirstPartition(Data(w).kept, todo[w])
          /\ Put(QuotesName(serves[w], p), Members(Data(w).kept, p))
          /\ todo' = [todo EXCEPT ![w] = @ \ {p}]
          /\ Goto(w, IF todo[w] = {p} THEN "instruments" ELSE "quotes")
    /\ UNCHANGED <<inputs, serves, attempts, done, faults>>

StoreInstruments(w) ==
    /\ pc[w] = "instruments"
    /\ Put(InstrumentsName(serves[w]), Data(w).instruments)
    /\ Goto(w, "manifest")
    /\ UNCHANGED <<inputs, serves, todo, attempts, done, faults>>

\* The manifest, and the result for the caller.
StoreManifest(w) ==
    /\ pc[w] = "manifest"
    /\ Put(ManifestName(serves[w]), Manifest(Data(w)))
    /\ done' = done \cup {serves[w]}
    /\ Goto(w, "idle")
    /\ serves' = [serves EXCEPT ![w] = None]
    /\ UNCHANGED <<inputs, todo, attempts, faults>>

\* A put still fails after its retries, or the process dies.
Fail(w) ==
    /\ pc[w] # "idle"
    /\ faults < MaxFaults
    /\ faults' = faults + 1
    /\ Goto(w, "idle")
    /\ serves' = [serves EXCEPT ![w] = None]
    /\ todo' = [todo EXCEPT ![w] = {}]
    /\ UNCHANGED <<inputs, lake, attempts, done>>

Step(w) ==
    \/ Prepare(w) \/ StoreRaw(w) \/ StoreMetadata(w)
    \/ StoreQuotes(w) \/ StoreInstruments(w) \/ StoreManifest(w)

Next ==
    \/ \E w \in Sessions, r \in Requests : Begin(w, r)
    \/ \E w \in Sessions : Step(w) \/ Fail(w)

Spec == Init /\ [][Next]_vars

\* A call goes on until it ends, and as long as a caller is without a result,
\* some such caller calls again.
Fairness ==
    /\ \A w \in Sessions : WF_vars(Step(w))
    /\ WF_vars(\E w \in Sessions : \E r \in asked \ done : Begin(w, r))

FairSpec == Spec /\ Fairness

-----------------------------------------------------------------------------
(* Properties.                                                             *)

Assets == (Specifications \ {"none"}) \cup {"option", "future", "debt", "other"}
Segments == {"fractional", "derivatives", "funds", "bdr", "debt", "cash_equities", "other"}

Record == [quote : BOOLEAN, date : Dates, market : Markets, paper : Papers,
           asset : Assets, segment : Segments, trades : Liquidity, volume : Liquidity,
           valid : {TRUE}, line : Nat]

Span == [market : Markets, first : Dates, last : Dates]

\* The passes over the records know a key or an instrument by whether it has one.
ASSUME NoRecordAssumption == None \notin Record /\ None \notin Span

\* The type of the object of a name.
WellTyped(name, object) ==
    /\ name[1] \in {"raw", "meta", "quotes", "instruments", "manifest"}
    /\ name[1] = "raw" => object = text
    /\ name[1] = "meta" => object.source \in Nat
    /\ name[1] = "quotes" => object # {} /\ \A record \in object : record \in Record
    /\ name[1] = "instruments" =>
            /\ DOMAIN object \subseteq Papers \X Assets \X Segments
            /\ \A i \in DOMAIN object : object[i] \in Span
    /\ name[1] = "manifest" =>
            /\ DOMAIN object.rows \subseteq Markets \X Months
            /\ {object.source, object.kept, object.dups, object.instruments} \subseteq Nat

\* Every variable has its type, and every stored object that of its name.
TypeOK ==
    /\ asked \subseteq Requests
    /\ text \in Seq(Line)
    /\ \A name \in DOMAIN lake : WellTyped(name, lake[name])
    /\ pc \in [Sessions -> {"idle", "parse", "raw", "meta", "quotes", "instruments", "manifest"}]
    /\ serves \in [Sessions -> asked \cup {None}]
    /\ \A r \in asked : Accepted(r) => \A x \in ToSet(memory[r].kept) : x \in Record
    /\ \A w \in Sessions : todo[w] \subseteq Markets \X Months
    /\ attempts \in [Requests -> 0 .. MaxAttempts]
    /\ done \subseteq asked
    /\ faults \in 0 .. MaxFaults

\* The requests that write the silver objects and the manifest of r: its own
\* repetitions, and those that differ in their reference_date.
Sharing(r) == {q \in asked : IdOf(q) = IdOf(r)}

\* They read the same records, as they do if the file has a date in every line.
Undisputed(r) ==
    \A q \in Sharing(r) : Accepted(q) /\ memory[q].records = memory[r].records

Stored(r) == {name \in DOMAIN lake : name[1] = "quotes" /\ name[3] = IdOf(r)}

\* A manifest tells the truth about the lake at every moment, while other calls
\* of the request, or of one with another reference date for a file that dates
\* its lines, fail half-way or write over its objects: what it names is there
\* with the row counts it gives, and the silver layer has no object of this
\* ingestion that the manifest does not name.
ManifestIsTrue ==
    \A r \in asked : Has(ManifestName(r)) /\ Undisputed(r) =>
        LET m == lake[ManifestName(r)]
        IN  /\ Stored(r) = {QuotesName(r, p) : p \in DOMAIN m.rows}
            /\ \A p \in DOMAIN m.rows : Cardinality(lake[QuotesName(r, p)]) = m.rows[p]
            /\ Has(InstrumentsName(r))
            /\ Cardinality(DOMAIN lake[InstrumentsName(r)]) = m.instruments

\* The counts of a manifest add up: each record of the file is in one partition
\* or was dropped as a duplicate, whatever the order, markets and months of its
\* lines.
CountsAddUp ==
    \A r \in asked : Has(ManifestName(r)) =>
        LET m == lake[ManifestName(r)]
        IN  MapThenSumSet(LAMBDA p : m.rows[p], DOMAIN m.rows) + m.dups = m.source

\* The silver layer is rebuilt from bronze: a quotes or instruments object, even
\* one left by a call that failed, has the raw file and its metadata stored
\* under the date of a request that may have written it, and none comes from a
\* file the validator rejects.
SilverHasBronze ==
    \A r \in asked :
        Has(InstrumentsName(r)) \/ Stored(r) # {} =>
            \E q \in Sharing(r) : Accepted(q) /\ Has(RawName(q)) /\ Has(MetaName(q))

\* The rule of the documentation, without the pass over the file: of the lines
\* with one key the one that no other beats by trade_count, then trade_volume,
\* then line.
Beats(a, b) ==
    LET rank(x) == <<x.trades, x.volume, x.line>>
    IN  \E i \in 1 .. 3 : rank(a)[i] > rank(b)[i] /\ \A j \in 1 .. i - 1 : rank(a)[j] = rank(b)[j]

Best(r) ==
    LET lines == ToSet(memory[r].records)
    IN  {x \in lines : \A y \in lines : KeyOf(y) = KeyOf(x) => ~ Beats(y, x)}

\* A stored partition holds exactly the best lines of its market and month, as
\* one request reads them: where requests with different reference dates share
\* the object, it is that of one of them and never a mixture.
BestIsKept ==
    \A r \in asked : \A name \in Stored(r) :
        \E q \in Sharing(r) :
            Accepted(q) /\ lake[name] = {x \in Best(q) : <<x.market, x.date \div 100>> = name[2]}

\* The stored instruments are those of the best lines as one request reads them,
\* one for each paper with the asset type and segment inferred for it, with the
\* first and the last day it was quoted on, whatever the order of the file.
InstrumentsSpan ==
    \A r \in asked : Has(InstrumentsName(r)) =>
        LET table == lake[InstrumentsName(r)]
        IN  \E q \in {q \in Sharing(r) : Accepted(q)} :
                LET quoted(i) == {x.date : x \in {y \in Best(q) : <<y.paper, y.asset, y.segment>> = i}}
                IN  /\ DOMAIN table = {<<x.paper, x.asset, x.segment>> : x \in Best(q)}
                    /\ \A i \in DOMAIN table :
                          /\ {table[i].first, table[i].last} \subseteq quoted(i)
                          /\ \A date \in quoted(i) : table[i].first <= date /\ date <= table[i].last

\* A call that fails half-way leaves nothing behind that keeps a later call of
\* the request from completing: with fewer faults than attempts, every valid
\* file of a request ends up with its manifest and never loses it.
EventuallyIngested ==
    <>[](\A r \in asked : Accepted(r) => Has(ManifestName(r)))
=============================================================================
