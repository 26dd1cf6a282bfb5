--------------------------- MODULE AnalyticsMirror ---------------------------
(***************************************************************************)
(* AnalyticsMirrorService.mirror_dataset (services/analytics_mirror.py):   *)
(* runs copy the silver objects above a watermark to GCS, merge them into  *)
(* BigQuery, write a manifest and move the watermark.                      *)
(*                                                                         *)
(* Objects are named 1..NFiles in the order of their paths.  A run lists,  *)
(* reads and writes them one by one while producers keep writing silver    *)
(* objects and other runs of the same dataset go on; every step may raise, *)
(* and a host may die.  The watermark is a file of the host: two hosts do  *)
(* not share it, though they share the bucket, the tables and the control  *)
(* manifests.  All runs share one dataset and processing date; payloads    *)
(* may name different prefixes of the dataset.  A listing is taken as one  *)
(* atomic read of the store.                                               *)
(*                                                                         *)
(* What differs between installations, payloads and environments is a      *)
(* deployment, one of a given set, which is picked at the start and then   *)
(* stays.                                                                  *)
(***************************************************************************)
EXTENDS Naturals, FiniteSets

CONSTANTS
    NFiles,       \* the objects of the dataset are 1..NFiles
    Runs,         \* concurrent executions of the job, over all hosts
    Hosts,        \* service instances, each with its own disk
    Prefixes,     \* values of source_prefix: each a set of objects
    Deployments,  \* what is fixed while the system runs, see Deployment
    MaxWrites,    \* bound on silver writes
    MaxFaults     \* bound on exceptions and crashes

Files == 1 .. NFiles

Deployment ==
    [runs : SUBSET Runs,           \* the executions there are
     hostOf : [Runs -> Hosts],     \*   and where each of them executes
     prefixes : SUBSET Prefixes,   \* the prefixes that payloads name
     limits : SUBSET Nat,          \* values of limit_files; 0 stands for None
     byTime : BOOLEAN,             \* the listing: R2's by time, or local by path
     native : BOOLEAN,             \* does the strategy keep a native table?
     rowsOf : [Files -> Files],    \* objects of one source file hold the same rows
     keyless : SUBSET Files,       \* the source files with a NULL in a merge key
     ties : BOOLEAN,               \* may two objects have one last_modified?
     invalid : BOOLEAN,            \* may an object fail the validation?
     keepDisk : BOOLEAN,           \* does the watermark file survive a crash?
     writes : 0 .. MaxWrites]      \* silver writes in this deployment

ASSUME AnalyticsMirrorAssumption ==
    /\ NFiles \in Nat
    /\ MaxWrites \in Nat
    /\ MaxFaults \in Nat
    /\ Prefixes \subseteq SUBSET Files
    /\ \A d \in Deployments :
          /\ DOMAIN d = {"runs", "hostOf", "prefixes", "limits", "byTime", "native",
                         "rowsOf", "keyless", "ties", "invalid", "keepDisk", "writes"}
          /\ d.runs \subseteq Runs /\ d.hostOf \in [Runs -> Hosts]
          /\ d.prefixes \subseteq Prefixes /\ d.limits \subseteq Nat
          /\ d.rowsOf \in [Files -> Files] /\ d.keyless \subseteq Files
          /\ d.writes \in 0 .. MaxWrites
          /\ {d.byTime, d.native, d.ties, d.invalid, d.keepDisk} \subseteq BOOLEAN

VARIABLES
    deployment, \* the installation and its payloads
    now,        \* the store's clock
    writes,     \* silver writes so far; numbers the versions of the objects
    source,     \* each silver object: last_modified, version, passes validation
    wm,         \* the watermark in each host's analytics_state_dir
    readable,   \* does each host's watermark file parse?
    mirror,     \* the version in GCS of each object, 0 if none
    native,     \* the rows of the native table, see NoRow
    manifests,  \* lineage in each manifest; named by the prefix and the count
    prefix,     \* the source_prefix of each run's payload
    pc,         \* what each run does next
    mark,       \* the watermark each run started from
    queue,      \* the listed objects each run still has to mirror
    copied,     \* the lineage of each run: objects and versions mirrored
    last,       \* the last object each run mirrored
    bytes,      \* the version each run has read and not yet written
    faults      \* faults so far

storeVars == <<now, writes, source>>
hostVars  == <<wm, readable>>
cloudVars == <<mirror, native, manifests>>
runVars   == <<prefix, pc, mark, queue, copied, last, bytes>>
vars == <<deployment, storeVars, hostVars, cloudVars, runVars, faults>>

\* (last_modified, key), as listed and as kept in the watermark; no object has
\* the time 0, so NoMark is below all of them.
Stamp  == [at : 0 .. MaxWrites, key : 0 .. NFiles]
NoMark == [at |-> 0, key |-> 0]
Phases == {"idle", "list", "read", "write", "manifest", "mark"}

\* native[f] is the row inserted last from the object f: the object and the
\* version that it was last updated from, and how often f was inserted, where 2
\* stands for any number above 1.
Row   == [key : 0 .. NFiles, ver : 0 .. MaxWrites, copies : 0 .. 2]
NoRow == [key |-> 0, ver |-> 0, copies |-> 0]

Init ==
    /\ deployment \in Deployments
    /\ now = 0
    /\ writes = 0
    /\ source = [f \in Files |-> [at |-> 0, ver |-> 0, good |-> TRUE]]
    /\ wm = [h \in Hosts |-> NoMark]
    /\ readable = [h \in Hosts |-> TRUE]
    /\ mirror = [f \in Files |-> 0]
    /\ native = [f \in Files |-> NoRow]
    /\ manifests = [m \in Prefixes \X (0 .. NFiles) |-> {}]
    /\ prefix = [r \in Runs |-> {}]
    /\ pc = [r \in Runs |-> "idle"]
    /\ mark = [r \in Runs |-> NoMark]
    /\ queue = [r \in Runs |-> {}]
    /\ copied = [r \in Runs |-> {}]
    /\ last = [r \in Runs |-> NoMark]
    /\ bytes = [r \in Runs |-> 0]
    /\ faults = 0

-----------------------------------------------------------------------------
(* Listing and filtering.                                                  *)

\* The comparison of (last_modified, key) tuples.
Later(s, t) == s.at > t.at \/ (s.at = t.at /\ s.key > t.key)

Present == {f \in Files : source[f].ver > 0}
StampOf(f) == [at |-> source[f].at, key |-> f]

NewestFirst(s, t) == Later(s, t)

\* The order of the listing, which is also the order of the run.
Before(s, t) == IF deployment.byTime THEN Later(t, s) ELSE s.key < t.key

\* _list_source_objects and _filter_new_objects, before the limit.
NewObjects(p, m) == {s \in {StampOf(f) : f \in Present \cap p} : Later(s, m)}

\* filtered[:limit_files].
Batch(S, n) ==
    IF n = 0 THEN S ELSE {s \in S : Cardinality({t \in S : Before(t, s)}) < n}

Goto(r, phase) == pc' = [pc EXCEPT ![r] = phase]

\* The run R is over: it returns, raises, or dies with its host.
Over(R) ==
    /\ prefix' = [r \in Runs |-> IF r \in R THEN {} ELSE prefix[r]]
    /\ pc' = [r \in Runs |-> IF r \in R THEN "idle" ELSE pc[r]]
    /\ mark' = [r \in Runs |-> IF r \in R THEN NoMark ELSE mark[r]]
    /\ queue' = [r \in Runs |-> IF r \in R THEN {} ELSE queue[r]]
    /\ copied' = [r \in Runs |-> IF r \in R THEN {} ELSE copied[r]]
    /\ last' = [r \in Runs |-> IF r \in R THEN NoMark ELSE last[r]]
    /\ bytes' = [r \in Runs |-> IF r \in R THEN 0 ELSE bytes[r]]

-----------------------------------------------------------------------------
(* The producers of the silver objects.                                    *)

\* A silver object is written, or written again under the same key.
PutSource(f) ==
    /\ writes < deployment.writes
    /\ writes' = writes + 1
    /\ now' \in IF deployment.ties /\ now > 0 THEN {now, now + 1} ELSE {now + 1}
    /\ \E good \in BOOLEAN :
          /\ good \/ deployment.invalid
          /\ source' = [source EXCEPT ![f] = [at |-> now', ver |-> writes', good |-> good]]
    /\ UNCHANGED <<deployment, hostVars, cloudVars, runVars, faults>>

-----------------------------------------------------------------------------
(* The native table.                                                       *)

\* The objects that hold the same rows: the merge keys of both datasets name
\* what a row is about and the checksum of the source file, and the lake keeps
\* an object of that file for every processing date.
SameRows(f) == {g \in Files : deployment.rowsOf[g] = deployment.rowsOf[f]}

\* The quotes always have their merge keys; an instrument may have no isin.
HasKey(f) == deployment.rowsOf[f] \notin deployment.keyless

MatchedByObject(f) == HasKey(f) /\ native[f] # NoRow

\* Does the table hold the rows of f, from whichever object?  A NULL equals
\* nothing, so rows without a key match no row, their own included.
Matched(f) == HasKey(f) /\ \E g \in SameRows(f) : native[g] # NoRow

\* MERGE raises when two source rows match one row of the table.
Ambiguous(S) ==
    deployment.native /\ \E f \in S : Matched(f) /\ Cardinality(S \cap SameRows(f)) > 1

Inserted(f) ==
    [key |-> f, ver |-> mirror[f], copies |-> IF native[f].copies = 0 THEN 1 ELSE 2]

Updated(f, g) == [key |-> g, ver |-> mirror[g], copies |-> native[f].copies]

\* MERGE of the objects S, as GCS holds them by then: it reads them through the
\* external table.  Rows that match none are inserted, from each object that
\* holds them; matched rows are all updated.  EXTERNAL_ONLY, and AUTO for
\* other datasets than quotes, keep no native table.
Merged(S) ==
    [f \in Files |->
        LET new == IF deployment.native THEN S \cap SameRows(f) ELSE {}
        IN  CASE f \in new /\ ~ Matched(f) -> Inserted(f)
              [] HasKey(f) /\ native[f] # NoRow /\ new # {} -> Updated(f, CHOOSE g \in new : TRUE)
              [] OTHER -> native[f]]

-----------------------------------------------------------------------------
(* One run of the job.                                                     *)

\* _read_watermark: an unreadable file raises before anything is done.  The
\* file is named by the dataset, whatever the prefix of the payload.
Start(r, p) ==
    /\ r \in deployment.runs
    /\ p \in deployment.prefixes
    /\ pc[r] = "idle"
    /\ readable[deployment.hostOf[r]]
    /\ Goto(r, "list")
    /\ prefix' = [prefix EXCEPT ![r] = p]
    /\ mark' = [mark EXCEPT ![r] = wm[deployment.hostOf[r]]]
    /\ UNCHANGED <<deployment, storeVars, hostVars, cloudVars, queue, copied, last, bytes, faults>>

\* _list_source_objects and _filter_new_objects.
List(r) ==
    /\ pc[r] = "list"
    /\ Goto(r, "read")
    /\ \E n \in deployment.limits :
          queue' = [queue EXCEPT ![r] = Batch(NewObjects(prefix[r], mark[r]), n)]
    /\ UNCHANGED <<deployment, storeVars, hostVars, cloudVars, prefix, mark, copied, last, bytes, faults>>

\* The next object of the listing is read, as it is now, and validated: an
\* empty object or one without the required columns ends the run.
Read(r) ==
    /\ pc[r] = "read"
    /\ \E s \in queue[r] :
          /\ \A t \in queue[r] \ {s} : Before(s, t)
          /\ \/ /\ source[s.key].good
                /\ Goto(r, "write")
                /\ bytes' = [bytes EXCEPT ![r] = source[s.key].ver]
                /\ UNCHANGED <<prefix, mark, queue, copied, last>>
             \/ /\ ~ source[s.key].good
                /\ Over({r})
    /\ UNCHANGED <<deployment, storeVars, hostVars, cloudVars, faults>>

\* _write_to_gcs overwrites the object of the same relative key.
WriteToGcs(f, ver) == mirror' = [mirror EXCEPT ![f] = ver]

\* The copy, and the lineage entry with the listed last_modified and the checksum
\* of the bytes that were read.
Write(r) ==
    /\ pc[r] = "write"
    /\ Goto(r, "read")
    /\ \E s \in queue[r] :
          /\ \A t \in queue[r] \ {s} : Before(s, t)
          /\ WriteToGcs(s.key, bytes[r])
          /\ copied' = [copied EXCEPT ![r] = @ \cup {[key |-> s.key, ver |-> bytes[r]]}]
          /\ queue' = [queue EXCEPT ![r] = @ \ {s}]
          /\ last' = [last EXCEPT ![r] = s]
    /\ bytes' = [bytes EXCEPT ![r] = 0]
    /\ UNCHANGED <<deployment, storeVars, hostVars, native, manifests, prefix, mark, faults>>

Keys(lineage) == {e.key : e \in lineage}

PublishLastOnly(r) ==
    /\ pc[r] = "read"
    /\ queue[r] = {}
    /\ Goto(r, "manifest")
    /\ native' = Merged({last[r].key})
    /\ UNCHANGED <<deployment, storeVars, hostVars, mirror, manifests, prefix, mark, queue, copied, last, bytes, faults>>

\* _publish_bigquery_assets: the MERGE of what this run mirrored.
Publish(r) ==
    /\ pc[r] = "read"
    /\ queue[r] = {}
    /\ \/ /\ ~ Ambiguous(Keys(copied[r]))
          /\ native' = Merged(Keys(copied[r]))
          /\ Goto(r, "manifest")
          /\ UNCHANGED <<prefix, mark, queue, copied, last, bytes>>
       \/ /\ Ambiguous(Keys(copied[r]))
          /\ Over({r})
          /\ UNCHANGED native
    /\ UNCHANGED <<deployment, storeVars, hostVars, mirror, manifests, faults>>

\* _write_manifest: manifest_id hashes the dataset, the processing date, the
\* prefix and the number of objects.
WriteManifest(r) ==
    /\ pc[r] = "manifest"
    /\ Goto(r, "mark")
    /\ manifests' = [manifests EXCEPT ![<<prefix[r], Cardinality(Keys(copied[r]))>>] = copied[r]]
    /\ UNCHANGED <<deployment, storeVars, hostVars, mirror, native, prefix, mark, queue, copied, last, bytes, faults>>

KeepMarkWhenEmpty(r) ==
    /\ pc[r] = "mark"
    /\ wm' = [wm EXCEPT ![deployment.hostOf[r]] = IF copied[r] = {} THEN @ ELSE last[r]]
    /\ Over({r})
    /\ UNCHANGED <<deployment, storeVars, readable, cloudVars, faults>>

MarkNextInstant(r) ==
    /\ pc[r] = "mark"
    /\ wm' = [wm EXCEPT ![deployment.hostOf[r]] =
                  IF copied[r] = {} THEN NoMark ELSE [at |-> now + 1, key |-> NFiles]]
    /\ Over({r})
    /\ UNCHANGED <<deployment, storeVars, readable, cloudVars, faults>>

\* _write_watermark: the last mirrored object; nothing mirrored resets it.
\* The copy in GCS is never read, so a failing upload of it changes nothing.
WriteWatermark(r) ==
    /\ pc[r] = "mark"
    /\ wm' = [wm EXCEPT ![deployment.hostOf[r]] = last[r]]
    /\ Over({r})
    /\ UNCHANGED <<deployment, storeVars, readable, cloudVars, faults>>

-----------------------------------------------------------------------------
(* Faults.                                                                 *)

\* An upload, a download or a statement still fails after its retries.
Raise(r) ==
    /\ pc[r] # "idle"
    /\ faults < MaxFaults
    /\ faults' = faults + 1
    /\ Over({r})
    /\ UNCHANGED <<deployment, storeVars, hostVars, cloudVars>>

\* A host dies with its runs.  A container's disk goes with it; a kept disk
\* may hold a truncated watermark file if a run was writing it (write_text
\* truncates the file and then writes it).
Crash(h) ==
    /\ faults < MaxFaults
    /\ faults' = faults + 1
    /\ Over({r \in Runs : deployment.hostOf[r] = h})
    /\ \/ /\ ~ deployment.keepDisk
          /\ wm' = [wm EXCEPT ![h] = NoMark]
          /\ readable' = [readable EXCEPT ![h] = TRUE]
       \/ /\ deployment.keepDisk
          /\ UNCHANGED hostVars
       \/ /\ deployment.keepDisk
          /\ \E r \in Runs : deployment.hostOf[r] = h /\ pc[r] = "mark"
          /\ readable' = [readable EXCEPT ![h] = FALSE]
          /\ UNCHANGED wm
    /\ UNCHANGED <<deployment, storeVars, cloudVars>>

-----------------------------------------------------------------------------
Step(r) ==
    List(r) \/ Read(r) \/ Write(r) \/ Publish(r) \/ WriteManifest(r) \/ WriteWatermark(r)

Next ==
    \/ \E f \in Files : PutSource(f)
    \/ \E r \in Runs : (\E p \in Prefixes : Start(r, p)) \/ Step(r) \/ Raise(r)
    \/ \E h \in Hosts : Crash(h)

Spec == Init /\ [][Next]_vars

\* A run goes on until it ends, and whoever schedules the job keeps starting it
\* for each of its prefixes, on some host.  Producers and faults are not fair.
Fairness ==
    /\ \A r \in Runs : WF_vars(Step(r))
    /\ \A p \in Prefixes : SF_vars(\E r \in Runs : Start(r, p))

FairSpec == Spec /\ Fairness

-----------------------------------------------------------------------------
(* Properties.                                                             *)

Lineage == SUBSET [key : Files, ver : 0 .. MaxWrites]

\* Every variable has its type.
TypeOK ==
    /\ deployment \in Deployments
    /\ now \in 0 .. MaxWrites
    /\ writes \in 0 .. MaxWrites
    /\ source \in [Files -> [at : 0 .. MaxWrites, ver : 0 .. MaxWrites, good : BOOLEAN]]
    /\ wm \in [Hosts -> Stamp]
    /\ readable \in [Hosts -> BOOLEAN]
    /\ mirror \in [Files -> 0 .. MaxWrites]
    /\ native \in [Files -> Row]
    /\ manifests \in [Prefixes \X (0 .. NFiles) -> Lineage]
    /\ prefix \in [Runs -> Prefixes \cup {{}}]
    /\ pc \in [Runs -> Phases]
    /\ mark \in [Runs -> Stamp]
    /\ queue \in [Runs -> SUBSET Stamp]
    /\ copied \in [Runs -> Lineage]
    /\ last \in [Runs -> Stamp]
    /\ bytes \in [Runs -> 0 .. MaxWrites]
    /\ faults \in 0 .. MaxFaults

\* One run at a time over one prefix, no two objects of the same time or with
\* the same rows, and no limit on a listing that is not by time.
Orderly ==
    /\ \E r \in Runs : deployment.runs = {r}
    /\ deployment.prefixes = {Files}
    /\ ~ deployment.ties
    /\ \A f \in Files : SameRows(f) = {f}
    /\ deployment.byTime \/ deployment.limits = {0}

\* The native table holds the current rows of an object with the rows of f.
InTable(f) ==
    deployment.native =>
        \E g \in SameRows(f) : native[g] # NoRow /\ native[g].ver = source[native[g].key].ver

\* The object is mirrored in its last version, rows included.
Mirrored(f) == mirror[f] = source[f].ver /\ InTable(f)

\* No run can take two objects of the same rows.
Separate == deployment.limits = {1} \/ \A f \in Files : SameRows(f) = {f}

\* The watermark never hides an object that is not mirrored: whatever is at or
\* below it is in GCS and in the native table in its current version, through
\* limits, rewrites during a run, invalid objects, exceptions and crashes.
Covered ==
    Orderly => \A h \in Hosts : \A f \in Present : Later(StampOf(f), wm[h]) \/ Mirrored(f)

\* The checksums a manifest reports as matched are those of published bytes, or
\* of bytes a later run has replaced by newer ones.
LineageIsPublished ==
    Orderly /\ deployment.native
        => \A m \in DOMAIN manifests : \A e \in manifests[m] : native[e.key].ver >= e.ver

\* Rows whose merge key is complete are not duplicated, however often runs end
\* half-way, start again or overlap.  No object has its rows inserted twice; and,
\* if runs take one object at a time, neither are the rows of a source file that
\* has an object for each processing date.  (Rows without a key, and two such
\* objects in the first batch that holds them, are duplicated by the code.)
RowsAreUnique ==
    \A f \in Files : HasKey(f) =>
        /\ native[f].copies <= 1
        /\ deployment.limits = {1}
              => \A g \in SameRows(f) : native[f] # NoRow /\ native[g] # NoRow => f = g

\* Once the producers stop and leave no invalid object, and no watermark file is
\* left truncated, every object ends up in GCS in its last version and stays so,
\* and its rows in the native table, unless two objects of the same rows can be
\* merged at once.
EventuallyMirrored ==
    <>[]((\A f \in Present : source[f].good) /\ \A h \in Hosts : readable[h])
        => <>[](\A f \in Present : mirror[f] = source[f].ver /\ (Separate => InTable(f)))

\* A run does not list again what is already mirrored (the watermark avoids
\* rereading when there is nothing new).
NoReread ==
    [][\A r \in Runs : (pc[r] = "list" /\ pc'[r] = "read")
          => \A s \in queue'[r] : ~ Mirrored(s.key)]_vars

\* Every published object has its lineage in some manifest when no run is in
\* progress (the minimal lineage by file).
LineageKept ==
    (\A r \in Runs : pc[r] = "idle")
        => \A f \in Files : native[f] # NoRow => \E m \in DOMAIN manifests : f \in Keys(manifests[m])

\* Each object is mirrored in the end, with every prefix mirrored again and
\* again (new silver files are detected).
DetectsNewObjects ==
    \A f \in Files : source[f].ver > 0 ~> mirror[f] > 0
=============================================================================
