------------------------ MODULE AnalyticsMirror_proofs ------------------------
(***************************************************************************)
(* Proofs about AnalyticsMirror, for any number of objects, runs, hosts,   *)
(* deployments, writes and faults.                                         *)
(***************************************************************************)
EXTENDS AnalyticsMirror, FiniteSetTheorems, FunctionTheorems, TLAPS

-----------------------------------------------------------------------------
(* Types and clocks, in every deployment.                                  *)

\* Nothing is stamped later than now, and what is written has a time.
Clock ==
    /\ now <= writes
    /\ writes <= deployment.writes
    /\ \A f \in Files : source[f].at <= now /\ (source[f].ver > 0 => source[f].at > 0)
    /\ \A h \in Hosts : wm[h].at <= now
    /\ \A r \in Runs :
          /\ mark[r].at <= now
          /\ last[r].at <= now
          /\ \A s \in queue[r] : s.at <= now /\ s.key \in Files

TInv == TypeOK /\ Clock

\* What the assumption says of the deployment.
LEMMA DeploymentType ==
  ASSUME TypeOK
  PROVE  /\ deployment.runs \subseteq Runs /\ deployment.hostOf \in [Runs -> Hosts]
         /\ deployment.prefixes \subseteq Prefixes /\ deployment.limits \subseteq Nat
         /\ deployment.rowsOf \in [Files -> Files] /\ deployment.writes \in 0 .. MaxWrites
         /\ deployment.ties \in BOOLEAN
         /\ MaxWrites \in Nat /\ NFiles \in Nat /\ MaxFaults \in Nat
         /\ \A p \in Prefixes : p \subseteq Files
BY AnalyticsMirrorAssumption DEF TypeOK

\* The run variables and the stamps they hold.
RunTypes ==
    /\ prefix \in [Runs -> Prefixes \cup {{}}]
    /\ pc \in [Runs -> Phases]
    /\ mark \in [Runs -> Stamp]
    /\ queue \in [Runs -> SUBSET Stamp]
    /\ copied \in [Runs -> Lineage]
    /\ last \in [Runs -> Stamp]
    /\ bytes \in [Runs -> 0 .. MaxWrites]

RunClock(r) ==
    /\ mark[r].at <= now
    /\ last[r].at <= now
    /\ \A s \in queue[r] : s.at <= now /\ s.key \in Files

LEMMA NoMarkType == NoMark \in Stamp /\ NoMark.at = 0 /\ NoMark.key = 0
<1>1. MaxWrites \in Nat /\ NFiles \in Nat
  BY AnalyticsMirrorAssumption
<1>2. 0 \in 0 .. MaxWrites /\ 0 \in 0 .. NFiles
  BY <1>1
<1> QED
  BY <1>2 DEF NoMark, Stamp

\* The runs that are over are as at the start, the others as before.
LEMMA OverRuns ==
  ASSUME TypeOK, NEW R, Over(R), NEW r \in Runs
  PROVE  /\ r \in R => /\ prefix'[r] = {} /\ pc'[r] = "idle" /\ mark'[r] = NoMark
                       /\ queue'[r] = {} /\ copied'[r] = {} /\ last'[r] = NoMark /\ bytes'[r] = 0
         /\ r \notin R => /\ prefix'[r] = prefix[r] /\ pc'[r] = pc[r] /\ mark'[r] = mark[r]
                          /\ queue'[r] = queue[r] /\ copied'[r] = copied[r]
                          /\ last'[r] = last[r] /\ bytes'[r] = bytes[r]
BY DEF Over

LEMMA OverType ==
  ASSUME TInv, NEW R, Over(R), now' = now
  PROVE  RunTypes' /\ \A r \in Runs : RunClock(r)'
<1>1. NoMark \in Stamp /\ NoMark.at = 0 /\ MaxWrites \in Nat
  BY NoMarkType, AnalyticsMirrorAssumption
<1>2. 0 \in 0 .. MaxWrites /\ {} \in Lineage /\ "idle" \in Phases
  BY <1>1 DEF Lineage, Phases
<1>3. TypeOK
  BY DEF TInv
<1>4. /\ prefix' \in [Runs -> Prefixes \cup {{}}]
      /\ pc' \in [Runs -> Phases]
      /\ mark' \in [Runs -> Stamp]
  BY <1>1, <1>2, <1>3 DEF TypeOK, Over
<1>5. /\ queue' \in [Runs -> SUBSET Stamp]
      /\ copied' \in [Runs -> Lineage]
  BY <1>1, <1>2, <1>3 DEF TypeOK, Over
<1>6. /\ last' \in [Runs -> Stamp]
      /\ bytes' \in [Runs -> 0 .. MaxWrites]
  BY <1>1, <1>2, <1>3 DEF TypeOK, Over
<1>7. ASSUME NEW r \in Runs
      PROVE  RunClock(r)'
  <2>1. now \in Nat
    BY <1>1, <1>3 DEF TypeOK
  <2>2. RunClock(r)
    BY DEF TInv, Clock, RunClock
  <2>3. CASE r \in R
    BY <1>1, <1>3, <2>1, <2>3, OverRuns DEF RunClock
  <2>4. CASE r \notin R
    BY <1>3, <2>2, <2>4, OverRuns DEF RunClock
  <2> QED
    BY <2>3, <2>4
<1> QED
  BY <1>4, <1>5, <1>6, <1>7 DEF RunTypes

\* A step that leaves the store alone.
LEMMA TypeStep ==
  ASSUME TInv, UNCHANGED <<deployment, storeVars>>,
         RunTypes', \A r \in Runs : RunClock(r)',
         wm' \in [Hosts -> Stamp], \A h \in Hosts : wm'[h].at <= now,
         readable' \in [Hosts -> BOOLEAN],
         mirror' \in [Files -> 0 .. MaxWrites],
         native' \in [Files -> Row],
         manifests' \in [Prefixes \X (0 .. NFiles) -> Lineage],
         faults' \in 0 .. MaxFaults
  PROVE  TInv'
<1>1. TypeOK'
  BY DEF TInv, TypeOK, RunTypes, storeVars
<1>2. Clock'
  BY DEF TInv, Clock, RunClock, storeVars
<1> QED
  BY <1>1, <1>2 DEF TInv

\* Its runs are typed, and so is what other steps leave alone.
LEMMA TypeNow ==
  ASSUME TInv
  PROVE  /\ TypeOK /\ RunTypes /\ \A r \in Runs : RunClock(r)
         /\ \A h \in Hosts : wm[h].at <= now
         /\ now \in Nat
BY AnalyticsMirrorAssumption DEF TInv, TypeOK, RunTypes, Clock, RunClock

LEMMA InitType == Init => TInv
<1> SUFFICES ASSUME Init
             PROVE  TInv
  OBVIOUS
<1>1. /\ deployment \in Deployments
      /\ MaxWrites \in Nat /\ NFiles \in Nat /\ MaxFaults \in Nat
      /\ deployment.writes \in 0 .. MaxWrites
  BY AnalyticsMirrorAssumption DEF Init
<1>2. NoMark \in Stamp /\ NoMark.at = 0
  BY NoMarkType
<1>3. {} \in Lineage /\ NoRow \in Row
  BY <1>1 DEF Lineage, NoRow, Row
<1>4. TypeOK
  BY <1>1, <1>2, <1>3 DEF Init, TypeOK, Phases
<1>5. Clock
  BY <1>1, <1>2 DEF Init, Clock
<1> QED
  BY <1>4, <1>5 DEF TInv

LEMMA PutSourceType ==
  ASSUME TInv, NEW f \in Files, PutSource(f)
  PROVE  TInv'
<1>1. /\ TypeOK /\ now \in Nat /\ writes \in Nat /\ MaxWrites \in Nat
      /\ deployment.writes \in Nat /\ deployment.writes <= MaxWrites
      /\ now <= writes /\ writes < deployment.writes
  BY DeploymentType DEF TInv, TypeOK, Clock, PutSource
<1>2. /\ writes' = writes + 1 /\ now' \in {now, now + 1}
      /\ now > 0 \/ now' = now + 1
      /\ UNCHANGED <<deployment, hostVars, cloudVars, runVars, faults>>
  BY DEF PutSource
<1>3. now' \in 1 .. MaxWrites /\ writes' \in 0 .. MaxWrites /\ now' <= writes' /\ now <= now'
      /\ writes' <= deployment.writes
  BY <1>1, <1>2
<1>4. PICK good \in BOOLEAN :
         source' = [source EXCEPT ![f] = [at |-> now', ver |-> writes', good |-> good]]
  BY DEF PutSource
<1>5. source' \in [Files -> [at : 0 .. MaxWrites, ver : 0 .. MaxWrites, good : BOOLEAN]]
  BY <1>1, <1>3, <1>4 DEF TypeOK
<1>6. TypeOK'
  BY <1>1, <1>2, <1>3, <1>5 DEF TypeOK, hostVars, cloudVars, runVars
<1>7. Clock'
  <2>1. \A g \in Files : source'[g].at <= now' /\ (source'[g].ver > 0 => source'[g].at > 0)
    <3> SUFFICES ASSUME NEW g \in Files
                 PROVE  source'[g].at <= now' /\ (source'[g].ver > 0 => source'[g].at > 0)
      OBVIOUS
    <3>1. CASE g = f
      BY <1>1, <1>3, <1>4, <3>1 DEF TypeOK
    <3>2. CASE g # f
      <4>1. source'[g] = source[g] /\ source[g].at \in Nat
        BY <1>1, <1>4, <3>2 DEF TypeOK
      <4> QED
        BY <1>1, <1>3, <4>1 DEF TInv, Clock
    <3> QED
      BY <3>1, <3>2
  <2>2. \A h \in Hosts : wm'[h].at <= now'
    <3>1. \A h \in Hosts : wm[h].at \in Nat /\ wm[h].at <= now
      BY <1>1 DEF TInv, Clock, TypeOK, Stamp
    <3> QED
      BY <1>1, <1>2, <1>3, <3>1 DEF hostVars
  <2>3. ASSUME NEW r \in Runs
        PROVE  /\ mark'[r].at <= now'
               /\ last'[r].at <= now'
               /\ \A s \in queue'[r] : s.at <= now' /\ s.key \in Files
    <3>1. /\ mark[r].at \in Nat /\ mark[r].at <= now
          /\ last[r].at \in Nat /\ last[r].at <= now
          /\ \A s \in queue[r] : s.at \in Nat /\ s.at <= now /\ s.key \in Files
      BY <1>1 DEF TInv, Clock, TypeOK, Stamp
    <3> QED
      BY <1>1, <1>2, <1>3, <3>1 DEF runVars
  <2> QED
    BY <1>2, <1>3, <2>1, <2>2, <2>3 DEF Clock
<1> QED
  BY <1>6, <1>7 DEF TInv

LEMMA StartType ==
  ASSUME TInv, NEW r \in Runs, NEW p \in Prefixes, Start(r, p)
  PROVE  TInv'
<1>1. wm[deployment.hostOf[r]] \in Stamp /\ wm[deployment.hostOf[r]].at <= now
  BY TypeNow, DeploymentType DEF TypeOK
<1>2. RunTypes'
  BY <1>1, TypeNow DEF RunTypes, Start, Goto, Phases
<1>3. \A v \in Runs : RunClock(v)'
  BY <1>1, TypeNow DEF RunTypes, RunClock, Start, storeVars
<1> QED
  BY <1>2, <1>3, TypeNow, TypeStep DEF TypeOK, Start, hostVars, cloudVars

\* A stamp of an object that is there.
LEMMA StampOfType ==
  ASSUME TInv, NEW f \in Files
  PROVE  StampOf(f) \in Stamp /\ StampOf(f).at = source[f].at /\ StampOf(f).key = f
         /\ StampOf(f).at <= now
<1>1. source[f].at \in 0 .. MaxWrites
  BY TypeNow DEF TypeOK
<1>2. source[f].at <= now
  BY DEF TInv, Clock
<1>3. f \in 0 .. NFiles
  BY AnalyticsMirrorAssumption DEF Files
<1> QED
  BY <1>1, <1>2, <1>3 DEF StampOf, Stamp

LEMMA ListType ==
  ASSUME TInv, NEW r \in Runs, List(r)
  PROVE  TInv'
<1>1. PICK n \in deployment.limits :
         queue' = [queue EXCEPT ![r] = Batch(NewObjects(prefix[r], mark[r]), n)]
  BY DEF List
<1>2. \A s \in Batch(NewObjects(prefix[r], mark[r]), n) :
         s \in Stamp /\ s.at <= now /\ s.key \in Files
  BY StampOfType DEF Batch, NewObjects, Present
<1> HIDE DEF Batch, NewObjects
<1>3. RunTypes'
  BY <1>1, <1>2, TypeNow DEF RunTypes, List, Goto, Phases
<1>4. \A v \in Runs : RunClock(v)'
  BY <1>1, <1>2, TypeNow DEF RunTypes, RunClock, List, storeVars
<1> QED
  BY <1>3, <1>4, TypeNow, TypeStep DEF TypeOK, List, hostVars, cloudVars

LEMMA ReadType ==
  ASSUME TInv, NEW r \in Runs, Read(r)
  PROVE  TInv'
<1>1. UNCHANGED <<deployment, storeVars, hostVars, cloudVars, faults>>
  BY DEF Read
<1>2. CASE Over({r})
  BY <1>1, <1>2, OverType, TypeNow, TypeStep DEF TypeOK, hostVars, cloudVars, storeVars
<1>3. ASSUME NEW s \in queue[r],
             Goto(r, "write"), bytes' = [bytes EXCEPT ![r] = source[s.key].ver],
             UNCHANGED <<prefix, mark, queue, copied, last>>
      PROVE  TInv'
  <2>1. source[s.key].ver \in 0 .. MaxWrites
    BY <1>3, TypeNow DEF TypeOK, RunClock
  <2>2. RunTypes' /\ \A v \in Runs : RunClock(v)'
    BY <1>1, <1>3, <2>1, TypeNow DEF RunTypes, RunClock, Goto, Phases, storeVars
  <2> QED
    BY <1>1, <2>2, TypeNow, TypeStep DEF TypeOK, hostVars, cloudVars
<1> QED
  BY <1>2, <1>3 DEF Read

LEMMA WriteType ==
  ASSUME TInv, NEW r \in Runs, Write(r)
  PROVE  TInv'
<1>1. PICK s \in queue[r] :
         /\ WriteToGcs(s.key, bytes[r])
         /\ copied' = [copied EXCEPT ![r] = @ \cup {[key |-> s.key, ver |-> bytes[r]]}]
         /\ queue' = [queue EXCEPT ![r] = @ \ {s}]
         /\ last' = [last EXCEPT ![r] = s]
  BY DEF Write
<1>2. /\ Goto(r, "read") /\ bytes' = [bytes EXCEPT ![r] = 0]
      /\ UNCHANGED <<deployment, storeVars, hostVars, native, manifests, prefix, mark, faults>>
  BY DEF Write
<1>3. /\ s \in Stamp /\ s.key \in Files /\ s.at <= now
      /\ bytes[r] \in 0 .. MaxWrites /\ 0 \in 0 .. MaxWrites
  BY TypeNow, AnalyticsMirrorAssumption DEF RunTypes, RunClock
<1>4. RunTypes'
  <2>1. copied' \in [Runs -> Lineage]
    BY <1>1, <1>3, TypeNow DEF RunTypes, Lineage
  <2>2. queue' \in [Runs -> SUBSET Stamp]
    BY <1>1, <1>3, TypeNow DEF RunTypes
  <2> QED
    BY <1>1, <1>2, <1>3, <2>1, <2>2, TypeNow DEF RunTypes, Goto, Phases
<1>5. \A v \in Runs : RunClock(v)'
  BY <1>1, <1>2, <1>3, TypeNow DEF RunTypes, RunClock, storeVars
<1>6. mirror' \in [Files -> 0 .. MaxWrites]
  BY <1>1, <1>3, TypeNow DEF TypeOK, WriteToGcs
<1> QED
  BY <1>2, <1>4, <1>5, <1>6, TypeNow, TypeStep DEF TypeOK, hostVars

\* What a MERGE of S does to the row of f.
LEMMA MergedRow ==
  ASSUME NEW S, S \subseteq Files, NEW f \in Files
  PROVE  \/ /\ deployment.native /\ f \in S /\ ~ Matched(f)
            /\ Merged(S)[f] = Inserted(f)
         \/ /\ deployment.native /\ HasKey(f) /\ native[f] # NoRow
            /\ \E g \in S \cap SameRows(f) : Merged(S)[f] = Updated(f, g)
         \/ Merged(S)[f] = native[f]
<1> DEFINE new == IF deployment.native THEN S \cap SameRows(f) ELSE {}
<1>1. CASE f \in new /\ ~ Matched(f)
  <2>1. Merged(S)[f] = Inserted(f)
    <3>1. ~ (HasKey(f) /\ native[f] # NoRow)
      BY <1>1 DEF Matched, SameRows
    <3> QED
      BY <1>1, <3>1 DEF Merged
  <2> QED
    BY <1>1, <2>1
<1>2. CASE ~ (f \in new /\ ~ Matched(f)) /\ HasKey(f) /\ native[f] # NoRow /\ new # {}
  <2>1. Merged(S)[f] = Updated(f, CHOOSE g \in new : TRUE)
    BY <1>2 DEF Merged
  <2>2. (CHOOSE g \in new : TRUE) \in new
    BY <1>2
  <2>3. deployment.native /\ new = S \cap SameRows(f)
    BY <1>2
  <2> HIDE DEF new
  <2> QED
    BY <1>2, <2>1, <2>2, <2>3
<1>3. CASE ~ (f \in new /\ ~ Matched(f)) /\ ~ (HasKey(f) /\ native[f] # NoRow /\ new # {})
  BY <1>3 DEF Merged
<1> QED
  BY <1>1, <1>2, <1>3

\* The native table after a MERGE.
LEMMA MergedType ==
  ASSUME TInv, NEW S, S \subseteq Files
  PROVE  Merged(S) \in [Files -> Row]
<1> SUFFICES ASSUME NEW f \in Files
             PROVE  Merged(S)[f] \in Row
  BY DEF Merged
<1>1. native[f] \in Row /\ TypeOK
  BY TypeNow DEF TypeOK
<1>2. \A g \in Files : g \in 0 .. NFiles /\ mirror[g] \in 0 .. MaxWrites
  BY TypeNow DEF TypeOK, Files
<1>3. Inserted(f) \in Row
  BY <1>2 DEF Inserted, Row
<1>4. \A g \in Files : Updated(f, g) \in Row
  BY <1>1, <1>2 DEF Updated, Row
<1> QED
  BY <1>1, <1>3, <1>4, MergedRow

LEMMA KeysType ==
  ASSUME TInv, NEW r \in Runs
  PROVE  Keys(copied[r]) \subseteq Files
BY TypeNow DEF RunTypes, Lineage, Keys

LEMMA PublishType ==
  ASSUME TInv, NEW r \in Runs, Publish(r)
  PROVE  TInv'
<1>1. UNCHANGED <<deployment, storeVars, hostVars, mirror, manifests, faults>>
  BY DEF Publish
<1>2. CASE Over({r}) /\ UNCHANGED native
  BY <1>1, <1>2, OverType, TypeNow, TypeStep DEF TypeOK, hostVars, storeVars
<1>3. CASE /\ native' = Merged(Keys(copied[r]))
           /\ Goto(r, "manifest")
           /\ UNCHANGED <<prefix, mark, queue, copied, last, bytes>>
  <2>1. native' \in [Files -> Row]
    BY <1>3, KeysType, MergedType
  <2>2. RunTypes' /\ \A v \in Runs : RunClock(v)'
    BY <1>1, <1>3, TypeNow DEF RunTypes, RunClock, Goto, Phases, storeVars
  <2> QED
    BY <1>1, <2>1, <2>2, TypeNow, TypeStep DEF TypeOK, hostVars
<1> QED
  BY <1>2, <1>3 DEF Publish

LEMMA WriteManifestType ==
  ASSUME TInv, NEW r \in Runs, WriteManifest(r)
  PROVE  TInv'
<1>1. RunTypes' /\ \A v \in Runs : RunClock(v)'
  BY TypeNow DEF RunTypes, RunClock, WriteManifest, Goto, Phases, storeVars
<1>2. manifests' \in [Prefixes \X (0 .. NFiles) -> Lineage]
  <2>1. copied[r] \in Lineage
    BY TypeNow DEF RunTypes
  <2> QED
    BY <2>1, TypeNow DEF TypeOK, WriteManifest
<1> QED
  BY <1>1, <1>2, TypeNow, TypeStep DEF TypeOK, WriteManifest, hostVars

LEMMA WriteWatermarkType ==
  ASSUME TInv, NEW r \in Runs, WriteWatermark(r)
  PROVE  TInv'
<1>1. RunTypes' /\ \A v \in Runs : RunClock(v)'
  BY OverType DEF WriteWatermark, storeVars
<1>2. last[r] \in Stamp /\ last[r].at <= now
  BY TypeNow DEF RunTypes, RunClock
<1>3. wm' \in [Hosts -> Stamp] /\ \A h \in Hosts : wm'[h].at <= now
  BY <1>2, TypeNow DEF TypeOK, WriteWatermark
<1> QED
  BY <1>1, <1>3, TypeNow, TypeStep DEF TypeOK, WriteWatermark, cloudVars

LEMMA RaiseType ==
  ASSUME TInv, NEW r \in Runs, Raise(r)
  PROVE  TInv'
<1>1. RunTypes' /\ \A v \in Runs : RunClock(v)'
  BY OverType DEF Raise, storeVars
<1>2. faults' \in 0 .. MaxFaults
  BY TypeNow, AnalyticsMirrorAssumption DEF Raise, TypeOK
<1> QED
  BY <1>1, <1>2, TypeNow, TypeStep DEF TypeOK, Raise, hostVars, cloudVars

LEMMA CrashType ==
  ASSUME TInv, NEW h \in Hosts, Crash(h)
  PROVE  TInv'
<1>1. RunTypes' /\ \A v \in Runs : RunClock(v)'
  BY OverType DEF Crash, storeVars
<1>2. faults' \in 0 .. MaxFaults
  BY TypeNow, AnalyticsMirrorAssumption DEF Crash, TypeOK
<1>3. wm' \in [Hosts -> Stamp] /\ readable' \in [Hosts -> BOOLEAN]
  BY TypeNow, NoMarkType DEF Crash, TypeOK, hostVars
<1>4. \A g \in Hosts : wm'[g].at <= now
  <2>1. wm' = wm \/ wm' = [wm EXCEPT ![h] = NoMark]
    BY DEF Crash, hostVars
  <2> QED
    BY <2>1, TypeNow, NoMarkType DEF TypeOK
<1> QED
  BY <1>1, <1>2, <1>3, <1>4, TypeNow, TypeStep DEF TypeOK, Crash, cloudVars

LEMMA NextType == TInv /\ [Next]_vars => TInv'
<1> SUFFICES ASSUME TInv, [Next]_vars
             PROVE  TInv'
  OBVIOUS
<1>1. CASE UNCHANGED vars
  <2>1. RunTypes' /\ \A r \in Runs : RunClock(r)'
    BY <1>1, TypeNow DEF RunTypes, RunClock, vars, runVars, storeVars
  <2> QED
    BY <1>1, <2>1, TypeNow, TypeStep DEF TypeOK, vars, hostVars, cloudVars
<1>2. ASSUME NEW f \in Files, PutSource(f)
      PROVE  TInv'
  BY <1>2, PutSourceType
<1>3. ASSUME NEW r \in Runs, NEW p \in Prefixes, Start(r, p)
      PROVE  TInv'
  BY <1>3, StartType
<1>4. ASSUME NEW r \in Runs, Step(r)
      PROVE  TInv'
  BY <1>4, ListType, ReadType, WriteType, PublishType, WriteManifestType, WriteWatermarkType
  DEF Step
<1>5. ASSUME NEW r \in Runs, Raise(r)
      PROVE  TInv'
  BY <1>5, RaiseType
<1>6. ASSUME NEW h \in Hosts, Crash(h)
      PROVE  TInv'
  BY <1>6, CrashType
<1> QED
  BY <1>1, <1>2, <1>3, <1>4, <1>5, <1>6 DEF Next

LEMMA TypeInvariance == Spec => []TInv
  BY InitType, NextType, PTL DEF Spec

\* Every variable keeps its type; the clock and the counter of writes bound
\* every stamp that is listed, kept or stored.
THEOREM TypeCorrect == Spec => []TypeOK
<1>1. TInv => TypeOK
  BY DEF TInv
<1> QED
  BY <1>1, TypeInvariance, PTL

-----------------------------------------------------------------------------
(* The watermark of an orderly deployment.                                 *)

\* In an orderly deployment every object has its own rows, and is mirrored if it
\* and its row are current.
Current(f) ==
    /\ mirror[f] = source[f].ver
    /\ deployment.native => native[f] # NoRow /\ native[f].ver = source[f].ver

\* f was written after what the run has listed, or comes after its batch.
Behind(r, f) == \A s \in queue[r] \cup {last[r]} : Later(StampOf(f), s)

Upcoming(r, s) == \A t \in queue[r] \ {s} : Before(s, t)

\* What the run has listed is above its watermark, and is what the store has
\* unless the object was written again since.
QueueInv(r) ==
    \A s \in queue[r] :
        /\ s.key \in Present
        /\ s = StampOf(s.key) \/ Behind(r, s.key)
        /\ Later(s, mark[r])

\* What has been copied was above the watermark, and still is.
CopiedInv(r) ==
    \A f \in Keys(copied[r]) : f \in Present /\ Later(StampOf(f), mark[r])

\* Before the MERGE each object is still to be copied, or copied, or was mirrored
\* before, or comes too late for this run.
BatchInv(r) ==
    \A f \in Present :
        \/ Behind(r, f)
        \/ StampOf(f) \in queue[r]
        \/ f \in Keys(copied[r]) /\ mirror[f] = source[f].ver
        \/ f \notin Keys(copied[r]) /\ Current(f)

PhaseInv(r) ==
    /\ pc[r] # "idle" => prefix[r] = Files /\ mark[r] = wm[deployment.hostOf[r]]
    /\ pc[r] \in {"idle", "list"} => queue[r] = {} /\ copied[r] = {} /\ last[r] = NoMark
    /\ pc[r] = "write" =>
          \A s \in queue[r] : Upcoming(r, s) => bytes[r] = source[s.key].ver \/ Behind(r, s.key)
    /\ pc[r] \in {"read", "write"} => BatchInv(r)
    /\ pc[r] \in {"manifest", "mark"} =>
          /\ queue[r] = {}
          /\ \A f \in Present : Behind(r, f) \/ Current(f)

\* There is no run but r, on one host, and each row is that of its object.
OnlyRun(r) ==
    /\ \A v \in Runs \ {r} : pc[v] = "idle"
    /\ \A h \in Hosts \ {deployment.hostOf[r]} : wm[h] = NoMark
    /\ \A f \in Files : native[f] # NoRow => native[f].key = f

Above ==
    \A h \in Hosts : \A f \in Present : Later(StampOf(f), wm[h]) \/ Current(f)

CoverInv(r) == OnlyRun(r) /\ QueueInv(r) /\ CopiedInv(r) /\ PhaseInv(r) /\ Above

CInv == Orderly => \A r \in Runs : deployment.runs = {r} => CoverInv(r)

\* The order of stamps is strict and total.
LEMMA LaterIsOrder ==
  /\ \A s, t, u \in Stamp : Later(s, t) /\ Later(t, u) => Later(s, u)
  /\ \A s, t \in Stamp : s = t \/ Later(s, t) \/ Later(t, s)
  /\ \A s, t \in Stamp : ~ (Later(s, t) /\ Later(t, s))
<1>1. \A s \in Stamp : s.at \in Int /\ s.key \in Int /\ s = [at |-> s.at, key |-> s.key]
  BY DEF Stamp
<1>2. \A s, t, u \in Stamp : Later(s, t) /\ Later(t, u) => Later(s, u)
  BY <1>1 DEF Later
<1>3. \A s, t \in Stamp : s = t \/ Later(s, t) \/ Later(t, s)
  BY <1>1 DEF Later
<1>4. \A s, t \in Stamp : ~ (Later(s, t) /\ Later(t, s))
  BY <1>1 DEF Later
<1> QED
  BY <1>2, <1>3, <1>4

LEMMA BeforeIsOrder ==
  ASSUME NEW s \in Stamp, NEW t \in Stamp, Before(s, t)
  PROVE  ~ Before(t, s)
<1>1. s.key \in Int /\ t.key \in Int
  BY DEF Stamp
<1> QED
  BY <1>1, LaterIsOrder DEF Before

\* The stamps that the invariant compares.
LEMMA Stamps ==
  ASSUME TInv
  PROVE  /\ \A f \in Files : StampOf(f) \in Stamp
         /\ \A r \in Runs : queue[r] \subseteq Stamp /\ last[r] \in Stamp /\ mark[r] \in Stamp
         /\ \A h \in Hosts : wm[h] \in Stamp
         /\ Present \subseteq Files
         /\ \A r \in Runs : \A s \in queue[r] : s.key \in Files
BY StampOfType, TypeNow DEF TypeOK, Present, RunClock

\* An object that is there is above the mark of a run that has copied nothing.
LEMMA AboveNoMark ==
  ASSUME TInv, NEW f \in Present
  PROVE  Later(StampOf(f), NoMark)
<1>1. f \in Files /\ source[f].at \in Nat /\ source[f].ver > 0
  BY TypeNow DEF Present, TypeOK
<1>2. source[f].at > 0
  BY <1>1 DEF TInv, Clock
<1> QED
  BY <1>2 DEF Later, StampOf, NoMark

\* The only run of an orderly deployment.
Only(r) == r \in Runs /\ deployment.runs = {r} /\ Orderly

\* Another run takes no step.
LEMMA OthersRest ==
  ASSUME TInv, NEW r, Only(r), OnlyRun(r), NEW v \in Runs,
         (\E p \in Prefixes : Start(v, p)) \/ Step(v) \/ Raise(v)
  PROVE  v = r
<1>1. v \in deployment.runs \/ pc[v] # "idle"
  BY DEF Start, Step, Raise, List, Read, Write, Publish, WriteManifest, WriteWatermark
<1> QED
  BY <1>1 DEF Only, OnlyRun

-----------------------------------------------------------------------------
(* Each step keeps the watermark honest.                                   *)

LEMMA PutSourceCovers ==
  ASSUME TInv, TInv', NEW r, Only(r), CoverInv(r), NEW f \in Files, PutSource(f)
  PROVE  CoverInv(r)'
<1>1. /\ writes' = writes + 1 /\ now' = now + 1
      /\ UNCHANGED <<deployment, hostVars, cloudVars, runVars, faults>>
  BY DEF PutSource, Only, Orderly
<1>2. PICK good \in BOOLEAN :
         source' = [source EXCEPT ![f] = [at |-> now + 1, ver |-> writes + 1, good |-> good]]
  BY <1>1 DEF PutSource
<1>3. r \in Runs /\ now \in Nat /\ writes \in Nat
  BY TypeNow DEF Only, TypeOK
<1>4. /\ StampOf(f)' = [at |-> now + 1, key |-> f] /\ source'[f].ver = writes + 1
      /\ \A g \in Files \ {f} : source'[g] = source[g] /\ StampOf(g)' = StampOf(g)
  BY <1>2, TypeNow DEF TypeOK, StampOf
<1>5. Present' = Present \cup {f}
  BY <1>3, <1>4 DEF Present
<1>6. /\ \A s \in queue[r] \cup {last[r], mark[r]} : Later(StampOf(f)', s)
      /\ \A h \in Hosts : Later(StampOf(f)', wm[h])
  <2>1. \A s \in queue[r] \cup {last[r], mark[r]} : s.at \in Int /\ s.at <= now
    BY <1>3, TypeNow DEF RunClock, RunTypes, Stamp
  <2>2. \A h \in Hosts : wm[h].at \in Int /\ wm[h].at <= now
    BY TypeNow DEF TypeOK, Stamp
  <2>3. StampOf(f)'.at = now + 1
    BY <1>4
  <2> QED
    BY <1>3, <2>1, <2>2, <2>3 DEF Later
<1>7. /\ Behind(r, f)'
      /\ \A g \in Files \ {f} : (Behind(r, g)' <=> Behind(r, g)) /\ (Current(g)' <=> Current(g))
  BY <1>1, <1>4, <1>6 DEF Behind, Current, runVars, cloudVars
<1>8. OnlyRun(r)'
  BY <1>1 DEF CoverInv, OnlyRun, hostVars, cloudVars, runVars
<1>9. QueueInv(r)'
  <2> SUFFICES ASSUME NEW s \in queue[r]
               PROVE  /\ s.key \in Present'
                      /\ s = StampOf(s.key)' \/ Behind(r, s.key)'
                      /\ Later(s, mark[r])
    BY <1>1 DEF QueueInv, runVars
  <2>1. s.key \in Present /\ (s = StampOf(s.key) \/ Behind(r, s.key)) /\ Later(s, mark[r])
    BY DEF CoverInv, QueueInv
  <2>2. s.key \in Files
    BY <1>3, Stamps
  <2> QED
    BY <1>4, <1>5, <1>7, <2>1, <2>2
<1>10. CopiedInv(r)'
  <2>1. \A g \in Keys(copied[r]) : g \in Present /\ Later(StampOf(g), mark[r]) /\ g \in Files
    BY <1>3, KeysType DEF CoverInv, CopiedInv
  <2> QED
    BY <1>1, <1>4, <1>5, <1>6, <2>1 DEF CopiedInv, Keys, runVars
<1>11. PhaseInv(r)'
  <2>1. PhaseInv(r)
    BY DEF CoverInv
  <2>2. BatchInv(r) => BatchInv(r)'
    <3> SUFFICES ASSUME BatchInv(r), NEW g \in Present', g # f
                 PROVE  \/ Behind(r, g)'
                        \/ StampOf(g)' \in queue[r]
                        \/ g \in Keys(copied[r]) /\ mirror[g] = source'[g].ver
                        \/ g \notin Keys(copied[r]) /\ Current(g)'
      BY <1>1, <1>7 DEF BatchInv, Keys, runVars, cloudVars
    <3>1. g \in Present /\ g \in Files
      BY <1>5 DEF Present
    <3> QED
      BY <1>4, <1>7, <3>1 DEF BatchInv
  <2>3. (\A g \in Present : Behind(r, g) \/ Current(g))
           => \A g \in Present' : Behind(r, g)' \/ Current(g)'
    BY <1>5, <1>7 DEF Present
  <2>4. (\A s \in queue[r] : Upcoming(r, s) => bytes[r] = source[s.key].ver \/ Behind(r, s.key))
           => (\A s \in queue'[r] : Upcoming(r, s)' => bytes'[r] = source'[s.key].ver \/ Behind(r, s.key)')
    <3>1. \A s \in queue[r] : s.key \in Files
      BY <1>3, Stamps
    <3>2. \A s : Upcoming(r, s)' <=> Upcoming(r, s)
      BY <1>1 DEF Upcoming, Before, runVars
    <3> QED
      BY <1>1, <1>4, <1>7, <3>1, <3>2 DEF runVars
  <2> QED
    BY <1>1, <2>1, <2>2, <2>3, <2>4 DEF PhaseInv, runVars, hostVars
<1>12. Above'
  <2>1. \A h \in Hosts, g \in Present' : g # f => Later(StampOf(g)', wm[h]) \/ Current(g)'
    BY <1>4, <1>5, <1>7 DEF CoverInv, Above, Present
  <2> QED
    BY <1>1, <1>6, <2>1 DEF Above, hostVars
<1> QED
  BY <1>8, <1>9, <1>10, <1>11, <1>12 DEF CoverInv

\* A run that is over or starts has nothing listed or copied.
LEMMA NothingListed ==
  ASSUME NEW r, queue[r] = {}, copied[r] = {}
  PROVE  QueueInv(r) /\ CopiedInv(r)
BY DEF QueueInv, CopiedInv, Keys

\* The run ends, and the watermark of its host is as it was or covers as much.
LEMMA RunEnds ==
  ASSUME TInv, NEW r, Only(r), CoverInv(r), NEW R, r \in R, Over(R),
         UNCHANGED <<deployment, storeVars, mirror, native>>,
         \A h \in Hosts \ {deployment.hostOf[r]} : wm'[h] \in {wm[h], NoMark},
         \A f \in Present :
            Later(StampOf(f), wm'[deployment.hostOf[r]]) \/ Current(f)
  PROVE  CoverInv(r)'
<1>1. TypeOK /\ r \in Runs
  BY DEF TInv, Only
<1>2. /\ pc'[r] = "idle" /\ queue'[r] = {} /\ copied'[r] = {} /\ last'[r] = NoMark
      /\ \A v \in Runs \ {r} : pc'[v] \in {pc[v], "idle"}
  BY <1>1, OverRuns
<1>3. OnlyRun(r)'
  BY <1>2 DEF CoverInv, OnlyRun
<1>4. QueueInv(r)' /\ CopiedInv(r)'
  BY <1>2 DEF QueueInv, CopiedInv, Keys
<1>5. PhaseInv(r)'
  BY <1>2 DEF PhaseInv
<1>6. Above'
  <2> SUFFICES ASSUME NEW h \in Hosts, NEW f \in Present
               PROVE  Later(StampOf(f), wm'[h]) \/ Current(f)
    BY DEF Above, Present, StampOf, Current, storeVars
  <2>1. CASE h = deployment.hostOf[r]
    BY <2>1
  <2>2. CASE h # deployment.hostOf[r]
    BY <2>2, AboveNoMark DEF CoverInv, Above
  <2> QED
    BY <2>1, <2>2
<1> QED
  BY <1>3, <1>4, <1>5, <1>6 DEF CoverInv

LEMMA RaiseCovers ==
  ASSUME TInv, NEW r, Only(r), CoverInv(r), Raise(r)
  PROVE  CoverInv(r)'
<1>1. deployment.hostOf[r] \in Hosts
  BY DeploymentType, TypeNow DEF Only
<1> QED
  BY <1>1, RunEnds DEF Raise, hostVars, cloudVars, CoverInv, Above

LEMMA WriteWatermarkCovers ==
  ASSUME TInv, NEW r, Only(r), CoverInv(r), WriteWatermark(r)
  PROVE  CoverInv(r)'
<1> DEFINE h == deployment.hostOf[r]
<1>1. h \in Hosts /\ r \in Runs
  BY DeploymentType, TypeNow DEF Only
<1>2. wm'[h] = last[r] /\ \A g \in Hosts \ {h} : wm'[g] = wm[g]
  BY <1>1, TypeNow DEF WriteWatermark, TypeOK
<1>3. \A f \in Present : Later(StampOf(f), last[r]) \/ Current(f)
  BY DEF CoverInv, PhaseInv, Behind, WriteWatermark
<1> QED
  BY <1>1, <1>2, <1>3, RunEnds DEF WriteWatermark, cloudVars

\* A host dies with its disk or without; if r is not on it, r goes on.
LEMMA CrashCovers ==
  ASSUME TInv, NEW r, Only(r), CoverInv(r), NEW h \in Hosts, Crash(h)
  PROVE  CoverInv(r)'
<1> DEFINE R == {v \in Runs : deployment.hostOf[v] = h}
<1>1. /\ Over(R) /\ UNCHANGED <<deployment, storeVars, mirror, native>>
      /\ wm' = wm \/ wm' = [wm EXCEPT ![h] = NoMark]
  BY DEF Crash, hostVars, cloudVars
<1>2. r \in Runs /\ TypeOK /\ deployment.hostOf[r] \in Hosts
  BY DeploymentType, TypeNow DEF Only
<1>3. \A g \in Hosts : wm'[g] \in {wm[g], NoMark}
  BY <1>1, <1>2 DEF TypeOK
<1>4. CASE r \in R
  <2>1. \A f \in Present : Later(StampOf(f), wm'[deployment.hostOf[r]]) \/ Current(f)
    BY <1>2, <1>3, AboveNoMark DEF CoverInv, Above
  <2> QED
    BY <1>1, <1>3, <1>4, <2>1, RunEnds
<1>5. CASE r \notin R
  <2>1. deployment.hostOf[r] # h
    BY <1>2, <1>5
  <2>2. wm' = wm
    <3>1. wm[h] = NoMark
      BY <2>1 DEF CoverInv, OnlyRun
    <3> QED
      BY <1>1, <1>2, <3>1 DEF TypeOK
  <2>3. /\ prefix'[r] = prefix[r] /\ pc'[r] = pc[r] /\ mark'[r] = mark[r]
        /\ queue'[r] = queue[r] /\ copied'[r] = copied[r]
        /\ last'[r] = last[r] /\ bytes'[r] = bytes[r]
    BY <1>1, <1>2, <1>5, OverRuns
  <2>4. \A v \in Runs \ {r} : pc'[v] = "idle"
    BY <1>1, <1>2, OverRuns DEF CoverInv, OnlyRun
  <2>5. OnlyRun(r)'
    BY <1>1, <2>2, <2>4 DEF CoverInv, OnlyRun
  <2>6. QueueInv(r)' /\ CopiedInv(r)' /\ Above'
    BY <1>1, <2>2, <2>3
    DEF CoverInv, QueueInv, CopiedInv, Above, Behind, Present, StampOf, Keys, Current, storeVars
  <2>7. PhaseInv(r)'
    BY <1>1, <2>2, <2>3
    DEF CoverInv, PhaseInv, BatchInv, Behind, Present, StampOf, Keys, Current, Upcoming, Before, storeVars
  <2> QED
    BY <2>5, <2>6, <2>7 DEF CoverInv
<1> QED
  BY <1>4, <1>5

LEMMA StartCovers ==
  ASSUME TInv, NEW r, Only(r), CoverInv(r), NEW p \in Prefixes, Start(r, p)
  PROVE  CoverInv(r)'
<1>1. /\ r \in Runs /\ TypeOK /\ p = Files /\ pc[r] = "idle"
      /\ UNCHANGED <<deployment, storeVars, hostVars, cloudVars, queue, copied, last, bytes, faults>>
  BY TypeNow DEF Only, Orderly, Start
<1>2. /\ pc'[r] = "list" /\ prefix'[r] = Files /\ mark'[r] = wm[deployment.hostOf[r]]
      /\ \A v \in Runs \ {r} : pc'[v] = pc[v]
  BY <1>1 DEF Start, Goto, TypeOK
<1>3. queue[r] = {} /\ copied[r] = {} /\ last[r] = NoMark
  BY <1>1 DEF CoverInv, PhaseInv
<1>4. OnlyRun(r)'
  BY <1>1, <1>2 DEF CoverInv, OnlyRun, hostVars, cloudVars
<1>5. QueueInv(r)' /\ CopiedInv(r)'
  BY <1>1, <1>3 DEF QueueInv, CopiedInv, Keys
<1>6. PhaseInv(r)'
  BY <1>1, <1>2, <1>3 DEF PhaseInv, hostVars
<1>7. Above'
  BY <1>1 DEF CoverInv, Above, Present, StampOf, Current, storeVars, hostVars, cloudVars
<1> QED
  BY <1>4, <1>5, <1>6, <1>7 DEF CoverInv

LEMMA StampsFinite ==
  ASSUME NEW S, S \subseteq {StampOf(f) : f \in Files}
  PROVE  IsFiniteSet(S)
<1>1. IsFiniteSet(Files)
  BY AnalyticsMirrorAssumption, FS_Interval DEF Files
<1> DEFINE stamp == [f \in Files |-> StampOf(f)]
           T == {stamp[f] : f \in Files}
<1>2. IsFiniteSet(T)
  <2>1. stamp \in Surjection(Files, T)
    BY Fun_IsSurj
  <2> HIDE DEF stamp, T
  <2> QED
    BY <1>1, <2>1, FS_Surjection
<1>3. S \in SUBSET T
  OBVIOUS
<1> HIDE DEF T
<1> QED
  BY <1>2, <1>3, FS_Subset

\* Limited listings are by time: what is left out is later than what is taken.
LEMMA LeftOutIsLater ==
  ASSUME TInv, Orderly, NEW S, S \subseteq {StampOf(f) : f \in Files}, NEW n \in deployment.limits,
         NEW s \in S \ Batch(S, n), NEW t \in Batch(S, n)
  PROVE  Later(s, t)
<1> DEFINE Under(x) == {y \in S : Before(y, x)}
<1>1. n \in Nat /\ n # 0 /\ deployment.byTime
  BY DeploymentType, TypeNow DEF Batch, Orderly
<1>2. /\ t \in S /\ s \in S /\ Cardinality(Under(t)) < n /\ ~ (Cardinality(Under(s)) < n)
  BY <1>1 DEF Batch
<1>3. S \subseteq Stamp
  BY Stamps
<1>4. IsFiniteSet(S)
  BY StampsFinite
<1>5. s # t
  BY <1>2
<1>6. ASSUME ~ Later(s, t)
      PROVE  FALSE
  <2>1. Later(t, s)
    BY <1>2, <1>3, <1>5, <1>6, LaterIsOrder
  <2>2. Under(s) \subseteq Under(t)
    BY <1>1, <1>2, <1>3, <2>1, LaterIsOrder DEF Before
  <2>3. IsFiniteSet(Under(t))
    BY <1>4, FS_Subset
  <2>4. IsFiniteSet(Under(s)) /\ Cardinality(Under(s)) <= Cardinality(Under(t))
    BY <2>2, <2>3, FS_Subset
  <2>5. Cardinality(Under(s)) \in Nat /\ Cardinality(Under(t)) \in Nat
    BY <2>3, <2>4, FS_CardinalityType
  <2> HIDE DEF Under
  <2> QED
    BY <1>1, <1>2, <2>4, <2>5
<1> QED
  BY <1>6

LEMMA ListCovers ==
  ASSUME TInv, NEW r, Only(r), CoverInv(r), List(r)
  PROVE  CoverInv(r)'
<1>1. /\ r \in Runs /\ TypeOK /\ pc[r] = "list" /\ PhaseInv(r) /\ Orderly
      /\ UNCHANGED <<deployment, storeVars, hostVars, cloudVars, prefix, mark, copied, last,
                     bytes, faults>>
  BY TypeNow DEF Only, List, CoverInv
<1>2. prefix[r] = Files /\ mark[r] = wm[deployment.hostOf[r]] /\ copied[r] = {} /\ last[r] = NoMark
  BY <1>1 DEF PhaseInv
<1> DEFINE S == NewObjects(Files, mark[r])
<1>3. PICK n \in deployment.limits : queue' = [queue EXCEPT ![r] = Batch(S, n)]
  BY <1>1, <1>2 DEF List
<1>4. /\ queue'[r] = Batch(S, n) /\ pc'[r] = "read"
      /\ \A v \in Runs \ {r} : pc'[v] = pc[v]
  BY <1>1, <1>3 DEF List, Goto, TypeOK
<1>5. S \subseteq {StampOf(f) : f \in Files} /\ Batch(S, n) \subseteq S
  BY DEF NewObjects, Present, Batch
<1>6. \A f \in Present : Later(StampOf(f), mark[r]) => StampOf(f) \in S
  BY DEF NewObjects, Present
<1>7. \A s \in S : s.key \in Present /\ s = StampOf(s.key) /\ Later(s, mark[r])
  BY DEF NewObjects, StampOf
<1>8. OnlyRun(r)'
  BY <1>1, <1>4 DEF CoverInv, OnlyRun, hostVars, cloudVars
<1>9. QueueInv(r)'
  <2>1. \A s \in queue'[r] : s.key \in Present /\ s = StampOf(s.key) /\ Later(s, mark[r])
    BY <1>4, <1>5, <1>7
  <2> QED
    BY <1>1, <2>1 DEF QueueInv, Present, StampOf, storeVars
<1>10. CopiedInv(r)'
  BY <1>1, <1>2 DEF CopiedInv, Keys
<1>11. BatchInv(r)'
  <2> SUFFICES ASSUME NEW f \in Present
               PROVE  \/ Behind(r, f)'
                      \/ StampOf(f) \in queue'[r]
                      \/ f \notin Keys(copied[r]) /\ Current(f)
    BY <1>1 DEF BatchInv, Present, StampOf, Current, Keys, storeVars, cloudVars
  <2>1. CASE ~ Later(StampOf(f), mark[r])
    <3>1. deployment.hostOf[r] \in Hosts
      BY <1>1, DeploymentType
    <3>2. Current(f)
      BY <1>2, <2>1, <3>1 DEF CoverInv, Above
    <3> QED
      BY <1>2, <3>2 DEF Keys
  <2>2. CASE Later(StampOf(f), mark[r]) /\ StampOf(f) \notin Batch(S, n)
    <3>1. \A t \in Batch(S, n) : Later(StampOf(f), t)
      <4>1. StampOf(f) \in S \ Batch(S, n)
        BY <1>6, <2>2
      <4> HIDE DEF S
      <4> QED
        BY <1>1, <1>5, <4>1, LeftOutIsLater
    <3>2. Later(StampOf(f), NoMark)
      BY AboveNoMark
    <3>3. StampOf(f)' = StampOf(f)
      BY <1>1 DEF StampOf, storeVars
    <3> QED
      BY <1>1, <1>2, <1>4, <3>1, <3>2, <3>3 DEF Behind
  <2> QED
    BY <1>4, <2>1, <2>2
<1>12. PhaseInv(r)'
  BY <1>1, <1>2, <1>4, <1>11 DEF PhaseInv, hostVars
<1>13. Above'
  BY <1>1 DEF CoverInv, Above, Present, StampOf, Current, storeVars, hostVars, cloudVars
<1> QED
  BY <1>8, <1>9, <1>10, <1>12, <1>13 DEF CoverInv

LEMMA ReadCovers ==
  ASSUME TInv, NEW r, Only(r), CoverInv(r), Read(r)
  PROVE  CoverInv(r)'
<1>1. /\ r \in Runs /\ TypeOK /\ pc[r] = "read"
      /\ UNCHANGED <<deployment, storeVars, hostVars, cloudVars, faults>>
  BY TypeNow DEF Only, Read
<1>2. CASE Over({r})
  <2>1. deployment.hostOf[r] \in Hosts
    BY <1>1, DeploymentType
  <2> QED
    BY <1>1, <1>2, <2>1, RunEnds DEF hostVars, cloudVars, CoverInv, Above
<1>3. CASE ~ Over({r})
  <2>1. PICK s \in queue[r] :
           /\ \A t \in queue[r] \ {s} : Before(s, t)
           /\ Goto(r, "write")
           /\ bytes' = [bytes EXCEPT ![r] = source[s.key].ver]
           /\ UNCHANGED <<prefix, mark, queue, copied, last>>
    BY <1>3 DEF Read
  <2>2. /\ pc'[r] = "write" /\ bytes'[r] = source[s.key].ver
        /\ \A v \in Runs \ {r} : pc'[v] = pc[v]
    BY <1>1, <2>1 DEF Goto, TypeOK
  <2>3. OnlyRun(r)'
    BY <1>1, <2>2 DEF CoverInv, OnlyRun, hostVars, cloudVars
  <2>4. QueueInv(r)' /\ CopiedInv(r)' /\ Above' /\ BatchInv(r)'
    BY <1>1, <2>1
    DEF CoverInv, PhaseInv, QueueInv, CopiedInv, Above, BatchInv, Behind, Present, StampOf,
        Keys, Current, storeVars, hostVars, cloudVars
  <2>5. \A t \in queue[r] : Upcoming(r, t) => t = s
    <3>1. \A t \in queue[r] : t \in Stamp
      BY <1>1, Stamps
    <3> QED
      BY <2>1, <3>1, BeforeIsOrder DEF Upcoming
  <2>6. Upcoming(r, s)' => Upcoming(r, s)
    BY <1>1, <2>1 DEF Upcoming, Before
  <2>7. \A t \in queue'[r] : Upcoming(r, t)' => t = s
    BY <1>1, <2>1, <2>5 DEF Upcoming, Before
  <2>8. PhaseInv(r)'
    BY <1>1, <2>1, <2>2, <2>4, <2>7 DEF CoverInv, PhaseInv, storeVars, hostVars
  <2> QED
    BY <2>3, <2>4, <2>8 DEF CoverInv
<1> QED
  BY <1>2, <1>3

\* The object that is written is below those still listed, and either what the
\* store has or behind them.
LEMMA WriteCovers ==
  ASSUME TInv, NEW r, Only(r), CoverInv(r), Write(r)
  PROVE  CoverInv(r)'
<1>1. /\ r \in Runs /\ TypeOK /\ pc[r] = "write"
      /\ UNCHANGED <<deployment, storeVars, hostVars, native, manifests, prefix, mark, faults>>
  BY TypeNow DEF Only, Write
<1>2. PICK s \in queue[r] :
         /\ \A t \in queue[r] \ {s} : Before(s, t)
         /\ mirror' = [mirror EXCEPT ![s.key] = bytes[r]]
         /\ copied' = [copied EXCEPT ![r] = @ \cup {[key |-> s.key, ver |-> bytes[r]]}]
         /\ queue' = [queue EXCEPT ![r] = @ \ {s}]
         /\ last' = [last EXCEPT ![r] = s]
  BY DEF Write, WriteToGcs
<1> DEFINE f == s.key
<1>3. /\ f \in Files /\ f \in Present /\ Later(s, mark[r]) /\ s \in Stamp
      /\ s = StampOf(f) \/ Behind(r, f)
      /\ bytes[r] = source[f].ver \/ Behind(r, f)
  BY <1>1, <1>2, Stamps DEF CoverInv, QueueInv, PhaseInv, Upcoming
<1>4. /\ pc'[r] = "read" /\ queue'[r] = queue[r] \ {s} /\ last'[r] = s
      /\ mirror'[f] = bytes[r] /\ \A g \in Files \ {f} : mirror'[g] = mirror[g]
      /\ \A v \in Runs \ {r} : pc'[v] = pc[v]
  BY <1>1, <1>2, <1>3 DEF Write, Goto, TypeOK
<1>5. Keys(copied'[r]) = Keys(copied[r]) \cup {f}
  <2> DEFINE e == [key |-> f, ver |-> bytes[r]]
  <2>1. copied'[r] = copied[r] \cup {e} /\ e.key = f
    BY <1>1, <1>2 DEF TypeOK
  <2> HIDE DEF e, f
  <2> QED
    BY <2>1 DEF Keys
<1>6. Present' = Present /\ \A g : StampOf(g)' = StampOf(g)
  BY <1>1 DEF Present, StampOf, storeVars
<1>7. \A g : Behind(r, g) => Behind(r, g)'
  BY <1>2, <1>4, <1>6 DEF Behind
<1>8. Later(StampOf(f), mark[r])
  <2>1. Behind(r, f) => Later(StampOf(f), s)
    BY <1>2 DEF Behind
  <2> QED
    BY <1>1, <1>3, <2>1, Stamps, LaterIsOrder
<1>9. OnlyRun(r)'
  BY <1>1, <1>4 DEF CoverInv, OnlyRun, hostVars
<1>10. QueueInv(r)'
  BY <1>1, <1>4, <1>6, <1>7 DEF CoverInv, QueueInv
<1>11. CopiedInv(r)'
  BY <1>1, <1>3, <1>5, <1>6, <1>8 DEF CoverInv, CopiedInv
<1>12. \A g \in Present \ {f} : Current(g) => Current(g)'
  BY <1>1, <1>4 DEF Current, Present, storeVars
<1>13. BatchInv(r)'
  <2> SUFFICES ASSUME NEW g \in Present
               PROVE  \/ Behind(r, g)'
                      \/ StampOf(g) \in queue'[r]
                      \/ g \in Keys(copied'[r]) /\ mirror'[g] = source[g].ver
                      \/ g \notin Keys(copied'[r]) /\ Current(g)'
    BY <1>1, <1>6 DEF BatchInv, storeVars
  <2>1. CASE g = f
    BY <1>3, <1>4, <1>5, <1>7, <2>1
  <2>2. CASE g # f
    <3>1. StampOf(g) # s /\ g \in Files
      BY <2>2 DEF StampOf, Present
    <3>2. \/ Behind(r, g)
          \/ StampOf(g) \in queue[r]
          \/ g \in Keys(copied[r]) /\ mirror[g] = source[g].ver
          \/ g \notin Keys(copied[r]) /\ Current(g)
      BY <1>1 DEF CoverInv, PhaseInv, BatchInv
    <3> QED
      BY <1>4, <1>5, <1>7, <1>12, <2>2, <3>1, <3>2
  <2> QED
    BY <2>1, <2>2
<1>14. PhaseInv(r)'
  BY <1>1, <1>4, <1>13 DEF CoverInv, PhaseInv, hostVars
<1>15. Above'
  <2> SUFFICES ASSUME NEW h \in Hosts, NEW g \in Present
               PROVE  Later(StampOf(g), wm[h]) \/ Current(g)'
    BY <1>1, <1>6 DEF Above, hostVars
  <2>1. CASE g = f /\ h = deployment.hostOf[r]
    BY <1>1, <1>8, <2>1 DEF CoverInv, PhaseInv
  <2>2. CASE g = f /\ h # deployment.hostOf[r]
    BY <2>2, AboveNoMark DEF CoverInv, OnlyRun
  <2>3. CASE g # f
    BY <1>12, <2>3 DEF CoverInv, Above
  <2> QED
    BY <2>1, <2>2, <2>3
<1> QED
  BY <1>9, <1>10, <1>11, <1>14, <1>15 DEF CoverInv

\* With rows of their own, the merged objects have the rows just copied, and the
\* others keep theirs.
FromGcs(row, f) == row.key = f /\ row.ver = mirror[f] /\ row # NoRow

LEMMA OrderlyMerge ==
  ASSUME Orderly, NEW S, S \subseteq Files, NEW f \in Files
  PROVE  /\ deployment.native /\ f \in S => FromGcs(Merged(S)[f], f)
         /\ ~ (deployment.native /\ f \in S) => Merged(S)[f] = native[f]
<1> DEFINE new == IF deployment.native THEN S \cap SameRows(f) ELSE {}
<1>1. SameRows(f) = {f} /\ f # 0
  BY DEF Orderly, Files
<1>2. FromGcs(Inserted(f), f) /\ FromGcs(Updated(f, f), f)
  BY <1>1 DEF FromGcs, Inserted, Updated, NoRow
<1>3. ASSUME deployment.native, f \in S
      PROVE  FromGcs(Merged(S)[f], f)
  <2>1. CASE ~ Matched(f)
    <3>1. ~ (HasKey(f) /\ native[f] # NoRow)
      BY <1>1, <2>1 DEF Matched
    <3>2. Merged(S)[f] = Inserted(f)
      BY <1>1, <1>3, <2>1, <3>1 DEF Merged
    <3> QED
      BY <1>2, <3>2
  <2>2. CASE Matched(f)
    <3>1. HasKey(f) /\ native[f] # NoRow /\ new = {f}
      BY <1>1, <1>3, <2>2 DEF Matched
    <3>2. Merged(S)[f] = Updated(f, f)
      <4>1. (CHOOSE g \in new : TRUE) = f
        BY <3>1
      <4> QED
        BY <2>2, <3>1, <4>1 DEF Merged
    <3> QED
      BY <1>2, <3>2
  <2> QED
    BY <2>1, <2>2
<1>4. ASSUME ~ (deployment.native /\ f \in S)
      PROVE  Merged(S)[f] = native[f]
  <2>1. new = {}
    BY <1>1, <1>4
  <2> QED
    BY <2>1 DEF Merged
<1> QED
  BY <1>3, <1>4

LEMMA PublishCovers ==
  ASSUME TInv, NEW r, Only(r), CoverInv(r), Publish(r)
  PROVE  CoverInv(r)'
<1>1. /\ r \in Runs /\ TypeOK /\ pc[r] = "read" /\ queue[r] = {} /\ Orderly
      /\ UNCHANGED <<deployment, storeVars, hostVars, mirror, manifests, faults>>
  BY TypeNow DEF Only, Publish
<1>2. CASE Over({r}) /\ UNCHANGED native
  <2>1. deployment.hostOf[r] \in Hosts
    BY <1>1, DeploymentType
  <2> QED
    BY <1>1, <1>2, <2>1, RunEnds DEF hostVars, CoverInv, Above
<1> DEFINE S == Keys(copied[r])
<1>3. CASE native' = Merged(S) /\ Goto(r, "manifest") /\ UNCHANGED <<prefix, mark, queue, copied, last, bytes>>
  <2>1. pc'[r] = "manifest" /\ \A v \in Runs \ {r} : pc'[v] = pc[v]
    BY <1>1, <1>3 DEF Goto, TypeOK
  <2>2. ASSUME NEW f \in Files
        PROVE  /\ deployment.native /\ f \in S =>
                     native'[f].key = f /\ native'[f].ver = mirror[f] /\ native'[f] # NoRow
               /\ ~ (deployment.native /\ f \in S) => native'[f] = native[f]
    <3>1. native'[f] = Merged(S)[f]
      BY <1>3
    <3>2. /\ deployment.native /\ f \in S => FromGcs(Merged(S)[f], f)
          /\ ~ (deployment.native /\ f \in S) => Merged(S)[f] = native[f]
      BY <1>1, KeysType, OrderlyMerge
    <3> DEFINE row == Merged(S)[f]
    <3> HIDE DEF S, row
    <3> QED
      BY <3>1, <3>2 DEF row, FromGcs
  <2>3. OnlyRun(r)'
    BY <1>1, <2>1, <2>2 DEF CoverInv, OnlyRun, hostVars
  <2>4. QueueInv(r)' /\ CopiedInv(r)'
    BY <1>1, <1>3
    DEF CoverInv, QueueInv, CopiedInv, Behind, Present, StampOf, Keys, storeVars
  <2>5. /\ \A f \in Present : f \in S /\ mirror[f] = source[f].ver => Current(f)'
        /\ \A f \in Present : f \notin S /\ Current(f) => Current(f)'
    BY <1>1, <2>2 DEF Current, Present, storeVars
  <2>6. \A f \in Present : Behind(r, f)' \/ Current(f)'
    <3>1. \A f \in Present : Behind(r, f) => Behind(r, f)'
      BY <1>1, <1>3 DEF Behind, StampOf, storeVars
    <3> QED
      BY <1>1, <2>5, <3>1 DEF CoverInv, PhaseInv, BatchInv
  <2>7. PhaseInv(r)'
    BY <1>1, <1>3, <2>1, <2>6 DEF CoverInv, PhaseInv, Present, hostVars, storeVars
  <2>8. Above'
    <3> SUFFICES ASSUME NEW h \in Hosts, NEW f \in Present
                 PROVE  Later(StampOf(f), wm[h]) \/ Current(f)'
      BY <1>1 DEF Above, Present, StampOf, hostVars, storeVars
    <3>1. CASE f \notin S
      BY <2>5, <3>1 DEF CoverInv, Above
    <3>2. CASE f \in S /\ h = deployment.hostOf[r]
      BY <1>1, <3>2 DEF CoverInv, CopiedInv, PhaseInv
    <3>3. CASE h # deployment.hostOf[r]
      BY <3>3, AboveNoMark DEF CoverInv, OnlyRun
    <3> QED
      BY <3>1, <3>2, <3>3
  <2> QED
    BY <2>3, <2>4, <2>7, <2>8 DEF CoverInv
<1> QED
  BY <1>2, <1>3 DEF Publish

LEMMA WriteManifestCovers ==
  ASSUME TInv, NEW r, Only(r), CoverInv(r), WriteManifest(r)
  PROVE  CoverInv(r)'
<1>1. /\ r \in Runs /\ TypeOK /\ pc[r] = "manifest"
      /\ UNCHANGED <<deployment, storeVars, hostVars, mirror, native, prefix, mark, queue, copied,
                     last, bytes, faults>>
  BY TypeNow DEF Only, WriteManifest
<1>2. pc'[r] = "mark" /\ \A v \in Runs \ {r} : pc'[v] = pc[v]
  BY <1>1 DEF WriteManifest, Goto, TypeOK
<1>3. OnlyRun(r)' /\ QueueInv(r)' /\ CopiedInv(r)' /\ Above'
  BY <1>1, <1>2
  DEF CoverInv, OnlyRun, QueueInv, CopiedInv, Above, Behind, Present, StampOf, Keys, Current,
      storeVars, hostVars
<1>4. PhaseInv(r)'
  BY <1>1, <1>2
  DEF CoverInv, PhaseInv, Behind, Present, StampOf, Current, storeVars, hostVars
<1> QED
  BY <1>3, <1>4 DEF CoverInv

LEMMA InitCovers == Init => CInv
<1> SUFFICES ASSUME Init, Orderly, NEW r \in Runs, deployment.runs = {r}
             PROVE  CoverInv(r)
  BY DEF CInv
<1>1. OnlyRun(r)
  BY DEF Init, OnlyRun
<1>2. Present = {}
  BY DEF Init, Present
<1>3. QueueInv(r) /\ CopiedInv(r) /\ PhaseInv(r) /\ Above
  BY <1>2 DEF Init, QueueInv, CopiedInv, PhaseInv, Above, Keys
<1> QED
  BY <1>1, <1>3 DEF CoverInv

LEMMA NextCovers == TInv /\ TInv' /\ CInv /\ [Next]_vars => CInv'
<1> SUFFICES ASSUME TInv, TInv', CInv, [Next]_vars, Orderly',
                    NEW r \in Runs, (deployment.runs = {r})'
             PROVE  CoverInv(r)'
  BY DEF CInv
<1>1. deployment' = deployment
  BY DEF Next, Step, PutSource, Start, List, Read, Write, Publish, WriteManifest, WriteWatermark,
         Raise, Crash, vars
<1>2. Only(r)
  BY <1>1 DEF Only, Orderly, SameRows
<1>3. CoverInv(r)
  BY <1>2 DEF CInv, Only
<1>4. CASE UNCHANGED vars
  <2>1. OnlyRun(r)' /\ QueueInv(r)' /\ CopiedInv(r)'
    BY <1>3, <1>4
    DEF CoverInv, OnlyRun, QueueInv, CopiedInv, Behind, Present, StampOf, Keys, vars, storeVars,
        hostVars, cloudVars, runVars
  <2>2. Above'
    BY <1>3, <1>4
    DEF CoverInv, Above, Present, StampOf, Current, vars, storeVars, hostVars, cloudVars
  <2>3. PhaseInv(r)'
    BY <1>3, <1>4
    DEF CoverInv, PhaseInv, BatchInv, Behind, Present, StampOf, Keys, Current, Upcoming, Before,
        vars, storeVars, hostVars, cloudVars, runVars
  <2> QED
    BY <2>1, <2>2, <2>3 DEF CoverInv
<1>5. ASSUME NEW f \in Files, PutSource(f)
      PROVE  CoverInv(r)'
  BY <1>2, <1>3, <1>5, PutSourceCovers
<1>6. ASSUME NEW v \in Runs, (\E p \in Prefixes : Start(v, p)) \/ Step(v) \/ Raise(v)
      PROVE  CoverInv(r)'
  <2>1. v = r
    BY <1>2, <1>3, <1>6, OthersRest DEF CoverInv
  <2>2. CASE \E p \in Prefixes : Start(r, p)
    BY <1>2, <1>3, <2>2, StartCovers
  <2>3. CASE Step(r)
    BY <1>2, <1>3, <2>3, ListCovers, ReadCovers, WriteCovers, PublishCovers, WriteManifestCovers,
       WriteWatermarkCovers DEF Step
  <2>4. CASE Raise(r)
    BY <1>2, <1>3, <2>4, RaiseCovers
  <2> QED
    BY <1>6, <2>1, <2>2, <2>3, <2>4
<1>7. ASSUME NEW h \in Hosts, Crash(h)
      PROVE  CoverInv(r)'
  BY <1>2, <1>3, <1>7, CrashCovers
<1> QED
  BY <1>4, <1>5, <1>6, <1>7 DEF Next

LEMMA CoverInvariance == Spec => [](TInv /\ CInv)
<1>1. TInv /\ CInv /\ [Next]_vars => (TInv /\ CInv)'
  BY NextType, NextCovers
<1> QED
  BY InitType, InitCovers, <1>1, PTL DEF Spec

\* The watermark never hides an object that is not mirrored in its last version,
\* for any number of objects, whatever the limits, and however often producers
\* write during a run, objects are invalid, steps raise or the host dies.
THEOREM WatermarkIsHonest == Spec => []Covered
<1>1. TInv /\ CInv => Covered
  <2> SUFFICES ASSUME TInv, CInv, Orderly, NEW h \in Hosts, NEW f \in Present,
                      ~ Later(StampOf(f), wm[h])
               PROVE  Mirrored(f)
    BY DEF Covered
  <2>1. PICK r \in Runs : deployment.runs = {r}
    BY DEF Orderly
  <2>2. CoverInv(r)
    BY <2>1 DEF CInv
  <2>3. Current(f) /\ f \in Files
    BY <2>2 DEF CoverInv, Above, Present
  <2>4. SameRows(f) = {f} /\ (native[f] # NoRow => native[f].key = f)
    BY <2>2, <2>3 DEF Orderly, CoverInv, OnlyRun
  <2> QED
    BY <2>3, <2>4 DEF Mirrored, InTable, Current
<1> QED
  BY <1>1, CoverInvariance, PTL

-----------------------------------------------------------------------------
(* The lineage of an orderly deployment.                                   *)

\* Versions only grow on their way from the store through GCS to the table, and
\* what a run has read is not older than what it replaces.
VersionsInv ==
    \A f \in Files :
        native[f].ver <= mirror[f] /\ mirror[f] <= source[f].ver /\ source[f].ver <= writes

Reading(r) ==
    pc[r] = "write" =>
        \A s \in queue[r] : Upcoming(r, s) =>
            mirror[s.key] <= bytes[r] /\ bytes[r] <= source[s.key].ver

Shipped(r) ==
    /\ \A e \in copied[r] : e.ver <= mirror[e.key]
    /\ pc[r] \in {"manifest", "mark"} /\ deployment.native =>
          \A e \in copied[r] : e.ver <= native[e.key].ver

Listed ==
    deployment.native =>
        \A m \in DOMAIN manifests : \A e \in manifests[m] : native[e.key].ver >= e.ver

LineageInv(r) == VersionsInv /\ Reading(r) /\ Shipped(r) /\ Listed

LInv == Orderly => \A r \in Runs : deployment.runs = {r} => LineageInv(r)

\* The versions are numbers.
LEMMA Versions ==
  ASSUME TInv
  PROVE  /\ writes \in Nat
         /\ \A f \in Files : native[f].ver \in Nat /\ mirror[f] \in Nat /\ source[f].ver \in Nat
         /\ \A r \in Runs : bytes[r] \in Nat
         /\ \A r \in Runs : \A e \in copied[r] : e.key \in Files /\ e.ver \in Nat
         /\ \A m \in DOMAIN manifests : \A e \in manifests[m] : e.key \in Files /\ e.ver \in Nat
<1>1. TypeOK
  BY DEF TInv
<1>2. /\ writes \in Nat /\ \A r \in Runs : bytes[r] \in Nat
      /\ \A f \in Files : native[f].ver \in Nat /\ mirror[f] \in Nat /\ source[f].ver \in Nat
  BY <1>1 DEF TypeOK, Row
<1>3. \A r \in Runs : \A e \in copied[r] : e.key \in Files /\ e.ver \in Nat
  BY <1>1 DEF TypeOK, Lineage
<1>4. \A m \in DOMAIN manifests : \A e \in manifests[m] : e.key \in Files /\ e.ver \in Nat
  <2>1. \A m \in DOMAIN manifests : manifests[m] \in Lineage
    BY <1>1 DEF TypeOK
  <2> QED
    BY <2>1 DEF Lineage
<1> QED
  BY <1>2, <1>3, <1>4

LEMMA PutSourceLineage ==
  ASSUME TInv, NEW r, Only(r), LineageInv(r), NEW f \in Files, PutSource(f)
  PROVE  LineageInv(r)'
<1>1. /\ writes' = writes + 1 /\ UNCHANGED <<deployment, hostVars, cloudVars, runVars>>
      /\ \E good \in BOOLEAN :
            source' = [source EXCEPT ![f] = [at |-> now', ver |-> writes', good |-> good]]
  BY DEF PutSource
<1>2. source'[f].ver = writes + 1 /\ \A g \in Files \ {f} : source'[g] = source[g]
  BY <1>1, TypeNow DEF TypeOK
<1>3. r \in Runs
  BY DEF Only
<1>4. \A g \in Files : source[g].ver <= source'[g].ver
  BY <1>2, Versions DEF LineageInv, VersionsInv
<1>5. VersionsInv'
  <2> SUFFICES ASSUME NEW g \in Files
               PROVE  /\ native[g].ver <= mirror[g] /\ mirror[g] <= source'[g].ver
                      /\ source'[g].ver <= writes + 1
    BY <1>1 DEF VersionsInv, cloudVars
  <2>1. /\ native[g].ver <= mirror[g] /\ mirror[g] <= source[g].ver /\ source[g].ver <= writes
    BY DEF LineageInv, VersionsInv
  <2> QED
    BY <1>2, <2>1, Versions
<1>6. Reading(r)'
  <2> SUFFICES ASSUME pc[r] = "write", NEW s \in queue[r], Upcoming(r, s)
               PROVE  mirror[s.key] <= bytes[r] /\ bytes[r] <= source'[s.key].ver
    BY <1>1 DEF Reading, Upcoming, Before, runVars, cloudVars
  <2>1. s.key \in Files /\ mirror[s.key] <= bytes[r] /\ bytes[r] <= source[s.key].ver
    BY <1>3, Stamps DEF LineageInv, Reading
  <2>2. source'[s.key].ver \in Nat
    BY <1>2, <2>1, Versions
  <2> QED
    BY <1>3, <1>4, <2>1, <2>2, Versions
<1>7. Shipped(r)' /\ Listed'
  BY <1>1 DEF LineageInv, Shipped, Listed, runVars, cloudVars
<1> QED
  BY <1>5, <1>6, <1>7 DEF LineageInv

\* A run ends, or another one does.
LEMMA LineageOver ==
  ASSUME TInv, NEW r, Only(r), LineageInv(r), NEW R, Over(R),
         UNCHANGED <<deployment, storeVars, cloudVars>>
  PROVE  LineageInv(r)'
<1>1. r \in Runs /\ TypeOK
  BY DEF Only, TInv
<1>2. VersionsInv' /\ Listed'
  BY DEF LineageInv, VersionsInv, Listed, storeVars, cloudVars
<1>3. CASE r \in R
  BY <1>1, <1>2, <1>3, OverRuns DEF LineageInv, Reading, Shipped
<1>4. CASE r \notin R
  <2>1. /\ pc'[r] = pc[r] /\ queue'[r] = queue[r] /\ copied'[r] = copied[r] /\ bytes'[r] = bytes[r]
    BY <1>1, <1>4, OverRuns
  <2> QED
    BY <1>2, <2>1 DEF LineageInv, Reading, Shipped, Upcoming, Before, storeVars, cloudVars
<1> QED
  BY <1>3, <1>4

\* A step in which nothing is read, copied or merged.
LEMMA LineageStands ==
  ASSUME NEW r, LineageInv(r), pc'[r] # "write",
         pc'[r] \in {"manifest", "mark"} => pc[r] \in {"manifest", "mark"},
         UNCHANGED <<deployment, storeVars, mirror, native, manifests, copied>>
  PROVE  LineageInv(r)'
BY DEF LineageInv, VersionsInv, Reading, Shipped, Listed, storeVars

LEMMA ReadLineage ==
  ASSUME TInv, NEW r, Only(r), LineageInv(r), Read(r)
  PROVE  LineageInv(r)'
<1>1. r \in Runs /\ TypeOK /\ UNCHANGED <<deployment, storeVars, hostVars, cloudVars, faults>>
  BY DEF Only, TInv, Read
<1>2. CASE Over({r})
  BY <1>1, <1>2, LineageOver
<1>3. CASE ~ Over({r})
  <2>1. PICK s \in queue[r] :
           /\ \A t \in queue[r] \ {s} : Before(s, t)
           /\ Goto(r, "write")
           /\ bytes' = [bytes EXCEPT ![r] = source[s.key].ver]
           /\ UNCHANGED <<prefix, mark, queue, copied, last>>
    BY <1>3 DEF Read
  <2>2. pc'[r] = "write" /\ bytes'[r] = source[s.key].ver /\ s.key \in Files
    BY <1>1, <2>1, Stamps DEF Goto, TypeOK
  <2>3. \A t \in queue'[r] : Upcoming(r, t)' => t = s
    <3>1. \A t \in queue[r] : t \in Stamp
      BY <1>1, Stamps
    <3> QED
      BY <1>1, <2>1, <3>1, BeforeIsOrder DEF Upcoming, Before
  <2>4. mirror[s.key] <= bytes'[r] /\ bytes'[r] <= source[s.key].ver
    BY <2>2, Versions DEF LineageInv, VersionsInv
  <2>5. Reading(r)'
    BY <1>1, <2>3, <2>4 DEF Reading, storeVars, cloudVars
  <2> QED
    BY <1>1, <2>1, <2>2, <2>5 DEF LineageInv, VersionsInv, Shipped, Listed, storeVars, cloudVars
<1> QED
  BY <1>2, <1>3

LEMMA WriteLineage ==
  ASSUME TInv, NEW r, Only(r), LineageInv(r), Write(r)
  PROVE  LineageInv(r)'
<1>1. /\ r \in Runs /\ TypeOK /\ pc[r] = "write"
      /\ UNCHANGED <<deployment, storeVars, hostVars, native, manifests, prefix, mark, faults>>
  BY DEF Only, TInv, Write
<1>2. PICK s \in queue[r] :
         /\ \A t \in queue[r] \ {s} : Before(s, t)
         /\ mirror' = [mirror EXCEPT ![s.key] = bytes[r]]
         /\ copied' = [copied EXCEPT ![r] = @ \cup {[key |-> s.key, ver |-> bytes[r]]}]
  BY DEF Write, WriteToGcs
<1> DEFINE f == s.key
<1>3. /\ f \in Files /\ mirror[f] <= bytes[r] /\ bytes[r] <= source[f].ver
  BY <1>1, <1>2, Stamps DEF LineageInv, Reading, Upcoming
<1>4. /\ mirror'[f] = bytes[r] /\ \A g \in Files \ {f} : mirror'[g] = mirror[g]
      /\ copied'[r] = copied[r] \cup {[key |-> f, ver |-> bytes[r]]}
      /\ pc'[r] = "read"
  BY <1>1, <1>2, <1>3 DEF Write, Goto, TypeOK
<1>5. \A g \in Files : mirror[g] <= mirror'[g] /\ mirror'[g] <= source[g].ver /\ mirror'[g] \in Nat
  BY <1>1, <1>3, <1>4, Versions DEF LineageInv, VersionsInv
<1>6. VersionsInv'
  <2> SUFFICES ASSUME NEW g \in Files
               PROVE  native[g].ver <= mirror'[g] /\ mirror'[g] <= source[g].ver /\ source[g].ver <= writes
    BY <1>1 DEF VersionsInv, storeVars
  <2>1. native[g].ver <= mirror[g] /\ source[g].ver <= writes
    BY DEF LineageInv, VersionsInv
  <2> QED
    BY <1>5, <2>1, Versions
<1>7. Shipped(r)'
  <2> SUFFICES ASSUME NEW e \in copied'[r]
               PROVE  e.ver <= mirror'[e.key]
    BY <1>4 DEF Shipped
  <2>1. CASE e \in copied[r]
    <3>1. e.key \in Files /\ e.ver \in Nat /\ e.ver <= mirror[e.key]
      BY <1>1, <2>1, Versions DEF LineageInv, Shipped
    <3> QED
      BY <1>5, <3>1, Versions
  <2>2. CASE e = [key |-> f, ver |-> bytes[r]]
    <3>1. e.key = f /\ e.ver = bytes[r]
      BY <2>2
    <3> QED
      BY <1>1, <1>4, <3>1, Versions
  <2> QED
    BY <1>4, <2>1, <2>2
<1>8. Reading(r)' /\ Listed'
  BY <1>1, <1>4 DEF LineageInv, Reading, Listed
<1> QED
  BY <1>6, <1>7, <1>8 DEF LineageInv

LEMMA PublishLineage ==
  ASSUME TInv, NEW r, Only(r), LineageInv(r), Publish(r)
  PROVE  LineageInv(r)'
<1>1. /\ r \in Runs /\ TypeOK /\ Orderly
      /\ UNCHANGED <<deployment, storeVars, hostVars, mirror, manifests, faults>>
  BY DEF Only, TInv, Publish
<1>2. CASE Over({r}) /\ UNCHANGED native
  BY <1>1, <1>2, LineageOver DEF cloudVars
<1> DEFINE S == Keys(copied[r])
<1>3. CASE native' = Merged(S) /\ Goto(r, "manifest") /\ UNCHANGED <<prefix, mark, queue, copied, last, bytes>>
  <2>1. pc'[r] = "manifest"
    BY <1>1, <1>3 DEF Goto, TypeOK
  <2>2. ASSUME NEW f \in Files
        PROVE  /\ deployment.native /\ f \in S => native'[f].ver = mirror[f]
               /\ ~ (deployment.native /\ f \in S) => native'[f] = native[f]
    <3>1. native'[f] = Merged(S)[f]
      BY <1>3
    <3>2. /\ deployment.native /\ f \in S => FromGcs(Merged(S)[f], f)
          /\ ~ (deployment.native /\ f \in S) => Merged(S)[f] = native[f]
      BY <1>1, KeysType, OrderlyMerge
    <3> DEFINE row == Merged(S)[f]
    <3> HIDE DEF S, row
    <3> QED
      BY <3>1, <3>2 DEF row, FromGcs
  <2>3. \A f \in Files : native[f].ver <= native'[f].ver /\ native'[f].ver <= mirror[f] /\ native'[f].ver \in Nat
    <3> SUFFICES ASSUME NEW f \in Files
                 PROVE  native[f].ver <= native'[f].ver /\ native'[f].ver <= mirror[f] /\ native'[f].ver \in Nat
      OBVIOUS
    <3>1. native[f].ver <= mirror[f] /\ native[f].ver \in Nat /\ mirror[f] \in Nat
      BY Versions DEF LineageInv, VersionsInv
    <3>2. native'[f].ver = mirror[f] \/ native'[f] = native[f]
      BY <2>2
    <3> QED
      BY <3>1, <3>2
  <2>4. VersionsInv'
    BY <1>1, <2>3 DEF LineageInv, VersionsInv, storeVars
  <2>5. Reading(r)'
    BY <2>1 DEF Reading
  <2>6. Shipped(r)'
    <3>1. \A e \in copied[r] : e.ver <= mirror[e.key] /\ e.key \in Files /\ e.key \in S
      BY <1>1, Versions DEF LineageInv, Shipped, Keys
    <3>2. \A e \in copied[r] : deployment.native => e.ver <= native'[e.key].ver
      BY <2>2, <3>1
    <3> QED
      BY <1>1, <1>3, <3>1, <3>2 DEF Shipped
  <2>7. Listed'
    <3> SUFFICES ASSUME deployment.native, NEW m \in DOMAIN manifests, NEW e \in manifests[m]
                 PROVE  native'[e.key].ver >= e.ver
      BY <1>1 DEF Listed
    <3>1. e.key \in Files /\ e.ver \in Nat /\ native[e.key].ver >= e.ver
      BY Versions DEF LineageInv, Listed
    <3> QED
      BY <2>3, <3>1, Versions
  <2> QED
    BY <2>4, <2>5, <2>6, <2>7 DEF LineageInv
<1> QED
  BY <1>2, <1>3 DEF Publish

LEMMA WriteManifestLineage ==
  ASSUME TInv, NEW r, Only(r), LineageInv(r), WriteManifest(r)
  PROVE  LineageInv(r)'
<1>1. /\ r \in Runs /\ TypeOK /\ pc[r] = "manifest"
      /\ UNCHANGED <<deployment, storeVars, hostVars, mirror, native, copied>>
      /\ \E m : manifests' = [manifests EXCEPT ![m] = copied[r]]
  BY DEF Only, TInv, WriteManifest
<1>2. pc'[r] = "mark"
  BY <1>1 DEF WriteManifest, Goto, TypeOK
<1>3. Listed'
  <2> SUFFICES ASSUME deployment.native, NEW n \in DOMAIN manifests', NEW e \in manifests'[n]
               PROVE  native[e.key].ver >= e.ver
    BY <1>1 DEF Listed
  <2>1. n \in DOMAIN manifests /\ (manifests'[n] = manifests[n] \/ manifests'[n] = copied[r])
    BY <1>1 DEF TypeOK
  <2>2. CASE e \in manifests[n]
    BY <2>1, <2>2 DEF LineageInv, Listed
  <2>3. CASE e \in copied[r]
    <3>1. e.ver <= native[e.key].ver /\ e.key \in Files /\ e.ver \in Nat
      BY <1>1, <2>3, Versions DEF LineageInv, Shipped
    <3> QED
      BY <3>1, Versions
  <2> QED
    BY <2>1, <2>2, <2>3
<1> QED
  BY <1>1, <1>2, <1>3 DEF LineageInv, VersionsInv, Reading, Shipped, storeVars

LEMMA InitLineage == Init => LInv
<1> SUFFICES ASSUME Init, NEW r \in Runs
             PROVE  LineageInv(r)
  BY DEF LInv
<1>1. VersionsInv
  BY DEF Init, VersionsInv, NoRow
<1>2. Reading(r) /\ Shipped(r)
  BY DEF Init, Reading, Shipped
<1>3. Listed
  <2>1. \A m \in DOMAIN manifests : manifests[m] = {}
    BY DEF Init
  <2> QED
    BY <2>1 DEF Listed
<1> QED
  BY <1>1, <1>2, <1>3 DEF LineageInv

LEMMA NextLineage == TInv /\ CInv /\ LInv /\ [Next]_vars => LInv'
<1> SUFFICES ASSUME TInv, CInv, LInv, [Next]_vars, Orderly',
                    NEW r \in Runs, (deployment.runs = {r})'
             PROVE  LineageInv(r)'
  BY DEF LInv
<1>1. deployment' = deployment
  BY DEF Next, Step, PutSource, Start, List, Read, Write, Publish, WriteManifest, WriteWatermark,
         Raise, Crash, vars
<1>2. Only(r)
  BY <1>1 DEF Only, Orderly, SameRows
<1>3. LineageInv(r) /\ OnlyRun(r) /\ TypeOK
  BY <1>2 DEF CInv, CoverInv, LInv, Only, TInv
<1>4. CASE UNCHANGED vars
  BY <1>3, <1>4
  DEF LineageInv, VersionsInv, Reading, Shipped, Listed, Upcoming, Before, vars, storeVars,
      cloudVars, runVars
<1>5. ASSUME NEW f \in Files, PutSource(f)
      PROVE  LineageInv(r)'
  BY <1>2, <1>3, <1>5, PutSourceLineage
<1>6. ASSUME NEW v \in Runs, (\E p \in Prefixes : Start(v, p)) \/ Step(v) \/ Raise(v)
      PROVE  LineageInv(r)'
  <2>1. v = r
    BY <1>2, <1>3, <1>6, OthersRest
  <2>2. CASE \E p \in Prefixes : Start(r, p)
    BY <1>3, <2>2, LineageStands DEF Start, Goto, TypeOK, cloudVars
  <2>3. CASE List(r)
    BY <1>3, <2>3, LineageStands DEF List, Goto, TypeOK, cloudVars
  <2>4. CASE Read(r) \/ Write(r) \/ Publish(r) \/ WriteManifest(r)
    BY <1>2, <1>3, <2>4, ReadLineage, WriteLineage, PublishLineage, WriteManifestLineage
  <2>5. CASE WriteWatermark(r)
    BY <1>2, <1>3, <2>5, LineageOver DEF WriteWatermark
  <2>6. CASE Raise(r)
    BY <1>2, <1>3, <2>6, LineageOver DEF Raise
  <2> QED
    BY <1>6, <2>1, <2>2, <2>3, <2>4, <2>5, <2>6 DEF Step
<1>7. ASSUME NEW h \in Hosts, Crash(h)
      PROVE  LineageInv(r)'
  BY <1>2, <1>3, <1>7, LineageOver DEF Crash
<1> QED
  BY <1>4, <1>5, <1>6, <1>7 DEF Next

\* Every version a manifest reports as matched is in the native table, or a newer
\* one is: the checksums of the lineage are those of published bytes.
THEOREM LineageHolds == Spec => []LineageIsPublished
<1>1. LInv => LineageIsPublished
  BY DEF LInv, LineageInv, Listed, Orderly, LineageIsPublished
<1>2. TInv /\ CInv /\ LInv /\ [Next]_vars => (TInv /\ CInv /\ LInv)'
  BY NextType, NextCovers, NextLineage
<1> QED
  BY InitType, InitCovers, InitLineage, <1>1, <1>2, PTL DEF Spec

-----------------------------------------------------------------------------
(* The native table, however many runs overlap: rows with a key are inserted *)
(* once, and from one of their objects if runs take one object at a time.   *)

Handled(r) == Keys(copied[r]) \cup {s.key : s \in queue[r]}

OneObject(r) ==
    /\ \A f, g \in Handled(r) : f = g
    /\ pc[r] \in {"idle", "list"} => copied[r] = {}

OneRow ==
    \A f, g \in Files :
        HasKey(f) /\ g \in SameRows(f) /\ native[f] # NoRow /\ native[g] # NoRow => f = g

RowsInv == deployment.limits = {1} => OneRow /\ \A r \in Runs : OneObject(r)

OneCopy == \A f \in Files : HasKey(f) => native[f].copies <= 1

LEMMA InitRows == Init => RowsInv /\ OneCopy
BY DEF Init, RowsInv, OneRow, OneObject, OneCopy, Handled, Keys, NoRow

\* A batch of one: the object that no other one comes before.
LEMMA BatchOfOne ==
  ASSUME TInv, NEW S, S \subseteq {StampOf(f) : f \in Files}, NEW s \in Batch(S, 1), NEW t \in Batch(S, 1)
  PROVE  s = t
<1> DEFINE Under(x) == {y \in S : Before(y, x)}
<1>1. s \in S /\ t \in S /\ Cardinality(Under(s)) < 1 /\ Cardinality(Under(t)) < 1
  BY DEF Batch
<1>2. S \subseteq Stamp /\ s \in Stamp /\ t \in Stamp
  BY <1>1, Stamps
<1>3. IsFiniteSet(S)
  BY StampsFinite
<1>4. ASSUME NEW x \in S, Cardinality(Under(x)) < 1
      PROVE  Under(x) = {}
  <2>1. IsFiniteSet(Under(x))
    BY <1>3, FS_Subset
  <2>2. Cardinality(Under(x)) = 0
    BY <1>4, <2>1, FS_CardinalityType
  <2> QED
    BY <2>1, <2>2, FS_EmptySet
<1>5. ~ Before(s, t) /\ ~ Before(t, s)
  BY <1>1, <1>4
<1>6. CASE deployment.byTime
  BY <1>2, <1>5, <1>6, LaterIsOrder DEF Before
<1>7. CASE ~ deployment.byTime
  <2>1. s.key \in Int /\ t.key \in Int
    BY <1>2 DEF Stamp
  <2>2. s.key = t.key
    BY <1>5, <1>7, <2>1 DEF Before
  <2> QED
    BY <1>1, <2>2 DEF StampOf
<1> QED
  BY <1>6, <1>7

\* A run is over, or goes on with no more objects than before.
LEMMA OneObjectOver ==
  ASSUME NEW R, Over(R), NEW r \in Runs, TypeOK, OneObject(r)
  PROVE  OneObject(r)'
<1>1. CASE r \in R
  BY <1>1, OverRuns DEF OneObject, Handled, Keys
<1>2. CASE r \notin R
  <2>1. pc'[r] = pc[r] /\ queue'[r] = queue[r] /\ copied'[r] = copied[r]
    BY <1>2, OverRuns
  <2> QED
    BY <2>1 DEF OneObject, Handled, Keys
<1> QED
  BY <1>1, <1>2

LEMMA OneObjectStands ==
  ASSUME NEW r, OneObject(r), queue'[r] = queue[r], copied'[r] = copied[r],
         pc'[r] \in {"idle", "list"} => pc[r] \in {"idle", "list"}
  PROVE  OneObject(r)'
BY DEF OneObject, Handled, Keys

\* The rows of at most one object are inserted, and only if the table has none of them.
LEMMA MergeOne ==
  ASSUME OneRow, NEW S, S \subseteq Files, \A f, g \in S : f = g,
         native' = Merged(S), UNCHANGED deployment
  PROVE  OneRow'
<1>1. ASSUME NEW f \in Files, native'[f] # NoRow, native[f] = NoRow
      PROVE  f \in S /\ ~ Matched(f)
  BY <1>1, MergedRow
<1> SUFFICES ASSUME NEW f \in Files, NEW g \in Files, HasKey(f), g \in SameRows(f),
                    native'[f] # NoRow, native'[g] # NoRow
             PROVE  f = g
  BY DEF OneRow, SameRows, HasKey
<1>2. f \in SameRows(g) /\ HasKey(g)
  BY DEF SameRows, HasKey
<1>3. CASE native[f] # NoRow /\ native[g] # NoRow
  BY <1>3 DEF OneRow
<1>4. CASE native[f] = NoRow
  <2>1. native[g] = NoRow
    BY <1>1, <1>4 DEF Matched
  <2> QED
    BY <1>1, <1>4, <2>1
<1>5. CASE native[g] = NoRow
  <2>1. native[f] = NoRow
    BY <1>1, <1>2, <1>5 DEF Matched
  <2> QED
    BY <1>1, <1>5, <2>1
<1> QED
  BY <1>3, <1>4, <1>5

\* A row is inserted only if the table has none of its key, and updated in place.
LEMMA NextCopies == TInv /\ OneCopy /\ [Next]_vars => OneCopy'
<1> SUFFICES ASSUME TInv, OneCopy, [Next]_vars
             PROVE  OneCopy'
  OBVIOUS
<1>1. deployment' = deployment /\ TypeOK
  BY DEF Next, Step, PutSource, Start, List, Read, Write, Publish, WriteManifest, WriteWatermark,
         Raise, Crash, vars, TInv
<1>2. CASE UNCHANGED native
  BY <1>1, <1>2 DEF OneCopy, HasKey
<1>3. ASSUME NEW v \in Runs, native' = Merged(Keys(copied[v]))
      PROVE  OneCopy'
  <2> SUFFICES ASSUME NEW f \in Files, HasKey(f)
               PROVE  native'[f].copies <= 1
    BY <1>1 DEF OneCopy, HasKey
  <2> DEFINE S == Keys(copied[v])
  <2>1. S \subseteq Files /\ native'[f] = Merged(S)[f] /\ native[f].copies <= 1
    BY <1>3, KeysType DEF OneCopy
  <2> HIDE DEF S
  <2>2. CASE ~ Matched(f) /\ Merged(S)[f] = Inserted(f)
    <3>1. native[f].copies = 0
      BY <2>2 DEF Matched, SameRows, NoRow
    <3> QED
      BY <2>1, <2>2, <3>1 DEF Inserted
  <2>3. ASSUME NEW g, Merged(S)[f] = Updated(f, g)
        PROVE  native'[f].copies <= 1
    BY <2>1, <2>3 DEF Updated
  <2>4. CASE Merged(S)[f] = native[f]
    BY <2>1, <2>4
  <2> QED
    BY <1>1, <2>1, <2>2, <2>3, <2>4, MergedRow
<1>4. (UNCHANGED native) \/ \E v \in Runs : native' = Merged(Keys(copied[v]))
  BY DEF Next, Step, PutSource, Start, List, Read, Write, Publish, WriteManifest, WriteWatermark,
         Raise, Crash, vars, cloudVars
<1> QED
  BY <1>2, <1>3, <1>4

LEMMA NextRows == TInv /\ RowsInv /\ [Next]_vars => RowsInv'
<1> SUFFICES ASSUME TInv, RowsInv, [Next]_vars, deployment'.limits = {1}
             PROVE  OneRow' /\ \A r \in Runs : OneObject(r)'
  BY DEF RowsInv
<1>1. deployment' = deployment /\ TypeOK
  BY DEF Next, Step, PutSource, Start, List, Read, Write, Publish, WriteManifest, WriteWatermark,
         Raise, Crash, vars, TInv
<1>2. OneRow /\ (\A r \in Runs : OneObject(r)) /\ deployment.limits = {1}
  BY <1>1 DEF RowsInv
<1>3. ASSUME UNCHANGED native
      PROVE  OneRow'
  BY <1>1, <1>2, <1>3 DEF OneRow, SameRows, HasKey
<1>4. CASE UNCHANGED <<native, pc, queue, copied>>
  BY <1>2, <1>3, <1>4 DEF OneObject, Handled, Keys
<1>5. ASSUME NEW v \in Runs, (\E p \in Prefixes : Start(v, p)) \/ WriteManifest(v)
      PROVE  OneRow' /\ \A r \in Runs : OneObject(r)'
  <2>1. UNCHANGED <<native, queue, copied>>
    BY <1>5 DEF Start, WriteManifest, cloudVars
  <2>2. \A r \in Runs : pc'[r] \in {"idle", "list"} => pc[r] \in {"idle", "list"}
    BY <1>1, <1>5 DEF Start, WriteManifest, Goto, TypeOK
  <2> QED
    BY <1>2, <1>3, <2>1, <2>2, OneObjectStands
<1>6. ASSUME NEW R, Over(R), UNCHANGED native
      PROVE  OneRow' /\ \A r \in Runs : OneObject(r)'
  BY <1>1, <1>2, <1>3, <1>6, OneObjectOver
<1>7. ASSUME NEW v \in Runs, List(v)
      PROVE  OneRow' /\ \A r \in Runs : OneObject(r)'
  <2> DEFINE S == NewObjects(prefix[v], mark[v])
  <2>1. S \subseteq {StampOf(f) : f \in Files}
    BY DEF NewObjects, Present
  <2> HIDE DEF S
  <2>2. /\ queue' = [queue EXCEPT ![v] = Batch(S, 1)] /\ pc[v] = "list" /\ Goto(v, "read")
        /\ UNCHANGED <<native, copied>>
    BY <1>2, <1>7 DEF List, S, cloudVars
  <2>3. OneObject(v)'
    <3>1. copied'[v] = {} /\ queue'[v] = Batch(S, 1) /\ pc'[v] = "read"
      BY <1>1, <1>2, <2>2 DEF OneObject, Goto, TypeOK
    <3>2. \A s, t \in Batch(S, 1) : s = t
      BY <2>1, BatchOfOne
    <3> QED
      BY <3>1, <3>2 DEF OneObject, Handled, Keys
  <2>4. ASSUME NEW r \in Runs \ {v}
        PROVE  OneObject(r)'
    BY <1>1, <1>2, <2>2, <2>4, OneObjectStands DEF Goto, TypeOK
  <2> QED
    BY <1>3, <2>2, <2>3, <2>4
<1>8. ASSUME NEW v \in Runs, Read(v), ~ Over({v})
      PROVE  OneRow' /\ \A r \in Runs : OneObject(r)'
  <2>1. UNCHANGED <<native, queue, copied>> /\ Goto(v, "write")
    BY <1>8 DEF Read, cloudVars
  <2> QED
    BY <1>1, <1>2, <1>3, <2>1, OneObjectStands DEF Goto, TypeOK
<1>9. ASSUME NEW v \in Runs, Write(v)
      PROVE  OneRow' /\ \A r \in Runs : OneObject(r)'
  <2>1. PICK s \in queue[v] :
           /\ copied' = [copied EXCEPT ![v] = @ \cup {[key |-> s.key, ver |-> bytes[v]]}]
           /\ queue' = [queue EXCEPT ![v] = @ \ {s}]
    BY <1>9 DEF Write
  <2>2. UNCHANGED native /\ Goto(v, "read")
    BY <1>9 DEF Write
  <2>3. OneObject(v)'
    <3>1. /\ copied'[v] = copied[v] \cup {[key |-> s.key, ver |-> bytes[v]]}
          /\ queue'[v] = queue[v] \ {s} /\ pc'[v] = "read"
      BY <1>1, <2>1, <2>2 DEF Goto, TypeOK
    <3> DEFINE e == [key |-> s.key, ver |-> bytes[v]]
    <3>2. Keys(copied'[v]) = Keys(copied[v]) \cup {s.key}
      <4>1. e.key = s.key /\ copied'[v] = copied[v] \cup {e}
        BY <3>1
      <4> HIDE DEF e
      <4> QED
        BY <4>1 DEF Keys
    <3>3. Handled(v)' \subseteq Handled(v)
      BY <3>1, <3>2 DEF Handled
    <3> QED
      BY <1>2, <3>1, <3>3 DEF OneObject
  <2>4. ASSUME NEW r \in Runs \ {v}
        PROVE  OneObject(r)'
    BY <1>1, <1>2, <2>1, <2>2, <2>4, OneObjectStands DEF Goto, TypeOK
  <2> QED
    BY <1>3, <2>2, <2>3, <2>4
<1>10. ASSUME NEW v \in Runs, Publish(v), ~ (Over({v}) /\ UNCHANGED native)
       PROVE  OneRow' /\ \A r \in Runs : OneObject(r)'
  <2> DEFINE S == Keys(copied[v])
  <2>1. native' = Merged(S) /\ Goto(v, "manifest") /\ UNCHANGED <<queue, copied>>
    BY <1>10 DEF Publish
  <2>2. S \subseteq Files /\ \A f, g \in S : f = g
    BY <1>2, KeysType DEF OneObject, Handled
  <2> HIDE DEF S
  <2>3. OneRow'
    BY <1>1, <1>2, <2>1, <2>2, MergeOne
  <2> QED
    BY <1>1, <1>2, <2>1, <2>3, OneObjectStands DEF Goto, TypeOK
<1>11. ASSUME NEW f \in Files, PutSource(f)
       PROVE  OneRow' /\ \A r \in Runs : OneObject(r)'
  BY <1>4, <1>11 DEF PutSource, cloudVars, runVars
<1>12. ASSUME NEW v \in Runs, WriteWatermark(v) \/ Raise(v)
       PROVE  OneRow' /\ \A r \in Runs : OneObject(r)'
  BY <1>6, <1>12 DEF WriteWatermark, Raise, cloudVars
<1>13. ASSUME NEW h \in Hosts, Crash(h)
       PROVE  OneRow' /\ \A r \in Runs : OneObject(r)'
  BY <1>6, <1>13 DEF Crash, cloudVars
<1>14. ASSUME NEW v \in Runs, Read(v), Over({v})
       PROVE  OneRow' /\ \A r \in Runs : OneObject(r)'
  BY <1>6, <1>14 DEF Read, cloudVars
<1>15. CASE UNCHANGED vars
  BY <1>4, <1>15 DEF vars, cloudVars, runVars
<1>16. ASSUME NEW v \in Runs, Step(v)
       PROVE  OneRow' /\ \A r \in Runs : OneObject(r)'
  BY <1>5, <1>6, <1>7, <1>8, <1>9, <1>10, <1>12, <1>14, <1>16 DEF Step
<1> QED
  BY <1>5, <1>11, <1>12, <1>13, <1>15, <1>16 DEF Next

\* Rows with a key are in the native table once for each object, and once for each
\* source file while runs take one object at a time, for any number of runs, hosts,
\* overlaps and faults.
THEOREM RowsStayUnique == Spec => []RowsAreUnique
<1>1. RowsInv /\ OneCopy => RowsAreUnique
  BY DEF RowsAreUnique, RowsInv, OneRow, OneCopy, SameRows
<1>2. TInv /\ RowsInv /\ OneCopy /\ [Next]_vars => (TInv /\ RowsInv /\ OneCopy)'
  BY NextType, NextRows, NextCopies
<1> QED
  BY InitType, InitRows, <1>1, <1>2, PTL DEF Spec
=============================================================================
