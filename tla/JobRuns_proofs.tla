---------------------------- MODULE JobRuns_proofs ----------------------------
(***************************************************************************)
(* Proofs about JobRuns, for any set of handlers, messages and days, any   *)
(* number of redeliveries and faults, and both orders of commit and reply. *)
(***************************************************************************)
EXTENDS JobRuns, TLAPS

\* The key a handler derives from a payload is a key of the table.
LEMMA KeyOfType == TypeOK => \A m \in Messages : KeyOf(m) \in Key
  BY JobRunsAssumption DEF TypeOK, KeyOf, Key

\* The first part of a key is the message it was derived from.
LEMMA KeyHead == \A k \in Key : k[1] \in Messages
  BY DEF Key

\* The empty job table with all handlers idle satisfies the invariant.
LEMMA InitIInv == Init => IInv
  BY JobRunsAssumption DEF Init, IInv, TypeOK, PhaseInv, RowInv, ReplyInv, InsertInv,
     StatusInv, RunsInv, AckedIsRecorded, Plain, Statuses, Phases, Holds, Worked

-----------------------------------------------------------------------------
(* Type correctness of a step.                                             *)

\* Every step keeps the variables in their types.
LEMMA TypeStep == IInv /\ [Next]_vars => TypeOK'
<1> SUFFICES ASSUME IInv, [Next]_vars
             PROVE  TypeOK'
  OBVIOUS
<1> USE JobRunsAssumption DEF IInv, TypeOK, PhaseInv, Statuses, Phases, Holds,
        deployment, dbVars, workerVars, queueVars, Finish, Goto
<1>1. ASSUME NEW w \in Workers, NEW m \in Messages, Receive(w, m)
      PROVE  TypeOK'
  BY <1>1, KeyOfType DEF Receive
<1>2. ASSUME NEW w \in Workers, Lookup(w)
      PROVE  TypeOK'
  BY <1>2 DEF Lookup
<1>3. ASSUME NEW w \in Workers, Insert(w)
      PROVE  TypeOK'
  BY <1>3 DEF Insert
<1>4. ASSUME NEW w \in Workers, Work(w)
      PROVE  TypeOK'
  BY <1>4 DEF Work
<1>5. ASSUME NEW w \in Workers, Update(w)
      PROVE  TypeOK'
  BY <1>5 DEF Update
<1>6. ASSUME NEW w \in Workers, Commit(w)
      PROVE  TypeOK'
  BY <1>6 DEF Commit
<1>7. ASSUME NEW w \in Workers, Respond(w)
      PROVE  TypeOK'
  <2>1. key[w] \in Key /\ outcome[w] \in Results
    BY <1>7 DEF Respond
  <2>2. acked' \subseteq Messages
    BY <1>7, <2>1, KeyHead DEF Respond
  <2>3. answered' \in [Key -> SUBSET Results]
    BY <1>7, <2>1 DEF Respond
  <2>4. /\ pc' \in [Workers -> Phases]
        /\ key' \in [Workers -> Key \cup {None}]
        /\ held' \in [Workers -> Holds]
        /\ outcome' \in [Workers -> Results \cup {None}]
    BY <1>7 DEF Respond
  <2> QED
    BY <1>7, <2>2, <2>3, <2>4 DEF Respond
<1>8. ASSUME NEW w \in Workers, Fail(w)
      PROVE  TypeOK'
  BY <1>8 DEF Fail
<1>9. CASE NextDay
  BY <1>9 DEF NextDay
<1>10. ASSUME NEW k \in orchestrated, BeginExecution(k)
       PROVE  TypeOK'
  BY <1>10 DEF BeginExecution
<1>11. ASSUME NEW k \in orchestrated, CompleteExecution(k)
       PROVE  TypeOK'
  BY <1>11 DEF CompleteExecution
<1>12. CASE UNCHANGED vars
  BY <1>12 DEF vars
<1>13. QED
  BY <1>1, <1>2, <1>3, <1>4, <1>5, <1>6, <1>7, <1>8, <1>9, <1>10, <1>11, <1>12
     DEF Next, Handle, Quiescent
-----------------------------------------------------------------------------
(* The rest of the inductive invariant, action by action; the conjuncts an *)
(* action cannot disturb share one step.                                   *)

\* Every step, of a handler, the orchestrator, the clock or a fault, keeps the
\* inductive invariant.
LEMMA StepIInv == IInv /\ [Next]_vars => IInv'
<1> SUFFICES ASSUME IInv, [Next]_vars
             PROVE  IInv'
  OBVIOUS
<1>0. TypeOK'
  BY TypeStep
<1> USE JobRunsAssumption DEF IInv, TypeOK, deployment, dbVars, workerVars, queueVars, Finish, Goto
<1>1. ASSUME NEW w \in Workers, NEW m \in Messages, Receive(w, m)
      PROVE  IInv'
  <2>1. (\A v \in Workers : PhaseInv(v))'
    BY <1>1, KeyOfType DEF Receive, PhaseInv, Holds
  <2>2. (\A v \in Workers : RowInv(v))' /\ (\A v \in Workers : ReplyInv(v))' /\ InsertInv' /\ StatusInv' /\ RunsInv' /\ AckedIsRecorded'
    BY <1>1, KeyOfType DEF Receive, RowInv, ReplyInv, InsertInv, StatusInv, RunsInv, AckedIsRecorded, PhaseInv, Worked, Plain
  <2>3. QED
    BY <1>0, <2>1, <2>2
<1>2. ASSUME NEW w \in Workers, Lookup(w)
      PROVE  IInv'
  <2>1. (\A v \in Workers : PhaseInv(v))'
    BY <1>2 DEF Lookup, PhaseInv, Holds, StatusInv, Plain
  <2>2. (\A v \in Workers : RowInv(v))'
    BY <1>2 DEF Lookup, PhaseInv, RowInv, InsertInv, Locked, RowFree, StatusInv, Plain
  <2>3. (\A v \in Workers : ReplyInv(v))'
    BY <1>2 DEF Lookup, PhaseInv, RowInv, ReplyInv, Plain
  <2>4. InsertInv'
    BY <1>2 DEF Lookup, PhaseInv, InsertInv, Locked, RowFree
  <2>5. RunsInv'
    BY <1>2 DEF Lookup, PhaseInv, RowInv, InsertInv, RunsInv, Worked, Plain
  <2>6. StatusInv' /\ AckedIsRecorded'
    BY <1>2 DEF Lookup, StatusInv, AckedIsRecorded, PhaseInv, Plain
  <2>7. QED
    BY <1>0, <2>1, <2>2, <2>3, <2>4, <2>5, <2>6
<1>3. ASSUME NEW w \in Workers, Insert(w)
      PROVE  IInv'
  <2>1. (\A v \in Workers : PhaseInv(v))'
    BY <1>3 DEF Insert, PhaseInv, Holds
  <2>2. (\A v \in Workers : RowInv(v))'
    BY <1>3 DEF Insert, PhaseInv, RowInv, InsertInv, Locked, RowFree
  <2>3. (\A v \in Workers : ReplyInv(v))'
    BY <1>3 DEF Insert, PhaseInv, RowInv, ReplyInv, Plain
  <2>4. InsertInv'
    BY <1>3 DEF Insert, PhaseInv, InsertInv, Locked, RowFree
  <2>5. RunsInv'
    BY <1>3 DEF Insert, PhaseInv, RowInv, InsertInv, RunsInv, Worked, Plain
  <2>6. StatusInv' /\ AckedIsRecorded'
    BY <1>3 DEF Insert, StatusInv, AckedIsRecorded, PhaseInv, Plain
  <2>7. QED
    BY <1>0, <2>1, <2>2, <2>3, <2>4, <2>5, <2>6
<1>4. ASSUME NEW w \in Workers, Work(w)
      PROVE  IInv'
  <2>1. (\A v \in Workers : PhaseInv(v))'
    BY <1>4 DEF Work, PhaseInv, Holds
  <2>2. (\A v \in Workers : ReplyInv(v))'
    BY <1>4 DEF Work, PhaseInv, RowInv, ReplyInv, Plain
  <2>3. RunsInv'
    BY <1>4 DEF Work, PhaseInv, RowInv, InsertInv, RunsInv, Worked, Plain
  <2>4. AckedIsRecorded'
    <3>1. \A i \in Plain : status[i] = "SUCCEEDED" => status'[i] = "SUCCEEDED"
      BY <1>4 DEF Work, Plain
    <3>2. QED
      BY <3>1, <1>4 DEF Work, AckedIsRecorded, Plain
  <2>5. (\A v \in Workers : RowInv(v))' /\ InsertInv' /\ StatusInv'
    BY <1>4 DEF Work, RowInv, InsertInv, StatusInv, PhaseInv, Plain
  <2>6. QED
    BY <1>0, <2>1, <2>2, <2>3, <2>4, <2>5
<1>5. ASSUME NEW w \in Workers, Update(w)
      PROVE  IInv'
  <2>1. (\A v \in Workers : PhaseInv(v))'
    BY <1>5 DEF Update, PhaseInv, Holds
  <2>2. (\A v \in Workers : RowInv(v))'
    BY <1>5 DEF Update, PhaseInv, RowInv, InsertInv, Locked, RowFree
  <2>3. (\A v \in Workers : ReplyInv(v))'
    BY <1>5 DEF Update, PhaseInv, RowInv, ReplyInv, Plain
  <2>4. InsertInv'
    BY <1>5 DEF Update, PhaseInv, InsertInv, Locked, RowFree
  <2>5. RunsInv'
    BY <1>5 DEF Update, PhaseInv, RowInv, InsertInv, RunsInv, Worked, Plain
  <2>6. StatusInv' /\ AckedIsRecorded'
    BY <1>5 DEF Update, StatusInv, AckedIsRecorded, PhaseInv, Plain
  <2>7. QED
    BY <1>0, <2>1, <2>2, <2>3, <2>4, <2>5, <2>6
<1>6. ASSUME NEW w \in Workers, Commit(w)
      PROVE  IInv'
  <2>1. (\A v \in Workers : PhaseInv(v))'
    BY <1>6 DEF Commit, PhaseInv, Holds
  <2>2. (\A v \in Workers : RowInv(v))'
    BY <1>6 DEF Commit, PhaseInv, RowInv, InsertInv, Locked, RowFree
  <2>3. (\A v \in Workers : ReplyInv(v))'
    BY <1>6 DEF Commit, PhaseInv, RowInv, ReplyInv, Plain
  <2>4. InsertInv'
    BY <1>6 DEF Commit, PhaseInv, InsertInv, Locked, RowFree
  <2>5. StatusInv'
    BY <1>6 DEF Commit, PhaseInv, RowInv, StatusInv, Plain
  <2>6. RunsInv'
    BY <1>6 DEF Commit, PhaseInv, RowInv, InsertInv, RunsInv, Worked, Plain
  <2>7. AckedIsRecorded'
    <3>1. \A i \in Plain : status[i] = "SUCCEEDED" => status'[i] = "SUCCEEDED"
      BY <1>6 DEF Commit, Plain
    <3>2. QED
      BY <3>1, <1>6 DEF Commit, AckedIsRecorded, Plain
  <2>8. QED
    BY <1>0, <2>1, <2>2, <2>3, <2>4, <2>5, <2>6, <2>7
<1>7. ASSUME NEW w \in Workers, Respond(w)
      PROVE  IInv'
  <2>1. (\A v \in Workers : PhaseInv(v))'
    BY <1>7 DEF Respond, PhaseInv, Holds
  <2>2. (\A v \in Workers : RowInv(v))'
    BY <1>7 DEF Respond, PhaseInv, RowInv, InsertInv, Locked, RowFree
  <2>3. (\A v \in Workers : ReplyInv(v))'
    BY <1>7 DEF Respond, PhaseInv, RowInv, ReplyInv, Plain
  <2>4. InsertInv'
    BY <1>7 DEF Respond, PhaseInv, InsertInv, Locked, RowFree
  <2>5. RunsInv'
    BY <1>7 DEF Respond, PhaseInv, RowInv, InsertInv, RunsInv, Worked, Plain
  <2>6. AckedIsRecorded'
    <3> SUFFICES ASSUME commitFirst', NEW m \in acked'
                 PROVE  \E d \in 0 .. MaxDay : <<m, d>> \in Plain => status'[<<m, d>>] = "SUCCEEDED"
      BY <1>7 DEF Respond, AckedIsRecorded, Plain
    <3>1. CASE m \in acked
      BY <3>1, <1>7 DEF Respond, AckedIsRecorded, Plain
    <3>2. CASE m = key[w][1]
      <4>1. key[w] \in Key /\ held[w] = "none"
        BY <1>7 DEF Respond, PhaseInv
      <4>2. key[w] = <<m, key[w][2]>> /\ key[w][2] \in 0 .. MaxDay
        BY <3>2, <4>1 DEF Key
      <4>3. key[w] \in Plain => status'[key[w]] = "SUCCEEDED"
        BY <4>1, <1>7 DEF Respond, ReplyInv, Plain
      <4>4. <<m, key[w][2]>> \in Plain => status'[<<m, key[w][2]>>] = "SUCCEEDED"
        BY <4>2, <4>3
      <4>5. QED
        BY <4>2, <4>4
    <3>3. QED
      BY <3>1, <3>2, <1>7 DEF Respond
  <2>7. StatusInv'
    BY <1>7 DEF Respond, StatusInv, PhaseInv, Plain
  <2>8. QED
    BY <1>0, <2>1, <2>2, <2>3, <2>4, <2>5, <2>6, <2>7
<1>8. ASSUME NEW w \in Workers, Fail(w)
      PROVE  IInv'
  <2>1. (\A v \in Workers : PhaseInv(v))'
    BY <1>8 DEF Fail, PhaseInv, Holds
  <2>2. (\A v \in Workers : RowInv(v))'
    BY <1>8 DEF Fail, PhaseInv, RowInv, InsertInv, Locked, RowFree
  <2>3. (\A v \in Workers : ReplyInv(v))'
    BY <1>8 DEF Fail, PhaseInv, RowInv, ReplyInv, Plain
  <2>4. InsertInv'
    BY <1>8 DEF Fail, PhaseInv, InsertInv, Locked, RowFree
  <2>5. RunsInv'
    BY <1>8 DEF Fail, PhaseInv, RowInv, InsertInv, RunsInv, Worked, Plain
  <2>6. StatusInv' /\ AckedIsRecorded'
    BY <1>8 DEF Fail, StatusInv, AckedIsRecorded, PhaseInv, Plain
  <2>7. QED
    BY <1>0, <2>1, <2>2, <2>3, <2>4, <2>5, <2>6
<1>9. CASE NextDay
  BY <1>9, <1>0 DEF NextDay, PhaseInv, RowInv, ReplyInv, InsertInv, StatusInv, RunsInv, Worked, AckedIsRecorded, Plain
<1>10. ASSUME NEW k \in orchestrated, BeginExecution(k)
      PROVE  IInv'
  <2>1. (\A v \in Workers : RowInv(v))'
    BY <1>10 DEF BeginExecution, PhaseInv, RowInv, InsertInv, Locked, RowFree
  <2>2. (\A v \in Workers : ReplyInv(v))'
    BY <1>10 DEF BeginExecution, PhaseInv, RowInv, ReplyInv, Plain
  <2>3. StatusInv'
    BY <1>10 DEF BeginExecution, PhaseInv, RowInv, StatusInv, Plain
  <2>4. RunsInv'
    BY <1>10 DEF BeginExecution, PhaseInv, RowInv, InsertInv, RunsInv, Worked, Plain
  <2>5. AckedIsRecorded'
    <3>1. \A i \in Plain : status[i] = "SUCCEEDED" => status'[i] = "SUCCEEDED"
      BY <1>10 DEF BeginExecution, Plain
    <3>2. QED
      BY <3>1, <1>10 DEF BeginExecution, AckedIsRecorded, Plain
  <2>6. (\A v \in Workers : PhaseInv(v))' /\ InsertInv'
    BY <1>10 DEF BeginExecution, PhaseInv, InsertInv, PhaseInv
  <2>7. QED
    BY <1>0, <2>1, <2>2, <2>3, <2>4, <2>5, <2>6
<1>11. ASSUME NEW k \in orchestrated, CompleteExecution(k)
      PROVE  IInv'
  <2>1. (\A v \in Workers : RowInv(v))'
    BY <1>11 DEF CompleteExecution, PhaseInv, RowInv, InsertInv, Locked, RowFree
  <2>2. (\A v \in Workers : ReplyInv(v))'
    BY <1>11 DEF CompleteExecution, PhaseInv, RowInv, ReplyInv, Plain
  <2>3. StatusInv'
    BY <1>11 DEF CompleteExecution, PhaseInv, RowInv, StatusInv, Plain
  <2>4. RunsInv'
    BY <1>11 DEF CompleteExecution, PhaseInv, RowInv, InsertInv, RunsInv, Worked, Plain
  <2>5. AckedIsRecorded'
    <3>1. \A i \in Plain : status[i] = "SUCCEEDED" => status'[i] = "SUCCEEDED"
      BY <1>11 DEF CompleteExecution, Plain
    <3>2. QED
      BY <3>1, <1>11 DEF CompleteExecution, AckedIsRecorded, Plain
  <2>6. (\A v \in Workers : PhaseInv(v))' /\ InsertInv'
    BY <1>11 DEF CompleteExecution, PhaseInv, InsertInv, PhaseInv
  <2>7. QED
    BY <1>0, <2>1, <2>2, <2>3, <2>4, <2>5, <2>6
<1>12. CASE UNCHANGED vars
  BY <1>12, <1>0 DEF vars, PhaseInv, RowInv, ReplyInv, InsertInv, StatusInv, RunsInv, Worked, AckedIsRecorded, Plain
<1>13. QED
  BY <1>1, <1>2, <1>3, <1>4, <1>5, <1>6, <1>7, <1>8, <1>9, <1>10, <1>11, <1>12 DEF Next, Handle, Quiescent

-----------------------------------------------------------------------------
(* The theorems.                                                           *)

\* The inductive invariant holds in every reachable state.
THEOREM Invariance == Spec => []IInv
<1>1. Init => IInv
  BY InitIInv
<1>2. IInv /\ [Next]_vars => IInv'
  BY StepIInv
<1>3. QED
  BY <1>1, <1>2, PTL DEF Spec

\* Every variable keeps its type.
THEOREM TypeCorrect == Spec => []TypeOK
<1>1. IInv => TypeOK
  BY DEF IInv
<1>2. QED
  BY <1>1, Invariance, PTL

\* The unique key on idempotency_key, taken by the uncommitted INSERT, makes
\* the handlers of one plain key mutually exclusive during the external work.
THEOREM Exclusion == Spec => []OneExecutor
<1>1. IInv => OneExecutor
  <2> SUFFICES ASSUME IInv, NEW v \in Workers, NEW w \in Workers, v # w,
                      Executing(v), Executing(w), key[v] = key[w]
               PROVE  key[v] \in orchestrated
    BY DEF OneExecutor
  <2>1. CASE held[v] = "inserted" /\ held[w] = "inserted"
    BY <2>1 DEF IInv, InsertInv
  <2>2. CASE held[v] # "inserted" \/ held[w] # "inserted"
    BY <2>2 DEF IInv, RowInv, TypeOK, Holds, Executing
  <2>3. QED
    BY <2>1, <2>2
<1>2. QED
  BY <1>1, Invariance, PTL

\* Without faults the external work of a plain key is done at most once.
THEOREM WorkRepetition == Spec => []RepeatsNeedFaults
<1>1. IInv => RepeatsNeedFaults
  BY DEF IInv, RunsInv, RepeatsNeedFaults
<1>2. QED
  BY <1>1, Invariance, PTL

\* With the commit before the reply, a 2xx reply implies a recorded success.
THEOREM Acknowledgement == Spec => []AckedIsRecorded
<1>1. IInv => AckedIsRecorded
  BY DEF IInv
<1>2. QED
  BY <1>1, Invariance, PTL

\* In one step, a recorded success of a plain key stays as it is.
LEMMA FinalStep ==
    ASSUME IInv, [Next]_vars, NEW k \in Plain, status[k] = "SUCCEEDED"
    PROVE  status'[k] = "SUCCEEDED" /\ result'[k] = result[k]
<1> USE DEF IInv, TypeOK, Plain
<1>1. ASSUME NEW w \in Workers, Commit(w)
      PROVE  status'[k] = "SUCCEEDED" /\ result'[k] = result[k]
  BY <1>1 DEF Commit, PhaseInv, RowInv
<1>2. ASSUME NEW j \in orchestrated, BeginExecution(j) \/ CompleteExecution(j)
      PROVE  status'[k] = "SUCCEEDED" /\ result'[k] = result[k]
  BY <1>2 DEF BeginExecution, CompleteExecution
<1>3. CASE UNCHANGED dbVars
  BY <1>3 DEF dbVars
<1>4. QED
  BY <1>1, <1>2, <1>3 DEF Next, Handle, Quiescent, vars, dbVars, Receive, Lookup, Insert,
     Work, Update, Respond, Fail, NextDay

\* A SUCCEEDED row of a plain key is final.
THEOREM Finality == Spec => SuccessIsFinal
<1>1. IInv /\ [Next]_vars =>
        [\A k \in Plain : status[k] = "SUCCEEDED"
            => status'[k] = "SUCCEEDED" /\ result'[k] = result[k]]_vars
  BY FinalStep
<1>2. QED
  BY <1>1, Invariance, PTL DEF Spec, SuccessIsFinal

-----------------------------------------------------------------------------
(* Refinement of the ledger.                                               *)

\* The empty job table is the empty ledger.
LEMMA LedgerInit == Init => Ledger!Init
  BY DEF Init, Ledger!Init, Recorded, Told, Plain

\* A commit records in the ledger, a received reply tells from it, and every
\* other step leaves the ledger alone.
LEMMA LedgerStep == ASSUME IInv, [Next]_vars PROVE [Ledger!Next]_Ledger!vars
<1> USE JobRunsAssumption DEF IInv, TypeOK, deployment, dbVars, workerVars, queueVars
<1>1. ASSUME NEW w \in Workers, Commit(w)
      PROVE  [Ledger!Next]_Ledger!vars
  <2>1. CASE key[w] \in Plain
    <3>1. status[key[w]] = "ABSENT" /\ outcome[w] \in Results
      BY <1>1, <2>1 DEF Commit, PhaseInv, RowInv, Plain
    <3>2. Recorded[key[w]] = None
      BY <2>1, <3>1 DEF Recorded, Plain
    <3>3. Recorded' = [Recorded EXCEPT ![key[w]] = outcome[w]] /\ UNCHANGED Told
      <4>1. UNCHANGED <<Plain, commitFirst, answered>>
        BY <1>1 DEF Commit, Plain
      <4>2. /\ status' = [status EXCEPT ![key[w]] = "SUCCEEDED"]
            /\ result' = [result EXCEPT ![key[w]] = outcome[w]]
        BY <1>1 DEF Commit
      <4>3. \A k \in Key : Recorded'[k] = IF k = key[w] THEN outcome[w] ELSE Recorded[k]
        BY <2>1, <4>1, <4>2 DEF Recorded
      <4>4. QED
        BY <4>1, <4>3 DEF Recorded, Told
    <3>4. Ledger!Record(key[w])
      BY <3>1, <3>2, <3>3 DEF Ledger!Record
    <3>5. QED
      BY <2>1, <3>4 DEF Ledger!Next, Plain
  <2>2. CASE key[w] \notin Plain
    BY <1>1, <2>2 DEF Commit, Recorded, Told, Plain, Ledger!vars
  <2>3. QED
    BY <2>1, <2>2
<1>2. ASSUME NEW w \in Workers, Respond(w)
      PROVE  [Ledger!Next]_Ledger!vars
  <2>1. UNCHANGED Recorded
    BY <1>2 DEF Respond, Recorded, Plain
  <2>2. CASE key[w] \in Plain /\ commitFirst /\ answered' # answered
    <3>1. status[key[w]] = "SUCCEEDED" /\ result[key[w]] = outcome[w] /\ outcome[w] \in Results
      BY <1>2, <2>2 DEF Respond, PhaseInv, ReplyInv
    <3>2. Recorded[key[w]] = outcome[w] /\ outcome[w] # None
      BY <2>2, <3>1 DEF Recorded, Plain
    <3>3. Told' = [Told EXCEPT ![key[w]] = @ \cup {outcome[w]}]
      <4>1. UNCHANGED <<Plain, commitFirst>>
        BY <1>2 DEF Respond, Plain
      <4>2. answered' = [answered EXCEPT ![key[w]] = @ \cup {outcome[w]}]
        BY <1>2, <2>2 DEF Respond
      <4>3. \A k \in Key : Told'[k] = IF k = key[w] THEN Told[k] \cup {outcome[w]} ELSE Told[k]
        BY <2>2, <4>1, <4>2 DEF Told
      <4>4. QED
        BY <4>1, <4>3 DEF Told
    <3>4. Ledger!Tell(key[w])
      BY <2>1, <3>2, <3>3 DEF Ledger!Tell
    <3>5. QED
      BY <2>2, <3>4 DEF Ledger!Next, Plain
  <2>3. CASE key[w] \notin Plain \/ ~ commitFirst \/ answered' = answered
    <3>1. UNCHANGED Told
      BY <1>2, <2>3 DEF Respond, Told, Plain
    <3>2. QED
      BY <2>1, <3>1 DEF Ledger!vars
  <2>4. QED
    BY <2>2, <2>3
<1>3. ASSUME NEW j \in orchestrated, BeginExecution(j) \/ CompleteExecution(j)
      PROVE  [Ledger!Next]_Ledger!vars
  BY <1>3 DEF BeginExecution, CompleteExecution, Recorded, Told, Plain, Ledger!vars
<1>4. CASE UNCHANGED <<deployment, status, result, answered>>
  BY <1>4 DEF Recorded, Told, Plain, Ledger!vars
<1>5. QED
  BY <1>1, <1>2, <1>3, <1>4 DEF Next, Handle, Quiescent, vars, Receive, Lookup, Insert,
     Work, Update, Fail, NextDay

\* Sessions, locks, redeliveries and crashes implement the ledger: a key has
\* at most one result, it never changes, and every reply carries it.
THEOREM Refinement == Spec => LedgerSpec
<1>1. Init => Ledger!Init
  BY LedgerInit
<1>2. IInv /\ [Next]_vars => [Ledger!Next]_Ledger!vars
  BY LedgerStep
<1>3. QED
  BY <1>1, <1>2, Invariance, PTL DEF Spec, LedgerSpec, Ledger!Spec

=============================================================================
