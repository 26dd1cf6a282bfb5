------------------------------- MODULE JobRuns -------------------------------
(***************************************************************************)
(* The idempotent job runner: the request handlers of api/routes/jobs.py   *)
(* (historical-ingestion, analytics-mirror, train-model, economic-models,  *)
(* and eod-reconcile, whose service repeats the same protocol), each with  *)
(* its own database session, racing on table job_executions.               *)
(*                                                                         *)
(* A message is one job request as QStash (or a client) sends it: it may   *)
(* be delivered again after an error, a lost reply or a timeout, so two    *)
(* deliveries can be in flight at once.  A handler looks its idempotency   *)
(* key up, inserts a RUNNING row (which holds the unique key until its     *)
(* transaction ends), does the external work, updates the row to           *)
(* SUCCEEDED, and the session dependency commits.  The database is         *)
(* PostgreSQL at READ COMMITTED, as deployed: only committed rows are in   *)
(* "status", and an INSERT or UPDATE waits for the uncommitted writer of   *)
(* the same row.                                                           *)
(***************************************************************************)
EXTENDS Naturals

CONSTANTS
    Workers,       \* concurrent request handlers, over all instances
    Messages,      \* job requests
    Undated,       \* the messages whose payload leaves processing_date out
    MaxDay,        \* bound: the calendar days of a behaviour are 0..MaxDay
    Results,       \* values of result_uri
    None,          \* no key, no result
    MaxAttempts,   \* bound on deliveries per message (QStash: maxAttempts)
    MaxFaults,     \* bound on crashes, failed runs and lost replies
    Orchestrations \* the sets of keys that may also be driven through
                   \* JobExecutionRepository

Key == Messages \X (0 .. MaxDay)

ASSUME JobRunsAssumption ==
    /\ Undated \subseteq Messages
    /\ MaxDay \in Nat
    /\ MaxAttempts \in Nat
    /\ MaxFaults \in Nat
    /\ Orchestrations \subseteq SUBSET Key
    /\ None \notin Results
    /\ None \notin Key

VARIABLES
    commitFirst,  \* is the dependency's commit run before the response is sent
                  \* (FastAPI < 0.118) or after it (later releases)?
    orchestrated, \* the keys that JobExecutionRepository drives too
    today,     \* date.today() of the service
    status,    \* committed status of each key's job row, "ABSENT" if none
    result,    \* committed result_uri of each key's job row
    pc,        \* what each worker does next
    key,       \* the idempotency key each worker computed
    held,      \* how each worker's session holds the row of its key
    outcome,   \* the result each worker will store or reply with
    attempts,  \* deliveries made of each message
    acked,     \* messages whose sender received a 2xx reply
    answered,  \* the results senders were given, per key   (history)
    runs,      \* executions of the external work, per key  (history)
    faults     \* faults so far

dbVars     == <<status, result>>
workerVars == <<pc, key, held, outcome>>
queueVars  == <<attempts, acked, answered>>
\* Fixed once the system runs.
deployment == <<commitFirst, orchestrated>>

vars == <<deployment, today, dbVars, workerVars, queueVars, runs, faults>>

Statuses == {"ABSENT", "RUNNING", "FAILED", "SUCCEEDED"}
Phases   == {"idle", "lookup", "insert", "work", "update", "commit", "respond"}
\* "loaded": read an existing row, no lock; "inserted" and "updated": wrote
\* the row in a transaction still open, which locks it.
Holds    == {"none", "loaded", "inserted", "updated"}

Init ==
    /\ commitFirst \in BOOLEAN
    /\ orchestrated \in Orchestrations
    /\ today = 0
    /\ status = [k \in Key |-> "ABSENT"]
    /\ result = [k \in Key |-> None]
    /\ pc = [w \in Workers |-> "idle"]
    /\ key = [w \in Workers |-> None]
    /\ held = [w \in Workers |-> "none"]
    /\ outcome = [w \in Workers |-> None]
    /\ attempts = [m \in Messages |-> 0]
    /\ acked = {}
    /\ answered = [k \in Key |-> {}]
    /\ runs = [k \in Key |-> 0]
    /\ faults = 0

-----------------------------------------------------------------------------
(* Helpers.                                                                *)

\* build_idempotency_key over the validated payload: a payload without a
\* processing_date gets date.today(), so its key depends on the day.
KeyOf(m) == <<m, IF m \in Undated THEN today ELSE 0>>

Locked(w, k) == key[w] = k /\ held[w] \in {"inserted", "updated"}

\* No other session has an uncommitted write of the row of k.
RowFree(w, k) == \A v \in Workers \ {w} : ~ Locked(v, k)

\* The session ends (after its commit, or by rollback and close).
Finish(w) ==
    /\ pc' = [pc EXCEPT ![w] = "idle"]
    /\ key' = [key EXCEPT ![w] = None]
    /\ held' = [held EXCEPT ![w] = "none"]
    /\ outcome' = [outcome EXCEPT ![w] = None]

Goto(w, phase) == pc' = [pc EXCEPT ![w] = phase]

-----------------------------------------------------------------------------
(* One request handler.                                                    *)

\* The edge worker forwards a delivery: the first one, or another one while
\* no 2xx reply has come back, even if the previous delivery still runs.
Receive(w, m) ==
    /\ pc[w] = "idle"
    /\ m \notin acked
    /\ attempts[m] < MaxAttempts
    /\ Goto(w, "lookup")
    /\ key' = [key EXCEPT ![w] = KeyOf(m)]
    /\ attempts' = [attempts EXCEPT ![m] = @ + 1]
    /\ UNCHANGED <<deployment, today, dbVars, held, outcome, acked, answered, runs, faults>>

LookupIgnoresStatus(w) ==
    /\ pc[w] = "lookup"
    /\ \/ /\ status[key[w]] # "ABSENT"
          /\ Goto(w, "work")
          /\ held' = [held EXCEPT ![w] = "loaded"]
       \/ /\ status[key[w]] = "ABSENT"
          /\ Goto(w, "insert")
          /\ UNCHANGED held
    /\ UNCHANGED <<deployment, today, dbVars, key, outcome, queueVars, runs, faults>>

\* The SELECT by idempotency key.  A SUCCEEDED row is the answer; any other
\* row is taken over as it is (session.add and flush of an unchanged row
\* write nothing, so nothing is locked); no row leads to an INSERT.
Lookup(w) ==
    /\ pc[w] = "lookup"
    /\ \/ /\ status[key[w]] = "SUCCEEDED"
          /\ Goto(w, "respond")
          /\ outcome' = [outcome EXCEPT ![w] = result[key[w]]]
          /\ UNCHANGED held
       \/ /\ status[key[w]] \in {"RUNNING", "FAILED"}
          /\ Goto(w, "work")
          /\ held' = [held EXCEPT ![w] = "loaded"]
          /\ UNCHANGED outcome
       \/ /\ status[key[w]] = "ABSENT"
          /\ Goto(w, "insert")
          /\ UNCHANGED <<held, outcome>>
    /\ UNCHANGED <<deployment, today, dbVars, key, queueVars, runs, faults>>

InsertNoUniqueKey(w) ==
    /\ pc[w] = "insert"
    /\ Goto(w, "work")
    /\ held' = [held EXCEPT ![w] = "inserted"]
    /\ UNCHANGED <<deployment, today, dbVars, key, outcome, queueVars, runs, faults>>

\* The flush of the RUNNING row.  It waits while another session has the same
\* key uncommitted; a key committed meanwhile is an IntegrityError (HTTP 500).
Insert(w) ==
    /\ pc[w] = "insert"
    /\ RowFree(w, key[w])
    /\ \/ /\ status[key[w]] = "ABSENT"
          /\ Goto(w, "work")
          /\ held' = [held EXCEPT ![w] = "inserted"]
          /\ UNCHANGED <<key, outcome>>
       \/ /\ status[key[w]] # "ABSENT"
          /\ Finish(w)
    /\ UNCHANGED <<deployment, today, dbVars, queueVars, runs, faults>>

\* The service call: it writes to the lake, GCS, BigQuery, a model directory.
\* Its result need not be the same when the work is done a second time.
Work(w) ==
    /\ pc[w] = "work"
    /\ Goto(w, "update")
    /\ \E r \in Results : outcome' = [outcome EXCEPT ![w] = r]
    /\ runs' = [runs EXCEPT ![key[w]] = @ + 1]
    /\ UNCHANGED <<deployment, today, dbVars, key, held, queueVars, faults>>

\* status = SUCCEEDED, result_uri = ..., flush.
Update(w) ==
    /\ pc[w] = "update"
    /\ RowFree(w, key[w])
    /\ Goto(w, IF commitFirst THEN "commit" ELSE "respond")
    /\ held' = [held EXCEPT ![w] = IF @ = "loaded" THEN "updated" ELSE @]
    /\ UNCHANGED <<deployment, today, dbVars, key, outcome, queueVars, runs, faults>>

CommitKeepsRunning(w) ==
    /\ pc[w] = "commit"
    /\ status' = [status EXCEPT ![key[w]] = "RUNNING"]
    /\ result' = [result EXCEPT ![key[w]] = outcome[w]]
    /\ \/ /\ commitFirst
          /\ Goto(w, "respond")
          /\ held' = [held EXCEPT ![w] = "none"]
          /\ UNCHANGED <<key, outcome>>
       \/ /\ ~ commitFirst
          /\ Finish(w)
    /\ UNCHANGED <<deployment, today, queueVars, runs, faults>>

\* session.commit() of get_session, before or after the reply.
Commit(w) ==
    /\ pc[w] = "commit"
    /\ status' = [status EXCEPT ![key[w]] = "SUCCEEDED"]
    /\ result' = [result EXCEPT ![key[w]] = outcome[w]]
    /\ \/ /\ commitFirst
          /\ Goto(w, "respond")
          /\ held' = [held EXCEPT ![w] = "none"]
          /\ UNCHANGED <<key, outcome>>
       \/ /\ ~ commitFirst
          /\ Finish(w)
    /\ UNCHANGED <<deployment, today, queueVars, runs, faults>>

\* The reply goes out and is received, or it is lost on the way.
Respond(w) ==
    /\ pc[w] = "respond"
    /\ \/ /\ acked' = acked \cup {key[w][1]}
          /\ answered' = [answered EXCEPT ![key[w]] = @ \cup {outcome[w]}]
          /\ UNCHANGED faults
       \/ /\ faults < MaxFaults
          /\ faults' = faults + 1
          /\ UNCHANGED <<acked, answered>>
    /\ \/ /\ held[w] = "none"
          /\ Finish(w)
       \/ /\ held[w] # "none"
          /\ Goto(w, "commit")
          /\ UNCHANGED <<key, held, outcome>>
    /\ UNCHANGED <<deployment, today, dbVars, attempts, runs>>

\* An exception anywhere (get_session rolls back and re-raises: HTTP 500), or
\* the instance dies (the database rolls back).  What the external work wrote
\* stays written, in part when it fails half-way.
Fail(w) ==
    /\ pc[w] # "idle"
    /\ faults < MaxFaults
    /\ faults' = faults + 1
    /\ Finish(w)
    /\ \/ UNCHANGED runs
       \/ /\ pc[w] = "work"
          /\ runs' = [runs EXCEPT ![key[w]] = @ + 1]
    /\ UNCHANGED <<deployment, today, dbVars, queueVars>>

-----------------------------------------------------------------------------
(* The rest of the system.                                                 *)

\* Midnight between two deliveries.
NextDay ==
    /\ today < MaxDay
    /\ today' = today + 1
    /\ UNCHANGED <<deployment, dbVars, workerVars, queueVars, runs, faults>>

\* JobExecutionRepository.begin_execution with status RUNNING, committed by its
\* caller: it creates the row, or takes over the existing one in any status.
BeginExecution(k) ==
    /\ k \in orchestrated
    /\ \A w \in Workers : ~ Locked(w, k)
    /\ status' = [status EXCEPT ![k] = "RUNNING"]
    /\ UNCHANGED <<deployment, today, result, workerVars, queueVars, runs, faults>>

\* JobExecutionRepository.complete_execution, committed by its caller.
CompleteExecution(k) ==
    /\ k \in orchestrated
    /\ \A w \in Workers : ~ Locked(w, k)
    /\ status[k] # "ABSENT"
    /\ \/ /\ status' = [status EXCEPT ![k] = "SUCCEEDED"]
          /\ \E r \in Results : result' = [result EXCEPT ![k] = r]
       \/ /\ status' = [status EXCEPT ![k] = "FAILED"]
          /\ result' = [result EXCEPT ![k] = None]
    /\ UNCHANGED <<deployment, today, workerVars, queueVars, runs, faults>>

\* Every message is acknowledged or given up: nothing more has to happen.
Quiescent ==
    /\ \A w \in Workers : pc[w] = "idle"
    /\ \A m \in Messages : m \in acked \/ attempts[m] = MaxAttempts
    /\ UNCHANGED vars

Handle(w) == Lookup(w) \/ Insert(w) \/ Work(w) \/ Update(w) \/ Commit(w) \/ Respond(w)

Next ==
    \/ \E w \in Workers, m \in Messages : Receive(w, m)
    \/ \E w \in Workers : Handle(w) \/ Fail(w)
    \/ NextDay
    \/ \E k \in orchestrated : BeginExecution(k) \/ CompleteExecution(k)
    \/ Quiescent

Spec == Init /\ [][Next]_vars

\* A handler that can go on does (the server schedules its threads, the
\* external calls return or raise), and QStash redelivers what was not
\* acknowledged while attempts are left.  Crashes and midnight are not fair.
Fairness ==
    /\ \A w \in Workers : WF_vars(Handle(w))
    /\ \A m \in Messages : WF_vars(\E w \in Workers : Receive(w, m))

FairSpec == Spec /\ Fairness

-----------------------------------------------------------------------------
(* Properties.  Keys an orchestrator also drives through the repository     *)
(* classes are outside the promises: begin_execution reopens their row.     *)

Plain == Key \ orchestrated

Executing(w) == held[w] # "none"

\* Every variable has its type.
TypeOK ==
    /\ commitFirst \in BOOLEAN
    /\ orchestrated \in Orchestrations
    /\ today \in 0 .. MaxDay
    /\ status \in [Key -> Statuses]
    /\ result \in [Key -> Results \cup {None}]
    /\ pc \in [Workers -> Phases]
    /\ key \in [Workers -> Key \cup {None}]
    /\ held \in [Workers -> Holds]
    /\ outcome \in [Workers -> Results \cup {None}]
    /\ attempts \in [Messages -> 0 .. MaxAttempts]
    /\ acked \subseteq Messages
    /\ answered \in [Key -> SUBSET Results]
    /\ runs \in [Key -> Nat]
    /\ faults \in 0 .. MaxFaults

\* Two handlers never do the work of one key at the same time, although
\* nothing but the unique constraint on idempotency_key keeps them apart: the
\* RUNNING row is inserted before the work and committed after it.
OneExecutor ==
    \A v, w \in Workers :
        (v # w /\ Executing(v) /\ Executing(w) /\ key[v] = key[w])
            => key[v] \in orchestrated

\* Redelivery and concurrency alone never repeat the external work of a key:
\* each repetition is paid for by a crash, a failed run or a lost commit.
RepeatsNeedFaults == \A k \in Plain : runs[k] <= 1 + faults

\* A sender told 202 can rely on a committed SUCCEEDED row for its request
\* (only when the session commits before the response leaves).
AckedIsRecorded ==
    commitFirst =>
        \A m \in acked : \E d \in 0 .. MaxDay :
            <<m, d>> \in Plain => status[<<m, d>>] = "SUCCEEDED"

\* A SUCCEEDED row is never reopened and its result_uri never replaced: a
\* second handler that lost the race cannot overwrite the winner's result.
SuccessIsFinal ==
    [][\A k \in Plain : status[k] = "SUCCEEDED"
          => status'[k] = "SUCCEEDED" /\ result'[k] = result[k]]_vars

\* The ledger of module JobLedger, read off the job table and the replies of the
\* plain keys; a reply sent before the commit promises nothing yet.
Recorded == [k \in Key |-> IF k \in Plain /\ status[k] = "SUCCEEDED" THEN result[k] ELSE None]
Told == [k \in Key |-> IF k \in Plain /\ commitFirst THEN answered[k] ELSE {}]

Ledger == INSTANCE JobLedger WITH Keys <- Key, ledger <- Recorded, told <- Told

\* The job table and the replies implement the ledger: one result per key,
\* recorded once, and every reply, fresh or reused, carries it.
LedgerSpec == Ledger!Spec

\* A request delivered once ends up recorded, as long as fewer faults happen
\* than there are delivery attempts: no interleaving of redeliveries, lock
\* waits and IntegrityErrors uses the attempts up with nothing recorded (only
\* when the session commits before the reply that ends the redeliveries).
EventuallyRecorded ==
    <>[](commitFirst =>
            \A m \in Messages :
                (attempts[m] > 0 /\ \A d \in 0 .. MaxDay : <<m, d>> \in Plain)
                    => \E d \in 0 .. MaxDay : status[<<m, d>>] = "SUCCEEDED")

\* What the edge documents: the message id is the idempotency key, so one
\* message is processed once.  The handlers derive the key from the payload
\* and the day instead, and never read the idempotency-key header.
OneRunPerMessage ==
    \A m \in Messages, d, e \in 0 .. MaxDay :
        (status[<<m, d>>] = "SUCCEEDED" /\ status[<<m, e>>] = "SUCCEEDED") => d = e
-----------------------------------------------------------------------------
(* The inductive invariant behind the safety properties.                   *)

\* What each phase of a handler says about its session and about its row.
PhaseInv(w) ==
    /\ pc[w] = "idle" => held[w] = "none"
    /\ pc[w] # "idle" => key[w] \in Key
    /\ pc[w] \in {"lookup", "insert"} => held[w] = "none"
    /\ pc[w] \in {"work", "update"} => held[w] \in {"inserted", "loaded"}
    /\ pc[w] = "commit" => held[w] \in {"inserted", "updated"}
    /\ pc[w] = "respond" => held[w] # "loaded" /\ (commitFirst => held[w] = "none")
    /\ pc[w] \in {"update", "commit", "respond"} => outcome[w] \in Results

\* A locked or loaded row: an INSERT in flight excludes a committed row; an
\* existing unfinished row is only ever found for an orchestrated key.
RowInv(w) ==
    /\ held[w] = "inserted" => status[key[w]] = "ABSENT"
    /\ held[w] \in {"loaded", "updated"} =>
          key[w] \in orchestrated /\ status[key[w]] # "ABSENT"

\* The unique constraint at work.
InsertInv ==
    \A v, w \in Workers :
        (v # w /\ held[v] = "inserted" /\ held[w] = "inserted") => key[v] # key[w]

\* The reply a handler is about to give is the committed result.
ReplyInv(w) ==
    (pc[w] = "respond" /\ held[w] = "none" /\ key[w] \in Plain)
        => status[key[w]] = "SUCCEEDED" /\ result[key[w]] = outcome[w]

\* A plain key's row is absent or succeeded; a succeeded row has a result.
StatusInv ==
    /\ \A k \in Plain : status[k] \in {"ABSENT", "SUCCEEDED"}
    /\ \A k \in Key : status[k] = "SUCCEEDED" => result[k] \in Results

\* The handler that has done its work and still has its INSERT uncommitted.
Worked(w, k) == key[w] = k /\ held[w] = "inserted" /\ pc[w] \in {"update", "respond", "commit"}

\* Work not paid for by a fault is recorded, or about to be.
RunsInv ==
    \A k \in Plain :
        /\ runs[k] <= 1 + faults
        /\ runs[k] <= faults \/ status[k] = "SUCCEEDED" \/ \E w \in Workers : Worked(w, k)

IInv ==
    /\ TypeOK
    /\ \A w \in Workers : PhaseInv(w) /\ RowInv(w) /\ ReplyInv(w)
    /\ InsertInv
    /\ StatusInv
    /\ RunsInv
    /\ AckedIsRecorded

=============================================================================
