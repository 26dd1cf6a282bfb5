----------------------------- MODULE OrmSessions -----------------------------
(***************************************************************************)
(* The database session of a request (core/db.py) over PostgreSQL at READ  *)
(* COMMITTED: rows added or changed in memory, flushed one statement at a  *)
(* time, committed together or rolled back together.                       *)
(*                                                                         *)
(* A flushed row is locked: another session's statement on the same key    *)
(* waits until the lock is gone, and an INSERT whose key has meanwhile     *)
(* been committed raises IntegrityError, which rolls the session back and  *)
(* answers 500.  The services of PortfolioFactory and ScenarioLab run in   *)
(* these sessions.                                                         *)
(***************************************************************************)
EXTENDS ResearchTables

CONSTANTS
    Sessions,   \* concurrent requests of the API
    Calls,      \* the calls that clients may make
    Ask,        \* the body of each call: a record with a field kind
    MaxFaults   \* bound on crashes and lost replies

\* Kinds of call whose handler inserts without looking for an earlier row.
NoLookup == {"portfolio", "mapping", "profile"}

ASSUME OrmSessionsAssumption ==
    /\ None \notin Calls
    /\ \A k \in Calls : "kind" \in DOMAIN Ask[k]
    /\ MaxFaults \in Nat

VARIABLES
    ses,      \* the state of each session
    asked,    \* the calls that clients make in this behaviour, with their bodies
    told,     \* what each answered call was told: a key and its row
    refused,  \* calls given up because a repetition can only fail again
    faults    \* faults so far

vars == <<db, ses, asked, told, refused, faults>>

\* A session before its first statement.
Idle == [at |-> "idle", call |-> None, seen |-> None, answer |-> None,
         mem |-> NoRows, new |-> {}, todo |-> {}, held |-> {}]

Body(w) == asked[ses[w].call]

\* Session s with rows in memory; those in added will be INSERTs, the others
\* UPDATEs.
Keeping(s, rows, added) == [s EXCEPT !.mem = Over(rows, @), !.new = @ \cup added]

\* Session s as it adds objects and flushes them.
Adding(s, rows) == [Keeping(s, rows, DOMAIN rows) EXCEPT !.todo = @ \cup DOMAIN rows]

Answering(s, id) == [s EXCEPT !.at = "commit", !.answer = id]

Become(w, s) == ses' = [ses EXCEPT ![w] = s]

\* A client makes a call; it repeats a call only after the reply, or the lack
\* of one, ended the previous attempt.
Opens(w, k, kind) ==
    /\ k \in DOMAIN asked \ (DOMAIN told \cup refused)
    /\ asked[k].kind = kind
    /\ ses[w] = Idle
    /\ \A v \in Sessions : ses[v].call # k

Started(k, step) == [Idle EXCEPT !.at = step, !.call = k]

\* A handler runs on when its flush is done.
Running(w, step) == ses[w].at = step /\ ses[w].todo = {}

Locked(w, id) == \E v \in Sessions \ {w} : id \in ses[v].held

\* The order of the statements of a flush: a row goes before the rows that
\* refer to it; UPDATEs of constraints before INSERTs; constraints in the order
\* of their keys.
Roots == {"user", "family", "template", "portfolio", "event"}

Precedes(s, i, j) ==
    \/ i[1] \in Roots /\ j[1] \notin Roots
    \/ /\ i[1] = "constraint" /\ j[1] = "constraint"
       /\ \/ i \notin s.new /\ j \in s.new
          \/ (i \in s.new <=> j \in s.new) /\ i[3] < j[3]

-----------------------------------------------------------------------------
Written(w, id) == Become(w, [ses[w] EXCEPT !.todo = @ \ {id}, !.held = @ \cup {id}])

FlushOverwrites(w) ==
    /\ \E id \in ses[w].todo :
          /\ ~ Locked(w, id)
          /\ Written(w, id)
    /\ UNCHANGED <<db, asked, told, refused, faults>>

\* The next statement of a flush.  After a conflict the client calls again,
\* unless the handler cannot find the row that stands in its way.
Flush(w) ==
    /\ \E id \in ses[w].todo :
          /\ \A other \in ses[w].todo : ~ Precedes(ses[w], other, id)
          /\ ~ Locked(w, id)
          /\ \/ /\ ~ (id \in ses[w].new /\ Has(id))
                /\ Written(w, id)
                /\ UNCHANGED refused
             \/ /\ id \in ses[w].new /\ Has(id)
                /\ Become(w, Idle)
                /\ refused' = refused \cup {k \in {ses[w].call} : asked[k].kind \in NoLookup}
    /\ UNCHANGED <<db, asked, told, faults>>

\* session.commit() and the reply, which the client may not get.
Commit(w) ==
    /\ Running(w, "commit")
    /\ LET s == ses[w]
           written == Over([i \in s.held |-> s.mem[i]], db)
       IN  /\ db' = written
           /\ \/ /\ told' = Over(Row(s.call, [id |-> s.answer, row |-> written[s.answer]]), told)
                 /\ UNCHANGED faults
              \/ /\ faults < MaxFaults
                 /\ faults' = faults + 1
                 /\ UNCHANGED told
    /\ Become(w, Idle)
    /\ UNCHANGED <<asked, refused>>

\* The instance dies, or the connection to the database does: the transaction
\* is rolled back and the client sees an error.
Crash(w) ==
    /\ ses[w] # Idle
    /\ faults < MaxFaults
    /\ faults' = faults + 1
    /\ Become(w, Idle)
    /\ UNCHANGED <<db, asked, told, refused>>

InitWith(calls) ==
    /\ db = NoRows
    /\ ses = [w \in Sessions |-> Idle]
    /\ asked = [k \in calls |-> Ask[k]]
    /\ told = NoRows
    /\ refused = {}
    /\ faults = 0
=============================================================================
