------------------------------ MODULE JobLedger ------------------------------
(***************************************************************************)
(* What the platform promises about an idempotent job: a ledger holds at   *)
(* most one result per idempotency key, a recorded result never changes,   *)
(* and a caller is only ever told the result the ledger holds.  The        *)
(* sessions, locks, retries and crashes of module JobRuns implement it.    *)
(***************************************************************************)
EXTENDS Naturals

CONSTANTS Keys,     \* idempotency keys
          Results,  \* values of result_uri
          None      \* "nothing recorded yet"

VARIABLES ledger,   \* the recorded result of each key, or None
          told      \* the results callers have been told, per key

vars == <<ledger, told>>

Init ==
    /\ ledger = [k \in Keys |-> None]
    /\ told = [k \in Keys |-> {}]

\* A run succeeds: its result is recorded, once and for all.
Record(k) ==
    /\ ledger[k] = None
    /\ \E r \in Results : ledger' = [ledger EXCEPT ![k] = r]
    /\ UNCHANGED told

\* A caller is answered with the recorded result, fresh or reused.
Tell(k) ==
    /\ ledger[k] # None
    /\ told' = [told EXCEPT ![k] = @ \cup {ledger[k]}]
    /\ UNCHANGED ledger

Next == \E k \in Keys : Record(k) \/ Tell(k)

Spec == Init /\ [][Next]_vars
=============================================================================
