------------------------------ MODULE MCJobRuns ------------------------------
(***************************************************************************)
(* Small instances of JobRuns for TLC.                                     *)
(***************************************************************************)
EXTENDS JobRuns, TLC

CONSTANTS m1

\* Keys that an orchestrator also drives through the repository classes: none,
\* or none but the key of the first day.
NoKeys == {{}}
FirstDay == {{}, {<<m1, 0>>}}

Symmetric == Permutations(Workers) \cup Permutations(Results)
=============================================================================
