----------------------------- MODULE MCJobLedger -----------------------------
(* Instances of JobLedger for TLC. Ids and steps are strings, so that a    *)
(* trace reads like the ledger.                                            *)
EXTENDS JobLedger

Events(requests, crashes, losses, stops, deletions, midnights) ==
  [request |-> requests, crash |-> crashes, loss |-> losses, stop |-> stops,
   deletion |-> deletions, midnight |-> midnights]

(* Chains: a step and its successor are enough for every rule of the       *)
(* ledger, which never looks further than one step ahead.                  *)
TwoSteps == <<"transcribe", "embed">>

Anything == Events(2, 3, 1, 1, 1, 0)
Spending == Events(3, 0, 0, 0, 0, 1)
Progress == Events(2, 1, 1, 1, 0, 0)
=============================================================================
