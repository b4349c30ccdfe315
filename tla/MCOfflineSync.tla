---------------------------- MODULE MCOfflineSync ----------------------------
(***************************************************************************)
(* Small instances of OfflineSync for TLC: how often each outside event    *)
(* may happen in each run.                                                 *)
(***************************************************************************)
EXTENDS OfflineSync

Calm == [kind \in EventKinds |-> 0]
OneNote == [Calm EXCEPT !["note"] = 1]

FaultsBound == [Calm EXCEPT !["note"] = 2, !["unanswered"] = 1, !["lost"] = 1, !["restart"] = 1,
                            !["refusal"] = 1, !["held"] = 1, !["signIn"] = 1]
DrainsBound == [OneNote EXCEPT !["close"] = 1, !["withdraw"] = 1]

AnyMember == Permutations(Accounts)
=============================================================================
