---------------------------- MODULE PipelineStatus ----------------------------
(***************************************************************************)
(* What the pipeline promises, as an admin sees it: one status per step of *)
(* each recording, the status of its latest attempt (readPipeline in       *)
(* packages/db/src/pipeline.ts), and the changes of status that may be     *)
(* seen. There is no ledger here, no worker and no attempt: only that a    *)
(* step is asked for once at a time, that a success brings its successor   *)
(* with it in the same instant, that a failure halts, and that work left   *)
(* behind is asked for again or failed.                                    *)
(***************************************************************************)
EXTENDS PipelineSteps

VARIABLE status

StepStatuses == JobStatuses \cup {"not_started"}
StatusTypeOK == status \in [Pairs -> StepStatuses]

Asked(shown, p) ==
  IF shown[p] \in UnfinishedStatuses THEN shown ELSE [shown EXCEPT ![p] = "pending"]

(* A step is asked for; a no-op while it is in flight.                     *)
Ask(p) == status' = Asked(status, p)

Start(p) ==
  /\ status[p] = "pending"
  /\ status' = [status EXCEPT ![p] = "running"]

(* Success: the successor is in flight from the same instant.              *)
Advance(r, s) ==
  /\ status[<<r, s>>] = "running"
  /\ LET done == [status EXCEPT ![<<r, s>>] = "succeeded"]
     IN  status' = IF HasNext(s) THEN Asked(done, <<r, NextStep(s)>>) ELSE done

(* Failure: nothing else moves.                                            *)
Halt(p) ==
  /\ status[p] = "running"
  /\ status' = [status EXCEPT ![p] = "failed"]

(* A restart: all that was running is asked for again, or failed.          *)
Restart ==
  \E again \in SUBSET {p \in Pairs : status[p] = "running"} :
    status' = [p \in Pairs |->
                 IF status[p] # "running" THEN status[p]
                 ELSE IF p \in again THEN "pending" ELSE "failed"]

(* A recording is deleted, and its column of the view with it.             *)
Remove(r) ==
  status' = [p \in Pairs |-> IF p[1] = r THEN "not_started" ELSE status[p]]

StatusInit == status = [p \in Pairs |-> "not_started"]

StatusNext ==
  \/ \E p \in Pairs : Ask(p) \/ Start(p) \/ Halt(p)
  \/ \E r \in Recordings, s \in JobSteps : Advance(r, s)
  \/ \E r \in Recordings : Remove(r)
  \/ Restart

StatusSpec == StatusInit /\ [][StatusNext]_status
=============================================================================
