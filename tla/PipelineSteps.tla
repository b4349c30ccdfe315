---------------------------- MODULE PipelineSteps ----------------------------
(***************************************************************************)
(* The vocabulary of the processing pipeline, packages/shared/src/         *)
(* pipeline.ts and jobs.ts: which steps there are, which of them are       *)
(* chained and in what order, and the statuses of one job of the ledger.   *)
(***************************************************************************)
EXTENDS Naturals, Sequences

CONSTANTS
  Recordings,  \* ids of recordings
  Pipeline,    \* PIPELINE_STEPS: the chain, a sequence of distinct steps
  Standalone   \* STANDALONE_STEPS: steps that nothing follows

ChainSteps == {Pipeline[i] : i \in 1..Len(Pipeline)}
JobSteps == ChainSteps \cup Standalone

(* A job belongs to one (recording_id, step) pair.                         *)
Pairs == Recordings \X JobSteps

ASSUME PipelineAssumption ==
  /\ Pipeline \in Seq(ChainSteps)
  /\ Len(Pipeline) >= 1
  /\ \A i, j \in 1..Len(Pipeline) : Pipeline[i] = Pipeline[j] => i = j
  /\ Standalone \cap ChainSteps = {}

UnfinishedStatuses == {"pending", "running"}
JobStatuses == UnfinishedStatuses \cup {"succeeded", "failed"}

(* nextPipelineStep: what follows a step, where the chain has something    *)
(* after it. A standalone step is not on the list, so nothing follows it.  *)
HasNext(s) == \E i \in 1..Len(Pipeline) - 1 : Pipeline[i] = s
NextStep(s) == Pipeline[(CHOOSE i \in 1..Len(Pipeline) - 1 : Pipeline[i] = s) + 1]
=============================================================================
