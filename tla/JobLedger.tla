------------------------------ MODULE JobLedger ------------------------------
(***************************************************************************)
(* The job ledger and everything that moves it: the append-only job table  *)
(* that is also the queue (packages/db/src/jobs.ts), the single worker     *)
(* process that claims one job at a time, runs it and chains its successor *)
(* (packages/worker/src), the boot sweep that takes back what a dead       *)
(* worker left running, and the API's enqueues, with the daily spend       *)
(* ceiling over the paid steps (packages/db/src/spend.ts).                 *)
(*                                                                         *)
(* The rows of one (recording, step) pair are a sequence: attempt k is the *)
(* k-th row. One ledger statement or transaction is one step; a worker is  *)
(* between two of them for as long as its handler runs. The clock `now`    *)
(* counts ledger transactions, and stamps rows in their order.             *)
(***************************************************************************)
EXTENDS PipelineSteps, Functions

CONSTANTS
  SpendingSteps,     \* SPENDING_STEPS: the steps that pay a provider
  EditSteps,         \* steps an edit queues behind itself without asking the ceiling
  MaxSweepReclaims,  \* MAX_SWEEP_RECLAIMS
  Costs,             \* what one run of a paid step may be billed
  DefaultCeiling,    \* the configured ceiling on a UTC day's spend
  Raises,            \* ceilings an admin may raise a day to
  NoJob,             \* the worker has no job in hand
  Bound              \* how often each kind of outside event may still happen

EventKinds == {"request", "crash", "loss", "stop", "deletion", "midnight"}

ASSUME LedgerAssumption ==
  /\ SpendingSteps \subseteq ChainSteps
  /\ EditSteps \subseteq JobSteps
  /\ MaxSweepReclaims \in Nat \ {0}
  /\ Costs \subseteq Nat /\ \E most \in Costs : \A usd \in Costs : usd <= most
  /\ DefaultCeiling \in Nat \ {0}   \* readSpendCeilingUsdPerDay refuses any other
  /\ Raises \subseteq Nat
  /\ NoJob \notin Pairs \X Nat
  /\ Bound \in [EventKinds -> Nat]

VARIABLES
  recording,  \* the recording row: absent, live, or deleted with all its jobs
  runs,       \* the job table: for every pair, its rows in order of attempt
  now,        \* the ledger's clock
  dayStart,   \* when the current UTC day began
  raise,      \* today's row of spend_ceiling_raise, 0 when there is none
  pc,         \* where the worker is
  held,       \* the job in its hands: its pair and its attempt
  cost,       \* what the run in hand has been billed so far
  stopping,   \* a signal has asked the loop to stop
  billed,     \* what the providers have charged since the day began
  budget      \* what Bound leaves

ledgerVars == <<recording, runs, now>>
spendVars == <<dayStart, raise, billed>>
workerVars == <<pc, held, cost, stopping>>
vars == <<recording, runs, now, dayStart, raise, pc, held, cost, stopping, billed, budget>>

Origins == {"upload", "edit", "admin", "chain", "sweep"}
Errors == {"none", "thrown", "ceiling", "restarted", "capped"}
Row == [status : JobStatuses, by : Origins, error : Errors, enqueuedAt : Nat,
        startedAt : Nat, finishedAt : Nat, costUsd : Nat]

Happens(kind) ==
  /\ budget[kind] > 0
  /\ budget' = [budget EXCEPT ![kind] = @ - 1]

-----------------------------------------------------------------------------
(* The ledger's queries, packages/db/src/jobs.ts.                          *)

Unfinished(row) == row.status \in UnfinishedStatuses
InFlight(ledger, p) == \E i \in 1..Len(ledger[p]) : Unfinished(ledger[p][i])

NewRow(by) == [status |-> "pending", by |-> by, error |-> "none", enqueuedAt |-> now,
               startedAt |-> 0, finishedAt |-> 0, costUsd |-> 0]

(* enqueueJob: a no-op when the partial unique index finds the pair        *)
(* unfinished; otherwise one more attempt.                                 *)
EnqueueJob(ledger, p, by) ==
  IF InFlight(ledger, p) THEN ledger
  ELSE [ledger EXCEPT ![p] = Append(@, NewRow(by))]

CompleteJob(ledger, job, usd) ==
  [ledger EXCEPT ![job[1]][job[2]] =
     [@ EXCEPT !.status = "succeeded", !.error = "none", !.finishedAt = now, !.costUsd = usd]]

(* Mutant: a failure in a status the ledger does not have.                 *)
FailJobUnknownStatus(ledger, job, reason, usd) ==
  [ledger EXCEPT ![job[1]][job[2]] =
     [@ EXCEPT !.status = "error", !.error = reason, !.finishedAt = now, !.costUsd = usd]]

FailJob(ledger, job, reason, usd) ==
  [ledger EXCEPT ![job[1]][job[2]] =
     [@ EXCEPT !.status = "failed", !.error = reason, !.finishedAt = now, !.costUsd = usd]]

(* consecutiveSweepFailures: both texts the sweep writes begin with its    *)
(* reason, so both count. The cap is reached when the rows just before     *)
(* this one were all failed by a sweep.                                    *)
SweptAway(row) == row.status = "failed" /\ row.error \in {"restarted", "capped"}
CrashLoopOneMore(rows, i) ==   \* mutant: one crash too many
  \A k \in 1..MaxSweepReclaims : i - k >= 1 /\ SweptAway(rows[i - k])
CrashLoop(rows, i) ==
  \A k \in 1..MaxSweepReclaims - 1 : i - k >= 1 /\ SweptAway(rows[i - k])

(* sweepRunning, for the rows of one pair: fail what is running, and queue *)
(* a fresh attempt unless the cap is reached.                              *)
SweepRows(rows) ==
  LET failed == [i \in 1..Len(rows) |->
                   IF rows[i].status # "running" THEN rows[i]
                   ELSE [rows[i] EXCEPT !.status = "failed", !.finishedAt = now,
                           !.error = IF CrashLoop(rows, i) THEN "capped" ELSE "restarted"]]
  IN  IF \E i \in 1..Len(rows) : rows[i].status = "running" /\ ~CrashLoop(rows, i)
      THEN Append(failed, NewRow("sweep"))
      ELSE failed
SweepRunning(ledger) == [p \in Pairs |-> SweepRows(ledger[p])]

(* claimNextJob: the oldest pending row; rows of one transaction share     *)
(* their enqueued_at and are ordered by a random id.                       *)
Pending(ledger) ==
  {job \in UNION {{p} \X (1..Len(ledger[p])) : p \in Pairs} :
     ledger[job[1]][job[2]].status = "pending"}
OldestPending(ledger) ==
  {job \in Pending(ledger) : \A other \in Pending(ledger) :
     ledger[job[1]][job[2]].enqueuedAt <= ledger[other[1]][other[2]].enqueuedAt}

-----------------------------------------------------------------------------
(* The spend ledger, packages/db/src/spend.ts: no table of its own, but a  *)
(* sum over the rows finished since the UTC day began.                     *)

PaidToday(ledger) ==
  {job \in UNION {{p} \X (1..Len(ledger[p])) : p \in Recordings \X ChainSteps} :
     LET row == ledger[job[1]][job[2]]
     IN  ~Unfinished(row) /\ row.finishedAt >= dayStart /\ row.costUsd > 0}
TodayUsd == SumFunction([job \in PaidToday(runs) |-> runs[job[1]][job[2]].costUsd])
CeilingUsd == IF raise > DefaultCeiling THEN raise ELSE DefaultCeiling
SpendCeilingPassed == TodayUsd > CeilingUsd   \* mutant of SpendCeilingReached
SpendCeilingReached == TodayUsd >= CeilingUsd

-----------------------------------------------------------------------------
(* The API. Each of these is one request's transaction.                    *)

(* finaliseUpload: the recording and the first job of its pipeline.        *)
FinaliseUpload(r) ==
  /\ recording[r] = "absent"
  /\ Happens("request")
  /\ recording' = [recording EXCEPT ![r] = "live"]
  /\ runs' = EnqueueJob(runs, <<r, Pipeline[1]>>, "upload")
  /\ now' = now + 1
  /\ UNCHANGED <<spendVars, workerVars>>

(* An edit, a publication or a sound control queues a step behind its own  *)
(* write, in the write's transaction, and never asks the ceiling.          *)
EnqueueBehindEdit(r, s) ==
  /\ recording[r] = "live"
  /\ Happens("request")
  /\ runs' = EnqueueJob(runs, <<r, s>>, "edit")
  /\ now' = now + 1
  /\ UNCHANGED <<recording, spendVars, workerVars>>

(* rerunStep: any step of the chain, in any state of the others; a paid    *)
(* one only under the ceiling.                                             *)
RerunStep(r, s) ==
  /\ recording[r] = "live"
  /\ s \in SpendingSteps => ~SpendCeilingReached
  /\ Happens("request")
  /\ runs' = EnqueueJob(runs, <<r, s>>, "admin")
  /\ now' = now + 1
  /\ UNCHANGED <<recording, spendVars, workerVars>>

(* raiseSpendCeiling: never under the default, and never under an earlier  *)
(* raise of the same day.                                                  *)
RaiseSpendCeiling(usd) ==
  /\ usd >= DefaultCeiling
  /\ Happens("request")
  /\ raise' = IF usd > raise THEN usd ELSE raise
  /\ UNCHANGED <<ledgerVars, workerVars, dayStart, billed>>

(* removeRecording: the row, and by cascade every job of it.               *)
RemoveRecording(r) ==
  /\ recording[r] = "live"
  /\ Happens("deletion")
  /\ recording' = [recording EXCEPT ![r] = "deleted"]
  /\ runs' = [p \in Pairs |-> IF p[1] = r THEN <<>> ELSE runs[p]]
  /\ UNCHANGED <<now, spendVars, workerVars>>

(* A new UTC day: nothing is written, the sum and the raise start again.   *)
Midnight ==
  /\ Happens("midnight")
  /\ dayStart' = now
  /\ raise' = 0
  /\ billed' = 0
  /\ UNCHANGED <<ledgerVars, workerVars>>

-----------------------------------------------------------------------------
(* The worker process: sweep at boot, then one job at a time.              *)

BootUnswept ==   \* mutant of Boot: the sweep is forgotten
  /\ pc = "down"
  /\ pc' = "idle"
  /\ now' = now + 1
  /\ UNCHANGED <<recording, runs, spendVars, held, cost, stopping, budget>>

Boot ==
  /\ pc = "down"
  /\ pc' = "idle"
  /\ runs' = SweepRunning(runs)
  /\ now' = now + 1
  /\ UNCHANGED <<recording, spendVars, held, cost, stopping, budget>>

Claim ==
  /\ pc = "idle"
  /\ ~stopping
  /\ \E job \in OldestPending(runs) :
       /\ runs' = [runs EXCEPT ![job[1]][job[2]] =
                     [@ EXCEPT !.status = "running", !.startedAt = now]]
       /\ held' = job
  /\ pc' = "claimed"
  /\ now' = now + 1
  /\ UNCHANGED <<recording, spendVars, cost, stopping, budget>>

(* The loop finds nothing to claim and sleeps.                             *)
PollEmpty ==
  /\ pc = "idle"
  /\ ~stopping
  /\ Pending(runs) = {}
  /\ UNCHANGED vars

(* The row in hand is still there: its recording has not been deleted.     *)
RowExists == held[2] <= Len(runs[held[1]])
Spends == held[1][2] \in SpendingSteps

BackToTop ==
  /\ pc' = "idle"
  /\ held' = NoJob
  /\ cost' = 0
  /\ UNCHANGED stopping

(* runJob, the ceiling: asked of what the day has already spent, before    *)
(* the provider is.                                                        *)
RefuseAtCeiling ==
  /\ pc = "claimed"
  /\ RowExists
  /\ Spends /\ SpendCeilingReached
  /\ runs' = FailJob(runs, held, "ceiling", 0)
  /\ now' = now + 1
  /\ BackToTop
  /\ UNCHANGED <<recording, spendVars, budget>>

StartHandler ==
  /\ pc = "claimed"
  /\ Spends => ~SpendCeilingReached
  /\ pc' = "handling"
  /\ UNCHANGED <<ledgerVars, spendVars, held, cost, stopping, budget>>

(* The handler's paid call: the provider charges when it answers, and the  *)
(* ledger hears of it only when the run ends.                              *)
ProviderCall(usd) ==
  /\ pc = "handling"
  /\ Spends
  /\ cost = 0 /\ usd > 0
  /\ cost' = usd
  /\ billed' = billed + usd
  /\ UNCHANGED <<ledgerVars, dayStart, raise, pc, held, stopping, budget>>

(* Mutants of Succeed: a step that has ever run is not queued again, and no *)
(* successor at all.                                                       *)
SucceedOnce ==
  /\ pc = "handling"
  /\ RowExists
  /\ LET done == CompleteJob(runs, held, cost)
         step == held[1][2]
     IN  runs' = IF HasNext(step) /\ runs[<<held[1][1], NextStep(step)>>] = <<>>
                 THEN EnqueueJob(done, <<held[1][1], NextStep(step)>>, "chain")
                 ELSE done
  /\ now' = now + 1
  /\ BackToTop
  /\ UNCHANGED <<recording, spendVars, budget>>
SucceedUnchained ==
  /\ pc = "handling"
  /\ RowExists
  /\ runs' = CompleteJob(runs, held, cost)
  /\ now' = now + 1
  /\ BackToTop
  /\ UNCHANGED <<recording, spendVars, budget>>

(* A handler that returns: the row and its successor in one transaction.   *)
Succeed ==
  /\ pc = "handling"
  /\ RowExists
  /\ LET done == CompleteJob(runs, held, cost)
         step == held[1][2]
     IN  runs' = IF HasNext(step)
                 THEN EnqueueJob(done, <<held[1][1], NextStep(step)>>, "chain")
                 ELSE done
  /\ now' = now + 1
  /\ BackToTop
  /\ UNCHANGED <<recording, spendVars, budget>>

(* Mutant of Throw: the successor is queued however the step ended.        *)
ThrowChained ==
  /\ pc = "handling"
  /\ RowExists
  /\ LET done == FailJob(runs, held, "thrown", cost)
         step == held[1][2]
     IN  runs' = IF HasNext(step)
                 THEN EnqueueJob(done, <<held[1][1], NextStep(step)>>, "chain")
                 ELSE done
  /\ now' = now + 1
  /\ BackToTop
  /\ UNCHANGED <<recording, spendVars, budget>>

(* A handler that throws: a failed row that carries what was paid, and no  *)
(* successor.                                                              *)
Throw ==
  /\ pc = "handling"
  /\ RowExists
  /\ runs' = FailJob(runs, held, "thrown", cost)
  /\ now' = now + 1
  /\ BackToTop
  /\ UNCHANGED <<recording, spendVars, budget>>

(* The ledger refuses the outcome: the loop reports it and carries on,     *)
(* leaving the row running. The same for a row that is no longer there.    *)
LedgerRefuses ==
  /\ pc \in {"claimed", "handling"}
  /\ RowExists
  /\ Happens("loss")
  /\ BackToTop
  /\ UNCHANGED <<ledgerVars, spendVars>>

RowVanished ==
  /\ pc \in {"claimed", "handling"}
  /\ ~RowExists
  /\ BackToTop
  /\ UNCHANGED <<ledgerVars, spendVars, budget>>

(* A signal stops the claiming; the job in hand is finished first.         *)
Signal ==
  /\ pc # "down"
  /\ ~stopping
  /\ Happens("stop")
  /\ stopping' = TRUE
  /\ UNCHANGED <<ledgerVars, spendVars, pc, held, cost>>

Exit ==
  /\ pc = "idle"
  /\ stopping
  /\ pc' = "down"
  /\ stopping' = FALSE
  /\ UNCHANGED <<ledgerVars, spendVars, held, cost, budget>>

(* The process dies where it is; whatever it held stays running.           *)
Crash ==
  /\ pc # "down"
  /\ Happens("crash")
  /\ pc' = "down"
  /\ held' = NoJob
  /\ cost' = 0
  /\ stopping' = FALSE
  /\ UNCHANGED <<ledgerVars, spendVars>>

-----------------------------------------------------------------------------
Init ==
  /\ recording = [r \in Recordings |-> "absent"]
  /\ runs = [p \in Pairs |-> <<>>]
  /\ now = 1
  /\ dayStart = 1
  /\ raise = 0
  /\ pc = "down"
  /\ held = NoJob
  /\ cost = 0
  /\ stopping = FALSE
  /\ billed = 0
  /\ budget = Bound

Api ==
  \/ \E r \in Recordings :
       \/ FinaliseUpload(r)
       \/ RemoveRecording(r)
       \/ \E s \in EditSteps : EnqueueBehindEdit(r, s)
       \/ \E s \in ChainSteps : RerunStep(r, s)
  \/ \E usd \in Raises : RaiseSpendCeiling(usd)

WorkerStep ==
  \/ Boot \/ Claim \/ PollEmpty \/ RefuseAtCeiling \/ StartHandler
  \/ Succeed \/ Throw \/ RowVanished \/ Exit

Environment == Midnight \/ LedgerRefuses \/ Signal \/ Crash

Next ==
  \/ Api
  \/ WorkerStep
  \/ \E usd \in Costs : ProviderCall(usd)
  \/ Environment

(* pm2 restarts the process whenever it is down (ecosystem.config.cjs), the*)
(* loop polls for ever, and every provider call of a handler ends, in an   *)
(* answer, a refusal or a timeout.                                         *)
Spec == Init /\ [][Next]_vars /\ WF_vars(WorkerStep)

-----------------------------------------------------------------------------
(* Properties.                                                             *)

TypeOK ==
  /\ recording \in [Recordings -> {"absent", "live", "deleted"}]
  /\ runs \in [Pairs -> Seq(Row)]
  /\ now \in Nat /\ dayStart \in Nat /\ raise \in Nat /\ billed \in Nat /\ cost \in Nat
  /\ pc \in {"down", "idle", "claimed", "handling"}
  /\ held \in (Pairs \X (Nat \ {0})) \cup {NoJob}
  /\ stopping \in BOOLEAN
  /\ budget \in [EventKinds -> Nat]

(* At most one job of a pair is unfinished, and it is the pair's latest    *)
(* attempt: what job_unfinished_step_unique says, and what makes the       *)
(* latest row the status the pipeline view may show.                       *)
OnlyLatestUnfinished ==
  \A p \in Pairs : \A i \in 1..Len(runs[p]) : Unfinished(runs[p][i]) => i = Len(runs[p])

(* The job in the worker's hands is running in the ledger for as long as   *)
(* its recording exists: nobody else finishes, sweeps or supersedes it.    *)
HeldIsRunning ==
  pc \in {"claimed", "handling"} =>
    /\ held # NoJob
    /\ RowExists => runs[held[1]][held[2]].status = "running"

(* No success is left without its successor: for every step that ever      *)
(* succeeded, a job of the next step is still to come, or started after    *)
(* that success, or was failed after it where an admin can see it.         *)
SuccessorFollows ==
  \A r \in Recordings, s \in ChainSteps : HasNext(s) =>
    \A i \in 1..Len(runs[<<r, s>>]) :
      LET row == runs[<<r, s>>][i]
          later == runs[<<r, NextStep(s)>>]
      IN  row.status = "succeeded" =>
            \E j \in 1..Len(later) :
              \/ Unfinished(later[j])
              \/ later[j].startedAt > row.finishedAt
              \/ later[j].status = "failed" /\ later[j].finishedAt > row.finishedAt

(* The sweep never queues the same step MaxSweepReclaims times running: a  *)
(* job that kills the worker is re-paid a bounded number of times.         *)
CrashLoopBounded ==
  \A p \in Pairs : \A i \in 1..Len(runs[p]) :
    \E k \in 0..MaxSweepReclaims - 1 : i - k < 1 \/ runs[p][i - k].by # "sweep"

(* A job the sweep queued replaces one that it failed, and nothing has run *)
(* in between: nothing retries by itself but a crash.                      *)
OnlyCrashesAreRetried ==
  \A p \in Pairs : \A i \in 1..Len(runs[p]) :
    runs[p][i].by = "sweep" => i > 1 /\ runs[p][i - 1].error = "restarted"

(* A row that has finished is never written again while its recording      *)
(* exists: the ledger is append-only, although completeJob and failJob     *)
(* would overwrite any row they are given.                                 *)
FinishedRowsKept ==
  [][\A p \in Pairs : recording'[p[1]] # "deleted" =>
       /\ Len(runs'[p]) >= Len(runs[p])
       /\ \A i \in 1..Len(runs[p]) :
            ~Unfinished(runs[p][i]) => runs'[p][i] = runs[p][i]]_vars

(* The true cap is the ceiling plus one job: what the providers have       *)
(* really charged since the UTC day began never passes the ceiling in      *)
(* force by a whole run.                                                   *)
MaxCost == CHOOSE usd \in Costs : \A other \in Costs : other <= usd
TrueCap == billed < CeilingUsd + MaxCost

(* The status the pipeline view shows of a step is its latest attempt's    *)
(* (readPipeline), and the ledger moves it only as PipelineStatus allows.  *)
ShownStatus(p) == IF runs[p] = <<>> THEN "not_started" ELSE runs[p][Len(runs[p])].status
View == INSTANCE PipelineStatus WITH status <- [p \in Pairs |-> ShownStatus(p)]
ImplementsStatusView == View!StatusSpec

(* A refused write leaves its row running until the next boot, and nothing *)
(* forces one. Of behaviours in which the worker boots once more after the *)
(* last write that was refused, if any was:                                *)
BootsAfterRefusals ==
  \E b \in 0..Bound["loss"] : <>(pc = "down" /\ [](budget["loss"] = b))

(* every upload is carried to the end of its pipeline or stops where an    *)
(* admin can see it: at rest, some step has failed or the last one has     *)
(* succeeded;                                                              *)
Carried(r) ==
  \/ recording[r] = "deleted"
  \/ \E s \in ChainSteps : \E i \in 1..Len(runs[<<r, s>>]) :
       \/ runs[<<r, s>>][i].status = "failed"
       \/ ~HasNext(s) /\ runs[<<r, s>>][i].status = "succeeded"
UploadIsCarriedThrough ==
  BootsAfterRefusals => \A r \in Recordings : recording[r] = "live" ~> Carried(r)

(* and nothing stays in flight for ever: a running job reaches an outcome, *)
(* the one whose outcome was refused too.                                  *)
InFlightSettles == BootsAfterRefusals => \A p \in Pairs : []<>~InFlight(runs, p)
=============================================================================
