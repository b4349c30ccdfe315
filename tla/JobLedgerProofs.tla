--------------------------- MODULE JobLedgerProofs ---------------------------
(***************************************************************************)
(* What the job ledger keeps for every set of recordings, every chain of   *)
(* steps, every cap on crashes and every amount of outside trouble: the    *)
(* theorems of JobLedger, and the lemmas on its queries they rest on.      *)
(***************************************************************************)
EXTENDS JobLedger, TLAPS, FiniteSetTheorems, WellFoundedInduction

(* One pair's rows, taken alone: the shape every query must preserve.      *)
LatestOnly(rows) == \A i \in 1..Len(rows) : Unfinished(rows[i]) => i = Len(rows)
Retried(rows) ==
  \A i \in 1..Len(rows) :
    /\ rows[i].by = "sweep" => i > 1 /\ rows[i - 1].error = "restarted"
    /\ rows[i].error = "restarted" => rows[i].status = "failed" /\ ~CrashLoop(rows, i)
Sound(rows) == rows \in Seq(Row) /\ LatestOnly(rows) /\ Retried(rows)

(* And the relation between a pair's rows before and after: none is lost,  *)
(* and what has finished stays as it was.                                  *)
Keeps(old, new) ==
  /\ Len(new) >= Len(old)
  /\ \A i \in 1..Len(old) : ~Unfinished(old[i]) => new[i] = old[i]

Ledger == [Pairs -> Seq(Row)]
AllSound(ledger) == ledger \in Ledger /\ \A p \in Pairs : Sound(ledger[p])
AllKept(old, new) == \A p \in Pairs : Keeps(old[p], new[p])

-----------------------------------------------------------------------------
(* A new row at the end of a pair with nothing in flight.                  *)
LEMMA AppendSound ==
  ASSUME NEW rows, Sound(rows), NEW row \in Row,
         \A i \in 1..Len(rows) : ~Unfinished(rows[i]),
         row.error = "none",
         row.by = "sweep" => Len(rows) >= 1 /\ rows[Len(rows)].error = "restarted"
  PROVE  Sound(Append(rows, row)) /\ Keeps(rows, Append(rows, row))
<1> DEFINE new == Append(rows, row)
<1>1. /\ new \in Seq(Row)
      /\ Len(new) = Len(rows) + 1
      /\ \A i \in 1..Len(rows) : new[i] = rows[i]
      /\ new[Len(rows) + 1] = row
      /\ Len(rows) \in Nat
  BY DEF Sound
<1>2. LatestOnly(new)
  BY <1>1 DEF LatestOnly
<1>3. Keeps(rows, new)
  BY <1>1 DEF Keeps
<1>4. ASSUME NEW i \in 1..Len(rows), CrashLoop(new, i) PROVE CrashLoop(rows, i)
  BY <1>1, <1>4, LedgerAssumption DEF CrashLoop
<1>5. Retried(new)
  <2> SUFFICES ASSUME NEW i \in 1..Len(new)
               PROVE /\ new[i].by = "sweep" => i > 1 /\ new[i - 1].error = "restarted"
                     /\ new[i].error = "restarted" => new[i].status = "failed" /\ ~CrashLoop(new, i)
    BY DEF Retried
  <2>1. CASE i \in 1..Len(rows)
    BY <2>1, <1>1, <1>4 DEF Sound, Retried
  <2>2. CASE i = Len(rows) + 1
    BY <2>2, <1>1
  <2> QED BY <2>1, <2>2, <1>1
<1> QED BY <1>1, <1>2, <1>3, <1>5 DEF Sound

(* Rewriting the latest row, while it is unfinished.                       *)
LEMMA RewriteSound ==
  ASSUME NEW rows, Sound(rows), NEW i \in 1..Len(rows), Unfinished(rows[i]),
         NEW row \in Row, row.by = rows[i].by,
         row.error = "restarted" => row.status = "failed" /\ ~CrashLoop(rows, i)
  PROVE  /\ Sound([rows EXCEPT ![i] = row])
         /\ Keeps(rows, [rows EXCEPT ![i] = row])
<1> DEFINE new == [rows EXCEPT ![i] = row]
<1>1. i = Len(rows) /\ Len(rows) \in Nat
  BY DEF Sound, LatestOnly
<1>2. /\ new \in Seq(Row)
      /\ Len(new) = Len(rows)
      /\ \A j \in 1..Len(rows) : j # i => new[j] = rows[j]
      /\ new[i] = row
  BY DEF Sound
<1> HIDE DEF new
<1>3. LatestOnly(new)
  BY <1>1, <1>2 DEF LatestOnly, Sound
<1>4. Keeps(rows, new)
  BY <1>1, <1>2 DEF Keeps
<1>5. ASSUME NEW j \in 1..Len(rows), CrashLoop(new, j) PROVE CrashLoop(rows, j)
  <2> SUFFICES ASSUME NEW k \in 1..MaxSweepReclaims - 1
               PROVE  j - k >= 1 /\ SweptAway(rows[j - k])
    BY DEF CrashLoop
  <2>1. j - k >= 1 /\ SweptAway(new[j - k])
    BY <1>5 DEF CrashLoop
  <2>2. j - k \in 1..Len(rows) /\ j - k # i
    BY <1>1, <2>1, LedgerAssumption
  <2> QED BY <1>2, <2>1, <2>2
<1>6. Retried(new)
  <2> SUFFICES ASSUME NEW j \in 1..Len(new)
               PROVE /\ new[j].by = "sweep" => j > 1 /\ new[j - 1].error = "restarted"
                     /\ new[j].error = "restarted" => new[j].status = "failed" /\ ~CrashLoop(new, j)
    BY DEF Retried
  <2>1. CASE j # i
    <3>1. j \in 1..Len(rows) /\ j < i /\ j \in Nat
      BY <2>1, <1>1, <1>2
    <3>2. new[j] = rows[j] /\ (j > 1 => new[j - 1] = rows[j - 1])
      BY <3>1, <1>1, <1>2
    <3> QED BY <3>1, <3>2, <1>5 DEF Sound, Retried
  <2>2. CASE j = i
    <3>1. j \in 1..Len(rows) /\ j \in Nat /\ new[j] = row
      BY <2>2, <1>1, <1>2
    <3>2. j > 1 => new[j - 1] = rows[j - 1]
      BY <3>1, <2>2, <1>1, <1>2
    <3> QED BY <2>2, <3>1, <3>2, <1>5 DEF Sound, Retried
  <2> QED BY <2>1, <2>2
<1>7. Sound(new) /\ Keeps(rows, new)
  BY <1>2, <1>3, <1>4, <1>6 DEF Sound
<1> QED BY <1>7 DEF new

(* The same of the whole ledger: one row of it rewritten.                  *)
LEMMA PutSound ==
  ASSUME NEW ledger, AllSound(ledger), NEW p \in Pairs, NEW i \in 1..Len(ledger[p]),
         Unfinished(ledger[p][i]), NEW row \in Row,
         row.by = ledger[p][i].by, row.error # "restarted"
  PROVE  /\ AllSound([ledger EXCEPT ![p][i] = row])
         /\ AllKept(ledger, [ledger EXCEPT ![p][i] = row])
<1> DEFINE new == [ledger EXCEPT ![p] = [ledger[p] EXCEPT ![i] = row]]
<1>1. /\ Sound([ledger[p] EXCEPT ![i] = row])
      /\ Keeps(ledger[p], [ledger[p] EXCEPT ![i] = row])
  BY RewriteSound DEF AllSound
<1>2. new \in Ledger
  BY <1>1 DEF AllSound, Ledger, Sound
<1>3. ASSUME NEW q \in Pairs PROVE Sound(new[q]) /\ Keeps(ledger[q], new[q])
  <2>1. CASE q = p
    BY <2>1, <1>1 DEF AllSound, Ledger
  <2>2. CASE q # p
    <3>1. new[q] = ledger[q]
      BY <2>2 DEF AllSound, Ledger
    <3>2. Sound(ledger[q]) /\ Keeps(ledger[q], ledger[q])
      BY DEF AllSound, Keeps, Sound
    <3> QED BY <3>1, <3>2
  <2> QED BY <2>1, <2>2
<1>4. AllSound(new) /\ AllKept(ledger, new)
  BY <1>2, <1>3 DEF AllSound, AllKept
<1>5. new = [ledger EXCEPT ![p][i] = row]
  OBVIOUS
<1> QED BY <1>4, <1>5

LEMMA KeptTransitive ==
  ASSUME NEW a, NEW b, NEW c, a \in Ledger, b \in Ledger, c \in Ledger,
         AllKept(a, b), AllKept(b, c)
  PROVE  AllKept(a, c)
<1> SUFFICES ASSUME NEW p \in Pairs PROVE Keeps(a[p], c[p])
  BY DEF AllKept
<1>1. Keeps(a[p], b[p]) /\ Keeps(b[p], c[p])
  BY DEF AllKept
<1>2. Len(a[p]) \in Nat /\ Len(b[p]) \in Nat /\ Len(c[p]) \in Nat
  BY DEF Ledger
<1> QED BY <1>1, <1>2 DEF Keeps

(* enqueueJob adds at most one row, to a pair that has none in flight.     *)
LEMMA EnqueueSound ==
  ASSUME NEW ledger, AllSound(ledger), NEW p \in Pairs, NEW by \in Origins,
         by # "sweep", now \in Nat
  PROVE  /\ AllSound(EnqueueJob(ledger, p, by))
         /\ AllKept(ledger, EnqueueJob(ledger, p, by))
<1> DEFINE new == [ledger EXCEPT ![p] = Append(ledger[p], NewRow(by))]
<1>1. CASE InFlight(ledger, p)
  <2>1. EnqueueJob(ledger, p, by) = ledger
    BY <1>1 DEF EnqueueJob
  <2>2. AllKept(ledger, ledger)
    BY DEF AllKept, Keeps, AllSound, Ledger
  <2> QED BY <2>1, <2>2
<1>2. CASE ~InFlight(ledger, p)
  <2>1. NewRow(by) \in Row /\ NewRow(by).error = "none" /\ NewRow(by).by = by
    BY DEF NewRow, Row, JobStatuses, UnfinishedStatuses, Errors
  <2>2. /\ Sound(Append(ledger[p], NewRow(by)))
        /\ Keeps(ledger[p], Append(ledger[p], NewRow(by)))
    BY <1>2, <2>1, AppendSound DEF InFlight, AllSound
  <2>3. new \in Ledger
    BY <2>2 DEF AllSound, Ledger, Sound
  <2>4. ASSUME NEW q \in Pairs PROVE Sound(new[q]) /\ Keeps(ledger[q], new[q])
    <3>1. CASE q = p
      BY <3>1, <2>2 DEF AllSound, Ledger
    <3>2. CASE q # p
      <4>1. new[q] = ledger[q]
        BY <3>2 DEF AllSound, Ledger
      <4>2. Sound(ledger[q]) /\ Keeps(ledger[q], ledger[q])
        BY DEF AllSound, Keeps, Sound
      <4> QED BY <4>1, <4>2
    <3> QED BY <3>1, <3>2
  <2>5. EnqueueJob(ledger, p, by) = new
    BY <1>2 DEF EnqueueJob
  <2> QED BY <2>3, <2>4, <2>5 DEF AllSound, AllKept
<1> QED BY <1>1, <1>2

(* sweepRunning fails what is running, and queues again what is not in a   *)
(* crash loop.                                                             *)
LEMMA SweepSound ==
  ASSUME NEW rows, Sound(rows), now \in Nat
  PROVE  /\ Sound(SweepRows(rows))
         /\ Keeps(rows, SweepRows(rows))
         /\ rows = <<>> => SweepRows(rows) = <<>>
<1> DEFINE n == Len(rows)
           reason == IF CrashLoop(rows, n) THEN "capped" ELSE "restarted"
           gone == [rows[n] EXCEPT !.status = "failed", !.finishedAt = now, !.error = reason]
           failed == [i \in 1..Len(rows) |->
                        IF rows[i].status # "running" THEN rows[i]
                        ELSE [rows[i] EXCEPT !.status = "failed", !.finishedAt = now,
                                !.error = IF CrashLoop(rows, i) THEN "capped" ELSE "restarted"]]
           again == \E i \in 1..Len(rows) : rows[i].status = "running" /\ ~CrashLoop(rows, i)
<1>1. SweepRows(rows) = IF again THEN Append(failed, NewRow("sweep")) ELSE failed
  BY DEF SweepRows
<1>2. rows \in Seq(Row) /\ n \in Nat
  BY DEF Sound
<1>3. \A i \in 1..n : rows[i].status = "running" => i = n
  BY DEF Sound, LatestOnly, Unfinished, UnfinishedStatuses
<1>4. CASE ~(n >= 1 /\ rows[n].status = "running")
  <2>1. \A i \in 1..n : rows[i].status # "running"
    BY <1>4, <1>3, <1>2
  <2>2. failed = [i \in 1..n |-> rows[i]]
    BY <2>1
  <2>3. failed = rows /\ ~again
    <3>1. rows = [i \in 1..n |-> rows[i]]
      BY <1>2
    <3>2. ~again
      BY <2>1
    <3> HIDE DEF failed, again
    <3> QED BY <3>1, <3>2, <2>2
  <2> HIDE DEF failed, again
  <2> QED BY <2>3, <1>1, <1>2 DEF Keeps
<1>5. CASE n >= 1 /\ rows[n].status = "running"
  <2>1. n \in 1..n /\ rows[n] \in Row
    BY <1>5, <1>2
  <2>2. gone \in Row /\ gone.by = rows[n].by /\ gone.status = "failed" /\ gone.error = reason
    BY <2>1 DEF Row, JobStatuses, Errors
  <2>3. failed = [rows EXCEPT ![n] = gone]
    <3>1. [rows EXCEPT ![n] = gone] = [i \in 1..n |-> IF i = n THEN gone ELSE rows[i]]
      BY <1>2
    <3>2. \A i \in 1..n : i # n => rows[i].status # "running"
      BY <1>3
    <3>3. failed = [i \in 1..n |-> IF i = n THEN gone ELSE rows[i]]
      BY <1>5, <3>2
    <3> QED BY <3>1, <3>3
  <2>4. again <=> ~CrashLoop(rows, n)
    BY <1>5, <1>3, <2>1
  <2>5. Unfinished(rows[n])
    BY <1>5 DEF Unfinished, UnfinishedStatuses
  <2> HIDE DEF gone
  <2>6. gone.error = "restarted" => gone.status = "failed" /\ ~CrashLoop(rows, n)
    BY <2>2
  <2>7. Sound([rows EXCEPT ![n] = gone]) /\ Keeps(rows, [rows EXCEPT ![n] = gone])
    BY <2>1, <2>2, <2>5, <2>6, RewriteSound
  <2> HIDE DEF failed, again
  <2>8. Sound(failed) /\ Keeps(rows, failed)
    BY <2>7, <2>3
  <2>9. CASE ~again
    BY <2>9, <2>8, <1>1, <1>5, <1>2
  <2>10. CASE again
    <3>1. NewRow("sweep") \in Row /\ NewRow("sweep").error = "none"
      BY DEF NewRow, Row, JobStatuses, UnfinishedStatuses, Errors, Origins
    <3>2. Len(failed) = n /\ failed[n] = gone
      BY <2>3, <2>1, <1>2
    <3>3. gone.error = "restarted" /\ ~Unfinished(gone)
      BY <2>2, <2>4, <2>10 DEF Unfinished, UnfinishedStatuses
    <3>4. \A i \in 1..Len(failed) : ~Unfinished(failed[i])
      BY <3>2, <3>3, <2>8 DEF Sound, LatestOnly
    <3>5. /\ Sound(Append(failed, NewRow("sweep")))
          /\ Keeps(failed, Append(failed, NewRow("sweep")))
      BY <3>1, <3>2, <3>3, <3>4, <2>8, <2>1, AppendSound
    <3>6. Keeps(rows, Append(failed, NewRow("sweep")))
      BY <3>5, <2>8, <1>2 DEF Keeps, Sound
    <3> QED BY <3>5, <3>6, <2>10, <1>1, <1>5, <1>2
  <2> QED BY <2>9, <2>10
<1> QED BY <1>4, <1>5

-----------------------------------------------------------------------------
(* The inductive invariant. The row in hand must be known to be running,   *)
(* so that finishing it rewrites an unfinished row; for that, its absence  *)
(* must mean that its recording is deleted, so that no later job of the    *)
(* pair can take its place.                                                *)
HandOK ==
  pc \in {"claimed", "handling"} =>
    /\ held # NoJob
    /\ RowExists => runs[held[1]][held[2]].status = "running"
    /\ ~RowExists => recording[held[1][1]] = "deleted"

OnlyLiveHaveJobs == \A p \in Pairs : recording[p[1]] # "live" => runs[p] = <<>>

IndInv == TypeOK /\ AllSound(runs) /\ OnlyLiveHaveJobs /\ HandOK

RowsKept ==
  \A p \in Pairs : recording'[p[1]] # "deleted" => Keeps(runs[p], runs'[p])

LEMMA BudgetType ==
  ASSUME budget \in [EventKinds -> Nat], NEW kind \in EventKinds, Happens(kind)
  PROVE  budget' \in [EventKinds -> Nat]
BY DEF Happens

LEMMA PairParts ==
  /\ \A r \in Recordings, s \in JobSteps : <<r, s>> \in Pairs
  /\ \A p \in Pairs : p[1] \in Recordings /\ p[2] \in JobSteps /\ p = <<p[1], p[2]>>
BY DEF Pairs

LEMMA StepsOfChain ==
  /\ Pipeline[1] \in JobSteps
  /\ ChainSteps \subseteq JobSteps
  /\ \A s : HasNext(s) => NextStep(s) \in JobSteps
<1>1. Pipeline[1] \in ChainSteps /\ Len(Pipeline) \in Nat
  BY PipelineAssumption DEF ChainSteps
<1>2. ASSUME NEW s, HasNext(s) PROVE NextStep(s) \in ChainSteps
  <2> DEFINE k == CHOOSE i \in 1..Len(Pipeline) - 1 : Pipeline[i] = s
  <2>1. k \in 1..Len(Pipeline) - 1
    BY <1>2 DEF HasNext
  <2>2. k + 1 \in 1..Len(Pipeline)
    BY <2>1, <1>1
  <2> QED BY <2>2 DEF NextStep, ChainSteps
<1> QED BY <1>1, <1>2 DEF JobSteps

(* Nothing that appends to a live recording's rows can touch the hand.     *)
LEMMA HandKept ==
  ASSUME TypeOK, HandOK, AllKept(runs, runs'), runs' \in Ledger,
         \A p \in Pairs : \A i \in 1..Len(runs[p]) : runs'[p][i] = runs[p][i],
         \A p \in Pairs : recording[p[1]] = "deleted" => runs'[p] = runs[p],
         \A r \in Recordings : recording[r] = "deleted" => recording'[r] = "deleted",
         pc' = pc, held' = held
  PROVE  HandOK'
<1> SUFFICES ASSUME pc \in {"claimed", "handling"}
             PROVE  /\ held # NoJob
                    /\ RowExists' => runs'[held[1]][held[2]].status = "running"
                    /\ ~RowExists' => recording'[held[1][1]] = "deleted"
  BY DEF HandOK
<1>1. held # NoJob /\ held[1] \in Pairs /\ held[2] \in Nat \ {0} /\ held[1][1] \in Recordings
  BY PairParts DEF HandOK, TypeOK
<1>2. Len(runs[held[1]]) \in Nat /\ Len(runs'[held[1]]) \in Nat
  BY <1>1 DEF TypeOK, Ledger
<1>3. CASE RowExists
  <2>1. held[2] \in 1..Len(runs[held[1]])
    BY <1>1, <1>2, <1>3 DEF RowExists
  <2>2. RowExists' /\ runs'[held[1]][held[2]] = runs[held[1]][held[2]]
    BY <1>1, <1>2, <2>1 DEF RowExists, AllKept, Keeps
  <2> QED BY <1>1, <1>3, <2>2 DEF HandOK
<1>4. CASE ~RowExists
  <2>1. recording[held[1][1]] = "deleted" /\ runs'[held[1]] = runs[held[1]]
    BY <1>1, <1>4 DEF HandOK
  <2> QED BY <1>1, <1>4, <2>1 DEF RowExists
<1> QED BY <1>3, <1>4

LEMMA EnqueueShape ==
  ASSUME NEW ledger \in Ledger, NEW p \in Pairs, NEW by \in Origins, now \in Nat
  PROVE  LET new == EnqueueJob(ledger, p, by)
         IN  /\ \A q \in Pairs : q # p => new[q] = ledger[q]
             /\ \A q \in Pairs : \A i \in 1..Len(ledger[q]) : new[q][i] = ledger[q][i]
<1> DEFINE new == EnqueueJob(ledger, p, by)
<1>1. CASE InFlight(ledger, p)
  BY <1>1 DEF EnqueueJob
<1>2. CASE ~InFlight(ledger, p)
  <2>1. new = [ledger EXCEPT ![p] = Append(ledger[p], NewRow(by))]
    BY <1>2 DEF EnqueueJob
  <2>2. NewRow(by) \in Row
    BY DEF NewRow, Row, JobStatuses, UnfinishedStatuses, Errors
  <2>3. \A q \in Pairs : q # p => new[q] = ledger[q]
    BY <2>1 DEF Ledger
  <2>4. \A i \in 1..Len(ledger[p]) : new[p][i] = ledger[p][i]
    BY <2>1, <2>2 DEF Ledger
  <2> QED BY <2>3, <2>4
<1> QED BY <1>1, <1>2

(* The three requests that queue a step of a live recording.               *)
LEMMA RequestStep ==
  ASSUME IndInv, NEW r \in Recordings, NEW s \in JobSteps, NEW by \in Origins, by # "sweep",
         recording[r] # "deleted",
         recording' \in {recording, [recording EXCEPT ![r] = "live"]},
         recording'[r] = "live",
         runs' = EnqueueJob(runs, <<r, s>>, by),
         now' = now + 1,
         Happens("request"),
         UNCHANGED <<spendVars, workerVars>>
  PROVE  IndInv' /\ RowsKept
<1>1. <<r, s>> \in Pairs /\ now \in Nat /\ runs \in Ledger
  BY PairParts DEF IndInv, TypeOK, Ledger
<1>2. AllSound(runs') /\ AllKept(runs, runs')
  BY <1>1, EnqueueSound DEF IndInv
<1>3. runs' \in Ledger
  BY <1>2 DEF AllSound
<1>4. /\ \A q \in Pairs : q # <<r, s>> => runs'[q] = runs[q]
      /\ \A q \in Pairs : \A i \in 1..Len(runs[q]) : runs'[q][i] = runs[q][i]
  BY <1>1, EnqueueShape
<1>5. recording' \in [Recordings -> {"absent", "live", "deleted"}]
  BY DEF IndInv, TypeOK
<1>6. \A q \in Recordings : q # r => recording'[q] = recording[q]
  BY DEF IndInv, TypeOK
<1>7. TypeOK'
  <2>1. budget' \in [EventKinds -> Nat]
    BY BudgetType DEF IndInv, TypeOK, EventKinds
  <2>2. runs' \in [Pairs -> Seq(Row)]
    BY <1>3, Zenon DEF Ledger
  <2>3. now' \in Nat
    BY <1>1
  <2> QED BY <1>5, <2>1, <2>2, <2>3 DEF IndInv, TypeOK, spendVars, workerVars
<1>8. OnlyLiveHaveJobs'
  <2> SUFFICES ASSUME NEW p \in Pairs, recording'[p[1]] # "live" PROVE runs'[p] = <<>>
    BY DEF OnlyLiveHaveJobs
  <2>1. p[1] # r /\ p # <<r, s>>
    BY PairParts
  <2>2. recording[p[1]] # "live" /\ runs'[p] = runs[p]
    BY <2>1, <1>4, <1>6, PairParts
  <2> QED BY <2>2 DEF IndInv, OnlyLiveHaveJobs
<1>9. HandOK'
  <2>1. \A p \in Pairs : recording[p[1]] = "deleted" => runs'[p] = runs[p]
    BY <1>4, PairParts
  <2>2. \A q \in Recordings : recording[q] = "deleted" => recording'[q] = "deleted"
    BY <1>6
  <2> QED BY <1>2, <1>3, <1>4, <2>1, <2>2, HandKept DEF IndInv, workerVars
<1> QED BY <1>2, <1>7, <1>8, <1>9 DEF IndInv, RowsKept, AllKept

(* What holds in every case where the table is left alone.                 *)
LEMMA SameRows == ASSUME IndInv, runs' = runs PROVE RowsKept /\ AllSound(runs') /\ runs' \in Ledger
BY DEF IndInv, RowsKept, Keeps, AllSound, Ledger

(* The row in hand, rewritten while it is running.                         *)
LEMMA HeldRow ==
  ASSUME IndInv, pc \in {"claimed", "handling"}, RowExists
  PROVE  /\ held[1] \in Pairs /\ held[1][1] \in Recordings /\ held[1][2] \in JobSteps
         /\ held[2] \in 1..Len(runs[held[1]])
         /\ runs[held[1]][held[2]] \in Row
         /\ Unfinished(runs[held[1]][held[2]])
         /\ recording[held[1][1]] = "live"
         /\ runs \in Ledger /\ now \in Nat /\ cost \in Nat
<1>1. held[1] \in Pairs /\ held[2] \in Nat \ {0} /\ runs \in Ledger /\ now \in Nat /\ cost \in Nat
  BY DEF IndInv, TypeOK, HandOK, Ledger
<1>2. held[2] \in 1..Len(runs[held[1]]) /\ runs[held[1]][held[2]] \in Row
  BY <1>1 DEF RowExists, Ledger
<1>3. runs[held[1]][held[2]].status = "running"
  BY DEF IndInv, HandOK
<1>4. runs[held[1]] # <<>>
  BY <1>2
<1> QED BY <1>1, <1>2, <1>3, <1>4, PairParts
     DEF IndInv, OnlyLiveHaveJobs, Unfinished, UnfinishedStatuses

LEMMA FinishSound ==
  ASSUME IndInv, pc \in {"claimed", "handling"}, RowExists
  PROVE  /\ \A usd \in Nat : /\ AllSound(CompleteJob(runs, held, usd))
                             /\ AllKept(runs, CompleteJob(runs, held, usd))
         /\ \A usd \in Nat, reason \in {"thrown", "ceiling"} :
              /\ AllSound(FailJob(runs, held, reason, usd))
              /\ AllKept(runs, FailJob(runs, held, reason, usd))
<1> DEFINE p == held[1]
           i == held[2]
<1>1. /\ p \in Pairs /\ i \in 1..Len(runs[p]) /\ runs[p][i] \in Row
      /\ Unfinished(runs[p][i]) /\ now \in Nat /\ AllSound(runs)
  BY HeldRow DEF IndInv
<1>2. ASSUME NEW usd \in Nat
      PROVE  AllSound(CompleteJob(runs, held, usd)) /\ AllKept(runs, CompleteJob(runs, held, usd))
  <2> DEFINE row == [runs[p][i] EXCEPT !.status = "succeeded", !.error = "none",
                                        !.finishedAt = now, !.costUsd = usd]
  <2>1. row \in Row /\ row.by = runs[p][i].by /\ row.error = "none"
    BY <1>1 DEF Row, JobStatuses, Errors
  <2>2. CompleteJob(runs, held, usd) = [runs EXCEPT ![p][i] = row]
    BY DEF CompleteJob
  <2> HIDE DEF row, p, i
  <2>3. AllSound([runs EXCEPT ![p][i] = row]) /\ AllKept(runs, [runs EXCEPT ![p][i] = row])
    BY <1>1, <2>1, PutSound
  <2> QED BY <2>2, <2>3, Zenon
<1>3. ASSUME NEW usd \in Nat, NEW reason \in {"thrown", "ceiling"}
      PROVE  /\ AllSound(FailJob(runs, held, reason, usd))
             /\ AllKept(runs, FailJob(runs, held, reason, usd))
  <2> DEFINE row == [runs[p][i] EXCEPT !.status = "failed", !.error = reason,
                                        !.finishedAt = now, !.costUsd = usd]
  <2>1. row \in Row /\ row.by = runs[p][i].by /\ row.error # "restarted"
    BY <1>1 DEF Row, JobStatuses, Errors
  <2>2. FailJob(runs, held, reason, usd) = [runs EXCEPT ![p][i] = row]
    BY DEF FailJob
  <2> HIDE DEF row, p, i
  <2>3. AllSound([runs EXCEPT ![p][i] = row]) /\ AllKept(runs, [runs EXCEPT ![p][i] = row])
    BY <1>1, <2>1, PutSound
  <2> QED BY <2>2, <2>3, Zenon
<1> QED BY <1>2, <1>3

(* An outcome: the row in hand is finished, perhaps another is queued, and *)
(* the worker goes back to the top of its loop.                            *)
LEMMA OutcomeStep ==
  ASSUME IndInv, pc \in {"claimed", "handling"}, RowExists,
         AllSound(runs'), AllKept(runs, runs'),
         \A p \in Pairs : recording[p[1]] # "live" => runs'[p] = <<>>,
         now' = now + 1, BackToTop, UNCHANGED <<recording, spendVars, budget>>
  PROVE  IndInv' /\ RowsKept
<1>1. runs' \in [Pairs -> Seq(Row)]
  BY Zenon DEF AllSound, Ledger
<1>2. now' \in Nat
  BY DEF IndInv, TypeOK
<1>3. TypeOK'
  BY <1>1, <1>2 DEF IndInv, TypeOK, BackToTop, spendVars
<1>4. HandOK' /\ OnlyLiveHaveJobs'
  BY DEF HandOK, OnlyLiveHaveJobs, BackToTop
<1> QED BY <1>3, <1>4 DEF IndInv, RowsKept, AllKept

(* A step that leaves the table alone and takes nothing new in hand.       *)
LEMMA QuietStep ==
  ASSUME IndInv, TypeOK', UNCHANGED <<recording, runs>>,
         \/ pc' \notin {"claimed", "handling"}
         \/ held' = held /\ pc \in {"claimed", "handling"}
  PROVE  IndInv' /\ RowsKept
<1>1. AllSound(runs') /\ RowsKept
  BY SameRows
<1>2. OnlyLiveHaveJobs'
  BY DEF IndInv, OnlyLiveHaveJobs
<1>3. HandOK'
  BY DEF IndInv, HandOK, RowExists
<1> QED BY <1>1, <1>2, <1>3 DEF IndInv

LEMMA ApiStep == ASSUME IndInv, Api PROVE IndInv' /\ RowsKept
<1>1. ASSUME NEW r \in Recordings, FinaliseUpload(r) PROVE IndInv' /\ RowsKept
  <2>1. recording'[r] = "live"
    BY <1>1 DEF FinaliseUpload, IndInv, TypeOK
  <2> QED BY <1>1, <2>1, RequestStep, StepsOfChain DEF FinaliseUpload, Origins
<1>2. ASSUME NEW r \in Recordings, NEW s \in EditSteps, EnqueueBehindEdit(r, s)
      PROVE  IndInv' /\ RowsKept
  <2>1. s \in JobSteps /\ recording' = recording
    BY <1>2, LedgerAssumption DEF EnqueueBehindEdit
  <2> QED BY <1>2, <2>1, RequestStep DEF EnqueueBehindEdit, Origins
<1>3. ASSUME NEW r \in Recordings, NEW s \in ChainSteps, RerunStep(r, s)
      PROVE  IndInv' /\ RowsKept
  <2>1. s \in JobSteps /\ recording' = recording
    BY <1>3, StepsOfChain DEF RerunStep
  <2> QED BY <1>3, <2>1, RequestStep DEF RerunStep, Origins
<1>4. ASSUME NEW usd \in Raises, RaiseSpendCeiling(usd) PROVE IndInv' /\ RowsKept
  <2>1. usd \in Nat
    BY LedgerAssumption
  <2>2. budget' \in [EventKinds -> Nat]
    BY <1>4, BudgetType DEF RaiseSpendCeiling, IndInv, TypeOK, EventKinds
  <2>3. TypeOK'
    BY <1>4, <2>1, <2>2 DEF RaiseSpendCeiling, IndInv, TypeOK, ledgerVars, workerVars
  <2> QED BY <1>4, <2>3, QuietStep DEF RaiseSpendCeiling, ledgerVars, workerVars
<1>5. ASSUME NEW r \in Recordings, RemoveRecording(r) PROVE IndInv' /\ RowsKept
  <2>1. runs' = [p \in Pairs |-> IF p[1] = r THEN <<>> ELSE runs[p]]
    BY <1>5 DEF RemoveRecording
  <2>2. /\ recording' \in [Recordings -> {"absent", "live", "deleted"}]
        /\ recording'[r] = "deleted"
        /\ \A q \in Recordings : q # r => recording'[q] = recording[q]
    BY <1>5 DEF RemoveRecording, IndInv, TypeOK
  <2>3. Sound(<<>>)
    BY DEF Sound, LatestOnly, Retried
  <2>4. AllSound(runs')
    <3>1. ASSUME NEW p \in Pairs PROVE Sound(runs'[p])
      BY <2>1, <2>3 DEF IndInv, AllSound
    <3>2. runs' \in Ledger
      BY <2>1 DEF IndInv, AllSound, Ledger
    <3> QED BY <3>1, <3>2 DEF AllSound
  <2>5. TypeOK'
    <3>1. budget' \in [EventKinds -> Nat]
      BY <1>5, BudgetType DEF RemoveRecording, IndInv, TypeOK, EventKinds
    <3>2. runs' \in [Pairs -> Seq(Row)]
      BY <2>4, Zenon DEF AllSound, Ledger
    <3> QED BY <1>5, <2>2, <3>1, <3>2 DEF RemoveRecording, IndInv, TypeOK, spendVars, workerVars
  <2>6. OnlyLiveHaveJobs'
    BY <2>1, <2>2, PairParts DEF IndInv, OnlyLiveHaveJobs
  <2>7. RowsKept
    <3> SUFFICES ASSUME NEW p \in Pairs, recording'[p[1]] # "deleted"
                 PROVE  Keeps(runs[p], runs'[p])
      BY DEF RowsKept
    <3>1. runs'[p] = runs[p]
      BY <2>1, <2>2
    <3> QED BY <3>1 DEF Keeps, IndInv, AllSound, Ledger
  <2>8. HandOK'
    <3> SUFFICES ASSUME pc \in {"claimed", "handling"}
                 PROVE  /\ held # NoJob
                        /\ RowExists' => runs'[held[1]][held[2]].status = "running"
                        /\ ~RowExists' => recording'[held[1][1]] = "deleted"
      BY <1>5 DEF HandOK, RemoveRecording, workerVars
    <3>1. held # NoJob /\ held[1] \in Pairs /\ held[2] \in Nat \ {0} /\ held[1][1] \in Recordings
      BY PairParts DEF IndInv, HandOK, TypeOK
    <3>2. held' = held
      BY <1>5 DEF RemoveRecording, workerVars
    <3>3. CASE held[1][1] = r
      <4>1. runs'[held[1]] = <<>> /\ recording'[held[1][1]] = "deleted"
        BY <3>1, <3>3, <2>1, <2>2
      <4>2. ~RowExists'
        BY <4>1, <3>1, <3>2 DEF RowExists
      <4> QED BY <3>1, <4>1, <4>2
    <3>4. CASE held[1][1] # r
      <4>1. runs'[held[1]] = runs[held[1]] /\ recording'[held[1][1]] = recording[held[1][1]]
        BY <3>1, <3>4, <2>1, <2>2
      <4>2. RowExists' <=> RowExists
        BY <4>1, <3>2 DEF RowExists
      <4> QED BY <3>1, <4>1, <4>2 DEF IndInv, HandOK
    <3> QED BY <3>3, <3>4
  <2> QED BY <2>4, <2>5, <2>6, <2>7, <2>8 DEF IndInv
<1> QED BY <1>1, <1>2, <1>3, <1>4, <1>5 DEF Api

LEMMA WorkerKeeps == ASSUME IndInv, WorkerStep PROVE IndInv' /\ RowsKept
<1>1. CASE Boot
  <2>1. runs' = [p \in Pairs |-> SweepRows(runs[p])]
    BY <1>1 DEF Boot, SweepRunning
  <2>2. ASSUME NEW p \in Pairs
        PROVE  Sound(runs'[p]) /\ Keeps(runs[p], runs'[p]) /\ (runs[p] = <<>> => runs'[p] = <<>>)
    <3>1. Sound(runs[p]) /\ now \in Nat
      BY DEF IndInv, TypeOK, AllSound
    <3> QED BY <2>1, <3>1, SweepSound
  <2>3. AllSound(runs')
    BY <2>1, <2>2 DEF AllSound, Ledger, Sound
  <2>4. TypeOK'
    <3>1. runs' \in [Pairs -> Seq(Row)]
      BY <2>3, Zenon DEF AllSound, Ledger
    <3> QED BY <1>1, <3>1 DEF Boot, IndInv, TypeOK, spendVars
  <2>5. OnlyLiveHaveJobs' /\ RowsKept /\ HandOK'
    BY <1>1, <2>2 DEF Boot, IndInv, OnlyLiveHaveJobs, RowsKept, HandOK
  <2> QED BY <2>3, <2>4, <2>5 DEF IndInv
<1>2. CASE Claim
  <2>1. PICK job \in OldestPending(runs) :
          /\ runs' = [runs EXCEPT ![job[1]][job[2]] =
                        [@ EXCEPT !.status = "running", !.startedAt = now]]
          /\ held' = job
    BY <1>2 DEF Claim
  <2> DEFINE p == job[1]
             i == job[2]
             row == [runs[p][i] EXCEPT !.status = "running", !.startedAt = now]
  <2>2. /\ p \in Pairs /\ i \in 1..Len(runs[p]) /\ runs[p][i].status = "pending"
        /\ job = <<p, i>>
    BY DEF OldestPending, Pending
  <2>3. runs[p][i] \in Row /\ Len(runs[p]) \in Nat /\ now \in Nat /\ AllSound(runs)
    BY <2>2 DEF IndInv, TypeOK
  <2>4. row \in Row /\ row.by = runs[p][i].by /\ row.status = "running"
    BY <2>3 DEF Row, JobStatuses, UnfinishedStatuses
  <2>5. row.error # "restarted" /\ Unfinished(runs[p][i])
    <3>1. runs[p][i].error # "restarted"
      BY <2>2 DEF IndInv, AllSound, Sound, Retried
    <3> QED BY <3>1, <2>2, <2>3 DEF Row, Unfinished, UnfinishedStatuses
  <2>6. runs' = [runs EXCEPT ![p][i] = row]
    BY <2>1
  <2>8. \A q \in Pairs : runs[q] = <<>> => runs'[q] = <<>>
    BY <2>6, <2>2 DEF IndInv, TypeOK
  <2>9. job \in Pairs \X (Nat \ {0})
    BY <2>2, <2>3
  <2> HIDE DEF p, i, row
  <2>7. runs'[p][i] = row /\ Len(runs'[p]) = Len(runs[p])
    <3>1. runs \in Ledger /\ runs'[p] = [runs[p] EXCEPT ![i] = row]
      BY <2>6, <2>2 DEF IndInv, TypeOK, Ledger
    <3> QED BY <3>1, <2>2 DEF Ledger
  <2>10. AllSound([runs EXCEPT ![p][i] = row]) /\ AllKept(runs, [runs EXCEPT ![p][i] = row])
    BY <2>2, <2>3, <2>4, <2>5, PutSound
  <2>11. AllSound(runs') /\ AllKept(runs, runs')
    BY <2>6, <2>10, Zenon
  <2>12. TypeOK'
    <3>1. runs' \in [Pairs -> Seq(Row)]
      BY <2>11, Zenon DEF AllSound, Ledger
    <3> QED BY <1>2, <2>1, <2>9, <3>1 DEF Claim, IndInv, TypeOK, spendVars
  <2>13. OnlyLiveHaveJobs'
    BY <1>2, <2>8 DEF Claim, IndInv, OnlyLiveHaveJobs
  <2>14. RowsKept
    BY <2>11 DEF RowsKept, AllKept
  <2>15. HandOK'
    <3>1. held' = <<p, i>> /\ held' # NoJob
      BY <2>1, <2>2, <2>9, LedgerAssumption
    <3> QED BY <3>1, <2>2, <2>3, <2>4, <2>7 DEF HandOK, RowExists
  <2> QED BY <2>11, <2>12, <2>13, <2>14, <2>15 DEF IndInv
<1>3. CASE PollEmpty
  <2>1. TypeOK'
    BY <1>3 DEF PollEmpty, vars, IndInv, TypeOK
  <2> QED BY <1>3, <2>1, QuietStep DEF PollEmpty, vars
<1>4. CASE RefuseAtCeiling
  <2>1. AllSound(runs') /\ AllKept(runs, runs')
    BY <1>4, FinishSound DEF RefuseAtCeiling
  <2>2. \A p \in Pairs : recording[p[1]] # "live" => runs'[p] = <<>>
    BY <1>4, HeldRow DEF RefuseAtCeiling, FailJob, IndInv, OnlyLiveHaveJobs, Ledger
  <2> QED BY <1>4, <2>1, <2>2, OutcomeStep DEF RefuseAtCeiling
<1>5. CASE StartHandler
  <2>1. TypeOK'
    BY <1>5 DEF StartHandler, ledgerVars, spendVars, IndInv, TypeOK
  <2> QED BY <1>5, <2>1, QuietStep DEF StartHandler, ledgerVars
<1>6. CASE Succeed
  <2> DEFINE p == held[1]
             done == CompleteJob(runs, held, cost)
             next == <<p[1], NextStep(p[2])>>
  <2>1. /\ p \in Pairs /\ p[1] \in Recordings /\ p[2] \in JobSteps
        /\ recording[p[1]] = "live" /\ now \in Nat /\ cost \in Nat /\ runs \in Ledger
    BY <1>6, HeldRow DEF Succeed
  <2>2. AllSound(done) /\ AllKept(runs, done)
    BY <1>6, <2>1, FinishSound DEF Succeed
  <2>3. \A q \in Pairs : q # p => done[q] = runs[q]
    BY <2>1 DEF CompleteJob, Ledger
  <2>4. CASE ~HasNext(p[2])
    <3>1. runs' = done
      BY <1>6, <2>4 DEF Succeed
    <3>2. \A q \in Pairs : recording[q[1]] # "live" => runs'[q] = <<>>
      BY <2>1, <2>3, <3>1 DEF IndInv, OnlyLiveHaveJobs
    <3> HIDE DEF done
    <3> QED BY <1>6, <2>2, <3>1, <3>2, OutcomeStep DEF Succeed
  <2>5. CASE HasNext(p[2])
    <3>1. runs' = EnqueueJob(done, next, "chain")
      BY <1>6, <2>5 DEF Succeed
    <3>2. next \in Pairs /\ next[1] = p[1] /\ "chain" \in Origins
      BY <2>1, <2>5, StepsOfChain, PairParts DEF Origins
    <3> HIDE DEF done, next
    <3>3. AllSound(runs') /\ AllKept(done, runs')
      BY <2>1, <2>2, <3>1, <3>2, EnqueueSound
    <3>4. AllKept(runs, runs')
      BY <2>1, <2>2, <3>3, KeptTransitive DEF AllSound
    <3>5. \A q \in Pairs : q # next => runs'[q] = done[q]
      BY <2>1, <2>2, <3>1, <3>2, EnqueueShape DEF AllSound
    <3>6. \A q \in Pairs : recording[q[1]] # "live" => runs'[q] = <<>>
      BY <2>1, <2>3, <3>2, <3>5 DEF IndInv, OnlyLiveHaveJobs
    <3> QED BY <1>6, <3>3, <3>4, <3>6, OutcomeStep DEF Succeed
  <2> QED BY <2>4, <2>5
<1>7. CASE Throw
  <2>1. AllSound(runs') /\ AllKept(runs, runs')
    BY <1>7, FinishSound, HeldRow DEF Throw
  <2>2. \A p \in Pairs : recording[p[1]] # "live" => runs'[p] = <<>>
    BY <1>7, HeldRow DEF Throw, FailJob, IndInv, OnlyLiveHaveJobs, Ledger
  <2> QED BY <1>7, <2>1, <2>2, OutcomeStep DEF Throw
<1>8. CASE RowVanished
  <2>1. TypeOK'
    BY <1>8 DEF RowVanished, BackToTop, ledgerVars, spendVars, IndInv, TypeOK
  <2> QED BY <1>8, <2>1, QuietStep DEF RowVanished, BackToTop, ledgerVars
<1>9. CASE Exit
  <2>1. TypeOK'
    BY <1>9 DEF Exit, ledgerVars, spendVars, IndInv, TypeOK
  <2> QED BY <1>9, <2>1, QuietStep DEF Exit, ledgerVars
<1> QED BY <1>1, <1>2, <1>3, <1>4, <1>5, <1>6, <1>7, <1>8, <1>9 DEF WorkerStep

LEMMA EnvironmentKeeps ==
  ASSUME IndInv, Environment \/ \E usd \in Costs : ProviderCall(usd)
  PROVE  IndInv' /\ RowsKept
<1>1. CASE Midnight
  <2>1. budget' \in [EventKinds -> Nat]
    BY <1>1, BudgetType DEF Midnight, IndInv, TypeOK, EventKinds
  <2>2. TypeOK'
    BY <1>1, <2>1 DEF Midnight, IndInv, TypeOK, ledgerVars, workerVars
  <2> QED BY <1>1, <2>2, QuietStep DEF Midnight, ledgerVars, workerVars
<1>2. CASE LedgerRefuses
  <2>1. budget' \in [EventKinds -> Nat]
    BY <1>2, BudgetType DEF LedgerRefuses, IndInv, TypeOK, EventKinds
  <2>2. TypeOK'
    BY <1>2, <2>1 DEF LedgerRefuses, BackToTop, IndInv, TypeOK, ledgerVars, spendVars
  <2> QED BY <1>2, <2>2, QuietStep DEF LedgerRefuses, BackToTop, ledgerVars
<1>3. CASE Signal
  <2>1. budget' \in [EventKinds -> Nat]
    BY <1>3, BudgetType DEF Signal, IndInv, TypeOK, EventKinds
  <2>2. TypeOK'
    BY <1>3, <2>1 DEF Signal, IndInv, TypeOK, ledgerVars, spendVars
  <2> QED BY <1>3, <2>2, QuietStep DEF Signal, ledgerVars
<1>4. CASE Crash
  <2>1. budget' \in [EventKinds -> Nat]
    BY <1>4, BudgetType DEF Crash, IndInv, TypeOK, EventKinds
  <2>2. TypeOK'
    BY <1>4, <2>1 DEF Crash, IndInv, TypeOK, ledgerVars, spendVars
  <2> QED BY <1>4, <2>2, QuietStep DEF Crash, ledgerVars
<1>5. ASSUME NEW usd \in Costs, ProviderCall(usd) PROVE IndInv' /\ RowsKept
  <2>1. usd \in Nat
    BY LedgerAssumption
  <2>2. TypeOK'
    BY <1>5, <2>1 DEF ProviderCall, IndInv, TypeOK, ledgerVars
  <2> QED BY <1>5, <2>2, QuietStep DEF ProviderCall, ledgerVars
<1> QED BY <1>1, <1>2, <1>3, <1>4, <1>5 DEF Environment

LEMMA Inductive == ASSUME IndInv, [Next]_vars PROVE IndInv' /\ RowsKept
<1>1. CASE UNCHANGED vars
  <2>1. TypeOK'
    BY <1>1 DEF vars, IndInv, TypeOK
  <2> QED BY <1>1, <2>1, QuietStep DEF vars
<1> QED BY <1>1, ApiStep, WorkerKeeps, EnvironmentKeeps DEF Next

LEMMA Initially == Init => IndInv
<1> SUFFICES ASSUME Init PROVE IndInv
  OBVIOUS
<1>1. Sound(<<>>)
  BY DEF Sound, LatestOnly, Retried
<1>2. TypeOK
  <2>1. runs \in [Pairs -> Seq(Row)]
    BY DEF Init
  <2>2. budget \in [EventKinds -> Nat]
    BY LedgerAssumption DEF Init
  <2> QED BY <2>1, <2>2 DEF Init, TypeOK
<1>3. AllSound(runs)
  BY <1>1, <1>2 DEF Init, AllSound, Ledger, TypeOK
<1> QED BY <1>2, <1>3 DEF Init, IndInv, OnlyLiveHaveJobs, HandOK

-----------------------------------------------------------------------------
(* The theorems.                                                           *)

THEOREM InvariantHolds == Spec => []IndInv
<1>1. IndInv /\ [Next]_vars => IndInv'
  BY Inductive
<1> QED BY Initially, <1>1, PTL DEF Spec

(* Every variable keeps its type.                                          *)
THEOREM TypeCorrect == Spec => []TypeOK
<1>1. IndInv => TypeOK
  BY DEF IndInv
<1> QED BY InvariantHolds, <1>1, PTL

(* A pair has at most one unfinished job, and it is the pair's latest.     *)
THEOREM OneUnfinished == Spec => []OnlyLatestUnfinished
<1>1. IndInv => OnlyLatestUnfinished
  BY DEF IndInv, AllSound, Sound, LatestOnly, OnlyLatestUnfinished
<1> QED BY InvariantHolds, <1>1, PTL

(* The job in the worker's hands is running until the worker says          *)
(* otherwise.                                                              *)
THEOREM HeldStaysRunning == Spec => []HeldIsRunning
<1>1. IndInv => HeldIsRunning
  BY DEF IndInv, HandOK, HeldIsRunning
<1> QED BY InvariantHolds, <1>1, PTL

(* Nothing retries by itself but a crash.                                  *)
THEOREM RetriesFollowCrashes == Spec => []OnlyCrashesAreRetried
<1>1. IndInv => OnlyCrashesAreRetried
  BY DEF IndInv, AllSound, Sound, Retried, OnlyCrashesAreRetried
<1> QED BY InvariantHolds, <1>1, PTL

(* A step that kills the worker is queued by the sweep fewer than          *)
(* MaxSweepReclaims times in a row, for every cap and every number of      *)
(* crashes: each such row follows one that was not yet a crash loop.       *)
THEOREM CrashLoopsEnd == Spec => []CrashLoopBounded
<1>1. ASSUME IndInv PROVE CrashLoopBounded
  <2> SUFFICES ASSUME NEW p \in Pairs, NEW i \in 1..Len(runs[p]),
                      \A k \in 0..MaxSweepReclaims - 1 :
                        ~(i - k < 1) /\ runs[p][i - k].by = "sweep"
               PROVE  FALSE
    BY DEF CrashLoopBounded
  <2> DEFINE rows == runs[p]
  <2>1. Retried(rows) /\ Len(rows) \in Nat
    BY <1>1 DEF IndInv, AllSound, Sound
  <2>2. MaxSweepReclaims \in Nat \ {0} /\ i \in Nat /\ i <= Len(rows)
    BY <2>1, LedgerAssumption
  <2> HIDE DEF rows
  <2>3. ASSUME NEW k \in 1..MaxSweepReclaims
        PROVE  i - k >= 1 /\ rows[i - k].error = "restarted" /\ rows[i - k].status = "failed"
    <3>1. k - 1 \in 0..MaxSweepReclaims - 1
      BY <2>2
    <3>2. ~(i - (k - 1) < 1) /\ rows[i - (k - 1)].by = "sweep"
      BY <3>1 DEF rows
    <3>3. i - (k - 1) \in 1..Len(rows) /\ (i - (k - 1)) - 1 = i - k
      BY <3>1, <3>2, <2>1, <2>2
    <3>4. i - (k - 1) > 1 /\ rows[i - k].error = "restarted"
      BY <3>2, <3>3, <2>1 DEF Retried
    <3>5. i - k \in 1..Len(rows)
      BY <3>3, <3>4, <2>1, <2>2
    <3> QED BY <3>4, <3>5, <2>1 DEF Retried
  <2>4. i - 1 \in 1..Len(rows) /\ rows[i - 1].error = "restarted"
    BY <2>1, <2>2, <2>3
  <2>5. ~CrashLoop(rows, i - 1)
    BY <2>1, <2>4 DEF Retried
  <2>6. ASSUME NEW k \in 1..MaxSweepReclaims - 1
        PROVE  (i - 1) - k >= 1 /\ SweptAway(rows[(i - 1) - k])
    <3>1. k + 1 \in 1..MaxSweepReclaims /\ (i - 1) - k = i - (k + 1)
      BY <2>2
    <3> QED BY <3>1, <2>3 DEF SweptAway
  <2> QED BY <2>5, <2>6 DEF CrashLoop
<1> QED BY InvariantHolds, <1>1, PTL

(* The ledger is append-only: no step changes or drops a finished row of a *)
(* recording that has not been deleted.                                    *)
THEOREM AppendOnly == Spec => FinishedRowsKept
<1>1. IndInv /\ [Next]_vars =>
        [\A p \in Pairs : recording'[p[1]] # "deleted" =>
           /\ Len(runs'[p]) >= Len(runs[p])
           /\ \A i \in 1..Len(runs[p]) :
                ~Unfinished(runs[p][i]) => runs'[p][i] = runs[p][i]]_vars
  BY Inductive DEF RowsKept, Keeps
<1> QED BY InvariantHolds, <1>1, PTL DEF Spec, FinishedRowsKept

-----------------------------------------------------------------------------
(* No success without its successor.  What answers for a success that      *)
(* finished at `since` is a row of the next step that is still to run, ran *)
(* after it or failed after it; and one that is running already, of        *)
(* before, does so only because no worker has it in hand: the next boot    *)
(* will fail it.                                                           *)

InHand(p, j) == pc \in {"claimed", "handling"} /\ held = <<p, j>>

Answers(p, j, since) ==
  \/ runs[p][j].status = "pending"
  \/ runs[p][j].startedAt > since
  \/ runs[p][j].status = "running" /\ ~InHand(p, j)
  \/ runs[p][j].status = "failed" /\ runs[p][j].finishedAt > since

SuccessesAnswered ==
  \A r \in Recordings, s \in ChainSteps : HasNext(s) =>
    \A i \in 1..Len(runs[<<r, s>>]) : runs[<<r, s>>][i].status = "succeeded" =>
      \E j \in 1..Len(runs[<<r, NextStep(s)>>]) :
        Answers(<<r, NextStep(s)>>, j, runs[<<r, s>>][i].finishedAt)

(* Nothing has finished at the instant the next transaction will have.     *)
Past == now >= 1 /\ \A p \in Pairs : \A i \in 1..Len(runs[p]) : runs[p][i].finishedAt < now

(* What one step may do to row j of a pair.                                *)
RowStays(p, j) == /\ j \in 1..Len(runs[p]) /\ runs'[p][j] = runs[p][j]
                  /\ InHand(p, j)' => InHand(p, j)
RowComes(p, j) == /\ j \notin 1..Len(runs[p])
                  /\ runs'[p][j].status = "pending" /\ runs'[p][j].finishedAt = 0
                  /\ runs'[p][j].costUsd = 0
RowIsClaimed(p, j) == /\ j \in 1..Len(runs[p]) /\ runs[p][j].status = "pending"
                      /\ runs'[p][j].status = "running" /\ runs'[p][j].startedAt = now
                      /\ runs'[p][j].finishedAt = runs[p][j].finishedAt
                      /\ runs'[p][j].costUsd = runs[p][j].costUsd
RowEnds(p, j) == /\ j \in 1..Len(runs[p]) /\ InHand(p, j) /\ runs[p][j].status = "running"
                 /\ runs'[p][j].startedAt = runs[p][j].startedAt
                 /\ runs'[p][j].finishedAt = now
                 /\ \/ runs'[p][j].status = "failed"
                    \/ runs'[p][j].status = "succeeded" /\ Succeed
RowIsSwept(p, j) == /\ j \in 1..Len(runs[p]) /\ runs[p][j].status = "running"
                    /\ runs'[p][j].status = "failed" /\ runs'[p][j].finishedAt = now
                    /\ runs'[p][j].costUsd = runs[p][j].costUsd
RowMoves(p, j) ==
  \/ now' >= now /\ RowStays(p, j)
  \/ /\ now' = now + 1
     /\ RowComes(p, j) \/ RowIsClaimed(p, j) \/ RowEnds(p, j) \/ RowIsSwept(p, j)

AllMove == \A p \in Pairs : recording'[p[1]] # "deleted" =>
             \A j \in 1..Len(runs'[p]) : RowMoves(p, j)

LEMMA EnqueueRows ==
  ASSUME NEW ledger \in Ledger, NEW p \in Pairs, NEW by \in Origins, now \in Nat,
         NEW q \in Pairs, NEW j \in 1..Len(EnqueueJob(ledger, p, by)[q])
  PROVE  \/ j \in 1..Len(ledger[q]) /\ EnqueueJob(ledger, p, by)[q][j] = ledger[q][j]
         \/ /\ j \notin 1..Len(ledger[q])
            /\ EnqueueJob(ledger, p, by)[q][j].status = "pending"
            /\ EnqueueJob(ledger, p, by)[q][j].finishedAt = 0
            /\ EnqueueJob(ledger, p, by)[q][j].costUsd = 0
<1> DEFINE new == EnqueueJob(ledger, p, by)
<1>1. CASE InFlight(ledger, p) \/ q # p
  <2>1. new[q] = ledger[q]
    BY <1>1, EnqueueShape DEF EnqueueJob
  <2> QED BY <2>1
<1>2. CASE ~InFlight(ledger, p) /\ q = p
  <2>1. new[p] = Append(ledger[p], NewRow(by)) /\ ledger[p] \in Seq(Row)
    BY <1>2 DEF EnqueueJob, Ledger
  <2>2. /\ NewRow(by) \in Row /\ NewRow(by).status = "pending" /\ NewRow(by).finishedAt = 0
        /\ NewRow(by).costUsd = 0
    BY DEF NewRow, Row, JobStatuses, UnfinishedStatuses, Errors
  <2>3. /\ Len(new[p]) = Len(ledger[p]) + 1 /\ Len(ledger[p]) \in Nat
        /\ new[p][Len(ledger[p]) + 1] = NewRow(by)
        /\ \A i \in 1..Len(ledger[p]) : new[p][i] = ledger[p][i]
    BY <2>1, <2>2
  <2>4. j \in 1..Len(ledger[p]) + 1
    BY <1>2, <2>3
  <2>5. CASE j \in 1..Len(ledger[p])
    BY <1>2, <2>3, <2>5
  <2>6. CASE j = Len(ledger[p]) + 1
    BY <1>2, <2>2, <2>3, <2>6
  <2> QED BY <2>3, <2>4, <2>5, <2>6
<1> QED BY <1>1, <1>2

LEMMA SweptRows ==
  ASSUME NEW rows \in Seq(Row), now \in Nat, NEW j \in 1..Len(SweepRows(rows))
  PROVE  \/ j \in 1..Len(rows) /\ SweepRows(rows)[j] = rows[j]
         \/ /\ j \in 1..Len(rows) /\ rows[j].status = "running"
            /\ SweepRows(rows)[j].status = "failed" /\ SweepRows(rows)[j].finishedAt = now
            /\ SweepRows(rows)[j].costUsd = rows[j].costUsd
         \/ /\ j \notin 1..Len(rows)
            /\ SweepRows(rows)[j].status = "pending" /\ SweepRows(rows)[j].finishedAt = 0
            /\ SweepRows(rows)[j].costUsd = 0
<1> DEFINE swept(i) == IF rows[i].status # "running" THEN rows[i]
                       ELSE [rows[i] EXCEPT !.status = "failed", !.finishedAt = now,
                               !.error = IF CrashLoop(rows, i) THEN "capped" ELSE "restarted"]
           failed == [i \in 1..Len(rows) |-> swept(i)]
           again == \E i \in 1..Len(rows) : rows[i].status = "running" /\ ~CrashLoop(rows, i)
<1>1. SweepRows(rows) = IF again THEN Append(failed, NewRow("sweep")) ELSE failed
  BY DEF SweepRows
<1>2. ASSUME NEW i \in 1..Len(rows)
      PROVE  /\ failed[i] \in Row
             /\ \/ failed[i] = rows[i]
                \/ /\ rows[i].status = "running"
                   /\ failed[i].status = "failed" /\ failed[i].finishedAt = now
                   /\ failed[i].costUsd = rows[i].costUsd
             /\ swept(i) \in Row
  <2>1. rows[i] \in Row
    OBVIOUS
  <2>2. [rows[i] EXCEPT !.status = "failed", !.finishedAt = now,
           !.error = IF CrashLoop(rows, i) THEN "capped" ELSE "restarted"] \in Row
    BY <2>1 DEF Row, JobStatuses, Errors
  <2> QED BY <2>1, <2>2 DEF Row
<1>3. failed \in Seq(Row) /\ Len(failed) = Len(rows) /\ Len(rows) \in Nat
  <2>1. failed \in [1..Len(rows) -> Row] /\ Len(rows) \in Nat
    <3> HIDE DEF swept
    <3> QED BY <1>2
  <2> HIDE DEF failed
  <2> QED BY <2>1
<1>4. /\ NewRow("sweep") \in Row /\ NewRow("sweep").status = "pending"
      /\ NewRow("sweep").finishedAt = 0 /\ NewRow("sweep").costUsd = 0
  BY DEF NewRow, Row, JobStatuses, UnfinishedStatuses, Errors, Origins
<1> HIDE DEF failed, again
<1>5. CASE ~again
  BY <1>1, <1>2, <1>3, <1>5
<1>6. CASE again
  <2>1. /\ SweepRows(rows) = Append(failed, NewRow("sweep"))
        /\ Len(SweepRows(rows)) = Len(rows) + 1
        /\ \A i \in 1..Len(rows) : SweepRows(rows)[i] = failed[i]
        /\ SweepRows(rows)[Len(rows) + 1] = NewRow("sweep")
    BY <1>1, <1>3, <1>4, <1>6
  <2>2. CASE j \in 1..Len(rows)
    BY <1>2, <2>1, <2>2
  <2>3. CASE j = Len(rows) + 1
    BY <1>3, <1>4, <2>1, <2>3
  <2> QED BY <1>3, <2>1, <2>2, <2>3
<1> QED BY <1>5, <1>6

(* The row in hand ends.                                                   *)
LEMMA HeldEnds ==
  ASSUME IndInv, pc \in {"claimed", "handling"}, RowExists, NEW ledger,
         \/ ledger = CompleteJob(runs, held, cost) /\ Succeed
         \/ \E usd \in Nat, reason \in Errors : ledger = FailJob(runs, held, reason, usd),
         NEW q \in Pairs, NEW j \in 1..Len(ledger[q])
  PROVE  /\ j \in 1..Len(runs[q]) /\ Len(ledger[q]) = Len(runs[q])
         /\ \/ ledger[q][j] = runs[q][j] /\ ~InHand(q, j)
            \/ /\ InHand(q, j) /\ runs[q][j].status = "running"
               /\ ledger[q][j].startedAt = runs[q][j].startedAt
               /\ ledger[q][j].finishedAt = now
               /\ \/ ledger[q][j].status = "failed"
                  \/ ledger[q][j].status = "succeeded" /\ Succeed
<1> DEFINE p == held[1]
           i == held[2]
<1>1. /\ p \in Pairs /\ i \in 1..Len(runs[p]) /\ runs[p][i] \in Row /\ runs \in Ledger
      /\ runs[p][i].status = "running" /\ held = <<p, i>>
  BY HeldRow DEF IndInv, HandOK, TypeOK
<1>2. PICK row \in Row :
                 /\ ledger = [runs EXCEPT ![p][i] = row]
                 /\ row.startedAt = runs[p][i].startedAt /\ row.finishedAt = now
                 /\ row.status = "failed" \/ (row.status = "succeeded" /\ Succeed)
  <2>1. CASE ledger = CompleteJob(runs, held, cost) /\ Succeed
    <3> DEFINE row == [runs[p][i] EXCEPT !.status = "succeeded", !.error = "none",
                                          !.finishedAt = now, !.costUsd = cost]
    <3>1. /\ row \in Row /\ row.startedAt = runs[p][i].startedAt /\ row.finishedAt = now
          /\ row.status = "succeeded"
      BY <1>1, HeldRow DEF Row, JobStatuses, Errors
    <3> QED BY <2>1, <3>1 DEF CompleteJob
  <2>2. ASSUME NEW usd \in Nat, NEW reason \in Errors, ledger = FailJob(runs, held, reason, usd)
        PROVE  \E row \in Row :
                        /\ ledger = [runs EXCEPT ![p][i] = row]
                        /\ row.startedAt = runs[p][i].startedAt /\ row.finishedAt = now
                        /\ row.status = "failed"
    <3> DEFINE row == [runs[p][i] EXCEPT !.status = "failed", !.error = reason,
                                          !.finishedAt = now, !.costUsd = usd]
    <3>1. /\ row \in Row /\ row.startedAt = runs[p][i].startedAt /\ row.finishedAt = now
          /\ row.status = "failed"
      BY <1>1, HeldRow DEF Row, JobStatuses, Errors
    <3> QED BY <2>2, <3>1 DEF FailJob
  <2> QED BY <2>1, <2>2
<1> HIDE DEF p, i
<1>3. /\ \A o \in Pairs : o # p => ledger[o] = runs[o]
      /\ ledger[p] = [runs[p] EXCEPT ![i] = row]
  BY <1>1, <1>2 DEF Ledger
<1>4. Len(ledger[q]) = Len(runs[q]) /\ j \in 1..Len(runs[q])
  <2>1. Len([runs[p] EXCEPT ![i] = row]) = Len(runs[p])
    BY <1>1 DEF Ledger
  <2>2. Len(ledger[q]) = Len(runs[q])
    BY <1>3, <2>1
  <2> QED BY <2>2
<1>5. InHand(q, j) <=> q = p /\ j = i
  BY <1>1 DEF InHand
<1>6. CASE q = p /\ j = i
  BY <1>1, <1>2, <1>3, <1>4, <1>5, <1>6 DEF Ledger
<1>7. CASE ~(q = p /\ j = i)
  <2>1. ledger[q][j] = runs[q][j]
    BY <1>1, <1>3, <1>4, <1>7 DEF Ledger
  <2> QED BY <2>1, <1>4, <1>5, <1>7
<1> QED BY <1>6, <1>7

(* Every step moves rows as above, and no other way.                       *)
LEMMA StepsMove == ASSUME IndInv, [Next]_vars PROVE AllMove
<1>1. /\ runs \in Ledger /\ now \in Nat /\ cost \in Nat /\ PairParts!1
      /\ \A p \in Pairs : runs[p] \in Seq(Row) /\ Len(runs[p]) \in Nat
  BY PairParts DEF IndInv, TypeOK, Ledger
<1>2. ASSUME runs' = runs, now' >= now,
             \/ pc' \notin {"claimed", "handling"}
             \/ held' = held /\ pc \in {"claimed", "handling"}
      PROVE  AllMove
  BY <1>2 DEF AllMove, RowMoves, RowStays, InHand
<1>3. ASSUME NEW p \in Pairs, NEW by \in Origins, runs' = EnqueueJob(runs, p, by), now' = now + 1,
             UNCHANGED workerVars
      PROVE  AllMove
  <2> SUFFICES ASSUME NEW q \in Pairs, NEW j \in 1..Len(runs'[q]) PROVE RowMoves(q, j)
    BY DEF AllMove
  <2>1. \/ j \in 1..Len(runs[q]) /\ runs'[q][j] = runs[q][j]
        \/ /\ j \notin 1..Len(runs[q])
           /\ runs'[q][j].status = "pending" /\ runs'[q][j].finishedAt = 0
           /\ runs'[q][j].costUsd = 0
    BY <1>1, <1>3, EnqueueRows
  <2> QED BY <1>1, <1>3, <2>1 DEF RowMoves, RowStays, RowComes, InHand, workerVars
<1>4. CASE Api
  <2>1. ASSUME NEW r \in Recordings, FinaliseUpload(r) PROVE AllMove
    BY <1>1, <1>3, <2>1, StepsOfChain, PairParts DEF FinaliseUpload, Origins
  <2>2. ASSUME NEW r \in Recordings, NEW s \in EditSteps, EnqueueBehindEdit(r, s) PROVE AllMove
    BY <1>1, <1>3, <2>2, LedgerAssumption, PairParts DEF EnqueueBehindEdit, Origins
  <2>3. ASSUME NEW r \in Recordings, NEW s \in ChainSteps, RerunStep(r, s) PROVE AllMove
    BY <1>1, <1>3, <2>3, StepsOfChain, PairParts DEF RerunStep, Origins
  <2>4. ASSUME NEW usd \in Raises, RaiseSpendCeiling(usd) PROVE AllMove
    BY <1>1, <1>2, <2>4 DEF RaiseSpendCeiling, ledgerVars, workerVars
  <2>5. ASSUME NEW r \in Recordings, RemoveRecording(r) PROVE AllMove
    <3> SUFFICES ASSUME NEW p \in Pairs, recording'[p[1]] # "deleted", NEW j \in 1..Len(runs'[p])
                 PROVE  RowMoves(p, j)
      BY DEF AllMove
    <3>1. p[1] # r
      BY <2>5 DEF RemoveRecording, IndInv, TypeOK
    <3>2. runs'[p] = runs[p]
      BY <2>5, <3>1 DEF RemoveRecording
    <3> QED BY <1>1, <2>5, <3>2 DEF RemoveRecording, RowMoves, RowStays, InHand, workerVars
  <2> QED BY <1>4, <2>1, <2>2, <2>3, <2>4, <2>5 DEF Api
<1>5. CASE Boot
  <2> SUFFICES ASSUME NEW p \in Pairs, NEW j \in 1..Len(runs'[p]) PROVE RowMoves(p, j)
    BY DEF AllMove
  <2>1. runs'[p] = SweepRows(runs[p]) /\ now' = now + 1 /\ pc' = "idle"
    BY <1>5 DEF Boot, SweepRunning
  <2>2. \/ j \in 1..Len(runs[p]) /\ runs'[p][j] = runs[p][j]
        \/ /\ j \in 1..Len(runs[p]) /\ runs[p][j].status = "running"
           /\ runs'[p][j].status = "failed" /\ runs'[p][j].finishedAt = now
           /\ runs'[p][j].costUsd = runs[p][j].costUsd
        \/ /\ j \notin 1..Len(runs[p])
           /\ runs'[p][j].status = "pending" /\ runs'[p][j].finishedAt = 0
           /\ runs'[p][j].costUsd = 0
    BY <1>1, <2>1, SweptRows
  <2> QED BY <1>1, <2>1, <2>2 DEF RowMoves, RowStays, RowComes, RowIsSwept, InHand
<1>6. CASE Claim
  <2>1. PICK job \in OldestPending(runs) :
          /\ runs' = [runs EXCEPT ![job[1]][job[2]] =
                        [@ EXCEPT !.status = "running", !.startedAt = now]]
          /\ held' = job
    BY <1>6 DEF Claim
  <2> DEFINE p == job[1]
             i == job[2]
             row == [runs[p][i] EXCEPT !.status = "running", !.startedAt = now]
  <2>2. /\ p \in Pairs /\ i \in 1..Len(runs[p]) /\ runs[p][i].status = "pending"
        /\ job = <<p, i>>
    BY DEF OldestPending, Pending
  <2>3. /\ row \in Row /\ row.status = "running" /\ row.startedAt = now
        /\ row.finishedAt = runs[p][i].finishedAt /\ row.costUsd = runs[p][i].costUsd
    <3>1. runs[p][i] \in Row
      BY <1>1, <2>2
    <3> QED BY <1>1, <3>1 DEF Row, JobStatuses, UnfinishedStatuses
  <2>4. runs' = [runs EXCEPT ![p][i] = row]
    BY <2>1
  <2> HIDE DEF row, p, i
  <2>5. /\ \A o \in Pairs : o # p => runs'[o] = runs[o]
        /\ runs'[p] = [runs[p] EXCEPT ![i] = row]
    BY <1>1, <2>2, <2>4 DEF Ledger
  <2> SUFFICES ASSUME NEW q \in Pairs, NEW j \in 1..Len(runs'[q]) PROVE RowMoves(q, j)
    BY DEF AllMove
  <2>6. j \in 1..Len(runs[q])
    <3>1. Len([runs[p] EXCEPT ![i] = row]) = Len(runs[p])
      BY <1>1, <2>2, <2>3 DEF Ledger
    <3> QED BY <2>5, <3>1
  <2>7. InHand(q, j)' <=> q = p /\ j = i
    BY <1>6, <2>1, <2>2 DEF InHand, Claim
  <2>8. CASE q = p /\ j = i
    <3>1. runs'[q][j] = row
      BY <1>1, <2>2, <2>5, <2>8 DEF Ledger
    <3> QED BY <1>6, <2>2, <2>3, <2>6, <2>8, <3>1 DEF RowMoves, RowIsClaimed, Claim
  <2>9. CASE ~(q = p /\ j = i)
    <3>1. runs'[q][j] = runs[q][j]
      BY <1>1, <2>2, <2>5, <2>6, <2>9 DEF Ledger
    <3> QED BY <1>1, <1>6, <2>6, <2>7, <2>9, <3>1 DEF RowMoves, RowStays, Claim
  <2> QED BY <2>8, <2>9
<1>7. CASE RefuseAtCeiling \/ Throw
  <2>1. /\ pc \in {"claimed", "handling"} /\ RowExists /\ pc' = "idle" /\ now' = now + 1
        /\ \E usd \in Nat, reason \in Errors : runs' = FailJob(runs, held, reason, usd)
    BY <1>1, <1>7 DEF RefuseAtCeiling, Throw, BackToTop, Errors
  <2> SUFFICES ASSUME NEW q \in Pairs, NEW j \in 1..Len(runs'[q]) PROVE RowMoves(q, j)
    BY DEF AllMove
  <2>2. /\ j \in 1..Len(runs[q])
        /\ \/ runs'[q][j] = runs[q][j] /\ ~InHand(q, j)
           \/ RowEnds(q, j)
    BY <2>1, HeldEnds DEF RowEnds
  <2> QED BY <1>1, <2>1, <2>2 DEF RowMoves, RowStays, InHand
<1>8. CASE Succeed
  <2> DEFINE p == held[1]
             done == CompleteJob(runs, held, cost)
             next == <<p[1], NextStep(p[2])>>
  <2>1. pc \in {"claimed", "handling"} /\ RowExists /\ pc' = "idle" /\ now' = now + 1
    BY <1>8 DEF Succeed, BackToTop
  <2>2. done \in Ledger /\ p[1] \in Recordings
    BY <1>1, <2>1, FinishSound, HeldRow DEF AllSound
  <2> SUFFICES ASSUME NEW q \in Pairs, NEW j \in 1..Len(runs'[q]) PROVE RowMoves(q, j)
    BY DEF AllMove
  <2>3. \/ j \in 1..Len(done[q]) /\ runs'[q][j] = done[q][j]
        \/ /\ j \notin 1..Len(done[q])
           /\ runs'[q][j].status = "pending" /\ runs'[q][j].finishedAt = 0
           /\ runs'[q][j].costUsd = 0
    <3>1. CASE ~HasNext(p[2])
      <4>1. runs' = done
        BY <1>8, <3>1 DEF Succeed
      <4> QED BY <4>1
    <3>2. CASE HasNext(p[2])
      <4>1. runs' = EnqueueJob(done, next, "chain")
        BY <1>8, <3>2 DEF Succeed
      <4>2. next \in Pairs /\ "chain" \in Origins
        BY <2>2, <3>2, StepsOfChain, PairParts DEF Origins
      <4> HIDE DEF done, next
      <4> QED BY <1>1, <2>2, <4>1, <4>2, EnqueueRows
    <3> QED BY <3>1, <3>2
  <2>4. Len(done[q]) = Len(runs[q])
    BY <1>8, <2>1, <2>2, HeldRow DEF CompleteJob, Ledger
  <2> HIDE DEF done, p, next
  <2>5. CASE j \in 1..Len(done[q]) /\ runs'[q][j] = done[q][j]
    <3>1. /\ j \in 1..Len(runs[q])
          /\ \/ done[q][j] = runs[q][j] /\ ~InHand(q, j)
             \/ /\ InHand(q, j) /\ runs[q][j].status = "running"
                /\ done[q][j].startedAt = runs[q][j].startedAt
                /\ done[q][j].finishedAt = now
                /\ \/ done[q][j].status = "failed"
                   \/ done[q][j].status = "succeeded" /\ Succeed
      BY <1>8, <2>1, <2>5, HeldEnds DEF done
    <3> QED BY <1>1, <2>1, <2>5, <3>1 DEF RowMoves, RowStays, RowEnds, InHand
  <2>6. CASE /\ j \notin 1..Len(done[q])
             /\ runs'[q][j].status = "pending" /\ runs'[q][j].finishedAt = 0
             /\ runs'[q][j].costUsd = 0
    BY <2>1, <2>4, <2>6 DEF RowMoves, RowComes
  <2> QED BY <2>3, <2>5, <2>6
<1>9. CASE PollEmpty \/ StartHandler \/ RowVanished \/ Exit
  BY <1>1, <1>2, <1>9 DEF PollEmpty, StartHandler, RowVanished, Exit, BackToTop, vars, ledgerVars,
                          RowMoves, AllMove, RowStays, InHand
<1>10. CASE Environment \/ \E usd \in Costs : ProviderCall(usd)
  BY <1>1, <1>2, <1>10 DEF Environment, Midnight, LedgerRefuses, Signal, Crash, ProviderCall,
                           BackToTop, ledgerVars, workerVars, RowMoves, AllMove, RowStays, InHand
<1>11. CASE UNCHANGED vars
  BY <1>1, <1>11 DEF vars, RowMoves, AllMove, RowStays, InHand
<1> QED BY <1>4, <1>5, <1>6, <1>7, <1>8, <1>9, <1>10, <1>11 DEF Next, WorkerStep

LEMMA PastKept == ASSUME IndInv, IndInv', Past, [Next]_vars PROVE Past' /\ now' >= now
<1>1. AllMove /\ now \in Nat /\ now' \in Nat
  BY StepsMove DEF IndInv, TypeOK
<1>2. now' >= now
  <2>1. now' \in {now, now + 1}
    <3>1. CASE Api
      BY <3>1 DEF Api, FinaliseUpload, EnqueueBehindEdit, RerunStep, RaiseSpendCeiling,
                  RemoveRecording, ledgerVars
    <3>2. CASE WorkerStep
      BY <3>2 DEF WorkerStep, Boot, Claim, PollEmpty, RefuseAtCeiling, StartHandler, Succeed, Throw,
                  RowVanished, Exit, ledgerVars, vars
    <3>3. CASE Environment \/ \E usd \in Costs : ProviderCall(usd)
      BY <3>3 DEF Environment, Midnight, LedgerRefuses, Signal, Crash, ProviderCall, ledgerVars
    <3> QED BY <3>1, <3>2, <3>3 DEF Next, vars
  <2> QED BY <1>1, <2>1
<1>3. ASSUME NEW p \in Pairs, NEW j \in 1..Len(runs'[p]) PROVE runs'[p][j].finishedAt < now'
  <2>1. recording'[p[1]] # "deleted"
    BY <1>3 DEF IndInv, OnlyLiveHaveJobs
  <2>2. RowMoves(p, j)
    BY <1>1, <2>1 DEF AllMove
  <2>3. runs'[p][j] \in Row
    BY DEF IndInv, TypeOK
  <2>4. j \in 1..Len(runs[p]) => runs[p][j].finishedAt < now /\ runs[p][j].finishedAt \in Nat
    <3>1. j \in 1..Len(runs[p]) => runs[p][j] \in Row
      BY DEF IndInv, TypeOK
    <3> QED BY <3>1 DEF Past, Row
  <2> QED BY <1>1, <1>2, <2>2, <2>4
          DEF Past, RowMoves, RowStays, RowComes, RowIsClaimed, RowEnds, RowIsSwept
<1> QED BY <1>1, <1>2, <1>3 DEF Past

(* What answers for a success goes on answering for it.                    *)
LEMMA AnswerKept ==
  ASSUME IndInv, IndInv', [Next]_vars, NEW p \in Pairs, recording'[p[1]] # "deleted",
         NEW j \in 1..Len(runs[p]), NEW since \in Nat, since < now, Answers(p, j, since)
  PROVE  j \in 1..Len(runs'[p]) /\ Answers(p, j, since)'
<1>1. RowsKept /\ AllMove
  BY Inductive, StepsMove
<1>2. Len(runs[p]) \in Nat /\ Len(runs'[p]) \in Nat /\ Len(runs'[p]) >= Len(runs[p])
  BY <1>1 DEF RowsKept, Keeps, IndInv, TypeOK
<1>3. j \in 1..Len(runs'[p])
  BY <1>2
<1>4. RowMoves(p, j)
  BY <1>1, <1>3 DEF AllMove
<1>5. CASE RowStays(p, j)
  BY <1>3, <1>5 DEF RowStays, Answers
<1>6. CASE RowIsClaimed(p, j)
  BY <1>3, <1>6 DEF RowIsClaimed, Answers
<1>7. CASE RowEnds(p, j)
  BY <1>3, <1>7 DEF RowEnds, Answers
<1>8. CASE RowIsSwept(p, j)
  BY <1>3, <1>8 DEF RowIsSwept, Answers
<1>9. ~RowComes(p, j)
  BY DEF RowComes
<1> QED BY <1>3, <1>4, <1>5, <1>6, <1>7, <1>8, <1>9 DEF RowMoves

LEMMA NextIsAnother ==
  ASSUME NEW s, HasNext(s) PROVE NextStep(s) # s
<1> DEFINE k == CHOOSE i \in 1..Len(Pipeline) - 1 : Pipeline[i] = s
<1>1. k \in 1..Len(Pipeline) - 1 /\ Pipeline[k] = s
  BY DEF HasNext
<1>2. Len(Pipeline) \in Nat
  BY PipelineAssumption
<1> HIDE DEF k
<1>3. k \in 1..Len(Pipeline) /\ k + 1 \in 1..Len(Pipeline) /\ k # k + 1
  BY <1>1, <1>2
<1>4. Pipeline[k + 1] # Pipeline[k]
  BY <1>3, PipelineAssumption
<1> QED BY <1>1, <1>4 DEF NextStep, k

(* The successor is queued with the success, or was unfinished already:    *)
(* one that is running is in no worker's hand, for the hand held the step  *)
(* that succeeded.                                                         *)
LEMMA SuccessAnswered ==
  ASSUME IndInv, IndInv', Succeed, NEW r, NEW s, held[1] = <<r, s>>, HasNext(s)
  PROVE  \E j \in 1..Len(runs'[<<r, NextStep(s)>>]) :
           \A since \in Nat : Answers(<<r, NextStep(s)>>, j, since)'
<1> DEFINE done == CompleteJob(runs, held, cost)
           next == <<r, NextStep(s)>>
<1>1. /\ pc \in {"claimed", "handling"} /\ RowExists /\ pc' = "idle"
      /\ runs' = EnqueueJob(done, next, "chain")
  BY DEF Succeed, BackToTop
<1>2. r \in Recordings /\ cost \in Nat /\ done \in Ledger /\ next \in Pairs
  <2>1. r \in Recordings /\ cost \in Nat
    BY <1>1, HeldRow
  <2>2. done \in Ledger
    BY <1>1, <2>1, FinishSound DEF AllSound
  <2> QED BY <2>1, <2>2, StepsOfChain, PairParts
<1>3. \A j : ~InHand(next, j)'
  BY <1>1 DEF InHand
<1> HIDE DEF done, next
<1>4. CASE InFlight(done, next)
  <2>1. PICK j \in 1..Len(done[next]) : Unfinished(done[next][j])
    BY <1>4 DEF InFlight
  <2>2. runs' = done
    BY <1>1, <1>4 DEF EnqueueJob
  <2>3. runs'[next][j].status \in {"pending", "running"}
    BY <2>1, <2>2 DEF Unfinished, UnfinishedStatuses
  <2>4. \A since \in Nat : Answers(<<r, NextStep(s)>>, j, since)'
    BY <1>3, <2>3 DEF Answers, next
  <2> QED BY <2>1, <2>2, <2>4 DEF next
<1>5. CASE ~InFlight(done, next)
  <2>1. runs'[next] = Append(done[next], NewRow("chain"))
    BY <1>1, <1>2, <1>5 DEF EnqueueJob, Ledger
  <2>2. done[next] \in Seq(Row) /\ NewRow("chain").status = "pending"
    BY <1>2 DEF Ledger, NewRow
  <2>3. PICK j \in 1..Len(runs'[next]) : runs'[next][j].status = "pending"
    <3>1. LET j == Len(done[next]) + 1
          IN  j \in 1..Len(runs'[next]) /\ runs'[next][j].status = "pending"
      BY <2>1, <2>2
    <3> QED BY <3>1
  <2>4. \A since \in Nat : Answers(<<r, NextStep(s)>>, j, since)'
    BY <2>3 DEF Answers, next
  <2> QED BY <2>3, <2>4 DEF next
<1> QED BY <1>4, <1>5

LEMMA AnsweredKept ==
  ASSUME IndInv, IndInv', Past, SuccessesAnswered, [Next]_vars
  PROVE  SuccessesAnswered'
<1> SUFFICES ASSUME NEW r \in Recordings, NEW s \in ChainSteps, HasNext(s),
                    NEW i \in 1..Len(runs'[<<r, s>>]), runs'[<<r, s>>][i].status = "succeeded"
             PROVE  \E j \in 1..Len(runs'[<<r, NextStep(s)>>]) :
                       Answers(<<r, NextStep(s)>>, j, runs[<<r, s>>][i].finishedAt)'
  BY DEF SuccessesAnswered
<1> DEFINE p == <<r, s>>
           q == <<r, NextStep(s)>>
<1>1. p \in Pairs /\ q \in Pairs /\ p[1] = r /\ q[1] = r
  BY StepsOfChain, PairParts
<1>2. recording'[r] # "deleted"
  BY <1>1 DEF IndInv, OnlyLiveHaveJobs
<1>3. RowMoves(p, i) /\ runs'[p][i].finishedAt \in Nat
  <2>1. runs'[p][i] \in Row
    BY <1>1 DEF IndInv, TypeOK
  <2> QED BY <1>1, <1>2, <2>1, StepsMove DEF AllMove, Row
<1>4. PICK since \in Nat : since = runs'[p][i].finishedAt
  BY <1>3
<1> SUFFICES \E j \in 1..Len(runs'[q]) : Answers(q, j, since)'
  BY <1>4 DEF Answers
<1>5. CASE RowStays(p, i)
  <2>1. i \in 1..Len(runs[p]) /\ runs'[p][i] = runs[p][i]
    BY <1>5 DEF RowStays
  <2>2. since < now /\ since = runs[p][i].finishedAt
    BY <1>1, <1>4, <2>1 DEF Past
  <2>3. PICK j \in 1..Len(runs[q]) : Answers(q, j, since)
    BY <2>1, <2>2 DEF SuccessesAnswered
  <2>4. j \in 1..Len(runs'[q]) /\ Answers(q, j, since)'
    <3> HIDE DEF q, p
    <3> QED BY <1>1, <1>2, <2>2, <2>3, AnswerKept
  <2> QED BY <2>4
<1>6. CASE RowEnds(p, i) /\ Succeed
  <2>1. held[1] = <<r, s>>
    BY <1>6 DEF RowEnds, InHand
  <2>2. \E j \in 1..Len(runs'[q]) : \A t \in Nat : Answers(q, j, t)'
    BY <1>6, <2>1, SuccessAnswered
  <2> QED BY <2>2
<1> QED BY <1>3, <1>5, <1>6 DEF RowMoves, RowComes, RowIsClaimed, RowEnds, RowIsSwept

(* No success is left without its successor: for any chain of steps and    *)
(* any crashes, lost writes and deletions (completeJob, sweepRunning).     *)
THEOREM SuccessesFollowed == Spec => []SuccessorFollows
<1> DEFINE Inv == IndInv /\ Past /\ SuccessesAnswered
<1>1. Init => Inv
  <2> SUFFICES ASSUME Init PROVE Inv
    OBVIOUS
  <2>1. \A p \in Pairs : Len(runs[p]) = 0
    BY DEF Init
  <2>2. \A r \in Recordings, s \in ChainSteps : <<r, s>> \in Pairs
    BY StepsOfChain, PairParts
  <2> QED BY <2>1, <2>2, Initially DEF Init, Past, SuccessesAnswered
<1>2. Inv /\ [Next]_vars => Inv'
  BY Inductive, PastKept, AnsweredKept
<1>3. Inv => SuccessorFollows
  BY DEF SuccessesAnswered, SuccessorFollows, Answers, Unfinished, UnfinishedStatuses
<1> QED BY <1>1, <1>2, <1>3, PTL DEF Spec

-----------------------------------------------------------------------------
(* The job ledger implements the pipeline an admin is shown: under the     *)
(* mapping of a pair to the status of its latest attempt (readPipeline),   *)
(* every step of the ledger and the worker is one step of PipelineStatus,  *)
(* or shows nothing. The mapping is right because of the inductive         *)
(* invariant: only a pair's latest row can be unfinished, so looking for   *)
(* an unfinished row among all of them is looking at what is shown.        *)

LatestStatus(rows) == IF rows = <<>> THEN "not_started" ELSE rows[Len(rows)].status
Shown(ledger) == [p \in Pairs |-> LatestStatus(ledger[p])]

(* The view is built on the same vocabulary.                               *)
LEMMA Vocabulary ==
  /\ View!Pairs = Pairs /\ View!JobSteps = JobSteps
  /\ View!UnfinishedStatuses = UnfinishedStatuses
  /\ \A s : (View!HasNext(s) <=> HasNext(s)) /\ View!NextStep(s) = NextStep(s)
<1>1. View!UnfinishedStatuses = UnfinishedStatuses
  BY DEF View!UnfinishedStatuses, UnfinishedStatuses
<1>2. View!ChainSteps = ChainSteps
  BY DEF View!ChainSteps, ChainSteps
<1>3. View!JobSteps = JobSteps
  BY <1>2 DEF View!JobSteps, JobSteps
<1>4. View!Pairs = Pairs
  BY <1>3 DEF View!Pairs, Pairs
<1>5. ASSUME NEW s PROVE (View!HasNext(s) <=> HasNext(s)) /\ View!NextStep(s) = NextStep(s)
  BY DEF View!HasNext, HasNext, View!NextStep, NextStep
<1> QED BY <1>1, <1>3, <1>4, <1>5

LEMMA ShownIsMapped ==
  /\ [p \in Pairs |-> ShownStatus(p)] = Shown(runs)
  /\ [p \in Pairs |-> ShownStatus(p)]' = Shown(runs')
BY DEF Shown, ShownStatus, LatestStatus

(* What is in flight is what is shown in flight.                           *)
LEMMA InFlightIsShown ==
  ASSUME NEW ledger, AllSound(ledger), NEW p \in Pairs
  PROVE  InFlight(ledger, p) <=> Shown(ledger)[p] \in UnfinishedStatuses
<1> DEFINE rows == ledger[p]
<1>1. rows \in Seq(Row) /\ Len(rows) \in Nat /\ LatestOnly(rows)
  BY DEF AllSound, Sound
<1>2. CASE rows = <<>>
  BY <1>2 DEF InFlight, Shown, LatestStatus, UnfinishedStatuses
<1>3. CASE rows # <<>>
  <2>1. Len(rows) \in 1..Len(rows)
    BY <1>1, <1>3
  <2>2. Shown(ledger)[p] = rows[Len(rows)].status
    BY <1>3 DEF Shown, LatestStatus
  <2> QED BY <1>1, <2>1, <2>2 DEF InFlight, LatestOnly, Unfinished
<1> QED BY <1>2, <1>3

(* An enqueue asks for the step: a no-op where it is in flight already.    *)
LEMMA EnqueueAsks ==
  ASSUME NEW ledger, AllSound(ledger), NEW p \in Pairs, NEW by \in Origins, now \in Nat
  PROVE  Shown(EnqueueJob(ledger, p, by)) = View!Asked(Shown(ledger), p)
<1>1. CASE InFlight(ledger, p)
  BY <1>1, InFlightIsShown, Vocabulary DEF EnqueueJob, View!Asked
<1>2. CASE ~InFlight(ledger, p)
  <2> DEFINE new == EnqueueJob(ledger, p, by)
             longer == Append(ledger[p], NewRow(by))
  <2>1. NewRow(by) \in Row /\ NewRow(by).status = "pending" /\ ledger \in Ledger
    BY DEF NewRow, Row, JobStatuses, UnfinishedStatuses, Errors, AllSound
  <2>2. new = [ledger EXCEPT ![p] = longer]
    BY <1>2 DEF EnqueueJob
  <2>3. longer # <<>> /\ longer[Len(longer)] = NewRow(by)
    BY <2>1 DEF Ledger
  <2>4. new[p] = longer /\ \A q \in Pairs : q # p => new[q] = ledger[q]
    BY <2>1, <2>2 DEF Ledger
  <2>5. View!Asked(Shown(ledger), p) = [Shown(ledger) EXCEPT ![p] = "pending"]
    BY <1>2, InFlightIsShown, Vocabulary DEF View!Asked
  <2> HIDE DEF new, longer
  <2>6. LatestStatus(new[p]) = "pending"
    BY <2>1, <2>3, <2>4 DEF LatestStatus
  <2> QED BY <2>4, <2>5, <2>6 DEF Shown, new
<1> QED BY <1>1, <1>2

(* An unfinished row is the one that is shown,                             *)
LEMMA UnfinishedIsShown ==
  ASSUME NEW ledger, AllSound(ledger), NEW p \in Pairs, NEW i \in 1..Len(ledger[p]),
         Unfinished(ledger[p][i])
  PROVE  i = Len(ledger[p]) /\ ledger[p] # <<>> /\ Shown(ledger)[p] = ledger[p][i].status
<1>1. ledger[p] \in Seq(Row) /\ Len(ledger[p]) \in Nat /\ LatestOnly(ledger[p])
  BY DEF AllSound, Sound
<1>2. i = Len(ledger[p]) /\ ledger[p] # <<>>
  BY <1>1 DEF LatestOnly
<1> QED BY <1>2 DEF Shown, LatestStatus

(* and rewriting it shows its new status.                                  *)
LEMMA PutShows ==
  ASSUME NEW ledger, AllSound(ledger), NEW p \in Pairs, NEW i \in 1..Len(ledger[p]),
         Unfinished(ledger[p][i]), NEW row \in Row
  PROVE  Shown([ledger EXCEPT ![p][i] = row]) = [Shown(ledger) EXCEPT ![p] = row.status]
<1> DEFINE rows == ledger[p]
           put == [rows EXCEPT ![i] = row]
           new == [ledger EXCEPT ![p] = put]
<1>1. rows \in Seq(Row) /\ Len(rows) \in Nat /\ LatestOnly(rows) /\ ledger \in Ledger
  BY DEF AllSound, Sound
<1>2. i = Len(rows) /\ rows # <<>>
  BY UnfinishedIsShown
<1>3. put # <<>> /\ put[Len(put)] = row
  BY <1>1, <1>2
<1>4. new[p] = put /\ \A q \in Pairs : q # p => new[q] = ledger[q]
  BY <1>1 DEF Ledger
<1>5. new = [ledger EXCEPT ![p][i] = row]
  OBVIOUS
<1> HIDE DEF new, put
<1>6. LatestStatus(new[p]) = row.status
  BY <1>3, <1>4 DEF LatestStatus
<1>7. Shown(new) = [Shown(ledger) EXCEPT ![p] = row.status]
  BY <1>4, <1>6 DEF Shown
<1> QED BY <1>5, <1>7

(* The two outcomes of a run, as they are shown.                           *)
LEMMA OutcomeShows ==
  ASSUME IndInv, pc \in {"claimed", "handling"}, RowExists
  PROVE  /\ Shown(runs)[held[1]] = "running"
         /\ \A usd \in Nat :
              Shown(CompleteJob(runs, held, usd)) = [Shown(runs) EXCEPT ![held[1]] = "succeeded"]
         /\ \A usd \in Nat, reason \in {"thrown", "ceiling"} :
              Shown(FailJob(runs, held, reason, usd)) = [Shown(runs) EXCEPT ![held[1]] = "failed"]
<1> DEFINE p == held[1]
           i == held[2]
<1>1. /\ p \in Pairs /\ i \in 1..Len(runs[p]) /\ runs[p][i] \in Row
      /\ Unfinished(runs[p][i]) /\ now \in Nat /\ AllSound(runs)
      /\ runs[p][i].status = "running"
  BY HeldRow DEF IndInv, HandOK
<1>2. Shown(runs)[p] = "running"
  BY <1>1, UnfinishedIsShown
<1>3. ASSUME NEW usd \in Nat
      PROVE  Shown(CompleteJob(runs, held, usd)) = [Shown(runs) EXCEPT ![p] = "succeeded"]
  <2> DEFINE row == [runs[p][i] EXCEPT !.status = "succeeded", !.error = "none",
                                        !.finishedAt = now, !.costUsd = usd]
  <2>1. row \in Row /\ row.status = "succeeded"
    BY <1>1 DEF Row, JobStatuses, Errors
  <2>2. CompleteJob(runs, held, usd) = [runs EXCEPT ![p][i] = row]
    BY DEF CompleteJob
  <2> HIDE DEF row, p, i
  <2>3. Shown([runs EXCEPT ![p][i] = row]) = [Shown(runs) EXCEPT ![p] = row.status]
    BY <1>1, <2>1, PutShows
  <2> QED BY <2>1, <2>2, <2>3
<1>4. ASSUME NEW usd \in Nat, NEW reason \in {"thrown", "ceiling"}
      PROVE  Shown(FailJob(runs, held, reason, usd)) = [Shown(runs) EXCEPT ![p] = "failed"]
  <2> DEFINE row == [runs[p][i] EXCEPT !.status = "failed", !.error = reason,
                                        !.finishedAt = now, !.costUsd = usd]
  <2>1. row \in Row /\ row.status = "failed"
    BY <1>1 DEF Row, JobStatuses, Errors
  <2>2. FailJob(runs, held, reason, usd) = [runs EXCEPT ![p][i] = row]
    BY DEF FailJob
  <2> HIDE DEF row, p, i
  <2>3. Shown([runs EXCEPT ![p][i] = row]) = [Shown(runs) EXCEPT ![p] = row.status]
    BY <1>1, <2>1, PutShows
  <2> QED BY <2>1, <2>2, <2>3
<1> QED BY <1>2, <1>3, <1>4

(* A sweep takes back what was running: again, or failed.                  *)
LEMMA SweepShows ==
  ASSUME NEW rows, Sound(rows), now \in Nat
  PROVE  /\ LatestStatus(rows) # "running" => LatestStatus(SweepRows(rows)) = LatestStatus(rows)
         /\ LatestStatus(rows) = "running" =>
              LatestStatus(SweepRows(rows)) \in {"pending", "failed"}
<1> DEFINE n == Len(rows)
           failed == [i \in 1..Len(rows) |->
                        IF rows[i].status # "running" THEN rows[i]
                        ELSE [rows[i] EXCEPT !.status = "failed", !.finishedAt = now,
                                !.error = IF CrashLoop(rows, i) THEN "capped" ELSE "restarted"]]
           again == \E i \in 1..Len(rows) : rows[i].status = "running" /\ ~CrashLoop(rows, i)
<1>1. SweepRows(rows) = IF again THEN Append(failed, NewRow("sweep")) ELSE failed
  BY DEF SweepRows
<1>2. rows \in Seq(Row) /\ n \in Nat
  BY DEF Sound
<1>3. \A i \in 1..n : rows[i].status = "running" => i = n
  BY DEF Sound, LatestOnly, Unfinished, UnfinishedStatuses
<1>4. CASE LatestStatus(rows) # "running"
  <2>1. \A i \in 1..n : rows[i].status # "running"
    <3> SUFFICES ASSUME NEW i \in 1..n, rows[i].status = "running" PROVE FALSE
      OBVIOUS
    <3>1. i = n /\ rows # <<>>
      <4> HIDE DEF failed, again
      <4> QED BY <1>2, <1>3
    <3> QED BY <1>4, <3>1 DEF LatestStatus
  <2>2. failed = [i \in 1..n |-> rows[i]]
    BY <2>1
  <2>3. failed = rows
    <3>1. rows = [i \in 1..n |-> rows[i]]
      BY <1>2
    <3> HIDE DEF failed
    <3> QED BY <2>2, <3>1
  <2>4. ~again
    BY <2>1
  <2> HIDE DEF failed, again
  <2> QED BY <1>1, <1>4, <2>3, <2>4
<1>5. CASE LatestStatus(rows) = "running"
  <2>1. n \in 1..n /\ rows # <<>> /\ rows[n].status = "running" /\ rows[n] \in Row
    BY <1>2, <1>5 DEF LatestStatus
  <2> DEFINE gone == [rows[n] EXCEPT !.status = "failed", !.finishedAt = now,
                        !.error = IF CrashLoop(rows, n) THEN "capped" ELSE "restarted"]
  <2>2. failed = [rows EXCEPT ![n] = gone]
    <3>1. [rows EXCEPT ![n] = gone] = [i \in 1..n |-> IF i = n THEN gone ELSE rows[i]]
      BY <1>2
    <3>2. failed = [i \in 1..n |-> IF i = n THEN gone ELSE rows[i]]
      BY <1>3, <2>1
    <3> QED BY <3>1, <3>2
  <2>3. gone \in Row /\ gone.status = "failed"
    BY <2>1 DEF Row, JobStatuses, Errors
  <2>4. NewRow("sweep") \in Row /\ NewRow("sweep").status = "pending"
    BY DEF NewRow, Row, JobStatuses, UnfinishedStatuses, Errors, Origins
  <2> HIDE DEF failed, again, gone
  <2>5. failed \in Seq(Row) /\ Len(failed) = n /\ failed[n].status = "failed"
    BY <1>2, <2>1, <2>2, <2>3
  <2>6. CASE again
    <3>1. /\ Len(Append(failed, NewRow("sweep"))) = n + 1
          /\ Append(failed, NewRow("sweep"))[n + 1] = NewRow("sweep")
          /\ Append(failed, NewRow("sweep")) # <<>>
      BY <2>1, <2>4, <2>5
    <3> QED BY <1>1, <1>5, <2>4, <2>6, <3>1 DEF LatestStatus
  <2>7. CASE ~again
    <3>1. failed # <<>> /\ SweepRows(rows) = failed
      BY <1>1, <2>1, <2>5, <2>7
    <3> QED BY <1>5, <2>5, <3>1 DEF LatestStatus
  <2> QED BY <2>6, <2>7
<1> QED BY <1>4, <1>5

-----------------------------------------------------------------------------
(* One step of the ledger is one step of the view, or shows nothing.       *)

LEMMA RequestShows ==
  ASSUME IndInv, NEW r \in Recordings, NEW s \in JobSteps, NEW by \in Origins,
         runs' = EnqueueJob(runs, <<r, s>>, by)
  PROVE  View!StatusNext
<1>1. <<r, s>> \in Pairs /\ AllSound(runs) /\ now \in Nat
  BY PairParts DEF IndInv, TypeOK
<1>2. Shown(runs') = View!Asked(Shown(runs), <<r, s>>)
  BY <1>1, EnqueueAsks
<1>3. View!Ask(<<r, s>>)
  BY <1>2, ShownIsMapped, Vocabulary DEF View!Ask
<1> QED BY <1>1, <1>3, Vocabulary DEF View!StatusNext

LEMMA ApiShows == ASSUME IndInv, Api PROVE View!StatusNext \/ runs' = runs
<1>1. ASSUME NEW r \in Recordings, FinaliseUpload(r) PROVE View!StatusNext
  BY <1>1, RequestShows, StepsOfChain DEF FinaliseUpload, Origins
<1>2. ASSUME NEW r \in Recordings, NEW s \in EditSteps, EnqueueBehindEdit(r, s)
      PROVE  View!StatusNext
  BY <1>2, RequestShows, LedgerAssumption DEF EnqueueBehindEdit, Origins
<1>3. ASSUME NEW r \in Recordings, NEW s \in ChainSteps, RerunStep(r, s) PROVE View!StatusNext
  BY <1>3, RequestShows, StepsOfChain DEF RerunStep, Origins
<1>4. ASSUME NEW usd \in Raises, RaiseSpendCeiling(usd) PROVE runs' = runs
  BY <1>4 DEF RaiseSpendCeiling, ledgerVars
<1>5. ASSUME NEW r \in Recordings, RemoveRecording(r) PROVE View!StatusNext
  <2>1. runs' = [p \in Pairs |-> IF p[1] = r THEN <<>> ELSE runs[p]]
    BY <1>5 DEF RemoveRecording
  <2>2. Shown(runs') = [p \in Pairs |-> IF p[1] = r THEN "not_started" ELSE Shown(runs)[p]]
    BY <2>1 DEF Shown, LatestStatus
  <2>3. View!Remove(r)
    BY <2>2, ShownIsMapped, Vocabulary DEF View!Remove
  <2> QED BY <2>3, Vocabulary DEF View!StatusNext
<1> QED BY <1>1, <1>2, <1>3, <1>4, <1>5 DEF Api

LEMMA ClaimShows == ASSUME IndInv, Claim PROVE View!StatusNext
<1>1. PICK job \in OldestPending(runs) :
        runs' = [runs EXCEPT ![job[1]][job[2]] =
                   [@ EXCEPT !.status = "running", !.startedAt = now]]
  BY DEF Claim
<1> DEFINE p == job[1]
           i == job[2]
           row == [runs[p][i] EXCEPT !.status = "running", !.startedAt = now]
<1>2. p \in Pairs /\ i \in 1..Len(runs[p]) /\ runs[p][i].status = "pending"
  BY DEF OldestPending, Pending
<1>3. runs[p][i] \in Row /\ now \in Nat /\ AllSound(runs) /\ Unfinished(runs[p][i])
  BY <1>2 DEF IndInv, TypeOK, Unfinished, UnfinishedStatuses
<1>4. row \in Row /\ row.status = "running"
  BY <1>3 DEF Row, JobStatuses, UnfinishedStatuses
<1>5. runs' = [runs EXCEPT ![p][i] = row]
  BY <1>1
<1> HIDE DEF p, i, row
<1>6. Shown(runs)[p] = "pending"
  BY <1>2, <1>3, UnfinishedIsShown
<1>7. Shown([runs EXCEPT ![p][i] = row]) = [Shown(runs) EXCEPT ![p] = "running"]
  BY <1>2, <1>3, <1>4, PutShows
<1>8. View!Start(p)
  BY <1>5, <1>6, <1>7, ShownIsMapped, Vocabulary DEF View!Start
<1> QED BY <1>2, <1>8, Vocabulary DEF View!StatusNext

LEMMA SucceedShows == ASSUME IndInv, Succeed PROVE View!StatusNext
<1> DEFINE p == held[1]
           done == CompleteJob(runs, held, cost)
           next == <<p[1], NextStep(p[2])>>
<1>1. /\ p \in Pairs /\ p[1] \in Recordings /\ p[2] \in JobSteps
      /\ p = <<p[1], p[2]>> /\ now \in Nat /\ cost \in Nat
  BY HeldRow, PairParts DEF Succeed
<1>2. Shown(runs)[p] = "running" /\ Shown(done) = [Shown(runs) EXCEPT ![p] = "succeeded"]
  BY <1>1, OutcomeShows DEF Succeed
<1>3. AllSound(done)
  BY <1>1, FinishSound DEF Succeed
<1>4. runs' = IF HasNext(p[2]) THEN EnqueueJob(done, next, "chain") ELSE done
  BY DEF Succeed
<1>5. HasNext(p[2]) => next \in Pairs /\ "chain" \in Origins
  BY <1>1, StepsOfChain, PairParts DEF Origins
<1> HIDE DEF p, done
<1>6. Shown(runs') = IF HasNext(p[2]) THEN View!Asked(Shown(done), next) ELSE Shown(done)
  BY <1>1, <1>3, <1>4, <1>5, EnqueueAsks
<1>7. View!Advance(p[1], p[2])
  BY <1>1, <1>2, <1>6, ShownIsMapped, Vocabulary DEF View!Advance, next
<1> QED BY <1>1, <1>7, Vocabulary DEF View!StatusNext

LEMMA FailureShows ==
  ASSUME IndInv, pc \in {"claimed", "handling"}, RowExists,
         NEW usd \in Nat, NEW reason \in {"thrown", "ceiling"},
         runs' = FailJob(runs, held, reason, usd)
  PROVE  View!StatusNext
<1>1. held[1] \in Pairs
  BY HeldRow
<1>2. /\ Shown(runs)[held[1]] = "running"
      /\ Shown(runs') = [Shown(runs) EXCEPT ![held[1]] = "failed"]
  BY OutcomeShows
<1>3. View!Halt(held[1])
  BY <1>2, ShownIsMapped, Vocabulary DEF View!Halt
<1> QED BY <1>1, <1>3, Vocabulary DEF View!StatusNext

LEMMA BootShows == ASSUME IndInv, Boot PROVE View!StatusNext
<1> DEFINE again == {p \in Pairs : /\ Shown(runs)[p] = "running"
                                   /\ Shown(runs')[p] = "pending"}
<1>1. runs' = [p \in Pairs |-> SweepRows(runs[p])]
  BY DEF Boot, SweepRunning
<1>2. ASSUME NEW p \in Pairs
      PROVE  /\ Shown(runs)[p] # "running" => Shown(runs')[p] = Shown(runs)[p]
             /\ Shown(runs)[p] = "running" => Shown(runs')[p] \in {"pending", "failed"}
  <2>1. Sound(runs[p]) /\ now \in Nat
    BY DEF IndInv, TypeOK, AllSound
  <2> QED BY <1>1, <2>1, SweepShows DEF Shown
<1>3. Shown(runs') = [p \in Pairs |-> IF Shown(runs)[p] # "running" THEN Shown(runs)[p]
                                      ELSE IF p \in again THEN "pending" ELSE "failed"]
  BY <1>2 DEF Shown
<1>4. again \in SUBSET {p \in Pairs : Shown(runs)[p] = "running"}
  OBVIOUS
<1> HIDE DEF again
<1>5. View!Restart
  BY <1>3, <1>4, ShownIsMapped, Vocabulary DEF View!Restart
<1> QED BY <1>5, Vocabulary DEF View!StatusNext

LEMMA StepShows == ASSUME IndInv, [Next]_vars PROVE View!StatusNext \/ runs' = runs
<1>1. CASE UNCHANGED vars
  BY <1>1 DEF vars
<1>2. CASE Api
  BY <1>2, ApiShows
<1>3. CASE WorkerStep
  <2>1. CASE Boot
    BY <2>1, BootShows
  <2>2. CASE Claim
    BY <2>2, ClaimShows
  <2>3. CASE Succeed
    BY <2>3, SucceedShows
  <2>4. CASE RefuseAtCeiling
    BY <2>4, FailureShows DEF RefuseAtCeiling
  <2>5. CASE Throw
    <3>1. cost \in Nat
      BY DEF IndInv, TypeOK
    <3> QED BY <2>5, <3>1, FailureShows DEF Throw
  <2>6. CASE PollEmpty \/ StartHandler \/ RowVanished \/ Exit
    BY <2>6 DEF PollEmpty, StartHandler, RowVanished, Exit, vars, ledgerVars
  <2> QED BY <1>3, <2>1, <2>2, <2>3, <2>4, <2>5, <2>6 DEF WorkerStep
<1>4. CASE Environment \/ \E usd \in Costs : ProviderCall(usd)
  BY <1>4 DEF Environment, Midnight, LedgerRefuses, Signal, Crash, ProviderCall, ledgerVars
<1> QED BY <1>1, <1>2, <1>3, <1>4 DEF Next

(* What an admin is shown moves only as PipelineStatus allows: a step is   *)
(* asked for once at a time, a success brings its successor with it, a     *)
(* failure halts, and work a dead worker left is asked for again or failed.*)
THEOREM LedgerImplementsView == Spec => ImplementsStatusView
<1>1. Init => View!StatusInit
  BY ShownIsMapped, Vocabulary DEF Init, View!StatusInit, Shown, LatestStatus
<1>2. IndInv /\ [Next]_vars => [View!StatusNext]_([p \in Pairs |-> ShownStatus(p)])
  <2>1. runs' = runs => UNCHANGED [p \in Pairs |-> ShownStatus(p)]
    BY ShownIsMapped
  <2> QED BY <2>1, StepShows
<1> QED BY InvariantHolds, <1>1, <1>2, PTL DEF Spec, ImplementsStatusView, View!StatusSpec

-----------------------------------------------------------------------------
(* The least number of a set, and induction with it over the subsets of a  *)
(* finite set.                                                             *)
LEMMA Least ==
  ASSUME NEW T \in SUBSET Nat, T # {}
  PROVE  \E n \in T : \A m \in T : n <= m
<1> DEFINE less == {ss \in Nat \X Nat : ss[1] < ss[2]}
<1>1. IsWellFoundedOn(less, Nat)
  BY NatLessThanWellFounded DEF OpToRel
<1> HIDE DEF less
<1>2. PICK n \in T : \A m \in T : ~(<<m, n>> \in less)
  BY <1>1, WFMin
<1>3. \A m \in T : ~(m < n)
  BY <1>2 DEF less
<1> QED BY <1>3

LEMMA SubsetInduction ==
  ASSUME NEW S, IsFiniteSet(S), NEW Good \in SUBSET (SUBSET S),
         \A s \in SUBSET S :
           (\A t \in SUBSET S : Cardinality(t) < Cardinality(s) => t \in Good) => s \in Good
  PROVE  \A s \in SUBSET S : s \in Good
<1> DEFINE sizes == {n \in Nat : \E s \in SUBSET S : s \notin Good /\ Cardinality(s) = n}
<1>1. \A s \in SUBSET S : Cardinality(s) \in Nat
  BY FS_Subset, FS_CardinalityType
<1>2. CASE sizes # {}
  <2>1. PICK n \in sizes : \A m \in sizes : n <= m
    <3>1. sizes \in SUBSET Nat
      OBVIOUS
    <3> HIDE DEF sizes
    <3> QED BY <1>2, <3>1, Least
  <2>2. PICK s \in SUBSET S : s \notin Good /\ Cardinality(s) = n
    OBVIOUS
  <2>3. ASSUME NEW t \in SUBSET S, Cardinality(t) < Cardinality(s) PROVE t \in Good
    BY <1>1, <2>1, <2>2, <2>3
  <2> QED BY <2>2, <2>3
<1>3. CASE sizes = {}
  BY <1>1, <1>3
<1> QED BY <1>2, <1>3

(* What SumFunction sums a function with: every subset's sum, an element   *)
(* chosen of it first.                                                     *)
Pick(s) == CHOOSE x \in s : TRUE
SumOver(c, s, g) == IF s = {} THEN 0 ELSE c[Pick(s)] + g[s \ {Pick(s)}]
Sums(c, S) == CHOOSE g : g = [s \in SUBSET S |-> SumOver(c, s, g)]

LEMMA Unfold == ASSUME NEW c PROVE SumFunction(c) = Sums(c, DOMAIN c)[DOMAIN c]
  BY DEF SumFunction, SumFunctionOnSet, FoldFunctionOnSet, MapThenFoldSet, Sums, SumOver, Pick
(* The sums of a function over the subsets of a finite set are there.      *)
LEMMA Smaller ==
  ASSUME NEW S, IsFiniteSet(S), NEW s \in SUBSET S, NEW x \in s
  PROVE  s \ {x} \in SUBSET S /\ Cardinality(s \ {x}) < Cardinality(s)
<1>1. IsFiniteSet(s) /\ Cardinality(s) \in Nat
  BY FS_Subset, FS_CardinalityType
<1>2. Cardinality(s \ {x}) = Cardinality(s) - 1
  BY <1>1, FS_RemoveElement
<1> QED BY <1>1, <1>2

LEMMA SumsExist ==
  ASSUME NEW S, IsFiniteSet(S), NEW c
  PROVE  \A s \in SUBSET S : Sums(c, S)[s] = SumOver(c, s, Sums(c, S))
<1> DEFINE Upto(n) == {s \in SUBSET S : Cardinality(s) <= n}
           Partial(n) == \E g : \A s \in Upto(n) : g[s] = SumOver(c, s, g)
           lacking == {n \in Nat : ~Partial(n)}
<1>1. \A s \in SUBSET S : IsFiniteSet(s) /\ Cardinality(s) \in Nat
  BY FS_Subset, FS_CardinalityType
<1>2. \A s \in SUBSET S : s # {} => Pick(s) \in s
  BY DEF Pick
<1>3. Partial(0)
  <2> DEFINE g == [s \in SUBSET S |-> 0]
  <2>1. \A s \in Upto(0) : s = {}
    BY <1>1, FS_EmptySet
  <2>2. \A s \in Upto(0) : g[s] = SumOver(c, s, g)
    BY <2>1 DEF SumOver
  <2> QED BY <2>2
<1>4. ASSUME NEW n \in Nat, n # 0, Partial(n - 1) PROVE Partial(n)
  <2>1. PICK g : \A s \in Upto(n - 1) : g[s] = SumOver(c, s, g)
    BY <1>4
  <2> DEFINE h == [s \in SUBSET S |-> SumOver(c, s, g)]
  <2>2. \A s \in Upto(n - 1) : h[s] = g[s]
    BY <2>1
  <2>3. ASSUME NEW s \in Upto(n), s # {} PROVE s \ {Pick(s)} \in Upto(n - 1)
    BY <1>1, <1>2, <2>3, Smaller
  <2>4. ASSUME NEW s \in Upto(n) PROVE h[s] = SumOver(c, s, h)
    <3>1. CASE s = {}
      BY <3>1 DEF SumOver
    <3>2. CASE s # {}
      <4>1. h[s] = c[Pick(s)] + g[s \ {Pick(s)}]
        BY <3>2 DEF SumOver
      <4>2. h[s \ {Pick(s)}] = g[s \ {Pick(s)}]
        BY <2>2, <2>3, <3>2
      <4> HIDE DEF h
      <4> QED BY <3>2, <4>1, <4>2 DEF SumOver
    <3> QED BY <3>1, <3>2
  <2> HIDE DEF h, Upto
  <2> QED BY <2>4
<1> HIDE DEF Partial
<1>5. lacking = {}
  <2> SUFFICES ASSUME lacking # {} PROVE FALSE
    OBVIOUS
  <2>1. lacking \in SUBSET Nat
    OBVIOUS
  <2>2. PICK n \in lacking : \A m \in lacking : n <= m
    BY <2>1, Least
  <2>3. n # 0
    BY <1>3
  <2>4. n \in Nat /\ n - 1 \in Nat /\ n - 1 \notin lacking
    BY <2>2, <2>3
  <2> QED BY <1>4, <2>3, <2>4
<1>6. Partial(Cardinality(S))
  BY <1>1, <1>5
<1>7. PICK g : \A s \in SUBSET S : g[s] = SumOver(c, s, g)
  <2>1. Upto(Cardinality(S)) = SUBSET S
    BY <1>1, FS_Subset
  <2> HIDE DEF Upto
  <2> QED BY <1>6, <2>1 DEF Partial
<1> DEFINE G == [s \in SUBSET S |-> g[s]]
<1>8. \A s \in SUBSET S : SumOver(c, s, G) = SumOver(c, s, g)
  BY <1>2 DEF SumOver
<1>9. G = [s \in SUBSET S |-> SumOver(c, s, G)]
  <2>1. \A s \in SUBSET S : G[s] = SumOver(c, s, G)
    BY <1>7, <1>8
  <2> QED BY <2>1, Zenon
<1> HIDE DEF G
<1>10. Sums(c, S) = [s \in SUBSET S |-> SumOver(c, s, Sums(c, S))]
  BY <1>9, Zenon DEF Sums
<1> QED BY <1>10, Zenon

LEMMA SumsTyped ==
  ASSUME NEW S, IsFiniteSet(S), NEW c \in [S -> Nat]
  PROVE  /\ Sums(c, S)[{}] = 0
         /\ \A s \in SUBSET S : Sums(c, S)[s] \in Nat
<1> DEFINE g == Sums(c, S)
           Good == {s \in SUBSET S : g[s] \in Nat}
<1>1. \A s \in SUBSET S : g[s] = SumOver(c, s, g)
  BY SumsExist
<1> HIDE DEF g
<1>2. ASSUME NEW s \in SUBSET S,
             \A t \in SUBSET S : Cardinality(t) < Cardinality(s) => t \in Good
      PROVE  s \in Good
  <2>1. CASE s = {}
    BY <1>1, <2>1 DEF SumOver
  <2>2. CASE s # {}
    <3>1. Pick(s) \in s
      BY <2>2 DEF Pick
    <3>2. g[s \ {Pick(s)}] \in Nat /\ c[Pick(s)] \in Nat
      BY <1>2, <3>1, Smaller
    <3>3. g[s] = c[Pick(s)] + g[s \ {Pick(s)}]
      BY <1>1, <2>2 DEF SumOver
    <3> QED BY <3>2, <3>3
  <2> QED BY <2>1, <2>2
<1>3. \A s \in SUBSET S : s \in Good
  <2>1. Good \in SUBSET (SUBSET S)
    OBVIOUS
  <2> HIDE DEF Good
  <2> QED BY <1>2, <2>1, SubsetInduction
<1>4. g[{}] = 0
  BY <1>1 DEF SumOver
<1> QED BY <1>3, <1>4 DEF g

(* Whichever element is taken first.                                       *)
LEMMA SumTakes ==
  ASSUME NEW S, IsFiniteSet(S), NEW c \in [S -> Nat]
  PROVE  \A s \in SUBSET S : \A y \in s : Sums(c, S)[s] = c[y] + Sums(c, S)[s \ {y}]
<1> DEFINE g == Sums(c, S)
           Good == {s \in SUBSET S : \A y \in s : g[s] = c[y] + g[s \ {y}]}
<1>1. /\ \A s \in SUBSET S : s # {} => g[s] = c[Pick(s)] + g[s \ {Pick(s)}]
      /\ \A s \in SUBSET S : g[s] \in Nat
  <2>1. \A s \in SUBSET S : g[s] = SumOver(c, s, g)
    BY SumsExist
  <2>2. \A s \in SUBSET S : g[s] \in Nat
    BY SumsTyped
  <2> HIDE DEF g
  <2> QED BY <2>1, <2>2 DEF SumOver
<1> HIDE DEF g
<1>2. ASSUME NEW s \in SUBSET S,
             \A t \in SUBSET S : Cardinality(t) < Cardinality(s) => t \in Good,
             NEW y \in s
      PROVE  g[s] = c[y] + g[s \ {y}]
  <2> DEFINE x == Pick(s)
  <2>1. x \in s
    BY DEF Pick
  <2>2. g[s] = c[x] + g[s \ {x}]
    BY <1>1
  <2> HIDE DEF x
  <2>3. CASE x = y
    BY <2>2, <2>3
  <2>4. CASE x # y
    <3> DEFINE rest == s \ {x, y}
    <3>1. s \ {x} \in Good /\ s \ {y} \in Good
      BY <1>2, <2>1, Smaller
    <3>2. y \in s \ {x} /\ (s \ {x}) \ {y} = rest /\ x \in s \ {y} /\ (s \ {y}) \ {x} = rest
      BY <2>1, <2>4
    <3>3. g[s \ {x}] = c[y] + g[rest] /\ g[s \ {y}] = c[x] + g[rest]
      BY <3>1, <3>2
    <3>4. c[x] \in Nat /\ c[y] \in Nat /\ g[rest] \in Nat
      BY <1>1, <2>1
    <3> QED BY <2>2, <3>3, <3>4
  <2> QED BY <2>3, <2>4
<1>3. \A s \in SUBSET S : s \in Good
  <2>1. Good \in SUBSET (SUBSET S)
    OBVIOUS
  <2>2. \A s \in SUBSET S :
          (\A t \in SUBSET S : Cardinality(t) < Cardinality(s) => t \in Good) => s \in Good
    BY <1>2
  <2> HIDE DEF Good
  <2> QED BY <2>1, <2>2, SubsetInduction
<1> QED BY <1>3 DEF g

(* A sum is of what is summed, and of nothing around it.                   *)
LEMMA SumsAgree ==
  ASSUME NEW T, IsFiniteSet(T), NEW d \in [T -> Nat], NEW S \in SUBSET T,
         NEW c \in [S -> Nat], \A x \in S : c[x] = d[x]
  PROVE  \A s \in SUBSET S : Sums(c, S)[s] = Sums(d, T)[s]
<1> DEFINE g == Sums(c, S)
           h == Sums(d, T)
           Good == {s \in SUBSET S : g[s] = h[s]}
<1>1. IsFiniteSet(S)
  BY FS_Subset
<1>2. /\ \A s \in SUBSET S : g[s] = SumOver(c, s, g)
      /\ \A s \in SUBSET S : h[s] = SumOver(d, s, h)
  BY <1>1, SumsExist
<1> HIDE DEF g, h
<1>3. ASSUME NEW s \in SUBSET S,
             \A t \in SUBSET S : Cardinality(t) < Cardinality(s) => t \in Good
      PROVE  s \in Good
  <2>1. CASE s = {}
    BY <1>2, <2>1 DEF SumOver
  <2>2. CASE s # {}
    <3>1. Pick(s) \in s
      BY <2>2 DEF Pick
    <3>2. g[s \ {Pick(s)}] = h[s \ {Pick(s)}] /\ c[Pick(s)] = d[Pick(s)]
      BY <1>1, <1>3, <3>1, Smaller
    <3> QED BY <1>2, <2>2, <3>2 DEF SumOver
  <2> QED BY <2>1, <2>2
<1>4. \A s \in SUBSET S : s \in Good
  <2>1. Good \in SUBSET (SUBSET S)
    OBVIOUS
  <2> HIDE DEF Good
  <2> QED BY <1>1, <1>3, <2>1, SubsetInduction
<1> QED BY <1>4 DEF g, h

(* More is summed to no less, and one more to at least that much more.     *)
LEMMA SumGrows ==
  ASSUME NEW T, IsFiniteSet(T), NEW d \in [T -> Nat], NEW S \in SUBSET T,
         NEW c \in [S -> Nat], \A x \in S : c[x] = d[x]
  PROVE  /\ SumFunction(c) \in Nat /\ SumFunction(d) \in Nat
         /\ SumFunction(c) <= SumFunction(d)
         /\ \A x \in T \ S : SumFunction(c) + d[x] <= SumFunction(d)
<1> DEFINE h == Sums(d, T)
           Good == {s \in SUBSET T : S \subseteq s => h[S] <= h[s]}
<1>1. IsFiniteSet(S)
  BY FS_Subset
<1>2. SumFunction(c) = h[S] /\ SumFunction(d) = h[T]
  BY <1>1, SumsAgree, Unfold
<1>3. /\ \A s \in SUBSET T : \A y \in s : h[s] = d[y] + h[s \ {y}]
      /\ \A s \in SUBSET T : h[s] \in Nat
  BY SumTakes, SumsTyped
<1> HIDE DEF h
<1>4. ASSUME NEW s \in SUBSET T, S \subseteq s,
             \A t \in SUBSET T : Cardinality(t) < Cardinality(s) => t \in Good
      PROVE  h[S] <= h[s]
  <2>1. CASE s = S
    BY <1>3, <2>1
  <2>2. ASSUME NEW y \in s \ S PROVE h[S] <= h[s]
    <3>1. h[S] <= h[s \ {y}]
      BY <1>4, <2>2, Smaller
    <3>2. h[s] = d[y] + h[s \ {y}] /\ d[y] \in Nat /\ h[s \ {y}] \in Nat /\ h[S] \in Nat
      BY <1>3, <2>2
    <3> QED BY <3>1, <3>2
  <2> QED BY <1>4, <2>1, <2>2
<1>5. \A s \in SUBSET T : S \subseteq s => h[S] <= h[s]
  <2>1. Good \in SUBSET (SUBSET T)
    OBVIOUS
  <2>2. \A s \in SUBSET T :
          (\A t \in SUBSET T : Cardinality(t) < Cardinality(s) => t \in Good) => s \in Good
    BY <1>4
  <2>3. \A s \in SUBSET T : s \in Good
    <3> HIDE DEF Good
    <3> QED BY <2>1, <2>2, SubsetInduction
  <2> QED BY <2>3
<1>6. ASSUME NEW x \in T \ S PROVE h[S] + d[x] <= h[T]
  <2>1. h[S] <= h[T \ {x}]
    BY <1>5
  <2>2. h[T] = d[x] + h[T \ {x}] /\ d[x] \in Nat /\ h[T \ {x}] \in Nat /\ h[S] \in Nat
    BY <1>3
  <2> QED BY <2>1, <2>2
<1> QED BY <1>2, <1>3, <1>5, <1>6

-----------------------------------------------------------------------------
(* The true cap.  What the providers charged is what the ledger has of     *)
(* today and what the run in hand has not written yet, as long as nothing  *)
(* of it was lost: a crash and a refused write lose the bill of the run in *)
(* hand, a deletion the rows that hold it.  A paid run that has still to   *)
(* call its provider found the day under the ceiling, and nothing can be   *)
(* added to the day while it is in hand.                                   *)

NothingLost == \A kind \in {"crash", "loss", "deletion"} : budget[kind] = Bound[kind]

Unpaid == \A p \in Pairs : \A i \in 1..Len(runs[p]) :
            Unfinished(runs[p][i]) => runs[p][i].costUsd = 0

Spent(ledger) == [job \in PaidToday(ledger) |-> ledger[job[1]][job[2]].costUsd]

Allowed == pc = "handling" /\ Spends /\ cost = 0 => TodayUsd < CeilingUsd

Accounted ==
  NothingLost => /\ \A r \in Recordings : recording[r] # "deleted"
                 /\ billed <= TodayUsd + cost
                 /\ TrueCap

BudgetSpent == \A kind \in EventKinds : budget[kind] <= Bound[kind]

CapInv ==
  /\ Past /\ dayStart <= now /\ Unpaid /\ BudgetSpent
  /\ IsFiniteSet(PaidToday(runs))
  /\ cost # 0 => pc = "handling" /\ Spends
  /\ Allowed
  /\ Accounted

(* A job is among the day's paid ones by its own row.                      *)
LEMMA IsPaid ==
  ASSUME NEW ledger \in Ledger, NEW job
  PROVE  job \in PaidToday(ledger) <=>
           /\ job \in (Recordings \X ChainSteps) \X (Nat \ {0})
           /\ job[2] <= Len(ledger[job[1]])
           /\ ~Unfinished(ledger[job[1]][job[2]])
           /\ ledger[job[1]][job[2]].finishedAt >= dayStart
           /\ ledger[job[1]][job[2]].costUsd > 0
<1>1. \A p \in Recordings \X ChainSteps : p \in Pairs /\ Len(ledger[p]) \in Nat
  BY StepsOfChain DEF Pairs, Ledger
<1> QED BY <1>1 DEF PaidToday

LEMMA SameDay == ASSUME dayStart' = dayStart PROVE PaidToday(runs)' = PaidToday(runs')
BY DEF PaidToday, Unfinished

LEMMA UnpaidKept == ASSUME IndInv, IndInv', Unpaid, [Next]_vars PROVE Unpaid'
<1> SUFFICES ASSUME NEW p \in Pairs, NEW j \in 1..Len(runs'[p]), Unfinished(runs'[p][j])
             PROVE  runs'[p][j].costUsd = 0
  BY DEF Unpaid, Unfinished
<1>1. recording'[p[1]] # "deleted"
  BY DEF IndInv, OnlyLiveHaveJobs
<1>2. RowMoves(p, j)
  BY <1>1, StepsMove DEF AllMove
<1>3. j \in 1..Len(runs[p]) /\ Unfinished(runs[p][j]) => runs[p][j].costUsd = 0
  BY DEF Unpaid
<1> QED BY <1>2, <1>3 DEF RowMoves, RowStays, RowComes, RowIsClaimed, RowEnds, RowIsSwept,
                          Unfinished, UnfinishedStatuses

(* Within a day the paid jobs are those there were, and at most the job in *)
(* hand.                                                                   *)
LEMMA PaidComesFromHand ==
  ASSUME IndInv, IndInv', Unpaid, [Next]_vars, dayStart' = dayStart,
         NEW job \in PaidToday(runs)'
  PROVE  \/ /\ job \in PaidToday(runs)
            /\ runs'[job[1]][job[2]] = runs[job[1]][job[2]]
         \/ InHand(job[1], job[2]) /\ job \notin PaidToday(runs)
<1> DEFINE p == job[1]
           j == job[2]
<1>1. /\ job \in (Recordings \X ChainSteps) \X (Nat \ {0})
      /\ j <= Len(runs'[p]) /\ ~Unfinished(runs'[p][j])
      /\ runs'[p][j].finishedAt >= dayStart /\ runs'[p][j].costUsd > 0
  BY IsPaid DEF IndInv, TypeOK, Ledger, PaidToday, Unfinished
<1>2. /\ p \in Pairs /\ j \in 1..Len(runs'[p])
      /\ runs \in Ledger /\ runs' \in Ledger
  BY <1>1, StepsOfChain DEF Pairs, IndInv, TypeOK, Ledger
<1>3. RowMoves(p, j)
  <2>1. recording'[p[1]] # "deleted"
    BY <1>2 DEF IndInv, OnlyLiveHaveJobs
  <2> QED BY <1>2, <2>1, StepsMove DEF AllMove
<1>4. CASE RowStays(p, j)
  <2>1. j <= Len(runs[p]) /\ runs'[p][j] = runs[p][j]
    BY <1>4 DEF RowStays
  <2> QED BY <1>1, <1>2, <2>1, IsPaid DEF Unfinished
<1>5. CASE RowEnds(p, j)
  <2>1. Unfinished(runs[p][j]) /\ InHand(p, j)
    BY <1>5 DEF RowEnds, Unfinished, UnfinishedStatuses
  <2> QED BY <1>2, <2>1, IsPaid
<1>6. ~RowComes(p, j) /\ ~RowIsClaimed(p, j)
  BY <1>1 DEF RowComes, RowIsClaimed, Unfinished, UnfinishedStatuses
<1>7. ~RowIsSwept(p, j)
  <2>1. ASSUME RowIsSwept(p, j) PROVE FALSE
    <3>1. runs[p][j].costUsd = 0 /\ runs'[p][j].costUsd = runs[p][j].costUsd
      BY <1>2, <2>1 DEF RowIsSwept, Unpaid, Unfinished, UnfinishedStatuses
    <3> QED BY <1>1, <3>1
  <2> QED BY <2>1
<1> QED BY <1>3, <1>4, <1>5, <1>6, <1>7 DEF RowMoves

LEMMA PaidStays ==
  ASSUME IndInv, IndInv', [Next]_vars, dayStart' = dayStart,
         \A r \in Recordings : recording'[r] # "deleted",
         NEW job \in PaidToday(runs)
  PROVE  job \in PaidToday(runs)' /\ runs'[job[1]][job[2]] = runs[job[1]][job[2]]
<1> DEFINE p == job[1]
           j == job[2]
<1>1. /\ runs \in Ledger /\ runs' \in Ledger
      /\ job \in (Recordings \X ChainSteps) \X (Nat \ {0}) /\ j <= Len(runs[p])
      /\ ~Unfinished(runs[p][j]) /\ runs[p][j].finishedAt >= dayStart /\ runs[p][j].costUsd > 0
  BY IsPaid DEF IndInv, TypeOK, Ledger
<1>2. p \in Pairs /\ p[1] \in Recordings /\ j \in 1..Len(runs[p])
  BY <1>1, StepsOfChain DEF Pairs, Ledger
<1>3. Keeps(runs[p], runs'[p])
  BY <1>2, Inductive DEF RowsKept
<1>4. j <= Len(runs'[p]) /\ runs'[p][j] = runs[p][j]
  <2>1. Len(runs[p]) \in Nat /\ Len(runs'[p]) \in Nat /\ j \in Nat
    BY <1>1, <1>2 DEF Ledger
  <2> QED BY <1>1, <1>2, <1>3, <2>1 DEF Keeps
<1>5. job \in PaidToday(runs')
  BY <1>1, <1>4, IsPaid
<1> QED BY <1>4, <1>5, SameDay

LEMMA PaidCosts ==
  ASSUME NEW ledger \in Ledger, NEW job \in PaidToday(ledger)
  PROVE  ledger[job[1]][job[2]].costUsd \in Nat
<1>1. job \in (Recordings \X ChainSteps) \X (Nat \ {0}) /\ job[2] <= Len(ledger[job[1]])
  BY IsPaid
<1>2. ledger[job[1]] \in Seq(Row)
  BY <1>1, StepsOfChain DEF Pairs, Ledger
<1>3. ledger[job[1]][job[2]] \in Row
  BY <1>1, <1>2
<1> QED BY <1>3 DEF Row

LEMMA TodayTyped == ASSUME IndInv, IsFiniteSet(PaidToday(runs)) PROVE TodayUsd \in Nat
<1> DEFINE c == [job \in PaidToday(runs) |-> runs[job[1]][job[2]].costUsd]
<1>1. c \in [PaidToday(runs) -> Nat]
  BY PaidCosts DEF IndInv, TypeOK, Ledger
<1>2. TodayUsd = SumFunction(c)
  BY DEF TodayUsd
<1> HIDE DEF c
<1> QED BY <1>1, <1>2, SumGrows

(* What a step may do to the day, the ceiling and the run in hand.         *)
SpendMoves ==
  \/ Midnight
  \/ /\ dayStart' = dayStart /\ raise' \in Nat /\ raise' >= raise
     /\ \/ \E usd \in Costs : ProviderCall(usd)
        \/ StartHandler
        \/ (Succeed \/ Throw)
        \/ UNCHANGED <<billed, pc, held, cost>>
        \/ /\ billed' = billed /\ pc' # "handling" /\ cost' = 0
           /\ cost = 0 \/ ~RowExists \/ ~NothingLost'

LEMMA StepsSpend == ASSUME IndInv, CapInv, [Next]_vars PROVE SpendMoves
<1>1. /\ raise \in Nat /\ pc \in {"down", "idle", "claimed", "handling"}
      /\ cost # 0 => pc = "handling"
      /\ budget \in [EventKinds -> Nat]
      /\ \A kind \in EventKinds : budget[kind] <= Bound[kind] /\ Bound[kind] \in Nat
      /\ {"crash", "loss", "deletion"} \subseteq EventKinds
  BY LedgerAssumption DEF IndInv, TypeOK, CapInv, BudgetSpent, EventKinds
<1>2. ASSUME NEW kind \in {"crash", "loss", "deletion"}, Happens(kind) PROVE ~NothingLost'
  <2>1. budget'[kind] = budget[kind] - 1 /\ budget[kind] \in Nat /\ budget[kind] <= Bound[kind]
    BY <1>1, <1>2 DEF Happens
  <2>2. budget'[kind] # Bound[kind]
    BY <1>1, <2>1
  <2> QED BY <2>2 DEF NothingLost
<1>3. CASE Api
  <2>1. UNCHANGED <<dayStart, billed, pc, held, cost>>
    BY <1>3 DEF Api, FinaliseUpload, EnqueueBehindEdit, RerunStep, RaiseSpendCeiling,
                RemoveRecording, spendVars, workerVars
  <2>2. \/ raise' = raise
        \/ \E usd \in Raises : raise' = IF usd > raise THEN usd ELSE raise
    BY <1>3 DEF Api, FinaliseUpload, EnqueueBehindEdit, RerunStep, RaiseSpendCeiling,
                RemoveRecording, spendVars
  <2>3. raise' \in Nat /\ raise' >= raise
    BY <1>1, <2>2, LedgerAssumption
  <2> QED BY <2>1, <2>3 DEF SpendMoves
<1>4. CASE Boot \/ Claim \/ PollEmpty \/ RefuseAtCeiling \/ RowVanished \/ Exit
  <2>1. CASE Boot \/ Claim \/ Exit
    <3>1. /\ UNCHANGED <<dayStart, raise, billed>> /\ pc' # "handling" /\ cost' = cost
          /\ pc # "handling"
      BY <2>1 DEF Boot, Claim, Exit, spendVars
    <3> QED BY <1>1, <3>1 DEF SpendMoves
  <2>2. CASE PollEmpty
    BY <1>1, <2>2 DEF PollEmpty, vars, SpendMoves
  <2>3. CASE RefuseAtCeiling \/ RowVanished
    <3>1. /\ UNCHANGED <<dayStart, raise, billed>> /\ pc' = "idle" /\ cost' = 0
          /\ pc = "claimed" \/ ~RowExists
      BY <2>3 DEF RefuseAtCeiling, RowVanished, BackToTop, spendVars
    <3> QED BY <1>1, <3>1 DEF SpendMoves
  <2> QED BY <1>4, <2>1, <2>2, <2>3
<1>5. CASE StartHandler \/ Succeed \/ Throw
  BY <1>1, <1>5 DEF StartHandler, Succeed, Throw, spendVars, SpendMoves
<1>6. CASE \E usd \in Costs : ProviderCall(usd)
  BY <1>1, <1>6 DEF ProviderCall, SpendMoves
<1>7. CASE LedgerRefuses
  BY <1>1, <1>2, <1>7 DEF LedgerRefuses, BackToTop, spendVars, SpendMoves
<1>8. CASE Crash
  BY <1>1, <1>2, <1>8 DEF Crash, spendVars, SpendMoves
<1>9. CASE Signal \/ Midnight \/ UNCHANGED vars
  BY <1>1, <1>9 DEF Signal, vars, spendVars, SpendMoves
<1> QED BY <1>3, <1>4, <1>5, <1>6, <1>7, <1>8, <1>9 DEF Next, WorkerStep, Environment

LEMMA BudgetKept ==
  ASSUME IndInv, BudgetSpent, [Next]_vars
  PROVE  BudgetSpent' /\ (NothingLost' => NothingLost)
<1>1. \/ budget' = budget
      \/ \E kind \in EventKinds : Happens(kind)
  BY DEF Next, Api, FinaliseUpload, EnqueueBehindEdit, RerunStep, RaiseSpendCeiling,
         RemoveRecording, WorkerStep, Boot, Claim, PollEmpty, RefuseAtCeiling, StartHandler,
         Succeed, Throw, RowVanished, Exit, ProviderCall, Environment, Midnight, LedgerRefuses,
         Signal, Crash, vars, EventKinds
<1>2. budget \in [EventKinds -> Nat] /\ \A kind \in EventKinds : Bound[kind] \in Nat
  BY LedgerAssumption DEF IndInv, TypeOK
<1>3. CASE budget' = budget
  BY <1>3 DEF BudgetSpent, NothingLost
<1>4. ASSUME NEW kind \in EventKinds, Happens(kind)
      PROVE  BudgetSpent' /\ (NothingLost' => NothingLost)
  <2>1. /\ \A other \in EventKinds : other # kind => budget'[other] = budget[other]
        /\ budget'[kind] < budget[kind] /\ budget'[kind] \in Int
    BY <1>2, <1>4 DEF Happens
  <2>2. BudgetSpent'
    BY <1>2, <2>1 DEF BudgetSpent
  <2>3. budget'[kind] # Bound[kind]
    BY <1>2, <2>1 DEF BudgetSpent
  <2>4. NothingLost' => NothingLost
    BY <2>1, <2>3 DEF NothingLost, EventKinds
  <2> QED BY <2>2, <2>4
<1> QED BY <1>1, <1>3, <1>4

(* With no deletion, no recording is deleted.                              *)
LEMMA NoneDeleted ==
  ASSUME IndInv, BudgetSpent, [Next]_vars, NothingLost',
         \A r \in Recordings : recording[r] # "deleted"
  PROVE  \A r \in Recordings : recording'[r] # "deleted"
<1>1. ASSUME NEW r \in Recordings, RemoveRecording(r) PROVE FALSE
  <2>1. budget'["deletion"] = budget["deletion"] - 1 /\ budget["deletion"] <= Bound["deletion"]
        /\ budget["deletion"] \in Nat /\ Bound["deletion"] \in Nat
    BY <1>1, LedgerAssumption
       DEF RemoveRecording, Happens, IndInv, TypeOK, BudgetSpent, EventKinds
  <2> QED BY <2>1 DEF NothingLost
<1>2. \/ recording' = recording
      \/ \E r \in Recordings : recording' = [recording EXCEPT ![r] = "live"]
  BY <1>1 DEF Next, Api, FinaliseUpload, EnqueueBehindEdit, RerunStep, RaiseSpendCeiling,
         WorkerStep, Boot, Claim, PollEmpty, RefuseAtCeiling, StartHandler,
         Succeed, Throw, RowVanished, Exit, ProviderCall, Environment, Midnight, LedgerRefuses,
         Signal, Crash, vars, ledgerVars
<1> QED BY <1>2 DEF IndInv, TypeOK

LEMMA EnqueueLonger ==
  ASSUME NEW ledger \in Ledger, NEW p \in Pairs, NEW by \in Origins, now \in Nat, NEW q \in Pairs
  PROVE  /\ Len(ledger[q]) \in Nat /\ Len(EnqueueJob(ledger, p, by)[q]) \in Nat
         /\ Len(EnqueueJob(ledger, p, by)[q]) >= Len(ledger[q])
<1>1. ledger[q] \in Seq(Row) /\ ledger[p] \in Seq(Row)
  BY DEF Ledger
<1>2. NewRow(by) \in Row
  BY DEF NewRow, Row, JobStatuses, UnfinishedStatuses, Errors
<1>3. Len(Append(ledger[p], NewRow(by))) = Len(ledger[p]) + 1
  BY <1>1, <1>2
<1> QED BY <1>1, <1>3 DEF EnqueueJob, Ledger

(* A run that ends is among the day's paid ones with what it was billed.   *)
LEMMA RunEnds ==
  ASSUME IndInv, IndInv', CapInv, dayStart' = dayStart, Succeed \/ Throw, cost # 0
  PROVE  /\ held \in PaidToday(runs)' /\ held \notin PaidToday(runs)
         /\ runs'[held[1]][held[2]].costUsd = cost
<1> DEFINE p == held[1]
           i == held[2]
<1>1. /\ pc = "handling" /\ RowExists /\ Spends
      /\ runs \in Ledger /\ runs' \in Ledger
      /\ cost \in Nat /\ now \in Nat /\ dayStart \in Nat /\ dayStart <= now
  BY DEF Succeed, Throw, CapInv, IndInv, TypeOK, Ledger
<1>2. /\ held \in Pairs \X (Nat \ {0}) /\ p \in Pairs /\ p[1] \in Recordings
      /\ i \in 1..Len(runs[p]) /\ runs[p][i] \in Row /\ Unfinished(runs[p][i])
  BY <1>1, HeldRow DEF IndInv, TypeOK, HandOK
<1>3. held \in (Recordings \X ChainSteps) \X (Nat \ {0})
  BY <1>1, <1>2, LedgerAssumption DEF Spends, Pairs
<1>4. PICK ended \in Row :
        /\ ended.costUsd = cost /\ ended.finishedAt = now /\ ~Unfinished(ended)
        /\ i \in 1..Len(runs'[p]) /\ runs'[p][i] = ended
  <2>1. CASE Throw
    <3> DEFINE row == [runs[p][i] EXCEPT !.status = "failed", !.error = "thrown",
                                          !.finishedAt = now, !.costUsd = cost]
    <3>1. row \in Row /\ row.costUsd = cost /\ row.finishedAt = now /\ row.status = "failed"
      BY <1>1, <1>2 DEF Row, JobStatuses, Errors
    <3>2. runs' = [runs EXCEPT ![p][i] = row]
      BY <2>1 DEF Throw, FailJob
    <3> HIDE DEF row, p, i
    <3>3. i \in 1..Len(runs'[p]) /\ runs'[p][i] = row
      BY <1>1, <1>2, <3>1, <3>2 DEF Ledger
    <3> QED BY <3>1, <3>3 DEF Unfinished, UnfinishedStatuses
  <2>2. CASE Succeed
    <3> DEFINE row == [runs[p][i] EXCEPT !.status = "succeeded", !.error = "none",
                                          !.finishedAt = now, !.costUsd = cost]
               done == [runs EXCEPT ![p][i] = row]
               next == <<p[1], NextStep(p[2])>>
    <3>1. row \in Row /\ row.costUsd = cost /\ row.finishedAt = now /\ row.status = "succeeded"
      BY <1>1, <1>2 DEF Row, JobStatuses, Errors
    <3>2. \/ runs' = done
          \/ next \in Pairs /\ runs' = EnqueueJob(done, next, "chain")
      <4>1. HasNext(p[2]) => next \in Pairs
        BY <1>2, StepsOfChain, PairParts
      <4> QED BY <2>2, <4>1 DEF Succeed, CompleteJob
    <3> HIDE DEF row, p, i, next
    <3>3. done \in Ledger /\ i \in 1..Len(done[p]) /\ done[p][i] = row
      BY <1>1, <1>2, <3>1 DEF Ledger
    <3> HIDE DEF done
    <3>4. runs'[p][i] = row
      BY <1>1, <1>2, <3>2, <3>3, EnqueueShape DEF Origins
    <3>5. i \in 1..Len(runs'[p])
      BY <1>1, <1>2, <3>2, <3>3, EnqueueLonger DEF Origins
    <3> QED BY <3>1, <3>4, <3>5 DEF Unfinished, UnfinishedStatuses
  <2> QED BY <2>1, <2>2
<1>5. held \in PaidToday(runs')
  BY <1>1, <1>3, <1>4, IsPaid
<1>6. held \notin PaidToday(runs)
  BY <1>1, <1>2, IsPaid
<1> QED BY <1>4, <1>5, <1>6, SameDay

(* The day's sum never falls within the day while no recording is deleted, *)
(* and what a run that ends was billed is added to it.                     *)
LEMMA TodayGrows ==
  ASSUME IndInv, IndInv', CapInv, [Next]_vars, dayStart' = dayStart,
         IsFiniteSet(PaidToday(runs)'),
         \A r \in Recordings : recording'[r] # "deleted"
  PROVE  /\ TodayUsd \in Nat /\ TodayUsd' \in Nat /\ TodayUsd <= TodayUsd'
         /\ (Succeed \/ Throw) => TodayUsd + cost <= TodayUsd'
<1> DEFINE S == PaidToday(runs)
           T == PaidToday(runs)'
           c == Spent(runs)
           d == Spent(runs)'
<1>1. /\ c \in [S -> Nat] /\ d \in [T -> Nat]
      /\ \A x \in S : c[x] = runs[x[1]][x[2]].costUsd
      /\ \A x \in T : d[x] = runs'[x[1]][x[2]].costUsd
  <2>1. runs \in Ledger /\ runs' \in Ledger /\ T = PaidToday(runs')
    BY SameDay DEF IndInv, TypeOK, Ledger
  <2>2. /\ \A x \in S : runs[x[1]][x[2]].costUsd \in Nat
        /\ \A x \in T : runs'[x[1]][x[2]].costUsd \in Nat
    BY <2>1, PaidCosts
  <2> QED BY <2>2 DEF Spent
<1>2. S \in SUBSET T /\ \A x \in S : c[x] = d[x]
  BY <1>1, PaidStays
<1>3. TodayUsd = SumFunction(c) /\ TodayUsd' = SumFunction(d)
  BY DEF TodayUsd, Spent
<1> HIDE DEF c, d, S, T
<1>4. /\ TodayUsd \in Nat /\ TodayUsd' \in Nat /\ TodayUsd <= TodayUsd'
      /\ \A x \in T \ S : TodayUsd + d[x] <= TodayUsd'
  <2>1. IsFiniteSet(T)
    BY DEF T
  <2>2. c \in [S -> Nat] /\ d \in [T -> Nat] /\ S \in SUBSET T /\ \A x \in S : c[x] = d[x]
    BY <1>1, <1>2
  <2>3. /\ SumFunction(c) \in Nat /\ SumFunction(d) \in Nat /\ SumFunction(c) <= SumFunction(d)
        /\ \A x \in T \ S : SumFunction(c) + d[x] <= SumFunction(d)
    BY <2>1, <2>2, SumGrows, Zenon
  <2> QED BY <1>3, <2>3
<1>5. CASE (Succeed \/ Throw) /\ cost # 0
  <2>1. held \in T \ S /\ d[held] = cost
    BY <1>1, <1>5, RunEnds DEF S, T
  <2> QED BY <1>4, <2>1
<1>6. CASE ~((Succeed \/ Throw) /\ cost # 0)
  BY <1>4, <1>6
<1> QED BY <1>5, <1>6

(* While a run goes on nothing is added to the day.                        *)
LEMMA TodayShrinks ==
  ASSUME IndInv, IndInv', CapInv, [Next]_vars, dayStart' = dayStart,
         pc = "handling", pc' = "handling", held' = held
  PROVE  TodayUsd \in Nat /\ TodayUsd' \in Nat /\ TodayUsd' <= TodayUsd
<1> DEFINE S == PaidToday(runs)
           T == PaidToday(runs)'
           c == Spent(runs)
           d == Spent(runs)'
<1>1. runs \in Ledger /\ runs' \in Ledger /\ T = PaidToday(runs')
  BY SameDay DEF IndInv, TypeOK, Ledger
<1>2. ASSUME NEW job \in T PROVE job \in S /\ runs'[job[1]][job[2]] = runs[job[1]][job[2]]
  <2>1. /\ job[2] <= Len(runs'[job[1]]) /\ ~Unfinished(runs'[job[1]][job[2]])
    BY <1>1, <1>2, IsPaid
  <2>2. ASSUME held = <<job[1], job[2]>> PROVE FALSE
    <3>1. RowExists'
      BY <2>1, <2>2 DEF RowExists
    <3>2. runs'[held[1]][held[2]].status = "running"
      BY <3>1 DEF IndInv, HandOK
    <3> QED BY <2>1, <2>2, <3>2 DEF Unfinished, UnfinishedStatuses
  <2>3. Unpaid
    BY DEF CapInv
  <2> QED BY <2>2, <2>3, PaidComesFromHand DEF InHand
<1>3. /\ c \in [S -> Nat] /\ d \in [T -> Nat]
      /\ \A x \in S : c[x] = runs[x[1]][x[2]].costUsd
      /\ \A x \in T : d[x] = runs'[x[1]][x[2]].costUsd
  <2>1. /\ \A x \in S : runs[x[1]][x[2]].costUsd \in Nat
        /\ \A x \in T : runs'[x[1]][x[2]].costUsd \in Nat
    BY <1>1, PaidCosts
  <2> QED BY <2>1 DEF Spent
<1>4. TodayUsd = SumFunction(c) /\ TodayUsd' = SumFunction(d)
  BY DEF TodayUsd, Spent
<1>5. T \in SUBSET S /\ \A x \in T : d[x] = c[x]
  BY <1>2, <1>3
<1>6. c \in [S -> Nat] /\ d \in [T -> Nat]
  BY <1>3
<1>7. IsFiniteSet(S)
  BY DEF CapInv
<1> HIDE DEF c, d, S, T
<1>8. SumFunction(c) \in Nat /\ SumFunction(d) \in Nat /\ SumFunction(d) <= SumFunction(c)
  BY <1>5, <1>6, <1>7, SumGrows, Zenon
<1> QED BY <1>4, <1>8

LEMMA DayFinite ==
  ASSUME IndInv, IndInv', CapInv, [Next]_vars, dayStart' = dayStart
  PROVE  IsFiniteSet(PaidToday(runs)')
<1>1. runs' \in Ledger /\ PaidToday(runs)' = PaidToday(runs') /\ Unpaid
  BY SameDay DEF IndInv, TypeOK, Ledger, CapInv
<1>2. ASSUME NEW job \in PaidToday(runs)' PROVE job \in PaidToday(runs) \cup {held}
  <2>1. job = <<job[1], job[2]>>
    BY <1>1, IsPaid
  <2> QED BY <1>1, <2>1, PaidComesFromHand DEF InHand
<1>3. IsFiniteSet(PaidToday(runs) \cup {held})
  BY FS_AddElement DEF CapInv
<1>4. PaidToday(runs)' \in SUBSET (PaidToday(runs) \cup {held})
  BY <1>2
<1> QED BY <1>3, <1>4, FS_Subset

(* A new day has spent nothing yet.                                        *)
LEMMA NewDay ==
  ASSUME IndInv, Past, Midnight
  PROVE  IsFiniteSet(PaidToday(runs)') /\ TodayUsd' = 0
<1>1. /\ \A p \in Recordings \X ChainSteps : p \in Pairs /\ Len(runs[p]) \in Nat
      /\ \A p \in Recordings \X ChainSteps, i \in Nat :
           i \in 1..Len(runs[p]) => runs[p][i].finishedAt \in Nat /\ runs[p][i].finishedAt < now
      /\ now \in Nat /\ dayStart' = now /\ runs' = runs
  <2>1. \A p \in Recordings \X ChainSteps : p \in Pairs /\ Len(runs[p]) \in Nat
    BY StepsOfChain DEF Pairs, IndInv, TypeOK
  <2>2. \A p \in Pairs : \A i \in 1..Len(runs[p]) : runs[p][i] \in Row
    BY DEF IndInv, TypeOK
  <2> QED BY <2>1, <2>2 DEF Past, Row, Midnight, ledgerVars, IndInv, TypeOK
<1>2. PaidToday(runs)' = {}
  BY <1>1 DEF PaidToday
<1> DEFINE d == Spent(runs)'
<1>3. TodayUsd' = SumFunction(d) /\ d \in [{} -> Nat]
  BY <1>2 DEF TodayUsd, Spent
<1>4. IsFiniteSet({})
  BY FS_EmptySet
<1> HIDE DEF d
<1>5. SumFunction(d) = 0
  BY <1>3, <1>4, Unfold, SumsTyped
<1> QED BY <1>2, <1>3, <1>4, <1>5

LEMMA CeilingTyped ==
  ASSUME IndInv
  PROVE  /\ CeilingUsd \in Nat /\ CeilingUsd > 0
         /\ MaxCost \in Nat /\ \A usd \in Costs : usd \in Nat /\ usd <= MaxCost
<1>1. CeilingUsd \in Nat /\ CeilingUsd > 0
  BY LedgerAssumption DEF CeilingUsd, IndInv, TypeOK
<1>2. MaxCost \in Costs /\ \A usd \in Costs : usd <= MaxCost
  BY LedgerAssumption DEF MaxCost
<1> QED BY <1>1, <1>2, LedgerAssumption

LEMMA AllowedKept ==
  ASSUME IndInv, IndInv', CapInv, [Next]_vars, SpendMoves, ~Midnight
  PROVE  Allowed'
<1> SUFFICES ASSUME pc' = "handling", Spends', cost' = 0 PROVE TodayUsd' < CeilingUsd'
  BY DEF Allowed
<1>1. /\ dayStart' = dayStart /\ raise' \in Nat /\ raise' >= raise /\ raise \in Nat
      /\ TodayUsd \in Nat /\ CeilingUsd \in Nat /\ CeilingUsd' \in Nat
  BY TodayTyped, CeilingTyped, LedgerAssumption
     DEF SpendMoves, CapInv, IndInv, TypeOK, CeilingUsd
<1>2. CeilingUsd <= CeilingUsd'
  BY <1>1, LedgerAssumption DEF CeilingUsd
<1>3. CASE StartHandler
  <2>1. UNCHANGED <<runs, dayStart, raise, held>>
    BY <1>3 DEF StartHandler, ledgerVars, spendVars
  <2>2. TodayUsd' = TodayUsd /\ CeilingUsd' = CeilingUsd
    BY <2>1 DEF TodayUsd, PaidToday, CeilingUsd, Unfinished
  <2>3. ~SpendCeilingReached
    BY <1>3, <2>1 DEF StartHandler, Spends
  <2> QED BY <1>1, <2>2, <2>3 DEF SpendCeilingReached
<1>4. CASE UNCHANGED <<billed, pc, held, cost>>
  <2>1. TodayUsd < CeilingUsd
    BY <1>4 DEF CapInv, Allowed, Spends
  <2>2. TodayUsd' \in Nat /\ TodayUsd' <= TodayUsd
    BY <1>1, <1>4, TodayShrinks
  <2> QED BY <1>1, <1>2, <2>1, <2>2
<1>5. ASSUME NEW usd \in Costs, ProviderCall(usd) PROVE FALSE
  BY <1>5, CeilingTyped DEF ProviderCall
<1>6. ~Succeed /\ ~Throw
  BY DEF Succeed, Throw, BackToTop
<1> QED BY <1>3, <1>4, <1>5, <1>6 DEF SpendMoves

LEMMA BillsAdd ==
  ASSUME NEW today \in Nat, NEW later \in Nat, today <= later,
         NEW ceiling \in Nat, NEW raised \in Nat, ceiling <= raised,
         NEW most \in Nat, NEW bill \in Nat, NEW paid \in Nat,
         paid <= today + bill, paid < ceiling + most
  PROVE  /\ paid <= later + bill /\ paid < raised + most
         /\ today + bill <= later => paid <= later + 0
         /\ \A usd \in Nat : bill = 0 /\ today < ceiling /\ usd <= most =>
              paid + usd <= later + usd /\ paid + usd < raised + most
OBVIOUS

LEMMA AccountKept ==
  ASSUME IndInv, IndInv', CapInv, [Next]_vars, SpendMoves, ~Midnight
  PROVE  Accounted'
<1> SUFFICES ASSUME NothingLost'
             PROVE  /\ \A r \in Recordings : recording'[r] # "deleted"
                    /\ billed' <= TodayUsd' + cost'
                    /\ TrueCap'
  BY DEF Accounted
<1>1. dayStart' = dayStart /\ raise' \in Nat /\ raise' >= raise
  BY DEF SpendMoves
<1>2. /\ \A r \in Recordings : recording[r] # "deleted"
      /\ billed <= TodayUsd + cost /\ billed < CeilingUsd + MaxCost
  <2>1. NothingLost
    BY BudgetKept DEF CapInv
  <2> QED BY <2>1 DEF CapInv, Accounted, TrueCap
<1>3. \A r \in Recordings : recording'[r] # "deleted"
  BY <1>2, NoneDeleted DEF CapInv
<1>4. /\ TodayUsd \in Nat /\ TodayUsd' \in Nat /\ TodayUsd <= TodayUsd'
      /\ (Succeed \/ Throw) => TodayUsd + cost <= TodayUsd'
  BY <1>1, <1>3, DayFinite, TodayGrows
<1>5. /\ CeilingUsd \in Nat /\ CeilingUsd' \in Nat /\ CeilingUsd <= CeilingUsd'
      /\ MaxCost \in Nat /\ billed \in Nat /\ cost \in Nat
  <2>1. CeilingUsd' \in Nat /\ CeilingUsd <= CeilingUsd'
    BY <1>1, LedgerAssumption DEF CeilingUsd, IndInv, TypeOK
  <2> QED BY <2>1, CeilingTyped DEF IndInv, TypeOK
<1> SUFFICES billed' <= TodayUsd' + cost' /\ billed' < CeilingUsd' + MaxCost
  BY <1>3 DEF TrueCap, MaxCost
<1>6. /\ billed <= TodayUsd' + cost /\ billed < CeilingUsd' + MaxCost
      /\ TodayUsd + cost <= TodayUsd' => billed <= TodayUsd' + 0
      /\ \A usd \in Nat : cost = 0 /\ TodayUsd < CeilingUsd /\ usd <= MaxCost =>
           billed + usd <= TodayUsd' + usd /\ billed + usd < CeilingUsd' + MaxCost
  BY <1>2, <1>4, <1>5, BillsAdd, Zenon
<1>7. ASSUME NEW usd \in Costs, ProviderCall(usd)
      PROVE  billed' <= TodayUsd' + cost' /\ billed' < CeilingUsd' + MaxCost
  <2>1. cost = 0 /\ cost' = usd /\ billed' = billed + usd /\ pc = "handling" /\ Spends
    BY <1>7 DEF ProviderCall
  <2>2. TodayUsd < CeilingUsd
    BY <2>1 DEF CapInv, Allowed
  <2>3. usd \in Nat /\ usd <= MaxCost
    BY CeilingTyped
  <2>4. billed + usd <= TodayUsd' + usd /\ billed + usd < CeilingUsd' + MaxCost
    BY <1>6, <2>1, <2>2, <2>3, Zenon
  <2> QED BY <2>1, <2>4, Zenon
<1>8. CASE billed' = billed /\ cost' = cost
  BY <1>6, <1>8, Zenon
<1>9. CASE Succeed \/ Throw
  <2>1. billed' = billed /\ cost' = 0
    BY <1>9 DEF Succeed, Throw, BackToTop, spendVars
  <2> QED BY <1>4, <1>6, <1>9, <2>1, Zenon
<1>10. CASE billed' = billed /\ cost' = 0 /\ (cost = 0 \/ ~RowExists)
  <2>1. cost = 0
    <3>1. ASSUME cost # 0, ~RowExists PROVE FALSE
      <4>1. pc = "handling" /\ held # NoJob /\ recording[held[1][1]] = "deleted"
        BY <3>1 DEF CapInv, IndInv, HandOK
      <4>2. held[1][1] \in Recordings
        BY <4>1, PairParts DEF IndInv, TypeOK
      <4> QED BY <1>2, <4>1, <4>2
    <3> QED BY <1>10, <3>1
  <2> QED BY <1>8, <1>10, <2>1, Zenon
<1>11. StartHandler => billed' = billed /\ cost' = cost
  BY DEF StartHandler, spendVars
<1>12. \/ \E usd \in Costs : ProviderCall(usd)
       \/ StartHandler
       \/ (Succeed \/ Throw)
       \/ billed' = billed /\ cost' = cost
       \/ billed' = billed /\ cost' = 0 /\ (cost = 0 \/ ~RowExists)
  BY DEF SpendMoves
<1> QED BY <1>7, <1>8, <1>9, <1>10, <1>11, <1>12, Zenon

LEMMA MidnightKeeps ==
  ASSUME IndInv, IndInv', CapInv, [Next]_vars, Midnight
  PROVE  Allowed' /\ Accounted' /\ IsFiniteSet(PaidToday(runs)')
<1>1. IsFiniteSet(PaidToday(runs)') /\ TodayUsd' = 0
  BY NewDay DEF CapInv
<1>2. UNCHANGED <<recording, pc, held, cost>> /\ billed' = 0 /\ raise' = 0
  BY DEF Midnight, ledgerVars, workerVars
<1>3. /\ CeilingUsd' \in Nat /\ CeilingUsd' > 0 /\ MaxCost \in Nat /\ cost \in Nat
  <2>1. CeilingUsd' \in Nat /\ CeilingUsd' > 0
    BY <1>2, LedgerAssumption DEF CeilingUsd
  <2> QED BY <2>1, CeilingTyped DEF IndInv, TypeOK
<1>4. Allowed'
  BY <1>1, <1>3 DEF Allowed
<1>5. Accounted'
  <2>1. NothingLost' => NothingLost
    BY BudgetKept DEF CapInv
  <2>2. billed' <= TodayUsd' + cost' /\ billed' < CeilingUsd' + MaxCost
    <3>1. \A most, ceiling, bill \in Nat : ceiling > 0 => 0 <= 0 + bill /\ 0 < ceiling + most
      OBVIOUS
    <3>2. 0 <= 0 + cost /\ 0 < CeilingUsd' + MaxCost
      BY <1>3, <3>1, Zenon
    <3> QED BY <1>1, <1>2, <3>2, Zenon
  <2>3. NothingLost => \A r \in Recordings : recording'[r] # "deleted"
    BY <1>2 DEF CapInv, Accounted
  <2> QED BY <2>1, <2>2, <2>3 DEF Accounted, TrueCap, MaxCost
<1> QED BY <1>1, <1>4, <1>5

LEMMA CapStep == ASSUME IndInv, IndInv', CapInv, [Next]_vars PROVE CapInv'
<1>1. Past' /\ Unpaid' /\ BudgetSpent' /\ now' >= now
  BY PastKept, UnpaidKept, BudgetKept DEF CapInv
<1>2. SpendMoves
  BY StepsSpend
<1>3. dayStart' <= now'
  BY <1>1, <1>2 DEF SpendMoves, Midnight, CapInv, IndInv, TypeOK
<1>4. cost' # 0 => pc' = "handling" /\ Spends'
  <2>1. CASE Midnight
    BY <2>1 DEF Midnight, workerVars, CapInv, Spends
  <2>2. CASE \E usd \in Costs : ProviderCall(usd)
    BY <2>2 DEF ProviderCall, Spends
  <2>3. CASE StartHandler \/ Succeed \/ Throw
    BY <2>3 DEF StartHandler, Succeed, Throw, BackToTop, CapInv, Spends
  <2>4. CASE UNCHANGED <<billed, pc, held, cost>> \/ cost' = 0
    BY <2>4 DEF CapInv, Spends
  <2> QED BY <1>2, <2>1, <2>2, <2>3, <2>4 DEF SpendMoves
<1>5. Allowed' /\ Accounted' /\ IsFiniteSet(PaidToday(runs)')
  <2>1. CASE Midnight
    BY <2>1, MidnightKeeps
  <2>2. CASE ~Midnight
    <3>1. dayStart' = dayStart
      BY <1>2, <2>2 DEF SpendMoves
    <3> QED BY <1>2, <2>2, <3>1, AllowedKept, AccountKept, DayFinite
  <2> QED BY <2>1, <2>2
<1> QED BY <1>1, <1>3, <1>4, <1>5 DEF CapInv

LEMMA CapInitially == Init => CapInv
<1> SUFFICES ASSUME Init PROVE CapInv
  OBVIOUS
<1>1. /\ IndInv /\ recording = [r \in Recordings |-> "absent"] /\ runs = [p \in Pairs |-> <<>>]
      /\ now = 1 /\ dayStart = 1 /\ pc = "down" /\ cost = 0 /\ billed = 0 /\ budget = Bound
  BY Initially DEF Init
<1>2. \A p \in Pairs : Len(runs[p]) = 0
  BY <1>1
<1>3. PaidToday(runs) = {}
  BY <1>2, StepsOfChain DEF PaidToday, Pairs
<1>4. IsFiniteSet(PaidToday(runs))
  BY <1>3, FS_EmptySet
<1>5. Past /\ dayStart <= now /\ Unpaid
  BY <1>1, <1>2 DEF Past, Unpaid
<1>6. BudgetSpent
  BY <1>1, LedgerAssumption DEF BudgetSpent
<1>7. TodayUsd \in Nat /\ CeilingUsd \in Nat /\ CeilingUsd > 0 /\ MaxCost \in Nat
  BY <1>1, <1>4, TodayTyped, CeilingTyped
<1>8. Accounted
  BY <1>1, <1>7 DEF Accounted, TrueCap
<1> QED BY <1>1, <1>4, <1>5, <1>6, <1>8 DEF CapInv, Allowed

(* The true cap: as long as no crash, no refused write and no deletion has *)
(* cost the ledger a bill, what the providers have really charged today    *)
(* never passes the ceiling in force by one whole run, for any chain, any  *)
(* costs, any raises of the ceiling and any number of days (spend.ts).     *)
THEOREM CapHolds == Spec => [](NothingLost => TrueCap)
<1> DEFINE Inv == IndInv /\ CapInv
<1>1. Init => Inv
  BY Initially, CapInitially
<1>2. Inv /\ [Next]_vars => Inv'
  BY Inductive, CapStep
<1>3. Inv => (NothingLost => TrueCap)
  BY DEF CapInv, Accounted
<1> QED BY <1>1, <1>2, <1>3, PTL DEF Spec
=============================================================================
