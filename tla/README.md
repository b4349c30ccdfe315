# Vinegard: a verification project

Vinegard (the repository's `thp-pwa`) is a members' library of recorded teachings: an admin uploads
a recording, a worker turns it into a transcript, drafts, chapters and search vectors, and members
listen, write notes and take teachings offline. This directory holds TLA+ modules of the parts where
order, failure and concurrency decide whether it is right, the TLC runs over them, and TLAPS proofs
of what matters most. `PROJECT.json` names, for every definition, the lines it stands for.

## 1. The system

| part | state it keeps | operations | talks to |
|---|---|---|---|
| web process (`packages/web/src/server`) | none of its own but the search cache and the limiters | one route per operation | PostgreSQL, the object store, mail, push |
| database (`packages/db`) | every row: accounts, recordings, jobs, notes, receipts, ... | one function per statement or transaction | READ COMMITTED throughout |
| worker process (`packages/worker`) | the job in hand | boot and sweep, poll, run, settle | the job table, paid providers |
| a page of the member's browser (`packages/web/src/client`) | active account, download queue, timers | press, cancel, flush, play | IndexedDB, the API |
| IndexedDB on the device | downloads and their bytes, outbox, waiting pictures, active-account marker | one transaction per request, shared by all tabs | |
| providers, mail, push | external | | |

The parts meet in four places. The web process and the worker meet only in the job table: a request
inserts a pending row, the worker claims it. Pages meet the server through requests that may be
answered, refused or lost. Tabs of one browser meet in IndexedDB and in the session cookie. Two admin
requests meet in row locks.

### Components, what is hard about them, what makes them right

`PROJECT.json` lists every component with its status; these are the ones with behaviour worth a model.

* **Job ledger, worker, spend** (`db/src/jobs.ts`, `worker/src/{index,loop,run-job,sweep}.ts`,
  `web/src/server/pipeline`). Two processes over one table, and a worker that may die anywhere. Right
  when: a pair of recording and step has one unfinished row and it is the latest; the row in the
  worker's hands is its own; no success is left without its successor; nothing but a crash is retried,
  and a crash loop ends; finished rows stay; the day's charges stay under the ceiling plus one job;
  whatever is queued is taken up.
* **Offline outbox and sync** (`web/src/client/offline/{manager,outbox,pending-images}.ts`, `server/offline`,
  `db/src/sync.ts`). Lost answers, restarts between two statements, several tabs, changes of account.
  Right when: a note kept on the device is always somewhere, its picture too; what has a receipt is not applied again;
  everything kept leaves in the end; a withdrawn teaching leaves the device; a refused note is shown
  to its writer; a note is saved under who wrote it.
* **Downloads** (`web/src/client/offline/{queue,browser-store}.ts`). One runner with a dozen awaits,
  under cancels, removals, late answers and changes of account. Right when: a record has its bytes; a
  cancelled transfer keeps nothing; a download is kept for who asked for it; while somebody is signed in
  the queue never jams.
* **Last admin** (`db/src/accounts.ts`, `account-deletion.ts`). Concurrent transactions whose decision
  rests on a count. Right when: an active admin remains; no two requests hold one account's write; a
  transaction never waits for ever.
* **Search index and notes** (`worker/src/embed-recording.ts`, `db/src/{embeddings,search,visibility,
  notes,member-blocks,account-deletion}.ts`, `web/src/server/{search,notes,blocks}`). An edit joins the
  embed job that is already running; an answer is kept for a week while what it shows may be hidden; a
  member's account goes while they write. Right when: every edit reaches the index; an answer that is
  kept is one its reader may still have.
* **Review queue** (`web/src/server/reviews`, `recordings/publication.ts`, `db/src/reviews.ts`,
  `worker/src/generate-draft.ts`). Two admins and a job write the drafts of one teaching. Right when:
  members read what was approved last, whole; a draft thrown away for another has a job behind it; no
  two requests wait for each other.
* **Access** (`web/src/server/{invitations,password-reset,account-deletion,accounts,auth}` and their
  queries). Three kinds of mailed link, sessions, deactivation and deletion, several statements each.
  Right when: a session or a reset that a new password, a deactivation or an erasure has ended stays
  ended; only a link that works makes an account or a password.
* **Player** (`web/src/app/(member)/player-context.tsx`, `web/src/client/playback`). One audio element
  whose source expires and is swapped under it. Right when: no sound that was not asked for; the place
  survives the swap; a press for sound is heard.
* **Chapters and flow tracker** (`worker/src/generate-{chapters,questions}.ts`, `web/src/server/{chapters,
  flow-tracker}`). Two pipeline steps and admins remake a list that members' sessions point into. Right
  when: a generated list tiles the teaching; every chapter has its question; an admin's words stay; a
  session completes with its last answer.
* **SOS, notices** (not modelled): small protocols behind an advisory lock or a unique index.

## 2. Plan

Done, in this order: `PipelineSteps`, `PipelineStatus` (abstract), `JobLedger`, `JobLedgerProofs`;
`OfflineSync`, `OfflineSyncProofs`; `LastAdmin`; `DownloadQueue`, `DownloadQueueProofs`; `Notes`, and
`SearchIndex` over it, `SearchIndexProofs`; `ReviewQueue`, `ReviewQueueProofs`; `Access`, `AccessProofs`
(which holds the proofs about `LastAdmin` too); `Player`, `PlayerProofs`; `Chapters`, and `FlowTracker`
over it, `FlowTrackerProofs`. Every invariant and every action property that a run checks is stated by a
theorem.

Next, most important first:

1. `DownloadQueue` with two pages over one store, and reloads that end late.
2. Cross-references, the step behind the embed step; the completion of a teaching.
3. What a page keeps across the modules: `OfflineSync`'s withdrawals against `DownloadQueue`'s store.
4. SOS signals and notices.

Runs are few on purpose: a run answers one question, and the safety questions of one module share a run.
Where one step's guarantee is what another module starts from, the second takes it as given: that an
enqueue joins the pair's unfinished row is proved of `JobLedger` and assumed in `SearchIndex`,
`ReviewQueue` and `Chapters`.

## 3. Modules

### PipelineSteps and PipelineStatus

`PipelineSteps` is the vocabulary: the chain of steps as a sequence, the standalone steps, the statuses
of a job, and `NextStep`. `PipelineStatus` is the abstract specification: one status per step, as an
admin is shown it, and the five ways it may change. It knows of no ledger and no worker.

### JobLedger

`runs[<<recording, step>>]` is the pair's rows in order of attempt, so the attempt is the index.

| in the module | in the code |
|---|---|
| `EnqueueJob`, `CompleteJob`, `FailJob`, `SweepRunning`, `OldestPending` | the queries of `db/src/jobs.ts` |
| `FinaliseUpload`, `EnqueueBehindEdit`, `RerunStep`, `RaiseSpendCeiling`, `RemoveRecording` | the API's writes |
| `Boot`, `Claim`, `PollEmpty`, `Signal`, `Exit`, `Crash` | `worker/src/index.ts`, `loop.ts`, `sweep.ts` |
| `RefuseAtCeiling`, `StartHandler`, `ProviderCall`, `Succeed`, `Throw`, `RowVanished`, `LedgerRefuses` | `worker/src/run-job.ts` from claim to outcome |
| `Midnight` | the UTC day the spend is summed over |

Abstracted: a handler's body is at most one charged call followed by a return or a throw; costs of
unpaid steps are zero and cents are not rounded; rows enqueued in one instant may be claimed in either
order; a re-run's look at the ceiling and its enqueue are one step; a step without a handler cannot be
enqueued.

### OfflineSync

One teaching, several tabs, several accounts. An IndexedDB request, a database statement, a message
and its answer are one step each.

| in the module | in the code |
|---|---|
| `KeepNote`, `SaveUnanswered` | the service hook that keeps a note, its picture's bytes on the device or not, and a live save whose answer is lost |
| `Push`, `PushAnswered`, `PushFails`, `DeleteOld`, `PutProgress` | the player's live position, and the position kept when that fails |
| `StartFlush`, `Send`, `SendRefused`, `GiveUp`, `RemoveSettled`, `HandBack`, `RemoveRevoked` | `flush` in `manager.ts`, from await to await |
| `Prepare` (`Waits`, `Gone`, `Emptied`, `CutShort`), `ForgetPictures` | `prepareOutboxImages` and `forgetPendingImages` in `pending-images.ts` |
| `FindReceipts`, `SkipDuplicate`, `ApplyEntry`, `RefuseEntry`, `InsertReceipt`, `Reply` | `syncOffline` in `server/offline/service.ts` |
| `OpenTab`, `CloseTab`, `SignIn`, `SignOut`, `Restart`, `Withdraw` | the environment |

`pictures` are the notes whose picture's bytes are on the device, `pending` those whose entry in the outbox
names its picture by them, `bare` those whose entry has come to have neither words nor picture; the notes of
`Wordless` are a picture alone. A flush drops a picture whose bytes are gone, deletes an entry that is left
with nothing, uploads the others or holds their notes back, and once it is answered forgets the bytes of
every picture it met, those of the notes it held back among them.

Abstracted: texts and pictures are values, and a note has one picture at most; `Prepare` is one step of a
flush although its uploads are several, and a read or a write of IndexedDB in it does not fail; why an
entry is refused is a choice, but for a bare one, which always is; live writes of a position are answered
in order, though a failure may be late; the deletes of one settled batch are one step; a tab that has
been signed out finishes its flush under the account it read. The client's ids grow with time. A tab
abandoned mid-flush and its successor behave as two tabs do.

### DownloadQueue

One page. `run` is what `runOne` holds across its awaits: stage, teaching, account, signal. `items` is
the queue, patched by teaching as `queue.ts` patches it. A press needs nobody signed in, as in the code: the
runner then returns before its first await with the item still queued and is given the same item again, for
ever. The page does nothing more, which is the stage `spinning`.

| in the module | in the code |
|---|---|
| `Press`, `PressSeries`, `Cancel`, `RunNext` | `download`, `downloadMany`, `cancel`, `run` |
| `Granted`, `NoSpace`, `Described`, `Responds`, `Arrived`, `BytesKept`, `RecordKept`, `Fails`, `CutShort`, `RunEnds` | `runOne` and `fetchInto`, from await to await |
| `RemoveRecord`, `RemoveBytes` | a removal, by the member or because a flush was told of a revocation |
| `Refresh` | an API answer rewriting a stored copy in one transaction (`offline-api.ts`) |
| `Activate`, `Deactivate`, `Forgotten`, `Reload` | changes of account, and the list read again |

Abstracted: byte counts; the wait for free space is part of the grant; reading the list and showing it
are one step (a store that cannot be read shows nothing); a revocation is carried out under the account
now active. `overlapped` and `asked` are history: they change nothing.

### LastAdmin

A statement is a step. `Begin` takes the snapshot of active admins, `LockAdmin` locks them in id order
and tests each again as it is then committed, `Refuse` or `Allow` decides, `Write` (or `WriteNothing`)
waits for the target and tests its own condition, `Commit` shows the write and drops the locks;
`Victim` and `LoseConnection` roll back. `ReactivateUser` and `InsertInvitedUser` are the unguarded writes
that may add an admin. Abstracted: who may ask, and the other statements of a deletion (its placeholder
account is never an admin).

### Notes and SearchIndex

`Notes` holds the note table, blocks, and accounts that are deleted; one action is one transaction. A
deleted account's public notes go to a placeholder made for it; the placeholder of `m` is written as `m`
itself. It has no `Next` of its own: `SearchIndex` composes its writes with what each owes the index and
the cache. Words are version numbers, and an index row carries the words it was made from.

| in the module | in the code |
|---|---|
| `OpenRecording`, `CollectSources`, `CompareRows`, `WriteRows`, `RecordSuccess`; `EmbedderFails`, `WorkerRestarts` | `embedRecordingNow`: the row read once, then at most `MaxPasses` looks |
| the writes of `TextWrite` | corrections, summary edits, approval, publication and withdrawal |
| `MemberWrite`, `AccountGone`, `AccountStays` | notes and blocks from request to commit; an account's deletion, open over several statements |
| `Ask`, `SearchEmbeddings`, `KeepAnswer` | `searchFor`: a miss, the query, the answer kept |
| `ClearSearchCache`, `Expire`, `WebRestarts` | the cache of the web process |

Abstracted: vectors, ranking and paging; the text search beside the vectors. History: `unseen` (parts of a
source changed when the running job would not look again, or without asking for a look), `revived` (notes
whose row a running embed wrote again), `outrun` (answers kept after a clear they were read before).

### ReviewQueue

One action is one statement, or a run of statements no other request's lock can come between; what a
request has written and not committed stays in its record, and its row locks are read off where it stands.

| in the module | in the code |
|---|---|
| `OpenItem`, `Discard`, `PublishText`, `CloseText` | `resolveReview` for a summary and for the metadata |
| `CloseFirst`, `DeleteReferences`, `InsertReferences`, `PublishMindMap` | approval of references and mind maps |
| `FindUnfinished`, `DiscardAndEnqueue`, `RegenerateSummary`, `EnqueueSummary` | `regenerateReview`, and a new summary after a correction |
| `Claim`, `ReplaceOpenDrafts`, `RecordSuccess`, `GenerationFails`, `WorkerRestarts` | the `generate_draft` step |

Abstracted: texts and citations are the id of the draft they came from. History: `owed` (items discarded
for a draft that has not come), `crossed` (those whose request crossed another's).

### Access

One address, any number of requests over it, each ending between any two of its statements (`GiveUp`).
`life` counts the accounts the address has had; a link is a row and the mail that carries its token.

| in the module | in the code |
|---|---|
| `IssueInvitation`, `ResendInvitation`, `RevokeInvitation`, `InsertInvitation`, `RequestReset`, `RequestDeletion`, `ReplaceLink` | the requests that issue or take back a link |
| `SendMail`, `MailFails`, `RevokeUndelivered` | the mail, and the link withdrawn when it fails |
| `ResolveToken`, then `AcceptInvitation`, `CompleteReset`, `CompleteDeletion` | a link opened, and used after the password has been hashed |
| `SignIn`, `IssueSession`, `SignOut` | sign-in: the password is checked, then the session is written |
| `Deactivate`, `EndSessions`, `EndResets`, `Reactivate`, `DeleteAccount` | an admin, or the member |
| `Lapse` | the clock |

Abstracted: passwords and tokens are right or not by the link that carries them; throttles. History:
`over`, on a session or a reset, once a password has been set or a deactivation has come to its end since it
was written; on any row, once its account has been erased.

### Player

One thread: an action is a handler, or the part of it between two awaits. Giving the element a source
empties it, pauses it and drops the events it had queued.

| in the module | in the code |
|---|---|
| `Open`, `OpenIfIdle`, `OpenAndPlay`, `PressPlay`, `PressPause`, `Seek`, `PlayFrom` | the member |
| `Arrives`, `OpenFails`, `RenewalTick`, `RenewalArrives`, `RenewalFails`, `GrantRunsOut` | grants: asked for, answered at any time, renewed |
| `LoadedMetadata`, `Sounds`, `Remember`, `SourceFails`, `Interrupted`, `Suspended` | the events of the element |
| `CheckSound` | the stall check and its two remedies, `Replay` and `Reload` |

Abstracted: the source a download offers, the queue of a series, speed, the sleep timer. History: `heard`
(the places a swap may end at), `crossed`, `excused` (what takes a press's promise away).

### Chapters and FlowTracker

`Chapters` has the two steps and the draft between them, over the ledger's rule of one unfinished job a
step; its sweep cap is `JobLedger`'s and left out. An admin's request is what its transaction reads under
READ COMMITTED, then its writes. `Settle` is `settleChapters`, over sets of offsets.

| in the module | in the code |
|---|---|
| `Claim`, `ModelDivides`, `ClearChapters`, `ReplaceChapters` | `generate_chapters`: the list is deleted, then inserted |
| `DraftEnds` | `generate_draft`, as the link between the two steps |
| `ListChapters`, `FindMissing`, `NothingMissing`, `WriteQuestions` | `generate_questions`: what is missing, the model, the rows |
| `ModelFails`, `WorkerDies`, `AskFor` | failures, crashes and re-runs |
| `ReadForMove`, `ReadForSplit`, `ReadForMerge`; `MoveBoundary`, `SplitChapter`, `MergeChapter`; `SetQuestion` | admins |

`FlowTracker` extends it with a member's sessions in several tabs, one step per statement: `ReadPick`,
`InsertSession`, `ReadSession`, `AnswerItem`, `CountUnanswered`, `CompleteSession`, `Abandon`,
`DeleteSession`, `WebDies`. Abstracted: words and titles; questions on tags, which go the way of a
chapter's. History: `missed` (an edit joined a questions job that had read what it changed), `cut`
(sessions whose request died between its statements).

## 4. Runs

Bounds are the CONSTANTS of each cfg; `Bound`, or `MaxEvents`, is how often each outside event, or all
of them together, may happen.

| run | instance | what it shows |
|---|---|---|
| `ledger_safety` | one recording, a step and its successor; 2 requests, 3 crashes, a lost write, a deploy, a deletion | succession, crash loops, and the refinement of `PipelineStatus` |
| `ledger_spend` | two paid steps costing 0 to 2, ceiling 2, a raise to 3, a midnight | true cap |
| `ledger_progress` | two recordings; a crash, a deploy, a lost write | what is queued is taken up, what runs ends, a row left running by a refused write at the next boot |
| `sync_faults` | one tab, two members, two notes with pictures, one of them a picture alone; an unanswered save, a lost answer, a restart, a refusal, an upload that fails, a change of account | notes are never nowhere but with their picture, receipts stop replays |
| `sync_drains` | one note, positions 0 to 2, one entry a flush; a killed page, a withdrawal | the outbox drains, a withdrawn teaching leaves |
| `admins_guard` | two accounts, two requests at once | the guard's count, and progress |
| `download_queue` | two accounts, two teachings, two presses | the store, the signal, the account and the queue |
| `search_found` | an admin who searches and a member; one note, 2 passes, 3 events | the index catches up, answers kept are still allowed, a queued look reaches the index |
| `review_queue` | a kind of each sort, two admins, 5 drafts, 2 events | what members read, drafts owed, and progress |
| `access_links` | two requests at once, 3 links, 2 sessions, 4 changes of the account | what is over stays over, links act once |
| `player_sound` | two teachings of two places, a source each on its way, 2 events | no unwanted sound, the place, the press |
| `flow_tracker` | lines at 1, 2 and 4, chapters of 3, three proposals, two admins, two tabs, 5 chapters, 3 events, one session | the settled list, questions, admins' words, completion |

Why these bounds are enough to be interesting. The ledger looks one step ahead and one row back, but for
the crash streak: a chain of two steps shows every rule of succession, and three crashes pass the cap of
two. Two recordings are the fewest that can starve each other. Two notes show an entry behind another, and the two ways a note meets the loss of its picture,
and two members a change of account in between. Two guarded writes over two accounts are the race the
guard is there for. Two download requests, one of them a series, are a queue with an item behind another,
or a teaching asked for again. Two passes are a pass that finds something and one that confirms it or
meets the limit, and three events an edit during each and a crash; a note with an author and a reader is
a block, a removal, a privacy change or a deleted account between two members, and the reader is the
admin of the two, so the account that can go is the one the reader meets. Two admins and a
generation job are every pair of writers the review queue has, and five drafts leave room for one of each
kind replaced, regenerated and replaced again. Three links are one of each kind, or one replaced twice;
two requests interleave any two of the flows. Two teachings are a late source and the one it is late
for. Three lines are the fewest on which a boundary can be too close to the one before it and another
far enough; one session shows every way its items can lose their chapters. TLC says nothing of larger
instances; section 6 does, for the properties proved.

`CHECK_DEADLOCK FALSE` stands where the system may rest: a device with nothing to send, or a model whose
bounded events are spent; and for a page that spins in its download loop (section 7), which does nothing
else again.

## 5. Fairness

* `JobLedger`: weak fairness of the worker's steps together. pm2 restarts the process whenever it is
  down (`autorestart` in `ecosystem.config.cjs`), the loop polls for ever (`worker/src/loop.ts`), and every
  handler's provider call ends in an answer, an error or a timeout. Nothing is assumed of requests.
  A refused write leaves its row running until the next boot, and nothing forces a boot:
  `UploadIsCarriedThrough` and `InFlightSettles` are stated for behaviours in which the worker boots once
  more after the last write that was refused, and then ask of the row that was left as of any other.
* `OfflineSync`: the flush steps of each tab, opening a page among them, the player's and the server's
  are weakly fair: coming to the foreground, coming online and opening a page each start a flush, a
  member comes back to the app again and again, IndexedDB requests end and the server answers. Losing
  an answer, closing a page and signing in are never fair.
* `DownloadQueue`: weak fairness of the runner: what it awaits ends. `QueuedIsReached` speaks of what is
  queued while somebody is signed in.
* `LastAdmin`: strong fairness of each transaction's steps: PostgreSQL queues the waiters of a row, so
  one that comes free again and again is not missed for ever. Deadlocks are broken, not avoided:
  `Victim`.
* `SearchIndex`: weak fairness of the embed step, as in `JobLedger`. Edits and searches are not fair.
* `ReviewQueue`: weak fairness of `Finish` for each admin's request: its transaction has begun, and each
  of its statements is answered once the rows it waits for are free.
* `Player`: weak fairness of a source that has been asked for (it comes or is refused), of its metadata,
  and of the check of the sound, which is a timer.
* `Access`, `Chapters` and `FlowTracker` state safety only and assume nothing.

## 6. Proofs

Proved for every value of the constants, from the assumptions on them that their modules name
(`PipelineAssumption`, `LedgerAssumption`, `OfflineAssumption`, `MembersAssumption`,
`ConnectionsAssumption`, `NobodyAssumption`, `PressesAssumption`, `NotesAssumption`, `IndexAssumption`,
`ReviewAssumption`, `AccessAssumption`, `PlayerAssumption`, `ChaptersAssumption`, `FlowAssumption`),
which TLC evaluates in every run of the module. They say that bounds are natural numbers, that sets
are finite where the code reads them whole and apart where it tells them apart, that sentinels are members
of none of them and that a chain repeats no step. Three say more, each from the code: what a run may cost
has a greatest value and the default ceiling is above zero (`readSpendCeilingUsdPerDay` refuses any other);
the floor of a chapter is above zero; an open draft of each kind of summary fits in the table.

Every module's `TypeCorrect` proves the type invariant its runs check. The other theorems:

* **`JobLedgerProofs`**. `IndInv` strengthens the properties with three facts TLC does not ask about:
  each pair's rows taken alone are `Sound` (only the latest is unfinished; a row queued by the sweep
  stands behind the one it failed; a row failed as restarted did not end a crash loop), the budget is
  typed, and the worker's hand is a row of the ledger. The lemmas say what the two ways of writing a
  row keep (`AppendSound`, `RewriteSound`), then what each query keeps, then each action. From it:
  `OneUnfinished`, `HeldStaysRunning`, `RetriesFollowCrashes`, `CrashLoopsEnd` (a row the sweep queued has
  a restarted one behind it, and restarted rows are not the end of a streak) and the action property
  `AppendOnly`.
  `SuccessesFollowed`: a success is answered in the same statement as it is written or by the sweep, and
  what answers it is never taken away but by a deletion, which takes the success with it.
  `CapHolds` is the argument about money. `CapInv` says that what the providers charged is what the ledger
  has of the day and what the run in hand has not written, and that a paid run which has still to call its
  provider found the day under the ceiling. The second stands because nobody but the worker adds to the day.
  The first is lost with a crash, a refused write or a deletion; the theorem is therefore stated under
  `NothingLost`, which is what `ledger_spend` provides by its bounds, and section 7 says what the code does
  otherwise. The sum over the day is `SumFunction`, a fold and so a recursive function on sets; that it is defined, takes
  one job at a time and grows with a job is proved by least counterexample (`SumsExist`, `SumTakes`,
  `SumGrows`).
  `LedgerImplementsView`: under the mapping of a pair to the status of its latest attempt, every step of
  `JobLedger` is a step of `PipelineStatus` or a stutter. What makes the mapping right is `IndInv`:
  `enqueueJob` looks for an unfinished row among all of a pair's rows, the view looks at the latest only,
  and `InFlightIsShown` says the two are the same question. Each query has a lemma on what it shows
  (`EnqueueAsks`, `PutShows`, `SweepShows`), each action one on the step it is.
* **`OfflineSyncProofs`**. The argument follows an entry by its client id. `Linked`: an id names one write,
  in whatever list, request or receipt it is met. `Honest`: a tab is told that an id is settled only where
  the server has a receipt for it, and a note with a receipt that says applied has been saved. `InOrderOf`:
  a request handles the first of its entries, one it found no receipt for, and what had a receipt when the
  request was sent it has seen. From them `NoNoteIsLost` and `ReceiptsStopReplays`, for any number of tabs,
  accounts, flushes at once, crashes and lost answers. `NoNoteIsLost` excepts a note of a picture alone
  once the bytes of that picture are not on the device: what a flush deletes has neither words nor bytes
  (`LosesNone`). A note with words is not lost.
* **`DownloadQueueProofs`**. Every step moves the runner within one transfer, begins the next, or is
  one of the four that write the store (`StepKinds`). `StoreInv` adds to `HeldHasBytes` that a transfer
  about to keep its record has its bytes, and that what is removed while a transfer of it runs has been
  noted: `RecordsHaveBytes` and `CancelledIsNotKept`. `AskedInv` adds to `KeptForWhoAsked` that what stands
  in the list was asked for by the active account, and what transfers by the account the runner read when
  it began: `RecordsWereAskedFor`.
* **`SearchIndexProofs`**. `LookInv` says at each point of the embed step what its last look is worth: the
  title it read is current or accounted for (`TitleRead`), so is what the look saw (`LookStands`) and every
  row the write to come leaves alone (`LeftAlone`); from it `IndexFollows`. `RowsOwned` carries the owner of
  a row, without which comparing words would not do. `KeptAllowed` rests on `BlocksStand` (a block stands
  until its owner takes it back, by the hand of an open deletion if need be), on `RowsStand` and on
  `AnswersAllowed`, which asks the same of an answer not kept yet.
* **`ReviewQueueProofs`**. Both theorems rest on what no statement of the code says: a kind has one open
  draft at most, and it is the latest of its kind (`DraftIsLatest`). With it, what one request has closed and
  not committed is still a draft to all the others and closed by nobody else (`HeldIsOpen`), and the rows it
  has deleted are still all there are (`EmptiedIsAll`): `ApprovedStands`. A request that found nothing
  unfinished and was not crossed is right still (`ClearIsClear`): `DiscardsFollowed`.
* **`AccessProofs`**. `Inv` adds to the types: rows name no account later than the latest, and what is
  live, invitations apart, belongs to the account there is (`LivesOK`, `LiveBelongs`); a request that is
  about to write names a link there is (`LinkNamed`); and a deactivation between its statements has ended
  what it has passed (`EndingOK`), without which `OverIsOver` is not inductive. The transaction that sets a
  password names no reset but the one it uses; that none is left open beside it rests on `issuePasswordReset`
  having revoked the one before (`OneReset`). From it `AccessEnds` and `LinksActOnce`. `AccessEnds` promises
  nothing of a deletion link, which outlives a deactivation by design, nor of a deactivation that died
  between its statements (section 7). For `LastAdmin`, `GuardInv` says who holds what at each point of a transaction: what has
  been counted is locked by the counter and still an active admin, what is about to be written is locked by
  its writer, and a write that takes an admin away was counted against somebody else. From it
  `GuardTypeCorrect`, `CountsStand`, `OneWriter` and `AdminRemains`: the guard is right for any number of
  accounts and requests, as long as nobody counted an empty set, which the code can (section 7).
* **`PlayerProofs`**. The invariant holds until two sources cross: no more than one opening is on its way
  and none beside a renewal, a renewal holds the place it was asked at, and the place a swap will restore
  is within what was heard. From it `NoUnwantedSound` and `PlaceKept`.
* **`FlowTrackerProofs`**. A chapter's id never comes back (`NewIds`), so an item that is no longer asked
  stays so; a request that counts is past the answer it counts for. With what is made and what requests
  name, `CompletesWithLastAnswer` is inductive: `LastAnswerCompletes`. `AdminWordsKept` follows each
  write of a question to the condition under which it is made.
  `SettledListsTile` is about the algorithm alone: `Settle` is a recursive function over the offsets, and
  what it returns is followed from one boundary to the next (`SettleTiles`). `QuestionsFollow` adds
  `Looked` to the types: while a questions job has not missed an edit, what it read says what is to be
  written, and an edit it has not read has it, or a job after it, still to come.

Only model-checked is liveness: `UploadIsCarriedThrough`, `InFlightSettles`, `OutboxDrains`,
`RevokedLeaves`, `WritesEnd`, `QueuedIsReached`, `QueuedLookReachesIndex`, `RequestsEnd` and
`PressIsHonoured`. Liveness under fairness is outside what the proof system can do. So is an induction rule
that takes a formula as a parameter: where the proofs need induction, over a day's jobs or a list's
boundaries, they take the least element of the set of counterexamples (`WFMin`), which is a set and not a
formula. `Rank`, `Chosen` and `InOrder` choose by position instead of by a fold for the same reason.

## 7. Where the code differs from what the repository says

Met while modelling. Where a module has the behaviour, its properties except it by a history variable, named
here, or are stated so that it is not promised.

Ledger and accounts:

* A job the worker died under fails without its charge (`jobs.ts:263`), so the ceiling is passed by more
  than the one job `prd.md:543` allows; `TrueCap` counts what was recorded.
* Deleting a recording deletes its job rows, and the day's sum with them (`recordings.ts:246` against
  `prd.md:543`).
* A re-run between two crashes does not restart the count of the streak (`jobs.ts:299` against its own
  comment at 209-211). An unfinished job that refused an enqueue may end before it is read, and the
  enqueue throws (`jobs.ts:91`).
* The sweep queues a crashed job again without its payload (`jobs.ts:262-267`): a regeneration of one
  kind runs for every kind, and replaces the open drafts of the others (`db/src/reviews.ts:52-53`).
* The guard of the last admin can count an empty set and let the last admin go (`accounts.ts:337` against
  `accounts.ts:296-297`).

Offline:

* The receipt of a refused note answers the resend as a duplicate, and a duplicate is not handed back to
  the composer; a lost answer loses the refusal and the note's text (`outbox.ts:145` against 123).
* A note whose picture would not go up stays home, but the bytes of its picture are forgotten with those of
  the notes that went (`pending-images.ts:59`, `manager.ts:378`). The next flush finds them gone: it sends the
  words without the picture, and deletes a note of pictures alone, with neither a save nor a receipt (against
  `pending-images.ts:18-19`, "the next flush tries it again"). Which pictures a held note keeps is counted
  from those dropped in the whole flush (line 79), so an earlier note's loss may cost a later one its picture;
  left with no words it is sent bare and refused.
* A flush reads its account from the tab and is saved under the cookie's (`manager.ts:370` against
  `schema.ts:31-34`).
* Two restarts, each between a saved note and its receipt, leave the note three times
  (`server/offline/service.ts:228` against `db/src/sync.ts:15`).
* Of two overlapping flushes the first receipt stands, so one may say refused of what the other saved
  (`db/src/sync.ts:89` against 13-14).
* A kept position that arrives late moves a member back (`db/src/playback.ts:136`); two tabs may keep
  two positions of one teaching (`outbox.ts:56` against 23), and a page closed between the delete and
  the put keeps none (`outbox.ts:59` against 13).
* A download cancelled before its grant goes back to downloading and ends as failed
  (`manager.ts:299`, `queue.ts:96`); cancelled while its bytes are being kept, it is kept
  (`store.ts:50`). Asked for again at once, the new entry is ended by the old run (`queue.ts:41-42`).
* With nobody signed in, an item that is asked for stays queued (`manager.ts:293`) and the loop at 340-342
  is given it again at once, for ever: the page hangs. Nothing in `download` or `downloadMany` asks who is
  signed in (459-481).
* A teaching asked for again while held, and removed while its record is being kept, leaves a record
  without bytes (`browser-store.ts:87-88`); `HeldHasBytes` excepts exactly that overlap.

Search and notes (`unseen`, `revived`, `outrun`):

* The embed step reads the recording's row once (`embed-recording.ts:122` against 65-68), so a title
  edited under it is missed; a correction folded into the job after its last look is never embedded
  (`transcripts/service.ts:171-173`, `notes/service.ts:285-286` say it will be).
* `unpublishSummary` queues no embed: the recording's row goes on quoting the withdrawn summary
  (`publication.ts:148-165`). Neither it nor `editSummary` clears the cache.
* A removed note's row is written again by an embed that had read it (`notes/service.ts:366-370`); the
  same embed meets a foreign key when the author's account is deleted, and fails.
* A search that has been sent keeps its answer after a clear. A block placed while its target's deletion
  is open is lost (`member-blocks.ts`, whose comment says blocks are carried over); one taken back then comes
  back against the account's placeholder (`account-deletion.ts:128`, `member-blocks.ts:244-258`).
  `KeptIsStillAllowed` asks for a block only between accounts that are present.

Review queue (`crossed`):

* `regenerateReview` looks for an unfinished job, then discards and enqueues: a request in between with
  another kind folds the second into its job, and the draft never comes (against its comment, 428-430).

Access (`over` excepts what a request in progress opens):

* A mail that fails late revokes every live link of the account, one delivered meanwhile among them
  (`password-reset/service.ts:196`, `account-deletion/service.ts:179`). An invitation is sent again in
  two statements; a crash between leaves none (`invitations/service.ts:278`).
* Signing in across a reset leaves a session that the old password opened. A crash between the
  statements of a deactivation leaves sessions that work again on reactivation, and asking again answers
  that nothing changed.

Player (`crossed`, `excused`):

* A grant that arrives late for an earlier teaching plays under the new one's name
  (`player-context.tsx:595` against 685-692). A first grant that is refused is not asked for again (against
  709-711).
* A seek during a renewal, or before the first metadata, is undone by the place the swap restores. What
  is heard during a renewal is heard twice. A press or a seek into silence starts the check again.

Chapters and flow tracker (`missed`, `cut`):

* Two boundary moves that both read before either writes can cross, and two merges, or a merge beside a
  split, can leave a list of one (`chapters/service.ts:198-201` and 338-339 say otherwise). A new list
  written beside a split keeps the split's chapter. `SettledListTiles` is therefore stated of the list a
  step is about to write, not of the table.
* An edit that joins a questions job which has already looked leaves a chapter without a question
  (`generate-questions.ts:36-38`); a question set or a chapter merged meanwhile fails the whole paid job.
* A session whose last unanswered chapter is merged away is never completed (`service.ts:239-241`). An
  answer read while a session is in progress can be written after it ended (272-276).
* The count of what is left and the list shown use different conditions
  (`db/src/flow-tracker.ts:473-475`): of a teaching taken down, a session stays in progress with nothing to
  answer.
* Adjacent corrections of a transcript can overlap: there is no lock (`transcripts/service.ts:36-39`).

## 8. Not modelled

* *Uploads* beyond the ledger's view: grants and the object store. *Providers*, *mail*, *observability*:
  input and output; what a provider does to a job is an answer, a refusal or silence.
* *Audio, transcription, sound previews, references and mind maps as steps*: what they compute is data,
  and what they do to the ledger is `JobLedger`'s. The cross-references behind an embed are still to do.
* *Single-statement writes guarded by a constraint* (series, tags, highlights, reports, pins, reactions,
  terms): two of them meet in a constraint and nothing else. A note's pictures are left out with them,
  though `removeNoteImage` looks before it deletes (`notes/service.ts:304-326`), and `pinNoteFor` may pin
  a note removed meanwhile (589-604).
* *Notifications and push*: written after their cause and pushed at most once, best effort by design.
  *SOS signals*: one advisory lock around a count.
* *Completion of a teaching*, the limit `MAX_SYNC_DOWNLOADED` on what a flush may name
  (`offline/service.ts:290`), a reload that ends after a change of account (`manager.ts:244`), and two
  pages over one download store.
* *Scripture parsing*, *rendering*, the *native shell's* file store: string work, pages and glue.

`PROJECT.json` gives the reason for each.
