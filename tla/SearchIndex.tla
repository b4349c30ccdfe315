---------------------------- MODULE SearchIndex ----------------------------
(***************************************************************************)
(* What a search of one teaching finds: the rows of the embedding table,   *)
(* the embed step that rebuilds them from the words as they stand, the     *)
(* writes that change those words, and the answers the web process keeps.  *)
(* worker/src/embed-recording.ts, db/src/{embeddings,search,visibility}.ts, *)
(* web/src/server/search, and every write that queues an embed.            *)
(*                                                                         *)
(* A write joins the teaching's unfinished embed job if there is one, as   *)
(* JobLedger proves (enqueueJob): a job that runs may already have looked. *)
(* Words are version numbers; an index row carries the words it was made   *)
(* from and whose alone it is.                                             *)
(***************************************************************************)
EXTENDS Notes, FiniteSets

CONSTANTS
    MaxPasses,  \* EMBED_MAX_PASSES
    Readers,    \* bound: the members who search
    MaxEvents,  \* bound: writes, crashes and failures in a behaviour
    NoRow       \* no row in the embedding table, no answer kept

Texts == {"transcript", "summary", "recording"}
Sources == Texts \cup NoteIds

(* The parts a source is made of.  The recording's own row holds its title *)
(* and the opening of its published summary.                               *)
Parts(s) == IF s = "recording" THEN {"title", "summary"} ELSE {s}

Row == [words : [own : Nat, quoted : Nat], owner : Members \cup {Nobody}]

ASSUME IndexAssumption ==
    /\ NoteIds \cap {"transcript", "summary", "recording", "title"} = {}
    /\ NoRow \notin Row
    /\ MaxPasses \in Nat \ {0}
    /\ Readers \subseteq Members
    /\ MaxEvents \in Nat

VARIABLES
    texts,      \* the words of the transcript, the title and the summary
    live,       \* whether the teaching and its summary are published
    index,      \* the embedding table's rows of this teaching
    job,        \* its embed job, and what the worker holds while it runs
    searching,  \* per member: the search that is on its way
    cache,      \* per member: the answer the web process keeps
    owed,       \* writes committed whose handler has yet to clear the cache
    unseen,     \* history: parts changed when the running job would not look
                \* at them again, or without asking for a look
    revived,    \* history: notes whose row was written after they were removed
    events      \* how many outside events have happened

indexVars == <<texts, live, index, job, unseen, revived>>
searchVars == <<searching, cache, owed>>
vars == <<noteVars, indexVars, searchVars, events>>

-----------------------------------------------------------------------------
(* The sources as they stand, and what a reader may be answered with.      *)

RowOf(own, quoted, owner) == [words |-> [own |-> own, quoted |-> quoted], owner |-> owner]

(* What a look at the sources sees.  The recording's row was read once,    *)
(* when the job began, and title is what it said then.                     *)
NoteRow(n, owner) == IF Standing(n) THEN RowOf(notes[n].words, 0, owner) ELSE NoRow

TextRow(s, title) ==
    CASE s = "transcript" -> RowOf(texts.transcript, 0, Nobody)
      [] s = "recording"  -> RowOf(title, IF live.summary THEN texts.summary ELSE 0, Nobody)
      [] s = "summary"    -> IF live.summary THEN RowOf(texts.summary, 0, Nobody) ELSE NoRow

SourceRow(s, title) ==
    IF s \in Texts THEN TextRow(s, title)
    ELSE NoteRow(s, IF notes[s].private THEN notes[s].author ELSE Nobody)

Current(s) == SourceRow(s, texts.title)

(* embeddingVisibleTo: a note's block is read off the note; whether the    *)
(* note stands is not asked.                                               *)
VisibleTo(reader, s) ==
    /\ index[s] # NoRow
    /\ live.recording
    /\ s = "summary" => live.summary
    /\ index[s].owner \in {Nobody, reader}
    /\ s \in NoteIds => Exists(s) /\ ~BlockBetween(reader, notes[s].author)

Idle == [at |-> "idle", found |-> {}, outrun |-> FALSE]

JobStates == {"none", "pending", "running", "done", "failed"}
JobPoints == {"", "open", "looked", "embedding", "clean"}
NoSources == [s \in Sources |-> NoRow]
AtRest(state) == [state |-> state, at |-> "", passes |-> 0, title |-> 0,
                  held |-> NoSources, stale |-> {}, over |-> {}]

TypeOK ==
    /\ NotesTypeOK
    /\ texts \in [transcript : Nat, title : Nat, summary : Nat]
    /\ live \in [recording : BOOLEAN, summary : BOOLEAN]
    /\ index \in [Sources -> Row \cup {NoRow}]
    /\ job \in [state : JobStates, at : JobPoints, passes : 0..MaxPasses, title : Nat,
                held : [Sources -> Row \cup {NoRow}], stale : SUBSET Sources, over : SUBSET Sources]
    /\ searching \in [Members -> [at : {"idle", "asked", "found"}, found : SUBSET Sources,
                                  outrun : BOOLEAN]]
    /\ cache \in [Members -> [found : SUBSET Sources, outrun : BOOLEAN] \cup {NoRow}]
    /\ owed \in Nat
    /\ unseen \subseteq Texts \cup {"title"} \cup NoteIds
    /\ revived \subseteq NoteIds
    /\ events \in 0..MaxEvents

-----------------------------------------------------------------------------
(* What every write to the words does besides.                             *)

Happens == events < MaxEvents /\ events' = events + 1

EnqueueEmbed ==
    job' = IF job.state \in {"pending", "running"} THEN job ELSE AtRest("pending")

(* What no look of the running job will see: anything changed after its    *)
(* last one, or during one that may come up clean; and the title, always.  *)
LastLookTaken == job.at \in {"looked", "clean"} \/ job.passes = MaxPasses

Changed(parts) ==
    unseen' = IF job.state # "running" THEN unseen
              ELSE unseen \cup {p \in parts : LastLookTaken \/ p = "title"}

Unindexed(gones) == index' = [s \in Sources |-> IF s \in gones THEN NoRow ELSE index[s]]

OwesClear == owed' = owed + 1 /\ UNCHANGED <<searching, cache>>

-----------------------------------------------------------------------------
(* The writes of the texts.                                                *)

EditText(part) ==
    /\ Happens
    /\ part \in {"transcript", "title"}
    /\ texts' = [texts EXCEPT ![part] = @ + 1]
    /\ EnqueueEmbed /\ Changed({part})
    /\ UNCHANGED <<noteVars, live, index, revived, searchVars>>

(* Approving a draft publishes its words over whatever was there.          *)
ApproveSummary ==
    /\ Happens
    /\ texts' = [texts EXCEPT !.summary = @ + 1]
    /\ live' = [live EXCEPT !.summary = TRUE]
    /\ EnqueueEmbed /\ Changed({"summary"})
    /\ UNCHANGED <<noteVars, index, revived, searchVars>>

EditSummary ==
    /\ Happens
    /\ texts.summary > 0
    /\ texts' = [texts EXCEPT !.summary = @ + 1]
    /\ EnqueueEmbed /\ Changed({"summary"})
    /\ UNCHANGED <<noteVars, live, index, revived, searchVars>>

(* Deletes the summary's own row, asks for no look and ends no kept        *)
(* answer: the row of the recording still quotes the summary.              *)
UnpublishSummary ==
    /\ Happens
    /\ texts.summary > 0
    /\ live' = [live EXCEPT !.summary = FALSE]
    /\ Unindexed({"summary"})
    /\ unseen' = unseen \cup {"summary"}
    /\ UNCHANGED <<noteVars, texts, job, revived, searchVars>>

PublishRecording ==
    /\ Happens
    /\ ~live.recording
    /\ live' = [live EXCEPT !.recording = TRUE]
    /\ OwesClear
    /\ UNCHANGED <<noteVars, texts, index, job, unseen, revived>>

UnpublishRecording ==
    /\ Happens
    /\ live' = [live EXCEPT !.recording = FALSE]
    /\ OwesClear
    /\ UNCHANGED <<noteVars, texts, index, job, unseen, revived>>

-----------------------------------------------------------------------------
(* The writes of members.                                                  *)

CreateNote(m, n, private) ==
    /\ Happens
    /\ live.recording
    /\ InsertNote(m, n, private)
    /\ EnqueueEmbed /\ Changed({n})
    /\ UNCHANGED <<texts, live, index, revived, searchVars>>

EditNote(m, n) ==
    /\ Happens
    /\ UpdateNoteText(m, n)
    /\ EnqueueEmbed /\ Changed({n})
    /\ OwesClear
    /\ UNCHANGED <<texts, live, index, revived>>

(* Takes the note's row along; asks for no look.                           *)
Removed(m, n) ==
    /\ Happens
    /\ SoftDeleteNote(m, n)
    /\ Unindexed({n}) /\ Changed({n})
    /\ UNCHANGED <<texts, live, job, revived>>

(* Mutant: the kept answers end only when the author deletes.              *)
DeleteNoteUncleared(m, n) ==
    Removed(m, n) /\ IF m = notes[n].author THEN OwesClear ELSE UNCHANGED searchVars

DeleteNote(m, n) == Removed(m, n) /\ OwesClear

BlockMember(m, other) ==
    /\ Happens
    /\ InsertMemberBlock(m, other)
    /\ OwesClear
    /\ UNCHANGED indexVars

UnblockMember(m, other) ==
    /\ Happens
    /\ DeleteMemberBlock(m, other)
    /\ UNCHANGED <<indexVars, searchVars>>

DeleteAccount(m) ==
    /\ Happens
    /\ StartLeaving(m)
    /\ UNCHANGED <<indexVars, searchVars>>

(* The rows that are the account's alone go with it.                       *)
AccountGone ==
    LET own == {n \in NoteIds : notes[n] # NoNote /\ notes[n].author = leaving.who
                                                  /\ notes[n].private}
    IN  /\ CommitLeaving
        /\ Unindexed(own) /\ Changed(own)
        /\ UNCHANGED <<texts, live, job, revived, searchVars, events>>

AccountStays == RollBackLeaving /\ UNCHANGED <<indexVars, searchVars, events>>

-----------------------------------------------------------------------------
(* The embed step.                                                         *)

(* The job is claimed and the recording's row read, once.                  *)
OpenRecording ==
    /\ job.state = "pending"
    /\ job' = [AtRest("running") EXCEPT !.at = "open", !.title = texts.title]
    /\ unseen' = unseen \ {"title"}
    /\ UNCHANGED <<noteVars, texts, live, index, revived, searchVars, events>>

Looks(held) ==
    /\ job.at = "open"
    /\ job' = [job EXCEPT !.at = "looked", !.passes = @ + 1, !.held = held]
    /\ unseen' = unseen \cap {"title"}
    /\ UNCHANGED <<noteVars, texts, live, index, revived, searchVars, events>>

CollectSources == Looks([s \in Sources |-> SourceRow(s, job.title)])

(* What is to be embedded and what removed; neither, and the look is clean. *)
Compared(stale) ==
    LET over == {s \in Sources : job.held[s] = NoRow /\ index[s] # NoRow}
    IN  /\ job.at = "looked"
        /\ job' = IF stale \cup over = {} THEN [AtRest("running") EXCEPT !.at = "clean"]
                  ELSE [job EXCEPT !.at = "embedding", !.stale = stale, !.over = over]
        /\ UNCHANGED <<noteVars, texts, live, index, unseen, revived, searchVars, events>>

(* Mutant: a row that is there is taken to be current.                     *)
CompareRowsMissing == Compared({s \in Sources : job.held[s] # NoRow /\ index[s] = NoRow})

(* Only the words are compared, not whose they are.                        *)
CompareRows ==
    Compared({s \in Sources : job.held[s] # NoRow
                /\ (index[s] = NoRow \/ index[s].words # job.held[s].words)})

EmbedderFails ==
    /\ Happens
    /\ job.at = "embedding"
    /\ job' = AtRest("failed")
    /\ UNCHANGED <<noteVars, texts, live, index, unseen, revived, searchVars>>

(* A row refers to the account whose it is.                                *)
OwnersExist == \A s \in job.stale : job.held[s].owner \in Present \cup {Nobody}

(* One transaction: replacements and removals land together.               *)
Reconcile(over) ==
    /\ job.at = "embedding"
    /\ OwnersExist
    /\ index' = [s \in Sources |-> CASE s \in job.stale -> job.held[s]
                                     [] s \in over      -> NoRow
                                     [] OTHER           -> index[s]]
    /\ revived' = revived \cup {n \in job.stale \cap NoteIds : ~Standing(n)}
    /\ UNCHANGED <<noteVars, texts, live, unseen, searchVars, events>>

LooksAgainUnless(finished) ==
    job' = IF finished THEN [AtRest("running") EXCEPT !.at = "clean"]
           ELSE [job EXCEPT !.at = "open", !.held = NoSources, !.stale = {}, !.over = {}]

(* Mutants: the loop runs once more than it may; it never looks again.     *)
WriteRowsOneMore == Reconcile(job.over) /\ LooksAgainUnless(job.passes > MaxPasses)
WriteRowsOnce == Reconcile(job.over) /\ LooksAgainUnless(TRUE)

WriteRows == Reconcile(job.over) /\ LooksAgainUnless(job.passes = MaxPasses)

WriteRefused ==
    /\ job.at = "embedding"
    /\ ~OwnersExist
    /\ job' = AtRest("failed")
    /\ UNCHANGED <<noteVars, texts, live, index, unseen, revived, searchVars, events>>

RecordSuccess ==
    /\ job.at = "clean"
    /\ job' = AtRest("done")
    /\ UNCHANGED <<noteVars, texts, live, index, unseen, revived, searchVars, events>>

(* The worker dies; the sweep of the next boot queues the job again.       *)
WorkerRestarts ==
    /\ Happens
    /\ job.state = "running"
    /\ job' = AtRest("pending")
    /\ UNCHANGED <<noteVars, texts, live, index, unseen, revived, searchVars>>

-----------------------------------------------------------------------------
(* Searches: the cache is asked, the query embedded, the table searched,   *)
(* and the answer kept unless the embedder was not available.              *)

Ask(m) ==
    /\ searching[m].at = "idle"
    /\ cache[m] = NoRow
    /\ searching' = [searching EXCEPT ![m].at = "asked"]
    /\ UNCHANGED <<noteVars, indexVars, cache, owed, events>>

SearchEmbeddings(m) ==
    /\ searching[m].at = "asked"
    /\ searching' = [searching EXCEPT ![m] =
         [at |-> "found", found |-> {s \in Sources : VisibleTo(m, s)}, outrun |-> FALSE]]
    /\ UNCHANGED <<noteVars, indexVars, cache, owed, events>>

KeepAnswer(m) ==
    /\ searching[m].at = "found"
    /\ cache' = [cache EXCEPT ![m] =
         [found |-> searching[m].found, outrun |-> searching[m].outrun]]
    /\ searching' = [searching EXCEPT ![m] = Idle]
    /\ UNCHANGED <<noteVars, indexVars, owed, events>>

AnswerUnkept(m) ==
    /\ searching[m].at = "found"
    /\ searching' = [searching EXCEPT ![m] = Idle]
    /\ UNCHANGED <<noteVars, indexVars, cache, owed, events>>

(* The handler of a committed write reaches its clear.  A search that has  *)
(* read and not kept is outrun by it.                                      *)
ClearSearchCache ==
    /\ owed > 0
    /\ owed' = owed - 1
    /\ cache' = [m \in Members |-> NoRow]
    /\ searching' = [m \in Members |-> [searching[m] EXCEPT !.outrun = searching[m].at = "found"]]
    /\ UNCHANGED <<noteVars, indexVars, events>>

(* The week ends, or the entry is the least recently read.                 *)
Expire(m) ==
    /\ cache[m] # NoRow
    /\ cache' = [cache EXCEPT ![m] = NoRow]
    /\ UNCHANGED <<noteVars, indexVars, searching, owed, events>>

(* The cache is of the process.                                            *)
WebRestarts ==
    /\ Happens
    /\ cache' = [m \in Members |-> NoRow]
    /\ searching' = [m \in Members |-> Idle]
    /\ owed' = 0
    /\ UNCHANGED <<noteVars, indexVars>>

-----------------------------------------------------------------------------

Init ==
    /\ NotesInit
    /\ texts = [transcript |-> 1, title |-> 1, summary |-> 0]
    /\ live = [recording |-> TRUE, summary |-> FALSE]
    /\ index = [s \in Sources |-> Current(s)]
    /\ job = AtRest("none")
    /\ searching = [m \in Members |-> Idle]
    /\ cache = [m \in Members |-> NoRow]
    /\ owed = 0
    /\ unseen = {}
    /\ revived = {}
    /\ events = 0

EmbedStep ==
    \/ OpenRecording \/ CollectSources \/ CompareRows \/ WriteRows \/ WriteRefused
    \/ RecordSuccess

TextWrite ==
    \/ \E part \in {"transcript", "title"} : EditText(part)
    \/ ApproveSummary \/ EditSummary \/ UnpublishSummary
    \/ PublishRecording \/ UnpublishRecording

MemberWrite(m) ==
    \/ \E n \in NoteIds, private \in BOOLEAN : CreateNote(m, n, private)
    \/ \E n \in NoteIds : EditNote(m, n) \/ DeleteNote(m, n)
    \/ \E other \in Members : BlockMember(m, other) \/ UnblockMember(m, other)
    \/ DeleteAccount(m)

Search(m) ==
    Ask(m) \/ SearchEmbeddings(m) \/ KeepAnswer(m) \/ AnswerUnkept(m) \/ Expire(m)

Next ==
    \/ EmbedStep \/ EmbedderFails \/ WorkerRestarts
    \/ TextWrite
    \/ \E m \in Present : MemberWrite(m) \/ (m \in Readers /\ Search(m))
    \/ AccountGone \/ AccountStays
    \/ ClearSearchCache \/ WebRestarts

Spec == Init /\ [][Next]_vars /\ WF_vars(EmbedStep)

-----------------------------------------------------------------------------
(* Properties.                                                             *)

(* When the embed job is done, every row of the index is what its source   *)
(* says now, and a source that is gone has none: what was written while    *)
(* the job ran is there too, except what came after its last look, a title *)
(* changed under it, and the quotation of a summary taken down since.      *)
IndexCatchesUp ==
    job.state \in {"none", "done"} =>
      \A s \in Sources : index[s] = Current(s) \/ Parts(s) \cap unseen # {}

(* An answer is kept for a week, so every write that hides something from  *)
(* its reader must end it: once no handler owes a clear, nothing kept is   *)
(* of a teaching taken down, a note removed or private to somebody else,   *)
(* or a member with a block between, one whose account was deleted since   *)
(* among them.  Excepted are an answer that was read before a clear and    *)
(* kept after it, a note whose row a running embed wrote again, and a      *)
(* block taken back while the account it names is being deleted: the       *)
(* deletion brings it back, against the placeholder.                       *)
KeptIsStillAllowed ==
    \A m \in Present :
      cache[m] # NoRow /\ owed = 0 => \/ cache[m].outrun
                                      \/ cache[m].found = {}
                                      \/ /\ live.recording
                                         /\ \A n \in cache[m].found \cap NoteIds :
                                              /\ Standing(n) \/ n \in revived
                                              /\ notes[n].private => notes[n].author = m
                                              /\ notes[n].author \in Present =>
                                                   ~BlockBetween(m, notes[n].author)
                                              /\ <<m, notes[n].author>> \notin shunned

(* A job that waits brings the index up to date with what differs, unless  *)
(* it fails or the source changes when it will not be looked at again.     *)
QueuedLookReachesIndex ==
    \A s \in Sources :
      (job.state = "pending" /\ index[s] # Current(s))
        ~> \/ index[s] = Current(s)
           \/ job.state = "failed"
           \/ Parts(s) \cap unseen # {}
=============================================================================
