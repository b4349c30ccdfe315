------------------------------ MODULE Chapters ------------------------------
(***************************************************************************)
(* The chapters of one teaching and the question asked about each: the two *)
(* pipeline steps that write them, with the draft between them in the      *)
(* chain, and the admins who move, split and merge chapters meanwhile.     *)
(* worker/src/{generate-chapters,generate-questions,chapters/boundaries}.ts, *)
(* db/src/{chapters,flow-tracker}.ts, web/src/server/chapters/service.ts,  *)
(* web/src/server/flow-tracker/questions.ts.                               *)
(*                                                                         *)
(* A chapter is an id and a start; its words are left out.  An admin's     *)
(* request is two steps: what its transaction reads under READ COMMITTED,  *)
(* and its writes, which hold their rows to the commit.  The ledger is the *)
(* one JobLedger has: a step that is unfinished answers a request for it.  *)
(***************************************************************************)
EXTENDS Naturals, SequencesExt

CONSTANTS
    Lines,       \* the starts of the transcript's segments
    MinChapter,  \* MIN_CHAPTER_MS
    Proposals,   \* sets of offsets a model may propose as boundaries
    Admins,
    MaxChapters, \* bound: chapters ever written
    MaxEvents    \* bound: edits, re-runs, failures and crashes

ASSUME ChaptersAssumption ==
    /\ Lines \subseteq Nat /\ IsFiniteSet(Lines) /\ Lines # {}
    /\ MinChapter \in Nat \ {0}
    /\ \A p \in Proposals : p \subseteq Nat /\ IsFiniteSet(p)
    /\ MaxChapters \in Nat /\ MaxEvents \in Nat

VARIABLES
    chapters,      \* the chapter table: the start of each chapter
    made,          \* how many ids have been given
    questions,     \* the question rows on chapters, by who wrote the words
    teachingAsked, \* whether there is a question on the whole teaching
    edit,          \* per admin: the edit in progress
    queue,         \* the pending jobs, oldest first
    worker,        \* the job in the worker's hands
    failed,        \* the steps whose latest finished job failed
    missed,        \* history: an edit joined the running questions job after
                   \* that had read what the edit changed
    events         \* how many outside events have happened

listVars == <<chapters, made, questions>>
ledgerVars == <<queue, worker, failed>>
chapterVars == <<listVars, teachingAsked, edit, ledgerVars, missed, events>>

-----------------------------------------------------------------------------
(* settleChapters: boundaries on lines, the first at the opening, none too *)
(* soon after the one before, and two of them or none.                     *)

MIN_CHAPTERS == 2

Opening == Min(Lines)

SnapToLine(offset) ==
    IF \E l \in Lines : l <= offset THEN Max({l \in Lines : l <= offset}) ELSE Opening

Placed(proposed) == {SnapToLine(x) : x \in proposed}

Opened(starts) == IF starts = {} THEN {} ELSE (starts \ {Min(starts)}) \cup {Opening}

(* Mutant: a boundary is measured from the one before it, kept or not.     *)
SpacedFromAny(starts) ==
    {s \in starts : \A t \in starts : t < s => s - t >= MinChapter}

Spaced(starts) ==
    LET kept[s \in starts] == \A t \in starts : t < s /\ kept[t] => s - t >= MinChapter
    IN  {s \in starts : kept[s]}

Settle(proposed) ==
    LET kept == Spaced(Opened(Placed(proposed)))
    IN  IF Cardinality(kept) < MIN_CHAPTERS THEN {} ELSE kept

-----------------------------------------------------------------------------

Exists(c) == c \in DOMAIN chapters

Starts(ids) == {chapters[c] : c \in ids}

Earlier(c) == {d \in DOMAIN chapters : chapters[d] < chapters[c]}
Later(c) == {d \in DOMAIN chapters : chapters[d] > chapters[c]}

(* The chapter before one that is not the first.                           *)
Previous(c) == CHOOSE d \in Earlier(c) : \A e \in Earlier(c) : chapters[e] <= chapters[d]

Inside(start, c) == /\ start > chapters[c]
                    /\ \A d \in Later(c) : start < chapters[d]

(* Rows taken from a table, and rows put in, over any that are there.      *)
Without(f, ids) == Restrict(f, DOMAIN f \ ids)
With(f, g) == [c \in DOMAIN f \cup DOMAIN g |-> IF c \in DOMAIN g THEN g[c] ELSE f[c]]
Each(ids, value) == [c \in ids |-> value]

JobSteps == {"generate_chapters", "generate_draft", "generate_questions"}

Resting == [step |-> "none", at |-> "", proposed |-> {}, cleared |-> {},
            divided |-> FALSE, subjects |-> {}, whole |-> FALSE]

Running(step) == [Resting EXCEPT !.step = step, !.at = "open"]

IdleEdit == [at |-> "idle", chapters |-> {}, start |-> 0, survivor |-> {}]

ChaptersTypeOK ==
    /\ made \in 0..MaxChapters
    /\ DOMAIN chapters \subseteq 1..made /\ chapters \in [DOMAIN chapters -> Lines]
    /\ IsInjective(chapters)
    /\ DOMAIN questions \subseteq DOMAIN chapters
    /\ questions \in [DOMAIN questions -> {"model", "admin"}]
    /\ teachingAsked \in BOOLEAN
    /\ edit \in [Admins -> [at : {"idle", "move", "split", "merge"}, chapters : SUBSET (1..made),
                            start : Lines \cup {0}, survivor : SUBSET (1..made)]]
    /\ queue \in Seq(JobSteps) /\ IsInjective(queue)
    /\ worker.step \in JobSteps \cup {"none"}
    /\ worker.step \notin Range(queue)
    /\ worker.at \in {"", "open", "answered", "cleared", "listed", "asking"}
    /\ worker.cleared \subseteq 1..made /\ worker.subjects \subseteq 1..made
    /\ failed \subseteq JobSteps
    /\ missed \in BOOLEAN
    /\ events \in 0..MaxEvents

ChaptersInit ==
    /\ chapters = <<>> /\ made = 0 /\ questions = <<>> /\ teachingAsked = FALSE
    /\ edit = [a \in Admins |-> IdleEdit]
    /\ queue = <<"generate_chapters">> /\ worker = Resting
    /\ failed = {} /\ missed = FALSE /\ events = 0

Happens == events < MaxEvents /\ events' = events + 1

(* Mutant: a step that is queued or running is queued once more.           *)
QueuedAgain(q, step) == Append(q, step)

(* enqueueJob: an unfinished job of the step is the answer.                *)
Queued(q, step) ==
    IF step \in Range(q) \/ worker.step = step THEN q ELSE Append(q, step)

-----------------------------------------------------------------------------
(* The admins.  requireChapter and listChapters, then the checks.          *)

Opens(a, at, ids, start, survivor) ==
    /\ edit[a].at = "idle"
    /\ Happens
    /\ edit' = [edit EXCEPT ![a] = [at |-> at, chapters |-> ids, start |-> start,
                                    survivor |-> survivor]]
    /\ UNCHANGED <<listVars, teachingAsked, ledgerVars, missed>>

(* A boundary stays strictly between its neighbours'.                      *)
ReadForMove(a, c, start) ==
    /\ Earlier(c) # {}
    /\ start # chapters[c]
    /\ start > chapters[Previous(c)] /\ \A d \in Later(c) : start < chapters[d]
    /\ Opens(a, "move", {c}, start, {})

ReadForSplit(a, c, start) ==
    /\ Inside(start, c)
    /\ Opens(a, "split", {c}, start, {})

(* The last two are emptied together, and leave no survivor.               *)
ReadForMerge(a, c) ==
    /\ Earlier(c) # {}
    /\ LET emptied == Cardinality(DOMAIN chapters) <= MIN_CHAPTERS
       IN  Opens(a, "merge", IF emptied THEN DOMAIN chapters ELSE {c}, 0,
                 IF emptied THEN {} ELSE {Previous(c)})

Closes(a) == edit' = [edit EXCEPT ![a] = IdleEdit]

(* A row the worker has deleted and not committed is waited for, and so is *)
(* the key of its start.                                                   *)
Waits(ids, start) == worker.cleared # {} /\ (ids \cap worker.cleared # {}
                                             \/ start \in Starts(worker.cleared \cap DOMAIN chapters))

(* updateChapter: a chapter that is gone, or a start that is taken, rolls  *)
(* the request back.                                                       *)
MoveBoundary(a) ==
    LET e == edit[a] IN
    /\ e.at = "move"
    /\ ~Waits(e.chapters, e.start)
    /\ Closes(a)
    /\ chapters' = IF e.chapters \subseteq DOMAIN chapters /\ e.start \notin Range(chapters)
                   THEN [c \in DOMAIN chapters |-> IF c \in e.chapters THEN e.start ELSE chapters[c]]
                   ELSE chapters
    /\ UNCHANGED <<made, questions, teachingAsked, ledgerVars, missed, events>>

(* An edit asks for questions; the job that runs is the answer to that,    *)
(* and sees the edit only if it has still to read what the edit changed.   *)
AsksForQuestions(divided) ==
    /\ queue' = Queued(queue, "generate_questions")
    /\ missed' = (missed \/ worker.at = "asking" \/ (worker.at = "listed" /\ worker.divided # divided))

(* insertChapter.                                                          *)
SplitChapter(a) ==
    LET e == edit[a] IN
    /\ e.at = "split" /\ made < MaxChapters
    /\ ~Waits({}, e.start)
    /\ Closes(a)
    /\ IF e.start \in Range(chapters)
       THEN UNCHANGED <<chapters, made, queue, missed>>
       ELSE /\ made' = made + 1
            /\ chapters' = With(chapters, Each({made + 1}, e.start))
            /\ AsksForQuestions(TRUE)
    /\ UNCHANGED <<questions, teachingAsked, worker, failed, events>>

(* Mutant: a merge asks for no question in place of the one it takes.      *)
MergeChapterUnasked(a) ==
    LET e == edit[a] IN
    /\ e.at = "merge"
    /\ ~Waits(e.chapters \cup e.survivor, 0)
    /\ Closes(a)
    /\ chapters' = Without(chapters, e.chapters)
    /\ questions' = Without(questions, e.chapters \cup e.survivor)
    /\ UNCHANGED <<made, teachingAsked, ledgerVars, missed, events>>

(* deleteChapter for each, whether or not it finds a row; the survivor's   *)
(* question goes.                                                          *)
MergeChapter(a) ==
    LET e == edit[a] IN
    /\ e.at = "merge"
    /\ ~Waits(e.chapters \cup e.survivor, 0)
    /\ Closes(a)
    /\ chapters' = Without(chapters, e.chapters)
    /\ questions' = Without(questions, e.chapters \cup e.survivor)
    /\ AsksForQuestions(DOMAIN chapters' # {})
    /\ UNCHANGED <<made, teachingAsked, worker, failed, events>>

(* setChapterQuestion: update, or insert.                                  *)
SetQuestion(c) ==
    /\ ~Waits({c}, 0)
    /\ Happens
    /\ questions' = With(questions, Each({c}, "admin"))
    /\ UNCHANGED <<chapters, made, teachingAsked, edit, ledgerVars, missed>>

-----------------------------------------------------------------------------
(* The worker: one job at a time, the oldest first.                        *)

AskFor(step) ==
    /\ Happens
    /\ queue' = Queued(queue, step)
    /\ UNCHANGED <<listVars, teachingAsked, edit, worker, failed, missed>>

Claim ==
    /\ worker.step = "none" /\ queue # <<>>
    /\ worker' = Running(Head(queue))
    /\ queue' = Tail(queue)
    /\ missed' = (missed /\ Head(queue) # "generate_questions")
    /\ UNCHANGED <<listVars, teachingAsked, edit, failed, events>>

At(step, point) == worker.step = step /\ worker.at = point

(* The chain queues the successor with the success.                        *)
Succeeds(successors) ==
    /\ worker' = Resting
    /\ failed' = failed \ {worker.step}
    /\ queue' = queue \o SetToSeq(successors \ Range(queue))

Fails == worker' = Resting /\ failed' = failed \cup {worker.step} /\ queue' = queue

ModelDivides ==
    /\ At("generate_chapters", "open")
    /\ \E p \in Proposals : worker' = [worker EXCEPT !.at = "answered", !.proposed = p]
    /\ UNCHANGED <<listVars, teachingAsked, edit, queue, failed, missed, events>>

(* replaceChapters: the delete, and then the insert and the commit.        *)
ClearChapters ==
    /\ At("generate_chapters", "answered")
    /\ worker' = [worker EXCEPT !.at = "cleared", !.cleared = DOMAIN chapters]
    /\ UNCHANGED <<listVars, teachingAsked, edit, queue, failed, missed, events>>

ReplaceChapters ==
    LET starts == Settle(worker.proposed)
        kept == Without(chapters, worker.cleared)
        rows == SetToSeq(starts)   \* an id is drawn at random, and says nothing of the order
    IN
    /\ At("generate_chapters", "cleared")
    /\ IF starts \cap Range(kept) # {}
       THEN Fails /\ UNCHANGED listVars
       ELSE /\ made' = made + Len(rows) /\ made' \in made..MaxChapters
            /\ chapters' = With(kept, [c \in made + 1 .. made' |-> rows[c - made]])
            /\ questions' = Without(questions, worker.cleared)
            /\ Succeeds({"generate_draft"})
    /\ UNCHANGED <<teachingAsked, edit, missed, events>>

DraftEnds ==
    /\ At("generate_draft", "open")
    /\ Succeeds({"generate_questions"})
    /\ UNCHANGED <<listVars, teachingAsked, edit, missed, events>>

ListChapters ==
    /\ At("generate_questions", "open")
    /\ worker' = [worker EXCEPT !.at = "listed", !.divided = DOMAIN chapters # {}]
    /\ UNCHANGED <<listVars, teachingAsked, edit, queue, failed, missed, events>>

(* listChaptersMissingQuestions, or findRecordingQuestion.                 *)
FindMissing ==
    /\ At("generate_questions", "listed")
    /\ worker' = [worker EXCEPT
                    !.at = "asking",
                    !.subjects = IF worker.divided THEN DOMAIN chapters \ DOMAIN questions ELSE {},
                    !.whole = ~worker.divided /\ ~teachingAsked]
    /\ UNCHANGED <<listVars, teachingAsked, edit, queue, failed, missed, events>>

NothingMissing ==
    /\ At("generate_questions", "asking")
    /\ worker.subjects = {} /\ ~worker.whole
    /\ teachingAsked' = (teachingAsked /\ ~worker.divided)
    /\ Succeeds({})
    /\ UNCHANGED <<listVars, edit, missed, events>>

(* Mutant: a question that is there already is written over.               *)
WriteQuestionsOver ==
    /\ At("generate_questions", "asking")
    /\ worker.subjects # {} \/ worker.whole
    /\ IF worker.subjects \subseteq DOMAIN chapters
       THEN /\ questions' = With(questions, Each(worker.subjects, "model"))
            /\ teachingAsked' = worker.whole
            /\ Succeeds({})
       ELSE Fails /\ UNCHANGED <<questions, teachingAsked>>
    /\ UNCHANGED <<chapters, made, edit, missed, events>>

(* insertGeneratedQuestions: a chapter that is gone, or has a question by  *)
(* now, refuses the whole write.                                           *)
WriteQuestions ==
    /\ At("generate_questions", "asking")
    /\ worker.subjects # {} \/ worker.whole
    /\ IF worker.subjects \subseteq DOMAIN chapters \ DOMAIN questions
       THEN /\ questions' = With(questions, Each(worker.subjects, "model"))
            /\ teachingAsked' = worker.whole
            /\ Succeeds({})
       ELSE Fails /\ UNCHANGED <<questions, teachingAsked>>
    /\ UNCHANGED <<chapters, made, edit, missed, events>>

(* The model fails, or leaves a subject out.                               *)
ModelFails ==
    /\ \/ worker.step \in {"generate_chapters", "generate_draft"} /\ worker.at = "open"
       \/ At("generate_questions", "asking") /\ (worker.subjects # {} \/ worker.whole)
    /\ Happens
    /\ Fails
    /\ UNCHANGED <<listVars, teachingAsked, edit, missed>>

(* The next boot's sweep queues a fresh attempt.                           *)
WorkerDies ==
    /\ worker.step # "none"
    /\ Happens
    /\ worker' = Resting
    /\ queue' = Append(queue, worker.step)
    /\ UNCHANGED <<listVars, teachingAsked, edit, failed, missed>>

EditChapters ==
    \/ \E a \in Admins : MoveBoundary(a) \/ SplitChapter(a) \/ MergeChapter(a)
    \/ \E a \in Admins, c \in DOMAIN chapters :
          \/ \E start \in Lines : ReadForMove(a, c, start) \/ ReadForSplit(a, c, start)
          \/ ReadForMerge(a, c)
    \/ \E c \in DOMAIN chapters : SetQuestion(c)

RunJobs ==
    \/ \E step \in JobSteps : AskFor(step)
    \/ Claim \/ ModelDivides \/ ClearChapters \/ ReplaceChapters \/ DraftEnds
    \/ ListChapters \/ FindMissing \/ NothingMissing \/ WriteQuestions
    \/ ModelFails \/ WorkerDies

ChaptersNext == EditChapters \/ RunJobs

-----------------------------------------------------------------------------
(* What should be true.                                                    *)

(* The list the step is about to write tiles the teaching (3.22.2, 3.22.4, *)
(* 3.22.5): it begins at the first line, every boundary is on a line and   *)
(* is one the model proposed, no chapter but the last is shorter than the  *)
(* floor, and no boundary was given up that could have been kept.          *)
Tiles(list, proposed) ==
    /\ list \subseteq Opened(Placed(proposed)) /\ list \subseteq Lines
    /\ list # {} => Opening \in list /\ Cardinality(list) >= MIN_CHAPTERS
    /\ \A s, t \in list : s < t => t - s >= MinChapter
    /\ \A s \in Opened(Placed(proposed)) \ list :
          \/ \E t \in list : t < s /\ s - t < MinChapter
          \/ list = {} /\ s - Opening < MinChapter

SettledListTiles ==
    At("generate_chapters", "cleared") => Tiles(Settle(worker.proposed), worker.proposed)

(* The questions step "fills gaps and discards nothing" (generate-questions.ts): *)
(* once nothing is queued or running, no step has failed, and no edit has  *)
(* joined a run that had already looked, every chapter has its question    *)
(* and the teaching has one of its own exactly when it has no chapters.    *)
QuestionsInPlace ==
    /\ queue = <<>> /\ worker.step = "none"
    /\ failed = {}
    /\ ~missed
    => /\ DOMAIN questions = DOMAIN chapters
       /\ teachingAsked <=> DOMAIN chapters = {}

(* A question an admin wrote is never replaced by the step: a merge takes  *)
(* it away, and so does a new list, but no run writes over it, though it   *)
(* looked for what is missing before it asked the model (3.14.11, 3.14.12).*)
AdminWordsStand ==
    [][\A c \in DOMAIN questions \cap DOMAIN questions' :
          questions[c] = "admin" => questions'[c] = "admin"]_chapterVars
=============================================================================
