---------------------------- MODULE ReviewQueue ----------------------------
(***************************************************************************)
(* The review queue of one teaching: drafts a job writes, the admins who   *)
(* approve, discard or regenerate them, and the words members read.        *)
(* web/src/server/reviews/service.ts, recordings/publication.ts,           *)
(* transcripts/service.ts (regenerateSummary), db/src/{reviews,summaries,  *)
(* scripture,mind-maps}.ts, worker/src/generate-draft.ts.                  *)
(*                                                                         *)
(* An action is one statement on the database, or a run of statements that *)
(* no lock of another request can come between.  What a request has        *)
(* written and not committed stays in its record; its row locks are read   *)
(* off where it stands.                                                    *)
(***************************************************************************)
EXTENDS Naturals, Sequences, FiniteSets

CONSTANTS
    TextKinds,   \* kinds of draft approved as a text: summary, recording_metadata
    ListKinds,   \* scripture
    TreeKinds,   \* mind_map
    SummaryKinds,\* what a new summary after a correction is generated with
    Admins,
    MaxItems,    \* bound: drafts ever written
    MaxEvents    \* bound: jobs asked for by the chain, crashes and failures

Kinds == TextKinds \cup ListKinds \cup TreeKinds

ASSUME ReviewAssumption ==
    /\ TextKinds \cap ListKinds = {} /\ TextKinds \cap TreeKinds = {}
    /\ ListKinds \cap TreeKinds = {}
    /\ IsFiniteSet(Kinds) /\ SummaryKinds \subseteq Kinds
    /\ MaxItems \in Nat /\ Cardinality(SummaryKinds) <= MaxItems
    /\ MaxEvents \in Nat

VARIABLES
    items,     \* the review_item table, oldest first; a row deleted while
               \* it was a draft reads "discarded"
    approved,  \* per kind: the items whose words members read
    request,   \* per admin: the request in progress
    job,       \* the teaching's latest generate_draft job
    owed,      \* history: items discarded for another draft that has not come
    crossed,   \* history: of these, the ones a job asked for meanwhile left out
    events     \* how many outside events have happened

vars == <<items, approved, request, job, owed, crossed, events>>

-----------------------------------------------------------------------------

Item == [kind : Kinds, status : {"draft", "published", "discarded"}]

Points == {"idle", "opened", "clear", "written", "closed", "emptied"}

Idle == [at |-> "idle", item |-> 0, emptied |-> {}, raced |-> FALSE]

NoJob == [state |-> "none", kinds |-> {}, drafted |-> FALSE]

Unfinished == job.state \in {"pending", "running"}

Ids == 1..Len(items)

Open(k) == {i \in Ids : items[i].kind = k /\ items[i].status = "draft"}

Published(k) == {i \in Ids : items[i].kind = k /\ items[i].status = "published"}

KindOf(a) == items[request[a].item].kind

TypeOK ==
    /\ items \in Seq(Item) /\ Len(items) <= MaxItems
    /\ approved \in [Kinds -> SUBSET Ids]
    /\ request \in [Admins -> [at : Points, item : 0..Len(items),
                               emptied : SUBSET Ids, raced : BOOLEAN]]
    /\ job \in [state : {"none", "pending", "running", "done", "failed"},
                kinds : SUBSET Kinds, drafted : BOOLEAN]
    /\ owed \subseteq Ids /\ crossed \subseteq Ids
    /\ events \in 0..MaxEvents

(* A request that has closed an item and not committed holds its row.      *)
ItemLocked(i) == \E a \in Admins : request[a].at \in {"closed", "emptied"} /\ request[a].item = i

(* One that has written a text holds the row members read; one that has    *)
(* emptied a list holds the rows it deleted.                               *)
WordsLocked(k) ==
    \E a \in Admins :
        /\ \/ request[a].at = "written"
           \/ request[a].at = "emptied" /\ request[a].emptied # {}
        /\ KindOf(a) = k

-----------------------------------------------------------------------------
(* Asking for a generation.  A request for another draft that has found    *)
(* nothing in flight is outrun by every job asked for before its own.      *)

Happens == events < MaxEvents /\ events' = events + 1

Outrun(requests) ==
    [a \in Admins |-> [requests[a] EXCEPT !.raced = @ \/ requests[a].at = "clear"]]

(* The unfinished job, whatever it was asked for, is the answer.           *)
Enqueue(kinds, requests) ==
    /\ job' = IF Unfinished THEN job ELSE [NoJob EXCEPT !.state = "pending", !.kinds = kinds]
    /\ request' = IF Unfinished THEN requests ELSE Outrun(requests)

(* The chain, or a re-run from the pipeline view: without a payload.       *)
AskForAll ==
    /\ Happens
    /\ Enqueue(Kinds, request)
    /\ UNCHANGED <<items, approved, owed, crossed>>

-----------------------------------------------------------------------------
(* Requests on an item.                                                    *)

(* requireOpenItem.                                                        *)
OpenItem(a, i) ==
    /\ request[a].at = "idle"
    /\ items[i].status = "draft"
    /\ request' = [request EXCEPT ![a] = [Idle EXCEPT !.at = "opened", !.item = i]]
    /\ UNCHANGED <<items, approved, job, owed, crossed, events>>

Ends(a) == request' = [request EXCEPT ![a] = Idle]

(* closeReviewItem updates a draft only, once nobody holds the row.        *)
Closes(a, status) ==
    /\ ~ItemLocked(request[a].item)
    /\ items[request[a].item].status = "draft"
    /\ items' = [items EXCEPT ![request[a].item].status = status]

ClosedAlready(a) ==
    /\ ~ItemLocked(request[a].item)
    /\ items[request[a].item].status # "draft"
    /\ UNCHANGED <<items, approved, job, owed, crossed, events>>

Discard(a) ==
    /\ request[a].at = "opened"
    /\ \/ Closes(a, "discarded") /\ UNCHANGED <<approved, job, owed, crossed, events>>
       \/ ClosedAlready(a)
    /\ Ends(a)

(* A text is written first and the item closed after it.                   *)
PublishText(a) ==
    /\ request[a].at = "opened"
    /\ KindOf(a) \in TextKinds
    /\ ~WordsLocked(KindOf(a))
    /\ request' = [request EXCEPT ![a].at = "written"]
    /\ UNCHANGED <<items, approved, job, owed, crossed, events>>

Commits(a) ==
    /\ Closes(a, "published")
    /\ approved' = [approved EXCEPT ![KindOf(a)] = {request[a].item}]
    /\ UNCHANGED <<job, owed, crossed, events>>

(* Mutant: a close that found nothing to close does not end in a rollback. *)
CloseTextUnchecked(a) ==
    /\ request[a].at = "written"
    /\ \/ Commits(a)
       \/ /\ items[request[a].item].status # "draft"
          /\ approved' = [approved EXCEPT ![KindOf(a)] = {request[a].item}]
          /\ UNCHANGED <<items, job, owed, crossed, events>>
    /\ Ends(a)

(* Mutant: the refusal leaves the transaction open.                        *)
CloseTextHolding(a) ==
    /\ request[a].at = "written"
    /\ \/ Commits(a) /\ Ends(a)
       \/ ClosedAlready(a) /\ UNCHANGED request

CloseText(a) ==
    /\ request[a].at = "written"
    /\ Commits(a) \/ ClosedAlready(a)
    /\ Ends(a)

(* A list and a tree are closed first and written after it.                *)
CloseFirst(a) ==
    /\ request[a].at = "opened"
    /\ KindOf(a) \notin TextKinds
    /\ \/ /\ ~ItemLocked(request[a].item)
          /\ items[request[a].item].status = "draft"
          /\ request' = [request EXCEPT ![a].at = "closed"]
          /\ UNCHANGED <<items, approved, job, owed, crossed, events>>
       \/ ClosedAlready(a) /\ Ends(a)

(* The delete sees the rows committed before it.                           *)
DeleteReferences(a) ==
    /\ request[a].at = "closed"
    /\ KindOf(a) \in ListKinds
    /\ ~WordsLocked(KindOf(a))
    /\ request' = [request EXCEPT ![a].at = "emptied", ![a].emptied = approved[KindOf(a)]]
    /\ UNCHANGED <<items, approved, job, owed, crossed, events>>

InsertReferences(a) ==
    /\ request[a].at = "emptied"
    /\ approved' = [approved EXCEPT ![KindOf(a)] = (@ \ request[a].emptied) \cup {request[a].item}]
    /\ items' = [items EXCEPT ![request[a].item].status = "published"]
    /\ Ends(a)
    /\ UNCHANGED <<job, owed, crossed, events>>

PublishMindMap(a) ==
    /\ request[a].at = "closed"
    /\ KindOf(a) \in TreeKinds
    /\ approved' = [approved EXCEPT ![KindOf(a)] = {request[a].item}]
    /\ items' = [items EXCEPT ![request[a].item].status = "published"]
    /\ Ends(a)
    /\ UNCHANGED <<job, owed, crossed, events>>

-----------------------------------------------------------------------------
(* Asking for another draft.                                               *)

RegenerateSummary(a) ==
    /\ request[a].at = "idle"
    /\ ~Unfinished
    /\ Happens
    /\ request' = [request EXCEPT ![a] = [Idle EXCEPT !.at = "clear"]]
    /\ UNCHANGED <<items, approved, job, owed, crossed>>

(* Mutant: it asks for a kind that no generator knows.                     *)
EnqueueSummaryUnknown(a) ==
    /\ request[a].at = "clear" /\ request[a].item = 0
    /\ Enqueue(SummaryKinds \cup {"chapters"}, [request EXCEPT ![a] = Idle])
    /\ UNCHANGED <<items, approved, owed, crossed, events>>

EnqueueSummary(a) ==
    /\ request[a].at = "clear" /\ request[a].item = 0
    /\ Enqueue(SummaryKinds, [request EXCEPT ![a] = Idle])
    /\ UNCHANGED <<items, approved, owed, crossed, events>>

(* Mutant: the check is left to the unique index.                          *)
FindUnfinishedUnasked(a) ==
    /\ request[a].at = "opened"
    /\ request' = [request EXCEPT ![a].at = "clear"]
    /\ UNCHANGED <<items, approved, job, owed, crossed, events>>

(* One generation in flight, or the request is refused.                    *)
FindUnfinished(a) ==
    /\ request[a].at = "opened"
    /\ IF Unfinished THEN Ends(a) ELSE request' = [request EXCEPT ![a].at = "clear"]
    /\ UNCHANGED <<items, approved, job, owed, crossed, events>>

(* One transaction.  A job that another request asked for since the check  *)
(* takes this one's place.                                                 *)
DiscardAndEnqueue(a) ==
    LET i == request[a].item IN
    /\ request[a].at = "clear" /\ i # 0
    /\ \/ /\ Closes(a, "discarded")
          /\ Enqueue({items[i].kind}, [request EXCEPT ![a] = Idle])
          /\ owed' = owed \cup {i}
          /\ crossed' = IF request[a].raced THEN crossed \cup {i} ELSE crossed
          /\ UNCHANGED <<approved, events>>
       \/ ClosedAlready(a) /\ Ends(a)

(* The day's ceiling refuses, the connection is lost or the process ends:  *)
(* what was not committed was never there.                                 *)
GiveUp(a) ==
    /\ request[a].at \notin {"idle", "opened"}
    /\ Ends(a)
    /\ UNCHANGED <<items, approved, job, owed, crossed, events>>

-----------------------------------------------------------------------------
(* The worker.                                                             *)

Claim ==
    /\ job.state = "pending"
    /\ job' = [job EXCEPT !.state = "running"]
    /\ UNCHANGED <<items, approved, request, owed, crossed, events>>

Served ==
    /\ owed' = {i \in owed : items[i].kind \notin job.kinds}
    /\ crossed' = crossed \cap owed'

Drafts(kinds) ==
    LET fresh == CHOOSE s \in [1..Cardinality(kinds) -> kinds] : \A k \in kinds : \E n \in DOMAIN s : s[n] = k
    IN  [n \in DOMAIN fresh |-> [kind |-> fresh[n], status |-> "draft"]]

(* One transaction: the open drafts of these kinds are deleted, waiting    *)
(* for whoever is closing one, and new ones inserted.                      *)
Replaces(deleted) ==
    /\ job.state = "running" /\ ~job.drafted
    /\ Len(items) + Cardinality(job.kinds) <= MaxItems
    /\ \A i \in deleted : ~ItemLocked(i)
    /\ items' = [i \in Ids |-> IF i \in deleted THEN [items[i] EXCEPT !.status = "discarded"]
                               ELSE items[i]] \o Drafts(job.kinds)
    /\ job' = [job EXCEPT !.drafted = TRUE]
    /\ Served
    /\ UNCHANGED <<approved, request, events>>

ReplaceOpenDrafts == Replaces(UNION {Open(k) : k \in job.kinds})

RecordSuccess ==
    /\ job.state = "running" /\ job.drafted
    /\ job' = [NoJob EXCEPT !.state = "done"]
    /\ UNCHANGED <<items, approved, request, owed, crossed, events>>

(* No transcript, an answer in the wrong shape, a ceiling, a sweep that    *)
(* counts too many crashes.                                                *)
GenerationFails ==
    /\ Happens
    /\ job.state = "running" /\ ~job.drafted
    /\ job' = [NoJob EXCEPT !.state = "failed"]
    /\ Served
    /\ UNCHANGED <<items, approved, request>>

(* The sweep queues the step again without its payload: for every kind.    *)
WorkerRestarts ==
    /\ Happens
    /\ job.state = "running"
    /\ job' = [NoJob EXCEPT !.state = "pending", !.kinds = Kinds]
    /\ request' = Outrun(request)
    /\ UNCHANGED <<items, approved, owed, crossed>>

-----------------------------------------------------------------------------

Init ==
    /\ items = Drafts(SummaryKinds)
    /\ approved = [k \in Kinds |-> {}]
    /\ request = [a \in Admins |-> Idle]
    /\ job = NoJob
    /\ owed = {}
    /\ crossed = {}
    /\ events = 0

Resolve(a) == Discard(a) \/ PublishText(a) \/ CloseFirst(a)

Finish(a) == CloseText(a) \/ DeleteReferences(a) \/ InsertReferences(a) \/ PublishMindMap(a)

Regenerate(a) == FindUnfinished(a) \/ DiscardAndEnqueue(a) \/ EnqueueSummary(a)

Generate == Claim \/ ReplaceOpenDrafts \/ RecordSuccess

Next ==
    \/ \E a \in Admins :
         \/ \E i \in Ids : OpenItem(a, i)
         \/ Resolve(a) \/ Finish(a) \/ Regenerate(a) \/ RegenerateSummary(a) \/ GiveUp(a)
    \/ AskForAll
    \/ Generate \/ GenerationFails \/ WorkerRestarts

Spec == Init /\ [][Next]_vars /\ \A a \in Admins : WF_vars(Finish(a))

-----------------------------------------------------------------------------
(* Properties.                                                             *)

(* What members read of a kind is what was approved last, whole: not the   *)
(* words of a draft discarded or replaced meanwhile, not those of an       *)
(* earlier approval, and no union of two lists.                            *)
LatestApprovedStands ==
    \A k \in Kinds :
        approved[k] = {i \in Published(k) : \A j \in Published(k) : j <= i}

(* An item thrown away for another draft has a job unfinished that will    *)
(* write it, until that draft comes or the job fails; but for requests     *)
(* that checked before another's job was asked for and discarded after.    *)
DiscardIsFollowed ==
    \A i \in owed \ crossed : Unfinished /\ ~job.drafted /\ items[i].kind \in job.kinds

(* A request that has begun to write ends: no two wait for each other's    *)
(* rows, and the worker's delete waits for none that waits for it.         *)
RequestsEnd == \A a \in Admins : request[a].at \in {"written", "closed", "emptied"} ~> request[a].at = "idle"
=============================================================================
