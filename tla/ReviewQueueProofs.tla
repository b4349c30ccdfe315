------------------------- MODULE ReviewQueueProofs -------------------------
(***************************************************************************)
(* What TLAPS proves of ReviewQueue, for any kinds of draft, any number of *)
(* admins and any bounds: members read what was approved last, and a draft *)
(* thrown away for another has a job behind it.                            *)
(*                                                                         *)
(* Both rest on what is never said in one place of the code: a kind has    *)
(* one open draft at most, and that one is the latest of its kind.         *)
(***************************************************************************)
EXTENDS ReviewQueue, SequenceTheorems, FiniteSetTheorems, TLAPS

Holding(r) == r.at \in {"closed", "emptied"}

(* A request past its first statement is about an item there is; one that  *)
(* asks for another summary alone is about none.                           *)
RequestsNamed ==
    \A a \in Admins :
        request[a].at \in {"opened", "written", "closed", "emptied"} => request[a].item \in Ids

(* An open draft is the latest item of its kind.                           *)
DraftIsLatest ==
    \A i, j \in Ids :
        items[i].status = "draft" /\ items[j].kind = items[i].kind => j <= i

(* What a request has closed and not committed is an open draft to all the *)
(* others, and nobody else has closed it.                                  *)
HeldIsOpen ==
    \A a \in Admins : Holding(request[a]) =>
        /\ items[request[a].item].status = "draft"
        /\ \A b \in Admins \ {a} : Holding(request[b]) => request[b].item # request[a].item

(* The rows a request has deleted are still all there are.                 *)
EmptiedIsAll ==
    \A a \in Admins : request[a].at = "emptied" => request[a].emptied = approved[KindOf(a)]

Words == RequestsNamed /\ DraftIsLatest /\ HeldIsOpen /\ EmptiedIsAll /\ LatestApprovedStands

WordsInv == TypeOK /\ Words

(* A request that found nothing in flight and was not outrun is right      *)
(* still.                                                                  *)
ClearIsClear == \A a \in Admins : request[a].at = "clear" /\ ~request[a].raced => ~Unfinished

JobInv == ClearIsClear /\ DiscardIsFollowed

Requests == [at : Points, item : 0..Len(items), emptied : SUBSET Ids, raced : BOOLEAN]

-----------------------------------------------------------------------------
(* What the writes of the module do to the table.                          *)

(* New drafts: one of each kind asked for.                                 *)
LEMMA DraftsOfKinds ==
    ASSUME NEW kinds \in SUBSET Kinds
    PROVE  /\ Drafts(kinds) \in Seq(Item)
           /\ Len(Drafts(kinds)) = Cardinality(kinds) /\ Cardinality(kinds) \in Nat
           /\ \A n \in 1..Len(Drafts(kinds)) : /\ Drafts(kinds)[n].status = "draft"
                                               /\ Drafts(kinds)[n].kind \in kinds
           /\ \A m, n \in 1..Len(Drafts(kinds)) :
                Drafts(kinds)[m].kind = Drafts(kinds)[n].kind => m = n
<1> DEFINE c == Cardinality(kinds)
           Lists(s) == \A k \in kinds : \E n \in DOMAIN s : s[n] = k
           fresh == CHOOSE s \in [1..c -> kinds] : Lists(s)
<1>1. IsFiniteSet(kinds) /\ c \in Nat
  BY ReviewAssumption, FS_Subset, FS_CardinalityType
<1>2. PICK f : f \in Bijection(1..c, kinds)
  BY <1>1, FS_CardinalityType DEF ExistsBijection
<1>3. f \in [1..c -> kinds] /\ Lists(f)
  BY <1>2 DEF Bijection, Injection, Surjection
<1>4. fresh \in [1..c -> kinds] /\ Lists(fresh)
  BY <1>3
<1> HIDE DEF fresh
<1>5. fresh \in Surjection(1..c, kinds)
  BY <1>4 DEF Surjection
<1>6. IsFiniteSet(1..c) /\ Cardinality(1..c) = c
  BY <1>1, FS_Interval
<1>7. fresh \in Injection(1..c, kinds)
  BY <1>5, <1>6, FS_SurjSameCardinalityImpliesInj
<1>8. \A m, n \in 1..c : fresh[m] = fresh[n] => m = n
  BY <1>7 DEF Injection, IsInjective
<1>9. Drafts(kinds) = [n \in 1..c |-> [kind |-> fresh[n], status |-> "draft"]]
  BY <1>4 DEF Drafts, fresh
<1>10. \A n \in 1..c : [kind |-> fresh[n], status |-> "draft"] \in Item
  BY <1>4 DEF Item
<1>11. Drafts(kinds) \in Seq(Item) /\ Len(Drafts(kinds)) = c
  BY <1>1, <1>9, <1>10
<1> QED BY <1>1, <1>4, <1>8, <1>9, <1>11

(* Closing an item.                                                        *)
LEMMA ClosedItem ==
    ASSUME items \in Seq(Item), NEW i \in Ids, NEW status \in {"draft", "published", "discarded"},
           items' = [items EXCEPT ![i].status = status]
    PROVE  /\ items' \in Seq(Item) /\ Len(items') = Len(items) /\ Ids' = Ids
           /\ \A j \in Ids : /\ items'[j].kind = items[j].kind
                             /\ items'[j].status = IF j = i THEN status ELSE items[j].status
<1>1. [items[i] EXCEPT !.status = status] \in Item
  <2>1. items[i] \in Item
    BY DEF Ids
  <2> QED BY <2>1 DEF Item
<1>2. items' = [items EXCEPT ![i] = [items[i] EXCEPT !.status = status]]
  OBVIOUS
<1>3. items' \in Seq(Item) /\ Len(items') = Len(items)
  BY <1>1, <1>2 DEF Ids
<1>4. \A j \in Ids : items[j] \in Item
  BY DEF Ids
<1> QED BY <1>2, <1>3, <1>4 DEF Ids, Item

(* Replacing the open drafts of the job's kinds.                           *)
LEMMA ReplacedItems ==
    ASSUME TypeOK, ReplaceOpenDrafts
    PROVE  /\ items' \in Seq(Item) /\ Len(items') <= MaxItems /\ Ids \subseteq Ids'
           /\ \A j \in Ids :
                /\ items'[j].kind = items[j].kind
                /\ items'[j].status = IF items[j].status = "draft" /\ items[j].kind \in job.kinds
                                      THEN "discarded" ELSE items[j].status
           /\ \A j \in Ids' \ Ids : items'[j].status = "draft" /\ items'[j].kind \in job.kinds
           /\ \A i, j \in Ids' \ Ids : items'[i].kind = items'[j].kind => i = j
           /\ Len(items) \in Nat /\ Len(items') \in Nat /\ Len(items) <= Len(items')
           /\ \A a \in Admins : Holding(request[a]) /\ request[a].item \in Ids =>
                ~(items[request[a].item].status = "draft" /\ items[request[a].item].kind \in job.kinds)
<1> DEFINE deleted == UNION {Open(k) : k \in job.kinds}
           old == [i \in Ids |-> IF i \in deleted THEN [items[i] EXCEPT !.status = "discarded"]
                                 ELSE items[i]]
           new == Drafts(job.kinds)
<1>1. /\ job.kinds \in SUBSET Kinds /\ items \in Seq(Item) /\ Len(items) \in Nat
      /\ \A i \in Ids : items[i] \in Item
  BY DEF TypeOK, Ids
<1>2. \A i \in Ids : i \in deleted <=> items[i].status = "draft" /\ items[i].kind \in job.kinds
  BY DEF Open
<1>3. \A i \in Ids : old[i] \in Item /\ old[i].kind = items[i].kind
                     /\ old[i].status = IF i \in deleted THEN "discarded" ELSE items[i].status
  BY <1>1 DEF Item
<1>4. old \in Seq(Item) /\ Len(old) = Len(items)
  BY <1>1, <1>3 DEF Ids
<1>5. /\ new \in Seq(Item) /\ Len(new) = Cardinality(job.kinds) /\ Cardinality(job.kinds) \in Nat
      /\ \A n \in 1..Len(new) : new[n].status = "draft" /\ new[n].kind \in job.kinds
      /\ \A m, n \in 1..Len(new) : new[m].kind = new[n].kind => m = n
  BY <1>1, DraftsOfKinds
<1>6. /\ items' = old \o new /\ Len(items) + Len(new) <= MaxItems
      /\ \A i \in deleted : ~ItemLocked(i)
  BY <1>5 DEF ReplaceOpenDrafts, Replaces
<1> HIDE DEF old, new, deleted
<1>7. /\ items' \in Seq(Item) /\ Len(items') = Len(items) + Len(new)
      /\ \A j \in 1..Len(items) : items'[j] = old[j]
      /\ \A j \in Len(items) + 1 .. Len(items) + Len(new) : items'[j] = new[j - Len(items)]
  <2>1. /\ old \o new \in Seq(Item) /\ Len(old \o new) = Len(old) + Len(new)
        /\ \A j \in 1..Len(old) + Len(new) :
              (old \o new)[j] = IF j <= Len(old) THEN old[j] ELSE new[j - Len(old)]
    <3>1. old \in Seq(Item) /\ new \in Seq(Item)
      BY <1>4, <1>5
    <3> QED BY <3>1, ConcatProperties, Zenon
  <2>2. Len(items) \in Nat /\ Len(new) \in Nat
    BY <1>1, <1>5
  <2> QED BY <2>1, <2>2, <1>4, <1>6
<1>8. /\ \A j \in Ids : items'[j] = old[j]
      /\ \A j \in Ids' \ Ids : j - Len(items) \in 1..Len(new) /\ items'[j] = new[j - Len(items)]
      /\ Ids \subseteq Ids' /\ \A j \in Ids' : j \in Nat
  <2>1. /\ Ids = 1..Len(items) /\ Ids' = 1..(Len(items) + Len(new))
        /\ Len(items) \in Nat /\ Len(new) \in Nat
    BY <1>1, <1>5, <1>7 DEF Ids
  <2>2. \A j \in Ids : items'[j] = old[j]
    BY <1>7, <2>1
  <2>3. \A j \in Ids' \ Ids : /\ j \in Len(items) + 1 .. Len(items) + Len(new)
                              /\ j - Len(items) \in 1..Len(new)
    BY <2>1
  <2>4. Ids \subseteq Ids' /\ \A j \in Ids' : j \in Nat
    BY <2>1
  <2> QED BY <1>7, <2>2, <2>3, <2>4
<1>9. \A i, j \in Ids' \ Ids : items'[i].kind = items'[j].kind => i = j
  <2> SUFFICES ASSUME NEW i \in Ids' \ Ids, NEW j \in Ids' \ Ids, items'[i].kind = items'[j].kind
               PROVE  i = j
    OBVIOUS
  <2>1. i - Len(items) = j - Len(items)
    BY <1>5, <1>8
  <2> QED BY <2>1, <1>1, <1>8
<1>10. \A a \in Admins : Holding(request[a]) => ItemLocked(request[a].item)
  BY DEF Holding, ItemLocked
<1>11. \A j \in Ids :
         /\ items'[j].kind = items[j].kind
         /\ items'[j].status = IF items[j].status = "draft" /\ items[j].kind \in job.kinds
                               THEN "discarded" ELSE items[j].status
  BY <1>2, <1>3, <1>8
<1>12. \A j \in Ids' \ Ids : items'[j].status = "draft" /\ items'[j].kind \in job.kinds
  BY <1>5, <1>8
<1>13. \A a \in Admins : Holding(request[a]) /\ request[a].item \in Ids =>
         ~(items[request[a].item].status = "draft" /\ items[request[a].item].kind \in job.kinds)
  BY <1>2, <1>6, <1>10
<1>14. Len(items') \in Nat /\ Len(items) <= Len(items') /\ Len(items') <= MaxItems
  BY <1>1, <1>5, <1>6, <1>7
<1> QED BY <1>1, <1>7, <1>8, <1>9, <1>11, <1>12, <1>13, <1>14

-----------------------------------------------------------------------------
(* Types.                                                                  *)

JobTyped == /\ job \in [state : {"none", "pending", "running", "done", "failed"},
                        kinds : SUBSET Kinds, drafted : BOOLEAN]
            /\ events \in 0..MaxEvents

LEMMA OutrunTyped ==
    ASSUME NEW requests \in [Admins -> Requests]
    PROVE  /\ Outrun(requests) \in [Admins -> Requests]
           /\ \A a \in Admins :
                /\ Outrun(requests)[a].at = requests[a].at /\ Outrun(requests)[a].item = requests[a].item
                /\ Outrun(requests)[a].emptied = requests[a].emptied
                /\ Outrun(requests)[a].at = "clear" => Outrun(requests)[a].raced
<1>1. \A a \in Admins : requests[a] \in Requests
  OBVIOUS
<1>2. \A a \in Admins : (requests[a].raced \/ requests[a].at = "clear") \in BOOLEAN
  OBVIOUS
<1>3. \A a \in Admins :
        [requests[a] EXCEPT !.raced = requests[a].raced \/ requests[a].at = "clear"] \in Requests
  BY <1>1, <1>2 DEF Requests
<1> QED BY <1>1, <1>3 DEF Outrun, Requests

LEMMA EnqueueTyped ==
    ASSUME JobTyped, NEW kinds \in SUBSET Kinds, NEW requests \in [Admins -> Requests],
           Enqueue(kinds, requests)
    PROVE  /\ job' \in [state : {"none", "pending", "running", "done", "failed"},
                        kinds : SUBSET Kinds, drafted : BOOLEAN]
           /\ request' \in [Admins -> Requests]
           /\ \A a \in Admins :
                /\ request'[a].at = requests[a].at /\ request'[a].item = requests[a].item
                /\ request'[a].emptied = requests[a].emptied
                /\ request'[a].at = "clear" /\ ~request'[a].raced =>
                      Unfinished /\ request'[a] = requests[a]
           /\ Unfinished' /\ IF Unfinished THEN job' = job ELSE ~job'.drafted /\ job'.kinds = kinds
<1>1. CASE Unfinished
  BY <1>1 DEF Enqueue, JobTyped, Unfinished
<1>2. CASE ~Unfinished
  BY <1>2, OutrunTyped DEF Enqueue, NoJob, Unfinished
<1> QED BY <1>1, <1>2

(* A step of one admin's request, and nothing else.                        *)
LEMMA RequestTyped ==
    ASSUME TypeOK, NEW a \in Admins, NEW r \in Requests, request' = [request EXCEPT ![a] = r],
           UNCHANGED <<items, approved, job, owed, crossed, events>>
    PROVE  TypeOK'
<1>1. Ids' = Ids
  BY DEF Ids
<1>2. request' \in [Admins -> Requests]
  BY DEF TypeOK, Requests
<1> QED BY <1>1, <1>2 DEF TypeOK, Requests

LEMMA TypeStep == WordsInv /\ [Next]_vars => TypeOK'
<1> SUFFICES ASSUME WordsInv, [Next]_vars PROVE TypeOK'
  OBVIOUS
<1> USE DEF WordsInv, Words
<1>1. /\ items \in Seq(Item) /\ Len(items) \in Nat /\ Idle \in Requests
      /\ request \in [Admins -> Requests] /\ JobTyped /\ Ids \subseteq 0..Len(items)
  BY DEF TypeOK, Idle, Requests, Points, JobTyped, Ids
<1>2. ASSUME NEW a \in Admins, Ends(a), UNCHANGED <<items, approved, job, owed, crossed, events>>
      PROVE  TypeOK'
  BY <1>1, <1>2, RequestTyped DEF Ends
<1>3. ASSUME NEW a \in Admins, NEW p \in Points, request' = [request EXCEPT ![a].at = p],
             UNCHANGED <<items, approved, job, owed, crossed, events>>
      PROVE  TypeOK'
  <2>1. [request[a] EXCEPT !.at = p] \in Requests
    BY <1>1 DEF Requests
  <2> QED BY <1>3, <2>1, RequestTyped
<1>4. ASSUME NEW a \in Admins, NEW i \in Ids, NEW status \in {"draft", "published", "discarded"},
             items' = [items EXCEPT ![i].status = status], request' \in [Admins -> Requests],
             approved' \in [Kinds -> SUBSET Ids], JobTyped',
             owed' \subseteq Ids, crossed' \subseteq Ids
      PROVE  TypeOK'
  <2>1. items' \in Seq(Item) /\ Len(items') = Len(items) /\ Ids' = Ids
    BY <1>1, <1>4, ClosedItem
  <2> QED BY <2>1, <1>4 DEF TypeOK, Requests, JobTyped
<1>5. ASSUME NEW a \in Admins, request[a].at \in {"opened", "written", "closed", "emptied"}
      PROVE  request[a].item \in Ids /\ KindOf(a) \in Kinds
  <2>1. request[a].item \in Ids
    BY <1>5 DEF RequestsNamed
  <2>2. items[request[a].item] \in Item
    BY <1>1, <2>1 DEF Ids
  <2> QED BY <2>1, <2>2 DEF KindOf, Item
<1>6. ASSUME NEW a \in Admins, NEW i \in Ids, OpenItem(a, i) PROVE TypeOK'
  <2>1. [Idle EXCEPT !.at = "opened", !.item = i] \in Requests
    BY <1>1 DEF Idle, Requests, Points
  <2> QED BY <1>6, <2>1, RequestTyped DEF OpenItem
<1>7. ASSUME NEW a \in Admins, Discard(a) PROVE TypeOK'
  <2>1. CASE Closes(a, "discarded") /\ UNCHANGED <<approved, job, owed, crossed, events>>
    <3>1. request' \in [Admins -> Requests]
      BY <1>1, <1>7 DEF Discard, Ends
    <3>2. request[a].item \in Ids
      BY <1>5, <1>7 DEF Discard
    <3> QED BY <2>1, <3>1, <3>2, <1>4, <1>1 DEF Closes, TypeOK, JobTyped
  <2> QED BY <2>1, <1>2, <1>7 DEF Discard, ClosedAlready
<1>8. ASSUME NEW a \in Admins, PublishText(a) PROVE TypeOK'
  BY <1>3, <1>8 DEF PublishText, Points
<1>9. ASSUME NEW a \in Admins, NEW rows \in SUBSET Ids,
             request[a].at \in {"opened", "written", "closed", "emptied"},
             items' = [items EXCEPT ![request[a].item].status = "published"],
             approved' = [approved EXCEPT ![KindOf(a)] = rows], Ends(a),
             UNCHANGED <<job, owed, crossed, events>>
      PROVE  TypeOK'
  <2>1. approved' \in [Kinds -> SUBSET Ids] /\ request' \in [Admins -> Requests]
    BY <1>1, <1>5, <1>9 DEF TypeOK, Ends
  <2> QED BY <2>1, <1>4, <1>5, <1>9, <1>1 DEF TypeOK, JobTyped
<1>10. ASSUME NEW a \in Admins, CloseText(a) PROVE TypeOK'
  <2>1. CASE Commits(a)
    <3>1. {request[a].item} \in SUBSET Ids
      BY <1>5, <1>10 DEF CloseText
    <3> QED BY <2>1, <3>1, <1>9, <1>10 DEF Commits, Closes, CloseText
  <2> QED BY <2>1, <1>2, <1>10 DEF CloseText, ClosedAlready
<1>11. ASSUME NEW a \in Admins, CloseFirst(a) PROVE TypeOK'
  BY <1>2, <1>3, <1>11 DEF CloseFirst, ClosedAlready, Points
<1>12. ASSUME NEW a \in Admins, DeleteReferences(a) PROVE TypeOK'
  <2>1. approved[KindOf(a)] \subseteq Ids
    BY <1>5, <1>12 DEF DeleteReferences, TypeOK
  <2>2. [request[a] EXCEPT !.at = "emptied", !.emptied = approved[KindOf(a)]] \in Requests
    BY <1>1, <2>1 DEF Requests, Points
  <2>3. request' = [request EXCEPT ![a] =
                      [request[a] EXCEPT !.at = "emptied", !.emptied = approved[KindOf(a)]]]
    BY <1>12 DEF DeleteReferences
  <2> QED BY <1>12, <2>2, <2>3, RequestTyped DEF DeleteReferences
<1>13. ASSUME NEW a \in Admins, InsertReferences(a) PROVE TypeOK'
  <2> DEFINE rows == (approved[KindOf(a)] \ request[a].emptied) \cup {request[a].item}
  <2>1. rows \in SUBSET Ids
    BY <1>5, <1>13 DEF InsertReferences, TypeOK
  <2> QED BY <2>1, <1>9, <1>13 DEF InsertReferences
<1>14. ASSUME NEW a \in Admins, PublishMindMap(a) PROVE TypeOK'
  <2>1. {request[a].item} \in SUBSET Ids
    BY <1>5, <1>14 DEF PublishMindMap
  <2> QED BY <2>1, <1>9, <1>14 DEF PublishMindMap
<1>15. ASSUME NEW a \in Admins, FindUnfinished(a) PROVE TypeOK'
  BY <1>2, <1>3, <1>15 DEF FindUnfinished, Points
<1>16. ASSUME NEW a \in Admins, RegenerateSummary(a) PROVE TypeOK'
  <2>1. [Idle EXCEPT !.at = "clear"] \in Requests
    BY <1>1 DEF Idle, Requests, Points
  <2>2. request' \in [Admins -> Requests]
    BY <1>1, <1>16, <2>1 DEF RegenerateSummary
  <2>3. Ids' = Ids /\ events' \in 0..MaxEvents
    BY <1>16, ReviewAssumption DEF RegenerateSummary, Happens, Ids, TypeOK
  <2> QED BY <1>16, <2>2, <2>3 DEF RegenerateSummary, TypeOK, Requests
<1>17. ASSUME NEW a \in Admins, GiveUp(a) PROVE TypeOK'
  BY <1>2, <1>17 DEF GiveUp
<1>18. ASSUME NEW kinds \in SUBSET Kinds, NEW requests \in [Admins -> Requests],
              Enqueue(kinds, requests), events' \in 0..MaxEvents,
              UNCHANGED <<items, approved, owed, crossed>>
       PROVE  TypeOK'
  <2>1. Ids' = Ids
    BY <1>18 DEF Ids
  <2> QED BY <1>1, <1>18, <2>1, EnqueueTyped DEF TypeOK, Requests
<1>19. ASSUME NEW a \in Admins, EnqueueSummary(a) PROVE TypeOK'
  <2>1. [request EXCEPT ![a] = Idle] \in [Admins -> Requests]
    BY <1>1
  <2> QED BY <1>18, <1>19, <2>1, ReviewAssumption DEF EnqueueSummary, TypeOK
<1>20. ASSUME NEW a \in Admins, DiscardAndEnqueue(a) PROVE TypeOK'
  <2> DEFINE i == request[a].item
  <2>1. CASE /\ Closes(a, "discarded")
             /\ Enqueue({items[i].kind}, [request EXCEPT ![a] = Idle])
             /\ owed' = owed \cup {i}
             /\ crossed' = IF request[a].raced THEN crossed \cup {i} ELSE crossed
             /\ UNCHANGED <<approved, events>>
    <3>1. i \in Ids /\ [request EXCEPT ![a] = Idle] \in [Admins -> Requests]
      BY <1>1, <1>20 DEF DiscardAndEnqueue, Requests, Ids
    <3>2. {items[i].kind} \in SUBSET Kinds
      <4>1. items[i] \in Item
        BY <1>1, <3>1 DEF Ids
      <4> QED BY <4>1 DEF Item
    <3>3. JobTyped' /\ request' \in [Admins -> Requests]
      BY <1>1, <2>1, <3>1, <3>2, EnqueueTyped DEF JobTyped, TypeOK
    <3> QED BY <2>1, <3>1, <3>3, <1>4 DEF Closes, TypeOK
  <2> QED BY <2>1, <1>2, <1>20 DEF DiscardAndEnqueue, ClosedAlready
<1>21. CASE AskForAll
  <2>1. events' \in 0..MaxEvents
    BY <1>21, ReviewAssumption DEF AskForAll, Happens, TypeOK
  <2> QED BY <2>1, <1>1, <1>18, <1>21 DEF AskForAll
<1>22. CASE Claim \/ RecordSuccess
  BY <1>22 DEF Claim, RecordSuccess, TypeOK, Ids, NoJob
<1>23. CASE ReplaceOpenDrafts
  <2>1. /\ items' \in Seq(Item) /\ Len(items') <= MaxItems /\ Ids \subseteq Ids'
        /\ Len(items) <= Len(items') /\ Len(items') \in Nat
    BY <1>23, ReplacedItems
  <2>2. job' \in [state : {"none", "pending", "running", "done", "failed"},
                  kinds : SUBSET Kinds, drafted : BOOLEAN]
    BY <1>23 DEF ReplaceOpenDrafts, Replaces, TypeOK
  <2>3. request' \in [Admins -> [at : Points, item : 0..Len(items'), emptied : SUBSET Ids', raced : BOOLEAN]]
    BY <1>1, <1>23, <2>1 DEF ReplaceOpenDrafts, Replaces, Requests
  <2>4. approved' \in [Kinds -> SUBSET Ids'] /\ owed' \subseteq Ids' /\ crossed' \subseteq Ids'
    BY <1>23, <2>1 DEF ReplaceOpenDrafts, Replaces, Served, TypeOK
  <2> QED BY <1>23, <2>1, <2>2, <2>3, <2>4 DEF ReplaceOpenDrafts, Replaces, TypeOK
<1>24. CASE GenerationFails
  <2>1. Ids' = Ids /\ events' \in 0..MaxEvents
    BY <1>24, ReviewAssumption DEF GenerationFails, Happens, Ids, TypeOK
  <2> QED BY <1>24, <2>1 DEF GenerationFails, TypeOK, NoJob, Served
<1>25. CASE WorkerRestarts
  <2>1. Ids' = Ids /\ events' \in 0..MaxEvents
    BY <1>25, ReviewAssumption DEF WorkerRestarts, Happens, Ids, TypeOK
  <2>2. request' \in [Admins -> Requests]
    BY <1>1, <1>25, OutrunTyped DEF WorkerRestarts
  <2> QED BY <1>25, <2>1, <2>2 DEF WorkerRestarts, TypeOK, NoJob, Requests
<1>26. CASE UNCHANGED vars
  BY <1>26 DEF vars, TypeOK, Ids
<1> QED BY <1>6, <1>7, <1>8, <1>10, <1>11, <1>12, <1>13, <1>14, <1>15, <1>16, <1>17, <1>19, <1>20,
           <1>21, <1>22, <1>23, <1>24, <1>25, <1>26
        DEF Next, Resolve, Finish, Regenerate, Generate

-----------------------------------------------------------------------------
(* Words: what a step does to the rows and to what members read.           *)

SameRequest(r, q) == q.at = r.at /\ q.item = r.item /\ q.emptied = r.emptied

(* Requests that go on as they were, or hold nothing any more.             *)
LEMMA RequestsLeave ==
    ASSUME WordsInv, UNCHANGED <<items, approved>>,
           \A a \in Admins : \/ SameRequest(request[a], request'[a])
                             \/ request'[a].at \in {"idle", "clear"}
    PROVE  Words'
<1>1. Ids' = Ids
  BY DEF Ids
<1>2. RequestsNamed' /\ HeldIsOpen' /\ EmptiedIsAll'
  BY <1>1 DEF WordsInv, Words, RequestsNamed, HeldIsOpen, EmptiedIsAll, Holding, KindOf, SameRequest
<1>3. DraftIsLatest' /\ LatestApprovedStands'
  BY <1>1 DEF WordsInv, Words, DraftIsLatest, LatestApprovedStands, Published
<1> QED BY <1>2, <1>3 DEF Words

(* A request that moves on: what it holds is open, and its alone.          *)
LEMMA RequestMoves ==
    ASSUME WordsInv, UNCHANGED <<items, approved>>, NEW a \in Admins,
           \A b \in Admins \ {a} : SameRequest(request[b], request'[b]),
           request'[a].at \in Points, request'[a].item \in Ids,
           Holding(request'[a]) =>
              /\ items[request'[a].item].status = "draft"
              /\ \A b \in Admins \ {a} : Holding(request[b]) => request[b].item # request'[a].item,
           request'[a].at = "emptied" =>
              request'[a].emptied = approved[items[request'[a].item].kind]
    PROVE  Words'
<1>1. Ids' = Ids
  BY DEF Ids
<1>2. RequestsNamed'
  BY <1>1 DEF WordsInv, Words, RequestsNamed, SameRequest
<1>3. HeldIsOpen'
  BY DEF WordsInv, Words, HeldIsOpen, Holding, SameRequest
<1>4. EmptiedIsAll'
  BY DEF WordsInv, Words, EmptiedIsAll, KindOf, SameRequest
<1>5. DraftIsLatest' /\ LatestApprovedStands'
  BY <1>1 DEF WordsInv, Words, DraftIsLatest, LatestApprovedStands, Published
<1> QED BY <1>2, <1>3, <1>4, <1>5 DEF Words

(* An item thrown away by its request.                                     *)
LEMMA ItemDiscarded ==
    ASSUME WordsInv, NEW a \in Admins, request[a].item \in Ids, Closes(a, "discarded"),
           UNCHANGED approved, request'[a].at = "idle",
           \A b \in Admins \ {a} : SameRequest(request[b], request'[b])
    PROVE  Words'
<1> DEFINE i == request[a].item
<1>1. /\ Ids' = Ids
      /\ \A j \in Ids : /\ items'[j].kind = items[j].kind
                        /\ items'[j].status = IF j = i THEN "discarded" ELSE items[j].status
  BY ClosedItem DEF Closes, WordsInv, TypeOK
<1>2. items[i].status = "draft" /\ ~ItemLocked(i)
  BY DEF Closes
<1>3. \A b \in Admins : Holding(request'[b]) =>
        b # a /\ Holding(request[b]) /\ request'[b].item = request[b].item /\ request[b].item # i
  BY <1>2 DEF Holding, ItemLocked, SameRequest
<1>4. RequestsNamed'
  BY <1>1 DEF WordsInv, Words, RequestsNamed, SameRequest
<1>5. \A b \in Admins : Holding(request'[b]) => request[b].item \in Ids
  BY <1>3 DEF WordsInv, Words, RequestsNamed, Holding
<1>6. HeldIsOpen'
  BY <1>1, <1>3, <1>5 DEF WordsInv, Words, HeldIsOpen
<1>7. EmptiedIsAll'
  <2> SUFFICES ASSUME NEW b \in Admins, request'[b].at = "emptied"
               PROVE  request'[b].emptied = approved'[items'[request'[b].item].kind]
    BY DEF EmptiedIsAll, KindOf
  <2>1. b # a /\ SameRequest(request[b], request'[b]) /\ request[b].item \in Ids
    BY <1>3, <1>5 DEF Holding
  <2> QED BY <1>1, <2>1 DEF WordsInv, Words, EmptiedIsAll, KindOf, SameRequest
<1>8. DraftIsLatest'
  BY <1>1 DEF WordsInv, Words, DraftIsLatest
<1>9. \A k : Published(k)' = Published(k)
  BY <1>1, <1>2 DEF Published
<1>10. LatestApprovedStands'
  BY <1>9 DEF WordsInv, Words, LatestApprovedStands
<1> QED BY <1>4, <1>6, <1>7, <1>8, <1>10 DEF Words

(* An item approved: it is a draft, so the latest of its kind.             *)
LEMMA ItemPublished ==
    ASSUME WordsInv, NEW a \in Admins, request[a].item \in Ids,
           items[request[a].item].status = "draft",
           \A b \in Admins \ {a} : Holding(request[b]) => request[b].item # request[a].item,
           items' = [items EXCEPT ![request[a].item].status = "published"],
           approved' = [approved EXCEPT ![KindOf(a)] = {request[a].item}],
           request' = [request EXCEPT ![a] = Idle]
    PROVE  Words'
<1> DEFINE i == request[a].item
           kind == items[i].kind
<1>1. /\ Ids' = Ids
      /\ \A j \in Ids : /\ items'[j].kind = items[j].kind
                        /\ items'[j].status = IF j = i THEN "published" ELSE items[j].status
  BY ClosedItem DEF WordsInv, TypeOK
<1>2. /\ request'[a].at = "idle"
      /\ \A b \in Admins \ {a} : request'[b] = request[b]
  BY DEF WordsInv, TypeOK, Idle
<1>3. \A b \in Admins : Holding(request'[b]) =>
        b # a /\ Holding(request[b]) /\ request'[b] = request[b] /\ request[b].item # i
        /\ request[b].item \in Ids
  BY <1>2 DEF Holding, WordsInv, Words, RequestsNamed
<1>4. RequestsNamed'
  BY <1>1, <1>2 DEF WordsInv, Words, RequestsNamed
<1>5. HeldIsOpen'
  BY <1>1, <1>3 DEF WordsInv, Words, HeldIsOpen
<1>6. items[i] \in Item /\ kind \in Kinds /\ i \in Nat /\ \A j \in Ids : j \in Nat
  <2>1. items[i] \in Item
    BY DEF WordsInv, TypeOK, Ids
  <2> QED BY <2>1 DEF Item, Ids
<1>7. \A k \in Kinds : approved'[k] = IF k = kind THEN {i} ELSE approved[k]
  BY <1>6 DEF WordsInv, TypeOK, KindOf
<1>8. EmptiedIsAll'
  <2> SUFFICES ASSUME NEW b \in Admins, request'[b].at = "emptied"
               PROVE  request'[b].emptied = approved'[items'[request'[b].item].kind]
    BY DEF EmptiedIsAll, KindOf
  <2> DEFINE j == request[b].item
  <2>1. Holding(request[b]) /\ request'[b] = request[b] /\ j \in Ids /\ j # i
    BY <1>3 DEF Holding
  <2>2. items[j].status = "draft"
    BY <2>1 DEF WordsInv, Words, HeldIsOpen
  <2>3. items[j].kind # kind
    BY <1>6, <2>1, <2>2 DEF WordsInv, Words, DraftIsLatest
  <2>4. items[j].kind \in Kinds
    <3>1. items[j] \in Item
      BY <2>1 DEF WordsInv, TypeOK, Ids
    <3> QED BY <3>1 DEF Item
  <2>5. request[b].emptied = approved[items[j].kind]
    BY <2>1 DEF WordsInv, Words, EmptiedIsAll, KindOf
  <2>6. items'[j].kind = items[j].kind
    BY <1>1, <2>1
  <2>7. approved'[items[j].kind] = approved[items[j].kind]
    BY <1>7, <2>3, <2>4
  <2> QED BY <2>1, <2>5, <2>6, <2>7
<1>9. DraftIsLatest'
  BY <1>1 DEF WordsInv, Words, DraftIsLatest
<1>10. \A k : Published(k)' = IF k = kind THEN Published(k) \cup {i} ELSE Published(k)
  BY <1>1 DEF Published
<1>11. \A j \in Published(kind) \cup {i} : j <= i /\ j \in Nat
  BY <1>6 DEF WordsInv, Words, DraftIsLatest, Published
<1>12. LatestApprovedStands'
  <2> SUFFICES ASSUME NEW k \in Kinds
               PROVE  approved'[k] = {m \in Published(k)' : \A j \in Published(k)' : j <= m}
    BY DEF LatestApprovedStands
  <2>1. CASE k # kind
    BY <1>7, <1>10, <2>1 DEF WordsInv, Words, LatestApprovedStands
  <2>2. CASE k = kind
    BY <1>6, <1>7, <1>10, <1>11, <2>2
  <2> QED BY <2>1, <2>2
<1> QED BY <1>4, <1>5, <1>8, <1>9, <1>12 DEF Words

(* New drafts for the open ones: no request holds one of these.            *)
LEMMA DraftsReplaced ==
    ASSUME WordsInv, ReplaceOpenDrafts
    PROVE  Words'
<1>1. /\ Ids \subseteq Ids'
      /\ \A j \in Ids :
           /\ items'[j].kind = items[j].kind
           /\ items'[j].status = IF items[j].status = "draft" /\ items[j].kind \in job.kinds
                                 THEN "discarded" ELSE items[j].status
      /\ \A j \in Ids' \ Ids : items'[j].status = "draft" /\ items'[j].kind \in job.kinds
      /\ \A i, j \in Ids' \ Ids : items'[i].kind = items'[j].kind => i = j
      /\ Len(items) \in Nat /\ Len(items') \in Nat /\ Len(items) <= Len(items')
  BY ReplacedItems DEF WordsInv
<1>2. \A a \in Admins : Holding(request[a]) /\ request[a].item \in Ids =>
         ~(items[request[a].item].status = "draft" /\ items[request[a].item].kind \in job.kinds)
  BY ReplacedItems DEF WordsInv
<1>3. request' = request /\ approved' = approved
  BY DEF ReplaceOpenDrafts, Replaces
<1>4. \A a \in Admins :
        request[a].at \in {"opened", "written", "closed", "emptied"} => request[a].item \in Ids
  BY DEF WordsInv, Words, RequestsNamed
<1>5. RequestsNamed'
  BY <1>1, <1>3, <1>4 DEF RequestsNamed
<1>6. HeldIsOpen'
  BY <1>1, <1>2, <1>3, <1>4 DEF WordsInv, Words, HeldIsOpen, Holding
<1>7. EmptiedIsAll'
  BY <1>1, <1>3, <1>4 DEF WordsInv, Words, EmptiedIsAll, KindOf
<1>8. DraftIsLatest'
  <2> SUFFICES ASSUME NEW i \in Ids', NEW j \in Ids',
                      items'[i].status = "draft", items'[j].kind = items'[i].kind
               PROVE  j <= i
    BY DEF DraftIsLatest
  <2>1. CASE i \in Ids
    <3>1. items[i].status = "draft" /\ items[i].kind \notin job.kinds
      BY <1>1, <2>1
    <3>2. j \in Ids
      BY <1>1, <2>1, <3>1
    <3> QED BY <1>1, <2>1, <3>1, <3>2 DEF WordsInv, Words, DraftIsLatest
  <2>2. CASE i \notin Ids /\ j \in Ids
    BY <1>1, <2>2 DEF Ids
  <2>3. CASE i \notin Ids /\ j \notin Ids
    BY <1>1, <2>3 DEF Ids
  <2> QED BY <2>1, <2>2, <2>3
<1>9. \A k : Published(k)' = Published(k)
  BY <1>1 DEF Published
<1>10. LatestApprovedStands'
  BY <1>3, <1>9 DEF WordsInv, Words, LatestApprovedStands
<1> QED BY <1>5, <1>6, <1>7, <1>8, <1>10 DEF Words

LEMMA WordsStep == WordsInv /\ [Next]_vars => Words'
<1> SUFFICES ASSUME WordsInv, [Next]_vars PROVE Words'
  OBVIOUS
<1>1. /\ request \in [Admins -> Requests]
      /\ \A a \in Admins :
           /\ request[a].at \in {"opened", "written", "closed", "emptied"} => request[a].item \in Ids
           /\ request[a].item # 0 => request[a].item \in Ids
      /\ Len(items) \in Nat /\ Ids \subseteq 0..Len(items) /\ Idle \in Requests
  BY DEF WordsInv, Words, TypeOK, Requests, RequestsNamed, Ids, Idle, Points
<1>2. ASSUME NEW a \in Admins, Ends(a), UNCHANGED <<items, approved>> PROVE Words'
  <2>1. \A b \in Admins : request'[b] = request[b] \/ request'[b].at = "idle"
    BY <1>1, <1>2 DEF Ends, Idle
  <2> QED BY <1>2, <2>1, RequestsLeave DEF SameRequest
<1>3. ASSUME NEW a \in Admins, NEW r \in Requests, request' = [request EXCEPT ![a] = r],
             UNCHANGED <<items, approved>>, r.at \in {"opened", "written", "clear"},
             r.at = "clear" \/ r.item \in Ids
      PROVE  Words'
  <2>1. request'[a] = r /\ \A b \in Admins \ {a} : request'[b] = request[b]
    BY <1>1, <1>3
  <2>2. CASE r.at = "clear"
    BY <1>3, <2>1, <2>2, RequestsLeave DEF SameRequest
  <2>3. CASE r.at # "clear"
    BY <1>3, <2>1, <2>3, RequestMoves DEF SameRequest, Holding, Points
  <2> QED BY <2>2, <2>3
<1>4. ASSUME NEW a \in Admins, NEW p \in {"written", "clear"}, request[a].at = "opened",
             request' = [request EXCEPT ![a].at = p], UNCHANGED <<items, approved>>
      PROVE  Words'
  <2> DEFINE r == [request[a] EXCEPT !.at = p]
  <2>1. r \in Requests /\ r.at = p /\ r.item = request[a].item
    BY <1>1 DEF Requests, Points
  <2>2. request' = [request EXCEPT ![a] = r] /\ r.item \in Ids
    BY <1>1, <1>4, <2>1
  <2> HIDE DEF r
  <2> QED BY <1>3, <1>4, <2>1, <2>2
<1>5. ASSUME NEW a \in Admins, NEW i \in Ids, OpenItem(a, i) PROVE Words'
  <2> DEFINE r == [Idle EXCEPT !.at = "opened", !.item = i]
  <2>1. r \in Requests /\ r.at = "opened" /\ r.item = i
    BY <1>1 DEF Idle, Requests, Points
  <2>2. request' = [request EXCEPT ![a] = r] /\ UNCHANGED <<items, approved>>
    BY <1>5 DEF OpenItem
  <2> HIDE DEF r
  <2> QED BY <1>3, <2>1, <2>2
<1>6. ASSUME NEW a \in Admins, Discard(a) PROVE Words'
  <2>1. CASE Closes(a, "discarded") /\ UNCHANGED approved
    <3>1. request'[a].at = "idle" /\ \A b \in Admins \ {a} : request'[b] = request[b]
      BY <1>1, <1>6 DEF Discard, Ends, Idle
    <3> QED BY <1>1, <1>6, <2>1, <3>1, ItemDiscarded DEF Discard, SameRequest
  <2> QED BY <2>1, <1>2, <1>6 DEF Discard, ClosedAlready
<1>7. ASSUME NEW a \in Admins, PublishText(a) PROVE Words'
  BY <1>4, <1>7 DEF PublishText
<1>8. ASSUME NEW a \in Admins, CloseText(a) PROVE Words'
  <2>1. CASE Commits(a)
    <3>1. \A b \in Admins : Holding(request[b]) => request[b].item # request[a].item
      BY <2>1 DEF Commits, Closes, ItemLocked, Holding
    <3> QED BY <1>1, <1>8, <2>1, <3>1, ItemPublished DEF CloseText, Commits, Closes, Ends
  <2> QED BY <2>1, <1>2, <1>8 DEF CloseText, ClosedAlready
<1>9. ASSUME NEW a \in Admins, CloseFirst(a) PROVE Words'
  <2>1. CASE /\ ~ItemLocked(request[a].item) /\ items[request[a].item].status = "draft"
             /\ request' = [request EXCEPT ![a].at = "closed"]
             /\ UNCHANGED <<items, approved>>
    <3>1. \A b \in Admins : Holding(request[b]) => request[b].item # request[a].item
      BY <2>1 DEF ItemLocked, Holding
    <3>2. /\ request'[a].at = "closed" /\ request'[a].item = request[a].item
          /\ \A b \in Admins \ {a} : request'[b] = request[b]
      BY <1>1, <2>1 DEF Requests
    <3> QED BY <1>1, <1>9, <2>1, <3>1, <3>2, RequestMoves DEF CloseFirst, SameRequest, Points
  <2> QED BY <2>1, <1>2, <1>9 DEF CloseFirst, ClosedAlready
<1>10. ASSUME NEW a \in Admins, DeleteReferences(a) PROVE Words'
  <2>1. /\ request'[a].at = "emptied" /\ request'[a].item = request[a].item
        /\ request'[a].emptied = approved[KindOf(a)]
        /\ \A b \in Admins \ {a} : request'[b] = request[b]
    BY <1>1, <1>10 DEF DeleteReferences, Requests
  <2>2. Holding(request[a])
    BY <1>10 DEF DeleteReferences, Holding
  <2>3. /\ items[request[a].item].status = "draft"
        /\ \A b \in Admins \ {a} : Holding(request[b]) => request[b].item # request[a].item
    BY <2>2 DEF WordsInv, Words, HeldIsOpen
  <2>4. request[a].item \in Ids /\ UNCHANGED <<items, approved>>
    BY <1>1, <1>10 DEF DeleteReferences
  <2>5. /\ \A b \in Admins \ {a} : SameRequest(request[b], request'[b])
        /\ request'[a].emptied = approved[items[request'[a].item].kind]
        /\ request'[a].at \in Points
    BY <2>1 DEF SameRequest, KindOf, Points
  <2> QED BY <2>1, <2>3, <2>4, <2>5, RequestMoves
<1>11. ASSUME NEW a \in Admins, InsertReferences(a) \/ PublishMindMap(a) PROVE Words'
  <2>1. Holding(request[a]) /\ request[a].item \in Ids
    BY <1>1, <1>11 DEF InsertReferences, PublishMindMap, Holding
  <2>2. /\ items[request[a].item].status = "draft"
        /\ \A b \in Admins \ {a} : Holding(request[b]) => request[b].item # request[a].item
    BY <2>1 DEF WordsInv, Words, HeldIsOpen
  <2>3. CASE PublishMindMap(a)
    BY <2>1, <2>2, <2>3, ItemPublished DEF PublishMindMap, Ends
  <2>4. CASE InsertReferences(a)
    <3>1. request[a].emptied = approved[KindOf(a)]
      BY <2>4 DEF InsertReferences, WordsInv, Words, EmptiedIsAll
    <3>2. approved' = [approved EXCEPT ![KindOf(a)] = {request[a].item}]
      BY <2>4, <3>1 DEF InsertReferences
    <3> QED BY <2>1, <2>2, <2>4, <3>2, ItemPublished DEF InsertReferences, Ends
  <2> QED BY <1>11, <2>3, <2>4
<1>12. ASSUME NEW a \in Admins, FindUnfinished(a) PROVE Words'
  BY <1>2, <1>4, <1>12 DEF FindUnfinished
<1>13. ASSUME NEW a \in Admins, RegenerateSummary(a) PROVE Words'
  <2> DEFINE r == [Idle EXCEPT !.at = "clear"]
  <2>1. r \in Requests /\ r.at = "clear"
    BY <1>1 DEF Requests, Points
  <2>2. request' = [request EXCEPT ![a] = r] /\ UNCHANGED <<items, approved>>
    BY <1>13 DEF RegenerateSummary
  <2> HIDE DEF r
  <2> QED BY <1>3, <2>1, <2>2
<1>14. ASSUME NEW a \in Admins, GiveUp(a) PROVE Words'
  BY <1>2, <1>14 DEF GiveUp
<1>15. JobTyped
  BY DEF JobTyped, WordsInv, TypeOK
<1>16. ASSUME NEW a \in Admins, EnqueueSummary(a) PROVE Words'
  <2>1. [request EXCEPT ![a] = Idle] \in [Admins -> Requests]
    BY <1>1
  <2>2. \A b \in Admins : SameRequest([request EXCEPT ![a] = Idle][b], request'[b])
    BY <1>15, <1>16, <2>1, EnqueueTyped, ReviewAssumption DEF EnqueueSummary, SameRequest
  <2>3. \A b \in Admins : SameRequest(request[b], request'[b]) \/ request'[b].at = "idle"
    BY <1>1, <2>2 DEF SameRequest, Idle
  <2> QED BY <1>16, <2>3, RequestsLeave DEF EnqueueSummary
<1>17. ASSUME NEW a \in Admins, DiscardAndEnqueue(a) PROVE Words'
  <2> DEFINE i == request[a].item
  <2>1. CASE /\ Closes(a, "discarded")
             /\ Enqueue({items[i].kind}, [request EXCEPT ![a] = Idle])
             /\ UNCHANGED approved
    <3>1. i \in Ids /\ [request EXCEPT ![a] = Idle] \in [Admins -> Requests]
      BY <1>1, <1>15, <1>17 DEF DiscardAndEnqueue
    <3>2. {items[i].kind} \in SUBSET Kinds
      <4>1. items[i] \in Item
        BY <3>1 DEF Ids, WordsInv, TypeOK
      <4> QED BY <4>1 DEF Item
    <3>3. \A b \in Admins : SameRequest([request EXCEPT ![a] = Idle][b], request'[b])
      BY <1>15, <2>1, <3>1, <3>2, EnqueueTyped DEF SameRequest
    <3>4. /\ request'[a].at = "idle"
          /\ \A b \in Admins \ {a} : SameRequest(request[b], request'[b])
      BY <1>1, <3>3 DEF SameRequest, Idle
    <3> QED BY <2>1, <3>1, <3>4, ItemDiscarded
  <2> QED BY <2>1, <1>2, <1>17 DEF DiscardAndEnqueue, ClosedAlready
<1>18. CASE AskForAll
  <2>1. Kinds \in SUBSET Kinds
    OBVIOUS
  <2>2. \A b \in Admins : SameRequest(request[b], request'[b])
    BY <1>1, <1>15, <1>18, <2>1, EnqueueTyped DEF AskForAll, SameRequest
  <2> QED BY <1>18, <2>2, RequestsLeave DEF AskForAll
<1>19. CASE Claim \/ RecordSuccess \/ GenerationFails
  BY <1>19, RequestsLeave DEF Claim, RecordSuccess, GenerationFails, SameRequest
<1>20. CASE ReplaceOpenDrafts
  BY <1>20, DraftsReplaced
<1>21. CASE WorkerRestarts
  <2>1. \A b \in Admins : SameRequest(request[b], request'[b])
    BY <1>1, <1>21, OutrunTyped DEF WorkerRestarts, SameRequest
  <2> QED BY <1>21, <2>1, RequestsLeave DEF WorkerRestarts
<1>22. CASE UNCHANGED vars
  BY <1>22, RequestsLeave DEF vars, SameRequest
<1> QED BY <1>5, <1>6, <1>7, <1>8, <1>9, <1>10, <1>11, <1>12, <1>13, <1>14, <1>16, <1>17, <1>18,
           <1>19, <1>20, <1>21, <1>22
        DEF Next, Resolve, Finish, Regenerate, Generate

-----------------------------------------------------------------------------
(* Jobs: what a request found, and what was thrown away for a job.         *)

(* The job and what is owed stay; who finds nothing in flight is right.    *)
LEMMA QuietStep ==
    ASSUME WordsInv, JobInv, UNCHANGED <<job, owed, crossed>>,
           \A i \in Ids : items'[i].kind = items[i].kind,
           \A a \in Admins : request'[a].at = "clear" => request'[a] = request[a] \/ ~Unfinished
    PROVE  JobInv'
<1>1. ClearIsClear'
  BY DEF JobInv, ClearIsClear, Unfinished
<1>2. DiscardIsFollowed'
  BY DEF JobInv, DiscardIsFollowed, Unfinished, WordsInv, TypeOK
<1> QED BY <1>1, <1>2 DEF JobInv

(* A job asked for; what is owed besides is what it was asked for.         *)
LEMMA AskingStep ==
    ASSUME WordsInv, JobInv, NEW kinds \in SUBSET Kinds, NEW requests \in [Admins -> Requests],
           Enqueue(kinds, requests), owed' \subseteq Ids,
           \A a \in Admins : requests[a] = request[a] \/ requests[a].at = "idle",
           \A i \in Ids : items'[i].kind = items[i].kind,
           \A i \in owed' \ crossed' :
              i \in owed \ crossed \/ (~Unfinished /\ items[i].kind \in kinds)
    PROVE  JobInv'
<1>1. /\ \A a \in Admins : request'[a].at = requests[a].at
      /\ \A a \in Admins : request'[a].at = "clear" /\ ~request'[a].raced =>
                Unfinished /\ request'[a] = requests[a]
      /\ Unfinished' /\ IF Unfinished THEN job' = job ELSE ~job'.drafted /\ job'.kinds = kinds
  <2>1. JobTyped
    BY DEF JobTyped, WordsInv, TypeOK
  <2> QED BY <2>1, EnqueueTyped
<1>2. ClearIsClear'
  BY <1>1 DEF JobInv, ClearIsClear
<1>3. DiscardIsFollowed'
  BY <1>1 DEF JobInv, DiscardIsFollowed
<1> QED BY <1>2, <1>3 DEF JobInv

(* The job is done with: what it was asked for is not owed any more.       *)
LEMMA ServedStep ==
    ASSUME WordsInv, JobInv, Served
    PROVE  owed' \ crossed' = {}
BY DEF Served, JobInv, DiscardIsFollowed

LEMMA JobStep == WordsInv /\ JobInv /\ [Next]_vars => JobInv'
<1> SUFFICES ASSUME WordsInv, JobInv, [Next]_vars PROVE JobInv'
  OBVIOUS
<1>1. /\ request \in [Admins -> Requests] /\ Idle \in Requests /\ Idle.at = "idle"
      /\ \A a \in Admins :
           /\ request[a].at \in {"opened", "written", "closed", "emptied"} => request[a].item \in Ids
           /\ request[a].item # 0 => request[a].item \in Ids
  BY DEF WordsInv, Words, TypeOK, Requests, RequestsNamed, Ids, Idle, Points
<1>2. ASSUME NEW a \in Admins, NEW r, request' = [request EXCEPT ![a] = r],
             r.at # "clear" \/ ~Unfinished, UNCHANGED <<items, job, owed, crossed>>
      PROVE  JobInv'
  <2>1. \A b \in Admins : request'[b] = request[b] \/ request'[b] = r
    BY <1>1, <1>2
  <2> QED BY <1>2, <2>1, QuietStep
<1>3. ASSUME NEW a \in Admins, Ends(a), UNCHANGED <<items, job, owed, crossed>> PROVE JobInv'
  BY <1>1, <1>2, <1>3 DEF Ends
<1>4. ASSUME NEW a \in Admins, NEW p \in Points, request' = [request EXCEPT ![a].at = p],
             p # "clear" \/ ~Unfinished, UNCHANGED <<items, job, owed, crossed>>
      PROVE  JobInv'
  <2>1. [request[a] EXCEPT !.at = p].at = p
    BY <1>1 DEF Requests
  <2> QED BY <1>2, <1>4, <2>1
<1>5. ASSUME NEW a \in Admins, NEW status \in {"draft", "published", "discarded"},
             request[a].item \in Ids, Ends(a), UNCHANGED <<job, owed, crossed>>,
             items' = [items EXCEPT ![request[a].item].status = status]
      PROVE  JobInv'
  <2>1. \A i \in Ids : items'[i].kind = items[i].kind
    BY <1>5, ClosedItem DEF WordsInv, TypeOK
  <2>2. \A b \in Admins : request'[b] = request[b] \/ request'[b] = Idle
    BY <1>1, <1>5 DEF Ends
  <2> QED BY <1>1, <1>5, <2>1, <2>2, QuietStep
<1>6. ASSUME NEW a \in Admins, NEW i \in Ids, OpenItem(a, i) PROVE JobInv'
  <2>1. [Idle EXCEPT !.at = "opened", !.item = i].at = "opened"
    BY DEF Idle
  <2> QED BY <1>2, <1>6, <2>1 DEF OpenItem
<1>7. ASSUME NEW a \in Admins, Discard(a) PROVE JobInv'
  BY <1>1, <1>3, <1>5, <1>7 DEF Discard, ClosedAlready, Closes
<1>8. ASSUME NEW a \in Admins, PublishText(a) PROVE JobInv'
  BY <1>4, <1>8 DEF PublishText, Points
<1>9. ASSUME NEW a \in Admins, CloseText(a) PROVE JobInv'
  BY <1>1, <1>3, <1>5, <1>9 DEF CloseText, ClosedAlready, Commits, Closes
<1>10. ASSUME NEW a \in Admins, CloseFirst(a) PROVE JobInv'
  BY <1>3, <1>4, <1>10 DEF CloseFirst, ClosedAlready, Points
<1>11. ASSUME NEW a \in Admins, DeleteReferences(a) PROVE JobInv'
  <2> DEFINE r == [request[a] EXCEPT !.at = "emptied", !.emptied = approved[KindOf(a)]]
  <2>1. r.at = "emptied" /\ request' = [request EXCEPT ![a] = r]
    BY <1>1, <1>11 DEF DeleteReferences, Requests
  <2> HIDE DEF r
  <2> QED BY <1>2, <1>11, <2>1 DEF DeleteReferences
<1>12. ASSUME NEW a \in Admins, InsertReferences(a) \/ PublishMindMap(a) PROVE JobInv'
  BY <1>1, <1>5, <1>12 DEF InsertReferences, PublishMindMap
<1>13. ASSUME NEW a \in Admins, FindUnfinished(a) PROVE JobInv'
  BY <1>3, <1>4, <1>13 DEF FindUnfinished, Points
<1>14. ASSUME NEW a \in Admins, RegenerateSummary(a) PROVE JobInv'
  BY <1>2, <1>14 DEF RegenerateSummary
<1>15. ASSUME NEW a \in Admins, GiveUp(a) PROVE JobInv'
  BY <1>3, <1>15 DEF GiveUp
<1>16. ASSUME NEW a \in Admins, EnqueueSummary(a) PROVE JobInv'
  <2> DEFINE requests == [request EXCEPT ![a] = Idle]
  <2>1. /\ requests \in [Admins -> Requests]
        /\ \A b \in Admins : requests[b] = request[b] \/ requests[b].at = "idle"
    BY <1>1
  <2>2. owed' \subseteq Ids /\ Enqueue(SummaryKinds, requests) /\ UNCHANGED <<items, owed, crossed>>
    BY <1>16 DEF EnqueueSummary, WordsInv, TypeOK
  <2> HIDE DEF requests
  <2> QED BY <2>1, <2>2, AskingStep, ReviewAssumption
<1>17. ASSUME NEW a \in Admins, DiscardAndEnqueue(a) PROVE JobInv'
  <2> DEFINE i == request[a].item
             requests == [request EXCEPT ![a] = Idle]
  <2>1. CASE /\ Closes(a, "discarded")
             /\ Enqueue({items[i].kind}, requests)
             /\ owed' = owed \cup {i}
             /\ crossed' = IF request[a].raced THEN crossed \cup {i} ELSE crossed
    <3>1. i \in Ids /\ request[a].at = "clear"
      BY <1>1, <1>17 DEF DiscardAndEnqueue
    <3>2. /\ requests \in [Admins -> Requests]
          /\ \A b \in Admins : requests[b] = request[b] \/ requests[b].at = "idle"
      BY <1>1
    <3>3. {items[i].kind} \in SUBSET Kinds
      <4>1. items[i] \in Item
        BY <3>1 DEF Ids, WordsInv, TypeOK
      <4> QED BY <4>1 DEF Item
    <3>4. \A j \in Ids : items'[j].kind = items[j].kind
      BY <2>1, <3>1, ClosedItem DEF Closes, WordsInv, TypeOK
    <3>5. owed' \subseteq Ids
      BY <2>1, <3>1 DEF WordsInv, TypeOK
    <3>6. \A j \in owed' \ crossed' :
            j \in owed \ crossed \/ (~Unfinished /\ items[j].kind \in {items[i].kind})
      BY <2>1, <3>1 DEF JobInv, ClearIsClear
    <3> HIDE DEF requests
    <3> QED BY <2>1, <3>2, <3>3, <3>4, <3>5, <3>6, AskingStep
  <2> QED BY <2>1, <1>3, <1>17 DEF DiscardAndEnqueue, ClosedAlready
<1>18. CASE AskForAll
  <2>1. /\ Kinds \in SUBSET Kinds /\ owed' \subseteq Ids /\ Enqueue(Kinds, request)
        /\ UNCHANGED <<items, owed, crossed>>
    BY <1>18 DEF AskForAll, WordsInv, TypeOK
  <2> QED BY <1>1, <2>1, AskingStep
<1>19. CASE Claim
  BY <1>19 DEF Claim, JobInv, ClearIsClear, DiscardIsFollowed, Unfinished, WordsInv, TypeOK
<1>20. CASE ReplaceOpenDrafts
  <2>1. request' = request /\ Unfinished' = Unfinished /\ Served
    BY <1>20 DEF ReplaceOpenDrafts, Replaces, Unfinished, WordsInv, TypeOK
  <2> QED BY <2>1, ServedStep DEF JobInv, ClearIsClear, DiscardIsFollowed
<1>21. CASE RecordSuccess
  BY <1>21 DEF RecordSuccess, NoJob, JobInv, ClearIsClear, DiscardIsFollowed, Unfinished
<1>22. CASE GenerationFails
  <2>1. ~Unfinished' /\ Served
    BY <1>22 DEF GenerationFails, NoJob, Unfinished
  <2> QED BY <2>1, ServedStep DEF JobInv, ClearIsClear, DiscardIsFollowed
<1>23. CASE WorkerRestarts
  <2>1. /\ job'.state = "pending" /\ job'.kinds = Kinds /\ ~job'.drafted
        /\ request' = Outrun(request) /\ UNCHANGED <<items, owed, crossed>>
    BY <1>23 DEF WorkerRestarts, NoJob
  <2>2. ClearIsClear'
    BY <1>1, <2>1, OutrunTyped DEF ClearIsClear
  <2>3. \A i \in owed : items[i].kind \in Kinds
    <3>1. \A i \in owed : items[i] \in Item
      BY DEF WordsInv, TypeOK, Ids
    <3> QED BY <3>1 DEF Item
  <2>4. DiscardIsFollowed'
    BY <2>1, <2>3 DEF DiscardIsFollowed, Unfinished
  <2> QED BY <2>2, <2>4 DEF JobInv
<1>24. CASE UNCHANGED vars
  BY <1>24 DEF vars, JobInv, ClearIsClear, DiscardIsFollowed, Unfinished
<1> QED BY <1>6, <1>7, <1>8, <1>9, <1>10, <1>11, <1>12, <1>13, <1>14, <1>15, <1>16, <1>17, <1>18,
           <1>19, <1>20, <1>21, <1>22, <1>23, <1>24
        DEF Next, Resolve, Finish, Regenerate, Generate

-----------------------------------------------------------------------------
(* The theorems.                                                           *)

LEMMA Initially == Init => WordsInv /\ JobInv
<1> SUFFICES ASSUME Init PROVE WordsInv /\ JobInv
  OBVIOUS
<1>1. /\ items \in Seq(Item) /\ Len(items) = Cardinality(SummaryKinds) /\ Len(items) \in Nat
      /\ \A n \in Ids : items[n].status = "draft"
      /\ \A m, n \in Ids : items[m].kind = items[n].kind => m = n
  BY ReviewAssumption, DraftsOfKinds DEF Init, Ids
<1>2. \A a \in Admins : request[a] = Idle /\ Idle.at = "idle"
  BY DEF Init, Idle
<1>3. TypeOK
  <2>1. Idle \in [at : Points, item : 0..Len(items), emptied : SUBSET Ids, raced : BOOLEAN]
    BY <1>1 DEF Idle, Points
  <2>2. approved \in [Kinds -> SUBSET Ids] /\ owed \subseteq Ids /\ crossed \subseteq Ids
    BY DEF Init
  <2> QED BY <1>1, <2>1, <2>2, ReviewAssumption DEF Init, TypeOK, NoJob
<1>4. RequestsNamed /\ HeldIsOpen /\ EmptiedIsAll
  BY <1>2 DEF RequestsNamed, HeldIsOpen, EmptiedIsAll, Holding
<1>5. DraftIsLatest
  BY <1>1 DEF DraftIsLatest, Ids
<1>6. LatestApprovedStands
  BY <1>1 DEF LatestApprovedStands, Published, Init
<1>7. JobInv
  BY <1>2 DEF JobInv, ClearIsClear, DiscardIsFollowed, Init
<1> QED BY <1>3, <1>4, <1>5, <1>6, <1>7 DEF WordsInv, Words

LEMMA Inductive == Spec => [](WordsInv /\ JobInv)
<1>1. WordsInv /\ JobInv /\ [Next]_vars => (WordsInv /\ JobInv)'
  BY TypeStep, WordsStep, JobStep DEF WordsInv
<1> QED BY <1>1, Initially, PTL DEF Spec

(* Types are kept: every approved id, and every row a request or a job     *)
(* names, is a row there is.                                               *)
THEOREM TypeCorrect == Spec => []TypeOK
BY Inductive, PTL DEF WordsInv

(* Whatever the admins and the worker do at once, members read of a kind   *)
(* what was approved last, whole (publishReviewItem and closeReviewItem).  *)
THEOREM ApprovedStands == Spec => []LatestApprovedStands
BY Inductive, PTL DEF WordsInv, Words

(* A draft thrown away for another has a job unfinished that will write    *)
(* it, unless its request was outrun (regenerateReviewItem).               *)
THEOREM DiscardsFollowed == Spec => []DiscardIsFollowed
BY Inductive, PTL DEF JobInv

=============================================================================
