------------------------- MODULE FlowTrackerProofs -------------------------
(***************************************************************************)
(* What TLAPS proves of FlowTracker, for any lines, proposals, admins and  *)
(* tabs: the last answer completes a session, the questions step never     *)
(* writes over an admin's words and gives every chapter its question, and  *)
(* a settled list tiles its teaching.                                      *)
(*                                                                         *)
(* That a session's end is not taken back rests on the ids of chapters: an *)
(* item is about a chapter there has been, and one that has gone does not  *)
(* come back, so what is left to ask only shrinks.                         *)
(***************************************************************************)
EXTENDS FlowTracker, FiniteSetTheorems, WellFoundedInduction, SequenceTheorems, TLAPS

AnyAnswered == UNION {[S -> BOOLEAN] : S \in SUBSET Nat}

Rows == [status : {"in_progress", "complete", "abandoned", "deleted"}, answered : AnyAnswered]

Requests == [at : {"idle", "picked", "inserted", "answering", "answered", "closing"},
             items : SUBSET Nat, session : Nat, item : Nat]

ListTyped == made \in Nat /\ DOMAIN chapters \subseteq 1..made

FlowTyped == /\ sessions \in Seq(Rows)
             /\ tab \in [Tabs -> Requests]
             /\ DOMAIN questions \subseteq Nat

(* An item is about the teaching or about a chapter that has been.         *)
ItemsMade == \A s \in DOMAIN sessions : DOMAIN sessions[s].answered \subseteq 0..made

(* A request past its first statement is about a session there is.         *)
RequestsNamed ==
    \A t \in Tabs :
        /\ tab[t].at \in {"inserted", "answering", "answered", "closing"} =>
              tab[t].session \in DOMAIN sessions
        /\ tab[t].at = "answering" => tab[t].item \in DOMAIN sessions[tab[t].session].answered

(* Once it was counted that nothing is left, nothing is.                   *)
NothingLeft ==
    \A t \in Tabs : tab[t].at \in {"inserted", "closing"} => Unanswered(tab[t].session) = {}

Inv == ListTyped /\ FlowTyped /\ ItemsMade /\ RequestsNamed /\ NothingLeft
       /\ CompletesWithLastAnswer

-----------------------------------------------------------------------------

(* A step on the list gives new ids to new chapters, and to no others.     *)
LEMMA NewIds ==
    ASSUME ListTyped, ChaptersNext
    PROVE  /\ ListTyped'
           /\ made' >= made
           /\ DOMAIN chapters' \subseteq DOMAIN chapters \cup (made + 1 .. made')
<1> USE DEF ListTyped
<1>1. CASE UNCHANGED <<chapters, made>>
  BY <1>1
<1>2. ASSUME NEW a \in Admins, MoveBoundary(a) PROVE UNCHANGED made /\ DOMAIN chapters' = DOMAIN chapters
  BY <1>2 DEF MoveBoundary
<1>3. ASSUME NEW a \in Admins, SplitChapter(a)
      PROVE  \/ UNCHANGED <<chapters, made>>
             \/ made' = made + 1 /\ DOMAIN chapters' = DOMAIN chapters \cup {made + 1}
  BY <1>3 DEF SplitChapter, With, Each
<1>4. ASSUME NEW a \in Admins, MergeChapter(a)
      PROVE  UNCHANGED made /\ DOMAIN chapters' \subseteq DOMAIN chapters
  BY <1>4 DEF MergeChapter, Without, Restrict
<1>5. ASSUME ReplaceChapters
      PROVE  \/ UNCHANGED <<chapters, made>>
             \/ made' \in made..MaxChapters
                /\ DOMAIN chapters' \subseteq DOMAIN chapters \cup (made + 1 .. made')
  BY <1>5 DEF ReplaceChapters, Without, Restrict, With, listVars
<1>6. \/ UNCHANGED <<chapters, made>>
      \/ \E a \in Admins : MoveBoundary(a) \/ SplitChapter(a) \/ MergeChapter(a)
      \/ ReplaceChapters
  BY DEF ChaptersNext, EditChapters, RunJobs, ReadForMove, ReadForSplit, ReadForMerge, Opens,
         SetQuestion, AskFor, Claim, ModelDivides, ClearChapters, DraftEnds, ListChapters,
         FindMissing, NothingMissing, WriteQuestions, ModelFails, WorkerDies, listVars
<1> QED BY <1>1, <1>2, <1>3, <1>4, <1>5, <1>6, ChaptersAssumption DEF ChaptersAssumption

LEMMA QuestionsNamed ==
    ASSUME ListTyped, DOMAIN questions \subseteq Nat, ChaptersNext
    PROVE  DOMAIN questions' \subseteq Nat
<1> USE DEF ListTyped
<1>1. ASSUME NEW a \in Admins, MergeChapter(a) PROVE DOMAIN questions' \subseteq DOMAIN questions
  BY <1>1 DEF MergeChapter, Without, Restrict
<1>2. ASSUME NEW c \in DOMAIN chapters, SetQuestion(c) PROVE DOMAIN questions' \subseteq Nat
  BY <1>2 DEF SetQuestion, With, Each
<1>3. ASSUME ReplaceChapters PROVE DOMAIN questions' \subseteq DOMAIN questions
  BY <1>3 DEF ReplaceChapters, Without, Restrict, listVars
<1>4. ASSUME WriteQuestions PROVE DOMAIN questions' \subseteq Nat
  BY <1>4 DEF WriteQuestions, With, Each
<1>5. \/ UNCHANGED questions
      \/ \E a \in Admins : MergeChapter(a)
      \/ \E c \in DOMAIN chapters : SetQuestion(c)
      \/ ReplaceChapters \/ WriteQuestions
  BY DEF ChaptersNext, EditChapters, RunJobs, ReadForMove, ReadForSplit, ReadForMerge, Opens,
         MoveBoundary, SplitChapter, AskFor, Claim, ModelDivides, ClearChapters, DraftEnds,
         ListChapters, FindMissing, NothingMissing, ModelFails, WorkerDies, listVars
<1> QED BY <1>1, <1>2, <1>3, <1>4, <1>5

(* Whatever the list does, it leaves a session less to ask.                *)
LEMMA ListSteps ==
    ASSUME Inv, ChaptersNext, UNCHANGED flowVars
    PROVE  Inv'
<1>1. /\ ListTyped'
      /\ made' >= made
      /\ DOMAIN chapters' \subseteq DOMAIN chapters \cup (made + 1 .. made')
  BY NewIds DEF Inv
<1>2. FlowTyped'
  BY QuestionsNamed DEF Inv, FlowTyped, flowVars
<1>3. ItemsMade' /\ RequestsNamed'
  BY <1>1 DEF Inv, ItemsMade, RequestsNamed, ListTyped, flowVars
<1>4. ASSUME NEW s \in DOMAIN sessions, NEW i \in DOMAIN sessions[s].answered, i \in DOMAIN chapters'
      PROVE  i \in DOMAIN chapters
  BY <1>1, <1>4 DEF Inv, ItemsMade, ListTyped
<1>5. NothingLeft'
  BY <1>4 DEF Inv, NothingLeft, RequestsNamed, Unanswered, Exists, flowVars
<1>6. CompletesWithLastAnswer'
  BY <1>4 DEF Inv, CompletesWithLastAnswer, Is, flowVars
<1> QED BY <1>1, <1>2, <1>3, <1>5, <1>6 DEF Inv

-----------------------------------------------------------------------------

LEMMA InitInv == Init => Inv
BY DEF Init, ChaptersInit, Inv, ListTyped, FlowTyped, ItemsMade, RequestsNamed, NothingLeft,
       CompletesWithLastAnswer, Requests, NoRequest, Whole

(* A request that begins, and one that is answered while it reads.         *)
LEMMA ReadPickSafe ==
    ASSUME Inv, NEW t \in Tabs, ReadPick(t)
    PROVE  Inv'
<1> USE DEF Inv, ReadPick, listVars
<1>1. tab' \in [Tabs -> Requests]
  <2> DEFINE items == DOMAIN questions \cup (IF teachingAsked THEN {Whole} ELSE {})
             pick == [NoRequest EXCEPT !.at = "picked", !.items = items]
  <2>1. items \in SUBSET Nat
    BY DEF FlowTyped, Whole
  <2> HIDE DEF items
  <2>2. pick \in Requests
    BY <2>1 DEF Requests, NoRequest, Whole
  <2>3. tab' = [tab EXCEPT ![t] = pick]
    BY DEF items
  <2> HIDE DEF pick
  <2> QED BY <2>2, <2>3 DEF FlowTyped
<1>2. ListTyped' /\ FlowTyped' /\ ItemsMade'
  BY <1>1 DEF ListTyped, FlowTyped, ItemsMade
<1>3. \A u \in Tabs : tab'[u] = tab[u] \/ (u = t /\ tab'[u].at = "picked")
  BY DEF FlowTyped, NoRequest
<1>4. RequestsNamed' /\ NothingLeft'
  BY <1>3 DEF RequestsNamed, NothingLeft, Unanswered, Exists
<1>5. CompletesWithLastAnswer'
  BY <1>3 DEF CompletesWithLastAnswer, Is
<1> QED BY <1>2, <1>4, <1>5

LEMMA InsertSessionSafe ==
    ASSUME Inv, NEW t \in Tabs, InsertSession(t)
    PROVE  Inv'
<1> USE DEF Inv
<1>1. CASE Answers(t) /\ UNCHANGED sessions
  <2>1. tab' \in [Tabs -> Requests] /\ \A u \in Tabs : tab'[u] = tab[u] \/ (u = t /\ tab'[u].at = "idle")
    BY <1>1 DEF Answers, FlowTyped, Requests, NoRequest, Whole
  <2>2. UNCHANGED <<chapters, made, questions, cut>> /\ tab[t].at = "picked"
    BY DEF InsertSession, chapterVars, listVars
  <2> QED BY <1>1, <2>1, <2>2 DEF ListTyped, FlowTyped, ItemsMade, RequestsNamed, NothingLeft,
         Unanswered, Exists, CompletesWithLastAnswer, Is
<1>2. CASE ~(Answers(t) /\ UNCHANGED sessions)
  <2> DEFINE items == tab[t].items
             n == Len(sessions) + 1
             row == [status |-> "in_progress", answered |-> [i \in items |-> FALSE]]
  <2>1. /\ sessions' = Append(sessions, row)
        /\ \A i \in items : i = 0 \/ i \in DOMAIN chapters
        /\ UNCHANGED <<chapters, made, questions, cut>>
        /\ tab[t].at = "picked"
    BY <1>2 DEF InsertSession, chapterVars, listVars, Whole, Exists
  <2>2. items \subseteq 0..made
    BY <2>1 DEF ListTyped
  <2>3. row \in Rows
    <3>1. row.answered \in [items -> BOOLEAN] /\ items \in SUBSET Nat
      BY <2>2 DEF ListTyped
    <3>2. row.answered \in AnyAnswered
      BY <3>1, Zenon DEF AnyAnswered
    <3> QED BY <3>2 DEF Rows
  <2>4. /\ sessions' \in Seq(Rows) /\ DOMAIN sessions' = DOMAIN sessions \cup {n}
        /\ n \notin DOMAIN sessions /\ n \in Nat /\ Len(sessions') = n
        /\ sessions'[n] = row /\ \A s \in DOMAIN sessions : sessions'[s] = sessions[s]
    BY <2>1, <2>3 DEF FlowTyped
  <2>5. IF items = {} THEN tab' = [tab EXCEPT ![t].at = "inserted", ![t].session = n] ELSE Answers(t)
    BY <1>2, <2>4, Zenon DEF InsertSession
  <2>6. /\ tab' \in [Tabs -> Requests]
        /\ \A u \in Tabs : u # t => tab'[u] = tab[u]
        /\ items = {} => tab'[t].at = "inserted" /\ tab'[t].session = n
        /\ items # {} => tab'[t].at = "idle"
    <3>1. CASE items = {}
      <4>1. tab' = [tab EXCEPT ![t].at = "inserted", ![t].session = n] /\ n \in Nat
        BY <2>4, <2>5, <3>1
      <4> HIDE DEF n, row
      <4>2. [tab[t] EXCEPT !.at = "inserted", !.session = n] \in Requests
        BY <4>1 DEF FlowTyped, Requests
      <4>3. tab' = [tab EXCEPT ![t] = [tab[t] EXCEPT !.at = "inserted", !.session = n]]
        BY <4>1
      <4>4. tab[t] \in Requests
        BY DEF FlowTyped
      <4>5. /\ tab' \in [Tabs -> Requests]
            /\ \A u \in Tabs : u # t => tab'[u] = tab[u]
            /\ tab'[t] = [tab[t] EXCEPT !.at = "inserted", !.session = n]
        BY <4>2, <4>3 DEF FlowTyped
      <4>6. tab'[t].at = "inserted" /\ tab'[t].session = n
        BY <4>4, <4>5 DEF Requests
      <4> QED BY <3>1, <4>5, <4>6, Zenon
    <3>2. CASE items # {}
      <4>1. tab' = [tab EXCEPT ![t] = NoRequest]
        BY <2>5, <3>2 DEF Answers
      <4>2. NoRequest \in Requests /\ NoRequest.at = "idle"
        BY DEF NoRequest, Requests, Whole
      <4> HIDE DEF items, n, row
      <4> QED BY <3>2, <4>1, <4>2 DEF FlowTyped
    <3> QED BY <3>1, <3>2
  <2>7. ListTyped' /\ FlowTyped'
    BY <2>1, <2>4, <2>6 DEF ListTyped, FlowTyped
  <2>8. ItemsMade'
    BY <2>1, <2>2, <2>4 DEF ItemsMade
  <2>9. RequestsNamed'
    BY <2>4, <2>6 DEF RequestsNamed
  <2>10. NothingLeft'
    BY <2>1, <2>4, <2>6 DEF NothingLeft, RequestsNamed, Unanswered, Exists
  <2>11. CompletesWithLastAnswer'
    <3> SUFFICES ASSUME NEW s \in DOMAIN sessions'
                 PROVE  LET left == {i \in DOMAIN sessions'[s].answered : ~sessions'[s].answered[i]} IN
                        /\ sessions'[s].status = "complete" => left \cap (DOMAIN chapters' \cup {0}) = {}
                        /\ sessions'[s].status = "in_progress" /\ left = {} =>
                              \/ \E u \in Tabs : /\ tab'[u].session = s
                                                 /\ tab'[u].at \in {"inserted", "answered", "closing"}
                              \/ s \in cut'
      BY DEF CompletesWithLastAnswer, Is, Whole
    <3>1. CASE s = n
      BY <2>4, <2>6, <3>1
    <3>2. CASE s \in DOMAIN sessions
      <4>1. sessions'[s] = sessions[s] /\ UNCHANGED <<chapters, cut>>
        BY <2>1, <2>4, <3>2
      <4>2. ASSUME NEW u \in Tabs, tab[u].at \in {"inserted", "answered", "closing"}
            PROVE  tab'[u] = tab[u]
        BY <2>1, <2>6, <4>2
      <4> HIDE DEF row, n, items
      <4> QED BY <3>2, <4>1, <4>2 DEF CompletesWithLastAnswer, Is, Whole
    <3> QED BY <2>4, <3>1, <3>2
  <2> QED BY <2>7, <2>8, <2>9, <2>10, <2>11
<1> QED BY <1>1, <1>2

LEMMA ReadSessionSafe ==
    ASSUME Inv, NEW t \in Tabs, NEW s \in DOMAIN sessions, NEW i \in DOMAIN sessions[s].answered,
           ReadSession(t, s, i)
    PROVE  Inv'
<1> DEFINE read == [NoRequest EXCEPT !.at = "answering", !.session = s, !.item = i]
<1>1. UNCHANGED <<chapters, made, questions, sessions, cut>> /\ tab' = [tab EXCEPT ![t] = read]
      /\ tab[t].at = "idle"
  BY DEF ReadSession, chapterVars, listVars
<1>2. read \in Requests /\ read.at = "answering" /\ read.session = s /\ read.item = i
  <2>1. s \in Nat /\ i \in Nat
    BY DEF Inv, FlowTyped, ItemsMade, ListTyped
  <2> QED BY <2>1 DEF Requests, NoRequest, Whole
<1> HIDE DEF read
<1>3. tab' \in [Tabs -> Requests] /\ tab'[t] = read /\ \A u \in Tabs : u # t => tab'[u] = tab[u]
  BY <1>1, <1>2 DEF Inv, FlowTyped
<1>4. ListTyped' /\ FlowTyped' /\ ItemsMade'
  BY <1>1, <1>3 DEF Inv, ListTyped, FlowTyped, ItemsMade
<1>5. RequestsNamed'
  BY <1>1, <1>2, <1>3 DEF Inv, RequestsNamed
<1>6. NothingLeft'
  BY <1>1, <1>2, <1>3 DEF Inv, NothingLeft, Unanswered, Exists
<1>7. CompletesWithLastAnswer'
  BY <1>1, <1>2, <1>3 DEF Inv, CompletesWithLastAnswer, Is
<1> QED BY <1>4, <1>5, <1>6, <1>7 DEF Inv

(* A row with one item answered is a row, of the same items.               *)
LEMMA AnsweredRow ==
    ASSUME NEW r \in Rows, NEW i \in DOMAIN r.answered, NEW f, f = [r.answered EXCEPT ![i] = TRUE]
    PROVE  LET row == [r EXCEPT !.answered = f] IN
           /\ row \in Rows /\ row.status = r.status
           /\ DOMAIN row.answered = DOMAIN r.answered
           /\ \A j \in DOMAIN row.answered : ~row.answered[j] => ~r.answered[j]
<1>1. PICK S \in SUBSET Nat : r.answered \in [S -> BOOLEAN]
  BY DEF Rows, AnyAnswered
<1>2. f \in [S -> BOOLEAN] /\ DOMAIN r.answered = S
  BY <1>1
<1>3. f \in AnyAnswered
  BY <1>2, Zenon DEF AnyAnswered
<1>4. [r EXCEPT !.answered = f] \in Rows
  BY <1>3 DEF Rows
<1>5. [r EXCEPT !.answered = f].status = r.status /\ [r EXCEPT !.answered = f].answered = f
  BY DEF Rows
<1>6. \A j \in S : ~f[j] => ~r.answered[j]
  BY <1>1, <1>2
<1> QED BY <1>2, <1>4, <1>5, <1>6, Zenon

(* A session that is written keeps its place and its items.                *)
LEMMA AnswerItemSafe ==
    ASSUME Inv, NEW t \in Tabs, AnswerItem(t)
    PROVE  Inv'
<1> DEFINE s == tab[t].session
           i == tab[t].item
<1>1. /\ UNCHANGED <<chapters, made, questions, cut>> /\ tab[t].at = "answering"
      /\ s \in DOMAIN sessions /\ i \in DOMAIN sessions[s].answered /\ tab[t] \in Requests
  BY DEF AnswerItem, chapterVars, listVars, Inv, RequestsNamed, FlowTyped
<1>2. CASE Is(s, "deleted")
  <2>1. UNCHANGED sessions /\ tab' = [tab EXCEPT ![t] = NoRequest]
    BY <1>2 DEF AnswerItem, Answers
  <2>2. NoRequest \in Requests /\ NoRequest.at = "idle"
    BY DEF NoRequest, Requests, Whole
  <2>3. /\ tab' \in [Tabs -> Requests] /\ tab'[t].at = "idle"
        /\ \A u \in Tabs : u # t => tab'[u] = tab[u]
    BY <2>1, <2>2 DEF Inv, FlowTyped
  <2>4. ListTyped' /\ FlowTyped' /\ ItemsMade' /\ RequestsNamed' /\ NothingLeft'
    BY <1>1, <2>1, <2>3 DEF Inv, ListTyped, FlowTyped, ItemsMade, RequestsNamed, NothingLeft,
                            Unanswered, Exists
  <2>5. CompletesWithLastAnswer'
    BY <1>1, <2>1, <2>3 DEF Inv, CompletesWithLastAnswer, Is
  <2> QED BY <2>4, <2>5 DEF Inv
<1>3. CASE ~Is(s, "deleted")
  <2> DEFINE row == [sessions[s] EXCEPT !.answered = [sessions[s].answered EXCEPT ![i] = TRUE]]
  <2>1. sessions' = [sessions EXCEPT ![s] = row] /\ tab' = [tab EXCEPT ![t].at = "answered"]
    BY <1>3 DEF AnswerItem, Moves
  <2>2. sessions[s] \in Rows
    BY <1>1 DEF Inv, FlowTyped
  <2>3. /\ row \in Rows /\ row.status = sessions[s].status
        /\ DOMAIN row.answered = DOMAIN sessions[s].answered
        /\ \A j \in DOMAIN row.answered : ~row.answered[j] => ~sessions[s].answered[j]
    <3> DEFINE f == [sessions[s].answered EXCEPT ![i] = TRUE]
    <3> HIDE DEF s, i
    <3> QED BY <1>1, <2>2, AnsweredRow, Zenon
  <2> HIDE DEF row
  <2>4. /\ sessions' \in Seq(Rows) /\ DOMAIN sessions' = DOMAIN sessions
        /\ sessions'[s] = row /\ \A r \in DOMAIN sessions : r # s => sessions'[r] = sessions[r]
    BY <1>1, <2>1, <2>3 DEF Inv, FlowTyped
  <2>5. /\ tab' \in [Tabs -> Requests] /\ tab'[t].at = "answered" /\ tab'[t].session = s
        /\ \A u \in Tabs : u # t => tab'[u] = tab[u]
    BY <1>1, <2>1 DEF Inv, FlowTyped, Requests
  <2> HIDE DEF s, i
  <2>6. ListTyped' /\ FlowTyped' /\ ItemsMade'
    BY <1>1, <2>3, <2>4, <2>5 DEF Inv, ListTyped, FlowTyped, ItemsMade
  <2>7. RequestsNamed'
    BY <1>1, <2>3, <2>4, <2>5 DEF Inv, RequestsNamed
  <2>8. NothingLeft'
    BY <1>1, <2>3, <2>4, <2>5 DEF Inv, NothingLeft, RequestsNamed, Unanswered, Exists
  <2>9. CompletesWithLastAnswer'
    BY <1>1, <2>3, <2>4, <2>5 DEF Inv, CompletesWithLastAnswer, Is
  <2> QED BY <2>6, <2>7, <2>8, <2>9 DEF Inv
<1> QED BY <1>2, <1>3

LEMMA CountUnansweredSafe ==
    ASSUME Inv, NEW t \in Tabs, CountUnanswered(t)
    PROVE  Inv'
<1> DEFINE s == tab[t].session
<1>1. /\ UNCHANGED <<chapters, made, questions, sessions, cut>> /\ tab[t].at = "answered"
      /\ s \in DOMAIN sessions /\ tab[t] \in Requests
  BY DEF CountUnanswered, chapterVars, listVars, Inv, RequestsNamed, FlowTyped
<1>2. /\ tab' \in [Tabs -> Requests] /\ \A u \in Tabs : u # t => tab'[u] = tab[u]
      /\ \/ Unanswered(s) = {} /\ tab'[t].at = "closing" /\ tab'[t].session = s
         \/ Unanswered(s) # {} /\ tab'[t].at = "idle"
  <2>1. CASE Unanswered(s) = {}
    <3>1. tab' = [tab EXCEPT ![t].at = "closing"]
      BY <2>1 DEF CountUnanswered, Moves
    <3>2. /\ tab' \in [Tabs -> Requests] /\ \A u \in Tabs : u # t => tab'[u] = tab[u]
          /\ tab'[t].at = "closing" /\ tab'[t].session = s
      BY <1>1, <3>1 DEF Inv, FlowTyped, Requests
    <3> QED BY <2>1, <3>2
  <2>2. CASE Unanswered(s) # {}
    <3>1. tab' = [tab EXCEPT ![t] = NoRequest]
      BY <2>2 DEF CountUnanswered, Answers
    <3>2. NoRequest \in Requests /\ NoRequest.at = "idle"
      BY DEF NoRequest, Requests, Whole
    <3> QED BY <2>2, <3>1, <3>2 DEF Inv, FlowTyped
  <2> QED BY <2>1, <2>2
<1> HIDE DEF s
<1>3. ListTyped' /\ FlowTyped' /\ ItemsMade' /\ RequestsNamed'
  BY <1>1, <1>2 DEF Inv, ListTyped, FlowTyped, ItemsMade, RequestsNamed
<1>4. NothingLeft'
  BY <1>1, <1>2 DEF Inv, NothingLeft, Unanswered, Exists
<1>5. CompletesWithLastAnswer'
  BY <1>1, <1>2 DEF Inv, CompletesWithLastAnswer, Is, Unanswered, s
<1> QED BY <1>3, <1>4, <1>5 DEF Inv

(* A session that ends or goes, with the answer to a request about it.     *)
LEMMA EndSafe ==
    ASSUME Inv, NEW s \in DOMAIN sessions, NEW status \in {"complete", "abandoned", "deleted"},
           sessions' = [sessions EXCEPT ![s].status = status],
           status = "complete" => Unanswered(s) = {},
           UNCHANGED <<chapters, made, questions, cut>>,
           tab' \in [Tabs -> Requests],
           \A u \in Tabs : tab'[u] = tab[u] \/ (tab'[u].at = "idle" /\ tab[u].session = s)
    PROVE  Inv'
<1> DEFINE row == [sessions[s] EXCEPT !.status = status]
<1>1. sessions[s] \in Rows
  BY DEF Inv, FlowTyped
<1>2. row \in Rows /\ row.status = status /\ row.answered = sessions[s].answered
  BY <1>1 DEF Rows
<1>3. sessions' = [sessions EXCEPT ![s] = row]
  OBVIOUS
<1> HIDE DEF row
<1>4. /\ sessions' \in Seq(Rows) /\ DOMAIN sessions' = DOMAIN sessions
      /\ sessions'[s] = row /\ \A r \in DOMAIN sessions : r # s => sessions'[r] = sessions[r]
  BY <1>2, <1>3 DEF Inv, FlowTyped
<1>5. ListTyped' /\ FlowTyped' /\ ItemsMade'
  BY <1>2, <1>4 DEF Inv, ListTyped, FlowTyped, ItemsMade
<1>6. RequestsNamed'
  BY <1>2, <1>4 DEF Inv, RequestsNamed
<1>7. NothingLeft'
  BY <1>2, <1>4 DEF Inv, NothingLeft, RequestsNamed, Unanswered, Exists
<1>8. CompletesWithLastAnswer'
  BY <1>2, <1>4 DEF Inv, CompletesWithLastAnswer, Is, Unanswered, Exists
<1> QED BY <1>5, <1>6, <1>7, <1>8 DEF Inv

LEMMA CompleteSessionSafe ==
    ASSUME Inv, NEW t \in Tabs, CompleteSession(t)
    PROVE  Inv'
<1> DEFINE s == tab[t].session
<1>1. /\ UNCHANGED <<chapters, made, questions, cut>> /\ tab[t].at \in {"inserted", "closing"}
      /\ s \in DOMAIN sessions /\ Unanswered(s) = {}
  BY DEF CompleteSession, chapterVars, listVars, Inv, RequestsNamed, NothingLeft
<1>2. tab' = [tab EXCEPT ![t] = NoRequest]
  BY DEF CompleteSession, Answers
<1>3. NoRequest \in Requests /\ NoRequest.at = "idle"
  BY DEF NoRequest, Requests, Whole
<1>4. /\ tab' \in [Tabs -> Requests] /\ tab'[t].at = "idle"
      /\ \A u \in Tabs : u # t => tab'[u] = tab[u]
  BY <1>2, <1>3 DEF Inv, FlowTyped
<1>5. CASE Is(s, "in_progress")
  <2>1. sessions' = [sessions EXCEPT ![s].status = "complete"]
    BY <1>5 DEF CompleteSession
  <2> QED BY <1>1, <1>4, <2>1, EndSafe
<1>6. CASE ~Is(s, "in_progress")
  <2>1. UNCHANGED sessions
    BY <1>6 DEF CompleteSession
  <2>2. ListTyped' /\ FlowTyped' /\ ItemsMade' /\ RequestsNamed' /\ NothingLeft'
    BY <1>1, <1>4, <2>1 DEF Inv, ListTyped, FlowTyped, ItemsMade, RequestsNamed, NothingLeft,
                            Unanswered, Exists
  <2>3. CompletesWithLastAnswer'
    BY <1>1, <1>4, <1>6, <2>1 DEF Inv, CompletesWithLastAnswer, Is
  <2> QED BY <2>2, <2>3 DEF Inv
<1> QED BY <1>5, <1>6

LEMMA WebDiesSafe ==
    ASSUME Inv, WebDies
    PROVE  Inv'
<1>1. /\ UNCHANGED <<chapters, made, questions, sessions>>
      /\ tab' = [t \in Tabs |-> NoRequest]
      /\ cut \subseteq cut'
      /\ \A t \in Tabs : tab[t].at \in {"inserted", "answered", "closing"} => tab[t].session \in cut'
  BY DEF WebDies, listVars
<1>2. NoRequest \in Requests /\ NoRequest.at = "idle"
  BY DEF NoRequest, Requests, Whole
<1>3. ListTyped' /\ FlowTyped' /\ ItemsMade' /\ RequestsNamed' /\ NothingLeft'
  BY <1>1, <1>2 DEF Inv, ListTyped, FlowTyped, ItemsMade, RequestsNamed, NothingLeft
<1>4. CompletesWithLastAnswer'
  BY <1>1, <1>2 DEF Inv, CompletesWithLastAnswer, Is
<1> QED BY <1>3, <1>4 DEF Inv

-----------------------------------------------------------------------------

LEMMA StepInv == Inv /\ [Next]_vars => Inv'
<1> SUFFICES ASSUME Inv, [Next]_vars PROVE Inv'
  OBVIOUS
<1>1. CASE UNCHANGED vars
  BY <1>1 DEF vars, chapterVars, listVars, flowVars, Inv, ListTyped, FlowTyped, ItemsMade,
              RequestsNamed, NothingLeft, Unanswered, Exists, CompletesWithLastAnswer, Is
<1>2. CASE ChaptersNext /\ UNCHANGED flowVars
  BY <1>2, ListSteps
<1>3. ASSUME NEW t \in Tabs,
             \/ ReadPick(t) \/ InsertSession(t)
             \/ AnswerItem(t) \/ CountUnanswered(t) \/ CompleteSession(t)
      PROVE  Inv'
  BY <1>3, ReadPickSafe, InsertSessionSafe, AnswerItemSafe, CountUnansweredSafe, CompleteSessionSafe
<1>4. ASSUME NEW t \in Tabs, NEW s \in DOMAIN sessions, NEW i \in DOMAIN sessions[s].answered,
             ReadSession(t, s, i)
      PROVE  Inv'
  BY <1>4, ReadSessionSafe
<1>5. ASSUME NEW s \in DOMAIN sessions, Abandon(s) PROVE Inv'
  BY <1>5, EndSafe DEF Abandon, chapterVars, listVars, Inv, FlowTyped
<1>6. ASSUME NEW s \in DOMAIN sessions, DeleteSession(s) PROVE Inv'
  BY <1>6, EndSafe DEF DeleteSession, chapterVars, listVars, Inv, FlowTyped
<1>7. CASE WebDies
  BY <1>7, WebDiesSafe
<1> QED BY <1>1, <1>2, <1>3, <1>4, <1>5, <1>6, <1>7, Zenon DEF Next

(* The last answer ends a session and nothing else does, however answers   *)
(* in several tabs, remade chapters and deaths of the process fall.        *)
THEOREM LastAnswerCompletes == Spec => []CompletesWithLastAnswer
<1>1. Spec => []Inv
  BY InitInv, StepInv, PTL DEF Spec
<1>2. Inv => CompletesWithLastAnswer
  BY DEF Inv
<1> QED BY <1>1, <1>2, PTL

(* No step writes over an admin's question that it leaves in place.        *)
THEOREM AdminWordsKept == Spec => AdminWordsStand
<1> DEFINE Kept == \A c \in DOMAIN questions \cap DOMAIN questions' :
                      questions[c] = "admin" => questions'[c] = "admin"
<1>1. ASSUME [Next]_vars PROVE [Kept]_chapterVars
  <2>1. CASE UNCHANGED questions
    BY <2>1
  <2>2. ASSUME NEW a \in Admins, MergeChapter(a) PROVE Kept
    BY <2>2 DEF MergeChapter, Without, Restrict
  <2>3. ASSUME NEW c \in DOMAIN chapters, SetQuestion(c) PROVE Kept
    BY <2>3 DEF SetQuestion, With, Each
  <2>4. ASSUME ReplaceChapters PROVE Kept
    BY <2>4 DEF ReplaceChapters, Without, Restrict, listVars
  <2>5. ASSUME WriteQuestions PROVE Kept
    BY <2>5 DEF WriteQuestions, With, Each
  <2>6. ASSUME ChaptersNext
        PROVE  \/ UNCHANGED questions
               \/ \E a \in Admins : MergeChapter(a)
               \/ \E c \in DOMAIN chapters : SetQuestion(c)
               \/ ReplaceChapters \/ WriteQuestions
    BY <2>6 DEF ChaptersNext, EditChapters, RunJobs, ReadForMove, ReadForSplit, ReadForMerge, Opens,
         MoveBoundary, SplitChapter, AskFor, Claim, ModelDivides, ClearChapters, DraftEnds,
         ListChapters, FindMissing, NothingMissing, ModelFails, WorkerDies, listVars
  <2>7. \/ ChaptersNext \/ UNCHANGED questions
    BY <1>1 DEF Next, ReadPick, InsertSession, ReadSession, AnswerItem, CountUnanswered,
         CompleteSession, Abandon, DeleteSession, WebDies, vars, chapterVars, listVars
  <2> QED BY <2>1, <2>2, <2>3, <2>4, <2>5, <2>6, <2>7
<1> QED BY <1>1, PTL DEF Spec, AdminWordsStand

-----------------------------------------------------------------------------
(* Where the boundaries of a settled list are (settleChapters): what the   *)
(* loop keeps is told one boundary after the other, so it is there by      *)
(* induction on the offset.                                                *)

LEMMA Least ==
    ASSUME NEW T \in SUBSET Nat, T # {}
    PROVE  \E n \in T : \A m \in T : n <= m
<1> DEFINE less == {ss \in Nat \X Nat : ss[1] < ss[2]}
<1>1. IsWellFoundedOn(less, Nat)
  BY NatLessThanWellFounded DEF OpToRel
<1> HIDE DEF less
<1>2. PICK n \in T : \A m \in T : ~(<<m, n>> \in less)
  BY <1>1, WFMin
<1>3. \A m \in T : ~(m < n)
  BY <1>2 DEF less
<1> QED BY <1>3

LEMMA Greatest ==
    ASSUME NEW S \in SUBSET Nat, IsFiniteSet(S), S # {}
    PROVE  \E m \in S : \A n \in S : n <= m
<1> DEFINE Topped(T) == \E m \in T : \A n \in T : n <= m
           sizes == {k \in Nat : \E T \in SUBSET S : T # {} /\ ~Topped(T) /\ Cardinality(T) = k}
<1>1. \A T \in SUBSET S : IsFiniteSet(T) /\ Cardinality(T) \in Nat
  BY FS_Subset, FS_CardinalityType
<1>2. CASE sizes # {}
  <2>1. PICK k \in sizes : \A j \in sizes : k <= j
    <3>1. sizes \in SUBSET Nat
      OBVIOUS
    <3> HIDE DEF sizes
    <3> QED BY <1>2, <3>1, Least
  <2>2. PICK T \in SUBSET S : T # {} /\ ~Topped(T) /\ Cardinality(T) = k
    OBVIOUS
  <2>3. PICK x \in T : TRUE
    BY <2>2
  <2>4. Cardinality(T \ {x}) = Cardinality(T) - 1 /\ T \ {x} \in SUBSET S
    BY <1>1, FS_RemoveElement
  <2>5. T \ {x} = {} \/ Topped(T \ {x})
    <3>1. Cardinality(T \ {x}) \in Nat /\ k \in Nat
      BY <1>1, <2>4
    <3>2. Cardinality(T \ {x}) \notin sizes
      <4> HIDE DEF sizes
      <4>1. Cardinality(T \ {x}) < k
        BY <2>2, <2>4, <3>1
      <4> QED BY <2>1, <3>1, <4>1
    <3> QED BY <2>4, <3>1, <3>2
  <2>6. Topped(T)
    <3>1. CASE T \ {x} = {}
      BY <3>1
    <3>2. CASE Topped(T \ {x})
      <4>1. PICK m \in T \ {x} : \A n \in T \ {x} : n <= m
        BY <3>2
      <4>2. CASE x <= m
        BY <4>1, <4>2
      <4>3. CASE m <= x
        <5>1. \A n \in T : n <= x
          BY <4>1, <4>3
        <5> QED BY <5>1
      <4> QED BY <4>2, <4>3
    <3> QED BY <2>5, <3>1, <3>2
  <2> QED BY <2>2, <2>6
<1>3. CASE sizes = {}
  BY <1>1, <1>3
<1> QED BY <1>2, <1>3

LEMMA Extremes ==
    ASSUME NEW S \in SUBSET Nat, IsFiniteSet(S), S # {}
    PROVE  /\ Max(S) \in S /\ \A n \in S : n <= Max(S)
           /\ Min(S) \in S /\ \A n \in S : Min(S) <= n
<1>1. \E m \in S : \A n \in S : m >= n
  BY Greatest
<1>2. \E m \in S : \A n \in S : m <= n
  BY Least
<1>3. Max(S) \in S /\ \A n \in S : Max(S) >= n
  BY <1>1, Zenon DEF Max
<1>4. Min(S) \in S /\ \A n \in S : Min(S) <= n
  BY <1>2, Zenon DEF Min
<1> QED BY <1>3, <1>4

(* A boundary is kept when it is far enough from those kept before it.     *)
LEMMA SpacedRows ==
    ASSUME NEW starts \in SUBSET Nat, IsFiniteSet(starts)
    PROVE  /\ Spaced(starts) \subseteq starts
           /\ \A s \in starts :
                 s \in Spaced(starts) <=> \A t \in Spaced(starts) : t < s => s - t >= MinChapter
<1> DEFINE Far(g, s) == \A t \in starts : t < s /\ g[t] => s - t >= MinChapter
           kept == CHOOSE g : g = [s \in starts |-> Far(g, s)]
           Partial(n) == \E g : \A s \in starts : s <= n => (g[s] <=> Far(g, s))
           lacking == {n \in Nat : ~Partial(n)}
<1>1. Spaced(starts) = {s \in starts : kept[s]}
  BY DEF Spaced
<1>2. Partial(0)
  <2> DEFINE g == [s \in starts |-> TRUE]
  <2>1. \A s \in starts : s <= 0 => (g[s] <=> Far(g, s))
    OBVIOUS
  <2> QED BY <2>1
<1>3. ASSUME NEW n \in Nat, n # 0, Partial(n - 1) PROVE Partial(n)
  <2>1. PICK g : \A s \in starts : s <= n - 1 => (g[s] <=> Far(g, s))
    BY <1>3
  <2> DEFINE h == [s \in starts |-> Far(g, s)]
  <2>2. \A s \in starts : s <= n - 1 => (h[s] <=> g[s])
    BY <2>1
  <2>3. ASSUME NEW s \in starts, s <= n PROVE h[s] <=> Far(h, s)
    <3>1. \A t \in starts : t < s => t <= n - 1
      BY <1>3, <2>3
    <3>2. Far(h, s) <=> Far(g, s)
      BY <2>2, <3>1
    <3> QED BY <3>2
  <2> QED BY <2>3
<1>4. lacking = {}
  <2> SUFFICES ASSUME lacking # {} PROVE FALSE
    OBVIOUS
  <2>1. lacking \in SUBSET Nat
    OBVIOUS
  <2> HIDE DEF Partial
  <2>2. PICK n \in lacking : \A m \in lacking : n <= m
    BY <2>1, Least
  <2>3. n # 0
    BY <1>2
  <2>4. n \in Nat /\ n - 1 \in Nat /\ n - 1 \notin lacking
    BY <2>2, <2>3
  <2> QED BY <1>3, <2>3, <2>4
<1>5. PICK g : \A s \in starts : g[s] <=> Far(g, s)
  <2>1. CASE starts = {}
    BY <2>1
  <2>2. CASE starts # {}
    <3>1. PICK m \in starts : \A s \in starts : s <= m
      BY <2>2, Greatest
    <3>2. Partial(m)
      BY <1>4
    <3> QED BY <3>1, <3>2
  <2> QED BY <2>1, <2>2
<1> DEFINE G == [s \in starts |-> Far(g, s)]
<1>6. \A s \in starts : Far(G, s) <=> Far(g, s)
  BY <1>5
<1>7. G = [s \in starts |-> Far(G, s)]
  BY <1>6
<1> HIDE DEF G
<1>8. kept = [s \in starts |-> Far(kept, s)]
  BY <1>7, Zenon
<1>9. \A s \in starts : kept[s] <=> Far(kept, s)
  <2> HIDE DEF kept
  <2> QED BY <1>8
<1> HIDE DEF kept
<1> QED BY <1>1, <1>9

LEMMA LinesHold ==
    /\ Opening \in Lines /\ \A l \in Lines : l \in Nat /\ Opening <= l
    /\ \A x \in Nat : SnapToLine(x) \in Lines
<1>1. Lines \in SUBSET Nat /\ IsFiniteSet(Lines) /\ Lines # {}
  BY ChaptersAssumption
<1>2. Opening \in Lines /\ \A l \in Lines : l \in Nat /\ Opening <= l
  BY <1>1, Extremes DEF Opening
<1>3. ASSUME NEW x \in Nat PROVE SnapToLine(x) \in Lines
  <2> DEFINE before == {l \in Lines : l <= x}
  <2>1. before \in SUBSET Nat /\ before \in SUBSET Lines /\ IsFiniteSet(before)
    BY <1>1, FS_Subset
  <2>2. before # {} => Max(before) \in before
    <3> HIDE DEF before
    <3> QED BY <2>1, Extremes
  <2> QED BY <1>2, <2>2 DEF SnapToLine
<1> QED BY <1>2, <1>3

(* Two boundaries or none is what a list can have.                         *)
LEMMA TwoOrNone ==
    ASSUME NEW S, IsFiniteSet(S), NEW a \in S, Cardinality(S) < 2
    PROVE  S = {a}
<1> SUFFICES ASSUME NEW b \in S, b # a PROVE FALSE
  OBVIOUS
<1>1. IsFiniteSet({a}) /\ Cardinality({a}) = 1
  BY FS_Singleton
<1>2. Cardinality({a} \cup {b}) = 2
  BY <1>1, FS_AddElement
<1>3. Cardinality({a} \cup {b}) <= Cardinality(S) /\ Cardinality(S) \in Nat
  BY FS_Subset, FS_CardinalityType
<1> QED BY <1>2, <1>3

LEMMA SettleTiles ==
    ASSUME NEW proposed \in Proposals \cup {{}}
    PROVE  Tiles(Settle(proposed), proposed)
<1> DEFINE opened == Opened(Placed(proposed))
           kept == Spaced(opened)
           list == Settle(proposed)
<1>1. Placed(proposed) \in SUBSET Lines
  BY ChaptersAssumption, LinesHold DEF Placed
<1>2. opened \in SUBSET Lines /\ (opened # {} => Opening \in opened)
  BY <1>1, LinesHold DEF Opened
<1>3. opened \in SUBSET Nat /\ IsFiniteSet(opened)
  BY <1>2, ChaptersAssumption, FS_Subset
<1> HIDE DEF opened
<1>4. /\ kept \subseteq opened
      /\ \A s \in opened : s \in kept <=> \A t \in kept : t < s => s - t >= MinChapter
  BY <1>3, SpacedRows
<1>5. IsFiniteSet(kept) /\ Cardinality(kept) \in Nat
  BY <1>3, <1>4, FS_Subset, FS_CardinalityType
<1>6. list = IF Cardinality(kept) < 2 THEN {} ELSE kept
  BY DEF Settle, MIN_CHAPTERS, opened
<1> HIDE DEF kept, list
<1>7. opened # {} => Opening \in kept
  BY <1>2, <1>3, <1>4, LinesHold
<1>8. \A s \in opened : s \in Nat
  BY <1>3
<1>9. /\ list \subseteq opened /\ list \subseteq Lines
      /\ list # {} => Opening \in list /\ Cardinality(list) >= MIN_CHAPTERS
  BY <1>2, <1>4, <1>5, <1>6, <1>7 DEF MIN_CHAPTERS
<1>10. \A s, t \in list : s < t => t - s >= MinChapter
  BY <1>4, <1>6
<1>11. ASSUME NEW s \in opened \ list
       PROVE  \/ \E t \in list : t < s /\ s - t < MinChapter
              \/ list = {} /\ s - Opening < MinChapter
  <2>1. CASE Cardinality(kept) < 2
    <3>1. kept = {Opening}
      BY <1>5, <1>7, <2>1, TwoOrNone
    <3>2. CASE s = Opening
      BY <1>6, <1>8, <2>1, <3>2, ChaptersAssumption
    <3>3. CASE s # Opening
      <4>1. Opening < s /\ ~(s - Opening >= MinChapter)
        BY <1>2, <1>4, <3>1, <3>3, LinesHold
      <4> QED BY <1>6, <1>8, <2>1, <4>1, ChaptersAssumption, LinesHold
    <3> QED BY <3>2, <3>3
  <2>2. CASE ~(Cardinality(kept) < 2)
    <3>1. PICK t \in kept : t < s /\ ~(s - t >= MinChapter)
      BY <1>4, <1>6, <2>2
    <3>2. s - t < MinChapter
      BY <1>4, <1>8, <3>1, ChaptersAssumption
    <3> QED BY <1>6, <2>2, <3>1, <3>2
  <2> QED BY <2>1, <2>2
<1> QED BY <1>9, <1>10, <1>11 DEF Tiles, opened, list

-----------------------------------------------------------------------------
(* The types of the list, the edits and the jobs.  A move is of one        *)
(* chapter to one line, or two chapters could come to start together.      *)

Works == [step : JobSteps \cup {"none"},
          at : {"", "open", "answered", "cleared", "listed", "asking"},
          proposed : Proposals \cup {{}}, cleared : SUBSET Nat,
          divided : BOOLEAN, subjects : SUBSET Nat, whole : BOOLEAN]

Edits(ids) == [at : {"idle", "move", "split", "merge"}, chapters : SUBSET ids,
               start : Lines \cup {0}, survivor : SUBSET ids]

ListOK ==
    /\ made \in 0..MaxChapters
    /\ DOMAIN chapters \subseteq 1..made /\ chapters \in [DOMAIN chapters -> Lines]
    /\ IsInjective(chapters)
    /\ DOMAIN questions \subseteq DOMAIN chapters
    /\ questions \in [DOMAIN questions -> {"model", "admin"}]
    /\ teachingAsked \in BOOLEAN

EditsOK ==
    /\ edit \in [Admins -> Edits(1..made)]
    /\ \A a \in Admins : /\ edit[a].at = "move" => \E c : edit[a].chapters = {c}
                         /\ edit[a].at \in {"move", "split"} => edit[a].start \in Lines

QueueOK == queue \in Seq(JobSteps) /\ IsInjective(queue) /\ worker.step \notin Range(queue)

WorkerOK ==
    /\ worker \in Works
    /\ worker.cleared \subseteq 1..made /\ worker.subjects \subseteq 1..made
    /\ failed \subseteq JobSteps /\ missed \in BOOLEAN /\ events \in 0..MaxEvents

ChaptersOK == ListOK /\ EditsOK /\ QueueOK /\ WorkerOK

LEMMA SeqOfSet ==
    ASSUME NEW S, IsFiniteSet(S)
    PROVE  /\ SetToSeq(S) \in [1..Cardinality(S) -> S] /\ IsInjective(SetToSeq(S))
           /\ Cardinality(S) \in Nat /\ Len(SetToSeq(S)) = Cardinality(S)
<1>1. Cardinality(S) \in Nat /\ \E f \in [1..Cardinality(S) -> S] : IsInjective(f)
  BY FS_CardinalityType DEF ExistsBijection, Bijection, Injection
<1>2. SetToSeq(S) \in [1..Cardinality(S) -> S] /\ IsInjective(SetToSeq(S))
  BY <1>1, Zenon DEF SetToSeq
<1> QED BY <1>1, <1>2

(* Rows put into a table that has none of their starts.                    *)
LEMMA RowsAdded ==
    ASSUME NEW f, f \in [DOMAIN f -> Lines], IsInjective(f),
           NEW g, g \in [DOMAIN g -> Lines], IsInjective(g),
           \A c \in DOMAIN g, d \in DOMAIN f : g[c] # f[d]
    PROVE  /\ DOMAIN With(f, g) = DOMAIN f \cup DOMAIN g
           /\ With(f, g) \in [DOMAIN f \cup DOMAIN g -> Lines]
           /\ IsInjective(With(f, g))
BY DEF With, IsInjective

LEMMA RowsTaken ==
    ASSUME NEW f, NEW V, f \in [DOMAIN f -> V], NEW ids
    PROVE  /\ DOMAIN Without(f, ids) = DOMAIN f \ ids
           /\ Without(f, ids) \in [DOMAIN f \ ids -> V]
           /\ IsInjective(f) => IsInjective(Without(f, ids))
           /\ \A c \in DOMAIN f \ ids : Without(f, ids)[c] = f[c]
BY DEF Without, Restrict, IsInjective

LEMMA MoveKeepsList ==
    ASSUME ChaptersOK, NEW a \in Admins, MoveBoundary(a)
    PROVE  ListOK'
<1> DEFINE e == edit[a]
<1>1. PICK c : e.chapters = {c} /\ e.start \in Lines
  BY DEF MoveBoundary, ChaptersOK, EditsOK
<1>2. \/ chapters' = chapters
      \/ /\ e.start \notin Range(chapters)
         /\ chapters' = [d \in DOMAIN chapters |-> IF d \in e.chapters THEN e.start ELSE chapters[d]]
  BY DEF MoveBoundary
<1>3. DOMAIN chapters' = DOMAIN chapters /\ chapters' \in [DOMAIN chapters' -> Lines]
  BY <1>1, <1>2 DEF ChaptersOK, ListOK
<1>4. IsInjective(chapters')
  BY <1>1, <1>2 DEF ChaptersOK, ListOK, IsInjective, Range
<1>5. UNCHANGED <<made, questions, teachingAsked>>
  BY DEF MoveBoundary
<1> QED BY <1>3, <1>4, <1>5 DEF ChaptersOK, ListOK

LEMMA SplitKeepsList ==
    ASSUME ChaptersOK, NEW a \in Admins, SplitChapter(a)
    PROVE  ListOK'
<1> DEFINE start == edit[a].start
           new == Each({made + 1}, start)
<1>1. start \in Lines /\ made \in Nat /\ made < MaxChapters /\ UNCHANGED <<questions, teachingAsked>>
  BY DEF SplitChapter, ChaptersOK, EditsOK, ListOK
<1>2. CASE UNCHANGED <<chapters, made>>
  BY <1>1, <1>2 DEF ChaptersOK, ListOK
<1>3. CASE /\ start \notin Range(chapters) /\ made' = made + 1
           /\ chapters' = With(chapters, new)
  <2>1. DOMAIN new = {made + 1} /\ new \in [DOMAIN new -> Lines] /\ IsInjective(new)
        /\ \A c \in DOMAIN new : new[c] = start
    BY <1>1 DEF Each, IsInjective
  <2> HIDE DEF new
  <2>2. \A c \in DOMAIN new, d \in DOMAIN chapters : new[c] # chapters[d]
    BY <1>3, <2>1 DEF Range
  <2>3. /\ DOMAIN chapters' = DOMAIN chapters \cup {made + 1}
        /\ chapters' \in [DOMAIN chapters' -> Lines] /\ IsInjective(chapters')
    BY <1>3, <2>1, <2>2, RowsAdded DEF ChaptersOK, ListOK
  <2> QED BY <1>1, <1>3, <2>3, ChaptersAssumption DEF ChaptersOK, ListOK
<1> QED BY <1>2, <1>3 DEF SplitChapter

LEMMA MergeKeepsList ==
    ASSUME ChaptersOK, NEW a \in Admins, MergeChapter(a)
    PROVE  ListOK'
<1>1. /\ chapters' = Without(chapters, edit[a].chapters)
      /\ questions' = Without(questions, edit[a].chapters \cup edit[a].survivor)
      /\ UNCHANGED <<made, teachingAsked>>
  BY DEF MergeChapter
<1>2. /\ DOMAIN chapters' = DOMAIN chapters \ edit[a].chapters
      /\ chapters' \in [DOMAIN chapters' -> Lines] /\ IsInjective(chapters')
  BY <1>1, RowsTaken DEF ChaptersOK, ListOK
<1>3. /\ DOMAIN questions' = DOMAIN questions \ (edit[a].chapters \cup edit[a].survivor)
      /\ questions' \in [DOMAIN questions' -> {"model", "admin"}]
  BY <1>1, RowsTaken DEF ChaptersOK, ListOK
<1> QED BY <1>1, <1>2, <1>3 DEF ChaptersOK, ListOK

LEMMA ReplaceKeepsList ==
    ASSUME ChaptersOK, ReplaceChapters
    PROVE  ListOK'
<1> DEFINE starts == Settle(worker.proposed)
           kept == Without(chapters, worker.cleared)
           rows == SetToSeq(starts)
           new == [c \in made + 1 .. made' |-> rows[c - made]]
<1>1. CASE UNCHANGED listVars /\ UNCHANGED teachingAsked
  BY <1>1 DEF listVars, ChaptersOK, ListOK
<1>2. CASE /\ starts \cap Range(kept) = {} /\ made' = made + Len(rows) /\ made' \in made..MaxChapters
           /\ chapters' = With(kept, new) /\ questions' = Without(questions, worker.cleared)
           /\ UNCHANGED teachingAsked
  <2>1. starts \in SUBSET Lines /\ IsFiniteSet(starts)
    <3>1. worker.proposed \in Proposals \cup {{}}
      BY DEF ChaptersOK, WorkerOK, Works
    <3>2. starts \subseteq Lines
      BY <3>1, SettleTiles DEF Tiles
    <3> QED BY <3>2, ChaptersAssumption, FS_Subset
  <2> HIDE DEF starts
  <2>2. /\ rows \in [1..Len(rows) -> starts] /\ IsInjective(rows) /\ Len(rows) \in Nat
    BY <2>1, SeqOfSet
  <2>3. made \in Nat /\ DOMAIN chapters \subseteq 1..made
    BY DEF ChaptersOK, ListOK
  <2> HIDE DEF rows
  <2>4. \A c \in made + 1 .. made' : c - made \in 1..Len(rows)
    BY <1>2, <2>2, <2>3
  <2>5. /\ DOMAIN new = made + 1 .. made' /\ new \in [DOMAIN new -> Lines] /\ IsInjective(new)
        /\ \A c \in DOMAIN new : new[c] \in starts
    <3>1. \A c \in made + 1 .. made' : rows[c - made] \in starts
      BY <2>2, <2>4
    <3>2. \A c, d \in made + 1 .. made' : rows[c - made] = rows[d - made] => c - made = d - made
      BY <2>2, <2>4 DEF IsInjective
    <3>3. \A c, d \in made + 1 .. made' : c - made = d - made => c = d
      BY <1>2, <2>2, <2>3
    <3> QED BY <2>1, <3>1, <3>2, <3>3 DEF IsInjective
  <2>6. /\ DOMAIN kept = DOMAIN chapters \ worker.cleared
        /\ kept \in [DOMAIN kept -> Lines] /\ IsInjective(kept)
    BY RowsTaken DEF ChaptersOK, ListOK
  <2> HIDE DEF kept, new
  <2>7. \A c \in DOMAIN new, d \in DOMAIN kept : new[c] # kept[d]
    BY <1>2, <2>5 DEF Range
  <2>8. /\ DOMAIN chapters' = (DOMAIN chapters \ worker.cleared) \cup (made + 1 .. made')
        /\ chapters' \in [DOMAIN chapters' -> Lines] /\ IsInjective(chapters')
    BY <1>2, <2>5, <2>6, <2>7, RowsAdded
  <2>9. /\ DOMAIN questions' = DOMAIN questions \ worker.cleared
        /\ questions' \in [DOMAIN questions' -> {"model", "admin"}]
    BY <1>2, RowsTaken DEF ChaptersOK, ListOK
  <2>10. made' \in 0..MaxChapters /\ DOMAIN chapters' \subseteq 1..made'
    BY <1>2, <2>2, <2>3, <2>8, ChaptersAssumption
  <2> QED BY <1>2, <2>8, <2>9, <2>10 DEF ChaptersOK, ListOK
<1> QED BY <1>1, <1>2, Zenon DEF ReplaceChapters

LEMMA ListKept == ASSUME ChaptersOK, ChaptersNext PROVE ListOK'
<1>1. ASSUME NEW c \in DOMAIN chapters, SetQuestion(c) PROVE ListOK'
  BY <1>1 DEF SetQuestion, With, Each, ChaptersOK, ListOK
<1>2. ASSUME NothingMissing PROVE ListOK'
  BY <1>2 DEF NothingMissing, listVars, ChaptersOK, ListOK
<1>3. ASSUME WriteQuestions PROVE ListOK'
  <2>1. worker.whole \in BOOLEAN
    BY DEF ChaptersOK, WorkerOK, Works
  <2> QED BY <1>3, <2>1 DEF WriteQuestions, With, Each, ChaptersOK, ListOK
<1>4. CASE UNCHANGED <<listVars, teachingAsked>>
  BY <1>4 DEF listVars, ChaptersOK, ListOK
<1>5. \/ UNCHANGED <<listVars, teachingAsked>>
      \/ \E a \in Admins : MoveBoundary(a) \/ SplitChapter(a) \/ MergeChapter(a)
      \/ \E c \in DOMAIN chapters : SetQuestion(c)
      \/ ReplaceChapters \/ NothingMissing \/ WriteQuestions
  BY DEF ChaptersNext, EditChapters, RunJobs, ReadForMove, ReadForSplit, ReadForMerge, Opens,
         AskFor, Claim, ModelDivides, ClearChapters, DraftEnds, ListChapters, FindMissing,
         ModelFails, WorkerDies
<1> QED BY <1>1, <1>2, <1>3, <1>4, <1>5, MoveKeepsList, SplitKeepsList, MergeKeepsList,
           ReplaceKeepsList

(* The chapter before one that is not the first is a chapter before it.    *)
LEMMA PreviousThere ==
    ASSUME ListOK, NEW c \in DOMAIN chapters, Earlier(c) # {}
    PROVE  Previous(c) \in Earlier(c)
<1> DEFINE starts == {chapters[d] : d \in Earlier(c)}
<1>1. starts \in SUBSET Lines /\ starts # {}
  BY DEF ListOK, Earlier
<1>2. starts \in SUBSET Nat /\ IsFiniteSet(starts)
  BY <1>1, ChaptersAssumption, FS_Subset
<1>3. \E m \in starts : \A n \in starts : n <= m
  <2> HIDE DEF starts
  <2> QED BY <1>1, <1>2, Greatest
<1>4. \E d \in Earlier(c) : \A e \in Earlier(c) : chapters[e] <= chapters[d]
  BY <1>3
<1> QED BY <1>4, Zenon DEF Previous

LEMMA OpensTyped ==
    ASSUME ChaptersOK, NEW a \in Admins, NEW at \in {"move", "split", "merge"},
           NEW ids \in SUBSET (1..made), NEW start \in Lines \cup {0}, NEW survivor \in SUBSET (1..made),
           at = "move" => \E c : ids = {c},
           at \in {"move", "split"} => start \in Lines,
           Opens(a, at, ids, start, survivor)
    PROVE  EditsOK'
<1> DEFINE e == [at |-> at, chapters |-> ids, start |-> start, survivor |-> survivor]
<1>1. edit' = [edit EXCEPT ![a] = e] /\ UNCHANGED made
  BY DEF Opens, listVars
<1>2. e \in Edits(1..made)
  BY DEF Edits
<1>3. edit' \in [Admins -> Edits(1..made)] /\ edit'[a] = e /\ \A b \in Admins : b # a => edit'[b] = edit[b]
  <2> HIDE DEF e
  <2> QED BY <1>1, <1>2 DEF ChaptersOK, EditsOK
<1>4. ASSUME NEW b \in Admins
      PROVE  /\ edit'[b].at = "move" => \E c : edit'[b].chapters = {c}
             /\ edit'[b].at \in {"move", "split"} => edit'[b].start \in Lines
  <2>1. CASE b = a
    BY <1>3, <2>1
  <2>2. CASE b # a
    BY <1>3, <2>2 DEF ChaptersOK, EditsOK
  <2> QED BY <2>1, <2>2
<1> QED BY <1>1, <1>3, <1>4 DEF EditsOK

LEMMA ClosesTyped ==
    ASSUME ChaptersOK, NEW a \in Admins, Closes(a)
    PROVE  /\ edit' \in [Admins -> Edits(1..made)]
           /\ \A b \in Admins : edit'[b] = edit[b] \/ edit'[b] = IdleEdit
<1>1. IdleEdit \in Edits(1..made)
  BY DEF IdleEdit, Edits
<1> HIDE DEF IdleEdit
<1> QED BY <1>1 DEF ChaptersOK, EditsOK, Closes

(* An edit that is left alone or over still is of ids that were given.     *)
LEMMA EditsGrow ==
    ASSUME ChaptersOK, made' \in Nat, made' >= made, edit' \in [Admins -> Edits(1..made)],
           \A a \in Admins : edit'[a] = edit[a] \/ edit'[a] = IdleEdit
    PROVE  EditsOK'
<1>1. Edits(1..made) \subseteq Edits(1..made')
  <2>1. 1..made \subseteq 1..made'
    BY DEF ChaptersOK, ListOK
  <2> QED BY <2>1 DEF Edits
<1>2. edit' \in [Admins -> Edits(1..made')]
  BY <1>1
<1>3. ASSUME NEW a \in Admins
      PROVE  /\ edit'[a].at = "move" => \E c : edit'[a].chapters = {c}
             /\ edit'[a].at \in {"move", "split"} => edit'[a].start \in Lines
  <2>1. CASE edit'[a] = edit[a]
    BY <2>1, Zenon DEF ChaptersOK, EditsOK
  <2>2. CASE edit'[a] = IdleEdit
    BY <2>2 DEF IdleEdit
  <2> QED BY <2>1, <2>2
<1> QED BY <1>2, <1>3 DEF EditsOK

LEMMA EditsKept == ASSUME ChaptersOK, ChaptersNext PROVE EditsOK'
<1>1. made \in Nat /\ DOMAIN chapters \subseteq 1..made /\ made' \in Nat /\ made' >= made
  <2>1. ListTyped
    BY DEF ListTyped, ChaptersOK, ListOK
  <2> QED BY <2>1, NewIds DEF ListTyped
<1>2. ASSUME NEW a \in Admins, NEW c \in DOMAIN chapters, NEW start \in Lines, ReadForMove(a, c, start)
      PROVE  EditsOK'
  BY <1>1, <1>2, OpensTyped DEF ReadForMove
<1>3. ASSUME NEW a \in Admins, NEW c \in DOMAIN chapters, NEW start \in Lines, ReadForSplit(a, c, start)
      PROVE  EditsOK'
  BY <1>1, <1>3, OpensTyped DEF ReadForSplit
<1>4. ASSUME NEW a \in Admins, NEW c \in DOMAIN chapters, ReadForMerge(a, c)
      PROVE  EditsOK'
  <2> DEFINE emptied == Cardinality(DOMAIN chapters) <= MIN_CHAPTERS
             ids == IF emptied THEN DOMAIN chapters ELSE {c}
             survivor == IF emptied THEN {} ELSE {Previous(c)}
  <2>1. Earlier(c) # {} /\ Opens(a, "merge", ids, 0, survivor)
    BY <1>4 DEF ReadForMerge
  <2>2. Previous(c) \in DOMAIN chapters
    BY <2>1, PreviousThere DEF ChaptersOK, Earlier
  <2>3. ids \in SUBSET (1..made) /\ survivor \in SUBSET (1..made)
    BY <1>1, <2>2
  <2> HIDE DEF ids, survivor
  <2> QED BY <2>1, <2>3, OpensTyped
<1>5. CASE \E a \in Admins : Closes(a)
  BY <1>1, <1>5, ClosesTyped, EditsGrow
<1>6. CASE UNCHANGED edit
  BY <1>1, <1>6, EditsGrow DEF ChaptersOK, EditsOK
<1>7. \/ UNCHANGED edit
      \/ \E a \in Admins : Closes(a)
      \/ \E a \in Admins, c \in DOMAIN chapters :
            \/ \E start \in Lines : ReadForMove(a, c, start) \/ ReadForSplit(a, c, start)
            \/ ReadForMerge(a, c)
  BY DEF ChaptersNext, EditChapters, RunJobs, MoveBoundary, SplitChapter, MergeChapter, SetQuestion,
         AskFor, Claim, ModelDivides, ClearChapters, ReplaceChapters, DraftEnds, ListChapters,
         FindMissing, NothingMissing, WriteQuestions, ModelFails, WorkerDies
<1> QED BY <1>2, <1>3, <1>4, <1>5, <1>6, <1>7

-----------------------------------------------------------------------------
(* The queue holds a step once, and not the one that runs.                 *)

LEMMA StepJoins ==
    ASSUME NEW q \in Seq(JobSteps), IsInjective(q), NEW x \in JobSteps, x \notin Range(q)
    PROVE  /\ Append(q, x) \in Seq(JobSteps) /\ IsInjective(Append(q, x))
           /\ Range(Append(q, x)) = Range(q) \cup {x}
<1> DEFINE r == Append(q, x)
<1>1. /\ r \in Seq(JobSteps) /\ DOMAIN r = DOMAIN q \cup {Len(q) + 1} /\ Len(q) \in Nat
      /\ \A i \in DOMAIN q : r[i] = q[i] /\ i \in 1..Len(q)
      /\ r[Len(q) + 1] = x
  OBVIOUS
<1> HIDE DEF r
<1>2. IsInjective(r) /\ Range(r) = Range(q) \cup {x}
  BY <1>1 DEF IsInjective, Range
<1> QED BY <1>1, <1>2 DEF r

LEMMA HeadLeaves ==
    ASSUME NEW q \in Seq(JobSteps), IsInjective(q), q # <<>>
    PROVE  /\ Tail(q) \in Seq(JobSteps) /\ IsInjective(Tail(q))
           /\ Head(q) \in JobSteps /\ Head(q) \notin Range(Tail(q))
<1> DEFINE r == Tail(q)
<1>1. /\ r \in Seq(JobSteps) /\ DOMAIN r = 1..Len(q) - 1 /\ Len(q) \in Nat \ {0}
      /\ \A i \in DOMAIN r : r[i] = q[i + 1] /\ i \in Nat /\ i + 1 \in DOMAIN q
      /\ Head(q) = q[1] /\ 1 \in DOMAIN q /\ q[1] \in JobSteps
  OBVIOUS
<1> HIDE DEF r
<1>2. IsInjective(r) /\ Head(q) \notin Range(r)
  BY <1>1 DEF IsInjective, Range
<1> QED BY <1>1, <1>2 DEF r

(* The successor of a step joins a queue that has it not.                  *)
LEMMA SuccessorsJoin ==
    ASSUME NEW q \in Seq(JobSteps), NEW S, S = {} \/ \E x \in JobSteps : S = {x},
           NEW r, r = q \o SetToSeq(S \ Range(q))
    PROVE  \/ r = q /\ S \subseteq Range(q)
           \/ \E x \in JobSteps : x \notin Range(q) /\ r = Append(q, x) /\ S = {x}
<1> DEFINE new == S \ Range(q)
<1> HIDE DEF JobSteps
<1>1. CASE new = {}
  <2>1. IsFiniteSet({}) /\ Cardinality({}) = 0
    BY FS_EmptySet
  <2>2. SetToSeq({}) = <<>>
    <3>1. SetToSeq({}) \in [1..0 -> {}]
      BY <2>1, SeqOfSet
    <3> QED BY <3>1
  <2>3. r = q \o <<>>
    BY <1>1, <2>2, Zenon
  <2>4. r = q
    BY <2>3, ConcatEmptySeq
  <2> QED BY <1>1, <2>4
<1>2. CASE new # {}
  <2>1. PICK x \in JobSteps : S = {x} /\ x \notin Range(q) /\ new = {x}
    BY <1>2
  <2>2. SetToSeq({x}) = <<x>>
    <3> DEFINE one == SetToSeq({x})
    <3>1. one \in [1..1 -> {x}] /\ Len(one) = 1
      BY SeqOfSet, FS_Singleton
    <3> HIDE DEF one
    <3>2. one = [i \in 1..1 |-> x]
      BY <3>1
    <3>3. one = <<x>>
      BY <3>2
    <3> QED BY <3>3 DEF one
  <2>3. r = q \o <<x>>
    BY <2>1, <2>2, Zenon
  <2>4. r = Append(q, x)
    BY <2>3, AppendIsConcat
  <2> QED BY <2>1, <2>4
<1> QED BY <1>1, <1>2

LEMMA QueuedKeeps ==
    ASSUME ChaptersOK, NEW step \in JobSteps, queue' = Queued(queue, step), UNCHANGED worker
    PROVE  QueueOK'
<1>1. CASE queue' = queue
  BY <1>1 DEF ChaptersOK, QueueOK, Queued, Range
<1>2. CASE /\ queue' = Append(queue, step) /\ step \notin Range(queue) /\ worker.step # step
  BY <1>2, StepJoins DEF ChaptersOK, QueueOK
<1> QED BY <1>1, <1>2 DEF Queued

(* Where a job ends, what it leaves in the queue are steps.                *)
LEMMA EndsKeep ==
    ASSUME ChaptersOK, worker' = Resting,
           \/ queue' = queue
           \/ \E x \in JobSteps : x \notin Range(queue) /\ queue' = Append(queue, x)
    PROVE  QueueOK'
<1>1. queue' \in Seq(JobSteps) /\ IsInjective(queue')
  BY StepJoins DEF ChaptersOK, QueueOK
<1>2. "none" \notin Range(queue')
  <2> HIDE DEF JobSteps
  <2>1. \A i \in DOMAIN queue' : queue'[i] \in JobSteps
    BY <1>1
  <2> QED BY <2>1 DEF Range, JobSteps
<1>3. worker'.step = "none"
  BY DEF Resting
<1> QED BY <1>1, <1>2, <1>3 DEF QueueOK

LEMMA QueueKept == ASSUME ChaptersOK, ChaptersNext PROVE QueueOK'
<1>1. CASE UNCHANGED queue /\ worker'.step = worker.step
  BY <1>1 DEF ChaptersOK, QueueOK, Range
<1>2. ASSUME NEW a \in Admins, SplitChapter(a) \/ MergeChapter(a) PROVE QueueOK'
  <2>1. \/ UNCHANGED <<queue, worker>>
        \/ queue' = Queued(queue, "generate_questions") /\ UNCHANGED worker
    BY <1>2 DEF SplitChapter, MergeChapter, AsksForQuestions
  <2> QED BY <1>1, <2>1, QueuedKeeps DEF JobSteps
<1>3. ASSUME NEW step \in JobSteps, AskFor(step) PROVE QueueOK'
  BY <1>3, QueuedKeeps DEF AskFor
<1>4. ASSUME Claim PROVE QueueOK'
  <2>1. queue # <<>> /\ worker' = Running(Head(queue)) /\ queue' = Tail(queue)
    BY <1>4 DEF Claim
  <2>2. worker'.step = Head(queue)
    BY <2>1 DEF Running, Resting
  <2> QED BY <2>1, <2>2, HeadLeaves DEF ChaptersOK, QueueOK
<1>5. ASSUME Succeeds({}) \/ Succeeds({"generate_draft"}) \/ Succeeds({"generate_questions"})
      PROVE  QueueOK'
  <2>1. PICK S : Succeeds(S) /\ (S = {} \/ \E x \in JobSteps : S = {x})
    BY <1>5 DEF JobSteps
  <2>2. worker' = Resting /\ queue' = queue \o SetToSeq(S \ Range(queue))
    BY <2>1 DEF Succeeds
  <2>3. queue \in Seq(JobSteps)
    BY DEF ChaptersOK, QueueOK
  <2>4. \/ queue' = queue
        \/ \E x \in JobSteps : x \notin Range(queue) /\ queue' = Append(queue, x)
    <3> HIDE DEF JobSteps
    <3>1. \A r : r = queue \o SetToSeq(S \ Range(queue)) =>
             \/ r = queue
             \/ \E x \in JobSteps : x \notin Range(queue) /\ r = Append(queue, x)
      BY <2>1, <2>3, SuccessorsJoin, Zenon
    <3> QED BY <2>2, <3>1, Zenon
  <2> QED BY <2>2, <2>4, EndsKeep
<1>6. ASSUME Fails PROVE QueueOK'
  BY <1>6, EndsKeep DEF Fails
<1>7. ASSUME WorkerDies PROVE QueueOK'
  <2>1. worker' = Resting /\ queue' = Append(queue, worker.step) /\ worker.step # "none"
    BY <1>7 DEF WorkerDies
  <2>2. worker.step \in JobSteps /\ worker.step \notin Range(queue)
    BY <2>1 DEF ChaptersOK, QueueOK, WorkerOK, Works
  <2> QED BY <2>1, <2>2, EndsKeep
<1>8. worker \in Works
  BY DEF ChaptersOK, WorkerOK
<1>9. ASSUME ModelDivides \/ ClearChapters \/ ListChapters \/ FindMissing
      PROVE  UNCHANGED queue /\ worker'.step = worker.step
  BY <1>8, <1>9 DEF ModelDivides, ClearChapters, ListChapters, FindMissing, Works
<1>10. \/ UNCHANGED <<queue, worker>>
       \/ \E a \in Admins : SplitChapter(a) \/ MergeChapter(a)
       \/ \E step \in JobSteps : AskFor(step)
       \/ Claim \/ WorkerDies \/ Fails
       \/ Succeeds({}) \/ Succeeds({"generate_draft"}) \/ Succeeds({"generate_questions"})
       \/ ModelDivides \/ ClearChapters \/ ListChapters \/ FindMissing
  BY DEF ChaptersNext, EditChapters, RunJobs, ReadForMove, ReadForSplit, ReadForMerge, Opens,
         MoveBoundary, SetQuestion, ReplaceChapters, DraftEnds, NothingMissing, WriteQuestions,
         ModelFails, ledgerVars
<1> QED BY <1>1, <1>2, <1>3, <1>4, <1>5, <1>6, <1>7, <1>9, <1>10

-----------------------------------------------------------------------------
(* What the worker holds is of the list and the proposals there were.      *)

LEMMA WorkerMoves ==
    ASSUME ChaptersOK, ChaptersNext
    PROVE  /\ worker' \in Works /\ failed' \subseteq JobSteps
           /\ worker'.cleared \subseteq 1..made /\ worker'.subjects \subseteq 1..made
<1>1. /\ worker \in Works /\ failed \subseteq JobSteps
      /\ worker.cleared \subseteq 1..made /\ worker.subjects \subseteq 1..made
      /\ DOMAIN chapters \subseteq 1..made /\ made \in Nat
  BY DEF ChaptersOK, ListOK, WorkerOK
<1>2. CASE UNCHANGED <<worker, failed>>
  BY <1>1, <1>2
<1>4. ASSUME worker' = Resting, failed' \subseteq JobSteps
      PROVE  /\ worker' \in Works /\ failed' \subseteq JobSteps
             /\ worker'.cleared \subseteq 1..made /\ worker'.subjects \subseteq 1..made
  BY <1>4 DEF Resting, Works
<1>5. ASSUME Claim
      PROVE  /\ worker' \in Works /\ failed' \subseteq JobSteps
             /\ worker'.cleared \subseteq 1..made /\ worker'.subjects \subseteq 1..made
  <2>1. worker' = [Resting EXCEPT !.step = Head(queue), !.at = "open"] /\ failed' = failed
        /\ queue # <<>>
    BY <1>5 DEF Claim, Running
  <2>2. Head(queue) \in JobSteps
    BY <2>1, HeadLeaves DEF ChaptersOK, QueueOK
  <2>3. worker' = [step |-> Head(queue), at |-> "open", proposed |-> {}, cleared |-> {},
                   divided |-> FALSE, subjects |-> {}, whole |-> FALSE]
    BY <2>1 DEF Resting
  <2>4. worker'.cleared = {} /\ worker'.subjects = {}
    BY <2>3
  <2>5. worker' \in Works
    <3> HIDE DEF JobSteps
    <3> QED BY <2>2, <2>3 DEF Works
  <2> QED BY <1>1, <2>1, <2>4, <2>5
<1>6. ASSUME ModelDivides
      PROVE  /\ worker' \in Works /\ failed' = failed
             /\ worker'.cleared \subseteq 1..made /\ worker'.subjects \subseteq 1..made
  <2>1. PICK p \in Proposals : worker' = [worker EXCEPT !.at = "answered", !.proposed = p]
    BY <1>6 DEF ModelDivides
  <2>2. failed' = failed
    BY <1>6 DEF ModelDivides
  <2>3. worker' \in Works /\ worker'.cleared = worker.cleared /\ worker'.subjects = worker.subjects
    BY <1>1, <2>1 DEF Works
  <2> QED BY <1>1, <2>2, <2>3
<1>7. ASSUME ClearChapters
      PROVE  /\ worker' \in Works /\ failed' = failed
             /\ worker'.cleared \subseteq 1..made /\ worker'.subjects \subseteq 1..made
  <2>1. DOMAIN chapters \in SUBSET Nat
    BY <1>1
  <2> QED BY <1>1, <1>7, <2>1 DEF ClearChapters, Works
<1>8. ASSUME ListChapters
      PROVE  /\ worker' \in Works /\ failed' = failed
             /\ worker'.cleared \subseteq 1..made /\ worker'.subjects \subseteq 1..made
  BY <1>1, <1>8 DEF ListChapters, Works
<1>9. ASSUME FindMissing
      PROVE  /\ worker' \in Works /\ failed' = failed
             /\ worker'.cleared \subseteq 1..made /\ worker'.subjects \subseteq 1..made
  <2> DEFINE missing == IF worker.divided THEN DOMAIN chapters \ DOMAIN questions ELSE {}
             all == ~worker.divided /\ ~teachingAsked
  <2>1. missing \subseteq 1..made /\ all \in BOOLEAN /\ missing \in SUBSET Nat
    BY <1>1
  <2>2. worker' = [worker EXCEPT !.at = "asking", !.subjects = missing, !.whole = all]
        /\ failed' = failed
    BY <1>9 DEF FindMissing
  <2> HIDE DEF missing, all
  <2> QED BY <1>1, <2>1, <2>2 DEF Works
<1>10. \/ UNCHANGED <<worker, failed>>
       \/ worker' = Resting /\ failed' \subseteq JobSteps
       \/ Claim \/ ModelDivides \/ ClearChapters \/ ListChapters \/ FindMissing
  <2>1. worker.step # "none" => failed \cup {worker.step} \subseteq JobSteps
    BY <1>1 DEF Works
  <2>2. ASSUME ReplaceChapters \/ DraftEnds \/ NothingMissing \/ WriteQuestions \/ ModelFails \/ WorkerDies
        PROVE  worker' = Resting /\ failed' \subseteq JobSteps
    <3>1. worker.step # "none"
      BY <2>2 DEF ReplaceChapters, DraftEnds, NothingMissing, WriteQuestions, ModelFails,
                  WorkerDies, At
    <3>2. worker' = Resting /\ (failed' = failed \/ failed' = failed \ {worker.step}
                                \/ failed' = failed \cup {worker.step})
      BY <2>2 DEF ReplaceChapters, DraftEnds, NothingMissing, WriteQuestions, ModelFails,
                  WorkerDies, Succeeds, Fails
    <3> QED BY <1>1, <2>1, <3>1, <3>2
  <2> QED BY <2>2 DEF ChaptersNext, EditChapters, RunJobs, ReadForMove, ReadForSplit, ReadForMerge,
         Opens, MoveBoundary, SplitChapter, MergeChapter, SetQuestion, AskFor, ledgerVars
<1> QED BY <1>1, <1>2, <1>4, <1>5, <1>6, <1>7, <1>8, <1>9, <1>10

LEMMA WorkerKept == ASSUME ChaptersOK, ChaptersNext PROVE WorkerOK'
<1>1. 1..made \subseteq 1..made'
  <2>1. ListTyped
    BY DEF ListTyped, ChaptersOK, ListOK
  <2> QED BY <2>1, NewIds DEF ListTyped
<1>2. worker'.cleared \subseteq 1..made' /\ worker'.subjects \subseteq 1..made'
  BY <1>1, WorkerMoves
<1>3. events' \in 0..MaxEvents
  <2>1. events \in 0..MaxEvents /\ MaxEvents \in Nat
    BY ChaptersAssumption DEF ChaptersOK, WorkerOK
  <2>2. UNCHANGED events \/ Happens
    BY DEF ChaptersNext, EditChapters, RunJobs, ReadForMove, ReadForSplit, ReadForMerge,
         Opens, MoveBoundary, SplitChapter, MergeChapter, SetQuestion, AskFor, Claim, ModelDivides,
         ClearChapters, ReplaceChapters, DraftEnds, ListChapters, FindMissing, NothingMissing,
         WriteQuestions, ModelFails, WorkerDies
  <2> QED BY <2>1, <2>2 DEF Happens
<1>4. missed' \in BOOLEAN
  <2>1. missed \in BOOLEAN
    BY DEF ChaptersOK, WorkerOK
  <2>2. \/ UNCHANGED missed
        \/ \E divided : AsksForQuestions(divided)
        \/ Claim
    BY DEF ChaptersNext, EditChapters, RunJobs, ReadForMove, ReadForSplit, ReadForMerge,
         Opens, MoveBoundary, SplitChapter, MergeChapter, SetQuestion, AskFor, ModelDivides,
         ClearChapters, ReplaceChapters, DraftEnds, ListChapters, FindMissing, NothingMissing,
         WriteQuestions, ModelFails, WorkerDies
  <2> QED BY <2>1, <2>2 DEF AsksForQuestions, Claim
<1> QED BY <1>2, <1>3, <1>4, WorkerMoves DEF WorkerOK

-----------------------------------------------------------------------------
(* Every chapter gets its question: while the run has not missed an edit,  *)
(* what it read says what is to be written, and an edit it has not read    *)
(* has it, or a job after it, still to come.                               *)

Looked ==
    worker.step = "generate_questions" /\ ~missed =>
        /\ worker.at \in {"listed", "asking"} => (worker.divided <=> DOMAIN chapters # {})
        /\ worker.at = "asking" => /\ DOMAIN chapters \ DOMAIN questions \subseteq worker.subjects
                                   /\ worker.whole <=> ~worker.divided /\ ~teachingAsked

Awaited == queue # <<>> \/ worker.step # "none" \/ failed # {}

LEMMA QueuedAwaits ==
    ASSUME ChaptersOK, NEW step \in JobSteps, queue' = Queued(queue, step), UNCHANGED worker
    PROVE  Awaited'
<1>1. CASE queue' = queue
  <2>1. step \in Range(queue) \/ worker.step = step \/ queue = Append(queue, step)
    BY <1>1 DEF Queued
  <2>2. step \in Range(queue) => queue # <<>>
    BY DEF Range
  <2>3. queue # Append(queue, step)
    BY DEF ChaptersOK, QueueOK
  <2>4. step # "none"
    BY DEF JobSteps
  <2> QED BY <1>1, <2>1, <2>2, <2>3, <2>4 DEF Awaited
<1>2. CASE queue' = Append(queue, step)
  BY <1>2, AppendProperties DEF ChaptersOK, QueueOK, Awaited
<1> QED BY <1>1, <1>2 DEF Queued

LEMMA SuccessAwaits ==
    ASSUME ChaptersOK, NEW step \in JobSteps, Succeeds({step})
    PROVE  Awaited'
<1>1. queue' = queue \o SetToSeq({step} \ Range(queue)) /\ queue \in Seq(JobSteps)
  BY DEF Succeeds, ChaptersOK, QueueOK
<1>2. \A r : r = queue \o SetToSeq({step} \ Range(queue)) =>
         \/ r = queue /\ {step} \subseteq Range(queue)
         \/ \E x \in JobSteps : x \notin Range(queue) /\ r = Append(queue, x)
  <2> HIDE DEF JobSteps
  <2>1. \E x \in JobSteps : {step} = {x}
    OBVIOUS
  <2> DEFINE S == {step}
  <2>2. S = {} \/ \E x \in JobSteps : S = {x}
    BY <2>1
  <2>3. S = {step}
    OBVIOUS
  <2> HIDE DEF S
  <2>4. \A r : r = queue \o SetToSeq(S \ Range(queue)) =>
           \/ r = queue /\ S \subseteq Range(queue)
           \/ \E x \in JobSteps : x \notin Range(queue) /\ r = Append(queue, x)
    BY <1>1, <2>2, SuccessorsJoin, ZenonT(40)
  <2> QED BY <2>3, <2>4, Zenon
<1>3. \/ queue' = queue /\ {step} \subseteq Range(queue)
      \/ \E x \in JobSteps : queue' = Append(queue, x)
  BY <1>1, <1>2, Zenon
<1>4. step \in Range(queue) => queue # <<>>
  BY DEF Range
<1>5. \A x \in JobSteps : Append(queue, x) # <<>>
  BY <1>1, AppendProperties
<1> QED BY <1>3, <1>4, <1>5 DEF Awaited

LEMMA EditsLook ==
    ASSUME ChaptersOK, Looked, NEW a \in Admins, SplitChapter(a) \/ MergeChapter(a)
    PROVE  Looked' /\ (Awaited' \/ UNCHANGED <<chapters, questions, teachingAsked, queue, worker, failed, missed>>)
<1>1. CASE UNCHANGED <<chapters, questions, teachingAsked, queue, worker, failed, missed>>
  BY <1>1 DEF Looked
<1>2. CASE ~UNCHANGED <<chapters, questions, teachingAsked, queue, worker, failed, missed>>
  <2>1. AsksForQuestions(DOMAIN chapters' # {}) /\ UNCHANGED <<teachingAsked, worker, failed>>
    <3>1. CASE MergeChapter(a)
      BY <3>1 DEF MergeChapter
    <3>2. CASE SplitChapter(a)
      <4>1. /\ made' = made + 1 /\ chapters' = With(chapters, Each({made + 1}, edit[a].start))
            /\ AsksForQuestions(TRUE) /\ UNCHANGED <<teachingAsked, worker, failed>>
        BY <1>2, <3>2 DEF SplitChapter
      <4>2. made + 1 \in DOMAIN chapters'
        BY <4>1 DEF With, Each
      <4>3. (DOMAIN chapters' # {}) = TRUE
        BY <4>2
      <4> QED BY <4>1, <4>3, Zenon
    <3> QED BY <3>1, <3>2
  <2>2. Awaited'
    BY <2>1, QueuedAwaits DEF AsksForQuestions, JobSteps
  <2>3. worker.divided \in BOOLEAN
    BY DEF ChaptersOK, WorkerOK, Works
  <2>4. ~missed' => /\ ~missed /\ worker.at # "asking"
                    /\ worker.at = "listed" => (worker.divided <=> DOMAIN chapters' # {})
    BY <2>1, <2>3 DEF AsksForQuestions
  <2> QED BY <2>1, <2>2, <2>4 DEF Looked
<1> QED BY <1>1, <1>2

LEMMA QuestionsKept ==
    ASSUME ChaptersOK, Looked, QuestionsInPlace, ChaptersNext
    PROVE  Looked' /\ QuestionsInPlace'
<1>1. /\ worker \in Works /\ DOMAIN questions \subseteq DOMAIN chapters /\ teachingAsked \in BOOLEAN
      /\ missed \in BOOLEAN
  BY DEF ChaptersOK, ListOK, WorkerOK
<1>2. Awaited' => QuestionsInPlace'
  BY DEF Awaited, QuestionsInPlace
<1>3. CASE /\ DOMAIN chapters' = DOMAIN chapters
           /\ UNCHANGED <<questions, teachingAsked, queue, worker, failed, missed>>
  BY <1>3 DEF Looked, QuestionsInPlace
<1>4. ASSUME NEW a \in Admins, SplitChapter(a) \/ MergeChapter(a) PROVE Looked' /\ QuestionsInPlace'
  <2>1. CASE UNCHANGED <<chapters, questions, teachingAsked, queue, worker, failed, missed>>
    BY <1>3, <2>1
  <2> QED BY <1>2, <1>4, <2>1, EditsLook
<1>5. ASSUME NEW c \in DOMAIN chapters, SetQuestion(c) PROVE Looked' /\ QuestionsInPlace'
  <2>1. DOMAIN questions' = DOMAIN questions \cup {c}
        /\ UNCHANGED <<chapters, teachingAsked, queue, worker, failed, missed>>
    BY <1>5 DEF SetQuestion, With, Each, ledgerVars
  <2>2. Looked'
    BY <2>1 DEF Looked
  <2>3. QuestionsInPlace'
    BY <1>1, <2>1 DEF QuestionsInPlace
  <2> QED BY <2>2, <2>3
<1>6. ASSUME NEW step \in JobSteps, AskFor(step) PROVE Looked' /\ QuestionsInPlace'
  <2>1. queue' = Queued(queue, step)
        /\ UNCHANGED <<chapters, questions, teachingAsked, worker, failed, missed>>
    BY <1>6 DEF AskFor, listVars
  <2>2. Looked'
    BY <2>1 DEF Looked
  <2> QED BY <1>2, <2>1, <2>2, QueuedAwaits
<1>7. ASSUME Claim PROVE Looked' /\ QuestionsInPlace'
  <2>1. queue # <<>> /\ worker' = Running(Head(queue))
    BY <1>7 DEF Claim
  <2>2. Head(queue) # "none"
    BY <2>1, HeadLeaves DEF ChaptersOK, QueueOK, JobSteps
  <2>3. worker'.step = Head(queue) /\ worker'.at = "open"
    BY <2>1 DEF Running, Resting
  <2> QED BY <1>2, <2>2, <2>3 DEF Looked, Awaited
<1>8. ASSUME ModelDivides \/ ClearChapters PROVE Looked' /\ QuestionsInPlace'
  <2>1. worker'.step = "generate_chapters"
    BY <1>1, <1>8 DEF ModelDivides, ClearChapters, At, Works
  <2> QED BY <1>2, <2>1 DEF Looked, Awaited
<1>9. ASSUME ListChapters PROVE Looked' /\ QuestionsInPlace'
  <2>1. /\ worker'.step = "generate_questions" /\ worker'.at = "listed"
        /\ worker'.divided = (DOMAIN chapters # {}) /\ UNCHANGED chapters
    BY <1>1, <1>9 DEF ListChapters, At, Works, listVars
  <2> QED BY <1>2, <2>1 DEF Looked, Awaited
<1>10. ASSUME FindMissing PROVE Looked' /\ QuestionsInPlace'
  <2> DEFINE missing == IF worker.divided THEN DOMAIN chapters \ DOMAIN questions ELSE {}
             all == ~worker.divided /\ ~teachingAsked
  <2>1. /\ worker' = [worker EXCEPT !.at = "asking", !.subjects = missing, !.whole = all]
        /\ worker.step = "generate_questions" /\ worker.at = "listed"
        /\ UNCHANGED <<chapters, questions, teachingAsked, missed>>
    BY <1>10 DEF FindMissing, At, listVars
  <2>2. ~missed => (worker.divided <=> DOMAIN chapters # {})
    BY <2>1 DEF Looked
  <2>3. ~missed => DOMAIN chapters \ DOMAIN questions \subseteq missing
    BY <2>2
  <2>4. all <=> ~worker.divided /\ ~teachingAsked
    OBVIOUS
  <2> HIDE DEF missing, all
  <2>5. /\ worker'.step = "generate_questions" /\ worker'.at = "asking"
        /\ worker'.divided = worker.divided /\ worker'.subjects = missing /\ worker'.whole = all
    BY <1>1, <2>1 DEF Works
  <2> QED BY <1>2, <2>1, <2>2, <2>3, <2>4, <2>5 DEF Looked, Awaited
<1>11. ASSUME NothingMissing PROVE Looked' /\ QuestionsInPlace'
  <2>1. /\ worker.step = "generate_questions" /\ worker.at = "asking"
        /\ worker.subjects = {} /\ ~worker.whole
        /\ teachingAsked' = (teachingAsked /\ ~worker.divided)
        /\ worker' = Resting /\ UNCHANGED <<chapters, questions, missed>>
    BY <1>11 DEF NothingMissing, At, Succeeds, listVars
  <2>2. Looked'
    BY <2>1 DEF Looked, Resting
  <2>3. QuestionsInPlace'
    BY <1>1, <2>1 DEF Looked, QuestionsInPlace, Works
  <2> QED BY <2>2, <2>3
<1>12. ASSUME WriteQuestions PROVE Looked' /\ QuestionsInPlace'
  <2>1. /\ worker.step = "generate_questions" /\ worker.at = "asking" /\ worker' = Resting
        /\ worker.subjects # {} \/ worker.whole
        /\ UNCHANGED <<chapters, missed>>
    BY <1>12 DEF WriteQuestions, At, Succeeds, Fails
  <2>2. Looked'
    BY <2>1 DEF Looked, Resting
  <2>3. CASE worker.subjects \subseteq DOMAIN chapters \ DOMAIN questions
    <3>1. DOMAIN questions' = DOMAIN questions \cup worker.subjects
          /\ teachingAsked' = worker.whole
      BY <1>12, <2>3 DEF WriteQuestions, With, Each
    <3>2. ~missed => /\ worker.divided <=> DOMAIN chapters # {}
                     /\ DOMAIN chapters \ DOMAIN questions \subseteq worker.subjects
                     /\ worker.whole <=> ~worker.divided /\ ~teachingAsked
      BY <2>1 DEF Looked
    <3>3. ~missed => DOMAIN questions' = DOMAIN chapters'
      BY <1>1, <2>1, <2>3, <3>1, <3>2
    <3>4. ~missed => (teachingAsked' <=> DOMAIN chapters' = {})
      BY <1>1, <2>1, <2>3, <3>1, <3>2
    <3> QED BY <2>1, <2>2, <3>3, <3>4 DEF QuestionsInPlace
  <2>4. CASE ~(worker.subjects \subseteq DOMAIN chapters \ DOMAIN questions)
    BY <1>2, <1>12, <2>2, <2>4 DEF WriteQuestions, Fails, Awaited
  <2> QED BY <2>3, <2>4
<1>13. ASSUME ReplaceChapters \/ DraftEnds \/ ModelFails \/ WorkerDies
       PROVE  Looked' /\ QuestionsInPlace'
  <2>1. worker' = Resting
    BY <1>13 DEF ReplaceChapters, DraftEnds, ModelFails, WorkerDies, Succeeds, Fails
  <2>2. Looked'
    BY <2>1 DEF Looked, Resting
  <2>3. \/ Succeeds({"generate_draft"}) \/ Succeeds({"generate_questions"})
        \/ Fails \/ WorkerDies
    BY <1>13 DEF ReplaceChapters, DraftEnds, ModelFails
  <2>4. Fails => Awaited'
    BY DEF Fails, Awaited
  <2>5. WorkerDies => Awaited'
    <3>1. ASSUME WorkerDies PROVE worker.step \in JobSteps /\ queue' = Append(queue, worker.step)
      BY <1>1, <3>1 DEF WorkerDies, Works
    <3> QED BY <3>1, AppendProperties DEF ChaptersOK, QueueOK, Awaited
  <2> QED BY <1>2, <2>2, <2>3, <2>4, <2>5, SuccessAwaits DEF JobSteps
<1>14. \/ /\ DOMAIN chapters' = DOMAIN chapters
          /\ UNCHANGED <<questions, teachingAsked, queue, worker, failed, missed>>
       \/ \E a \in Admins : SplitChapter(a) \/ MergeChapter(a)
       \/ \E c \in DOMAIN chapters : SetQuestion(c)
       \/ \E step \in JobSteps : AskFor(step)
       \/ Claim \/ ModelDivides \/ ClearChapters \/ ReplaceChapters \/ DraftEnds
       \/ ListChapters \/ FindMissing \/ NothingMissing \/ WriteQuestions
       \/ ModelFails \/ WorkerDies
  <2>1. ASSUME NEW a \in Admins, MoveBoundary(a)
        PROVE  /\ DOMAIN chapters' = DOMAIN chapters
               /\ UNCHANGED <<questions, teachingAsked, queue, worker, failed, missed>>
    BY <2>1 DEF MoveBoundary, ledgerVars
  <2> QED BY <2>1 DEF ChaptersNext, EditChapters, RunJobs, ReadForMove, ReadForSplit, ReadForMerge,
                      Opens, listVars, ledgerVars
<1> QED BY <1>3, <1>4, <1>5, <1>6, <1>7, <1>8, <1>9, <1>10, <1>11, <1>12, <1>13, <1>14

-----------------------------------------------------------------------------

ChapterInv == ChaptersOK /\ Looked /\ QuestionsInPlace

LEMMA InitChapters == Init => ChapterInv
<1> SUFFICES ASSUME Init PROVE ChapterInv
  OBVIOUS
<1> USE DEF Init, ChaptersInit
<1>1. ListOK
  <2>1. DOMAIN chapters = {} /\ DOMAIN questions = {} /\ made = 0 /\ teachingAsked = FALSE
    OBVIOUS
  <2>2. \A V : <<>> \in [{} -> V]
    OBVIOUS
  <2>3. chapters \in [DOMAIN chapters -> Lines] /\ questions \in [DOMAIN questions -> {"model", "admin"}]
    BY <2>2
  <2>4. IsInjective(chapters)
    BY <2>1 DEF IsInjective
  <2> HIDE DEF Init, ChaptersInit
  <2>5. made \in 0..MaxChapters
    BY <2>1, ChaptersAssumption
  <2>6. DOMAIN chapters \subseteq 1..made /\ DOMAIN questions \subseteq DOMAIN chapters
    BY <2>1
  <2>7. teachingAsked \in BOOLEAN
    BY <2>1
  <2> QED BY <2>3, <2>4, <2>5, <2>6, <2>7 DEF ListOK
<1>2. EditsOK
  BY DEF EditsOK, Edits, IdleEdit
<1>3. QueueOK
  <2>1. /\ queue \in Seq(JobSteps) /\ DOMAIN queue = {1} /\ queue[1] = "generate_chapters"
    BY DEF JobSteps
  <2>2. worker.step = "none"
    BY DEF Resting
  <2>3. IsInjective(queue) /\ worker.step \notin Range(queue)
    BY <2>1, <2>2 DEF IsInjective, Range
  <2> QED BY <2>1, <2>3 DEF QueueOK
<1>4. WorkerOK
  <2>1. Resting \in Works /\ Resting.cleared = {} /\ Resting.subjects = {}
    BY DEF Works, Resting
  <2>2. worker = Resting /\ failed = {} /\ missed = FALSE /\ events = 0 /\ 0 \in 0..MaxEvents
    BY ChaptersAssumption
  <2> QED BY <2>1, <2>2 DEF WorkerOK
<1>5. Looked /\ QuestionsInPlace
  BY DEF Looked, QuestionsInPlace, Resting
<1> QED BY <1>1, <1>2, <1>3, <1>4, <1>5 DEF ChapterInv, ChaptersOK

LEMMA ChaptersStep == ASSUME ChapterInv, [Next]_vars PROVE ChapterInv'
<1>1. CASE ChaptersNext
  BY <1>1, ListKept, EditsKept, QueueKept, WorkerKept, QuestionsKept DEF ChapterInv, ChaptersOK
<1>2. CASE UNCHANGED chapterVars
  BY <1>2 DEF chapterVars, listVars, ledgerVars, ChapterInv, ChaptersOK, ListOK, EditsOK, QueueOK,
              WorkerOK, Looked, QuestionsInPlace
<1>3. CASE /\ UNCHANGED <<listVars, teachingAsked, ledgerVars, missed>> /\ Happens
           /\ \/ UNCHANGED edit
              \/ edit' = [a \in Admins |-> IdleEdit]
  <2>1. ListOK' /\ QueueOK' /\ Looked' /\ QuestionsInPlace'
    BY <1>3 DEF listVars, ledgerVars, ChapterInv, ChaptersOK, ListOK, QueueOK, Looked, QuestionsInPlace
  <2>2. WorkerOK'
    BY <1>3, ChaptersAssumption DEF Happens, listVars, ledgerVars, ChapterInv, ChaptersOK, WorkerOK
  <2>3. edit' \in [Admins -> Edits(1..made)] /\ \A a \in Admins : edit'[a] = edit[a] \/ edit'[a] = IdleEdit
    <3>1. IdleEdit \in Edits(1..made)
      BY DEF IdleEdit, Edits
    <3> HIDE DEF IdleEdit
    <3> QED BY <1>3, <3>1 DEF ChapterInv, ChaptersOK, EditsOK
  <2>4. EditsOK'
    BY <1>3, <2>3, EditsGrow DEF listVars, ChapterInv, ChaptersOK, ListOK
  <2> QED BY <2>1, <2>2, <2>4 DEF ChapterInv, ChaptersOK
<1>4. \/ ChaptersNext
      \/ UNCHANGED chapterVars
      \/ /\ UNCHANGED <<listVars, teachingAsked, ledgerVars, missed>> /\ Happens
         /\ \/ UNCHANGED edit
            \/ edit' = [a \in Admins |-> IdleEdit]
  BY DEF Next, ReadPick, InsertSession, ReadSession, AnswerItem, CountUnanswered, CompleteSession,
         Abandon, DeleteSession, WebDies, vars
<1> QED BY <1>1, <1>2, <1>3, <1>4

LEMMA ChaptersSafe == Spec => []ChapterInv
BY InitChapters, ChaptersStep, PTL DEF Spec

(* Whatever offsets a model proposes, the list the step is about to write  *)
(* tiles the teaching: it opens at the first line, its boundaries are on   *)
(* lines the model named, no chapter but the last is under the floor, and  *)
(* no boundary is given up that could have been kept.                      *)
THEOREM SettledListsTile == Spec => []SettledListTiles
<1>1. ChapterInv => SettledListTiles
  <2>1. ChapterInv => worker.proposed \in Proposals \cup {{}}
    BY DEF ChapterInv, ChaptersOK, WorkerOK, Works
  <2> QED BY <2>1, SettleTiles DEF SettledListTiles
<1> QED BY <1>1, ChaptersSafe, PTL

(* Once the jobs are done and none failed, every chapter has its question, *)
(* however the admins split and merged while a run was looking, unless a   *)
(* request of theirs was answered with a run that had looked already.      *)
THEOREM QuestionsFollow == Spec => []QuestionsInPlace
<1>1. ChapterInv => QuestionsInPlace
  BY DEF ChapterInv
<1> QED BY <1>1, ChaptersSafe, PTL

-----------------------------------------------------------------------------
(* The types of the sessions and the requests.                             *)

Asks == [at : {"idle", "picked", "inserted", "answering", "answered", "closing"},
         items : SUBSET Items, session : 0..MaxSessions, item : Items]

FlowOK == Len(sessions) <= MaxSessions /\ tab \in [Tabs -> Asks] /\ cut \subseteq DOMAIN sessions

LEMMA InitFlow == Init => FlowOK
BY FlowAssumption DEF Init, FlowOK, Asks, NoRequest, Items, Whole

LEMMA FlowStep == ASSUME Inv, ChapterInv, FlowOK, [Next]_vars PROVE FlowOK'
<1>1. NoRequest \in Asks
  BY FlowAssumption DEF NoRequest, Asks, Items, Whole
<1>2. sessions \in Seq(Rows) /\ tab \in [Tabs -> Asks] /\ Len(sessions) <= MaxSessions
      /\ cut \subseteq DOMAIN sessions
  BY DEF Inv, FlowTyped, FlowOK
<1>3. made \in Nat /\ made <= MaxChapters /\ DOMAIN chapters \subseteq 1..made
  BY ChaptersAssumption DEF ChapterInv, ChaptersOK, ListOK
<1>4. CASE UNCHANGED flowVars
  BY <1>4 DEF FlowOK, flowVars
<1>5. ASSUME NEW t \in Tabs, ReadPick(t) PROVE FlowOK'
  <2> DEFINE items == DOMAIN questions \cup (IF teachingAsked THEN {Whole} ELSE {})
             pick == [NoRequest EXCEPT !.at = "picked", !.items = items]
  <2>1. DOMAIN questions \subseteq DOMAIN chapters
    BY DEF ChapterInv, ChaptersOK, ListOK
  <2>2. items \in SUBSET Items
    BY <1>3, <2>1, ChaptersAssumption DEF Items
  <2>3. tab' = [tab EXCEPT ![t] = pick] /\ UNCHANGED <<sessions, cut>>
    BY <1>5 DEF ReadPick
  <2> HIDE DEF items
  <2>4. pick \in Asks
    BY <1>1, <2>2 DEF Asks
  <2> HIDE DEF pick
  <2> QED BY <1>2, <2>3, <2>4 DEF FlowOK
<1>6. ASSUME NEW t \in Tabs, InsertSession(t) PROVE FlowOK'
  <2>1. CASE Answers(t) /\ UNCHANGED <<sessions, cut>>
    <3> HIDE DEF NoRequest
    <3> QED BY <1>1, <1>2, <2>1 DEF FlowOK, Answers
  <2>2. CASE ~(Answers(t) /\ UNCHANGED <<sessions, cut>>)
    <3> DEFINE row == [status |-> "in_progress", answered |-> [i \in tab[t].items |-> FALSE]]
    <3>1. /\ sessions' = Append(sessions, row) /\ Len(sessions) < MaxSessions /\ UNCHANGED cut
          /\ \/ tab' = [tab EXCEPT ![t].at = "inserted", ![t].session = Len(sessions')]
             \/ tab' = [tab EXCEPT ![t] = NoRequest]
      BY <1>6, <2>2 DEF InsertSession, Answers
    <3> HIDE DEF row
    <3>2. Len(sessions') = Len(sessions) + 1 /\ DOMAIN sessions \subseteq DOMAIN sessions'
      <4>1. Len(Append(sessions, row)) = Len(sessions) + 1
            /\ DOMAIN Append(sessions, row) = 1 .. Len(sessions) + 1
            /\ DOMAIN sessions = 1 .. Len(sessions) /\ Len(sessions) \in Nat
        BY <1>2
      <4> QED BY <3>1, <4>1
    <3>3. Len(sessions') \in 0..MaxSessions
      BY <1>2, <3>1, <3>2, FlowAssumption
    <3>4. tab' \in [Tabs -> Asks]
      <4>1. CASE tab' = [tab EXCEPT ![t].at = "inserted", ![t].session = Len(sessions')]
        <5> DEFINE n == Len(sessions')
        <5>1. tab' = [tab EXCEPT ![t].at = "inserted", ![t].session = n] /\ n \in 0..MaxSessions
          BY <3>3, <4>1
        <5> HIDE DEF n
        <5>2. [tab[t] EXCEPT !.at = "inserted", !.session = n] \in Asks
          BY <1>2, <5>1 DEF Asks
        <5> QED BY <1>2, <5>1, <5>2
      <4>2. CASE tab' = [tab EXCEPT ![t] = NoRequest]
        BY <1>1, <1>2, <4>2
      <4> QED BY <3>1, <4>1, <4>2
    <3> QED BY <1>2, <3>1, <3>2, <3>3, <3>4 DEF FlowOK
  <2> QED BY <2>1, <2>2
<1>7. ASSUME NEW t \in Tabs, NEW s \in DOMAIN sessions, NEW i \in DOMAIN sessions[s].answered,
             ReadSession(t, s, i)
      PROVE  FlowOK'
  <2> DEFINE read == [NoRequest EXCEPT !.at = "answering", !.session = s, !.item = i]
  <2>1. s \in 0..MaxSessions /\ i \in Items
    <3>1. i \in 0..made
      BY DEF Inv, ItemsMade
    <3> QED BY <1>2, <1>3, <3>1, ChaptersAssumption, FlowAssumption DEF Items, Whole
  <2>2. read \in Asks
    BY <1>1, <2>1 DEF Asks
  <2>3. tab' = [tab EXCEPT ![t] = read] /\ UNCHANGED <<sessions, cut>>
    BY <1>7 DEF ReadSession
  <2> HIDE DEF read
  <2> QED BY <1>2, <2>2, <2>3 DEF FlowOK
<1>8. ASSUME NEW t \in Tabs, AnswerItem(t) \/ CountUnanswered(t) \/ CompleteSession(t)
      PROVE  FlowOK'
  <2>1. /\ DOMAIN sessions' = DOMAIN sessions /\ Len(sessions') = Len(sessions) /\ UNCHANGED cut
    <3>1. UNCHANGED cut /\ \/ UNCHANGED sessions
                           \/ \E s, row : sessions' = [sessions EXCEPT ![s] = row]
      BY <1>8, Zenon DEF AnswerItem, CountUnanswered, CompleteSession
    <3>2. ASSUME NEW s, NEW row, sessions' = [sessions EXCEPT ![s] = row]
          PROVE  DOMAIN sessions' = DOMAIN sessions /\ Len(sessions') = Len(sessions)
      BY <1>2, <3>2
    <3> QED BY <3>1, <3>2
  <2>2. \/ tab' = [tab EXCEPT ![t] = NoRequest]
        \/ \E at \in {"answered", "closing"} : tab' = [tab EXCEPT ![t].at = at]
    BY <1>8 DEF AnswerItem, CountUnanswered, CompleteSession, Answers, Moves
  <2>3. \A at \in {"answered", "closing"} : [tab[t] EXCEPT !.at = at] \in Asks
    BY <1>2 DEF Asks
  <2>4. tab' \in [Tabs -> Asks]
    BY <1>1, <1>2, <2>2, <2>3
  <2> QED BY <1>2, <2>1, <2>4 DEF FlowOK
<1>9. ASSUME NEW s \in DOMAIN sessions, Abandon(s) \/ DeleteSession(s) PROVE FlowOK'
  <2>1. UNCHANGED <<tab, cut>> /\ \E status : sessions' = [sessions EXCEPT ![s].status = status]
    BY <1>9 DEF Abandon, DeleteSession
  <2>2. DOMAIN sessions' = DOMAIN sessions /\ Len(sessions') = Len(sessions)
    BY <1>2, <2>1
  <2> QED BY <1>2, <2>1, <2>2 DEF FlowOK
<1>10. ASSUME WebDies PROVE FlowOK'
  <2>1. /\ UNCHANGED sessions /\ tab' = [t \in Tabs |-> NoRequest]
        /\ cut' = cut \cup {tab[t].session : t \in {u \in Tabs :
                               tab[u].at \in {"inserted", "answered", "closing"}}}
    BY <1>10 DEF WebDies
  <2>2. cut' \subseteq DOMAIN sessions
    BY <1>2, <2>1 DEF Inv, RequestsNamed
  <2>3. tab' \in [Tabs -> Asks]
    <3> HIDE DEF NoRequest
    <3> QED BY <1>1, <2>1
  <2> QED BY <1>2, <2>1, <2>2, <2>3 DEF FlowOK
<1> QED BY <1>4, <1>5, <1>6, <1>7, <1>8, <1>9, <1>10 DEF Next, vars

(* Everything is of its type, the bounds among it.                         *)
THEOREM TypeCorrect == Spec => []TypeOK
<1>1. Inv /\ ChapterInv /\ FlowOK => TypeOK
  <2> SUFFICES ASSUME Inv, ChapterInv, FlowOK PROVE TypeOK
    OBVIOUS
  <2>1. ChaptersTypeOK
    BY DEF ChapterInv, ChaptersOK, ListOK, EditsOK, Edits, QueueOK, WorkerOK, Works, ChaptersTypeOK
  <2>2. 0..made \subseteq Items
    BY ChaptersAssumption DEF ChapterInv, ChaptersOK, ListOK, Items, Whole
  <2>3. ASSUME NEW s \in DOMAIN sessions
        PROVE  /\ sessions[s].status \in {"in_progress", "complete", "abandoned", "deleted"}
               /\ DOMAIN sessions[s].answered \subseteq Items
               /\ sessions[s].answered \in [DOMAIN sessions[s].answered -> BOOLEAN]
    <3>1. sessions[s] \in Rows
      BY DEF Inv, FlowTyped
    <3>2. PICK S \in SUBSET Nat : sessions[s].answered \in [S -> BOOLEAN]
      BY <3>1 DEF Rows, AnyAnswered
    <3>3. DOMAIN sessions[s].answered \subseteq Items
      BY <2>2 DEF Inv, ItemsMade
    <3>4. sessions[s].status \in {"in_progress", "complete", "abandoned", "deleted"}
      BY <3>1 DEF Rows
    <3> QED BY <3>2, <3>3, <3>4
  <2> QED BY <2>1, <2>3 DEF TypeOK, FlowOK, Asks
<1>2. Inv /\ [Next]_vars => Inv'
  BY StepInv
<1>3. ChapterInv /\ [Next]_vars => ChapterInv'
  BY ChaptersStep
<1>4. Inv /\ ChapterInv /\ FlowOK /\ [Next]_vars => FlowOK'
  BY FlowStep
<1> QED BY <1>1, <1>2, <1>3, <1>4, InitInv, InitChapters, InitFlow, PTL DEF Spec
=============================================================================
