---------------------------- MODULE FlowTracker ----------------------------
(***************************************************************************)
(* A member's Flow Tracker sessions over one teaching, in several tabs,    *)
(* beside the steps and the admins that remake its chapters: the items of  *)
(* a session are copied from the questions there were, and an item whose   *)
(* chapter goes while it is unanswered is no longer asked.                 *)
(* web/src/server/flow-tracker/service.ts and db/src/flow-tracker.ts.      *)
(*                                                                         *)
(* A request is one step per statement; nothing but the insertion of a     *)
(* session and its items is in a transaction.  A question about a tag goes *)
(* the way of a chapter's, and is left out.                                *)
(***************************************************************************)
EXTENDS Chapters

CONSTANTS
    Tabs,         \* where the member has the page open
    MaxSessions   \* bound: sessions ever started

ASSUME FlowAssumption == MaxSessions \in Nat

VARIABLES
    sessions,  \* the flow_session rows, each with its items and which are answered
    tab,       \* per tab: the request it waits for
    cut        \* history: sessions whose request died between its statements

flowVars == <<sessions, tab, cut>>
vars == <<chapterVars, flowVars>>

-----------------------------------------------------------------------------

Whole == 0     \* the item about the teaching itself

Items == {Whole} \cup 1..MaxChapters

NoRequest == [at |-> "idle", items |-> {}, session |-> 0, item |-> Whole]

(* Mutant: the kind of the teaching's own question is left out.            *)
UnansweredOfChapters(s) ==
    {i \in DOMAIN sessions[s].answered : ~sessions[s].answered[i] /\ Exists(i)}

(* liveItem, of the items that have no answer.                             *)
Unanswered(s) ==
    {i \in DOMAIN sessions[s].answered :
        ~sessions[s].answered[i] /\ (i = Whole \/ Exists(i))}

Is(s, status) == sessions[s].status = status

TypeOK ==
    /\ ChaptersTypeOK
    /\ Len(sessions) <= MaxSessions
    /\ \A s \in DOMAIN sessions :
          /\ sessions[s].status \in {"in_progress", "complete", "abandoned", "deleted"}
          /\ DOMAIN sessions[s].answered \subseteq Items
          /\ sessions[s].answered \in [DOMAIN sessions[s].answered -> BOOLEAN]
    /\ tab \in [Tabs -> [at : {"idle", "picked", "inserted", "answering", "answered", "closing"},
                         items : SUBSET Items, session : 0..MaxSessions, item : Items]]
    /\ cut \subseteq DOMAIN sessions

Init ==
    /\ ChaptersInit
    /\ sessions = <<>> /\ tab = [t \in Tabs |-> NoRequest] /\ cut = {}

Moves(t, at) == tab' = [tab EXCEPT ![t].at = at]
Answers(t) == tab' = [tab EXCEPT ![t] = NoRequest]

-----------------------------------------------------------------------------
(* startFlowSessionFor: the questions of the pick, then the session with   *)
(* its items in one transaction, then, with nothing to ask, its end.       *)

ReadPick(t) ==
    /\ tab[t].at = "idle" /\ Len(sessions) < MaxSessions
    /\ Happens
    /\ tab' = [tab EXCEPT ![t] = [NoRequest EXCEPT
                  !.at = "picked",
                  !.items = DOMAIN questions \cup (IF teachingAsked THEN {Whole} ELSE {})]]
    /\ UNCHANGED <<listVars, teachingAsked, edit, ledgerVars, missed, sessions, cut>>

(* A chapter that has gone fails its item's foreign key, a session that is *)
(* in progress the partial unique index.                                   *)
InsertSession(t) ==
    LET items == tab[t].items IN
    /\ tab[t].at = "picked"
    /\ IF \/ \E s \in DOMAIN sessions : Is(s, "in_progress")
          \/ \E i \in items \ {Whole} : ~Exists(i)
       THEN Answers(t) /\ UNCHANGED sessions
       ELSE /\ Len(sessions) < MaxSessions
            /\ sessions' = Append(sessions, [status |-> "in_progress",
                                             answered |-> [i \in items |-> FALSE]])
            /\ IF items = {}
               THEN tab' = [tab EXCEPT ![t].at = "inserted", ![t].session = Len(sessions')]
               ELSE Answers(t)
    /\ UNCHANGED <<chapterVars, cut>>

(* answerFlowItemFor: the session is read, the item written whatever the   *)
(* session has become, and what is left is counted after that.             *)
ReadSession(t, s, i) ==
    /\ tab[t].at = "idle"
    /\ Is(s, "in_progress")
    /\ tab' = [tab EXCEPT ![t] = [NoRequest EXCEPT !.at = "answering", !.session = s, !.item = i]]
    /\ UNCHANGED <<chapterVars, sessions, cut>>

AnswerItem(t) ==
    LET s == tab[t].session IN
    /\ tab[t].at = "answering"
    /\ IF Is(s, "deleted")
       THEN Answers(t) /\ UNCHANGED sessions
       ELSE Moves(t, "answered") /\ sessions' = [sessions EXCEPT ![s].answered[tab[t].item] = TRUE]
    /\ UNCHANGED <<chapterVars, cut>>

CountUnanswered(t) ==
    /\ tab[t].at = "answered"
    /\ IF Unanswered(tab[t].session) = {} THEN Moves(t, "closing") ELSE Answers(t)
    /\ UNCHANGED <<chapterVars, sessions, cut>>

(* completeFlowSession.                                                    *)
CompleteSession(t) ==
    LET s == tab[t].session IN
    /\ tab[t].at \in {"inserted", "closing"}
    /\ sessions' = IF Is(s, "in_progress") THEN [sessions EXCEPT ![s].status = "complete"]
                   ELSE sessions
    /\ Answers(t)
    /\ UNCHANGED <<chapterVars, cut>>

Abandon(s) ==
    /\ Is(s, "in_progress")
    /\ sessions' = [sessions EXCEPT ![s].status = "abandoned"]
    /\ UNCHANGED <<chapterVars, tab, cut>>

DeleteSession(s) ==
    /\ Is(s, "complete") \/ Is(s, "abandoned")
    /\ sessions' = [sessions EXCEPT ![s].status = "deleted"]
    /\ UNCHANGED <<chapterVars, tab, cut>>

(* The web process dies: every request of members and admins with it.      *)
WebDies ==
    /\ Happens
    /\ cut' = cut \cup {tab[t].session : t \in {u \in Tabs :
                            tab[u].at \in {"inserted", "answered", "closing"}}}
    /\ tab' = [t \in Tabs |-> NoRequest]
    /\ edit' = [a \in Admins |-> IdleEdit]
    /\ UNCHANGED <<listVars, teachingAsked, ledgerVars, missed, sessions>>

Next ==
    \/ ChaptersNext /\ UNCHANGED flowVars
    \/ \E t \in Tabs : \/ ReadPick(t) \/ InsertSession(t)
                       \/ AnswerItem(t) \/ CountUnanswered(t) \/ CompleteSession(t)
    \/ \E t \in Tabs, s \in DOMAIN sessions :
          \E i \in DOMAIN sessions[s].answered : ReadSession(t, s, i)
    \/ \E s \in DOMAIN sessions : Abandon(s) \/ DeleteSession(s)
    \/ WebDies

Spec == Init /\ [][Next]_vars

-----------------------------------------------------------------------------
(* What should be true.                                                    *)

(* A session is complete only when nothing is left that can be asked, and  *)
(* "when the answer was the last one missing, the session completes in the *)
(* same request" (3.14.10): while one is in progress with every item       *)
(* answered, a request is on its way to end it, from whichever tab and in  *)
(* whatever order the answers came, unless the process died under one.     *)
CompletesWithLastAnswer ==
    \A s \in DOMAIN sessions :
        LET left == {i \in DOMAIN sessions[s].answered : ~sessions[s].answered[i]} IN
        /\ Is(s, "complete") => left \cap (DOMAIN chapters \cup {Whole}) = {}
        /\ Is(s, "in_progress") /\ left = {} =>
              \/ \E t \in Tabs : /\ tab[t].session = s
                                 /\ tab[t].at \in {"inserted", "answered", "closing"}
              \/ s \in cut
=============================================================================
