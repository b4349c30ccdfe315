------------------------------ MODULE OfflineSync ------------------------------
(***************************************************************************)
(* Writes made offline, from the device to the server and back: the outbox *)
(* in IndexedDB that every tab of the browser shares (client/offline/      *)
(* outbox.ts), each tab's flush of it (manager.ts), and POST /sync, which  *)
(* applies the entries one by one through the live services and leaves a   *)
(* receipt behind each (server/offline/service.ts, db/src/sync.ts).        *)
(*                                                                         *)
(* One teaching. A note is a value, written once by its member; a position *)
(* is a number, later positions being further on. An IndexedDB request, a  *)
(* database statement, and the sending or the arrival of a request or an   *)
(* answer are one step each; everything else runs in between. Client ids   *)
(* are minted in the order of their entries' timestamps. A note has at most*)
(* one picture, kept on the device (images.ts) until a flush has uploaded  *)
(* it (pending-images.ts).                                                 *)
(***************************************************************************)
EXTENDS SequencesExt

CONSTANTS
  Tabs,            \* the pages of the device's browser
  Accounts,        \* members who sign in on this device
  NoAccount,       \* nobody is signed in
  Notes,           \* the notes members write
  PictureNotes,    \* those with a picture on them
  Wordless,        \* those with a picture and no words
  MaxPosition,     \* how far the teaching is listened to
  MaxSyncEntries,  \* MAX_SYNC_ENTRIES
  NoRequest,       \* the tab is waiting for nothing
  Bound            \* how often each kind of outside event may still happen

EventKinds == {"note", "unanswered", "lost", "close", "restart", "refusal", "held", "withdraw", "signIn"}

ASSUME OfflineAssumption ==
  /\ NoAccount \notin Accounts
  /\ PictureNotes \subseteq Notes /\ Wordless \subseteq PictureNotes
  /\ MaxPosition \in Nat
  /\ Notes \cap (1..MaxPosition) = {}
  /\ MaxSyncEntries \in Nat \ {0}
  /\ NoRequest \notin Nat
  /\ Bound \in [EventKinds -> Nat]

VARIABLES
  outbox,     \* the device's outbox: a set of entries
  minted,     \* how many client ids have been minted
  played,     \* the furthest position the player has reached
  keeping,    \* writes of a position that have not ended, in the tabs that made them
  pictures,   \* notes whose picture's bytes are kept on the device
  pending,    \* notes whose entry in the outbox names its picture by those bytes
  bare,       \* notes whose entry in the outbox has neither words nor picture
  downloaded, \* accounts that hold the teaching on this device
  returned,   \* notes whose refusal a member has been shown
  session,    \* whose cookie the browser sends
  tab,        \* the state of each tab
  writer,     \* who wrote each note, NoAccount while it is unwritten
  published,  \* the server: the teaching is published
  saved,      \* the server: how many rows each note has under each author
  position,   \* the server: the position it holds for each account
  receipts,   \* the server: its sync_receipt rows
  requests,   \* requests to /sync the server is handling
  budget      \* what Bound leaves

pictureVars == <<pictures, pending, bare>>
deviceVars == <<outbox, minted, played, keeping, pictureVars, downloaded, returned, session, tab, writer>>
serverVars == <<published, saved, position, receipts, requests>>
vars == <<outbox, minted, played, keeping, pictures, pending, bare, downloaded, returned, session, tab, writer,
          published, saved, position, receipts, requests, budget>>

Happens(kind) ==
  /\ budget[kind] > 0
  /\ budget' = [budget EXCEPT ![kind] = @ - 1]

Entry == [id : Nat, user : Accounts, kind : {"note", "progress"}, what : Notes \cup (1..MaxPosition)]
NewEntry(user, kind, what) == [id |-> minted + 1, user |-> user, kind |-> kind, what |-> what]
Ids(entries) == {e.id : e \in entries}

Closed == [pc |-> "closed", user |-> NoAccount, of |-> NoAccount, listed |-> <<>>,
           pending |-> {}, bare |-> {}, awaits |-> NoRequest, results |-> <<>>, revoked |-> FALSE]
Rest(user) == IF user = NoAccount THEN Closed ELSE [Closed EXCEPT !.pc = "idle", !.user = user]

-----------------------------------------------------------------------------
(* The tabs. A page is opened under the account signed in (activate), and  *)
(* may be closed, or killed, at any moment; whatever it was doing on the   *)
(* device ends there.                                                      *)

OpenTab(t) ==
  /\ tab[t].user = NoAccount
  /\ session # NoAccount
  /\ tab' = [tab EXCEPT ![t].user = session, ![t].pc = IF @ = "closed" THEN "idle" ELSE @]
  /\ UNCHANGED <<outbox, minted, played, keeping, pictureVars, downloaded, returned, session, writer, serverVars, budget>>

CloseTab(t) ==
  /\ tab[t].pc # "closed"
  /\ Happens("close")
  /\ tab' = [tab EXCEPT ![t] = Closed]
  /\ keeping' = {k \in keeping : k.tab # t}
  /\ UNCHANGED <<outbox, minted, played, pictureVars, downloaded, returned, session, writer, serverVars>>

(* The sign-out button: this tab lets go of the account, and the other     *)
(* tabs are not told. A flush or a write already under way carries on for  *)
(* the account it began with.                                              *)
SignOut(t) ==
  /\ session # NoAccount /\ tab[t].user = session
  /\ budget["signIn"] > 0
  /\ session' = NoAccount
  /\ tab' = [tab EXCEPT ![t].user = NoAccount, ![t].pc = IF @ = "idle" THEN "closed" ELSE @]
  /\ UNCHANGED <<outbox, minted, played, keeping, pictureVars, downloaded, returned, writer, serverVars, budget>>

SignIn(a) ==
  /\ session = NoAccount
  /\ Happens("signIn")
  /\ session' = a
  /\ UNCHANGED <<outbox, minted, played, keeping, pictureVars, downloaded, returned, tab, writer, serverVars>>

-----------------------------------------------------------------------------
(* What is kept while the server cannot be reached.                        *)

(* The composer's POST fails and the API client hands it to the offline    *)
(* module, which keeps it for the active account if that account holds the *)
(* teaching. The failure may be of the answer alone, the note being saved. *)
(* Before the POST the composer uploads the picture, or keeps its bytes on *)
(* the device, which may fail too (settle).                                *)
Composing == session \in downloaded /\ \E t \in Tabs : tab[t].user = session

KeepNote(n) ==
  /\ writer[n] = NoAccount
  /\ Composing
  /\ Happens("note")
  /\ writer' = [writer EXCEPT ![n] = session]
  /\ outbox' = outbox \cup {NewEntry(session, "note", n)}
  /\ minted' = minted + 1
  /\ \/ UNCHANGED pictureVars
     \/ /\ n \in PictureNotes
        /\ pending' = pending \cup {n}
        /\ pictures' \in {pictures, pictures \cup {n}}
        /\ UNCHANGED bare
  /\ UNCHANGED <<played, keeping, downloaded, returned, session, tab, serverVars>>

SaveUnanswered(n) ==
  /\ writer[n] = NoAccount
  /\ published
  /\ Composing
  /\ Happens("unanswered")
  /\ writer' = [writer EXCEPT ![n] = session]
  /\ saved' = [saved EXCEPT ![n][session] = @ + 1]
  /\ outbox' = outbox \cup {NewEntry(session, "note", n)}
  /\ minted' = minted + 1
  /\ UNCHANGED <<played, keeping, pictureVars, downloaded, returned, session, tab, published, position, receipts, requests>>

(* pushProgress: the player's PUT. They are seconds apart and answered in  *)
(* order, but a failure may take its time.                                 *)
Push(t) ==
  /\ tab[t].user # NoAccount
  /\ played < MaxPosition
  /\ played' = played + 1
  /\ keeping' = keeping \cup {[tab |-> t, user |-> tab[t].user, at |-> played + 1, stage |-> "flying", old |-> {}]}
  /\ UNCHANGED <<outbox, minted, pictureVars, downloaded, returned, session, tab, writer, serverVars, budget>>

PushAnswered(k) ==
  /\ k.stage = "flying"
  /\ \A other \in keeping : other.stage = "flying" => other.at >= k.at
  /\ keeping' = keeping \ {k}
  /\ position' = IF published /\ session # NoAccount THEN [position EXCEPT ![session] = k.at] ELSE position
  /\ UNCHANGED <<outbox, minted, played, pictureVars, downloaded, returned, session, tab, writer, published, saved, receipts, requests, budget>>

(* appendProgress: what the outbox holds of this teaching is listed, then  *)
(* deleted, and the new position put: three requests to IndexedDB.         *)
PushFails(k) ==
  /\ k.stage = "flying"
  /\ LET old == {e \in outbox : e.user = k.user /\ e.kind = "progress"}
     IN  keeping' = (keeping \ {k}) \cup
                      {[k EXCEPT !.stage = IF old = {} THEN "keeping" ELSE "replacing", !.old = old]}
  /\ UNCHANGED <<outbox, minted, played, pictureVars, downloaded, returned, session, tab, writer, serverVars, budget>>

DeleteOld(k) ==
  /\ \E e \in k.old :
       /\ outbox' = {o \in outbox : o.id # e.id}
       /\ keeping' = (keeping \ {k}) \cup {[k EXCEPT !.old = @ \ {e}]}
  /\ UNCHANGED <<minted, played, pictureVars, downloaded, returned, session, tab, writer, serverVars, budget>>

PutProgress(k) ==
  /\ k.stage # "flying" /\ k.old = {}
  /\ outbox' = outbox \cup {NewEntry(k.user, "progress", k.at)}
  /\ minted' = minted + 1
  /\ keeping' = keeping \ {k}
  /\ UNCHANGED <<played, pictureVars, downloaded, returned, session, tab, writer, serverVars, budget>>

-----------------------------------------------------------------------------
(* The flush, manager.ts: one at a time in a tab, for the account the tab  *)
(* was opened under.                                                       *)

Rank(entries, e) == Cardinality({f \in entries : f.id <= e.id})
InOrder(entries) == [k \in 1..Cardinality(entries) |-> CHOOSE e \in entries : Rank(entries, e) = k]
First(n, entries) == SubSeq(entries, 1, IF Len(entries) < n THEN Len(entries) ELSE n)

NotesIn(entries) == {e.what : e \in {f \in entries : f.kind = "note"}}
Listed(t, entries) ==
  [tab[t] EXCEPT !.pc = "preparing", !.of = tab[t].user, !.listed = entries,
                 !.pending = pending \cap NotesIn(Range(entries)), !.bare = bare \cap NotesIn(Range(entries))]

(* Mutant: with nothing to send, the flush does not ask about downloads.   *)
StartFlushNonEmpty(t) ==
  /\ tab[t].pc = "idle" /\ tab[t].user # NoAccount
  /\ LET mine == {e \in outbox : e.user = tab[t].user}
     IN  /\ mine # {}
         /\ tab' = [tab EXCEPT ![t] = Listed(t, First(MaxSyncEntries, InOrder(mine)))]
  /\ UNCHANGED <<outbox, minted, played, keeping, pictureVars, downloaded, returned, session, writer, serverVars, budget>>

StartFlush(t) ==
  /\ tab[t].pc = "idle" /\ tab[t].user # NoAccount
  /\ LET mine == {e \in outbox : e.user = tab[t].user}
     IN  /\ mine # {} \/ tab[t].user \in downloaded
         /\ tab' = [tab EXCEPT ![t] = Listed(t, First(MaxSyncEntries, InOrder(mine)))]
  /\ UNCHANGED <<outbox, minted, played, keeping, pictureVars, downloaded, returned, session, writer, serverVars, budget>>

(* prepareOutboxImages, one step of it for all that was listed. A picture  *)
(* whose bytes are gone is dropped, and a note left with nothing goes with *)
(* it. The others are uploaded and their entries written back, or stay     *)
(* home because the upload failed, as it does with nobody signed in: such  *)
(* an entry is written back with the pictures after those uploaded and     *)
(* those dropped, in its own or an earlier entry.                          *)
Waits(t) == {e \in Range(tab[t].listed) : e.kind = "note" /\ e.what \in tab[t].pending}
Gone(t) == {e \in Waits(t) : e.what \notin pictures}
EmptiedAll(t) == Gone(t)   \* mutant: the words go with the picture
Emptied(t) == {e \in Gone(t) : e.what \in Wordless}
CutShort(t, stays) == {e \in stays : \E g \in Gone(t) : g.id < e.id}

Prepared(t, stays) ==
  LET ready == InOrder(Range(tab[t].listed) \ (stays \cup Emptied(t)))
      looked == NotesIn(Waits(t))
  IN  /\ stays \subseteq Waits(t) \ Gone(t)
      /\ outbox' = {e \in outbox \cup Waits(t) : e.id \notin Ids(Emptied(t))}
      /\ pending' = (pending \ looked) \cup NotesIn(stays \ CutShort(t, stays))
      /\ bare' = (bare \ looked) \cup (NotesIn(CutShort(t, stays)) \cap Wordless)
      /\ tab' = [tab EXCEPT ![t].pc = "prepared", ![t].listed = ready]

Prepare(t) ==
  /\ tab[t].pc = "preparing"
  /\ \/ session = NoAccount /\ Prepared(t, Waits(t) \ Gone(t)) /\ UNCHANGED budget
     \/ session # NoAccount /\ Prepared(t, {}) /\ UNCHANGED budget
     \/ /\ session # NoAccount
        /\ \E stays \in SUBSET Waits(t) : stays # {} /\ Prepared(t, stays)
        /\ Happens("held")
  /\ UNCHANGED <<minted, played, keeping, pictures, downloaded, returned, session, writer, serverVars>>

(* The request goes out under whatever cookie the browser has by then. Its *)
(* "before" is history: the ids that had a receipt when it was sent.       *)
ReceiptsOf(user) == {r \in receipts : r.user = user}
FreeNo == CHOOSE no \in 1..Cardinality(requests) + 1 : \A q \in requests : q.no # no

Send(t) ==
  /\ tab[t].pc = "prepared"
  /\ session # NoAccount
  /\ tab' = [tab EXCEPT ![t].pc = "waiting", ![t].awaits = FreeNo]
  /\ requests' = requests \cup
       {[no |-> FreeNo, actor |-> session, entries |-> tab[t].listed, bare |-> tab[t].bare,
         seen |-> {}, stage |-> "arrived", status |-> "none", results |-> <<>>,
         held |-> tab[t].of \in downloaded, before |-> {r.id : r \in ReceiptsOf(session)}]}
  /\ UNCHANGED <<outbox, minted, played, keeping, pictureVars, downloaded, returned, session, writer, published, saved, position, receipts, budget>>

(* Nobody is signed in: the server refuses the request.                    *)
SendRefused(t) ==
  /\ tab[t].pc = "prepared"
  /\ session = NoAccount
  /\ tab' = [tab EXCEPT ![t] = Rest(tab[t].user)]
  /\ UNCHANGED <<outbox, minted, played, keeping, pictureVars, downloaded, returned, session, writer, serverVars, budget>>

(* The request fails for the tab, and goes on at the server for all it     *)
(* knows. The outbox keeps everything, for the next flush.                 *)
GiveUp(t) ==
  /\ tab[t].pc = "waiting"
  /\ Happens("lost")
  /\ tab' = [tab EXCEPT ![t] = Rest(tab[t].user)]
  /\ UNCHANGED <<outbox, minted, played, keeping, pictureVars, downloaded, returned, session, writer, serverVars>>

(* applySyncResults and removeOutbox: everything answered leaves the       *)
(* outbox; then the bytes of every picture the flush met are forgotten, of *)
(* the notes that stayed home too; only then are the refused notes handed  *)
(* back.                                                                   *)
Settled(t) == {tab[t].results[i].id : i \in 1..Len(tab[t].results)}
RefusedIds(t) == {tab[t].results[i].id : i \in {j \in 1..Len(tab[t].results) : tab[t].results[j].status = "refused"}}

RemoveSettledApplied(t) ==   \* mutant: only what was applied leaves the outbox
  /\ tab[t].pc = "answered"
  /\ outbox' = {e \in outbox : \A i \in 1..Len(tab[t].results) :
                   tab[t].results[i].id = e.id => tab[t].results[i].status # "applied"}
  /\ tab' = [tab EXCEPT ![t].pc = "removed"]
  /\ UNCHANGED <<minted, played, keeping, pictureVars, downloaded, returned, session, writer, serverVars, budget>>
RemoveSettled(t) ==
  /\ tab[t].pc = "answered"
  /\ outbox' = {e \in outbox : e.id \notin Settled(t)}
  /\ tab' = [tab EXCEPT ![t].pc = "removed"]
  /\ UNCHANGED <<minted, played, keeping, pictureVars, downloaded, returned, session, writer, serverVars, budget>>

ForgetPictures(t) ==
  /\ tab[t].pc = "removed"
  /\ pictures' = pictures \ tab[t].pending
  /\ tab' = [tab EXCEPT ![t].pc = "forgotten"]
  /\ UNCHANGED <<outbox, minted, played, keeping, pending, bare, downloaded, returned, session, writer, serverVars, budget>>

HandBack(t) ==
  /\ tab[t].pc = "forgotten"
  /\ returned' = returned \cup {e.what : e \in {f \in Range(tab[t].listed) : f.kind = "note" /\ f.id \in RefusedIds(t)}}
  /\ tab' = [tab EXCEPT ![t].pc = "revoking"]
  /\ UNCHANGED <<outbox, minted, played, keeping, pictureVars, downloaded, session, writer, serverVars, budget>>

RemoveRevoked(t) ==
  /\ tab[t].pc = "revoking"
  /\ downloaded' = IF tab[t].revoked THEN downloaded \ {tab[t].of} ELSE downloaded
  /\ tab' = [tab EXCEPT ![t] = Rest(tab[t].user)]
  /\ UNCHANGED <<outbox, minted, played, keeping, pictureVars, returned, session, writer, serverVars, budget>>

-----------------------------------------------------------------------------
(* The server, syncOutbox. Every statement is a transaction of its own.    *)

Step(q, changed) == requests' = (requests \ {q}) \cup {changed}
ReceiptFor(user, id) == {r \in ReceiptsOf(user) : r.id = id}

FindReceiptsApplied(q) ==   \* mutant: a refusal is tried again
  /\ q.stage = "arrived"
  /\ Step(q, [q EXCEPT !.stage = "next",
                       !.seen = {e.id : e \in {f \in Range(q.entries) :
                                   \E r \in ReceiptFor(q.actor, f.id) : r.status = "applied"}}])
  /\ UNCHANGED <<deviceVars, published, saved, position, receipts, budget>>
FindReceipts(q) ==
  /\ q.stage = "arrived"
  /\ Step(q, [q EXCEPT !.stage = "next", !.seen = {e.id : e \in {f \in Range(q.entries) : ReceiptFor(q.actor, f.id) # {}}}])
  /\ UNCHANGED <<deviceVars, published, saved, position, receipts, budget>>

Result(id, status) == [id |-> id, status |-> status]
Answer(q, id, status) == [q EXCEPT !.stage = "next", !.status = "none", !.entries = Tail(@), !.results = Append(@, Result(id, status))]

SkipDuplicate(q) ==
  /\ q.stage = "next" /\ q.entries # <<>>
  /\ Head(q.entries).id \in q.seen
  /\ Step(q, Answer(q, Head(q.entries).id, "duplicate"))
  /\ UNCHANGED <<deviceVars, published, saved, position, receipts, budget>>

(* applyEntry: the live service takes the entry or refuses it, as it does  *)
(* a note with neither words nor picture (parseText).                      *)
IsBare(q, e) == e.kind = "note" /\ e.what \in q.bare

ApplyEntry(q) ==
  /\ q.stage = "next" /\ q.entries # <<>>
  /\ Head(q.entries).id \notin q.seen
  /\ published /\ ~IsBare(q, Head(q.entries))
  /\ LET e == Head(q.entries)
     IN  IF e.kind = "note"
         THEN saved' = [saved EXCEPT ![e.what][q.actor] = @ + 1] /\ UNCHANGED position
         ELSE position' = [position EXCEPT ![q.actor] = e.what] /\ UNCHANGED saved
  /\ Step(q, [q EXCEPT !.stage = "handled", !.status = "applied"])
  /\ UNCHANGED <<deviceVars, published, receipts, budget>>

RefuseEntry(q) ==
  /\ q.stage = "next" /\ q.entries # <<>>
  /\ Head(q.entries).id \notin q.seen
  /\ \/ (~published \/ IsBare(q, Head(q.entries))) /\ UNCHANGED budget
     \/ published /\ Head(q.entries).kind = "note" /\ Happens("refusal")
  /\ Step(q, [q EXCEPT !.stage = "handled", !.status = "refused"])
  /\ UNCHANGED <<deviceVars, published, saved, position, receipts>>

(* insertSyncReceipt: on conflict do nothing.                              *)
InsertReceiptAnswered(q) ==   \* mutant: the row says what a second flush is told
  /\ q.stage = "handled"
  /\ LET e == Head(q.entries)
     IN  /\ receipts' = receipts \cup {[user |-> q.actor, id |-> e.id, kind |-> e.kind, what |-> e.what, status |-> "duplicate"]}
         /\ Step(q, Answer(q, e.id, q.status))
  /\ UNCHANGED <<deviceVars, published, saved, position, budget>>
InsertReceipt(q) ==
  /\ q.stage = "handled"
  /\ LET e == Head(q.entries)
     IN  /\ receipts' = IF ReceiptFor(q.actor, e.id) # {} THEN receipts
                        ELSE receipts \cup {[user |-> q.actor, id |-> e.id, kind |-> e.kind, what |-> e.what, status |-> q.status]}
         /\ Step(q, Answer(q, e.id, q.status))
  /\ UNCHANGED <<deviceVars, published, saved, position, budget>>

(* The answer, and with it whether the download is to go. A tab that no    *)
(* longer waits for it never sees it.                                      *)
Reply(q) ==
  /\ q.stage = "next" /\ q.entries = <<>>
  /\ requests' = requests \ {q}
  /\ tab' = [t \in Tabs |->
               IF tab[t].awaits = q.no
               THEN [tab[t] EXCEPT !.pc = "answered", !.awaits = NoRequest, !.results = q.results,
                                   !.revoked = q.held /\ ~published]
               ELSE tab[t]]
  /\ UNCHANGED <<outbox, minted, played, keeping, pictureVars, downloaded, returned, session, writer, published, saved, position, receipts, budget>>

(* The web process restarts: what it was handling stops where it was.      *)
Restart ==
  /\ requests # {}
  /\ Happens("restart")
  /\ requests' = {}
  /\ tab' = [t \in Tabs |-> IF tab[t].pc = "waiting" THEN Rest(tab[t].user) ELSE tab[t]]
  /\ UNCHANGED <<outbox, minted, played, keeping, pictureVars, downloaded, returned, session, writer, published, saved, position, receipts>>

(* An admin takes the teaching down, or puts it back.                      *)
Withdraw ==
  /\ Happens("withdraw")
  /\ published' = ~published
  /\ UNCHANGED <<deviceVars, saved, position, receipts, requests>>

-----------------------------------------------------------------------------
Init ==
  /\ outbox = {} /\ minted = 0
  /\ played = 0 /\ keeping = {}
  /\ pictures = {} /\ pending = {} /\ bare = {}
  /\ downloaded = Accounts
  /\ returned = {}
  /\ session \in Accounts
  /\ tab = [t \in Tabs |-> Closed]
  /\ writer = [n \in Notes |-> NoAccount]
  /\ published = TRUE
  /\ saved = [n \in Notes |-> [a \in Accounts |-> 0]]
  /\ position = [a \in Accounts |-> 0]
  /\ receipts = {} /\ requests = {}
  /\ budget = Bound

Member ==
  \/ \E n \in Notes : KeepNote(n) \/ SaveUnanswered(n)
  \/ \E t \in Tabs : CloseTab(t) \/ SignOut(t) \/ Push(t)
  \/ \E a \in Accounts : SignIn(a)

FlushStep(t) ==
  \/ OpenTab(t) \/ StartFlush(t) \/ Prepare(t) \/ Send(t) \/ SendRefused(t)
  \/ RemoveSettled(t) \/ ForgetPictures(t) \/ HandBack(t) \/ RemoveRevoked(t)

PlayerStep == \E k \in keeping : PushAnswered(k) \/ PushFails(k) \/ DeleteOld(k) \/ PutProgress(k)

ServerStep ==
  \E q \in requests :
    \/ FindReceipts(q) \/ SkipDuplicate(q) \/ ApplyEntry(q) \/ RefuseEntry(q)
    \/ InsertReceipt(q) \/ Reply(q)

Next ==
  \/ Member
  \/ \E t \in Tabs : FlushStep(t) \/ GiveUp(t)
  \/ PlayerStep
  \/ ServerStep
  \/ Restart \/ Withdraw

(* The app is opened again and comes to the front again and again (the     *)
(* visibilitychange, online and activation flushes), IndexedDB requests and*)
(* fetches end, and the server answers.                                    *)
Spec ==
  /\ Init /\ [][Next]_vars
  /\ \A t \in Tabs : WF_vars(FlushStep(t))
  /\ WF_vars(PlayerStep) /\ WF_vars(ServerStep)

-----------------------------------------------------------------------------
(* Properties.                                                             *)

Request == [no : Nat, actor : Accounts, entries : Seq(Entry), bare : SUBSET Wordless, seen : SUBSET Nat,
            stage : {"arrived", "next", "handled"}, status : {"none", "applied", "refused"},
            results : Seq([id : Nat, status : {"applied", "refused", "duplicate"}]), held : BOOLEAN,
            before : SUBSET Nat]

TypeOK ==
  /\ outbox \subseteq Entry
  /\ minted \in Nat /\ played \in 0..MaxPosition
  /\ \A k \in keeping : k.tab \in Tabs /\ k.at \in 1..MaxPosition /\ k.stage \in {"flying", "keeping", "replacing"} /\ k.old \subseteq Entry
  /\ pictures \subseteq PictureNotes /\ pending \subseteq PictureNotes /\ bare \subseteq Wordless
  /\ downloaded \subseteq Accounts /\ returned \subseteq Notes
  /\ session \in Accounts \cup {NoAccount}
  /\ \A t \in Tabs :
       /\ tab[t].pc \in {"closed", "idle", "preparing", "prepared", "waiting", "answered", "removed", "forgotten", "revoking"}
       /\ {tab[t].user, tab[t].of} \subseteq Accounts \cup {NoAccount}
       /\ tab[t].listed \in Seq(Entry)
  /\ writer \in [Notes -> Accounts \cup {NoAccount}]
  /\ published \in BOOLEAN
  /\ saved \in [Notes -> [Accounts -> Nat]]
  /\ position \in [Accounts -> 0..MaxPosition]
  /\ \A r \in receipts : r.user \in Accounts /\ r.id \in 1..minted /\ r.status \in {"applied", "refused"}
  /\ requests \subseteq Request
  /\ budget \in [EventKinds -> Nat]

(* A note kept on the device is never nowhere: until the server has saved  *)
(* it or has a receipt refusing it, it is in the outbox, whatever is       *)
(* killed, lost or restarted on the way. The one exception is a note of a  *)
(* picture alone, and only once the picture's bytes are not on the device: *)
(* they could not be kept, or a flush that left the note home forgot them. *)
(* A note with words never goes with its picture.                          *)
KeptNoteIsSomewhere ==
  \A n \in Notes : writer[n] # NoAccount =>
    \/ \E e \in outbox : e.what = n
    \/ \E a \in Accounts : saved[n][a] > 0
    \/ \E r \in receipts : r.what = n /\ r.status = "refused"
    \/ n \in Wordless /\ n \notin pictures

(* "The receipt is what stops every flush after it": an entry the server   *)
(* has a receipt for is never run through the live services again, by any  *)
(* request sent after that receipt was written, whichever answers were     *)
(* lost in between.                                                        *)
ReceiptStopsReplays ==
  \A q \in requests : q.stage = "handled" => Head(q.entries).id \notin q.before

(* Everything written offline leaves the outbox in the end, however many   *)
(* flushes it takes: no refused, duplicate or late entry stays in the way. *)
OutboxDrains == []<>(outbox = {})

(* A teaching that stays taken down does not stay on the device (3.18.12): *)
(* the flush asks about downloads even with nothing else to send.          *)
RevokedLeaves == []<>published \/ <>(downloaded = {})
=============================================================================
