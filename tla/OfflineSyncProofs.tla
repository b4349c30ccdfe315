--------------------------- MODULE OfflineSyncProofs ---------------------------
(***************************************************************************)
(* What OfflineSync keeps for any number of tabs, accounts, notes and      *)
(* outside events. The argument follows an entry around: its client id is  *)
(* minted once, so whatever list, request or receipt bears the id is about *)
(* the same write; and nothing tells a tab that an id is settled but a     *)
(* receipt the server keeps for good.                                      *)
(***************************************************************************)
EXTENDS OfflineSync, FiniteSetTheorems, TLAPS

Places == Accounts \cup {NoAccount}
PCs == {"closed", "idle", "preparing", "prepared", "waiting", "answered", "removed", "forgotten", "revoking"}
NoteEntry == [id : Nat, user : Accounts, kind : {"note"}, what : Notes]
ProgressEntry == [id : Nat, user : Accounts, kind : {"progress"}, what : 1..MaxPosition]
Write == NoteEntry \cup ProgressEntry
Told == [id : Nat, status : {"applied", "refused", "duplicate"}]
Keeping == [tab : Tabs, user : Accounts, at : 1..MaxPosition,
            stage : {"flying", "keeping", "replacing"}, old : SUBSET ProgressEntry]
TabState == [pc : PCs, user : Places, of : Places, listed : Seq(Write),
             pending : SUBSET PictureNotes, bare : SUBSET Wordless, awaits : Nat \cup {NoRequest}, results : Seq(Told), revoked : BOOLEAN]
Handling == [no : Nat, actor : Accounts, entries : Seq(Write), bare : SUBSET Wordless, seen : SUBSET Nat,
             stage : {"arrived", "next", "handled"}, status : {"none", "applied", "refused"},
             results : Seq(Told), held : BOOLEAN, before : SUBSET Nat]
Receipt ==
  {r \in [user : Accounts, id : Nat, kind : {"note", "progress"}, what : Notes \cup (1..MaxPosition),
          status : {"applied", "refused"}] : r.kind = "note" => r.what \in Notes}

USE DEF pictureVars

(* Types, by who keeps the state.                                          *)
DeviceType ==
  /\ outbox \subseteq Write /\ minted \in Nat /\ played \in 0..MaxPosition
  /\ keeping \subseteq Keeping
  /\ pictures \subseteq PictureNotes /\ pending \subseteq PictureNotes /\ bare \subseteq Wordless
  /\ downloaded \subseteq Accounts /\ returned \subseteq Notes
  /\ session \in Places
  /\ writer \in [Notes -> Places]
TabType == tab \in [Tabs -> TabState] /\ \A t \in Tabs : tab[t].pc = "preparing" => tab[t].of \in Accounts
ServerType ==
  /\ published \in BOOLEAN
  /\ saved \in [Notes -> [Accounts -> Nat]]
  /\ position \in [Accounts -> 0..MaxPosition]
  /\ receipts \subseteq Receipt
  /\ requests \subseteq Handling /\ IsFiniteSet(requests)
TypeInv == DeviceType /\ TabType /\ ServerType /\ budget \in [EventKinds -> Nat]

(* Where a write may be met: the outbox, what a tab has listed, what a     *)
(* request carries, what a tab is about to replace.                        *)
Around(e) ==
  \/ e \in outbox
  \/ \E t \in Tabs : e \in Range(tab[t].listed)
  \/ \E q \in requests : e \in Range(q.entries)
  \/ \E k \in keeping : e \in k.old

(* A client id names one write, everywhere.                                *)
Linked ==
  /\ \A e \in Write : Around(e) => e.id \in 1..minted
  /\ \A e, f \in Write : Around(e) /\ Around(f) /\ e.id = f.id => e = f
  /\ \A r \in receipts : r.id \in 1..minted
  /\ \A r \in receipts : \A e \in Write :
       Around(e) /\ r.id = e.id => r.kind = e.kind /\ r.what = e.what

(* Who is told that an id is settled is told so by a receipt; and a note   *)
(* with a receipt saying it was applied has been saved.                    *)
IsTold(id) ==
  \/ \E t \in Tabs : \E i \in DOMAIN tab[t].results : tab[t].results[i].id = id
  \/ \E q \in requests : id \in q.seen \/ \E i \in DOMAIN q.results : q.results[i].id = id
HasReceipt(id) == \E r \in receipts : r.id = id
IsSaved(n) == \E a \in Accounts : saved[n][a] > 0
Honest ==
  /\ \A id \in Nat : IsTold(id) => HasReceipt(id)
  /\ \A r \in receipts : r.kind = "note" /\ r.status = "applied" => IsSaved(r.what)

(* A request handles the first of its entries, one without a receipt when  *)
(* it looked; and what had a receipt when it was sent it has seen.         *)
InOrderOf(q) ==
  /\ \A id \in q.before : \E r \in receipts : r.user = q.actor /\ r.id = id
  /\ q.stage # "arrived" => \A e \in Range(q.entries) : e.id \in q.before => e.id \in q.seen
  /\ q.stage = "handled" =>
       /\ q.entries # <<>> /\ q.status # "none"
       /\ Head(q.entries).id \notin q.seen
       /\ (q.status = "applied" /\ Head(q.entries).kind = "note") => IsSaved(Head(q.entries).what)

SyncInv ==
  /\ TypeInv /\ Linked /\ Honest
  /\ \A q \in requests : InOrderOf(q)
  /\ KeptNoteIsSomewhere

-----------------------------------------------------------------------------
(* Sequences.                                                              *)
LEMMA SeqFacts ==
  ASSUME NEW S, NEW s \in Seq(S)
  PROVE  Len(s) \in Nat /\ DOMAIN s = 1..Len(s) /\ s \in [1..Len(s) -> S]
OBVIOUS
LEMMA SeqOfLength ==
  ASSUME NEW S, NEW n \in Nat, NEW s \in [1..n -> S]
  PROVE  s \in Seq(S) /\ Len(s) = n
OBVIOUS
LEMMA RangeFacts ==
  ASSUME NEW S, NEW s \in Seq(S)
  PROVE  Range(s) \subseteq S
BY SeqFacts DEF Range
LEMMA WiderSeq ==
  ASSUME NEW S, NEW T, S \subseteq T, NEW s \in Seq(S)
  PROVE  s \in Seq(T)
<1>1. Len(s) \in Nat /\ s \in [1..Len(s) -> T]
  BY SeqFacts
<1> QED BY <1>1, SeqOfLength
LEMMA HeadAndTail ==
  ASSUME NEW S, NEW s \in Seq(S), s # <<>>
  PROVE  /\ Head(s) \in S /\ Tail(s) \in Seq(S) /\ Head(s) \in Range(s)
         /\ Range(Tail(s)) \subseteq Range(s)
<1>1. Len(s) \in Nat \ {0} /\ DOMAIN s = 1..Len(s)
  OBVIOUS
<1>2. Head(s) = s[1] /\ 1 \in DOMAIN s
  BY <1>1
<1>3. Tail(s) \in Seq(S) /\ Len(Tail(s)) = Len(s) - 1
  BY <1>1
<1>4. \A i \in 1..(Len(s) - 1) : Tail(s)[i] = s[i + 1] /\ i + 1 \in 1..Len(s)
  BY <1>1
<1>5. DOMAIN Tail(s) = 1..(Len(s) - 1)
  BY <1>1, <1>3, SeqFacts
<1> QED BY <1>1, <1>2, <1>3, <1>4, <1>5, RangeFacts DEF Range
LEMMA Appended ==
  ASSUME NEW S, NEW s \in Seq(S), NEW x \in S
  PROVE  /\ Append(s, x) \in Seq(S)
         /\ \A i \in DOMAIN Append(s, x) : Append(s, x)[i] = x \/ \E j \in DOMAIN s : Append(s, x)[i] = s[j]
OBVIOUS
LEMMA Cut ==
  ASSUME NEW S, NEW s \in Seq(S), NEW n \in Nat
  PROVE  First(n, s) \in Seq(S) /\ Range(First(n, s)) \subseteq Range(s)
<1> DEFINE m == IF Len(s) < n THEN Len(s) ELSE n
<1>1. m \in Nat /\ m <= Len(s) /\ Len(s) \in Nat /\ DOMAIN s = 1..Len(s)
  OBVIOUS
<1>2. First(n, s) = SubSeq(s, 1, m)
  BY DEF First
<1> HIDE DEF m
<1>3. First(n, s) = [i \in 1..m |-> s[i]]
  BY <1>1, <1>2
<1>4. First(n, s) \in [1..m -> S]
  BY <1>1, <1>3, SeqFacts
<1>5. First(n, s) \in Seq(S) /\ DOMAIN First(n, s) = 1..m
  BY <1>1, <1>4, SeqOfLength
<1> QED BY <1>1, <1>3, <1>5 DEF Range

(* Entries with ids of their own can be told off one by one by their ids.  *)
LEMMA Ranks ==
  ASSUME NEW n \in Nat, NEW entries, \A e \in entries : e.id \in 1..n,
         \A e, f \in entries : e.id = f.id => e = f
  PROVE  /\ Cardinality(entries) \in Nat
         /\ \A k \in 1..Cardinality(entries) : \E e \in entries : Rank(entries, e) = k
<1> DEFINE c == Cardinality(entries)
           UpTo(e) == {f \in entries : f.id <= e.id}
           rank == [e \in entries |-> Cardinality(UpTo(e))]
           idOf == [e \in entries |-> e.id]
<1>1. IsFiniteSet(entries) /\ c \in Nat
  <2>1. idOf \in Injection(entries, 1..n)
    BY DEF Injection, IsInjective
  <2>2. IsFiniteSet(1..n)
    BY FS_Interval
  <2>3. IsFiniteSet(entries)
    BY <2>1, <2>2, FS_Injection
  <2> QED BY <2>3, FS_CardinalityType
<1>2. ASSUME NEW e \in entries
      PROVE  IsFiniteSet(UpTo(e)) /\ Cardinality(UpTo(e)) \in 1..c
  <2>1. e.id \in Nat
    OBVIOUS
  <2>2. UpTo(e) \in SUBSET entries /\ e \in UpTo(e)
    BY <2>1
  <2>3. IsFiniteSet(UpTo(e)) /\ Cardinality(UpTo(e)) <= c
    BY <1>1, <2>2, FS_Subset
  <2>4. Cardinality(UpTo(e)) \in Nat /\ Cardinality(UpTo(e)) # 0
    BY <2>2, <2>3, FS_CardinalityType, FS_EmptySet
  <2> QED BY <1>1, <2>3, <2>4
<1>3. ASSUME NEW e \in entries, NEW f \in entries, e.id < f.id
      PROVE  Cardinality(UpTo(e)) # Cardinality(UpTo(f))
  <2>1. e.id \in Nat /\ f.id \in Nat /\ \A g \in entries : g.id \in Nat
    OBVIOUS
  <2>2. UpTo(e) \in SUBSET UpTo(f)
    <3>1. ASSUME NEW g \in entries, g.id <= e.id PROVE g.id <= f.id
      BY <1>3, <2>1, <3>1
    <3> QED BY <3>1
  <2>3. f \in UpTo(f) /\ f \notin UpTo(e)
    BY <1>3, <2>1
  <2> QED BY <1>2, <2>2, <2>3, FS_Subset
<1>4. rank \in Injection(entries, 1..c)
  <2>1. rank \in [entries -> 1..c]
    BY <1>2
  <2>2. ASSUME NEW e \in entries, NEW f \in entries, rank[e] = rank[f]
        PROVE  e = f
    <3>1. e.id \in Nat /\ f.id \in Nat
      OBVIOUS
    <3>2. ~(e.id < f.id) /\ ~(f.id < e.id)
      BY <1>3, <2>2
    <3> QED BY <3>1, <3>2
  <2> HIDE DEF rank
  <2> QED BY <2>1, <2>2 DEF Injection, IsInjective
<1>5. Cardinality(1..c) = c /\ IsFiniteSet(1..c)
  BY <1>1, FS_Interval
<1>6. rank \in Surjection(entries, 1..c)
  BY <1>4, <1>5, FS_Injection
<1> QED BY <1>1, <1>6 DEF Surjection, Rank

(* So they can be put in order, and none but they are in it.               *)
LEMMA Ordered ==
  ASSUME NEW n \in Nat, NEW entries, \A e \in entries : e.id \in 1..n,
         \A e, f \in entries : e.id = f.id => e = f
  PROVE  InOrder(entries) \in Seq(entries)
<1> DEFINE c == Cardinality(entries)
           At(k) == CHOOSE e \in entries : Rank(entries, e) = k
<1>1. c \in Nat /\ \A k \in 1..c : \E e \in entries : Rank(entries, e) = k
  BY Ranks
<1>2. \A k \in 1..c : At(k) \in entries
  BY <1>1
<1>3. InOrder(entries) = [k \in 1..c |-> At(k)]
  BY DEF InOrder
<1> HIDE DEF At, c
<1>4. InOrder(entries) \in [1..c -> entries]
  BY <1>2, <1>3
<1> QED BY <1>1, <1>4, SeqOfLength

(* A request of its own is numbered as none of those being handled.        *)
LEMMA FreeNumber ==
  ASSUME IsFiniteSet(requests), requests \subseteq Handling
  PROVE  FreeNo \in Nat /\ \A q \in requests : q.no # FreeNo
<1> DEFINE c == Cardinality(requests)
           of == [no \in 1..(c + 1) |-> CHOOSE q \in requests : q.no = no]
<1>1. c \in Nat
  BY FS_CardinalityType
<1>2. \E no \in 1..(c + 1) : \A q \in requests : q.no # no
  <2> SUFFICES ASSUME \A no \in 1..(c + 1) : \E q \in requests : q.no = no
               PROVE  FALSE
    OBVIOUS
  <2>1. \A no \in 1..(c + 1) : of[no] \in requests /\ of[no].no = no
    OBVIOUS
  <2>2. of \in [1..(c + 1) -> requests]
    BY <2>1
  <2> HIDE DEF of
  <2>3. of \in Injection(1..(c + 1), requests)
    BY <2>1, <2>2 DEF Injection, IsInjective
  <2>4. Cardinality(1..(c + 1)) <= c
    BY <2>3, FS_Injection
  <2>5. Cardinality(1..(c + 1)) = c + 1
    BY <1>1, FS_Interval
  <2> QED BY <1>1, <2>4, <2>5
<1>3. FreeNo \in 1..(c + 1) /\ \A q \in requests : q.no # FreeNo
  BY <1>2 DEF FreeNo
<1> QED BY <1>1, <1>3
-----------------------------------------------------------------------------
(* Types, action by action.                                                *)
LEMMA Resting ==
  ASSUME NEW user \in Places
  PROVE  /\ Rest(user) \in TabState /\ Rest(user).pc \in {"closed", "idle"}
         /\ Rest(user).listed = <<>> /\ Rest(user).results = <<>>
         /\ Closed \in TabState /\ Closed.pc = "closed" /\ Closed.listed = <<>> /\ Closed.results = <<>>
<1>1. Closed \in TabState /\ Closed.pc = "closed" /\ Closed.listed = <<>> /\ Closed.results = <<>>
  BY DEF Closed, TabState, PCs, Places
<1>2. [Closed EXCEPT !.pc = "idle", !.user = user] \in TabState
  BY <1>1 DEF TabState, PCs
<1> QED BY <1>1, <1>2 DEF Rest, Closed

LEMMA Retab ==
  ASSUME TabType, NEW t \in Tabs, NEW s \in TabState, s.pc = "preparing" => s.of \in Accounts,
         tab' = [tab EXCEPT ![t] = s]
  PROVE  /\ TabType'
         /\ \A u \in Tabs : tab'[u] = IF u = t THEN s ELSE tab[u]
<1>1. \A u \in Tabs : tab'[u] = IF u = t THEN s ELSE tab[u]
  BY DEF TabType
<1>2. tab' \in [Tabs -> TabState]
  BY DEF TabType
<1> QED BY <1>1, <1>2 DEF TabType

LEMMA MineInOrder ==
  ASSUME TypeInv, Linked, NEW mine \in SUBSET outbox
  PROVE  /\ First(MaxSyncEntries, InOrder(mine)) \in Seq(Write)
         /\ Range(First(MaxSyncEntries, InOrder(mine))) \subseteq mine
<1>1. /\ mine \subseteq Write /\ minted \in Nat
      /\ \A e \in mine : e.id \in 1..minted
      /\ \A e, f \in mine : e.id = f.id => e = f
  BY DEF TypeInv, DeviceType, Linked, Around
<1>2. InOrder(mine) \in Seq(mine)
  BY <1>1, Ordered
<1>3. MaxSyncEntries \in Nat
  BY OfflineAssumption
<1>4. First(MaxSyncEntries, InOrder(mine)) \in Seq(mine)
  BY <1>2, <1>3, Cut
<1> QED BY <1>1, <1>4, WiderSeq, RangeFacts

LEMMA ReadyInOrder ==
  ASSUME TypeInv, Linked, NEW t \in Tabs, NEW stays
  PROVE  /\ InOrder(Range(tab[t].listed) \ stays) \in Seq(Write)
         /\ Range(InOrder(Range(tab[t].listed) \ stays)) \subseteq Range(tab[t].listed) \ stays
<1> DEFINE these == Range(tab[t].listed) \ stays
<1>1. Range(tab[t].listed) \subseteq Write
  <2>1. tab[t].listed \in Seq(Write)
    BY DEF TypeInv, TabType, TabState
  <2> QED BY <2>1, RangeFacts
<1>2. /\ these \subseteq Write /\ minted \in Nat
      /\ \A e \in these : e.id \in 1..minted
      /\ \A e, f \in these : e.id = f.id => e = f
  BY <1>1 DEF TypeInv, DeviceType, Linked, Around
<1> HIDE DEF these
<1>3. InOrder(these) \in Seq(these)
  BY <1>2, Ordered
<1>4. InOrder(these) \in Seq(Write) /\ Range(InOrder(these)) \subseteq these
  BY <1>2, <1>3, WiderSeq, RangeFacts
<1> QED BY <1>4 DEF these

LEMMA ListedTab ==
  ASSUME TypeInv, NEW t \in Tabs, NEW entries \in Seq(Write)
  PROVE  /\ Listed(t, entries).listed = entries /\ Listed(t, entries).results = tab[t].results
         /\ Listed(t, entries).of = tab[t].user
         /\ Listed(t, entries) \in TabState
<1> DEFINE p == pending \cap NotesIn(Range(entries))
           b == bare \cap NotesIn(Range(entries))
<1>1. tab[t] \in TabState /\ p \subseteq PictureNotes /\ b \subseteq Wordless
  BY DEF TypeInv, TabType, DeviceType
<1>2. Listed(t, entries) = [tab[t] EXCEPT !.pc = "preparing", !.of = tab[t].user, !.listed = entries,
                                          !.pending = p, !.bare = b]
  BY DEF Listed
<1> HIDE DEF p, b
<1>3. [tab[t] EXCEPT !.pc = "preparing", !.of = tab[t].user, !.listed = entries,
                     !.pending = p, !.bare = b] \in TabState
  BY <1>1 DEF TabState, PCs
<1>4. /\ Listed(t, entries).listed = entries /\ Listed(t, entries).results = tab[t].results
      /\ Listed(t, entries).of = tab[t].user
  BY <1>1, <1>2 DEF TabState
<1> QED BY <1>2, <1>3, <1>4

(* What is not sent of the listed is a part of it; and a note that goes    *)
(* with its picture had no words, and its picture's bytes were gone.       *)
LEMMA Looked ==
  ASSUME TypeInv, NEW t \in Tabs, NEW stays \in SUBSET (Waits(t) \ Gone(t))
  PROVE  /\ Waits(t) \subseteq Range(tab[t].listed) /\ Waits(t) \subseteq Write
         /\ NotesIn(stays \ CutShort(t, stays)) \subseteq PictureNotes
         /\ Emptied(t) \subseteq Waits(t)
         /\ \A e \in Emptied(t) : e.what \in Wordless \ pictures
<1>1. tab[t].listed \in Seq(Write) /\ tab[t].pending \subseteq PictureNotes
  BY DEF TypeInv, TabType, TabState
<1>2. Range(tab[t].listed) \subseteq Write
  BY <1>1, RangeFacts
<1> QED BY <1>1, <1>2 DEF Waits, Gone, Emptied, NotesIn

LEMMA MemberTypes ==
  ASSUME TypeInv, Linked, Member
  PROVE  TypeInv'
<1> USE OfflineAssumption
<1>1. ASSUME NEW n \in Notes, KeepNote(n) PROVE TypeInv'
  <2>1. session \in Accounts /\ NewEntry(session, "note", n) \in Write
    BY <1>1 DEF KeepNote, Composing, NewEntry, Write, NoteEntry, TypeInv, DeviceType
  <2>2. writer' \in [Notes -> Places]
    BY <1>1, <2>1 DEF KeepNote, TypeInv, DeviceType, Places
  <2>3. DeviceType'
    <3>1. pictures' \subseteq PictureNotes /\ pending' \subseteq PictureNotes /\ bare' \subseteq Wordless
      BY <1>1 DEF KeepNote, TypeInv, DeviceType
    <3> QED BY <1>1, <2>1, <2>2, <3>1 DEF KeepNote, TypeInv, DeviceType
  <2>4. budget' \in [EventKinds -> Nat]
    BY <1>1 DEF KeepNote, Happens, TypeInv, EventKinds
  <2> QED BY <1>1, <2>3, <2>4 DEF KeepNote, TypeInv, TabType, ServerType, serverVars
<1>2. ASSUME NEW n \in Notes, SaveUnanswered(n) PROVE TypeInv'
  <2>1. session \in Accounts /\ NewEntry(session, "note", n) \in Write
    BY <1>2 DEF SaveUnanswered, Composing, NewEntry, Write, NoteEntry, TypeInv, DeviceType
  <2>2. writer' \in [Notes -> Places]
    BY <1>2, <2>1 DEF SaveUnanswered, TypeInv, DeviceType, Places
  <2>3. DeviceType'
    BY <1>2, <2>1, <2>2 DEF SaveUnanswered, TypeInv, DeviceType
  <2>4. saved' \in [Notes -> [Accounts -> Nat]]
    BY <1>2, <2>1 DEF SaveUnanswered, TypeInv, ServerType
  <2>5. ServerType'
    BY <1>2, <2>4 DEF SaveUnanswered, TypeInv, ServerType
  <2>6. budget' \in [EventKinds -> Nat]
    BY <1>2 DEF SaveUnanswered, Happens, TypeInv, EventKinds
  <2> QED BY <1>2, <2>3, <2>5, <2>6 DEF SaveUnanswered, TypeInv, TabType
<1>3. ASSUME NEW t \in Tabs, CloseTab(t) PROVE TypeInv'
  <2>1. NoAccount \in Places
    BY DEF Places
  <2>2. TabType'
    BY <1>3, <2>1, Resting, Retab DEF CloseTab, TypeInv
  <2>3. DeviceType'
    BY <1>3 DEF CloseTab, TypeInv, DeviceType
  <2>4. budget' \in [EventKinds -> Nat]
    BY <1>3 DEF CloseTab, Happens, TypeInv, EventKinds
  <2> QED BY <1>3, <2>2, <2>3, <2>4 DEF CloseTab, TypeInv, ServerType, serverVars
<1>4. ASSUME NEW t \in Tabs, SignOut(t) PROVE TypeInv'
  <2> DEFINE s == [tab[t] EXCEPT !.user = NoAccount, !.pc = IF @ = "idle" THEN "closed" ELSE @]
  <2>1. tab[t] \in TabState /\ (tab[t].pc = "preparing" => tab[t].of \in Accounts)
    BY DEF TypeInv, TabType
  <2>2. s \in TabState /\ (s.pc = "preparing" => s.of \in Accounts)
    BY <2>1 DEF TabState, PCs, Places
  <2>3. tab' = [tab EXCEPT ![t] = s]
    BY <1>4 DEF SignOut, TypeInv, TabType
  <2> HIDE DEF s
  <2>4. TabType'
    BY <2>2, <2>3, Retab DEF TypeInv
  <2>5. DeviceType'
    BY <1>4 DEF SignOut, TypeInv, DeviceType, Places
  <2> QED BY <1>4, <2>4, <2>5 DEF SignOut, TypeInv, ServerType, serverVars
<1>5. ASSUME NEW t \in Tabs, Push(t) PROVE TypeInv'
  <2>1. tab[t].user \in Accounts
    BY <1>5 DEF Push, TypeInv, TabType, TabState, Places
  <2>2. played + 1 \in 1..MaxPosition
    BY <1>5 DEF Push, TypeInv, DeviceType
  <2>3. [tab |-> t, user |-> tab[t].user, at |-> played + 1, stage |-> "flying", old |-> {}] \in Keeping
    BY <2>1, <2>2 DEF Keeping
  <2>4. played' \in 0..MaxPosition
    BY <1>5, <2>2 DEF Push
  <2>5. keeping' \subseteq Keeping
    BY <1>5, <2>3 DEF Push, TypeInv, DeviceType
  <2>6. DeviceType'
    BY <1>5, <2>4, <2>5 DEF Push, TypeInv, DeviceType
  <2> QED BY <1>5, <2>6 DEF Push, TypeInv, TabType, ServerType, serverVars
<1>6. ASSUME NEW a \in Accounts, SignIn(a) PROVE TypeInv'
  <2>1. DeviceType'
    BY <1>6 DEF SignIn, TypeInv, DeviceType, Places
  <2>2. budget' \in [EventKinds -> Nat]
    BY <1>6 DEF SignIn, Happens, TypeInv, EventKinds
  <2> QED BY <1>6, <2>1, <2>2 DEF SignIn, TypeInv, TabType, ServerType, serverVars
<1> QED BY <1>1, <1>2, <1>3, <1>4, <1>5, <1>6 DEF Member

LEMMA PlayerTypes ==
  ASSUME TypeInv, Linked, PlayerStep
  PROVE  TypeInv'
<1> PICK k \in keeping : PushAnswered(k) \/ PushFails(k) \/ DeleteOld(k) \/ PutProgress(k)
  BY DEF PlayerStep
<1>1. k \in Keeping /\ keeping \subseteq Keeping
  BY DEF TypeInv, DeviceType
<1>2. CASE PushAnswered(k)
  <2>1. k.at \in 0..MaxPosition
    BY <1>1, OfflineAssumption DEF Keeping
  <2>2. session = NoAccount \/ session \in Accounts
    BY DEF TypeInv, DeviceType, Places
  <2>3. position' \in [Accounts -> 0..MaxPosition]
    BY <1>2, <2>1, <2>2 DEF PushAnswered, TypeInv, ServerType
  <2>4. DeviceType' /\ ServerType'
    BY <1>2, <2>3 DEF PushAnswered, TypeInv, DeviceType, ServerType
  <2> QED BY <1>2, <2>4 DEF PushAnswered, TypeInv, TabType
<1>3. CASE PushFails(k)
  <2> DEFINE old == {e \in outbox : e.user = k.user /\ e.kind = "progress"}
             changed == [k EXCEPT !.stage = IF old = {} THEN "keeping" ELSE "replacing", !.old = old]
  <2>1. old \subseteq ProgressEntry
    BY DEF TypeInv, DeviceType, Write, NoteEntry
  <2>2. keeping' = (keeping \ {k}) \cup {changed}
    BY <1>3 DEF PushFails
  <2> HIDE DEF old
  <2>3. changed \in Keeping
    BY <1>1, <2>1 DEF Keeping
  <2> HIDE DEF changed
  <2>4. keeping' \subseteq Keeping
    BY <1>1, <2>2, <2>3
  <2>5. DeviceType'
    BY <1>3, <2>4 DEF PushFails, TypeInv, DeviceType
  <2> QED BY <1>3, <2>5 DEF PushFails, TypeInv, TabType, ServerType, serverVars
<1>4. CASE DeleteOld(k)
  <2>1. PICK e \in k.old :
          /\ outbox' = {o \in outbox : o.id # e.id}
          /\ keeping' = (keeping \ {k}) \cup {[k EXCEPT !.old = @ \ {e}]}
    BY <1>4 DEF DeleteOld
  <2>2. [k EXCEPT !.old = @ \ {e}] \in Keeping
    BY <1>1 DEF Keeping
  <2>3. DeviceType'
    BY <1>1, <1>4, <2>1, <2>2 DEF DeleteOld, TypeInv, DeviceType
  <2> QED BY <1>4, <2>3 DEF DeleteOld, TypeInv, TabType, ServerType, serverVars
<1>5. CASE PutProgress(k)
  <2>1. NewEntry(k.user, "progress", k.at) \in Write
    BY <1>1 DEF NewEntry, Keeping, Write, ProgressEntry, TypeInv, DeviceType
  <2>2. DeviceType'
    BY <1>5, <2>1 DEF PutProgress, TypeInv, DeviceType
  <2> QED BY <1>5, <2>2 DEF PutProgress, TypeInv, TabType, ServerType, serverVars
<1> QED BY <1>2, <1>3, <1>4, <1>5
LEMMA TabTypes ==
  ASSUME TypeInv, Linked, NEW t \in Tabs, FlushStep(t) \/ GiveUp(t)
  PROVE  TypeInv'
<1> USE OfflineAssumption
<1>1. tab[t] \in TabState /\ (tab[t].pc = "preparing" => tab[t].of \in Accounts)
  BY DEF TypeInv, TabType
<1>2. Rest(tab[t].user) \in TabState /\ Rest(tab[t].user).pc \in {"closed", "idle"}
  BY <1>1, Resting DEF TabState
<1>3. CASE OpenTab(t)
  <2> DEFINE s == [tab[t] EXCEPT !.user = session, !.pc = IF @ = "closed" THEN "idle" ELSE @]
  <2>1. s \in TabState /\ (s.pc = "preparing" => s.of \in Accounts)
    BY <1>1 DEF TabState, PCs, TypeInv, DeviceType
  <2>2. tab' = [tab EXCEPT ![t] = s]
    BY <1>3 DEF OpenTab, TypeInv, TabType
  <2> HIDE DEF s
  <2>3. TabType'
    BY <2>1, <2>2, Retab DEF TypeInv
  <2> QED BY <1>3, <2>3 DEF OpenTab, TypeInv, DeviceType, ServerType, serverVars
<1>4. CASE StartFlush(t)
  <2> DEFINE mine == {e \in outbox : e.user = tab[t].user}
             listed == First(MaxSyncEntries, InOrder(mine))
             s == Listed(t, listed)
  <2>1. listed \in Seq(Write)
    BY MineInOrder
  <2>2. tab[t].user \in Accounts
    BY <1>1, <1>4 DEF StartFlush, TabState, Places
  <2>3. tab' = [tab EXCEPT ![t] = s]
    BY <1>4 DEF StartFlush, TypeInv, TabType
  <2> HIDE DEF listed
  <2>4. s \in TabState /\ s.of \in Accounts
    BY <1>1, <2>1, <2>2, ListedTab
  <2> HIDE DEF s
  <2>5. TabType'
    BY <2>3, <2>4, Retab DEF TypeInv
  <2> QED BY <1>4, <2>5 DEF StartFlush, TypeInv, DeviceType, ServerType, serverVars
<1>5. CASE Prepare(t)
  <2>1. PICK stays \in SUBSET (Waits(t) \ Gone(t)) : Prepared(t, stays) /\ (UNCHANGED budget \/ Happens("held"))
    BY <1>5 DEF Prepare, Prepared
  <2> DEFINE ready == InOrder(Range(tab[t].listed) \ (stays \cup Emptied(t)))
             s == [tab[t] EXCEPT !.pc = "prepared", !.listed = ready]
  <2>2. ready \in Seq(Write)
    BY ReadyInOrder
  <2>3. tab' = [tab EXCEPT ![t] = s]
    BY <2>1 DEF Prepared, TypeInv, TabType
  <2> HIDE DEF ready
  <2>4. s \in TabState /\ s.pc = "prepared"
    BY <1>1, <2>2 DEF TabState, PCs
  <2> HIDE DEF s
  <2>5. TabType'
    BY <2>3, <2>4, Retab DEF TypeInv
  <2>6. outbox' \subseteq Write /\ pending' \subseteq PictureNotes /\ bare' \subseteq Wordless
    BY <2>1, Looked DEF Prepared, TypeInv, DeviceType
  <2>7. DeviceType'
    BY <1>5, <2>6 DEF Prepare, TypeInv, DeviceType
  <2>8. budget' \in [EventKinds -> Nat]
    BY <2>1 DEF Happens, TypeInv, EventKinds
  <2> QED BY <1>5, <2>5, <2>7, <2>8 DEF Prepare, TypeInv, ServerType, serverVars
<1>6. CASE Send(t)
  <2> DEFINE s == [tab[t] EXCEPT !.pc = "waiting", !.awaits = FreeNo]
             q == [no |-> FreeNo, actor |-> session, entries |-> tab[t].listed, bare |-> tab[t].bare,
                   seen |-> {}, stage |-> "arrived", status |-> "none", results |-> <<>>,
                   held |-> tab[t].of \in downloaded, before |-> {r.id : r \in ReceiptsOf(session)}]
  <2>1. FreeNo \in Nat
    BY FreeNumber DEF TypeInv, ServerType
  <2>2. session \in Accounts
    BY <1>6 DEF Send, TypeInv, DeviceType, Places
  <2>3. {r.id : r \in ReceiptsOf(session)} \subseteq Nat
    BY DEF ReceiptsOf, Receipt, TypeInv, ServerType
  <2>4. tab' = [tab EXCEPT ![t] = s] /\ requests' = requests \cup {q}
    BY <1>6 DEF Send, TypeInv, TabType
  <2>5. s \in TabState /\ s.pc = "waiting"
    BY <1>1, <2>1 DEF TabState, PCs
  <2>6. q \in Handling
    BY <1>1, <2>1, <2>2, <2>3 DEF Handling, TabState
  <2> HIDE DEF s, q
  <2>7. TabType'
    BY <2>4, <2>5, Retab DEF TypeInv
  <2>8. IsFiniteSet(requests')
    BY <2>4, FS_AddElement DEF TypeInv, ServerType
  <2>9. ServerType'
    BY <1>6, <2>4, <2>6, <2>8 DEF Send, TypeInv, ServerType
  <2>10. DeviceType'
    BY <1>6 DEF Send, TypeInv, DeviceType
  <2> QED BY <1>6, <2>7, <2>9, <2>10 DEF Send, TypeInv
<1>7. CASE SendRefused(t) \/ GiveUp(t) \/ RemoveRevoked(t)
  <2>1. tab' = [tab EXCEPT ![t] = Rest(tab[t].user)]
    BY <1>7 DEF SendRefused, GiveUp, RemoveRevoked
  <2>2. TabType'
    BY <1>2, <2>1, Retab DEF TypeInv
  <2>3. DeviceType'
    BY <1>7 DEF SendRefused, GiveUp, RemoveRevoked, TypeInv, DeviceType
  <2>4. ServerType'
    BY <1>7 DEF SendRefused, GiveUp, RemoveRevoked, TypeInv, ServerType, serverVars
  <2>5. budget' \in [EventKinds -> Nat]
    BY <1>7 DEF SendRefused, GiveUp, RemoveRevoked, Happens, TypeInv, EventKinds
  <2> QED BY <2>2, <2>3, <2>4, <2>5 DEF TypeInv
<1>8. CASE RemoveSettled(t) \/ ForgetPictures(t) \/ HandBack(t)
  <2>1. PICK pc \in {"removed", "forgotten", "revoking"} : tab' = [tab EXCEPT ![t] = [tab[t] EXCEPT !.pc = pc]]
    BY <1>8 DEF RemoveSettled, ForgetPictures, HandBack, TypeInv, TabType
  <2>2. [tab[t] EXCEPT !.pc = pc] \in TabState /\ [tab[t] EXCEPT !.pc = pc].pc = pc
    BY <1>1 DEF TabState, PCs
  <2>3. TabType'
    BY <2>1, <2>2, Retab DEF TypeInv
  <2>4. outbox' \subseteq outbox /\ returned' \subseteq Notes /\ pictures' \subseteq pictures
    <3>1. tab[t].listed \in Seq(Write)
      BY <1>1 DEF TabState
    <3>2. Range(tab[t].listed) \subseteq Write
      BY <3>1, RangeFacts
    <3>3. CASE RemoveSettled(t)
      BY <3>3 DEF RemoveSettled, TypeInv, DeviceType
    <3>4. CASE HandBack(t)
      BY <3>2, <3>4 DEF HandBack, TypeInv, DeviceType, Write, ProgressEntry, NoteEntry
    <3>5. CASE ForgetPictures(t)
      BY <3>5 DEF ForgetPictures, TypeInv, DeviceType
    <3> QED BY <1>8, <3>3, <3>4, <3>5
  <2>5. DeviceType'
    BY <1>8, <2>4 DEF RemoveSettled, ForgetPictures, HandBack, TypeInv, DeviceType
  <2> QED BY <1>8, <2>3, <2>5 DEF RemoveSettled, ForgetPictures, HandBack, TypeInv, ServerType, serverVars
<1> QED BY <1>3, <1>4, <1>5, <1>6, <1>7, <1>8 DEF FlushStep

(* What a request is after a step of its own is a request.                 *)
LEMMA Restep ==
  ASSUME TypeInv, NEW q \in requests, NEW changed \in Handling, Step(q, changed)
  PROVE  requests' \subseteq Handling /\ IsFiniteSet(requests')
<1>1. requests' = (requests \ {q}) \cup {changed}
  BY DEF Step
<1>2. IsFiniteSet(requests \ {q})
  BY FS_RemoveElement DEF TypeInv, ServerType
<1> QED BY <1>1, <1>2, FS_AddElement DEF TypeInv, ServerType

LEMMA AnswerType ==
  ASSUME NEW q \in Handling, q.entries # <<>>, NEW status \in {"applied", "refused", "duplicate"}
  PROVE  /\ Answer(q, Head(q.entries).id, status) \in Handling
         /\ Head(q.entries) \in Write /\ Head(q.entries).id \in Nat
<1>1. q.entries \in Seq(Write) /\ q.results \in Seq(Told)
  BY DEF Handling
<1>2. Head(q.entries) \in Write /\ Tail(q.entries) \in Seq(Write)
  BY <1>1, HeadAndTail
<1>3. Head(q.entries).id \in Nat
  BY <1>2 DEF Write, NoteEntry, ProgressEntry
<1>4. Result(Head(q.entries).id, status) \in Told
  BY <1>3 DEF Result, Told
<1>5. Append(q.results, Result(Head(q.entries).id, status)) \in Seq(Told)
  BY <1>1, <1>4, Appended
<1> QED BY <1>2, <1>3, <1>5 DEF Answer, Handling

LEMMA ServerTypes ==
  ASSUME TypeInv, Linked, \A q \in requests : InOrderOf(q), ServerStep \/ Restart \/ Withdraw
  PROVE  TypeInv'
<1> USE OfflineAssumption
<1>1. ASSUME NEW q \in requests, FindReceipts(q) PROVE TypeInv'
  <2> DEFINE seen == {e.id : e \in {f \in Range(q.entries) : ReceiptFor(q.actor, f.id) # {}}}
  <2>1. q \in Handling
    BY DEF TypeInv, ServerType
  <2>2. seen \subseteq Nat
    <3>1. q.entries \in Seq(Write)
      BY <2>1 DEF Handling
    <3>2. Range(q.entries) \subseteq Write
      BY <3>1, RangeFacts
    <3> QED BY <3>2 DEF Write, NoteEntry, ProgressEntry
  <2>3. Step(q, [q EXCEPT !.stage = "next", !.seen = seen])
    BY <1>1 DEF FindReceipts
  <2> HIDE DEF seen
  <2>4. [q EXCEPT !.stage = "next", !.seen = seen] \in Handling
    BY <2>1, <2>2 DEF Handling
  <2>5. requests' \subseteq Handling /\ IsFiniteSet(requests')
    BY <2>3, <2>4, Restep
  <2> QED BY <1>1, <2>5 DEF FindReceipts, TypeInv, DeviceType, TabType, ServerType, deviceVars
<1>2. ASSUME NEW q \in requests, SkipDuplicate(q) PROVE TypeInv'
  <2>1. q \in Handling
    BY DEF TypeInv, ServerType
  <2>2. requests' \subseteq Handling /\ IsFiniteSet(requests')
    BY <1>2, <2>1, AnswerType, Restep DEF SkipDuplicate
  <2> QED BY <1>2, <2>2 DEF SkipDuplicate, TypeInv, DeviceType, TabType, ServerType, deviceVars
<1>3. ASSUME NEW q \in requests, ApplyEntry(q) PROVE TypeInv'
  <2>1. q \in Handling /\ q.actor \in Accounts
    BY DEF TypeInv, ServerType, Handling
  <2>2. [q EXCEPT !.stage = "handled", !.status = "applied"] \in Handling
    BY <2>1 DEF Handling
  <2>3. requests' \subseteq Handling /\ IsFiniteSet(requests')
    BY <1>3, <2>2, Restep DEF ApplyEntry
  <2>4. Head(q.entries) \in Write
    BY <1>3, <2>1, AnswerType DEF ApplyEntry
  <2>5. saved' \in [Notes -> [Accounts -> Nat]] /\ position' \in [Accounts -> 0..MaxPosition]
    <3>1. CASE Head(q.entries).kind = "note"
      <4>1. Head(q.entries).what \in Notes
        BY <2>4, <3>1 DEF Write, NoteEntry, ProgressEntry
      <4>2. /\ saved' = [saved EXCEPT ![Head(q.entries).what][q.actor] = @ + 1]
            /\ position' = position
        BY <1>3, <3>1 DEF ApplyEntry
      <4> QED BY <2>1, <4>1, <4>2 DEF TypeInv, ServerType
    <3>2. CASE Head(q.entries).kind # "note"
      <4>1. Head(q.entries).what \in 0..MaxPosition
        BY <2>4, <3>2 DEF Write, NoteEntry, ProgressEntry
      <4>2. position' = [position EXCEPT ![q.actor] = Head(q.entries).what] /\ saved' = saved
        BY <1>3, <3>2 DEF ApplyEntry
      <4> QED BY <2>1, <4>1, <4>2 DEF TypeInv, ServerType
    <3> QED BY <3>1, <3>2
  <2> QED BY <1>3, <2>3, <2>5 DEF ApplyEntry, TypeInv, DeviceType, TabType, ServerType, deviceVars
<1>4. ASSUME NEW q \in requests, RefuseEntry(q) PROVE TypeInv'
  <2>1. q \in Handling
    BY DEF TypeInv, ServerType
  <2>2. [q EXCEPT !.stage = "handled", !.status = "refused"] \in Handling
    BY <2>1 DEF Handling
  <2>3. requests' \subseteq Handling /\ IsFiniteSet(requests')
    BY <1>4, <2>2, Restep DEF RefuseEntry
  <2>4. budget' = budget \/ Happens("refusal")
    BY <1>4 DEF RefuseEntry
  <2>5. budget' \in [EventKinds -> Nat]
    BY <2>4 DEF Happens, TypeInv, EventKinds
  <2> QED BY <1>4, <2>3, <2>5 DEF RefuseEntry, TypeInv, DeviceType, TabType, ServerType, deviceVars
<1>5. ASSUME NEW q \in requests, InsertReceipt(q) PROVE TypeInv'
  <2>1. q \in Handling /\ q.entries # <<>> /\ q.status \in {"applied", "refused"} /\ q.actor \in Accounts
    BY <1>5 DEF InsertReceipt, InOrderOf, TypeInv, ServerType, Handling
  <2>2. /\ Answer(q, Head(q.entries).id, q.status) \in Handling
        /\ Head(q.entries) \in Write
    BY <2>1, AnswerType
  <2>3. requests' \subseteq Handling /\ IsFiniteSet(requests')
    BY <1>5, <2>2, Restep DEF InsertReceipt
  <2>4. [user |-> q.actor, id |-> Head(q.entries).id, kind |-> Head(q.entries).kind,
         what |-> Head(q.entries).what, status |-> q.status] \in Receipt
    BY <2>1, <2>2 DEF Receipt, Write, NoteEntry, ProgressEntry
  <2>5. receipts' \subseteq Receipt
    BY <1>5, <2>4 DEF InsertReceipt, TypeInv, ServerType
  <2> QED BY <1>5, <2>3, <2>5 DEF InsertReceipt, TypeInv, DeviceType, TabType, ServerType, deviceVars
<1>6. ASSUME NEW q \in requests, Reply(q) PROVE TypeInv'
  <2>1. q.results \in Seq(Told) /\ q.held \in BOOLEAN /\ published \in BOOLEAN
    BY DEF TypeInv, ServerType, Handling
  <2>2. ASSUME NEW t \in Tabs
        PROVE  tab'[t] \in TabState /\ (tab'[t].pc = "preparing" => tab'[t].of \in Accounts)
    <3>1. tab[t] \in TabState /\ (tab[t].pc = "preparing" => tab[t].of \in Accounts)
      BY DEF TypeInv, TabType
    <3>2. [tab[t] EXCEPT !.pc = "answered", !.awaits = NoRequest, !.results = q.results,
                         !.revoked = q.held /\ ~published] \in TabState
      BY <2>1, <3>1 DEF TabState, PCs
    <3>3. [tab[t] EXCEPT !.pc = "answered", !.awaits = NoRequest, !.results = q.results,
                         !.revoked = q.held /\ ~published].pc = "answered"
      BY <3>1 DEF TabState
    <3> QED BY <1>6, <3>1, <3>2, <3>3 DEF Reply
  <2>3. TabType'
    BY <1>6, <2>2 DEF Reply, TabType
  <2>4. requests' \subseteq Handling /\ IsFiniteSet(requests')
    BY <1>6, FS_RemoveElement DEF Reply, TypeInv, ServerType
  <2> QED BY <1>6, <2>3, <2>4 DEF Reply, TypeInv, DeviceType, ServerType
<1>7. CASE Restart
  <2>1. ASSUME NEW t \in Tabs
        PROVE  tab'[t] \in TabState /\ (tab'[t].pc = "preparing" => tab'[t].of \in Accounts)
    <3>1. tab[t] \in TabState /\ (tab[t].pc = "preparing" => tab[t].of \in Accounts)
      BY DEF TypeInv, TabType
    <3>2. Rest(tab[t].user) \in TabState /\ Rest(tab[t].user).pc \in {"closed", "idle"}
      BY <3>1, Resting DEF TabState
    <3> QED BY <1>7, <3>1, <3>2 DEF Restart
  <2>2. TabType'
    BY <1>7, <2>1 DEF Restart, TabType
  <2>3. requests' \subseteq Handling /\ IsFiniteSet(requests')
    BY <1>7, FS_EmptySet DEF Restart
  <2>4. budget' \in [EventKinds -> Nat]
    BY <1>7 DEF Restart, Happens, TypeInv, EventKinds
  <2> QED BY <1>7, <2>2, <2>3, <2>4 DEF Restart, TypeInv, DeviceType, ServerType
<1>8. CASE Withdraw
  <2>1. budget' \in [EventKinds -> Nat]
    BY <1>8 DEF Withdraw, Happens, TypeInv, EventKinds
  <2> QED BY <1>8, <2>1 DEF Withdraw, TypeInv, DeviceType, TabType, ServerType, deviceVars
<1> QED BY <1>1, <1>2, <1>3, <1>4, <1>5, <1>6, <1>7, <1>8 DEF ServerStep
-----------------------------------------------------------------------------
(* What a step may do to the writes on their way: carry them on, tell of   *)
(* an id only what a receipt says, forget nothing at the server, and take  *)
(* a note off the device only where its receipt is there, or where it was  *)
(* a picture alone and the picture is not on the device, where no picture  *)
(* comes to be but with its note.                                          *)
Carries == \A e \in Write : Around(e)' => Around(e)
Tells == \A id \in Nat : IsTold(id)' => IsTold(id) \/ HasReceipt(id)'
Lasts == receipts \subseteq receipts' /\ \A n \in Notes : IsSaved(n) => IsSaved(n)'
LosesNone ==
  /\ \A e \in outbox : e.kind = "note" => e \in outbox' \/ HasReceipt(e.id) \/ e.what \in Wordless \ pictures'
  /\ \A n \in pictures' : n \in pictures \/ \E e \in outbox' : e.what = n

LEMMA LinkedKept ==
  ASSUME Linked, Carries, minted' = minted, receipts' = receipts
  PROVE  Linked'
BY DEF Linked, Carries

LEMMA LinkedMinted ==
  ASSUME TypeInv, Linked, NEW x \in Write, x.id = minted + 1, minted' = minted + 1, receipts' = receipts,
         \A e \in Write : Around(e)' => Around(e) \/ e = x
  PROVE  Linked'
<1>1. minted \in Nat /\ x.id \notin 1..minted /\ x.id \in 1..minted' /\ \A i \in 1..minted : i \in 1..minted'
  BY DEF TypeInv, DeviceType
<1> QED BY <1>1 DEF Linked

LEMMA LinkedReceipt ==
  ASSUME Linked, Carries, minted' = minted, NEW e \in Write, Around(e),
         NEW r, r.id = e.id, r.kind = e.kind, r.what = e.what, receipts' \subseteq receipts \cup {r}
  PROVE  Linked'
<1>1. \A s \in receipts' : s \in receipts \/ s = r
  OBVIOUS
<1> QED BY <1>1 DEF Linked, Carries

(* A note of the outbox is of kind note, whatever else bears a number.     *)
LEMMA NotesAreNotes ==
  ASSUME NEW e \in Write, NEW n \in Notes, e.what = n
  PROVE  e.kind = "note"
BY OfflineAssumption DEF Write, NoteEntry, ProgressEntry

LEMMA AroundOutbox ==
  ASSUME TypeInv, NEW e \in outbox
  PROVE  e \in Write /\ Around(e) /\ e.id \in Nat
BY DEF TypeInv, DeviceType, Around, Write, NoteEntry, ProgressEntry

LEMMA Together ==
  ASSUME SyncInv, TypeInv', Linked', Lasts, Tells, LosesNone,
         \A r \in receipts' : r \in receipts \/ (r.kind = "note" /\ r.status = "applied" => IsSaved(r.what)'),
         \A q \in requests' : q \in requests \/ InOrderOf(q)',
         \A n \in Notes : writer'[n] = writer[n] \/ \E e \in outbox' : e.what = n
  PROVE  SyncInv'
<1>1. Honest'
  <2>1. \A id \in Nat : HasReceipt(id) => HasReceipt(id)'
    BY DEF Lasts, HasReceipt
  <2>2. \A id \in Nat : IsTold(id)' => HasReceipt(id)'
    BY <2>1 DEF SyncInv, Honest, Tells
  <2>3. ASSUME NEW r \in receipts', r.kind = "note", r.status = "applied" PROVE IsSaved(r.what)'
    <3>1. CASE r \in receipts
      <4>1. IsSaved(r.what)
        BY <2>3, <3>1 DEF SyncInv, Honest
      <4>2. r.what \in Notes
        BY <2>3, <3>1 DEF SyncInv, TypeInv, ServerType, Receipt
      <4> QED BY <4>1, <4>2 DEF Lasts
    <3> QED BY <2>3, <3>1
  <2> QED BY <2>2, <2>3 DEF Honest
<1>2. ASSUME NEW q \in requests' PROVE InOrderOf(q)'
  <2>1. CASE q \in requests
    <3>1. InOrderOf(q) /\ q \in Handling
      BY <2>1 DEF SyncInv, TypeInv, ServerType
    <3>2. \A r \in receipts : r \in receipts'
      BY DEF Lasts
    <3>3. ASSUME q.stage = "handled", q.status = "applied", Head(q.entries).kind = "note"
          PROVE  IsSaved(Head(q.entries).what)'
      <4>1. q.entries # <<>> /\ q.entries \in Seq(Write)
        BY <3>1, <3>3 DEF InOrderOf, Handling
      <4>2. Head(q.entries) \in Write
        BY <4>1, HeadAndTail
      <4>3. Head(q.entries).what \in Notes
        BY <3>3, <4>2 DEF Write, NoteEntry, ProgressEntry
      <4> QED BY <3>1, <3>3, <4>3 DEF InOrderOf, Lasts
    <3> QED BY <3>1, <3>2, <3>3 DEF InOrderOf
  <2> QED BY <2>1
<1>3. KeptNoteIsSomewhere'
  <2> SUFFICES ASSUME NEW n \in Notes, writer'[n] # NoAccount, ~\E e \in outbox' : e.what = n
               PROVE  \/ \E a \in Accounts : saved'[n][a] > 0
                      \/ \E r \in receipts' : r.what = n /\ r.status = "refused"
                      \/ n \in Wordless /\ n \notin pictures'
    BY DEF KeptNoteIsSomewhere
  <2>1. writer[n] # NoAccount
    OBVIOUS
  <2>2. CASE \E e \in outbox : e.what = n
    <3>1. PICK e \in outbox : e.what = n
      BY <2>2
    <3>2. e \in Write /\ Around(e) /\ e.kind = "note"
      BY <3>1, AroundOutbox, NotesAreNotes DEF SyncInv
    <3> SUFFICES ASSUME ~(n \in Wordless /\ n \notin pictures')
                 PROVE  \/ \E a \in Accounts : saved'[n][a] > 0
                        \/ \E r \in receipts' : r.what = n /\ r.status = "refused"
      OBVIOUS
    <3>3. PICK r \in receipts : r.id = e.id
      BY <3>1, <3>2 DEF LosesNone, HasReceipt
    <3>4. r.kind = "note" /\ r.what = n /\ r.status \in {"applied", "refused"}
      BY <3>1, <3>2, <3>3 DEF SyncInv, Linked, TypeInv, ServerType, Receipt
    <3>5. CASE r.status = "applied"
      <4>1. IsSaved(n)
        BY <3>4, <3>5 DEF SyncInv, Honest
      <4> QED BY <4>1 DEF Lasts, IsSaved
    <3>6. CASE r.status = "refused"
      BY <3>4, <3>6 DEF Lasts
    <3> QED BY <3>4, <3>5, <3>6
  <2>3. CASE IsSaved(n)
    BY <2>3 DEF Lasts, IsSaved
  <2>4. CASE \E r \in receipts : r.what = n /\ r.status = "refused"
    BY <2>4 DEF Lasts
  <2>5. CASE n \in Wordless /\ n \notin pictures
    BY <2>5 DEF LosesNone
  <2> QED BY <2>1, <2>2, <2>3, <2>4, <2>5 DEF SyncInv, KeptNoteIsSomewhere, IsSaved
<1> QED BY <1>1, <1>2, <1>3 DEF SyncInv
-----------------------------------------------------------------------------
(* Action by action: SyncInv is kept.                                      *)
LEMMA EmptyRange == Range(<<>>) = {} /\ DOMAIN <<>> = {}
BY DEF Range

LEMMA Retabbed ==
  ASSUME TypeInv, NEW t \in Tabs, NEW s \in TabState,
         \A u \in Tabs : tab'[u] = IF u = t THEN s ELSE tab[u],
         \A e \in outbox' : Around(e), keeping' \subseteq keeping,
         \A q \in requests' : \/ q \in requests
                              \/ (\A e \in Range(q.entries) : Around(e)) /\ q.seen = {} /\ q.results = <<>>,
         \A e \in Range(s.listed) : Around(e),
         \A i \in DOMAIN s.results : IsTold(s.results[i].id)
  PROVE  Carries /\ Tells
<1>1. ASSUME NEW e \in Write, Around(e)' PROVE Around(e)
  <2>1. CASE \E u \in Tabs : e \in Range(tab'[u].listed)
    <3>1. PICK u \in Tabs : e \in Range(tab'[u].listed)
      BY <2>1
    <3>2. CASE u = t
      BY <3>1, <3>2
    <3>3. CASE u # t
      BY <3>1, <3>3 DEF Around
    <3> QED BY <3>2, <3>3
  <2>2. CASE \E q \in requests' : e \in Range(q.entries)
    BY <2>2 DEF Around
  <2>3. CASE e \in outbox' \/ \E k \in keeping' : e \in k.old
    BY <2>3 DEF Around
  <2> QED BY <1>1, <2>1, <2>2, <2>3 DEF Around
<1>2. ASSUME NEW id \in Nat, IsTold(id)' PROVE IsTold(id)
  <2>1. CASE \E u \in Tabs : \E i \in DOMAIN tab'[u].results : tab'[u].results[i].id = id
    <3>1. PICK u \in Tabs : \E i \in DOMAIN tab'[u].results : tab'[u].results[i].id = id
      BY <2>1
    <3>2. CASE u = t
      BY <3>1, <3>2
    <3>3. CASE u # t
      BY <3>1, <3>3 DEF IsTold
    <3> QED BY <3>2, <3>3
  <2>2. CASE \E q \in requests' : id \in q.seen \/ \E i \in DOMAIN q.results : q.results[i].id = id
    BY <2>2, EmptyRange DEF IsTold
  <2> QED BY <1>2, <2>1, <2>2 DEF IsTold
<1> QED BY <1>1, <1>2 DEF Carries, Tells

LEMMA MemberStep ==
  ASSUME SyncInv, Member
  PROVE  SyncInv'
<1>1. TypeInv /\ Linked /\ TypeInv'
  BY MemberTypes DEF SyncInv
<1>2. ASSUME NEW n \in Notes, KeepNote(n) \/ SaveUnanswered(n) PROVE SyncInv'
  <2> DEFINE x == NewEntry(session, "note", n)
  <2>1. /\ outbox' = outbox \cup {x} /\ minted' = minted + 1 /\ session \in Accounts
        /\ writer' = [writer EXCEPT ![n] = session]
        /\ UNCHANGED <<tab, keeping, receipts, requests>>
    BY <1>1, <1>2 DEF KeepNote, SaveUnanswered, Composing, serverVars, TypeInv, DeviceType
  <2>2. x \in Write /\ x.id = minted + 1 /\ x.what = n
    BY <1>1, <2>1 DEF NewEntry, Write, NoteEntry, TypeInv, DeviceType
  <2> HIDE DEF x
  <2>3. \A e \in Write : Around(e)' => Around(e) \/ e = x
    BY <2>1 DEF Around
  <2>4. Linked'
    BY <1>1, <2>1, <2>2, <2>3, LinkedMinted
  <2>5. \A m \in Notes : IsSaved(m) => IsSaved(m)'
    <3>1. CASE saved' = saved
      BY <3>1 DEF IsSaved
    <3>2. CASE saved' = [saved EXCEPT ![n][session] = @ + 1]
      <4>1. \A m \in Notes : \A a \in Accounts :
              saved[m][a] \in Nat /\ (saved'[m][a] = saved[m][a] \/ saved'[m][a] = saved[m][a] + 1)
        BY <1>1, <3>2 DEF TypeInv, ServerType
      <4> QED BY <4>1 DEF IsSaved
    <3> QED BY <1>2, <3>1, <3>2 DEF KeepNote, SaveUnanswered, serverVars
  <2>6. \A m \in pictures' : m \in pictures \/ \E e \in outbox' : e.what = m
    <3>1. pictures' \subseteq pictures \cup {n}
      BY <1>2 DEF KeepNote, SaveUnanswered
    <3> QED BY <2>1, <2>2, <3>1
  <2>8. Lasts /\ Tells /\ LosesNone
    BY <2>1, <2>5, <2>6 DEF Lasts, Tells, IsTold, LosesNone
  <2>7. \A m \in Notes : writer'[m] = writer[m] \/ \E e \in outbox' : e.what = m
    BY <1>1, <2>1, <2>2 DEF TypeInv, DeviceType
  <2> QED BY <1>1, <2>1, <2>4, <2>7, <2>8, Together
<1>3. ASSUME NEW t \in Tabs, CloseTab(t) PROVE SyncInv'
  <2>1. Closed \in TabState /\ Closed.pc = "closed" /\ Closed.listed = <<>> /\ Closed.results = <<>>
    BY Resting DEF Places
  <2>2. /\ UNCHANGED <<outbox, pictures, minted, writer, saved, receipts, requests>>
        /\ keeping' \subseteq keeping
        /\ tab' = [tab EXCEPT ![t] = Closed]
    BY <1>3 DEF CloseTab, serverVars
  <2>3. \A u \in Tabs : tab'[u] = IF u = t THEN Closed ELSE tab[u]
    BY <1>1, <2>2 DEF TypeInv, TabType
  <2>4. Carries /\ Tells
    BY <1>1, <2>1, <2>2, <2>3, Retabbed, AroundOutbox, EmptyRange
  <2>5. Linked'
    BY <1>1, <2>2, <2>4, LinkedKept
  <2>6. Lasts /\ LosesNone
    BY <2>2 DEF Lasts, LosesNone, IsSaved
  <2> QED BY <1>1, <2>2, <2>4, <2>5, <2>6, Together
<1>4. ASSUME NEW t \in Tabs, SignOut(t) PROVE SyncInv'
  <2>1. UNCHANGED <<outbox, pictures, minted, writer, saved, receipts, requests, keeping>>
    BY <1>4 DEF SignOut, serverVars
  <2>2. /\ \A u \in Tabs : tab'[u].listed = tab[u].listed /\ tab'[u].results = tab[u].results
    BY <1>1, <1>4 DEF SignOut, TypeInv, TabType, TabState
  <2>3. Carries /\ Tells
    BY <2>1, <2>2 DEF Carries, Tells, Around, IsTold
  <2>4. Linked'
    BY <1>1, <2>1, <2>3, LinkedKept
  <2>5. Lasts /\ LosesNone
    BY <2>1 DEF Lasts, LosesNone, IsSaved
  <2> QED BY <1>1, <2>1, <2>3, <2>4, <2>5, Together
<1>5. ASSUME NEW t \in Tabs, Push(t) PROVE SyncInv'
  <2>1. UNCHANGED <<outbox, pictures, minted, writer, saved, receipts, requests, tab>>
    BY <1>5 DEF Push, serverVars
  <2>2. \A k \in keeping' : k \in keeping \/ k.old = {}
    BY <1>5 DEF Push
  <2>3. Carries /\ Tells
    BY <2>1, <2>2 DEF Carries, Tells, Around, IsTold
  <2>4. Linked'
    BY <1>1, <2>1, <2>3, LinkedKept
  <2>5. Lasts /\ LosesNone
    BY <2>1 DEF Lasts, LosesNone, IsSaved
  <2> QED BY <1>1, <2>1, <2>3, <2>4, <2>5, Together
<1>6. ASSUME NEW a \in Accounts, SignIn(a) PROVE SyncInv'
  <2>1. UNCHANGED <<outbox, pictures, minted, writer, saved, receipts, requests, tab, keeping>>
    BY <1>6 DEF SignIn, serverVars
  <2>2. Carries /\ Tells
    BY <2>1 DEF Carries, Tells, Around, IsTold
  <2>3. Linked'
    BY <1>1, <2>1, <2>2, LinkedKept
  <2>4. Lasts /\ LosesNone
    BY <2>1 DEF Lasts, LosesNone, IsSaved
  <2> QED BY <1>1, <2>1, <2>2, <2>3, <2>4, Together
<1> QED BY <1>2, <1>3, <1>4, <1>5, <1>6 DEF Member

LEMMA PlayerStepKeeps ==
  ASSUME SyncInv, PlayerStep
  PROVE  SyncInv'
<1>1. TypeInv /\ Linked /\ TypeInv'
  BY PlayerTypes DEF SyncInv
<1> PICK k \in keeping : PushAnswered(k) \/ PushFails(k) \/ DeleteOld(k) \/ PutProgress(k)
  BY DEF PlayerStep
<1>2. /\ UNCHANGED <<pictures, writer, saved, receipts, requests, tab>>
      /\ k \in Keeping
  BY <1>1 DEF PushAnswered, PushFails, DeleteOld, PutProgress, serverVars, TypeInv, DeviceType
<1>3. Lasts /\ Tells
  BY <1>2 DEF Lasts, IsSaved, Tells, IsTold
<1>4. CASE PushAnswered(k)
  <2>1. keeping' \subseteq keeping /\ outbox' = outbox /\ minted' = minted
    BY <1>4 DEF PushAnswered
  <2>2. Linked'
    BY <1>1, <1>2, <2>1, LinkedKept DEF Carries, Around
  <2>3. LosesNone
    BY <1>2, <2>1 DEF LosesNone
  <2> QED BY <1>1, <1>2, <1>3, <2>2, <2>3, Together
<1>5. CASE PushFails(k)
  <2>1. outbox' = outbox /\ minted' = minted
    BY <1>5 DEF PushFails
  <2>2. \A j \in keeping' : j \in keeping \/ j.old \subseteq outbox
    BY <1>2, <1>5 DEF PushFails, Keeping
  <2>3. Linked'
    BY <1>1, <1>2, <2>1, <2>2, LinkedKept DEF Carries, Around
  <2>4. LosesNone
    BY <1>2, <2>1 DEF LosesNone
  <2> QED BY <1>1, <1>2, <1>3, <2>3, <2>4, Together
<1>6. CASE DeleteOld(k)
  <2>1. PICK e \in k.old :
          /\ outbox' = {o \in outbox : o.id # e.id}
          /\ keeping' = (keeping \ {k}) \cup {[k EXCEPT !.old = @ \ {e}]}
    BY <1>6 DEF DeleteOld
  <2>2. minted' = minted
    BY <1>6 DEF DeleteOld
  <2>3. \A j \in keeping' : j \in keeping \/ j.old \subseteq k.old
    BY <1>2, <2>1 DEF Keeping
  <2>4. Linked'
    BY <1>1, <1>2, <2>1, <2>2, <2>3, LinkedKept DEF Carries, Around
  <2>5. LosesNone
    <3> SUFFICES ASSUME NEW o \in outbox, o.kind = "note" PROVE o.id # e.id
      BY <1>2, <2>1 DEF LosesNone
    <3>1. e \in ProgressEntry /\ e \in Write /\ Around(e)
      BY <1>2 DEF Keeping, Write, Around
    <3>2. o \in Write /\ Around(o)
      BY <1>1, AroundOutbox
    <3> QED BY <1>1, <3>1, <3>2 DEF Linked, ProgressEntry
  <2> QED BY <1>1, <1>2, <1>3, <2>4, <2>5, Together
<1>7. CASE PutProgress(k)
  <2> DEFINE x == NewEntry(k.user, "progress", k.at)
  <2>1. outbox' = outbox \cup {x} /\ minted' = minted + 1 /\ keeping' \subseteq keeping
    BY <1>7 DEF PutProgress
  <2>2. x \in Write /\ x.id = minted + 1
    BY <1>1, <1>2 DEF NewEntry, Keeping, Write, ProgressEntry, TypeInv, DeviceType
  <2> HIDE DEF x
  <2>3. \A e \in Write : Around(e)' => Around(e) \/ e = x
    BY <1>2, <2>1 DEF Around
  <2>4. Linked'
    BY <1>1, <1>2, <2>1, <2>2, <2>3, LinkedMinted
  <2>5. LosesNone
    BY <1>2, <2>1 DEF LosesNone
  <2> QED BY <1>1, <1>2, <1>3, <2>4, <2>5, Together
<1> QED BY <1>4, <1>5, <1>6, <1>7
LEMMA TabStep ==
  ASSUME SyncInv, NEW t \in Tabs, FlushStep(t) \/ GiveUp(t)
  PROVE  SyncInv'
<1>1. TypeInv /\ Linked /\ TypeInv'
  BY TabTypes DEF SyncInv
<1>2. tab[t] \in TabState
  BY <1>1 DEF TypeInv, TabType
<1>3. \A e \in outbox : Around(e)
  BY DEF Around
<1>4. CASE OpenTab(t)
  <2>1. UNCHANGED <<outbox, pictures, minted, writer, saved, receipts, requests, keeping>>
    BY <1>4 DEF OpenTab, serverVars
  <2>2. \A u \in Tabs : tab'[u].listed = tab[u].listed /\ tab'[u].results = tab[u].results
    BY <1>1, <1>4 DEF OpenTab, TypeInv, TabType, TabState
  <2>3. Carries /\ Tells
    BY <2>1, <2>2 DEF Carries, Tells, Around, IsTold
  <2>4. Lasts /\ LosesNone
    BY <2>1 DEF Lasts, LosesNone, IsSaved
  <2> QED BY <1>1, <2>1, <2>3, <2>4, LinkedKept, Together
<1>5. CASE StartFlush(t)
  <2> DEFINE mine == {e \in outbox : e.user = tab[t].user}
             listed == First(MaxSyncEntries, InOrder(mine))
             s == Listed(t, listed)
  <2>1. UNCHANGED <<outbox, pictures, minted, writer, saved, receipts, requests, keeping>>
    BY <1>5 DEF StartFlush, serverVars
  <2>2. listed \in Seq(Write) /\ Range(listed) \subseteq outbox
    <3>1. mine \in SUBSET outbox
      OBVIOUS
    <3> HIDE DEF mine
    <3>2. listed \in Seq(Write) /\ Range(listed) \subseteq mine
      BY <1>1, <3>1, MineInOrder
    <3> QED BY <3>1, <3>2
  <2>3. \A u \in Tabs : tab'[u] = IF u = t THEN s ELSE tab[u]
    BY <1>1, <1>5 DEF StartFlush, TypeInv, TabType
  <2> HIDE DEF listed
  <2>4. s.listed = listed /\ s.results = tab[t].results
    BY <1>1, <2>2, ListedTab
  <2>5. s \in TabState
    BY <1>1, <2>2, ListedTab
  <2> HIDE DEF s
  <2>6. \A i \in DOMAIN s.results : IsTold(s.results[i].id)
    BY <2>4 DEF IsTold
  <2>7. \A e \in Range(s.listed) : Around(e)
    BY <1>3, <2>2, <2>4
  <2>8. Carries /\ Tells
    BY <1>1, <1>3, <2>1, <2>3, <2>5, <2>6, <2>7, Retabbed
  <2>9. Lasts /\ LosesNone
    BY <2>1 DEF Lasts, LosesNone, IsSaved
  <2> QED BY <1>1, <2>1, <2>8, <2>9, LinkedKept, Together
<1>6. CASE Prepare(t)
  <2>1. PICK stays \in SUBSET (Waits(t) \ Gone(t)) : Prepared(t, stays)
    BY <1>6 DEF Prepare, Prepared
  <2> DEFINE ready == InOrder(Range(tab[t].listed) \ (stays \cup Emptied(t)))
             s == [tab[t] EXCEPT !.pc = "prepared", !.listed = ready]
  <2>2. ready \in Seq(Write) /\ Range(ready) \subseteq Range(tab[t].listed)
    BY <1>1, ReadyInOrder
  <2>3. \A e \in Range(tab[t].listed) : Around(e)
    BY DEF Around
  <2>4. /\ \A u \in Tabs : tab'[u] = IF u = t THEN s ELSE tab[u]
        /\ outbox' = {e \in outbox \cup Waits(t) : e.id \notin Ids(Emptied(t))}
    BY <1>1, <2>1 DEF Prepared, TypeInv, TabType
  <2>5. UNCHANGED <<pictures, minted, writer, saved, receipts, requests, keeping>>
    BY <1>6 DEF Prepare, serverVars
  <2> HIDE DEF ready
  <2>6. s.listed = ready /\ s.results = tab[t].results /\ s \in TabState
    BY <1>2, <2>2 DEF TabState, PCs
  <2> HIDE DEF s
  <2>7. \A i \in DOMAIN s.results : IsTold(s.results[i].id)
    BY <2>6 DEF IsTold
  <2>8. \A e \in outbox' : Around(e)
    BY <1>1, <1>3, <2>3, <2>4, Looked
  <2>9. Carries /\ Tells
    BY <1>1, <2>2, <2>3, <2>4, <2>5, <2>6, <2>7, <2>8, Retabbed
  <2>10. LosesNone
    <3> SUFFICES ASSUME NEW e \in outbox, e.kind = "note", e \notin outbox'
                 PROVE  e.what \in Wordless \ pictures
      BY <2>5 DEF LosesNone
    <3>1. PICK f \in Emptied(t) : f.id = e.id
      BY <2>4 DEF Ids
    <3>2. f \in Write /\ Around(f) /\ f.what \in Wordless \ pictures
      BY <1>1, <2>3, <3>1, Looked
    <3>3. e \in Write /\ Around(e)
      BY <1>1, AroundOutbox
    <3> QED BY <1>1, <3>1, <3>2, <3>3 DEF Linked
  <2>11. Lasts
    BY <2>5 DEF Lasts, IsSaved
  <2> QED BY <1>1, <2>5, <2>9, <2>10, <2>11, LinkedKept, Together
<1>7. CASE Send(t)
  <2> DEFINE s == [tab[t] EXCEPT !.pc = "waiting", !.awaits = FreeNo]
             q == [no |-> FreeNo, actor |-> session, entries |-> tab[t].listed, bare |-> tab[t].bare,
                   seen |-> {}, stage |-> "arrived", status |-> "none", results |-> <<>>,
                   held |-> tab[t].of \in downloaded, before |-> {r.id : r \in ReceiptsOf(session)}]
  <2>1. \A e \in Range(tab[t].listed) : Around(e)
    BY DEF Around
  <2>2. /\ \A u \in Tabs : tab'[u] = IF u = t THEN s ELSE tab[u]
        /\ requests' = requests \cup {q}
    BY <1>1, <1>7 DEF Send, TypeInv, TabType
  <2>3. UNCHANGED <<outbox, pictures, minted, writer, saved, receipts, keeping>>
    BY <1>7 DEF Send
  <2>4. \A p \in requests' : p = q => InOrderOf(p)'
    <3>1. \A id \in q.before : \E r \in receipts : r.user = q.actor /\ r.id = id
      BY DEF ReceiptsOf
    <3>2. q.stage = "arrived"
      OBVIOUS
    <3> HIDE DEF q
    <3>3. ASSUME NEW p, \A id \in p.before : \E r \in receipts : r.user = p.actor /\ r.id = id, p.stage = "arrived"
          PROVE  InOrderOf(p)'
      BY <2>3, <3>3 DEF InOrderOf
    <3> QED BY <3>1, <3>2, <3>3
  <2>5. s.listed = tab[t].listed /\ s.results = tab[t].results /\ s \in TabState
    <3>1. FreeNo \in Nat
      BY <1>1, FreeNumber DEF TypeInv, ServerType
    <3> QED BY <1>2, <3>1 DEF TabState, PCs
  <2>6. q.entries = tab[t].listed /\ q.seen = {} /\ q.results = <<>>
    OBVIOUS
  <2> HIDE DEF s, q
  <2>7. \A i \in DOMAIN s.results : IsTold(s.results[i].id)
    BY <2>5 DEF IsTold
  <2>8. Carries /\ Tells
    BY <1>1, <1>3, <2>1, <2>2, <2>3, <2>5, <2>6, <2>7, Retabbed
  <2>9. Lasts /\ LosesNone
    BY <2>3 DEF Lasts, LosesNone, IsSaved
  <2>10. \A p \in requests' : p \in requests \/ InOrderOf(p)'
    BY <2>2, <2>4
  <2> QED BY <1>1, <2>3, <2>8, <2>9, <2>10, LinkedKept, Together
<1>8. CASE SendRefused(t) \/ GiveUp(t) \/ RemoveRevoked(t)
  <2> DEFINE s == Rest(tab[t].user)
  <2>1. UNCHANGED <<outbox, pictures, minted, writer, saved, receipts, requests, keeping>>
    BY <1>8 DEF SendRefused, GiveUp, RemoveRevoked, serverVars
  <2>2. s \in TabState /\ s.listed = <<>> /\ s.results = <<>>
    BY <1>2, Resting DEF TabState
  <2>3. \A u \in Tabs : tab'[u] = IF u = t THEN s ELSE tab[u]
    BY <1>1, <1>8 DEF SendRefused, GiveUp, RemoveRevoked, TypeInv, TabType
  <2> HIDE DEF s
  <2>4. Carries /\ Tells
    BY <1>1, <1>3, <2>1, <2>2, <2>3, EmptyRange, Retabbed
  <2>5. Lasts /\ LosesNone
    BY <2>1 DEF Lasts, LosesNone, IsSaved
  <2> QED BY <1>1, <2>1, <2>4, <2>5, LinkedKept, Together
<1>9. CASE RemoveSettled(t) \/ ForgetPictures(t) \/ HandBack(t)
  <2>1. /\ UNCHANGED <<minted, writer, saved, receipts, requests, keeping>>
        /\ outbox' \subseteq outbox /\ pictures' \subseteq pictures
    BY <1>9 DEF RemoveSettled, ForgetPictures, HandBack, serverVars
  <2>2. \A u \in Tabs : tab'[u].listed = tab[u].listed /\ tab'[u].results = tab[u].results
    <3>1. PICK pc \in {"removed", "forgotten", "revoking"} : tab' = [tab EXCEPT ![t].pc = pc]
      BY <1>9 DEF RemoveSettled, ForgetPictures, HandBack
    <3> QED BY <1>1, <3>1 DEF TypeInv, TabType, TabState
  <2>3. Carries /\ Tells
    BY <2>1, <2>2 DEF Carries, Tells, Around, IsTold
  <2>4. LosesNone
    <3> SUFFICES ASSUME NEW e \in outbox, e \notin outbox' PROVE HasReceipt(e.id)
      BY <2>1 DEF LosesNone
    <3>1. \E i \in 1..Len(tab[t].results) : tab[t].results[i].id = e.id
      BY <1>9 DEF RemoveSettled, ForgetPictures, HandBack, Settled
    <3>2. DOMAIN tab[t].results = 1..Len(tab[t].results)
      <4>1. tab[t].results \in Seq(Told)
        BY <1>2 DEF TabState
      <4> QED BY <4>1, SeqFacts
    <3>3. IsTold(e.id) /\ e.id \in Nat
      BY <1>1, <3>1, <3>2, AroundOutbox DEF IsTold
    <3> QED BY <3>3 DEF SyncInv, Honest
  <2>5. Lasts
    BY <2>1 DEF Lasts, IsSaved
  <2> QED BY <1>1, <2>1, <2>3, <2>4, <2>5, LinkedKept, Together
<1> QED BY <1>4, <1>5, <1>6, <1>7, <1>8, <1>9 DEF FlushStep

-----------------------------------------------------------------------------
(* A request that steps carries nothing it did not carry, and tells of     *)
(* what it told or of what has a receipt.                                  *)
LEMMA Restepped ==
  ASSUME TypeInv, NEW q \in requests, NEW changed \in Handling, Step(q, changed),
         UNCHANGED <<outbox, keeping, tab>>,
         Range(changed.entries) \subseteq Range(q.entries),
         \A id \in Nat :
           id \in changed.seen \/ (\E i \in DOMAIN changed.results : changed.results[i].id = id)
             => IsTold(id) \/ HasReceipt(id)'
  PROVE  Carries /\ Tells
<1>1. \A p \in requests' : p \in requests \/ p = changed
  BY DEF Step
<1>2. Carries
  BY <1>1 DEF Carries, Around
<1>3. Tells
  <2> SUFFICES ASSUME NEW id \in Nat, IsTold(id)' PROVE IsTold(id) \/ HasReceipt(id)'
    BY DEF Tells
  <2>1. CASE \E u \in Tabs : \E i \in DOMAIN tab[u].results : tab[u].results[i].id = id
    BY <2>1 DEF IsTold
  <2>2. CASE \E p \in requests' : id \in p.seen \/ \E i \in DOMAIN p.results : p.results[i].id = id
    BY <1>1, <2>2 DEF IsTold
  <2> QED BY <2>1, <2>2 DEF IsTold
<1> QED BY <1>2, <1>3

AnsweredBy(a, q) ==
  /\ a.stage = "next" /\ a.seen = q.seen /\ a.before = q.before /\ a.actor = q.actor
  /\ Range(a.entries) \subseteq Range(q.entries)
  /\ \A i \in DOMAIN a.results :
       a.results[i].id = Head(q.entries).id \/ \E j \in DOMAIN q.results : a.results[i].id = q.results[j].id
LEMMA Answered ==
  ASSUME NEW q \in Handling, q.entries # <<>>, NEW status,
         NEW a, a = Answer(q, Head(q.entries).id, status)
  PROVE  AnsweredBy(a, q)
<1> DEFINE x == Result(Head(q.entries).id, status)
           rs == Append(q.results, x)
<1>1. q.entries \in Seq(Write) /\ q.results \in Seq(Told)
  BY DEF Handling
<1>2. Range(Tail(q.entries)) \subseteq Range(q.entries)
  BY <1>1, HeadAndTail
<1>3. q.results \in Seq(Told \cup {x}) /\ x \in Told \cup {x}
  BY <1>1, WiderSeq
<1>4. \A i \in DOMAIN rs : rs[i] = x \/ \E j \in DOMAIN q.results : rs[i] = q.results[j]
  BY <1>3, Appended
<1>5. /\ a.stage = "next" /\ a.seen = q.seen /\ a.before = q.before /\ a.actor = q.actor
      /\ a.entries = Tail(q.entries) /\ a.results = rs
  BY DEF Answer, Handling
<1>6. x.id = Head(q.entries).id
  BY DEF Result
<1> HIDE DEF x, rs
<1>7. Range(a.entries) \subseteq Range(q.entries)
  BY <1>2, <1>5
<1>8. \A i \in DOMAIN a.results :
         a.results[i].id = Head(q.entries).id \/ \E j \in DOMAIN q.results : a.results[i].id = q.results[j].id
  BY <1>4, <1>5, <1>6
<1> QED BY <1>5, <1>7, <1>8 DEF AnsweredBy

LEMMA ServerStepKeeps ==
  ASSUME SyncInv, ServerStep \/ Restart \/ Withdraw
  PROVE  SyncInv'
<1>1. TypeInv /\ Linked /\ TypeInv'
  BY ServerTypes DEF SyncInv
<1>2. ASSUME NEW q \in requests PROVE q \in Handling /\ InOrderOf(q) /\ q.entries \in Seq(Write)
  BY DEF SyncInv, TypeInv, ServerType, Handling
<1>3. ASSUME NEW q \in requests, q.entries # <<>>
      PROVE  /\ Head(q.entries) \in Write /\ Around(Head(q.entries)) /\ Head(q.entries).id \in Nat
             /\ Head(q.entries) \in Range(q.entries)
  <2>1. Head(q.entries) \in Write /\ Head(q.entries) \in Range(q.entries)
    BY <1>2, <1>3, HeadAndTail
  <2> QED BY <2>1 DEF Around, Write, NoteEntry, ProgressEntry
<1>4. ASSUME NEW q \in requests, FindReceipts(q) PROVE SyncInv'
  <2> DEFINE seen == {e.id : e \in {f \in Range(q.entries) : ReceiptFor(q.actor, f.id) # {}}}
             changed == [q EXCEPT !.stage = "next", !.seen = seen]
  <2>1. /\ UNCHANGED <<outbox, pictures, minted, keeping, tab, writer, saved, receipts>>
        /\ Step(q, changed) /\ q.stage = "arrived"
    BY <1>4 DEF FindReceipts, deviceVars
  <2>2. /\ \A id \in seen : HasReceipt(id)
        /\ \A e \in Range(q.entries) : \A r \in receipts : r.user = q.actor /\ r.id = e.id => e.id \in seen
    BY DEF HasReceipt, ReceiptFor, ReceiptsOf
  <2>3. seen \subseteq Nat
    <3>1. Range(q.entries) \subseteq Write
      BY <1>2, RangeFacts
    <3> QED BY <3>1 DEF Write, NoteEntry, ProgressEntry
  <2> HIDE DEF seen
  <2>4. /\ changed \in Handling /\ changed.entries = q.entries /\ changed.results = q.results
        /\ changed.seen = seen /\ changed.stage = "next" /\ changed.before = q.before /\ changed.actor = q.actor
    BY <1>2, <2>3 DEF Handling
  <2> HIDE DEF changed
  <2>5. Carries /\ Tells
    BY <1>1, <2>1, <2>2, <2>4, Restepped DEF IsTold, HasReceipt
  <2>6. \A p \in requests' : p = changed => InOrderOf(p)'
    BY <1>2, <2>1, <2>2, <2>4 DEF InOrderOf
  <2>7. \A p \in requests' : p \in requests \/ InOrderOf(p)'
    BY <2>1, <2>6 DEF Step
  <2>8. Lasts /\ LosesNone
    BY <2>1 DEF Lasts, LosesNone, IsSaved
  <2> QED BY <1>1, <2>1, <2>5, <2>7, <2>8, LinkedKept, Together
<1>5. ASSUME NEW q \in requests, SkipDuplicate(q) PROVE SyncInv'
  <2> DEFINE changed == Answer(q, Head(q.entries).id, "duplicate")
  <2>0. q \in Handling /\ changed = Answer(q, Head(q.entries).id, "duplicate")
    BY <1>2
  <2>1. /\ UNCHANGED <<outbox, pictures, minted, keeping, tab, writer, saved, receipts>>
        /\ Step(q, changed) /\ q.stage = "next" /\ q.entries # <<>> /\ Head(q.entries).id \in q.seen
    BY <1>5 DEF SkipDuplicate, deviceVars
  <2>2. changed \in Handling
    BY <1>2, <2>1, AnswerType
  <2> HIDE DEF changed
  <2>3. AnsweredBy(changed, q)
    BY <2>0, <2>1, Answered
  <2>4. Carries /\ Tells
    <3>1. Range(changed.entries) \subseteq Range(q.entries)
      BY <2>3 DEF AnsweredBy
    <3>2. \A id \in Nat :
            id \in changed.seen \/ (\E i \in DOMAIN changed.results : changed.results[i].id = id) => IsTold(id)
      BY <2>1, <2>3 DEF AnsweredBy, IsTold
    <3> QED BY <1>1, <2>1, <2>2, <3>1, <3>2, Restepped
  <2>5. \A p \in requests' : p = changed => InOrderOf(p)'
    BY <1>2, <2>1, <2>3 DEF InOrderOf, AnsweredBy
  <2>6. \A p \in requests' : p \in requests \/ InOrderOf(p)'
    BY <2>1, <2>5 DEF Step
  <2>7. Lasts /\ LosesNone
    BY <2>1 DEF Lasts, LosesNone, IsSaved
  <2> QED BY <1>1, <2>1, <2>4, <2>6, <2>7, LinkedKept, Together
<1>6. ASSUME NEW q \in requests, ApplyEntry(q) \/ RefuseEntry(q) PROVE SyncInv'
  <2>1. PICK status \in {"applied", "refused"} :
          /\ Step(q, [q EXCEPT !.stage = "handled", !.status = status])
          /\ status = "applied" /\ Head(q.entries).kind = "note" =>
               saved' = [saved EXCEPT ![Head(q.entries).what][q.actor] = @ + 1]
          /\ ~(status = "applied" /\ Head(q.entries).kind = "note") => saved' = saved
    BY <1>6 DEF ApplyEntry, RefuseEntry
  <2> DEFINE changed == [q EXCEPT !.stage = "handled", !.status = status]
  <2>2. /\ UNCHANGED <<outbox, pictures, minted, keeping, tab, writer, receipts>>
        /\ q.stage = "next" /\ q.entries # <<>> /\ Head(q.entries).id \notin q.seen
    BY <1>6 DEF ApplyEntry, RefuseEntry, deviceVars
  <2>3. /\ changed \in Handling /\ changed.entries = q.entries /\ changed.results = q.results
        /\ changed.seen = q.seen /\ changed.stage = "handled" /\ changed.status = status
        /\ changed.before = q.before /\ changed.actor = q.actor
    BY <1>2 DEF Handling
  <2>4. Step(q, changed)
    BY <2>1
  <2> HIDE DEF changed
  <2>5. /\ \A n \in Notes : IsSaved(n) => IsSaved(n)'
        /\ status = "applied" /\ Head(q.entries).kind = "note" => IsSaved(Head(q.entries).what)'
    <3>1. CASE status = "applied" /\ Head(q.entries).kind = "note"
      <4>1. Head(q.entries).what \in Notes /\ q.actor \in Accounts
        BY <1>2, <1>3, <2>2, <3>1 DEF Write, NoteEntry, ProgressEntry, Handling
      <4>2. saved' = [saved EXCEPT ![Head(q.entries).what][q.actor] = @ + 1]
        BY <2>1, <3>1
      <4>3. /\ \A m \in Notes : \A a \in Accounts :
                 saved[m][a] \in Nat /\ (saved'[m][a] = saved[m][a] \/ saved'[m][a] = saved[m][a] + 1)
            /\ saved'[Head(q.entries).what][q.actor] = saved[Head(q.entries).what][q.actor] + 1
        <5> DEFINE x == Head(q.entries).what
                   rows == saved[x]
                   written == [rows EXCEPT ![q.actor] = @ + 1]
        <5>1. saved \in [Notes -> [Accounts -> Nat]] /\ x \in Notes /\ q.actor \in Accounts
          BY <1>1, <4>1 DEF TypeInv, ServerType
        <5>2. saved' = [saved EXCEPT ![x] = written]
          BY <4>2
        <5>3. rows \in [Accounts -> Nat]
          BY <5>1
        <5> HIDE DEF x, rows
        <5>4. /\ \A a \in Accounts : written[a] = rows[a] \/ written[a] = rows[a] + 1
              /\ written[q.actor] = rows[q.actor] + 1
          BY <5>1, <5>3
        <5> HIDE DEF written
        <5>5. \A m \in Notes : saved'[m] = IF m = x THEN written ELSE saved[m]
          BY <5>1, <5>2
        <5> QED BY <5>1, <5>4, <5>5 DEF x, rows
      <4>4. \A m \in Notes : \A a \in Accounts : saved[m][a] > 0 => saved'[m][a] > 0
        BY <4>3
      <4>5. saved'[Head(q.entries).what][q.actor] > 0
        BY <4>1, <4>3
      <4> QED BY <4>1, <4>4, <4>5 DEF IsSaved
    <3>2. CASE ~(status = "applied" /\ Head(q.entries).kind = "note")
      <4>1. saved' = saved
        BY <2>1, <3>2
      <4> QED BY <3>2, <4>1 DEF IsSaved
    <3> QED BY <3>1, <3>2
  <2>6. Carries /\ Tells
    BY <1>1, <2>2, <2>3, <2>4, Restepped DEF IsTold
  <2>7. \A p \in requests' : p = changed => InOrderOf(p)'
    BY <1>2, <2>2, <2>3, <2>5 DEF InOrderOf
  <2>8. \A p \in requests' : p \in requests \/ InOrderOf(p)'
    BY <2>4, <2>7 DEF Step
  <2>9. Lasts /\ LosesNone
    BY <2>2, <2>5 DEF Lasts, LosesNone
  <2> QED BY <1>1, <2>2, <2>6, <2>8, <2>9, LinkedKept, Together
<1>7. ASSUME NEW q \in requests, InsertReceipt(q) PROVE SyncInv'
  <2> DEFINE e == Head(q.entries)
             changed == Answer(q, e.id, q.status)
             row == [user |-> q.actor, id |-> e.id, kind |-> e.kind, what |-> e.what, status |-> q.status]
  <2>0. q \in Handling /\ e = Head(q.entries) /\ changed = Answer(q, Head(q.entries).id, q.status)
    BY <1>2
  <2>1. /\ UNCHANGED <<outbox, pictures, minted, keeping, tab, writer, saved>>
        /\ Step(q, changed) /\ q.stage = "handled"
        /\ receipts' = IF ReceiptFor(q.actor, e.id) # {} THEN receipts ELSE receipts \cup {row}
    BY <1>7 DEF InsertReceipt, deviceVars
  <2>2. /\ q.entries # <<>> /\ q.status \in {"applied", "refused"}
        /\ (q.status = "applied" /\ e.kind = "note") => IsSaved(e.what)
    BY <1>2, <2>1 DEF InOrderOf, Handling
  <2>3. e \in Write /\ Around(e) /\ e.id \in Nat
    BY <1>3, <2>2
  <2>4. changed \in Handling
    BY <1>2, <2>2, AnswerType
  <2> HIDE DEF changed, e
  <2>5. AnsweredBy(changed, q)
    BY <2>0, <2>2, Answered
  <2>6. /\ receipts \subseteq receipts' /\ receipts' \subseteq receipts \cup {row}
        /\ row.id = e.id /\ row.kind = e.kind /\ row.what = e.what /\ row.status = q.status
    BY <2>1
  <2>7. \E r \in receipts' : r.id = e.id
    <3>1. CASE ReceiptFor(q.actor, e.id) # {}
      <4>1. \E r \in receipts : r.id = e.id
        BY <3>1 DEF ReceiptFor, ReceiptsOf
      <4> QED BY <2>6, <4>1
    <3>2. CASE ReceiptFor(q.actor, e.id) = {}
      <4>1. row \in receipts'
        BY <2>1, <3>2
      <4> HIDE DEF row
      <4> QED BY <2>6, <4>1
    <3> QED BY <3>1, <3>2
  <2> HIDE DEF row
  <2>8. \A id \in Nat : id = e.id => HasReceipt(id)'
    BY <2>7 DEF HasReceipt
  <2>9. Carries /\ Tells
    <3>1. Range(changed.entries) \subseteq Range(q.entries)
      BY <2>5 DEF AnsweredBy
    <3>2. \A id \in Nat :
            id \in changed.seen \/ (\E i \in DOMAIN changed.results : changed.results[i].id = id)
              => IsTold(id) \/ HasReceipt(id)'
      BY <2>0, <2>5, <2>8, ZenonT(60) DEF AnsweredBy, IsTold
    <3> QED BY <1>1, <2>1, <2>4, <3>1, <3>2, Restepped
  <2>10. \A p \in requests' : p = changed => InOrderOf(p)'
    BY <1>2, <2>1, <2>5, <2>6 DEF InOrderOf, AnsweredBy
  <2>11. \A p \in requests' : p \in requests \/ InOrderOf(p)'
    BY <2>1, <2>10 DEF Step
  <2>12. Lasts /\ LosesNone
    BY <2>1, <2>6 DEF Lasts, LosesNone, IsSaved
  <2>13. \A r \in receipts' : r \in receipts \/ (r.kind = "note" /\ r.status = "applied" => IsSaved(r.what)')
    BY <2>1, <2>2, <2>6 DEF IsSaved
  <2>14. Linked'
    BY <1>1, <2>1, <2>3, <2>6, <2>9, LinkedReceipt
  <2> QED BY <1>1, <2>1, <2>9, <2>11, <2>12, <2>13, <2>14, Together
<1>8. ASSUME NEW q \in requests, Reply(q) PROVE SyncInv'
  <2>1. UNCHANGED <<outbox, pictures, minted, keeping, writer, saved, receipts>> /\ requests' \subseteq requests
    BY <1>8 DEF Reply
  <2>2. \A t \in Tabs : /\ tab'[t].listed = tab[t].listed
                        /\ tab'[t].results = q.results \/ tab'[t].results = tab[t].results
    BY <1>1, <1>8, ZenonT(60) DEF Reply, TypeInv, TabType, TabState
  <2>3. Carries
    BY <2>1, <2>2 DEF Carries, Around
  <2>4. Tells
    <3> SUFFICES ASSUME NEW id \in Nat, IsTold(id)' PROVE IsTold(id)
      BY DEF Tells
    <3>1. CASE \E t \in Tabs : \E i \in DOMAIN tab'[t].results : tab'[t].results[i].id = id
      <4>1. PICK t \in Tabs : \E i \in DOMAIN tab'[t].results : tab'[t].results[i].id = id
        BY <3>1
      <4>2. CASE tab'[t].results = q.results
        BY <4>1, <4>2 DEF IsTold
      <4>3. CASE tab'[t].results = tab[t].results
        BY <4>1, <4>3 DEF IsTold
      <4> QED BY <2>2, <4>2, <4>3
    <3>2. CASE \E p \in requests' : id \in p.seen \/ \E i \in DOMAIN p.results : p.results[i].id = id
      BY <2>1, <3>2 DEF IsTold
    <3> QED BY <3>1, <3>2 DEF IsTold
  <2>5. Lasts /\ LosesNone
    BY <2>1 DEF Lasts, LosesNone, IsSaved
  <2> QED BY <1>1, <2>1, <2>3, <2>4, <2>5, LinkedKept, Together
<1>9. CASE Restart
  <2>1. UNCHANGED <<outbox, pictures, minted, keeping, writer, saved, receipts>> /\ requests' = {}
    BY <1>9 DEF Restart
  <2>2. ASSUME NEW t \in Tabs
        PROVE  \/ tab'[t] = tab[t]
               \/ tab'[t].listed = <<>> /\ tab'[t].results = <<>>
    <3>1. tab[t].user \in Places
      BY <1>1 DEF TypeInv, TabType, TabState
    <3> QED BY <1>9, <3>1, Resting DEF Restart
  <2>3. Carries /\ Tells
    <3>1. \A t \in Tabs : Range(tab'[t].listed) \subseteq Range(tab[t].listed)
      BY <2>2, EmptyRange
    <3>2. \A t \in Tabs : tab'[t].results = tab[t].results \/ DOMAIN tab'[t].results = {}
      BY <2>2, EmptyRange
    <3> QED BY <2>1, <3>1, <3>2 DEF Carries, Tells, Around, IsTold
  <2>4. Lasts /\ LosesNone
    BY <2>1 DEF Lasts, LosesNone, IsSaved
  <2> QED BY <1>1, <2>1, <2>3, <2>4, LinkedKept, Together
<1>10. CASE Withdraw
  <2>1. UNCHANGED <<outbox, pictures, minted, keeping, tab, writer, saved, receipts, requests>>
    BY <1>10 DEF Withdraw, deviceVars
  <2>2. Carries /\ Tells
    BY <2>1 DEF Carries, Tells, Around, IsTold
  <2>3. Lasts /\ LosesNone
    BY <2>1 DEF Lasts, LosesNone, IsSaved
  <2> QED BY <1>1, <2>1, <2>2, <2>3, LinkedKept, Together
<1> QED BY <1>4, <1>5, <1>6, <1>7, <1>8, <1>9, <1>10 DEF ServerStep

-----------------------------------------------------------------------------
LEMMA Unchanged ==
  ASSUME SyncInv, UNCHANGED vars
  PROVE  SyncInv'
<1>1. TypeInv'
  BY DEF SyncInv, vars, TypeInv, DeviceType, TabType, ServerType
<1>2. UNCHANGED <<outbox, pictures, minted, keeping, tab, writer, saved, receipts, requests>>
  BY DEF vars
<1>3. Carries /\ Tells
  BY <1>2 DEF Carries, Tells, Around, IsTold
<1>4. Lasts /\ LosesNone
  BY <1>2 DEF Lasts, LosesNone, IsSaved
<1> QED BY <1>1, <1>2, <1>3, <1>4, LinkedKept, Together DEF SyncInv

LEMMA SyncStep ==
  ASSUME SyncInv, [Next]_vars
  PROVE  SyncInv'
<1>1. ASSUME NEW t \in Tabs, FlushStep(t) \/ GiveUp(t) PROVE SyncInv'
  BY <1>1, TabStep
<1> QED BY <1>1, MemberStep, PlayerStepKeeps, ServerStepKeeps, Unchanged DEF Next

LEMMA InitSync == Init => SyncInv
<1> SUFFICES ASSUME Init PROVE SyncInv
  OBVIOUS
<1> USE OfflineAssumption
<1>1. \A t \in Tabs : tab[t] = Closed
  BY DEF Init
<1>2. Closed \in TabState /\ Closed.pc = "closed" /\ Closed.listed = <<>> /\ Closed.results = <<>>
  BY Resting DEF Places
<1>3. TabType
  BY <1>1, <1>2 DEF Init, TabType
<1>4. DeviceType
  BY DEF Init, DeviceType, Places
<1>5. ServerType
  BY FS_EmptySet DEF Init, ServerType
<1>6. TypeInv
  BY <1>3, <1>4, <1>5 DEF Init, TypeInv
<1>7. \A e \in Write : ~Around(e)
  BY <1>1, <1>2, EmptyRange DEF Init, Around
<1>8. \A id \in Nat : ~IsTold(id)
  BY <1>1, <1>2, EmptyRange DEF Init, IsTold
<1>9. Linked /\ Honest
  BY <1>7, <1>8 DEF Init, Linked, Honest
<1>10. KeptNoteIsSomewhere /\ \A q \in requests : InOrderOf(q)
  BY DEF Init, KeptNoteIsSomewhere
<1> QED BY <1>6, <1>9, <1>10 DEF SyncInv

LEMMA Types == SyncInv => TypeOK
<1> SUFFICES ASSUME SyncInv PROVE TypeOK
  OBVIOUS
<1>1. TypeInv /\ Linked
  BY DEF SyncInv
<1>2. Write \subseteq Entry /\ ProgressEntry \subseteq Entry
  BY DEF Write, NoteEntry, ProgressEntry, Entry
<1>3. \A k \in keeping : k.tab \in Tabs /\ k.at \in 1..MaxPosition
                         /\ k.stage \in {"flying", "keeping", "replacing"} /\ k.old \subseteq Entry
  BY <1>1, <1>2 DEF TypeInv, DeviceType, Keeping
<1>4. ASSUME NEW t \in Tabs
      PROVE  /\ tab[t].pc \in PCs
             /\ {tab[t].user, tab[t].of} \subseteq Accounts \cup {NoAccount}
             /\ tab[t].listed \in Seq(Entry)
  <2>1. tab[t] \in TabState
    BY <1>1 DEF TypeInv, TabType
  <2>2. tab[t].listed \in Seq(Entry)
    BY <1>2, <2>1, WiderSeq DEF TabState
  <2> QED BY <2>1, <2>2 DEF TabState, PCs, Places
<1>5. \A r \in receipts : r.user \in Accounts /\ r.id \in 1..minted /\ r.status \in {"applied", "refused"}
  BY <1>1 DEF TypeInv, ServerType, Receipt, Linked
<1>6. requests \subseteq Request
  <2> SUFFICES ASSUME NEW q \in requests PROVE q \in Request
    OBVIOUS
  <2>1. q \in Handling /\ q.entries \in Seq(Write)
    BY <1>1 DEF TypeInv, ServerType, Handling
  <2>2. q.entries \in Seq(Entry)
    BY <1>2, <2>1, WiderSeq
  <2> QED BY <2>1, <2>2 DEF Handling, Request, Told
<1> QED BY <1>1, <1>2, <1>3, <1>4, <1>5, <1>6 DEF TypeOK, TypeInv, DeviceType, ServerType, Places, PCs

(* Types, for every number of tabs, accounts, notes and outside events.    *)
THEOREM TypeCorrect == Spec => []TypeOK
BY InitSync, SyncStep, Types, PTL DEF Spec

(* No note kept offline is ever nowhere: killed tabs, lost answers, a      *)
(* restarted server, flushes of several tabs and a changed account leave   *)
(* it in the outbox until the server has saved it or has a receipt that    *)
(* refuses it (manager.ts flush, outbox.ts, service.ts syncOutbox); unless *)
(* it is a picture alone whose bytes are not on the device, which a flush  *)
(* drops (pending-images.ts prepareOutboxImages).                          *)
THEOREM NoNoteIsLost == Spec => []KeptNoteIsSomewhere
<1>1. SyncInv => KeptNoteIsSomewhere BY DEF SyncInv
<1> QED BY <1>1, InitSync, SyncStep, PTL DEF Spec

(* What had a receipt when a request was sent is not run through the live  *)
(* services by it (service.ts, "the receipt is what stops every flush      *)
(* after it").                                                             *)
THEOREM ReceiptsStopReplays == Spec => []ReceiptStopsReplays
<1>1. SyncInv => ReceiptStopsReplays
  <2> SUFFICES ASSUME SyncInv, NEW q \in requests, q.stage = "handled"
               PROVE  Head(q.entries).id \notin q.before
    BY DEF ReceiptStopsReplays
  <2>1. InOrderOf(q) /\ q.entries \in Seq(Write)
    BY DEF SyncInv, TypeInv, ServerType, Handling
  <2>2. q.entries # <<>> /\ Head(q.entries).id \notin q.seen
    BY <2>1 DEF InOrderOf
  <2>3. Head(q.entries) \in Range(q.entries)
    BY <2>1, <2>2, HeadAndTail
  <2> QED BY <2>1, <2>2, <2>3 DEF InOrderOf
<1> QED BY <1>1, InitSync, SyncStep, PTL DEF Spec
=============================================================================
