-------------------------- MODULE SearchIndexProofs --------------------------
(***************************************************************************)
(* What the index and the kept answers hold, for every set of members, of  *)
(* moderators and of notes, and any number of looks and of writes.         *)
(***************************************************************************)
EXTENDS SearchIndex, TLAPS

(* A row that says what its source says, or was outrun as IndexCatchesUp   *)
(* allows.                                                                 *)
Seen(s, row) == row = Current(s) \/ Parts(s) \cap unseen # {}

(* Only words are compared, which is enough because whose a row is never   *)
(* changes: a note keeps its author and its being private.                 *)
OwnerOf(s) == IF s \in NoteIds /\ notes[s].private THEN notes[s].author ELSE Nobody
Owned(s, row) == row # NoRow => row.owner = OwnerOf(s) /\ (s \in NoteIds => notes[s] # NoNote)
RowsOwned == \A s \in Sources : Owned(s, index[s]) /\ Owned(s, job.held[s])

JobPlaced ==
  /\ job.state = "running" <=> job.at # ""
  /\ job.at = "open" => job.passes < MaxPasses

(* The title was read once, and a change since is accounted for.           *)
TitleRead ==
  job.at \in {"open", "looked", "embedding"} =>
    job.title = texts.title \/ "title" \in unseen

(* From the last look on, what it saw is current, or accounted for; so is  *)
(* every row that the write to come leaves as it is.                       *)
Last == job.at = "looked" \/ (job.at = "embedding" /\ job.passes = MaxPasses)
LookStands == Last => \A s \in Sources : Seen(s, job.held[s])

LeftAlone ==
  job.at = "embedding" =>
    /\ \A s \in job.over : job.held[s] = NoRow
    /\ job.passes = MaxPasses =>
         \A s \in Sources \ (job.stale \cup job.over) :
           index[s] = job.held[s] \/ Parts(s) \cap unseen # {}

CaughtUp ==
  job.state \in {"none", "done"} \/ job.at = "clean" => \A s \in Sources : Seen(s, index[s])

LookInv == JobPlaced /\ TitleRead /\ LookStands /\ LeftAlone /\ CaughtUp

(* A block stands until it is taken back, by the hand of the deletion that *)
(* is open if need be.                                                     *)
BlocksStand ==
  /\ leaving.who = Nobody => leaving = NoLeaving
  /\ leaving.who # Nobody => leaving.who \in Present
  /\ \A b \in leaving.carried : b[2] = leaving.who
  /\ \A m \in Present, a \in Members : <<m, a>> \in shunned =>
       <<m, a>> \in blocks /\ (a = leaving.who => <<m, a>> \in leaving.carried)

RowsStand == \A n \in NoteIds : index[n] # NoRow => Standing(n) \/ n \in revived

(* What an answer may hold for as long as no clear is owed.                *)
MayRead(m, n) ==
  /\ notes[n] # NoNote
  /\ Standing(n) \/ n \in revived
  /\ notes[n].private => notes[n].author = m
  /\ notes[n].author \in Present => ~BlockBetween(m, notes[n].author)
  /\ <<m, notes[n].author>> \notin shunned
Allowed(m, a) == \/ a.outrun
                 \/ a.found = {}
                 \/ live.recording /\ \A n \in a.found \cap NoteIds : MayRead(m, n)

AnswersAllowed ==
  owed = 0 => \A m \in Present : /\ cache[m] # NoRow => Allowed(m, cache[m])
                                 /\ searching[m].at = "found" => Allowed(m, searching[m])

Inv == TypeOK /\ RowsOwned /\ LookInv /\ BlocksStand /\ RowsStand /\ AnswersAllowed

-----------------------------------------------------------------------------
(* Rows and sources.                                                       *)

LEMMA AccountsTyped ==
  TypeOK => /\ notes \in [NoteIds -> Note \cup {NoNote}] /\ blocks \subseteq Members \X Members
            /\ gone \subseteq Members /\ shunned \subseteq Members \X Members
            /\ leaving \in [who : Members \cup {Nobody}, carried : SUBSET (Members \X Members),
                            torn : BOOLEAN]
BY DEF TypeOK, NotesTypeOK

LEMMA WrittenNote ==
  ASSUME TypeOK, NEW n \in NoteIds, notes[n] # NoNote
  PROVE  notes[n] \in Note
BY DEF TypeOK, NotesTypeOK

LEMMA PartsOf ==
  /\ Parts("transcript") = {"transcript"}
  /\ Parts("summary") = {"summary"}
  /\ Parts("recording") = {"title", "summary"}
  /\ \A n \in NoteIds : n \notin Texts /\ n # "title" /\ Parts(n) = {n}
BY IndexAssumption DEF Parts, Texts

LEMMA RowTyped ==
  ASSUME NEW own \in Nat, NEW quoted \in Nat, NEW owner \in Members \cup {Nobody}
  PROVE  RowOf(own, quoted, owner) \in Row /\ RowOf(own, quoted, owner) # NoRow
<1>1. RowOf(own, quoted, owner) \in Row
  BY DEF RowOf, Row
<1> QED BY <1>1, IndexAssumption

(* What a source says.                                                     *)
LEMMA SaysNow ==
  ASSUME NEW title
  PROVE  /\ SourceRow("transcript", title) = RowOf(texts.transcript, 0, Nobody)
         /\ SourceRow("recording", title) =
              RowOf(title, IF live.summary THEN texts.summary ELSE 0, Nobody)
         /\ SourceRow("summary", title) =
              IF live.summary THEN RowOf(texts.summary, 0, Nobody) ELSE NoRow
         /\ \A n \in NoteIds : SourceRow(n, title) =
              IF Standing(n) THEN RowOf(notes[n].words, 0, OwnerOf(n)) ELSE NoRow
<1>1. \A n \in NoteIds : n \notin Texts
  BY PartsOf
<1>2. \A n \in NoteIds : SourceRow(n, title) = NoteRow(n, IF notes[n].private THEN notes[n].author ELSE Nobody)
  BY <1>1 DEF SourceRow
<1> QED BY <1>2 DEF SourceRow, TextRow, NoteRow, Texts, OwnerOf

LEMMA SaysTyped ==
  ASSUME TypeOK, NEW title \in Nat, NEW s \in Sources
  PROVE  SourceRow(s, title) \in Row \cup {NoRow} /\ Owned(s, SourceRow(s, title))
<1>1. texts.transcript \in Nat /\ texts.summary \in Nat /\ live.summary \in BOOLEAN
  BY DEF TypeOK
<1>2. CASE s \in Texts
  <2>1. OwnerOf(s) = Nobody /\ s \notin NoteIds
    BY <1>2, PartsOf DEF OwnerOf
  <2>2. SourceRow(s, title) = NoRow \/ \E a, b \in Nat : SourceRow(s, title) = RowOf(a, b, Nobody)
    BY <1>1, <1>2, SaysNow DEF Texts
  <2>3. CASE \E a, b \in Nat : SourceRow(s, title) = RowOf(a, b, Nobody)
    BY <2>1, <2>3, RowTyped DEF Owned, RowOf
  <2> QED BY <2>2, <2>3 DEF Owned
<1>3. CASE s \in NoteIds
  <2>1. SourceRow(s, title) = IF Standing(s) THEN RowOf(notes[s].words, 0, OwnerOf(s)) ELSE NoRow
    BY <1>3, SaysNow
  <2>2. CASE Standing(s)
    <3>1. notes[s] # NoNote
      BY <2>2 DEF Standing, Exists
    <3>2. notes[s] \in Note
      BY <1>3, <3>1, WrittenNote
    <3>3. notes[s].words \in Nat /\ OwnerOf(s) \in Members \cup {Nobody}
      BY <3>2 DEF Note, OwnerOf
    <3>4. RowOf(notes[s].words, 0, OwnerOf(s)) \in Row
      BY <3>3, RowTyped
    <3>5. RowOf(notes[s].words, 0, OwnerOf(s)).owner = OwnerOf(s)
      BY DEF RowOf
    <3> QED BY <2>1, <2>2, <3>1, <3>4, <3>5 DEF Owned
  <2>3. CASE ~Standing(s)
    BY <2>1, <2>3 DEF Owned
  <2> QED BY <2>2, <2>3
<1> QED BY <1>2, <1>3 DEF Sources

-----------------------------------------------------------------------------
(* The writes of members.  No write makes a note another's.                *)

NotesInv == NotesTypeOK /\ BlocksStand
Grown == \A n \in NoteIds : notes[n] # NoNote =>
           /\ notes'[n] # NoNote
           /\ notes'[n].author = notes[n].author /\ notes'[n].private = notes[n].private

LEMMA NoteIsNote == NoNote \notin Note
BY NotesAssumption DEF Note

LEMMA InsertNoteKeeps ==
  ASSUME NotesInv, NEW m \in Present, NEW n \in NoteIds, NEW private \in BOOLEAN,
         InsertNote(m, n, private)
  PROVE  /\ NotesInv' /\ Grown
         /\ \A k \in NoteIds \ {n} : notes'[k] = notes[k]
<1> DEFINE note == [author |-> m, private |-> private, words |-> 1, standing |-> TRUE]
<1>1. note \in Note /\ m \in Members /\ m # Nobody
  BY NotesAssumption DEF Note, Present
<1> HIDE DEF note
<1>2. notes' = [notes EXCEPT ![n] = note] /\ notes[n] = NoNote /\ UNCHANGED <<blocks, gone, shunned>>
  BY DEF InsertNote, note
<1>3. leaving' = [leaving EXCEPT !.torn = @ \/ leaving.who = m]
  BY DEF InsertNote
<1>4. /\ leaving' \in [who : Members \cup {Nobody}, carried : SUBSET (Members \X Members), torn : BOOLEAN]
      /\ leaving'.who = leaving.who /\ leaving'.carried = leaving.carried
  BY <1>3 DEF NotesInv, NotesTypeOK
<1>5. leaving.who = Nobody => leaving' = NoLeaving
  <2> SUFFICES ASSUME leaving.who = Nobody PROVE leaving' = NoLeaving
    OBVIOUS
  <2>1. leaving = NoLeaving
    BY DEF NotesInv, BlocksStand
  <2>2. ~NoLeaving.torn /\ NoLeaving.who # m
    BY <1>1 DEF NoLeaving
  <2>3. (NoLeaving.torn \/ NoLeaving.who = m) = FALSE
    BY <2>2
  <2>4. leaving' = [NoLeaving EXCEPT !.torn = FALSE]
    BY <1>3, <2>1, <2>3
  <2> QED BY <2>4 DEF NoLeaving
<1>6. NotesTypeOK'
  BY <1>1, <1>2, <1>4 DEF NotesInv, NotesTypeOK
<1>7. BlocksStand'
  BY <1>2, <1>4, <1>5 DEF NotesInv, BlocksStand, Present, NoLeaving
<1> QED BY <1>2, <1>6, <1>7 DEF NotesInv, NotesTypeOK, Grown

LEMMA NoteRewritten ==
  ASSUME NotesInv, NEW n \in NoteIds, notes[n] # NoNote,
         NEW note \in Note, note.author = notes[n].author, note.private = notes[n].private,
         notes' = [notes EXCEPT ![n] = note], UNCHANGED <<blocks, gone, leaving, shunned>>
  PROVE  /\ NotesInv' /\ Grown
         /\ \A k \in NoteIds \ {n} : notes'[k] = notes[k]
<1>1. NotesTypeOK'
  BY DEF NotesInv, NotesTypeOK
<1>2. BlocksStand'
  BY DEF NotesInv, BlocksStand, Present, NoLeaving
<1> QED BY <1>1, <1>2, NoteIsNote DEF NotesInv, NotesTypeOK, Grown

LEMMA UpdateNoteKeeps ==
  ASSUME NotesInv, NEW m \in Present, NEW n \in NoteIds, UpdateNoteText(m, n)
  PROVE  /\ NotesInv' /\ Grown
         /\ \A k \in NoteIds \ {n} : notes'[k] = notes[k]
<1>1. notes[n] # NoNote /\ notes[n] \in Note
  BY DEF UpdateNoteText, Standing, Exists, NotesInv, NotesTypeOK
<1> DEFINE note == [notes[n] EXCEPT !.words = @ + 1]
<1>2. note \in Note /\ note.author = notes[n].author /\ note.private = notes[n].private
  BY <1>1 DEF Note
<1>3. notes' = [notes EXCEPT ![n] = note] /\ UNCHANGED <<blocks, gone, leaving, shunned>>
  BY DEF UpdateNoteText
<1> HIDE DEF note
<1> QED BY <1>1, <1>2, <1>3, NoteRewritten

LEMMA SoftDeleteKeeps ==
  ASSUME NotesInv, NEW m \in Present, NEW n \in NoteIds, SoftDeleteNote(m, n)
  PROVE  /\ NotesInv' /\ Grown /\ ~Standing(n)'
         /\ \A k \in NoteIds \ {n} : notes'[k] = notes[k]
<1>1. notes[n] # NoNote /\ notes[n] \in Note /\ notes \in [NoteIds -> Note \cup {NoNote}]
  BY DEF SoftDeleteNote, Standing, Exists, NotesInv, NotesTypeOK
<1> DEFINE note == [notes[n] EXCEPT !.standing = FALSE]
<1>2. note \in Note /\ note.author = notes[n].author /\ note.private = notes[n].private
      /\ note.standing = FALSE
  BY <1>1 DEF Note
<1>3. notes' = [notes EXCEPT ![n] = note] /\ UNCHANGED <<blocks, gone, leaving, shunned>>
  BY DEF SoftDeleteNote
<1> HIDE DEF note
<1>4. ~Standing(n)'
  BY <1>1, <1>2, <1>3 DEF Standing
<1> QED BY <1>1, <1>2, <1>3, <1>4, NoteRewritten

LEMMA BlockKeeps ==
  ASSUME NotesInv, NEW m \in Present, NEW other \in Members,
         InsertMemberBlock(m, other) \/ DeleteMemberBlock(m, other)
  PROVE  NotesInv' /\ UNCHANGED <<notes, gone, leaving>>
<1>1. UNCHANGED <<notes, gone, leaving>>
  BY DEF InsertMemberBlock, DeleteMemberBlock
<1>2. <<m, other>> \in Members \X Members
  BY DEF Present
<1>3. CASE InsertMemberBlock(m, other)
  <2>1. /\ blocks' = blocks \cup {<<m, other>>}
        /\ shunned' = IF leaving.who = other THEN shunned ELSE shunned \cup {<<m, other>>}
    BY <1>3 DEF InsertMemberBlock
  <2>2. NotesTypeOK'
    BY <1>1, <1>2, <2>1 DEF NotesInv, NotesTypeOK
  <2>3. BlocksStand'
    BY <1>1, <2>1 DEF NotesInv, BlocksStand, Present, NoLeaving
  <2> QED BY <1>1, <2>2, <2>3 DEF NotesInv
<1>4. CASE DeleteMemberBlock(m, other)
  <2>1. blocks' = blocks \ {<<m, other>>} /\ shunned' = shunned \ {<<m, other>>}
    BY <1>4 DEF DeleteMemberBlock
  <2>2. NotesTypeOK'
    BY <1>1, <2>1 DEF NotesInv, NotesTypeOK
  <2>3. BlocksStand'
    BY <1>1, <2>1 DEF NotesInv, BlocksStand, Present, NoLeaving
  <2> QED BY <1>1, <2>2, <2>3 DEF NotesInv
<1> QED BY <1>3, <1>4

LEMMA LeavingKeeps ==
  ASSUME NotesInv, (\E m \in Present : StartLeaving(m)) \/ RollBackLeaving
  PROVE  NotesInv' /\ UNCHANGED <<notes, blocks, gone, shunned>>
<1>1. UNCHANGED <<notes, blocks, gone, shunned>>
  BY DEF StartLeaving, RollBackLeaving
<1>2. CASE \E m \in Present : StartLeaving(m)
  <2>1. PICK m \in Present : StartLeaving(m)
    BY <1>2
  <2>2. leaving' = [who |-> m, carried |-> {b \in blocks : b[2] = m}, torn |-> FALSE]
    BY <2>1 DEF StartLeaving
  <2>3. /\ leaving'.who = m /\ leaving'.carried = {b \in blocks : b[2] = m}
        /\ m \in Members /\ m # Nobody
        /\ leaving' \in [who : Members \cup {Nobody}, carried : SUBSET (Members \X Members), torn : BOOLEAN]
    BY <2>2, NotesAssumption DEF NotesInv, NotesTypeOK, Present
  <2>4. NotesTypeOK'
    BY <1>1, <2>3 DEF NotesInv, NotesTypeOK
  <2>5. BlocksStand'
    BY <1>1, <2>3 DEF NotesInv, BlocksStand, Present
  <2> QED BY <1>1, <2>4, <2>5 DEF NotesInv
<1>3. CASE RollBackLeaving
  <2>1. leaving' = NoLeaving
    BY <1>3 DEF RollBackLeaving
  <2>2. /\ leaving'.who = Nobody /\ leaving'.carried = {}
        /\ leaving' \in [who : Members \cup {Nobody}, carried : SUBSET (Members \X Members), torn : BOOLEAN]
    BY <2>1 DEF NoLeaving
  <2>3. NotesTypeOK'
    BY <1>1, <2>2 DEF NotesInv, NotesTypeOK
  <2>4. BlocksStand'
    BY <1>1, <2>1, <2>2, NotesAssumption DEF NotesInv, BlocksStand, Present, NoLeaving
  <2> QED BY <1>1, <2>3, <2>4 DEF NotesInv
<1> QED BY <1>2, <1>3

(* The deletion brings over the blocks it has read, and no block between   *)
(* accounts that stay is lost or won.                                      *)
LEMMA CommitKeeps ==
  ASSUME NotesInv, CommitLeaving
  PROVE  /\ NotesInv' /\ UNCHANGED <<notes, shunned>>
         /\ gone' = gone \cup {leaving.who} /\ leaving.who \in Present
         /\ \A a, b \in Present' : <<a, b>> \in blocks' => <<a, b>> \in blocks
<1> DEFINE who == leaving.who
<1>1. /\ leaving # NoLeaving /\ gone' = gone \cup {who} /\ leaving' = NoLeaving
      /\ blocks' = {b \in blocks : who \notin {b[1], b[2]}} \cup leaving.carried
      /\ UNCHANGED <<notes, shunned>>
  BY DEF CommitLeaving
<1>2. who \in Present /\ who \in Members /\ Present' = Present \ {who}
  BY <1>1 DEF NotesInv, BlocksStand, Present
<1>3. /\ leaving'.who = Nobody /\ leaving'.carried = {}
      /\ leaving' \in [who : Members \cup {Nobody}, carried : SUBSET (Members \X Members), torn : BOOLEAN]
  BY <1>1 DEF NoLeaving
<1>4. leaving.carried \subseteq Members \X Members /\ \A b \in leaving.carried : b[2] = who
  BY DEF NotesInv, NotesTypeOK, BlocksStand
<1> HIDE DEF who
<1>5. NotesTypeOK'
  BY <1>1, <1>2, <1>3, <1>4 DEF NotesInv, NotesTypeOK
<1>6. \A a, b \in Present' : <<a, b>> \in blocks' => <<a, b>> \in blocks
  <2> SUFFICES ASSUME NEW a \in Present', NEW b \in Present', <<a, b>> \in blocks'
               PROVE  <<a, b>> \in blocks
    OBVIOUS
  <2>1. b # who
    BY <1>2
  <2>2. <<a, b>> \notin leaving.carried
    BY <1>4, <2>1
  <2> QED BY <1>1, <2>2
<1>7. \A m \in Present', a \in Members : <<m, a>> \in shunned' => <<m, a>> \in blocks'
  <2> SUFFICES ASSUME NEW m \in Present', NEW a \in Members, <<m, a>> \in shunned
               PROVE  <<m, a>> \in blocks'
    BY <1>1
  <2>1. m # who /\ m \in Present
    BY <1>2
  <2>2. <<m, a>> \in blocks /\ (a = who => <<m, a>> \in leaving.carried)
    BY <2>1 DEF NotesInv, BlocksStand, who
  <2> QED BY <1>1, <2>1, <2>2
<1>8. BlocksStand'
  <2>1. \A a \in Members : a # Nobody
    BY NotesAssumption
  <2> QED BY <1>1, <1>3, <1>7, <2>1 DEF BlocksStand
<1> QED BY <1>1, <1>2, <1>5, <1>6, <1>8 DEF NotesInv, who

-----------------------------------------------------------------------------
(* The looks, through a write.                                             *)

SourcesSay ==
  /\ Current("transcript") = RowOf(texts.transcript, 0, Nobody)
  /\ Current("recording") = RowOf(texts.title, IF live.summary THEN texts.summary ELSE 0, Nobody)
  /\ Current("summary") = IF live.summary THEN RowOf(texts.summary, 0, Nobody) ELSE NoRow
  /\ \A n \in NoteIds : Current(n) = IF Standing(n) THEN RowOf(notes[n].words, 0, OwnerOf(n)) ELSE NoRow
LEMMA TheySay == SourcesSay
BY SaysNow DEF Current, SourcesSay

LEMMA TheySayNext == SourcesSay'
BY TheySay, PTL

LEMMA TextsSame ==
  ASSUME UNCHANGED <<texts, live>>
  PROVE  \A s \in Texts : Current(s)' = Current(s)
BY TheySay, TheySayNext DEF SourcesSay, Texts

LEMMA NoteSame ==
  ASSUME NEW n \in NoteIds, notes'[n] = notes[n], Standing(n)' <=> Standing(n)
  PROVE  Current(n)' = Current(n)
<1>1. OwnerOf(n)' = OwnerOf(n)
  BY DEF OwnerOf
<1> QED BY <1>1, TheySay, TheySayNext DEF SourcesSay

LEMMA NotesSame ==
  ASSUME UNCHANGED <<notes, gone>>
  PROVE  \A n \in NoteIds : Current(n)' = Current(n)
<1> SUFFICES ASSUME NEW n \in NoteIds PROVE Current(n)' = Current(n)
  OBVIOUS
<1>1. Standing(n)' <=> Standing(n)
  BY DEF Standing, Exists
<1> QED BY <1>1, NoteSame

LEMMA UnseenGrows ==
  ASSUME NEW parts, Changed(parts) \/ unseen' = unseen \cup parts
  PROVE  /\ unseen \subseteq unseen' /\ unseen' \subseteq unseen \cup parts
         /\ job.state = "running" /\ LastLookTaken => parts \subseteq unseen'
         /\ job.state = "running" /\ "title" \in parts => "title" \in unseen'
BY DEF Changed

LEMMA LookKept ==
  ASSUME TypeOK, LookInv, NEW parts, Changed(parts) \/ unseen' = unseen \cup parts,
         \A s \in Sources : Parts(s) \cap parts = {} => Current(s)' = Current(s) /\ index'[s] = index[s],
         texts'.title = texts.title \/ "title" \in parts,
         \/ EnqueueEmbed
         \/ job' = job /\ \A s \in Sources : Parts(s) \cap parts # {} => Seen(s, index[s])'
  PROVE  LookInv'
<1>1. /\ unseen \subseteq unseen'
      /\ job.state = "running" /\ LastLookTaken => parts \subseteq unseen'
      /\ job.state = "running" /\ "title" \in parts => "title" \in unseen'
  BY UnseenGrows
<1>2. CASE job' = job
  <2>1. JobPlaced'
    BY <1>2 DEF LookInv, JobPlaced
  <2>2. TitleRead'
    BY <1>1, <1>2 DEF LookInv, JobPlaced, TitleRead
  <2>3. ASSUME job.state = "running", LastLookTaken, NEW s \in Sources, NEW row, Seen(s, row)
        PROVE  row = Current(s)' \/ Parts(s) \cap unseen' # {}
    <3>1. parts \subseteq unseen'
      BY <1>1, <2>3
    <3> QED BY <1>1, <2>3, <3>1 DEF Seen
  <2>4. LookStands'
    <3> SUFFICES ASSUME Last, NEW s \in Sources PROVE Seen(s, job.held[s])'
      BY <1>2 DEF LookStands, Last
    <3>1. job.state = "running" /\ LastLookTaken
      BY DEF Last, LastLookTaken, LookInv, JobPlaced
    <3>2. Seen(s, job.held[s])
      BY DEF LookInv, LookStands
    <3> QED BY <1>2, <2>3, <3>1, <3>2 DEF Seen
  <2>5. LeftAlone'
    <3> SUFFICES ASSUME job.at = "embedding"
                 PROVE /\ \A s \in job.over : job.held[s] = NoRow
                       /\ job.passes = MaxPasses =>
                            \A s \in Sources \ (job.stale \cup job.over) :
                              index'[s] = job.held[s] \/ Parts(s) \cap unseen' # {}
      BY <1>2 DEF LeftAlone
    <3>1. \A s \in job.over : job.held[s] = NoRow
      BY DEF LookInv, LeftAlone
    <3>2. ASSUME job.passes = MaxPasses, NEW s \in Sources \ (job.stale \cup job.over)
          PROVE  index'[s] = job.held[s] \/ Parts(s) \cap unseen' # {}
      <4>1. parts \subseteq unseen'
        BY <1>1, <3>2 DEF LastLookTaken, LookInv, JobPlaced
      <4>2. index[s] = job.held[s] \/ Parts(s) \cap unseen # {}
        BY <3>2 DEF LookInv, LeftAlone
      <4> QED BY <1>1, <4>1, <4>2
    <3> QED BY <3>1, <3>2
  <2>6. CaughtUp'
    <3> SUFFICES ASSUME job.state \in {"none", "done"} \/ job.at = "clean", NEW s \in Sources
                 PROVE  Seen(s, index[s])'
      BY <1>2 DEF CaughtUp
    <3>1. Seen(s, index[s])
      BY DEF LookInv, CaughtUp
    <3>2. CASE Parts(s) \cap parts = {}
      BY <1>1, <3>1, <3>2 DEF Seen
    <3>3. CASE Parts(s) \cap parts # {} /\ job.at = "clean"
      <4>1. parts \subseteq unseen'
        BY <1>1, <3>3 DEF LastLookTaken, LookInv, JobPlaced
      <4> QED BY <3>3, <4>1 DEF Seen
    <3>4. CASE Parts(s) \cap parts # {} /\ job.at # "clean"
      <4>1. job.state \in {"none", "done"}
        BY <3>4
      <4>2. ~EnqueueEmbed
        <5> SUFFICES ASSUME EnqueueEmbed PROVE FALSE
          OBVIOUS
        <5>1. job' = AtRest("pending")
          BY <4>1 DEF EnqueueEmbed
        <5>2. job'.state = "pending"
          BY <5>1 DEF AtRest
        <5> QED BY <1>2, <4>1, <5>2
      <4> QED BY <3>4, <4>2
    <3> QED BY <3>2, <3>3, <3>4
  <2> QED BY <2>1, <2>2, <2>4, <2>5, <2>6 DEF LookInv
<1>3. CASE job' # job
  <2>1. job' = AtRest("pending")
    BY <1>3 DEF EnqueueEmbed
  <2>2. job'.state = "pending" /\ job'.at = ""
    BY <2>1 DEF AtRest
  <2> QED BY <2>2 DEF LookInv, JobPlaced, TitleRead, LookStands, Last, LeftAlone, CaughtUp
<1> QED BY <1>2, <1>3

(* A step that changes neither words nor rows nor job.                     *)
LEMMA LookUntouched ==
  ASSUME TypeOK, LookInv, UNCHANGED <<texts, live, notes, gone, index, job, unseen>>
  PROVE  LookInv'
<1>1. \A s \in Sources : Current(s)' = Current(s)
  BY TextsSame, NotesSame DEF Sources
<1>2. \A s \in Sources : Parts(s) \cap {} = {}
  OBVIOUS
<1>3. unseen' = unseen \cup {}
  OBVIOUS
<1> QED BY <1>1, <1>2, <1>3, LookKept

-----------------------------------------------------------------------------
(* The rest of the invariant, through a write.                             *)

JobRow == [state : JobStates, at : JobPoints, passes : 0..MaxPasses, title : Nat,
           held : [Sources -> Row \cup {NoRow}], stale : SUBSET Sources, over : SUBSET Sources]

LEMMA RestTyped ==
  ASSUME NEW state \in JobStates
  PROVE  AtRest(state) \in JobRow /\ AtRest(state).held = NoSources /\ AtRest(state).state = state
         /\ AtRest(state).at = ""
<1>1. NoSources \in [Sources -> Row \cup {NoRow}]
  BY DEF NoSources
<1>2. 0 \in 0..MaxPasses /\ "" \in JobPoints
  BY IndexAssumption DEF JobPoints
<1> HIDE DEF JobStates, JobPoints, NoSources, Sources, Row
<1> QED BY <1>1, <1>2 DEF AtRest, JobRow

LEMMA JobKept ==
  ASSUME TypeOK, RowsOwned, EnqueueEmbed \/ job' = job
  PROVE  job' \in JobRow /\ \A s \in Sources : job'.held[s] = job.held[s] \/ job'.held[s] = NoRow
<1>1. job \in JobRow
  BY DEF TypeOK, JobRow
<1>2. CASE job' = job
  BY <1>1, <1>2
<1>3. CASE job' # job
  <2>1. job' = AtRest("pending")
    BY <1>3 DEF EnqueueEmbed
  <2>2. "pending" \in JobStates
    BY DEF JobStates
  <2>3. AtRest("pending") \in JobRow /\ AtRest("pending").held = NoSources
    BY <2>2, RestTyped
  <2>4. \A s \in Sources : NoSources[s] = NoRow
    BY DEF NoSources
  <2> HIDE DEF NoSources, JobRow, Sources
  <2> QED BY <2>1, <2>3, <2>4
<1> QED BY <1>2, <1>3

LEMMA OwnedKept ==
  ASSUME RowsOwned, NotesTypeOK, Grown,
         \A s \in Sources : index'[s] = index[s] \/ index'[s] = NoRow,
         \A s \in Sources : job'.held[s] = job.held[s] \/ job'.held[s] = NoRow
  PROVE  RowsOwned'
<1> SUFFICES ASSUME NEW s \in Sources PROVE Owned(s, index[s])' /\ Owned(s, job.held[s])'
  BY DEF RowsOwned
<1>1. ASSUME NEW row, Owned(s, row), row # NoRow
      PROVE  row.owner = OwnerOf(s)' /\ (s \in NoteIds => notes'[s] # NoNote)
  <2>1. row.owner = OwnerOf(s) /\ (s \in NoteIds => notes[s] # NoNote)
    BY <1>1 DEF Owned
  <2>2. OwnerOf(s)' = OwnerOf(s)
    BY <2>1 DEF OwnerOf, Grown
  <2> QED BY <2>1, <2>2 DEF Grown
<1>2. Owned(s, index[s]) /\ Owned(s, job.held[s])
  BY DEF RowsOwned
<1>3. Owned(s, index[s])'
  BY <1>1, <1>2 DEF Owned
<1>4. Owned(s, job.held[s])'
  BY <1>1, <1>2 DEF Owned
<1> QED BY <1>3, <1>4

SearchTypes ==
  /\ searching \in [Members -> [at : {"idle", "asked", "found"}, found : SUBSET Sources,
                                outrun : BOOLEAN]]
  /\ cache \in [Members -> [found : SUBSET Sources, outrun : BOOLEAN] \cup {NoRow}]
  /\ owed \in Nat
TextTypes ==
  texts \in [transcript : Nat, title : Nat, summary : Nat] /\ live \in [recording : BOOLEAN, summary : BOOLEAN]

LEMMA Typed ==
  TypeOK <=> /\ NotesTypeOK /\ TextTypes /\ job \in JobRow /\ SearchTypes
             /\ index \in [Sources -> Row \cup {NoRow}]
             /\ unseen \subseteq Texts \cup {"title"} \cup NoteIds
             /\ revived \subseteq NoteIds /\ events \in 0..MaxEvents
BY DEF TypeOK, TextTypes, JobRow, SearchTypes

LEMMA TypedNext ==
  TypeOK' <=> /\ NotesTypeOK' /\ TextTypes' /\ job' \in JobRow /\ SearchTypes'
              /\ index' \in [Sources -> Row \cup {NoRow}]
              /\ unseen' \subseteq Texts \cup {"title"} \cup NoteIds
              /\ revived' \subseteq NoteIds /\ events' \in 0..MaxEvents
BY DEF TypeOK, TextTypes, JobRow, SearchTypes

LEMMA HappensTyped ==
  ASSUME TypeOK, Happens
  PROVE  events' \in 0..MaxEvents
BY IndexAssumption DEF TypeOK, Happens

(* What all writes have in common.                                         *)
LEMMA WriteKeeps ==
  ASSUME Inv, NEW parts \in SUBSET (Texts \cup {"title"} \cup NoteIds),
         NotesInv', Grown, TextTypes', SearchTypes', events' \in 0..MaxEvents, revived' = revived,
         index' \in [Sources -> Row \cup {NoRow}],
         \A s \in Sources : index'[s] = index[s] \/ index'[s] = NoRow,
         \A n \in NoteIds : index'[n] # NoRow /\ Standing(n) => Standing(n)',
         Changed(parts) \/ unseen' = unseen \cup parts,
         \A s \in Sources : Parts(s) \cap parts = {} => Current(s)' = Current(s) /\ index'[s] = index[s],
         texts'.title = texts.title \/ "title" \in parts,
         \/ EnqueueEmbed
         \/ job' = job /\ \A s \in Sources : Parts(s) \cap parts # {} => Seen(s, index[s])',
         AnswersAllowed'
  PROVE  Inv'
<1>1. job' \in JobRow /\ \A s \in Sources : job'.held[s] = job.held[s] \/ job'.held[s] = NoRow
  BY JobKept DEF Inv
<1>2. unseen' \subseteq Texts \cup {"title"} \cup NoteIds
  BY Typed, UnseenGrows DEF Inv
<1>3. TypeOK'
  BY <1>1, <1>2, Typed, TypedNext DEF Inv, NotesInv
<1>4. RowsOwned'
  BY <1>1, OwnedKept, Typed DEF Inv
<1>5. LookInv'
  BY LookKept DEF Inv
<1>6. RowsStand'
  <2> SUFFICES ASSUME NEW n \in NoteIds, index'[n] # NoRow PROVE Standing(n)' \/ n \in revived
    BY DEF RowsStand
  <2>1. index[n] # NoRow
    BY DEF Sources
  <2> QED BY <2>1 DEF Inv, RowsStand
<1> QED BY <1>3, <1>4, <1>5, <1>6 DEF Inv, NotesInv

(* A clear that is owed leaves nothing to show of the answers; otherwise   *)
(* what they hold must stay as it was.                                     *)
LEMMA ClearOwed ==
  ASSUME TypeOK, OwesClear
  PROVE  SearchTypes' /\ AnswersAllowed'
<1>1. owed \in Nat /\ owed' = owed + 1 /\ UNCHANGED <<searching, cache>>
  BY DEF TypeOK, OwesClear
<1>2. owed' \in Nat /\ owed' # 0
  BY <1>1
<1> QED BY <1>1, <1>2 DEF TypeOK, SearchTypes, AnswersAllowed

LEMMA AnswersKept ==
  ASSUME TypeOK, AnswersAllowed, UNCHANGED searchVars, Present' \subseteq Present,
         live'.recording = live.recording,
         \A m \in Present', n \in NoteIds : MayRead(m, n) => MayRead(m, n)'
  PROVE  SearchTypes' /\ AnswersAllowed'
<1>1. UNCHANGED <<searching, cache, owed>>
  BY DEF searchVars
<1>2. ASSUME NEW m \in Present', NEW a, Allowed(m, a)
      PROVE  a.outrun \/ a.found = {} \/ (live.recording /\ \A n \in a.found \cap NoteIds : MayRead(m, n))'
  BY <1>2 DEF Allowed
<1>3. AnswersAllowed'
  <2> SUFFICES ASSUME owed = 0, NEW m \in Present'
               PROVE  /\ cache[m] # NoRow => Allowed(m, cache[m])'
                      /\ searching[m].at = "found" => Allowed(m, searching[m])'
    BY <1>1 DEF AnswersAllowed
  <2>1. /\ cache[m] # NoRow => Allowed(m, cache[m])
        /\ searching[m].at = "found" => Allowed(m, searching[m])
    BY DEF AnswersAllowed
  <2>2. cache[m] # NoRow => Allowed(m, cache[m])'
    BY <1>1, <1>2, <2>1 DEF Allowed
  <2>3. searching[m].at = "found" => Allowed(m, searching[m])'
    BY <1>1, <1>2, <2>1 DEF Allowed
  <2> QED BY <2>2, <2>3
<1> QED BY <1>1, <1>3 DEF TypeOK, SearchTypes

-----------------------------------------------------------------------------
(* The writes, one by one.                                                 *)

LEMMA NotesUntouched ==
  ASSUME NotesInv, UNCHANGED noteVars
  PROVE  /\ NotesInv' /\ Grown /\ Present' = Present /\ UNCHANGED <<notes, gone>>
         /\ \A n \in NoteIds : (Standing(n)' <=> Standing(n)) /\ Current(n)' = Current(n)
         /\ UNCHANGED revived => \A m \in Members, n \in NoteIds : MayRead(m, n)' <=> MayRead(m, n)
<1>1. UNCHANGED <<notes, blocks, gone, leaving, shunned>>
  BY DEF noteVars
<1>2. NotesInv'
  BY <1>1 DEF NotesInv, NotesTypeOK, BlocksStand, Present, NoLeaving
<1>3. Grown /\ Present' = Present
  BY <1>1 DEF Grown, Present
<1>4. \A n \in NoteIds : Standing(n)' <=> Standing(n)
  BY <1>1 DEF Standing, Exists
<1>5. \A n \in NoteIds : Current(n)' = Current(n)
  BY <1>1, NotesSame
<1>6. UNCHANGED revived => \A m \in Members, n \in NoteIds : MayRead(m, n)' <=> MayRead(m, n)
  BY <1>1, <1>4, <1>3 DEF MayRead, BlockBetween
<1> QED BY <1>1, <1>2, <1>3, <1>4, <1>5, <1>6

LEMMA TextWriteKeeps ==
  ASSUME Inv, TextWrite
  PROVE  Inv'
<1>0. TypeOK /\ NotesInv /\ TextTypes /\ index \in [Sources -> Row \cup {NoRow}]
  BY Typed DEF Inv, NotesInv
<1>1. Happens /\ UNCHANGED noteVars /\ UNCHANGED revived
  BY DEF TextWrite, EditText, ApproveSummary, EditSummary, UnpublishSummary, PublishRecording,
         UnpublishRecording
<1>2. /\ NotesInv' /\ Grown /\ Present' = Present /\ UNCHANGED <<notes, gone>>
      /\ \A n \in NoteIds : (Standing(n)' <=> Standing(n)) /\ Current(n)' = Current(n)
      /\ \A m \in Members, n \in NoteIds : MayRead(m, n)' <=> MayRead(m, n)
  BY <1>0, <1>1, NotesUntouched
<1>3. events' \in 0..MaxEvents
  BY <1>0, <1>1, HappensTyped
<1>4. \A m \in Present', n \in NoteIds : MayRead(m, n) => MayRead(m, n)'
  BY <1>2 DEF Present
<1>5. UNCHANGED searchVars /\ live'.recording = live.recording => SearchTypes' /\ AnswersAllowed'
  BY <1>0, <1>2, <1>4, AnswersKept DEF Inv
<1>6. /\ texts.transcript \in Nat /\ texts.title \in Nat /\ texts.summary \in Nat
      /\ live.recording \in BOOLEAN /\ live.summary \in BOOLEAN
  BY <1>0 DEF TextTypes
<1>7. ASSUME NEW part \in {"transcript", "title"}, EditText(part)
      PROVE  Inv'
  <2>1. /\ texts' = [texts EXCEPT ![part] = @ + 1] /\ EnqueueEmbed /\ Changed({part})
        /\ UNCHANGED <<live, index, searchVars>>
    BY <1>7 DEF EditText
  <2>2. /\ part = "transcript" => texts'.title = texts.title
        /\ part = "title" => texts'.transcript = texts.transcript
        /\ texts'.summary = texts.summary
        /\ TextTypes'
    BY <1>0, <2>1 DEF TextTypes
  <2>3. \A s \in Texts : Parts(s) \cap {part} = {} => Current(s)' = Current(s)
    BY <2>1, <2>2, TheySay, TheySayNext, PartsOf DEF SourcesSay, Texts
  <2>4. SearchTypes' /\ AnswersAllowed'
    BY <1>5, <2>1
  <2>5. {part} \in SUBSET (Texts \cup {"title"} \cup NoteIds)
    BY DEF Texts
  <2>6. \A s \in Sources : Parts(s) \cap {part} = {} => Current(s)' = Current(s) /\ index'[s] = index[s]
    BY <1>2, <2>1, <2>3 DEF Sources
  <2> QED BY <1>0, <1>1, <1>2, <1>3, <2>1, <2>2, <2>4, <2>5, <2>6, WriteKeeps
<1>8. CASE ApproveSummary \/ EditSummary
  <2>1. /\ texts' = [texts EXCEPT !.summary = @ + 1] /\ EnqueueEmbed /\ Changed({"summary"})
        /\ live' = [live EXCEPT !.summary = TRUE] \/ live' = live
        /\ UNCHANGED <<index, searchVars>>
    BY <1>8 DEF ApproveSummary, EditSummary
  <2>2. /\ texts'.title = texts.title /\ texts'.transcript = texts.transcript /\ texts'.summary \in Nat
        /\ live'.recording = live.recording
    BY <1>0, <1>6, <2>1 DEF TextTypes
  <2>3. TextTypes'
    <3>1. texts' \in [transcript : Nat, title : Nat, summary : Nat]
      BY <1>0, <2>1 DEF TextTypes
    <3>2. live' \in [recording : BOOLEAN, summary : BOOLEAN]
      BY <1>0, <2>1 DEF TextTypes
    <3> QED BY <3>1, <3>2 DEF TextTypes
  <2>4. \A s \in Texts : Parts(s) \cap {"summary"} = {} => Current(s)' = Current(s)
    BY <2>2, TheySay, TheySayNext, PartsOf DEF SourcesSay, Texts
  <2>5. SearchTypes' /\ AnswersAllowed'
    BY <1>5, <2>1, <2>2
  <2>6. {"summary"} \in SUBSET (Texts \cup {"title"} \cup NoteIds)
    BY DEF Texts
  <2>7. \A s \in Sources : Parts(s) \cap {"summary"} = {} => Current(s)' = Current(s) /\ index'[s] = index[s]
    BY <1>2, <2>1, <2>4 DEF Sources
  <2> QED BY <1>0, <1>1, <1>2, <1>3, <2>1, <2>2, <2>3, <2>5, <2>6, <2>7, WriteKeeps
<1>9. CASE UnpublishSummary
  <2>1. /\ live' = [live EXCEPT !.summary = FALSE] /\ Unindexed({"summary"})
        /\ unseen' = unseen \cup {"summary"} /\ UNCHANGED <<texts, job, searchVars>>
    BY <1>9 DEF UnpublishSummary
  <2>2. TextTypes' /\ live'.recording = live.recording
    BY <1>0, <2>1 DEF TextTypes
  <2>3. \A s \in Texts : Parts(s) \cap {"summary"} = {} => Current(s)' = Current(s)
    BY <2>1, TheySay, TheySayNext, PartsOf DEF SourcesSay, Texts
  <2>4. SearchTypes' /\ AnswersAllowed'
    BY <1>5, <2>1, <2>2
  <2>5. /\ index' \in [Sources -> Row \cup {NoRow}]
        /\ \A s \in Sources : index'[s] = IF s = "summary" THEN NoRow ELSE index[s]
    BY <1>0, <2>1 DEF Unindexed
  <2>6. \A s \in Sources : Parts(s) \cap {"summary"} = {} => Current(s)' = Current(s) /\ index'[s] = index[s]
    BY <1>2, <2>3, <2>5, PartsOf DEF Sources
  <2>7. \A s \in Sources : Parts(s) \cap {"summary"} # {} => Seen(s, index[s])'
    BY <2>1 DEF Seen
  <2>8. {"summary"} \in SUBSET (Texts \cup {"title"} \cup NoteIds)
    BY DEF Texts
  <2> QED BY <1>0, <1>1, <1>2, <1>3, <2>1, <2>2, <2>4, <2>5, <2>6, <2>7, <2>8, WriteKeeps
<1>10. CASE PublishRecording \/ UnpublishRecording
  <2>1. /\ OwesClear /\ UNCHANGED <<texts, index, job, unseen>>
        /\ \E value \in BOOLEAN : live' = [live EXCEPT !.recording = value]
    BY <1>10 DEF PublishRecording, UnpublishRecording
  <2>2. TextTypes' /\ live'.summary = live.summary
    BY <1>0, <2>1 DEF TextTypes
  <2>3. \A s \in Texts : Current(s)' = Current(s)
    BY <2>1, <2>2, TheySay, TheySayNext DEF SourcesSay, Texts
  <2>4. SearchTypes' /\ AnswersAllowed'
    BY <1>0, <2>1, ClearOwed
  <2>5. \A s \in Sources : Current(s)' = Current(s) /\ index'[s] = index[s]
    BY <1>2, <2>1, <2>3 DEF Sources
  <2>6. unseen' = unseen \cup {} /\ \A s \in Sources : Parts(s) \cap {} = {}
    BY <2>1
  <2> QED BY <1>0, <1>1, <1>2, <1>3, <2>1, <2>2, <2>4, <2>5, <2>6, WriteKeeps
<1> QED BY <1>7, <1>8, <1>9, <1>10 DEF TextWrite

LEMMA CreateNoteKeeps ==
  ASSUME Inv, NEW m \in Present, NEW n \in NoteIds, NEW private \in BOOLEAN, CreateNote(m, n, private)
  PROVE  Inv'
<1>0. TypeOK /\ NotesInv /\ TextTypes /\ index \in [Sources -> Row \cup {NoRow}]
  BY Typed DEF Inv, NotesInv
<1>1. /\ Happens /\ InsertNote(m, n, private) /\ EnqueueEmbed /\ Changed({n})
      /\ UNCHANGED <<texts, live, index, revived, searchVars>>
  BY DEF CreateNote
<1>2. NotesInv' /\ Grown /\ \A k \in NoteIds \ {n} : notes'[k] = notes[k]
  BY <1>0, <1>1, InsertNoteKeeps
<1>3. notes[n] = NoNote /\ UNCHANGED <<blocks, gone, shunned>>
  BY <1>1 DEF InsertNote
<1>4. \A k \in NoteIds \ {n} : (Standing(k)' <=> Standing(k)) /\ Current(k)' = Current(k)
  <2>1. \A k \in NoteIds \ {n} : Standing(k)' <=> Standing(k)
    BY <1>2, <1>3 DEF Standing, Exists
  <2> QED BY <1>2, <2>1, NoteSame
<1>5. ~Standing(n)
  BY <1>3 DEF Standing, Exists
<1>6. \A s \in Sources : Parts(s) \cap {n} = {} => Current(s)' = Current(s) /\ index'[s] = index[s]
  BY <1>1, <1>4, PartsOf, TextsSame DEF Sources
<1>7. ASSUME NEW a \in Present, NEW k \in NoteIds, MayRead(a, k)
      PROVE  MayRead(a, k)'
  <2>1. k # n
    BY <1>3, <1>7 DEF MayRead
  <2>2. notes'[k] = notes[k] /\ (Standing(k)' <=> Standing(k)) /\ Present' = Present
    BY <1>2, <1>3, <1>4, <2>1 DEF Present
  <2> QED BY <1>1, <1>3, <1>7, <2>2 DEF MayRead, BlockBetween
<1>8. SearchTypes' /\ AnswersAllowed'
  <2>1. Present' = Present
    BY <1>3 DEF Present
  <2> QED BY <1>0, <1>1, <1>7, <2>1, AnswersKept DEF Inv
<1>9. events' \in 0..MaxEvents /\ TextTypes'
  BY <1>0, <1>1, HappensTyped DEF TextTypes
<1>10. \A k \in NoteIds : Standing(k) => Standing(k)'
  BY <1>4, <1>5
<1> QED BY <1>0, <1>1, <1>2, <1>6, <1>8, <1>9, <1>10, WriteKeeps

LEMMA EditNoteKeeps ==
  ASSUME Inv, NEW m \in Present, NEW n \in NoteIds, EditNote(m, n)
  PROVE  Inv'
<1>0. TypeOK /\ NotesInv /\ TextTypes /\ index \in [Sources -> Row \cup {NoRow}]
      /\ notes \in [NoteIds -> Note \cup {NoNote}]
  BY Typed, AccountsTyped DEF Inv, NotesInv
<1>1. /\ Happens /\ UpdateNoteText(m, n) /\ EnqueueEmbed /\ Changed({n}) /\ OwesClear
      /\ UNCHANGED <<texts, live, index, revived>>
  BY DEF EditNote
<1>2. NotesInv' /\ Grown /\ \A k \in NoteIds \ {n} : notes'[k] = notes[k]
  BY <1>0, <1>1, UpdateNoteKeeps
<1>3. Standing(n) /\ gone' = gone /\ notes' = [notes EXCEPT ![n].words = @ + 1]
  BY <1>1 DEF UpdateNoteText
<1>4. \A k \in NoteIds \ {n} : (Standing(k)' <=> Standing(k)) /\ Current(k)' = Current(k)
  <2>1. \A k \in NoteIds \ {n} : Standing(k)' <=> Standing(k)
    BY <1>2, <1>3 DEF Standing, Exists
  <2> QED BY <1>2, <2>1, NoteSame
<1>5. Standing(n)'
  <2>1. notes[n] # NoNote /\ notes[n].standing /\ ~(notes[n].private /\ notes[n].author \in gone)
    BY <1>3 DEF Standing, Exists
  <2>2. notes[n] \in Note
    BY <1>0, <2>1
  <2>3. notes'[n].standing
    BY <1>0, <1>3, <2>1, <2>2 DEF Note
  <2>4. notes'[n] # NoNote /\ notes'[n].author = notes[n].author /\ notes'[n].private = notes[n].private
    BY <1>2, <2>1 DEF Grown
  <2> QED BY <1>3, <2>1, <2>3, <2>4 DEF Standing, Exists
<1>6. \A s \in Sources : Parts(s) \cap {n} = {} => Current(s)' = Current(s) /\ index'[s] = index[s]
  BY <1>1, <1>4, PartsOf, TextsSame DEF Sources
<1>7. SearchTypes' /\ AnswersAllowed'
  BY <1>0, <1>1, ClearOwed
<1>8. events' \in 0..MaxEvents /\ TextTypes'
  BY <1>0, <1>1, HappensTyped DEF TextTypes
<1>9. \A k \in NoteIds : Standing(k) => Standing(k)'
  BY <1>4, <1>5
<1> QED BY <1>0, <1>1, <1>2, <1>6, <1>7, <1>8, <1>9, WriteKeeps

LEMMA DeleteNoteKeeps ==
  ASSUME Inv, NEW m \in Present, NEW n \in NoteIds, DeleteNote(m, n)
  PROVE  Inv'
<1>0. TypeOK /\ NotesInv /\ TextTypes /\ index \in [Sources -> Row \cup {NoRow}]
  BY Typed DEF Inv, NotesInv
<1>1. /\ Happens /\ SoftDeleteNote(m, n) /\ Unindexed({n}) /\ Changed({n}) /\ OwesClear
      /\ UNCHANGED <<texts, live, job, revived>>
  BY DEF DeleteNote, Removed
<1>2. NotesInv' /\ Grown /\ ~Standing(n)' /\ \A k \in NoteIds \ {n} : notes'[k] = notes[k]
  BY <1>0, <1>1, SoftDeleteKeeps
<1>3. gone' = gone
  BY <1>1 DEF SoftDeleteNote
<1>4. \A k \in NoteIds \ {n} : (Standing(k)' <=> Standing(k)) /\ Current(k)' = Current(k)
  <2>1. \A k \in NoteIds \ {n} : Standing(k)' <=> Standing(k)
    BY <1>2, <1>3 DEF Standing, Exists
  <2> QED BY <1>2, <2>1, NoteSame
<1>5. /\ index' \in [Sources -> Row \cup {NoRow}]
      /\ \A s \in Sources : index'[s] = IF s = n THEN NoRow ELSE index[s]
  BY <1>0, <1>1 DEF Unindexed
<1>6. \A s \in Sources : Parts(s) \cap {n} = {} => Current(s)' = Current(s) /\ index'[s] = index[s]
  BY <1>1, <1>4, <1>5, PartsOf, TextsSame DEF Sources
<1>7. SearchTypes' /\ AnswersAllowed'
  BY <1>0, <1>1, ClearOwed
<1>8. events' \in 0..MaxEvents /\ TextTypes'
  BY <1>0, <1>1, HappensTyped DEF TextTypes
<1>9. \A k \in NoteIds : index'[k] # NoRow /\ Standing(k) => Standing(k)'
  BY <1>4, <1>5 DEF Sources
<1>10. \A s \in Sources : Parts(s) \cap {n} # {} => Seen(s, index[s])'
  <2>1. Current(n)' = NoRow
    BY <1>2, TheySayNext DEF SourcesSay
  <2>2. \A s \in Sources : Parts(s) \cap {n} # {} => s = n
    BY PartsOf DEF Sources, Texts
  <2> QED BY <1>5, <2>1, <2>2 DEF Seen
<1> QED BY <1>0, <1>1, <1>2, <1>5, <1>6, <1>7, <1>8, <1>9, <1>10, WriteKeeps

LEMMA AccountGoneKeeps ==
  ASSUME Inv, AccountGone
  PROVE  Inv'
<1>0. TypeOK /\ NotesInv /\ TextTypes /\ index \in [Sources -> Row \cup {NoRow}]
  BY Typed DEF Inv, NotesInv
<1> DEFINE own == {n \in NoteIds : notes[n] # NoNote /\ notes[n].author = leaving.who /\ notes[n].private}
<1>1. /\ CommitLeaving /\ Unindexed(own) /\ Changed(own)
      /\ UNCHANGED <<texts, live, job, revived, searchVars, events>>
  BY DEF AccountGone
<1>2. /\ NotesInv' /\ UNCHANGED <<notes, shunned>>
      /\ gone' = gone \cup {leaving.who} /\ leaving.who \in Present
      /\ \A a, b \in Present' : <<a, b>> \in blocks' => <<a, b>> \in blocks
  BY <1>0, <1>1, CommitKeeps
<1>3. Grown /\ Present' = Present \ {leaving.who}
  BY <1>2 DEF Grown, Present
<1>4. \A n \in own : n \in NoteIds /\ ~Standing(n)' /\ Current(n)' = NoRow
  <2>1. \A n \in own : n \in NoteIds /\ ~Standing(n)'
    BY <1>2 DEF Standing, Exists
  <2> QED BY <2>1, TheySayNext DEF SourcesSay
<1>5. \A n \in NoteIds \ own : (Standing(n)' <=> Standing(n)) /\ Current(n)' = Current(n)
  <2>1. \A n \in NoteIds \ own : Standing(n)' <=> Standing(n)
    BY <1>2 DEF Standing, Exists
  <2> QED BY <1>2, <2>1, NoteSame
<1>6. own \subseteq NoteIds
  OBVIOUS
<1>7. ASSUME NEW m \in Present', NEW n \in NoteIds, MayRead(m, n)
      PROVE  MayRead(m, n)'
  <2>1. n \notin own
    BY <1>3, <1>7 DEF MayRead
  <2>2. Standing(n) \/ n \in revived => Standing(n)' \/ n \in revived'
    BY <1>1, <1>5, <2>1
  <2>3. notes[n].author \in Present' => ~BlockBetween(m, notes[n].author)'
    <3> SUFFICES ASSUME notes[n].author \in Present' PROVE ~BlockBetween(m, notes[n].author)'
      OBVIOUS
    <3>1. ~BlockBetween(m, notes[n].author)
      BY <1>3, <1>7 DEF MayRead
    <3> QED BY <1>2, <3>1 DEF BlockBetween
  <2> QED BY <1>2, <1>7, <2>2, <2>3 DEF MayRead
<1> HIDE DEF own
<1>8. /\ index' \in [Sources -> Row \cup {NoRow}]
      /\ \A s \in Sources : index'[s] = IF s \in own THEN NoRow ELSE index[s]
  BY <1>0, <1>1 DEF Unindexed
<1>9. \A s \in Sources : Parts(s) \cap own = {} => s \notin own
  BY <1>6, PartsOf
<1>10. \A s \in Sources : Parts(s) \cap own = {} => Current(s)' = Current(s) /\ index'[s] = index[s]
  BY <1>1, <1>5, <1>8, <1>9, TextsSame DEF Sources
<1>11. \A s \in Sources : Parts(s) \cap own # {} => Seen(s, index[s])'
  <2>1. \A s \in Sources : Parts(s) \cap own # {} => s \in own
    BY <1>6, PartsOf DEF Sources, Texts
  <2> QED BY <1>4, <1>8, <2>1 DEF Seen
<1>12. SearchTypes' /\ AnswersAllowed'
  BY <1>0, <1>1, <1>3, <1>7, AnswersKept DEF Inv
<1>13. events' \in 0..MaxEvents /\ TextTypes'
  BY <1>0, <1>1 DEF TextTypes, TypeOK
<1>14. \A n \in NoteIds : index'[n] # NoRow /\ Standing(n) => Standing(n)'
  BY <1>5, <1>8 DEF Sources
<1>15. own \in SUBSET (Texts \cup {"title"} \cup NoteIds)
  BY <1>6
<1> QED BY <1>0, <1>1, <1>2, <1>3, <1>8, <1>10, <1>11, <1>12, <1>13, <1>14, <1>15, WriteKeeps

(* Blocks and account deletions touch neither words nor rows.              *)
LEMMA AccountsStep ==
  ASSUME Inv, NotesInv', UNCHANGED <<notes, gone>>, UNCHANGED indexVars, events' \in 0..MaxEvents,
         SearchTypes', AnswersAllowed'
  PROVE  Inv'
<1>0. UNCHANGED <<texts, live, index, job, unseen, revived>>
  BY DEF indexVars
<1>1. TypeOK'
  BY <1>0, Typed, TypedNext DEF Inv, NotesInv, TextTypes
<1>2. RowsOwned'
  BY <1>0 DEF Inv, RowsOwned, Owned, OwnerOf
<1>3. LookInv'
  BY <1>0, LookUntouched DEF Inv
<1>4. RowsStand'
  BY <1>0 DEF Inv, RowsStand, Standing, Exists
<1> QED BY <1>1, <1>2, <1>3, <1>4 DEF Inv, NotesInv

LEMMA BlockStepKeeps ==
  ASSUME Inv, NEW m \in Present, NEW other \in Members,
         BlockMember(m, other) \/ UnblockMember(m, other)
  PROVE  Inv'
<1>0. TypeOK /\ NotesInv
  BY Typed DEF Inv, NotesInv
<1>1. /\ Happens /\ UNCHANGED indexVars
      /\ \/ InsertMemberBlock(m, other) /\ OwesClear
         \/ DeleteMemberBlock(m, other) /\ UNCHANGED searchVars
  BY DEF BlockMember, UnblockMember
<1>2. NotesInv' /\ UNCHANGED <<notes, gone, leaving>>
  BY <1>0, <1>1, BlockKeeps
<1>3. events' \in 0..MaxEvents
  BY <1>0, <1>1, HappensTyped
<1>4. SearchTypes' /\ AnswersAllowed'
  <2>1. CASE OwesClear
    BY <1>0, <2>1, ClearOwed
  <2>2. CASE DeleteMemberBlock(m, other) /\ UNCHANGED searchVars
    <3>1. blocks' \subseteq blocks /\ shunned' \subseteq shunned
      BY <2>2 DEF DeleteMemberBlock
    <3>2. UNCHANGED <<live, revived>> /\ Present' = Present
      BY <1>1, <1>2 DEF indexVars, Present
    <3>3. \A n \in NoteIds : Standing(n)' <=> Standing(n)
      BY <1>2 DEF Standing, Exists
    <3>4. \A a \in Present', n \in NoteIds : MayRead(a, n) => MayRead(a, n)'
      BY <1>2, <3>1, <3>2, <3>3 DEF MayRead, BlockBetween
    <3> QED BY <1>0, <2>2, <3>2, <3>4, AnswersKept DEF Inv
  <2> QED BY <1>1, <2>1, <2>2
<1> QED BY <1>1, <1>2, <1>3, <1>4, AccountsStep

LEMMA LeavingStepKeeps ==
  ASSUME Inv, (\E m \in Present : DeleteAccount(m)) \/ AccountStays
  PROVE  Inv'
<1>0. TypeOK /\ NotesInv
  BY Typed DEF Inv, NotesInv
<1>1. /\ (\E m \in Present : StartLeaving(m)) \/ RollBackLeaving
      /\ UNCHANGED indexVars /\ UNCHANGED searchVars /\ (Happens \/ UNCHANGED events)
  BY DEF DeleteAccount, AccountStays
<1>2. NotesInv' /\ UNCHANGED <<notes, blocks, gone, shunned>>
  BY <1>0, <1>1, LeavingKeeps
<1>3. events' \in 0..MaxEvents
  BY <1>0, <1>1, HappensTyped DEF TypeOK
<1>4. SearchTypes' /\ AnswersAllowed'
  <2>1. UNCHANGED <<live, revived>> /\ Present' = Present
    BY <1>1, <1>2 DEF indexVars, Present
  <2>2. \A n \in NoteIds : Standing(n)' <=> Standing(n)
    BY <1>2 DEF Standing, Exists
  <2>3. \A a \in Present', n \in NoteIds : MayRead(a, n) => MayRead(a, n)'
    BY <1>2, <2>1, <2>2 DEF MayRead, BlockBetween
  <2> QED BY <1>0, <1>1, <2>1, <2>3, AnswersKept DEF Inv
<1> QED BY <1>1, <1>2, <1>3, <1>4, AccountsStep

-----------------------------------------------------------------------------
(* The embed step.                                                         *)

(* Steps of the worker that write no row.                                  *)
LEMMA WorkerKeeps ==
  ASSUME Inv, UNCHANGED <<noteVars, texts, live, index, revived, searchVars>>,
         events' \in 0..MaxEvents, job' \in JobRow,
         \A s \in Sources : job'.held[s] = NoRow \/ Owned(s, job'.held[s]),
         unseen' \subseteq unseen, LookInv'
  PROVE  Inv'
<1>0. TypeOK /\ NotesInv /\ UNCHANGED noteVars
  BY Typed DEF Inv, NotesInv
<1>1. /\ NotesInv' /\ Grown /\ Present' = Present /\ UNCHANGED <<notes, gone>>
      /\ \A n \in NoteIds : Standing(n)' <=> Standing(n)
      /\ \A m \in Members, n \in NoteIds : MayRead(m, n)' <=> MayRead(m, n)
  BY <1>0, NotesUntouched
<1>2. SearchTypes' /\ AnswersAllowed'
  BY <1>0, <1>1, AnswersKept DEF Inv, Present
<1>3. TypeOK'
  BY <1>0, <1>1, <1>2, Typed, TypedNext DEF TextTypes, NotesInv
<1>4. RowsOwned'
  BY <1>1 DEF Inv, RowsOwned, Owned, OwnerOf
<1>5. RowsStand'
  BY <1>1 DEF Inv, RowsStand
<1> QED BY <1>1, <1>2, <1>3, <1>4, <1>5 DEF Inv, NotesInv

(* The job is given up or queued again, or is done with rows that stand.   *)
LEMMA JobRests ==
  ASSUME Inv, NEW state \in JobStates \ {"running"}, job' = AtRest(state),
         state \in {"none", "done"} => job.at = "clean",
         UNCHANGED <<noteVars, texts, live, index, unseen, revived, searchVars>>,
         events' \in 0..MaxEvents
  PROVE  Inv'
<1>1. /\ job' \in JobRow /\ job'.held = NoSources /\ job'.state = state /\ job'.at = ""
  BY RestTyped
<1>2. \A s \in Sources : job'.held[s] = NoRow
  BY <1>1 DEF NoSources
<1>3. CaughtUp'
  <2> SUFFICES ASSUME state \in {"none", "done"}, NEW s \in Sources PROVE Seen(s, index[s])'
    BY <1>1 DEF CaughtUp
  <2>1. Seen(s, index[s])
    BY DEF Inv, LookInv, CaughtUp
  <2>2. UNCHANGED <<notes, gone>>
    BY DEF noteVars
  <2>3. Current(s)' = Current(s)
    BY <2>2, TextsSame, NotesSame DEF Sources
  <2> QED BY <2>1, <2>3 DEF Seen
<1>4. LookInv'
  BY <1>1, <1>3 DEF LookInv, JobPlaced, TitleRead, LookStands, Last, LeftAlone
<1> QED BY <1>1, <1>2, <1>4, WorkerKeeps

LEMMA OpenKeeps ==
  ASSUME Inv, OpenRecording
  PROVE  Inv'
<1>1. /\ job' = [AtRest("running") EXCEPT !.at = "open", !.title = texts.title]
      /\ unseen' = unseen \ {"title"}
      /\ UNCHANGED <<noteVars, texts, live, index, revived, searchVars, events>>
  BY DEF OpenRecording
<1>2. /\ AtRest("running") \in JobRow /\ AtRest("running").held = NoSources
      /\ AtRest("running").state = "running" /\ AtRest("running").passes = 0
  BY RestTyped DEF JobStates, AtRest
<1>3. texts.title \in Nat /\ events' \in 0..MaxEvents
  BY <1>1 DEF Inv, TypeOK
<1>4. /\ job' \in JobRow /\ job'.held = NoSources /\ job'.state = "running" /\ job'.at = "open"
      /\ job'.passes = 0 /\ job'.title = texts.title
  BY <1>1, <1>2, <1>3 DEF JobRow, JobPoints
<1>5. \A s \in Sources : job'.held[s] = NoRow
  BY <1>4 DEF NoSources
<1>6. LookInv'
  BY <1>1, <1>4, IndexAssumption DEF LookInv, JobPlaced, TitleRead, LookStands, Last, LeftAlone, CaughtUp
<1> QED BY <1>1, <1>3, <1>4, <1>5, <1>6, WorkerKeeps

LEMMA LookKeeps ==
  ASSUME Inv, CollectSources
  PROVE  Inv'
<1> DEFINE held == [s \in Sources |-> SourceRow(s, job.title)]
<1>0. TypeOK /\ job \in JobRow /\ LookInv /\ UNCHANGED noteVars /\ NotesInv
  BY Typed DEF Inv, NotesInv, CollectSources, Looks
<1>1. /\ job.at = "open" /\ job' = [job EXCEPT !.at = "looked", !.passes = @ + 1, !.held = held]
      /\ unseen' = unseen \cap {"title"}
      /\ UNCHANGED <<texts, live, index, revived, searchVars, events>>
  BY DEF CollectSources, Looks
<1>2. \A s \in Sources : SourceRow(s, job.title) \in Row \cup {NoRow} /\ Owned(s, SourceRow(s, job.title))
  BY <1>0, SaysTyped DEF JobRow
<1>3. /\ held \in [Sources -> Row \cup {NoRow}]
      /\ \A s \in Sources : held[s] = SourceRow(s, job.title) /\ Owned(s, held[s])
  BY <1>2
<1> HIDE DEF held
<1>4. job.passes \in 0..MaxPasses /\ job.passes < MaxPasses /\ MaxPasses \in Nat
  BY <1>0, <1>1, IndexAssumption DEF JobRow, LookInv, JobPlaced
<1>5. job.passes + 1 \in 0..MaxPasses
  BY <1>4
<1>6. /\ job' \in JobRow /\ job'.held = held /\ job'.at = "looked" /\ job'.state = job.state
      /\ job'.title = job.title
  BY <1>0, <1>1, <1>3, <1>5 DEF JobRow, JobPoints
<1>7. \A s \in Sources : job'.held[s] = NoRow \/ Owned(s, job'.held[s])
  BY <1>3, <1>6
<1>8. \A s \in Sources : Current(s)' = Current(s)
  BY <1>0, <1>1, NotesUntouched, TextsSame DEF Sources
<1>9. LookStands'
  <2> SUFFICES ASSUME NEW s \in Sources PROVE held[s] = Current(s)' \/ Parts(s) \cap unseen' # {}
    BY <1>6 DEF LookStands, Seen
  <2>1. CASE job.title = texts.title
    BY <1>3, <1>8, <2>1 DEF Current
  <2>2. CASE job.title # texts.title /\ s # "recording"
    <3>1. SourceRow(s, job.title) = SourceRow(s, texts.title)
      BY <2>2, SaysNow DEF Sources, Texts
    <3> QED BY <1>3, <1>8, <3>1 DEF Current
  <2>3. CASE job.title # texts.title /\ s = "recording"
    <3>1. "title" \in unseen
      BY <1>0, <1>1, <2>3 DEF LookInv, TitleRead
    <3>2. "title" \in unseen'
      BY <1>1, <3>1
    <3> QED BY <2>3, <3>2, PartsOf
  <2> QED BY <2>1, <2>2, <2>3
<1>10. TitleRead'
  <2>1. job.title = texts.title \/ "title" \in unseen
    BY <1>0, <1>1 DEF LookInv, TitleRead
  <2> QED BY <1>1, <1>6, <2>1 DEF TitleRead
<1>11. JobPlaced' /\ LeftAlone' /\ CaughtUp'
  <2>1. job.state = "running"
    BY <1>0, <1>1 DEF LookInv, JobPlaced
  <2> QED BY <1>6, <2>1 DEF JobPlaced, LeftAlone, CaughtUp
<1>12. LookInv'
  BY <1>9, <1>10, <1>11 DEF LookInv
<1>13. events' \in 0..MaxEvents /\ unseen' \subseteq unseen
  BY <1>0, <1>1 DEF TypeOK
<1> QED BY <1>0, <1>1, <1>6, <1>7, <1>12, <1>13, WorkerKeeps

LEMMA SameRow ==
  ASSUME NEW s, NEW a \in Row, NEW b \in Row, a # NoRow, b # NoRow, Owned(s, a), Owned(s, b),
         a.words = b.words
  PROVE  a = b
BY DEF Owned, Row

LEMMA CompareKeeps ==
  ASSUME Inv, CompareRows
  PROVE  Inv'
<1> DEFINE over == {s \in Sources : job.held[s] = NoRow /\ index[s] # NoRow}
           stale == {s \in Sources : job.held[s] # NoRow
                       /\ (index[s] = NoRow \/ index[s].words # job.held[s].words)}
<1>0. TypeOK /\ job \in JobRow /\ LookInv /\ UNCHANGED noteVars /\ NotesInv /\ RowsOwned
      /\ index \in [Sources -> Row \cup {NoRow}] /\ job.held \in [Sources -> Row \cup {NoRow}]
  BY Typed DEF Inv, NotesInv, CompareRows, Compared, JobRow
<1>1. /\ job.at = "looked"
      /\ job' = IF stale \cup over = {} THEN [AtRest("running") EXCEPT !.at = "clean"]
                ELSE [job EXCEPT !.at = "embedding", !.stale = stale, !.over = over]
      /\ UNCHANGED <<noteVars, texts, live, index, unseen, revived, searchVars, events>>
  BY DEF CompareRows, Compared
<1>2. over \subseteq Sources /\ stale \subseteq Sources
  OBVIOUS
<1>3. \A s \in Sources \ (stale \cup over) : index[s] = job.held[s]
  <2> SUFFICES ASSUME NEW s \in Sources, s \notin stale, s \notin over PROVE index[s] = job.held[s]
    OBVIOUS
  <2>1. CASE job.held[s] = NoRow
    BY <2>1
  <2>2. CASE job.held[s] # NoRow
    <3>1. index[s] # NoRow /\ index[s].words = job.held[s].words
      BY <2>2
    <3>2. index[s] \in Row /\ job.held[s] \in Row /\ Owned(s, index[s]) /\ Owned(s, job.held[s])
      BY <1>0, <2>2, <3>1 DEF RowsOwned
    <3> QED BY <2>2, <3>1, <3>2, SameRow
  <2> QED BY <2>1, <2>2
<1>4. \A s \in over : job.held[s] = NoRow
  OBVIOUS
<1> HIDE DEF over, stale
<1>5. \A s \in Sources : Seen(s, job.held[s])
  BY <1>0, <1>1 DEF LookInv, LookStands, Last
<1>6. \A s \in Sources : Current(s)' = Current(s)
  BY <1>0, <1>1, NotesUntouched, TextsSame DEF Sources
<1>7. \A s \in Sources : \A row : Seen(s, row) => row = Current(s)' \/ Parts(s) \cap unseen' # {}
  BY <1>1, <1>6 DEF Seen
<1>8. job.state = "running" /\ (job.title = texts.title \/ "title" \in unseen)
  BY <1>0, <1>1 DEF LookInv, JobPlaced, TitleRead
<1>9. events' \in 0..MaxEvents /\ unseen' \subseteq unseen
  BY <1>0, <1>1 DEF TypeOK
<1>10. CASE stale \cup over = {}
  <2>1. job' = [AtRest("running") EXCEPT !.at = "clean"]
    BY <1>1, <1>10
  <2>2. /\ AtRest("running") \in JobRow /\ AtRest("running").held = NoSources
        /\ AtRest("running").state = "running"
    BY RestTyped DEF JobStates
  <2>3. job' \in JobRow /\ job'.held = NoSources /\ job'.at = "clean" /\ job'.state = "running"
    BY <2>1, <2>2 DEF JobRow, JobPoints
  <2>4. CaughtUp'
    <3>1. \A s \in Sources : index'[s] = job.held[s]
      BY <1>1, <1>3, <1>10
    <3>2. \A s \in Sources : index'[s] = Current(s)' \/ Parts(s) \cap unseen' # {}
      BY <1>5, <1>7, <3>1
    <3> QED BY <3>2 DEF CaughtUp, Seen
  <2>5. LookInv'
    BY <2>3, <2>4 DEF LookInv, JobPlaced, TitleRead, LookStands, Last, LeftAlone
  <2>6. \A s \in Sources : job'.held[s] = NoRow
    BY <2>3 DEF NoSources
  <2> QED BY <1>1, <1>9, <2>3, <2>5, <2>6, WorkerKeeps
<1>11. CASE stale \cup over # {}
  <2>1. job' = [job EXCEPT !.at = "embedding", !.stale = stale, !.over = over]
    BY <1>1, <1>11
  <2>2. /\ job' \in JobRow /\ job'.held = job.held /\ job'.at = "embedding" /\ job'.state = "running"
        /\ job'.stale = stale /\ job'.over = over /\ job'.title = job.title /\ job'.passes = job.passes
    BY <1>0, <1>2, <1>8, <2>1 DEF JobRow, JobPoints
  <2>3. LookStands'
    BY <1>5, <1>7, <2>2 DEF LookStands, Seen
  <2>4. LeftAlone'
    BY <1>1, <1>3, <1>4, <2>2 DEF LeftAlone
  <2>5. JobPlaced' /\ TitleRead' /\ CaughtUp'
    BY <1>1, <1>8, <2>2 DEF JobPlaced, TitleRead, CaughtUp
  <2>6. LookInv'
    BY <2>3, <2>4, <2>5 DEF LookInv
  <2>7. \A s \in Sources : Owned(s, job'.held[s])
    BY <1>0, <2>2 DEF RowsOwned
  <2> QED BY <1>1, <1>9, <2>2, <2>6, <2>7, WorkerKeeps
<1> QED BY <1>10, <1>11

(* The write lands what the look saw.  Every row is left owned as it was,  *)
(* and standing unless its note was removed meanwhile.                     *)
LEMMA RowsWritten ==
  ASSUME Inv, WriteRows
  PROVE  /\ index' \in [Sources -> Row \cup {NoRow}]
         /\ \A s \in Sources : Owned(s, index'[s])
         /\ \A s \in Sources : index'[s] = IF s \in job.stale THEN job.held[s]
                                           ELSE IF s \in job.over THEN NoRow ELSE index[s]
         /\ revived \subseteq revived' /\ revived' \subseteq NoteIds
         /\ \A n \in NoteIds : index'[n] # NoRow => Standing(n) \/ n \in revived'
<1>0. /\ TypeOK /\ job \in JobRow /\ RowsOwned /\ RowsStand /\ job.held \in [Sources -> Row \cup {NoRow}]
      /\ index \in [Sources -> Row \cup {NoRow}] /\ revived \subseteq NoteIds
  BY Typed DEF Inv, JobRow
<1>1. /\ index' = [s \in Sources |-> CASE s \in job.stale -> job.held[s]
                                       [] s \in job.over  -> NoRow
                                       [] OTHER           -> index[s]]
      /\ revived' = revived \cup {n \in job.stale \cap NoteIds : ~Standing(n)}
  BY DEF WriteRows, Reconcile
<1>7. \A s \in job.over : job.held[s] = NoRow
  BY DEF WriteRows, Reconcile, Inv, LookInv, LeftAlone
<1>2. ASSUME NEW s \in Sources
      PROVE  /\ index'[s] \in Row \cup {NoRow}
             /\ Owned(s, index'[s])
             /\ s \in job.stale => index'[s] = job.held[s]
             /\ s \notin job.stale /\ s \in job.over => index'[s] = NoRow
             /\ s \notin job.stale /\ s \notin job.over => index'[s] = index[s]
  <2>1. job.held[s] \in Row \cup {NoRow} /\ index[s] \in Row \cup {NoRow}
        /\ Owned(s, job.held[s]) /\ Owned(s, index[s]) /\ Owned(s, NoRow)
    BY <1>0, <1>2 DEF RowsOwned, Owned
  <2>2. CASE s \in job.stale
    <3>1. index'[s] = job.held[s]
      BY <1>1, <1>2, <1>7, <2>2
    <3> QED BY <2>1, <2>2, <3>1
  <2>3. CASE s \notin job.stale /\ s \in job.over
    <3>1. index'[s] = NoRow
      BY <1>1, <1>2, <2>3
    <3> QED BY <2>1, <2>3, <3>1
  <2>4. CASE s \notin job.stale /\ s \notin job.over
    <3>1. index'[s] = index[s]
      BY <1>1, <1>2, <2>4
    <3> QED BY <2>1, <2>4, <3>1
  <2> QED BY <2>2, <2>3, <2>4
<1>3. DOMAIN index' = Sources /\ index' = [s \in Sources |-> index'[s]]
  BY <1>1
<1>4. index' \in [Sources -> Row \cup {NoRow}]
  BY <1>2, <1>3
<1>5. \A n \in NoteIds : index'[n] # NoRow => Standing(n) \/ n \in revived'
  <2> SUFFICES ASSUME NEW n \in NoteIds, index'[n] # NoRow PROVE Standing(n) \/ n \in revived'
    OBVIOUS
  <2>1. n \in Sources
    BY DEF Sources
  <2>2. CASE n \in job.stale
    BY <1>1, <2>2
  <2>3. CASE n \notin job.stale
    <3>1. index[n] # NoRow
      BY <1>2, <2>1, <2>3
    <3> QED BY <1>0, <1>1, <3>1 DEF RowsStand
  <2> QED BY <2>2, <2>3
<1>6. revived \subseteq revived' /\ revived' \subseteq NoteIds
  BY <1>0, <1>1
<1> QED BY <1>2, <1>4, <1>5, <1>6

LEMMA WriteRowsKeeps ==
  ASSUME Inv, WriteRows
  PROVE  Inv'
<1>0. TypeOK /\ job \in JobRow /\ LookInv /\ UNCHANGED noteVars /\ NotesInv
  BY Typed DEF Inv, NotesInv, WriteRows, Reconcile
<1>1. /\ job.at = "embedding"
      /\ job' = IF job.passes = MaxPasses THEN [AtRest("running") EXCEPT !.at = "clean"]
                ELSE [job EXCEPT !.at = "open", !.held = NoSources, !.stale = {}, !.over = {}]
      /\ UNCHANGED <<texts, live, unseen, searchVars, events>>
  BY DEF WriteRows, Reconcile, LooksAgainUnless
<1>2. /\ index' \in [Sources -> Row \cup {NoRow}]
      /\ \A s \in Sources : Owned(s, index'[s])
      /\ \A s \in Sources : index'[s] = IF s \in job.stale THEN job.held[s]
                                        ELSE IF s \in job.over THEN NoRow ELSE index[s]
      /\ revived \subseteq revived' /\ revived' \subseteq NoteIds
      /\ \A n \in NoteIds : index'[n] # NoRow => Standing(n) \/ n \in revived'
  BY RowsWritten
<1>3. /\ NotesInv' /\ Present' = Present /\ UNCHANGED <<notes, gone, blocks, shunned>>
      /\ \A n \in NoteIds : (Standing(n)' <=> Standing(n)) /\ Current(n)' = Current(n)
  BY <1>0, NotesUntouched DEF noteVars
<1>4. \A s \in Sources : Current(s)' = Current(s)
  BY <1>1, <1>3, TextsSame DEF Sources
<1>5. job.state = "running" /\ (job.title = texts.title \/ "title" \in unseen)
      /\ job.passes \in 0..MaxPasses /\ MaxPasses \in Nat
  BY <1>0, <1>1, IndexAssumption DEF LookInv, JobPlaced, TitleRead, JobRow
<1>6. AtRest("running") \in JobRow /\ AtRest("running").held = NoSources /\ AtRest("running").state = "running"
  BY RestTyped DEF JobStates
<1>7. /\ job' \in JobRow /\ job'.held = NoSources /\ job'.state = "running"
      /\ job.passes = MaxPasses => job'.at = "clean"
      /\ job.passes # MaxPasses => job'.at = "open" /\ job'.passes < MaxPasses /\ job'.title = job.title
  <2>1. CASE job.passes = MaxPasses
    <3>1. job' = [AtRest("running") EXCEPT !.at = "clean"]
      BY <1>1, <2>1
    <3> QED BY <1>6, <2>1, <3>1 DEF JobRow, JobPoints
  <2>2. CASE job.passes # MaxPasses
    <3>1. job' = [job EXCEPT !.at = "open", !.held = NoSources, !.stale = {}, !.over = {}]
      BY <1>1, <2>2
    <3>2. NoSources \in [Sources -> Row \cup {NoRow}]
      BY DEF NoSources
    <3>3. job' \in JobRow /\ job'.held = NoSources /\ job'.at = "open" /\ job'.state = job.state
          /\ job'.passes = job.passes /\ job'.title = job.title
      BY <1>0, <3>1, <3>2 DEF JobRow, JobPoints
    <3>4. job.passes < MaxPasses
      BY <1>5, <2>2
    <3> QED BY <1>5, <2>2, <3>3, <3>4
  <2> QED BY <2>1, <2>2
<1>8. CaughtUp'
  <2> SUFFICES ASSUME job.passes = MaxPasses, NEW s \in Sources
               PROVE  index'[s] = Current(s) \/ Parts(s) \cap unseen # {}
    BY <1>1, <1>4, <1>7 DEF CaughtUp, Seen
  <2>1. Seen(s, job.held[s])
    BY <1>0, <1>1 DEF LookInv, LookStands, Last
  <2>2. /\ \A k \in job.over : job.held[k] = NoRow
        /\ \A k \in Sources \ (job.stale \cup job.over) :
             index[k] = job.held[k] \/ Parts(k) \cap unseen # {}
    BY <1>0, <1>1 DEF LookInv, LeftAlone
  <2>3. index'[s] = job.held[s] \/ Parts(s) \cap unseen # {}
    BY <1>2, <2>2
  <2> QED BY <2>1, <2>3 DEF Seen
<1>9. LookInv'
  BY <1>1, <1>5, <1>7, <1>8 DEF LookInv, JobPlaced, TitleRead, LookStands, Last, LeftAlone
<1>10. RowsOwned'
  <2>1. \A s \in Sources : OwnerOf(s)' = OwnerOf(s)
    BY <1>3 DEF OwnerOf
  <2>2. \A s \in Sources : job'.held[s] = NoRow
    BY <1>7 DEF NoSources
  <2> QED BY <1>2, <1>3, <2>1, <2>2 DEF RowsOwned, Owned
<1>11. SearchTypes' /\ AnswersAllowed'
  <2>1. \A m \in Present', n \in NoteIds : MayRead(m, n) => MayRead(m, n)'
    BY <1>2, <1>3 DEF MayRead, BlockBetween
  <2> QED BY <1>0, <1>1, <1>3, <2>1, AnswersKept DEF Inv
<1>12. RowsStand'
  BY <1>2, <1>3 DEF RowsStand
<1>13. TypeOK'
  BY <1>0, <1>1, <1>2, <1>3, <1>7, <1>11, Typed, TypedNext DEF NotesInv, TextTypes
<1> QED BY <1>3, <1>9, <1>10, <1>11, <1>12, <1>13 DEF Inv, NotesInv

LEMMA EmbedKeeps ==
  ASSUME Inv, EmbedStep \/ EmbedderFails \/ WorkerRestarts
  PROVE  Inv'
<1>1. ASSUME EmbedderFails \/ WorkerRestarts PROVE Inv'
  <2>1. /\ \E state \in JobStates \ {"running"} : job' = AtRest(state) /\ state \notin {"none", "done"}
        /\ UNCHANGED <<noteVars, texts, live, index, unseen, revived, searchVars>> /\ Happens
    BY <1>1 DEF EmbedderFails, WorkerRestarts, JobStates
  <2> QED BY <2>1, JobRests, HappensTyped DEF Inv
<1>2. ASSUME WriteRefused \/ RecordSuccess PROVE Inv'
  <2>1. /\ \E state \in JobStates \ {"running"} :
             job' = AtRest(state) /\ (state \in {"none", "done"} => job.at = "clean")
        /\ UNCHANGED <<noteVars, texts, live, index, unseen, revived, searchVars>> /\ UNCHANGED events
    BY <1>2 DEF WriteRefused, RecordSuccess, JobStates
  <2>2. events' \in 0..MaxEvents
    BY <2>1 DEF Inv, TypeOK
  <2> QED BY <2>1, <2>2, JobRests
<1> QED BY <1>1, <1>2, OpenKeeps, LookKeeps, CompareKeeps, WriteRowsKeeps DEF EmbedStep

-----------------------------------------------------------------------------
(* Searches.                                                               *)

LEMMA SearchStepKeeps ==
  ASSUME Inv, UNCHANGED <<noteVars, indexVars>>, events' \in 0..MaxEvents, SearchTypes', AnswersAllowed'
  PROVE  Inv'
BY AccountsStep, NotesUntouched, Typed DEF Inv, NotesInv

(* What a search finds, its reader may read.                               *)
LEMMA FoundAllowed ==
  ASSUME Inv, NEW m \in Present, NEW n \in NoteIds, VisibleTo(m, n)
  PROVE  live.recording /\ MayRead(m, n)
<1>1. /\ index[n] # NoRow /\ live.recording /\ index[n].owner \in {Nobody, m}
      /\ notes[n] # NoNote /\ ~BlockBetween(m, notes[n].author)
  BY DEF VisibleTo, Exists
<1>2. notes[n] \in Note /\ notes[n].author \in Members
  BY <1>1, WrittenNote DEF Inv, Note
<1>3. notes[n].private => notes[n].author = m
  <2>1. Owned(n, index[n])
    BY DEF Inv, RowsOwned, Sources
  <2> QED BY <1>1, <1>2, <2>1, NotesAssumption DEF Owned, OwnerOf
<1>4. <<m, notes[n].author>> \notin shunned
  BY <1>1, <1>2 DEF Inv, BlocksStand, BlockBetween
<1>5. Standing(n) \/ n \in revived
  BY <1>1 DEF Inv, RowsStand
<1> QED BY <1>1, <1>3, <1>4, <1>5 DEF MayRead

LEMMA SearchKeeps ==
  ASSUME Inv, NEW m \in Present, Search(m)
  PROVE  Inv'
<1>0. /\ TypeOK /\ SearchTypes /\ AnswersAllowed /\ m \in Members
      /\ UNCHANGED <<noteVars, indexVars, owed, events>>
  BY Typed DEF Inv, Present, Search, Ask, SearchEmbeddings, KeepAnswer, AnswerUnkept, Expire
<1>1. UNCHANGED <<notes, blocks, gone, leaving, shunned, live, revived>> /\ Present' = Present
  BY <1>0 DEF noteVars, indexVars, Present
<1>2. \A k \in Present : \A a : Allowed(k, a)' <=> Allowed(k, a)
  BY <1>1 DEF Allowed, MayRead, Standing, Exists, BlockBetween
<1>3. /\ \A k \in Present : cache'[k] # cache[k] /\ cache'[k] # NoRow =>
           searching[k].at = "found" /\ cache'[k] = [found |-> searching[k].found, outrun |-> searching[k].outrun]
      /\ \A k \in Present : searching'[k].at = "found" =>
           \/ searching'[k] = searching[k]
           \/ /\ searching'[k].found = {s \in Sources : VisibleTo(k, s)}
      /\ SearchTypes'
  <2>1. CASE Ask(m)
    <3>1. searching' = [searching EXCEPT ![m].at = "asked"] /\ cache' = cache
      BY <2>1 DEF Ask
    <3> QED BY <1>0, <3>1 DEF SearchTypes, Present
  <2>2. CASE SearchEmbeddings(m)
    <3>1. /\ searching' = [searching EXCEPT ![m] =
               [at |-> "found", found |-> {s \in Sources : VisibleTo(m, s)}, outrun |-> FALSE]]
          /\ cache' = cache
      BY <2>2 DEF SearchEmbeddings
    <3> QED BY <1>0, <3>1 DEF SearchTypes, Present
  <2>3. CASE KeepAnswer(m)
    <3>1. /\ searching[m].at = "found" /\ searching' = [searching EXCEPT ![m] = Idle]
          /\ cache' = [cache EXCEPT ![m] = [found |-> searching[m].found, outrun |-> searching[m].outrun]]
      BY <2>3 DEF KeepAnswer
    <3> QED BY <1>0, <3>1 DEF SearchTypes, Present, Idle
  <2>4. CASE AnswerUnkept(m)
    <3>1. searching' = [searching EXCEPT ![m] = Idle] /\ cache' = cache
      BY <2>4 DEF AnswerUnkept
    <3> QED BY <1>0, <3>1 DEF SearchTypes, Present, Idle
  <2>5. CASE Expire(m)
    <3>1. searching' = searching /\ cache' = [cache EXCEPT ![m] = NoRow]
      BY <2>5 DEF Expire
    <3> QED BY <1>0, <3>1 DEF SearchTypes, Present
  <2> QED BY <2>1, <2>2, <2>3, <2>4, <2>5 DEF Search
<1>4. AnswersAllowed'
  <2> SUFFICES ASSUME owed = 0, NEW k \in Present
               PROVE  /\ cache'[k] # NoRow => Allowed(k, cache'[k])
                      /\ searching'[k].at = "found" => Allowed(k, searching'[k])
    BY <1>0, <1>1, <1>2 DEF AnswersAllowed
  <2>1. /\ cache[k] # NoRow => Allowed(k, cache[k])
        /\ searching[k].at = "found" => Allowed(k, searching[k])
    BY <1>0 DEF AnswersAllowed
  <2>2. cache'[k] # NoRow => Allowed(k, cache'[k])
    <3> SUFFICES ASSUME cache'[k] # NoRow, cache'[k] # cache[k] PROVE Allowed(k, cache'[k])
      BY <2>1
    <3>1. /\ searching[k].at = "found"
          /\ cache'[k].found = searching[k].found /\ cache'[k].outrun = searching[k].outrun
      <4>1. /\ searching[k].at = "found"
            /\ cache'[k] = [found |-> searching[k].found, outrun |-> searching[k].outrun]
        BY <1>3, Zenon
      <4> QED BY <4>1
    <3> QED BY <2>1, <3>1 DEF Allowed
  <2>3. \A a : a.found = {s \in Sources : VisibleTo(k, s)} => Allowed(k, a)
    <3> SUFFICES ASSUME NEW a, a.found = {s \in Sources : VisibleTo(k, s)}, a.found # {}
                 PROVE  live.recording /\ \A n \in a.found \cap NoteIds : MayRead(k, n)
      BY DEF Allowed
    <3>1. live.recording
      BY DEF VisibleTo
    <3>2. \A n \in a.found \cap NoteIds : VisibleTo(k, n)
      OBVIOUS
    <3> QED BY <3>1, <3>2, FoundAllowed
  <2>4. searching'[k].at = "found" => Allowed(k, searching'[k])
    BY <1>3, <2>1, <2>3
  <2> QED BY <2>2, <2>4
<1>5. events' \in 0..MaxEvents
  BY <1>0 DEF TypeOK
<1> QED BY <1>0, <1>3, <1>4, <1>5, SearchStepKeeps

(* A clear forgets what is kept, and marks what was found before it.       *)
LEMMA ClearKeeps ==
  ASSUME Inv, ClearSearchCache \/ WebRestarts
  PROVE  Inv'
<1>0. TypeOK /\ SearchTypes /\ UNCHANGED <<noteVars, indexVars>>
  BY Typed DEF Inv, ClearSearchCache, WebRestarts
<1>1. /\ cache' = [m \in Members |-> NoRow] /\ Present' \subseteq Members
  BY DEF ClearSearchCache, WebRestarts, Present
<1>2. CASE ClearSearchCache
  <2>1. /\ owed > 0 /\ owed' = owed - 1 /\ UNCHANGED events
        /\ searching' = [m \in Members |-> [searching[m] EXCEPT !.outrun = searching[m].at = "found"]]
    BY <1>2 DEF ClearSearchCache
  <2>2. owed' \in Nat
    BY <1>0, <2>1 DEF SearchTypes
  <2>3. \A m \in Members : (searching[m].at = "found") \in BOOLEAN
    OBVIOUS
  <2>4. \A m \in Members : searching'[m].at = "found" => searching'[m].outrun
    BY <1>0, <2>1 DEF SearchTypes
  <2>5. SearchTypes'
    BY <1>0, <1>1, <2>1, <2>2, <2>3, ZenonT(60) DEF SearchTypes
  <2>6. AnswersAllowed'
    BY <1>1, <2>4 DEF AnswersAllowed, Allowed
  <2>7. events' \in 0..MaxEvents
    BY <1>0, <2>1 DEF TypeOK
  <2> QED BY <1>0, <2>5, <2>6, <2>7, SearchStepKeeps
<1>3. CASE WebRestarts
  <2>1. owed' = 0 /\ Happens /\ searching' = [m \in Members |-> Idle]
    BY <1>3 DEF WebRestarts
  <2>2. SearchTypes' /\ AnswersAllowed'
    BY <1>1, <2>1 DEF SearchTypes, AnswersAllowed, Idle
  <2> QED BY <1>0, <2>1, <2>2, HappensTyped, SearchStepKeeps
<1> QED BY <1>2, <1>3

-----------------------------------------------------------------------------
(* The specification.                                                      *)

LEMMA InitiallyAllowed == Init => Inv
<1> SUFFICES ASSUME Init PROVE Inv
  OBVIOUS
<1> DEFINE written == [author : Members, private : BOOLEAN, words : {1}, standing : {TRUE}]
<1>1. /\ notes \in [NoteIds -> {NoNote} \cup written] /\ blocks = {} /\ gone = {} /\ leaving = NoLeaving
      /\ shunned = {}
  BY DEF Init, NotesInit
<1>2. written \subseteq Note
  <2>1. \A w \in {1} : w \in Nat
    OBVIOUS
  <2>2. \A w \in {TRUE} : w \in BOOLEAN
    OBVIOUS
  <2> QED BY <2>1, <2>2, Zenon DEF Note
<1>3. NotesTypeOK
  <2>1. notes \in [NoteIds -> Note \cup {NoNote}]
    BY <1>1, <1>2
  <2>2. leaving \in [who : Members \cup {Nobody}, carried : SUBSET (Members \X Members), torn : BOOLEAN]
    BY <1>1 DEF NoLeaving
  <2> QED BY <1>1, <2>1, <2>2 DEF NotesTypeOK
<1>4. BlocksStand
  BY <1>1 DEF BlocksStand, NoLeaving
<1>5. /\ texts = [transcript |-> 1, title |-> 1, summary |-> 0]
      /\ live = [recording |-> TRUE, summary |-> FALSE]
      /\ index = [s \in Sources |-> Current(s)] /\ job = AtRest("none")
      /\ searching = [m \in Members |-> Idle] /\ cache = [m \in Members |-> NoRow]
      /\ owed = 0 /\ unseen = {} /\ revived = {} /\ events = 0
  BY DEF Init
<1> HIDE DEF written, Init
<1>6. TextTypes
  BY <1>5 DEF TextTypes
<1>7. SearchTypes
  BY <1>5 DEF SearchTypes, Idle
<1>8. job \in JobRow /\ job.held = NoSources /\ job.state = "none" /\ job.at = ""
  BY <1>5, RestTyped DEF JobStates
<1>9. \A s \in Sources : Current(s) \in Row \cup {NoRow} /\ Owned(s, Current(s))
  <2> SUFFICES ASSUME NEW s \in Sources PROVE Current(s) \in Row \cup {NoRow} /\ Owned(s, Current(s))
    OBVIOUS
  <2>1. texts.transcript = 1 /\ texts.title = 1 /\ texts.summary = 0 /\ live.summary = FALSE
    BY <1>5
  <2>2. CASE s \in Texts
    <3>1. OwnerOf(s) = Nobody /\ s \notin NoteIds
      BY <2>2, PartsOf DEF OwnerOf
    <3>2. Current(s) = NoRow \/ \E a, b \in Nat : Current(s) = RowOf(a, b, Nobody)
      BY <2>1, <2>2, TheySay DEF SourcesSay, Texts
    <3>3. CASE \E a, b \in Nat : Current(s) = RowOf(a, b, Nobody)
      BY <3>1, <3>3, RowTyped DEF Owned, RowOf
    <3> QED BY <3>2, <3>3 DEF Owned
  <2>3. CASE s \in NoteIds
    <3>1. Current(s) = IF Standing(s) THEN RowOf(notes[s].words, 0, OwnerOf(s)) ELSE NoRow
      BY <2>3, TheySay DEF SourcesSay
    <3>2. CASE Standing(s)
      <4>1. notes[s] # NoNote
        BY <3>2 DEF Standing, Exists
      <4>2. notes[s].words \in Nat /\ OwnerOf(s) \in Members \cup {Nobody}
        BY <1>3, <2>3, <4>1 DEF NotesTypeOK, Note, OwnerOf
      <4>3. RowOf(notes[s].words, 0, OwnerOf(s)) \in Row
        BY <4>2, RowTyped
      <4>4. RowOf(notes[s].words, 0, OwnerOf(s)).owner = OwnerOf(s)
        BY DEF RowOf
      <4> QED BY <3>1, <3>2, <4>1, <4>3, <4>4 DEF Owned
    <3> QED BY <3>1, <3>2 DEF Owned
  <2> QED BY <2>2, <2>3 DEF Sources
<1>10. TypeOK
  <2>1. index \in [Sources -> Row \cup {NoRow}]
    BY <1>5, <1>9
  <2>2. events \in 0..MaxEvents
    BY <1>5, IndexAssumption
  <2> QED BY <1>3, <1>5, <1>6, <1>7, <1>8, <2>1, <2>2, Typed
<1>11. RowsOwned
  <2>1. \A s \in Sources : index[s] = Current(s) /\ job.held[s] = NoRow
    BY <1>5, <1>8 DEF NoSources
  <2> QED BY <1>9, <2>1 DEF RowsOwned, Owned
<1>12. LookInv
  <2>1. CaughtUp
    BY <1>5 DEF CaughtUp, Seen
  <2> QED BY <1>8, <2>1 DEF LookInv, JobPlaced, TitleRead, LookStands, Last, LeftAlone
<1>13. RowsStand
  <2>1. \A n \in NoteIds : index[n] # NoRow => Standing(n)
    BY <1>5, TheySay DEF SourcesSay, Sources
  <2> QED BY <2>1 DEF RowsStand
<1>14. AnswersAllowed
  BY <1>5 DEF AnswersAllowed, Idle, Present
<1> QED BY <1>4, <1>10, <1>11, <1>12, <1>13, <1>14 DEF Inv

LEMMA Inductive == Inv /\ [Next]_vars => Inv'
<1> SUFFICES ASSUME Inv, [Next]_vars PROVE Inv'
  OBVIOUS
<1>1. ASSUME NEW m \in Present, MemberWrite(m) PROVE Inv'
  BY <1>1, CreateNoteKeeps, EditNoteKeeps, DeleteNoteKeeps, BlockStepKeeps, LeavingStepKeeps DEF MemberWrite
<1>2. CASE UNCHANGED vars
  <2>1. UNCHANGED <<noteVars, indexVars, searchVars, events>>
    BY <1>2 DEF vars
  <2>2. events' \in 0..MaxEvents
    BY <2>1 DEF Inv, TypeOK
  <2>3. NotesInv /\ UNCHANGED noteVars /\ UNCHANGED <<live, revived>>
    BY <2>1, Typed DEF Inv, NotesInv, indexVars
  <2>4. \A m \in Present', n \in NoteIds : MayRead(m, n) => MayRead(m, n)'
    BY <2>3, NotesUntouched DEF Present
  <2>5. SearchTypes' /\ AnswersAllowed'
    BY <2>1, <2>3, <2>4, NotesUntouched, AnswersKept DEF Inv
  <2> QED BY <2>1, <2>2, <2>5, SearchStepKeeps
<1>3. CASE Next
  BY <1>1, <1>3, EmbedKeeps, TextWriteKeeps, SearchKeeps, AccountGoneKeeps, LeavingStepKeeps, ClearKeeps
     DEF Next
<1> QED BY <1>2, <1>3

(* The invariant behind the rest.                                          *)
THEOREM InvariantHolds == Spec => []Inv
<1>1. Inv /\ [Next]_vars => Inv'
  BY Inductive
<1> QED BY InitiallyAllowed, <1>1, PTL DEF Spec

(* The notes, the index, the job, the searches and the kept answers are    *)
(* typed.                                                                  *)
THEOREM TypeCorrect == Spec => []TypeOK
<1>1. Inv => TypeOK
  BY DEF Inv
<1> QED BY <1>1, InvariantHolds, PTL

(* When the embed job is done the index says what its sources say, except  *)
(* for what changed after the last look, as IndexCatchesUp names it.       *)
THEOREM IndexFollows == Spec => []IndexCatchesUp
<1>1. Inv => IndexCatchesUp
  BY DEF Inv, LookInv, CaughtUp, Seen, IndexCatchesUp
<1> QED BY <1>1, InvariantHolds, PTL

(* Whenever no clear is owed, a kept answer holds nothing that its reader  *)
(* may not see.                                                            *)
THEOREM KeptAllowed == Spec => []KeptIsStillAllowed
<1>1. Inv => KeptIsStillAllowed
  BY DEF Inv, AnswersAllowed, Allowed, MayRead, KeptIsStillAllowed
<1> QED BY <1>1, InvariantHolds, PTL
=============================================================================
