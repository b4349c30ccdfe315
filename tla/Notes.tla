------------------------------- MODULE Notes -------------------------------
(***************************************************************************)
(* Members' notes on one teaching, who has blocked whom, and accounts that *)
(* are deleted: web/src/server/notes/service.ts, blocks/service.ts,        *)
(* db/src/{notes,member-blocks,account-deletion}.ts.                       *)
(*                                                                         *)
(* An action is one transaction on the database.  A deleted account's      *)
(* public notes are handed to a placeholder made for it; the placeholder   *)
(* of m is written here as m itself, once m is in gone.                    *)
(*                                                                         *)
(* This module has no next-state relation of its own: SearchIndex composes *)
(* its writes with the embed jobs they queue and the kept searches they    *)
(* must end.                                                               *)
(***************************************************************************)
EXTENDS Naturals

CONSTANTS
    Members,  \* the accounts
    Admins,   \* those of them who moderate
    NoteIds,  \* the notes that may be written on the teaching
    NoNote,   \* a note nobody has written
    Nobody    \* no account

ASSUME NotesAssumption ==
    /\ Admins \subseteq Members
    /\ Nobody \notin Members
    /\ NoNote \notin [author : Members, private : BOOLEAN, words : Nat, standing : BOOLEAN]

VARIABLES
    notes,    \* the note table
    blocks,   \* the member_block table: <<who blocks, whom>>
    gone,     \* the accounts that were deleted
    leaving,  \* the account deletion that is open, the blocks it has read, and
              \* whether its account wrote a note since
    shunned   \* history: blocks placed and not taken back by who placed them

noteVars == <<notes, blocks, gone, leaving, shunned>>

Note == [author : Members, private : BOOLEAN, words : Nat, standing : BOOLEAN]

NoLeaving == [who |-> Nobody, carried |-> {}, torn |-> FALSE]

NotesTypeOK ==
    /\ notes \in [NoteIds -> Note \cup {NoNote}]
    /\ blocks \subseteq Members \X Members
    /\ gone \subseteq Members
    /\ leaving \in [who : Members \cup {Nobody}, carried : SUBSET (Members \X Members),
                    torn : BOOLEAN]
    /\ shunned \subseteq Members \X Members

Present == Members \ gone

(* A private note goes with its author's account; a public one stays.      *)
Exists(n) == notes[n] # NoNote /\ ~(notes[n].private /\ notes[n].author \in gone)

Standing(n) == Exists(n) /\ notes[n].standing

(* The block condition, in both directions.                                *)
BlockBetween(a, b) == <<a, b>> \in blocks \/ <<b, a>> \in blocks

(* The deletion that is open has written the notes of who leaves: another  *)
(* statement that would write one waits for it.                            *)
Locked(n) == notes[n].author = leaving.who

(* It also holds the rows of all active admins, against the last one going: *)
(* a row that would refer to one waits.                                     *)
RowLocked(m) == leaving # NoLeaving /\ m \in Admins \ gone

-----------------------------------------------------------------------------

InsertNote(m, n, private) ==
    /\ notes[n] = NoNote
    /\ ~RowLocked(m)
    /\ notes' = [notes EXCEPT ![n] =
         [author |-> m, private |-> private, words |-> 1, standing |-> TRUE]]
    /\ leaving' = [leaving EXCEPT !.torn = @ \/ leaving.who = m]
    /\ UNCHANGED <<blocks, gone, shunned>>

UpdateNoteText(m, n) ==
    /\ Standing(n) /\ ~Locked(n)
    /\ notes[n].author = m
    /\ notes' = [notes EXCEPT ![n].words = @ + 1]
    /\ UNCHANGED <<blocks, gone, leaving, shunned>>

(* One's own, or for an admin anybody's public one.                        *)
SoftDeleteNote(m, n) ==
    /\ Standing(n) /\ ~Locked(n)
    /\ notes[n].author = m \/ (m \in Admins /\ ~notes[n].private)
    /\ notes' = [notes EXCEPT ![n].standing = FALSE]
    /\ UNCHANGED <<blocks, gone, leaving, shunned>>

(* A block placed while its target's deletion is open is lost with the     *)
(* account: the deletion has read the blocks and does not read them again. *)
(* shunned leaves that one out.                                            *)
InsertMemberBlock(m, other) ==
    /\ m # other
    /\ <<m, other>> \notin blocks
    /\ ~RowLocked(m) /\ ~RowLocked(other)
    /\ blocks' = blocks \cup {<<m, other>>}
    /\ shunned' = IF leaving.who = other THEN shunned ELSE shunned \cup {<<m, other>>}
    /\ UNCHANGED <<notes, gone, leaving>>

DeleteMemberBlock(m, other) ==
    /\ <<m, other>> \in blocks
    /\ blocks' = blocks \ {<<m, other>>}
    /\ shunned' = shunned \ {<<m, other>>}
    /\ UNCHANGED <<notes, gone, leaving>>

(* The statements of an account deletion up to the one that deletes the    *)
(* row: public notes and the blocks against the account are handed over.   *)
StartLeaving(m) ==
    /\ leaving = NoLeaving
    /\ \E admin \in Admins \ gone : admin # m
    /\ leaving' = [who |-> m, carried |-> {b \in blocks : b[2] = m}, torn |-> FALSE]
    /\ UNCHANGED <<notes, blocks, gone, shunned>>

(* The row goes, and with it every block that named the account.           *)
CommitLeaving ==
    /\ leaving # NoLeaving /\ ~leaving.torn
    /\ gone' = gone \cup {leaving.who}
    /\ blocks' = {b \in blocks : leaving.who \notin {b[1], b[2]}} \cup leaving.carried
    /\ leaving' = NoLeaving
    /\ UNCHANGED <<notes, shunned>>

(* A note written meanwhile still names the account, and the row stays.    *)
RollBackLeaving ==
    /\ leaving.torn
    /\ leaving' = NoLeaving
    /\ UNCHANGED <<notes, blocks, gone, shunned>>

NotesInit ==
    /\ notes \in [NoteIds -> {NoNote} \cup
                   [author : Members, private : BOOLEAN, words : {1}, standing : {TRUE}]]
    /\ blocks = {}
    /\ gone = {}
    /\ leaving = NoLeaving
    /\ shunned = {}
=============================================================================
