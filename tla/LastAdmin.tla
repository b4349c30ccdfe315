------------------------------ MODULE LastAdmin ------------------------------
(***************************************************************************)
(* "At least one admin account must exist at all times": the writes that   *)
(* deactivate, promote, demote or delete an account, each one READ         *)
(* COMMITTED transaction that first takes a row lock on every active admin *)
(* (db/src/accounts.ts, withLastAdminGuard; db/src/account-deletion.ts),   *)
(* beside the writes that need no guard: reactivation and an invitation    *)
(* accepted.                                                               *)
(*                                                                         *)
(* A statement is a step. Of PostgreSQL the model keeps what the guard     *)
(* leans on: a statement sees what was committed when it began, a row that *)
(* is locked is waited for, a row waited for is tested again as it is then *)
(* committed, locks last until the transaction ends, and one transaction   *)
(* of a cycle of waiting ones is rolled back.                              *)
(***************************************************************************)
EXTENDS Naturals

CONSTANTS
  Members,   \* the ids of accounts, in the order the guard locks them
  Connections,  \* the web process's, which may each run a guarded write
  NoOne      \* no request holds the row

ASSUME MembersAssumption == Members \subseteq Nat
ASSUME ConnectionsAssumption == NoOne \notin Connections

VARIABLES
  users,       \* the user rows as committed
  lock,        \* which request holds each row
  tx,          \* the guarded write each request is running
  emptyHanded  \* history: some request went on to its write having counted no admin at all

guardVars == <<users, lock, tx, emptyHanded>>

UserRow == [role : {"admin", "member"}, status : {"absent", "active", "deactivated", "deleted"}]
GuardedWrites == {"deactivate", "promote", "demote", "delete"}
NoWrite == [pc |-> "idle", kind |-> "none", target |-> 0, toLock |-> {}, counted |-> {}]

ActiveAdmin(m) == users[m].status = "active" /\ users[m].role = "admin"
Registered(m) == users[m].status \in {"active", "deactivated"}

(* The transaction ends: its locks go, and with them its part in the rest. *)
Finish(r) ==
  /\ tx' = [tx EXCEPT ![r] = NoWrite]
  /\ lock' = [m \in Members |-> IF lock[m] = r THEN NoOne ELSE lock[m]]
FreeFor(r, m) == lock[m] \in {NoOne, r}

-----------------------------------------------------------------------------
(* An admin's click, or a member ending their own account. The first       *)
(* statement's snapshot is the active admins of this moment.               *)
Begin(r, kind, m) ==
  /\ tx[r].pc = "idle"
  /\ users[m].status # "absent"
  /\ tx' = [tx EXCEPT ![r] = [pc |-> "counting", kind |-> kind, target |-> m,
                              toLock |-> {a \in Members : ActiveAdmin(a)}, counted |-> {}]]
  /\ UNCHANGED <<users, lock, emptyHanded>>

(* ... order by id for update: the rows are locked one after the other,    *)
(* and one that is no active admin any more is locked and left out. A row  *)
(* deleted meanwhile is passed over.                                       *)
NextToLock(r) == {m \in tx[r].toLock : \A other \in tx[r].toLock : m <= other}
LockAdmin(r) ==
  /\ tx[r].pc = "counting"
  /\ \E m \in NextToLock(r) :
       /\ FreeFor(r, m)
       /\ lock' = IF users[m].status = "deleted" THEN lock ELSE [lock EXCEPT ![m] = r]
       /\ tx' = [tx EXCEPT ![r].toLock = @ \ {m},
                           ![r].counted = IF ActiveAdmin(m) THEN @ \cup {m} ELSE @]
  /\ UNCHANGED <<users, emptyHanded>>

(* The target's row is read, not locked, and the write is refused (no such *)
(* account, or the last admin) or allowed.                                 *)
WouldRemoveAnAdmin(r) == ActiveAdmin(tx[r].target) /\ tx[r].kind # "promote"
GuardRefusesAlone(r) ==   \* mutant: the target is counted among those who stay
  \/ ~Registered(tx[r].target)
  \/ WouldRemoveAnAdmin(r) /\ tx[r].counted = {}
GuardRefuses(r) ==
  \/ ~Registered(tx[r].target)
  \/ WouldRemoveAnAdmin(r) /\ tx[r].counted \subseteq {tx[r].target}

RefuseHolding(r) ==   \* mutant: the transaction is left open
  /\ tx[r].pc = "counting" /\ tx[r].toLock = {}
  /\ GuardRefuses(r)
  /\ tx' = [tx EXCEPT ![r] = NoWrite]
  /\ UNCHANGED <<users, lock, emptyHanded>>
Refuse(r) ==
  /\ tx[r].pc = "counting" /\ tx[r].toLock = {}
  /\ GuardRefuses(r)
  /\ Finish(r)
  /\ UNCHANGED <<users, emptyHanded>>

Allow(r) ==
  /\ tx[r].pc = "counting" /\ tx[r].toLock = {}
  /\ ~GuardRefuses(r)
  /\ tx' = [tx EXCEPT ![r].pc = "writing"]
  /\ emptyHanded' = (emptyHanded \/ tx[r].counted = {})
  /\ UNCHANGED <<users, lock>>

(* The write's own condition, on the row as it is committed once its lock  *)
(* is free: deactivated_at is null; role <> the new one; the row is there. *)
Matches(r) ==
  LET row == users[tx[r].target]
  IN  CASE tx[r].kind = "deactivate" -> row.status = "active"
        [] tx[r].kind = "promote" -> Registered(tx[r].target) /\ row.role # "admin"
        [] tx[r].kind = "demote" -> Registered(tx[r].target) /\ row.role # "member"
        [] OTHER -> Registered(tx[r].target)

Write(r) ==
  /\ tx[r].pc = "writing"
  /\ FreeFor(r, tx[r].target)
  /\ Matches(r)
  /\ lock' = [lock EXCEPT ![tx[r].target] = r]
  /\ tx' = [tx EXCEPT ![r].pc = "written"]
  /\ UNCHANGED <<users, emptyHanded>>

WriteNothing(r) ==
  /\ tx[r].pc = "writing"
  /\ FreeFor(r, tx[r].target)
  /\ ~Matches(r)
  /\ Finish(r)
  /\ UNCHANGED <<users, emptyHanded>>

WrittenRoleless(row, kind) ==   \* mutant: a deletion takes the role and leaves the row
  CASE kind = "deactivate" -> [row EXCEPT !.status = "deactivated"]
    [] kind = "promote" -> [row EXCEPT !.role = "admin"]
    [] kind = "demote" -> [row EXCEPT !.role = "member"]
    [] OTHER -> [row EXCEPT !.role = "none"]
Written(row, kind) ==
  CASE kind = "deactivate" -> [row EXCEPT !.status = "deactivated"]
    [] kind = "promote" -> [row EXCEPT !.role = "admin"]
    [] kind = "demote" -> [row EXCEPT !.role = "member"]
    [] OTHER -> [row EXCEPT !.status = "deleted"]

Commit(r) ==
  /\ tx[r].pc = "written"
  /\ users' = [users EXCEPT ![tx[r].target] = Written(@, tx[r].kind)]
  /\ Finish(r)
  /\ UNCHANGED emptyHanded

(* The connection is lost, or the web process goes: rolled back.           *)
LoseConnection(r) ==
  /\ tx[r].pc # "idle"
  /\ Finish(r)
  /\ UNCHANGED <<users, emptyHanded>>

(* Deadlock detection: one of the transactions that wait for each other.   *)
Awaits(r) ==
  {m \in (IF tx[r].pc = "writing" THEN {tx[r].target} ELSE NextToLock(r)) : ~FreeFor(r, m)}
WaitsFor(r, q) == \E m \in Awaits(r) : lock[m] = q
Victim(r) ==
  /\ \E cycle \in SUBSET Connections :
       /\ r \in cycle
       /\ \A q \in cycle : (\E p \in cycle : WaitsFor(q, p)) /\ (\E p \in cycle : WaitsFor(p, q))
  /\ Finish(r)
  /\ UNCHANGED <<users, emptyHanded>>

-----------------------------------------------------------------------------
(* Outside the guard, "restoring an account can only ever increase the     *)
(* number of active admins"; each is one statement on one row.             *)
ReactivateUser(m) ==
  /\ users[m].status = "deactivated"
  /\ lock[m] = NoOne
  /\ users' = [users EXCEPT ![m].status = "active"]
  /\ UNCHANGED <<lock, tx, emptyHanded>>

InsertInvitedUser(m, role) ==
  /\ users[m].status = "absent"
  /\ users' = [users EXCEPT ![m] = [role |-> role, status |-> "active"]]
  /\ UNCHANGED <<lock, tx, emptyHanded>>

-----------------------------------------------------------------------------
(* The operator has seeded the first admin; every other id is yet to come. *)
GuardInit ==
  /\ \E first \in Members :
       users = [m \in Members |-> IF m = first THEN [role |-> "admin", status |-> "active"]
                                  ELSE [role |-> "member", status |-> "absent"]]
  /\ lock = [m \in Members |-> NoOne]
  /\ tx = [r \in Connections |-> NoWrite]
  /\ emptyHanded = FALSE

GuardedStep(r) ==
  LockAdmin(r) \/ Refuse(r) \/ Allow(r) \/ Write(r) \/ WriteNothing(r) \/ Commit(r) \/ Victim(r)

GuardNext ==
  \/ \E r \in Connections :
       \/ \E kind \in GuardedWrites, m \in Members : Begin(r, kind, m)
       \/ GuardedStep(r)
       \/ LoseConnection(r)
  \/ \E m \in Members :
       \/ ReactivateUser(m)
       \/ \E role \in {"admin", "member"} : InsertInvitedUser(m, role)

(* A transaction that can go on goes on, and one that waits for a row that *)
(* comes free again and again is not passed over for ever.                 *)
GuardSpec == GuardInit /\ [][GuardNext]_guardVars /\ \A r \in Connections : SF_guardVars(GuardedStep(r))

-----------------------------------------------------------------------------
(* Properties.                                                             *)

Transaction == [pc : {"idle", "counting", "writing", "written"}, kind : GuardedWrites \cup {"none"},
                target : Nat, toLock : SUBSET Members, counted : SUBSET Members]

GuardTypeOK ==
  /\ users \in [Members -> UserRow]
  /\ lock \in [Members -> Connections \cup {NoOne}]
  /\ tx \in [Connections -> Transaction]
  /\ \A r \in Connections : tx[r].pc # "idle" => tx[r].kind \in GuardedWrites /\ tx[r].target \in Members
  /\ emptyHanded \in BOOLEAN

(* "The count it decides on is the count that will still be true when the  *)
(* update lands": whoever a request has counted stays an active admin for  *)
(* as long as the request runs.                                            *)
CountStands ==
  \A r \in Connections : \A m \in tx[r].counted : ActiveAdmin(m)

(* Two writes never hold the same row, so no update is lost under another. *)
OneWriterPerAccount ==
  \A r, q \in Connections :
    r # q /\ tx[r].pc = "written" /\ tx[q].pc = "written" => tx[r].target # tx[q].target

(* At least one admin account exists at all times ...                      *)
AtLeastOneAdmin == \E m \in Members : ActiveAdmin(m)

(* ... unless a request that counted nobody was let through to its write,  *)
(* which is the only way past the guard.                                   *)
GuardKeepsAnAdmin == emptyHanded \/ AtLeastOneAdmin

(* Every guarded write ends: none waits for ever on rows that others hold. *)
WritesEnd == \A r \in Connections : tx[r].pc # "idle" ~> tx[r].pc = "idle"
=============================================================================
