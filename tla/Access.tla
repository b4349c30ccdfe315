------------------------------ MODULE Access ------------------------------
(***************************************************************************)
(* How one address comes to an account and out of it again: invitations,   *)
(* sign-in, sessions, password resets, deactivation and deletion.          *)
(* web/src/server/{invitations,password-reset,account-deletion,accounts,   *)
(* auth}, db/src/{invitations,password-resets,account-deletion-requests,   *)
(* sessions}.ts.                                                           *)
(*                                                                         *)
(* The requests are handled side by side; an action is one statement or    *)
(* one transaction whose row locks make it one.  A link is a row and the   *)
(* mail that carries its token; "life" counts the accounts the address has *)
(* had, as a row names the account it belongs to by id.                    *)
(***************************************************************************)
EXTENDS Naturals, Sequences, FiniteSets

CONSTANTS
    Requests,      \* requests in progress at a time, of anyone
    MaxLinks,      \* bound: links ever issued
    MaxSessions,   \* bound: sessions ever opened
    MaxChanges     \* bound: passwords set, deactivations and reactivations

ASSUME AccessAssumption == MaxLinks \in Nat /\ MaxSessions \in Nat /\ MaxChanges \in Nat

VARIABLES
    account,   \* the row of the address
    links,     \* rows of invitation, password_reset, account_deletion_request
    sessions,  \* rows of session; "gone" is deleted with the account
    request,   \* what each request knows and where it stands
    changes    \* how many changes the account has been through

vars == <<account, links, sessions, request, changes>>

-----------------------------------------------------------------------------

Kinds == {"invitation", "reset", "deletion"}

(* "over" is history: the row was written before its account was erased;   *)
(* or it is a session or a reset, written before a password was set or     *)
(* before a deactivation that came to its end.                             *)
Link == [kind : Kinds, life : Nat, state : {"live", "revoked", "used", "gone"},
         lapsed : BOOLEAN, mailed : BOOLEAN, over : BOOLEAN]

Session == [life : Nat, state : {"live", "revoked", "gone"}, over : BOOLEAN]

Account == [state : {"none", "active", "deactivated"}, life : Nat]

Points == {"idle", "unknown", "insert", "send", "undelivered", "opened", "session",
           "endSessions", "endResets"}

Idle == [at |-> "idle", kind |-> "none", life |-> 0, link |-> 0, opened |-> 0]

Request == [at : Points, kind : Kinds \cup {"none"}, life : Nat, link : Nat, opened : Nat]

LinkIds == 1..Len(links)

TypeOK ==
    /\ account \in Account
    /\ links \in Seq(Link) /\ Len(links) <= MaxLinks
    /\ sessions \in Seq(Session) /\ Len(sessions) <= MaxSessions
    /\ request \in [Requests -> Request]
    /\ changes \in 0..MaxChanges

Exists(life) == account.state # "none" /\ account.life = life

(* Neither revoked nor used; a lapsed one counts, as in the unique index.  *)
Open(kind) == {i \in LinkIds : links[i].kind = kind /\ links[i].state = "live"}

Works(i) == links[i].state = "live" /\ ~links[i].lapsed

Changes == changes < MaxChanges /\ changes' = changes + 1

Ends(r) == request' = [request EXCEPT ![r] = Idle]

Goes(r, at) == request' = [request EXCEPT ![r].at = at]

RevokeSessions(rows) ==
    [s \in DOMAIN rows |-> IF rows[s].state = "live" THEN [rows[s] EXCEPT !.state = "revoked"] ELSE rows[s]]

(* Mutant: a link ended early is marked as one that has run out.           *)
ExpireLinks(rows, kind, life) ==
    [i \in DOMAIN rows |->
        IF rows[i].kind = kind /\ rows[i].state = "live" /\ rows[i].life = life
        THEN [rows[i] EXCEPT !.state = "expired"] ELSE rows[i]]

RevokeLinks(rows, kind, life) ==
    [i \in DOMAIN rows |->
        IF rows[i].kind = kind /\ rows[i].state = "live" /\ rows[i].life = life
        THEN [rows[i] EXCEPT !.state = "revoked"] ELSE rows[i]]

(* History: the first n rows are over.                                     *)
Over(rows, n) == [i \in DOMAIN rows |-> IF i <= n THEN [rows[i] EXCEPT !.over = TRUE] ELSE rows[i]]

(* History: those of the first n that are resets.                          *)
ResetsOver(rows, n) ==
    [i \in DOMAIN rows |-> IF i <= n /\ rows[i].kind = "reset" THEN [rows[i] EXCEPT !.over = TRUE] ELSE rows[i]]

-----------------------------------------------------------------------------
(* Asking for a link.                                                      *)

Asks(r, kind, at) ==
    /\ request[r].at = "idle"
    /\ request' = [request EXCEPT ![r] = [Idle EXCEPT !.at = at, !.kind = kind, !.life = account.life]]

(* issueInvitation: the address has no account.                            *)
IssueInvitation(r) ==
    /\ account.state = "none"
    /\ Asks(r, "invitation", "unknown")
    /\ UNCHANGED <<account, links, sessions, changes>>

(* Nor an open invitation.                                                 *)
FindLiveInvitation(r) ==
    /\ request[r].at = "unknown"
    /\ IF Open("invitation") = {} THEN Goes(r, "insert") ELSE Ends(r)
    /\ UNCHANGED <<account, links, sessions, changes>>

(* The old link is revoked and the new one written in two statements.      *)
ResendInvitation(r) ==
    \E i \in Open("invitation") :
        /\ Asks(r, "invitation", "insert")
        /\ links' = [links EXCEPT ![i].state = "revoked"]
        /\ UNCHANGED <<account, sessions, changes>>

RevokeInvitation ==
    \E i \in Open("invitation") :
        /\ links' = [links EXCEPT ![i].state = "revoked"]
        /\ UNCHANGED <<account, sessions, request, changes>>

(* settleRequest.  Whether the resend interval has passed is left open.    *)
RequestReset(r) ==
    /\ account.state = "active"
    /\ Asks(r, "reset", "insert")
    /\ UNCHANGED <<account, links, sessions, changes>>

RequestDeletion(r) ==
    /\ account.state # "none"
    /\ Asks(r, "deletion", "insert")
    /\ UNCHANGED <<account, links, sessions, changes>>

Inserts(r, rows) ==
    /\ Len(rows) < MaxLinks
    /\ links' = Append(rows, [kind |-> request[r].kind, life |-> request[r].life, state |-> "live",
                              lapsed |-> FALSE, mailed |-> FALSE, over |-> FALSE])
    /\ request' = [request EXCEPT ![r].at = "send", ![r].link = Len(rows) + 1]

(* The unique index refuses a second open one.                             *)
InsertInvitation(r) ==
    /\ request[r].at = "insert" /\ request[r].kind = "invitation"
    /\ \/ Open("invitation") = {} /\ Inserts(r, links)
       \/ Open("invitation") # {} /\ Ends(r) /\ UNCHANGED links
    /\ UNCHANGED <<account, sessions, changes>>

(* issuePasswordReset, issueAccountDeletionRequest: the outstanding one is *)
(* revoked in the same transaction; the account must still be there.       *)
ReplaceLink(r) ==
    /\ request[r].at = "insert" /\ request[r].kind # "invitation"
    /\ \/ Exists(request[r].life) /\ Inserts(r, RevokeLinks(links, request[r].kind, request[r].life))
       \/ ~Exists(request[r].life) /\ Ends(r) /\ UNCHANGED links
    /\ UNCHANGED <<account, sessions, changes>>

SendMail(r) ==
    /\ request[r].at = "send"
    /\ links' = [links EXCEPT ![request[r].link].mailed = TRUE]
    /\ Ends(r)
    /\ UNCHANGED <<account, sessions, changes>>

(* The transport fails, its message delivered or not.                      *)
MailFails(r) ==
    /\ request[r].at = "send"
    /\ \E mailed \in BOOLEAN : links' = [links EXCEPT ![request[r].link].mailed = mailed]
    /\ IF request[r].kind = "invitation" THEN Ends(r) ELSE Goes(r, "undelivered")
    /\ UNCHANGED <<account, sessions, changes>>

(* Every live one of the account, whichever was not sent.                  *)
RevokeUndelivered(r) ==
    /\ request[r].at = "undelivered"
    /\ links' = RevokeLinks(links, request[r].kind, request[r].life)
    /\ Ends(r)
    /\ UNCHANGED <<account, sessions, changes>>

-----------------------------------------------------------------------------
(* Using one.                                                              *)

(* resolveToken, and the checks that precede the hashing.                  *)
MayOpen(i) ==
    /\ links[i].mailed /\ Works(i)
    /\ CASE links[i].kind = "invitation" -> account.state = "none"
         [] links[i].kind = "reset"      -> account.state = "active"
         [] OTHER                        -> account.state # "none"

ResolveToken(r) ==
    /\ request[r].at = "idle"
    /\ \E i \in LinkIds :
         /\ MayOpen(i)
         /\ request' = [request EXCEPT ![r] = [Idle EXCEPT !.at = "opened", !.kind = links[i].kind,
                                               !.life = account.life, !.link = i]]
    /\ UNCHANGED <<account, links, sessions, changes>>

Refused(r) == Ends(r) /\ UNCHANGED <<account, links, sessions, changes>>

(* One transaction: the claim, and the account the unique address allows.  *)
AcceptInvitation(r) ==
    /\ request[r].at = "opened" /\ request[r].kind = "invitation"
    /\ \/ /\ Works(request[r].link) /\ account.state = "none"
          /\ Changes
          /\ links' = [links EXCEPT ![request[r].link].state = "used"]
          /\ account' = [state |-> "active", life |-> account.life + 1]
          /\ request' = [request EXCEPT ![r].at = "session", ![r].life = account.life + 1]
          /\ UNCHANGED sessions
       \/ ~(Works(request[r].link) /\ account.state = "none") /\ Refused(r)

SetsPassword(r) ==
    /\ Exists(request[r].life) /\ account.state = "active"
    /\ Changes
    /\ links' = ResetsOver([links EXCEPT ![request[r].link].state = "used"], Len(links))
    /\ sessions' = Over(RevokeSessions(sessions), Len(sessions))
    /\ Goes(r, "session")
    /\ UNCHANGED account

(* Mutant: the token that was read is not claimed again.                   *)
CompleteResetUnclaimed(r) ==
    /\ request[r].at = "opened" /\ request[r].kind = "reset"
    /\ SetsPassword(r)

(* One transaction over the locked account: the claim, the password, the   *)
(* end of every session.                                                   *)
CompleteReset(r) ==
    /\ request[r].at = "opened" /\ request[r].kind = "reset"
    /\ \/ Works(request[r].link) /\ SetsPassword(r)
       \/ ~(Works(request[r].link) /\ Exists(request[r].life) /\ account.state = "active") /\ Refused(r)

(* deleteUserAccount: the address's invitations by a statement, the rest   *)
(* with the row they belong to.                                            *)
Erases ==
    /\ account.state # "none"
    /\ account' = [account EXCEPT !.state = "none"]
    /\ links' = Over([i \in LinkIds |-> [links[i] EXCEPT !.state = "gone"]], Len(links))
    /\ sessions' = Over([s \in DOMAIN sessions |-> [sessions[s] EXCEPT !.state = "gone"]], Len(sessions))

CompleteDeletion(r) ==
    /\ request[r].at = "opened" /\ request[r].kind = "deletion"
    /\ \/ Exists(request[r].life) /\ Erases /\ Ends(r) /\ UNCHANGED changes
       \/ ~Exists(request[r].life) /\ Refused(r)

(* By the member signed in, or by an admin.                                *)
DeleteAccount == Erases /\ UNCHANGED <<request, changes>>

-----------------------------------------------------------------------------
(* Sessions.                                                               *)

(* The row is read, the password verified against it.                      *)
SignIn(r) ==
    /\ request[r].at = "idle"
    /\ account.state = "active"
    /\ request' = [request EXCEPT ![r] = [Idle EXCEPT !.at = "session", !.life = account.life]]
    /\ UNCHANGED <<account, links, sessions, changes>>

IssueSession(r) ==
    /\ request[r].at = "session"
    /\ \/ /\ Exists(request[r].life) /\ Len(sessions) < MaxSessions
          /\ sessions' = Append(sessions, [life |-> request[r].life, state |-> "live", over |-> FALSE])
       \/ ~Exists(request[r].life) /\ UNCHANGED sessions
    /\ Ends(r)
    /\ UNCHANGED <<account, links, changes>>

SignOut ==
    /\ \E s \in DOMAIN sessions :
         sessions[s].state = "live" /\ sessions' = [sessions EXCEPT ![s].state = "revoked"]
    /\ UNCHANGED <<account, links, request, changes>>

-----------------------------------------------------------------------------
(* An admin ends the access and gives it back.                             *)

(* History: the request remembers how many rows there were.                *)
Deactivate(r) ==
    /\ request[r].at = "idle"
    /\ account.state = "active"
    /\ Changes
    /\ account' = [account EXCEPT !.state = "deactivated"]
    /\ request' = [request EXCEPT ![r] = [Idle EXCEPT !.at = "endSessions", !.life = account.life,
                                          !.link = Len(links), !.opened = Len(sessions)]]
    /\ UNCHANGED <<links, sessions>>

EndSessions(r) ==
    /\ request[r].at = "endSessions"
    /\ sessions' = IF Exists(request[r].life) THEN RevokeSessions(sessions) ELSE sessions
    /\ Goes(r, "endResets")
    /\ UNCHANGED <<account, links, changes>>

(* Mutant: the resets that are out are left to lapse.                      *)
EndResetsLater(r) ==
    /\ request[r].at = "endResets"
    /\ links' = ResetsOver(links, request[r].link)
    /\ sessions' = Over(sessions, request[r].opened)
    /\ Ends(r)
    /\ UNCHANGED <<account, changes>>

EndResets(r) ==
    /\ request[r].at = "endResets"
    /\ links' = ResetsOver(RevokeLinks(links, "reset", request[r].life), request[r].link)
    /\ sessions' = Over(sessions, request[r].opened)
    /\ Ends(r)
    /\ UNCHANGED <<account, changes>>

Reactivate ==
    /\ account.state = "deactivated"
    /\ Changes
    /\ account' = [account EXCEPT !.state = "active"]
    /\ UNCHANGED <<links, sessions, request>>

-----------------------------------------------------------------------------

Lapse ==
    /\ \E i \in LinkIds : Works(i) /\ links' = [links EXCEPT ![i].lapsed = TRUE]
    /\ UNCHANGED <<account, sessions, request, changes>>

(* A statement fails, or the process ends.                                 *)
GiveUp(r) == request[r].at # "idle" /\ Refused(r)

Init ==
    /\ account = [state |-> "none", life |-> 0]
    /\ links = <<>>
    /\ sessions = <<>>
    /\ request = [r \in Requests |-> Idle]
    /\ changes = 0

AskForLink(r) ==
    \/ IssueInvitation(r) \/ FindLiveInvitation(r) \/ ResendInvitation(r) \/ InsertInvitation(r)
    \/ RequestReset(r) \/ RequestDeletion(r) \/ ReplaceLink(r)
    \/ SendMail(r) \/ MailFails(r) \/ RevokeUndelivered(r)

UseLink(r) == ResolveToken(r) \/ AcceptInvitation(r) \/ CompleteReset(r) \/ CompleteDeletion(r)

EndAccess(r) == Deactivate(r) \/ EndSessions(r) \/ EndResets(r)

Next ==
    \/ \E r \in Requests :
         AskForLink(r) \/ UseLink(r) \/ SignIn(r) \/ IssueSession(r) \/ EndAccess(r) \/ GiveUp(r)
    \/ RevokeInvitation \/ DeleteAccount \/ SignOut \/ Reactivate \/ Lapse

Spec == Init /\ [][Next]_vars

-----------------------------------------------------------------------------
(* Properties.                                                             *)

(* A session or a reset link that was open when a password was set is open *)
(* no more, though only the link that was used is named by that            *)
(* transaction; nor is one that was there when a deactivation began, once  *)
(* its three statements are done; nor any link or session at all that was  *)
(* there when the account was erased.  A deletion link outlives a          *)
(* deactivation, as resolveToken means it to, and is not promised here.    *)
(* Neither is what a request in progress opens afterwards, nor what a      *)
(* deactivation cut short between its statements leaves.                   *)
OverIsOver ==
    /\ \A s \in DOMAIN sessions : sessions[s].over => sessions[s].state # "live"
    /\ \A i \in LinkIds : links[i].over => links[i].state # "live"

(* An account comes into being, and a password is changed, by a link that  *)
(* worked at that moment and works no more, and by no other.               *)
OnlyAWorkingLinkActs ==
    [][\A r \in Requests :
         request[r].at = "opened" /\ request'[r].at = "session"
           => Works(request[r].link) /\ links'[request[r].link].state = "used"]_vars
=============================================================================
