---------------------------- MODULE AccessProofs ----------------------------
(***************************************************************************)
(* Accounts. What an ended access keeps, for every number of requests at a *)
(* time and of links, sessions and changes of the account; and, after it,  *)
(* what the last-admin guard keeps, for every set of accounts and every    *)
(* number of connections. The two share no variable.                       *)
(***************************************************************************)
EXTENDS Access, LastAdmin, SequenceTheorems, TLAPS

(* The account an address has had last bounds what any row names.          *)
LivesOK ==
    /\ \A i \in 1..Len(links) : links[i].life <= account.life
    /\ \A s \in 1..Len(sessions) : sessions[s].life <= account.life
    /\ \A r \in Requests : request[r].life <= account.life

(* A row of an account goes with it.                                       *)
LiveBelongs ==
    /\ \A i \in 1..Len(links) :
         links[i].state = "live" /\ links[i].kind # "invitation" => Exists(links[i].life)
    /\ \A s \in 1..Len(sessions) : sessions[s].state = "live" => Exists(sessions[s].life)

(* What a request is about is known by the time it is needed.              *)
LinkNamed ==
    \A r \in Requests :
        /\ request[r].at \in {"unknown", "insert"} => request[r].kind \in Kinds
        /\ request[r].at \in {"send", "opened"} => request[r].link \in 1..Len(links)

(* The link a request has opened is of the kind it is about.               *)
OpenedKind ==
    \A r \in Requests : request[r].at = "opened" => links[request[r].link].kind = request[r].kind

(* No two resets are open at once, so the one that sets a password leaves  *)
(* none behind.                                                            *)
OpenReset(i) == links[i].kind = "reset" /\ links[i].state = "live"

OneReset == \A i, j \in 1..Len(links) : OpenReset(i) /\ OpenReset(j) => i = j

(* A deactivation under way: the rows there were name its account or one   *)
(* before it; once it has ended the sessions, none of those is live.       *)
Ending(q) ==
    /\ q.link <= Len(links) /\ q.opened <= Len(sessions)
    /\ \A i \in 1..q.link : links[i].life <= q.life
    /\ \A s \in 1..q.opened : sessions[s].life <= q.life
    /\ q.at = "endResets" => \A s \in 1..q.opened : sessions[s].state # "live"

EndingOK == \A r \in Requests : request[r].at \in {"endSessions", "endResets"} => Ending(request[r])

Inv == TypeOK /\ LivesOK /\ LiveBelongs /\ LinkNamed /\ OpenedKind /\ OneReset /\ EndingOK /\ OverIsOver

-----------------------------------------------------------------------------
(* Rows before and after: none is lost, none comes back to life.           *)
LinksFollow(old, new) ==
    /\ new \in Seq(Link) /\ Len(old) <= Len(new)
    /\ \A i \in 1..Len(old) : /\ new[i].kind = old[i].kind /\ new[i].life = old[i].life
                              /\ new[i].state = "live" => old[i].state = "live"

SessionsFollow(old, new) ==
    /\ new \in Seq(Session) /\ Len(old) <= Len(new)
    /\ \A s \in 1..Len(old) : /\ new[s].life = old[s].life
                              /\ new[s].state = "live" => old[s].state = "live"

(* A row for each row is a table of the same length.                       *)
LEMMA MapRows ==
  ASSUME NEW S, NEW rows \in Seq(S), NEW T, NEW f,
         f = [i \in DOMAIN rows |-> f[i]], \A i \in 1..Len(rows) : f[i] \in T
  PROVE  f \in Seq(T) /\ Len(f) = Len(rows)
<1>1. DOMAIN rows = 1..Len(rows) /\ Len(rows) \in Nat
  OBVIOUS
<1> QED BY <1>1, IsASeq

LEMMA RevokedSessions ==
  ASSUME NEW rows \in Seq(Session)
  PROVE  /\ SessionsFollow(rows, RevokeSessions(rows)) /\ Len(RevokeSessions(rows)) = Len(rows)
         /\ \A s \in 1..Len(rows) : /\ RevokeSessions(rows)[s].state # "live"
                                    /\ RevokeSessions(rows)[s].over = rows[s].over
<1> DEFINE new == RevokeSessions(rows)
<1>1. DOMAIN rows = 1..Len(rows) /\ Len(rows) \in Nat /\ \A s \in 1..Len(rows) : rows[s] \in Session
  OBVIOUS
<1>2. \A s \in 1..Len(rows) :
        new[s] = IF rows[s].state = "live" THEN [rows[s] EXCEPT !.state = "revoked"] ELSE rows[s]
  BY <1>1 DEF RevokeSessions
<1>3. \A s \in 1..Len(rows) : /\ new[s] \in Session /\ new[s].state # "live"
                              /\ new[s].life = rows[s].life /\ new[s].over = rows[s].over
  BY <1>1, <1>2 DEF Session
<1>4. new = [s \in DOMAIN rows |-> new[s]]
  BY DEF RevokeSessions
<1> HIDE DEF new
<1>5. new \in Seq(Session) /\ Len(new) = Len(rows)
  BY <1>3, <1>4, MapRows
<1>6. SessionsFollow(rows, new) /\ Len(new) = Len(rows)
  BY <1>1, <1>3, <1>5 DEF SessionsFollow
<1> QED BY <1>3, <1>6 DEF new

LEMMA RevokedLinks ==
  ASSUME NEW rows \in Seq(Link), NEW kind, NEW life
  PROVE  /\ LinksFollow(rows, RevokeLinks(rows, kind, life)) /\ Len(RevokeLinks(rows, kind, life)) = Len(rows)
         /\ \A i \in 1..Len(rows) :
              /\ RevokeLinks(rows, kind, life)[i].over = rows[i].over
              /\ rows[i].kind = kind /\ rows[i].life = life => RevokeLinks(rows, kind, life)[i].state # "live"
<1> DEFINE new == RevokeLinks(rows, kind, life)
<1>1. DOMAIN rows = 1..Len(rows) /\ Len(rows) \in Nat /\ \A i \in 1..Len(rows) : rows[i] \in Link
  OBVIOUS
<1>2. \A i \in 1..Len(rows) :
        new[i] = IF rows[i].kind = kind /\ rows[i].state = "live" /\ rows[i].life = life
                 THEN [rows[i] EXCEPT !.state = "revoked"] ELSE rows[i]
  BY <1>1 DEF RevokeLinks
<1>3. \A i \in 1..Len(rows) : /\ new[i] \in Link /\ new[i].kind = rows[i].kind
                              /\ new[i].life = rows[i].life /\ new[i].over = rows[i].over
                              /\ new[i].state = "live" => rows[i].state = "live"
                              /\ rows[i].kind = kind /\ rows[i].life = life => new[i].state # "live"
  BY <1>1, <1>2, ZenonT(60) DEF Link
<1>4. new = [i \in DOMAIN rows |-> new[i]]
  BY DEF RevokeLinks
<1> HIDE DEF new
<1>5. new \in Seq(Link) /\ Len(new) = Len(rows)
  BY <1>3, <1>4, MapRows
<1>6. LinksFollow(rows, new) /\ Len(new) = Len(rows)
  BY <1>1, <1>3, <1>5 DEF LinksFollow
<1> QED BY <1>3, <1>6 DEF new

(* What is over is what was, and the first n rows.                         *)
LEMMA OverSessions ==
  ASSUME NEW rows \in Seq(Session), NEW n \in Nat
  PROVE  /\ SessionsFollow(rows, Over(rows, n)) /\ Len(Over(rows, n)) = Len(rows)
         /\ \A s \in 1..Len(rows) : /\ Over(rows, n)[s].state = rows[s].state
                                    /\ Over(rows, n)[s].over => rows[s].over \/ s <= n
<1> DEFINE new == Over(rows, n)
<1>1. DOMAIN rows = 1..Len(rows) /\ Len(rows) \in Nat /\ \A s \in 1..Len(rows) : rows[s] \in Session
  OBVIOUS
<1>2. \A s \in 1..Len(rows) : new[s] = IF s <= n THEN [rows[s] EXCEPT !.over = TRUE] ELSE rows[s]
  BY <1>1 DEF Over
<1>3. \A s \in 1..Len(rows) : /\ new[s] \in Session /\ new[s].state = rows[s].state
                              /\ new[s].life = rows[s].life
                              /\ s <= n \/ new[s] = rows[s]
  BY <1>1, <1>2 DEF Session
<1>4. new = [s \in DOMAIN rows |-> new[s]]
  BY DEF Over
<1> HIDE DEF new
<1>5. new \in Seq(Session) /\ Len(new) = Len(rows)
  BY <1>3, <1>4, MapRows
<1>6. SessionsFollow(rows, new) /\ Len(new) = Len(rows)
  BY <1>1, <1>3, <1>5 DEF SessionsFollow
<1> QED BY <1>3, <1>6 DEF new

LEMMA OverLinks ==
  ASSUME NEW rows \in Seq(Link), NEW n \in Nat, NEW new \in {Over(rows, n), ResetsOver(rows, n)}
  PROVE  /\ LinksFollow(rows, new) /\ Len(new) = Len(rows)
         /\ \A i \in 1..Len(rows) : new[i].state = rows[i].state
         /\ new = ResetsOver(rows, n) =>
              \A i \in 1..Len(rows) : new[i].over => rows[i].over \/ (i <= n /\ rows[i].kind = "reset")
<1>1. DOMAIN rows = 1..Len(rows) /\ Len(rows) \in Nat /\ \A i \in 1..Len(rows) : rows[i] \in Link
  OBVIOUS
<1>2. \A i \in 1..Len(rows) : new[i] \in {rows[i], [rows[i] EXCEPT !.over = TRUE]}
  BY <1>1 DEF Over, ResetsOver
<1>3. \A i \in 1..Len(rows) : /\ new[i] \in Link /\ new[i].state = rows[i].state
                              /\ new[i].kind = rows[i].kind /\ new[i].life = rows[i].life
  BY <1>1, <1>2, ZenonT(60) DEF Link
<1>4. new = [i \in DOMAIN rows |-> new[i]]
  BY DEF Over, ResetsOver
<1>5. new \in Seq(Link) /\ Len(new) = Len(rows)
  BY <1>3, <1>4, MapRows
<1>6. new = ResetsOver(rows, n) =>
        \A i \in 1..Len(rows) : (i <= n /\ rows[i].kind = "reset") \/ new[i] = rows[i]
  BY <1>1 DEF ResetsOver
<1> QED BY <1>1, <1>3, <1>5, <1>6 DEF LinksFollow

(* One link marked, its state taken or left.                               *)
LEMMA MarkedLink ==
  ASSUME TypeOK, NEW i \in 1..Len(links), NEW row \in Link, links' = [links EXCEPT ![i] = row],
         row.kind = links[i].kind, row.life = links[i].life, row.over = links[i].over,
         row.state = "live" => links[i].state = "live"
  PROVE  /\ LinksFollow(links, links') /\ Len(links') = Len(links)
         /\ \A j \in 1..Len(links) : links'[j].over = links[j].over
         /\ links'[i] = row
<1>0. links \in Seq(Link)
  BY DEF TypeOK
<1>1. links' \in Seq(Link) /\ Len(links') = Len(links) /\ Len(links) \in Nat
  BY <1>0, ExceptSeq
<1>2. links'[i] = row /\ \A j \in 1..Len(links) : j # i => links'[j] = links[j]
  BY <1>0
<1>3. LinksFollow(links, links') /\ \A j \in 1..Len(links) : links'[j].over = links[j].over
  BY <1>1, <1>2 DEF LinksFollow
<1> QED BY <1>1, <1>2, <1>3

LEMMA StateTaken ==
  ASSUME TypeOK, NEW i \in 1..Len(links), NEW state \in {"revoked", "used"},
         links' = [links EXCEPT ![i].state = state]
  PROVE  /\ LinksFollow(links, links') /\ Len(links') = Len(links)
         /\ \A j \in 1..Len(links) : links'[j].over = links[j].over
         /\ links'[i].state = state
<1> DEFINE row == [links[i] EXCEPT !.state = state]
<1>1. links \in Seq(Link) /\ links[i] \in Link /\ links' = [links EXCEPT ![i] = row]
  BY DEF TypeOK
<1>2. /\ row \in Link /\ row.kind = links[i].kind /\ row.life = links[i].life
      /\ row.over = links[i].over /\ row.state # "live" /\ row.state = state
  BY <1>1 DEF Link
<1> HIDE DEF row
<1>3. LinksFollow(links, links') /\ Len(links') = Len(links)
  BY <1>1, <1>2, MarkedLink
<1>4. links'[i] = row /\ \A j \in 1..Len(links) : links'[j].over = links[j].over
  BY <1>1, <1>2, MarkedLink
<1> QED BY <1>2, <1>3, <1>4

(* Following twice, a table as long as the one before it each time.        *)
LEMMA FollowTwice ==
  ASSUME NEW a \in Seq(Link), NEW b \in Seq(Link), NEW c \in Seq(Link),
         LinksFollow(a, b), LinksFollow(b, c), Len(b) = Len(a), Len(c) = Len(a)
  PROVE  LinksFollow(a, c)
<1>1. Len(a) \in Nat
  OBVIOUS
<1> QED BY <1>1 DEF LinksFollow

(* The links when a password is set: one used, the resets over.            *)
LEMMA PasswordLinks ==
  ASSUME TypeOK, NEW i \in 1..Len(links),
         links' = ResetsOver([links EXCEPT ![i].state = "used"], Len(links))
  PROVE  /\ LinksFollow(links, links') /\ Len(links') = Len(links)
         /\ links'[i].state = "used"
         /\ \A j \in 1..Len(links) : links'[j].over => links[j].over \/ links[j].kind = "reset"
<1>0. links \in Seq(Link) /\ Len(links) \in Nat /\ \A j \in 1..Len(links) : links[j] \in Link
  BY DEF TypeOK
<1>1. PICK row : row = [links[i] EXCEPT !.state = "used"]
  OBVIOUS
<1>a. /\ row \in Link /\ row.kind = links[i].kind /\ row.life = links[i].life
      /\ row.over = links[i].over /\ row.state = "used"
  BY <1>0, <1>1 DEF Link
<1>2. PICK rows : rows = [links EXCEPT ![i] = row]
  OBVIOUS
<1>3. links' = ResetsOver(rows, Len(links))
  BY <1>0, <1>1, <1>2
<1>4. rows \in Seq(Link) /\ Len(rows) = Len(links)
  BY <1>0, <1>2, <1>a, ExceptSeq
<1>5. rows[i] = row /\ \A j \in 1..Len(links) : j # i => rows[j] = links[j]
  BY <1>0, <1>2
<1>6. /\ LinksFollow(links, rows)
      /\ \A j \in 1..Len(links) : rows[j].kind = links[j].kind /\ rows[j].over = links[j].over
  <2>1. \A j \in 1..Len(links) : j = i \/ rows[j] = links[j]
    BY <1>5
  <2>2. \A j \in 1..Len(links) : /\ rows[j].kind = links[j].kind /\ rows[j].life = links[j].life
                                 /\ rows[j].over = links[j].over
                                 /\ rows[j].state = "live" => links[j].state = "live"
    BY <1>5, <1>a, <2>1
  <2> QED BY <1>0, <1>4, <2>2 DEF LinksFollow
<1>7. /\ LinksFollow(rows, links') /\ Len(links') = Len(rows)
      /\ \A j \in 1..Len(links) : links'[j].state = rows[j].state
      /\ \A j \in 1..Len(links) : links'[j].over => rows[j].over \/ rows[j].kind = "reset"
  <2>1. /\ LinksFollow(rows, links') /\ Len(links') = Len(rows)
        /\ \A j \in 1..Len(rows) : links'[j].state = rows[j].state
        /\ \A j \in 1..Len(rows) : links'[j].over => rows[j].over \/ rows[j].kind = "reset"
    BY <1>0, <1>3, <1>4, OverLinks
  <2>2. 1..Len(rows) = 1..Len(links)
    BY <1>4
  <2> QED BY <2>1, <2>2
<1>8. links' \in Seq(Link)
  BY <1>7 DEF LinksFollow
<1>9. LinksFollow(links, links') /\ Len(links') = Len(links)
  BY <1>0, <1>4, <1>6, <1>7, <1>8, FollowTwice
<1>10. links'[i].state = "used"
  <2>1. links'[i].state = rows[i].state
    BY <1>7
  <2> QED BY <1>5, <1>a, <2>1
<1>11. \A j \in 1..Len(links) : links'[j].over => links[j].over \/ links[j].kind = "reset"
  <2>1. ASSUME NEW j \in 1..Len(links), links'[j].over PROVE links[j].over \/ links[j].kind = "reset"
    <3>1. rows[j].over \/ rows[j].kind = "reset"
      BY <1>7, <2>1
    <3>2. rows[j].over = links[j].over /\ rows[j].kind = links[j].kind
      BY <1>6
    <3> QED BY <3>1, <3>2
  <2> QED BY <2>1
<1> QED BY <1>9, <1>10, <1>11

LEMMA NewLink ==
  ASSUME NEW rows \in Seq(Link), NEW row \in Link
  PROVE  /\ LinksFollow(rows, Append(rows, row)) /\ Len(Append(rows, row)) = Len(rows) + 1
         /\ \A i \in 1..Len(rows) : Append(rows, row)[i] = rows[i]
         /\ Append(rows, row)[Len(rows) + 1] = row
BY AppendProperties DEF LinksFollow

LEMMA NewSession ==
  ASSUME NEW rows \in Seq(Session), NEW row \in Session
  PROVE  /\ SessionsFollow(rows, Append(rows, row)) /\ Len(Append(rows, row)) = Len(rows) + 1
         /\ \A s \in 1..Len(rows) : Append(rows, row)[s] = rows[s]
         /\ Append(rows, row)[Len(rows) + 1] = row
BY AppendProperties DEF SessionsFollow

-----------------------------------------------------------------------------
(* A step keeps the types, the rows and their order.                       *)
StepOK ==
    /\ TypeOK'
    /\ account.life <= account'.life
    /\ LinksFollow(links, links') /\ SessionsFollow(sessions, sessions')

LEMMA SameRows == TypeOK => LinksFollow(links, links) /\ SessionsFollow(sessions, sessions)
BY DEF TypeOK, LinksFollow, SessionsFollow

LEMMA IdleIsRequest == Idle \in Request
BY DEF Idle, Request, Points

(* What only moves a request.                                              *)
LEMMA RequestsMove ==
  ASSUME TypeOK, UNCHANGED <<account, links, sessions, changes>>,
         request' \in [Requests -> Request]
  PROVE  StepOK
BY SameRows DEF TypeOK, StepOK, Account

LEMMA RequestEnds ==
  ASSUME TypeOK, NEW r \in Requests
  PROVE  /\ Ends(r) => request' \in [Requests -> Request]
         /\ \A at \in Points : Goes(r, at) => request' \in [Requests -> Request]
<1>1. Ends(r) => request' \in [Requests -> Request]
  BY IdleIsRequest DEF TypeOK, Ends
<1>2. ASSUME NEW at \in Points, Goes(r, at) PROVE request' \in [Requests -> Request]
  <2>1. [request[r] EXCEPT !.at = at] \in Request
    BY DEF TypeOK, Request
  <2> QED BY <1>2, <2>1 DEF TypeOK, Goes
<1> QED BY <1>1, <1>2

LEMMA RefusedOK == ASSUME TypeOK, NEW r \in Requests, Refused(r) PROVE StepOK
BY RequestEnds, RequestsMove DEF Refused

(* Asking for a link.                                                      *)
LEMMA AskedOK ==
  ASSUME TypeOK, NEW r \in Requests, NEW kind \in Kinds, NEW at \in Points, Asks(r, kind, at)
  PROVE  request' \in [Requests -> Request]
<1>1. [Idle EXCEPT !.at = at, !.kind = kind, !.life = account.life] \in Request
  BY DEF Idle, Request, TypeOK, Account
<1> QED BY <1>1 DEF Asks, TypeOK

LEMMA MarkedOK ==
  ASSUME TypeOK, NEW i \in 1..Len(links), NEW row \in Link, links' = [links EXCEPT ![i] = row],
         row.kind = links[i].kind, row.life = links[i].life, row.over = links[i].over,
         row.state = "live" => links[i].state = "live",
         account' \in Account, account.life <= account'.life, UNCHANGED sessions,
         request' \in [Requests -> Request], changes' \in 0..MaxChanges
  PROVE  StepOK
<1>1. LinksFollow(links, links') /\ Len(links') = Len(links)
  BY MarkedLink
<1>2. links' \in Seq(Link) /\ Len(links') <= MaxLinks
  BY <1>1 DEF LinksFollow, TypeOK
<1> QED BY <1>1, <1>2, SameRows DEF TypeOK, StepOK

LEMMA InsertsOK ==
  ASSUME TypeOK, NEW r \in Requests, NEW rows \in Seq(Link), LinksFollow(links, rows),
         request[r].kind \in Kinds, Inserts(r, rows), UNCHANGED <<account, sessions, changes>>
  PROVE  StepOK
<1> DEFINE row == [kind |-> request[r].kind, life |-> request[r].life, state |-> "live",
                   lapsed |-> FALSE, mailed |-> FALSE, over |-> FALSE]
<1>1. row \in Link
  BY DEF TypeOK, Link, Request
<1>2. links' = Append(rows, row) /\ Len(rows) < MaxLinks /\ Len(rows) \in Nat
  BY DEF Inserts
<1> HIDE DEF row
<1>3. LinksFollow(rows, links') /\ Len(links') = Len(rows) + 1
  BY <1>1, <1>2, NewLink
<1>4. Len(links') <= MaxLinks /\ LinksFollow(links, links')
  BY <1>2, <1>3, AccessAssumption DEF LinksFollow, TypeOK
<1>5. request' \in [Requests -> Request]
  <2>1. [request[r] EXCEPT !.at = "send", !.link = Len(rows) + 1] \in Request
    <3>1. request[r] \in Request /\ Len(rows) + 1 \in Nat
      BY <1>2 DEF TypeOK
    <3> QED BY <3>1 DEF Request, Points
  <2> QED BY <2>1 DEF Inserts, TypeOK
<1> QED BY <1>3, <1>4, <1>5, SameRows DEF TypeOK, StepOK, LinksFollow, Account

LEMMA AskForLinkOK == ASSUME TypeOK, LinkNamed, NEW r \in Requests, AskForLink(r) PROVE StepOK
<1>0. \A i \in 1..Len(links) : links[i] \in Link
  BY DEF TypeOK
<1>a. account \in Account /\ account.life <= account.life /\ changes \in 0..MaxChanges
  BY DEF TypeOK, Account
<1>1. CASE IssueInvitation(r) \/ RequestReset(r) \/ RequestDeletion(r)
  BY <1>1, AskedOK, RequestsMove DEF IssueInvitation, RequestReset, RequestDeletion, Kinds, Points
<1>2. CASE FindLiveInvitation(r)
  BY <1>2, RequestEnds, RequestsMove DEF FindLiveInvitation, Points
<1>3. CASE ResendInvitation(r)
  <2>1. PICK i \in Open("invitation") :
           Asks(r, "invitation", "insert") /\ links' = [links EXCEPT ![i].state = "revoked"]
           /\ UNCHANGED <<account, sessions, changes>>
    BY <1>3 DEF ResendInvitation
  <2>2. i \in 1..Len(links) /\ links' = [links EXCEPT ![i] = [links[i] EXCEPT !.state = "revoked"]]
    BY <2>1 DEF Open, LinkIds
  <2>3. [links[i] EXCEPT !.state = "revoked"] \in Link
    BY <2>2, <1>0 DEF Link
  <2>4. request' \in [Requests -> Request]
    BY <2>1, AskedOK DEF Kinds, Points
  <2> QED BY <1>a, <1>0, <2>1, <2>2, <2>3, <2>4, MarkedOK DEF Link
<1>4. CASE InsertInvitation(r)
  <2>1. CASE Inserts(r, links)
    BY <1>4, <2>1, SameRows, InsertsOK DEF InsertInvitation, Kinds, TypeOK
  <2>2. CASE Ends(r) /\ UNCHANGED links
    BY <1>4, <2>2, RefusedOK DEF InsertInvitation, Refused
  <2> QED BY <1>4, <2>1, <2>2 DEF InsertInvitation
<1>5. CASE ReplaceLink(r)
  <2>1. CASE Inserts(r, RevokeLinks(links, request[r].kind, request[r].life))
    <3> DEFINE rows == RevokeLinks(links, request[r].kind, request[r].life)
    <3>1. LinksFollow(links, rows) /\ rows \in Seq(Link)
      BY RevokedLinks DEF TypeOK, LinksFollow
    <3>2. request[r].kind \in Kinds
      BY <1>5 DEF ReplaceLink, LinkNamed
    <3> QED BY <1>5, <2>1, <3>1, <3>2, InsertsOK DEF ReplaceLink
  <2>2. CASE Ends(r) /\ UNCHANGED links
    BY <1>5, <2>2, RefusedOK DEF ReplaceLink, Refused
  <2> QED BY <1>5, <2>1, <2>2 DEF ReplaceLink
<1>6. CASE SendMail(r) \/ MailFails(r)
  <2> DEFINE i == request[r].link
  <2>1. PICK mailed \in BOOLEAN : links' = [links EXCEPT ![i].mailed = mailed]
    BY <1>6 DEF SendMail, MailFails
  <2>2. i \in 1..Len(links)
    BY <1>6 DEF SendMail, MailFails, LinkNamed
  <2>3. links' = [links EXCEPT ![i] = [links[i] EXCEPT !.mailed = mailed]]
    BY <2>1, <2>2
  <2>4. [links[i] EXCEPT !.mailed = mailed] \in Link
    BY <2>2, <1>0 DEF Link
  <2>5. request' \in [Requests -> Request]
    BY <1>6, RequestEnds DEF SendMail, MailFails, Points
  <2>6. UNCHANGED <<account, sessions, changes>>
    BY <1>6 DEF SendMail, MailFails
  <2> QED BY <1>a, <1>0, <2>2, <2>3, <2>4, <2>5, <2>6, MarkedOK DEF Link
<1>7. CASE RevokeUndelivered(r)
  <2>1. LinksFollow(links, links') /\ Len(links') = Len(links)
    BY <1>7, RevokedLinks DEF RevokeUndelivered, TypeOK
  <2>2. request' \in [Requests -> Request]
    BY <1>7, RequestEnds DEF RevokeUndelivered
  <2> QED BY <1>a, <1>7, <2>1, <2>2, SameRows DEF RevokeUndelivered, StepOK, TypeOK, LinksFollow
<1> QED BY <1>1, <1>2, <1>3, <1>4, <1>5, <1>6, <1>7 DEF AskForLink

(* Erasing the account marks every row.                                    *)
LEMMA ErasesOK ==
  ASSUME TypeOK, Erases
  PROVE  /\ account' \in Account /\ account'.life = account.life /\ account'.state = "none"
         /\ LinksFollow(links, links') /\ Len(links') = Len(links)
         /\ SessionsFollow(sessions, sessions') /\ Len(sessions') = Len(sessions)
         /\ \A i \in 1..Len(links) : links'[i].state = "gone"
         /\ \A s \in 1..Len(sessions) : sessions'[s].state = "gone"
<1> DEFINE gone == [i \in LinkIds |-> [links[i] EXCEPT !.state = "gone"]]
           ended == [s \in DOMAIN sessions |-> [sessions[s] EXCEPT !.state = "gone"]]
<1>0. /\ Len(links) \in Nat /\ DOMAIN links = 1..Len(links) /\ \A i \in 1..Len(links) : links[i] \in Link
      /\ Len(sessions) \in Nat /\ DOMAIN sessions = 1..Len(sessions)
      /\ \A s \in 1..Len(sessions) : sessions[s] \in Session
  BY DEF TypeOK
<1>1. \A i \in 1..Len(links) : gone[i] \in Link /\ gone[i].state = "gone"
                                /\ gone[i].kind = links[i].kind /\ gone[i].life = links[i].life
  BY <1>0 DEF Link, LinkIds
<1>2. \A s \in 1..Len(sessions) : ended[s] \in Session /\ ended[s].state = "gone"
                                   /\ ended[s].life = sessions[s].life
  BY <1>0 DEF Session
<1>3. gone = [i \in DOMAIN links |-> gone[i]] /\ ended = [s \in DOMAIN sessions |-> ended[s]]
  BY <1>0 DEF LinkIds
<1>4. links' = Over(gone, Len(links)) /\ sessions' = Over(ended, Len(sessions))
  BY DEF Erases
<1> HIDE DEF gone, ended
<1>5. gone \in Seq(Link) /\ Len(gone) = Len(links)
  BY <1>1, <1>3, MapRows DEF TypeOK
<1>6. ended \in Seq(Session) /\ Len(ended) = Len(sessions)
  BY <1>2, <1>3, MapRows DEF TypeOK
<1>7. /\ LinksFollow(gone, links') /\ Len(links') = Len(links)
      /\ \A i \in 1..Len(links) : links'[i].state = "gone"
  BY <1>0, <1>1, <1>4, <1>5, OverLinks
<1>8. /\ SessionsFollow(ended, sessions') /\ Len(sessions') = Len(sessions)
      /\ \A s \in 1..Len(sessions) : sessions'[s].state = "gone"
  BY <1>0, <1>2, <1>4, <1>6, OverSessions
<1>9. LinksFollow(links, links')
  BY <1>0, <1>1, <1>5, <1>7 DEF LinksFollow
<1>10. SessionsFollow(sessions, sessions')
  BY <1>0, <1>2, <1>6, <1>8 DEF SessionsFollow
<1>11. account' \in Account /\ account'.life = account.life /\ account'.state = "none"
  BY DEF Erases, TypeOK, Account
<1> QED BY <1>7, <1>8, <1>9, <1>10, <1>11

LEMMA ErasedOK ==
  ASSUME TypeOK, Erases, request' \in [Requests -> Request], UNCHANGED changes
  PROVE  StepOK
<1>1. account.life \in Nat
  BY DEF TypeOK, Account
<1> QED BY <1>1, ErasesOK DEF StepOK, TypeOK, LinksFollow, SessionsFollow

LEMMA UseLinkOK == ASSUME TypeOK, LinkNamed, NEW r \in Requests, UseLink(r) PROVE StepOK
<1> DEFINE used == [links[request[r].link] EXCEPT !.state = "used"]
<1>0. /\ \A i \in 1..Len(links) : links[i] \in Link
      /\ account \in Account /\ account.life \in Nat /\ changes \in 0..MaxChanges /\ Len(links) \in Nat
  BY DEF TypeOK, Account
<1>a. ASSUME request[r].at = "opened", links' = [links EXCEPT ![request[r].link].state = "used"]
      PROVE  /\ request[r].link \in 1..Len(links) /\ links' = [links EXCEPT ![request[r].link] = used]
             /\ used \in Link /\ used.kind = links[request[r].link].kind
             /\ used.life = links[request[r].link].life /\ used.over = links[request[r].link].over
             /\ used.state = "used"
  BY <1>0, <1>a DEF LinkNamed, Link
<1>b. Changes => changes' \in 0..MaxChanges
  BY <1>0, AccessAssumption DEF Changes
<1>1. CASE ResolveToken(r)
  <2>1. PICK i \in LinkIds :
           request' = [request EXCEPT ![r] = [Idle EXCEPT !.at = "opened", !.kind = links[i].kind,
                                              !.life = account.life, !.link = i]]
    BY <1>1 DEF ResolveToken
  <2>2. i \in Nat /\ links[i].kind \in Kinds
    BY <1>0 DEF LinkIds, Link
  <2>3. [Idle EXCEPT !.at = "opened", !.kind = links[i].kind, !.life = account.life, !.link = i] \in Request
    BY <1>0, <2>2 DEF Idle, Request, Points
  <2>4. request' \in [Requests -> Request]
    BY <2>1, <2>3 DEF TypeOK
  <2> QED BY <1>1, <2>4, RequestsMove DEF ResolveToken
<1>2. CASE AcceptInvitation(r)
  <2>1. CASE Refused(r)
    BY <2>1, RefusedOK
  <2>2. CASE ~Refused(r)
    <3>1. /\ Changes /\ links' = [links EXCEPT ![request[r].link].state = "used"]
          /\ account' = [state |-> "active", life |-> account.life + 1]
          /\ request' = [request EXCEPT ![r].at = "session", ![r].life = account.life + 1]
          /\ UNCHANGED sessions /\ request[r].at = "opened"
      BY <1>2, <2>2 DEF AcceptInvitation
    <3>2. account' \in Account /\ account.life <= account'.life
      BY <1>0, <3>1 DEF Account
    <3>3. request' \in [Requests -> Request]
      <4>1. request[r] \in Request /\ account.life + 1 \in Nat
        BY <1>0 DEF TypeOK
      <4>2. [request[r] EXCEPT !.at = "session", !.life = account.life + 1] \in Request
        BY <4>1 DEF Request, Points
      <4> QED BY <3>1, <4>2 DEF TypeOK
    <3>4. used.state # "live" /\ changes' \in 0..MaxChanges
      BY <1>a, <1>b, <3>1
    <3> HIDE DEF used
    <3> QED BY <1>a, <3>1, <3>2, <3>3, <3>4, MarkedOK
  <2> QED BY <2>1, <2>2
<1>3. CASE CompleteReset(r)
  <2>1. CASE Refused(r)
    BY <2>1, RefusedOK
  <2>2. CASE SetsPassword(r)
    <3>1. request[r].at = "opened"
          /\ links' = ResetsOver([links EXCEPT ![request[r].link].state = "used"], Len(links))
          /\ sessions' = Over(RevokeSessions(sessions), Len(sessions)) /\ Changes /\ UNCHANGED account
      BY <1>3, <2>2 DEF CompleteReset, SetsPassword
    <3>2. LinksFollow(links, links') /\ Len(links') = Len(links)
      <4>1. request[r].link \in 1..Len(links)
        BY <3>1 DEF LinkNamed
      <4> QED BY <3>1, <4>1, PasswordLinks
    <3>3. SessionsFollow(sessions, sessions') /\ Len(sessions') = Len(sessions)
      <4>1. /\ SessionsFollow(sessions, RevokeSessions(sessions))
            /\ Len(RevokeSessions(sessions)) = Len(sessions) /\ Len(sessions) \in Nat
        BY RevokedSessions DEF TypeOK
      <4>2. SessionsFollow(RevokeSessions(sessions), sessions') /\ Len(sessions') = Len(sessions)
        BY <3>1, <4>1, OverSessions DEF SessionsFollow
      <4> QED BY <4>1, <4>2 DEF SessionsFollow
    <3>4. request' \in [Requests -> Request]
      BY <2>2, RequestEnds DEF SetsPassword, Points
    <3>5. UNCHANGED account /\ changes' \in 0..MaxChanges
      BY <1>b, <3>1
    <3> QED BY <1>0, <3>2, <3>3, <3>4, <3>5 DEF TypeOK, StepOK, LinksFollow, SessionsFollow
  <2> QED BY <1>3, <2>1, <2>2 DEF CompleteReset
<1>4. CASE CompleteDeletion(r)
  <2>1. CASE Refused(r)
    BY <2>1, RefusedOK
  <2>2. CASE Erases /\ Ends(r) /\ UNCHANGED changes
    BY <2>2, RequestEnds, ErasedOK
  <2> QED BY <1>4, <2>1, <2>2 DEF CompleteDeletion
<1> QED BY <1>1, <1>2, <1>3, <1>4 DEF UseLink

LEMMA SessionsOK ==
  ASSUME TypeOK, NEW r \in Requests, SignIn(r) \/ IssueSession(r) \/ EndAccess(r)
  PROVE  StepOK
<1>0. /\ account \in Account /\ account.life \in Nat /\ changes \in 0..MaxChanges
      /\ links \in Seq(Link) /\ sessions \in Seq(Session) /\ Len(links) \in Nat /\ Len(sessions) \in Nat
      /\ Len(links) <= MaxLinks /\ Len(sessions) <= MaxSessions /\ request[r] \in Request
  BY DEF TypeOK, Account
<1>a. Changes => changes' \in 0..MaxChanges
  BY <1>0, AccessAssumption DEF Changes
<1>1. CASE SignIn(r)
  <2>1. [Idle EXCEPT !.at = "session", !.life = account.life] \in Request
    BY <1>0 DEF Idle, Request, Points
  <2>2. request' \in [Requests -> Request]
    BY <1>1, <2>1 DEF SignIn, TypeOK
  <2> QED BY <1>1, <2>2, RequestsMove DEF SignIn
<1>2. CASE IssueSession(r)
  <2>0. request' \in [Requests -> Request]
    BY <1>2, RequestEnds DEF IssueSession
  <2>1. CASE UNCHANGED sessions
    BY <1>2, <2>0, <2>1, RequestsMove DEF IssueSession
  <2>2. CASE ~UNCHANGED sessions
    <3> DEFINE row == [life |-> request[r].life, state |-> "live", over |-> FALSE]
    <3>1. row \in Session
      BY <1>0 DEF Session, Request
    <3>2. sessions' = Append(sessions, row) /\ Len(sessions) < MaxSessions
      BY <1>2, <2>2 DEF IssueSession
    <3> HIDE DEF row
    <3>3. SessionsFollow(sessions, sessions') /\ Len(sessions') = Len(sessions) + 1
      BY <1>0, <3>1, <3>2, NewSession
    <3>4. Len(sessions') <= MaxSessions /\ sessions' \in Seq(Session)
      BY <1>0, <3>2, <3>3, AccessAssumption DEF SessionsFollow
    <3>5. UNCHANGED <<account, links, changes>>
      BY <1>2 DEF IssueSession
    <3> QED BY <1>0, <2>0, <3>3, <3>4, <3>5, SameRows DEF TypeOK, StepOK
  <2> QED BY <2>1, <2>2
<1>3. CASE Deactivate(r)
  <2>1. [Idle EXCEPT !.at = "endSessions", !.life = account.life, !.link = Len(links),
                     !.opened = Len(sessions)] \in Request
    BY <1>0 DEF Idle, Request, Points
  <2>2. request' \in [Requests -> Request]
    BY <1>3, <2>1 DEF Deactivate, TypeOK
  <2>3. account' \in Account /\ account'.life = account.life
    BY <1>0, <1>3 DEF Deactivate, Account
  <2>4. UNCHANGED <<links, sessions>> /\ changes' \in 0..MaxChanges
    BY <1>3, <1>a DEF Deactivate
  <2> QED BY <1>0, <2>2, <2>3, <2>4, SameRows DEF TypeOK, StepOK
<1>4. CASE EndSessions(r)
  <2>1. SessionsFollow(sessions, sessions') /\ Len(sessions') = Len(sessions)
    BY <1>0, <1>4, RevokedSessions, SameRows DEF EndSessions
  <2>2. request' \in [Requests -> Request]
    BY <1>4, RequestEnds DEF EndSessions, Points
  <2>3. UNCHANGED <<account, links, changes>>
    BY <1>4 DEF EndSessions
  <2> QED BY <1>0, <2>1, <2>2, <2>3, SameRows DEF TypeOK, StepOK, SessionsFollow
<1>5. CASE EndResets(r)
  <2> DEFINE rows == RevokeLinks(links, "reset", request[r].life)
  <2>0. request[r].link \in Nat /\ request[r].opened \in Nat
    BY <1>0 DEF Request
  <2>1. SessionsFollow(sessions, sessions') /\ Len(sessions') = Len(sessions)
    BY <1>0, <1>5, <2>0, OverSessions DEF EndResets
  <2>2. LinksFollow(links, rows) /\ Len(rows) = Len(links) /\ rows \in Seq(Link)
    BY <1>0, RevokedLinks DEF LinksFollow
  <2> HIDE DEF rows
  <2>3. LinksFollow(rows, links') /\ Len(links') = Len(links)
    BY <1>0, <1>5, <2>0, <2>2, OverLinks DEF EndResets, rows
  <2>4. LinksFollow(links, links')
    BY <1>0, <2>2, <2>3 DEF LinksFollow
  <2>5. request' \in [Requests -> Request]
    BY <1>5, RequestEnds DEF EndResets
  <2>6. UNCHANGED <<account, changes>>
    BY <1>5 DEF EndResets
  <2>7. links' \in Seq(Link) /\ sessions' \in Seq(Session)
    BY <2>1, <2>4 DEF LinksFollow, SessionsFollow
  <2> QED BY <1>0, <2>1, <2>3, <2>4, <2>5, <2>6, <2>7 DEF TypeOK, StepOK
<1> QED BY <1>1, <1>2, <1>3, <1>4, <1>5 DEF EndAccess

LEMMA NextOK == ASSUME TypeOK, LinkNamed, [Next]_vars PROVE StepOK
<1>0. /\ account \in Account /\ account.life \in Nat /\ changes \in 0..MaxChanges
      /\ \A i \in 1..Len(links) : links[i] \in Link
      /\ sessions \in Seq(Session) /\ \A s \in 1..Len(sessions) : sessions[s] \in Session
  BY DEF TypeOK, Account
<1>1. ASSUME NEW r \in Requests,
             AskForLink(r) \/ UseLink(r) \/ SignIn(r) \/ IssueSession(r) \/ EndAccess(r) \/ GiveUp(r)
      PROVE  StepOK
  BY <1>1, AskForLinkOK, UseLinkOK, SessionsOK, RefusedOK DEF GiveUp
<1>2. CASE RevokeInvitation
  <2>1. PICK i \in Open("invitation") : links' = [links EXCEPT ![i].state = "revoked"]
    BY <1>2 DEF RevokeInvitation
  <2>2. i \in 1..Len(links) /\ links' = [links EXCEPT ![i] = [links[i] EXCEPT !.state = "revoked"]]
    BY <2>1 DEF Open, LinkIds
  <2> DEFINE row == [links[i] EXCEPT !.state = "revoked"]
  <2>3. /\ row \in Link /\ row.kind = links[i].kind /\ row.life = links[i].life
        /\ row.over = links[i].over /\ (row.state = "live" => links[i].state = "live")
    BY <2>2, <1>0 DEF Link
  <2>4. UNCHANGED <<account, sessions, changes>> /\ request' \in [Requests -> Request]
    BY <1>2 DEF RevokeInvitation, TypeOK
  <2> HIDE DEF row
  <2>5. links' = [links EXCEPT ![i] = row] /\ account' \in Account /\ account.life <= account'.life
    BY <1>0, <2>2, <2>4 DEF row
  <2> QED BY <1>0, <2>2, <2>3, <2>4, <2>5, MarkedOK
<1>3. CASE DeleteAccount
  BY <1>3, ErasedOK DEF DeleteAccount, TypeOK
<1>4. CASE SignOut
  <2>1. PICK s \in DOMAIN sessions : sessions' = [sessions EXCEPT ![s].state = "revoked"]
    BY <1>4 DEF SignOut
  <2>2. s \in 1..Len(sessions) /\ sessions' = [sessions EXCEPT ![s] = [sessions[s] EXCEPT !.state = "revoked"]]
    BY <1>0, <2>1
  <2>3. [sessions[s] EXCEPT !.state = "revoked"] \in Session
    BY <2>2, <1>0 DEF Session
  <2>4. sessions' \in Seq(Session) /\ Len(sessions') = Len(sessions)
    BY <1>0, <2>2, <2>3, ExceptSeq
  <2>5. \A t \in 1..Len(sessions) : sessions'[t].life = sessions[t].life
                                     /\ (sessions'[t].state = "live" => sessions[t].state = "live")
    BY <1>0, <2>2 DEF Session
  <2>6. SessionsFollow(sessions, sessions')
    BY <1>0, <2>4, <2>5 DEF SessionsFollow
  <2>7. UNCHANGED <<account, links, request, changes>>
    BY <1>4 DEF SignOut
  <2> QED BY <1>0, <2>4, <2>6, <2>7, SameRows DEF TypeOK, StepOK
<1>5. CASE Reactivate
  <2>1. account' \in Account /\ account'.life = account.life
    BY <1>0, <1>5 DEF Reactivate, Account
  <2>2. changes' \in 0..MaxChanges
    BY <1>0, <1>5, AccessAssumption DEF Reactivate, Changes
  <2> QED BY <1>0, <1>5, <2>1, <2>2, SameRows DEF Reactivate, TypeOK, StepOK
<1>6. CASE Lapse
  <2>1. PICK i \in LinkIds : links' = [links EXCEPT ![i].lapsed = TRUE]
    BY <1>6 DEF Lapse
  <2>2. i \in 1..Len(links) /\ links' = [links EXCEPT ![i] = [links[i] EXCEPT !.lapsed = TRUE]]
    BY <2>1 DEF LinkIds
  <2> DEFINE row == [links[i] EXCEPT !.lapsed = TRUE]
  <2>3. /\ row \in Link /\ row.kind = links[i].kind /\ row.life = links[i].life
        /\ row.over = links[i].over /\ (row.state = "live" => links[i].state = "live")
    BY <2>2, <1>0 DEF Link
  <2>4. UNCHANGED <<account, sessions, changes>> /\ request' \in [Requests -> Request]
    BY <1>6 DEF Lapse, TypeOK
  <2> HIDE DEF row
  <2>5. links' = [links EXCEPT ![i] = row] /\ account' \in Account /\ account.life <= account'.life
    BY <1>0, <2>2, <2>4 DEF row
  <2> QED BY <1>0, <2>2, <2>3, <2>4, <2>5, MarkedOK
<1>7. CASE UNCHANGED vars
  BY <1>7, RequestsMove DEF vars, TypeOK
<1> QED BY <1>1, <1>2, <1>3, <1>4, <1>5, <1>6, <1>7 DEF Next

-----------------------------------------------------------------------------
(* What a step does to the links: those there keep their history, but for  *)
(* ones it ends; a new one is of an account that is there, or of none.     *)
LinksStep ==
    /\ \A i \in 1..Len(links') :
         \/ i \in 1..Len(links)
         \/ /\ UNCHANGED account /\ links'[i].over = FALSE /\ links'[i].life <= account.life
            /\ links'[i].kind # "invitation" => Exists(links'[i].life)
            /\ OpenReset(i)' => \A j \in 1..Len(links') : OpenReset(j)' => i = j
    /\ \A i \in 1..Len(links) : links'[i].over => links[i].over \/ links'[i].state # "live"

SessionsStep ==
    /\ \A s \in 1..Len(sessions') :
         \/ s \in 1..Len(sessions)
         \/ UNCHANGED account /\ sessions'[s].over = FALSE /\ Exists(sessions'[s].life)
    /\ \A s \in 1..Len(sessions) : sessions'[s].over => sessions[s].over \/ sessions'[s].state # "live"

LEMMA LinksSame ==
  ASSUME Len(links') = Len(links), \A i \in 1..Len(links) : links'[i].over = links[i].over
  PROVE  LinksStep
BY DEF LinksStep

LEMMA Inserted ==
  ASSUME Inv, NEW r \in Requests, NEW rows \in Seq(Link), Len(rows) = Len(links),
         \A i \in 1..Len(links) : rows[i].over = links[i].over,
         Inserts(r, rows), UNCHANGED account,
         request[r].kind # "invitation" => Exists(request[r].life),
         request[r].kind = "reset" =>
           \A i \in 1..Len(links) : ~(rows[i].kind = "reset" /\ rows[i].state = "live")
  PROVE  LinksStep
<1> DEFINE row == [kind |-> request[r].kind, life |-> request[r].life, state |-> "live",
                   lapsed |-> FALSE, mailed |-> FALSE, over |-> FALSE]
<1>1. row.over = FALSE /\ row.life = request[r].life /\ row.kind = request[r].kind
  OBVIOUS
<1>2. links' = Append(rows, row)
  BY DEF Inserts
<1> HIDE DEF row
<1>3. /\ Len(links') = Len(links) + 1 /\ links'[Len(links) + 1] = row /\ Len(links) \in Nat
      /\ \A i \in 1..Len(links) : links'[i] = rows[i]
  BY <1>2 DEF Inv, TypeOK
<1>4. request[r].life <= account.life
  BY DEF Inv, LivesOK
<1>5. \A i \in 1..Len(links') : i \in 1..Len(links) \/ i = Len(links) + 1
  BY <1>3
<1>6. ASSUME NEW i \in 1..Len(links'), i \notin 1..Len(links), OpenReset(i)',
             NEW j \in 1..Len(links'), OpenReset(j)'
      PROVE  i = j
  <2>1. i = Len(links) + 1 /\ links'[i].kind = "reset"
    BY <1>5, <1>6 DEF OpenReset
  <2>2. request[r].kind = "reset"
    BY <1>1, <1>3, <2>1
  <2>3. j \notin 1..Len(links)
    BY <1>3, <1>6, <2>2 DEF OpenReset
  <2> QED BY <1>5, <2>1, <2>3
<1>7. \A i \in 1..Len(links') :
        \/ i \in 1..Len(links)
        \/ /\ links'[i].over = FALSE /\ links'[i].life <= account.life
           /\ links'[i].kind # "invitation" => Exists(links'[i].life)
  BY <1>1, <1>3, <1>4, <1>5
<1> QED BY <1>3, <1>6, <1>7 DEF LinksStep

(* A link named by the account that is there last is of it.                *)
LEMMA OlderResetsOver ==
  ASSUME Inv, NEW r \in Requests, request[r].at = "endResets", NEW i \in 1..Len(links),
         i <= request[r].link, links[i].kind = "reset", links[i].state = "live"
  PROVE  links[i].life = request[r].life
<1>1. links[i].life <= request[r].life /\ request[r].life <= account.life
  BY DEF Inv, EndingOK, Ending, LivesOK, TypeOK, Request
<1>2. links[i].life = account.life
  BY DEF Inv, LiveBelongs, Exists
<1>3. links[i].life \in Nat /\ request[r].life \in Nat /\ account.life \in Nat
  <2>1. links[i] \in Link /\ request[r] \in Request /\ account \in Account
    BY DEF Inv, TypeOK
  <2> QED BY <2>1 DEF Link, Request, Account
<1> QED BY <1>1, <1>2, <1>3

LEMMA LinksStepOK == ASSUME Inv, [Next]_vars PROVE LinksStep
<1>0. /\ TypeOK /\ links \in Seq(Link) /\ Len(links) \in Nat
      /\ \A i \in 1..Len(links) : links[i] \in Link
  BY DEF Inv, TypeOK
<1>1. CASE UNCHANGED links
  BY <1>1, LinksSame
<1>2. ASSUME NEW i \in LinkIds, links' = [links EXCEPT ![i].state = "revoked"] PROVE LinksStep
  BY <1>0, <1>2, StateTaken, LinksSame DEF LinkIds
<1>3. ASSUME NEW r \in Requests, InsertInvitation(r) \/ ReplaceLink(r) PROVE LinksStep
  <2>1. CASE InsertInvitation(r) /\ Inserts(r, links)
    BY <1>0, <2>1, Inserted DEF InsertInvitation
  <2>2. CASE ReplaceLink(r) /\ Inserts(r, RevokeLinks(links, request[r].kind, request[r].life))
    <3> DEFINE rows == RevokeLinks(links, request[r].kind, request[r].life)
    <3>1. /\ rows \in Seq(Link) /\ Len(rows) = Len(links)
          /\ \A i \in 1..Len(links) : rows[i].over = links[i].over
      BY <1>0, RevokedLinks DEF LinksFollow
    <3>a. ASSUME request[r].kind = "reset", Exists(request[r].life), NEW i \in 1..Len(links),
                 rows[i].kind = "reset", rows[i].state = "live"
          PROVE  FALSE
      <4>1. /\ LinksFollow(links, rows)
            /\ links[i].kind = "reset" /\ links[i].life = request[r].life => rows[i].state # "live"
        BY <1>0, <3>a, RevokedLinks
      <4>2. links[i].kind = "reset" /\ links[i].state = "live"
        BY <3>a, <4>1 DEF LinksFollow
      <4>3. Exists(links[i].life)
        BY <4>2 DEF Inv, LiveBelongs
      <4> QED BY <3>a, <4>1, <4>2, <4>3 DEF Exists
    <3>2. CASE Exists(request[r].life)
      <4>1. Inserts(r, rows) /\ UNCHANGED account
        BY <2>2 DEF ReplaceLink
      <4> HIDE DEF rows
      <4> QED BY <3>1, <3>2, <3>a, <4>1, Inserted
    <3>3. CASE ~Exists(request[r].life)
      BY <1>1, <2>2, <3>3 DEF ReplaceLink
    <3> QED BY <3>2, <3>3
  <2> QED BY <1>1, <1>3, <2>1, <2>2 DEF InsertInvitation, ReplaceLink
<1>4. ASSUME NEW i \in 1..Len(links), NEW row \in Link, row.kind = links[i].kind, row.life = links[i].life,
             row.over = links[i].over, row.state = "live" => links[i].state = "live",
             links' = [links EXCEPT ![i] = row]
      PROVE  LinksStep
  BY <1>0, <1>4, MarkedLink, LinksSame
<1>5. ASSUME NEW r \in Requests, SendMail(r) \/ MailFails(r) PROVE LinksStep
  <2> DEFINE i == request[r].link
  <2>1. PICK mailed \in BOOLEAN : links' = [links EXCEPT ![i].mailed = mailed]
    BY <1>5 DEF SendMail, MailFails
  <2>2. i \in 1..Len(links) /\ links[i] \in Link
    BY <1>0, <1>5 DEF SendMail, MailFails, Inv, LinkNamed
  <2> DEFINE row == [links[i] EXCEPT !.mailed = mailed]
  <2>3. /\ row \in Link /\ row.kind = links[i].kind /\ row.life = links[i].life
        /\ row.over = links[i].over /\ (row.state = "live" => links[i].state = "live")
    BY <2>2 DEF Link
  <2>4. links' = [links EXCEPT ![i] = row]
    BY <2>1, <2>2
  <2> HIDE DEF row, i
  <2> QED BY <1>4, <2>2, <2>3, <2>4
<1>6. ASSUME NEW r \in Requests, RevokeUndelivered(r) PROVE LinksStep
  BY <1>0, <1>6, RevokedLinks, LinksSame DEF RevokeUndelivered
<1>7. ASSUME NEW r \in Requests, AcceptInvitation(r) PROVE LinksStep
  <2>1. CASE UNCHANGED links
    BY <2>1, <1>1
  <2>2. CASE links' = [links EXCEPT ![request[r].link].state = "used"]
    <3>1. request[r].link \in 1..Len(links)
      BY <1>7 DEF AcceptInvitation, Inv, LinkNamed
    <3> QED BY <1>0, <2>2, <3>1, StateTaken, LinksSame
  <2> QED BY <1>7, <2>1, <2>2 DEF AcceptInvitation, Refused
<1>a. ASSUME NEW r \in Requests, CompleteReset(r) PROVE LinksStep
  <2> DEFINE i == request[r].link
  <2>1. CASE Refused(r)
    BY <2>1, <1>1 DEF Refused
  <2>2. CASE Works(i) /\ SetsPassword(r)
    <3>1. /\ i \in 1..Len(links) /\ OpenReset(i)
          /\ links' = ResetsOver([links EXCEPT ![i].state = "used"], Len(links))
      BY <1>a, <2>2 DEF CompleteReset, SetsPassword, Works, Inv, LinkNamed, OpenedKind, OpenReset
    <3> HIDE DEF i
    <3>2. /\ LinksFollow(links, links') /\ Len(links') = Len(links)
          /\ links'[i].state = "used"
          /\ \A j \in 1..Len(links) : links'[j].over => links[j].over \/ links[j].kind = "reset"
      BY <1>0, <3>1, PasswordLinks
    <3>3. ASSUME NEW j \in 1..Len(links), links[j].kind = "reset", links'[j].state = "live" PROVE FALSE
      <4>1. OpenReset(j)
        BY <3>2, <3>3 DEF LinksFollow, OpenReset
      <4>2. j = i
        BY <3>1, <4>1 DEF Inv, OneReset
      <4> QED BY <3>2, <3>3, <4>2
    <3> QED BY <3>2, <3>3 DEF LinksStep
  <2> QED BY <1>a, <2>1, <2>2 DEF CompleteReset
<1>8. CASE Erases
  BY <1>0, <1>8, ErasesOK DEF LinksStep
<1>9. ASSUME NEW r \in Requests, EndResets(r) PROVE LinksStep
  <2> DEFINE rows == RevokeLinks(links, "reset", request[r].life)
             n == request[r].link
  <2>1. /\ rows \in Seq(Link) /\ Len(rows) = Len(links) /\ LinksFollow(links, rows)
        /\ \A i \in 1..Len(links) :
             /\ rows[i].over = links[i].over
             /\ links[i].kind = "reset" /\ links[i].life = request[r].life => rows[i].state # "live"
    BY <1>0, RevokedLinks DEF LinksFollow
  <2>2. n \in Nat /\ links' = ResetsOver(rows, n) /\ request[r].at = "endResets"
    BY <1>0, <1>9 DEF EndResets, TypeOK, Request
  <2> HIDE DEF rows
  <2>3. /\ Len(links') = Len(rows)
        /\ \A i \in 1..Len(rows) : /\ links'[i].state = rows[i].state
                                   /\ links'[i].over => rows[i].over \/ (i <= n /\ rows[i].kind = "reset")
    BY <2>1, <2>2, OverLinks
  <2>4. ASSUME NEW i \in 1..Len(links), i <= n, rows[i].kind = "reset" PROVE rows[i].state # "live"
    <3>1. links[i].kind = "reset" /\ (rows[i].state = "live" => links[i].state = "live")
      BY <2>1, <2>4 DEF LinksFollow
    <3> QED BY <2>1, <2>2, <2>4, <3>1, OlderResetsOver
  <2> QED BY <1>0, <2>1, <2>3, <2>4 DEF LinksStep
<1>10. CASE Lapse
  <2>1. PICK i \in LinkIds : links' = [links EXCEPT ![i].lapsed = TRUE]
    BY <1>10 DEF Lapse
  <2> DEFINE row == [links[i] EXCEPT !.lapsed = TRUE]
  <2>2. i \in 1..Len(links) /\ links[i] \in Link
    BY <1>0 DEF LinkIds
  <2>3. /\ row \in Link /\ row.kind = links[i].kind /\ row.life = links[i].life
        /\ row.over = links[i].over /\ (row.state = "live" => links[i].state = "live")
    BY <2>2 DEF Link
  <2>4. links' = [links EXCEPT ![i] = row]
    BY <2>1, <2>2
  <2> HIDE DEF row
  <2> QED BY <1>4, <2>2, <2>3, <2>4
<1>11. ASSUME NEW r \in Requests, AskForLink(r) PROVE LinksStep
  <2>1. CASE ResendInvitation(r)
    BY <1>2, <2>1 DEF ResendInvitation, Open
  <2>2. CASE IssueInvitation(r) \/ RequestReset(r) \/ RequestDeletion(r) \/ FindLiveInvitation(r)
    BY <1>1, <2>2 DEF IssueInvitation, RequestReset, RequestDeletion, FindLiveInvitation
  <2> QED BY <1>3, <1>5, <1>6, <1>11, <2>1, <2>2 DEF AskForLink
<1>12. ASSUME NEW r \in Requests, UseLink(r) PROVE LinksStep
  <2>1. CASE ResolveToken(r)
    BY <1>1, <2>1 DEF ResolveToken
  <2>2. CASE AcceptInvitation(r)
    BY <1>7, <2>2 DEF AcceptInvitation
  <2>3. CASE CompleteReset(r)
    BY <1>a, <2>3
  <2>4. CASE CompleteDeletion(r)
    BY <1>1, <1>8, <2>4 DEF CompleteDeletion, Refused
  <2> QED BY <1>12, <2>1, <2>2, <2>3, <2>4 DEF UseLink
<1>13. ASSUME NEW r \in Requests, SignIn(r) \/ IssueSession(r) \/ EndAccess(r) \/ GiveUp(r) PROVE LinksStep
  <2>1. CASE EndAccess(r)
    BY <1>1, <1>9, <2>1 DEF EndAccess, Deactivate, EndSessions
  <2> QED BY <1>1, <1>13, <2>1 DEF SignIn, IssueSession, GiveUp, Refused
<1>14. CASE RevokeInvitation \/ DeleteAccount \/ SignOut \/ Reactivate \/ UNCHANGED vars
  BY <1>1, <1>2, <1>8, <1>14 DEF RevokeInvitation, Open, DeleteAccount, SignOut, Reactivate, vars
<1> QED BY <1>10, <1>11, <1>12, <1>13, <1>14 DEF Next

LEMMA SessionsSame ==
  ASSUME Len(sessions') = Len(sessions), \A s \in 1..Len(sessions) : sessions'[s].over = sessions[s].over
  PROVE  SessionsStep
BY DEF SessionsStep

LEMMA SessionsStepOK == ASSUME Inv, [Next]_vars PROVE SessionsStep
<1>0. /\ TypeOK /\ sessions \in Seq(Session) /\ Len(sessions) \in Nat
      /\ \A s \in 1..Len(sessions) : sessions[s] \in Session
  BY DEF Inv, TypeOK
<1>1. CASE UNCHANGED sessions
  BY <1>1, SessionsSame
<1>2. ASSUME NEW r \in Requests, SetsPassword(r) PROVE SessionsStep
  <2> DEFINE rows == RevokeSessions(sessions)
  <2>1. /\ rows \in Seq(Session) /\ Len(rows) = Len(sessions)
        /\ \A s \in 1..Len(sessions) : rows[s].state # "live"
    BY <1>0, RevokedSessions DEF SessionsFollow
  <2>2. sessions' = Over(rows, Len(sessions))
    BY <1>2 DEF SetsPassword
  <2> HIDE DEF rows
  <2>3. Len(sessions') = Len(rows) /\ \A s \in 1..Len(rows) : sessions'[s].state = rows[s].state
    BY <1>0, <2>1, <2>2, OverSessions
  <2> QED BY <1>0, <2>1, <2>3 DEF SessionsStep
<1>3. CASE Erases
  BY <1>0, <1>3, ErasesOK DEF SessionsStep
<1>4. ASSUME NEW r \in Requests, IssueSession(r) PROVE SessionsStep
  <2> DEFINE row == [life |-> request[r].life, state |-> "live", over |-> FALSE]
  <2>1. row.over = FALSE /\ row.life = request[r].life
    OBVIOUS
  <2>2. CASE Exists(request[r].life) /\ sessions' = Append(sessions, row)
    <3> HIDE DEF row
    <3>1. /\ Len(sessions') = Len(sessions) + 1 /\ sessions'[Len(sessions) + 1] = row
          /\ \A s \in 1..Len(sessions) : sessions'[s] = sessions[s]
      BY <1>0, <2>2
    <3>2. \A s \in 1..Len(sessions') : s \in 1..Len(sessions) \/ s = Len(sessions) + 1
      BY <1>0, <3>1
    <3>3. UNCHANGED account
      BY <1>4 DEF IssueSession
    <3> QED BY <2>1, <2>2, <3>1, <3>2, <3>3 DEF SessionsStep
  <2> QED BY <1>1, <1>4, <2>2 DEF IssueSession
<1>5. CASE SignOut
  <2>1. PICK s \in DOMAIN sessions : sessions' = [sessions EXCEPT ![s].state = "revoked"]
    BY <1>5 DEF SignOut
  <2>2. Len(sessions') = Len(sessions) /\ \A t \in 1..Len(sessions) : sessions'[t].over = sessions[t].over
    BY <1>0, <2>1 DEF Session
  <2> QED BY <2>2, SessionsSame
<1>6. ASSUME NEW r \in Requests, EndSessions(r) PROVE SessionsStep
  <2>1. CASE sessions' = RevokeSessions(sessions)
    BY <1>0, <2>1, RevokedSessions, SessionsSame
  <2> QED BY <1>1, <1>6, <2>1 DEF EndSessions
<1>7. ASSUME NEW r \in Requests, EndResets(r) PROVE SessionsStep
  <2> DEFINE n == request[r].opened
  <2>1. n \in Nat /\ sessions' = Over(sessions, n) /\ request[r].at = "endResets"
    BY <1>0, <1>7 DEF EndResets, TypeOK, Request
  <2>2. /\ Len(sessions') = Len(sessions)
        /\ \A s \in 1..Len(sessions) : /\ sessions'[s].state = sessions[s].state
                                       /\ sessions'[s].over => sessions[s].over \/ s <= n
    BY <1>0, <2>1, OverSessions
  <2>3. \A s \in 1..Len(sessions) : s <= n => sessions[s].state # "live"
    BY <2>1 DEF Inv, EndingOK, Ending
  <2> QED BY <1>0, <2>2, <2>3 DEF SessionsStep
<1>8. ASSUME NEW r \in Requests, AskForLink(r) PROVE SessionsStep
  <2>1. UNCHANGED sessions
    BY <1>8 DEF AskForLink, IssueInvitation, FindLiveInvitation, ResendInvitation, InsertInvitation,
         RequestReset, RequestDeletion, ReplaceLink, SendMail, MailFails, RevokeUndelivered
  <2> QED BY <1>1, <2>1
<1>9. ASSUME NEW r \in Requests, UseLink(r) PROVE SessionsStep
  <2>1. CASE ResolveToken(r) \/ AcceptInvitation(r)
    BY <1>1, <2>1 DEF ResolveToken, AcceptInvitation, Refused
  <2>2. CASE CompleteReset(r)
    BY <1>1, <1>2, <2>2 DEF CompleteReset, Refused
  <2>3. CASE CompleteDeletion(r)
    BY <1>1, <1>3, <2>3 DEF CompleteDeletion, Refused
  <2> QED BY <1>9, <2>1, <2>2, <2>3 DEF UseLink
<1>10. ASSUME NEW r \in Requests, SignIn(r) \/ EndAccess(r) \/ GiveUp(r) PROVE SessionsStep
  <2>1. CASE EndAccess(r)
    BY <1>1, <1>6, <1>7, <2>1 DEF EndAccess, Deactivate
  <2> QED BY <1>1, <1>10, <2>1 DEF SignIn, GiveUp, Refused
<1>11. CASE RevokeInvitation \/ DeleteAccount \/ Reactivate \/ Lapse \/ UNCHANGED vars
  BY <1>1, <1>3, <1>11 DEF RevokeInvitation, DeleteAccount, Reactivate, Lapse, vars
<1> QED BY <1>4, <1>5, <1>8, <1>9, <1>10, <1>11 DEF Next

-----------------------------------------------------------------------------
(* What a step does to a request: it leaves it; takes it somewhere that is *)
(* no deactivation, knowing what it will need; begins a deactivation; or   *)
(* ends the sessions of one.                                               *)
Moves(q) ==
    /\ request'[q].at \notin {"endSessions", "endResets"}
    /\ request'[q].life \in {0, request[q].life, account.life, account'.life}
    /\ request'[q].at \in {"unknown", "insert"} => request'[q].kind \in Kinds
    /\ request'[q].at \in {"send", "opened"} => request'[q].link \in 1..Len(links')
    /\ request'[q].at = "opened" => links'[request'[q].link].kind = request'[q].kind

Begins(q) ==
    /\ UNCHANGED <<links, sessions>> /\ account'.life = account.life
    /\ request'[q].at = "endSessions" /\ request'[q].life = account.life
    /\ request'[q].link = Len(links) /\ request'[q].opened = Len(sessions)

EndsTheirs(q) ==
    /\ UNCHANGED <<account, links>> /\ Len(sessions') = Len(sessions)
    /\ request[q].at = "endSessions" /\ request'[q].at = "endResets"
    /\ request'[q].life = request[q].life /\ request'[q].link = request[q].link
    /\ request'[q].opened = request[q].opened
    /\ \A s \in 1..Len(sessions) : s <= request[q].opened => sessions'[s].state # "live"

RequestStep(q) == request'[q] = request[q] \/ Moves(q) \/ Begins(q) \/ EndsTheirs(q)

(* Only the request that is handled moves.                                 *)
LEMMA OneMoves ==
  ASSUME TypeOK, NEW r \in Requests, NEW new, request' = [request EXCEPT ![r] = new]
  PROVE  request'[r] = new /\ \A q \in Requests \ {r} : request'[q] = request[q]
BY DEF TypeOK

LEMMA EndsMoves == ASSUME TypeOK, NEW r \in Requests, Ends(r) PROVE \A q \in Requests : RequestStep(q)
<1>1. Idle.at = "idle" /\ Idle.life = 0
  BY DEF Idle
<1> QED BY <1>1, OneMoves DEF Ends, RequestStep, Moves

LEMMA GoesMoves ==
  ASSUME TypeOK, NEW r \in Requests, NEW at, Goes(r, at)
  PROVE  /\ request'[r] = [request[r] EXCEPT !.at = at] /\ request'[r].at = at
         /\ request'[r].life = request[r].life /\ request'[r].kind = request[r].kind
         /\ request'[r].link = request[r].link /\ request'[r].opened = request[r].opened
         /\ \A q \in Requests \ {r} : request'[q] = request[q]
<1>1. request[r] \in Request
  BY DEF TypeOK
<1>2. request' = [request EXCEPT ![r] = [request[r] EXCEPT !.at = at]]
  BY DEF Goes
<1>3. request'[r] = [request[r] EXCEPT !.at = at] /\ \A q \in Requests \ {r} : request'[q] = request[q]
  BY <1>2 DEF TypeOK
<1> QED BY <1>1, <1>3 DEF Request

LEMMA AsksMoves ==
  ASSUME TypeOK, NEW r \in Requests, NEW kind \in Kinds, NEW at, Asks(r, kind, at),
         at \in {"unknown", "insert"}
  PROVE  \A q \in Requests : RequestStep(q)
<1> DEFINE new == [Idle EXCEPT !.at = at, !.kind = kind, !.life = account.life]
<1>1. new.at = at /\ new.kind = kind /\ new.life = account.life
  BY DEF Idle
<1>2. request' = [request EXCEPT ![r] = new]
  BY DEF Asks
<1> HIDE DEF new
<1> QED BY <1>1, <1>2, OneMoves DEF RequestStep, Moves

(* A session of an account that is gone, or of one before it, is not live. *)
LEMMA OlderSessionsOver ==
  ASSUME Inv, NEW r \in Requests, request[r].at = "endSessions", ~Exists(request[r].life),
         NEW s \in 1..Len(sessions), s <= request[r].opened
  PROVE  sessions[s].state # "live"
<1> SUFFICES ASSUME sessions[s].state = "live" PROVE FALSE
  OBVIOUS
<1>1. request[r].opened \in Nat /\ s \in 1..request[r].opened
  BY DEF Inv, TypeOK, Request
<1>2. sessions[s].life <= request[r].life /\ request[r].life <= account.life
  BY <1>1 DEF Inv, EndingOK, Ending, LivesOK
<1>3. sessions[s].life = account.life /\ account.state # "none"
  BY DEF Inv, LiveBelongs, Exists
<1>4. request[r].life \in Nat /\ account.life \in Nat
  <2>1. request[r] \in Request /\ account \in Account
    BY DEF Inv, TypeOK
  <2> QED BY <2>1 DEF Request, Account
<1>5. request[r].life = account.life
  BY <1>2, <1>3, <1>4
<1> QED BY <1>3, <1>5 DEF Exists

LEMMA RequestStepOK == ASSUME Inv, [Next]_vars PROVE \A q \in Requests : RequestStep(q)
<1> DEFINE All == \A q \in Requests : RequestStep(q)
<1> SUFFICES All
  OBVIOUS
<1>0. /\ TypeOK /\ \A q \in Requests : request[q] \in Request
      /\ sessions \in Seq(Session) /\ Len(links) \in Nat
  BY DEF Inv, TypeOK
<1>1. CASE UNCHANGED request
  BY <1>1 DEF RequestStep
<1>2. ASSUME NEW r \in Requests, Ends(r) PROVE All
  BY <1>0, <1>2, EndsMoves
<1>3. ASSUME NEW r \in Requests, NEW at \in {"insert", "session", "undelivered"}, Goes(r, at),
             at = "insert" => request[r].kind \in Kinds
      PROVE  All
  <2>1. /\ request'[r].at = at /\ request'[r].life = request[r].life /\ request'[r].kind = request[r].kind
        /\ \A q \in Requests \ {r} : request'[q] = request[q]
    BY <1>0, <1>3, GoesMoves
  <2> QED BY <1>3, <2>1 DEF RequestStep, Moves
<1>4. ASSUME NEW r \in Requests, FindLiveInvitation(r) PROVE All
  <2>1. CASE Goes(r, "insert")
    <3>1. request[r].kind \in Kinds
      BY <1>4 DEF FindLiveInvitation, Inv, LinkNamed
    <3> QED BY <1>3, <2>1, <3>1
  <2> QED BY <1>2, <1>4, <2>1 DEF FindLiveInvitation
<1>5. ASSUME NEW r \in Requests, NEW rows \in Seq(Link), Inserts(r, rows), Len(rows) = Len(links)
      PROVE  All
  <2> DEFINE new == [request[r] EXCEPT !.at = "send", !.link = Len(rows) + 1]
  <2>1. new.at = "send" /\ new.link = Len(rows) + 1 /\ new.life = request[r].life
    BY <1>0 DEF Request
  <2>a. request' = [request EXCEPT ![r].at = "send", ![r].link = Len(rows) + 1]
    BY <1>5 DEF Inserts
  <2>b. Len(links') = Len(rows) + 1
    BY <1>5 DEF Inserts
  <2>2. request' = [request EXCEPT ![r] = new] /\ Len(links') = Len(rows) + 1
    BY <1>0, <2>a, <2>b DEF TypeOK
  <2>3. new.link \in 1..Len(links')
    BY <1>0, <1>5, <2>1, <2>2
  <2> HIDE DEF new
  <2> QED BY <1>0, <2>1, <2>2, <2>3, OneMoves DEF RequestStep, Moves
<1>6. ASSUME NEW r \in Requests, AskForLink(r) PROVE All
  <2>1. CASE IssueInvitation(r) \/ ResendInvitation(r) \/ RequestReset(r) \/ RequestDeletion(r)
    BY <1>0, <2>1, AsksMoves DEF IssueInvitation, ResendInvitation, RequestReset, RequestDeletion, Kinds
  <2>2. CASE InsertInvitation(r)
    BY <1>0, <1>2, <1>5, <2>2 DEF InsertInvitation, TypeOK
  <2>3. CASE ReplaceLink(r)
    <3> DEFINE rows == RevokeLinks(links, request[r].kind, request[r].life)
    <3>1. Len(rows) = Len(links) /\ rows \in Seq(Link)
      BY <1>0, RevokedLinks DEF TypeOK, LinksFollow
    <3>2. Inserts(r, rows) \/ Ends(r)
      BY <2>3 DEF ReplaceLink
    <3> HIDE DEF rows
    <3> QED BY <1>2, <1>5, <3>1, <3>2
  <2>4. CASE SendMail(r) \/ RevokeUndelivered(r)
    BY <1>2, <2>4 DEF SendMail, RevokeUndelivered
  <2>5. CASE MailFails(r)
    BY <1>2, <1>3, <2>5 DEF MailFails
  <2> QED BY <1>4, <1>6, <2>1, <2>2, <2>3, <2>4, <2>5 DEF AskForLink
<1>7. ASSUME NEW r \in Requests, UseLink(r) PROVE All
  <2>1. CASE ResolveToken(r)
    <3>1. PICK i \in LinkIds :
             request' = [request EXCEPT ![r] = [Idle EXCEPT !.at = "opened", !.kind = links[i].kind,
                                                !.life = account.life, !.link = i]]
      BY <2>1 DEF ResolveToken
    <3> DEFINE new == [Idle EXCEPT !.at = "opened", !.kind = links[i].kind, !.life = account.life, !.link = i]
    <3>2. /\ new.at = "opened" /\ new.life = account.life /\ new.link = i /\ i \in 1..Len(links)
          /\ new.kind = links[i].kind
      BY DEF Idle, LinkIds
    <3>3. request' = [request EXCEPT ![r] = new] /\ UNCHANGED links
      BY <2>1, <3>1 DEF ResolveToken
    <3> HIDE DEF new
    <3> QED BY <1>0, <3>2, <3>3, OneMoves DEF RequestStep, Moves
  <2>2. CASE AcceptInvitation(r)
    <3>1. CASE request' = [request EXCEPT ![r].at = "session", ![r].life = account.life + 1]
               /\ account' = [state |-> "active", life |-> account.life + 1]
      <4> DEFINE new == [request[r] EXCEPT !.at = "session", !.life = account.life + 1]
      <4>1. new.at = "session" /\ new.life = account'.life
        BY <1>0, <3>1 DEF Request
      <4>2. request' = [request EXCEPT ![r] = new]
        BY <1>0, <3>1 DEF TypeOK
      <4> HIDE DEF new
      <4> QED BY <1>0, <4>1, <4>2, OneMoves DEF RequestStep, Moves
    <3> QED BY <1>2, <2>2, <3>1 DEF AcceptInvitation, Refused
  <2>3. CASE CompleteReset(r)
    BY <1>2, <1>3, <2>3 DEF CompleteReset, SetsPassword, Refused
  <2>4. CASE CompleteDeletion(r)
    BY <1>2, <2>4 DEF CompleteDeletion, Refused
  <2> QED BY <1>7, <2>1, <2>2, <2>3, <2>4 DEF UseLink
<1>8. ASSUME NEW r \in Requests, SignIn(r) PROVE All
  <2> DEFINE new == [Idle EXCEPT !.at = "session", !.life = account.life]
  <2>1. new.at = "session" /\ new.life = account.life
    BY DEF Idle
  <2>2. request' = [request EXCEPT ![r] = new]
    BY <1>8 DEF SignIn
  <2> HIDE DEF new
  <2> QED BY <1>0, <2>1, <2>2, OneMoves DEF RequestStep, Moves
<1>9. ASSUME NEW r \in Requests, Deactivate(r) PROVE All
  <2> DEFINE new == [Idle EXCEPT !.at = "endSessions", !.life = account.life, !.link = Len(links),
                                 !.opened = Len(sessions)]
  <2>1. /\ new.at = "endSessions" /\ new.life = account.life
        /\ new.link = Len(links) /\ new.opened = Len(sessions)
    BY DEF Idle
  <2>2. request' = [request EXCEPT ![r] = new] /\ UNCHANGED <<links, sessions>>
    BY <1>9 DEF Deactivate
  <2>3. account'.life = account.life
    BY <1>9 DEF Deactivate, Inv, TypeOK, Account
  <2> HIDE DEF new
  <2> QED BY <1>0, <2>1, <2>2, <2>3, OneMoves DEF RequestStep, Begins
<1>10. ASSUME NEW r \in Requests, EndSessions(r) PROVE All
  <2>1. /\ request'[r].at = "endResets" /\ request'[r].life = request[r].life
        /\ request'[r].link = request[r].link /\ request'[r].opened = request[r].opened
        /\ \A q \in Requests \ {r} : request'[q] = request[q]
    BY <1>0, <1>10, GoesMoves DEF EndSessions
  <2>2. Len(sessions') = Len(sessions)
    BY <1>0, <1>10, RevokedSessions DEF EndSessions
  <2>3. ASSUME NEW s \in 1..Len(sessions), s <= request[r].opened PROVE sessions'[s].state # "live"
    <3>1. CASE Exists(request[r].life)
      BY <1>0, <1>10, <3>1, RevokedSessions DEF EndSessions
    <3>2. CASE ~Exists(request[r].life)
      BY <1>10, <2>3, <3>2, OlderSessionsOver DEF EndSessions
    <3> QED BY <3>1, <3>2
  <2>4. UNCHANGED <<account, links>> /\ request[r].at = "endSessions"
    BY <1>10 DEF EndSessions
  <2> QED BY <2>1, <2>2, <2>3, <2>4 DEF RequestStep, EndsTheirs
<1>11. ASSUME NEW r \in Requests, IssueSession(r) \/ EndResets(r) \/ GiveUp(r) PROVE All
  BY <1>2, <1>11 DEF IssueSession, EndResets, GiveUp, Refused
<1>12. CASE RevokeInvitation \/ DeleteAccount \/ SignOut \/ Reactivate \/ Lapse \/ UNCHANGED vars
  BY <1>1, <1>12 DEF RevokeInvitation, DeleteAccount, SignOut, Reactivate, Lapse, vars
<1> QED BY <1>6, <1>7, <1>8, <1>9, <1>10, <1>11, <1>12 DEF Next, EndAccess

-----------------------------------------------------------------------------
(* While a row is live its account does not go away from under it.         *)
AccountStep ==
    \/ UNCHANGED account
    \/ account'.life = account.life /\ account.state # "none" /\ account'.state # "none"
    \/ account.state = "none"
    \/ /\ \A i \in 1..Len(links) : links'[i].state # "live"
       /\ \A s \in 1..Len(sessions) : sessions'[s].state # "live"

LEMMA AccountStepOK == ASSUME Inv, [Next]_vars PROVE AccountStep
<1>0. TypeOK /\ account \in Account
  BY DEF Inv, TypeOK
<1>1. CASE UNCHANGED account
  BY <1>1 DEF AccountStep
<1>2. CASE Erases
  BY <1>0, <1>2, ErasesOK DEF AccountStep
<1>3. ASSUME NEW r \in Requests, Deactivate(r) PROVE AccountStep
  BY <1>0, <1>3 DEF Deactivate, Account, AccountStep
<1>4. CASE Reactivate
  BY <1>0, <1>4 DEF Reactivate, Account, AccountStep
<1>5. ASSUME NEW r \in Requests, UseLink(r) PROVE AccountStep
  <2>1. CASE ResolveToken(r) \/ CompleteReset(r)
    BY <1>1, <2>1 DEF ResolveToken, CompleteReset, SetsPassword, Refused
  <2>2. CASE AcceptInvitation(r)
    BY <2>2 DEF AcceptInvitation, Refused, AccountStep
  <2>3. CASE CompleteDeletion(r)
    BY <1>1, <1>2, <2>3 DEF CompleteDeletion, Refused
  <2> QED BY <1>5, <2>1, <2>2, <2>3 DEF UseLink
<1>6. ASSUME NEW r \in Requests, AskForLink(r) PROVE AccountStep
  <2>1. UNCHANGED account
    BY <1>6 DEF AskForLink, IssueInvitation, FindLiveInvitation, ResendInvitation, InsertInvitation,
         RequestReset, RequestDeletion, ReplaceLink, SendMail, MailFails, RevokeUndelivered
  <2> QED BY <1>1, <2>1
<1>7. ASSUME NEW r \in Requests, SignIn(r) \/ IssueSession(r) \/ EndSessions(r) \/ EndResets(r) \/ GiveUp(r)
      PROVE  AccountStep
  BY <1>1, <1>7 DEF SignIn, IssueSession, EndSessions, EndResets, GiveUp, Refused
<1>8. CASE RevokeInvitation \/ SignOut \/ Lapse \/ UNCHANGED vars
  BY <1>1, <1>8 DEF RevokeInvitation, SignOut, Lapse, vars
<1> QED BY <1>2, <1>3, <1>4, <1>5, <1>6, <1>7, <1>8 DEF Next, EndAccess, DeleteAccount

LEMMA InvInductive == Inv /\ [Next]_vars => Inv'
<1> SUFFICES ASSUME Inv, [Next]_vars PROVE Inv'
  OBVIOUS
<1>1. /\ TypeOK' /\ account.life <= account'.life
      /\ LinksFollow(links, links') /\ SessionsFollow(sessions, sessions')
  BY NextOK DEF Inv, StepOK
<1>2. LinksStep /\ SessionsStep /\ AccountStep /\ \A q \in Requests : RequestStep(q)
  BY LinksStepOK, SessionsStepOK, AccountStepOK, RequestStepOK
<1>3. /\ account.life \in Nat /\ account'.life \in Nat
      /\ Len(links) \in Nat /\ Len(links') \in Nat /\ Len(links) <= Len(links')
      /\ Len(sessions) \in Nat /\ Len(sessions') \in Nat /\ Len(sessions) <= Len(sessions')
      /\ links \in Seq(Link) /\ links' \in Seq(Link) /\ sessions \in Seq(Session) /\ sessions' \in Seq(Session)
      /\ \A q \in Requests : request[q] \in Request /\ request'[q] \in Request
  BY <1>1 DEF Inv, TypeOK, Account, LinksFollow, SessionsFollow
<1>4. /\ \A i \in 1..Len(links) : links[i] \in Link /\ links[i].life \in Nat
      /\ \A s \in 1..Len(sessions) : sessions[s] \in Session /\ sessions[s].life \in Nat
      /\ \A q \in Requests : /\ request[q].life \in Nat
                             /\ request[q].link \in Nat /\ request[q].opened \in Nat
  <2>1. \A i \in 1..Len(links) : links[i] \in Link
    BY <1>3
  <2>2. \A s \in 1..Len(sessions) : sessions[s] \in Session
    BY <1>3
  <2>3. \A q \in Requests : request[q].life \in Nat /\ request[q].link \in Nat /\ request[q].opened \in Nat
    BY <1>3 DEF Request
  <2>4. (\A row \in Link : row.life \in Nat) /\ (\A row \in Session : row.life \in Nat)
    BY DEF Link, Session
  <2> QED BY <2>1, <2>2, <2>3, <2>4
<1>5. /\ \A i \in 1..Len(links) : /\ links'[i].kind = links[i].kind /\ links'[i].life = links[i].life
                                  /\ links'[i].state = "live" => links[i].state = "live"
      /\ \A s \in 1..Len(sessions) : /\ sessions'[s].life = sessions[s].life
                                     /\ sessions'[s].state = "live" => sessions[s].state = "live"
  BY <1>1 DEF LinksFollow, SessionsFollow
<1>6. LivesOK'
  <2>1. ASSUME NEW i \in 1..Len(links') PROVE links'[i].life <= account'.life
    <3>1. CASE i \in 1..Len(links)
      <4>1. links'[i].life = links[i].life /\ links[i].life <= account.life
        BY <3>1, <1>5 DEF Inv, LivesOK
      <4> QED BY <1>1, <1>3, <1>4, <3>1, <4>1
    <3>2. CASE i \notin 1..Len(links)
      BY <1>2, <2>1, <3>2 DEF LinksStep
    <3> QED BY <3>1, <3>2
  <2>2. ASSUME NEW s \in 1..Len(sessions') PROVE sessions'[s].life <= account'.life
    <3>1. CASE s \in 1..Len(sessions)
      <4>1. sessions'[s].life = sessions[s].life /\ sessions[s].life <= account.life
        BY <3>1, <1>5 DEF Inv, LivesOK
      <4> QED BY <1>1, <1>3, <1>4, <3>1, <4>1
    <3>2. CASE s \notin 1..Len(sessions)
      BY <1>2, <1>3, <2>2, <3>2 DEF SessionsStep, Exists
    <3> QED BY <3>1, <3>2
  <2>3. ASSUME NEW q \in Requests PROVE request'[q].life <= account'.life
    <3>1. request[q].life <= account.life
      BY DEF Inv, LivesOK
    <3>2. request'[q].life \in {0, request[q].life, account.life, account'.life}
      BY <1>2 DEF RequestStep, Moves, Begins, EndsTheirs
    <3> QED BY <1>1, <1>3, <1>4, <3>1, <3>2
  <2> QED BY <2>1, <2>2, <2>3 DEF LivesOK
<1>7. LiveBelongs'
  <2>1. ASSUME NEW i \in 1..Len(links'), links'[i].state = "live", links'[i].kind # "invitation"
        PROVE  account'.state # "none" /\ account'.life = links'[i].life
    <3>1. CASE i \in 1..Len(links)
      <4>1. Exists(links[i].life) /\ links'[i].life = links[i].life
        BY <1>5, <2>1, <3>1 DEF Inv, LiveBelongs
      <4> QED BY <1>2, <2>1, <3>1, <4>1 DEF AccountStep, Exists
    <3>2. CASE i \notin 1..Len(links)
      BY <1>2, <2>1, <3>2 DEF LinksStep, Exists
    <3> QED BY <3>1, <3>2
  <2>2. ASSUME NEW s \in 1..Len(sessions'), sessions'[s].state = "live" PROVE account'.state # "none" /\ account'.life = sessions'[s].life
    <3>1. CASE s \in 1..Len(sessions)
      <4>1. Exists(sessions[s].life) /\ sessions'[s].life = sessions[s].life
        BY <1>5, <2>2, <3>1 DEF Inv, LiveBelongs
      <4> QED BY <1>2, <2>2, <3>1, <4>1 DEF AccountStep, Exists
    <3>2. CASE s \notin 1..Len(sessions)
      BY <1>2, <2>2, <3>2 DEF SessionsStep, Exists
    <3> QED BY <3>1, <3>2
  <2> QED BY <2>1, <2>2 DEF LiveBelongs, Exists
<1>8. LinkNamed'
  <2> SUFFICES ASSUME NEW q \in Requests
               PROVE /\ request'[q].at \in {"unknown", "insert"} => request'[q].kind \in Kinds
                     /\ request'[q].at \in {"send", "opened"} => request'[q].link \in 1..Len(links')
    BY DEF LinkNamed
  <2>1. CASE request'[q] = request[q]
    BY <1>3, <1>4, <2>1 DEF Inv, LinkNamed
  <2>2. CASE Moves(q) \/ Begins(q) \/ EndsTheirs(q)
    BY <2>2 DEF Moves, Begins, EndsTheirs
  <2> QED BY <1>2, <2>1, <2>2 DEF RequestStep
<1>a. OpenedKind'
  <2> SUFFICES ASSUME NEW q \in Requests, request'[q].at = "opened"
               PROVE  links'[request'[q].link].kind = request'[q].kind
    BY DEF OpenedKind
  <2>1. CASE request'[q] = request[q]
    BY <1>5, <2>1 DEF Inv, LinkNamed, OpenedKind
  <2>2. CASE Moves(q) \/ Begins(q) \/ EndsTheirs(q)
    BY <2>2 DEF Moves, Begins, EndsTheirs
  <2> QED BY <1>2, <2>1, <2>2 DEF RequestStep
<1>b. OneReset'
  <2> SUFFICES ASSUME NEW i \in 1..Len(links'), NEW j \in 1..Len(links'), OpenReset(i)', OpenReset(j)'
               PROVE  i = j
    BY DEF OneReset
  <2>1. CASE i \in 1..Len(links) /\ j \in 1..Len(links)
    <3>1. OpenReset(i) /\ OpenReset(j)
      BY <1>5, <2>1 DEF OpenReset
    <3> QED BY <2>1, <3>1 DEF Inv, OneReset
  <2>2. CASE i \notin 1..Len(links)
    BY <1>2, <2>2 DEF LinksStep
  <2>3. CASE j \notin 1..Len(links)
    BY <1>2, <2>3 DEF LinksStep
  <2> QED BY <2>1, <2>2, <2>3
<1>9. EndingOK'
  <2> SUFFICES ASSUME NEW q \in Requests, request'[q].at \in {"endSessions", "endResets"}
               PROVE  Ending(request[q])'
    BY DEF EndingOK
  <2>1. CASE request'[q] = request[q]
    <3>1. Ending(request[q])
      BY <2>1 DEF Inv, EndingOK
    <3>2. /\ \A i \in 1..request[q].link : i \in 1..Len(links)
          /\ \A s \in 1..request[q].opened : s \in 1..Len(sessions)
      BY <1>3, <1>4, <3>1 DEF Ending
    <3>3. request[q].link <= Len(links') /\ request[q].opened <= Len(sessions')
      BY <1>3, <1>4, <3>1 DEF Ending
    <3> QED BY <1>5, <2>1, <3>1, <3>2, <3>3 DEF Ending
  <2>2. CASE Begins(q)
    BY <1>3, <2>2 DEF Begins, Ending, Inv, LivesOK
  <2>3. CASE EndsTheirs(q)
    <3>1. Ending(request[q])
      BY <2>3 DEF EndsTheirs, Inv, EndingOK
    <3>2. \A s \in 1..request[q].opened : s \in 1..Len(sessions) /\ s <= request[q].opened
      BY <1>3, <1>4, <3>1 DEF Ending
    <3> QED BY <1>5, <2>3, <3>1, <3>2 DEF Ending, EndsTheirs
  <2> QED BY <1>2, <2>1, <2>2, <2>3 DEF RequestStep, Moves
<1>10. OverIsOver'
  <2>1. ASSUME NEW i \in 1..Len(links'), links'[i].over PROVE links'[i].state # "live"
    BY <1>2, <1>5, <2>1 DEF LinksStep, Inv, OverIsOver, LinkIds
  <2>2. ASSUME NEW s \in 1..Len(sessions'), sessions'[s].over PROVE sessions'[s].state # "live"
    BY <1>2, <1>3, <1>5, <2>2 DEF SessionsStep, Inv, OverIsOver
  <2>3. (DOMAIN sessions)' = 1..Len(sessions') /\ LinkIds' = 1..Len(links')
    BY <1>3 DEF LinkIds
  <2> QED BY <2>1, <2>2, <2>3 DEF OverIsOver
<1> QED BY <1>1, <1>6, <1>7, <1>8, <1>a, <1>b, <1>9, <1>10 DEF Inv

LEMMA InvInitially == Init => Inv
<1> SUFFICES ASSUME Init PROVE Inv
  OBVIOUS
<1>1. /\ links = <<>> /\ sessions = <<>> /\ account \in Account /\ account.life = 0
      /\ \A r \in Requests : request[r] = Idle
  BY DEF Init, Account
<1>2. TypeOK
  BY <1>1, IdleIsRequest, AccessAssumption DEF Init, TypeOK
<1>3. Idle.at = "idle" /\ Idle.life = 0
  BY DEF Idle
<1> QED BY <1>1, <1>2, <1>3 DEF Inv, LivesOK, LiveBelongs, LinkNamed, OpenedKind, OneReset, EndingOK, OverIsOver, LinkIds

(* Type correctness, for any number of requests, links and sessions.       *)
THEOREM TypeCorrect == Spec => []TypeOK
<1>1. Inv => TypeOK
  BY DEF Inv
<1> QED BY <1>1, InvInitially, InvInductive, PTL DEF Spec

(* What OverIsOver says, for any number of requests, links and sessions: a *)
(* session or a reset that was open when a password was set (the claim and *)
(* the end of the sessions in completePasswordReset, over the one open     *)
(* reset issuePasswordReset leaves), or when a deactivation that came to   *)
(* its end began (deactivateAccount), is never open again, and nothing is  *)
(* that was there when the account was erased (deleteUserAccount).         *)
THEOREM AccessEnds == Spec => []OverIsOver
<1>1. Inv => OverIsOver
  BY DEF Inv
<1> QED BY <1>1, InvInitially, InvInductive, PTL DEF Spec

(* No account and no password but by a link that works at that moment, and *)
(* not after it, for any number of requests (acceptInvitation,             *)
(* completePasswordReset).                                                 *)
THEOREM LinksActOnce == Spec => OnlyAWorkingLinkActs
<1> DEFINE Acts == \A r \in Requests :
                     request[r].at = "opened" /\ request'[r].at = "session"
                       => Works(request[r].link) /\ links'[request[r].link].state = "used"
<1>1. Inv /\ [Next]_vars => [Acts]_vars
  <2> SUFFICES ASSUME Inv, Next, NEW r \in Requests, request[r].at = "opened", request'[r].at = "session"
               PROVE  Works(request[r].link) /\ links'[request[r].link].state = "used"
    OBVIOUS
  <2>0. TypeOK /\ request[r].link \in 1..Len(links) /\ request[r] \in Request
    BY DEF Inv, LinkNamed, TypeOK
  <2>1. ASSUME NEW q \in Requests, NEW new, request' = [request EXCEPT ![q] = new] PROVE q = r /\ new.at = "session"
    BY <2>0, <2>1, OneMoves
  <2>2. ASSUME NEW q \in Requests PROVE ~Ends(q)
    BY <2>1, <2>2 DEF Ends, Idle
  <2>3. ASSUME NEW q \in Requests, NEW at, Goes(q, at) PROVE q = r /\ at = "session"
    BY <2>0, <2>3, GoesMoves, ZenonT(60)
  <2>4. ~UNCHANGED request
    OBVIOUS
  <2>5. ASSUME NEW q \in Requests, AskForLink(q) PROVE FALSE
    <3>1. CASE IssueInvitation(q) \/ ResendInvitation(q) \/ RequestReset(q) \/ RequestDeletion(q)
      <4>1. request[q].at = "idle"
        BY <3>1 DEF IssueInvitation, ResendInvitation, RequestReset, RequestDeletion, Asks
      <4>2. \E new : request' = [request EXCEPT ![q] = new]
        BY <3>1 DEF IssueInvitation, ResendInvitation, RequestReset, RequestDeletion, Asks
      <4> QED BY <2>1, <4>1, <4>2
    <3>2. CASE InsertInvitation(q) \/ ReplaceLink(q)
      <4>1. PICK n : request' = [request EXCEPT ![q].at = "send", ![q].link = n]
        BY <2>2, <3>2 DEF InsertInvitation, ReplaceLink, Inserts
      <4>2. q # r
        BY <3>2 DEF InsertInvitation, ReplaceLink
      <4> QED BY <2>0, <4>1, <4>2 DEF TypeOK
    <3>3. CASE FindLiveInvitation(q) \/ SendMail(q) \/ MailFails(q) \/ RevokeUndelivered(q)
      BY <2>2, <2>3, <3>3 DEF FindLiveInvitation, SendMail, MailFails, RevokeUndelivered
    <3> QED BY <2>5, <3>1, <3>2, <3>3 DEF AskForLink
  <2>6. ASSUME NEW q \in Requests, SignIn(q) \/ IssueSession(q) \/ EndAccess(q) \/ GiveUp(q) PROVE FALSE
    <3>1. CASE SignIn(q) \/ Deactivate(q)
      <4>1. request[q].at = "idle" /\ \E new : request' = [request EXCEPT ![q] = new]
        BY <3>1 DEF SignIn, Deactivate
      <4> QED BY <2>1, <4>1
    <3> QED BY <2>2, <2>3, <2>6, <3>1 DEF IssueSession, EndAccess, EndSessions, EndResets, GiveUp, Refused
  <2>7. PICK q \in Requests : UseLink(q)
    BY <2>4, <2>5, <2>6 DEF Next, RevokeInvitation, DeleteAccount, SignOut, Reactivate, Lapse
  <2>8. ASSUME links' = [links EXCEPT ![request[r].link].state = "used"]
        PROVE  links'[request[r].link].state = "used"
    BY <2>0, <2>8, StateTaken
  <2>9. CASE ResolveToken(q)
    <3>1. request[q].at = "idle" /\ \E new : request' = [request EXCEPT ![q] = new]
      BY <2>9 DEF ResolveToken
    <3> QED BY <2>1, <3>1
  <2>10. CASE AcceptInvitation(q)
    <3>1. /\ Works(request[q].link) /\ links' = [links EXCEPT ![request[q].link].state = "used"]
          /\ request' = [request EXCEPT ![q].at = "session", ![q].life = account.life + 1]
      BY <2>2, <2>10 DEF AcceptInvitation, Refused
    <3>2. q = r
      BY <2>0, <3>1 DEF TypeOK
    <3> QED BY <2>8, <3>1, <3>2
  <2>11. CASE CompleteReset(q)
    <3>1. Works(request[q].link) /\ SetsPassword(q)
      BY <2>2, <2>11 DEF CompleteReset, Refused
    <3>2. q = r /\ links' = ResetsOver([links EXCEPT ![request[r].link].state = "used"], Len(links))
      BY <2>3, <3>1 DEF SetsPassword
    <3>3. links'[request[r].link].state = "used"
      BY <2>0, <3>2, PasswordLinks
    <3> QED BY <3>1, <3>2, <3>3
  <2>12. CASE CompleteDeletion(q)
    BY <2>2, <2>12 DEF CompleteDeletion, Refused
  <2> QED BY <2>7, <2>9, <2>10, <2>11, <2>12 DEF UseLink
<1> QED BY <1>1, InvInitially, InvInductive, PTL DEF Spec, OnlyAWorkingLinkActs

-----------------------------------------------------------------------------
(* The last-admin guard.                                                   *)


(* Whoever a request has counted is locked by it, so nobody else's write   *)
(* can reach them; the row it has written is locked too; and a request on  *)
(* its way to remove somebody has counted another admin, unless it had     *)
(* counted nobody.                                                         *)
CountedLocked == \A r \in Connections : \A m \in tx[r].counted : lock[m] = r /\ ActiveAdmin(m)
TargetLocked == \A r \in Connections : tx[r].pc = "written" => lock[tx[r].target] = r
AnotherStays ==
  \A r \in Connections : tx[r].pc \in {"writing", "written"} /\ tx[r].kind # "promote" =>
    emptyHanded \/ \E m \in tx[r].counted : m # tx[r].target

GuardInv == GuardTypeOK /\ CountedLocked /\ TargetLocked /\ AnotherStays /\ GuardKeepsAnAdmin

-----------------------------------------------------------------------------
(* A request that ends gives up its own locks and nobody else's.           *)
LEMMA FinishKeeps ==
  ASSUME GuardInv, NEW r \in Connections, Finish(r), UNCHANGED <<users, emptyHanded>>
  PROVE  GuardInv'
<1> USE ConnectionsAssumption DEF GuardInv
<1>1. GuardTypeOK'
  BY DEF GuardTypeOK, Transaction, Finish, NoWrite
<1>2. CountedLocked'
  BY DEF GuardTypeOK, Transaction, Finish, NoWrite, CountedLocked, ActiveAdmin
<1>3. TargetLocked'
  BY DEF GuardTypeOK, Transaction, Finish, NoWrite, TargetLocked
<1>4. AnotherStays'
  BY DEF GuardTypeOK, Transaction, Finish, NoWrite, AnotherStays
<1>5. GuardKeepsAnAdmin'
  BY DEF GuardKeepsAnAdmin, AtLeastOneAdmin, ActiveAdmin
<1> QED BY <1>1, <1>2, <1>3, <1>4, <1>5

LEMMA GuardInitially == GuardInit => GuardInv
<1> SUFFICES ASSUME GuardInit PROVE GuardInv
  OBVIOUS
<1> USE ConnectionsAssumption, MembersAssumption
<1>1. PICK first \in Members :
        users = [m \in Members |-> IF m = first THEN [role |-> "admin", status |-> "active"]
                                   ELSE [role |-> "member", status |-> "absent"]]
  BY DEF GuardInit
<1>2. GuardTypeOK
  BY <1>1 DEF GuardInit, GuardTypeOK, Transaction, UserRow, NoWrite, GuardedWrites
<1>3. GuardKeepsAnAdmin
  BY <1>1 DEF GuardKeepsAnAdmin, AtLeastOneAdmin, ActiveAdmin
<1> QED BY <1>2, <1>3 DEF GuardInit, GuardInv, NoWrite, CountedLocked, TargetLocked, AnotherStays

LEMMA GuardInductive == GuardInv /\ [GuardNext]_guardVars => GuardInv'
<1> SUFFICES ASSUME GuardInv, [GuardNext]_guardVars PROVE GuardInv'
  OBVIOUS
<1> USE ConnectionsAssumption, MembersAssumption DEF GuardInv
<1>1. ASSUME NEW r \in Connections, NEW kind \in GuardedWrites, NEW m \in Members, Begin(r, kind, m)
      PROVE  GuardInv'
  <2>1. GuardTypeOK'
    BY <1>1 DEF Begin, GuardTypeOK, Transaction, NoWrite
  <2>2. CountedLocked' /\ TargetLocked' /\ AnotherStays'
    BY <1>1 DEF Begin, GuardTypeOK, Transaction, CountedLocked, TargetLocked, AnotherStays, ActiveAdmin
  <2>3. GuardKeepsAnAdmin'
    BY <1>1 DEF Begin, GuardKeepsAnAdmin, AtLeastOneAdmin, ActiveAdmin
  <2> QED BY <2>1, <2>2, <2>3
<1>2. ASSUME NEW r \in Connections, LockAdmin(r)
      PROVE  GuardInv'
  <2>1. PICK m \in Members :
          /\ FreeFor(r, m)
          /\ lock' = IF users[m].status = "deleted" THEN lock ELSE [lock EXCEPT ![m] = r]
          /\ tx' = [tx EXCEPT ![r].toLock = @ \ {m},
                              ![r].counted = IF ActiveAdmin(m) THEN @ \cup {m} ELSE @]
    BY <1>2 DEF LockAdmin, NextToLock, GuardTypeOK, Transaction
  <2>2. GuardTypeOK'
    <3> DEFINE locked == [tx EXCEPT ![r].toLock = @ \ {m}]
               counted == IF ActiveAdmin(m) THEN tx[r].counted \cup {m} ELSE tx[r].counted
    <3>1. tx \in [Connections -> Transaction] /\ counted \in SUBSET Members
      BY DEF GuardTypeOK, Transaction
    <3>2. /\ locked \in [Connections -> Transaction]
          /\ \A q \in Connections : locked[q].pc = tx[q].pc /\ locked[q].kind = tx[q].kind
                                /\ locked[q].target = tx[q].target
      BY <3>1 DEF Transaction
    <3>3. locked[r].counted = tx[r].counted
      BY <3>1 DEF Transaction
    <3>4. tx' = [locked EXCEPT ![r].counted = counted]
      BY <2>1, <3>1, <3>3
    <3> HIDE DEF locked, counted
    <3>5. /\ tx' \in [Connections -> Transaction]
          /\ \A q \in Connections : tx'[q].pc = tx[q].pc /\ tx'[q].kind = tx[q].kind
                                /\ tx'[q].target = tx[q].target
      BY <3>1, <3>2, <3>4 DEF Transaction
    <3>6. lock' \in [Members -> Connections \cup {NoOne}] /\ UNCHANGED <<users, emptyHanded>>
      BY <1>2, <2>1 DEF LockAdmin, GuardTypeOK, Transaction
    <3> QED BY <3>5, <3>6 DEF GuardTypeOK, Transaction
  <2>3. CountedLocked'
    BY <1>2, <2>1 DEF LockAdmin, GuardTypeOK, Transaction, CountedLocked, ActiveAdmin, FreeFor
  <2>4. TargetLocked' /\ AnotherStays'
    BY <1>2, <2>1 DEF LockAdmin, GuardTypeOK, Transaction, TargetLocked, AnotherStays, FreeFor
  <2>5. GuardKeepsAnAdmin'
    BY <1>2 DEF LockAdmin, GuardKeepsAnAdmin, AtLeastOneAdmin, ActiveAdmin
  <2> QED BY <2>2, <2>3, <2>4, <2>5
<1>3. ASSUME NEW r \in Connections, Allow(r)
      PROVE  GuardInv'
  <2>1. GuardTypeOK'
    BY <1>3 DEF Allow, GuardTypeOK, Transaction
  <2>2. CountedLocked' /\ TargetLocked'
    BY <1>3 DEF Allow, GuardTypeOK, Transaction, CountedLocked, TargetLocked, ActiveAdmin
  <2>3. tx[r].kind # "promote" => emptyHanded' \/ \E m \in tx[r].counted : m # tx[r].target
    <3>1. ASSUME tx[r].kind # "promote", tx[r].counted \subseteq {tx[r].target}
          PROVE  tx[r].counted = {}
      <4>1. ~ActiveAdmin(tx[r].target)
        BY <1>3, <3>1 DEF Allow, GuardRefuses, WouldRemoveAnAdmin
      <4> QED BY <3>1, <4>1 DEF CountedLocked
    <3> QED BY <1>3, <3>1 DEF Allow
  <2>4. AnotherStays'
    BY <1>3, <2>3 DEF Allow, GuardTypeOK, Transaction, AnotherStays
  <2>5. GuardKeepsAnAdmin'
    BY <1>3 DEF Allow, GuardKeepsAnAdmin, AtLeastOneAdmin, ActiveAdmin, GuardTypeOK, Transaction
  <2> QED BY <2>1, <2>2, <2>4, <2>5
<1>4. ASSUME NEW r \in Connections, Write(r)
      PROVE  GuardInv'
  <2>1. GuardTypeOK'
    BY <1>4, ZenonT(60) DEF Write, GuardTypeOK, Transaction
  <2>2. CountedLocked'
    BY <1>4 DEF Write, GuardTypeOK, Transaction, CountedLocked, ActiveAdmin, FreeFor
  <2>3. TargetLocked' /\ AnotherStays'
    BY <1>4 DEF Write, GuardTypeOK, Transaction, TargetLocked, AnotherStays, FreeFor
  <2>4. GuardKeepsAnAdmin'
    BY <1>4 DEF Write, GuardKeepsAnAdmin, AtLeastOneAdmin, ActiveAdmin
  <2> QED BY <2>1, <2>2, <2>3, <2>4
<1>5. ASSUME NEW r \in Connections, Commit(r)
      PROVE  GuardInv'
  <2> DEFINE t == tx[r].target
  <2>0. /\ t \in Members /\ lock[t] = r /\ tx[r].kind \in GuardedWrites
        /\ users[t] \in UserRow
        /\ \A m \in Members : users'[m] = IF m = t THEN Written(users[t], tx[r].kind) ELSE users[m]
    BY <1>5 DEF Commit, GuardTypeOK, Transaction, TargetLocked
  <2>1. GuardTypeOK'
    <3>1. Written(users[t], tx[r].kind) \in UserRow
      BY <2>0 DEF Written, UserRow
    <3> QED BY <1>5, <2>0, <3>1 DEF Commit, Finish, GuardTypeOK, Transaction, NoWrite
  <2>2. CountedLocked'
    BY <1>5, <2>0 DEF Commit, Finish, GuardTypeOK, Transaction, NoWrite, CountedLocked, ActiveAdmin
  <2>3. TargetLocked' /\ AnotherStays'
    BY <1>5 DEF Commit, Finish, GuardTypeOK, Transaction, NoWrite, TargetLocked, AnotherStays
  <2>4. GuardKeepsAnAdmin'
    <3>1. CASE tx[r].kind = "promote"
      <4>1. \A m \in Members : ActiveAdmin(m) => ActiveAdmin(m)'
        BY <2>0, <3>1 DEF ActiveAdmin, Written, UserRow
      <4> QED BY <1>5, <4>1 DEF Commit, GuardKeepsAnAdmin, AtLeastOneAdmin
    <3>2. CASE tx[r].kind # "promote"
      <4>1. emptyHanded \/ \E m \in Members : m # t /\ ActiveAdmin(m)
        BY <1>5, <3>2 DEF Commit, AnotherStays, CountedLocked, GuardTypeOK, Transaction
      <4>2. \A m \in Members : m # t /\ ActiveAdmin(m) => ActiveAdmin(m)'
        BY <2>0 DEF ActiveAdmin
      <4> QED BY <1>5, <4>1, <4>2 DEF Commit, GuardKeepsAnAdmin, AtLeastOneAdmin
    <3> QED BY <3>1, <3>2
  <2> QED BY <2>1, <2>2, <2>3, <2>4
<1>6. ASSUME NEW r \in Connections, Refuse(r) \/ WriteNothing(r) \/ LoseConnection(r) \/ Victim(r)
      PROVE  GuardInv'
  BY <1>6, FinishKeeps DEF Refuse, WriteNothing, LoseConnection, Victim
<1>7. ASSUME NEW m \in Members, ReactivateUser(m) \/ \E role \in {"admin", "member"} : InsertInvitedUser(m, role)
      PROVE  GuardInv'
  <2>0. /\ users' \in [Members -> UserRow]
        /\ \A a \in Members : ActiveAdmin(a) => ActiveAdmin(a)'
        /\ UNCHANGED <<lock, tx, emptyHanded>>
    BY <1>7 DEF ReactivateUser, InsertInvitedUser, GuardTypeOK, Transaction, UserRow, ActiveAdmin
  <2>1. GuardTypeOK' /\ TargetLocked' /\ AnotherStays'
    BY <2>0 DEF GuardTypeOK, Transaction, TargetLocked, AnotherStays
  <2>2. CountedLocked'
    BY <2>0 DEF GuardTypeOK, Transaction, CountedLocked
  <2>3. GuardKeepsAnAdmin'
    BY <2>0 DEF GuardKeepsAnAdmin, AtLeastOneAdmin
  <2> QED BY <2>1, <2>2, <2>3
<1>8. CASE UNCHANGED guardVars
  BY <1>8 DEF guardVars, GuardTypeOK, Transaction, CountedLocked, TargetLocked, AnotherStays, GuardKeepsAnAdmin, AtLeastOneAdmin, ActiveAdmin
<1> QED BY <1>1, <1>2, <1>3, <1>4, <1>5, <1>6, <1>7, <1>8 DEF GuardNext, GuardedStep

(* The invariant behind the rest.                                          *)
THEOREM GuardHolds == GuardSpec => []GuardInv
<1>1. GuardInv /\ [GuardNext]_guardVars => GuardInv'
  BY GuardInductive
<1> QED BY GuardInitially, <1>1, PTL DEF GuardSpec

-----------------------------------------------------------------------------
(* Every row, lock and transaction is typed.                               *)
THEOREM GuardTypeCorrect == GuardSpec => []GuardTypeOK
BY GuardHolds, PTL DEF GuardInv

(* The count a request decides on is still true when its update lands.     *)
THEOREM CountsStand == GuardSpec => []CountStands
<1>1. GuardInv => CountStands
  BY DEF GuardInv, CountedLocked, CountStands
<1> QED BY <1>1, GuardHolds, PTL

(* No two requests have an uncommitted write on one account.               *)
THEOREM OneWriter == GuardSpec => []OneWriterPerAccount
<1>1. GuardInv => OneWriterPerAccount
  BY DEF GuardInv, TargetLocked, OneWriterPerAccount
<1> QED BY <1>1, GuardHolds, PTL

(* The product keeps an active admin for as long as no request that        *)
(* counted nobody is let through to its write.                             *)
THEOREM AdminRemains == GuardSpec => []GuardKeepsAnAdmin
BY GuardHolds, PTL DEF GuardInv
=============================================================================
