---------------------------- MODULE DownloadQueue ----------------------------
(***************************************************************************)
(* The download manager of a page (web/src/client/offline/manager.ts), its *)
(* queue (queue.ts) and the store the downloads end in (browser-store.ts): *)
(* teachings transfer one at a time while the member presses, cancels,     *)
(* removes, signs out and signs in as somebody else, and the pages go on   *)
(* reading from the server.                                                *)
(*                                                                         *)
(* A step is what happens between two awaits. The runner is one record:    *)
(* what it waits for, the teaching and the account it read when it began,  *)
(* whether its signal has been aborted, and (history) whether that came    *)
(* only after the signal was last looked at.                               *)
(***************************************************************************)
EXTENDS Naturals, Sequences, SequencesExt

CONSTANTS
  Teachings,  \* the recordings a member may download
  Accounts,   \* the members who use this device
  Nobody,     \* no account is active
  MaxPresses  \* bound: how often a download is asked for

ASSUME NobodyAssumption == Nobody \notin Accounts
ASSUME PressesAssumption == MaxPresses \in Nat

VARIABLES
  user,       \* the account the manager is keyed under
  leaving,    \* deactivate has aborted the transfer and not yet cleared the snapshot
  items,      \* the queue as shown, in the order asked
  run,        \* the one runner
  shown,      \* the teachings the snapshot lists as downloaded
  media,      \* the bytes in the store, by account and teaching
  records,    \* the download records in the store
  removing,   \* removals whose record is gone and whose bytes are not yet
  presses,    \* how often a download was asked for
  asked,      \* history: who asked for what
  overlapped  \* history: removals that met a transfer of the same teaching

device == <<media, records, removing>>
history == <<presses, asked, overlapped>>
vars == <<user, leaving, items, run, shown, device, history>>

Statuses == {"queued", "downloading", "done", "failed", "cancelled"}
Stages == {"idle", "spinning", "granting", "describing", "requesting", "reading",
           "keepingBytes", "keepingRecord", "reloading"}
NoRun(t) == [stage |-> "idle", teaching |-> t, account |-> Nobody, aborted |-> FALSE, late |-> FALSE]

(* The elements of a sequence at some of its positions, in their order.    *)
Rank(positions, i) == Cardinality({j \in positions : j <= i})
Chosen(s, positions) ==
  [k \in 1 .. Cardinality(positions) |-> s[CHOOSE i \in positions : Rank(positions, i) = k]]

Live(item) == item.status \in {"queued", "downloading"}
IsLive(t) == \E i \in DOMAIN items : items[i].teaching = t /\ Live(items[i])
StillLive == Chosen(items, {i \in DOMAIN items : Live(items[i])})
With(queue, t, status) ==
  [i \in DOMAIN queue |-> IF queue[i].teaching = t THEN [queue[i] EXCEPT !.status = status] ELSE queue[i]]

(* A controller is registered from the first await to the last.            *)
Transferring == run.stage \notin {"idle", "spinning", "reloading"}
Carries(p) == Transferring /\ <<run.account, run.teaching>> = p
Download == <<run.account, run.teaching>>

-----------------------------------------------------------------------------
(* The loop of run(): the first queued item begins if none is downloading, *)
(* and the runner rests otherwise. With no account active runOne returns   *)
(* before its first await and leaves the item queued, so the loop finds it *)
(* again, and again: the page never gets out of it.                        *)
Waiting(queue) == {i \in DOMAIN queue : queue[i].status = "queued"}
NextQueued(queue) ==
  IF \E i \in DOMAIN queue : queue[i].status = "downloading" THEN {}
  ELSE {i \in Waiting(queue) : \A j \in Waiting(queue) : i <= j}
RunNext(queue) ==
  \/ /\ NextQueued(queue) = {}
     /\ items' = queue
     /\ run' = [run EXCEPT !.stage = "idle"]
     /\ UNCHANGED overlapped
  \/ /\ NextQueued(queue) # {} /\ user = Nobody
     /\ items' = queue
     /\ run' = [run EXCEPT !.stage = "spinning"]
     /\ UNCHANGED overlapped
  \/ \E i \in NextQueued(queue) :
       /\ user # Nobody
       /\ items' = With(queue, queue[i].teaching, "downloading")
       /\ run' = [stage |-> "granting", teaching |-> queue[i].teaching, account |-> user,
                  aborted |-> FALSE, late |-> FALSE]
       /\ overlapped' = overlapped \cup ({<<user, queue[i].teaching>>} \cap removing)

(* A press, or a whole series confirmed: what is over leaves the list,     *)
(* what is live is not asked for twice, and an idle runner begins.         *)
AskTwice(order) ==   \* mutant: an entry that is live is asked for again
  LET queue == StillLive \o [i \in DOMAIN order |-> [teaching |-> order[i], status |-> "queued"]]
  IN  /\ presses < MaxPresses
      /\ presses' = presses + 1
      /\ asked' = asked \cup {<<user, t>> : t \in ToSet(order)}
      /\ \/ run.stage = "idle" /\ RunNext(queue)
         \/ run.stage # "idle" /\ items' = queue /\ UNCHANGED <<run, overlapped>>
      /\ UNCHANGED <<user, leaving, shown, device>>
Ask(order) ==
  LET fresh == Chosen(order, {i \in DOMAIN order : ~IsLive(order[i])})
      queue == StillLive \o [i \in DOMAIN fresh |-> [teaching |-> fresh[i], status |-> "queued"]]
  IN  /\ presses < MaxPresses
      /\ presses' = presses + 1
      /\ asked' = asked \cup {<<user, t>> : t \in ToSet(fresh)}
      /\ \/ run.stage = "idle" /\ RunNext(queue)
         \/ run.stage # "idle" /\ items' = queue /\ UNCHANGED <<run, overlapped>>
      /\ UNCHANGED <<user, leaving, shown, device>>
Press(t) == t \notin shown /\ ~IsLive(t) /\ Ask(<<t>>)
PressSeries(order) == Len(order) > 1 /\ Ask(order)

Cancel(t) ==
  /\ IsLive(t)
  /\ items' = [i \in DOMAIN items |-> IF items[i].teaching = t /\ Live(items[i])
                                      THEN [items[i] EXCEPT !.status = "cancelled"] ELSE items[i]]
  /\ run' = [run EXCEPT !.aborted = @ \/ (Transferring /\ run.teaching = t),
                        !.late = @ \/ (Transferring /\ run.teaching = t /\ ~run.aborted
                                       /\ run.stage \in {"keepingBytes", "keepingRecord"})]
  /\ UNCHANGED <<user, leaving, shown, device, history>>

-----------------------------------------------------------------------------
(* runOne, from await to await. The patches find the item by its teaching. *)
Ends(status) ==
  /\ items' = With(items, run.teaching, status)
  /\ run' = [run EXCEPT !.stage = "reloading"]
  /\ UNCHANGED <<user, leaving, shown, history>>

Granted ==
  /\ run.stage = "granting"
  /\ items' = With(items, run.teaching, "downloading")
  /\ run' = [run EXCEPT !.stage = "describing"]
  /\ UNCHANGED <<user, leaving, shown, device, history>>
NoSpaceSilent ==   \* mutant: the early return does not mark the item
  /\ run.stage = "granting"
  /\ items' = With(items, run.teaching, "downloading")
  /\ run' = [run EXCEPT !.stage = "reloading"]
  /\ UNCHANGED <<user, leaving, shown, device, history>>
NoSpace ==
  /\ run.stage = "granting"
  /\ Ends("failed")
  /\ UNCHANGED device
Described ==
  /\ run.stage = "describing"
  /\ run' = [run EXCEPT !.stage = "requesting"]
  /\ UNCHANGED <<user, leaving, items, shown, device, history>>
Responds ==
  /\ run.stage = "requesting"
  /\ ~run.aborted
  /\ run' = [run EXCEPT !.stage = "reading"]
  /\ UNCHANGED <<user, leaving, items, shown, device, history>>

(* A refusal, a network error, a full disk; or the aborted signal, which   *)
(* the wait for a response reports as an error like any other.             *)
Fails ==
  /\ run.stage \in {"granting", "describing", "requesting", "reading", "keepingBytes", "keepingRecord"}
  /\ run.stage = "reading" => ~run.aborted
  /\ Ends("failed")
  /\ UNCHANGED device
CutShort ==
  /\ run.stage = "reading"
  /\ run.aborted
  /\ items' = [i \in DOMAIN items |-> IF items[i].teaching = run.teaching /\ Live(items[i])
                                      THEN [items[i] EXCEPT !.status = "cancelled"] ELSE items[i]]
  /\ run' = [run EXCEPT !.stage = "reloading"]
  /\ UNCHANGED <<user, leaving, shown, device, history>>

ArrivedUnchecked ==   \* mutant: the signal is not looked at once more
  /\ run.stage = "reading"
  /\ run' = [run EXCEPT !.stage = "keepingBytes"]
  /\ UNCHANGED <<user, leaving, items, shown, device, history>>
Arrived ==
  /\ run.stage = "reading"
  /\ ~run.aborted
  /\ run' = [run EXCEPT !.stage = "keepingBytes"]
  /\ UNCHANGED <<user, leaving, items, shown, device, history>>

BytesKept ==
  /\ run.stage = "keepingBytes"
  /\ media' = media \cup {Download}
  /\ run' = [run EXCEPT !.stage = "keepingRecord"]
  /\ UNCHANGED <<user, leaving, items, shown, records, removing, history>>
RecordUnderUser ==   \* mutant: the record is keyed under the account of the moment
  /\ run.stage = "keepingRecord"
  /\ user # Nobody
  /\ records' = records \cup {<<user, run.teaching>>}
  /\ Ends("done")
  /\ UNCHANGED <<media, removing>>
RecordKept ==
  /\ run.stage = "keepingRecord"
  /\ records' = records \cup {Download}
  /\ Ends("done")
  /\ UNCHANGED <<media, removing>>

(* reload() lists the active account's records; a store that cannot be     *)
(* read lists nothing.                                                     *)
Listed == {t \in Teachings : <<user, t>> \in records'}
Relist == IF user = Nobody THEN UNCHANGED shown ELSE shown' \in {Listed, {}}
RunEnds ==
  /\ run.stage = "reloading"
  /\ UNCHANGED <<user, leaving, device, presses, asked>>
  /\ Relist
  /\ RunNext(items)

-----------------------------------------------------------------------------
(* The member removes a teaching they hold, or a flush is told that it is  *)
(* no longer theirs: the record first, the bytes second, then the list.    *)
RemoveRecord(t) ==
  /\ user # Nobody
  /\ t \in shown
  /\ records' = records \ {<<user, t>>}
  /\ removing' = removing \cup {<<user, t>>}
  /\ overlapped' = IF Carries(<<user, t>>) THEN overlapped \cup {<<user, t>>} ELSE overlapped
  /\ UNCHANGED <<user, leaving, items, run, shown, media, presses, asked>>
RemoveBytes(p) ==
  /\ p \in removing
  /\ media' = media \ {p}
  /\ removing' = removing \ {p}
  /\ UNCHANGED <<user, leaving, items, run, records, history>>
  /\ Relist

(* A late answer about a teaching rewrites its stored copy, if it is still *)
(* there when the one transaction that reads and writes it begins.         *)
RefreshBack(t) ==   \* mutant: read in one transaction, written back in another
  /\ user # Nobody
  /\ t \in shown
  /\ records' = records \cup {<<user, t>>}
  /\ UNCHANGED <<user, leaving, items, run, media, removing, history>>
  /\ Relist
Refresh(t) ==
  /\ user # Nobody
  /\ <<user, t>> \in records
  /\ UNCHANGED <<user, leaving, items, run, device, history>>
  /\ Relist

(* An account arrives; the one that leaves has its transfer aborted, and   *)
(* the snapshot cleared once the device has forgotten it.                  *)
Activate(u) ==
  /\ user # u /\ ~leaving
  /\ user' = u
  /\ items' = <<>>
  /\ shown' = {}
  /\ UNCHANGED <<leaving, run, device, history>>
Reload ==
  /\ UNCHANGED <<user, leaving, items, run, device, history>>
  /\ Relist
Deactivate ==
  /\ user # Nobody /\ ~leaving
  /\ leaving' = TRUE
  /\ run' = [run EXCEPT !.aborted = @ \/ Transferring,
                        !.late = @ \/ (~run.aborted /\ run.stage \in {"keepingBytes", "keepingRecord"})]
  /\ UNCHANGED <<user, items, shown, device, history>>
Forgotten ==
  /\ leaving
  /\ leaving' = FALSE
  /\ user' = Nobody
  /\ items' = <<>>
  /\ shown' = {}
  /\ UNCHANGED <<run, device, history>>

-----------------------------------------------------------------------------
Init ==
  /\ user = Nobody
  /\ leaving = FALSE
  /\ items = <<>>
  /\ run \in {NoRun(t) : t \in Teachings}
  /\ shown = {}
  /\ media = {} /\ records = {} /\ removing = {}
  /\ presses = 0
  /\ asked = {} /\ overlapped = {}

Orders == UNION {{s \in [1 .. n -> Teachings] : IsInjective(s)} : n \in 2 .. 2}
RunStep == Granted \/ NoSpace \/ Described \/ Responds \/ Fails \/ CutShort
           \/ Arrived \/ BytesKept \/ RecordKept \/ RunEnds
Next ==
  /\ run.stage # "spinning"
  /\ \/ RunStep
     \/ \E t \in Teachings : Press(t) \/ Cancel(t) \/ RemoveRecord(t) \/ Refresh(t)
     \/ \E order \in Orders : PressSeries(order)
     \/ \E p \in removing : RemoveBytes(p)
     \/ \E u \in Accounts : Activate(u)
     \/ Reload \/ Deactivate \/ Forgotten

(* Every request, read and IndexedDB transaction the runner awaits ends.   *)
Fairness == WF_vars(RunStep)
Spec == Init /\ [][Next]_vars /\ Fairness

-----------------------------------------------------------------------------
(* Types; each teaching is at most once in the list.                       *)
TypeOK ==
  /\ user \in Accounts \cup {Nobody}
  /\ leaving \in BOOLEAN
  /\ items \in Seq([teaching : Teachings, status : Statuses])
  /\ \A i, j \in DOMAIN items : items[i].teaching = items[j].teaching => i = j
  /\ run \in [stage : Stages, teaching : Teachings, account : Accounts \cup {Nobody},
              aborted : BOOLEAN, late : BOOLEAN]
  /\ shown \subseteq Teachings
  /\ media \subseteq Accounts \X Teachings /\ records \subseteq Accounts \X Teachings
  /\ removing \subseteq Accounts \X Teachings
  /\ presses \in 0 .. MaxPresses

(* A record whose bytes are missing is a download the player would open    *)
(* and find empty: neither a transfer half kept, a removal half done nor a *)
(* late answer leaves one, unless a removal met a new transfer of the same *)
(* teaching.                                                               *)
HeldHasBytes == records \subseteq media \cup overlapped

(* A transfer whose signal was aborted before its last byte arrived never  *)
(* reaches the store.                                                      *)
CancelKeepsNothing == run.stage \in {"keepingBytes", "keepingRecord"} => (run.aborted => run.late)

(* A download is kept under the account that asked for it, whoever uses    *)
(* the device by the time it ends.                                         *)
KeptForWhoAsked == records \subseteq asked

(* Every teaching waiting while an account is active is reached: it stops  *)
(* waiting, one way or another, and no early return leaves it in front of  *)
(* the others.                                                             *)
IsQueued(t) == \E i \in DOMAIN items : items[i].teaching = t /\ items[i].status = "queued"
QueuedIsReached == \A t \in Teachings : IsQueued(t) /\ user # Nobody ~> ~IsQueued(t)
=============================================================================
