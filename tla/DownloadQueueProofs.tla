------------------------- MODULE DownloadQueueProofs -------------------------
(***************************************************************************)
(* What DownloadQueue promises of the store, proved for any number of      *)
(* teachings, accounts and presses. The arguments about bytes and about    *)
(* the signal never look at the queue: whatever it asks for, the store and *)
(* the signal are treated alike. That a record belongs to who asked for it *)
(* is a property of the queue first, and of the runner that read it.       *)
(***************************************************************************)
EXTENDS DownloadQueue, FiniteSetTheorems, TLAPS

(* The runner is always a record of its five fields.                       *)
RunShape == run = [stage |-> run.stage, teaching |-> run.teaching, account |-> run.account,
                   aborted |-> run.aborted, late |-> run.late]

(* The strengthening of HeldHasBytes: a transfer about to keep its record  *)
(* has its bytes in the store, and whatever is removed while a record or a *)
(* transfer of it is there has been noted.                                 *)
StoreInv ==
  /\ HeldHasBytes
  /\ run.stage = "keepingRecord" => Download \in media \cup overlapped
  /\ removing \cap records \subseteq overlapped
  /\ Transferring => (Download \in removing => Download \in overlapped)

(* What a step does to the runner, whoever takes it.                       *)
SameCargo == run'.account = run.account /\ run'.teaching = run.teaching

-----------------------------------------------------------------------------
(* The loop rests, spins for want of an account, or begins a transfer      *)
(* nobody has aborted.                                                     *)
LEMMA NextRun ==
  ASSUME RunShape, NEW queue, RunNext(queue)
  PROVE  /\ RunShape'
         /\ \/ run'.stage \in {"idle", "spinning"} /\ overlapped' = overlapped
            \/ /\ run'.stage = "granting"
               /\ overlapped' = overlapped \cup ({<<run'.account, run'.teaching>>} \cap removing)
<1>1. CASE \E stage \in {"idle", "spinning"} : run' = [run EXCEPT !.stage = stage] /\ UNCHANGED overlapped
  BY <1>1 DEF RunShape
<1>2. CASE \E i \in NextQueued(queue) :
             /\ run' = [stage |-> "granting", teaching |-> queue[i].teaching, account |-> user,
                        aborted |-> FALSE, late |-> FALSE]
             /\ overlapped' = overlapped \cup ({<<user, queue[i].teaching>>} \cap removing)
  BY <1>2 DEF RunShape
<1> QED BY <1>1, <1>2 DEF RunNext

(* Every step leaves the store alone and moves the runner within one       *)
(* transfer, begins the next, or is one of the four that write the store.  *)
Moves ==
  /\ UNCHANGED <<device, overlapped>>
  /\ SameCargo
  /\ run'.stage \notin {"idle", "spinning", "reloading"} => Transferring
  /\ run'.stage = "keepingRecord" => run.stage = "keepingRecord"
Begins ==
  /\ UNCHANGED device
  /\ \/ run'.stage \in {"idle", "spinning"} /\ overlapped' = overlapped
     \/ /\ run'.stage = "granting"
        /\ overlapped' = overlapped \cup ({Download'} \cap removing)
Writes == BytesKept \/ RecordKept \/ (\E t \in Teachings : RemoveRecord(t)) \/ (\E p \in removing : RemoveBytes(p))

LEMMA StepKinds ==
  ASSUME RunShape, [Next]_vars
  PROVE  Moves \/ Begins \/ Writes
<1> USE DEF Moves, Begins, SameCargo, Transferring, Download, device, history, RunShape
<1>1. ASSUME NEW order, Ask(order) PROVE Moves \/ Begins
  <2>1. CASE run.stage = "idle"
    BY <1>1, <2>1, NextRun DEF Ask
  <2>2. CASE run.stage # "idle"
    BY <1>1, <2>2 DEF Ask
  <2> QED BY <2>1, <2>2
<1>2. CASE RunEnds
  BY <1>2, NextRun DEF RunEnds
<1>3. ASSUME NEW t \in Teachings, Cancel(t) PROVE Moves
  BY <1>3 DEF Cancel
<1>4. CASE Granted \/ NoSpace \/ Described \/ Responds \/ Fails \/ CutShort \/ Arrived
  BY <1>4 DEF Granted, NoSpace, Described, Responds, Fails, CutShort, Arrived, Ends
<1>5. ASSUME NEW t \in Teachings, Refresh(t) PROVE Moves
  BY <1>5 DEF Refresh
<1>6. ASSUME NEW u \in Accounts, Activate(u) PROVE Moves
  BY <1>6 DEF Activate
<1>7. CASE Reload \/ Deactivate \/ Forgotten
  BY <1>7 DEF Reload, Deactivate, Forgotten
<1>8. CASE UNCHANGED vars
  BY <1>8 DEF vars
<1> QED BY <1>1, <1>2, <1>3, <1>4, <1>5, <1>6, <1>7, <1>8 DEF Next, RunStep, Press, PressSeries, Writes

LEMMA ShapeStep ==
  ASSUME RunShape, [Next]_vars
  PROVE  RunShape'
<1>1. ASSUME NEW order, Ask(order) PROVE RunShape'
  BY <1>1, NextRun DEF Ask, RunShape
<1>2. CASE RunEnds
  BY <1>2, NextRun DEF RunEnds
<1>3. ASSUME NEW t \in Teachings, Cancel(t) PROVE RunShape'
  BY <1>3 DEF Cancel, RunShape
<1>4. CASE RunStep /\ ~RunEnds
  BY <1>4 DEF RunStep, Granted, NoSpace, Described, Responds, Fails, CutShort, Arrived,
              BytesKept, RecordKept, Ends, RunShape
<1>5. ASSUME NEW t \in Teachings, RemoveRecord(t) \/ Refresh(t) PROVE RunShape'
  BY <1>5 DEF RemoveRecord, Refresh, RunShape
<1>6. ASSUME NEW p \in removing, RemoveBytes(p) PROVE RunShape'
  BY <1>6 DEF RemoveBytes, RunShape
<1>7. ASSUME NEW u \in Accounts, Activate(u) PROVE RunShape'
  BY <1>7 DEF Activate, RunShape
<1>8. CASE Reload \/ Deactivate \/ Forgotten
  BY <1>8 DEF Reload, Deactivate, Forgotten, RunShape
<1>9. CASE UNCHANGED vars
  BY <1>9 DEF vars, RunShape
<1> QED BY <1>1, <1>2, <1>3, <1>4, <1>5, <1>6, <1>7, <1>8, <1>9 DEF Next, Press, PressSeries

LEMMA StoreStep ==
  ASSUME RunShape, StoreInv, [Next]_vars
  PROVE  StoreInv'
<1> USE DEF StoreInv, HeldHasBytes, Transferring, Download
<1>1. CASE Moves
  BY <1>1 DEF Moves, SameCargo, device
<1>2. CASE Begins
  BY <1>2 DEF Begins, device
<1>3. CASE BytesKept
  BY <1>3 DEF BytesKept, history, RunShape
<1>4. CASE RecordKept
  BY <1>4 DEF RecordKept, Ends, history, RunShape
<1>5. ASSUME NEW t \in Teachings, RemoveRecord(t) PROVE StoreInv'
  BY <1>5 DEF RemoveRecord, Carries
<1>6. ASSUME NEW p \in removing, RemoveBytes(p) PROVE StoreInv'
  BY <1>6 DEF RemoveBytes, history
<1> QED BY <1>1, <1>2, <1>3, <1>4, <1>5, <1>6, StepKinds DEF Writes

-----------------------------------------------------------------------------
(* A signal aborted while the bytes are on their way stops the transfer at *)
(* the next await; one aborted later is late. Each step keeps it so.       *)
LEMMA CancelStep ==
  ASSUME RunShape, CancelKeepsNothing, [Next]_vars
  PROVE  CancelKeepsNothing'
<1> USE DEF CancelKeepsNothing
<1>1. ASSUME NEW order, Ask(order) PROVE CancelKeepsNothing'
  BY <1>1, NextRun DEF Ask
<1>2. CASE RunEnds
  BY <1>2, NextRun DEF RunEnds
<1>3. ASSUME NEW t \in Teachings, Cancel(t) PROVE CancelKeepsNothing'
  BY <1>3 DEF Cancel, RunShape, Transferring
<1>4. CASE RunStep /\ ~RunEnds
  BY <1>4 DEF RunStep, Granted, NoSpace, Described, Responds, Fails, CutShort, Arrived,
              BytesKept, RecordKept, Ends, RunShape
<1>5. ASSUME NEW t \in Teachings, RemoveRecord(t) \/ Refresh(t) PROVE CancelKeepsNothing'
  BY <1>5 DEF RemoveRecord, Refresh
<1>6. ASSUME NEW p \in removing, RemoveBytes(p) PROVE CancelKeepsNothing'
  BY <1>6 DEF RemoveBytes
<1>7. ASSUME NEW u \in Accounts, Activate(u) PROVE CancelKeepsNothing'
  BY <1>7 DEF Activate
<1>8. CASE Reload \/ Deactivate \/ Forgotten
  BY <1>8 DEF Reload, Deactivate, Forgotten, RunShape, Transferring
<1>9. CASE UNCHANGED vars
  BY <1>9 DEF vars
<1> QED BY <1>1, <1>2, <1>3, <1>4, <1>5, <1>6, <1>7, <1>8, <1>9 DEF Next, Press, PressSeries

-----------------------------------------------------------------------------
(* The positions of a sequence, counted from the first, are numbered       *)
(* without a gap: what Chosen looks for is there.                          *)
LEMMA Ranks ==
  ASSUME NEW n \in Nat, NEW positions \in SUBSET (1 .. n)
  PROVE  /\ Cardinality(positions) \in Nat
         /\ \A k \in 1 .. Cardinality(positions) :
              \E i \in positions : Rank(positions, i) = k
<1> DEFINE c == Cardinality(positions)
           UpTo(i) == {j \in positions : j <= i}
           rank == [i \in positions |-> Cardinality(UpTo(i))]
<1>1. IsFiniteSet(positions) /\ c \in Nat
  <2>1. IsFiniteSet(1 .. n)
    BY FS_Interval
  <2>2. IsFiniteSet(positions)
    BY <2>1, FS_Subset
  <2> QED BY <2>2, FS_CardinalityType
<1>2. ASSUME NEW i \in positions
      PROVE  IsFiniteSet(UpTo(i)) /\ Cardinality(UpTo(i)) \in 1 .. c
  <2>1. UpTo(i) \in SUBSET positions /\ i \in UpTo(i)
    OBVIOUS
  <2>2. IsFiniteSet(UpTo(i)) /\ Cardinality(UpTo(i)) <= c
    BY <1>1, <2>1, FS_Subset
  <2>3. Cardinality(UpTo(i)) \in Nat /\ Cardinality(UpTo(i)) # 0
    BY <2>1, <2>2, FS_CardinalityType, FS_EmptySet
  <2> QED BY <1>1, <2>2, <2>3
<1>3. ASSUME NEW i \in positions, NEW k \in positions, i < k
      PROVE  Cardinality(UpTo(i)) # Cardinality(UpTo(k))
  <2>1. i \in Nat /\ k \in Nat /\ positions \subseteq Nat
    OBVIOUS
  <2>2. UpTo(i) \in SUBSET UpTo(k)
    <3>1. ASSUME NEW j \in positions, j <= i PROVE j <= k
      BY <1>3, <2>1, <3>1
    <3> QED BY <3>1
  <2>3. k \in UpTo(k) /\ k \notin UpTo(i)
    BY <1>3, <2>1
  <2> QED BY <1>2, <2>2, <2>3, FS_Subset
<1>4. rank \in Injection(positions, 1 .. c)
  <2>1. rank \in [positions -> 1 .. c]
    BY <1>2
  <2>2. ASSUME NEW i \in positions, NEW k \in positions, rank[i] = rank[k]
        PROVE  i = k
    <3>1. i \in Nat /\ k \in Nat
      OBVIOUS
    <3> QED BY <1>3, <2>2, <3>1
  <2> HIDE DEF rank
  <2> QED BY <2>1, <2>2 DEF Injection, IsInjective
<1>5. Cardinality(1 .. c) = c /\ IsFiniteSet(1 .. c)
  BY <1>1, FS_Interval
<1>6. rank \in Surjection(positions, 1 .. c)
  BY <1>4, <1>5, FS_Injection
<1> QED BY <1>1, <1>6 DEF Surjection, Rank

(* What is chosen of a sequence is a sequence of its elements, as many as  *)
(* there are positions, each from a position of its own.                   *)
LEMMA ChosenIsASequence ==
  ASSUME NEW S, NEW s \in Seq(S), NEW positions \in SUBSET DOMAIN s
  PROVE  /\ Chosen(s, positions) \in Seq(S)
         /\ Len(Chosen(s, positions)) = Cardinality(positions)
         /\ \A k \in DOMAIN Chosen(s, positions) :
              \E i \in positions : /\ Chosen(s, positions)[k] = s[i]
                                   /\ Rank(positions, i) = k
<1> DEFINE c == Cardinality(positions)
           At(k) == CHOOSE i \in positions : Rank(positions, i) = k
<1>0. positions \in SUBSET (1 .. Len(s)) /\ Len(s) \in Nat
  OBVIOUS
<1>1. c \in Nat /\ \A k \in 1 .. c : \E i \in positions : Rank(positions, i) = k
  BY <1>0, Ranks
<1>2. \A k \in 1 .. c : At(k) \in positions /\ Rank(positions, At(k)) = k
  BY <1>1
<1>3. Chosen(s, positions) = [k \in 1 .. c |-> s[At(k)]]
  BY DEF Chosen
<1>4. Chosen(s, positions) \in [1 .. c -> S]
  <2>1. \A i \in positions : s[i] \in S
    BY <1>0
  <2>2. \A k \in 1 .. c : s[At(k)] \in S
    BY <1>2, <2>1
  <2> QED BY <1>3, <2>2
<1>5. DOMAIN Chosen(s, positions) = 1 .. c /\ Len(Chosen(s, positions)) = c
  BY <1>1, <1>4
<1>6. ASSUME NEW k \in DOMAIN Chosen(s, positions)
      PROVE  \E i \in positions : Chosen(s, positions)[k] = s[i] /\ Rank(positions, i) = k
  <2>1. k \in 1 .. c /\ Chosen(s, positions)[k] = s[At(k)]
    BY <1>3, <1>5, <1>6
  <2> QED BY <1>2, <2>1
<1>7. Chosen(s, positions) \in Seq(S)
  BY <1>1, <1>4
<1> QED BY <1>5, <1>6, <1>7

-----------------------------------------------------------------------------
(* The strengthening of KeptForWhoAsked: whatever stands in the list was   *)
(* asked for by the account that is active, whatever transfers by the      *)
(* account the runner read when it began. Only then does a record kept at  *)
(* the end of a transfer belong to who asked.                              *)
Item == [teaching : Teachings, status : Statuses]
Apart(queue) == \A i, j \in DOMAIN queue : queue[i].teaching = queue[j].teaching => i = j
AskedBy(queue, who) == \A i \in DOMAIN queue : <<user, queue[i].teaching>> \in who
AskedInv ==
  /\ TypeOK
  /\ asked \subseteq (Accounts \cup {Nobody}) \X Teachings
  /\ AskedBy(items, asked)
  /\ Transferring => run.account \in Accounts /\ <<run.account, run.teaching>> \in asked
  /\ KeptForWhoAsked

RunType == [stage : Stages, teaching : Teachings, account : Accounts \cup {Nobody},
            aborted : BOOLEAN, late : BOOLEAN]

LEMMA SeqFacts ==
  ASSUME NEW S, NEW s \in Seq(S)
  PROVE  Len(s) \in Nat /\ DOMAIN s = 1 .. Len(s) /\ s \in [1 .. Len(s) -> S]
OBVIOUS
LEMMA SeqOfLength ==
  ASSUME NEW S, NEW n \in Nat, NEW s \in [1 .. n -> S]
  PROVE  s \in Seq(S) /\ Len(s) = n
OBVIOUS

(* A patch changes the status of an item and nothing else of the list.     *)
LEMMA PatchedQueue ==
  ASSUME NEW queue \in Seq(Item), Apart(queue), NEW t, NEW status \in Statuses
  PROVE  /\ With(queue, t, status) \in Seq(Item)
         /\ Apart(With(queue, t, status))
         /\ DOMAIN With(queue, t, status) = DOMAIN queue
         /\ \A i \in DOMAIN queue : With(queue, t, status)[i].teaching = queue[i].teaching
<1>1. Len(queue) \in Nat /\ DOMAIN queue = 1 .. Len(queue) /\ \A i \in 1 .. Len(queue) : queue[i] \in Item
  OBVIOUS
<1>2. ASSUME NEW i \in 1 .. Len(queue)
      PROVE  /\ With(queue, t, status)[i] \in Item
             /\ With(queue, t, status)[i].teaching = queue[i].teaching
  BY <1>1 DEF With, Item
<1>3. With(queue, t, status) \in [1 .. Len(queue) -> Item]
  BY <1>1, <1>2 DEF With
<1> QED BY <1>1, <1>2, <1>3 DEF Apart

(* What is cancelled likewise.                                             *)
LEMMA CancelledQueue ==
  ASSUME items \in Seq(Item), Apart(items), NEW t,
         items' = [i \in DOMAIN items |-> IF items[i].teaching = t /\ Live(items[i])
                                          THEN [items[i] EXCEPT !.status = "cancelled"] ELSE items[i]]
  PROVE  /\ items' \in Seq(Item)
         /\ Apart(items')
         /\ DOMAIN items' = DOMAIN items
         /\ \A i \in DOMAIN items : items'[i].teaching = items[i].teaching
<1>1. Len(items) \in Nat /\ DOMAIN items = 1 .. Len(items) /\ \A i \in 1 .. Len(items) : items[i] \in Item
  OBVIOUS
<1>2. ASSUME NEW i \in 1 .. Len(items)
      PROVE  items'[i] \in Item /\ items'[i].teaching = items[i].teaching
  BY <1>1 DEF Item, Statuses
<1>3. items' \in [1 .. Len(items) -> Item]
  BY <1>1, <1>2
<1> QED BY <1>1, <1>2, <1>3 DEF Apart

(* A new request leaves the list without two entries of one teaching, and  *)
(* everything in it is live already or asked for now.                      *)
LEMMA AskedQueue ==
  ASSUME items \in Seq(Item), Apart(items),
         NEW order \in Seq(Teachings), IsInjective(order),
         NEW fresh, fresh = Chosen(order, {i \in DOMAIN order : ~IsLive(order[i])}),
         NEW queue,
         queue = StillLive \o [i \in DOMAIN fresh |-> [teaching |-> fresh[i], status |-> "queued"]]
  PROVE  /\ queue \in Seq(Item)
         /\ Apart(queue)
         /\ fresh \in Seq(Teachings)
         /\ \A i \in DOMAIN queue : \/ \E j \in DOMAIN items : queue[i].teaching = items[j].teaching
                                    \/ queue[i].teaching \in {fresh[k] : k \in DOMAIN fresh}
<1> DEFINE P == {i \in DOMAIN items : Live(items[i])}
           Q == {i \in DOMAIN order : ~IsLive(order[i])}
           added == [i \in DOMAIN fresh |-> [teaching |-> fresh[i], status |-> "queued"]]
<1>1. /\ StillLive \in Seq(Item)
      /\ \A k \in DOMAIN StillLive : \E i \in P : StillLive[k] = items[i] /\ Rank(P, i) = k
  <2>1. P \in SUBSET DOMAIN items
    OBVIOUS
  <2> HIDE DEF P
  <2>2. /\ Chosen(items, P) \in Seq(Item)
        /\ \A k \in DOMAIN Chosen(items, P) :
             \E i \in P : Chosen(items, P)[k] = items[i] /\ Rank(P, i) = k
    BY <2>1, ChosenIsASequence
  <2>3. StillLive = Chosen(items, P)
    BY DEF StillLive, P
  <2> QED BY <2>2, <2>3
<1>2. /\ fresh \in Seq(Teachings)
      /\ \A k \in DOMAIN fresh : \E i \in Q : fresh[k] = order[i] /\ Rank(Q, i) = k
  <2>1. Q \in SUBSET DOMAIN order /\ fresh = Chosen(order, Q)
    OBVIOUS
  <2> HIDE DEF Q
  <2>2. /\ Chosen(order, Q) \in Seq(Teachings)
        /\ \A k \in DOMAIN Chosen(order, Q) :
             \E i \in Q : Chosen(order, Q)[k] = order[i] /\ Rank(Q, i) = k
    BY <2>1, ChosenIsASequence
  <2> QED BY <2>1, <2>2
<1>3. Apart(StillLive)
  <2> SUFFICES ASSUME NEW k \in DOMAIN StillLive, NEW l \in DOMAIN StillLive,
                      StillLive[k].teaching = StillLive[l].teaching
               PROVE  k = l
    BY DEF Apart
  <2>1. PICK i \in P : StillLive[k] = items[i] /\ Rank(P, i) = k
    BY <1>1
  <2>2. PICK h \in P : StillLive[l] = items[h] /\ Rank(P, h) = l
    BY <1>1
  <2>3. i = h
    BY <2>1, <2>2 DEF Apart
  <2> QED BY <2>1, <2>2, <2>3
<1>4. ASSUME NEW k \in DOMAIN fresh, NEW l \in DOMAIN fresh, fresh[k] = fresh[l]
      PROVE  k = l
  <2>1. PICK i \in Q : fresh[k] = order[i] /\ Rank(Q, i) = k
    BY <1>2
  <2>2. PICK h \in Q : fresh[l] = order[h] /\ Rank(Q, h) = l
    BY <1>2
  <2>3. i = h
    BY <1>4, <2>1, <2>2 DEF IsInjective
  <2> QED BY <2>1, <2>2, <2>3
<1>5. \A k \in DOMAIN StillLive : \E i \in DOMAIN items : StillLive[k] = items[i] /\ IsLive(items[i].teaching)
  BY <1>1 DEF IsLive
<1>6. \A k \in DOMAIN fresh : ~IsLive(fresh[k])
  BY <1>2
<1>7. /\ Len(fresh) \in Nat /\ DOMAIN fresh = 1 .. Len(fresh)
      /\ \A k \in 1 .. Len(fresh) : fresh[k] \in Teachings
  BY <1>2, SeqFacts
<1>8. added \in Seq(Item) /\ Len(added) = Len(fresh) /\ DOMAIN added = DOMAIN fresh
      /\ \A k \in DOMAIN fresh : added[k].teaching = fresh[k]
  <2>1. added \in [1 .. Len(fresh) -> Item]
    BY <1>7 DEF Item, Statuses
  <2>2. \A k \in DOMAIN fresh : added[k].teaching = fresh[k]
    BY <1>7
  <2> HIDE DEF added
  <2>3. added \in Seq(Item) /\ Len(added) = Len(fresh) /\ DOMAIN added = 1 .. Len(fresh)
    BY <1>7, <2>1, SeqOfLength
  <2> QED BY <1>7, <2>2, <2>3
<1> HIDE DEF added
<1>9. /\ queue \in Seq(Item)
      /\ Len(queue) = Len(StillLive) + Len(added)
      /\ \A i \in 1 .. Len(StillLive) : queue[i] = StillLive[i]
      /\ \A i \in (Len(StillLive) + 1) .. (Len(StillLive) + Len(added)) : queue[i] = added[i - Len(StillLive)]
  BY <1>1, <1>8 DEF added
<1>10. /\ Len(StillLive) \in Nat /\ DOMAIN StillLive = 1 .. Len(StillLive)
       /\ DOMAIN queue = 1 .. (Len(StillLive) + Len(fresh))
  BY <1>1, <1>7, <1>8, <1>9
<1> DEFINE m == Len(StillLive)
<1>11. ASSUME NEW i \in DOMAIN queue
       PROVE  \/ i \in DOMAIN StillLive /\ queue[i] = StillLive[i]
              \/ i - m \in DOMAIN fresh /\ i > m /\ queue[i].teaching = fresh[i - m]
  <2>1. CASE i <= m
    BY <1>9, <1>10, <2>1
  <2>2. CASE i > m
    <3>1. i - m \in DOMAIN fresh /\ i \in (m + 1) .. (m + Len(added))
      BY <1>7, <1>8, <1>10, <2>2
    <3> QED BY <1>8, <1>9, <2>2, <3>1
  <2>3. i \in Int /\ m \in Int
    BY <1>10
  <2> QED BY <2>1, <2>2, <2>3
<1>12. Apart(queue)
  <2> SUFFICES ASSUME NEW i \in DOMAIN queue, NEW j \in DOMAIN queue,
                      queue[i].teaching = queue[j].teaching
               PROVE  i = j
    BY DEF Apart
  <2>1. CASE i \in DOMAIN StillLive /\ queue[i] = StillLive[i] /\ j \in DOMAIN StillLive /\ queue[j] = StillLive[j]
    BY <1>3, <2>1 DEF Apart
  <2>2. CASE /\ i - m \in DOMAIN fresh /\ queue[i].teaching = fresh[i - m]
             /\ j - m \in DOMAIN fresh /\ queue[j].teaching = fresh[j - m]
    <3>1. i - m = j - m
      BY <1>4, <2>2
    <3>2. i \in Int /\ j \in Int /\ m \in Int
      BY <1>10
    <3> QED BY <3>1, <3>2
  <2>3. CASE i \in DOMAIN StillLive /\ queue[i] = StillLive[i] /\ j - m \in DOMAIN fresh /\ queue[j].teaching = fresh[j - m]
    BY <1>5, <1>6, <2>3
  <2>4. CASE j \in DOMAIN StillLive /\ queue[j] = StillLive[j] /\ i - m \in DOMAIN fresh /\ queue[i].teaching = fresh[i - m]
    BY <1>5, <1>6, <2>4
  <2> QED BY <1>11, <2>1, <2>2, <2>3, <2>4
<1>13. ASSUME NEW i \in DOMAIN queue
       PROVE  \/ \E j \in DOMAIN items : queue[i].teaching = items[j].teaching
              \/ queue[i].teaching \in {fresh[k] : k \in DOMAIN fresh}
  BY <1>5, <1>11
<1> QED BY <1>2, <1>9, <1>12, <1>13

(* What the loop leaves: a list of the same teachings, and a runner that   *)
(* rests or carries one of them for the active account.                    *)
LEMMA NextQueue ==
  ASSUME NEW queue \in Seq(Item), Apart(queue), user \in Accounts \cup {Nobody},
         run \in RunType,
         NEW who, AskedBy(queue, who), RunNext(queue)
  PROVE  /\ items' \in Seq(Item) /\ Apart(items')
         /\ AskedBy(items', who)
         /\ run' \in RunType
         /\ Transferring' => run'.account \in Accounts /\ <<run'.account, run'.teaching>> \in who
<1>1. CASE items' = queue /\ \E stage \in {"idle", "spinning"} : run' = [run EXCEPT !.stage = stage]
  <2>1. run' \in RunType /\ run'.stage \in {"idle", "spinning"}
    BY <1>1 DEF RunType, Stages
  <2> QED BY <1>1, <2>1 DEF Transferring
<1>2. CASE \E i \in NextQueued(queue) :
             /\ user # Nobody
             /\ items' = With(queue, queue[i].teaching, "downloading")
             /\ run' = [stage |-> "granting", teaching |-> queue[i].teaching, account |-> user,
                        aborted |-> FALSE, late |-> FALSE]
  <2>1. PICK i \in NextQueued(queue) :
          /\ user # Nobody
          /\ items' = With(queue, queue[i].teaching, "downloading")
          /\ run' = [stage |-> "granting", teaching |-> queue[i].teaching, account |-> user,
                     aborted |-> FALSE, late |-> FALSE]
    BY <1>2
  <2>2. i \in DOMAIN queue
    BY DEF NextQueued, Waiting
  <2>3. queue[i] \in Item /\ queue # <<>>
    BY <2>2, SeqFacts
  <2>4. run' \in RunType
    BY <2>1, <2>3 DEF RunType, Stages, Item
  <2>5. /\ items' \in Seq(Item) /\ Apart(items') /\ DOMAIN items' = DOMAIN queue
        /\ \A j \in DOMAIN queue : items'[j].teaching = queue[j].teaching
    BY <2>1, PatchedQueue DEF Statuses
  <2>6. AskedBy(items', who)
    BY <2>5 DEF AskedBy
  <2>7. run'.account \in Accounts /\ <<run'.account, run'.teaching>> \in who
    BY <2>1, <2>2 DEF AskedBy
  <2> QED BY <2>3, <2>4, <2>5, <2>6, <2>7
<1> QED BY <1>1, <1>2 DEF RunNext

LEMMA AskStep ==
  ASSUME AskedInv, NEW order \in Seq(Teachings), IsInjective(order), Ask(order)
  PROVE  AskedInv'
<1> DEFINE fresh == Chosen(order, {i \in DOMAIN order : ~IsLive(order[i])})
           queue == StillLive \o [i \in DOMAIN fresh |-> [teaching |-> fresh[i], status |-> "queued"]]
<1>1. /\ items \in Seq(Item) /\ Apart(items) /\ run \in RunType /\ user \in Accounts \cup {Nobody}
      /\ asked \subseteq (Accounts \cup {Nobody}) \X Teachings /\ AskedBy(items, asked)
  BY DEF AskedInv, TypeOK, Item, Apart, RunType
<1>2. /\ queue \in Seq(Item) /\ Apart(queue) /\ fresh \in Seq(Teachings)
      /\ \A i \in DOMAIN queue : \/ \E j \in DOMAIN items : queue[i].teaching = items[j].teaching
                                 \/ queue[i].teaching \in {fresh[k] : k \in DOMAIN fresh}
  BY <1>1, AskedQueue, ZenonT(60)
<1>3. /\ asked' = asked \cup {<<user, t>> : t \in ToSet(fresh)}
      /\ \/ RunNext(queue)
         \/ items' = queue /\ UNCHANGED <<run, overlapped>>
      /\ UNCHANGED <<user, leaving, shown, device>>
      /\ presses < MaxPresses /\ presses' = presses + 1
  BY DEF Ask
<1> HIDE DEF queue, fresh
<1>4. \A k \in DOMAIN fresh : fresh[k] \in Teachings
  BY <1>2, SeqFacts
<1>5. asked' \subseteq (Accounts \cup {Nobody}) \X Teachings /\ asked \subseteq asked'
  BY <1>1, <1>3, <1>4 DEF ToSet
<1>6. AskedBy(queue, asked')
  BY <1>1, <1>2, <1>3 DEF AskedBy, ToSet
<1>7. Transferring => run.account \in Accounts /\ <<run.account, run.teaching>> \in asked'
  BY <1>5 DEF AskedInv
<1>8. /\ items' \in Seq(Item) /\ Apart(items')
      /\ AskedBy(items', asked')
      /\ run' \in RunType
      /\ Transferring' => run'.account \in Accounts /\ <<run'.account, run'.teaching>> \in asked'
  <2>1. CASE RunNext(queue)
    BY <1>1, <1>2, <1>6, <2>1, NextQueue
  <2>2. CASE items' = queue /\ UNCHANGED run
    BY <1>1, <1>2, <1>6, <1>7, <2>2 DEF Transferring
  <2> QED BY <1>3, <2>1, <2>2
<1>9. TypeOK'
  <2>1. presses' \in 0 .. MaxPresses
    BY <1>3, PressesAssumption DEF AskedInv, TypeOK
  <2> QED BY <1>3, <1>8, <2>1 DEF AskedInv, TypeOK, device, Item, Apart, RunType
<1>10. AskedBy(items, asked)'
  BY <1>3, <1>8 DEF AskedBy
<1>11. KeptForWhoAsked'
  BY <1>3, <1>5 DEF AskedInv, KeptForWhoAsked, device
<1> QED BY <1>5, <1>8, <1>9, <1>10, <1>11 DEF AskedInv

(* Every step of the runner but the loop keeps the request it carries, and *)
(* what it writes is what it carries.                                      *)
LEMMA RunnerStep ==
  ASSUME AskedInv, RunStep, ~RunEnds
  PROVE  AskedInv'
<1>1. /\ items \in Seq(Item) /\ Apart(items) /\ run \in RunType
      /\ asked \subseteq (Accounts \cup {Nobody}) \X Teachings /\ AskedBy(items, asked)
      /\ Transferring => run.account \in Accounts /\ <<run.account, run.teaching>> \in asked
  BY DEF AskedInv, TypeOK, Item, Apart, RunType
<1>2. Transferring
  BY DEF RunStep, Granted, NoSpace, Described, Responds, Fails, CutShort, Arrived, BytesKept,
         RecordKept, Transferring
<1>3. /\ UNCHANGED <<user, leaving, shown, presses, asked, removing>>
      /\ \E stage \in Stages : run' = [run EXCEPT !.stage = stage]
      /\ media' \subseteq media \cup {Download} /\ records' \subseteq records \cup {Download}
      /\ \/ UNCHANGED items
         \/ \E status \in Statuses : items' = With(items, run.teaching, status)
         \/ items' = [i \in DOMAIN items |-> IF items[i].teaching = run.teaching /\ Live(items[i])
                                            THEN [items[i] EXCEPT !.status = "cancelled"] ELSE items[i]]
  <2>1. CASE Granted \/ Described \/ Responds \/ Arrived
    BY <2>1 DEF Granted, Described, Responds, Arrived, device, history, Stages, Statuses
  <2>2. CASE NoSpace \/ Fails
    BY <2>2 DEF NoSpace, Fails, Ends, device, history, Stages, Statuses
  <2>3. CASE CutShort
    BY <2>3 DEF CutShort, device, history, Stages
  <2>4. CASE BytesKept
    BY <2>4 DEF BytesKept, history, Stages
  <2>5. CASE RecordKept
    BY <2>5 DEF RecordKept, Ends, history, Stages, Statuses
  <2> QED BY <2>1, <2>2, <2>3, <2>4, <2>5 DEF RunStep
<1>4. /\ run' \in RunType /\ run'.account = run.account /\ run'.teaching = run.teaching
  BY <1>1, <1>3 DEF RunType
<1>5. /\ items' \in Seq(Item) /\ Apart(items') /\ DOMAIN items' = DOMAIN items
      /\ \A i \in DOMAIN items : items'[i].teaching = items[i].teaching
  <2>1. CASE UNCHANGED items
    BY <1>1, <2>1
  <2>2. CASE \E status \in Statuses : items' = With(items, run.teaching, status)
    BY <1>1, <2>2, PatchedQueue
  <2>3. CASE items' = [i \in DOMAIN items |-> IF items[i].teaching = run.teaching /\ Live(items[i])
                                              THEN [items[i] EXCEPT !.status = "cancelled"] ELSE items[i]]
    BY <1>1, <2>3, CancelledQueue
  <2> QED BY <1>3, <2>1, <2>2, <2>3
<1>6. AskedBy(items, asked)'
  BY <1>1, <1>3, <1>5 DEF AskedBy
<1>7. Download \in asked /\ Download \in Accounts \X Teachings
  BY <1>1, <1>2 DEF Download
<1>8. records' \subseteq asked' /\ records' \subseteq Accounts \X Teachings /\ media' \subseteq Accounts \X Teachings
  BY <1>1, <1>3, <1>7 DEF AskedInv, TypeOK, KeptForWhoAsked
<1>9. TypeOK'
  BY <1>3, <1>4, <1>5, <1>8 DEF AskedInv, TypeOK, Item, Apart, RunType
<1> QED BY <1>1, <1>2, <1>3, <1>4, <1>6, <1>8, <1>9 DEF AskedInv, KeptForWhoAsked

LEMMA AskedStep ==
  ASSUME AskedInv, [Next]_vars
  PROVE  AskedInv'
<1>1. /\ items \in Seq(Item) /\ Apart(items) /\ run \in RunType
      /\ asked \subseteq (Accounts \cup {Nobody}) \X Teachings /\ AskedBy(items, asked)
      /\ user \in Accounts \cup {Nobody}
      /\ Transferring => run.account \in Accounts /\ <<run.account, run.teaching>> \in asked
  BY DEF AskedInv, TypeOK, Item, Apart, RunType
<1>2. ASSUME NEW t \in Teachings, Press(t) PROVE AskedInv'
  <2>1. <<t>> \in Seq(Teachings) /\ IsInjective(<<t>>)
    BY DEF IsInjective
  <2> QED BY <1>2, <2>1, AskStep DEF Press
<1>3. ASSUME NEW order \in Orders, PressSeries(order) PROVE AskedInv'
  <2>1. order \in Seq(Teachings) /\ IsInjective(order)
    <3>1. order \in [1 .. 2 -> Teachings] /\ IsInjective(order)
      BY DEF Orders
    <3> QED BY <3>1, SeqOfLength
  <2> QED BY <1>3, <2>1, AskStep DEF PressSeries
<1>4. ASSUME NEW t \in Teachings, Cancel(t) PROVE AskedInv'
  <2>1. /\ items' \in Seq(Item) /\ Apart(items') /\ DOMAIN items' = DOMAIN items
        /\ \A i \in DOMAIN items : items'[i].teaching = items[i].teaching
    BY <1>1, <1>4, CancelledQueue DEF Cancel
  <2>2. UNCHANGED <<user, leaving, shown, device, history>>
    BY <1>4 DEF Cancel
  <2>3. run' \in RunType /\ run'.account = run.account /\ run'.teaching = run.teaching /\ run'.stage = run.stage
    BY <1>1, <1>4 DEF Cancel, RunType, Transferring
  <2>4. AskedBy(items, asked)'
    BY <1>1, <2>1, <2>2 DEF AskedBy, history
  <2>5. TypeOK'
    BY <1>1, <2>1, <2>2, <2>3 DEF AskedInv, TypeOK, Item, Apart, RunType, device, history
  <2> QED BY <1>1, <2>2, <2>3, <2>4, <2>5 DEF AskedInv, KeptForWhoAsked, Transferring, device, history
<1>5. CASE RunStep /\ ~RunEnds
  BY <1>5, RunnerStep
<1>6. CASE RunEnds
  <2>1. /\ items' \in Seq(Item) /\ Apart(items')
        /\ AskedBy(items', asked) /\ run' \in RunType
        /\ Transferring' => run'.account \in Accounts /\ <<run'.account, run'.teaching>> \in asked
    BY <1>1, <1>6, NextQueue DEF RunEnds
  <2>2. UNCHANGED <<user, leaving, device, presses, asked>> /\ Relist
    BY <1>6 DEF RunEnds
  <2>3. AskedBy(items, asked)'
    BY <2>1, <2>2 DEF AskedBy
  <2>4. TypeOK'
    BY <2>1, <2>2 DEF AskedInv, TypeOK, Relist, Listed, Item, Apart, RunType, device
  <2> QED BY <1>1, <2>1, <2>2, <2>3, <2>4 DEF AskedInv, KeptForWhoAsked, device
<1>7. ASSUME NEW t \in Teachings, RemoveRecord(t) \/ Refresh(t) PROVE AskedInv'
  <2>1. user # Nobody /\ UNCHANGED <<user, leaving, items, run, media, presses, asked>>
        /\ records' \subseteq records /\ removing' \subseteq removing \cup {<<user, t>>}
        /\ (shown' = shown \/ Relist)
    BY <1>7 DEF RemoveRecord, Refresh, device, history
  <2>2. user \in Accounts /\ <<user, t>> \in Accounts \X Teachings
    BY <1>1, <2>1
  <2>3. shown' \subseteq Teachings
    BY <2>1 DEF AskedInv, TypeOK, Relist, Listed
  <2>4. TypeOK'
    BY <2>1, <2>2, <2>3 DEF AskedInv, TypeOK
  <2> QED BY <1>1, <2>1, <2>4 DEF AskedInv, KeptForWhoAsked, AskedBy, Transferring
<1>8. ASSUME NEW p \in removing, RemoveBytes(p) PROVE AskedInv'
  <2>1. UNCHANGED <<user, leaving, items, run, records, presses, asked>>
        /\ media' \subseteq media /\ removing' \subseteq removing /\ Relist
    BY <1>8 DEF RemoveBytes, history
  <2>2. TypeOK'
    BY <2>1 DEF AskedInv, TypeOK, Relist, Listed
  <2> QED BY <2>1, <2>2 DEF AskedInv, KeptForWhoAsked, AskedBy, Transferring
<1>9. ASSUME NEW u \in Accounts, Activate(u) PROVE AskedInv'
  <2>1. items' = <<>> /\ shown' = {} /\ user' = u /\ UNCHANGED <<leaving, run, device, history>>
    BY <1>9 DEF Activate
  <2>2. items' \in Seq(Item) /\ DOMAIN items' = {}
    BY <2>1
  <2>3. TypeOK'
    BY <2>1, <2>2 DEF AskedInv, TypeOK, Item, device, history
  <2> QED BY <2>1, <2>2, <2>3 DEF AskedInv, KeptForWhoAsked, AskedBy, Transferring, device, history
<1>10. CASE Forgotten
  <2>1. items' = <<>> /\ shown' = {} /\ user' = Nobody /\ leaving' = FALSE /\ UNCHANGED <<run, device, history>>
    BY <1>10 DEF Forgotten
  <2>2. items' \in Seq(Item) /\ DOMAIN items' = {}
    BY <2>1
  <2>3. TypeOK'
    BY <2>1, <2>2 DEF AskedInv, TypeOK, Item, device, history
  <2> QED BY <2>1, <2>2, <2>3 DEF AskedInv, KeptForWhoAsked, AskedBy, Transferring, device, history
<1>11. CASE Reload \/ Deactivate
  <2>1. /\ UNCHANGED <<user, items, device, history>>
        /\ leaving' \in BOOLEAN
        /\ run' \in RunType /\ run'.account = run.account /\ run'.teaching = run.teaching /\ run'.stage = run.stage
        /\ (shown' = shown \/ Relist)
    BY <1>1, <1>11 DEF Reload, Deactivate, RunType, Transferring, AskedInv, TypeOK
  <2>2. TypeOK'
    BY <2>1 DEF AskedInv, TypeOK, Relist, Listed, RunType, device, history
  <2> QED BY <2>1, <2>2 DEF AskedInv, KeptForWhoAsked, AskedBy, Transferring, device, history
<1>12. CASE UNCHANGED vars
  BY <1>12 DEF vars, AskedInv, TypeOK, AskedBy, Transferring, KeptForWhoAsked, device, history
<1> QED BY <1>2, <1>3, <1>4, <1>5, <1>6, <1>7, <1>8, <1>9, <1>10, <1>11, <1>12 DEF Next

LEMMA InitAsked == Init => AskedInv
<1> SUFFICES ASSUME Init PROVE AskedInv
  OBVIOUS
<1>1. items \in Seq(Item) /\ items = <<>> /\ DOMAIN items = {}
  BY DEF Init
<1>2. run \in RunType /\ run.stage = "idle"
  <2>1. PICK t \in Teachings : run = NoRun(t)
    BY DEF Init
  <2>2. NoRun(t) \in RunType /\ NoRun(t).stage = "idle"
    BY DEF NoRun, RunType, Stages
  <2> QED BY <2>1, <2>2
<1>3. TypeOK
  <2>1. presses \in 0 .. MaxPresses
    BY PressesAssumption DEF Init
  <2> QED BY <1>1, <1>2, <2>1 DEF Init, TypeOK, Item, RunType
<1> QED BY <1>1, <1>2, <1>3 DEF Init, AskedInv, AskedBy, Transferring, KeptForWhoAsked

-----------------------------------------------------------------------------
LEMMA InitStore == Init => RunShape /\ StoreInv /\ CancelKeepsNothing
BY DEF Init, RunShape, StoreInv, HeldHasBytes, CancelKeepsNothing, Transferring, NoRun

(* A record in the store has its bytes, for any interleaving of transfers, *)
(* removals and late answers in which no removal overlaps a transfer of    *)
(* the same teaching (browser-store.ts, fetchInto and remove).             *)
THEOREM RecordsHaveBytes == Spec => []HeldHasBytes
<1>1. Init => RunShape /\ StoreInv BY InitStore
<1>2. RunShape /\ StoreInv /\ [Next]_vars => RunShape' /\ StoreInv' BY ShapeStep, StoreStep
<1>3. StoreInv => HeldHasBytes BY DEF StoreInv
<1> QED BY <1>1, <1>2, <1>3, PTL DEF Spec

(* A transfer cancelled before its last byte never reaches the store.      *)
THEOREM CancelledIsNotKept == Spec => []CancelKeepsNothing
<1>1. Init => RunShape /\ CancelKeepsNothing BY InitStore
<1>2. RunShape /\ CancelKeepsNothing /\ [Next]_vars => RunShape' /\ CancelKeepsNothing'
  BY ShapeStep, CancelStep
<1> QED BY <1>1, <1>2, PTL DEF Spec
(* Types; at any moment the list has each teaching at most once, whoever   *)
(* is or is not signed in (queue.ts enqueue, prune and the patches).       *)
THEOREM TypeCorrect == Spec => []TypeOK
<1>1. AskedInv => TypeOK BY DEF AskedInv
<1> QED BY <1>1, InitAsked, AskedStep, PTL DEF Spec

(* Whoever has signed out, signed in or pressed again while a transfer was *)
(* under way, its record is kept under the account that asked for it       *)
(* (manager.ts runOne, which reads the account once, before eight awaits). *)
THEOREM RecordsWereAskedFor == Spec => []KeptForWhoAsked
<1>1. AskedInv => KeptForWhoAsked BY DEF AskedInv
<1> QED BY <1>1, InitAsked, AskedStep, PTL DEF Spec
=============================================================================
