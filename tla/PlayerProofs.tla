---------------------------- MODULE PlayerProofs ----------------------------
(***************************************************************************)
(* What the player keeps, for every set of teachings, every length and     *)
(* every number of sources under way and of outside events.                *)
(***************************************************************************)
EXTENDS Player, TLAPS

(* A press that is held is one for sound.                                  *)
HeldIsWanted == playOnLoad => wantsPlay

Heard == heard.low..heard.high

(* While no two sources have been on their way at once and no place was    *)
(* chosen under one: an opening's source finds the element empty,          *)
OneOpening ==
    \A t \in Teachings :
        asked[t] > 0 => /\ asked[t] = 1 /\ renewing = Nothing /\ element.state = "empty"
                        /\ \A u \in Teachings \ {t} : asked[u] = 0

(* a renewal holds a place, and nothing that loads could take it,          *)
RenewalHolds == renewing # Nothing => seekOnLoad # Nothing /\ element.state # "loading"

(* the place the next metadata restores is one the member was at,          *)
PlaceHeld == PlaceWaits => seekOnLoad \in Heard

(* and so is where the element is, once it has or without one to restore.  *)
AtHeard ==
    \/ element.at \in Heard
    \/ element.state = "failed"
    \/ element.state = "loading" /\ seekOnLoad # Nothing
    \/ element.state = "empty" /\ (seekOnLoad # Nothing \/ NothingAsked)

Uncrossed == OneOpening /\ RenewalHolds /\ PlaceHeld /\ AtHeard /\ place \in Heard

-----------------------------------------------------------------------------

FlagsOK == wantsPlay \in BOOLEAN /\ playOnLoad \in BOOLEAN /\ crossed \in BOOLEAN /\ excused \in BOOLEAN

Elements == [of : Teachings \cup {Nothing}, state : {"empty", "loading", "ready", "failed"},
             paused : BOOLEAN, at : Places, silent : BOOLEAN]

DataOK ==
    /\ loaded \in Teachings \cup {Nothing}
    /\ element \in Elements
    /\ seekOnLoad \in Places \cup {Nothing} /\ place \in Places
    /\ heard \in [low : Places, high : Places]
    /\ asked \in [Teachings -> 0..MaxAsked]
    /\ renewing \in Teachings \cup {Nothing}
    /\ grant \in {"none", "fresh", "stale"}
    /\ check \in Places \cup {Nothing} /\ remedies \in 0..2
    /\ events \in 0..MaxEvents

LEMMA TypeParts == TypeOK <=> FlagsOK /\ DataOK
BY DEF TypeOK, FlagsOK, DataOK, Elements

LEMMA FlagsInductive == FlagsOK /\ [Next]_vars => FlagsOK'
<1> SUFFICES ASSUME FlagsOK, [Next]_vars PROVE FlagsOK'
  OBVIOUS
<1> USE DEF FlagsOK
<1>1. ASSUME NEW t, NEW start, NEW sound \in BOOLEAN, Opens(t, start, sound) PROVE FlagsOK'
  BY <1>1 DEF Opens
<1>2. ASSUME NEW t, Points(t) PROVE FlagsOK'
  BY <1>2 DEF Points
<1>3. ASSUME NEW to, NEW chosen \in BOOLEAN, RequestPlay(to, chosen) PROVE FlagsOK'
  BY <1>3 DEF RequestPlay, IntoSilence
<1>4. CASE Member
  <2>1. CASE \E t \in Teachings, start \in Places \cup {Nothing} :
               Open(t, start) \/ OpenIfIdle(t, start) \/ OpenAndPlay(t, start)
    BY <2>1, <1>1 DEF Open, OpenIfIdle, OpenAndPlay
  <2>2. CASE PressPlay \/ \E p \in Places : PlayFrom(p)
    BY <2>2, <1>3 DEF PressPlay, PlayFrom
  <2>3. CASE PressPause
    BY <2>3 DEF PressPause, history
  <2>4. CASE \E p \in Places : Seek(p)
    BY <2>4 DEF Seek, IntoSilence, intent
  <2> QED BY <1>4, <2>1, <2>2, <2>3, <2>4 DEF Member
<1>5. CASE SourceComes
  BY <1>5, <1>2 DEF SourceComes, RenewalArrives, Arrives
<1>6. CASE SourceIsRefused
  BY <1>6 DEF SourceIsRefused, RenewalFails, OpenFails, intent
<1>7. CASE LoadedMetadata
  BY <1>7 DEF LoadedMetadata, history
<1>8. CASE Sounds \/ Remember
  BY <1>8 DEF Sounds, Remember, intent, history
<1>9. ASSUME Renews \/ RenewIsRefused, UNCHANGED <<wantsPlay, excused>> PROVE FlagsOK'
  BY <1>9 DEF Renews, RenewIsRefused
<1>10. CASE SourceFails \/ RenewalTick
  BY <1>10, <1>9 DEF SourceFails, RenewalTick
<1>11. CASE Interrupted \/ Suspended \/ GrantRunsOut
  BY <1>11 DEF Interrupted, Suspended, GrantRunsOut, intent
<1>12. CASE CheckSound
  BY <1>12, <1>9 DEF CheckSound, Replay, Reload
<1>13. CASE UNCHANGED vars
  BY <1>13 DEF vars
<1> QED
  BY <1>4, <1>5, <1>6, <1>7, <1>8, <1>10, <1>11, <1>12, <1>13 DEF Next

LEMMA DataInductive == TypeOK /\ [Next]_vars => DataOK'
<1> SUFFICES ASSUME FlagsOK, DataOK, [Next]_vars PROVE DataOK'
  BY TypeParts
<1>0. 0 \in Places /\ Nothing \notin Places
  BY PlayerAssumption DEF Places
<1> USE PlayerAssumption, <1>0 DEF DataOK, At
<1>1. ASSUME NEW t \in Teachings, NEW start \in Places \cup {Nothing}, NEW sound \in BOOLEAN,
             Opens(t, start, sound)
      PROVE  DataOK'
  <2>1. asked' \in [Teachings -> 0..MaxAsked]
    BY <1>1 DEF Opens
  <2>2. element' \in Elements
    BY <1>1 DEF Opens, Empty, Elements
  <2>3. place' \in Places /\ heard' \in [low : Places, high : Places]
    BY <1>1 DEF Opens
  <2> QED BY <1>1, <2>1, <2>2, <2>3 DEF Opens
<1>2. ASSUME NEW t \in Teachings, Points(t), asked' \in [Teachings -> 0..MaxAsked],
             renewing' \in Teachings \cup {Nothing}
      PROVE  DataOK'
  <2>1. element' \in Elements
    <3>1. element.at \in Places
      BY DEF Elements
    <3> QED BY <1>2, <3>1 DEF Points, Empty, Elements
  <2> QED BY <1>2, <2>1 DEF Points
<1>3. ASSUME NEW to \in Places, NEW chosen \in BOOLEAN, RequestPlay(to, chosen), loaded # Nothing,
             place' \in Places, heard' \in [low : Places, high : Places]
      PROVE  DataOK'
  <2>1. element' \in Elements
    BY <1>3, ZenonT(60) DEF RequestPlay, Play, Elements
  <2>2. check' \in Places \cup {Nothing}
    BY <1>3 DEF RequestPlay, Play
  <2>3. seekOnLoad' \in Places \cup {Nothing} /\ renewing' \in Teachings \cup {Nothing}
    BY <1>3 DEF RequestPlay
  <2>4. remedies' = 0 /\ UNCHANGED <<loaded, asked, grant, events>>
    BY <1>3 DEF RequestPlay
  <2> QED BY <1>3, <2>1, <2>2, <2>3, <2>4
<1>4. CASE Member
  <2>1. CASE \E t \in Teachings, start \in Places \cup {Nothing} :
               Open(t, start) \/ OpenIfIdle(t, start) \/ OpenAndPlay(t, start)
    BY <2>1, <1>1 DEF Open, OpenIfIdle, OpenAndPlay
  <2>2. CASE PressPlay
    <3>1. element.at \in Places
      BY DEF Elements
    <3> QED BY <2>2, <3>1, <1>3 DEF PressPlay
  <2>3. CASE PressPause
    <3>1. element' \in Elements
      BY <2>3 DEF PressPause, Hush, Elements
    <3> QED BY <2>3, <3>1 DEF PressPause, Hush, network, history
  <2>4. CASE \E p \in Places : Seek(p)
    <3>1. element' \in Elements
      BY <2>4 DEF Seek, Elements
    <3>2. place' \in Places /\ heard' \in [low : Places, high : Places]
      BY <2>4 DEF Seek
    <3>3. UNCHANGED <<loaded, seekOnLoad, asked, renewing, grant, check, remedies, events>>
      BY <2>4 DEF Seek, intent, network
    <3> QED BY <3>1, <3>2, <3>3
  <2>5. CASE \E p \in Places : PlayFrom(p)
    <3>1. PICK p \in Places : PlayFrom(p)
      BY <2>5
    <3>2. place' \in Places /\ heard' \in [low : Places, high : Places]
      BY <3>1 DEF PlayFrom
    <3>3. RequestPlay(p, TRUE) /\ loaded # Nothing
      BY <3>1 DEF PlayFrom
    <3> QED BY <1>3, <3>2, <3>3
  <2> QED BY <1>4, <2>1, <2>2, <2>3, <2>4, <2>5 DEF Member
<1>5. CASE SourceComes
  BY <1>5, <1>2 DEF SourceComes, RenewalArrives, Arrives
<1>6. CASE SourceIsRefused
  BY <1>6 DEF SourceIsRefused, RenewalFails, OpenFails, Happens, intent
<1>7. CASE LoadedMetadata
  <2>1. element' \in Elements
    BY <1>7 DEF LoadedMetadata, FlagsOK, Elements
  <2> QED BY <1>7, <2>1 DEF LoadedMetadata, network, history, Elements
<1>8. CASE Sounds \/ Remember
  <2>1. element' \in Elements /\ element.at \in Places
    BY <1>8 DEF Sounds, Remember, Elements, Places
  <2>2. CASE Sounds
    <3>1. place' \in Places /\ heard' \in [low : Places, high : Places]
      BY <2>1, <2>2 DEF Sounds, Places
    <3> QED BY <2>1, <2>2, <3>1 DEF Sounds, intent, network
  <2>3. CASE Remember
    BY <2>1, <2>3 DEF Remember, intent, network, history
  <2> QED BY <1>8, <2>2, <2>3
<1>9. CASE SourceFails
  <2>1. element' \in Elements
    BY <1>9 DEF SourceFails, Elements
  <2> QED BY <1>9, <2>1 DEF SourceFails, Happens, Renews, RenewIsRefused
<1>10. CASE Interrupted \/ Suspended \/ GrantRunsOut
  <2>1. element' \in Elements
    BY <1>10 DEF Interrupted, Suspended, GrantRunsOut, Hush, Elements
  <2> QED BY <1>10, <2>1 DEF Interrupted, Suspended, GrantRunsOut, Happens, Hush, intent, network
<1>11. CASE RenewalTick
  BY <1>11 DEF RenewalTick, Renews
<1>12. CASE CheckSound
  <2>1. element' \in Elements /\ element.at \in Places
    BY <1>12, ZenonT(60) DEF CheckSound, Replay, Reload, Elements
  <2> QED BY <1>12, <2>1 DEF CheckSound, Replay, Reload, Renews, RenewIsRefused
<1>13. CASE UNCHANGED vars
  BY <1>13 DEF vars
<1> QED
  BY <1>4, <1>5, <1>6, <1>7, <1>8, <1>9, <1>10, <1>11, <1>12, <1>13 DEF Next

LEMMA TypeInitially == Init => TypeOK
<1>1. Init => FlagsOK
  BY DEF Init, FlagsOK
<1>2. Init => DataOK
  BY PlayerAssumption DEF Init, DataOK, Elements, Empty, Places, At
<1> QED BY <1>1, <1>2, TypeParts

LEMMA TypeInductive == TypeOK /\ [Next]_vars => TypeOK'
<1>1. FlagsOK' /\ DataOK' => TypeOK'
  BY DEF TypeOK, FlagsOK, DataOK, Elements
<1> QED BY <1>1, TypeParts, FlagsInductive, DataInductive

(* Type correctness, for every length of a teaching and every bound.       *)
THEOREM TypeCorrect == Spec => []TypeOK
BY TypeInitially, TypeInductive, PTL DEF Spec
-----------------------------------------------------------------------------
(* There is no sound the member has not asked for: a press that is held    *)
(* for a source is one for sound, and a press for silence takes it back.   *)
LEMMA WantedInductive ==
    TypeOK /\ HeldIsWanted /\ SoundIsWanted /\ [Next]_vars => HeldIsWanted' /\ SoundIsWanted'
<1> SUFFICES ASSUME TypeOK, HeldIsWanted, SoundIsWanted, [Next]_vars PROVE HeldIsWanted' /\ SoundIsWanted'
  OBVIOUS
<1>0. element \in Elements
  BY DEF TypeOK, Elements
<1> USE <1>0 DEF HeldIsWanted, SoundIsWanted, Elements
<1>1. ASSUME NEW t, NEW start, NEW sound \in BOOLEAN, Opens(t, start, sound)
      PROVE  HeldIsWanted' /\ SoundIsWanted'
  BY <1>1 DEF Opens, Empty
<1>2. ASSUME NEW t, Points(t) PROVE HeldIsWanted' /\ SoundIsWanted'
  BY <1>2 DEF Points, Empty
<1>3. ASSUME NEW to, NEW chosen, RequestPlay(to, chosen) PROVE HeldIsWanted' /\ SoundIsWanted'
  BY <1>3 DEF RequestPlay
<1>4. CASE Member
  <2>1. CASE \E t \in Teachings, start \in Places \cup {Nothing} :
               Open(t, start) \/ OpenIfIdle(t, start) \/ OpenAndPlay(t, start)
    BY <2>1, <1>1 DEF Open, OpenIfIdle, OpenAndPlay
  <2>2. CASE PressPlay \/ \E p \in Places : PlayFrom(p)
    BY <2>2, <1>3 DEF PressPlay, PlayFrom
  <2>3. CASE PressPause
    BY <2>3 DEF PressPause, Hush
  <2>4. CASE \E p \in Places : Seek(p)
    BY <2>4 DEF Seek, intent
  <2> QED BY <1>4, <2>1, <2>2, <2>3, <2>4 DEF Member
<1>5. CASE SourceComes
  BY <1>5, <1>2 DEF SourceComes, RenewalArrives, Arrives
<1>6. CASE SourceIsRefused
  BY <1>6 DEF SourceIsRefused, RenewalFails, OpenFails, intent
<1>7. CASE LoadedMetadata
  BY <1>7 DEF LoadedMetadata
<1>8. CASE Sounds \/ Remember
  BY <1>8 DEF Sounds, Remember, intent
<1>9. CASE SourceFails
  BY <1>9 DEF SourceFails, Renews, RenewIsRefused
<1>10. CASE Interrupted \/ Suspended \/ GrantRunsOut
  BY <1>10 DEF Interrupted, Suspended, GrantRunsOut, Hush, intent
<1>11. CASE RenewalTick
  BY <1>11 DEF RenewalTick, Renews
<1>12. CASE CheckSound
  BY <1>12 DEF CheckSound, Replay, Reload, Renews, RenewIsRefused
<1>13. CASE UNCHANGED vars
  BY <1>13 DEF vars
<1> QED
  BY <1>4, <1>5, <1>6, <1>7, <1>8, <1>9, <1>10, <1>11, <1>12, <1>13 DEF Next

(* No sound the member has not asked for, however presses, renewals and    *)
(* sources interleave (requestPause, renew, onLoadedMetadata).             *)
THEOREM NoUnwantedSound == Spec => []SoundIsWanted
<1>1. Init => HeldIsWanted /\ SoundIsWanted
  BY DEF Init, HeldIsWanted, SoundIsWanted, Empty
<1> QED BY <1>1, TypeInitially, TypeInductive, WantedInductive, PTL DEF Spec

-----------------------------------------------------------------------------

USE DEF Uncrossed, OneOpening, RenewalHolds, PlaceHeld, AtHeard, PlaceWaits, NothingAsked
Settled == crossed \/ Uncrossed

Shape == element \in Elements /\ asked \in [Teachings -> Nat]

LEMMA TypeShape == TypeOK => Shape /\ heard.low \in Nat /\ heard.high \in Nat /\ place \in Nat
                             /\ element.at \in Nat /\ Nothing \notin Places /\ Places \subseteq Nat
BY PlayerAssumption DEF TypeOK, Shape, Elements, Places

LEMMA AtIsHeard == \A p \in Nat : heard = At(p) => p \in Heard
BY DEF At, Heard

LEMMA SameHeard == heard' = heard => Heard' = Heard
BY DEF Heard

(* An opening begins with one source on its way, or with an excuse.        *)
LEMMA OpensSettles ==
  ASSUME TypeOK, NEW t \in Teachings, NEW start \in Places \cup {Nothing}, NEW sound \in BOOLEAN,
         Opens(t, start, sound)
  PROVE  Settled'
<1>1. place' \in Nat /\ place' \in Heard' /\ (start # Nothing => place' = start) /\ (start = Nothing => place' = 0)
  BY TypeShape DEF Opens, At, Heard
<1> SUFFICES ASSUME NothingAsked PROVE Uncrossed'
  BY DEF Opens, Settled
<1>2. OneOpening'
  BY TypeShape DEF Opens, Shape, Empty
<1>3. RenewalHolds' /\ PlaceHeld' /\ AtHeard'
  BY <1>1, TypeShape DEF Opens, Empty
<1> QED BY <1>1, <1>2, <1>3

(* A source that comes finds no other on its way, or leaves an excuse.     *)
LEMMA PointsSettles ==
  ASSUME TypeOK, Settled, NEW t \in Teachings, Points(t),
         \/ RenewalArrives
         \/ Arrives(t)
  PROVE  Settled'
<1> SUFFICES ASSUME ~crossed' PROVE Uncrossed'
  BY DEF Settled
<1>1. Uncrossed /\ NothingAsked' /\ UNCHANGED <<seekOnLoad, place>> /\ Heard' = Heard
  BY SameHeard DEF Settled, Points
<1>2. PlaceWaits => seekOnLoad \in Heard
  BY <1>1
<1>3. element'.state = "loading"
      /\ (element.state = "empty" => element'.at = element.at)
  BY TypeShape DEF Points, Empty, Shape
<1>4. seekOnLoad # Nothing \/ (element.state = "empty" /\ element.at \in Heard)
  <2>1. CASE RenewalArrives
    BY <1>1, <2>1 DEF RenewalArrives
  <2>2. CASE Arrives(t)
    BY <1>1, <2>2, TypeShape DEF Arrives, Shape
  <2> QED BY <2>1, <2>2
<1>5. seekOnLoad # Nothing => PlaceWaits
  BY DEF RenewalArrives, Arrives
<1> QED BY <1>1, <1>2, <1>3, <1>4, <1>5

(* A renewal asked for while nothing is on its way holds where they are.   *)
LEMMA RenewsSettles ==
  ASSUME TypeOK, Settled, Renews \/ RenewIsRefused,
         UNCHANGED <<asked, place, heard>>,
         \/ element' = element
         \/ element.state \in {"loading", "ready"} /\ element'.state = "failed"
  PROVE  Settled'
<1> SUFFICES ASSUME ~crossed' PROVE Uncrossed'
  BY DEF Settled
<1>1. Uncrossed /\ Heard' = Heard
  BY SameHeard DEF Settled, Renews, RenewIsRefused
<1>2. CASE Renews
  <2>1. ~Meets /\ seekOnLoad' = place /\ seekOnLoad' # Nothing
    <3>1. ~Meets
      BY <1>2, ZenonT(30) DEF Renews
    <3>2. place \in Places /\ seekOnLoad' = place
      BY <1>2 DEF Renews, TypeOK
    <3> QED BY <3>1, <3>2, TypeShape
  <2>2. (\A t \in Teachings : asked'[t] = 0) /\ element'.state # "loading"
    BY <2>1 DEF Meets
  <2>3. OneOpening' /\ RenewalHolds' /\ PlaceHeld'
    BY <1>1, <2>1, <2>2
  <2>4. AtHeard'
    BY <1>1, <2>1
  <2> QED BY <1>1, <2>3, <2>4
<1>3. CASE RenewIsRefused
  BY <1>1, <1>3, TypeShape DEF RenewIsRefused, Shape
<1> QED BY <1>2, <1>3

(* A press takes the element where it says, or says so to what comes.      *)
LEMMA PressSettles ==
  ASSUME TypeOK, Settled, NEW to \in Places, NEW chosen \in BOOLEAN, RequestPlay(to, chosen),
         \/ chosen = FALSE /\ to = element.at /\ UNCHANGED <<place, heard>>
         \/ chosen = TRUE /\ place' = to /\ heard' = At(to)
  PROVE  Settled'
<1> SUFFICES ASSUME ~crossed' PROVE Uncrossed'
  BY DEF Settled
<1>1. Uncrossed /\ UNCHANGED asked
  BY DEF Settled, RequestPlay
<1>2. element'.at = to /\ element'.state = element.state
  BY TypeShape DEF RequestPlay, Play, Shape, Elements
<1>3. ASSUME chosen = TRUE PROVE place' \in Heard' /\ to \in Heard' /\ ~PlaceWaits
  <2>1. place' \in Heard' /\ to \in Heard'
    BY <1>3, TypeShape DEF At, Heard
  <2>2. ~(chosen /\ PlaceWaits)
    BY ZenonT(30) DEF RequestPlay
  <2> QED BY <1>3, <2>1, <2>2
<1>4. chosen = FALSE => Heard' = Heard /\ place' = place
  BY SameHeard
<1>5. place' \in Heard' /\ place' # Nothing
  <2>1. place \in Places /\ Nothing \notin Places
    BY TypeShape DEF TypeOK
  <2>2. CASE chosen = TRUE
    BY <1>3, <2>1, <2>2
  <2>3. CASE chosen = FALSE
    BY <1>1, <1>4, <2>1, <2>3
  <2> QED BY <2>2, <2>3
<1>6. CASE UNCHANGED <<seekOnLoad, renewing>>
  <2>1. OneOpening' /\ RenewalHolds'
    BY <1>1, <1>2, <1>6
  <2>2. PlaceHeld' /\ AtHeard'
    BY <1>1, <1>2, <1>3, <1>4, <1>6
  <2> QED BY <1>5, <2>1, <2>2
<1>7. CASE renewing = Nothing /\ seekOnLoad' = place' /\ renewing' = loaded
  <2>1. renewing' # renewing => ~Meets
    BY DEF RequestPlay
  <2>2. renewing' # Nothing => (\A t \in Teachings : asked'[t] = 0) /\ element'.state # "loading"
    BY <1>1, <1>7, <2>1 DEF Meets
  <2>3. seekOnLoad' = place' /\ place' # Nothing
    BY <1>5, <1>7
  <2>4. OneOpening'
    BY <1>1, <1>2, <1>7, <2>2, TypeShape DEF Shape
  <2>5. RenewalHolds'
    BY <2>2, <2>3
  <2>6. PlaceHeld'
    BY <1>5, <2>3
  <2>7. AtHeard'
    <3>1. CASE chosen = TRUE
      BY <1>2, <1>3, <3>1
    <3>2. CASE chosen = FALSE
      BY <1>1, <1>2, <1>4, <2>3, <3>2, TypeShape DEF Shape, Elements
    <3> QED BY <3>1, <3>2
  <2> QED BY <1>5, <2>4, <2>5, <2>6, <2>7
<1> QED BY <1>6, <1>7 DEF RequestPlay

LEMMA PlaceInductive == TypeOK /\ Settled /\ [Next]_vars => Settled'
<1> SUFFICES ASSUME TypeOK, Settled, [Next]_vars PROVE Settled'
  OBVIOUS
<1>4. CASE Member
  <2>1. CASE \E t \in Teachings, start \in Places \cup {Nothing} :
               Open(t, start) \/ OpenIfIdle(t, start) \/ OpenAndPlay(t, start)
    BY <2>1, OpensSettles DEF Open, OpenIfIdle, OpenAndPlay
  <2>2. CASE PressPlay
    <3>1. element.at \in Places
      BY DEF TypeOK
    <3> QED BY <2>2, <3>1, PressSettles DEF PressPlay
  <2>3. CASE PressPause
    BY <2>3, TypeShape, SameHeard DEF PressPause, Hush, network, history, Settled, Shape, Elements
  <2>4. ASSUME NEW p \in Places, Seek(p) PROVE Settled'
    <3>1. p \in Heard'
      BY <2>4, TypeShape DEF Seek, At, Heard
    <3> QED BY <2>4, <3>1, TypeShape DEF Seek, intent, network, Settled, Shape, Elements
  <2>5. ASSUME NEW p \in Places, PlayFrom(p) PROVE Settled'
    <3>1. RequestPlay(p, TRUE) /\ place' = p /\ heard' = At(p)
      BY <2>5 DEF PlayFrom
    <3> QED BY <3>1, PressSettles
  <2> QED BY <1>4, <2>1, <2>2, <2>3, <2>4, <2>5 DEF Member
<1>5. CASE SourceComes
  <2>1. renewing # Nothing => renewing \in Teachings
    BY DEF TypeOK
  <2> QED BY <1>5, <2>1, PointsSettles DEF SourceComes, RenewalArrives, Arrives
<1>6. CASE SourceIsRefused
  <2>1. CASE RenewalFails
    BY <2>1, SameHeard, TypeShape DEF RenewalFails, intent, Settled, Shape
  <2>2. ASSUME NEW t \in Teachings, OpenFails(t) PROVE Settled'
    BY <2>2, SameHeard, TypeShape DEF OpenFails, intent, Settled, Shape
  <2> QED BY <1>6, <2>1, <2>2 DEF SourceIsRefused
<1>7. CASE LoadedMetadata
  BY <1>7, SameHeard, TypeShape DEF LoadedMetadata, network, history, Settled, Shape, Elements
<1>8. CASE Sounds
  <2>1. UNCHANGED <<seekOnLoad, asked, renewing, crossed>> /\ element'.state = element.state /\ element.state = "ready"
    BY <1>8, TypeShape DEF Sounds, Playing, intent, network, Shape, Elements
  <2>2. crossed \/ (element.at \in Heard /\ (renewing = Nothing => ~PlaceWaits))
    <3>1. CASE crossed
      BY <3>1
    <3>2. CASE Uncrossed
      <4>1. element.at \in Heard
        BY <2>1, <3>2
      <4>2. \A t \in Teachings : asked[t] = 0
        BY <2>1, <3>2, TypeShape DEF Shape
      <4> QED BY <2>1, <4>1, <4>2
    <3> QED BY <3>1, <3>2 DEF Settled
  <2>3. crossed \/ (element'.at \in Heard' /\ place' \in Heard' /\ (renewing # Nothing => Heard \subseteq Heard'))
    BY <1>8, <2>2, TypeShape DEF Sounds, Heard, At, Shape, Elements
  <2> QED BY <2>1, <2>2, <2>3 DEF Settled
<1>9. CASE Remember
  BY <1>9, SameHeard DEF Remember, intent, network, history, Settled
<1>10. CASE SourceFails
  <2>1. element'.state = "failed"
    BY <1>10, TypeShape DEF SourceFails, Shape, Elements
  <2> QED BY <1>10, <2>1, RenewsSettles DEF SourceFails
<1>11. CASE Interrupted \/ Suspended \/ GrantRunsOut
  BY <1>11, SameHeard, TypeShape DEF Interrupted, Suspended, GrantRunsOut, Hush, intent, network, Settled, Shape, Elements
<1>12. CASE RenewalTick
  BY <1>12, RenewsSettles DEF RenewalTick
<1>13. CASE CheckSound
  <2>1. element'.state = element.state /\ element'.at = element.at
    BY <1>13, TypeShape DEF CheckSound, Replay, Reload, Shape, Elements
  <2>2. CASE Reload
    BY <1>13, <2>2, RenewsSettles DEF CheckSound, Reload
  <2>3. CASE UNCHANGED <<seekOnLoad, renewing, crossed>>
    BY <1>13, <2>1, <2>3, SameHeard DEF CheckSound, Settled
  <2> QED BY <1>13, <2>2, <2>3 DEF CheckSound, Replay
<1>14. CASE UNCHANGED vars
  BY <1>14, SameHeard DEF vars, Settled
<1> QED
  BY <1>4, <1>5, <1>6, <1>7, <1>8, <1>9, <1>10, <1>11, <1>12, <1>13, <1>14 DEF Next

(* The place survives every swap of the source, failure and renewal, for   *)
(* every length of a teaching (renew, onLoadedMetadata, remember).         *)
THEOREM PlaceKept == Spec => []PlaceSurvives
<1>1. Init => Settled
  BY PlayerAssumption DEF Init, Settled, Empty, Heard, At
<1>2. Settled => PlaceSurvives
  BY DEF Settled, PlaceSurvives, Heard
<1> QED BY <1>1, <1>2, TypeInitially, TypeInductive, PlaceInductive, PTL DEF Spec
=============================================================================
