------------------------------ MODULE Player ------------------------------
(***************************************************************************)
(* The one audio element of the member pages: what is loaded, where its    *)
(* source comes from, and how a press, a seek and a position outlive the   *)
(* waits in between.  web/src/app/(member)/player-context.tsx with         *)
(* client/playback/{renewal,stall}.ts.                                     *)
(*                                                                         *)
(* One thread: an action is a handler, or what a handler does between two  *)
(* awaits.  A source that has been asked for may arrive at any time, after *)
(* one that was asked for later too.  The element is the browser's: giving *)
(* it a source empties it, pauses it and forgets the events it had queued. *)
(***************************************************************************)
EXTENDS Naturals

CONSTANTS
    Teachings,
    Nothing,       \* no teaching, no position
    MaxPlace,      \* bound: the last position of a teaching
    MaxAsked,      \* bound: sources of one teaching on their way for open
    MaxEvents      \* bound: failures, interruptions, grants that run out

ASSUME PlayerAssumption ==
    /\ Nothing \notin Teachings /\ Nothing \notin Nat
    /\ MaxPlace \in Nat /\ MaxAsked \in Nat /\ MaxEvents \in Nat

VARIABLES
    loaded,      \* the teaching the bar names
    element,     \* the audio element
    wantsPlay,   \* the member's last press was for sound
    playOnLoad, seekOnLoad,  \* what the next metadata is to do
    place,       \* positionRef: the last position read while there was a source
    asked,       \* per teaching: sources asked for by open, on their way
    renewing,    \* the teaching a renewal has asked a source for
    grant,       \* "none" while a download plays
    check,       \* where the clock stood at the last play, until it is read again
    remedies,    \* what the last press has had against silence
    heard,       \* history: where the member was when a swap was asked for, and
                 \* the last they heard since; one place when there is no swap
    crossed,     \* history: a source came while another was on its way, or a
                 \* place was chosen while one was waiting to be restored
    excused,     \* history: a source was refused, the device paused, or the
                 \* member pressed again into the silence
    events       \* outside events so far

vars == <<loaded, element, wantsPlay, playOnLoad, seekOnLoad, place, asked, renewing, grant,
          check, remedies, heard, crossed, excused, events>>

intent == <<wantsPlay, playOnLoad, seekOnLoad>>
network == <<asked, renewing, grant>>
history == <<heard, crossed, excused, events>>

-----------------------------------------------------------------------------

Places == 0..MaxPlace

Empty == [of |-> Nothing, state |-> "empty", paused |-> TRUE, at |-> 0, silent |-> FALSE]

At(p) == [low |-> p, high |-> p]

Playing == ~element.paused /\ element.state = "ready" /\ ~element.silent

Idle == element.paused /\ ~wantsPlay

TypeOK ==
    /\ loaded \in Teachings \cup {Nothing}
    /\ element \in [of : Teachings \cup {Nothing}, state : {"empty", "loading", "ready", "failed"},
                    paused : BOOLEAN, at : Places, silent : BOOLEAN]
    /\ wantsPlay \in BOOLEAN /\ playOnLoad \in BOOLEAN
    /\ seekOnLoad \in Places \cup {Nothing} /\ place \in Places
    /\ heard \in [low : Places, high : Places]
    /\ asked \in [Teachings -> 0..MaxAsked]
    /\ renewing \in Teachings \cup {Nothing}
    /\ grant \in {"none", "fresh", "stale"}
    /\ check \in Places \cup {Nothing} /\ remedies \in 0..2
    /\ crossed \in BOOLEAN /\ excused \in BOOLEAN /\ events \in 0..MaxEvents

Happens == events < MaxEvents /\ events' = events + 1

NothingAsked == renewing = Nothing /\ \A t \in Teachings : asked[t] = 0

(* A renewal now would meet a source that is coming or has yet to load.    *)
Meets == ~NothingAsked \/ element'.state = "loading"

(* A position is held for the metadata of a source that is coming.         *)
PlaceWaits == seekOnLoad # Nothing /\ (~NothingAsked \/ element.state = "loading")

-----------------------------------------------------------------------------
(* Opening a teaching.                                                     *)

(* The last teaching's sound goes now; its grant is left.                  *)
Opens(t, start, sound) ==
    /\ loaded # t
    /\ asked[t] < MaxAsked
    /\ loaded' = t
    /\ element' = Empty
    /\ wantsPlay' = sound
    /\ playOnLoad' = sound
    /\ seekOnLoad' = start
    /\ place' = IF start = Nothing THEN 0 ELSE start
    /\ heard' = At(place')
    /\ asked' = [asked EXCEPT ![t] = @ + 1]
    /\ crossed' = ~NothingAsked
    /\ excused' = FALSE
    /\ UNCHANGED <<renewing, grant, check, remedies, events>>

Open(t, start) == Opens(t, start, FALSE)

(* From a fetch's answer: never over a teaching that sounds.               *)
OpenIfIdle(t, start) == (loaded = Nothing \/ element.paused) /\ Opens(t, start, FALSE)

OpenAndPlay(t, start) == Opens(t, start, TRUE)

-----------------------------------------------------------------------------
(* Sources.                                                                *)

(* pointAt after its last await: the download, or what the grant names.    *)
(* A place chosen while there was no metadata is where the source starts.  *)
Points(t) ==
    /\ element' = [Empty EXCEPT !.of = t, !.state = "loading",
                                !.at = IF element.state \in {"empty", "loading"} THEN element.at ELSE 0]
    /\ grant' \in {"none", "fresh"}
    /\ crossed' = (crossed \/ ~(renewing' = Nothing /\ \A u \in Teachings : asked'[u] = 0))
    /\ UNCHANGED <<loaded, wantsPlay, playOnLoad, seekOnLoad, place, check, remedies, heard, excused, events>>

Arrives(t) ==
    /\ asked[t] > 0
    /\ asked' = [asked EXCEPT ![t] = @ - 1]
    /\ UNCHANGED renewing
    /\ Points(t)

(* Nothing is said and nothing is asked for again.                         *)
OpenFails(t) ==
    /\ Happens
    /\ asked[t] > 0
    /\ asked' = [asked EXCEPT ![t] = @ - 1]
    /\ excused' = TRUE
    /\ UNCHANGED <<loaded, element, intent, place, renewing, grant, check, remedies, heard, crossed>>

(* Nothing while another renewal is on its way.                            *)
Renews ==
    /\ renewing = Nothing /\ loaded # Nothing
    /\ seekOnLoad' = place
    /\ playOnLoad' = wantsPlay
    /\ renewing' = loaded
    /\ crossed' = (crossed \/ Meets)

RenewIsRefused ==
    /\ renewing # Nothing \/ loaded = Nothing
    /\ UNCHANGED <<seekOnLoad, playOnLoad, renewing, crossed>>

RenewalArrives ==
    /\ renewing # Nothing
    /\ renewing' = Nothing
    /\ UNCHANGED asked
    /\ Points(renewing)

RenewalFails ==
    /\ Happens
    /\ renewing # Nothing
    /\ renewing' = Nothing
    /\ excused' = TRUE
    /\ UNCHANGED <<loaded, element, intent, place, asked, grant, check, remedies, heard, crossed>>

-----------------------------------------------------------------------------
(* The member's presses.                                                   *)

(* The element says it plays once, when it had been paused.                *)
Play(to) ==
    /\ element' = [element EXCEPT !.at = to, !.paused = FALSE]
    /\ check' = IF element.paused THEN to ELSE check

(* Pressing again while nothing sounds moves the clock the check goes by,  *)
(* or starts its count afresh.                                             *)
IntoSilence == excused' = (excused \/ (~element.paused /\ element.silent))

(* Mutant: a press before there is a source is not held.                   *)
RequestPlayUnheld(to, chosen) ==
    /\ wantsPlay' = TRUE
    /\ remedies' = 0
    /\ UNCHANGED playOnLoad
    /\ \/ /\ element.state = "empty" \/ renewing # Nothing
          /\ element' = [element EXCEPT !.at = to]
          /\ UNCHANGED check
       \/ /\ element.state # "empty" /\ renewing = Nothing
          /\ Play(to)
    /\ crossed' = (crossed \/ (chosen /\ PlaceWaits))
    /\ IntoSilence
    /\ UNCHANGED <<loaded, seekOnLoad, asked, renewing, grant, events>>

(* A press before there is a source is held; one on a stale or failed      *)
(* source swaps the source first.                                          *)
RequestPlay(to, chosen) ==
    /\ wantsPlay' = TRUE
    /\ remedies' = 0
    /\ \/ /\ element.state = "empty" \/ renewing # Nothing
          /\ playOnLoad' = TRUE
          /\ element' = [element EXCEPT !.at = to]
          /\ UNCHANGED <<seekOnLoad, renewing, check>>
       \/ /\ element.state # "empty" /\ renewing = Nothing
          /\ grant = "stale" \/ element.state = "failed"
          /\ seekOnLoad' = place' /\ playOnLoad' = TRUE /\ renewing' = loaded
          /\ element' = [element EXCEPT !.at = to]
          /\ UNCHANGED check
       \/ /\ element.state # "empty" /\ renewing = Nothing
          /\ grant # "stale" /\ element.state # "failed"
          /\ Play(to)
          /\ UNCHANGED <<playOnLoad, seekOnLoad, renewing>>
    /\ crossed' = (crossed \/ (renewing' # renewing /\ Meets) \/ (chosen /\ PlaceWaits))
    /\ IntoSilence
    /\ UNCHANGED <<loaded, asked, grant, events>>

PressPlay ==
    /\ loaded # Nothing
    /\ UNCHANGED <<place, heard>>
    /\ RequestPlay(element.at, FALSE)

(* A pause the element had not been told of yet ends the check.            *)
Hush ==
    /\ element' = [element EXCEPT !.paused = TRUE]
    /\ check' = IF element.paused THEN check ELSE Nothing

(* Mutant: a press for silence leaves what was captured for the swap.      *)
PressPauseKept ==
    /\ wantsPlay' = FALSE
    /\ remedies' = 0
    /\ Hush
    /\ UNCHANGED <<loaded, playOnLoad, seekOnLoad, place, network, history>>

PressPause ==
    /\ wantsPlay' = FALSE
    /\ playOnLoad' = FALSE
    /\ remedies' = 0
    /\ Hush
    /\ UNCHANGED <<loaded, seekOnLoad, place, network, history>>

(* Before there is metadata the element keeps the seek as where to start.  *)
Seek(p) ==
    /\ loaded # Nothing
    /\ element' = [element EXCEPT !.at = p]
    /\ place' = p
    /\ heard' = At(p)
    /\ crossed' = (crossed \/ PlaceWaits)
    /\ IntoSilence
    /\ UNCHANGED <<loaded, intent, network, check, remedies, events>>

PlayFrom(p) ==
    /\ loaded # Nothing
    /\ place' = p
    /\ heard' = At(p)
    /\ RequestPlay(p, TRUE)

-----------------------------------------------------------------------------
(* The element and the clock.                                              *)

LoadedMetadata ==
    /\ element.state = "loading"
    /\ element' = [element EXCEPT !.state = "ready", !.paused = @ /\ ~playOnLoad,
                                  !.at = IF seekOnLoad = Nothing THEN @ ELSE seekOnLoad]
    /\ seekOnLoad' = Nothing
    /\ playOnLoad' = FALSE
    /\ check' = IF playOnLoad /\ element.paused THEN element'.at ELSE check
    /\ UNCHANGED <<loaded, wantsPlay, place, network, remedies, history>>

(* What sounds while a source is on its way to replace it is heard twice.  *)
Sounds ==
    /\ Playing /\ element.at < MaxPlace
    /\ element' = [element EXCEPT !.at = @ + 1]
    /\ place' = element.at + 1
    /\ heard' = IF renewing = Nothing THEN At(place')
                 ELSE [heard EXCEPT !.high = IF place' > @ THEN place' ELSE @]
    /\ UNCHANGED <<loaded, intent, network, check, remedies, crossed, excused, events>>

(* Mutant: the position is read off an element that has been emptied.      *)
RememberUnready ==
    /\ place' = element.at
    /\ UNCHANGED <<loaded, element, intent, network, check, remedies, history>>

(* A seek that has landed, a clock that has not moved.                     *)
Remember ==
    /\ element.state = "ready"
    /\ place' = element.at
    /\ UNCHANGED <<loaded, element, intent, network, check, remedies, history>>

(* The source dies, and the position with it.                              *)
SourceFails ==
    /\ Happens
    /\ element.state \in {"loading", "ready"}
    /\ element' = [element EXCEPT !.state = "failed", !.at = 0]
    /\ Renews \/ RenewIsRefused
    /\ UNCHANGED <<loaded, wantsPlay, place, asked, grant, check, remedies, heard, excused>>

(* A call, another app: the device stops the sound, not the member.        *)
Interrupted ==
    /\ Happens
    /\ ~element.paused
    /\ Hush
    /\ excused' = TRUE
    /\ UNCHANGED <<loaded, intent, place, network, remedies, heard, crossed>>

(* While nothing sounds the device may let the sound's pipeline go.        *)
Suspended ==
    /\ Happens
    /\ element.paused /\ element.state = "ready"
    /\ element' = [element EXCEPT !.silent = TRUE]
    /\ UNCHANGED <<loaded, intent, place, network, check, remedies, heard, crossed, excused>>

GrantRunsOut ==
    /\ Happens
    /\ grant = "fresh"
    /\ grant' = "stale"
    /\ UNCHANGED <<loaded, element, intent, place, asked, renewing, check, remedies, heard, crossed, excused>>

(* Every fifteen seconds; a transport at rest is left alone.               *)
RenewalTick ==
    /\ grant = "stale" /\ loaded # Nothing /\ ~Idle
    /\ UNCHANGED element
    /\ Renews
    /\ UNCHANGED <<loaded, wantsPlay, place, asked, grant, check, remedies, heard, excused, events>>

Stalled == ~element.paused /\ wantsPlay /\ element.at <= check /\ ~Playing

(* Pause and play; the device may take it up, or not.                      *)
Replay ==
    /\ element' \in {element, [element EXCEPT !.silent = FALSE]}
    /\ check' = element.at
    /\ UNCHANGED <<seekOnLoad, playOnLoad, renewing, crossed>>

Reload ==
    /\ UNCHANGED element
    /\ check' = Nothing
    /\ Renews \/ RenewIsRefused

(* Mutant: a press is given remedies without end.                          *)
CheckSoundForever ==
    /\ check # Nothing /\ Stalled
    /\ remedies' = remedies + 1
    /\ IF remedies = 0 THEN Replay ELSE Reload
    /\ UNCHANGED <<loaded, wantsPlay, place, asked, grant, heard, excused, events>>

(* Two seconds after the element said it plays: has the clock moved?  If   *)
(* not, play again; the next time swap the source; then leave it.          *)
CheckSound ==
    /\ check # Nothing
    /\ \/ /\ Stalled /\ remedies < 2
          /\ remedies' = remedies + 1
          /\ IF remedies = 0 THEN Replay ELSE Reload
       \/ /\ ~Stalled \/ remedies = 2
          /\ check' = Nothing
          /\ UNCHANGED <<element, seekOnLoad, playOnLoad, renewing, crossed, remedies>>
    /\ UNCHANGED <<loaded, wantsPlay, place, asked, grant, heard, excused, events>>

-----------------------------------------------------------------------------

Init ==
    /\ loaded = Nothing
    /\ element = Empty
    /\ wantsPlay = FALSE /\ playOnLoad = FALSE /\ seekOnLoad = Nothing
    /\ place = 0 /\ heard = At(0)
    /\ asked = [t \in Teachings |-> 0]
    /\ renewing = Nothing
    /\ grant = "none"
    /\ check = Nothing /\ remedies = 0
    /\ crossed = FALSE /\ excused = FALSE
    /\ events = 0

Member ==
    \/ \E t \in Teachings, start \in Places \cup {Nothing} :
         Open(t, start) \/ OpenIfIdle(t, start) \/ OpenAndPlay(t, start)
    \/ PressPlay \/ PressPause
    \/ \E p \in Places : Seek(p) \/ PlayFrom(p)

SourceComes == RenewalArrives \/ \E t \in Teachings : Arrives(t)

SourceIsRefused == RenewalFails \/ \E t \in Teachings : OpenFails(t)

Next ==
    \/ Member \/ SourceComes \/ SourceIsRefused
    \/ LoadedMetadata \/ Sounds \/ Remember \/ SourceFails \/ Interrupted \/ Suspended
    \/ GrantRunsOut \/ RenewalTick \/ CheckSound

(* What has been asked for is answered, what has a source loads, and the   *)
(* check of the sound is a timer.                                          *)
Fairness == WF_vars(SourceComes) /\ WF_vars(LoadedMetadata) /\ WF_vars(CheckSound)

Spec == Init /\ [][Next]_vars /\ Fairness

-----------------------------------------------------------------------------
(* Properties.                                                             *)

(* There is no sound the member has not asked for: neither on opening a    *)
(* teaching, nor after a source is swapped under a press for silence.      *)
SoundIsWanted == ~element.paused => wantsPlay

(* A teaching whose source has loaded is where the member left it, or      *)
(* where it was opened to start, whatever happened to earlier sources:     *)
(* never before the place they had reached when a swap was asked for, and  *)
(* never past the last one they heard; but for two sources on their way at *)
(* once, or a place chosen meanwhile.                                      *)
PlaceSurvives ==
    element.state = "ready" /\ renewing = Nothing /\ ~crossed =>
        element.at \in heard.low..heard.high

(* A press for sound is followed by sound, by a press for silence or by    *)
(* another teaching; but for two sources at once, one refused, or a device *)
(* that pauses by itself.                                                  *)
PressIsHonoured ==
    \A t \in Teachings :
        wantsPlay /\ loaded = t ~> Playing \/ ~wantsPlay \/ loaded # t \/ crossed \/ excused
=============================================================================
