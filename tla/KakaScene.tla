----------------------------- MODULE KakaScene ------------------------------
(***************************************************************************)
(* The trench mission as the host presents it (docs/demos/kaka/            *)
(* kaka-host.js): Glon renders whole frames, and the host derives sounds   *)
(* and cues from what changed between two of them.  A frame is drawn when  *)
(* Glon renders, after a tick or any other event, and the last one of a    *)
(* mission is drawn again on animation frames without a tick.              *)
(*                                                                         *)
(* Glon's side is the mission of kaka-fighter.glon: the phases are 0 run,  *)
(* 1 escape, 2 win, 3 fail, 4 and 5 the debriefs.  Distances are left out: *)
(* what they decide, a loss of shield or the end of a phase, is any tick's *)
(* choice.                                                                 *)
(***************************************************************************)
EXTENDS Integers

VARIABLES mode,     \* Glon: "forest", "cave" or "trench"
          entered,  \* Glon: has fighter-enter run for this mission?
          phase, shield, boost, \* Glon: the fields of the player in the mission
          unlocked, \* audioUnlocked, with an audio context
          fActive, wasBoost, fPrevPhase, fGaugeShield,
          sounding, \* boostNodes
          lastCanvasScript,
          chimes    \* history: chimes of this mission

glon == <<mode, entered, phase, shield, boost>>
host == <<fActive, wasBoost, fPrevPhase, fGaugeShield, sounding, lastCanvasScript,
          chimes>>
vars == <<glon, unlocked, host>>

SHIELD == 3

Frames == [op : {"A"}, phase : 0 .. 5, shield : 0 .. SHIELD, boost : -1 .. 1]
None == [op |-> "B"]

TypeOK ==
    /\ mode \in {"forest", "cave", "trench"} /\ entered \in BOOLEAN
    /\ phase \in 0 .. 5 /\ shield \in 0 .. SHIELD /\ boost \in -1 .. 1
    /\ unlocked \in BOOLEAN
    /\ fActive \in BOOLEAN /\ wasBoost \in BOOLEAN /\ sounding \in BOOLEAN
    /\ fPrevPhase \in 0 .. 5 /\ fGaugeShield \in 0 .. SHIELD \cup {99}
    /\ lastCanvasScript \in Frames \cup {None}
    /\ chimes \in 0 .. 2

Init ==
    /\ mode = "forest" /\ entered = FALSE
    /\ phase = 0 /\ shield = 0 /\ boost = 1
    /\ unlocked = FALSE
    /\ fActive = FALSE /\ wasBoost = FALSE /\ fPrevPhase = 0
    /\ fGaugeShield = 99 /\ sounding = FALSE
    /\ lastCanvasScript = None /\ chimes = 0

-----------------------------------------------------------------------------
(* drawScript.                                                              *)

\* mutant: the engine is left running when the mission is left
LeaveSounding == sounding' = sounding /\ wasBoost' = wasBoost

\* setFighterUi(false), with its clean boost cut.
Leave == sounding' = FALSE /\ wasBoost' = FALSE

\* mutant: the chime of a debrief does not look at the frame before
EndedNow(f) == f.phase >= 4

\* A debrief begins: playSuccess or playFail.
Ended(f) == f.phase >= 4 /\ fPrevPhase < 4

\* The boost of a frame, which a debrief freezes to none.
Boosting(f) == f.phase < 4 /\ f.boost > 0
NotBoosting(f) == f.phase >= 4 \/ f.boost = 0

\* startBoost() and stopBoost() where the boost begins and ends.
Engine(f) ==
    /\ wasBoost' = ((wasBoost \/ Boosting(f)) /\ ~NotBoosting(f))
    /\ sounding' = CASE Boosting(f) /\ ~wasBoost -> sounding \/ unlocked
                     [] NotBoosting(f) /\ wasBoost -> FALSE
                     [] OTHER -> sounding

drawScript(f) ==
    IF f.op = "A"
    THEN /\ fActive' = TRUE
         /\ chimes' = IF Ended(f) /\ chimes < 2 THEN chimes + 1 ELSE chimes
         /\ fPrevPhase' = f.phase
         /\ fGaugeShield' = f.shield
         /\ Engine(f)
         /\ lastCanvasScript' = f
    ELSE /\ fActive' = FALSE
         /\ IF fActive THEN Leave ELSE UNCHANGED <<sounding, wasBoost>>
         /\ chimes' = 0
         /\ lastCanvasScript' = None
         /\ UNCHANGED <<fPrevPhase, fGaugeShield>>

-----------------------------------------------------------------------------
(* Glon.                                                                    *)

\* The frame Glon renders in a state: before fighter-enter has run the fields
\* are still those of the cave, the relic in F_C and the facing in F_D.
Frame(m, p, s, b) ==
    IF m # "trench" THEN None ELSE [op |-> "A", phase |-> p, shield |-> s, boost |-> b]

Becomes(m, e, p, s, b) ==
    /\ mode' = m /\ entered' = e /\ phase' = p /\ shield' = s /\ boost' = b
    /\ drawScript(Frame(m, p, s, b))

\* The way to Skull Cave and to the helmet, the first of its relics.
Walk ==
    /\ mode # "trench"
    /\ \/ Becomes("cave", FALSE, 0, 0, boost)
       \/ \E facing \in {-1, 1} : mode = "cave" /\ Becomes("trench", FALSE, 0, 1, facing)
    /\ UNCHANGED unlocked

\* fighter-enter, on the first tick of a mission.
Enter ==
    /\ mode = "trench" /\ ~entered
    /\ Becomes("trench", TRUE, 0, SHIELD, 0)
    /\ UNCHANGED unlocked

\* A tick of the run or of the escape: the ship may be hit, which without a
\* shield left fails the mission unless this tick also ends the phase.  The
\* boost runs out only in the run.
Fly(hit, next, b) ==
    /\ mode = "trench" /\ entered /\ phase \in {0, 1}
    /\ next \in (IF phase = 0 THEN {0, 1, 3} ELSE {1, 2})
    /\ phase = 1 => b >= boost
    /\ LET left == IF hit /\ shield > 0 THEN shield - 1 ELSE shield
           failed == hit /\ left = 0 /\ next = phase
       IN Becomes("trench", TRUE, IF failed THEN 3 ELSE next, left, b)
    /\ UNCHANGED unlocked

\* fighter-step in phases 2 and 3, and a tick of the debrief.
Freeze ==
    /\ mode = "trench" /\ entered /\ phase >= 2
    /\ Becomes("trench", TRUE, IF phase < 4 THEN phase + 2 ELSE phase, shield, boost)
    /\ UNCHANGED unlocked

\* fighter-exit: a win leads to the forest, a failure to the cave.
Exit ==
    /\ mode = "trench" /\ phase >= 4
    /\ Becomes(IF phase = 4 THEN "forest" ELSE "cave", FALSE, 0, 0, boost)
    /\ UNCHANGED unlocked

\* An event other than a tick renders the same state again.
Event ==
    /\ drawScript(Frame(mode, phase, shield, boost))
    /\ UNCHANGED <<glon, unlocked>>

\* kaka-restart: a new game begins in the forest; with ?start=helmet it is then
\* moved into the trench, which the next tick or event renders.
Restart(helmet) ==
    /\ mode' = IF helmet THEN "trench" ELSE "forest"
    /\ entered' = helmet
    /\ phase' = 0 /\ shield' = (IF helmet THEN SHIELD ELSE 0) /\ boost' = (IF helmet THEN 0 ELSE 1)
    /\ drawScript(None)
    /\ UNCHANGED unlocked

-----------------------------------------------------------------------------
\* An animation frame without a tick draws the last fighter frame again.
Redraw ==
    /\ fActive /\ lastCanvasScript # None
    /\ drawScript(lastCanvasScript)
    /\ UNCHANGED <<glon, unlocked>>

\* unlockAudio, on the first gesture in a browser with audio.
Gesture == unlocked' = TRUE /\ UNCHANGED <<glon, host>>

Next ==
    \/ Walk \/ Enter \/ Freeze \/ Exit \/ Event \/ Redraw \/ Gesture
    \/ \E hit \in BOOLEAN, next \in 0 .. 3, b \in {0, 1} : Fly(hit, next, b)
    \/ \E helmet \in BOOLEAN : Restart(helmet)

Spec == Init /\ [][Next]_vars

-----------------------------------------------------------------------------
(* Properties.                                                              *)

\* The engine of the boost never outlives the boost or the mission, whatever
\* ends it: it sounds only while the frame on screen is one of a boosting ship.
EngineStops ==
    sounding => fActive /\ lastCanvasScript # None /\ Boosting(lastCanvasScript)

\* Every mission that ends is announced once, although its debrief is drawn
\* again and again.
EachEndChimesOnce ==
    chimes = (IF fActive /\ lastCanvasScript.phase >= 4 THEN 1 ELSE 0)

\* What every step keeps: the last frame drawn shows the mission as it is, until
\* the mission is left; the boost of the host is that of the frame, and the
\* engine sounds for no other.
Inv == /\ TypeOK /\ EngineStops /\ EachEndChimesOnce
       /\ fActive => /\ mode = "trench" /\ fPrevPhase = phase
                     /\ lastCanvasScript = Frame(mode, phase, shield, boost)
       /\ ~fActive => /\ lastCanvasScript = None /\ ~wasBoost
                      /\ mode = "trench" => phase = 0
       /\ sounding => wasBoost
       /\ wasBoost => phase < 4 /\ boost > 0
       /\ ~entered => phase = 0
=============================================================================
