----------------------------- MODULE KakaMission ----------------------------
(***************************************************************************)
(* The course of a trench mission by the rules of kaka-fighter.glon, and   *)
(* what docs/demos/kaka/kaka-host.js writes over the picture about it: the *)
(* target, the way back to the trench, and the debrief with its cause and  *)
(* its invitation to go on.  Every tick renders a frame, so what is shown  *)
(* is a function of Glon's state.  Where the ship is and whether something *)
(* hits it are any tick's choice (KakaTrench has the geometry).            *)
(***************************************************************************)
EXTENDS Integers

CONSTANTS LAST,   \* the tick that ends a mission (1300)
          TARGET, \* the tick from which the station is there (850)
          STRAY,  \* ticks far from the trench that abandon the mission (75)
          HOLD,   \* ticks before a debrief takes input (25)
          ESCAPE, \* ticks of the escape (90)
          COOL,   \* ticks between two shots (6)
          GUARD   \* ticks without a second hit (20)

VARIABLES fprog, phase, shield, fwhy, fbomb, shots, kills,
          guard,  \* F_A
          clock,  \* F_TARGET: cooldown of the laser, of the escape, of the debrief
          fdbr,   \* in flight the stray clock, in the debrief: FIRE was released
          place,  \* where the last tick left the ship
          hitBy,  \* history: the last hit
          ended,  \* history: how the run ended, "none" while it lasts
          rested  \* history: has the debrief been seen open, with no trigger held?

vars == <<fprog, phase, shield, fwhy, fbomb, shots, kills, guard, clock, fdbr, place,
          hitBy, ended, rested>>
tally == <<fbomb, shots, kills>>

SHIELD == 3
Places == {"aligned", "trench", "away", "far"}
Hits == {0, 1, 2, 7}   \* of the walls and of the surface, or none
ABANDONED == 6

TypeOK ==
    /\ fprog \in 0 .. LAST /\ phase \in 0 .. 5 /\ shield \in 0 .. SHIELD
    /\ fwhy \in 0 .. 7 /\ fbomb \in 0 .. 1 /\ shots \in 0 .. LAST /\ kills \in 0 .. LAST
    /\ guard \in 0 .. GUARD /\ clock \in 0 .. ESCAPE + HOLD + COOL
    /\ fdbr \in 0 .. STRAY + 1 /\ place \in Places /\ hitBy \in 0 .. 7
    /\ ended \in {"none", "late", "abandoned", "shield", "delivered"} /\ rested \in BOOLEAN

-----------------------------------------------------------------------------
(* Host.                                                                    *)

\* drawTarget: what is written over the target, once it is there.
TargetCue == IF fprog < TARGET \/ phase # 0 THEN "none"
             ELSE CASE place = "aligned" -> "DROP BERRIES"
                    [] place = "trench" -> "ALIGN + DROP BERRIES"
                    [] OTHER -> "DESCEND TO DROP"

\* mutant: counts from one
CountdownFromOne == IF phase < 2 /\ fdbr > 0 THEN STRAY - fdbr + 1 ELSE -1

\* drawTrenchGuide: the count of RETURN TO TRENCH, in ticks, or -1.
Countdown == IF phase < 2 /\ fdbr > 0 THEN STRAY - fdbr ELSE -1

\* Glon's codes of what damaged the ship, as the host names them.
FWHY == <<"LEFT WALL", "RIGHT WALL", "GATE", "RAMMED", "FIGHTER FIRE", "ABANDONED", "SURFACE">>

\* mutant: shields left are looked at before the reason
CauseByShields == IF shield > 0 THEN "TARGET NOT DESTROYED"
                  ELSE FWHY[fwhy]

\* drawDebrief: the cause of a failure.
Cause == IF fwhy = ABANDONED THEN FWHY[ABANDONED]
         ELSE IF shield > 0 THEN "TARGET NOT DESTROYED" ELSE FWHY[fwhy]

\* FIRE TO CONTINUE is lit.
Invited == phase >= 4 /\ clock = 0

\* HITS / ACCURACY, in hundredths.
Accuracy == IF shots > 0 THEN (200 * kills + shots) \div (2 * shots) ELSE 0

-----------------------------------------------------------------------------
(* Glon.                                                                    *)

\* What hits change: the state s after a hit by r, unless the ship is guarded.
fighterHit(s, r) ==
    IF r = 0 \/ s.guard > 0 THEN s
    ELSE LET left == IF s.shield > 0 THEN s.shield - 1 ELSE 0
         IN  [s EXCEPT !.why = r, !.shield = left,
                       !.guard = IF s.shield > 0 THEN GUARD ELSE 0,
                       !.phase = IF left < 1 THEN 3 ELSE s.phase]

\* fighter-enter.
Init ==
    /\ fprog = 1 /\ phase = 0 /\ shield = SHIELD /\ fwhy = 0
    /\ fbomb = 1 /\ shots = 0 /\ kills = 0
    /\ guard = GUARD /\ clock = 0 /\ fdbr = 0 /\ place = "aligned"
    /\ hitBy = 0 /\ ended = "none" /\ rested = FALSE

\* fighter-run: the walls, the stray clock, the foes, the laser, the gate and
\* the bomb, in this order, and the clocks.
Run(p, wall, foe, gate, rock, downs, drop) ==
    /\ phase = 0 /\ fprog < LAST /\ fprog' = fprog + 1
    /\ wall > 0 => p # "aligned"
    /\ gate => p \in {"aligned", "trench"}
    /\ place' = p
    /\ LET stray == IF p = "far" THEN fdbr + 1 ELSE 0
           s0 == [phase |-> 0, shield |-> shield, why |-> fwhy, guard |-> guard]
           s1 == fighterHit(s0, wall)
           s2 == IF stray > STRAY THEN [s1 EXCEPT !.why = ABANDONED, !.phase = 3] ELSE s1
           s3 == fighterHit(s2, foe)
           s4 == fighterHit(s3, IF gate THEN 3 ELSE 0)
           shoots == rock /\ clock < 1
           drops == drop /\ fbomb = 1
           hits == drops /\ p = "aligned" /\ fprog' >= TARGET
           clock1 == IF hits THEN ESCAPE ELSE IF shoots THEN COOL ELSE clock
       IN  /\ fdbr' = stray
           /\ shots' = shots + (IF shoots THEN 1 ELSE 0)
           /\ kills' = kills + (IF shoots /\ downs THEN 1 ELSE 0)
           /\ fbomb' = IF drops THEN 0 ELSE fbomb
           /\ shield' = s4.shield /\ fwhy' = s4.why
           /\ phase' = IF fprog' >= LAST THEN 3 ELSE IF hits THEN 1 ELSE s4.phase
           /\ guard' = IF s4.guard > 0 THEN s4.guard - 1 ELSE 0
           /\ clock' = IF clock1 > 0 THEN clock1 - 1 ELSE 0
           /\ hitBy' = IF s4.shield < shield THEN IF s4.why = ABANDONED THEN wall ELSE s4.why
                       ELSE hitBy
           /\ ended' = CASE hits -> "delivered"
                         [] ~hits /\ stray > STRAY -> "abandoned"
                         [] ~hits /\ stray <= STRAY /\ s4.phase = 3 -> "shield"
                         [] OTHER -> IF fprog' >= LAST THEN "late" ELSE "none"
    /\ UNCHANGED rested

\* The escape: foes only, and the guard is not counted down.
Escape(p, foe) ==
    /\ phase = 1 /\ place' = p
    /\ LET s == fighterHit([phase |-> 1, shield |-> shield, why |-> fwhy, guard |-> guard], foe)
       IN  /\ shield' = s.shield /\ fwhy' = s.why /\ guard' = s.guard
           /\ clock' = clock - 1
           /\ phase' = IF clock - 1 < 1 THEN 2 ELSE s.phase
           /\ hitBy' = IF s.shield < shield THEN foe ELSE hitBy
    /\ UNCHANGED <<fprog, fdbr, tally, ended, rested>>

\* mutant: the clock in fdbr is taken over from the flight
FreezeKeeps ==
    /\ phase \in {2, 3}
    /\ phase' = phase + 2 /\ clock' = HOLD /\ rested' = FALSE
    /\ UNCHANGED <<fdbr, fprog, shield, fwhy, tally, guard, place, hitBy, ended>>

\* fighter-step after the end: the debrief begins.
Freeze ==
    /\ phase \in {2, 3}
    /\ phase' = phase + 2 /\ clock' = HOLD /\ fdbr' = 0 /\ rested' = FALSE
    /\ UNCHANGED <<fprog, shield, fwhy, tally, guard, place, hitBy, ended>>

\* fighter-debrief, with a trigger held or not; the next mission starts afresh.
Debrief(trigger) ==
    /\ phase \in {4, 5} /\ ~(trigger /\ fdbr > 0)
    /\ fdbr' = IF ~trigger /\ clock = 0 THEN 1 ELSE fdbr
    /\ clock' = IF clock > 0 THEN clock - 1 ELSE 0
    /\ rested' = (rested \/ (~trigger /\ Invited))
    /\ UNCHANGED <<fprog, phase, shield, fwhy, tally, guard, place, hitBy, ended>>

\* fighter-exit, and fighter-enter when the player comes back.
Exit ==
    /\ phase \in {4, 5} /\ fdbr > 0
    /\ fprog' = 1 /\ phase' = 0 /\ shield' = SHIELD /\ fwhy' = 0
    /\ fbomb' = 1 /\ shots' = 0 /\ kills' = 0
    /\ guard' = GUARD /\ clock' = 0 /\ fdbr' = 0 /\ place' = "aligned"
    /\ hitBy' = 0 /\ ended' = "none" /\ rested' = FALSE

Next ==
    \/ \E p \in Places, wall \in Hits, foe \in {0, 4, 5}, gate, rock, downs, drop \in BOOLEAN :
          Run(p, wall, foe, gate, rock, downs, drop)
    \/ \E p \in Places, foe \in {0, 4, 5} : Escape(p, foe)
    \/ Freeze \/ Exit
    \/ \E trigger \in BOOLEAN : Debrief(trigger)

Spec == Init /\ [][Next]_vars

-----------------------------------------------------------------------------
(* Properties.                                                              *)

\* A debrief tells what ended the mission.  A collision is named only when it
\* took the last shield, an abandoned run is called so unless the ship was hit
\* in the same tick, and a target that was hit is called missed only when this
\* was in the last tick, which ends the mission whatever it brought.
DebriefTellsTheEnd ==
    /\ phase = 4 => ended = "delivered"
    /\ phase = 5 =>
         /\ Cause = "ABANDONED" => ended = "abandoned"
         /\ ended = "abandoned" /\ Cause # "ABANDONED" => hitBy > 0 /\ Cause \in {"TARGET NOT DESTROYED", FWHY[hitBy]}
         /\ Cause \notin {"ABANDONED", "TARGET NOT DESTROYED"} => shield = 0 /\ hitBy > 0 /\ Cause = FWHY[hitBy]
         /\ Cause = "TARGET NOT DESTROYED" => shield > 0 /\ (ended = "delivered" => fprog = LAST)
    /\ Accuracy <= 100

\* "A held trigger cannot skip it": a debrief is left only after a tick that
\* found it open and no trigger held, and the stray clock, which shares a
\* global with that mark, never stands for it.
LeavesRested == phase >= 4 /\ phase' < 4 => rested
HeldTriggerCannotSkip == [][LeavesRested]_vars

\* The cues lead: the tick that abandons a mission follows a frame in which
\* RETURN TO TRENCH had come to zero, no countdown is left over in the escape,
\* and the target is hit only after a frame that showed it, or in its first tick.
CueLeads ==
    /\ phase = 0 /\ ended' = "abandoned" => Countdown = 0
    /\ phase' = 1 => Countdown' = -1
    /\ phase = 0 /\ phase' = 1 => TargetCue # "none" \/ fprog' = TARGET
CuesComeFirst == [][CueLeads]_vars

(* What every step keeps: the reason Glon gives is that of the last hit, or   *)
(* that the run was abandoned; while a mission lasts, shields are left, and   *)
(* in the escape either they are or the ship is guarded.                      *)
Inv == /\ TypeOK /\ DebriefTellsTheEnd
       /\ phase = 0 => shield > 0 /\ fdbr <= STRAY
       /\ phase = 1 => clock > 0 /\ fdbr = 0 /\ (shield = 0 => guard > 0)
       /\ phase \in {1, 2, 4} => ended = "delivered"
       /\ phase >= 4 /\ fdbr > 0 => rested
       /\ fwhy # ABANDONED => fwhy = hitBy
       /\ fwhy = ABANDONED => phase \in {3, 5} /\ ended = "abandoned"
       /\ shield < SHIELD => hitBy > 0
       /\ ended = "abandoned" => phase \in {3, 5} /\ (fwhy = ABANDONED \/ hitBy > 0)
       /\ phase \in {3, 5} /\ ended = "delivered" => fprog = LAST \/ shield = 0
       /\ shots < fprog /\ kills <= shots
=============================================================================
