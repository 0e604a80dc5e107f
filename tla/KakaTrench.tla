----------------------------- MODULE KakaTrench -----------------------------
(***************************************************************************)
(* The trench: what docs/demos/kaka/kaka-host.js shows of the ship, the    *)
(* canyon and its gates, against the rules by which kaka-fighter.glon      *)
(* moves the ship and takes its shield.  Positions are Glon's; both take   *)
(* the canyon from the same integer table.  The projection to the screen   *)
(* and all styling are left out.                                           *)
(***************************************************************************)
EXTENDS Integers, Sequences
LOCAL INSTANCE SequencesExt

CONSTANTS Starts,   \* distances at which a flight is taken up, in mid-canyon
          Controls, \* the controls a flight may use: <<right, down, boost>>
          MaxTicks, \* bound on the ticks of a flight
          MaxTurns  \* bound on the changes of control

VARIABLES fprog, x, y, \* Glon: distance and position
          boost,       \* Glon: F_D, the ticks of boost left
          reason,      \* Glon: what the last tick hit, 0 for nothing
          fWallSide,   \* host: the wall that is lit, 0 for none
          keys, ticks, turns

vars == <<fprog, x, y, boost, reason, fWallSide, keys, ticks, turns>>

-----------------------------------------------------------------------------
(* The canyon.                                                              *)
CAN_L == 480
CAN_TOP == -150
CAN_BOT == 150
fCanW == 110
CAN_SIN == LET up == <<0, 195, 383, 556, 707, 831, 924, 981, 1000, 981, 924, 831, 707,
                       556, 383, 195>>
           IN up \o [i \in 1 .. 16 |-> -up[i]] \o <<0>>

Lesser(a, b) == IF a < b THEN a ELSE b
Greater(a, b) == IF a > b THEN a ELSE b
Abs(a) == IF a < 0 THEN -a ELSE a
Sign(a) == IF a < 0 THEN -1 ELSE IF a > 0 THEN 1 ELSE 0

\* Division towards zero.
truncDiv(a, b) == IF a >= 0 THEN a \div b ELSE -((-a) \div b)

canAmp(z) == 40 + truncDiv(110 * Lesser(z, CAN_L), CAN_L)

\* mutant: rounds down, as a shift would
canXFloor(s) ==
    LET z == Greater(0, s - 60)
        k == (z % CAN_L) \div 15
        f == (z % CAN_L) % 15
        sv == CAN_SIN[k + 1] + ((CAN_SIN[k + 2] - CAN_SIN[k + 1]) * f) \div 15
    IN  (canAmp(z) * sv) \div 1000

canX(s) ==
    LET z == Greater(0, s - 60)
        k == (z % CAN_L) \div 15
        f == (z % CAN_L) % 15
        sv == CAN_SIN[k + 1] + truncDiv((CAN_SIN[k + 2] - CAN_SIN[k + 1]) * f, 15)
    IN  truncDiv(canAmp(z) * sv, 1000)

-----------------------------------------------------------------------------
(* Glon: the gates.                                                         *)

\* The index of the gate ahead, and whether this is its collision tick.
Gate(p) == (p - 120) \div 200
Crossing(p) == p > 120 /\ (p - 120) % 200 = 198

\* fighter-gates: is a ship at dx from the centre and at height h outside the
\* opening of the gate?  Above the rim it is not.
GateHits(pattern, dx, h) ==
    /\ h >= CAN_TOP
    /\ CASE pattern = 0 -> h <= 0
         [] pattern = 1 -> h >= 0
         [] pattern = 2 -> dx <= 0
         [] pattern = 3 -> dx >= 0
         [] pattern = 4 -> Abs(h) >= 60

-----------------------------------------------------------------------------
(* Host: the canyon pass, painted from far to near.                         *)
FCAN_NEAR == 6
FCAN_END == 200

\* The sampled sections, near to far, in half ticks ahead of the ship.
Sections == 50
Section(j) == IF j = 1 THEN 1 ELSE 2 * (FCAN_NEAR + 4 * (j - 2))

\* The items every `apart` ticks of the mission, near to far, in half ticks.
Items(p, apart) ==
    LET first == apart - (p % apart)
    IN  SelectSeq([i \in 1 .. 1 + (FCAN_END - first) \div apart |-> 2 * (first + apart * (i - 1))],
                  LAMBDA d : d > 2 * FCAN_NEAR)

\* The gate ahead, if it is in view.
GateAt(p) == IF p > 120 THEN 2 * (198 - ((p - 120) % 200)) ELSE -2

\* mutant: also paints what ends at the near edge of a panel
WithinClosed(d, j) == Section(j - 1) <= d /\ d <= Section(j)

\* What lies at d is painted with the panel j that it lies in.
Within(d, j) == Section(j - 1) < d /\ d <= Section(j)

\* Each panel takes from the far end of the list what is beyond its near edge,
\* and paints of that what is in it.
Pass(pass, j) ==
    LET taken == SelectSeq(pass.left, LAMBDA d : d > Section(j - 1))
    IN  [left |-> SelectSeq(pass.left, LAMBDA d : d <= Section(j - 1)),
         painted |-> pass.painted \o Reverse(SelectSeq(taken, LAMBDA d : Within(d, j)))]

\* The items of a list in the order they are painted.
Painted(list) ==
    LET steps[j \in 1 .. Sections] ==
          IF j = Sections THEN [left |-> list, painted |-> << >>]
          ELSE Pass(steps[j + 1], j + 1)
    IN  steps[1].painted

GatePanels(p) == {j \in 2 .. Sections : Within(GateAt(p), j)}

\* mutant: the panels of the patterns 2 and 3 are mirrored
PanelBlocksMirrored(pattern, dx, h) ==
    /\ Abs(dx) <= fCanW /\ CAN_TOP <= h /\ h <= CAN_BOT
    /\ CASE pattern = 0 -> h <= 0
         [] pattern = 1 -> 0 <= h
         [] pattern = 2 -> 0 <= dx
         [] pattern = 3 -> dx <= 0
         [] pattern = 4 -> h <= -60 \/ 60 <= h

\* gatePanel: is a point of the cross-section in the region painted blocked?
PanelBlocks(pattern, dx, h) ==
    /\ Abs(dx) <= fCanW /\ CAN_TOP <= h /\ h <= CAN_BOT
    /\ CASE pattern = 0 -> h <= 0
         [] pattern = 1 -> 0 <= h
         [] pattern = 2 -> dx <= 0
         [] pattern = 3 -> 0 <= dx
         [] pattern = 4 -> h <= -60 \/ 60 <= h

\* gateMarker: does the cue of the crossing point warn?
MarkerWarns(pattern, dx, h) ==
    /\ h > CAN_TOP
    /\ CASE pattern = 0 -> h <= 0
         [] pattern = 1 -> h >= 0
         [] pattern = 2 -> dx <= 0
         [] pattern = 3 -> dx >= 0
         [] pattern = 4 -> Abs(h) >= 60

-----------------------------------------------------------------------------
(* Glon: a tick of fighter-run.                                             *)

\* The position after the controls, with the assist that pulls a ship that
\* dives above the rim a quarter of the way to the centre.
Steered(cen) ==
    LET b == IF keys[3] THEN 24 ELSE boost
        sp == 7 + 4 * Lesser(1, b)
        nx == Greater(-700, Lesser(700, x + keys[1] * sp))
        ny == Greater(-420, Lesser(120, y + keys[2] * sp))
        pull == keys[2] = 1 /\ ny < CAN_TOP /\ Abs(nx - cen) < 340
    IN  [x |-> IF pull THEN nx - truncDiv(nx - cen, 4) ELSE nx, y |-> ny,
         boost |-> Greater(0, b - 1)]

\* Walls and surface are solid outside the trench and below the rim; the
\* smaller penetration decides where the ship is put back, and the reason.
Bounced(s, cen) ==
    LET pl == Abs(s.x - cen) - fCanW
        pv == s.y - CAN_TOP
    IN  CASE pl <= 0 \/ pv <= 0 -> [x |-> s.x, y |-> s.y, reason |-> 0]
          [] pl > 0 /\ pv > 0 /\ pv < pl -> [x |-> s.x, y |-> -160, reason |-> 7]
          [] OTHER -> [x |-> cen + 100 * Sign(s.x - cen), y |-> s.y,
                       reason |-> IF s.x > cen THEN 2 ELSE 1]

-----------------------------------------------------------------------------
(* Host: the wall that lights up.                                           *)

\* mutant: the other wall lights up
ScrapedOther(r, s, cen) ==
    IF r > 0 /\ Abs(s - cen) = fCanW - 10 THEN (IF s > cen THEN -1 ELSE 1) ELSE fWallSide

\* A loss of shield at the place where Glon puts a ship that scraped a wall.
Scraped(r, s, cen) ==
    IF r > 0 /\ Abs(s - cen) = fCanW - 10 THEN (IF s > cen THEN 1 ELSE -1) ELSE fWallSide

-----------------------------------------------------------------------------
TypeOK ==
    /\ fprog \in 1 .. 1300 /\ x \in -700 .. 700 /\ y \in -420 .. 120
    /\ boost \in 0 .. 23 /\ reason \in {0, 1, 2, 3, 7} /\ fWallSide \in {-1, 0, 1}
    /\ keys \in Controls /\ ticks \in 0 .. MaxTicks /\ turns \in 0 .. MaxTurns

Init ==
    /\ fprog \in Starts /\ x = canX(fprog) /\ y = 0 /\ boost = 0
    /\ reason = 0 /\ fWallSide = 0
    /\ keys \in Controls /\ ticks = 0 /\ turns = 0

\* A tick and the frame the host draws of it.  The ship is not invulnerable, so
\* every hit costs shield.
Tick ==
    /\ ticks < MaxTicks /\ ticks' = ticks + 1
    /\ fprog' = fprog + 1
    /\ LET cen == canX(fprog + 1)
           s == Steered(cen)
           b == Bounced(s, cen)
           gate == Crossing(fprog + 1) /\ GateHits(Gate(fprog + 1) % 5, b.x - cen, b.y)
       IN  /\ x' = b.x /\ y' = b.y /\ boost' = s.boost
           /\ reason' = IF b.reason > 0 THEN b.reason ELSE IF gate THEN 3 ELSE 0
           /\ fWallSide' = Scraped(reason', b.x, cen)
    /\ UNCHANGED <<keys, turns>>

Turn(k) ==
    /\ turns < MaxTurns /\ turns' = turns + 1
    /\ k # keys /\ keys' = k
    /\ UNCHANGED <<fprog, x, y, boost, reason, fWallSide, ticks>>

Next == Tick \/ \E k \in Controls : Turn(k)

Spec == Init /\ [][Next]_vars

-----------------------------------------------------------------------------
(* Properties.                                                              *)

\* Near walls hide what is behind them: of the decorations and ribs of the
\* canyon each one within the painted depth is painted once, from far to near,
\* and so is a gate until the tick at which it is crossed.
PaintedOnceFarToNear ==
    /\ \A apart \in {10, 25} :
         LET list == Items(fprog, apart)
         IN  Painted(list) = Reverse(SelectSeq(list, LAMBDA d : d <= 2 * (FCAN_END - 2)))
    /\ GateAt(fprog) > 0 => \E j \in 2 .. Sections : GatePanels(fprog) = {j}

\* The gate barrier is "exactly the region fighter-gates treats as blocked", and
\* away from the rim the cue of the crossing point warns of exactly that.
GatesAreWhatTheySeem ==
    LET p == Gate(fprog) % 5
        dx == x - canX(fprog)
    IN  fprog > 120 /\ Abs(dx) <= fCanW =>
          /\ PanelBlocks(p, dx, y) = GateHits(p, dx, y)
          /\ y # CAN_TOP => MarkerWarns(p, dx, y) = GateHits(p, dx, y)

\* The host knows of a hit only by the loss of shield, and of the wall only by
\* where Glon puts the ship: a tick that scrapes a wall lights that wall.
ShowsScrape ==
    ticks' > ticks /\ reason' \in {1, 2} =>
        fWallSide' = (IF reason' = 1 THEN -1 ELSE 1)
ScrapeIsShown == [][ShowsScrape]_vars

\* The canyon can be flown: its centre moves by at most three in a tick, within
\* its amplitude, and is the same to the left as to the right.
CanyonIsSmooth ==
    /\ Abs(canX(fprog + 1) - canX(fprog)) <= 3
    /\ Abs(canX(fprog)) <= 150
    /\ fprog >= 540 => canX(fprog + 240) = -canX(fprog)
=============================================================================
