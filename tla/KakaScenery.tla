---------------------------- MODULE KakaScenery -----------------------------
(***************************************************************************)
(* The scenery of the forest and of the cave (docs/demos/kaka/             *)
(* kaka-host.js): four layers that scroll at different rates and repeat    *)
(* for ever, the vegetation stamped over the actors, the signs, and the    *)
(* backdrop of the cave.  Glon gives the position of the camera; where     *)
(* everything is painted follows from it.  Positions along a layer are in  *)
(* hundredths of a pixel, since the rates have two decimals.  A picture    *)
(* that fails to load is left out.                                         *)
(***************************************************************************)
EXTENDS Integers, Sequences
LOCAL INSTANCE SequencesExt
LOCAL INSTANCE Functions

CONSTANTS Cams,    \* positions at which a walk is taken up
          Views,   \* widths of the view
          Strides, \* the moves of the camera between two frames
          Far      \* bound on the position of the camera

VARIABLES images, \* the pictures that have been loaded
          scene,  \* "none" before the first frame, "forest" or "cave"
          cam, W,
          signsDue,
          painted \* what the last frame painted, in order

vars == <<images, scene, cam, W, signsDue, painted>>

-----------------------------------------------------------------------------
(* The layers.                                                              *)

Pictures == {"sky", "bush", "orchard", "foliage", "actors", "cave"}
LAYERS == <<[src |-> "sky",     factor |-> 12,  h |-> 480],
            [src |-> "bush",    factor |-> 35,  h |-> 430],
            [src |-> "orchard", factor |-> 70,  h |-> 440],
            [src |-> "foliage", factor |-> 120, h |-> 560]>>
OVERLAP == 120

\* The pictures of the layers are 2172 by 724.
layerW(L) == (2 * 2172 * L.h + 724) \div (2 * 724)

\* mutant: the copies follow one another without the overlap that hides the ramp
StepOfWholeCopies(L) == layerW(L)

Step(L) == layerW(L) - OVERLAP

\* The copies of a layer: the first is opaque, and of every later one the
\* first OVERLAP pixels fade in over its predecessor.
paintLayer(L, c) ==
    LET base == c * L.factor
        n == base \div (100 * Step(L))
        px(k) == 100 * k * Step(L) - base
        last == CHOOSE k \in n .. n + 5 : px(k) < 100 * W /\ px(k + 1) >= 100 * W
    IN  {[n |-> k, left |-> px(k), solid |-> px(k) + (IF k = n THEN 0 ELSE 100 * OVERLAP),
          right |-> px(k) + 100 * layerW(L)] : k \in n .. last}

-----------------------------------------------------------------------------
(* The vegetation.                                                          *)
OCC_STEP == 540
OCC_PATTERN == <<0, -1, 1, -1, 2, -1, 1, -1, 0, 2>>
OCC_WIDTHS == <<126, 130, 109>>

Kind(k) == OCC_PATTERN[1 + (k % Len(OCC_PATTERN))]

\* mutant: the range is that of the view, without the margin
OccluderRangeTight(c) == (c \div OCC_STEP) .. (-((-(c + W)) \div OCC_STEP)) - 1

OccluderRange(c) == ((c - 200) \div OCC_STEP) .. (-((-(c + W + 200)) \div OCC_STEP))

\* The clumps that are stamped: number k stands at k * OCC_STEP.
drawOccluders(c) == {k \in OccluderRange(c) : Kind(k) >= 0 /\ k >= 1}

\* The part of the world that a clump covers.
Clump(k) == LET half == (OCC_WIDTHS[Kind(k) + 1] + 1) \div 2
            IN  (k * OCC_STEP - half) .. (k * OCC_STEP + half)

-----------------------------------------------------------------------------
(* The signs.                                                               *)
SIGN_X == <<500, 1250, 2000, 2750, 3500, 4000>>

drawSigns(c) == {i \in DOMAIN SIGN_X : SIGN_X[i] > c - 120 /\ SIGN_X[i] < c + W + 120}

-----------------------------------------------------------------------------
(* A frame: the commands Glon emits, drawn one after another.               *)

\* Actors in the order of their slots: "S" stands for a sprite, "O" for what is
\* drawn with lines, triangles, ellipses and circles - a stoat or a possum, a
\* rock, the cue of a gnawed tree, the beam.
Actors == {<< >>, <<"O">>, <<"S", "O">>, <<"O", "S">>}

\* The background, night from 700 before the cave, the trees ("R", shapes too),
\* the actors, the foreground, the ranger.
ForestScript(night, actors) ==
    <<"B">> \o (IF night THEN <<"Q">> ELSE << >>) \o <<"R">> \o actors \o <<"F", "P">>

\* The props of the cave by their kind: the skull and the pedestals (0), the
\* helmet (4), what else lies there (5), the ropes and the effects (above 7).
CaveScript == <<"V", "J0", "J4", "J5", "J14", "P">>

\* A picture that is missing paints nothing.
Picture(src) == IF src \in images THEN <<src>> ELSE << >>

\* The picture of the cave shows the props up to kind 7, which are drawn only
\* without it - but for the helmet, which has a beacon instead in either case.
drawCaveProp(op) ==
    CASE op = "J4" -> <<"beacon">>
      [] op = "J14" -> <<"overlay">>
      [] OTHER -> IF "cave" \in images THEN << >> ELSE <<"props">>

\* What a command paints once the signs are done.
Paints(op) ==
    CASE op = "B" -> Picture("sky") \o Picture("bush") \o Picture("orchard") \o <<"trail">>
      [] op = "Q" -> <<"night">>
      [] op = "R" -> <<"trees">>
      [] op = "S" -> Picture("actors")
      [] op = "O" -> <<"shapes">>
      [] op = "F" -> Picture("foliage")
      [] op = "P" -> <<"ranger">>
      [] op = "V" -> IF "cave" \in images THEN <<"cave">> ELSE <<"backdrop">>
      [] OTHER -> drawCaveProp(op)

\* mutant: the signs stay due
SignsStayDue(drawn, op) ==
    CASE op = "B" -> [due |-> TRUE, painted |-> drawn.painted \o Paints(op)]
      [] op \in {"S", "F", "P"} /\ drawn.due ->
            [due |-> TRUE, painted |-> drawn.painted \o <<"signs">> \o Paints(op)]
      [] OTHER -> [drawn EXCEPT !.painted = @ \o Paints(op)]

\* B makes the signs due, and the first sprite, the foreground or the ranger
\* paints them; the shapes do not look.
Draw(drawn, op) ==
    CASE op = "B" -> [due |-> TRUE, painted |-> drawn.painted \o Paints(op)]
      [] op \in {"S", "F", "P"} /\ drawn.due ->
            [due |-> FALSE, painted |-> drawn.painted \o <<"signs">> \o Paints(op)]
      [] OTHER -> [drawn EXCEPT !.painted = @ \o Paints(op)]

\* drawScript, which ends with the clumps in a frame of the forest.
drawScript(script) ==
    LET drawn == FoldLeft(Draw, [due |-> signsDue, painted |-> << >>], script)
    IN  /\ signsDue' = drawn.due
        /\ painted' = drawn.painted
                      \o (IF "B" \in Range(script) /\ "foliage" \in images THEN <<"clumps">>
                          ELSE << >>)

-----------------------------------------------------------------------------
Painted == Pictures \cup {"trail", "night", "trees", "signs", "shapes", "ranger", "clumps",
                          "backdrop", "props", "beacon", "overlay"}

TypeOK ==
    /\ images \subseteq Pictures /\ scene \in {"none", "forest", "cave"}
    /\ cam \in 0 .. Far /\ W \in Views /\ signsDue \in BOOLEAN
    /\ painted \in Seq(Painted)

\* loadParallax, loadSprites, loadCaveImage: every picture is there or has
\* failed when the first frame is drawn.
Init ==
    /\ images \in {Pictures, Pictures \ {"foliage"}, Pictures \ {"sky", "actors"},
                   Pictures \ {"cave"}, {}}
    /\ scene = "none" /\ cam \in Cams /\ W \in Views
    /\ signsDue = FALSE /\ painted = << >>

\* The ranger walks the forest; the camera, 35 hundredths of the view behind him,
\* does not follow him back past 0.  Night stays when he turns back.
NIGHT_X == 3300
Forest(d, night, actors) ==
    /\ scene # "cave" /\ cam + d \in 0 .. Far
    /\ cam + d + (35 * W) \div 100 >= NIGHT_X => night
    /\ scene' = "forest" /\ cam' = cam + d
    /\ drawScript(ForestScript(night, actors))
    /\ UNCHANGED <<images, W>>

\* The cave, which begins at its left wall; the camera stops at the other one.
Cave(d) ==
    /\ scene # "none"
    /\ scene' = "cave"
    /\ cam' = IF scene = "cave" /\ cam + d \in 0 .. (1800 - W) THEN cam + d
              ELSE IF scene = "cave" THEN cam ELSE 0
    /\ drawScript(CaveScript)
    /\ UNCHANGED <<images, W>>

\* fitView: a width given by the display; Glon renders again.
Resize(w) ==
    /\ w # W /\ W' = w /\ scene # "cave"
    /\ UNCHANGED <<images, scene, cam, signsDue, painted>>

Next ==
    \/ \E d \in Strides : Cave(d) \/ \E n \in BOOLEAN, actors \in Actors : Forest(d, n, actors)
    \/ \E w \in Views : Resize(w)

Spec == Init /\ [][Next]_vars

-----------------------------------------------------------------------------
(* Properties.                                                              *)

\* "No uncovered strip": wherever the camera is, the opaque parts of the copies
\* of a layer cover the whole view, and the layer needs no copy twice.
LayersCoverView ==
    \A i \in DOMAIN LAYERS :
      LET copies == paintLayer(LAYERS[i], cam)
      IN  /\ \E c \in copies : c.solid <= 0
          /\ \E c \in copies : c.right >= 100 * W
          /\ \A c \in copies :
               c.right >= 100 * W \/ \E d \in copies : d.solid <= c.right /\ d.right > c.right

\* The clumps grow in the world: every one that overlaps the view is stamped,
\* so that none appears or vanishes in the middle of it.
ClumpsAreWhole ==
    \A k \in 1 .. (Far + 1700) \div OCC_STEP :
      (Kind(k) >= 0 /\ Clump(k) \cap (cam .. cam + W) # {}) => k \in drawOccluders(cam)

\* A frame of the forest paints the signs once: in front of the layers, the night
\* and the trees, behind every sprite, the foreground and the ranger.  A frame of
\* the cave paints none, also when the forest left them due.
At(what) == {i \in DOMAIN painted : painted[i] \in what}
SignsBehindSprites ==
    /\ scene = "forest" => \E i \in At({"signs"}) :
          /\ At({"signs"}) = {i}
          /\ \A j \in At({"actors", "foliage", "ranger", "clumps"}) : i < j
          /\ \A j \in At({"sky", "bush", "orchard", "trail", "night", "trees"}) : j < i
    /\ scene = "cave" => At({"signs"}) = {}

\* "Signs go after the trees, before actors": FALSE of the code, and no run
\* checks it.  A sign is painted over an actor of shapes that comes before every
\* sprite of the frame.
SignsBehindActors ==
    scene = "forest" => \A i \in At({"signs"}), j \in At({"shapes"}) : i < j

\* The cave is furnished whether its picture came or not: the props are in the
\* picture or drawn over the backdrop, never both, and the beacon and what the
\* game shows of its course come over either, behind the ranger.
CaveIsFurnished ==
    scene = "cave" =>
        /\ At({"cave"}) = {} <=> At({"backdrop"}) # {} /\ At({"props"}) # {}
        /\ At({"cave"}) # {} => At({"backdrop", "props"}) = {}
        /\ \E b \in At({"beacon"}), o \in At({"overlay"}), r \in At({"ranger"}) :
              b < o /\ o < r /\ \A j \in At({"cave", "backdrop"}) : j < b
=============================================================================
