----------------------------- MODULE PatrolHost -----------------------------
(***************************************************************************)
(* The keyboard of Glon Patrol (docs/demos/patrol/patrol-host.js): key     *)
(* events reach Glon as the name of a control, and a loss of focus clears  *)
(* every control, since the browser then reports no release.               *)
(***************************************************************************)
EXTENDS Integers

VARIABLES pressed, \* the keys the player holds down
          window,  \* "focused", "blurred" or "hidden"
          held     \* the controls Glon has set

vars == <<pressed, window, held>>

KEY == [ArrowLeft |-> "left", KeyA |-> "left", ArrowRight |-> "right",
        KeyD |-> "right", Space |-> "fire"]
Codes == DOMAIN KEY
Wanted == {KEY[c] : c \in pressed}

TypeOK ==
    /\ pressed \subseteq Codes /\ window \in {"focused", "blurred", "hidden"}
    /\ held \subseteq {KEY[c] : c \in Codes}

Init == pressed = {} /\ window = "focused" /\ held = {}

\* keydown, also the repeated ones of a key held down; a page without focus
\* is told of neither.
Down(c) ==
    /\ pressed' = pressed \cup {c}
    /\ held' = IF window = "focused" THEN held \cup {KEY[c]} ELSE held
    /\ UNCHANGED window

Up(c) ==
    /\ c \in pressed
    /\ pressed' = pressed \ {c}
    /\ held' = IF window = "focused" THEN held \ {KEY[c]} ELSE held
    /\ UNCHANGED window

\* mutant: the controls are not cleared
resetInputNot == UNCHANGED held

resetInput == held' = {}

\* window.blur, and visibilitychange when the tab is hidden.
Blur == /\ window = "focused" /\ window' = "blurred"
        /\ resetInput /\ UNCHANGED pressed
Hide == /\ window # "hidden" /\ window' = "hidden"
        /\ resetInput /\ UNCHANGED pressed
Focus == window # "focused" /\ window' = "focused" /\ UNCHANGED <<pressed, held>>

Next == (\E c \in Codes : Down(c) \/ Up(c)) \/ Blur \/ Hide \/ Focus

Spec == Init /\ [][Next]_vars

-----------------------------------------------------------------------------
(* Properties.                                                              *)

\* "Input cannot stick": whatever control Glon holds, the player is pressing
\* a key for it, although releases are lost while the page has no focus.
KeysNeverStick == held \subseteq Wanted

(* What every step keeps: a page without focus has sent Glon the reset, and *)
(* nothing since.                                                           *)
Inv == /\ TypeOK /\ KeysNeverStick
       /\ window # "focused" => held = {}
=============================================================================
