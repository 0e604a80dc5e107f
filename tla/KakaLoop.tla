------------------------------ MODULE KakaLoop ------------------------------
(***************************************************************************)
(* The game's driver in docs/demos/kaka/kaka-host.js: physical input is    *)
(* collected by the handlers, brought to Glon once a frame, and consumed   *)
(* by ticks of fixed length, none or several of which run in one frame.    *)
(*                                                                         *)
(* Time is in units of 20 ms, so SIM_DT is 2 and the longest step that     *)
(* counts is 25.  A source of input is a key or a touch button; two keys   *)
(* may name one control.                                                   *)
(***************************************************************************)
EXTENDS Integers, FiniteSets

CONSTANTS Steps  \* the time between two frames

VARIABLES pressed,                \* the sources the player holds
          page,                   \* "focused", "blurred" or "hidden"
          held, tapped, applied,  \* as in the source
          keys,                   \* the controls set in Glon
          clock,                  \* is lastTime set?
          acc, pinned,
          steps,                  \* ticks of the last frame
          used,                   \* history: ticks a press was seen in, 0 .. 2
          quick,                  \* history: presses released before any tick
          late                    \* history: controls let go since the last frame

input == <<held, tapped, applied, keys>>
history == <<used, quick, late>>
vars == <<pressed, page, input, clock, acc, pinned, steps, history>>

SIM_DT == 2
MAX_CATCHUP == 5
KEY == [ArrowLeft |-> "left", KeyA |-> "left", Space |-> "fire"]
Touch == {"left"}
Sources == DOMAIN KEY \cup Touch
Control(s) == IF s \in Touch THEN s ELSE KEY[s]
Controls == {Control(s) : s \in Sources}

TypeOK ==
    /\ pressed \subseteq Sources /\ page \in {"focused", "blurred", "hidden"}
    /\ held \subseteq Controls /\ tapped \subseteq Controls
    /\ applied \subseteq Controls /\ keys \subseteq Controls
    /\ clock \in BOOLEAN /\ acc \in 0 .. SIM_DT - 1 /\ pinned \in BOOLEAN
    /\ steps \in 0 .. MAX_CATCHUP
    /\ used \in [Controls -> 0 .. 2] /\ quick \subseteq Controls /\ late \subseteq Controls

\* At the end of boot, before the first frame.
Init ==
    /\ pressed = {} /\ page = "focused"
    /\ held = {} /\ tapped = {} /\ applied = {} /\ keys = {}
    /\ clock = FALSE /\ acc = 0 /\ pinned = FALSE /\ steps = 0
    /\ used = [c \in Controls |-> 0] /\ quick = {} /\ late = {}

-----------------------------------------------------------------------------
(* Input.                                                                   *)

\* setHeld(name, down), with the history of the press.
setHeld(c, down) ==
    IF down
    THEN /\ held' = held \cup {c} /\ tapped' = tapped \cup {c}
         /\ used' = IF c \in held THEN used ELSE [used EXCEPT ![c] = 0]
         /\ quick' = IF c \in held THEN quick ELSE quick \ {c}
    ELSE /\ held' = held \ {c}
         /\ quick' = IF c \in held /\ used[c] = 0 THEN quick \cup {c} ELSE quick
         /\ UNCHANGED <<tapped, used>>

\* Keys reach a page with focus only, and repeat while they are held; touch
\* reaches any page that is seen.
Heard(s) == page = "focused" \/ (s \in Touch /\ page = "blurred")

Down(s) ==
    /\ s \in Touch => s \notin pressed /\ page # "hidden"
    /\ pressed' = pressed \cup {s}
    /\ IF Heard(s) THEN setHeld(Control(s), TRUE) ELSE UNCHANGED <<held, tapped, used, quick>>
    /\ UNCHANGED <<late, page, applied, keys, clock, acc, pinned, steps>>

\* A release, also by pointercancel or a lost capture.
Up(s) ==
    /\ s \in pressed
    /\ pressed' = pressed \ {s}
    /\ IF Heard(s) \/ s \in Touch THEN setHeld(Control(s), FALSE)
       ELSE UNCHANGED <<held, tapped, used, quick>>
    /\ late' = late \cup {Control(s)}
    /\ UNCHANGED <<page, applied, keys, clock, acc, pinned, steps>>

\* mutant: Glon is not told
resetInputSilent ==
    /\ held' = {} /\ tapped' = {} /\ applied' = {} /\ UNCHANGED keys
    /\ used' = [c \in Controls |-> 0] /\ quick' = {} /\ late' = {}

\* Glon's handler of kaka-input-reset clears the controls it has set.
resetInput ==
    /\ held' = {} /\ tapped' = {} /\ applied' = {} /\ keys' = {}
    /\ used' = [c \in Controls |-> 0] /\ quick' = {} /\ late' = {}

\* R on the keyboard, and the button of the page, which keeps acc.
Restart(onKey) ==
    /\ onKey => page = "focused"
    /\ page # "hidden"
    /\ resetInput
    /\ acc' = IF onKey THEN 0 ELSE acc
    /\ UNCHANGED <<pressed, page, clock, pinned, steps>>

Blur ==
    /\ page = "focused" /\ page' = "blurred"
    /\ resetInput
    /\ UNCHANGED <<pressed, clock, acc, pinned, steps>>

\* visibilitychange, either way: time that passed while hidden is dropped.
Hide ==
    /\ page # "hidden" /\ page' = "hidden"
    /\ clock' = FALSE /\ acc' = 0
    /\ resetInput
    /\ UNCHANGED <<pressed, pinned, steps>>

Show ==
    /\ page = "hidden" /\ page' = "focused"
    /\ clock' = FALSE /\ acc' = 0
    /\ UNCHANGED <<pressed, input, pinned, steps, history>>

Focus ==
    /\ page = "blurred" /\ page' = "focused"
    /\ UNCHANGED <<pressed, input, clock, acc, pinned, steps, history>>

pin(on) ==
    /\ pinned' = on
    /\ UNCHANGED <<pressed, page, input, clock, acc, steps, history>>

-----------------------------------------------------------------------------
(* The frame.                                                               *)

\* syncInput: key-down and key-up events for what has changed.
Sync(taps) == held \cup taps
Sent(before, want) == (keys \cup (want \ before)) \ (before \ want)

\* mutant: the released tap stays applied for the ticks of the frame
ReleasedNever == {}

\* After the first tick, a tap that is over is taken back.
Released == tapped \ held

\* mutant: the taps are cleared by every frame
ConsumedAlways(n) == TRUE

\* Taps are cleared by a frame only when a tick has seen them.
Consumed(n) == n > 0

Ticks(t) == IF t \div SIM_DT < MAX_CATCHUP THEN t \div SIM_DT ELSE MAX_CATCHUP
Count(n) == IF n > 2 THEN 2 ELSE n

\* A frame in which n ticks succeed, fewer than were due if one fails.
Run(t, n) ==
    LET want == Sync(tapped)
        later == IF n > 0 THEN Sync(tapped \ Released) ELSE want
    IN  /\ steps' = n
        /\ acc' = IF n < Ticks(t) \/ t - n * SIM_DT >= SIM_DT THEN 0 ELSE t - n * SIM_DT
        /\ applied' = later
        /\ keys' = (Sent(applied, want) \cup (later \ want)) \ (want \ later)
        /\ tapped' = IF Consumed(n) THEN {} ELSE tapped
        /\ used' = [c \in Controls |->
                      CASE n > 0 /\ c \in later -> Count(used[c] + n)
                        [] n > 0 /\ c \in want \ later -> Count(used[c] + 1)
                        [] OTHER -> used[c]]
        /\ late' = {}
        /\ UNCHANGED <<pressed, page, held, pinned, quick>>

frame(dt) ==
    /\ page # "hidden"
    /\ clock' = TRUE
    /\ IF pinned THEN acc' = 0 /\ UNCHANGED <<pressed, page, input, pinned, steps, history>>
       ELSE LET passed == IF ~clock THEN 0 ELSE IF dt > 25 THEN 25 ELSE dt
            IN \E n \in 0 .. Ticks(acc + passed) : Run(acc + passed, n)

Next ==
    \/ \E s \in Sources : Down(s) \/ Up(s)
    \/ \E b \in BOOLEAN : Restart(b) \/ pin(b)
    \/ Blur \/ Hide \/ Show \/ Focus
    \/ \E dt \in Steps : frame(dt)

Spec == Init /\ [][Next]_vars

-----------------------------------------------------------------------------
(* Properties.                                                              *)

\* "A quick tap counts for ONE tick": a press that is released before a tick
\* has seen it is seen by one, however many frames without a tick or ticks of
\* one frame follow; and it is not lost before.
TapCountsOnce ==
    \A c \in quick \ held : used[c] = (IF c \in tapped THEN 0 ELSE 1)

\* "No per-control latch that can get stranded": the host knows what Glon has
\* set, and neither it nor Glon has a control down but one that the player holds,
\* has tapped for the next tick, or let go since the last frame; and the loop
\* never spirals.
Physical == {Control(s) : s \in pressed}
KeysFollowInput ==
    /\ keys = applied
    /\ held \subseteq Physical
    /\ keys \subseteq Physical \cup tapped \cup late
    /\ acc < SIM_DT /\ steps <= MAX_CATCHUP

\* The converse, of which the host's comment speaks ("a pure function of the
\* PHYSICAL held state ... a reset re-sends whatever is still physically held").
\* It is FALSE of the code, and no run checks it: resetInput sends nothing again,
\* and of two sources of one control the first that is let go ends it.
KeysArePhysical == page = "focused" => Physical \subseteq held

(* What every step keeps: a press that no tick has seen is still tapped, and *)
(* a quick one is over.                                                      *)
Inv == /\ TypeOK /\ TapCountsOnce /\ KeysFollowInput
       /\ \A c \in held : used[c] = 0 => c \in tapped
       /\ quick \cap held = {}
       /\ page # "focused" => held \subseteq {Control(s) : s \in pressed \cap Touch}
=============================================================================
