------------------------------ MODULE KakaView ------------------------------
(***************************************************************************)
(* The page around the game (docs/demos/kaka/kaka-host.js): the width of   *)
(* the canvas follows the display and Glon is told of it, the fullscreen   *)
(* button follows the browser, and a button of the game turns a press into *)
(* one Glon event although the browser reports a tap twice.  Time is in    *)
(* hundreds of milliseconds.                                               *)
(***************************************************************************)
EXTENDS Integers

CONSTANTS Displays, \* what the display may be: <<width, height, touch landscape>>
          MaxLag    \* bound on the time from the end of a tap to its click

VARIABLES display,
          fits,       \* calls of fitView that are due: "none", "event", "timer"
          canvasW, viewW,
          glonW,      \* Glon: view-w
          blank,      \* was the canvas reset since Glon last rendered?
          installed,  \* the page runs as an app, without a browser around it
          supported, full,
          refreshes,  \* is a fullscreenchange event due?
          fs,         \* the button: "hidden", "FULLSCREEN", "EXIT"
          since,      \* time since __glonFiredAt, FRESH or more when long ago
          click,      \* age of a tap whose click has not come, or -1
          fired, owed \* history: events of the last press, and what it should give

screen == <<display, fits, canvasW, viewW, glonW, blank>>
button == <<installed, supported, full, refreshes, fs>>
taps == <<since, click, fired, owed>>
vars == <<screen, button, taps>>

FRESH == 7

TypeOK ==
    /\ display \in Displays /\ fits \in {"none", "event", "timer"}
    /\ canvasW \in 640 .. 1600 /\ viewW \in 0 .. 1600 /\ glonW \in 320 .. 1600
    /\ blank \in BOOLEAN
    /\ installed \in BOOLEAN /\ supported \in BOOLEAN /\ full \in BOOLEAN
    /\ refreshes \in BOOLEAN /\ fs \in {"hidden", "FULLSCREEN", "EXIT"}
    /\ since \in 0 .. FRESH /\ click \in -1 .. MaxLag
    /\ fired \in 0 .. 2 /\ owed \in 0 .. 1

-----------------------------------------------------------------------------
(* The view.                                                                *)
Lesser(a, b) == IF a < b THEN a ELSE b
Greater(a, b) == IF a > b THEN a ELSE b

\* The width of the view: that of the display at a height of 480, in steps of
\* 32, on a touch screen held sideways, and 640 otherwise.
Width(d) ==
    LET steps == (2 * 480 * d[1] + 32 * d[2]) \div (2 * 32 * d[2])
    IN  IF d[3] THEN Greater(640, Lesser(1600, 32 * steps)) ELSE 640

\* on-viewport, which ends with a rendering.
Told(w) == glonW' = Greater(320, Lesser(1600, w)) /\ blank' = FALSE

\* mutant: Glon is told where the canvas differs from the view, after it was set
fitViewLate ==
    LET vw == Width(display) IN
    /\ canvasW' = vw /\ viewW' = vw
    /\ IF canvasW' # vw THEN Told(vw)
       ELSE glonW' = glonW /\ blank' = (blank \/ canvasW # vw)

\* A new width empties the canvas; a new view is told to Glon.
fitView ==
    LET vw == Width(display) IN
    /\ canvasW' = vw /\ viewW' = vw
    /\ IF viewW # vw THEN Told(vw)
       ELSE glonW' = glonW /\ blank' = (blank \/ canvasW # vw)

\* A resize, the browser's own bars, a turn of the device.
Turn(d) ==
    /\ d # display /\ display' = d /\ fits' = "event"
    /\ UNCHANGED <<canvasW, viewW, glonW, blank, button, taps>>

Fit ==
    /\ fits # "none" /\ fits' = "none"
    /\ fitView
    /\ UNCHANGED <<display, button, taps>>

-----------------------------------------------------------------------------
(* The fullscreen button.                                                   *)

isStandalone == installed

\* refresh.
Label(f) == IF ~supported \/ (isStandalone /\ ~f) THEN "hidden"
            ELSE IF f THEN "EXIT" ELSE "FULLSCREEN"

Refresh ==
    /\ refreshes /\ refreshes' = FALSE
    /\ fs' = Label(full)
    /\ UNCHANGED <<screen, installed, supported, full, taps>>

\* The browser enters or leaves fullscreen, by its own keys or on a request,
\* and both the display and the button hear of it later.
Toggle(d) ==
    /\ supported
    /\ full' = ~full /\ refreshes' = TRUE
    /\ display' = d /\ fits' = "event"
    /\ UNCHANGED <<canvasW, viewW, glonW, blank, installed, supported, fs, taps>>

\* A click on the button: the request, which may be refused, and a call of
\* fitView after a while.
Press(granted, d) ==
    /\ fs # "hidden"
    /\ IF granted THEN full' = ~full /\ refreshes' = TRUE /\ display' = d
       ELSE UNCHANGED <<full, refreshes, display>>
    /\ fits' = IF granted /\ d # display THEN "event" ELSE IF fits = "none" THEN "timer" ELSE fits
    /\ UNCHANGED <<canvasW, viewW, glonW, blank, installed, supported, fs, taps>>

-----------------------------------------------------------------------------
(* The buttons of the game.                                                 *)

fireGon == fired' = IF fired < 2 THEN fired + 1 ELSE fired

\* A tap: its event at once, its click to come.
PointerUp ==
    /\ click = -1
    /\ since' = 0 /\ click' = 0
    /\ owed' = 1 /\ fired' = 1
    /\ UNCHANGED <<screen, button>>

\* mutant: a click always fires
RecentNever(s) == FALSE

\* "pointerup already handled this press a moment ago".
Recent(s) == s < FRESH

\* The click of a tap, or none when the finger had left the button.
Click(comes) ==
    /\ click >= 0 /\ click' = -1
    /\ IF comes /\ ~Recent(since) THEN fireGon ELSE fired' = fired
    /\ UNCHANGED <<since, owed, screen, button>>

\* A key or an assistive device clicks without a tap.
Activate ==
    /\ click = -1
    /\ owed' = (IF since = FRESH THEN 1 ELSE 0)
    /\ fired' = (IF Recent(since) THEN 0 ELSE 1)
    /\ UNCHANGED <<since, click, screen, button>>

Wait ==
    /\ since' = Lesser(FRESH, since + 1)
    /\ IF click = -1 THEN click' = -1 ELSE click < MaxLag /\ click' = click + 1
    /\ UNCHANGED <<fired, owed, screen, button>>

-----------------------------------------------------------------------------
\* The boot: the first fitView runs before any event, and the button is refreshed.
Init ==
    /\ display \in Displays /\ fits = "none"
    /\ canvasW = Width(display) /\ viewW = Width(display) /\ glonW = Width(display)
    /\ blank = FALSE
    /\ installed \in BOOLEAN /\ supported \in BOOLEAN /\ full = FALSE
    /\ refreshes = FALSE /\ fs = Label(FALSE)
    /\ since = FRESH /\ click = -1 /\ fired = 0 /\ owed = 0

Next ==
    \/ Fit \/ Refresh \/ PointerUp \/ Activate \/ Wait
    \/ \E d \in Displays : Turn(d) \/ Toggle(d) \/ \E granted \in BOOLEAN : Press(granted, d)
    \/ \E comes \in BOOLEAN : Click(comes)

Spec == Init /\ [][Next]_vars

-----------------------------------------------------------------------------
(* Properties.                                                              *)

\* "One tap fires exactly one event", as does a click without a tap once 700 ms
\* have passed since the last tap.
OneTapOneEvent == fired = owed

\* Once the browser's events have been handled, the canvas, the host and Glon
\* agree on the width of the view, and no canvas stays empty after a change.
ViewIsShared ==
    /\ ~blank
    /\ fits # "event" => /\ canvasW = Width(display) /\ glonW = canvasW
    /\ ~refreshes => (fs = "EXIT") = full

(* What every step keeps: host and Glon never differ in what they take for   *)
(* the width; only a browser that supports it shows a page in full; and a    *)
(* click that is due is as old as the last tap.                              *)
Inv == /\ TypeOK /\ OneTapOneEvent /\ ViewIsShared
       /\ canvasW = viewW /\ glonW = viewW
       /\ full \/ fs # "hidden" => supported
       /\ click >= 0 => since = click
=============================================================================
