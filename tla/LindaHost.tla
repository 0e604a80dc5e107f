------------------------------ MODULE LindaHost ------------------------------
(***************************************************************************)
(* The Linda page (docs/shop/linda-host.js): Reset, Step and Run decide    *)
(* when Glon takes the next task slice; Run paces the steps by a timer     *)
(* until the page Glon renders says COMPLETE.                              *)
(***************************************************************************)
EXTENDS Integers

CONSTANT Slices  \* task slices until the program is complete

VARIABLES running,
          timer,   \* is a timer recorded in the host's variable?
          chains,  \* timers the browser still has to fire
          runText, \* the text of the run button
          done     \* slices Glon has taken since its reset

vars == <<running, timer, chains, runText, done>>

TypeOK ==
    /\ running \in BOOLEAN /\ timer \in BOOLEAN /\ chains \in 0 .. 2
    /\ runText \in {"Run", "Pause"} /\ done \in 0 .. Slices

\* After boot, whose first event is a reset.
Init == running = FALSE /\ timer = FALSE /\ chains = 0 /\ runText = "Run" /\ done = 0

Complete(n) == n = Slices

\* mutant: the step is not taken
StepsNever == done

Stepped == IF Complete(done) THEN done ELSE done + 1

\* mutant: the timer is forgotten, not cleared
ClearedNot(n) == n

\* stopRun, with the timers left when clearTimeout has taken the recorded one.
Cleared(n) == IF timer THEN n - 1 ELSE n

stopRun(n) ==
    /\ running' = FALSE /\ timer' = FALSE /\ runText' = "Run"
    /\ chains' = Cleared(n)

\* The body of tick once its own timer is gone: n timers remain.
TickBody(n) ==
    /\ done' = Stepped
    /\ IF Complete(Stepped)
       THEN running' = FALSE /\ timer' = FALSE /\ runText' = "Run" /\ chains' = n
       ELSE running' = TRUE /\ timer' = TRUE /\ runText' = "Pause" /\ chains' = n + 1

tick ==
    /\ chains > 0
    /\ IF running THEN TickBody(chains - 1)
       ELSE /\ timer' = FALSE /\ chains' = chains - 1
            /\ UNCHANGED <<running, runText, done>>

Reset == stopRun(chains) /\ done' = 0
StepClick == stopRun(chains) /\ done' = Stepped

Run ==
    \/ running /\ stopRun(chains) /\ UNCHANGED done
    \/ ~running /\ TickBody(chains)

Next == tick \/ Reset \/ StepClick \/ Run

Spec == Init /\ [][Next]_vars /\ WF_vars(tick)

-----------------------------------------------------------------------------
(* Properties.                                                              *)

\* The browser holds one timer while the page runs and none otherwise: a stop
\* leaves no slice behind that a later Run would take twice as fast.
OneTimer == chains = (IF running THEN 1 ELSE 0) /\ timer = running

\* A run nobody interrupts comes to an end: the button reads Run again.
Busy == runText = "Pause"
RunEnds == [](Busy => <>(~Busy))

(* What every step keeps: the button reads Pause while the page runs.         *)
Inv == TypeOK /\ OneTimer /\ (runText = "Pause" <=> running)
=============================================================================
