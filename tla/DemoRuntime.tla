---------------------------- MODULE DemoRuntime ----------------------------
(***************************************************************************)
(* The counter page: how web/demo.js brings up the Emscripten build of     *)
(* web/demo.c, and how a click gets to the R0 program and its answer back  *)
(* to the page.                                                            *)
(*                                                                         *)
(* Everything waits for a count of run dependencies.  The instance is one; *)
(* a shell may add others from Module.preRun or later.  When the count     *)
(* falls to zero the one armed callback runs the program, and run() itself *)
(* may find that a preRun hook added a dependency, or that the shell wants *)
(* its status painted first, which puts the rest in a timeout.             *)
(***************************************************************************)
EXTENDS Integers

CONSTANTS BASE,      \* the factor between a handle and a value, 1000000
          MaxClicks, \* bound on the clicks
          MaxLate    \* bound on the dependencies a shell adds after preRun

VARIABLES shell,   \* the page around the script
          where,   \* the instance: "script", "streaming", "fetching",
                   \* "compiling", "received" or "aborted"
          rt,      \* the runtime's own state, a record
          late,    \* dependencies added by the shell so far
          counter, \* R0: the word counter
          display  \* the text of the element counter

vars == <<shell, where, rt, late, counter, display>>

\* What a shell may define: a status line, the number of preRun hooks that add
\* a dependency, and an instantiateWasm that has the instance at once.  The
\* pages of the repository define none of them.
Shells == [setStatus : BOOLEAN, preRun : 0 .. 1, atOnce : BOOLEAN]
Page == [setStatus |-> FALSE, preRun |-> 0, atOnce |-> FALSE]

-----------------------------------------------------------------------------
(* The synchronous part, as functions of the runtime's state.               *)

\* The end of main: the program runs, could not be loaded (r0_init is not 0),
\* or traps, which leaves run() by an exception.
Outcomes == {"ready", "refused", "trap"}

\* initRuntime (the constructors that receiveInstance put on __ATINIT__, once),
\* the click listener, main.
doRun(s, outcome) ==
    IF s.calledRun THEN s
    ELSE [s EXCEPT !.calledRun = TRUE, !.atInit = 0, !.ctors = @ + s.atInit,
                   !.listeners = @ + 1, !.mains = @ + 1,
                   !.initialized = (outcome = "ready")]

preRun(s) == [s EXCEPT !.deps = @ + s.hooks, !.hooks = 0]

run(s, outcome) ==
    LET p == preRun(s)
    IN  CASE s.deps > 0 -> s
          [] s.deps = 0 /\ p.deps > 0 -> p
          [] p.deps = 0 /\ shell.setStatus -> [p EXCEPT !.timers = @ + 1]
          [] OTHER -> doRun(p, outcome)

\* mutant: is not there when the next dependencies are fulfilled
runCallerOnce(s, outcome) == IF s.calledRun THEN s ELSE run(s, outcome)

\* The callback of fulfilled dependencies, which is armed again for as long as
\* run() has not got to the program.
runCaller(s, outcome) ==
    LET r == IF s.calledRun THEN s ELSE run(s, outcome)
    IN  [r EXCEPT !.armed = ~r.calledRun]

removeRunDependency(s, outcome) ==
    LET d == [s EXCEPT !.deps = @ - 1]
    IN  IF d.deps = 0 /\ d.armed THEN runCaller([d EXCEPT !.armed = FALSE], outcome) ELSE d

receiveInstance(s, outcome) == removeRunDependency([s EXCEPT !.atInit = 1], outcome)

-----------------------------------------------------------------------------
TypeOK ==
    /\ shell \in Shells
    /\ where \in {"script", "streaming", "fetching", "compiling", "received", "aborted"}
    /\ rt \in [deps : 0 .. 2 + MaxLate, armed : BOOLEAN, hooks : 0 .. 1,
               timers : 0 .. 2 + MaxLate, atInit : 0 .. 1, calledRun : BOOLEAN,
               ctors : 0 .. 1, listeners : 0 .. 1, mains : 0 .. 1, initialized : BOOLEAN]
    /\ late \in 0 .. MaxLate /\ counter \in 0 .. MaxClicks /\ display \in Int

Init ==
    /\ shell \in Shells /\ where = "script" /\ late = 0
    /\ rt = [deps |-> 0, armed |-> FALSE, hooks |-> shell.preRun, timers |-> 0, atInit |-> 0,
             calledRun |-> FALSE, ctors |-> 0, listeners |-> 0, mains |-> 0,
             initialized |-> FALSE]
    /\ counter = 0 /\ display = 0

\* The script from top to bottom: createWasm() up to its first await, the
\* callback is armed, run() is called.
Script(outcome) ==
    /\ where = "script"
    /\ LET asked == [rt EXCEPT !.deps = 1]
           got == IF shell.atOnce THEN receiveInstance(asked, outcome) ELSE asked
       IN  rt' = run([got EXCEPT !.armed = TRUE], outcome)
    /\ where' = IF shell.atOnce THEN "received" ELSE "streaming"
    /\ UNCHANGED <<shell, late, counter, display>>

\* instantiateAsync: streaming fails, often over a MIME type, and the bytes are
\* fetched in its place.
StreamingFails ==
    /\ where = "streaming" /\ where' = "fetching"
    /\ UNCHANGED <<shell, rt, late, counter, display>>

BytesArrive ==
    /\ where = "fetching" /\ where' = "compiling"
    /\ UNCHANGED <<shell, rt, late, counter, display>>

\* getBinarySync has no readBinary in a window, or the bytes do not compile:
\* abort, with the dependency of the instance still counted.
Abort ==
    /\ where \in {"fetching", "compiling"} /\ where' = "aborted"
    /\ UNCHANGED <<shell, rt, late, counter, display>>

Receive(outcome) ==
    /\ where \in {"streaming", "compiling"} /\ where' = "received"
    /\ rt' = receiveInstance(rt, outcome)
    /\ UNCHANGED <<shell, late, counter, display>>

\* The shell adds a dependency through Module.addRunDependency, and ends one.
addRunDependency ==
    /\ shell # Page /\ where # "script" /\ late < MaxLate
    /\ late' = late + 1
    /\ rt' = [rt EXCEPT !.deps = @ + 1]
    /\ UNCHANGED <<shell, where, counter, display>>

Instance == IF where = "received" THEN 0 ELSE 1

DependencyEnds(outcome) ==
    /\ where # "script" /\ rt.deps > Instance
    /\ rt' = removeRunDependency(rt, outcome)
    /\ UNCHANGED <<shell, where, late, counter, display>>

\* The timeout after "Running...".
Timeout(outcome) ==
    /\ rt.timers > 0
    /\ rt' = doRun([rt EXCEPT !.timers = @ - 1], outcome)
    /\ UNCHANGED <<shell, where, late, counter, display>>

\* mutant: takes the largest handle for the counter
shownAny(n) == IF n >= BASE THEN n % BASE ELSE display

\* Module.print of a number: a handle and a value; only handle 1 has an
\* element, a smaller number is plain output.
shown(n) == IF n >= BASE /\ n \div BASE = 1 THEN n % BASE ELSE display

\* A click: r0_click refuses until r0_init has ended well; on-click adds one
\* and has web-set-int print 1 * BASE + counter.
Click ==
    /\ rt.listeners > 0 /\ counter < MaxClicks
    /\ counter' = IF rt.initialized THEN counter + 1 ELSE counter
    /\ display' = IF rt.initialized THEN shown(BASE + counter') ELSE display
    /\ UNCHANGED <<shell, where, rt, late>>

Next ==
    \/ \E o \in Outcomes : Script(o) \/ Receive(o) \/ DependencyEnds(o) \/ Timeout(o)
    \/ StreamingFails \/ BytesArrive \/ Abort \/ addRunDependency \/ Click

\* The browser settles its promises and fires its timeouts, and a shell ends
\* the dependencies it added.
Settling == StreamingFails \/ BytesArrive \/ Abort
            \/ \E o \in Outcomes : Script(o) \/ Receive(o)
Clearing == \E o \in Outcomes : DependencyEnds(o)
Painting == \E o \in Outcomes : Timeout(o)
Spec == Init /\ [][Next]_vars /\ WF_vars(Settling) /\ WF_vars(Clearing) /\ WF_vars(Painting)

-----------------------------------------------------------------------------
(* Properties.                                                              *)

\* main runs once at most, with the constructors run once and the click listener
\* added once before it, however hooks, timeouts and late dependencies overlap.
MainOnce ==
    /\ rt.mains <= 1 /\ rt.listeners = rt.mains /\ rt.ctors = rt.mains
    /\ rt.mains = 1 => where = "received"

\* A page whose instance did not fail gets to its program: the callback is still
\* there when the last dependency ends, whichever that is.
Started == where = "aborted" \/ rt.mains = 1
PageRuns == <>Started

\* What the page shows is the counter of the program, up to the largest value
\* that the printed number can carry.
DisplayFollowsCounter == display = IF counter < BASE THEN counter ELSE BASE - 1

\* What every step keeps: the program has run exactly when run() got that far,
\* which takes the instance; every timeout and every open dependency comes from
\* one that was counted.
Inv == /\ TypeOK /\ MainOnce /\ DisplayFollowsCounter
       /\ rt.mains = IF rt.calledRun THEN 1 ELSE 0
       /\ rt.atInit = IF where = "received" /\ ~rt.calledRun THEN 1 ELSE 0
       /\ where # "received" => ~rt.calledRun /\ rt.timers = 0
       /\ where \notin {"script", "received"} => rt.deps > 0
       /\ where = "script" => /\ rt.deps = 0 /\ ~rt.armed /\ late = 0
                              /\ rt.hooks = shell.preRun
       /\ rt.timers + rt.deps + rt.hooks <= 1 + shell.preRun + late
=============================================================================
