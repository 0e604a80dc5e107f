----------------------------- MODULE TrafficHost -----------------------------
(***************************************************************************)
(* The traffic page: docs/shop/traffic-host.js decides when Glon is asked  *)
(* for the next step of a simulation, from the buttons, the selectors and  *)
(* the animation frames; the part of demos/traffic.glon and                *)
(* demos/models-dispatch.glon it talks to is the record sim.               *)
(***************************************************************************)
EXTENDS Integers, FiniteSets

CONSTANTS Models,    \* the simulations other than "idm"
          Frames,    \* time from one frame to the next, in units of 50 ms
          MaxTick    \* bound: the simulation is followed up to this tick

VARIABLES running, everStarted, speed,
          startText,   \* the text of the start button
          modelSel, modeSel, lastModel,  \* what the selectors show
          extraModelLoaded,              \* "none" or a model
          loaded,      \* the models whose source Glon has accepted
          sim,         \* Glon's own state: its model, mode and tick
          age,         \* time since lastEvent, up to the longest period
          startFrame,  \* is the frame callback of start still to come?
          gap,         \* time since the last advance, up to the same bound
          hurried      \* did an advance come too soon after another?

controls == <<startText, modelSel, modeSel, lastModel>>
budget == <<extraModelLoaded, loaded>>
clock == <<age, startFrame, gap, hurried>>
vars == <<running, everStarted, speed, controls, budget, sim, clock>>

TypeOK ==
    /\ running \in BOOLEAN /\ everStarted \in BOOLEAN /\ speed \in {1, 2, 5}
    /\ startText \in {"Start", "Pause"}
    /\ {modelSel, lastModel} \cup loaded \subseteq Models \cup {"idm"}
    /\ modeSel \in {"baseline", "pacing"}
    /\ extraModelLoaded \in Models \cup {"none"}
    /\ sim \in [model : Models \cup {"idm"}, mode : {"baseline", "pacing"},
                tick : 0 .. MaxTick]
    /\ age \in 0 .. 10 /\ gap \in 0 .. 10 /\ {startFrame, hurried} \subseteq BOOLEAN

\* After boot: the main bundle is loaded and reset() drew the first picture.
Init ==
    /\ running = FALSE /\ everStarted = FALSE /\ speed = 2
    /\ startText = "Start" /\ modelSel = "idm" /\ lastModel = "idm"
    /\ modeSel = "baseline" /\ extraModelLoaded = "none" /\ loaded = {"idm"}
    /\ sim = [model |-> "idm", mode |-> "baseline", tick |-> 0]
    /\ age = 10 /\ gap = 10 /\ startFrame = FALSE /\ hurried = FALSE

eventPeriod == 10 \div speed
Capped(t) == IF t > 10 THEN 10 ELSE t

\* Glon's handlers: each but advance and resume begins at tick 0 again.
Rewound == [sim EXCEPT !.tick = 0]
Advanced == [sim EXCEPT !.tick = IF @ < MaxTick THEN @ + 1 ELSE @]

\* mutant: the period is not tested
DueAlways(t) == running

\* frame: one advance at most, and only a whole period after the last event;
\* the callback start has requested runs after it, in the same frame.
Due(t) == running /\ t >= eventPeriod

frame(dt) ==
    LET t == Capped(age + dt)
        g == Capped(gap + dt)
    IN
    /\ age' = IF Due(t) \/ startFrame THEN 0 ELSE t
    /\ startFrame' = FALSE
    /\ gap' = IF Due(t) THEN 0 ELSE g
    /\ hurried' = (hurried \/ (Due(t) /\ g < eventPeriod))
    /\ sim' = IF Due(t) THEN Advanced ELSE sim
    /\ UNCHANGED <<running, everStarted, speed, controls, budget>>

\* mutant: a resume starts over
StartedFromZero == Rewound

\* A click on the start button while it is stopped: a fresh start, or a
\* resume, which Glon answers without an init.
StartedFrom == IF everStarted THEN sim ELSE Rewound

start ==
    /\ ~running
    /\ running' = TRUE /\ everStarted' = TRUE /\ startText' = "Pause"
    /\ age' = 0 /\ startFrame' = TRUE
    /\ sim' = StartedFrom
    /\ UNCHANGED <<speed, modelSel, modeSel, lastModel, budget, gap, hurried>>

pause ==
    /\ running
    /\ running' = FALSE /\ startText' = "Start"
    /\ UNCHANGED <<everStarted, speed, modelSel, modeSel, lastModel, budget,
                   sim, clock>>

Stop == running' = FALSE /\ everStarted' = FALSE

reset ==
    /\ Stop
    /\ startText' = "Start" /\ sim' = Rewound
    /\ UNCHANGED <<speed, modelSel, modeSel, lastModel, budget, clock>>

setSpeed(s) ==
    /\ speed' = s
    /\ UNCHANGED <<running, everStarted, controls, budget, sim, clock>>

\* The scenario selector, which is hidden for the other models.
setMode(m) ==
    /\ modelSel = "idm" /\ m # modeSel
    /\ Stop
    /\ startText' = "Start" /\ modeSel' = m
    /\ sim' = [Rewound EXCEPT !.mode = m]
    /\ UNCHANGED <<speed, modelSel, lastModel, budget, clock>>

\* mutant: the loader heap is not budgeted
MayLoadAny == TRUE

\* ensureModelLoaded: no second extra model, and glon_load may fail.
MayLoad == extraModelLoaded = "none"

Refused(m) == m \notin loaded /\ UNCHANGED budget
Ensured(m) ==
    \/ m \in loaded /\ UNCHANGED budget
    \/ /\ m \notin loaded /\ MayLoad
       /\ loaded' = loaded \cup {m} /\ extraModelLoaded' = m

\* mutant: the selector keeps the refused model
StayPutShown(m) == modelSel' = m /\ UNCHANGED <<startText, modeSel, lastModel, sim>>

\* Back to the model that was shown: "load failed; stay put".
StayPut(m) == UNCHANGED <<controls, sim>>

\* The model selector.  The selection can be refused, fail to load, or load
\* and still fail for lack of loader heap.
setModel(m) ==
    /\ m # modelSel
    /\ Stop
    /\ \/ Refused(m) /\ StayPut(m)
       \/ Ensured(m) /\ StayPut(m)
       \/ /\ Ensured(m)
          /\ modelSel' = m /\ lastModel' = m /\ startText' = "Start"
          /\ modeSel' = IF m = "idm" THEN modeSel ELSE "baseline"
          /\ sim' = [Rewound EXCEPT !.model = m]
    /\ UNCHANGED <<speed, clock>>

Next ==
    \/ \E dt \in Frames : frame(dt)
    \/ start \/ pause \/ reset
    \/ \E s \in {1, 2, 5} : setSpeed(s)
    \/ \E m \in {"baseline", "pacing"} : setMode(m)
    \/ \E m \in Models \cup {"idm"} : setModel(m)

Spec == Init /\ [][Next]_vars

-----------------------------------------------------------------------------
(* Properties.                                                              *)

\* What the page shows, as far as it is true: the model selector names the model
\* Glon simulates, also after a refused choice; nothing runs behind a button that
\* reads "Start", and behind "Pause" either the simulation runs or the next click
\* begins it anew; a scenario shown as Pacing is simulated, and the scenarios
\* agree until another model has been there; and the loader heap never has to
\* hold more than one model beside IDM.
ControlsAgree ==
    /\ modelSel = sim.model /\ lastModel = modelSel
    /\ startText = "Start" => ~running
    /\ startText = "Pause" => (running <=> everStarted)
    /\ modeSel = "pacing" => sim.mode = "pacing"
    /\ extraModelLoaded = "none" => modeSel = sim.mode
    /\ Cardinality(loaded \ {"idm"}) <= 1

\* What the page does NOT keep, and no run checks: a choice of model that is
\* refused stops the simulation behind "Pause" (setModel stops it first, and the
\* listener returns before it sets the text); and after Pacing and another model,
\* IDM runs Pacing behind a selector that was set to Baseline, since Glon's
\* handler of the model keeps the scenario.
ButtonIsShown == startText = "Pause" => running
ModeIsShown == modelSel = "idm" => modeSel = sim.mode

\* "The loop never builds a backlog": advances are at least a period apart at
\* the speed of the later one; and "resuming must not rewind": only a first
\* Start, Reset or a selector takes the simulation back to tick 0.
SteadyStep == ~hurried' /\ (sim'.tick < sim.tick => ~(everStarted /\ everStarted'))
PlaybackIsSteady == [][SteadyStep]_vars

(* What every step keeps: the last advance is no later than the last event    *)
(* the frames are timed from, and the one model beside IDM is the recorded    *)
(* one.                                                                       *)
Inv == /\ TypeOK /\ ControlsAgree
       /\ age <= gap /\ ~hurried
       /\ "idm" \in loaded /\ loaded \subseteq {"idm", extraModelLoaded} \ {"none"}
=============================================================================
