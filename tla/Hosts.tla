------------------------------- MODULE Hosts -------------------------------
(***************************************************************************)
(* The pages around the programs: the hosts of the Kaka game and of Glon   *)
(* Patrol, the pages of the demo launcher and of the LaTeX explorer, the   *)
(* two counters, and parts of the Emscripten runtime below them.  A        *)
(* browser gives each page a world of its own and the parts of the game    *)
(* share no state but what a tick hands over, so that one specification    *)
(* has them all: part says which component runs, and the registers are     *)
(* that component's variables.                                             *)
(***************************************************************************)
EXTENDS Integers, Sequences, FiniteSets

CONSTANTS
    \* The Kaka game
    LoopSteps,         \* KakaLoop: the times between two frames
    Tabs, MaxScore,                                  \* KakaScore
    GhostCap, GhostSeen, Slots, MaxId,               \* KakaGhosts
    Displays, MaxLag,                                \* KakaView
    LAST, TARGET, STRAY, HOLD, ESCAPE, COOL, GUARD,  \* KakaMission
    \* The pages
    Sessions, MaxTimers, AudioFrames, Rates, Unit,   \* LiveHost
    TokenIds, Traces, Steps,                         \* CanvasTrace
    Models, FrameTimes, MaxTick,                     \* TrafficHost
    Slices,                                          \* LindaHost
    Boxes, BoxTexts,                                 \* RunBoxes
    Demos, MaxFetches,                               \* ShopHost
    \* The counters and the runtime
    HEAP, HEAP_LIMIT, StartBytes, StartCells, MaxCalls,  \* Standalone
    Factor, MaxClicks, MaxLate,                      \* DemoRuntime
    Starts, Requests, Limits,                        \* DemoMemory
    Names, Data, Modes, Lengths, Offsets, Fds, MAX_OPEN_FDS, MIN_CAPACITY,
    CAPACITY_DOUBLING_MAX, MaxSize, MaxNodes, MaxOps, Embedded  \* DemoFiles

\* Frames come one after the other.
ASSUME LoopAssumption == LoopSteps \subseteq Nat

\* The list of the pests that have had a ghost is as long as there are pests at
\* one time.
ASSUME GhostsAssumption == /\ GhostCap \in Nat /\ GhostSeen \in Nat /\ MaxId \in Nat
                           /\ Slots \in 0 .. GhostSeen

\* A display has an extent, and the click of a tap comes before the 700 ms for
\* which the host remembers the tap.
ASSUME ViewAssumption == /\ Displays \subseteq (Nat \ {0}) \X (Nat \ {0}) \X BOOLEAN
                         /\ MaxLag \in 0 .. 6

\* The score has a bound.
ASSUME ScoreAssumption == MaxScore \in Nat

\* A mission lasts, an escape and the guard after a hit outlast the tick they
\* begin in, and the ship may stray for a while.
ASSUME MissionAssumption == /\ LAST \in Nat \ {0} /\ TARGET \in Nat /\ STRAY \in Nat \ {0}
                            /\ HOLD \in Nat /\ COOL \in Nat
                            /\ ESCAPE \in Nat \ {0, 1} /\ GUARD \in Nat \ {0, 1}

\* Sessions are counted from 1; a frame holds samples, and a context has a rate.
ASSUME LiveAssumption == /\ Sessions \subseteq Nat \ {0} /\ Unit \in Nat \ {0}
                         /\ AudioFrames \subseteq Seq(Int) /\ Rates \subseteq Nat \ {0}

\* A trace is a sequence of moves.
ASSUME CanvasAssumption == Traces \subseteq Seq(TokenIds) /\ Steps \subseteq Nat

\* "idm" is the model every page has, and "none" stands for no other.
ASSUME TrafficAssumption == /\ Models \cap {"idm", "none"} = {}
                            /\ FrameTimes \subseteq Nat /\ MaxTick \in Nat

\* A run of the program takes some slices.
ASSUME LindaAssumption == Slices \in Nat

\* No demo has the name of another view.
ASSUME ShopAssumption == /\ Demos \cap {"home", "loading", "error"} = {}
                         /\ MaxFetches \in Nat

\* A page has at least one box, and each begins with its default text.
ASSUME BoxesAssumption == (\E n \in Boxes : n \in Nat /\ Boxes = 1 .. n) /\ "default" \in BoxTexts

\* The memory begins with whole pages, up to as many as the build allows.
ASSUME MemoryAssumption == /\ Starts \subseteq Nat \ {0} /\ \A s \in Starts : s <= 2097152 /\ s % 64 = 0
                           /\ Requests \subseteq Nat /\ Limits \subseteq Nat

\* Behind the page's program there is room for a block, and the blocks that fit
\* are fewer than the values a printed number can carry.
ASSUME CounterAssumption == /\ HEAP \in Nat /\ StartBytes \in 0 .. HEAP
                            /\ StartCells \in Nat /\ HEAP_LIMIT \in Nat
                            /\ StartCells + 19 <= HEAP_LIMIT /\ HEAP_LIMIT < 1000000
                            /\ MaxCalls \in Nat

\* The factor that packs a handle and a value, and two bounds.
ASSUME RuntimeAssumption == Factor \in Nat \ {0} /\ MaxClicks \in Nat /\ MaxLate \in Nat

\* The descriptors that open gives are among those considered; files are opened
\* in one of three ways; what is in a file is a sequence of numbers.
ASSUME FilesAssumption == /\ MAX_OPEN_FDS \in Nat
                          /\ \E n \in Fds : n \in Nat /\ Fds = 0 .. n /\ MAX_OPEN_FDS <= n
                          /\ \A m \in Modes : m.acc \in {"r", "w", "rw"} /\ m.append \in BOOLEAN
                          /\ Data \subseteq Seq(Int) /\ Embedded.bytes \in Seq(Int)
                          /\ Lengths \subseteq Nat /\ Offsets \subseteq Int
                          /\ MIN_CAPACITY \in Nat /\ CAPACITY_DOUBLING_MAX \in Nat

VARIABLES part,  \* the component that runs
          s1, s2, s3, s4, s5, s6, s7, s8, s9, s10, s11, s12, s13, s14, s15

vars == <<part, s1, s2, s3, s4, s5, s6, s7, s8, s9, s10, s11, s12, s13, s14, s15>>

-----------------------------------------------------------------------------
(* The components.                                                          *)

Loop == INSTANCE KakaLoop WITH
    pressed <- s1, page <- s2, held <- s3, tapped <- s4, applied <- s5,
    keys <- s6, clock <- s7, acc <- s8, pinned <- s9, steps <- s10,
    used <- s11, quick <- s12, late <- s13, Steps <- LoopSteps

Score == INSTANCE KakaScore WITH
    stored <- s1, denied <- s2, booted <- s3, lastSaved <- s4, score <- s5,
    hv <- s6

Ghosts == INSTANCE KakaGhosts WITH
    idc <- s1, alive <- s2, corpses <- s3, ghosts <- s4, ghostSeen <- s5,
    died <- s6, risen <- s7, twice <- s8, GHOST_CAP <- GhostCap,
    GHOST_SEEN <- GhostSeen

Scene == INSTANCE KakaScene WITH
    mode <- s1, entered <- s2, phase <- s3, shield <- s4, boost <- s5,
    unlocked <- s6, fActive <- s7, wasBoost <- s8, fPrevPhase <- s9,
    fGaugeShield <- s10, sounding <- s11, lastCanvasScript <- s12,
    chimes <- s13

View == INSTANCE KakaView WITH
    display <- s1, fits <- s2, canvasW <- s3, viewW <- s4, glonW <- s5,
    blank <- s6, installed <- s7, supported <- s8, full <- s9,
    refreshes <- s10, fs <- s11, since <- s12, click <- s13, fired <- s14,
    owed <- s15

Mission == INSTANCE KakaMission WITH
    fprog <- s1, phase <- s2, shield <- s3, fwhy <- s4, fbomb <- s5,
    shots <- s6, kills <- s7, guard <- s8, clock <- s9, fdbr <- s10,
    place <- s11, hitBy <- s12, ended <- s13, rested <- s14

Patrol == INSTANCE PatrolHost WITH
    pressed <- s1, window <- s2, held <- s3

Live == INSTANCE LiveHost WITH
    configured <- s1, qwen <- s2, socket <- s3, asking <- s4, stream <- s5,
    tracks <- s6, failed <- s7, state <- s8, timers <- s9, status <- s10,
    errorText <- s11, packet <- s12, Frames <- AudioFrames

Boot == INSTANCE PageBoot WITH
    page <- s1, fault <- s2, attempt <- s3, pc <- s4, loads <- s5,
    listeners <- s6, early <- s7

Canvas == INSTANCE CanvasTrace WITH
    moves <- s1, elapsed <- s2, at <- s3, moving <- s4,
    Ids <- TokenIds

Traffic == INSTANCE TrafficHost WITH
    running <- s1, everStarted <- s2, speed <- s3, startText <- s4,
    modelSel <- s5, modeSel <- s6, lastModel <- s7, extraModelLoaded <- s8,
    loaded <- s9, sim <- s10, age <- s11, startFrame <- s12, gap <- s13,
    hurried <- s14, Frames <- FrameTimes

Linda == INSTANCE LindaHost WITH
    running <- s1, timer <- s2, chains <- s3, runText <- s4, done <- s5

Explorer == INSTANCE RunBoxes WITH
    page <- s1, ready <- s2, text <- s3, out <- s4, disabled <- s5,
    runs <- s6, pending <- s7, seq <- s8, awaited <- s9,
    Texts <- BoxTexts

Shop == INSTANCE ShopHost WITH
    shown <- s1, route <- s2, links <- s3, flags <- s4, fetches <- s5,
    asked <- s6

Counter == INSTANCE Standalone WITH
    page <- s1, source <- s2, heap_used <- s3, loader_hp <- s4, clicks <- s5,
    counter <- s6, text <- s7, MaxClicks <- MaxCalls

Runtime == INSTANCE DemoRuntime WITH
    shell <- s1, where <- s2, rt <- s3, late <- s4, counter <- s5,
    display <- s6, BASE <- Factor

Memory == INSTANCE DemoMemory WITH
    size <- s1, views <- s2, limit <- s3, answers <- s4

Files == INSTANCE DemoFiles WITH
    nodes <- s1, names <- s2, streams <- s3, shared <- s4, last <- s5,
    calls <- s6, MaxCalls <- MaxOps

-----------------------------------------------------------------------------
\* Registers a component does not use stay at 0.
Off14 == s15 = 0
Off13 == s14 = 0 /\ Off14
Off12 == s13 = 0 /\ Off13
Off9 == s10 = 0 /\ s11 = 0 /\ s12 = 0 /\ Off12
Off8 == s9 = 0 /\ Off9
Off7 == s8 = 0 /\ Off8
Off6 == s7 = 0 /\ Off7
Off5 == s6 = 0 /\ Off6
Off4 == s5 = 0 /\ Off5
Off3 == s4 = 0 /\ Off4

Still14 == UNCHANGED s15
Still13 == UNCHANGED s14 /\ Still14
Still12 == UNCHANGED s13 /\ Still13
Still9 == UNCHANGED <<s10, s11, s12>> /\ Still12
Still8 == UNCHANGED s9 /\ Still9
Still7 == UNCHANGED s8 /\ Still8
Still6 == UNCHANGED s7 /\ Still7
Still5 == UNCHANGED s6 /\ Still6
Still4 == UNCHANGED s5 /\ Still5
Still3 == UNCHANGED s4 /\ Still4

Init ==
    \/ part = "loop" /\ Loop!Init /\ Off13
    \/ part = "score" /\ Score!Init /\ Off6
    \/ part = "ghosts" /\ Ghosts!Init /\ Off8
    \/ part = "scene" /\ Scene!Init /\ Off13
    \/ part = "view" /\ View!Init
    \/ part = "mission" /\ Mission!Init /\ Off14
    \/ part = "patrol" /\ Patrol!Init /\ Off3
    \/ part = "live" /\ Live!Init /\ Off12
    \/ part = "boot" /\ Boot!Init /\ Off7
    \/ part = "canvas" /\ Canvas!Init /\ Off4
    \/ part = "traffic" /\ Traffic!Init /\ Off14
    \/ part = "linda" /\ Linda!Init /\ Off5
    \/ part = "boxes" /\ Explorer!Init /\ Off9
    \/ part = "shop" /\ Shop!Init /\ Off6
    \/ part = "counter" /\ Counter!Init /\ Off7
    \/ part = "runtime" /\ Runtime!Init /\ Off6
    \/ part = "memory" /\ Memory!Init /\ Off4
    \/ part = "files" /\ Files!Init /\ Off6

Run ==
    \/ part = "loop" /\ Loop!Next /\ Still13
    \/ part = "score" /\ Score!Next /\ Still6
    \/ part = "ghosts" /\ Ghosts!Next /\ Still8
    \/ part = "scene" /\ Scene!Next /\ Still13
    \/ part = "view" /\ View!Next
    \/ part = "mission" /\ Mission!Next /\ Still14
    \/ part = "patrol" /\ Patrol!Next /\ Still3
    \/ part = "live" /\ Live!Next /\ Still12
    \/ part = "boot" /\ Boot!Next /\ Still7
    \/ part = "canvas" /\ Canvas!Next /\ Still4
    \/ part = "traffic" /\ Traffic!Next /\ Still14
    \/ part = "linda" /\ Linda!Next /\ Still5
    \/ part = "boxes" /\ Explorer!Next /\ Still9
    \/ part = "shop" /\ Shop!Next /\ Still6
    \/ part = "counter" /\ Counter!Next /\ Still7
    \/ part = "runtime" /\ Runtime!Next /\ Still6
    \/ part = "memory" /\ Memory!Next /\ Still4
    \/ part = "files" /\ Files!Next /\ Still6

Next == part' = part /\ Run

\* The browser goes on: it delivers frames and timers, settles promises, and
\* ends what a page waits for.
Fairness ==
    /\ WF_vars(part' = part /\ part = "canvas" /\ Canvas!Next /\ Still4)
    /\ WF_vars(part' = part /\ part = "linda" /\ Linda!tick /\ Still5)
    /\ WF_vars(part' = part /\ part = "boxes" /\ Explorer!Progress /\ Still9)
    /\ \A b \in Boxes :
          WF_vars(part' = part /\ part = "boxes" /\ Explorer!Ends(b) /\ Still9)
    /\ WF_vars(part' = part /\ part = "runtime" /\ Runtime!Settling /\ Still6)
    /\ WF_vars(part' = part /\ part = "runtime" /\ Runtime!Clearing /\ Still6)
    /\ WF_vars(part' = part /\ part = "runtime" /\ Runtime!Painting /\ Still6)

Spec == Init /\ [][Next]_vars /\ Fairness

-----------------------------------------------------------------------------
(* Properties: those of the components, each of its own part.               *)

TypeOK ==
    /\ part = "loop" => Loop!TypeOK
    /\ part = "score" => Score!TypeOK
    /\ part = "ghosts" => Ghosts!TypeOK
    /\ part = "scene" => Scene!TypeOK
    /\ part = "view" => View!TypeOK
    /\ part = "mission" => Mission!TypeOK
    /\ part = "patrol" => Patrol!TypeOK
    /\ part = "live" => Live!TypeOK
    /\ part = "boot" => Boot!TypeOK
    /\ part = "canvas" => Canvas!TypeOK
    /\ part = "traffic" => Traffic!TypeOK
    /\ part = "linda" => Linda!TypeOK
    /\ part = "boxes" => Explorer!TypeOK
    /\ part = "shop" => Shop!TypeOK
    /\ part = "counter" => Counter!TypeOK
    /\ part = "runtime" => Runtime!TypeOK
    /\ part = "memory" => Memory!TypeOK
    /\ part = "files" => Files!TypeOK

\* Kaka and Glon Patrol steer by nothing but what the player holds: no key sticks
\* when it is let go, when the page loses the focus or at a restart.  That a key
\* held over a reset of Kaka goes on is not so (KakaLoop!KeysArePhysical).
KeysFollowInput ==
    /\ part = "patrol" => Patrol!KeysNeverStick
    /\ part = "loop" => Loop!KeysFollowInput

\* One press is one event: a quick tap counts for one tick, however the frames
\* fall, and a tap of the finger, which the browser also reports as a click,
\* fires once.
InputCountsOnce ==
    /\ part = "loop" => Loop!TapCountsOnce
    /\ part = "view" => View!OneTapOneEvent

\* What the player sees and hears of an event comes once: a pest gets at most
\* one ghost in a game, and of a mission the engine never outlives the boost or
\* the flight, and each end chimes once.
EventsAreShownOnce ==
    /\ part = "ghosts" => Ghosts!RisesOnce
    /\ part = "scene" => Scene!EngineStops /\ Scene!EachEndChimesOnce

\* The picture and the simulation agree on the size of the view, whatever the
\* display turns into.
ViewIsShared == part = "view" => View!ViewIsShared

\* A debrief tells what ended the mission.
DebriefTellsTheEnd == part = "mission" => Mission!DebriefTellsTheEnd

\* What a step tells the player is true: the high score in storage is never
\* lowered by the tab that wrote it, nor by the start of a page; a held trigger
\* cannot skip the debrief, and the cues of a mission come before what they
\* announce.
StepsTellTheState ==
    [][/\ part = "score" => Score!KeepsHighScore
       /\ part = "mission" => Mission!LeavesRested /\ Mission!CueLeads]_vars

\* What a page's controls say of what goes on behind them: the status of the
\* microphone page, the one timer of the Linda page, the Run buttons of the
\* explorer, and the selectors and the button of the traffic page, with the two
\* exceptions TrafficHost names (ButtonIsShown, ModeIsShown).
ControlsAgree ==
    /\ part = "live" => Live!StatusAgrees
    /\ part = "traffic" => Traffic!ControlsAgree
    /\ part = "linda" => Linda!OneTimer
    /\ part = "boxes" => Explorer!BusyCountsRuns

\* The sound sent to the relay is the sound of the microphone.
AudioIsFaithful == part = "live" => Live!AudioIsFaithful

\* No page registers its handlers twice, sends an event to a program that is
\* not loaded, or shows a page whose source was not run.
PagesComeUp ==
    /\ part = "boot" => Boot!HandlersOnce
    /\ part = "shop" => Shop!RoutesFollowLoads

\* Tokens move in the order of their claims, the traffic never runs late or
\* backwards, and an error on the microphone page stays.
StepsAreSteady ==
    [][/\ part = "canvas" => Canvas!HopIsSequential
       /\ part = "traffic" => Traffic!SteadyStep
       /\ part = "live" => Live!KeepsError]_vars

\* A counter page runs its program once, and the number shown is the program's,
\* as far as the printed number or the loader heap can carry it.
CounterIsShown ==
    /\ part = "runtime" => Runtime!MainOnce /\ Runtime!DisplayFollowsCounter
    /\ part = "counter" => Counter!CountsWhileItFits

\* Memory that is granted is as large as asked for, and the views follow it;
\* it is refused only near the limit of the browser or of the build.
GrowthSuffices == part = "memory" => Memory!GrowthSuffices /\ Memory!RefusedOnlyNearLimit

\* Files are what a program expects of them: sequences of bytes, found by name
\* or open descriptor, with positions that only copies of a descriptor share, and
\* zeros in every hole.
ImplementsAbstractFiles ==
    /\ part = "files" => Files!StartsAbstract
    /\ [](part = "files" => Files!SlackIsZero)
    /\ [][part = "files" => Files!StepIsAbstract]_vars

\* What is begun comes to an end: an animation, a run of the Linda program, the
\* opening of the explorer, the start of a counter page.
WhatBeginsEnds ==
    /\ <>[](part = "canvas" => Canvas!AtRest)
    /\ []((part = "linda" /\ Linda!Busy) => <>(part = "linda" => ~Linda!Busy))
    /\ <>(part = "boxes" => Explorer!Opened)
    /\ <>(part = "runtime" => Runtime!Started)

-----------------------------------------------------------------------------
(* Instances for TLC.                                                       *)

\* A desktop, a telephone on its side, a window wider and one narrower than any
\* canvas.
SomeDisplays == {<<1280, 720, FALSE>>, <<844, 390, TRUE>>, <<2400, 480, TRUE>>,
                 <<500, 480, TRUE>>}

\* Too loud on one side, and on the other.
LoudFrames == {<<-5, -4, 1, 2>>, <<5, 5, 3, 4>>}

\* Turns taken and alternated, no moves at all, and tokens out of order.
SomeTraces == {<<0, 1, 0, 1>>, <<0, 0, 3, 1>>, << >>, <<3, 1, 0>>}

\* Sizes about a page, about the memory of the build and about its maximum.
SomeRequests == {16400, 17000, 20000, 65535, 65536, 65537, 200000, 1200000, 1300001,
                 1850000, 2000000, 2097151, 2097152, 2097153}

\* r, w+ with and without exclusion, as fopen and open pass them.
Mode(acc, c, x, t, a) ==
    [acc |-> acc, creat |-> c, excl |-> x, trunc |-> t, append |-> a]
SomeModes == {Mode("r", FALSE, FALSE, FALSE, FALSE), Mode("rw", TRUE, FALSE, FALSE, FALSE),
              Mode("w", TRUE, FALSE, TRUE, FALSE), Mode("w", TRUE, TRUE, FALSE, TRUE)}

SomeData    == {<<1>>, <<2, 1>>}
SomeOffsets == {-1, 2}
OneFile     == [name |-> "a", bytes |-> <<1>>]
=============================================================================
