# Verification of the R0/S1 runtime and its hosts

R0 (Glon in its later form) is a small Rebol-like language with closures,
multiple results, non-local `return` and raw machine fragments. Its evaluator,
allocator and collector are emitted by `src/r0_s1_runtime.c` as code for S1, a
stack machine of seven opcodes over 65,536 cells (`src/s1.c`). Everything in the
language lives in those cells and nothing in the machine checks an address, so
what keeps the program right is a set of conventions between emitted routines:
which global cell is live across which call, which cell is a root, who pops
what.

The same runtime is compiled to WebAssembly and put behind web pages. There the
conventions are between a JavaScript host and a Glon program: which of them owns
a piece of state, in which order events, frames, timers, promises and late
fetches may arrive, and what the page may show meanwhile.

This directory states both in TLA+ and checks them with TLC on small instances.
Every safety property and every refinement that is checked of the runtime is also
proved with TLAPS, for all sizes, and so is every one of the pages' hosts that does
not depend on a table or a recursive operator. Line numbers
below refer to `src/r0_s1_runtime.c` unless another file is named.

## 1. The system

| Part | State | Operations | Hard behaviours |
|---|---|---|---|
| S1 machine (`s1.c`) | `M[65536]`, with IP, SP, RP and HP in cells of it | `LIT DUP DROP FETCH STORE ZBRANCH HOST HALT`; call, exit and the R stack are macros | no bound on any stack |
| Parser and loader (134-374, 2291-2312) | symbols, loader heap, site ids, scopes of P4 | `r0_s1_parse`, `bind`, RAW assembler | fixed arrays; names resolved before they are bound |
| Managed heap (1007-1081, 963-1003) | headers `[size, flags]` in 16-cell units, REG_HP | `r_alloc`: first fit, split, bump, one collection; the sweep: clear, free, coalesce | no free list: one wrong size misreads everything behind it |
| Mark phase (489-961) | mark bits, worklist of 256 cells | mark-push, tracers, root scans, drain | cycles; unmarkable contexts; unchecked worklist; fail-stop on corruption |
| Contexts (1137-1449) | `[parent, count, cap, pairs, index]` | lookup, set, append, build-hash, hash-insert, mkctx | index built late over cells that hold garbage; growth over the capacity |
| Closures and promotion (1457-1551) | stack contexts, managed copies, RV_CTX, RV_CHILD, RV_CLOSURE | mkctx, mkclosure | two allocations in one operation, each a possible collection; two copies of one environment |
| Activations and return (1107-1130, 1554-1620, 1728-1970) | return stack, data stack, frame chain, RV_BLK, RV_SITE, RV_NVALS | invoke-closure, run-block, values, set-word, return, reduce | global cells across nested evaluation; returns over many unfinished routines |
| Return-stack layout (1457-1484, 1738-1759, 1813-1890) | RP | guard, mkctx, frame, epilogue | alignment; a check made long before the cells are taken |
| Multitasking M1 (`r0_s1_m1_tests.c` 46-196, `m1_layout.h`) | task records, scheduler record, cursor, arena | `mnew-task`, `yield`, `task-finish`, `run-tasks` | every interleaving of worlds with collections; starvation; nested schedulers |
| Datatypes, strings, blocks (M3) | descriptors, user objects, series | library fragments in `r0_s1_m3c_lib.h`, `r0_s1_m3d_lib.h` | growth, aliasing |
| Kaka game (`docs/demos/kaka`) | host: held keys, tick accumulator, ghosts, last picture; Glon: tuple space, mission | keys, touch, frames, full screen, high score | a fixed-step loop under irregular frames; events inferred from pictures; two tabs |
| Glon Patrol (`docs/demos/patrol`) | keys | key, blur, boot | releases lost with the focus |
| Demo launcher (`docs/shop/host.js`) | routes, loaded sources, the animated trace | click, load, route, animate | fetches that come late, twice or never |
| Traffic page (`docs/shop/traffic-host.js`) | playback clock, selectors, one extra model | start, pause, reset, set speed, mode and model | refused loads; late frames |
| Live translation page (`docs/shop/live-host.js`, `qwen-client.js`) | session, socket, microphone, timers | start, stop, messages, audio frames | callbacks of old sessions; a promise after a stop |
| Linda page (`docs/shop/linda-host.js`) | run flag, timer | reset, step, run | a timer that outlives its run |
| LaTeX explorer, primer (`docs/latex`, `docs/shop/primer-host.js`) | boxes with a run button, busy count; a formula parser | run, reset, edit, opening sequence | overlapping asynchronous runs; precedence |
| Standalone counter (`standalone/glon.c`, `glon.js`) | byte arena, loader heap, counter | boot, click | two stores that only grow |
| Emscripten runtime (`web/demo.js`) | run dependencies, linear memory, name table, nodes, streams, terminals | run, grow, open, read, write, dup, rename, unlink, print | order of dependencies and hooks; descriptors that run out; colliding names |
| Debugger D1, `r0.c` (an earlier interpreter in C), tests, profilers | | | |

How they interact. The evaluator's routines call each other on the return
stack, pass values on the data stack, and share the register file `RV_*`.
`r_alloc` is called by mkclosure and by library fragments, and may call
`r_collect`, which reads all of it: registers, stacks, frame chain, task
records and the global context. The multitasking fragments replace the
registers as a whole. A host calls the parser and then `r0_s1_run`; Glon answers
by host calls, above all with HTML and with the script of a picture. A page never
shares memory with another one, except for the one number in local storage that
the game keeps.

What makes each part right:

- heap: blocks tile the heap; an object given out is disjoint from all others
  and stays where it is until a collection does not keep it;
- mark phase: exactly the reachable objects are marked; it ends; it stays
  inside its worklist;
- contexts: a context is a function from words to values, whichever of index
  and scan answers;
- closures: lexical scope, although environments move and are collected;
- activations: every routine finds its registers and its operands as it left
  them, whatever ran or returned in between;
- return stack: nothing overlaps, and running out of it halts;
- tasks: each world sees only its own switches, and every runnable task runs;
- hosts: one action of the user is one event of the program, in order, whatever
  frames, timers and fetches do; what the page shows and sounds is what the
  program's state says; what was begun (a boot, a run, an animation) ends;
- Emscripten runtime: `main` runs once; memory is granted when there is some;
  a path, a descriptor and a stream lead to the bytes a program expects.

Every line where one of these can go wrong and a test would hardly notice is
listed under `hazards` in `PROJECT.json`, with the properties that cover it or
why none does yet.

## 2. Modules

| Module | Models | Uses |
|---|---|---|
| `AbstractHeap` | what the evaluator may expect of the heap: allocate, collect, free, out of memory | |
| `Heap` | `r_alloc` and the sweep over headers | refines `AbstractHeap` |
| `Marking` | the mark phase over an object graph | assumes `BlocksFitWorklist` of `Heap` |
| `AbstractClosures` | lexical environments that are never copied, and forgotten only when nothing leads to them | |
| `Closures` | stack contexts, promotion, closures and the collector's roots | refines `AbstractClosures` |
| `AbstractContexts` | a chain of environments, each a function | |
| `Contexts` | cells, pairs and the index | refines `AbstractContexts` |
| `Activations` | control: frames, blocks, multiple results, return | |
| `ReturnStack` | addresses on the return stack, guard, alignment | |
| `AbstractTasks` | worlds with private state, one of them running | |
| `Tasks` | M1's fragments over register images and shared memory | refines `AbstractTasks` |
| `HeapProofs`, `MarkingProofs`, `ClosuresProofs`, `ContextsProofs`, `TasksProofs` | proofs about the module they are named for | TLAPS |
| `ActivationsProofs` | proofs about `Activations` and `ReturnStack` | TLAPS |
| `HostProofs` | proofs about all components of `Hosts` | TLAPS |
| `Induction` | least and greatest elements, induction over sets of numbers, functions defined by recursion | used by five of the proofs |
| `KakaLoop`, `KakaScore`, `KakaGhosts`, `KakaScene`, `KakaView` | the game's host: input and ticks, high score, ghosts, sounds, view and taps | |
| `KakaTrench`, `KakaScenery`, `KakaMission` | the trench and its painting, flight and scrapes, scenery, the course of a mission and what is written over it | |
| `PatrolHost` | keys of Glon Patrol | |
| `PageBoot` | the boots of seven pages, with a failure at any step | |
| `ShopHost`, `CanvasTrace`, `TrafficHost`, `LindaHost`, `LiveHost` | the pages of the launcher | |
| `RunBoxes`, `Infix` | the LaTeX explorer and the primer; the formula parser against a grammar | |
| `Standalone` | the standalone counter and its two stores | |
| `DemoRuntime`, `DemoMemory`, `DemoTree`, `DemoTerminal` | the Emscripten runtime: start-up, memory growth, names and paths, terminals | |
| `AbstractFiles` | files as byte sequences behind names and shared open files | |
| `DemoFiles` | MEMFS contents, the descriptor table and the system calls | refines `AbstractFiles` |
| `MCMarking` | the family of object graphs for TLC | `Closures` and `Contexts` end with the few definitions that give their constants values |
| `Hosts` | the hosts' modules, one at a time, with the assumptions their proofs need | all of the above from `KakaLoop` on but the five of `Content` |
| `Content` | what is computed to be seen and read, with its bounds | `KakaTrench`, `KakaScenery`, `Infix`, `DemoTree`, `DemoTerminal` |

The parts meet where one module's conclusion is another's premise.
`Heap.BlocksFitWorklist` (proved) is the bound `Marking` assumes of the number
of objects. `Marking.MarksExactlyReachable` (proved) is why `Closures` and
`Tasks` can take a collection as one step that keeps what is reachable, and
`Heap` as a nondeterministic set. `Closures.ReferencesAreSound` (proved) contains the
shape of the graph `Marking.WellFormed` assumes. `Contexts` shows (proved, while no
context outgrows its block) that `Closures` may treat a context as a function.
`ReturnStack` is the layout below `Activations`.

### State and actions, module by module

**Heap.** One unit is 16 cells; all extents are multiples of it. `blk` maps the
address of each header to its size, state (`GC_FLAG_ALLOC`, `GC_FLAG_MARK`) and
kind; `hp` is REG_HP; `req` holds r_alloc's registers with the attempt counter;
`addr` and `prevFree` are the sweep's GC_T6 and GC_C6; `stat` the counters.
`Request` enters r_alloc; `FirstFit` finds and splits or takes whole, `Bump`,
`CollectOnce`, `OutOfMemory` are its other ends. `Collect` is a collection
asked for by a program. `Mark(S)` leaves any set S of objects marked; each
`Sweep...` action treats one block. The tooling branch at 1016-1022 (REG_HP
moved above the heap by a debugger fragment) is outside the model.

**Marking.** `fields` gives each object, each context off the heap, each
activation frame, and one node `Root` for the cells the root phase reads, what
the collector passes to mark-value and mark-frame, in its order. `trail` is the
recursion on the return stack, `worklist` GC_WORKLIST. `MarkPush`, `Skip`,
`TraceContext` and `FailStop` are what mark-value does with one cell, `MarkFrame`
is mark-frame's call of itself on FRAME_PREV before it marks FRAME_CTX,
`LeaveTracer` the end of a tracer, `Drain` one round of the drain.
Objects of all kinds are one kind of node: they differ only in which of their
cells are fields.

**Closures.** A context is named by where it is: global, a heap payload, or a
depth on the return stack that later invocations use again. `Call`, `Enter`,
`NormalReturn` and `Return` are an invocation; `BeginClosure`, `AllocClosure`,
`Promote` and `Fill` are the steps of mkclosure between its two allocations,
and `CollectForClosure` and `CollectForPromotion` the collections in them.
`env` in a context is a history field, naming the environment it is or is a
copy of. Values are closures or scalars; there are no user objects.

**Contexts.** A context is its cells. `Bind` is append, `Set` is set with its
search along the chain, `LoaderBind` the loader's, `Enter` makes a context over
cells with garbage in them (mkctx writes three cells only) and binds the
parameters, `Promote` copies count pairs and the index, `Lookup` is lookup.
`Slack` is the 13 cells between a full index and the end of a 64-cell block.

**Activations.** A program is any order of expressions. `rs` has a record for
each routine under way, with what it saved; `ds` has values and counts;
`Start...` begins a routine, and the actions after `Done` are what it does with
a result set. `Unwind` is the whole of a non-local return from the search to
the jump. `got` and `own` are history fields.

**ReturnStack.** `entries` are the sub-expressions under way with the address
they started below; `rp` is RP. `Subexpr(k)` stands for any routine that saves
k cells around a sub-expression, `Value` for its end, `Invoke` for the guard
and the cells an invocation keeps during its arguments, `Activate` for mkctx
and the frame, `Leave(n)` for a normal or non-local return to entry n.

**Tasks.** `reg` is the machine's registers, `rec` and `state` the task table,
`sched` M1_SCHED_REC, `scan` the loop of run-tasks. `Spawn`, `RunTasks`,
`Yield`, `TaskFinish`, `Skip`, `Dispatch` and `Done` are the fragments; the
others are the evaluator working in the world the registers describe. A popped
cell keeps its contents, as memory does.

**The hosts.** JavaScript runs a handler to its end, so each handler, callback
or frame is one action, and what waits between two of them is a variable: the
queue of timers, a pending promise, the readyState of a socket, a fetch under
way, an animation frame that has been requested. Glon's side of a page is
modelled only as far as the host depends on it, from the page's Glon program.

- `KakaLoop`: `Down`, `Up`, `Blur`, `Hide`, `Focus` are the input listeners,
  `frame` is one animation frame with its catch-up ticks (`Run`), any of which
  may throw. Time is in 20 ms; `used`, `quick` and `late` are history; `pressed` is
  what the player's fingers do, of which the host knows only what it is told.
- `KakaScore`: `Boot`, `Play`, `Reload`, `Restart` of each of several tabs over
  one stored number, which may be denied (`denied`).
- `KakaGhosts`, `KakaScene`: Glon's tuples, or its mission, and the few host
  variables by which events are recognised in pictures.
- `KakaTrench` has the integer geometry of `kaka-fighter.glon` and the painter's
  pass of the host as operators, and flies a ship in it.
- `KakaScenery`: where the copies of a layer and the clumps go, for a camera, a
  view and the set of pictures that have come, and the order in which a frame's
  commands are painted. Of the commands that draw actors it tells sprites, which
  paint the signs that are due, from shapes, which do not.
- `KakaView`: a display that turns, the browser's late sizes, full screen, and
  the two reports the browser makes of one tap.
- `KakaMission`: ticks of a whole mission, with what is written over each picture.
- `PageBoot`: a page is the sequence of its steps; `fault` is where the machine
  fails, by a code or an exception.
- `ShopHost`: clicks and fetches that overlap. `CanvasTrace`: the animation.
- `TrafficHost`: `frame` and the listeners; `age` is the time since `lastEvent`.
- `LiveHost`: sessions with their sockets, promises of the microphone, and the
  timers by which events reach Glon; `packet` is the last audio frame sent.
- `LindaHost`, `RunBoxes`: the timer of a run; the runs of several boxes.
- `Infix`: the parser as the functions it is written as, over tokens; `List` to
  `Args` are the grammar it is compared with, and `Read` a reader of the words.
- `Standalone`: the rounding of `malloc` and `lalloc`, and the 16 cells a click
  takes. `DemoRuntime`: run dependencies, hooks, timeouts and clicks.
- `DemoMemory`: sizes in KiB. `DemoTree`: nodes, directory contents, chains of
  the name table; `rename` is the whole of FS.rename with its checks in order.
  `DemoFiles`: contents with spare capacity, streams, what dup'ed streams share.
  `DemoTerminal`: bytes, lines and UTF-16 texts.

`Hosts` and `Content` choose one component at the start (`part`) and run it over
registers `s1`, `s2`, ... that the component names by INSTANCE. Pages have no
state in common, and the parts of the game share only what a tick hands over, so
a product of them would only multiply states; this way one run checks all of
them and each keeps its own bounds. A property of these runs is the conjunction
of what it says of each part it concerns, and there is a mutant for every part.
`Hosts` has everything that can be proved, with its bounds as constants;
`Content` has what computes with recursive operators or from tables of numbers,
and is for TLC. At the end of each module that `Hosts` uses stands `Inv`, its
inductive invariant.

## 3. Runs

| Run | Shows | Instance |
|---|---|---|
| `heap` | the walk stays well formed, coalescing is complete, marks and counters are right, through all interleavings of requests and collections; `AbstractHeap` is implemented; every request is answered | 11 units, one descriptor, requests of 1, 2 and 4 units |
| `marking` | exactly the reachable objects are marked; halting, recursion, worklist, termination | every graph of the family in `MCMarking`, with a chain of two frames and the frame of a task |
| `closures` | no reference to freed or popped storage, one copy of each environment; `AbstractClosures` is implemented | 3 payloads, depth 2, data stack 2 |
| `contexts` | index and scan agree, pairs are intact; `AbstractContexts` is implemented | capacity 3, index from 2, four words of which two pairs collide, two values, 1 cell of slack |
| `activations` | frame chain, RV_BLK, operands and results | depth 4, two sites, arities 0 and 2 |
| `return_stack` | layout and guard | 200 cells, five entries, 0, 3 or 4 saved cells |
| `tasks` | each world finds its stacks; collections keep what tasks hold; bounded waiting, run-tasks serves all, every task finishes; `AbstractTasks` is implemented | two tasks, two activations each, one object |
| `hosts` | no key sticks, one press is one event, an event is shown once, host and Glon share the view, the debrief tells the truth; controls agree with what runs (but for the two that Limits names), boots and late loads are safe, sound, counters and memory are right, what begins ends; `AbstractFiles` is implemented | below |
| `content` | the picture is the rules' world; formulas are read as the grammar says; names lead to their nodes; text gets through terminals | below |

Why the bounds are enough. In the heap, 11 units hold a descriptor and up to
five objects: enough for a split, an unsplit remainder of one unit, a free run
merged from three blocks, a live block between two free runs, and a collection
that makes room or does not. The graphs of `marking` have self-loops, cycles
through the global context, an object met from two sides, contexts that only an
older frame leads to, and corrupt cells both reachable and not. Three payloads in `closures` hold a closure, the
context it captures and one dead object, so a payload is used again after a
collection, and depth 2 gives a caller and a callee that reuses the cells of a
popped one. In `contexts` a context is below the index, at its first use, at
capacity and beyond it. In `activations` depth 4 nests a return in an argument
of a call in a block in a body. 200 cells in `return_stack` hold two
activations and are met at every alignment the saved cells can make. Two tasks
and the main program give every pair of worlds, and one task for the other to
pass over; the bound on waiting is proved for any number.

In `hosts`, a tick is 40 ms and frames take 20, 40, 60 or 600 ms, so a frame
has no tick, one, several, or meets both caps (500 ms of time and five ticks to
catch up), and a press ends before, in or after it; two tabs and three scores
give a lower score after a higher one; two ghosts at a time and four pests
overflow both caps of the ghost list; missions are of six ticks with timers of
two, so every timer can run out within, at and after every other; two sessions
of the microphone are an old one and its successor; a boot can fail at every step
of every page; canvas traces are of up to four moves, in turn, overtaking or
none; two boxes are one that is run and one in the opening sequence; the counter
runs to 600 clicks at its true sizes, past the end of the loader heap; memory
requests and limits lie about a page, the cap on over-reserving and the maximum;
with five descriptors, of which open gives four, one name, two nodes and five
operations a file is shared by two descriptors, cut, extended over a hole, and
open when its name is gone, and the descriptors run out. The proofs are for all
of these numbers.

In `content`, flights start at mission ticks 130, 304, 504, 704, 904 and 1104,
before gates of all five patterns, and last sixteen ticks with one change of
controls; cameras stand at both ends and at the seams of every layer, with strides
that meet the boundaries of copies; formulas are six openings with up to three
more tokens of twelve; in a name table of four chains "/", "tmp", "a" and "tty"
collide, and "b", "dev", "stdin" and "home" do; two names made beside the nineteen
nodes the runtime starts with are a directory and what is in it, or a link and
where it leads; texts have characters of one to four bytes.

Deadlock is not checked: programs end, machines halt, and the bounds on
operations, depth and addresses stop a model where the program would go on.

### Runs that find the code at odds with what is said of it

Each checks one property that a comment, a document or a test states.
`PROJECT.json` quotes them under `findings`.

| Run | What happens |
|---|---|
| `closures_promotion` | the closure mkclosure has just allocated is no root during the allocation of the promoted context, and may be swept |
| `live_microphone` | when the relay closes the socket, or an error is shown, the page says "Microphone idle" while the tracks of the microphone are live; no button that would stop them is shown |
| `standalone_clicks` | the 424th click finds the loader heap full, and the counter stands still from then on |

The passing runs beside them say what holds nevertheless. The state after a
lost closure is the terminal `"lost"`, since the cells it would write belong to a
free block; the properties of `closures` are about executions that have not come
to that. `hosts` shows for the same page that status, error text and data-state
agree, and for the same counter that it counts every click while there is room.

### Limits of the code

Met while modelling. Where a module states the property that fails, its name is
given with what to change in the run's configuration to see it fail.

The runtime:

- The site id lies untagged on the data stack when mkclosure's first r_alloc
  collects (2030); if it is 6, 7, 11 or 12 mod 16 the scan takes it for a
  corrupt value and halts. `Closures.NoFalseCorruption`, with
  `SiteTags = {1, 7}`; M2-GC-DESIGN.md:111 says that the collector never treats
  an arbitrary integer as a pointer.
- `return` stores its site in RV_SITE (1917) and searches the frames for it after
  its argument was evaluated (1944); a `return` in the argument, or an index
  built there, has changed it. `Activations.ReturnTargetsOwner`, with
  `MaxDepth = 5`; the comment at 1338 says RV_SITE is never live during binding.
- While a task runs, the contexts and frames of the world that called run-tasks
  are no roots (900). `Tasks.SchedulerObjectsKept`, with `SchedulerLocals = TRUE`.
- A task starts in the popped context of `spawn` (`r0_s1_m1_tests.c` 80), shared
  with whoever is called next. `Tasks.IndependentLocals`, with
  `BaseLocals = TRUE`. The passing run sets both flags FALSE, which restricts
  the program and not the runtime.
- `values` counts in RV_NVALS (1574-1590) and saves only RV_CUR, RV_END and
  RV_BLK around an element, so an element that evaluates another `values`
  leaves that one's count. `Activations` has no such programs. In several tasks
  the same holds of RV_NVALS and RV_SITE across a switch, since no task record
  has them.
- A result set of more than the sixteen cells of RV_RES_BUF is copied into what
  follows it (1932).
- `set` and `append` store a pair without comparing count and capacity (1368).
  The pairs grow over the index, which is then not used (`Contexts` has this),
  and in the end behind the block (it does not; `Slack` bounds its cells).
- Only an invocation compares RP with the data stack (1755); return addresses
  and saved cells of nested natives and blocks do not. `ReturnStack` has the
  pushes, and states the room of invocations only. The data stack has no bound
  at all (`s1.c` 178).
- mark-frame calls itself on FRAME_PREV (667): a collection needs two cells of the
  return stack, p and a return address, for every live frame of the chain, beyond
  the cells of at most three tracers. Nothing compares RP with a limit there, and
  the 96 cells an invocation asks for (1739-1760) count its context, its frame and
  padding only. `Marking.BoundedRecursion` says how deep it gets; `ReturnStack`
  does not add it to the stack of the program.
- The scan of the return stack takes any cell in the heap's range for a closure
  (853): a saved raw integer there keeps a dead object, or marks at an address
  that is no object.
- After its collection r_alloc looks for one free block of the whole extent or
  for the whole extent above REG_HP, and REG_HP is never lowered, so a free
  block at the end of the walk and the room above it are not put together.
- GC_LAST_RECLAM (1002) is all cells free after the sweep, also those that were
  free before; `Heap` computes it so.
- `run-tasks` (`r0_s1_m1_tests.c` 129) saves its world in the one scheduler
  record without looking whether it is in use; called by a task it replaces the
  main program's. In `Tasks` only the main program calls it. A `yield` outside any
  task (100) jumps through that record whatever is in it. Slots never become
  empty again (61): after five spawns in one run mnew-task returns -1.
- Every run resets REG_HP to the base (2331) while the global context keeps
  closures and contexts of earlier runs.
- A reference bound by the loader to (depth, slot) skips the names (1248): a
  local made in between shadows it for a lookup by name and not for the bound
  one. The loader's arrays (96) are of fixed size and their use is not checked.

The hosts. `KakaLoop`, `TrafficHost` and `KakaScenery` are specifications of their
own; checked by themselves, with the constants `Hosts` and `Content` give them,
each refutes the property named for it here.

- A key of the game that is held over a reset (a restart, a lost focus) is
  forgotten until the keyboard repeats it, a touch button until it is pressed again,
  and when two sources of one control are held the first to be let go ends it.
  The comment at `kaka-host.js` 2137-2143 has Glon's keys as "a pure function of the
  PHYSICAL held state" and a reset that "re-sends whatever is still physically
  held"; resetInput (2158) sends nothing again, and setHeld (2145) keeps one flag for
  each control. `KakaLoop.KeysArePhysical`; that no key sticks is so.
- A choice of a model on the traffic page stops the simulation before it is known
  whether the model can be had (`traffic-host.js` 211); when it cannot, the listener
  returns (271) and the button still reads Pause. `TrafficHost.ButtonIsShown`.
- Another model than IDM sets the scenario selector to Baseline (277), and Glon's
  handler of the model leaves the scenario as it is (`models-dispatch.glon` 47-53):
  Pacing, Newell and IDM again show Baseline while Pacing runs.
  `TrafficHost.ModeIsShown`.
- "Signs go after the trees, before actors" (`kaka-host.js` 2014), but only the
  commands F, S and P paint them. Stoats, possums, rocks, the cue of a gnawed tree
  and the beam are lines, ellipses, triangles and circles (`kaka-draw.glon`
  239-319): before the first sprite of a frame they lie behind the signs.
  `KakaScenery.SignsBehindActors`; `SignsBehindSprites` says what holds.
- A restart of the game renders once more, through resetInput, before the ids
  of pests begin at 0 again (`kaka-wave.glon` 176-178, `kaka-host.js` 2164), so
  corpses of the old game are taken down as seen and pests of the new one with
  the same ids get no ghost. `KakaGhosts.EveryVictimRises` states it.
- The comment on paintLayer (`kaka-host.js` 70-75) has no jump between copies;
  in the fade at the border of two copies the same picture shows twice.
- In the escape neither the guard after a hit nor the boost counts down; a
  delivery in the last tick still ends the mission as failed; the target can be
  hit in its first tick, before any picture showed it.
- A button that is activated by keyboard within 700 ms of a tap is taken for the
  click of that tap (2240). A press in the tick that opens the debrief does not
  count as pressed again.
- Two tabs know only what each has saved: a lower score that is better than
  any the tab knew replaces a higher one of the other tab. `KeepsHighScore` says
  what holds.
- `rename` looks only at the text of two paths to see whether a directory would
  go beneath itself (`web/demo.js` 2255): through a link it does, and is lost with
  what it holds; and a name that begins with a dot passes for "..".
  `DemoTree.NothingIsLost` holds for programs that make no link; without its
  premise, or with `Dotted = {"a"}` and a move of /tmp to /tmp/a/b, it fails.
- `unlink` and `mkdir` of a path that ends in ".." take it lexically
  (`web/demo.js` 753-776). F_DUPFD goes beyond MAX_OPEN_FDS. An open that runs
  out of descriptors has created or truncated its file. F_SETFL only adds flags.
  A read of standard input after an answer prompts again.

## 4. Fairness

There is one processor and no preemption: `s1_run` executes the next
instruction until HALT, so a model of it may assume that some enabled action is
taken (`WF_vars(Next)`, in `Marking` and `Tasks`), and r_alloc and r_collect
run to their end once entered (`WF` of both in `Heap`). On the pages a browser
that shows them calls animation frames, fires timers that are due and settles
the promises it made: `WF` of the frame in `CanvasTrace`, of the timer in
`LindaHost`, of the steps of the opening sequence and of the end of a run in
`RunBoxes`, of the callbacks, dependencies and timeouts in `DemoRuntime`. Nothing
is assumed about what a user does, and in particular that a user stops doing it:
`WhatBeginsEnds` holds with a reader who keeps running boxes. Nothing is assumed
about which of several operations a program chooses, and no strong fairness is
used. `EveryTaskFinishes` is about programs in which each task does a bounded
number of operations (`TaskOps`), yields included: that is what a terminating
task is, and round robin does the rest. `AllocTerminates` and `MarkTerminates`
need no bound but that of the heap.

## 5. Proofs

TLAPS proves the following for all values of the constants, from the named
assumptions in the modules (positive sizes, disjoint sets, a heap that holds
its descriptors, finitely many payloads, words and values that are numbers as
cells are, a preloaded context that binds no word twice; of the hosts those in
`Hosts`, one for each component: times, sizes and bounds are numbers, an embedded
file is bytes, no page is named "home"). Where a theorem needs
more, its hypothesis is part of its statement and is named below.

**HeapProofs** (`HeapStaysWhole` with its parts `BlocksTile`,
`CoalescingComplete`, `MarksCleared` and `CellsAccounted`; `FewBlocks`;
`HeapRefinesAbstractHeap`). The invariant `IInv` adds to the checked ones `SweepInv`: the sweep's address is a
header or the end, `prevFree` is the free block that ends exactly there, and if
there is none no free block ends there. Without it nothing says that enlarging
`prevFree` by the block at `addr` keeps the tiling. `RequestInv` says a request
is at least two units, which a split relies on. There is a lemma for each
action; the refinement has one for each kind of step.

**MarkingProofs** (`MarkPhaseCorrect` with its parts `FailStopExact`,
`WorklistNeverOverflows` and `RecursionIsBounded`; `MarkingIsExact`). `IInv` is the tri-colour invariant: whatever has
been reached is queued, or being traced, or has all its fields dealt with, and
a tracer has dealt with every field before its cursor; with it, the queue has
no object twice and only marked ones, and only reachable things are marked. At
the end the marked set is closed, and reachability is the least closed set. The
worklist bound follows by counting from `WorklistAssumption`, the one fact
taken from the heap, where it is `FewBlocks`. For the recursion, `TrailInv` says
what may lie under what on the trail: frames first, each the FRAME_PREV of the one
before it and so at a higher address; then only contexts off the heap are
recursed into, and the one that is not the global context leads to nothing but
it. So there are three tracers at most, and as many levels of mark-frame as the
chain has frames, for which no number is a bound (Limits).

**ClosuresProofs** (`ReferencesStaySound`, `CopiesAreNotUsed`,
`ClosuresRefineAbstractClosures`). Two invariants. `Sound` says where every value
and reference leads: `Right` asks of a closure not only that its object is there
but that its fields have been written, which is what keeps the object that
mkclosure is still filling out of everybody's reach (`Making` has what mkclosure
relies on between its steps). Stack contexts are traced only when a register or a
frame names them, so what *they* hold is right only for those (`TracedRight`);
`StackOwned`, that such a name is always of the innermost body below it, makes
the set shrink and never grow again as frames are popped. `Levelled` orders the
data-stack marks of the frames, `OwnEnvs` and `NoCopies` say that after a promotion
nobody names the stack context. `NoStaleCopy` is about names, and says nothing of
which copy a caller finds after a return to any depth: this is the second
invariant, `Identified`. Each body entered is represented in one place, its stack
context or the heap's only copy of it (`Represented`, `OwnCopies`), and contexts in
the heap lead to older ones (`Ranked`), so chains end.

The refinement maps each environment to its *holder*: the copy in the heap where
there is one, else the stack context. No two holders are of the same environment
(`OneHolder`), and every name leads to a holder (`NamesAreHolders`), so the
environments are closed under what they name, and what a step loses can have
been forgotten (`BecomesIs`). That r_lookup and the abstract search end in the same
place (`HomeMeans`) is not by induction on a common length, since one counts
payloads and the other environments: both walks follow the same chain, whose
holders have decreasing ranks, so each has stopped before its own bound
(`Settles`). Then there is one lemma per step (`PushScalarMapped` to `EnterMapped`):
promotion, allocation and collections are steps that at most forget.

**ContextsProofs** (`IndexNeverDisagrees` and `PairsStayWhole` without hypothesis;
`TypeCorrectness`, `TablesAreSound` and `ContextsRefineAbstractContexts` given
`[]Fits`; `FewWordsFit`, `FewWordsAreSound` and `FewWordsRefine` for programs of few
words). `ChainIsGood`: each context has a word and a value in each of the pairs its
count says, and while the index is consulted it is an index of them, each word in
the first free slot from its hash. That building the index over garbage yields one,
and that an insertion into it keeps one, is shown of the recursive functions by
which they are written, over cells; the search of the index then finds what the
scan does. `Fits` says that no context has more pairs than fit into its block.
Nothing in the code prevents that (section 3, Limits), and beyond the block lie
cells of something else, so the types and the refinement need it. The `FewWords`
theorems have it from a condition on the program alone, `RoomForWords`: the words it
binds fit into the global context, and together with one parameter less than a
function has at most into the context of an activation (30 pairs in the code).
Their invariant, `Roomy`, is that from the slots of the parameters on a context
binds no word twice (`BoundOnce`), since r_set appends only what it finds nowhere
on the chain; distinct words are no more than there are (`OneMoreWord`, by an
injection), which leaves room for the next one (`RoomForMore`). The instance of
the `contexts` run satisfies `RoomForWords`.

**ActivationsProofs** (`StacksSound`, `DataStackSound`, `ResultsAreCarried`).
`Sound` adds to the types that each saved RV_FRAME and RV_BLK is that of the routine
below (`WellStacked`), that the data stack is as high as the operands of the
routines under way, and the result set, make it (`DataFits`), that a body is entered
with all its arguments, and that RV_NVALS is the count of the one `values` there is
(`ValuesCounted`), for programs with no `values` in an element of another. With
it a return to any frame finds the height to cut the data stack to, whatever it
jumps over.

Of **ReturnStack** the same module proves `StackStaysSound` with its parts
`StackIsDisciplined` and `GuardIsEnough`. `StackInv` adds that an invocation in its arguments still has its 96 cells above
Bottom (`CallsHaveRoom`): the guard runs before the arguments, and a discipline
of entries one below the other (`EntriesAreStacked`) is what brings RP back.
The arithmetic is two alignment lemmas: with 64 cells for the context, 9 for
the frame and at most 15 of padding for the first, a frame 16 cells below the
context, and three cells for return address and mkctx's own, 96 suffices. The
comment at 1738 counts a context of 48 cells, and with its sum the property
fails.

**TasksProofs** (`RoundRobin`, `RunTasksServesAll`, `TypeCorrectness`,
`StacksAreOwned`; `TasksAreSound` given `SchedulerLocals = FALSE`;
`TasksRefineAbstractTasks` given `BaseLocals = FALSE`). `SInv` says the scan has
seen `count` slots from the cursor on and none of them runnable, and that for a
runnable slot the dispatches that passed it and the distance from the cursor to
it are together less than the number of slots. `StackInv` adds `Switched`, whose
registers and records are whose, and `AllLinked`: each live world's stack is a
chain of its own activations from its bottom to its top, whether its image is in the
registers or in a record. `AllHeld` says that the heap has what operands, globals
and the locals of tasks' contexts name; for the main program's locals it holds
only if there are none while tasks run, hence the first hypothesis. The
second excludes a task that assigns a local outside any function: its context there
is that of the function that spawned it. Both restrict the
programs and not the runtime; section 3 (Limits) says what happens without them.

**HostProofs** (`HostInvariant`; one theorem for each safety property of the `hosts`
run, as `KeysFollowInputHolds`, and `HostsTypes` for its types;
`FilesImplementAbstract`). `part` never changes, so `HostInv`, which asks of the
component that runs its `Inv`, is an invariant of `Hosts` once every component
keeps its own. Each has a section: its invariant holds at the start, is kept by
every step together with what the step promises (`StepsTellTheState`,
`StepsAreSteady`), and the properties follow. What makes the invariants inductive
differs from page to page:

- *Input.* A key that is held and has not been seen by a tick is in `tapped`,
  none that went down and up between two ticks is held, and off focus only what a
  finger is on is held, since releases of keys are not heard (`KakaLoop.Inv`); with
  that a press counts for exactly one tick however many ticks a frame catches up.
- *Ghosts.* A corpse that has had its ghost must stay in `ghostSeen` as long as
  it can be drawn again. The ids after it in the list are those of pests that were
  dead when it was, so together with the corpses there are now they are no more than
  the pests at one time (`Slots`), and by `GhostsAssumption` that is no more than
  the list holds: the entry dropped is never one still needed. This is counted
  over every order in which a render can show its corpses, by induction on what
  has been shown.
- *Scene, view, mission.* What the host remembers of the last picture is what
  Glon's mission was then (`fPrevPhase`, `wasBoost`); canvas, host and Glon have the
  same width after every handler; the reason of an end is the last hit until a
  mission is abandoned, which is why the debrief can infer it from its parts.
- *Microphone.* At most one message that changes the status is pending, only of
  the session that is current, and the last one told is what has been announced;
  every older socket is closing, closed or was never opened. That what is
  sent spans what was heard is arithmetic on sums of samples, for frames of any
  length.
- *Boots, loads and timers.* A page whose handlers are registered twice would have
  to pass the step that wires them twice, and it can fail there only by a trap, in
  one attempt of two; dependencies, hooks and timers of `DemoRuntime` together are
  no more than what the shell added and what came late.
- *Counters and memory.* `loader_hp` is a linear function of the counter, from
  which the last click that fits follows; a growth is compared with the limit by
  bounds on the rounded sizes.
- *Files.* `FilesImplementAbstract` is the refinement, step by step: what a file
  is to a program is the first `usedBytes` of its contents (`SoundFile`: the rest
  is zero, which a later write beyond the end relies on), which descriptors share
  a position is which `shared` record they lead to, and a read or write in two
  pieces is one read or write. That an abstract free place is left whenever MEMFS
  finds a descriptor is by counting. A step that fails in the code is a step that
  changes nothing in the abstract specification, with the same answer.

**Induction.** The prover does not take a theorem with an operator as its
parameter, which is the form of the library's induction rules and of its theorems on
recursive functions. These lemmas have the same content in first-order form: the
property is a set (`NatSetInduction`, `BoundedInduction`), the step of a recursive
definition a function on pairs (`PrimitiveRecursion`, `TypedRecursion`), all from
the least element of a set of numbers (`LeastOf`).

What is only model-checked: liveness, which is outside the prover
(`AllocTerminates`, `MarkTerminates`, the tasks' `EveryTaskFinishes`, and
`WhatBeginsEnds` of the hosts), and the run `content`: `Infix`, `DemoTree` and
`DemoTerminal` have recursive operators, which the prover does not take, and
`KakaTrench` and `KakaScenery` compute with fixed tables of the game, of which
TLC sees every entry they reach. The three runs that find the code at
odds with what is said of it are counterexamples, of which there is nothing to
prove.

## 6. Not modelled

- The S1 machine itself and its macros; the parser, loader and RAW assembler;
  the bound references of P4.
- Arithmetic natives and the invocation of RAW fragments: on the return stack
  they are sub-expressions that save 1 or 3 cells; on the data stack they pop
  operands and push one value.
- Datatypes, strings and managed blocks (M3), the debugger, `r0.c`.
- In the hosts: what a picture looks like (projection, colours, sprites, fades,
  gauges, text), the level meter of the microphone page, typesetting, escaping of
  output, and the sounds other than the engine and the end chime. The Glon
  programs of the pages beyond what the hosts depend on: foes, bolts and waves of
  the game, the car-following rules, the tuple space.
- In `web/demo.js`: chdir, stat, readdir, mmap, lazy and preloaded
  files, syncfs, the build's environment, and what it has for Node and workers
  (`docs/demo.js` is the same output again).
- Profilers, benchmarks, tests and vendored code.

`PROJECT.json` lists each under `components` with its reason.

## 7. Plan

Done: heap, marking, closures, contexts, activations, tasks, return stack, the
game, the pages and the Emscripten runtime; proofs of all safety properties and
refinements of the runtime and of the run `hosts`.

Corrected on the way, where a proof showed that a definition did not say what was
meant: two guards of the CASE that counts the ticks of a press in `KakaLoop.Run`
overlapped, and which of them counts was left to CASE; in `KakaMission` the cue
of the target had the same flaw. `Horizon` of `CanvasTrace` was that of four
moves, whatever the trace, and is that of its moves. The types of `CanvasTrace`,
`RunBoxes` and `DemoRuntime` are exact now, and the orders in which a render
shows its corpses (`KakaGhosts`) are functions instead of a recursive operator.

What is left, most important first:

1. `Worlds`: Activations' registers (RV_SITE, RV_NVALS) in several tasks, with
   yields between elements; `spin`; the sixth spawn and a yield outside a task.
2. `Lexical`: the loader's scopes and LOAD-LEX against the lookup by name of
   `Contexts`; site ids.
3. `Runs`: the run boundary of `r0_s1_run` with the contents of the managed heap
   (REG_HP reset, global context kept), against an abstract session in which a
   global binding lasts.
4. `Machine`: the seven opcodes with memory-mapped registers and the macros,
   refining a machine with two stacks.
5. `Series`: strings and managed blocks of M3 with their growth.
6. The tuple space of the demos; chdir, and the names of open files after a rename.

Proofs to add, all of `content`: `NamesLeadToNodes` of `DemoTree` and
`TextGetsThrough` of `DemoTerminal`, with their recursion as functions.
