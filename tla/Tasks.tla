------------------------------- MODULE Tasks -------------------------------
(***************************************************************************)
(* The multitasking library M1: tasks are register images in a fixed table,*)
(* each with its own data and return stack in the arena; yield, run-tasks  *)
(* and task-finish are raw fragments that copy eight registers.  The model *)
(* has the library's fragments, the evaluator's steps that move a world's  *)
(* stacks and contexts, and the collector's treatment of all the worlds.   *)
(*                                                                         *)
(* An activation is one cell of a return stack: its context (one local)    *)
(* and its frame (saved SP, context and previous frame).  A popped cell    *)
(* keeps its contents until it is pushed over, as the memory does.         *)
(***************************************************************************)
EXTENDS Integers, Sequences, FiniteSets

CONSTANTS NTasks,            \* M1_MAX_TASKS
          Objects,           \* collected objects (closures)
          None,              \* the R0 none
          RSCells, DSCells,  \* bounds: activations and operands per world
          MainOps, TaskOps,  \* bounds: operations the program, a task begins
          SchedulerLocals,   \* may functions of the main program hold objects in locals?
          BaseLocals         \* may a task's outermost level assign locals?

ASSUME TasksAssumption ==
    /\ NTasks \in Nat \ {0} /\ RSCells \in Nat \ {0} /\ DSCells \in Nat
    /\ MainOps \in Nat /\ TaskOps \in Nat /\ None \notin Objects
    /\ {SchedulerLocals, BaseLocals} \subseteq BOOLEAN

Slots  == 0 .. NTasks - 1
Main   == -1
Worlds == Slots \cup {Main}
Values == Objects \cup {None}
Global == <<Main, 0>>        \* the global context; as a frame, the null pointer
Addresses == {Global} \cup (Worlds \X (1 .. RSCells))

Activations == [val : Values, sp : 0 .. DSCells, saved : Addresses, below : Addresses]

(* The registers a context switch moves: REG_SP and REG_RP point into the  *)
(* stacks of world home; pc stands for REG_IP, RV_CUR, RV_END and RV_BLK.  *)
Images == [home : Worlds, pc : 0 .. MainOps + TaskOps, sp : 0 .. DSCells, rp : 0 .. RSCells,
           ctx : Addresses, frame : Addresses]

VARIABLES reg,       \* the machine's registers
          rec,       \* task records (register part)
          state,     \* task records (TREC_STATE)
          sched,     \* M1_SCHED_REC
          cur,       \* M1_CUR_TASK
          cursor,    \* M1_CURSOR
          scan,      \* the scheduler loop: on, S7 (at) and S8 (count)
          ds, rs,    \* the data and return stacks, live part and above it
          global,    \* the global context's binding
          heap,      \* the allocated objects
          passed     \* history: dispatches since the slot was spawned or dispatched

vars == <<reg, rec, state, sched, cur, cursor, scan, ds, rs, global, heap, passed>>
world == <<rec, state, sched, cur, cursor, scan, passed>>

Start(home, ctx) == [home |-> home, pc |-> 0, sp |-> 0, rp |-> 0,
                     ctx |-> ctx, frame |-> Global]
Off == [on |-> FALSE, at |-> 0, count |-> 0]

(* The driver seeds the cursor and marks every slot empty. *)
Init == /\ reg = Start(Main, Global)
        /\ rec = [s \in Slots |-> Start(s, Global)]
        /\ state = [s \in Slots |-> "empty"]
        /\ sched = Start(Main, Global)
        /\ cur = 0 /\ cursor = 0
        /\ scan = Off
        /\ ds = [w \in Worlds |-> [i \in 1 .. DSCells |-> None]]
        /\ rs = [w \in Worlds |-> [i \in 1 .. RSCells |->
                    [val |-> None, sp |-> 0, saved |-> Global, below |-> Global]]]
        /\ global = None
        /\ heap = {}
        /\ passed = [s \in Slots |-> 0]

-----------------------------------------------------------------------------
(* Evaluation in the world the registers describe. *)

Running == ~scan.on
Begin(r) == [r EXCEPT !.pc = @ + 1]
MayBegin == Running /\ reg.pc < (IF reg.home = Main THEN MainOps ELSE TaskOps)

Local(r) == IF r.ctx = Global THEN global ELSE rs[r.ctx[1]][r.ctx[2]].val

(* Which local the program uses: its own function's, the global binding,   *)
(* or, for a task outside any function, whatever RV_CTX was at its spawn.  *)
UsesLocal == /\ reg.home = Main /\ reg.rp > 0 => SchedulerLocals
             /\ reg.home # Main /\ reg.rp = 0 => BaseLocals

Assign(v) ==
    IF reg.ctx = Global
    THEN global' = v /\ UNCHANGED rs
    ELSE rs' = [rs EXCEPT ![reg.ctx[1]][reg.ctx[2]].val = v] /\ UNCHANGED global

(* A function whose body allocates a closure assigns it. *)
Store(o) == /\ MayBegin
            /\ UsesLocal
            /\ o \notin heap
            /\ heap' = heap \cup {o}
            /\ Assign(o)
            /\ reg' = Begin(reg)
            /\ UNCHANGED <<world, ds>>

Clear == /\ MayBegin
         /\ UsesLocal
         /\ Assign(None)
         /\ reg' = Begin(reg)
         /\ UNCHANGED <<world, ds, heap>>

(* A pending operand is the value of the local or of the global binding. *)
Hold(v) == /\ MayBegin
           /\ reg.sp < DSCells
           /\ v \in Objects
           /\ v = global \/ (UsesLocal /\ v = Local(reg))
           /\ ds' = [ds EXCEPT ![reg.home][reg.sp + 1] = v]
           /\ reg' = [Begin(reg) EXCEPT !.sp = @ + 1]
           /\ UNCHANGED <<world, rs, global, heap>>

(* The operands of the current activation lie above its FRAME_SP. *)
Mark(r) == IF r.frame = Global THEN 0 ELSE rs[r.frame[1]][r.frame[2]].sp

Consume == /\ Running
           /\ reg.sp > Mark(reg)
           /\ reg' = [reg EXCEPT !.sp = @ - 1]
           /\ UNCHANGED <<world, ds, rs, global, heap>>

Push(r) == rs' = [rs EXCEPT ![r.home][r.rp + 1] =
                     [val |-> None, sp |-> r.sp, saved |-> r.ctx, below |-> r.frame]]

Call == /\ MayBegin
        /\ reg.rp < RSCells
        /\ Push(reg)
        /\ reg' = [Begin(reg) EXCEPT !.rp = @ + 1, !.ctx = <<reg.home, reg.rp + 1>>,
                                     !.frame = <<reg.home, reg.rp + 1>>]
        /\ UNCHANGED <<world, ds, global, heap>>

Return == /\ Running
          /\ reg.frame # Global
          /\ LET w == reg.frame[1]
                 a == rs[w][reg.frame[2]]
             IN reg' = [reg EXCEPT !.home = w, !.sp = a.sp, !.rp = reg.frame[2] - 1,
                                   !.ctx = a.saved, !.frame = a.below]
          /\ UNCHANGED <<world, ds, rs, global, heap>>

-----------------------------------------------------------------------------
(* The library. *)

(* spawn is an R0 function: mnew-task runs in its activation and captures  *)
(* that context as the task's; then spawn returns and pops it.             *)
Spawn == /\ MayBegin
         /\ reg.rp < RSCells
         /\ Push(reg)
         /\ reg' = Begin(reg)
         /\ LET empty == {s \in Slots : state[s] = "empty"}
                s == CHOOSE s \in empty : \A t \in empty : s <= t
            IN IF empty = {}
               THEN UNCHANGED <<rec, state, passed>>      \* the handle is -1
               ELSE /\ rec' = [rec EXCEPT ![s] = Start(s, <<reg.home, reg.rp + 1>>)]
                    /\ state' = [state EXCEPT ![s] = "runnable"]
                    /\ passed' = [passed EXCEPT ![s] = 0]
         /\ UNCHANGED <<sched, cur, cursor, scan, ds, global, heap>>

(* The resume point of run-tasks stores the scheduler's registers again and *)
(* starts a scan at the cursor.                                             *)
Rescan(r) == /\ reg' = r
             /\ sched' = r
             /\ scan' = [on |-> TRUE, at |-> cursor, count |-> 0]

(* Only the main program calls run-tasks: the fragment has no guard, and a *)
(* task's call would store the task in the scheduler's one record.         *)
RunTasks == /\ MayBegin
            /\ reg.home = Main
            /\ Rescan(Begin(reg))
            /\ UNCHANGED <<rec, state, cur, cursor, ds, rs, global, heap, passed>>

(* mutant: yield saves everything but RV_FRAME. *)
YieldKeepsFrame == /\ MayBegin
                   /\ reg.home # Main
                   /\ rec' = [rec EXCEPT ![cur] = [Begin(reg) EXCEPT !.frame = rec[cur].frame]]
                   /\ Rescan(sched)
                   /\ UNCHANGED <<state, cur, cursor, ds, rs, global, heap, passed>>

(* mutant: yield saves everything but REG_SP. *)
YieldKeepsSP == /\ MayBegin
                /\ reg.home # Main
                /\ rec' = [rec EXCEPT ![cur] = [Begin(reg) EXCEPT !.sp = rec[cur].sp]]
                /\ Rescan(sched)
                /\ UNCHANGED <<state, cur, cursor, ds, rs, global, heap, passed>>

Yield == /\ MayBegin
         /\ reg.home # Main
         /\ rec' = [rec EXCEPT ![cur] = Begin(reg)]
         /\ Rescan(sched)
         /\ UNCHANGED <<state, cur, cursor, ds, rs, global, heap, passed>>

(* mutant: a finished task stays runnable. *)
TaskFinishUnmarked == /\ Running
                      /\ reg.home # Main
                      /\ reg.rp = 0
                      /\ Rescan(sched)
                      /\ UNCHANGED <<rec, state, cur, cursor, ds, rs, global, heap, passed>>

TaskFinish == /\ Running
              /\ reg.home # Main
              /\ reg.rp = 0
              /\ state' = [state EXCEPT ![cur] = "finished"]
              /\ Rescan(sched)
              /\ UNCHANGED <<rec, cur, cursor, ds, rs, global, heap, passed>>

(* mutant: the index does not wrap. *)
FollowingUnwrapped(i) == i + 1

Following(i) == (i + 1) % NTasks

Skip == /\ scan.on
        /\ scan.count < NTasks
        /\ state[scan.at] # "runnable"
        /\ scan' = [scan EXCEPT !.at = Following(@), !.count = @ + 1]
        /\ UNCHANGED <<reg, rec, state, sched, cur, cursor, ds, rs, global, heap, passed>>

(* mutant: the cursor stays at the slot that was dispatched. *)
DispatchSameAgain == /\ scan.on
                     /\ scan.count < NTasks
                     /\ state[scan.at] = "runnable"
                     /\ cur' = scan.at
                     /\ cursor' = scan.at
                     /\ reg' = rec[scan.at]
                     /\ scan' = Off
                     /\ passed' = [s \in Slots |-> IF s = scan.at \/ state[s] # "runnable"
                                                   THEN 0 ELSE passed[s] + 1]
                     /\ UNCHANGED <<rec, state, sched, ds, rs, global, heap>>

Dispatch == /\ scan.on
            /\ scan.count < NTasks
            /\ state[scan.at] = "runnable"
            /\ cur' = scan.at
            /\ cursor' = Following(scan.at)
            /\ reg' = rec[scan.at]
            /\ scan' = Off
            /\ passed' = [s \in Slots |-> IF s = scan.at \/ state[s] # "runnable"
                                          THEN 0 ELSE passed[s] + 1]
            /\ UNCHANGED <<rec, state, sched, ds, rs, global, heap>>

(* mutant: the last slot of the scan is not looked at. *)
DoneOneEarly == /\ scan.on
                /\ scan.count >= NTasks - 1
                /\ scan' = Off
                /\ UNCHANGED <<reg, rec, state, sched, cur, cursor, ds, rs, global, heap, passed>>

Done == /\ scan.on
        /\ scan.count = NTasks
        /\ scan' = Off
        /\ UNCHANGED <<reg, rec, state, sched, cur, cursor, ds, rs, global, heap, passed>>

-----------------------------------------------------------------------------
(* The collector's roots. *)

(* RV_CTX and the frame chain: every saved context.  The parent of each    *)
(* context is the global one.                                              *)
Contexts(r) ==
    LET chain[n \in 0 .. RSCells * Cardinality(Worlds)] ==
            IF n = 0 THEN <<r.frame, {r.ctx}>>
            ELSE LET f == chain[n - 1][1]
                 IN IF f = Global THEN chain[n - 1]
                    ELSE <<rs[f[1]][f[2]].below, chain[n - 1][2] \cup {rs[f[1]][f[2]].saved}>>
    IN chain[RSCells * Cardinality(Worlds)][2]

Locals(r)   == {rs[a[1]][a[2]].val : a \in Contexts(r) \ {Global}}
Operands(w, sp) == {ds[w][i] : i \in 1 .. sp}

(* mutant: the records of suspended tasks are not roots. *)
RootsOfRunningWorld == {global} \cup Locals(reg) \cup Operands(reg.home, reg.sp)
                         \cup (IF reg.home = Main THEN {} ELSE Operands(Main, sched.sp))

Roots == {global} \cup Locals(reg)
         \cup Operands(reg.home, reg.sp)
         \cup (IF reg.home = Main THEN {} ELSE Operands(Main, sched.sp))
         \cup UNION {Locals(rec[s]) \cup Operands(s, rec[s].sp)
                        : s \in {s \in Slots : state[s] = "runnable"}}

Collect == /\ MayBegin
           /\ heap' = heap \cap Roots
           /\ reg' = Begin(reg)
           /\ UNCHANGED <<world, ds, rs, global>>

Next == \/ \E o \in Objects : Store(o) \/ Hold(o)
        \/ Clear \/ Consume \/ Call \/ Return \/ Collect
        \/ Spawn \/ RunTasks \/ Yield \/ TaskFinish
        \/ Skip \/ Dispatch \/ Done

(* The machine's loop always executes the next instruction. *)
Spec == Init /\ [][Next]_vars /\ WF_vars(Next)

-----------------------------------------------------------------------------
(* Every variable has its type: the registers, records and stacks the raw  *)
(* fragments and the evaluator write.                                      *)
TypeOK == /\ reg \in Images /\ sched \in Images
          /\ rec \in [Slots -> Images]
          /\ state \in [Slots -> {"empty", "runnable", "finished"}]
          /\ cur \in Slots /\ cursor \in Slots
          /\ scan \in [on : BOOLEAN, at : Slots, count : 0 .. NTasks]
          /\ ds \in [Worlds -> [1 .. DSCells -> Values]]
          /\ rs \in [Worlds -> [1 .. RSCells -> Activations]]
          /\ global \in Values
          /\ heap \subseteq Objects
          /\ passed \in [Slots -> Nat]

(* The register image of a world: the registers while it runs, else its record. *)
Suspended(w) == IF w = Main THEN sched ELSE rec[w]
Image(w) == IF ~scan.on /\ reg.home = w THEN reg ELSE Suspended(w)
Alive(w) == w = Main \/ state[w] = "runnable"

(* A world's registers point into its own stacks: its frame is its topmost *)
(* activation, and the activations below it are linked to each other.      *)
OwnStack(w) ==
    LET r == Image(w)
        Top(n) == IF n = 0 THEN Global ELSE <<w, n>>
    IN /\ r.home = w
       /\ r.frame = Top(r.rp)
       /\ r.rp > 0 => r.ctx = <<w, r.rp>>
       /\ \A n \in 1 .. r.rp :
             /\ rs[w][n].below = Top(n - 1)
             /\ rs[w][n].sp <= r.sp
             /\ n > 1 => rs[w][n].saved = <<w, n - 1>>

(* Whatever order tasks yield, finish and spawn in, every world that can   *)
(* still run finds its own stack, undisturbed, in its register image.      *)
WorldsOwnTheirStacks == \A w \in Worlds : Alive(w) => OwnStack(w)

(* Round robin: while a task waits, no more than NTasks - 1 dispatches go  *)
(* to other tasks, also when tasks are spawned and finish meanwhile.       *)
BoundedWaiting == \A s \in Slots : state[s] = "runnable" => passed[s] < NTasks

(* A scan ends by resuming a runnable task from its record; it gives       *)
(* control back to the caller of run-tasks only when no task can run: from *)
(* the cursor round, it has seen every slot.                               *)
ReturnsWhenIdle ==
    [][scan.on /\ ~scan'.on
         => \/ state[cur'] = "runnable" /\ reg' = rec[cur']
            \/ \A s \in Slots : state[s] # "runnable"]_vars

(* A collection in any world keeps what a suspended or running task's      *)
(* locals and operands, the main program's operands and the global context *)
(* hold.                                                                   *)
TaskObjectsKept ==
    ({global} \cup Operands(Main, Image(Main).sp)
       \cup UNION {Locals(Image(s)) \cup Operands(s, Image(s).sp)
                     : s \in {s \in Slots : Alive(s)}}) \ {None} \subseteq heap

(* Every world keeps its stacks and the objects it holds. *)
WorldsAreSound == TypeOK /\ WorldsOwnTheirStacks /\ TaskObjectsKept

(* "Managed references inside known RAW machinery (M1 task records,        *)
(* scheduler record, RV cells) are included in the root set": also what    *)
(* the locals of the function that called run-tasks hold is kept while     *)
(* tasks run.  Refuted with SchedulerLocals = TRUE (README, Limits).       *)
SchedulerObjectsKept == Locals(Image(Main)) \ {None} \subseteq heap

(* "Each task has independent locals": what one world does never changes   *)
(* the local that a waiting world sees.  Refuted with BaseLocals = TRUE    *)
(* (README, Limits of the code).                                           *)
IndependentLocals ==
    [][\A w \in Worlds :
          /\ Alive(w) /\ Alive(w)'
          /\ Running /\ Running' /\ reg.home # w
          /\ Image(w).ctx # Global
          => Local(Suspended(w))' = Local(Suspended(w))]_vars

(* Every task that is runnable when run-tasks is at work finishes, and     *)
(* run-tasks does not return before.                                       *)
EveryTaskFinishes ==
    /\ ReturnsWhenIdle
    /\ \A s \in Slots : (scan.on /\ state[s] = "runnable") ~> state[s] = "finished"

(* The registers, records and stacks implement worlds with private state:  *)
(* what a world sees after a switch is what it left.                       *)
View(w) == LET r == Image(w)
           IN [pc |-> r.pc,
               locals |-> [n \in 1 .. r.rp |-> rs[w][n].val],
               held |-> [n \in 1 .. r.sp |-> ds[w][n]]]

Abstract == INSTANCE AbstractTasks
    WITH world <- [w \in Worlds |-> View(w)],
         status <- state,
         running <- IF scan.on THEN << >> ELSE <<reg.home>>

ImplementsAbstractTasks == Abstract!Spec

=============================================================================
