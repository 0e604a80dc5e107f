---------------------------- MODULE TasksProofs ----------------------------
(***************************************************************************)
(* For any number of task slots, with tasks spawned, finished and yielding *)
(* in any order.  Round robin: a runnable task waits for fewer than NTasks *)
(* dispatches of others, and run-tasks returns only when none can run.     *)
(* Soundness: every world finds its own stacks, and no collection takes    *)
(* what a task holds.  Refinement: the register images, the records and    *)
(* the shared stacks implement worlds with private state.                  *)
(***************************************************************************)
EXTENDS Tasks, Induction, FiniteSetTheorems, TLAPS

(* How many slots the scan looks at before slot s, starting at slot c. *)
Distance(c, s) == IF s >= c THEN s - c ELSE s - c + NTasks

SchedulerTypes == /\ cur \in Slots /\ cursor \in Slots
                  /\ scan \in [on : BOOLEAN, at : Slots, count : 0 .. NTasks]
                  /\ state \in [Slots -> {"empty", "runnable", "finished"}]
                  /\ passed \in [Slots -> Nat]

(* The scan has seen count slots from the cursor on, none of them runnable. *)
ScanIsAhead == scan.on => /\ scan.count < NTasks => Distance(cursor, scan.at) = scan.count
                          /\ \A s \in Slots : state[s] = "runnable"
                                                => scan.count <= Distance(cursor, s)

(* Each dispatch that passes a task over brings the cursor nearer to it. *)
NearerEachTime == \A s \in Slots : state[s] = "runnable"
                                      => passed[s] + Distance(cursor, s) < NTasks

SInv == SchedulerTypes /\ ScanIsAhead /\ NearerEachTime

(* The slots in order, the first after the last. *)
LEMMA FollowingSlot ==
  ASSUME NEW i \in Slots
  PROVE  Following(i) = IF i = NTasks - 1 THEN 0 ELSE i + 1
  <1>1. NTasks \in Nat \ {0} /\ i \in Int /\ 0 <= i /\ i <= NTasks - 1
    BY TasksAssumption DEF Slots
  <1>2. CASE i = NTasks - 1
    BY <1>1, <1>2 DEF Following
  <1>3. CASE i # NTasks - 1
    BY <1>1, <1>3 DEF Following
  <1> QED
    BY <1>2, <1>3

(* Every slot is less than NTasks slots ahead of every other.              *)
LEMMA DistanceBound ==
  ASSUME NEW c \in Slots, NEW s \in Slots
  PROVE  /\ Distance(c, s) \in Int /\ 0 <= Distance(c, s) /\ Distance(c, s) < NTasks
         /\ Distance(c, c) = 0
         /\ NTasks \in Nat \ {0}
  BY TasksAssumption DEF Slots, Distance

(* One slot on is one nearer, to every slot but the one that is passed. *)
LEMMA DistanceOfNext ==
  ASSUME NEW c \in Slots, NEW a \in Slots, NEW s \in Slots
  PROVE  /\ Following(a) \in Slots
         /\ Distance(c, a) + 1 < NTasks => Distance(c, Following(a)) = Distance(c, a) + 1
         /\ s # a /\ Distance(c, a) <= Distance(c, s)
              => Distance(Following(a), s) < Distance(c, s)
  BY FollowingSlot, TasksAssumption DEF Slots, Distance

(* At first no slot is taken and no scan is on.                            *)
LEMMA InitSInv == Init => SInv
  <1> SUFFICES ASSUME Init PROVE SInv
    OBVIOUS
  <1>1. NTasks \in Nat \ {0} /\ 0 \in Slots
    BY TasksAssumption DEF Slots
  <1>2. SchedulerTypes
    BY <1>1 DEF Init, SchedulerTypes, Off
  <1>3. ScanIsAhead /\ NearerEachTime
    BY DEF Init, ScanIsAhead, NearerEachTime, Off
  <1> QED
    BY <1>2, <1>3 DEF SInv

(* A step of the evaluator leaves the scheduler alone. *)
LEMMA EvaluatorKeepsSInv ==
  ASSUME SInv, UNCHANGED <<state, cur, cursor, scan, passed>>
  PROVE  SInv'
  BY DEF SInv, SchedulerTypes, ScanIsAhead, NearerEachTime, Distance

(* A scan starts at the cursor, having seen nothing. *)
LEMMA RescanKeepsSInv ==
  ASSUME SInv, NEW r, Rescan(r), UNCHANGED <<cur, cursor, passed>>,
         state' \in [Slots -> {"empty", "runnable", "finished"}],
         \A s \in Slots : state'[s] = "runnable" => state[s] = "runnable"
  PROVE  SInv'
  <1>1. /\ scan' = [on |-> TRUE, at |-> cursor, count |-> 0]
        /\ cursor \in Slots /\ NTasks \in Nat
    BY TasksAssumption DEF Rescan, SInv, SchedulerTypes
  <1>2. SchedulerTypes'
    BY <1>1 DEF SInv, SchedulerTypes
  <1>3. ScanIsAhead'
    BY <1>1, DistanceBound DEF ScanIsAhead, Distance
  <1>4. NearerEachTime'
    BY DEF SInv, NearerEachTime, Distance
  <1> QED
    BY <1>2, <1>3, <1>4 DEF SInv

(* A new task has been passed over by nobody. *)
LEMMA SpawnKeepsSInv ==
  ASSUME SInv, Spawn
  PROVE  SInv'
  <1> DEFINE empty == {s \in Slots : state[s] = "empty"}
             new == CHOOSE s \in empty : \A t \in empty : s <= t
  <1>1. scan.on = FALSE /\ UNCHANGED <<cur, cursor, scan>>
    BY DEF Spawn, MayBegin, Running, SInv, SchedulerTypes
  <1>2. CASE empty = {}
    BY <1>1, <1>2, EvaluatorKeepsSInv DEF Spawn
  <1>3. CASE empty # {}
    <2>1. /\ state' = [state EXCEPT ![new] = "runnable"]
          /\ passed' = [passed EXCEPT ![new] = 0]
      BY <1>3 DEF Spawn
    <2> HIDE DEF new
    <2>2. SchedulerTypes'
      BY <1>1, <2>1 DEF SInv, SchedulerTypes
    <2>3. ScanIsAhead'
      BY <1>1 DEF ScanIsAhead
    <2>4. NearerEachTime'
      <3> SUFFICES ASSUME NEW s \in Slots, state'[s] = "runnable"
                   PROVE  passed'[s] + Distance(cursor, s) < NTasks
        BY <1>1 DEF NearerEachTime, Distance
      <3>1. /\ Distance(cursor, s) \in Int /\ Distance(cursor, s) < NTasks
        BY DistanceBound DEF SInv, SchedulerTypes
      <3>2. CASE s = new
        BY <2>1, <3>1, <3>2 DEF SInv, SchedulerTypes
      <3>3. CASE s # new
        BY <2>1, <3>3 DEF SInv, SchedulerTypes, NearerEachTime
      <3> QED
        BY <3>2, <3>3
    <2> QED
      BY <2>2, <2>3, <2>4 DEF SInv
  <1> QED
    BY <1>2, <1>3

(* A skipped slot cannot run, and the scan is one slot further.            *)
LEMMA SkipKeepsSInv ==
  ASSUME SInv, Skip
  PROVE  SInv'
  <1> DEFINE at == scan.at
             count == scan.count
  <1>1. /\ scan.on /\ at \in Slots /\ count \in 0 .. NTasks /\ count < NTasks
        /\ state[at] # "runnable" /\ cursor \in Slots
        /\ scan' = [scan EXCEPT !.at = Following(at), !.count = count + 1]
        /\ UNCHANGED <<state, cur, cursor, passed>>
    BY DEF Skip, SInv, SchedulerTypes
  <1>2. Distance(cursor, at) = count
    BY <1>1 DEF SInv, ScanIsAhead
  <1>3. scan' = [on |-> TRUE, at |-> Following(at), count |-> count + 1]
    BY <1>1 DEF SInv, SchedulerTypes
  <1>4. NTasks \in Nat \ {0} /\ Following(at) \in Slots /\ count + 1 \in 0 .. NTasks
    BY <1>1, DistanceOfNext, TasksAssumption
  <1> HIDE DEF at, count
  <1>5. SchedulerTypes'
    BY <1>1, <1>3, <1>4 DEF SInv, SchedulerTypes
  <1>6. NearerEachTime'
    BY <1>1 DEF SInv, NearerEachTime, Distance
  <1>7. count + 1 < NTasks => Distance(cursor, Following(at)) = count + 1
    BY <1>1, <1>2, DistanceOfNext
  <1>8. ASSUME NEW s \in Slots, state[s] = "runnable"
        PROVE  count + 1 <= Distance(cursor, s)
    <2>1. count <= Distance(cursor, s)
      BY <1>1, <1>8 DEF SInv, ScanIsAhead, count
    <2>2. Distance(cursor, s) # Distance(cursor, at)
      BY <1>1, <1>8, TasksAssumption DEF Slots, Distance
    <2>3. Distance(cursor, s) \in Int /\ count \in Int
      BY <1>1, DistanceBound
    <2> QED
      BY <1>2, <2>1, <2>2, <2>3
  <1>9. ScanIsAhead'
    BY <1>1, <1>3, <1>7, <1>8 DEF ScanIsAhead, Distance
  <1> QED
    BY <1>5, <1>6, <1>9 DEF SInv

(* The cursor moves behind the dispatched slot, past no runnable one. *)
LEMMA DispatchKeepsSInv ==
  ASSUME SInv, Dispatch
  PROVE  SInv'
  <1> DEFINE at == scan.at
  <1>1. /\ scan.on /\ at \in Slots /\ scan.count < NTasks /\ scan.count \in Nat
        /\ state[at] = "runnable" /\ cursor \in Slots /\ NTasks \in Nat
        /\ cursor' = Following(at) /\ cur' = at /\ scan' = Off /\ state' = state
        /\ passed' = [s \in Slots |-> IF s = at \/ state[s] # "runnable"
                                      THEN 0 ELSE passed[s] + 1]
    BY TasksAssumption DEF Dispatch, SInv, SchedulerTypes
  <1>2. Distance(cursor, at) = scan.count
    BY <1>1 DEF SInv, ScanIsAhead
  <1>3. Following(at) \in Slots
    BY <1>1, DistanceOfNext
  <1> HIDE DEF at
  <1>4. SchedulerTypes'
    BY <1>1, <1>3, TasksAssumption DEF SInv, SchedulerTypes, Off, Slots
  <1>5. ScanIsAhead'
    BY <1>1 DEF ScanIsAhead, Off
  <1>6. NearerEachTime'
    <2> SUFFICES ASSUME NEW s \in Slots, state[s] = "runnable"
                 PROVE  passed'[s] + Distance(Following(at), s) < NTasks
      BY <1>1 DEF NearerEachTime, Distance
    <2>1. /\ Distance(Following(at), s) \in Int /\ Distance(Following(at), s) < NTasks
          /\ Distance(cursor, s) \in Int
      BY <1>1, <1>3, DistanceBound
    <2>2. CASE s = at
      BY <1>1, <2>1, <2>2
    <2>3. CASE s # at
      <3>1. passed'[s] = passed[s] + 1 /\ passed[s] \in Nat
        BY <1>1, <2>3 DEF SInv, SchedulerTypes
      <3>2. Distance(cursor, at) <= Distance(cursor, s)
        BY <1>1, <1>2 DEF SInv, ScanIsAhead
      <3>3. Distance(Following(at), s) < Distance(cursor, s)
        BY <1>1, <2>3, <3>2, DistanceOfNext
      <3>4. passed[s] + Distance(cursor, s) < NTasks
        BY DEF SInv, NearerEachTime
      <3> QED
        BY <1>1, <2>1, <3>1, <3>3, <3>4
    <2> QED
      BY <2>2, <2>3
  <1> QED
    BY <1>4, <1>5, <1>6 DEF SInv

(* A scan that has seen every slot leaves the records alone.               *)
LEMMA DoneKeepsSInv ==
  ASSUME SInv, Done
  PROVE  SInv'
  <1>1. scan' = Off /\ UNCHANGED <<state, cur, cursor, passed>>
    BY DEF Done
  <1>2. SchedulerTypes'
    BY <1>1, TasksAssumption DEF SInv, SchedulerTypes, Off, Slots
  <1>3. ScanIsAhead' /\ NearerEachTime'
    BY <1>1 DEF SInv, ScanIsAhead, NearerEachTime, Off, Distance
  <1> QED
    BY <1>2, <1>3 DEF SInv

(* Every step keeps SInv.                                                  *)
LEMMA StepKeepsSInv ==
  ASSUME SInv, [Next]_vars
  PROVE  SInv'
  <1>1. ASSUME \/ UNCHANGED vars \/ Clear \/ Consume \/ Call \/ Return \/ Collect
               \/ \E o \in Objects : Store(o) \/ Hold(o)
        PROVE  SInv'
    BY <1>1, EvaluatorKeepsSInv
       DEF vars, world, Clear, Consume, Call, Return, Collect, Store, Hold
  <1>2. CASE Spawn
    BY <1>2, SpawnKeepsSInv
  <1>3. ASSUME RunTasks \/ Yield PROVE SInv'
    <2>1. PICK r : Rescan(r) /\ UNCHANGED <<state, cur, cursor, passed>>
      BY <1>3 DEF RunTasks, Yield
    <2> QED
      BY <2>1, RescanKeepsSInv DEF SInv, SchedulerTypes
  <1>4. CASE TaskFinish
    <2>1. Rescan(sched) /\ UNCHANGED <<cur, cursor, passed>>
      BY <1>4 DEF TaskFinish
    <2>2. state' = [state EXCEPT ![cur] = "finished"] /\ cur \in Slots
      BY <1>4 DEF TaskFinish, SInv, SchedulerTypes
    <2> QED
      BY <2>1, <2>2, RescanKeepsSInv DEF SInv, SchedulerTypes
  <1>5. CASE Skip
    BY <1>5, SkipKeepsSInv
  <1>6. CASE Dispatch
    BY <1>6, DispatchKeepsSInv
  <1>7. CASE Done
    BY <1>7, DoneKeepsSInv
  <1> QED
    BY <1>1, <1>2, <1>3, <1>4, <1>5, <1>6, <1>7 DEF Next

(* SInv is inductive: the scan and the cursor leave no runnable task out.  *)
THEOREM Invariance == Spec => []SInv
  <1>1. SInv /\ [Next]_vars => SInv'
    BY StepKeepsSInv
  <1> QED
    BY <1>1, InitSInv, PTL DEF Spec

(* A runnable task is dispatched after fewer than NTasks dispatches of     *)
(* others, however often tasks are spawned and finish in between.          *)
THEOREM RoundRobin == Spec => []BoundedWaiting
  <1>1. SInv => BoundedWaiting
    <2> SUFFICES ASSUME SInv, NEW s \in Slots, state[s] = "runnable"
                 PROVE  passed[s] < NTasks
      BY DEF BoundedWaiting
    <2>1. passed[s] \in Nat /\ passed[s] + Distance(cursor, s) < NTasks
      BY DEF SInv, SchedulerTypes, NearerEachTime
    <2>2. Distance(cursor, s) \in Int /\ 0 <= Distance(cursor, s) /\ NTasks \in Nat
      BY DistanceBound DEF SInv, SchedulerTypes
    <2> QED
      BY <2>1, <2>2
  <1> QED
    BY <1>1, Invariance, PTL

(* A scan of run-tasks ends in a runnable task, resumed from its record,   *)
(* or gives control back with no task runnable.                            *)
THEOREM RunTasksServesAll == Spec => ReturnsWhenIdle
  <1> DEFINE Ends == scan.on /\ ~scan'.on
                       => \/ state[cur'] = "runnable" /\ reg' = rec[cur']
                          \/ \A s \in Slots : state[s] # "runnable"
  <1>1. SInv /\ [Next]_vars => [Ends]_vars
    <2> SUFFICES ASSUME SInv, Next, scan.on, ~scan'.on
                 PROVE  \/ state[cur'] = "runnable" /\ reg' = rec[cur']
                        \/ \A s \in Slots : state[s] # "runnable"
      OBVIOUS
    <2>1. CASE Dispatch
      BY <2>1 DEF Dispatch
    <2>2. CASE Done
      <3>1. ASSUME NEW s \in Slots, state[s] = "runnable" PROVE FALSE
        <4>1. NTasks <= Distance(cursor, s)
          BY <2>2, <3>1 DEF Done, SInv, ScanIsAhead
        <4> QED
          BY <4>1, DistanceBound DEF SInv, SchedulerTypes
      <3> QED
        BY <3>1
    <2>3. ~Dispatch /\ ~Done => FALSE
      <3>1. ASSUME RunTasks \/ Yield \/ TaskFinish \/ Skip PROVE scan'.on
        <4>1. ASSUME RunTasks \/ Yield \/ TaskFinish PROVE scan'.on
          <5>1. scan' = [on |-> TRUE, at |-> cursor, count |-> 0]
            BY <4>1 DEF RunTasks, Yield, TaskFinish, Rescan
          <5> QED
            BY <5>1
        <4>2. ASSUME Skip PROVE scan'.on
          <5>1. /\ scan.on /\ scan \in [on : BOOLEAN, at : Slots, count : 0 .. NTasks]
                /\ scan' = [scan EXCEPT !.at = Following(@), !.count = @ + 1]
            BY <4>2 DEF Skip, SInv, SchedulerTypes
          <5> QED
            BY <5>1
        <4> QED
          BY <3>1, <4>1, <4>2
      <3>2. ASSUME \/ Clear \/ Consume \/ Call \/ Return \/ Collect \/ Spawn
                   \/ \E o \in Objects : Store(o) \/ Hold(o)
            PROVE  FALSE
        BY <3>2 DEF Clear, Consume, Call, Return, Collect, Spawn, Store, Hold, MayBegin, Running
      <3> QED
        BY <3>1, <3>2 DEF Next
    <2> QED
      BY <2>1, <2>2, <2>3
  <1> QED
    BY <1>1, Invariance, PTL DEF Spec, ReturnsWhenIdle

-----------------------------------------------------------------------------
(* Types.                                                                  *)

StackTypes == /\ reg \in Images /\ sched \in Images
              /\ rec \in [Slots -> Images]
              /\ ds \in [Worlds -> [1 .. DSCells -> Values]]
              /\ rs \in [Worlds -> [1 .. RSCells -> Activations]]
              /\ global \in Values
              /\ heap \subseteq Objects

(* What the assumption says of the sets the types are made of. *)
LEMMA Constants ==
  /\ NTasks \in Nat \ {0} /\ RSCells \in Nat \ {0} /\ DSCells \in Nat
  /\ MainOps \in Nat /\ TaskOps \in Nat
  /\ Main \in Worlds /\ Main \notin Slots /\ Slots \subseteq Worlds
  /\ Worlds = Slots \cup {Main} /\ Slots \subseteq Nat
  /\ Global \in Addresses /\ None \in Values /\ Objects \subseteq Values
  /\ \A w \in Worlds, n \in 1 .. RSCells : <<w, n>> \in Addresses
  /\ \A a \in Addresses : a # Global => a[1] \in Worlds /\ a[2] \in 1 .. RSCells
  /\ None \notin Objects
  <1>1. NTasks \in Nat \ {0} /\ RSCells \in Nat \ {0} /\ DSCells \in Nat
        /\ MainOps \in Nat /\ TaskOps \in Nat /\ None \notin Objects
    BY TasksAssumption
  <1>2. Main \notin Slots /\ Slots \subseteq Nat
    BY <1>1 DEF Main, Slots
  <1>3. Main \in Worlds /\ Worlds = Slots \cup {Main} /\ Slots \subseteq Worlds
    BY DEF Worlds
  <1>4. /\ Global \in Addresses
        /\ \A w \in Worlds, n \in 1 .. RSCells : <<w, n>> \in Addresses
        /\ \A a \in Addresses : a # Global => a[1] \in Worlds /\ a[2] \in 1 .. RSCells
    BY DEF Addresses
  <1> QED
    BY <1>1, <1>2, <1>3, <1>4 DEF Values

(* A fresh image is an image. *)
LEMMA StartImage ==
  ASSUME NEW w \in Worlds, NEW c \in Addresses
  PROVE  Start(w, c) \in Images
  BY Constants DEF Start, Images

(* An operation that begins is counted within the bounds. *)
LEMMA BeginImage ==
  ASSUME StackTypes, MayBegin
  PROVE  /\ Begin(reg) \in Images
         /\ Begin(reg).home = reg.home /\ Begin(reg).sp = reg.sp /\ Begin(reg).rp = reg.rp
         /\ Begin(reg).ctx = reg.ctx /\ Begin(reg).frame = reg.frame
         /\ Begin(reg).pc = reg.pc + 1
  <1>1. reg \in Images
    BY DEF StackTypes
  <1>2. reg.pc \in Nat /\ reg.pc + 1 \in 0 .. MainOps + TaskOps
    <2>1. reg.pc \in 0 .. MainOps + TaskOps
      BY <1>1 DEF Images
    <2>2. reg.pc < MainOps \/ reg.pc < TaskOps
      BY DEF MayBegin
    <2> QED
      BY <2>1, <2>2, Constants
  <1>3. Begin(reg) = [reg EXCEPT !.pc = reg.pc + 1]
    BY DEF Begin
  <1> QED
    BY <1>1, <1>2, <1>3 DEF Images

(* An activation that is pushed has its type. *)
LEMMA PushTypes ==
  ASSUME StackTypes, NEW r \in Images, r.rp < RSCells, Push(r)
  PROVE  /\ rs' \in [Worlds -> [1 .. RSCells -> Activations]]
         /\ rs'[r.home][r.rp + 1] = [val |-> None, sp |-> r.sp, saved |-> r.ctx, below |-> r.frame]
         /\ \A n \in 1 .. RSCells : n # r.rp + 1 => rs'[r.home][n] = rs[r.home][n]
         /\ \A w \in Worlds : w # r.home => rs'[w] = rs[w]
         /\ r.rp + 1 \in 1 .. RSCells
         /\ <<r.home, r.rp + 1>> \in Addresses
  <1> DEFINE a == [val |-> None, sp |-> r.sp, saved |-> r.ctx, below |-> r.frame]
  <1>1. /\ r.home \in Worlds /\ r.rp \in 0 .. RSCells /\ r.rp + 1 \in 1 .. RSCells
        /\ r.sp \in 0 .. DSCells /\ r.ctx \in Addresses /\ r.frame \in Addresses
    BY Constants DEF Images
  <1>2. a \in Activations
    BY <1>1, Constants DEF Activations
  <1>3. rs' = [rs EXCEPT ![r.home][r.rp + 1] = a]
    BY DEF Push
  <1> HIDE DEF a
  <1>4. rs \in [Worlds -> [1 .. RSCells -> Activations]]
    BY DEF StackTypes
  <1>5. rs' \in [Worlds -> [1 .. RSCells -> Activations]]
    BY <1>1, <1>2, <1>3, <1>4
  <1>6. rs'[r.home][r.rp + 1] = a
    BY <1>1, <1>3, <1>4
  <1>7. /\ \A n \in 1 .. RSCells : n # r.rp + 1 => rs'[r.home][n] = rs[r.home][n]
        /\ \A w \in Worlds : w # r.home => rs'[w] = rs[w]
    BY <1>1, <1>3, <1>4
  <1> QED
    BY <1>1, <1>5, <1>6, <1>7, Constants DEF a

(* An assignment changes the value of one cell, or of the global binding. *)
LEMMA AssignTypes ==
  ASSUME StackTypes, NEW v \in Values, Assign(v)
  PROVE  /\ rs' \in [Worlds -> [1 .. RSCells -> Activations]]
         /\ global' \in Values
         /\ reg.ctx = Global => global' = v /\ rs' = rs
         /\ reg.ctx # Global =>
              /\ global' = global
              /\ rs'[reg.ctx[1]][reg.ctx[2]].val = v
              /\ \A w \in Worlds, n \in 1 .. RSCells :
                    <<w, n>> # reg.ctx => rs'[w][n] = rs[w][n]
         /\ \A w \in Worlds, n \in 1 .. RSCells :
               /\ rs'[w][n].val \in {rs[w][n].val, v}
               /\ rs'[w][n].sp = rs[w][n].sp
               /\ rs'[w][n].saved = rs[w][n].saved /\ rs'[w][n].below = rs[w][n].below
  <1>1. reg.ctx \in Addresses /\ rs \in [Worlds -> [1 .. RSCells -> Activations]] /\ global \in Values
    BY DEF StackTypes, Images
  <1>2. CASE reg.ctx = Global
    BY <1>1, <1>2 DEF Assign
  <1>3. CASE reg.ctx # Global
    <2>1. PICK c, k : c = reg.ctx[1] /\ k = reg.ctx[2]
      OBVIOUS
    <2>2. c \in Worlds /\ k \in 1 .. RSCells /\ reg.ctx = <<c, k>>
      BY <1>1, <1>3, <2>1 DEF Addresses
    <2>3. rs' = [rs EXCEPT ![c][k].val = v] /\ global' = global
      BY <1>3, <2>1 DEF Assign
    <2>4. rs[c][k] \in Activations
      BY <1>1, <2>2
    <2> DEFINE b == [rs[c][k] EXCEPT !.val = v]
    <2>5. /\ b \in Activations /\ b.val = v
          /\ b.sp = rs[c][k].sp /\ b.saved = rs[c][k].saved /\ b.below = rs[c][k].below
      BY <2>4 DEF Activations
    <2>6. rs' = [rs EXCEPT ![c] = [rs[c] EXCEPT ![k] = b]]
      BY <2>3
    <2> HIDE DEF b
    <2>7. rs'[c][k] = b /\ rs' \in [Worlds -> [1 .. RSCells -> Activations]]
      BY <1>1, <2>2, <2>5, <2>6
    <2>8. ASSUME NEW w \in Worlds, NEW n \in 1 .. RSCells, <<w, n>> # <<c, k>>
          PROVE  rs'[w][n] = rs[w][n]
      BY <1>1, <2>2, <2>6, <2>8
    <2>9. ASSUME NEW w \in Worlds, NEW n \in 1 .. RSCells
          PROVE  /\ rs'[w][n].val \in {rs[w][n].val, v}
                 /\ rs'[w][n].sp = rs[w][n].sp
                 /\ rs'[w][n].saved = rs[w][n].saved /\ rs'[w][n].below = rs[w][n].below
      BY <2>5, <2>7, <2>8
    <2>10. rs'[reg.ctx[1]][reg.ctx[2]].val = v
      BY <2>1, <2>5, <2>7
    <2>11. \A w \in Worlds, n \in 1 .. RSCells : <<w, n>> # reg.ctx => rs'[w][n] = rs[w][n]
      BY <2>2, <2>8
    <2> QED
      BY <1>1, <1>3, <2>3, <2>7, <2>9, <2>10, <2>11
  <1> QED
    BY <1>2, <1>3

(* The operands of an activation begin within the stack. *)
LEMMA MarkType ==
  ASSUME StackTypes, NEW r \in Images
  PROVE  Mark(r) \in 0 .. DSCells
  <1>1. r.frame \in Addresses
    BY DEF Images
  <1>2. CASE r.frame = Global
    BY <1>2, Constants DEF Mark
  <1>3. CASE r.frame # Global
    <2>1. rs[r.frame[1]][r.frame[2]] \in Activations
      BY <1>1, <1>3, Constants DEF StackTypes
    <2> QED
      BY <1>3, <2>1 DEF Mark, Activations
  <1> QED
    BY <1>2, <1>3

(* What Call makes of the registers. *)
LEMMA CallTypes ==
  ASSUME StackTypes, Call
  PROVE  /\ reg' \in Images /\ reg'.home = reg.home /\ reg'.sp = reg.sp
         /\ reg'.rp = reg.rp + 1 /\ reg'.pc = reg.pc + 1
         /\ reg'.ctx = <<reg.home, reg.rp + 1>> /\ reg'.frame = <<reg.home, reg.rp + 1>>
  <1> DEFINE b == Begin(reg)
             k == reg.rp + 1
             c == <<reg.home, reg.rp + 1>>
  <1>1. MayBegin /\ reg.rp < RSCells /\ Push(reg) /\ reg \in Images
    BY DEF Call, StackTypes
  <1>2. /\ b \in Images /\ b.home = reg.home /\ b.sp = reg.sp /\ b.rp = reg.rp
        /\ b.pc = reg.pc + 1
    BY <1>1, BeginImage
  <1>3. c \in Addresses /\ k \in 0 .. RSCells
    <2>1. c \in Addresses /\ k \in 1 .. RSCells
      BY <1>1, PushTypes
    <2> QED
      BY <2>1, Constants
  <1>4. reg' = [b EXCEPT !.rp = k, !.ctx = c, !.frame = c]
    BY <1>2 DEF Call
  <1> HIDE DEF b, k, c
  <1>5. /\ reg' \in Images /\ reg'.home = b.home /\ reg'.sp = b.sp /\ reg'.rp = k
        /\ reg'.pc = b.pc /\ reg'.ctx = c /\ reg'.frame = c
    BY <1>2, <1>3, <1>4 DEF Images
  <1> QED
    BY <1>2, <1>5 DEF k, c

(* What Return makes of the registers. *)
LEMMA ReturnTypes ==
  ASSUME StackTypes, Return
  PROVE  /\ reg' \in Images
         /\ reg.frame[1] \in Worlds /\ reg.frame[2] \in 1 .. RSCells
         /\ rs[reg.frame[1]][reg.frame[2]] \in Activations
         /\ reg'.home = reg.frame[1] /\ reg'.rp = reg.frame[2] - 1
         /\ reg'.sp = rs[reg.frame[1]][reg.frame[2]].sp
         /\ reg'.ctx = rs[reg.frame[1]][reg.frame[2]].saved
         /\ reg'.frame = rs[reg.frame[1]][reg.frame[2]].below
         /\ reg'.pc = reg.pc
  <1> DEFINE w == reg.frame[1]
             k == reg.frame[2]
             a == rs[w][k]
  <1>1. reg \in Images /\ reg.frame \in Addresses
    BY DEF StackTypes, Images
  <1>2. w \in Worlds /\ k \in 1 .. RSCells
    BY <1>1, Constants DEF Return
  <1>3. a \in Activations
    BY <1>2 DEF StackTypes
  <1>4. reg' = [reg EXCEPT !.home = w, !.sp = a.sp, !.rp = k - 1, !.ctx = a.saved, !.frame = a.below]
    BY DEF Return
  <1> HIDE DEF w, k, a
  <1>5. k - 1 \in 0 .. RSCells
    BY <1>2, Constants
  <1>6. /\ a.sp \in 0 .. DSCells /\ a.saved \in Addresses /\ a.below \in Addresses
    BY <1>3 DEF Activations
  <1>7. /\ reg' \in Images /\ reg'.home = w /\ reg'.rp = k - 1 /\ reg'.sp = a.sp
        /\ reg'.ctx = a.saved /\ reg'.frame = a.below /\ reg'.pc = reg.pc
    BY <1>1, <1>2, <1>4, <1>5, <1>6 DEF Images
  <1> QED
    BY <1>2, <1>3, <1>7 DEF w, k, a

(* The stacks, the registers and the records keep their types. *)
LEMMA StepKeepsStackTypes ==
  ASSUME SInv, StackTypes, [Next]_vars
  PROVE  StackTypes'
  <1> USE Constants
  <1>1. CASE UNCHANGED vars
    BY <1>1 DEF vars, StackTypes
  <1>2. ASSUME NEW o \in Objects, Store(o) PROVE StackTypes'
    <2>1. Assign(o) /\ MayBegin /\ heap' = heap \cup {o} /\ reg' = Begin(reg)
          /\ UNCHANGED <<world, ds>>
      BY <1>2 DEF Store
    <2> QED
      BY <2>1, AssignTypes, BeginImage DEF StackTypes, world
  <1>3. CASE Clear
    <2>1. Assign(None) /\ MayBegin /\ reg' = Begin(reg) /\ UNCHANGED <<world, ds, heap>>
      BY <1>3 DEF Clear
    <2> QED
      BY <2>1, AssignTypes, BeginImage DEF StackTypes, world
  <1>4. ASSUME NEW o \in Objects, Hold(o) PROVE StackTypes'
    <2>1. /\ MayBegin /\ reg.sp < DSCells
          /\ ds' = [ds EXCEPT ![reg.home][reg.sp + 1] = o]
          /\ reg' = [Begin(reg) EXCEPT !.sp = reg.sp + 1]
          /\ UNCHANGED <<world, rs, global, heap>>
      BY <1>4, BeginImage DEF Hold
    <2>2. Begin(reg) \in Images /\ reg.sp + 1 \in 0 .. DSCells
      BY <2>1, BeginImage DEF StackTypes, Images
    <2>3. reg' \in Images
      BY <2>1, <2>2 DEF Images
    <2>4. ds' \in [Worlds -> [1 .. DSCells -> Values]]
      BY <2>1 DEF StackTypes
    <2> QED
      BY <2>1, <2>3, <2>4 DEF StackTypes, world
  <1>5. CASE Consume
    <2>1. reg.sp - 1 \in 0 .. DSCells
      BY <1>5, MarkType DEF Consume, StackTypes, Images
    <2>2. reg' = [reg EXCEPT !.sp = reg.sp - 1] /\ UNCHANGED <<world, ds, rs, global, heap>>
      BY <1>5 DEF Consume
    <2>3. reg' \in Images
      BY <2>1, <2>2 DEF StackTypes, Images
    <2> QED
      BY <2>2, <2>3 DEF StackTypes, world
  <1>6. CASE Call
    <2>1. /\ MayBegin /\ reg.rp < RSCells /\ Push(reg) /\ reg \in Images
          /\ reg' = [Begin(reg) EXCEPT !.rp = reg.rp + 1, !.ctx = <<reg.home, reg.rp + 1>>,
                                       !.frame = <<reg.home, reg.rp + 1>>]
          /\ UNCHANGED <<world, ds, global, heap>>
      BY <1>6, BeginImage DEF Call, StackTypes
    <2> QED
      BY <1>6, <2>1, CallTypes, PushTypes DEF StackTypes, world
  <1>7. CASE Return
    BY <1>7, ReturnTypes DEF Return, StackTypes, world
  <1>8. CASE Collect
    BY <1>8, BeginImage DEF Collect, StackTypes, world
  <1>9. CASE Spawn
    <2>1. /\ MayBegin /\ reg.rp < RSCells /\ Push(reg) /\ reg \in Images /\ reg' = Begin(reg)
          /\ UNCHANGED <<sched, ds, global, heap>>
      BY <1>9 DEF Spawn, StackTypes
    <2>2. rec' \in [Slots -> Images]
      <3> DEFINE empty == {s \in Slots : state[s] = "empty"}
                 new == CHOOSE s \in empty : \A t \in empty : s <= t
      <3>1. rec' = rec \/ rec' = [rec EXCEPT ![new] = Start(new, <<reg.home, reg.rp + 1>>)]
        BY <1>9 DEF Spawn
      <3>2. <<reg.home, reg.rp + 1>> \in Addresses
        BY <2>1, PushTypes
      <3> HIDE DEF new
      <3>3. rec \in [Slots -> Images]
        BY DEF StackTypes
      <3> QED
        BY <3>1, <3>2, <3>3, StartImage
    <2> QED
      BY <2>1, <2>2, PushTypes, BeginImage DEF StackTypes
  <1>10. CASE RunTasks
    BY <1>10, BeginImage DEF RunTasks, Rescan, StackTypes
  <1>11. CASE Yield
    <2>1. rec' = [rec EXCEPT ![cur] = Begin(reg)] /\ Begin(reg) \in Images
      BY <1>11, BeginImage DEF Yield
    <2> QED
      BY <1>11, <2>1 DEF Yield, Rescan, StackTypes
  <1>12. CASE TaskFinish
    BY <1>12 DEF TaskFinish, Rescan, StackTypes
  <1>13. CASE Skip \/ Done
    BY <1>13 DEF Skip, Done, StackTypes
  <1>14. CASE Dispatch
    BY <1>14 DEF Dispatch, StackTypes, SInv, SchedulerTypes
  <1> QED
    BY <1>1, <1>2, <1>3, <1>4, <1>5, <1>6, <1>7, <1>8, <1>9, <1>10, <1>11, <1>12, <1>13, <1>14
       DEF Next

(* Every variable keeps its type in every execution. *)
THEOREM TypeCorrectness == Spec => []TypeOK
  <1>1. Init => StackTypes
    BY Constants, StartImage DEF Init, StackTypes, Activations
  <1>2. SInv /\ StackTypes /\ [Next]_vars => StackTypes'
    BY StepKeepsStackTypes
  <1>3. SInv /\ StackTypes => TypeOK
    BY DEF SInv, SchedulerTypes, StackTypes, TypeOK
  <1> QED
    BY <1>1, <1>2, <1>3, Invariance, PTL DEF Spec

-----------------------------------------------------------------------------
(* Every world its own stack.                                              *)

(* Cell n of a world's return stack, as a context and as a frame. *)
Cell(w, n) == IF n = 0 THEN Global ELSE <<w, n>>

(* S holds, from its bottom to r's top, the activations of r's world, each *)
(* linked to the one below and begun with at least its operands; those of  *)
(* the main program lead to the global context.                            *)
Linked(w, r, S) ==
    /\ r.home = w
    /\ r.frame = Cell(w, r.rp)
    /\ r.rp > 0 => r.ctx = <<w, r.rp>>
    /\ \A n \in 1 .. r.rp : /\ S[n].below = Cell(w, n - 1)
                            /\ S[n].sp <= r.sp
                            /\ n > 1 => S[n].saved = <<w, n - 1>>
    /\ \A m \in 1 .. r.rp, n \in 1 .. r.rp : m <= n => S[m].sp <= S[n].sp
    /\ w = Main => IF r.rp = 0 THEN r.ctx = Global ELSE S[1].saved = Global

(* Which record belongs to which world, and whom the registers belong to. *)
Switched == /\ sched.home = Main /\ \A s \in Slots : rec[s].home = s
            /\ scan.on => reg = sched
            /\ Running /\ reg.home # Main => reg.home = cur /\ state[cur] = "runnable"

AllLinked == \A w \in Worlds : Alive(w) => Linked(w, Image(w), rs[w])

StackInv == SInv /\ StackTypes /\ Switched /\ AllLinked

(* While no scan is on, the registers are the image of a world that lives. *)
LEMMA RunningWorld ==
  ASSUME StackInv, Running
  PROVE  /\ reg \in Images /\ reg.home \in Worlds /\ Alive(reg.home)
         /\ Image(reg.home) = reg /\ Linked(reg.home, reg, rs[reg.home])
  <1>1. reg \in Images /\ reg.home \in Worlds
    BY DEF StackInv, StackTypes, Images
  <1>2. Alive(reg.home)
    BY DEF StackInv, Switched, Alive
  <1>3. Image(reg.home) = reg
    BY DEF Image, Running
  <1> QED
    BY <1>1, <1>2, <1>3 DEF StackInv, AllLinked

(* Every image is one, and those in the records are their worlds'. *)
LEMMA ImageTypes ==
  ASSUME StackInv, NEW w \in Worlds
  PROVE  Image(w) \in Images /\ Suspended(w) \in Images /\ Image(w).home = w /\ Suspended(w).home = w
  BY Constants DEF StackInv, StackTypes, Image, Suspended, Switched

(* A step of the evaluator changes the image of the running world only.    *)
LEMMA EvaluatorImages ==
  ASSUME StackInv, Running, UNCHANGED <<rec, sched, scan>>, reg'.home = reg.home, NEW w \in Worlds
  PROVE  Image(w)' = IF w = reg.home THEN reg' ELSE Image(w)
  BY DEF Image, Suspended, Running

(* So do run-tasks and yield, which save the registers.                    *)
LEMMA SwitchImages ==
  ASSUME StackInv, RunTasks \/ Yield, NEW w \in Worlds
  PROVE  Image(w)' = IF w = reg.home THEN Begin(reg) ELSE Image(w)
  <1>1. Running /\ scan'.on
    BY DEF RunTasks, Yield, MayBegin, Rescan
  <1>2. Image(w)' = Suspended(w)'
    BY <1>1 DEF Image
  <1>3. CASE RunTasks
    <2>1. reg.home = Main /\ sched' = Begin(reg) /\ rec' = rec
      BY <1>3 DEF RunTasks, Rescan
    <2> QED
      BY <1>1, <1>2, <2>1 DEF Image, Suspended, Running
  <1>4. CASE Yield
    <2>1. reg.home # Main /\ sched' = sched /\ rec' = [rec EXCEPT ![cur] = Begin(reg)]
      BY <1>4 DEF Yield, Rescan
    <2>2. reg.home = cur /\ cur \in Slots /\ rec \in [Slots -> Images]
      BY <1>1, <2>1 DEF StackInv, Switched, SInv, SchedulerTypes, StackTypes
    <2>3. Suspended(w)' = IF w = cur THEN Begin(reg) ELSE Suspended(w)
      BY <2>1, <2>2, Constants DEF Suspended
    <2> QED
      BY <1>1, <1>2, <2>1, <2>2, <2>3 DEF Image, Running
  <1> QED
    BY <1>3, <1>4

(* The task that finishes is no more alive; the others' images stay.       *)
LEMMA FinishImages ==
  ASSUME StackInv, TaskFinish, NEW w \in Worlds, Alive(w)'
  PROVE  Image(w)' = Image(w) /\ Alive(w) /\ w # reg.home
  <1>1. /\ Running /\ scan'.on /\ reg.home # Main /\ sched' = sched /\ rec' = rec
        /\ state' = [state EXCEPT ![cur] = "finished"]
    BY DEF TaskFinish, Rescan
  <1>2. reg.home = cur /\ cur \in Slots /\ state \in [Slots -> {"empty", "runnable", "finished"}]
    BY <1>1 DEF StackInv, Switched, SInv, SchedulerTypes
  <1>3. w # reg.home /\ Alive(w)
    BY <1>1, <1>2, Constants DEF Alive
  <1>4. Suspended(w)' = Suspended(w)
    BY <1>1 DEF Suspended
  <1> QED
    BY <1>1, <1>3, <1>4 DEF Image, Running

(* The scan moves images between records and registers and changes none.   *)
LEMMA ScanImages ==
  ASSUME StackInv, Skip \/ Dispatch \/ Done, NEW w \in Worlds
  PROVE  Image(w)' = Image(w) /\ Alive(w)' = Alive(w)
  <1>1. scan.on /\ UNCHANGED <<rec, sched, state>> /\ scan \in [on : BOOLEAN, at : Slots, count : 0 .. NTasks]
    BY DEF Skip, Dispatch, Done, StackInv, SInv, SchedulerTypes
  <1>2. Alive(w)' = Alive(w) /\ Suspended(w)' = Suspended(w) /\ Image(w) = Suspended(w)
    BY <1>1 DEF Alive, Suspended, Image
  <1>3. CASE Skip
    BY <1>1, <1>2, <1>3 DEF Skip, Image
  <1>4. CASE Done
    BY <1>1, <1>2, <1>4 DEF Done, Image, Off, StackInv, Switched, Suspended
  <1>5. CASE Dispatch
    <2>1. ~scan'.on /\ reg' = rec[scan.at] /\ scan.at \in Slots
      BY <1>1, <1>5 DEF Dispatch, Off
    <2>2. reg'.home = scan.at /\ Suspended(scan.at) = reg'
      BY <2>1, Constants DEF StackInv, Switched, Suspended
    <2> QED
      BY <1>2, <2>1, <2>2 DEF Image
  <1> QED
    BY <1>3, <1>4, <1>5

(* A spawned task begins with an empty stack; the spawning world goes on.  *)
LEMMA SpawnImages ==
  ASSUME StackInv, Spawn
  PROVE  \/ /\ state' = state
            /\ \A w \in Worlds : Image(w)' = IF w = reg.home THEN Begin(reg) ELSE Image(w)
         \/ \E s \in Slots :
               /\ state[s] = "empty" /\ state' = [state EXCEPT ![s] = "runnable"]
               /\ s # reg.home
               /\ \A w \in Worlds : Image(w)' = IF w = reg.home THEN Begin(reg)
                                                ELSE IF w = s THEN Start(s, <<reg.home, reg.rp + 1>>)
                                                ELSE Image(w)
  <1> DEFINE empty == {s \in Slots : state[s] = "empty"}
             new == CHOOSE s \in empty : \A t \in empty : s <= t
  <1>1. Running /\ UNCHANGED <<scan, sched>> /\ reg' = Begin(reg) /\ Begin(reg).home = reg.home
    BY BeginImage DEF Spawn, MayBegin, StackInv
  <1>2. CASE empty = {}
    <2>1. UNCHANGED <<rec, state>>
      BY <1>2 DEF Spawn
    <2>2. \A w \in Worlds : Image(w)' = IF w = reg.home THEN Begin(reg) ELSE Image(w)
      BY <1>1, <2>1, EvaluatorImages
    <2> QED
      BY <2>1, <2>2
  <1>3. CASE empty # {}
    <2>1. /\ rec' = [rec EXCEPT ![new] = Start(new, <<reg.home, reg.rp + 1>>)]
          /\ state' = [state EXCEPT ![new] = "runnable"]
      BY <1>3 DEF Spawn
    <2>2. new \in empty
      <3>1. PICK least \in empty : \A t \in empty : least <= t
        BY <1>3, LeastOf, Constants
      <3> QED
        BY <3>1
    <2> HIDE DEF new
    <2>3. new \in Slots /\ state[new] = "empty" /\ new # reg.home
      BY <1>1, <2>2, RunningWorld, Constants DEF Alive
    <2>4. ASSUME NEW w \in Worlds
          PROVE  Image(w)' = IF w = reg.home THEN Begin(reg)
                             ELSE IF w = new THEN Start(new, <<reg.home, reg.rp + 1>>)
                             ELSE Image(w)
      <3>1. Suspended(w)' = IF w = new THEN Start(new, <<reg.home, reg.rp + 1>>) ELSE Suspended(w)
        BY <2>1, <2>3, <1>1, Constants DEF Suspended, StackInv, StackTypes
      <3> QED
        BY <1>1, <3>1 DEF Image, Running
    <2> QED
      BY <2>1, <2>3, <2>4
  <1> QED
    BY <1>2, <1>3

(* The records stay their worlds' and the registers a living world's. *)
LEMMA StepKeepsSwitched ==
  ASSUME StackInv, [Next]_vars
  PROVE  Switched'
  <1>1. CASE UNCHANGED vars
    BY <1>1 DEF vars, StackInv, Switched, Running
  <1>2. ASSUME Running, UNCHANGED <<rec, sched, scan, state, cur>>, reg'.home = reg.home
        PROVE  Switched'
    BY <1>2 DEF StackInv, Switched, Running
  <1>3. ASSUME \/ Clear \/ Consume \/ Collect \/ Call
               \/ \E o \in Objects : Store(o) \/ Hold(o)
        PROVE  Switched'
    <2>1. Running /\ UNCHANGED <<rec, sched, scan, state, cur>>
      BY <1>3 DEF Clear, Consume, Collect, Call, Store, Hold, MayBegin, world
    <2>2. reg \in Images
      BY DEF StackInv, StackTypes
    <2>3. reg'.home = reg.home
      BY <1>3, <2>2, BeginImage, CallTypes
         DEF Clear, Consume, Collect, Store, Hold, StackInv, Images
    <2> QED
      BY <1>2, <2>1, <2>3
  <1>4. CASE Return
    <2>1. Running /\ UNCHANGED <<rec, sched, scan, state, cur>> /\ reg.frame # Global
      BY <1>4 DEF Return, world
    <2>2. reg.frame = Cell(reg.home, reg.rp) /\ reg.frame[1] = reg.home
      BY <2>1, RunningWorld DEF Linked, Cell
    <2>3. reg'.home = reg.home
      BY <1>4, <2>2, ReturnTypes DEF StackInv
    <2> QED
      BY <1>2, <2>1, <2>3
  <1>5. CASE Spawn
    <2>1. Running /\ UNCHANGED <<sched, scan, cur>> /\ reg' = Begin(reg) /\ Begin(reg).home = reg.home
      BY <1>5, BeginImage DEF Spawn, MayBegin, StackInv
    <2>2. \A s \in Slots : rec'[s].home = s
      <3>1. ASSUME NEW s \in Slots PROVE rec'[s].home = s
        <4> DEFINE c == <<reg.home, reg.rp + 1>>
                   new == CHOOSE x \in {y \in Slots : state[y] = "empty"} :
                             \A t \in {y \in Slots : state[y] = "empty"} : x <= t
        <4>1. rec' = rec \/ rec' = [rec EXCEPT ![new] = Start(new, c)]
          BY <1>5 DEF Spawn
        <4> HIDE DEF new, c
        <4>2. rec[s].home = s /\ s \in DOMAIN rec
          BY DEF StackInv, Switched, StackTypes
        <4>3. Start(new, c).home = new
          BY DEF Start
        <4> QED
          BY <4>1, <4>2, <4>3
      <3> QED
        BY <3>1
    <2>3. cur \in Slots /\ (state[cur] = "runnable" => state'[cur] = "runnable")
      BY <1>5, SpawnImages DEF StackInv, SInv, SchedulerTypes
    <2> QED
      BY <2>1, <2>2, <2>3 DEF StackInv, Switched, Running
  <1>6. CASE RunTasks
    <2>1. reg' = Begin(reg) /\ sched' = Begin(reg) /\ scan'.on /\ rec' = rec
          /\ Begin(reg).home = Main
      BY <1>6, BeginImage DEF RunTasks, Rescan, StackInv
    <2> QED
      BY <2>1 DEF StackInv, Switched, Running
  <1>7. CASE Yield
    <2>1. /\ rec' = [rec EXCEPT ![cur] = Begin(reg)] /\ reg' = sched /\ sched' = sched /\ scan'.on
          /\ reg.home # Main /\ Running /\ Begin(reg).home = reg.home
      BY <1>7, BeginImage DEF Yield, Rescan, MayBegin, StackInv
    <2>2. reg.home = cur
      BY <2>1 DEF StackInv, Switched
    <2> QED
      BY <2>1, <2>2 DEF StackInv, Switched, Running, StackTypes
  <1>8. CASE TaskFinish
    BY <1>8 DEF TaskFinish, Rescan, StackInv, Switched, Running
  <1>9. CASE Skip
    BY <1>9 DEF Skip, StackInv, Switched, Running, SInv, SchedulerTypes
  <1>10. CASE Done
    BY <1>10 DEF Done, Off, StackInv, Switched, Running
  <1>11. CASE Dispatch
    <2>1. ~scan'.on /\ reg' = rec[scan.at] /\ cur' = scan.at /\ state[scan.at] = "runnable"
          /\ UNCHANGED <<rec, sched, state>> /\ scan.at \in Slots
      BY <1>11 DEF Dispatch, Off, StackInv, SInv, SchedulerTypes
    <2> QED
      BY <2>1 DEF StackInv, Switched, Running
  <1> QED
    BY <1>1, <1>3, <1>4, <1>5, <1>6, <1>7, <1>8, <1>9, <1>10, <1>11 DEF Next

(* A stack is as well linked when only values and cells above its top      *)
(* changed.                                                                *)
LEMMA LinkedAgrees ==
  ASSUME NEW w \in Worlds, NEW r \in Images, NEW S, NEW Z, Linked(w, r, S),
         \A n \in 1 .. r.rp : /\ Z[n].below = S[n].below
                              /\ Z[n].saved = S[n].saved
                              /\ Z[n].sp = S[n].sp
  PROVE  Linked(w, r, Z)
  <1>1. r.rp \in Nat
    BY Constants DEF Images
  <1> QED
    BY <1>1 DEF Linked

(* Within an activation the data stack stays above where it began. *)
LEMMA LinkedWithin ==
  ASSUME NEW w \in Worlds, NEW r \in Images, NEW q \in Images, NEW S, Linked(w, r, S),
         q.home = r.home, q.rp = r.rp, q.ctx = r.ctx, q.frame = r.frame,
         r.rp > 0 => S[r.rp].sp <= q.sp,
         \A n \in 1 .. r.rp : S[n] \in Activations
  PROVE  Linked(w, q, S)
  <1>1. r.rp \in Nat /\ q.sp \in Int
    BY Constants DEF Images
  <1>2. ASSUME NEW n \in 1 .. r.rp PROVE S[n].sp <= q.sp
    <2>1. r.rp > 0 /\ r.rp \in 1 .. r.rp /\ n <= r.rp
      BY <1>1
    <2>2. S[n].sp <= S[r.rp].sp /\ S[r.rp].sp <= q.sp
      BY <1>1, <2>1 DEF Linked
    <2>3. S[n].sp \in Int /\ S[r.rp].sp \in Int
      BY <2>1, Constants DEF Activations
    <2> QED
      BY <1>1, <2>2, <2>3
  <1> QED
    BY <1>2 DEF Linked

(* A new activation is linked to the one that calls. *)
LEMMA LinkedCall ==
  ASSUME NEW w \in Worlds, NEW r \in Images, NEW q \in Images, NEW S, NEW Z, Linked(w, r, S),
         \A n \in 1 .. r.rp : S[n] \in Activations,
         \A n \in 1 .. r.rp : Z[n] = S[n],
         Z[r.rp + 1] = [val |-> None, sp |-> r.sp, saved |-> r.ctx, below |-> r.frame],
         q.home = w, q.sp = r.sp, q.rp = r.rp + 1,
         q.ctx = <<w, r.rp + 1>>, q.frame = <<w, r.rp + 1>>
  PROVE  Linked(w, q, Z)
  <1> DEFINE k == r.rp + 1
  <1>1. r.rp \in Nat /\ r.sp \in Int /\ k \in Nat /\ k > 0 /\ k # 0
        /\ \A n \in 1 .. k : n \in 1 .. r.rp \/ n = k
    BY Constants DEF Images
  <1>2. /\ Z[k].sp = r.sp /\ Z[k].saved = r.ctx /\ Z[k].below = r.frame
    OBVIOUS
  <1>3. q.frame = Cell(w, q.rp) /\ q.rp > 0 /\ q.ctx = <<w, q.rp>>
    BY <1>1 DEF Cell
  <1>4. ASSUME NEW n \in 1 .. k
        PROVE  /\ Z[n].below = Cell(w, n - 1) /\ Z[n].sp <= r.sp
               /\ n > 1 => Z[n].saved = <<w, n - 1>>
    <2>1. CASE n \in 1 .. r.rp
      BY <2>1 DEF Linked
    <2>2. CASE n = k
      <3>1. n - 1 = r.rp
        BY <1>1, <2>2
      <3>2. Z[n].below = Cell(w, n - 1)
        BY <1>2, <2>2, <3>1 DEF Linked
      <3>3. n > 1 => Z[n].saved = <<w, n - 1>>
        BY <1>1, <1>2, <2>2, <3>1 DEF Linked
      <3>4. Z[n].sp <= r.sp
        BY <1>1, <1>2, <2>2
      <3> QED
        BY <3>2, <3>3, <3>4
    <2> QED
      BY <1>1, <2>1, <2>2
  <1>5. ASSUME NEW m \in 1 .. k, NEW n \in 1 .. k, m <= n PROVE Z[m].sp <= Z[n].sp
    <2>1. CASE n = k
      BY <1>2, <1>4, <2>1
    <2>2. CASE n # k
      <3>1. n \in 1 .. r.rp /\ m \in 1 .. r.rp
        BY <1>1, <1>5, <2>2
      <3> QED
        BY <1>5, <3>1 DEF Linked
    <2> QED
      BY <2>1, <2>2
  <1>6. w = Main => Z[1].saved = Global
    <2>1. CASE r.rp = 0
      BY <1>2, <2>1 DEF Linked
    <2>2. CASE r.rp # 0
      <3>1. 1 \in 1 .. r.rp
        BY <1>1, <2>2
      <3> QED
        BY <2>2, <3>1 DEF Linked
    <2> QED
      BY <2>1, <2>2
  <1> QED
    BY <1>1, <1>3, <1>4, <1>5, <1>6 DEF Linked

(* Return leaves the stack below. *)
LEMMA LinkedReturn ==
  ASSUME NEW w \in Worlds, NEW r \in Images, NEW q \in Images, NEW S, Linked(w, r, S),
         \A n \in 1 .. r.rp : S[n] \in Activations,
         r.rp > 0, q.home = w, q.rp = r.rp - 1,
         q.sp = S[r.rp].sp, q.ctx = S[r.rp].saved, q.frame = S[r.rp].below
  PROVE  Linked(w, q, S)
  <1>1. r.rp \in Nat /\ q.rp \in Nat /\ r.rp \in 1 .. r.rp /\ q.rp + 1 = r.rp
        /\ \A n \in 1 .. q.rp : n \in 1 .. r.rp /\ n <= r.rp
    BY Constants DEF Images
  <1>2. q.frame = Cell(w, q.rp)
    BY <1>1 DEF Linked
  <1>3. q.rp > 0 => q.ctx = <<w, q.rp>>
    BY <1>1 DEF Linked
  <1>4. \A n \in 1 .. q.rp : S[n].sp <= q.sp
    BY <1>1 DEF Linked
  <1>5. \A n \in 1 .. q.rp : S[n].below = Cell(w, n - 1) /\ (n > 1 => S[n].saved = <<w, n - 1>>)
    BY <1>1 DEF Linked
  <1>6. \A m \in 1 .. q.rp, n \in 1 .. q.rp : m <= n => S[m].sp <= S[n].sp
    BY <1>1 DEF Linked
  <1>7. w = Main => IF q.rp = 0 THEN q.ctx = Global ELSE S[1].saved = Global
    <2>1. w = Main => S[1].saved = Global
      BY <1>1 DEF Linked
    <2>2. ASSUME q.rp = 0 PROVE q.ctx = S[1].saved
      <3>1. r.rp = 1
        BY <1>1, <2>2
      <3> QED
        BY <3>1
    <2> QED
      BY <2>1, <2>2
  <1> QED
    BY <1>2, <1>3, <1>4, <1>5, <1>6, <1>7 DEF Linked

(* The links of an alive world are unaffected by steps that keep its image *)
(* and the links of its cells.                                             *)
LEMMA StepKeepsLinked ==
  ASSUME StackInv, [Next]_vars
  PROVE  AllLinked'
  <1>0. StackTypes /\ SInv /\ Switched /\ StackTypes'
    BY StepKeepsStackTypes DEF StackInv
  <1> SUFFICES ASSUME NEW w \in Worlds, Alive(w)'
               PROVE  Linked(w, Image(w)', rs'[w])
    BY DEF AllLinked, Linked
  <1>1. ASSUME NEW v \in Worlds
        PROVE  /\ rs[v] \in [1 .. RSCells -> Activations] /\ Image(v) \in Images
               /\ Image(v).rp \in 0 .. RSCells
    BY <1>0, ImageTypes DEF StackTypes, Images
  <1>2. ASSUME Alive(w), Image(w)' = Image(w),
               \A n \in 1 .. RSCells : /\ rs'[w][n].below = rs[w][n].below
                                       /\ rs'[w][n].saved = rs[w][n].saved
                                       /\ rs'[w][n].sp = rs[w][n].sp
        PROVE  Linked(w, Image(w)', rs'[w])
    <2>1. \A n \in 1 .. Image(w).rp : n \in 1 .. RSCells
      BY <1>1, Constants
    <2>2. Linked(w, Image(w), rs[w])
      BY <1>2 DEF StackInv, AllLinked
    <2>3. Linked(w, Image(w), rs'[w])
      BY <1>1, <1>2, <2>1, <2>2, LinkedAgrees
    <2> QED
      BY <1>2, <2>3
  <1>3. ASSUME Running, UNCHANGED <<rec, sched, scan, state>>, reg'.home = reg.home,
               reg'.rp = reg.rp, reg'.ctx = reg.ctx, reg'.frame = reg.frame,
               reg.rp > 0 => rs[reg.home][reg.rp].sp <= reg'.sp,
               \A v \in Worlds, n \in 1 .. RSCells :
                    /\ rs'[v][n].below = rs[v][n].below
                    /\ rs'[v][n].saved = rs[v][n].saved
                    /\ rs'[v][n].sp = rs[v][n].sp
        PROVE  Linked(w, Image(w)', rs'[w])
    <2>1. Image(w)' = IF w = reg.home THEN reg' ELSE Image(w)
      BY <1>3, EvaluatorImages
    <2>2. Alive(w)
      BY <1>3 DEF Alive
    <2>3. CASE w # reg.home
      BY <1>2, <1>3, <2>1, <2>2, <2>3
    <2>4. CASE w = reg.home
      <3>1. Linked(w, reg, rs[w]) /\ reg \in Images /\ reg' \in Images
        BY <1>0, <1>3, <2>4, RunningWorld DEF StackTypes
      <3>2. \A n \in 1 .. reg.rp : n \in 1 .. RSCells /\ rs[w][n] \in Activations
        <4>1. reg.rp \in 0 .. RSCells
          BY <3>1 DEF Images
        <4>2. \A n \in 1 .. reg.rp : n \in 1 .. RSCells
          BY <4>1, Constants
        <4> QED
          BY <1>1, <4>2
      <3>3. Linked(w, reg', rs[w])
        BY <1>3, <2>4, <3>1, <3>2, LinkedWithin
      <3>4. Linked(w, reg', rs'[w])
        BY <1>3, <3>1, <3>2, <3>3, LinkedAgrees
      <3> QED
        BY <2>1, <2>4, <3>4
    <2> QED
      BY <2>3, <2>4
  <1>4. Running => /\ reg.rp \in 0 .. RSCells /\ reg.home \in Worlds
                   /\ (reg.rp > 0 => rs[reg.home][reg.rp].sp <= reg.sp /\ reg.frame = <<reg.home, reg.rp>>)
    <2> SUFFICES ASSUME Running PROVE /\ reg.rp \in 0 .. RSCells /\ reg.home \in Worlds
                   /\ (reg.rp > 0 => rs[reg.home][reg.rp].sp <= reg.sp /\ reg.frame = <<reg.home, reg.rp>>)
      OBVIOUS
    <2>1. reg \in Images /\ Linked(reg.home, reg, rs[reg.home])
      BY RunningWorld
    <2>2. reg.rp \in 0 .. RSCells /\ reg.home \in Worlds
      BY <2>1 DEF Images
    <2>3. reg.rp > 0 => reg.rp \in 1 .. reg.rp
      BY <2>2, Constants
    <2>4. reg.rp > 0 => rs[reg.home][reg.rp].sp <= reg.sp
      BY <2>1, <2>3 DEF Linked
    <2>5. reg.rp > 0 => reg.frame = <<reg.home, reg.rp>>
      BY <2>1, <2>2 DEF Linked, Cell
    <2> QED
      BY <2>2, <2>4, <2>5
  <1>5. CASE UNCHANGED vars
    <2>1. Image(w)' = Image(w) /\ Alive(w) /\ rs' = rs
      BY <1>5 DEF vars, Image, Suspended, Alive
    <2> QED
      BY <1>2, <2>1
  <1>6. ASSUME NEW v \in Values, Assign(v), MayBegin, reg' = Begin(reg),
               UNCHANGED <<rec, sched, scan, state>>
        PROVE  Linked(w, Image(w)', rs'[w])
    BY <1>0, <1>3, <1>4, <1>6, AssignTypes, BeginImage DEF MayBegin
  <1>7. CASE Clear \/ \E o \in Objects : Store(o)
    BY <1>6, <1>7, Constants DEF Clear, Store, world
  <1>8. ASSUME NEW o \in Objects, Hold(o) PROVE Linked(w, Image(w)', rs'[w])
    <2>1. /\ MayBegin /\ reg' = [Begin(reg) EXCEPT !.sp = reg.sp + 1] /\ Begin(reg) \in Images
          /\ UNCHANGED <<rec, sched, scan, state, rs>>
      BY <1>0, <1>8, BeginImage DEF Hold, world
    <2>2. /\ reg'.home = reg.home /\ reg'.rp = reg.rp /\ reg'.ctx = reg.ctx /\ reg'.frame = reg.frame
          /\ reg'.sp = reg.sp + 1
      BY <1>0, <2>1, BeginImage DEF Images
    <2>3. Running /\ reg.sp \in Int
      BY <1>0, <2>1, Constants DEF MayBegin, StackTypes, Images
    <2>4. reg.rp > 0 => rs[reg.home][reg.rp].sp <= reg'.sp
      <3> SUFFICES ASSUME reg.rp > 0 PROVE rs[reg.home][reg.rp].sp <= reg'.sp
        OBVIOUS
      <3>1. rs[reg.home][reg.rp] \in Activations
        <4>1. reg.home \in Worlds /\ reg.rp \in 1 .. RSCells
          BY <1>4, <2>3, Constants
        <4> QED
          BY <1>1, <4>1
      <3>2. rs[reg.home][reg.rp].sp \in Int
        BY <3>1, Constants DEF Activations
      <3> QED
        BY <1>4, <2>2, <2>3, <3>2
    <2> QED
      BY <1>3, <2>1, <2>2, <2>3, <2>4
  <1>9. CASE Consume
    <2>1. /\ Running /\ reg' = [reg EXCEPT !.sp = reg.sp - 1] /\ reg \in Images
          /\ UNCHANGED <<rec, sched, scan, state, rs>> /\ reg.sp > Mark(reg)
      BY <1>0, <1>9 DEF Consume, world, StackTypes
    <2>2. /\ reg'.home = reg.home /\ reg'.rp = reg.rp /\ reg'.ctx = reg.ctx /\ reg'.frame = reg.frame
          /\ reg'.sp = reg.sp - 1
      BY <2>1 DEF Images
    <2>3. reg.rp > 0 => Mark(reg) = rs[reg.home][reg.rp].sp
      BY <1>4, <2>1 DEF Mark, Global
    <2>4. Mark(reg) \in Int /\ reg.sp \in Int
      BY <1>0, <2>1, MarkType, Constants DEF Images
    <2> QED
      BY <1>3, <2>1, <2>2, <2>3, <2>4
  <1>10. CASE Collect
    BY <1>0, <1>3, <1>4, <1>10, BeginImage DEF Collect, MayBegin, world
  <1>11. CASE Call
    <2>1. /\ Running /\ MayBegin /\ reg.rp < RSCells /\ Push(reg) /\ reg \in Images
          /\ UNCHANGED <<rec, sched, scan, state>>
      BY <1>0, <1>11 DEF Call, MayBegin, world, StackTypes
    <2>2. Image(w)' = (IF w = reg.home THEN reg' ELSE Image(w)) /\ Alive(w)
      BY <1>0, <1>11, <2>1, EvaluatorImages, CallTypes DEF Alive
    <2>3. CASE w # reg.home
      BY <1>0, <1>2, <2>1, <2>2, <2>3, PushTypes
    <2>4. CASE w = reg.home
      <3>1. Linked(w, reg, rs[w]) /\ reg' \in Images
        BY <1>0, <2>1, <2>4, RunningWorld DEF StackTypes
      <3>2. \A n \in 1 .. reg.rp : n \in 1 .. RSCells /\ n # reg.rp + 1 /\ rs[w][n] \in Activations
        BY <1>1, <1>4, <2>1, Constants
      <3>3. /\ \A n \in 1 .. reg.rp : rs'[w][n] = rs[w][n]
            /\ rs'[w][reg.rp + 1] = [val |-> None, sp |-> reg.sp, saved |-> reg.ctx, below |-> reg.frame]
        BY <1>0, <2>1, <2>4, <3>2, PushTypes
      <3>4. reg'.home = w /\ reg'.sp = reg.sp /\ reg'.rp = reg.rp + 1
            /\ reg'.ctx = <<w, reg.rp + 1>> /\ reg'.frame = <<w, reg.rp + 1>>
        BY <1>0, <1>11, <2>4, CallTypes
      <3>5. Linked(w, reg', rs'[w])
        BY <2>1, <3>1, <3>2, <3>3, <3>4, LinkedCall
      <3> QED
        BY <2>2, <2>4, <3>5
    <2> QED
      BY <2>3, <2>4
  <1>12. CASE Return
    <2>1. Running /\ reg.frame # Global /\ UNCHANGED <<rec, sched, scan, state, rs>>
      BY <1>12 DEF Return, world
    <2>2. reg \in Images /\ Linked(reg.home, reg, rs[reg.home])
      BY <2>1, RunningWorld
    <2>3. reg.rp > 0 /\ reg.frame[1] = reg.home /\ reg.frame[2] = reg.rp
      <3>1. reg.rp # 0 /\ reg.frame = <<reg.home, reg.rp>>
        BY <2>1, <2>2 DEF Linked, Cell
      <3> QED
        BY <1>4, <2>1, <3>1, Constants
    <2>4. /\ reg' \in Images /\ reg'.home = reg.home /\ reg'.rp = reg.rp - 1
          /\ reg'.sp = rs[reg.home][reg.rp].sp /\ reg'.ctx = rs[reg.home][reg.rp].saved
          /\ reg'.frame = rs[reg.home][reg.rp].below
      BY <1>0, <1>12, <2>3, ReturnTypes
    <2>5. Image(w)' = (IF w = reg.home THEN reg' ELSE Image(w)) /\ Alive(w)
      BY <2>1, <2>4, EvaluatorImages DEF Alive
    <2>6. CASE w # reg.home
      BY <1>2, <2>1, <2>5, <2>6
    <2>7. CASE w = reg.home
      <3>1. \A n \in 1 .. reg.rp : rs[w][n] \in Activations
        BY <1>1, <1>4, <2>1, Constants
      <3>2. Linked(w, reg', rs[w])
        BY <2>2, <2>3, <2>4, <2>7, <3>1, LinkedReturn
      <3> QED
        BY <2>1, <2>5, <2>7, <3>2
    <2> QED
      BY <2>6, <2>7
  <1>13. ASSUME Running, Alive(w), w = reg.home \/ Image(w)' = Image(w),
                MayBegin, w = reg.home => Image(w)' = Begin(reg),
                \A n \in 1 .. RSCells : n <= reg.rp \/ w # reg.home => rs'[w][n] = rs[w][n]
         PROVE  Linked(w, Image(w)', rs'[w])
    <2>1. CASE w # reg.home
      BY <1>2, <1>13, <2>1
    <2>2. CASE w = reg.home
      <3>1. Linked(w, reg, rs[w]) /\ reg \in Images
        BY <1>13, <2>2, RunningWorld
      <3>2. \A n \in 1 .. reg.rp : n \in 1 .. RSCells /\ n <= reg.rp
        BY <1>4, <1>13, Constants
      <3>3. Linked(w, reg, rs'[w])
        BY <1>13, <3>1, <3>2, LinkedAgrees
      <3>4. /\ Begin(reg).home = reg.home /\ Begin(reg).sp = reg.sp /\ Begin(reg).rp = reg.rp
            /\ Begin(reg).ctx = reg.ctx /\ Begin(reg).frame = reg.frame
        BY <1>0, <1>13, BeginImage
      <3>5. Linked(w, Begin(reg), rs'[w])
        BY <3>3, <3>4 DEF Linked
      <3> QED
        BY <1>13, <2>2, <3>5
    <2> QED
      BY <2>1, <2>2
  <1>14. CASE RunTasks \/ Yield
    <2>1. MayBegin /\ Running /\ rs' = rs /\ Alive(w)
      BY <1>14 DEF RunTasks, Yield, MayBegin, Alive
    <2>2. Image(w)' = IF w = reg.home THEN Begin(reg) ELSE Image(w)
      BY <1>14, SwitchImages
    <2> QED
      BY <1>13, <2>1, <2>2
  <1>15. CASE Spawn
    <2>1. MayBegin /\ Running /\ reg.rp < RSCells /\ Push(reg) /\ reg \in Images
      BY <1>0, <1>15 DEF Spawn, MayBegin, StackTypes
    <2>2. \A n \in 1 .. RSCells : n <= reg.rp \/ w # reg.home => rs'[w][n] = rs[w][n]
      <3>1. \A n \in 1 .. RSCells : n <= reg.rp => n # reg.rp + 1
        BY <1>4, <2>1, Constants
      <3> QED
        BY <1>0, <2>1, <3>1, PushTypes
    <2>3. CASE /\ state' = state
               /\ \A v \in Worlds : Image(v)' = IF v = reg.home THEN Begin(reg) ELSE Image(v)
      BY <1>13, <2>1, <2>2, <2>3 DEF Alive
    <2>4. ASSUME NEW s \in Slots, state[s] = "empty", state' = [state EXCEPT ![s] = "runnable"],
                 s # reg.home,
                 \A v \in Worlds : Image(v)' = IF v = reg.home THEN Begin(reg)
                                               ELSE IF v = s THEN Start(s, <<reg.home, reg.rp + 1>>)
                                               ELSE Image(v)
          PROVE  Linked(w, Image(w)', rs'[w])
      <3>1. CASE w = s
        <4>1. Image(w)' = Start(s, <<reg.home, reg.rp + 1>>)
          BY <2>4, <3>1
        <4> QED
          BY <3>1, <4>1, Constants DEF Start, Linked, Cell
      <3>2. CASE w # s
        <4>1. Alive(w)
          BY <2>4, <3>2, Constants DEF Alive, StackInv, SInv, SchedulerTypes
        <4> QED
          BY <1>13, <2>1, <2>2, <2>4, <3>2, <4>1
      <3> QED
        BY <3>1, <3>2
    <2> QED
      BY <1>15, <2>3, <2>4, SpawnImages
  <1>16. CASE TaskFinish
    BY <1>2, <1>16, FinishImages DEF TaskFinish
  <1>17. CASE Skip \/ Dispatch \/ Done
    BY <1>2, <1>17, ScanImages DEF Skip, Dispatch, Done
  <1> QED
    BY <1>5, <1>7, <1>8, <1>9, <1>10, <1>11, <1>12, <1>14, <1>15, <1>16, <1>17 DEF Next

(* There are one more worlds than slots. *)
LEMMA CountOfWorlds == Cardinality(Worlds) \in Nat /\ Cardinality(Worlds) >= 1
  <1>1. IsFiniteSet(Slots)
    <2>1. 0 \in Int /\ NTasks - 1 \in Int
      BY Constants
    <2>2. IsFiniteSet(0 .. NTasks - 1)
      BY <2>1, FS_Interval, Zenon
    <2> QED
      BY <2>2 DEF Slots
  <1>2. Cardinality(Slots) \in Nat
    BY <1>1, FS_CardinalityType
  <1>3. Main \notin Slots /\ Worlds = Slots \cup {Main}
    BY Constants
  <1>4. Cardinality(Slots \cup {Main}) = Cardinality(Slots) + 1
    BY <1>1, <1>3, FS_AddElement, Zenon
  <1> QED
    BY <1>2, <1>3, <1>4

(* The frame chain of a linked stack leads to its cells, and no further:   *)
(* the collector finds the contexts the world's activations saved.         *)
LEMMA ContextsOfStack ==
  ASSUME NEW w \in Worlds, NEW r \in Images, Linked(w, r, rs[w])
  PROVE  Contexts(r) = {r.ctx} \cup {rs[w][i].saved : i \in 1 .. r.rp}
  <1> DEFINE N == RSCells * Cardinality(Worlds)
             Body(c, n) == IF n = 0 THEN <<r.frame, {r.ctx}>>
                           ELSE LET f == c[n - 1][1]
                                IN IF f = Global THEN c[n - 1]
                                   ELSE <<rs[f[1]][f[2]].below,
                                          c[n - 1][2] \cup {rs[f[1]][f[2]].saved}>>
             chain == CHOOSE c : c = [n \in 0 .. N |-> Body(c, n)]
             left(n) == IF n <= r.rp THEN r.rp - n ELSE 0
             Seen(n) == {r.ctx} \cup {rs[w][i].saved : i \in left(n) + 1 .. r.rp}
             form == [n \in 0 .. N |-> <<Cell(w, left(n)), Seen(n)>>]
  <1>1. Contexts(r) = chain[N][2]
    BY DEF Contexts
  <1>2. N \in Nat /\ r.rp \in Nat /\ r.rp <= N
    <2>3. \A c \in Nat : c >= 1 => RSCells * c \in Nat /\ RSCells * c >= RSCells
      BY Constants
    <2>4. N \in Nat /\ N >= RSCells
      BY <2>3, CountOfWorlds
    <2>5. r.rp \in 0 .. RSCells
      BY DEF Images
    <2> HIDE DEF N
    <2> QED
      BY <2>4, <2>5, Constants
  <1> HIDE DEF N
  <1>3. ASSUME NEW n \in 0 .. N, n # 0
        PROVE  /\ n - 1 \in 0 .. N
               /\ left(n - 1) = 0 => left(n) = 0
               /\ left(n - 1) # 0 => /\ left(n) = left(n - 1) - 1
                                     /\ left(n - 1) \in 1 .. r.rp
    BY <1>2, <1>3
  <1>4. Cell(w, 0) = Global /\ \A k \in Nat : k # 0 => Cell(w, k) = <<w, k>> /\ <<w, k>> # Global
    BY DEF Cell, Global
  <1>5. ASSUME NEW n \in 0 .. N, n # 0
        PROVE  <<Cell(w, left(n)), Seen(n)>> =
                 IF left(n - 1) = 0 THEN <<Cell(w, left(n - 1)), Seen(n - 1)>>
                 ELSE <<rs[w][left(n - 1)].below, Seen(n - 1) \cup {rs[w][left(n - 1)].saved}>>
    <2>1. CASE left(n - 1) = 0
      <3>1. left(n) = left(n - 1)
        BY <1>3, <1>5, <2>1
      <3> HIDE DEF left
      <3> QED
        BY <2>1, <3>1
    <2>2. CASE left(n - 1) # 0
      <3> DEFINE k == left(n - 1)
      <3>1. k \in 1 .. r.rp /\ left(n) = k - 1
        BY <1>3, <1>5, <2>2
      <3> HIDE DEF left
      <3>2. rs[w][k].below = Cell(w, left(n))
        BY <3>1 DEF Linked
      <3>3. k - 1 + 1 .. r.rp = (k + 1 .. r.rp) \cup {k}
        BY <1>2, <3>1
      <3>4. Seen(n) = Seen(n - 1) \cup {rs[w][k].saved}
        BY <3>1, <3>3
      <3> HIDE DEF Seen
      <3> QED
        BY <2>2, <3>2, <3>4
    <2> QED
      BY <2>1, <2>2
  <1>6. left(0) = r.rp /\ left(N) = 0 /\ Seen(0) = {r.ctx}
    BY <1>2
  <1>7. \A n \in 0 .. N : left(n) \in Nat
    BY <1>2
  <1> HIDE DEF left
  <1>8. ASSUME NEW c, NEW n \in 0 .. N, n # 0, c[n - 1] = <<Cell(w, left(n - 1)), Seen(n - 1)>>
        PROVE  Body(c, n) = <<Cell(w, left(n)), Seen(n)>>
    <2>1. c[n - 1][1] = Cell(w, left(n - 1)) /\ c[n - 1][2] = Seen(n - 1)
      BY <1>8
    <2>2. left(n - 1) \in Nat
      BY <1>3, <1>7, <1>8
    <2> HIDE DEF Seen
    <2>3. CASE left(n - 1) = 0
      BY <1>4, <1>5, <1>8, <2>1, <2>3
    <2>4. CASE left(n - 1) # 0
      <3> DEFINE f == c[n - 1][1]
      <3>1. f # Global /\ f = <<w, left(n - 1)>> /\ f[1] = w /\ f[2] = left(n - 1)
        BY <1>4, <2>1, <2>2, <2>4
      <3>2. Body(c, n) = <<rs[f[1]][f[2]].below, c[n - 1][2] \cup {rs[f[1]][f[2]].saved}>>
        BY <1>8, <3>1
      <3> HIDE DEF f
      <3> QED
        BY <1>5, <1>8, <2>1, <2>4, <3>1, <3>2
    <2> QED
      BY <2>3, <2>4
  <1>9. \A c : Body(c, 0) = <<Cell(w, left(0)), Seen(0)>>
    BY <1>6 DEF Linked
  <1> HIDE DEF Seen, Body
  <1>10. form = [n \in 0 .. N |-> Body(form, n)]
    <2>1. ASSUME NEW n \in 0 .. N PROVE <<Cell(w, left(n)), Seen(n)>> = Body(form, n)
      <3>1. CASE n = 0
        BY <1>9, <3>1
      <3>2. CASE n # 0
        <4>1. form[n - 1] = <<Cell(w, left(n - 1)), Seen(n - 1)>>
          BY <1>3, <3>2
        <4> HIDE DEF form
        <4> QED
          BY <1>8, <3>2, <4>1
      <3> QED
        BY <3>1, <3>2
    <2> QED
      BY <2>1
  <1> HIDE DEF form
  <1>11. chain = [n \in 0 .. N |-> Body(chain, n)]
    BY <1>10
  <1> HIDE DEF chain
  <1>12. 0 .. N \subseteq {n \in 0 .. N : chain[n] = <<Cell(w, left(n)), Seen(n)>>}
    <2> DEFINE S == {n \in 0 .. N : chain[n] = <<Cell(w, left(n)), Seen(n)>>}
    <2>1. \A n \in 0 .. N : chain[n] = Body(chain, n)
      BY <1>11, Zenon
    <2>2. 0 \in S
      BY <1>2, <1>9, <2>1
    <2>3. ASSUME NEW n \in 0 .. N - 1, n \in S PROVE n + 1 \in S
      <3>1. n + 1 \in 0 .. N /\ n + 1 # 0 /\ (n + 1) - 1 = n
        BY <1>2
      <3>2. chain[(n + 1) - 1] = <<Cell(w, left((n + 1) - 1)), Seen((n + 1) - 1)>>
        BY <2>3, <3>1
      <3>3. Body(chain, n + 1) = <<Cell(w, left(n + 1)), Seen(n + 1)>>
        BY <1>8, <3>1, <3>2
      <3> QED
        BY <2>1, <3>1, <3>3
    <2> HIDE DEF S
    <2>4. 0 .. N \subseteq S
      BY <1>2, <2>2, <2>3, BoundedInduction
    <2> QED
      BY <2>4 DEF S
  <1>13. chain[N] = <<Cell(w, left(N)), Seen(N)>>
    BY <1>2, <1>12
  <1> QED
    BY <1>1, <1>2, <1>6, <1>13 DEF Seen

(* StackInv is inductive: tasks and collections keep the worlds' stacks. *)
LEMMA StackInvariance == Spec => []StackInv
  <1>1. Init => StackInv
    <2> SUFFICES ASSUME Init PROVE StackInv
      OBVIOUS
    <2>1. StackTypes
      BY Constants, StartImage DEF Init, StackTypes, Activations
    <2>2. Switched
      BY DEF Init, Switched, Off, Start, Running
    <2>3. AllLinked
      <3> SUFFICES ASSUME NEW w \in Worlds, Alive(w) PROVE Linked(w, Image(w), rs[w])
        BY DEF AllLinked
      <3>1. w = Main
        BY Constants DEF Alive, Init
      <3>2. Image(w) = Start(Main, Global)
        BY <3>1 DEF Init, Image, Start, Off
      <3> QED
        BY <3>1, <3>2 DEF Start, Linked, Cell
    <2> QED
      BY <2>1, <2>2, <2>3, InitSInv DEF StackInv
  <1>2. StackInv /\ [Next]_vars => StackInv'
    BY StepKeepsSInv, StepKeepsStackTypes, StepKeepsSwitched, StepKeepsLinked DEF StackInv
  <1> QED
    BY <1>1, <1>2, PTL DEF Spec

(* Every world that can still run finds its own stack in its image.        *)
THEOREM StacksAreOwned == Spec => []WorldsOwnTheirStacks
  <1>1. StackInv => WorldsOwnTheirStacks
    BY DEF StackInv, AllLinked, Linked, WorldsOwnTheirStacks, OwnStack, Cell
  <1> QED
    BY <1>1, StackInvariance, PTL

-----------------------------------------------------------------------------
(* What a task holds is kept.                                              *)

(* The contexts of a world with image r and stack S. *)
CellsOf(r, S) == {r.ctx} \cup {S[n].saved : n \in 1 .. r.rp}

(* The heap H has the operands of world w and, of a task, what the locals  *)
(* of its contexts hold: D and R are the data and return stacks.           *)
HeldBy(w, r, D, R, H) ==
    /\ \A i \in 1 .. r.sp : D[w][i] \in H \cup {None}
    /\ w # Main => \A a \in CellsOf(r, R[w]) \ {Global} : R[a[1]][a[2]].val \in H \cup {None}

AllHeld == /\ global \in heap \cup {None}
           /\ \A w \in Worlds : Alive(w) => HeldBy(w, Image(w), ds, rs, heap)

(* Contexts lie in stacks. *)
LEMMA CellsAreAddresses ==
  ASSUME NEW r \in Images, NEW S \in [1 .. RSCells -> Activations]
  PROVE  CellsOf(r, S) \subseteq Addresses
  <1>1. r.ctx \in Addresses /\ r.rp \in 0 .. RSCells
    BY DEF Images
  <1>2. \A n \in 1 .. r.rp : n \in 1 .. RSCells
    BY <1>1, Constants
  <1>3. \A n \in 1 .. r.rp : S[n].saved \in Addresses
    BY <1>2 DEF Activations
  <1> QED
    BY <1>1, <1>3 DEF CellsOf

(* What a world held it still holds when the heap grows, and its stacks    *)
(* come to hold nothing but what the heap has.                             *)
LEMMA HeldGrows ==
  ASSUME StackInv, AllHeld, NEW w \in Worlds, Alive(w), NEW q \in Images,
         StackTypes', heap \subseteq heap',
         \A v \in Worlds, n \in 1 .. RSCells :
              rs'[v][n].val = rs[v][n].val \/ rs'[v][n].val \in heap' \cup {None},
         ds'[w] = ds[w], q.sp <= Image(w).sp,
         \A a \in CellsOf(q, rs'[w]) : \/ a \in CellsOf(Image(w), rs[w])
                                       \/ rs'[a[1]][a[2]].val = None
  PROVE  HeldBy(w, q, ds', rs', heap')
  <1>1. HeldBy(w, Image(w), ds, rs, heap)
    BY DEF AllHeld
  <1>2. Image(w).sp \in Int /\ q.sp \in Int
    BY ImageTypes, Constants DEF Images
  <1>3. ASSUME NEW i \in 1 .. q.sp PROVE ds'[w][i] \in heap' \cup {None}
    BY <1>1, <1>2, <1>3 DEF HeldBy
  <1>4. ASSUME w # Main, NEW a \in CellsOf(q, rs'[w]) \ {Global}
        PROVE  rs'[a[1]][a[2]].val \in heap' \cup {None}
    <2>1. CASE rs'[a[1]][a[2]].val = None
      BY <2>1
    <2>2. CASE a \in CellsOf(Image(w), rs[w])
      <3>1. rs[a[1]][a[2]].val \in heap \cup {None}
        BY <1>1, <1>4, <2>2 DEF HeldBy
      <3>2. a \in Addresses
        <4>1. rs'[w] \in [1 .. RSCells -> Activations]
          BY DEF StackTypes
        <4> QED
          BY <1>4, <4>1, CellsAreAddresses
      <3>3. a[1] \in Worlds /\ a[2] \in 1 .. RSCells
        BY <1>4, <3>2, Constants
      <3> QED
        BY <3>1, <3>3
    <2> QED
      BY <1>4, <2>1, <2>2
  <1> QED
    BY <1>3, <1>4 DEF HeldBy

(* The collector's roots are what the worlds hold.                         *)
LEMMA RootsAreHeld ==
  ASSUME StackInv, Running, NEW w \in Worlds, Alive(w)
  PROVE  /\ global \in Roots
         /\ \A i \in 1 .. Image(w).sp : ds[w][i] \in Roots
         /\ w # Main => \A a \in CellsOf(Image(w), rs[w]) \ {Global} : rs[a[1]][a[2]].val \in Roots
  <1>1. /\ Image(w) \in Images /\ Linked(w, Image(w), rs[w])
        /\ Image(w) = IF w = reg.home THEN reg ELSE Suspended(w)
    BY ImageTypes DEF StackInv, AllLinked, Image, Running
  <1>2. Contexts(Image(w)) = CellsOf(Image(w), rs[w])
    BY <1>1, ContextsOfStack DEF CellsOf
  <1>3. CASE w = reg.home
    <2>1. Image(w) = reg /\ Locals(reg) \subseteq Roots /\ Operands(w, reg.sp) \subseteq Roots
      BY <1>1, <1>3 DEF Roots
    <2> QED
      BY <1>2, <2>1 DEF Roots, Locals, Operands
  <1>4. CASE w # reg.home /\ w = Main
    <2>1. Image(w) = sched /\ Operands(w, sched.sp) \subseteq Roots
      BY <1>1, <1>4 DEF Roots, Suspended
    <2> QED
      BY <1>4, <2>1 DEF Roots, Operands
  <1>5. CASE w # reg.home /\ w # Main
    <2>1. /\ Image(w) = rec[w] /\ w \in {s \in Slots : state[s] = "runnable"}
      BY <1>1, <1>5, Constants DEF Suspended, Alive
    <2>2. Locals(rec[w]) \cup Operands(w, rec[w].sp) \subseteq Roots
      BY <2>1 DEF Roots
    <2> QED
      BY <1>2, <2>1, <2>2 DEF Roots, Locals, Operands
  <1> QED
    BY <1>3, <1>4, <1>5

(* A running program reads only what the heap has, when no function of the *)
(* main program holds an object in a local.                                *)
LEMMA LocalIsHeld ==
  ASSUME SchedulerLocals = FALSE, StackInv, AllHeld, Running, UsesLocal
  PROVE  Local(reg) \in heap \cup {None}
  <1>1. /\ reg \in Images /\ reg.home \in Worlds /\ Linked(reg.home, reg, rs[reg.home])
        /\ HeldBy(reg.home, reg, ds, rs, heap)
    BY RunningWorld DEF AllHeld
  <1>2. CASE reg.ctx = Global
    BY <1>2 DEF Local, AllHeld
  <1>3. CASE reg.ctx # Global
    <2>1. reg.home # Main
      <3> SUFFICES ASSUME reg.home = Main PROVE FALSE
        OBVIOUS
      <3>1. reg.rp \in 0 .. RSCells /\ ~ (reg.rp > 0)
        BY <1>1 DEF UsesLocal, Images
      <3>2. reg.rp = 0
        BY <3>1, Constants
      <3> QED
        BY <1>1, <1>3, <3>2 DEF Linked
    <2> QED
      BY <1>1, <1>3, <2>1 DEF HeldBy, CellsOf, Local
  <1> QED
    BY <1>2, <1>3

(* Every step keeps what the worlds hold.                                  *)
LEMMA StepKeepsHeld ==
  ASSUME SchedulerLocals = FALSE, StackInv, AllHeld, [Next]_vars
  PROVE  AllHeld'
  <1>0. StackTypes /\ SInv /\ Switched /\ StackTypes' /\ global \in heap \cup {None}
    BY StepKeepsStackTypes DEF StackInv, AllHeld
  <1>2. global' \in heap' \cup {None}
    <2>1. CASE \E o \in Objects : Store(o)
      BY <1>0, <2>1 DEF Store, Assign
    <2>2. CASE Clear
      BY <1>0, <2>2 DEF Clear, Assign
    <2>3. CASE Collect
      <3>1. Running /\ heap' = heap \cap Roots /\ global' = global
        BY <2>3 DEF Collect, MayBegin
      <3> QED
        BY <1>0, <3>1 DEF Roots
    <2>4. ASSUME \/ UNCHANGED vars \/ Consume \/ Call \/ Return \/ Spawn \/ RunTasks \/ Yield
                 \/ TaskFinish \/ Skip \/ Dispatch \/ Done \/ \E o \in Objects : Hold(o)
          PROVE  UNCHANGED <<global, heap>>
      BY <2>4 DEF vars, Consume, Call, Return, Spawn, RunTasks, Yield, TaskFinish, Skip, Dispatch,
                  Done, Hold
    <2> QED
      BY <1>0, <2>1, <2>2, <2>3, <2>4 DEF Next
  <1> SUFFICES ASSUME NEW w \in Worlds, Alive(w)'
               PROVE  HeldBy(w, Image(w)', ds', rs', heap')
    BY <1>2 DEF AllHeld, HeldBy, CellsOf
  <1> DEFINE r == Image(w)
             q == Image(w)'
  <1>3. /\ r \in Images /\ r.sp \in Int /\ rs[w] \in [1 .. RSCells -> Activations]
        /\ \A n \in 1 .. r.rp : n \in 1 .. RSCells
    <2>1. r \in Images /\ rs[w] \in [1 .. RSCells -> Activations]
      BY <1>0, ImageTypes DEF StackTypes
    <2>2. r.rp \in 0 .. RSCells /\ r.sp \in 0 .. DSCells
      BY <2>1 DEF Images
    <2> HIDE DEF r
    <2> QED
      BY <2>1, <2>2, Constants
  <1>4. ASSUME Alive(w), q \in Images, heap \subseteq heap', ds' = ds,
               q.ctx = r.ctx, q.rp = r.rp, q.sp <= r.sp,
               \A v \in Worlds, n \in 1 .. RSCells :
                    /\ rs'[v][n].val = rs[v][n].val \/ rs'[v][n].val \in heap' \cup {None}
                    /\ n <= r.rp \/ v # w => rs'[v][n].saved = rs[v][n].saved
        PROVE  HeldBy(w, q, ds', rs', heap')
    <2>1. ds'[w] = ds[w] /\ \A n \in 1 .. r.rp : n \in 1 .. RSCells /\ n <= r.rp
      BY <1>3, <1>4
    <2>2. CellsOf(q, rs'[w]) = CellsOf(r, rs[w])
      <3>1. \A n \in 1 .. r.rp : rs'[w][n].saved = rs[w][n].saved
        BY <1>4, <2>1
      <3> HIDE DEF q, r
      <3> QED
        BY <1>4, <3>1 DEF CellsOf
    <2> QED
      BY <1>0, <1>4, <2>1, <2>2, HeldGrows
  <1>5. CASE UNCHANGED vars
    <2>1. q = r /\ Alive(w) /\ UNCHANGED <<heap, ds, rs>>
      BY <1>5 DEF vars, Image, Suspended, Alive
    <2> QED
      BY <1>3, <1>4, <2>1
  <1>6. ASSUME NEW v \in Values, v \in heap' \cup {None}, Assign(v), MayBegin, reg' = Begin(reg),
               UNCHANGED <<rec, sched, scan, state, ds>>, heap \subseteq heap'
        PROVE  HeldBy(w, q, ds', rs', heap')
    <2>1. Running /\ Alive(w) /\ reg' \in Images
      BY <1>0, <1>6 DEF MayBegin, Alive, StackTypes
    <2>2. q = IF w = reg.home THEN Begin(reg) ELSE r
      BY <1>0, <1>6, <2>1, EvaluatorImages, BeginImage
    <2>3. w = reg.home => r = reg
      BY <2>1, RunningWorld
    <2>4. q \in Images /\ q.ctx = r.ctx /\ q.rp = r.rp /\ q.sp = r.sp
      BY <1>0, <1>3, <1>6, <2>2, <2>3, BeginImage
    <2>5. \A u \in Worlds, n \in 1 .. RSCells :
             /\ rs'[u][n].val = rs[u][n].val \/ rs'[u][n].val \in heap' \cup {None}
             /\ rs'[u][n].saved = rs[u][n].saved
      BY <1>0, <1>6, AssignTypes
    <2> HIDE DEF q, r
    <2>6. q.sp <= r.sp
      BY <1>3, <2>4
    <2> QED
      BY <1>4, <1>6, <2>1, <2>4, <2>5, <2>6
  <1>7. CASE Clear
    BY <1>6, <1>7, Constants DEF Clear, world
  <1>8. ASSUME NEW o \in Objects, Store(o) PROVE HeldBy(w, q, ds', rs', heap')
    BY <1>6, <1>8, Constants DEF Store, world
  <1>9. ASSUME NEW o \in Objects, Hold(o) PROVE HeldBy(w, q, ds', rs', heap')
    <2>1. /\ Running /\ MayBegin /\ reg.sp < DSCells
          /\ o = global \/ (UsesLocal /\ o = Local(reg))
          /\ ds' = [ds EXCEPT ![reg.home][reg.sp + 1] = o]
          /\ reg' = [Begin(reg) EXCEPT !.sp = reg.sp + 1]
          /\ UNCHANGED <<rec, sched, scan, state, rs, global, heap>>
      BY <1>0, <1>9, BeginImage DEF Hold, world, MayBegin
    <2>2. o \in heap
      BY <1>0, <2>1, LocalIsHeld, Constants
    <2>3. /\ reg' \in Images /\ reg'.home = reg.home /\ reg'.rp = reg.rp
          /\ reg'.ctx = reg.ctx /\ reg'.sp = reg.sp + 1
      BY <1>0, <2>1, BeginImage DEF Images, StackTypes
    <2>4. q = (IF w = reg.home THEN reg' ELSE r) /\ Alive(w)
      BY <2>1, <2>3, EvaluatorImages DEF Alive
    <2>5. HeldBy(w, r, ds, rs, heap)
      BY <2>4 DEF AllHeld
    <2>6. CASE w # reg.home
      <3>1. ds'[w] = ds[w]
        BY <1>0, <2>1, <2>6 DEF StackTypes
      <3> QED
        BY <2>1, <2>4, <2>5, <2>6, <3>1 DEF HeldBy
    <2>7. CASE w = reg.home
      <3>1. r = reg /\ q = reg'
        BY <2>1, <2>4, <2>7, RunningWorld
      <3>2. ASSUME NEW i \in 1 .. reg'.sp PROVE ds'[w][i] \in heap \cup {None}
        <4>1. reg.sp \in 0 .. DSCells
          BY <1>0 DEF StackTypes, Images
        <4>2. CASE i = reg.sp + 1
          <5>1. ds'[w][i] = o
            BY <1>0, <2>1, <2>7, <4>1, <4>2, Constants DEF StackTypes
          <5> QED
            BY <2>2, <5>1
        <4>3. CASE i # reg.sp + 1
          <5>1. i \in 1 .. reg.sp
            BY <2>3, <3>2, <4>1, <4>3, Constants
          <5>2. ds'[w][i] = ds[w][i]
            BY <1>0, <2>1, <2>7, <4>3 DEF StackTypes
          <5> QED
            BY <2>5, <3>1, <5>1, <5>2 DEF HeldBy
        <4> QED
          BY <4>2, <4>3
      <3>3. CellsOf(reg', rs'[w]) = CellsOf(reg, rs[w])
        BY <2>1, <2>3 DEF CellsOf
      <3> QED
        BY <2>1, <2>5, <3>1, <3>2, <3>3 DEF HeldBy
    <2> QED
      BY <2>6, <2>7
  <1>10. CASE Consume
    <2>1. /\ Running /\ reg' = [reg EXCEPT !.sp = reg.sp - 1] /\ reg \in Images
          /\ UNCHANGED <<rec, sched, scan, state, rs, ds, heap>>
      BY <1>0, <1>10 DEF Consume, world, StackTypes
    <2>2. /\ reg' \in Images /\ reg'.home = reg.home /\ reg'.rp = reg.rp
          /\ reg'.ctx = reg.ctx /\ reg'.sp = reg.sp - 1
      BY <1>0, <2>1 DEF Images, StackTypes
    <2>3. q = (IF w = reg.home THEN reg' ELSE r) /\ Alive(w)
      BY <2>1, <2>2, EvaluatorImages DEF Alive
    <2>4. w = reg.home => r = reg
      BY <2>1, RunningWorld
    <2>5. q \in Images /\ q.ctx = r.ctx /\ q.rp = r.rp /\ q.sp <= r.sp
      BY <1>3, <2>2, <2>3, <2>4
    <2> QED
      BY <1>4, <2>1, <2>3, <2>5
  <1>11. CASE Call
    <2>1. /\ Running /\ MayBegin /\ reg.rp < RSCells /\ Push(reg) /\ reg \in Images
          /\ UNCHANGED <<rec, sched, scan, state, ds, heap>>
      BY <1>0, <1>11 DEF Call, MayBegin, world, StackTypes
    <2>2. q = (IF w = reg.home THEN reg' ELSE r) /\ Alive(w)
      BY <1>0, <1>11, <2>1, EvaluatorImages, CallTypes DEF Alive
    <2>3. w = reg.home => r = reg
      BY <2>1, RunningWorld
    <2>4. /\ \A v \in Worlds, n \in 1 .. RSCells :
               rs'[v][n].val = rs[v][n].val \/ rs'[v][n].val \in heap' \cup {None}
          /\ \A v \in Worlds, n \in 1 .. RSCells :
               v # reg.home \/ n # reg.rp + 1 => rs'[v][n] = rs[v][n]
          /\ rs'[reg.home][reg.rp + 1].val = None
          /\ rs'[reg.home][reg.rp + 1].saved = reg.ctx
          /\ reg.rp + 1 \in 1 .. RSCells
      <3>1. /\ rs'[reg.home][reg.rp + 1] =
                   [val |-> None, sp |-> reg.sp, saved |-> reg.ctx, below |-> reg.frame]
            /\ \A n \in 1 .. RSCells : n # reg.rp + 1 => rs'[reg.home][n] = rs[reg.home][n]
            /\ \A v \in Worlds : v # reg.home => rs'[v] = rs[v]
            /\ reg.rp + 1 \in 1 .. RSCells
        BY <1>0, <2>1, PushTypes
      <3>2. /\ rs'[reg.home][reg.rp + 1].val = None
            /\ rs'[reg.home][reg.rp + 1].saved = reg.ctx
        BY <3>1
      <3>3. \A v \in Worlds, n \in 1 .. RSCells :
               v # reg.home \/ n # reg.rp + 1 => rs'[v][n] = rs[v][n]
        BY <3>1
      <3>4. ASSUME NEW v \in Worlds, NEW n \in 1 .. RSCells
            PROVE  rs'[v][n].val = rs[v][n].val \/ rs'[v][n].val \in heap' \cup {None}
        BY <3>2, <3>3
      <3> QED
        BY <3>1, <3>2, <3>3, <3>4
    <2>5. CASE w # reg.home
      <3>1. q = r /\ \A n \in 1 .. RSCells : rs'[w][n] = rs[w][n]
        BY <2>2, <2>4, <2>5
      <3>2. CellsOf(q, rs'[w]) = CellsOf(r, rs[w])
        BY <1>3, <3>1 DEF CellsOf
      <3>3. q \in Images /\ q.sp <= r.sp /\ ds'[w] = ds[w] /\ heap \subseteq heap'
        BY <1>3, <2>1, <3>1
      <3> QED
        BY <1>0, <2>2, <2>4, <3>2, <3>3, HeldGrows
    <2>6. CASE w = reg.home
      <3>1. q = reg' /\ r = reg
        BY <2>2, <2>3, <2>6
      <3>2. /\ reg' \in Images /\ reg'.sp = reg.sp /\ reg'.rp = reg.rp + 1
            /\ reg'.ctx = <<w, reg.rp + 1>> /\ reg.sp \in Int /\ reg.rp \in Nat
        <4>1. reg.sp \in 0 .. DSCells /\ reg.rp \in 0 .. RSCells
          BY <2>1 DEF Images
        <4> QED
          BY <1>0, <1>11, <2>6, <4>1, CallTypes, Constants
      <3>3. ASSUME NEW a \in CellsOf(q, rs'[w])
            PROVE  a \in CellsOf(r, rs[w]) \/ rs'[a[1]][a[2]].val = None
        <4>1. CASE a = <<w, reg.rp + 1>>
          BY <2>4, <2>6, <4>1
        <4>2. ASSUME NEW n \in 1 .. reg.rp + 1, a = rs'[w][n].saved
              PROVE  a \in CellsOf(r, rs[w])
          <5>1. CASE n = reg.rp + 1
            BY <2>4, <2>6, <3>1, <4>2, <5>1 DEF CellsOf
          <5>2. CASE n # reg.rp + 1
            <6>1. n \in 1 .. reg.rp /\ n \in 1 .. RSCells
              BY <2>4, <3>2, <5>2, Constants
            <6> QED
              BY <2>4, <3>1, <4>2, <5>2, <6>1 DEF CellsOf
          <5> QED
            BY <5>1, <5>2
        <4> QED
          BY <3>1, <3>2, <3>3, <4>1, <4>2 DEF CellsOf
      <3>4. q \in Images /\ q.sp <= r.sp /\ ds'[w] = ds[w] /\ heap \subseteq heap'
        BY <2>1, <3>1, <3>2
      <3> QED
        BY <1>0, <2>2, <2>4, <3>3, <3>4, HeldGrows
    <2> QED
      BY <2>5, <2>6
  <1>12. CASE Return
    <2>1. Running /\ reg.frame # Global /\ UNCHANGED <<rec, sched, scan, state, rs, ds, heap>>
      BY <1>12 DEF Return, world
    <2>2. reg \in Images /\ Linked(reg.home, reg, rs[reg.home]) /\ reg.rp \in 0 .. RSCells
      BY <2>1, RunningWorld DEF Images
    <2>3. reg.rp \in 1 .. reg.rp /\ reg.frame[1] = reg.home /\ reg.frame[2] = reg.rp
      <3>1. reg.rp # 0 /\ reg.frame = <<reg.home, reg.rp>>
        BY <2>1, <2>2 DEF Linked, Cell
      <3> QED
        BY <2>2, <3>1, Constants
    <2>4. /\ reg' \in Images /\ reg'.home = reg.home /\ reg'.rp = reg.rp - 1
          /\ reg'.sp = rs[reg.home][reg.rp].sp /\ reg'.ctx = rs[reg.home][reg.rp].saved
      BY <1>0, <1>12, <2>3, ReturnTypes
    <2>5. q = (IF w = reg.home THEN reg' ELSE r) /\ Alive(w)
      BY <2>1, <2>4, EvaluatorImages DEF Alive
    <2>6. CASE w # reg.home
      <3>1. q = r
        BY <2>5, <2>6
      <3> QED
        BY <1>3, <1>4, <2>1, <2>5, <3>1
    <2>7. CASE w = reg.home
      <3>1. q = reg' /\ r = reg
        BY <2>1, <2>5, <2>7, RunningWorld
      <3>2. q \in Images /\ q.sp <= r.sp /\ ds'[w] = ds[w] /\ heap \subseteq heap'
        BY <2>1, <2>2, <2>3, <2>4, <2>7, <3>1 DEF Linked
      <3>3. CellsOf(q, rs'[w]) \subseteq CellsOf(r, rs[w])
        <4>1. \A n \in 1 .. reg.rp - 1 : n \in 1 .. reg.rp
          BY <2>2, Constants
        <4> QED
          BY <2>1, <2>3, <2>4, <2>7, <3>1, <4>1 DEF CellsOf
      <3> QED
        BY <1>0, <2>1, <2>5, <3>2, <3>3, HeldGrows
    <2> QED
      BY <2>6, <2>7
  <1>13. CASE Collect
    <2>1. /\ Running /\ MayBegin /\ heap' = heap \cap Roots /\ reg' = Begin(reg)
          /\ UNCHANGED <<rec, sched, scan, state, rs, ds>>
      BY <1>13 DEF Collect, MayBegin, world
    <2>2. q = (IF w = reg.home THEN reg' ELSE r) /\ Alive(w)
      BY <1>0, <2>1, EvaluatorImages, BeginImage DEF Alive
    <2>3. w = reg.home => r = reg
      BY <2>1, RunningWorld
    <2>4. q.ctx = r.ctx /\ q.rp = r.rp /\ q.sp = r.sp
      BY <1>0, <2>1, <2>2, <2>3, BeginImage
    <2>5. HeldBy(w, r, ds, rs, heap)
      BY <2>2 DEF AllHeld
    <2>6. /\ \A i \in 1 .. r.sp : ds[w][i] \in Roots
          /\ w # Main => \A a \in CellsOf(r, rs[w]) \ {Global} : rs[a[1]][a[2]].val \in Roots
      BY <2>1, <2>2, RootsAreHeld
    <2>7. CellsOf(q, rs[w]) = CellsOf(r, rs[w])
      BY <2>4 DEF CellsOf
    <2> QED
      BY <2>1, <2>4, <2>5, <2>6, <2>7 DEF HeldBy
  <1>14. CASE RunTasks \/ Yield
    <2>1. MayBegin /\ Running /\ UNCHANGED <<rs, ds, heap>> /\ Alive(w)
      BY <1>14 DEF RunTasks, Yield, MayBegin, Alive
    <2>2. q = IF w = reg.home THEN Begin(reg) ELSE r
      BY <1>14, SwitchImages
    <2>3. w = reg.home => r = reg
      BY <2>1, RunningWorld
    <2>4. q \in Images /\ q.ctx = r.ctx /\ q.rp = r.rp /\ q.sp = r.sp
      BY <1>0, <1>3, <2>1, <2>2, <2>3, BeginImage
    <2>5. q.sp <= r.sp
      BY <1>3, <2>4
    <2> QED
      BY <1>4, <2>1, <2>4, <2>5
  <1>15. CASE TaskFinish
    <2>1. q = r /\ Alive(w) /\ UNCHANGED <<rs, ds, heap>>
      BY <1>15, FinishImages DEF TaskFinish
    <2> QED
      BY <1>3, <1>4, <2>1
  <1>16. CASE Skip \/ Dispatch \/ Done
    <2>1. q = r /\ Alive(w) /\ UNCHANGED <<rs, ds, heap>>
      BY <1>16, ScanImages DEF Skip, Dispatch, Done
    <2> QED
      BY <1>3, <1>4, <2>1
  <1>17. CASE Spawn
    <2>1. /\ MayBegin /\ Running /\ reg.rp < RSCells /\ Push(reg) /\ reg \in Images
          /\ UNCHANGED <<ds, heap>> /\ reg.rp \in Nat /\ reg.home \in Worlds
      BY <1>0, <1>17, Constants DEF Spawn, MayBegin, StackTypes, Images
    <2>2. /\ rs'[reg.home][reg.rp + 1].val = None
          /\ reg.rp + 1 \in 1 .. RSCells
          /\ \A v \in Worlds, n \in 1 .. RSCells :
               v # reg.home \/ n # reg.rp + 1 => rs'[v][n] = rs[v][n]
      <3>1. /\ rs'[reg.home][reg.rp + 1] =
                   [val |-> None, sp |-> reg.sp, saved |-> reg.ctx, below |-> reg.frame]
            /\ \A n \in 1 .. RSCells : n # reg.rp + 1 => rs'[reg.home][n] = rs[reg.home][n]
            /\ \A v \in Worlds : v # reg.home => rs'[v] = rs[v]
            /\ reg.rp + 1 \in 1 .. RSCells
        BY <1>0, <2>1, PushTypes
      <3> QED
        BY <3>1
    <2>3. \A v \in Worlds, n \in 1 .. RSCells :
             /\ rs'[v][n].val = rs[v][n].val \/ rs'[v][n].val \in heap' \cup {None}
             /\ n <= reg.rp \/ v # reg.home => rs'[v][n].saved = rs[v][n].saved
      <3> SUFFICES ASSUME NEW v \in Worlds, NEW n \in 1 .. RSCells
                   PROVE  /\ rs'[v][n].val = rs[v][n].val \/ rs'[v][n].val \in heap' \cup {None}
                          /\ n <= reg.rp \/ v # reg.home => rs'[v][n].saved = rs[v][n].saved
        OBVIOUS
      <3>1. CASE v = reg.home /\ n = reg.rp + 1
        BY <2>1, <2>2, <3>1
      <3>2. CASE ~ (v = reg.home /\ n = reg.rp + 1)
        BY <2>2, <3>2
      <3> QED
        BY <3>1, <3>2
    <2>4. ASSUME Alive(w), q = IF w = reg.home THEN Begin(reg) ELSE r
          PROVE  HeldBy(w, q, ds', rs', heap')
      <3>1. w = reg.home => r = reg
        BY <2>1, RunningWorld
      <3>2. q \in Images /\ q.ctx = r.ctx /\ q.rp = r.rp /\ q.sp = r.sp
        BY <1>0, <1>3, <2>1, <2>4, <3>1, BeginImage
      <3>3. CASE w = reg.home
        <4>1. q.sp <= r.sp
          BY <1>3, <3>2
        <4> QED
          BY <1>4, <2>1, <2>3, <2>4, <3>1, <3>2, <3>3, <4>1
      <3>4. CASE w # reg.home
        <4>1. q = r /\ \A n \in 1 .. RSCells : rs'[w][n] = rs[w][n]
          BY <2>2, <2>4, <3>4
        <4>2. CellsOf(q, rs'[w]) = CellsOf(r, rs[w])
          BY <1>3, <4>1 DEF CellsOf
        <4>3. q \in Images /\ q.sp <= r.sp /\ ds'[w] = ds[w] /\ heap \subseteq heap'
          BY <1>3, <2>1, <4>1
        <4> QED
          BY <1>0, <2>3, <2>4, <4>2, <4>3, HeldGrows
      <3> QED
        BY <3>3, <3>4
    <2>5. CASE /\ state' = state
               /\ \A v \in Worlds : Image(v)' = IF v = reg.home THEN Begin(reg) ELSE Image(v)
      BY <2>4, <2>5 DEF Alive
    <2>6. ASSUME NEW s \in Slots, state[s] = "empty", state' = [state EXCEPT ![s] = "runnable"],
                 s # reg.home,
                 \A v \in Worlds : Image(v)' = IF v = reg.home THEN Begin(reg)
                                               ELSE IF v = s THEN Start(s, <<reg.home, reg.rp + 1>>)
                                               ELSE Image(v)
          PROVE  HeldBy(w, q, ds', rs', heap')
      <3>1. CASE w = s
        <4>1. q = Start(s, <<reg.home, reg.rp + 1>>)
          BY <2>6, <3>1
        <4>2. q.sp = 0 /\ q.rp = 0 /\ q.ctx = <<reg.home, reg.rp + 1>>
          BY <4>1 DEF Start
        <4>3. CellsOf(q, rs'[w]) = {<<reg.home, reg.rp + 1>>}
          BY <4>2 DEF CellsOf
        <4> QED
          BY <2>2, <4>2, <4>3 DEF HeldBy
      <3>2. CASE w # s
        <4>1. Alive(w)
          BY <1>0, <2>6, <3>2, Constants DEF Alive, SInv, SchedulerTypes
        <4> QED
          BY <2>4, <2>6, <3>2, <4>1
      <3> QED
        BY <3>1, <3>2
    <2> QED
      BY <1>17, <2>5, <2>6, SpawnImages
  <1> QED
    BY <1>5, <1>7, <1>8, <1>9, <1>10, <1>11, <1>12, <1>13, <1>14, <1>15, <1>16, <1>17 DEF Next

(* No collection takes an object that a task can still reach, nor an       *)
(* operand of the main program, however tasks and collections interleave.  *)
(* That a function of the main program keeps no object in a local while    *)
(* tasks run is needed: the collector does not look there.                 *)
THEOREM TasksAreSound ==
  ASSUME SchedulerLocals = FALSE
  PROVE  Spec => []WorldsAreSound
  <1>1. Init => AllHeld
    <2> SUFFICES ASSUME Init PROVE AllHeld
      OBVIOUS
    <2>1. ASSUME NEW w \in Worlds, Alive(w) PROVE HeldBy(w, Image(w), ds, rs, heap)
      <3>1. w = Main
        BY <2>1, Constants DEF Alive, Init
      <3>2. Image(w) = Start(Main, Global)
        BY <3>1 DEF Init, Image, Start, Off
      <3> QED
        BY <3>1, <3>2 DEF Start, HeldBy
    <2> QED
      BY <2>1 DEF AllHeld, Init
  <1>2. StackInv /\ AllHeld /\ [Next]_vars => AllHeld'
    BY StepKeepsHeld
  <1>3. StackInv /\ AllHeld => TaskObjectsKept
    <2> SUFFICES ASSUME StackInv, AllHeld,
                        NEW o \in {global} \cup Operands(Main, Image(Main).sp)
                          \cup UNION {Locals(Image(s)) \cup Operands(s, Image(s).sp)
                                        : s \in {s \in Slots : Alive(s)}},
                        o # None
                 PROVE  o \in heap
      BY DEF TaskObjectsKept
    <2>1. CASE o = global
      BY <2>1 DEF AllHeld
    <2>2. ASSUME NEW w \in Worlds, Alive(w), o \in Operands(w, Image(w).sp) PROVE o \in heap
      BY <2>2 DEF AllHeld, HeldBy, Operands
    <2>3. ASSUME NEW s \in Slots, Alive(s), o \in Locals(Image(s)) PROVE o \in heap
      <3>1. Contexts(Image(s)) = CellsOf(Image(s), rs[s])
        BY <2>3, ImageTypes, ContextsOfStack, Constants DEF CellsOf, StackInv, AllLinked
      <3>2. PICK a \in CellsOf(Image(s), rs[s]) \ {Global} : o = rs[a[1]][a[2]].val
        BY <2>3, <3>1 DEF Locals
      <3>3. HeldBy(s, Image(s), ds, rs, heap)
        BY <2>3, Constants DEF AllHeld
      <3> QED
        BY <3>2, <3>3, Constants DEF HeldBy
    <2> QED
      BY <2>1, <2>2, <2>3, Constants DEF Alive
  <1> QED
    BY <1>1, <1>2, <1>3, StackInvariance, StacksAreOwned, TypeCorrectness, PTL DEF Spec, WorldsAreSound

-----------------------------------------------------------------------------
(* The refinement: a world's view is its pc, its locals and its operands.  *)

ViewOf(r, S, D) == [pc |-> r.pc,
                    locals |-> [n \in 1 .. r.rp |-> S[n].val],
                    held |-> [n \in 1 .. r.sp |-> D[n]]]

Views == [w \in Worlds |-> View(w)]

(* A view is made of the world's image and its own two stacks. *)
LEMMA ViewParts ==
  ASSUME NEW w \in Worlds
  PROVE  /\ View(w) = ViewOf(Image(w), rs[w], ds[w])
         /\ View(w)' = ViewOf(Image(w)', rs'[w], ds'[w])
         /\ Views[w] = View(w) /\ Views'[w] = View(w)'
  BY DEF View, ViewOf, Views

(* A world whose image and stacks stay looks the same. *)
LEMMA SameView ==
  ASSUME NEW w \in Worlds, Image(w)' = Image(w), rs'[w] = rs[w], ds'[w] = ds[w]
  PROVE  View(w)' = View(w)
  BY ViewParts

(* A step of the evaluator is a step of the running world alone. *)
LEMMA ActRefines ==
  ASSUME StackInv, Running, UNCHANGED <<scan, state>>, reg'.home = reg.home,
         \A w \in Worlds : w # reg.home => /\ Image(w)' = Image(w)
                                           /\ rs'[w] = rs[w] /\ ds'[w] = ds[w],
         reg'.pc \in {reg.pc, reg.pc + 1}
  PROVE  Abstract!Act(reg.home)
  <1> DEFINE h == reg.home
  <1>1. h \in Worlds /\ Image(h) = reg /\ Image(h)' = reg' /\ Running'
    BY RunningWorld DEF Image, Running
  <1>2. \A w \in Worlds : w # h => View(w)' = View(w)
    BY SameView
  <1>3. View(h)'.pc \in {View(h).pc, View(h).pc + 1}
    BY <1>1, ViewParts DEF ViewOf
  <1>4. Views' = [Views EXCEPT ![h] = Views'[h]]
    BY <1>1, <1>2 DEF Views
  <1>5. Views'[h].pc \in {Views[h].pc, Views[h].pc + 1}
    BY <1>1, <1>3 DEF Views
  <1>6. ~scan.on /\ ~scan'.on /\ reg'.home = reg.home /\ state' = state
    BY <1>1 DEF Running
  <1> QED
    BY <1>4, <1>5, <1>6 DEF Abstract!Act, Abstract!Runs, Abstract!OnlyChanges, Views

(* What a program assigns is its own: the global binding, or a cell of the *)
(* running world's stack.                                                  *)
LEMMA AssignOwn ==
  ASSUME BaseLocals = FALSE, StackInv, Running, UsesLocal, NEW v \in Values, Assign(v)
  PROVE  \A w \in Worlds : w # reg.home => rs'[w] = rs[w]
  <1>1. /\ reg \in Images /\ reg.home \in Worlds /\ Linked(reg.home, reg, rs[reg.home])
        /\ rs \in [Worlds -> [1 .. RSCells -> Activations]]
    BY RunningWorld DEF StackInv, StackTypes
  <1>2. CASE reg.ctx = Global
    BY <1>2 DEF Assign
  <1>3. CASE reg.ctx # Global
    <2>1. reg.rp # 0
      BY <1>1, <1>3 DEF Linked, UsesLocal
    <2>2. reg.rp \in 0 .. RSCells
      BY <1>1 DEF Images
    <2>3. reg.ctx = <<reg.home, reg.rp>>
      BY <1>1, <2>1, <2>2, Constants DEF Linked
    <2>4. rs' = [rs EXCEPT ![reg.home][reg.rp].val = v]
      BY <1>3, <2>3 DEF Assign
    <2> QED
      BY <1>1, <2>4
  <1> QED
    BY <1>2, <1>3

(* Each operation of the evaluator is a step of the running world.         *)
LEMMA EvaluatorRefines ==
  ASSUME BaseLocals = FALSE, StackInv,
         \/ Clear \/ Consume \/ Call \/ Return \/ Collect
         \/ \E o \in Objects : Store(o) \/ Hold(o)
  PROVE  Abstract!Act(reg.home)
  <1>0. StackTypes /\ reg \in Images
    BY DEF StackInv, StackTypes
  <1>1. Running /\ UNCHANGED <<rec, sched, scan, state>>
    BY DEF Clear, Consume, Call, Return, Collect, Store, Hold, MayBegin, world
  <1>2. reg'.home = reg.home /\ reg'.pc \in {reg.pc, reg.pc + 1}
    <2>1. CASE Clear \/ Collect \/ \E o \in Objects : Store(o)
      BY <1>0, <2>1, BeginImage DEF Clear, Collect, Store
    <2>2. CASE \E o \in Objects : Hold(o)
      <3>1. MayBegin /\ reg' = [Begin(reg) EXCEPT !.sp = Begin(reg).sp + 1]
        BY <2>2 DEF Hold
      <3>2. Begin(reg) \in Images /\ Begin(reg).home = reg.home /\ Begin(reg).pc = reg.pc + 1
        BY <1>0, <3>1, BeginImage
      <3> QED
        BY <3>1, <3>2 DEF Images
    <2>3. CASE Consume
      BY <1>0, <2>3 DEF Consume, Images
    <2>4. CASE Call
      BY <1>0, <2>4, CallTypes
    <2>5. CASE Return
      <3>1. reg.frame # Global /\ reg.frame = Cell(reg.home, reg.rp)
        BY <1>1, <2>5, RunningWorld DEF Return, Linked
      <3>2. reg.frame[1] = reg.home
        BY <3>1 DEF Cell
      <3> QED
        BY <1>0, <2>5, <3>2, ReturnTypes
    <2> QED
      BY <2>1, <2>2, <2>3, <2>4, <2>5
  <1>3. \A w \in Worlds : w # reg.home => rs'[w] = rs[w]
    <2>1. CASE Clear \/ \E o \in Objects : Store(o)
      <3>1. PICK v \in Values : Assign(v) /\ UsesLocal
        BY <2>1, Constants DEF Clear, Store
      <3> QED
        BY <1>1, <3>1, AssignOwn
    <2>2. CASE Call
      <3>1. Push(reg) /\ reg.rp < RSCells
        BY <2>2 DEF Call
      <3> QED
        BY <1>0, <3>1, PushTypes
    <2>3. CASE Consume \/ Return \/ Collect \/ \E o \in Objects : Hold(o)
      BY <2>3 DEF Consume, Return, Collect, Hold
    <2> QED
      BY <2>1, <2>2, <2>3
  <1>4. \A w \in Worlds : w # reg.home => ds'[w] = ds[w]
    <2>1. CASE \E o \in Objects : Hold(o)
      <3>1. PICK o : ds' = [ds EXCEPT ![reg.home][reg.sp + 1] = o]
        BY <2>1 DEF Hold
      <3> QED
        BY <1>0, <3>1 DEF StackTypes
    <2>2. CASE Clear \/ Consume \/ Call \/ Return \/ Collect \/ \E o \in Objects : Store(o)
      BY <2>2 DEF Clear, Consume, Call, Return, Collect, Store
    <2> QED
      BY <2>1, <2>2
  <1>5. \A w \in Worlds : w # reg.home => Image(w)' = Image(w)
    BY <1>1, <1>2, EvaluatorImages
  <1> QED
    BY <1>1, <1>2, <1>3, <1>4, <1>5, ActRefines

(* A saved image has begun one more operation, and is else what it was.    *)
LEMMA SavedView ==
  ASSUME StackInv, Running, MayBegin, NEW h \in Worlds, h = reg.home,
         Image(h)' = Begin(reg), ds' = ds,
         \A n \in 1 .. RSCells : n <= reg.rp => rs'[h][n] = rs[h][n]
  PROVE  View(h)' = [View(h) EXCEPT !.pc = @ + 1]
  <1>1. /\ h \in Worlds /\ Image(h) = reg /\ reg \in Images /\ StackTypes
        /\ Begin(reg).pc = reg.pc + 1 /\ Begin(reg).rp = reg.rp /\ Begin(reg).sp = reg.sp
    BY RunningWorld, BeginImage DEF StackInv
  <1>2. \A n \in 1 .. reg.rp : n \in 1 .. RSCells /\ n <= reg.rp
    <2>1. reg.rp \in 0 .. RSCells
      BY <1>1 DEF Images
    <2> QED
      BY <2>1, Constants
  <1>3. View(h) = ViewOf(reg, rs[h], ds[h])
    BY <1>1, ViewParts
  <1>4. View(h)' = ViewOf(Begin(reg), rs'[h], ds[h])
    BY <1>1, ViewParts
  <1>5. [n \in 1 .. reg.rp |-> rs'[h][n].val] = [n \in 1 .. reg.rp |-> rs[h][n].val]
    BY <1>2
  <1> DEFINE L == [n \in 1 .. reg.rp |-> rs[h][n].val]
             H == [n \in 1 .. reg.sp |-> ds[h][n]]
  <1>6. View(h) = [pc |-> reg.pc, locals |-> L, held |-> H]
    BY <1>3 DEF ViewOf
  <1>7. View(h)' = [pc |-> reg.pc + 1, locals |-> L, held |-> H]
    BY <1>1, <1>4, <1>5 DEF ViewOf
  <1> HIDE DEF L, H
  <1> QED
    BY <1>6, <1>7

(* run-tasks and yield suspend the running world. *)
LEMMA SuspendRefines ==
  ASSUME StackInv, RunTasks \/ Yield
  PROVE  Abstract!Suspend(reg.home)
  <1>1. Running /\ MayBegin /\ UNCHANGED <<state, rs, ds, global>> /\ scan'.on
    BY DEF RunTasks, Yield, MayBegin, Rescan
  <1> PICK h \in Worlds : h = reg.home
    BY <1>1, RunningWorld
  <1>2. h \in Worlds /\ Image(h)' = Begin(reg) /\ \A w \in Worlds : w # h => Image(w)' = Image(w)
    BY <1>1, RunningWorld, SwitchImages
  <1>3. View(h)' = [View(h) EXCEPT !.pc = @ + 1]
    BY <1>1, <1>2, SavedView
  <1>4. \A w \in Worlds : w # h => View(w)' = View(w)
    BY <1>1, <1>2, SameView
  <1>5. Views' = [Views EXCEPT ![h].pc = @ + 1]
    BY <1>2, <1>3, <1>4 DEF Views
  <1> QED
    BY <1>1, <1>5 DEF Abstract!Suspend, Abstract!Runs, Views, Running

(* spawn gives an empty slot a fresh world, or is a step of the caller.    *)
LEMMA SpawnRefines ==
  ASSUME StackInv, Spawn
  PROVE  Abstract!Act(reg.home) \/ \E s \in Slots : Abstract!Spawn(reg.home, s)
  <1>1. /\ MayBegin /\ Running /\ reg.rp < RSCells /\ Push(reg) /\ reg \in Images
        /\ UNCHANGED <<ds, heap, scan, sched, global>> /\ reg' = Begin(reg) /\ StackTypes
    BY DEF Spawn, MayBegin, StackInv, StackTypes
  <1> PICK h \in Worlds : h = reg.home
    BY <1>1, RunningWorld
  <1>2. h \in Worlds /\ reg'.home = h /\ reg'.pc = reg.pc + 1
    BY <1>1, RunningWorld, BeginImage
  <1>3. /\ \A w \in Worlds : w # h => rs'[w] = rs[w]
        /\ \A n \in 1 .. RSCells : n <= reg.rp => rs'[h][n] = rs[h][n]
    <2>1. reg.rp \in 0 .. RSCells
      BY <1>1 DEF Images
    <2>2. \A n \in 1 .. RSCells : n <= reg.rp => n # reg.rp + 1
      BY <2>1, Constants
    <2> QED
      BY <1>1, <2>2, PushTypes
  <1>4. CASE /\ state' = state
             /\ \A w \in Worlds : Image(w)' = IF w = h THEN Begin(reg) ELSE Image(w)
    BY <1>1, <1>2, <1>3, <1>4, ActRefines
  <1>5. ASSUME NEW s \in Slots, state[s] = "empty", state' = [state EXCEPT ![s] = "runnable"],
               s # h,
               \A w \in Worlds : Image(w)' = IF w = h THEN Begin(reg)
                                             ELSE IF w = s THEN Start(s, <<reg.home, reg.rp + 1>>)
                                             ELSE Image(w)
        PROVE  Abstract!Spawn(h, s)
    <2>1. View(h)' = [View(h) EXCEPT !.pc = @ + 1]
      BY <1>1, <1>2, <1>3, <1>5, SavedView
    <2>2. View(s)' = Abstract!Fresh
      <3>1. Image(s)' = Start(s, <<reg.home, reg.rp + 1>>)
        BY <1>5, Constants
      <3>2. View(s)' = ViewOf(Start(s, <<reg.home, reg.rp + 1>>), rs'[s], ds'[s])
        BY <3>1, ViewParts, Constants
      <3> QED
        BY <3>2 DEF ViewOf, Start, Abstract!Fresh
    <2>3. \A w \in Worlds : w # h /\ w # s => View(w)' = View(w)
      BY <1>1, <1>3, <1>5, SameView
    <2>4. Views' = [Views EXCEPT ![h].pc = @ + 1, ![s] = Abstract!Fresh]
      BY <1>2, <1>5, <2>1, <2>2, <2>3, Constants DEF Views
    <2>5. scan' = scan /\ ~scan.on /\ reg'.home = reg.home /\ global' = global
      BY <1>1, <1>2 DEF Running
    <2> QED
      BY <1>5, <2>4, <2>5 DEF Abstract!Spawn, Abstract!Runs, Views
  <1> QED
    BY <1>4, <1>5, SpawnImages

(* task-finish ends the running task and touches no other world.           *)
LEMMA FinishRefines ==
  ASSUME StackInv, TaskFinish
  PROVE  Abstract!Finish(reg.home)
  <1> DEFINE h == reg.home
  <1>1. /\ Running /\ scan'.on /\ h # Main /\ UNCHANGED <<rec, ds, rs, global>> /\ sched' = sched
        /\ state' = [state EXCEPT ![cur] = "finished"]
    BY DEF TaskFinish, Rescan
  <1>2. h = cur /\ cur \in Slots
    BY <1>1 DEF StackInv, Switched, SInv, SchedulerTypes
  <1>3. ASSUME NEW w \in Worlds, w # h PROVE View(w)' = View(w)
    <2>1. Image(w)' = Image(w)
      BY <1>1, <1>3 DEF Image, Suspended, Running
    <2> QED
      BY <1>1, <2>1, SameView
  <1>4. \A w \in Worlds : w # h => Views'[w] = Views[w]
    BY <1>3 DEF Views
  <1> QED
    BY <1>1, <1>2, <1>4 DEF Abstract!Finish, Abstract!Runs, Views, Running, Worlds

(* The scan resumes a runnable task, or the main program when none is.     *)
LEMMA ScanRefines ==
  ASSUME StackInv, Skip \/ Dispatch \/ Done
  PROVE  \/ \E s \in Slots : Abstract!Resume(s)
         \/ Abstract!AllDone
         \/ UNCHANGED Abstract!vars
  <1>1. Views' = Views /\ UNCHANGED <<state, global, rs, ds>> /\ scan.on
    <2>1. UNCHANGED <<state, global, rs, ds>> /\ scan.on
      BY DEF Skip, Dispatch, Done
    <2>2. \A w \in Worlds : View(w)' = View(w)
      BY <2>1, ScanImages, SameView
    <2> QED
      BY <2>1, <2>2 DEF Views
  <1>2. scan \in [on : BOOLEAN, at : Slots, count : 0 .. NTasks]
    BY DEF StackInv, SInv, SchedulerTypes
  <1>3. CASE Skip
    <2>1. scan' = [scan EXCEPT !.at = Following(@), !.count = @ + 1]
      BY <1>3 DEF Skip
    <2>2. scan'.on
      BY <1>1, <1>2, <2>1
    <2> QED
      BY <1>1, <2>2 DEF Abstract!vars, Views
  <1>4. CASE Dispatch
    <2>1. scan.at \in Slots /\ state[scan.at] = "runnable" /\ ~scan'.on /\ reg' = rec[scan.at]
      BY <1>2, <1>4 DEF Dispatch, Off
    <2>2. reg'.home = scan.at
      BY <2>1 DEF StackInv, Switched
    <2>3. Abstract!Resume(scan.at)
      BY <1>1, <2>1, <2>2 DEF Abstract!Resume, Views
    <2> QED
      BY <2>1, <2>3
  <1>5. CASE Done
    <2>1. ~scan'.on /\ reg' = reg /\ scan.count = NTasks
      BY <1>5 DEF Done, Off
    <2>2. reg'.home = Main
      BY <1>1, <2>1 DEF StackInv, Switched
    <2>3. ASSUME NEW s \in Slots, state[s] = "runnable" PROVE FALSE
      <3>1. NTasks <= Distance(cursor, s)
        BY <1>1, <2>1, <2>3 DEF StackInv, SInv, ScanIsAhead
      <3> QED
        BY <3>1, DistanceBound DEF StackInv, SInv, SchedulerTypes
    <2> QED
      BY <1>1, <2>1, <2>2, <2>3 DEF Abstract!AllDone, Views
  <1> QED
    BY <1>3, <1>4, <1>5

(* The register images, the records and the shared stacks implement worlds *)
(* with private state, as long as a task's outermost level assigns no      *)
(* local (it would be one of the function that spawned it).                *)
THEOREM TasksRefineAbstractTasks ==
  ASSUME BaseLocals = FALSE
  PROVE  Spec => ImplementsAbstractTasks
  <1>1. Init => Abstract!Init
    <2> SUFFICES ASSUME Init PROVE Abstract!Init
      OBVIOUS
    <2>1. ASSUME NEW w \in Worlds PROVE View(w) = Abstract!Fresh
      <3>1. Image(w) = Start(w, Global)
        BY Constants DEF Init, Image, Suspended, Start
      <3>2. View(w) = ViewOf(Start(w, Global), rs[w], ds[w])
        BY <3>1, ViewParts
      <3> QED
        BY <3>2 DEF ViewOf, Start, Abstract!Fresh
    <2>2. reg.home = Main /\ ~scan.on /\ global = None /\ state = [s \in Slots |-> "empty"]
      BY DEF Init, Start, Off
    <2> QED
      BY <2>1, <2>2 DEF Abstract!Init, Worlds
  <1>2. StackInv /\ [Next]_vars => [Abstract!Next]_(Abstract!vars)
    <2> SUFFICES ASSUME StackInv, [Next]_vars PROVE [Abstract!Next]_(Abstract!vars)
      OBVIOUS
    <2>1. CASE UNCHANGED vars
      <3>1. UNCHANGED <<reg, rec, sched, scan, rs, ds, state, global>>
        BY <2>1 DEF vars
      <3>2. \A w \in Worlds : View(w)' = View(w)
        BY <3>1, SameView DEF Image, Suspended
      <3> QED
        BY <3>1, <3>2 DEF Abstract!vars
    <2>2. ASSUME Running PROVE reg.home \in Slots \cup {Main}
      BY <2>2, RunningWorld DEF Worlds
    <2>3. CASE \/ Clear \/ Consume \/ Call \/ Return \/ Collect
               \/ \E o \in Objects : Store(o) \/ Hold(o)
      <3>1. Running
        BY <2>3 DEF Clear, Consume, Call, Return, Collect, Store, Hold, MayBegin
      <3> QED
        BY <2>2, <2>3, <3>1, EvaluatorRefines DEF Abstract!Next
    <2>4. CASE Spawn
      BY <2>2, <2>4, SpawnRefines DEF Abstract!Next, Spawn, MayBegin
    <2>5. CASE RunTasks \/ Yield
      BY <2>2, <2>5, SuspendRefines DEF Abstract!Next, RunTasks, Yield, MayBegin
    <2>6. CASE TaskFinish
      BY <2>2, <2>6, FinishRefines DEF Abstract!Next, TaskFinish
    <2>7. CASE Skip \/ Dispatch \/ Done
      BY <2>7, ScanRefines DEF Abstract!Next
    <2> QED
      BY <2>1, <2>3, <2>4, <2>5, <2>6, <2>7 DEF Next
  <1> QED
    BY <1>1, <1>2, StackInvariance, PTL DEF Spec, ImplementsAbstractTasks, Abstract!Spec

=============================================================================
