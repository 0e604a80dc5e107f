-------------------------------- MODULE Heap --------------------------------
(***************************************************************************)
(* The managed heap: r_alloc (first fit, split, bump, collect once and     *)
(* retry) and the sweep of r_collect (clear marks, free, coalesce), as     *)
(* emitted by emit_alloc and the last third of emit_collect in             *)
(* r0_s1_runtime.c.  The mark phase appears here as the set of objects it  *)
(* left marked; module Marking models how it computes that set.            *)
(*                                                                         *)
(* Everything is counted in 16-cell units: headers, payloads and extents   *)
(* are multiples of 16 cells because every caller of r_alloc rounds its    *)
(* request (closures 16, contexts 64, library objects "15 ADD 16 DIV 16    *)
(* MUL"), and object addresses carry a 4-bit tag.                          *)
(***************************************************************************)
EXTENDS Integers, FiniteSets

CONSTANTS
    HeapBase,      \* GC_HEAP_BASE, in units; not 0, which GC_C6 uses for "none"
    HeapLimit,     \* GC_HEAP_LIMIT, in units
    Seeds,         \* descriptors seed_datatype_heap puts at the bottom
    Payloads,      \* payload sizes the evaluator and the libraries ask for
    Kinds,         \* GC_KIND_*
    SeedKind       \* GC_KIND_USER, the kind of the seeded descriptors

ASSUME HeapAssumption ==
    /\ HeapBase \in Nat \ {0}
    /\ Seeds \in Nat
    /\ HeapLimit \in Nat
    /\ HeapBase + 2 * Seeds <= HeapLimit
    /\ Payloads \subseteq Nat \ {0}
    /\ SeedKind \in Kinds

VARIABLES
    blk,           \* header address -> [size, state, kind], one per block of the walk
    hp,            \* REG_HP, the frontier
    pc,            \* "run", "alloc" (in r_alloc), "mark", "sweep" (in r_collect), "oom"
    req,           \* the request r_alloc is serving: [extent, kind, attempt]
    addr,          \* GC_T6, the header the sweep looks at next
    prevFree,      \* GC_C6, the free run being coalesced, 0 if none
    stat           \* GC_LIVE_CELLS, GC_FREE_CELLS, GC_FREE_BLOCKS, GC_LAST_RECLAM

vars == <<blk, hp, pc, req, addr, prevFree, stat>>

States == {"free", "alloc", "marked"}
Block  == [size : Nat \ {0, 1}, state : States, kind : Kinds]

(* The state of the request register when no r_alloc is under way; attempt *)
(* 1 also stands for a bare collection (the tests' RAW word collect).      *)
NoRequest == [extent |-> 0, kind |-> SeedKind, attempt |-> 0]

Allocated == {a \in DOMAIN blk : blk[a].state # "free"}
Marked    == {a \in DOMAIN blk : blk[a].state = "marked"}
FreeBlocks == {a \in DOMAIN blk : blk[a].state = "free"}
SeedAddrs == {HeapBase + 2 * t : t \in 0 .. (Seeds - 1)}

Init ==
    /\ blk = [a \in SeedAddrs |-> [size |-> 2, state |-> "alloc", kind |-> SeedKind]]
    /\ hp = HeapBase + 2 * Seeds
    /\ pc = "run"
    /\ req = NoRequest
    /\ addr = HeapBase
    /\ prevFree = 0
    /\ stat = [live |-> 0, free |-> 0, blocks |-> 0, reclaim |-> 0]

-----------------------------------------------------------------------------
(* r_alloc *)

(* entry: extent = n + one header unit, attempt = 0 *)
Request(n, k) ==
    /\ pc = "run"
    /\ req' = [extent |-> n + 1, kind |-> k, attempt |-> 0]
    /\ pc' = "alloc"
    /\ UNCHANGED <<blk, hp, addr, prevFree, stat>>

Fitting == {a \in FreeBlocks : blk[a].size >= req.extent}

(* mutant: the header of the block that is split keeps its old size *)
SplitNoShrink(a) ==
    LET rest == a + req.extent
    IN  blk' = [b \in DOMAIN blk \cup {rest} |->
                  IF b = a THEN [size |-> blk[a].size, state |-> "alloc", kind |-> req.kind]
                  ELSE IF b = rest
                  THEN [size |-> blk[a].size - req.extent, state |-> "free", kind |-> blk[a].kind]
                  ELSE blk[b]]

(* The first free block that is large enough is taken.  It is split when   *)
(* the remainder can hold a header and a payload unit, else taken whole.   *)
Split(a) ==
    LET rest == a + req.extent
    IN  blk' = [b \in DOMAIN blk \cup {rest} |->
                  IF b = a THEN [size |-> req.extent, state |-> "alloc", kind |-> req.kind]
                  ELSE IF b = rest
                  THEN [size |-> blk[a].size - req.extent, state |-> "free", kind |-> blk[a].kind]
                  ELSE blk[b]]

TakeWhole(a) ==
    blk' = [blk EXCEPT ![a] = [size |-> blk[a].size, state |-> "alloc", kind |-> req.kind]]

(* mutant: a remainder of a single unit is split off too *)
FirstFitSplitsOne ==
    /\ pc = "alloc"
    /\ \E a \in Fitting :
          /\ \A b \in Fitting : a <= b
          /\ \/ blk[a].size - req.extent >= 1 /\ Split(a)
             \/ blk[a].size - req.extent < 1 /\ TakeWhole(a)
    /\ pc' = "run"
    /\ req' = NoRequest
    /\ UNCHANGED <<hp, addr, prevFree, stat>>

FirstFit ==
    /\ pc = "alloc"
    /\ \E a \in Fitting :
          /\ \A b \in Fitting : a <= b
          /\ \/ blk[a].size - req.extent >= 2 /\ Split(a)
             \/ blk[a].size - req.extent < 2 /\ TakeWhole(a)
    /\ pc' = "run"
    /\ req' = NoRequest
    /\ UNCHANGED <<hp, addr, prevFree, stat>>

(* mutant: the limit test looks at the old frontier *)
BumpPastLimit ==
    /\ pc = "alloc"
    /\ Fitting = {}
    /\ hp <= HeapLimit
    /\ blk' = [b \in DOMAIN blk \cup {hp} |->
                 IF b = hp THEN [size |-> req.extent, state |-> "alloc", kind |-> req.kind]
                           ELSE blk[b]]
    /\ hp' = hp + req.extent
    /\ pc' = "run"
    /\ req' = NoRequest
    /\ UNCHANGED <<addr, prevFree, stat>>

Bump ==
    /\ pc = "alloc"
    /\ Fitting = {}
    /\ hp + req.extent <= HeapLimit
    /\ blk' = [b \in DOMAIN blk \cup {hp} |->
                 IF b = hp THEN [size |-> req.extent, state |-> "alloc", kind |-> req.kind]
                           ELSE blk[b]]
    /\ hp' = hp + req.extent
    /\ pc' = "run"
    /\ req' = NoRequest
    /\ UNCHANGED <<addr, prevFree, stat>>

NoRoom == Fitting = {} /\ hp + req.extent > HeapLimit

(* mutant: the attempt flag is not tested *)
CollectAgain ==
    /\ pc = "alloc"
    /\ NoRoom
    /\ req' = [req EXCEPT !.attempt = 1]
    /\ pc' = "mark"
    /\ UNCHANGED <<blk, hp, addr, prevFree, stat>>

CollectOnce ==
    /\ pc = "alloc"
    /\ NoRoom
    /\ req.attempt = 0
    /\ req' = [req EXCEPT !.attempt = 1]
    /\ pc' = "mark"
    /\ UNCHANGED <<blk, hp, addr, prevFree, stat>>

OutOfMemory ==
    /\ pc = "alloc"
    /\ NoRoom
    /\ req.attempt # 0
    /\ pc' = "oom"
    /\ UNCHANGED <<blk, hp, req, addr, prevFree, stat>>

-----------------------------------------------------------------------------
(* r_collect *)

(* A RAW fragment may call the collector itself (r0_s1_gc_collect_addr). *)
Collect ==
    /\ pc = "run"
    /\ pc' = "mark"
    /\ UNCHANGED <<blk, hp, req, addr, prevFree, stat>>

(* mutant: GC_LIVE_CELLS is not reset *)
MarkKeepsCount(S) ==
    /\ pc = "mark"
    /\ SeedAddrs \subseteq S
    /\ blk' = [a \in DOMAIN blk |->
                 IF a \in S THEN [blk[a] EXCEPT !.state = "marked"] ELSE blk[a]]
    /\ pc' = "sweep"
    /\ addr' = HeapBase
    /\ prevFree' = 0
    /\ stat' = [stat EXCEPT !.free = 0, !.blocks = 0]
    /\ UNCHANGED <<hp, req>>

(* Roots and drain leave some set of objects marked, the seeded            *)
(* descriptors always among them (the BUILTIN_TYPE table is a root).       *)
Mark(S) ==
    /\ pc = "mark"
    /\ SeedAddrs \subseteq S
    /\ blk' = [a \in DOMAIN blk |->
                 IF a \in S THEN [blk[a] EXCEPT !.state = "marked"] ELSE blk[a]]
    /\ pc' = "sweep"
    /\ addr' = HeapBase
    /\ prevFree' = 0
    /\ stat' = [stat EXCEPT !.live = 0, !.free = 0, !.blocks = 0]
    /\ UNCHANGED <<hp, req>>

(* mutant: the mark is left set *)
SweepLiveKeepsMark ==
    /\ pc = "sweep"
    /\ addr < hp
    /\ blk[addr].state = "marked"
    /\ stat' = [stat EXCEPT !.live = @ + blk[addr].size]
    /\ prevFree' = 0
    /\ addr' = addr + blk[addr].size
    /\ UNCHANGED <<blk, hp, pc, req>>

SweepLive ==
    /\ pc = "sweep"
    /\ addr < hp
    /\ blk[addr].state = "marked"
    /\ blk' = [blk EXCEPT ![addr].state = "alloc"]
    /\ stat' = [stat EXCEPT !.live = @ + blk[addr].size]
    /\ prevFree' = 0
    /\ addr' = addr + blk[addr].size
    /\ UNCHANGED <<hp, pc, req>>

(* mutant: the new run is not remembered *)
SweepNewRunForgotten ==
    /\ pc = "sweep"
    /\ addr < hp
    /\ blk[addr].state # "marked"
    /\ prevFree = 0
    /\ blk' = [blk EXCEPT ![addr].state = "free"]
    /\ stat' = [stat EXCEPT !.free = @ + blk[addr].size, !.blocks = @ + 1]
    /\ addr' = addr + blk[addr].size
    /\ UNCHANGED <<hp, pc, req, prevFree>>

(* A free or unmarked block starts a free run ... *)
SweepNewRun ==
    /\ pc = "sweep"
    /\ addr < hp
    /\ blk[addr].state # "marked"
    /\ prevFree = 0
    /\ blk' = [blk EXCEPT ![addr].state = "free"]
    /\ stat' = [stat EXCEPT !.free = @ + blk[addr].size, !.blocks = @ + 1]
    /\ prevFree' = addr
    /\ addr' = addr + blk[addr].size
    /\ UNCHANGED <<hp, pc, req>>

(* mutant: the run's size is not extended by the block merged into it *)
SweepCoalesceNoGrow ==
    /\ pc = "sweep"
    /\ addr < hp
    /\ blk[addr].state # "marked"
    /\ prevFree # 0
    /\ blk' = [b \in DOMAIN blk \ {addr} |-> blk[b]]
    /\ stat' = [stat EXCEPT !.free = @ + blk[addr].size]
    /\ addr' = addr + blk[addr].size
    /\ UNCHANGED <<hp, pc, req, prevFree>>

(* ... or is merged into the run before it, and its header is gone. *)
SweepCoalesce ==
    /\ pc = "sweep"
    /\ addr < hp
    /\ blk[addr].state # "marked"
    /\ prevFree # 0
    /\ blk' = [b \in DOMAIN blk \ {addr} |->
                 IF b = prevFree THEN [blk[b] EXCEPT !.size = @ + blk[addr].size] ELSE blk[b]]
    /\ stat' = [stat EXCEPT !.free = @ + blk[addr].size]
    /\ addr' = addr + blk[addr].size
    /\ UNCHANGED <<hp, pc, req, prevFree>>

(* r_alloc called the collector for a request, or a RAW fragment for none. *)
SweepDone ==
    /\ pc = "sweep"
    /\ addr >= hp
    /\ stat' = [stat EXCEPT !.reclaim = stat.free]
    /\ pc' = IF req.attempt = 1 THEN "alloc" ELSE "run"
    /\ UNCHANGED <<blk, hp, req, addr, prevFree>>

RAlloc   == FirstFit \/ Bump \/ CollectOnce \/ OutOfMemory
RCollect == (\E S \in SUBSET Allocated : Mark(S))
            \/ SweepLive \/ SweepNewRun \/ SweepCoalesce \/ SweepDone

Next ==
    \/ \E n \in Payloads, k \in Kinds : Request(n, k)
    \/ Collect
    \/ FirstFit \/ Bump \/ CollectOnce \/ OutOfMemory
    \/ \E S \in SUBSET Allocated : Mark(S)
    \/ SweepLive \/ SweepNewRun \/ SweepCoalesce \/ SweepDone

Spec == Init /\ [][Next]_vars

(* s1_run executes until HALT: the emitted code never stops in the middle. *)
FairSpec == Spec /\ WF_vars(RAlloc) /\ WF_vars(RCollect)

-----------------------------------------------------------------------------
(* Every register has its type and the frontier stays inside the heap, so  *)
(* the tooling branch of r_alloc (REG_HP above GC_HEAP_LIMIT, taken only   *)
(* when a debugger fragment moved REG_HP away) is not part of this model.  *)
TypeOK ==
    /\ DOMAIN blk \subseteq HeapBase .. (HeapLimit - 1)
    /\ blk \in [DOMAIN blk -> Block]
    /\ hp \in HeapBase .. HeapLimit
    /\ pc \in {"run", "alloc", "mark", "sweep", "oom"}
    /\ req \in [extent : Nat, kind : Kinds, attempt : {0, 1}]
    /\ addr \in HeapBase .. HeapLimit
    /\ prevFree \in {0} \cup (HeapBase .. (HeapLimit - 1))
    /\ stat \in [live : Nat, free : Nat, blocks : Nat, reclaim : Nat]

(* The walk "addr += size" that r_alloc and the sweep rely on visits block *)
(* headers only: blocks tile [GC_HEAP_BASE, REG_HP) with no gap, no        *)
(* overlap and no header left inside a block after a split or a merge.     *)
Tiling ==
    /\ hp > HeapBase => HeapBase \in DOMAIN blk
    /\ \A a \in DOMAIN blk :
          /\ a + blk[a].size \in DOMAIN blk \cup {hp}
          /\ a + blk[a].size <= hp
          /\ \A b \in DOMAIN blk : b > a => b >= a + blk[a].size

(* Coalescing is complete: two free blocks are never neighbours outside    *)
(* the part of the heap a running sweep has yet to visit, whatever mix of  *)
(* splits and whole takes came before, so first fit never misses a free    *)
(* run because it lies in adjacent pieces.                                 *)
NoAdjacentFree ==
    \A a, b \in FreeBlocks :
        b = a + blk[a].size => pc = "sweep" /\ b >= addr

(* The mark bit is a transient of one collection: when evaluator code runs *)
(* no block is marked, and during a sweep no marked block is behind it, so *)
(* the next collection starts from clean marks.                            *)
MarksAreTransient ==
    \A a \in Marked : pc = "sweep" /\ a >= addr

(* The counters the collector publishes are conserved: every cell the      *)
(* sweep has passed was counted once, as live or as free, although merging *)
(* removes headers while it runs; a finished one accounts for all cells.   *)
SweepAccounting ==
    pc = "sweep" => stat.live + stat.free = addr - HeapBase

(* The heap is whole between any two steps: the walk works, coalescing is  *)
(* complete, marks are of this collection, and the counters add up.        *)
HeapIsWhole == TypeOK /\ Tiling /\ NoAdjacentFree /\ MarksAreTransient /\ SweepAccounting

(* A block takes two units, so there are never more of them than half the  *)
(* heap: 226 objects for the 452 units of the program, which is why the    *)
(* 256-entry mark worklist is written without a bound check (M2-GC-DESIGN  *)
(* section 8; module Marking assumes this bound).                          *)
BlocksFitWorklist == 2 * Cardinality(DOMAIN blk) <= HeapLimit - HeapBase

(* Every request is served or ends in out-of-memory: r_alloc collects at   *)
(* most once for it, and the collection it called returns.                 *)
AllocTerminates == pc = "alloc" ~> pc \in {"run", "oom"}

-----------------------------------------------------------------------------
(* What the heap looks like to the evaluator.  A block is kept by the      *)
(* collection under way when it is marked or when the sweep has already    *)
(* passed over it and left it allocated.                                   *)
Kept == IF pc = "sweep" THEN Marked \cup {a \in Allocated : a < addr} ELSE {}

Objects == [a \in Allocated |-> [size |-> blk[a].size, kind |-> blk[a].kind]]

Phase == CASE pc = "sweep" -> "collect"
           [] pc = "oom"   -> "oom"
           [] OTHER        -> "run"

Abs == INSTANCE AbstractHeap WITH objs <- Objects, keep <- Kept, phase <- Phase

(* The block-header implementation keeps the evaluator's promise: fresh    *)
(* cells for every object, no object moved, resized or lost unless a       *)
(* collection did not keep it.                                             *)
ImplementsAbstractHeap == Abs!AbsSpec
=============================================================================
