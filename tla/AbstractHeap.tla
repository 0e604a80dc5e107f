---------------------------- MODULE AbstractHeap ----------------------------
(***************************************************************************)
(* What the managed heap of the R0-on-S1 runtime promises to the evaluator *)
(* above it, with none of its block headers: an object handed out occupies *)
(* cells of its own, never moves, and disappears only when a collection    *)
(* that does not keep it reclaims it.  Module Heap implements this.        *)
(*                                                                         *)
(* Addresses are counted in 16-cell units (GC_HDR_STRIDE), header included.*)
(***************************************************************************)
EXTENDS Integers

CONSTANTS
    HeapBase,    \* first unit of the managed heap (GC_HEAP_BASE)
    HeapLimit,   \* first unit above it (GC_HEAP_LIMIT)
    Kinds        \* object kinds (GC_KIND_CTX, GC_KIND_CLOSURE, ...)

VARIABLES
    objs,        \* address of a live object -> [size, kind]
    keep,        \* addresses the collection under way must keep
    phase        \* "run", "collect" or "oom"

absVars == <<objs, keep, phase>>

(* The units of the object of size s at a *)
Cells(a, s) == a .. (a + s - 1)

AbsInit ==
    /\ \A a \in DOMAIN objs : Cells(a, objs[a].size) \subseteq HeapBase .. (HeapLimit - 1)
    /\ keep = {}
    /\ phase = "run"

(* An object gets units that no live object occupies. *)
Allocate(a, s, k) ==
    /\ phase = "run"
    /\ Cells(a, s) \subseteq HeapBase .. (HeapLimit - 1)
    /\ \A b \in DOMAIN objs : Cells(a, s) \cap Cells(b, objs[b].size) = {}
    /\ objs' = [b \in DOMAIN objs \cup {a} |->
                   IF b = a THEN [size |-> s, kind |-> k] ELSE objs[b]]
    /\ UNCHANGED <<keep, phase>>

BeginCollect(S) ==
    /\ phase = "run"
    /\ S \subseteq DOMAIN objs
    /\ keep' = S
    /\ phase' = "collect"
    /\ UNCHANGED objs

(* Only what the collection does not keep is reclaimed. *)
Reclaim(a) ==
    /\ phase = "collect"
    /\ a \in DOMAIN objs \ keep
    /\ objs' = [b \in DOMAIN objs \ {a} |-> objs[b]]
    /\ UNCHANGED <<keep, phase>>

(* A collection ends with exactly the kept objects left. *)
EndCollect ==
    /\ phase = "collect"
    /\ DOMAIN objs = keep
    /\ keep' = {}
    /\ phase' = "run"
    /\ UNCHANGED objs

OutOfMemory ==
    /\ phase = "run"
    /\ phase' = "oom"
    /\ UNCHANGED <<objs, keep>>

AbsNext ==
    \/ \E a \in HeapBase .. (HeapLimit - 1), s \in 2 .. (HeapLimit - HeapBase), k \in Kinds :
          Allocate(a, s, k)
    \/ \E S \in SUBSET DOMAIN objs : BeginCollect(S)
    \/ \E a \in DOMAIN objs : Reclaim(a)
    \/ EndCollect
    \/ OutOfMemory

AbsSpec == AbsInit /\ [][AbsNext]_absVars
=============================================================================
