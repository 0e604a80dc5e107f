------------------------------ MODULE Marking ------------------------------
(***************************************************************************)
(* The mark phase of r_collect: roots, mark_value, mark_push, the tracers  *)
(* and the drain loop over the explicit worklist at GC_WORKLIST.           *)
(*                                                                         *)
(* The heap is a graph.  Managed objects (closures, promoted contexts,     *)
(* user objects, strings, managed blocks) are marked and queued; contexts  *)
(* outside the managed heap (the global context, and contexts still on a   *)
(* return stack) carry no mark bit and are traced in place, every time     *)
(* they are met.  The register file, the stacks, the task records and the  *)
(* BUILTIN_TYPE table are one node, Root, whose fields are the cells the   *)
(* collector passes to mark_value, and the frames it passes to mark_frame, *)
(* in its order.  An activation frame is root storage on a return stack:   *)
(* mark_frame calls itself on FRAME_PREV, then mark_value on FRAME_CTX.    *)
(***************************************************************************)
EXTENDS Integers, Sequences, FiniteSets

CONSTANTS
    Obj,          \* managed objects, by payload address
    StackCtx,     \* contexts on a return stack (task-local storage)
    Global,       \* the global context, in the loader heap
    Frame,        \* activation frames, by address: a return stack grows downward
    Scalar,       \* values with no collected children (integers, words, loader
                  \* blocks, and closure-tagged cells outside the heap)
    Bad,          \* context, user, string and block values whose payload lies
                  \* in none of the regions
    Root,         \* everything the root phase scans
    Graphs,       \* the object graphs a collection may start from
    HeapUnits,    \* managed heap size in header strides
    WorklistSize  \* cells of GC_WORKLIST

Ext    == StackCtx \cup {Global}
Node   == Obj \cup Ext \cup Frame \cup {Root}
Value  == Obj \cup Ext \cup Scalar \cup Bad

(* What an object graph of the runtime looks like: contexts are reached    *)
(* through parent links only, a heap object or the global context never    *)
(* points into a return stack (r_mkclosure promotes what it captures) and  *)
(* the parent of a stack context is captured, hence not on the stack.  The *)
(* fields of a frame are FRAME_PREV, unless it is 0, and FRAME_CTX; frames *)
(* hang from RV_FRAME, from task records and from newer frames only.       *)
WellFormed(g) ==
    /\ g \in [Node -> Seq(Value \cup Frame)]
    /\ \A n \in Obj \cup StackCtx : \A i \in 1 .. Len(g[n]) : g[n][i] \notin StackCtx \cup Frame
    /\ \A i \in 1 .. Len(g[Global]) : g[Global][i] \notin Ext \cup Frame
    /\ \A f \in Frame : \A i \in 1 .. Len(g[f]) : g[f][i] \in Frame => i = 1 /\ g[f][i] > f

ASSUME MarkingAssumption ==
    /\ Obj \cap Ext = {} /\ Obj \cap (Scalar \cup Bad) = {} /\ Ext \cap (Scalar \cup Bad) = {}
    /\ Scalar \cap Bad = {} /\ Global \notin StackCtx
    /\ Frame \subseteq Nat /\ IsFiniteSet(Frame) /\ Frame \cap Value = {}
    /\ Root \notin Value \cup Frame
    /\ \A g \in Graphs : WellFormed(g)

(* Every object has a header unit and at least one payload unit, and the   *)
(* worklist has 256 cells for a heap of 452 units.                         *)
ASSUME WorklistAssumption ==
    /\ IsFiniteSet(Obj)
    /\ HeapUnits \in Nat /\ WorklistSize \in Nat
    /\ 2 * Cardinality(Obj) <= HeapUnits
    /\ HeapUnits <= 2 * WorklistSize

VARIABLES
    fields,       \* node -> the tagged cells its tracer passes to mark_value
    marked,       \* objects with GC_FLAG_MARK set
    worklist,     \* GC_WORKLIST[0 .. GC_WL_SP)
    trail,        \* the tracers under way, innermost last: [node, next]
    seen,         \* history: contexts outside the heap and frames entered
    pc            \* "trace", "done" (the sweep starts) or "halt" (HOST_DUMP; HALT)

vars == <<fields, marked, worklist, trail, seen, pc>>

Init ==
    /\ fields \in Graphs
    /\ marked = {}
    /\ worklist = <<>>
    /\ trail = <<[node |-> Root, next |-> 1]>>
    /\ seen = {}
    /\ pc = "trace"

-----------------------------------------------------------------------------
Tracing == pc = "trace" /\ trail # <<>>
Top     == trail[Len(trail)]
HasNext == Top.next <= Len(fields[Top.node])
Current == fields[Top.node][Top.next]

Advanced == [trail EXCEPT ![Len(trail)].next = @ + 1]

(* mutant: the mark is set and the object never queued *)
MarkOnly ==
    /\ Tracing /\ HasNext
    /\ Current \in Obj \ marked
    /\ marked' = marked \cup {Current}
    /\ trail' = Advanced
    /\ UNCHANGED <<fields, worklist, seen, pc>>

(* mutant: the mark is not tested before the object is queued; the length  *)
(* bound keeps the mutated state space finite                              *)
PushAlways ==
    /\ Tracing /\ HasNext
    /\ Current \in Obj
    /\ Len(worklist) <= WorklistSize
    /\ marked' = marked \cup {Current}
    /\ worklist' = Append(worklist, Current)
    /\ trail' = Advanced
    /\ UNCHANGED <<fields, seen, pc>>

(* mutant: objects are recursed into like contexts *)
MarkRecurse ==
    /\ Tracing /\ HasNext
    /\ Current \in Obj \ marked
    /\ marked' = marked \cup {Current}
    /\ trail' = Append(Advanced, [node |-> Current, next |-> 1])
    /\ UNCHANGED <<fields, worklist, seen, pc>>

(* mark_push: set the mark, queue the object *)
MarkPush ==
    /\ Tracing /\ HasNext
    /\ Current \in Obj \ marked
    /\ marked' = marked \cup {Current}
    /\ worklist' = Append(worklist, Current)
    /\ trail' = Advanced
    /\ UNCHANGED <<fields, seen, pc>>

(* mutant: corrupt values are passed over *)
SkipCorrupt ==
    /\ Tracing /\ HasNext
    /\ Current \in marked \cup Scalar \cup Bad
    /\ trail' = Advanced
    /\ UNCHANGED <<fields, marked, worklist, seen, pc>>

(* mark_push on a marked object, or a value with no collected children *)
Skip ==
    /\ Tracing /\ HasNext
    /\ Current \in marked \cup Scalar
    /\ trail' = Advanced
    /\ UNCHANGED <<fields, marked, worklist, seen, pc>>

(* mutant: a context off the heap is queued like an object *)
QueueContext ==
    /\ Tracing /\ HasNext
    /\ Current \in Ext
    /\ worklist' = Append(worklist, Current)
    /\ seen' = seen \cup {Current}
    /\ trail' = Advanced
    /\ UNCHANGED <<fields, marked, pc>>

(* mutant: the caller's position is not advanced over the context *)
TraceContextAgain ==
    /\ Tracing /\ HasNext
    /\ Current \in Ext
    /\ trail' = Append(trail, [node |-> Current, next |-> 1])
    /\ seen' = seen \cup {Current}
    /\ UNCHANGED <<fields, marked, worklist, pc>>

(* A call on the return stack: the caller goes on where it was. *)
Enter ==
    /\ trail' = Append(Advanced, [node |-> Current, next |-> 1])
    /\ seen' = seen \cup {Current}
    /\ UNCHANGED <<fields, marked, worklist, pc>>

(* mark_value on a stack or loader context calls trace_ctx directly *)
TraceContext ==
    /\ Tracing /\ HasNext
    /\ Current \in Ext
    /\ Enter

(* mutant: FRAME_PREV is not followed *)
MarkFrameOnly ==
    /\ Tracing /\ HasNext
    /\ Current \in Frame
    /\ Top.node \in Frame => UNCHANGED <<fields, marked, worklist, seen, pc>> /\ trail' = Advanced
    /\ Top.node \notin Frame => Enter

(* mark_frame: on RV_FRAME, on a TREC_FRAME, and by itself on FRAME_PREV *)
MarkFrame ==
    /\ Tracing /\ HasNext
    /\ Current \in Frame
    /\ Enter

(* an out-of-range payload is heap corruption: dump and halt *)
FailStop ==
    /\ Tracing /\ HasNext
    /\ Current \in Bad
    /\ pc' = "halt"
    /\ UNCHANGED <<fields, marked, worklist, trail, seen>>

LeaveTracer ==
    /\ Tracing /\ ~HasNext
    /\ trail' = SubSeq(trail, 1, Len(trail) - 1)
    /\ UNCHANGED <<fields, marked, worklist, seen, pc>>

Drain ==
    /\ pc = "trace" /\ trail = <<>>
    /\ worklist # <<>>
    /\ worklist' = SubSeq(worklist, 1, Len(worklist) - 1)
    /\ trail' = <<[node |-> worklist[Len(worklist)], next |-> 1]>>
    /\ UNCHANGED <<fields, marked, seen, pc>>

StartSweep ==
    /\ pc = "trace" /\ trail = <<>>
    /\ worklist = <<>>
    /\ pc' = "done"
    /\ UNCHANGED <<fields, marked, worklist, trail, seen>>

Next ==
    \/ MarkPush \/ Skip \/ TraceContext \/ MarkFrame \/ FailStop \/ LeaveTracer
    \/ Drain \/ StartSweep

Spec == Init /\ [][Next]_vars

(* The collector is straight-line emitted code: it runs until it is done.  *)
FairSpec == Spec /\ WF_vars(Next)

-----------------------------------------------------------------------------
(* Objects of the worklist and the tracers under way have their types.     *)
TypeOK ==
    /\ WellFormed(fields)
    /\ marked \subseteq Obj
    /\ worklist \in Seq(Obj)
    /\ trail \in Seq([node : Node, next : Nat \ {0}])
    /\ seen \subseteq Ext \cup Frame
    /\ pc \in {"trace", "done", "halt"}

(* The nodes the program can still get at: the least set that holds the    *)
(* roots and, with a node, everything its fields refer to.                 *)
Closed(S) ==
    \A n \in S : \A i \in 1 .. Len(fields[n]) :
        fields[n][i] \in Node => fields[n][i] \in S

Reachable == {n \in Node : \A S \in SUBSET Node : Root \in S /\ Closed(S) => n \in S}

(* When the sweep starts, the marked objects are exactly the reachable     *)
(* ones: nothing in use is swept, and nothing dead is kept, although       *)
(* contexts off the heap carry no mark and the graph may be cyclic.        *)
MarksExactlyReachable == pc = "done" => marked = Reachable \cap Obj

(* The 256-cell worklist is written without a bound check; it never        *)
(* overflows because an object is queued once per collection.              *)
WorklistInBounds == Len(worklist) <= WorklistSize

(* The fail-stop is exact: the collector halts only on a corrupt value it  *)
(* can reach, and a collection that completes has seen none.               *)
CorruptReachable ==
    \E n \in Reachable : \E i \in 1 .. Len(fields[n]) : fields[n][i] \in Bad

FailStopIsExact ==
    /\ pc = "halt" => CorruptReachable
    /\ pc = "done" => ~CorruptReachable

(* The collector recurses on the return stack.  Heap objects are queued,   *)
(* not recursed into, so the tracers nest at most three deep: an object or *)
(* the roots, a stack context and the global context.  mark_frame adds one *)
(* level for every live frame of a chain, newest first and none twice,     *)
(* before it marks the context of the oldest: there is no fixed bound.     *)
BoundedRecursion ==
    \E n \in 0 .. Cardinality(Frame) :
        /\ Len(trail) <= n + 3 /\ (n > 0 => n < Len(trail))
        /\ \A i \in 2 .. n + 1 : trail[i].node \in Frame
        /\ \A i \in 2 .. n : trail[i + 1].node = fields[trail[i].node][1]

(* The mark phase stays within its memory and halts only when it must.     *)
MarkPhaseIsSound == TypeOK /\ WorklistInBounds /\ BoundedRecursion /\ FailStopIsExact

(* The mark phase ends, on cyclic graphs too. *)
MarkTerminates == <>(pc # "trace")
=============================================================================
