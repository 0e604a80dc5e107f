---------------------------- MODULE ReturnStack ----------------------------
(***************************************************************************)
(* The return stack of one world.  It grows down from StackTop towards the *)
(* top of the data stack, Bottom, and holds the evaluator's return         *)
(* addresses and saved cells, and for every activation the context and the *)
(* frame, each 16-aligned so that a tagged pointer to it is a multiple of  *)
(* 16 plus the tag.  invoke-closure checks the room once, before it        *)
(* evaluates the arguments; mkctx and the frame's allocation take the      *)
(* cells after them.                                                       *)
(***************************************************************************)
EXTENDS Integers, Sequences, SequencesExt

CONSTANTS Bottom, StackTop,  \* DS_INIT and RS_INIT, or the tops of a task's arena
          SavedCells,        \* how many cells a routine saves around a sub-expression
          MaxEntries         \* bound on the entries under way

ASSUME StackAssumption == /\ Bottom \in Nat /\ StackTop \in Nat /\ Bottom <= StackTop
                          /\ SavedCells \subseteq Nat

CtxCells   == 64         \* R0S1_CTX_CELLS
FrameCells == 9
GuardRoom  == 96         \* what the guard asks for

(* What is in progress, outermost first.  An entry starts below top, with  *)
(* saved cells; then, in turn, there is the return address of its          *)
(* sub-expression ("eval"), that and the two cells an invocation keeps     *)
(* while its arguments are evaluated ("call"), that and the activation     *)
(* ("active"), and only the saved cells again ("done").                    *)
Entries == [phase : {"eval", "call", "active", "done"}, top : Int, saved : SavedCells,
            ctx : Int, frame : Int]

VARIABLES rp, entries, halted
stack == <<rp, entries, halted>>

StackInit == rp = StackTop /\ entries = << >> /\ halted = FALSE

InPhase(p) == entries # << >> /\ Last(entries).phase = p

(* The cell with the entry's return address; FRAME_RP is the cell above it. *)
ReturnCell(e) == e.top - e.saved - 1

(* A body, a block or an argument list has a next sub-expression. *)
Subexpr(k) == /\ ~halted /\ Len(entries) < MaxEntries
              /\ entries # << >> => Last(entries).phase \in {"call", "active", "eval"}
              /\ entries' = Append(entries, [phase |-> "eval", top |-> rp, saved |-> k,
                                             ctx |-> 0, frame |-> 0])
              /\ rp' = rp - k - 1
              /\ UNCHANGED halted

(* It was a value or a native: its EXIT. *)
AtOnce == /\ ~halted /\ InPhase("eval")
          /\ entries' = [entries EXCEPT ![Len(entries)].phase = "done"]
          /\ rp' = rp + 1
          /\ UNCHANGED halted

(* mutant: the caller takes back one cell too many. *)
RestoreOneMore == /\ ~halted /\ InPhase("done")
                  /\ rp' = rp + Last(entries).saved + 1
                  /\ entries' = Front(entries)
                  /\ UNCHANGED halted

(* The caller takes its saved cells back. *)
Restore == /\ ~halted /\ InPhase("done")
           /\ rp' = rp + Last(entries).saved
           /\ entries' = Front(entries)
           /\ UNCHANGED halted

(* mutant: the guard asks for what its comment adds up: a context of 48    *)
(* cells, a frame of 9 and one padding.                                    *)
InvokeRoomOfComment == /\ ~halted /\ InPhase("eval")
                       /\ IF rp - (48 + 9 + 15) < Bottom
                          THEN halted' = TRUE /\ UNCHANGED <<rp, entries>>
                          ELSE /\ entries' = [entries EXCEPT ![Len(entries)].phase = "call"]
                               /\ rp' = rp - 2
                               /\ UNCHANGED halted

Invoke == /\ ~halted /\ InPhase("eval")
          /\ IF rp - GuardRoom < Bottom
             THEN halted' = TRUE /\ UNCHANGED <<rp, entries>>
             ELSE /\ entries' = [entries EXCEPT ![Len(entries)].phase = "call"]
                  /\ rp' = rp - 2
                  /\ UNCHANGED halted

(* The context lies below mkctx's own return address. *)
Mkctx(r) == r - CtxCells - ((r - CtxCells) % 16)

FrameBase(r) == r - FrameCells - ((r - FrameCells) % 16)

(* The arguments are evaluated, and the two cells are taken back. *)
Activate == /\ ~halted /\ InPhase("call")
            /\ LET c == Mkctx(rp + 2 - 1)
                   f == FrameBase(c)
               IN /\ entries' = [entries EXCEPT ![Len(entries)] =
                                    [@ EXCEPT !.phase = "active", !.ctx = c, !.frame = f]]
                  /\ rp' = f
            /\ UNCHANGED halted

(* mutant: a return leaves RP at the frame's own end, as a pop would. *)
LeavePopsFrame(n) == /\ ~halted
                     /\ n \in 1 .. Len(entries) /\ entries[n].phase = "active"
                     /\ entries' = [SubSeq(entries, 1, n) EXCEPT ![n].phase = "done"]
                     /\ rp' = entries[n].frame + FrameCells
                     /\ UNCHANGED halted

(* The normal end of the innermost activation, or a return to any live one: *)
(* RP is FRAME_RP, and everything below it is gone.                         *)
Leave(n) == /\ ~halted
            /\ n \in 1 .. Len(entries) /\ entries[n].phase = "active"
            /\ entries' = [SubSeq(entries, 1, n) EXCEPT ![n].phase = "done"]
            /\ rp' = ReturnCell(entries[n]) + 1
            /\ UNCHANGED halted

StackNext == \/ \E k \in SavedCells : Subexpr(k)
        \/ AtOnce \/ Restore \/ Invoke \/ Activate
        \/ \E n \in 1 .. Len(entries) : Leave(n)

StackSpec == StackInit /\ [][StackNext]_stack

-----------------------------------------------------------------------------
(* RP is a cell of the return stack or below it, never above its top, and  *)
(* the entries are of the kinds the evaluator's routines make.             *)
StackTypeOK == /\ rp \in Int /\ rp <= StackTop
          /\ entries \in Seq(Entries)
          /\ halted \in BOOLEAN

(* The lowest cell an entry uses. *)
Low(e) == CASE e.phase = "eval"   -> ReturnCell(e)
            [] e.phase = "call"   -> ReturnCell(e) - 2
            [] e.phase = "active" -> e.frame
            [] e.phase = "done"   -> e.top - e.saved

(* Entries lie one below the other without a gap, and RP is at the lowest: *)
(* whichever way an activation ends, its caller finds its own saved cells. *)
EntriesAreStacked ==
    /\ rp = IF entries = << >> THEN StackTop ELSE Low(Last(entries))
    /\ \A i \in 1 .. Len(entries) :
          entries[i].top = IF i = 1 THEN StackTop ELSE Low(entries[i - 1])

(* Every context and frame is aligned, apart from the other and from its   *)
(* return address, and no cell of them is in the data stack: the room      *)
(* checked before the arguments is enough after them.                      *)
ActivationFits(e) == /\ e.ctx % 16 = 0 /\ e.frame % 16 = 0
                     /\ Bottom <= e.frame
                     /\ e.frame + FrameCells <= e.ctx
                     /\ e.ctx + CtxCells <= ReturnCell(e)

ActivationsFit == \A i \in 1 .. Len(entries) :
                     entries[i].phase = "active" => ActivationFits(entries[i])

(* However activations end, the stack is that of the entries under way,    *)
(* and every activation among them has its cells.                          *)
StackIsSound == StackTypeOK /\ EntriesAreStacked /\ ActivationsFit
=============================================================================
