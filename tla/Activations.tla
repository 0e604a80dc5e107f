---------------------------- MODULE Activations ----------------------------
(***************************************************************************)
(* Control in the evaluator: invocations and their frames, blocks run by   *)
(* DO, VALUES and the non-local RETURN, over the return stack, the data    *)
(* stack and the registers RV_FRAME, RV_BLK, RV_SITE and RV_NVALS.         *)
(*                                                                         *)
(* A program is any order of these; a block is known by the site id in its *)
(* header (0 outside functions).  Every expression leaves a result set: N  *)
(* values and the count N.  "own" and "got" are history fields: the site a *)
(* RETURN was met in, and the values a VALUES has collected.               *)
(***************************************************************************)
EXTENDS Integers, Sequences

CONSTANTS
    Site,          \* func-site ids of the program
    Value,         \* literals
    Arity,         \* numbers of parameters its functions have
    HashMin,       \* bindings at which a context gets its index, HASH_MIN
    MaxDepth, MaxData    \* bounds on return-stack records and data-stack cells

ASSUME ActivationsAssumption ==
    /\ Site \subseteq Nat \ {0} /\ Value \subseteq Nat
    /\ Arity \subseteq Nat /\ HashMin \in Nat \ {0}
    /\ MaxDepth \in Nat /\ MaxData \in Nat

VARIABLES
    rs,            \* return stack, a record for each routine under way
    ds,            \* data stack
    frame,         \* RV_FRAME: position of the current frame in rs, 0 if none
    blk,           \* RV_BLK: site id of the block being evaluated
    site,          \* RV_SITE
    nvals,         \* RV_NVALS
    pc             \* what comes next: "expr", an expression; "next", an expression
                   \* or the end of the block; "done" or "last", the top routine's
                   \* use of a result set; "enter", the body; "halt"

vars == <<rs, ds, frame, blk, site, nvals, pc>>

Block == Site \cup {0}

Val(v)   == <<"value", v>>
Count(n) == <<"count", n>>
NONE     == Val(0)

Init ==
    /\ rs = <<>> /\ ds = <<>>
    /\ frame = 0 /\ blk = 0 /\ site = 0 /\ nvals = 0
    /\ pc = "next"

Top == rs[Len(rs)]
On(k) == rs # <<>> /\ Top.k = k
Popped == SubSeq(rs, 1, Len(rs) - 1)

(* The result set on top of a data stack *)
N(d)      == d[Len(d)][2]
Result(d) == SubSeq(d, Len(d) - N(d), Len(d) - 1)
Below(d)  == SubSeq(d, 1, Len(d) - N(d) - 1)

(* r_reduce: the first value of the set, NONE for an empty one *)
Reduced(d) == Append(Below(d), IF N(d) = 0 THEN NONE ELSE Result(d)[1])

-----------------------------------------------------------------------------
(* Starting an expression *)

Starting == pc \in {"expr", "next"}
Room     == Len(rs) < MaxDepth

Literal(v) ==
    /\ Starting
    /\ Len(ds) + 2 <= MaxData
    /\ ds' = ds \o <<Val(v), Count(1)>>
    /\ pc' = "done"
    /\ UNCHANGED <<rs, frame, blk, site, nvals>>

(* r_invoke_closure: callee and arity are saved while arguments are evaluated *)
StartCall(s, n) ==
    /\ Starting /\ Room
    /\ rs' = Append(rs, [k |-> "call", clo |-> s, arity |-> n, i |-> 0])
    /\ pc' = IF n = 0 THEN "enter" ELSE "expr"
    /\ UNCHANGED <<ds, frame, blk, site, nvals>>

(* r_run_block on a block of any function, perhaps one that has returned *)
StartDo(b) ==
    /\ Starting /\ Room
    /\ rs' = Append(rs, [k |-> "do", blk |-> blk])
    /\ blk' = b
    /\ pc' = "next"
    /\ UNCHANGED <<ds, frame, site, nvals>>

(* Programs have no VALUES in an element of a VALUES, however deep in its  *)
(* calls: the inner count would be left in RV_NVALS, which nothing saves.  *)
StartValues(b) ==
    /\ Starting /\ Room
    /\ \A i \in 1 .. Len(rs) : rs[i].k # "values"
    /\ rs' = Append(rs, [k |-> "values", blk |-> blk, got |-> 0])
    /\ blk' = b
    /\ nvals' = 0
    /\ pc' = "next"
    /\ UNCHANGED <<ds, frame, site>>

(* A set-word: its value is an expression. *)
StartSet ==
    /\ Starting /\ Room
    /\ rs' = Append(rs, [k |-> "set"])
    /\ pc' = "expr"
    /\ UNCHANGED <<ds, frame, blk, site, nvals>>

(* mutant: RETURN outside a function is not refused *)
StartReturnAnywhere ==
    /\ Starting /\ Room
    /\ site' = blk
    /\ rs' = Append(rs, [k |-> "return", own |-> blk])
    /\ pc' = "expr"
    /\ UNCHANGED <<ds, frame, blk, nvals>>

(* r_return reads the target from the block's header first, then evaluates *)
(* its argument; outside any function it halts.                            *)
StartReturn ==
    /\ Starting /\ Room
    /\ site' = blk
    /\ IF blk = 0
       THEN pc' = "halt" /\ UNCHANGED rs
       ELSE rs' = Append(rs, [k |-> "return", own |-> blk]) /\ pc' = "expr"
    /\ UNCHANGED <<ds, frame, blk, nvals>>

-----------------------------------------------------------------------------
(* Using a result set *)

Done == pc \in {"done", "last"}

(* mutant: a set of several values is not reduced to its first *)
ArgumentUnreduced ==
    /\ Done /\ On("call")
    /\ ds' = SubSeq(ds, 1, Len(ds) - 1)
    /\ rs' = [rs EXCEPT ![Len(rs)].i = @ + 1]
    /\ pc' = IF Top.i + 1 = Top.arity THEN "enter" ELSE "expr"
    /\ UNCHANGED <<frame, blk, site, nvals>>

Argument ==
    /\ Done /\ On("call")
    /\ ds' = Reduced(ds)
    /\ rs' = [rs EXCEPT ![Len(rs)].i = @ + 1]
    /\ pc' = IF Top.i + 1 = Top.arity THEN "enter" ELSE "expr"
    /\ UNCHANGED <<frame, blk, site, nvals>>

(* mutant: the frame is linked to the record below it, not to RV_FRAME *)
EnterLinksBelow ==
    /\ pc = "enter"
    /\ ds' = SubSeq(ds, 1, Len(ds) - Top.arity)
    /\ rs' = Append(Popped, [k |-> "frame", prev |-> Len(rs) - 1, site |-> Top.clo,
                             sp |-> Len(ds) - Top.arity, blk |-> blk])
    /\ frame' = Len(rs)
    /\ blk' = Top.clo
    /\ site' = IF Top.arity >= HashMin THEN HashMin ELSE site
    /\ pc' = "next"
    /\ UNCHANGED nvals

(* The context is made and its parameters bound, which leaves HashMin in   *)
(* RV_SITE when r_build_hash runs; the frame is pushed, the body entered.  *)
Enter ==
    /\ pc = "enter"
    /\ ds' = SubSeq(ds, 1, Len(ds) - Top.arity)
    /\ rs' = Append(Popped, [k |-> "frame", prev |-> frame, site |-> Top.clo,
                             sp |-> Len(ds) - Top.arity, blk |-> blk])
    /\ frame' = Len(rs)
    /\ blk' = Top.clo
    /\ site' = IF Top.arity >= HashMin THEN HashMin ELSE site
    /\ pc' = "next"
    /\ UNCHANGED nvals

(* Function bodies, DO and the top level: a result set that is not the     *)
(* block's last is discarded.                                              *)
Discard ==
    /\ pc = "done"
    /\ rs = <<>> \/ On("frame") \/ On("do")
    /\ ds' = Below(ds)
    /\ pc' = "expr"
    /\ UNCHANGED <<rs, frame, blk, site, nvals>>

EmptyBlock ==
    /\ pc = "next"
    /\ On("frame") \/ On("do")
    /\ Len(ds) + 2 <= MaxData
    /\ ds' = ds \o <<NONE, Count(1)>>
    /\ pc' = "last"
    /\ UNCHANGED <<rs, frame, blk, site, nvals>>

EndDo ==
    /\ Done /\ On("do")
    /\ rs' = Popped
    /\ blk' = Top.blk
    /\ pc' = "done"
    /\ UNCHANGED <<ds, frame, site, nvals>>

(* The normal return of an invocation: by way of RV_FRAME *)
EndBody ==
    /\ Done /\ On("frame")
    /\ rs' = SubSeq(rs, 1, frame - 1)
    /\ blk' = rs[frame].blk
    /\ frame' = rs[frame].prev
    /\ pc' = "done"
    /\ UNCHANGED <<ds, site, nvals>>

(* An element of VALUES has to be one value. *)
Collect ==
    /\ Done /\ On("values")
    /\ IF N(ds) = 1
       THEN /\ nvals' = nvals + 1
            /\ ds' = SubSeq(ds, 1, Len(ds) - 1)
            /\ rs' = [rs EXCEPT ![Len(rs)].got = @ + 1]
            /\ pc' = "next"
       ELSE pc' = "halt" /\ UNCHANGED <<rs, ds, nvals>>
    /\ UNCHANGED <<frame, blk, site>>

EndValues ==
    /\ pc = "next" /\ On("values")
    /\ Len(ds) < MaxData
    /\ ds' = Append(ds, Count(nvals))
    /\ rs' = Popped
    /\ blk' = Top.blk
    /\ pc' = "done"
    /\ UNCHANGED <<frame, site, nvals>>

(* r_set; in an invocation's context the binding may be the one at which   *)
(* the context gets its index (the global one always has more).            *)
EndSet ==
    /\ Done /\ On("set")
    /\ ds' = Append(Reduced(ds), Count(1))
    /\ rs' = Popped
    /\ site' \in IF frame = 0 THEN {site} ELSE {site, HashMin}
    /\ pc' = "done"
    /\ UNCHANGED <<frame, blk, nvals>>

(* The frame chain from RV_FRAME *)
Chain ==
    LET link[n \in Nat] == IF n = 0 THEN frame
                           ELSE IF link[n - 1] = 0 THEN 0 ELSE rs[link[n - 1]].prev
    IN  {link[n] : n \in 0 .. Len(rs)} \ {0}

Targets == {i \in Chain : rs[i].site = site}

(* The result set is popped into RV_RES_BUF, which so holds it from the    *)
(* last value on, and pushed again from the end of the buffer.             *)
Buffer == [i \in 0 .. N(ds) - 1 |-> ds[Len(ds) - 1 - i]]
Replaced(d) == d \o [i \in 1 .. N(ds) |-> Buffer[N(ds) - i]] \o <<Count(N(ds))>>

(* mutant: the buffer is pushed from its start *)
UnwindReversed ==
    /\ Done /\ On("return")
    /\ IF Targets = {}
       THEN pc' = "halt" /\ UNCHANGED <<rs, ds, frame, blk>>
       ELSE LET t == CHOOSE i \in Targets : \A j \in Targets : j <= i
            IN  /\ ds' = SubSeq(ds, 1, rs[t].sp) \o [i \in 1 .. N(ds) |-> Buffer[i - 1]]
                         \o <<Count(N(ds))>>
                /\ rs' = SubSeq(rs, 1, t - 1)
                /\ blk' = rs[t].blk
                /\ frame' = rs[t].prev
                /\ pc' = "done"
    /\ UNCHANGED <<site, nvals>>

(* mutant: RV_BLK is left to the epilogues that never run *)
UnwindKeepsBlk ==
    /\ Done /\ On("return")
    /\ IF Targets = {}
       THEN pc' = "halt" /\ UNCHANGED <<rs, ds, frame>>
       ELSE LET t == CHOOSE i \in Targets : \A j \in Targets : j <= i
            IN  /\ ds' = Replaced(SubSeq(ds, 1, rs[t].sp))
                /\ rs' = SubSeq(rs, 1, t - 1)
                /\ frame' = rs[t].prev
                /\ pc' = "done"
    /\ UNCHANGED <<blk, site, nvals>>

(* r_return with its result set: the innermost frame with the site, its    *)
(* saved SP, RP, RV_BLK and the frame before it; no other epilogue runs.   *)
Unwind ==
    /\ Done /\ On("return")
    /\ IF Targets = {}
       THEN pc' = "halt" /\ UNCHANGED <<rs, ds, frame, blk>>
       ELSE LET t == CHOOSE i \in Targets : \A j \in Targets : j <= i
            IN  /\ ds' = Replaced(SubSeq(ds, 1, rs[t].sp))
                /\ rs' = SubSeq(rs, 1, t - 1)
                /\ blk' = rs[t].blk
                /\ frame' = rs[t].prev
                /\ pc' = "done"
    /\ UNCHANGED <<site, nvals>>

Next ==
    \/ \E v \in Value : Literal(v)
    \/ \E s \in Site, n \in Arity : StartCall(s, n)
    \/ \E b \in Block : StartDo(b) \/ StartValues(b)
    \/ StartSet \/ StartReturn
    \/ Argument \/ Enter \/ Discard \/ EmptyBlock \/ EndDo \/ EndBody
    \/ Collect \/ EndValues \/ EndSet \/ Unwind

Spec == Init /\ [][Next]_vars

-----------------------------------------------------------------------------
Call    == [k : {"call"}, clo : Site, arity : Arity, i : Nat]
Frame   == [k : {"frame"}, prev : Nat, site : Site, sp : Nat, blk : Block]
Do      == [k : {"do"}, blk : Block]
Values  == [k : {"values"}, blk : Block, got : Nat]
Pending == [k : {"set"}] \cup [k : {"return"}, own : Site]

(* The stacks hold what the routines push, the registers what they store.  *)
TypeOK ==
    /\ rs \in Seq(Call \cup Frame \cup Do \cup Values \cup Pending)
    /\ ds \in Seq({"value", "count"} \X Nat)
    /\ frame \in Nat
    /\ blk \in Block
    /\ site \in Block \cup {HashMin}
    /\ nvals \in Nat
    /\ pc \in {"expr", "next", "done", "last", "enter", "halt"}

(* RV_FRAME is the innermost frame on the return stack and every frame's   *)
(* prev is the one below it, whatever returns have unwound: nothing that   *)
(* is gone can be returned to, and no live activation is skipped.          *)
FrameBelow(n) ==
    IF \E i \in 1 .. n : rs[i].k = "frame"
    THEN CHOOSE i \in 1 .. n : rs[i].k = "frame" /\ \A j \in (i + 1) .. n : rs[j].k # "frame"
    ELSE 0

FrameChainIsStack ==
    /\ frame = FrameBelow(Len(rs))
    /\ \A i \in 1 .. Len(rs) : rs[i].k = "frame" => rs[i].prev = FrameBelow(i - 1)

(* RV_BLK survives everything a nested evaluation does, a return past its  *)
(* DO, VALUES and bodies included: each of them finds the caller's block   *)
(* in its record to be the one that was being evaluated below it.          *)
Entered == {"frame", "do", "values"}
Saved(i) ==
    IF \E j \in (i + 1) .. Len(rs) : rs[j].k \in Entered
    THEN rs[CHOOSE j \in (i + 1) .. Len(rs) :
               rs[j].k \in Entered /\ \A m \in (i + 1) .. (j - 1) : rs[m].k \notin Entered].blk
    ELSE blk

BlkIsSaved ==
    /\ Saved(0) = 0
    /\ \A i \in 1 .. Len(rs) : rs[i].k = "frame" => Saved(i) = rs[i].site
    /\ \A i \in 1 .. Len(rs) : rs[i].k = "return" => Saved(i) = rs[i].own

(* The frames are chained and every record keeps the block of its caller.  *)
StacksAreSound == TypeOK /\ FrameChainIsStack /\ BlkIsSaved

(* The data stack holds the operands of the routines under way, and then   *)
(* the result set if there is one, and nothing else: what a return leaves  *)
(* behind is cut off and what its callers wait with is not touched.        *)
Held(i) == CASE rs[i].k = "call" -> rs[i].i [] rs[i].k = "values" -> rs[i].got [] OTHER -> 0

Operands[n \in Nat] == IF n = 0 THEN 0 ELSE Operands[n - 1] + Held(n)

DataStackIsOperands ==
    /\ \A i \in 1 .. Len(rs) : rs[i].k = "frame" => rs[i].sp = Operands[i - 1]
    /\ pc \in {"expr", "next", "enter"} => Len(ds) = Operands[Len(rs)]
    /\ pc \in {"done", "last"} => /\ Len(ds) > 0 /\ ds[Len(ds)][1] = "count"
                                  /\ Len(ds) = Operands[Len(rs)] + N(ds) + 1

(* A return carries its whole result set, in order, to where it goes. *)
Returns == Done /\ On("return") /\ pc' = "done"
ReturnCarriesResult ==
    [][Returns => Result(ds') = Result(ds) /\ N(ds') = N(ds)]_vars

(* R0-S1-RESULTS: a RETURN returns from the function whose text has it.    *)
(* Refuted with MaxDepth = 5 (README, Limits of the code).                 *)
ReturnTargetsOwner == Done /\ On("return") => site = Top.own
=============================================================================
