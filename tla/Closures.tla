------------------------------ MODULE Closures ------------------------------
(***************************************************************************)
(* Activations, contexts and closures of the evaluator, over a collected   *)
(* heap.  An invocation's context lives on the return stack (r_mkctx) and  *)
(* is copied to the managed heap when a func literal captures it           *)
(* (r_mkclosure); the collector, which r_alloc may call in the middle of   *)
(* that, keeps what its roots lead to.                                     *)
(*                                                                         *)
(* A context is named by where it is: the global one, a heap payload, or a *)
(* depth on the return stack, which later invocations use again.  "env" is *)
(* a history field: it names the environment a context is, or is a copy    *)
(* of, and no step of the runtime depends on it.                           *)
(***************************************************************************)
EXTENDS Integers, Sequences, FiniteSets
LOCAL INSTANCE TLC

CONSTANTS
    Addr,               \* payloads the managed heap has room for
    Word, Params,       \* words a program binds, parameter lists of its functions
    EnvId,              \* environment identities, 0 the global context
    MaxDepth, MaxData,  \* bounds on return-stack entries and data-stack cells
    SiteTags            \* low four bits the function site ids of the program have

ASSUME ClosuresAssumption ==
    /\ IsFiniteSet(Addr)
    /\ Params \subseteq Seq(Word)
    /\ EnvId \subseteq Nat /\ 0 \in EnvId
    /\ MaxDepth \in Nat /\ MaxData \in Nat

VARIABLES
    obj,         \* managed payload -> [kind, link, vals, env]
    global,      \* values of the global context
    rs,          \* return stack: callee waiting for arguments, or context + frame
    ds,          \* data stack, tagged values
    ctx,         \* RV_CTX
    child,       \* RV_CHILD
    closure,     \* RV_CLOSURE
    pend,        \* RV_T4 of r_mkclosure: payload of the closure being made
    pc           \* "eval", "alloc1", "alloc2", "fill", "halt", "oom" or "lost"

vars == <<obj, global, rs, ds, ctx, child, closure, pend, pc>>

None      == <<"none", 0>>
Global    == <<"global", 0>>
Managed(a) == <<"heap", a>>
OnStack(i) == <<"stack", i>>
Unbound   == <<"unbound", 0>>
Scalar    == <<"scalar", 0>>
Clo(a)    == <<"clo", a>>

Empty == [w \in Word |-> Unbound]

Init ==
    /\ obj = << >>
    /\ global = Empty
    /\ rs = <<>> /\ ds = <<>>
    /\ ctx = Global /\ child = None /\ closure = None /\ pend = None
    /\ pc = "eval"

-----------------------------------------------------------------------------
(* Contexts *)

Parent(c) == CASE c[1] = "stack" -> rs[c[2]].link
               [] c[1] = "heap"  -> obj[c[2]].link
               [] OTHER          -> None

Vals(c) == CASE c[1] = "stack" -> rs[c[2]].vals
             [] c[1] = "heap"  -> obj[c[2]].vals
             [] OTHER          -> global

(* The context r_lookup and r_set find w in: the nearest on the chain from *)
(* RV_CTX, None if it is bound nowhere.                                    *)
Home(w) ==
    LET at[n \in Nat] == IF n = 0 THEN ctx
                         ELSE LET c == at[n - 1]
                              IN  IF c = None \/ Vals(c)[w] # Unbound THEN c ELSE Parent(c)
    IN  at[Cardinality(Addr) + 3]

Write(c, w, v) ==
    /\ global' = IF c = Global THEN [global EXCEPT ![w] = v] ELSE global
    /\ obj' = IF c[1] = "heap" THEN [obj EXCEPT ![c[2]].vals[w] = v] ELSE obj
    /\ rs' = IF c[1] = "stack" THEN [rs EXCEPT ![c[2]].vals[w] = v] ELSE rs

-----------------------------------------------------------------------------
(* Evaluating a body *)

Eval == pc = "eval"
Top  == rs[Len(rs)]
Base == IF rs = <<>> THEN 0 ELSE Top.sp
Push(v) == Len(ds) < MaxData /\ ds' = Append(ds, v)

registers == <<ctx, child, closure, pend, pc>>

PushScalar == Eval /\ Push(Scalar) /\ UNCHANGED <<obj, global, rs, registers>>

Fetch(w) ==
    /\ Eval
    /\ Home(w) # None
    /\ Push(Vals(Home(w))[w])
    /\ UNCHANGED <<obj, global, rs, registers>>

Drop ==
    /\ Eval
    /\ Len(ds) > Base
    /\ ds' = SubSeq(ds, 1, Len(ds) - 1)
    /\ UNCHANGED <<obj, global, rs, registers>>

(* r_set: update the nearest binding, else append one to the current context *)
Set(w) ==
    /\ Eval
    /\ Len(ds) > Base
    /\ Write(IF Home(w) = None THEN ctx ELSE Home(w), w, ds[Len(ds)])
    /\ UNCHANGED <<ds, registers>>

(* A word bound to a closure invokes it.  Up to here r_invoke_closure has  *)
(* the callee in RV_CLOSURE and on the return stack, while the evaluator   *)
(* runs its arguments.                                                     *)
Call(w) ==
    /\ Eval
    /\ Home(w) # None
    /\ Len(rs) < MaxDepth
    /\ LET v == Vals(Home(w))[w]
       IN  /\ v[1] = "clo"
           /\ rs' = Append(rs, [body |-> FALSE, clo |-> v[2], sp |-> Len(ds)])
           /\ closure' = v
    /\ child' = None
    /\ UNCHANGED <<obj, global, ds, ctx, pend, pc>>

Bound(ps, args) ==
    [w \in Word |-> IF \E k \in 1 .. Len(ps) : ps[k] = w
                    THEN args[CHOOSE k \in 1 .. Len(ps) : ps[k] = w]
                    ELSE Unbound]

InUse == {0} \cup {rs[i].env : i \in {j \in 1 .. Len(rs) : rs[j].body}}
             \cup {obj[a].env : a \in DOMAIN obj}

(* mutant: the new context's parent is the caller's (dynamic scoping) *)
EnterDynamic(ps) ==
    /\ Eval
    /\ rs # <<>> /\ ~Top.body
    /\ Len(ds) - Top.sp = Len(ps)
    /\ \E id \in EnvId \ InUse :
          /\ \A j \in EnvId \ InUse : id <= j
          /\ rs' = [rs EXCEPT ![Len(rs)] =
                      [body |-> TRUE, link |-> ctx,
                       vals |-> Bound(ps, SubSeq(ds, Top.sp + 1, Len(ds))),
                       caller |-> ctx, sp |-> Top.sp, env |-> id]]
    /\ ds' = SubSeq(ds, 1, Top.sp)
    /\ ctx' = OnStack(Len(rs))
    /\ child' = OnStack(Len(rs))
    /\ closure' = Clo(Top.clo)
    /\ UNCHANGED <<obj, global, pend, pc>>

(* With the arguments on the data stack: the context is made on the return *)
(* stack, the parameters bound, the frame pushed and the body entered.     *)
Enter(ps) ==
    /\ Eval
    /\ rs # <<>> /\ ~Top.body
    /\ Len(ds) - Top.sp = Len(ps)
    /\ \E id \in EnvId \ InUse :
          /\ \A j \in EnvId \ InUse : id <= j
          /\ rs' = [rs EXCEPT ![Len(rs)] =
                      [body |-> TRUE, link |-> obj[Top.clo].link,
                       vals |-> Bound(ps, SubSeq(ds, Top.sp + 1, Len(ds))),
                       caller |-> ctx, sp |-> Top.sp, env |-> id]]
    /\ ds' = SubSeq(ds, 1, Top.sp)
    /\ ctx' = OnStack(Len(rs))
    /\ child' = OnStack(Len(rs))
    /\ closure' = Clo(Top.clo)
    /\ UNCHANGED <<obj, global, pend, pc>>

(* mutant: RV_CHILD is not reset *)
LeaveKeepsChild(i) ==
    /\ Len(ds) > Base
    /\ ds' = Append(SubSeq(ds, 1, rs[i].sp), ds[Len(ds)])
    /\ ctx' = rs[i].caller
    /\ rs' = SubSeq(rs, 1, i - 1)
    /\ closure' = None
    /\ UNCHANGED <<obj, global, child, pend, pc>>

(* Frame i's saved state is restored and the stack cut back below it.      *)
Leave(i) ==
    /\ Len(ds) > Base
    /\ ds' = Append(SubSeq(ds, 1, rs[i].sp), ds[Len(ds)])
    /\ ctx' = rs[i].caller
    /\ rs' = SubSeq(rs, 1, i - 1)
    /\ child' = None
    /\ closure' = None
    /\ UNCHANGED <<obj, global, pend, pc>>

(* The epilogue of r_invoke_closure: the body left one result. *)
NormalReturn ==
    /\ Eval
    /\ rs # <<>> /\ Top.body
    /\ Len(ds) = Top.sp + 1
    /\ Leave(Len(rs))

(* r_return unwinds to any frame of the chain and resets the data stack. *)
Return(i) ==
    /\ Eval
    /\ i \in 1 .. Len(rs) /\ rs[i].body
    /\ Leave(i)

-----------------------------------------------------------------------------
(* The collector: what its roots lead to, everything else is freed *)

Refs(v) == IF v[1] \in {"heap", "clo"} THEN {v[2]} ELSE {}
RefsIn(link, vals) == Refs(link) \cup (UNION {Refs(vals[w]) : w \in Word})

(* Stack contexts the registers and the frame chain name are traced in place *)
TracedDepths == {i \in 1 .. Len(rs) :
                    /\ rs[i].body
                    /\ \/ OnStack(i) \in {ctx, child}
                       \/ \E j \in 1 .. Len(rs) : rs[j].body /\ rs[j].caller = OnStack(i)}

(* mutant: the return stack is not scanned for closures *)
RootRefsNoCallees ==
    Refs(ctx) \cup Refs(child) \cup Refs(closure)
    \cup (UNION {Refs(global[w]) : w \in Word})
    \cup (UNION {Refs(ds[i]) : i \in 1 .. Len(ds)})
    \cup (UNION {Refs(rs[i].caller) : i \in {j \in 1 .. Len(rs) : rs[j].body}})
    \cup (UNION {RefsIn(rs[i].link, rs[i].vals) : i \in TracedDepths})

RootRefs ==
    Refs(ctx) \cup Refs(child) \cup Refs(closure)
    \cup (UNION {Refs(global[w]) : w \in Word})
    \cup (UNION {Refs(ds[i]) : i \in 1 .. Len(ds)})
    \cup {rs[i].clo : i \in {j \in 1 .. Len(rs) : ~rs[j].body}}
    \cup (UNION {Refs(rs[i].caller) : i \in {j \in 1 .. Len(rs) : rs[j].body}})
    \cup (UNION {RefsIn(rs[i].link, rs[i].vals) : i \in TracedDepths})

Closed(S) == \A a \in S \cap DOMAIN obj : RefsIn(obj[a].link, obj[a].vals) \subseteq S

Live == {a \in DOMAIN obj :
            \A S \in SUBSET (RootRefs \cup DOMAIN obj) : RootRefs \subseteq S /\ Closed(S) => a \in S}

Sweep == obj' = [a \in Live |-> obj[a]]

(* A RAW fragment calls the collector, or a library allocates and collects. *)
Collect ==
    /\ Eval
    /\ Sweep
    /\ UNCHANGED <<global, rs, ds, registers>>

-----------------------------------------------------------------------------
(* r_mkclosure *)

BeginClosure ==
    /\ Eval
    /\ Len(ds) < MaxData
    /\ pc' = "alloc1"
    /\ UNCHANGED <<obj, global, rs, ds, ctx, child, closure, pend>>

(* While the first r_alloc runs, spec, body, the captured context (RV_CTX) *)
(* and the raw site id are on the data stack, and mark_value reads the     *)
(* site id as a tagged value: with the low bits of a block, context, user  *)
(* object or string its "payload" is out of range, and the collector halts.*)
PointerTags == {6, 7, 11, 12}

CollectForClosure ==
    /\ pc = "alloc1"
    /\ \E t \in SiteTags :
          \/ t \in PointerTags /\ pc' = "halt" /\ UNCHANGED obj
          \/ t \notin PointerTags /\ Sweep /\ UNCHANGED pc
    /\ UNCHANGED <<global, rs, ds, ctx, child, closure, pend>>

(* The fresh payload's fields are not written yet. *)
Raw == [kind |-> "closure", link |-> None, vals |-> Empty, env |-> 0]

(* mutant: a stack context is captured without being promoted *)
AllocNoPromotion(a) ==
    /\ pc = "alloc1"
    /\ a \in Addr \ DOMAIN obj
    /\ obj' = [b \in DOMAIN obj \cup {a} |-> IF b = a THEN Raw ELSE obj[b]]
    /\ pend' = Clo(a)
    /\ pc' = "fill"
    /\ UNCHANGED <<global, rs, ds, ctx, child, closure>>

AllocClosure(a) ==
    /\ pc = "alloc1"
    /\ a \in Addr \ DOMAIN obj
    /\ obj' = [b \in DOMAIN obj \cup {a} |-> IF b = a THEN Raw ELSE obj[b]]
    /\ pend' = Clo(a)
    /\ pc' = IF ctx[1] = "stack" THEN "alloc2" ELSE "fill"
    /\ UNCHANGED <<global, rs, ds, ctx, child, closure>>

(* RV_T4 is not a root.  If the second r_alloc has to collect, the first   *)
(* one's payload is freed, and r_mkclosure goes on to write its fields     *)
(* into free memory; the model stops there.                                *)
CollectForPromotion ==
    /\ pc = "alloc2"
    /\ Sweep
    /\ pc' = IF pend[2] \in Live THEN pc ELSE "lost"
    /\ UNCHANGED <<global, rs, ds, ctx, child, closure, pend>>

(* mutant: RV_CTX stays on the stack context *)
PromoteKeepsCtx(b) ==
    /\ pc = "alloc2"
    /\ b \in Addr \ DOMAIN obj
    /\ obj' = [a \in DOMAIN obj \cup {b} |->
                 IF a = b THEN [kind |-> "ctx", link |-> Parent(ctx), vals |-> Vals(ctx),
                                env |-> rs[ctx[2]].env]
                          ELSE obj[a]]
    /\ pc' = "fill"
    /\ UNCHANGED <<global, rs, ds, ctx, child, closure, pend>>

(* The stack context is copied and RV_CTX moved to the copy. *)
Promote(b) ==
    /\ pc = "alloc2"
    /\ b \in Addr \ DOMAIN obj
    /\ obj' = [a \in DOMAIN obj \cup {b} |->
                 IF a = b THEN [kind |-> "ctx", link |-> Parent(ctx), vals |-> Vals(ctx),
                                env |-> rs[ctx[2]].env]
                          ELSE obj[a]]
    /\ ctx' = Managed(b)
    /\ pc' = "fill"
    /\ UNCHANGED <<global, rs, ds, child, closure, pend>>

(* mutant: the result carries the tag of a context *)
FillContextTag ==
    LET a == pend[2]
    IN  /\ pc = "fill"
        /\ obj' = [obj EXCEPT ![a] = [Raw EXCEPT !.link = ctx]]
        /\ ds' = Append(ds, Managed(a))
        /\ pend' = None
        /\ pc' = "eval"
        /\ UNCHANGED <<global, rs, ctx, child, closure>>

(* The four fields are written where RV_T4 points. *)
Fill ==
    LET a == pend[2]
    IN  /\ pc = "fill"
        /\ obj' = [obj EXCEPT ![a] = [Raw EXCEPT !.link = ctx]]
        /\ ds' = Append(ds, pend)
        /\ pend' = None
        /\ pc' = "eval"
        /\ UNCHANGED <<global, rs, ctx, child, closure>>

OutOfMemory ==
    /\ pc \in {"alloc1", "alloc2"}
    /\ DOMAIN obj = Addr
    /\ pc' = "oom"
    /\ UNCHANGED <<obj, global, rs, ds, ctx, child, closure, pend>>

Next ==
    \/ PushScalar \/ Drop \/ NormalReturn \/ Collect
    \/ \E w \in Word : Fetch(w) \/ Set(w) \/ Call(w)
    \/ \E ps \in Params : Enter(ps)
    \/ \E i \in 1 .. Len(rs) : Return(i)
    \/ BeginClosure \/ CollectForClosure \/ CollectForPromotion \/ Fill \/ OutOfMemory
    \/ \E a \in Addr : AllocClosure(a) \/ Promote(a)

Spec == Init /\ [][Next]_vars

-----------------------------------------------------------------------------
CtxRefs == {None, Global} \cup {Managed(a) : a \in Addr} \cup {OnStack(i) : i \in 1 .. MaxDepth}
Values  == {Unbound, Scalar} \cup {Clo(a) : a \in Addr}
Object  == [kind : {"ctx", "closure"}, link : CtxRefs, vals : [Word -> Values], env : EnvId]
Waiting == [body : {FALSE}, clo : Addr, sp : Nat]
Active  == [body : {TRUE}, link : CtxRefs, vals : [Word -> Values], caller : CtxRefs,
            sp : Nat, env : EnvId]

(* Objects, stacks and registers have their types.                         *)
TypeOK ==
    /\ DOMAIN obj \subseteq Addr /\ obj \in [DOMAIN obj -> Object]
    /\ global \in [Word -> Values]
    /\ rs \in Seq(Waiting \cup Active) /\ Len(rs) <= MaxDepth
    /\ ds \in Seq(Values) /\ Len(ds) <= MaxData + 1
    /\ ctx \in CtxRefs \ {None} /\ child \in CtxRefs
    /\ closure \in {None} \cup {Clo(a) : a \in Addr}
    /\ pend \in {None} \cup {Clo(a) : a \in Addr}
    /\ pc \in {"eval", "alloc1", "alloc2", "fill", "halt", "oom", "lost"}

(* Everything the evaluator can follow from its registers, its stacks and  *)
(* the objects of the heap *)
Followed ==
    {ctx, child, closure}
    \cup {ds[i] : i \in 1 .. Len(ds)} \cup {global[w] : w \in Word}
    \cup {Clo(rs[i].clo) : i \in {j \in 1 .. Len(rs) : ~rs[j].body}}
    \cup {rs[i].caller : i \in {j \in 1 .. Len(rs) : rs[j].body}}
    \cup {rs[i].link : i \in TracedDepths}
    \cup (UNION {{rs[i].vals[w] : w \in Word} : i \in TracedDepths})
    \cup {obj[a].link : a \in DOMAIN obj}
    \cup (UNION {{obj[a].vals[w] : w \in Word} : a \in DOMAIN obj})

(* No collection frees what is still in use, also when it strikes while    *)
(* callees wait for arguments or a closure is being made: what the         *)
(* evaluator can follow is allocated, and is a context where a context is  *)
(* expected and a closure where a closure is.  (The closure being made is  *)
(* not in Followed: PendingSurvives is about it.)                          *)
NoDangling ==
    \A v \in Followed :
        /\ v[1] = "heap" => v[2] \in DOMAIN obj /\ obj[v[2]].kind = "ctx"
        /\ v[1] = "clo"  => v[2] \in DOMAIN obj /\ obj[v[2]].kind = "closure"

(* Nothing that can outlive an invocation names its return-stack memory:   *)
(* a captured context is in the heap before the closure has it.            *)
NoHeapToStack ==
    /\ \A a \in DOMAIN obj : obj[a].link[1] # "stack"
    /\ \A i \in 1 .. Len(rs) : rs[i].body => rs[i].link[1] # "stack"

(* RV_CTX and the saved contexts of frames name stack memory of the        *)
(* invocation they belong to, so no return, normal or not, leaves one that *)
(* names a popped context; RV_CHILD is "0 or live".                        *)
Innermost(n) ==
    IF \E i \in 1 .. n : rs[i].body
    THEN CHOOSE i \in 1 .. n : rs[i].body /\ \A j \in (i + 1) .. n : ~rs[j].body
    ELSE 0

OwnContext(c, n) == c[1] = "stack" => c[2] = Innermost(n) /\ c[2] # 0

StackRefsAreOwn ==
    /\ OwnContext(ctx, Len(rs))
    /\ OwnContext(child, Len(rs))
    /\ \A i \in 1 .. Len(rs) : rs[i].body => OwnContext(rs[i].caller, i - 1)

(* Once a context has been copied to the heap the evaluator uses the copy  *)
(* only, so a value set through one name of it is seen through the other.  *)
NoStaleCopy ==
    \A c \in {ctx} \cup {rs[i].caller : i \in {j \in 1 .. Len(rs) : rs[j].body}} :
        c[1] = "stack" =>
            \A a \in DOMAIN obj : obj[a].kind = "ctx" => obj[a].env # rs[c[2]].env

(* Whatever the evaluator follows leads where it should: see the parts.    *)
ReferencesAreSound == TypeOK /\ NoDangling /\ NoHeapToStack /\ StackRefsAreOwn

(* "The live activation, the new closure, and any later closures all       *)
(* observe one logical environment" (FIB-OPT-P3-CONTEXTS): so the object   *)
(* of a closure that is being made stays allocated until it is written.    *)
PendingSurvives == pend # None => pend[2] \in DOMAIN obj

(* M2-GC-DESIGN section 5 has the data stack hold tagged values only, so   *)
(* that the collector halts on nothing but a corrupt heap.  Refuted with a *)
(* site like 7 in SiteTags (README, Limits of the code).                   *)
NoFalseCorruption == pc # "halt"

-----------------------------------------------------------------------------
(* The environments this state stands for *)

IdOf(c) == CASE c[1] = "stack" -> rs[c[2]].env
             [] c[1] = "heap"  -> obj[c[2]].env
             [] OTHER          -> 0

AbsValue(v) == IF v[1] = "clo" THEN <<"clo", IdOf(obj[v[2]].link)>> ELSE v

Node(c) == [id |-> IdOf(c),
            parent |-> IF Parent(c) = None THEN None ELSE <<"env", IdOf(Parent(c))>>,
            vals |-> [w \in Word |-> AbsValue(Vals(c)[w])]]

HeapCtxs  == {Managed(a) : a \in {b \in DOMAIN obj : obj[b].kind = "ctx"}}
StackCtxs == {OnStack(i) : i \in {j \in 1 .. Len(rs) : rs[j].body}}

(* An environment is its copy in the heap where there is one. *)
Holders == HeapCtxs \cup {Global}
           \cup {c \in StackCtxs : IdOf(c) \notin {IdOf(h) : h \in HeapCtxs}}

WaitsFor(r) == IF r.body THEN IdOf(r.caller) ELSE IdOf(obj[r.clo].link)

AbsStk == [i \in 1 .. Len(rs) |->
              [body |-> rs[i].body, sp |-> rs[i].sp, env |-> WaitsFor(rs[i])]]

AbsDs == [i \in 1 .. Len(ds) |-> AbsValue(ds[i])]

AbsEnv == {Node(c) : c \in Holders}

Abs == INSTANCE AbstractClosures WITH env <- AbsEnv, cur <- IdOf(ctx), stk <- AbsStk, ds <- AbsDs

(* Contexts on the stack, their promotion and collections at any moment    *)
(* cannot be told from environments that are simply there as long as they  *)
(* are needed: every step of the evaluator does to the program's values    *)
(* what AbstractClosures does, and promotion and collection do nothing.    *)
ImplementsAbstractClosures == Abs!AbsSpec

-----------------------------------------------------------------------------
(* An instance for TLC: functions of no parameter and of one, which may    *)
(* shadow a word, and payload addresses that are all alike.                *)
UpToOne  == {<<>>} \cup {<<w>> : w \in Word}
Symmetry == Permutations(Addr)
=============================================================================
