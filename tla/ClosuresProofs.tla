--------------------------- MODULE ClosuresProofs ---------------------------
(***************************************************************************)
(* Closures for any heap, words, functions and depth of calls: promotion,  *)
(* returns to any frame and collections at every allocation leave nothing  *)
(* the evaluator can follow freed, popped, or a copy that is out of date.  *)
(* Then that no step can be told from one of AbstractClosures.             *)
(***************************************************************************)
EXTENDS Closures, Induction, SequenceTheorems, FiniteSetTheorems, TLAPS

-----------------------------------------------------------------------------
(* Names of contexts, values and records.                                  *)

LEMMA CtxRefIs ==
  ASSUME NEW c \in CtxRefs
  PROVE  \/ c = None /\ c[1] = "none"
         \/ c = Global /\ c[1] = "global" /\ c # None
         \/ c[1] = "heap" /\ c[2] \in Addr /\ c = Managed(c[2]) /\ c # None /\ c # Global
         \/ c[1] = "stack" /\ c[2] \in 1 .. MaxDepth /\ c = OnStack(c[2]) /\ c # None /\ c # Global
  BY DEF CtxRefs, None, Global, Managed, OnStack

LEMMA NamesAreRefs ==
  /\ None \in CtxRefs /\ Global \in CtxRefs /\ None # Global
  /\ None[1] = "none" /\ Global[1] = "global"
  /\ \A a : Managed(a)[1] = "heap" /\ Managed(a)[2] = a /\ Managed(a) # None
  /\ \A a \in Addr : Managed(a) \in CtxRefs
  /\ \A i : OnStack(i)[1] = "stack" /\ OnStack(i)[2] = i /\ OnStack(i) # None
  /\ \A i \in 1 .. MaxDepth : OnStack(i) \in CtxRefs
  BY DEF CtxRefs, None, Global, Managed, OnStack

LEMMA ValueIs ==
  /\ Unbound \in Values /\ Scalar \in Values
  /\ Unbound[1] = "unbound" /\ Scalar[1] = "scalar"
  /\ \A a : Clo(a)[1] = "clo" /\ Clo(a)[2] = a
  /\ \A a \in Addr : Clo(a) \in Values
  /\ \A v \in Values : /\ v[1] \in {"unbound", "scalar", "clo"}
                       /\ v[1] = "clo" => v[2] \in Addr /\ v = Clo(v[2])
  BY DEF Values, Unbound, Scalar, Clo

Record == Waiting \cup Active

LEMMA RecordIs ==
  ASSUME NEW r \in Record
  PROVE  /\ r.body \in BOOLEAN /\ r.sp \in Nat
         /\ ~r.body => r.clo \in Addr
         /\ r.body => /\ r.link \in CtxRefs /\ r.caller \in CtxRefs /\ r.env \in EnvId
                      /\ r.vals \in [Word -> Values]
         /\ r.body => r \in Active
  BY DEF Record, Waiting, Active

-----------------------------------------------------------------------------
(* The chain of contexts.                                                  *)

(* The contexts that a lookup visits.                                      *)
LEMMA HomeSteps ==
  ASSUME NEW V, ctx \in V, NEW w,
         \A c \in V : ~(c = None \/ Vals(c)[w] # Unbound) => Parent(c) \in V
  PROVE  \E f : /\ Home(w) = f[Cardinality(Addr) + 3]
                /\ f[0] = ctx
                /\ \A n \in Nat : f[n] \in V
                /\ \A n \in Nat : f[n + 1] = IF f[n] = None \/ Vals(f[n])[w] # Unbound
                                            THEN f[n] ELSE Parent(f[n])
  <1> DEFINE up(c) == IF c = None \/ Vals(c)[w] # Unbound THEN c ELSE Parent(c)
             G == [p \in Nat \X V |-> up(p[2])]
             at == CHOOSE at : at = [n \in Nat |-> IF n = 0 THEN ctx ELSE up(at[n - 1])]
  <1>1. \A n \in Nat : \A c \in V : G[<<n, c>>] = up(c) /\ up(c) \in V
    <2>1. \A n \in Nat : \A c \in V : G[<<n, c>>] = up(c)
      <3> HIDE DEF up
      <3> QED
        OBVIOUS
    <2>2. \A c \in V : up(c) \in V
      OBVIOUS
    <2> QED
      BY <2>1, <2>2
  <1> HIDE DEF G, up
  <1>2. PICK g : IsRecursion(g, ctx, G)
    BY PrimitiveRecursion
  <1>3. g = [n \in Nat |-> g[n]] /\ \A n \in Nat : g[n] = IF n = 0 THEN ctx ELSE G[<<n, g[n - 1]>>]
    BY <1>2, Zenon DEF IsRecursion
  <1> DEFINE S == {n \in Nat : g[n] \in V}
  <1>4. 0 \in S
    BY <1>3
  <1>5. ASSUME NEW n \in Nat, n \in S PROVE n + 1 \in S
    <2>1. n + 1 \in Nat /\ n + 1 # 0 /\ (n + 1) - 1 = n
      OBVIOUS
    <2>2. g[n + 1] = G[<<n + 1, g[n]>>]
      BY <1>3, <2>1
    <2> QED
      BY <1>1, <1>5, <2>1, <2>2
  <1>6. \A n \in Nat : g[n] \in V
    <2> HIDE DEF S
    <2>1. Nat \subseteq S
      BY <1>4, <1>5, NatSetInduction
    <2> QED
      BY <2>1 DEF S
  <1>7. \A n \in Nat : g[n] = IF n = 0 THEN ctx ELSE up(g[n - 1])
    <2> SUFFICES ASSUME NEW n \in Nat, n # 0 PROVE g[n] = up(g[n - 1])
      BY <1>3
    <2>1. n - 1 \in Nat
      OBVIOUS
    <2> QED
      BY <1>1, <1>3, <1>6, <2>1
  <1>8. g = [n \in Nat |-> IF n = 0 THEN ctx ELSE up(g[n - 1])]
    BY <1>3, <1>7
  <1>9. at = [n \in Nat |-> IF n = 0 THEN ctx ELSE up(at[n - 1])]
    BY <1>8
  <1> HIDE DEF at
  <1>10. \A n \in Nat : at[n] = IF n = 0 THEN ctx ELSE up(at[n - 1])
    BY <1>9, Zenon
  <1> DEFINE T == {n \in Nat : at[n] \in V}
  <1>11. 0 \in T
    BY <1>10
  <1>12. ASSUME NEW n \in Nat, n \in T PROVE n + 1 \in T
    <2>1. n + 1 \in Nat /\ n + 1 # 0 /\ (n + 1) - 1 = n
      OBVIOUS
    <2>2. at[n + 1] = up(at[n])
      BY <1>10, <2>1
    <2> QED
      BY <1>1, <1>12, <2>1, <2>2
  <1>13. \A n \in Nat : at[n] \in V
    <2> HIDE DEF T
    <2>1. Nat \subseteq T
      BY <1>11, <1>12, NatSetInduction
    <2> QED
      BY <2>1 DEF T
  <1>14. Home(w) = at[Cardinality(Addr) + 3]
    BY DEF Home, at, up
  <1>15. \A n \in Nat : at[n + 1] = up(at[n])
    <2> SUFFICES ASSUME NEW n \in Nat PROVE at[n + 1] = up(at[n])
      OBVIOUS
    <2>1. n + 1 \in Nat /\ n + 1 # 0 /\ (n + 1) - 1 = n
      OBVIOUS
    <2> QED
      BY <1>10, <2>1
  <1>16. at[0] = ctx
    BY <1>10
  <1> QED
    BY <1>13, <1>14, <1>15, <1>16 DEF up

(* Whatever holds of RV_CTX and of the parents of what it holds of, holds  *)
(* of the context a word is found in.                                      *)
LEMMA HomeWithin ==
  ASSUME NEW V, ctx \in V, NEW w,
         \A c \in V : ~(c = None \/ Vals(c)[w] # Unbound) => Parent(c) \in V
  PROVE  Home(w) \in V
  <1>1. Cardinality(Addr) + 3 \in Nat
    BY ClosuresAssumption, FS_CardinalityType
  <1>2. PICK f : Home(w) = f[Cardinality(Addr) + 3] /\ \A n \in Nat : f[n] \in V
    BY HomeSteps
  <1> QED
    BY <1>1, <1>2

-----------------------------------------------------------------------------
(* The inductive invariant.                                                *)

(* Where a value or a reference leads: to a context, or to a closure whose *)
(* fields have been written.                                               *)
Right(O, v) ==
    /\ v[1] = "heap" => v[2] \in DOMAIN O /\ O[v[2]].kind = "ctx"
    /\ v[1] = "clo"  => v[2] \in DOMAIN O /\ O[v[2]].kind = "closure" /\ O[v[2]].link # None

ObjectsRight(O) ==
    \A a \in DOMAIN O : Right(O, O[a].link) /\ \A w \in Word : Right(O, O[a].vals[w])

RegistersRight(O, c, ch, cl) == Right(O, c) /\ Right(O, ch) /\ Right(O, cl)

GlobalRight(O, G) == \A w \in Word : Right(O, G[w])

OperandsRight(O, D) == \A i \in 1 .. Len(D) : Right(O, D[i])

RecordsRight(O, R) == \A i \in 1 .. Len(R) : IF R[i].body THEN Right(O, R[i].caller)
                                                          ELSE Right(O, Clo(R[i].clo))

Traced(R, c, ch) == {i \in 1 .. Len(R) :
                        /\ R[i].body
                        /\ \/ OnStack(i) \in {c, ch}
                           \/ \E j \in 1 .. Len(R) : R[j].body /\ R[j].caller = OnStack(i)}

TracedRight(O, R, T) ==
    \A i \in T : Right(O, R[i].link) /\ \A w \in Word : Right(O, R[i].vals[w])

NothingDangles ==
    /\ ObjectsRight(obj) /\ RegistersRight(obj, ctx, child, closure)
    /\ GlobalRight(obj, global) /\ OperandsRight(obj, ds) /\ RecordsRight(obj, rs)
    /\ TracedRight(obj, rs, Traced(rs, ctx, child))

(* c, if it is on the return stack, is the context of the innermost body   *)
(* below n.                                                                *)
Owned(c, R, n) ==
    c[1] = "stack" => c[2] \in 1 .. n /\ R[c[2]].body /\ \A j \in c[2] + 1 .. n : ~R[j].body

StackOwned(R, c, ch) ==
    /\ Owned(c, R, Len(R)) /\ Owned(ch, R, Len(R))
    /\ \A i \in 1 .. Len(R) : R[i].body => /\ Owned(R[i].caller, R, i - 1)
                                           /\ R[i].caller # None
                                           /\ R[i].link[1] # "stack"

NoStackInHeap(O) == \A a \in DOMAIN O : O[a].link[1] # "stack"

(* Frames cut the data stack at or below where the frames above them do,   *)
(* which is within it.                                                     *)
Levelled(R, D) ==
    /\ \A i, j \in 1 .. Len(R) : i <= j => R[i].sp <= R[j].sp
    /\ \A i \in 1 .. Len(R) : R[i].sp <= Len(D)
    /\ Len(D) <= MaxData

(* What r_mkclosure relies on between its steps. *)
Making(O, D, c, p, q) ==
    /\ q \in {"alloc1", "alloc2", "fill"} => Len(D) < MaxData
    /\ q \in {"alloc2", "fill"} => /\ p[1] = "clo" /\ p[2] \in DOMAIN O
                                   /\ O[p[2]].kind = "closure" /\ O[p[2]].link = None
    /\ q = "alloc2" => c[1] = "stack"
    /\ q = "fill" => c[1] # "stack"

OwnEnvs(R) == \A i, j \in 1 .. Len(R) : R[i].body /\ R[j].body /\ i # j => R[i].env # R[j].env

(* No context in the heap is a copy of the context c on the return stack.  *)
NoCopyOf(O, R, c) ==
    c[1] = "stack" => \A a \in DOMAIN O : O[a].kind = "ctx" => O[a].env # R[c[2]].env

NoCopies(O, R, c) ==
    NoCopyOf(O, R, c) /\ \A i \in 1 .. Len(R) : R[i].body => NoCopyOf(O, R, R[i].caller)

Sound ==
    /\ TypeOK
    /\ NothingDangles
    /\ StackOwned(rs, ctx, child) /\ NoStackInHeap(obj)
    /\ Levelled(rs, ds)
    /\ Making(obj, ds, ctx, pend, pc)
    /\ OwnEnvs(rs) /\ NoCopies(obj, rs, ctx)

(* What the types say, item by item. *)
LEMMA Types ==
  ASSUME TypeOK
  PROVE  /\ \A a \in DOMAIN obj : /\ a \in Addr /\ obj[a] \in Object
                                  /\ obj[a].kind \in {"ctx", "closure"}
                                  /\ obj[a].link \in CtxRefs /\ obj[a].env \in EnvId
                                  /\ obj[a].vals \in [Word -> Values]
         /\ \A w \in Word : global[w] \in Values
         /\ rs \in Seq(Record) /\ Len(rs) \in 0 .. MaxDepth
         /\ \A i \in 1 .. Len(rs) : rs[i] \in Record
         /\ ds \in Seq(Values) /\ Len(ds) \in Nat
         /\ \A i \in 1 .. Len(ds) : ds[i] \in Values
         /\ ctx \in CtxRefs /\ ctx # None /\ child \in CtxRefs
  <1>1. \A a \in DOMAIN obj : a \in Addr /\ obj[a] \in Object
    BY DEF TypeOK
  <1>2. rs \in Seq(Record) /\ ds \in Seq(Values) /\ Len(rs) <= MaxDepth
    BY DEF TypeOK, Record
  <1>3. Len(rs) \in Nat /\ Len(ds) \in Nat /\ MaxDepth \in Nat
    BY <1>2, LenProperties, ClosuresAssumption
  <1>4. \A i \in 1 .. Len(rs) : rs[i] \in Record
    BY <1>2, ElementOfSeq
  <1>5. \A i \in 1 .. Len(ds) : ds[i] \in Values
    BY <1>2, ElementOfSeq
  <1>6. \A a \in DOMAIN obj : /\ obj[a].kind \in {"ctx", "closure"}
                              /\ obj[a].link \in CtxRefs /\ obj[a].env \in EnvId
                              /\ obj[a].vals \in [Word -> Values]
    BY <1>1 DEF Object
  <1> QED
    BY <1>1, <1>2, <1>3, <1>4, <1>5, <1>6 DEF TypeOK

(* The two ways to say that nothing dangles. *)
LEMMA NothingDanglesIs ==
  ASSUME NothingDangles
  PROVE  NoDangling
  <1> SUFFICES ASSUME NEW v \in Followed PROVE Right(obj, v)
    BY Zenon DEF NoDangling, Right
  <1>1. TracedDepths = Traced(rs, ctx, child)
    BY DEF TracedDepths, Traced
  <1>2. CASE v \in {ctx, child, closure}
    BY <1>2 DEF NothingDangles, RegistersRight
  <1>3. CASE v \in {ds[i] : i \in 1 .. Len(ds)} \cup {global[w] : w \in Word}
    BY <1>3 DEF NothingDangles, OperandsRight, GlobalRight
  <1>4. CASE v \in {Clo(rs[i].clo) : i \in {j \in 1 .. Len(rs) : ~rs[j].body}}
    BY <1>4 DEF NothingDangles, RecordsRight
  <1>5. CASE v \in {rs[i].caller : i \in {j \in 1 .. Len(rs) : rs[j].body}}
    BY <1>5 DEF NothingDangles, RecordsRight
  <1>6. CASE v \in {rs[i].link : i \in TracedDepths} \cup (UNION {{rs[i].vals[w] : w \in Word} : i \in TracedDepths})
    BY <1>1, <1>6 DEF NothingDangles, TracedRight
  <1>7. CASE v \in {obj[a].link : a \in DOMAIN obj} \cup (UNION {{obj[a].vals[w] : w \in Word} : a \in DOMAIN obj})
    BY <1>7 DEF NothingDangles, ObjectsRight
  <1> HIDE DEF Right
  <1>8. \/ v \in {ctx, child, closure}
        \/ v \in {ds[i] : i \in 1 .. Len(ds)} \cup {global[w] : w \in Word}
        \/ v \in {Clo(rs[i].clo) : i \in {j \in 1 .. Len(rs) : ~rs[j].body}}
        \/ v \in {rs[i].caller : i \in {j \in 1 .. Len(rs) : rs[j].body}}
        \/ v \in {rs[i].link : i \in TracedDepths} \cup (UNION {{rs[i].vals[w] : w \in Word} : i \in TracedDepths})
        \/ v \in {obj[a].link : a \in DOMAIN obj} \cup (UNION {{obj[a].vals[w] : w \in Word} : a \in DOMAIN obj})
    BY Zenon DEF Followed
  <1> QED
    BY <1>2, <1>3, <1>4, <1>5, <1>6, <1>7, <1>8

(* A context that is owned is the one Innermost chooses. *)
LEMMA OwnedIsInnermost ==
  ASSUME NEW c, NEW n \in Nat, Owned(c, rs, n)
  PROVE  OwnContext(c, n)
  <1> SUFFICES ASSUME c[1] = "stack" PROVE c[2] = Innermost(n) /\ c[2] # 0
    BY DEF OwnContext
  <1>1. c[2] \in 1 .. n /\ rs[c[2]].body /\ \A j \in c[2] + 1 .. n : ~rs[j].body
    BY DEF Owned
  <1> DEFINE P(i) == rs[i].body /\ \A j \in (i + 1) .. n : ~rs[j].body
  <1>2. \A i \in 1 .. n : P(i) => i = c[2]
    <2> SUFFICES ASSUME NEW i \in 1 .. n, P(i), i # c[2] PROVE FALSE
      OBVIOUS
    <2>1. i < c[2] => c[2] \in i + 1 .. n
      BY <1>1
    <2>2. c[2] < i => i \in c[2] + 1 .. n
      BY <1>1
    <2> QED
      BY <1>1, <2>1, <2>2
  <1>3. \E i \in 1 .. n : P(i)
    BY <1>1
  <1> HIDE DEF P
  <1>4. (CHOOSE i \in 1 .. n : P(i)) = c[2]
    BY <1>2, <1>3
  <1>5. Innermost(n) = CHOOSE i \in 1 .. n : P(i)
    BY <1>1 DEF Innermost, P
  <1> QED
    BY <1>1, <1>4, <1>5

(* What is to be shown, from the invariant. *)
LEMMA SoundMeans ==
  ASSUME Sound
  PROVE  ReferencesAreSound /\ NoStaleCopy
  <1>1. TypeOK /\ NoDangling
    BY NothingDanglesIs DEF Sound
  <1>2. NoHeapToStack
    BY DEF Sound, StackOwned, NoStackInHeap, NoHeapToStack
  <1>3. StackRefsAreOwn
    <2>1. Len(rs) \in Nat /\ \A i \in 1 .. Len(rs) : i - 1 \in Nat
      BY <1>1, Types
    <2>2. Owned(ctx, rs, Len(rs)) /\ Owned(child, rs, Len(rs))
      BY DEF Sound, StackOwned
    <2>3. \A i \in 1 .. Len(rs) : rs[i].body => Owned(rs[i].caller, rs, i - 1)
      BY DEF Sound, StackOwned
    <2>4. OwnContext(ctx, Len(rs)) /\ OwnContext(child, Len(rs))
      BY <2>1, <2>2, OwnedIsInnermost
    <2>5. \A i \in 1 .. Len(rs) : rs[i].body => OwnContext(rs[i].caller, i - 1)
      BY <2>1, <2>3, OwnedIsInnermost
    <2> QED
      BY <2>4, <2>5 DEF StackRefsAreOwn
  <1>4. NoStaleCopy
    BY DEF Sound, NoCopies, NoCopyOf, NoStaleCopy
  <1> QED
    BY <1>1, <1>2, <1>3, <1>4 DEF ReferencesAreSound

-----------------------------------------------------------------------------
(* Lookup: contexts that a chain can lead to, in a state that is sound.    *)

HeapContexts == {a \in DOMAIN obj : obj[a].kind = "ctx"}

Chain == {ctx, None, Global} \cup {Managed(a) : a \in HeapContexts}

(* RV_CTX as a context on the return stack. *)
LEMMA CtxOnStack ==
  ASSUME Sound, ctx[1] = "stack"
  PROVE  /\ ctx[2] \in 1 .. Len(rs) /\ ctx = OnStack(ctx[2])
         /\ rs[ctx[2]] \in Record /\ rs[ctx[2]].body
         /\ ctx[2] \in Traced(rs, ctx, child)
         /\ \A j \in ctx[2] + 1 .. Len(rs) : ~rs[j].body
  <1>1. ctx[2] \in 1 .. Len(rs) /\ rs[ctx[2]].body /\ \A j \in ctx[2] + 1 .. Len(rs) : ~rs[j].body
    BY DEF Sound, StackOwned, Owned
  <1>2. ctx \in CtxRefs /\ rs[ctx[2]] \in Record
    BY <1>1, Types DEF Sound
  <1>3. ctx = OnStack(ctx[2])
    BY <1>2, CtxRefIs, NamesAreRefs
  <1>4. ctx[2] \in Traced(rs, ctx, child)
    BY <1>1, <1>3 DEF Traced
  <1> QED
    BY <1>1, <1>2, <1>3, <1>4

(* A reference that is right is a context a chain can have. *)
LEMMA RightIsOnChain ==
  ASSUME NEW c \in CtxRefs, Right(obj, c), c[1] # "stack"
  PROVE  c \in Chain
  <1>1. CASE c = None \/ c = Global
    BY <1>1 DEF Chain
  <1>2. CASE c[1] = "heap" /\ c = Managed(c[2])
    BY <1>2 DEF Chain, HeapContexts, Right
  <1> QED
    BY <1>1, <1>2, CtxRefIs

LEMMA ChainFacts ==
  ASSUME Sound, NEW c \in Chain, c # None
  PROVE  /\ c \in CtxRefs
         /\ Vals(c) \in [Word -> Values] /\ \A w \in Word : Right(obj, Vals(c)[w])
         /\ Parent(c) \in Chain /\ Parent(c) \in CtxRefs /\ Right(obj, Parent(c))
         /\ Parent(c)[1] # "stack"
  <1>1. CASE c[1] = "stack"
    <2>1. c = ctx
      BY <1>1, NamesAreRefs DEF Chain
    <2> DEFINE i == c[2]
    <2>2. i \in 1 .. Len(rs) /\ rs[i] \in Record /\ rs[i].body /\ i \in Traced(rs, ctx, child)
      BY <1>1, <2>1, CtxOnStack
    <2>3. Vals(c) = rs[i].vals /\ Parent(c) = rs[i].link
      BY <1>1 DEF Vals, Parent
    <2>4. rs[i].vals \in [Word -> Values] /\ rs[i].link \in CtxRefs
      BY <2>2, RecordIs
    <2>5. Right(obj, rs[i].link) /\ \A w \in Word : Right(obj, rs[i].vals[w])
      BY <2>2 DEF Sound, NothingDangles, TracedRight
    <2>6. rs[i].link[1] # "stack"
      BY <2>2 DEF Sound, StackOwned
    <2>7. c \in CtxRefs
      BY <2>1, Types DEF Sound
    <2> HIDE DEF i
    <2> QED
      BY <2>3, <2>4, <2>5, <2>6, <2>7, RightIsOnChain
  <1>2. CASE c[1] = "heap"
    <2>1. c[2] \in DOMAIN obj
      <3>1. CASE c = ctx
        BY <1>2, <3>1 DEF Sound, NothingDangles, RegistersRight, Right
      <3>2. CASE c # ctx
        BY <1>2, <3>2, NamesAreRefs DEF Chain, HeapContexts
      <3> QED
        BY <3>1, <3>2
    <2> DEFINE a == c[2]
    <2>2. Vals(c) = obj[a].vals /\ Parent(c) = obj[a].link
      BY <1>2 DEF Vals, Parent
    <2>3. obj[a].vals \in [Word -> Values] /\ obj[a].link \in CtxRefs /\ a \in Addr
      BY <2>1, Types DEF Sound
    <2>4. Right(obj, obj[a].link) /\ \A w \in Word : Right(obj, obj[a].vals[w])
      BY <2>1 DEF Sound, NothingDangles, ObjectsRight
    <2>5. obj[a].link[1] # "stack"
      BY <2>1 DEF Sound, NoStackInHeap
    <2>6. c \in CtxRefs
      BY <1>2, <2>3, Types, NamesAreRefs DEF Sound, Chain, HeapContexts
    <2> HIDE DEF a
    <2> QED
      BY <2>2, <2>3, <2>4, <2>5, <2>6, RightIsOnChain
  <1>3. CASE c[1] \notin {"stack", "heap"}
    <2>1. c = Global
      BY <1>3, Types, CtxRefIs, NamesAreRefs DEF Sound, Chain
    <2>2. Vals(c) = global /\ Parent(c) = None
      BY <2>1, NamesAreRefs DEF Vals, Parent
    <2>3. global \in [Word -> Values] /\ \A w \in Word : Right(obj, global[w])
      BY DEF Sound, TypeOK, NothingDangles, GlobalRight
    <2>4. Right(obj, None) /\ None \in Chain
      BY NamesAreRefs DEF Right, Chain
    <2> QED
      BY <2>1, <2>2, <2>3, <2>4, NamesAreRefs
  <1> QED
    BY <1>1, <1>2, <1>3

(* Where a word is found. *)
LEMMA HomeIs ==
  ASSUME Sound, NEW w \in Word
  PROVE  Home(w) \in Chain
  <1>1. ctx \in Chain
    BY DEF Chain
  <1>2. \A c \in Chain : ~(c = None \/ Vals(c)[w] # Unbound) => Parent(c) \in Chain
    BY ChainFacts
  <1> HIDE DEF Chain
  <1> QED
    BY <1>1, <1>2, HomeWithin

-----------------------------------------------------------------------------
(* Steps that change no context.                                           *)

(* A sequence cut off after n elements. *)
LEMMA CutOff ==
  ASSUME NEW S, NEW s \in Seq(S), NEW n \in 0 .. Len(s)
  PROVE  /\ SubSeq(s, 1, n) \in Seq(S) /\ Len(SubSeq(s, 1, n)) = n
         /\ \A i \in 1 .. n : SubSeq(s, 1, n)[i] = s[i]
  <1>1. Len(s) \in Nat /\ n \in Nat /\ 1 .. n \subseteq 1 .. Len(s)
    BY LenProperties
  <1>2. \A i \in 1 .. n : s[i] \in S
    BY <1>1, ElementOfSeq
  <1>3. /\ SubSeq(s, 1, n) \in Seq(S)
        /\ Len(SubSeq(s, 1, n)) = IF 1 <= n THEN n - 1 + 1 ELSE 0
        /\ \A i \in 1 .. n - 1 + 1 : SubSeq(s, 1, n)[i] = s[1 + i - 1]
    BY <1>1, <1>2, SubSeqProperties
  <1>4. n - 1 + 1 = n /\ \A i \in 1 .. n : 1 + i - 1 = i
    BY <1>1
  <1> QED
    BY <1>1, <1>3, <1>4

(* What stays right when objects are added and none changes its kind or    *)
(* loses its link.                                                         *)
LEMMA RightKept ==
  ASSUME NEW O, NEW P, DOMAIN O \subseteq DOMAIN P,
         \A a \in DOMAIN O : P[a].kind = O[a].kind /\ (O[a].link # None => P[a].link # None),
         NEW v, Right(O, v)
  PROVE  Right(P, v)
  BY DEF Right

(* The value on top of the data stack. *)
LEMMA TopValue ==
  ASSUME Sound, Len(ds) > 0
  PROVE  ds[Len(ds)] \in Values /\ Right(obj, ds[Len(ds)])
  <1>1. Len(ds) \in 1 .. Len(ds)
    BY Types DEF Sound
  <1> QED
    BY <1>1, Types DEF Sound, NothingDangles, OperandsRight

LEMMA BaseIs ==
  ASSUME Sound
  PROVE  /\ Base \in Nat /\ Base <= Len(ds)
         /\ \A i \in 1 .. Len(rs) : rs[i].sp \in Nat /\ rs[i].sp <= Base
  <1>1. \A i \in 1 .. Len(rs) : rs[i].sp \in Nat
    BY Types, RecordIs DEF Sound
  <1>2. CASE rs = <<>>
    BY <1>2, Types DEF Sound, Base
  <1>3. CASE rs # <<>>
    <2>1. Len(rs) \in 1 .. Len(rs)
      BY <1>3, Types, EmptySeq DEF Sound
    <2>2. Base = rs[Len(rs)].sp
      BY <1>3 DEF Base, Top
    <2> QED
      BY <1>1, <2>1, <2>2, Types DEF Sound, Levelled
  <1> QED
    BY <1>2, <1>3

(* The evaluator pushes or drops. *)
LEMMA OperandStep ==
  ASSUME Sound, Eval, NEW D, D \in Seq(Values), OperandsRight(obj, D),
         Base <= Len(D), Len(D) <= MaxData,
         ds' = D, UNCHANGED <<obj, global, rs, registers>>
  PROVE  Sound'
  <1>1. /\ obj' = obj /\ global' = global /\ rs' = rs /\ ctx' = ctx /\ child' = child
        /\ closure' = closure /\ pend' = pend /\ pc' = "eval"
    BY DEF registers, Eval
  <1>2. Len(D) \in Nat /\ MaxData \in Nat
    BY LenProperties, ClosuresAssumption
  <1>3. TypeOK'
    <2>1. Len(D) <= MaxData + 1
      BY <1>2
    <2> QED
      BY <1>1, <2>1 DEF Sound, TypeOK
  <1>4. NothingDangles'
    BY <1>1 DEF Sound, NothingDangles
  <1>5. StackOwned(rs, ctx, child)' /\ NoStackInHeap(obj)'
    BY <1>1 DEF Sound
  <1>6. Levelled(rs, ds)'
    <2>1. \A i \in 1 .. Len(rs) : rs[i].sp \in Nat /\ rs[i].sp <= Base /\ Base \in Nat
      BY BaseIs
    <2>2. \A i \in 1 .. Len(rs) : rs[i].sp <= Len(D)
      BY <1>2, <2>1
    <2> QED
      BY <1>1, <2>2 DEF Sound, Levelled
  <1>7. Making(obj, ds, ctx, pend, pc)'
    BY <1>1 DEF Making
  <1>8. OwnEnvs(rs)' /\ NoCopies(obj, rs, ctx)'
    BY <1>1 DEF Sound
  <1> QED
    BY <1>3, <1>4, <1>5, <1>6, <1>7, <1>8 DEF Sound

LEMMA PushIsSound ==
  ASSUME Sound, Eval, NEW v \in Values, Right(obj, v), Push(v),
         UNCHANGED <<obj, global, rs, registers>>
  PROVE  Sound'
  <1>1. ds \in Seq(Values) /\ Len(ds) \in Nat /\ MaxData \in Nat
    BY Types, ClosuresAssumption DEF Sound
  <1>2. ds' = Append(ds, v) /\ Len(ds) < MaxData
    BY DEF Push
  <1> DEFINE D == Append(ds, v)
  <1>3. /\ D \in Seq(Values) /\ Len(D) = Len(ds) + 1 /\ D[Len(ds) + 1] = v
        /\ \A i \in 1 .. Len(ds) : D[i] = ds[i]
    BY <1>1, AppendProperties
  <1> HIDE DEF D
  <1>4. OperandsRight(obj, D)
    <2> SUFFICES ASSUME NEW i \in 1 .. Len(D) PROVE Right(obj, D[i])
      BY DEF OperandsRight
    <2>1. i \in 1 .. Len(ds) \/ i = Len(ds) + 1
      BY <1>1, <1>3
    <2> QED
      BY <1>3, <2>1 DEF Sound, NothingDangles, OperandsRight
  <1>5. Base <= Len(D) /\ Len(D) <= MaxData
    BY <1>1, <1>2, <1>3, BaseIs
  <1> QED
    BY <1>2, <1>3, <1>4, <1>5, OperandStep DEF D

LEMMA PushScalarIsSound ==
  ASSUME Sound, PushScalar
  PROVE  Sound'
  BY PushIsSound, ValueIs DEF PushScalar, Right

LEMMA FetchIsSound ==
  ASSUME Sound, NEW w \in Word, Fetch(w)
  PROVE  Sound'
  <1>1. Home(w) \in Chain /\ Home(w) # None
    BY HomeIs DEF Fetch
  <1>2. Vals(Home(w))[w] \in Values /\ Right(obj, Vals(Home(w))[w])
    BY <1>1, ChainFacts
  <1> QED
    BY <1>2, PushIsSound DEF Fetch

LEMMA DropIsSound ==
  ASSUME Sound, Drop
  PROVE  Sound'
  <1>1. ds \in Seq(Values) /\ Len(ds) \in Nat /\ Base \in Nat /\ Base < Len(ds) /\ MaxData \in Nat
        /\ Len(ds) <= MaxData
    BY Types, BaseIs, ClosuresAssumption DEF Sound, Drop, Levelled
  <1> DEFINE D == SubSeq(ds, 1, Len(ds) - 1)
  <1>2. D \in Seq(Values) /\ Len(D) = Len(ds) - 1 /\ \A i \in 1 .. Len(ds) - 1 : D[i] = ds[i]
    <2>1. Len(ds) - 1 \in 0 .. Len(ds)
      BY <1>1
    <2> QED
      BY <1>1, <2>1, CutOff
  <1> HIDE DEF D
  <1>3. OperandsRight(obj, D)
    <2> SUFFICES ASSUME NEW i \in 1 .. Len(D) PROVE Right(obj, D[i])
      BY DEF OperandsRight
    <2>1. i \in 1 .. Len(ds) /\ D[i] = ds[i]
      BY <1>1, <1>2
    <2> QED
      BY <2>1 DEF Sound, NothingDangles, OperandsRight
  <1>4. Base <= Len(D) /\ Len(D) <= MaxData
    BY <1>1, <1>2
  <1> QED
    BY <1>2, <1>3, <1>4, OperandStep DEF Drop, D

(* The first step of r_mkclosure, and the end of a run without memory. *)
LEMMA BeginClosureIsSound ==
  ASSUME Sound, BeginClosure
  PROVE  Sound'
  <1>1. TypeOK'
    BY DEF BeginClosure, Sound, TypeOK
  <1>2. Making(obj, ds, ctx, pend, pc)'
    BY DEF BeginClosure, Making
  <1>3. NothingDangles' /\ StackOwned(rs, ctx, child)' /\ NoStackInHeap(obj)' /\ Levelled(rs, ds)'
        /\ OwnEnvs(rs)' /\ NoCopies(obj, rs, ctx)'
    BY DEF BeginClosure, Sound, NothingDangles
  <1> QED
    BY <1>1, <1>2, <1>3 DEF Sound

LEMMA OutOfMemoryIsSound ==
  ASSUME Sound, OutOfMemory
  PROVE  Sound'
  <1>1. TypeOK'
    BY DEF OutOfMemory, Sound, TypeOK
  <1>2. Making(obj, ds, ctx, pend, pc)'
    BY DEF OutOfMemory, Making
  <1>3. NothingDangles' /\ StackOwned(rs, ctx, child)' /\ NoStackInHeap(obj)' /\ Levelled(rs, ds)'
        /\ OwnEnvs(rs)' /\ NoCopies(obj, rs, ctx)'
    BY DEF OutOfMemory, Sound, NothingDangles
  <1> QED
    BY <1>1, <1>2, <1>3 DEF Sound

-----------------------------------------------------------------------------
(* r_set.                                                                  *)

LEMMA ObjectRewritten ==
  ASSUME NEW r \in Object, NEW w \in Word, NEW v \in Values
  PROVE  LET q == [r EXCEPT !.vals[w] = v]
         IN  /\ q \in Object /\ q.kind = r.kind /\ q.link = r.link /\ q.env = r.env
             /\ \A u \in Word : q.vals[u] = IF u = w THEN v ELSE r.vals[u]
  BY DEF Object

LEMMA RecordRewritten ==
  ASSUME NEW r \in Active, NEW w \in Word, NEW v \in Values
  PROVE  LET q == [r EXCEPT !.vals[w] = v]
         IN  /\ q \in Active /\ q.body = r.body /\ q.link = r.link /\ q.env = r.env
             /\ q.caller = r.caller /\ q.sp = r.sp
             /\ \A u \in Word : q.vals[u] = IF u = w THEN v ELSE r.vals[u]
  BY DEF Active

(* P is O but that values may have become v. *)
ObjectsRewritten(O, P, v) ==
    /\ DOMAIN P = DOMAIN O /\ P \in [DOMAIN P -> Object]
    /\ \A a \in DOMAIN O : /\ P[a].kind = O[a].kind /\ P[a].link = O[a].link /\ P[a].env = O[a].env
                           /\ \A u \in Word : P[a].vals[u] \in {O[a].vals[u], v}

RecordsRewritten(R, Q, v) ==
    /\ Q \in Seq(Record) /\ Len(Q) = Len(R)
    /\ \A i \in 1 .. Len(R) :
          /\ Q[i].body = R[i].body /\ Q[i].sp = R[i].sp
          /\ ~R[i].body => Q[i].clo = R[i].clo
          /\ R[i].body => /\ Q[i].link = R[i].link /\ Q[i].caller = R[i].caller
                          /\ Q[i].env = R[i].env
                          /\ \A u \in Word : Q[i].vals[u] \in {R[i].vals[u], v}

LEMMA WriteFacts ==
  ASSUME Sound, NEW c \in Chain, c # None, NEW w \in Word, NEW v \in Values, Write(c, w, v)
  PROVE  /\ ObjectsRewritten(obj, obj', v) /\ RecordsRewritten(rs, rs', v)
         /\ global' \in [Word -> Values] /\ \A u \in Word : global'[u] \in {global[u], v}
  <1>1. /\ obj \in [DOMAIN obj -> Object] /\ rs \in Seq(Record) /\ global \in [Word -> Values]
        /\ \A i \in 1 .. Len(rs) : rs[i] \in Record
    BY Types DEF Sound, TypeOK
  <1>2. global' \in [Word -> Values] /\ \A u \in Word : global'[u] \in {global[u], v}
    BY <1>1 DEF Write
  <1>3. ObjectsRewritten(obj, obj', v)
    <2>1. CASE c[1] # "heap"
      BY <1>1, <2>1 DEF Write, ObjectsRewritten
    <2>2. CASE c[1] = "heap"
      <3> DEFINE b == c[2]
      <3>1. b \in DOMAIN obj
        <4>1. CASE c = ctx
          BY <2>2, <4>1 DEF Sound, NothingDangles, RegistersRight, Right
        <4>2. CASE c # ctx
          BY <2>2, <4>2, NamesAreRefs DEF Chain, HeapContexts
        <4> QED
          BY <4>1, <4>2
      <3>2. obj' = [obj EXCEPT ![b] = [obj[b] EXCEPT !.vals[w] = v]]
        BY <2>2 DEF Write
      <3> HIDE DEF b
      <3> DEFINE q == [obj[b] EXCEPT !.vals[w] = v]
      <3>3. /\ q \in Object /\ q.kind = obj[b].kind /\ q.link = obj[b].link /\ q.env = obj[b].env
            /\ \A u \in Word : q.vals[u] = IF u = w THEN v ELSE obj[b].vals[u]
        BY <1>1, <3>1, ObjectRewritten
      <3>4. obj' = [obj EXCEPT ![b] = q]
        BY <3>2
      <3> HIDE DEF q
      <3>5. DOMAIN obj' = DOMAIN obj /\ \A a \in DOMAIN obj : obj'[a] = IF a = b THEN q ELSE obj[a]
        BY <1>1, <3>4
      <3>6. obj' \in [DOMAIN obj -> Object]
        BY <1>1, <3>3, <3>4
      <3> QED
        BY <3>3, <3>5, <3>6 DEF ObjectsRewritten
    <2> QED
      BY <2>1, <2>2
  <1>4. RecordsRewritten(rs, rs', v)
    <2>1. CASE c[1] # "stack"
      BY <1>1, <2>1 DEF Write, RecordsRewritten
    <2>2. CASE c[1] = "stack"
      <3> DEFINE k == c[2]
      <3>1. k \in 1 .. Len(rs) /\ rs[k].body /\ rs[k] \in Active
        <4>1. c = ctx
          BY <2>2, NamesAreRefs DEF Chain
        <4> QED
          BY <2>2, <4>1, CtxOnStack, RecordIs
      <3>2. rs' = [rs EXCEPT ![k] = [rs[k] EXCEPT !.vals[w] = v]]
        BY <2>2 DEF Write
      <3> HIDE DEF k
      <3> DEFINE q == [rs[k] EXCEPT !.vals[w] = v]
      <3>3. /\ q \in Active /\ q.body = rs[k].body /\ q.link = rs[k].link /\ q.env = rs[k].env
            /\ q.caller = rs[k].caller /\ q.sp = rs[k].sp
            /\ \A u \in Word : q.vals[u] = IF u = w THEN v ELSE rs[k].vals[u]
        BY <3>1, RecordRewritten
      <3>4. rs' = [rs EXCEPT ![k] = q] /\ q \in Record
        BY <3>2, <3>3 DEF Record
      <3> HIDE DEF q
      <3>5. /\ rs' \in Seq(Record) /\ Len(rs') = Len(rs)
            /\ \A i \in 1 .. Len(rs) : rs'[i] = IF i = k THEN q ELSE rs[i]
        BY <1>1, <3>1, <3>4, ExceptSeq
      <3> QED
        BY <3>1, <3>3, <3>5 DEF RecordsRewritten
    <2> QED
      BY <2>1, <2>2
  <1> QED
    BY <1>2, <1>3, <1>4

(* The frames are the same after it. *)
LEMMA FramesAfterWrite ==
  ASSUME NEW R \in Seq(Record), NEW Q, NEW v, RecordsRewritten(R, Q, v)
  PROVE  /\ Len(R) \in Nat /\ Len(Q) = Len(R)
         /\ \A c, ch : Traced(Q, c, ch) = Traced(R, c, ch)
         /\ \A c : \A n \in 0 .. Len(R) : Owned(c, R, n) => Owned(c, Q, n)
         /\ \A i \in 1 .. Len(R) : Q[i].body <=> R[i].body
  <1>1. Len(R) \in Nat /\ Len(Q) = Len(R) /\ \A i \in 1 .. Len(R) : Q[i].body = R[i].body
    BY LenProperties DEF RecordsRewritten
  <1>2. ASSUME NEW c, NEW ch PROVE Traced(Q, c, ch) = Traced(R, c, ch)
    <2>1. \A j \in 1 .. Len(R) : R[j].body => Q[j].caller = R[j].caller
      BY DEF RecordsRewritten
    <2> QED
      BY <1>1, <2>1 DEF Traced
  <1>3. ASSUME NEW c, NEW n \in 0 .. Len(R), Owned(c, R, n) PROVE Owned(c, Q, n)
    BY <1>1, <1>3 DEF Owned
  <1> QED
    BY <1>1, <1>2, <1>3

LEMMA WriteIsSound ==
  ASSUME Sound, Eval, NEW c \in Chain, c # None, NEW w \in Word, NEW v \in Values, Right(obj, v),
         Write(c, w, v), UNCHANGED <<ds, registers>>
  PROVE  Sound'
  <1>1. /\ ObjectsRewritten(obj, obj', v) /\ RecordsRewritten(rs, rs', v)
        /\ global' \in [Word -> Values] /\ \A u \in Word : global'[u] \in {global[u], v}
    BY WriteFacts
  <1>2. ds' = ds /\ ctx' = ctx /\ child' = child /\ closure' = closure /\ pend' = pend /\ pc' = "eval"
    BY DEF registers, Eval
  <1>3. /\ rs \in Seq(Record) /\ Len(rs) \in Nat /\ Len(rs) <= MaxDepth
    BY Types DEF Sound, TypeOK
  <1>4. /\ Len(rs') = Len(rs) /\ Traced(rs', ctx, child) = Traced(rs, ctx, child)
        /\ \A d : \A n \in 0 .. Len(rs) : Owned(d, rs, n) => Owned(d, rs', n)
        /\ \A i \in 1 .. Len(rs) : rs'[i].body <=> rs[i].body
    BY <1>1, <1>3, FramesAfterWrite
  <1>5. TypeOK'
    <2>1. DOMAIN obj' \subseteq Addr /\ obj' \in [DOMAIN obj' -> Object]
      BY <1>1 DEF Sound, TypeOK, ObjectsRewritten
    <2>2. rs' \in Seq(Waiting \cup Active) /\ Len(rs') <= MaxDepth
      BY <1>1, <1>3, <1>4 DEF RecordsRewritten, Record
    <2> QED
      BY <1>1, <1>2, <2>1, <2>2 DEF Sound, TypeOK, Eval
  <1>6. /\ DOMAIN obj' = DOMAIN obj
        /\ \A a \in DOMAIN obj : obj'[a].kind = obj[a].kind /\ obj'[a].link = obj[a].link /\ obj'[a].env = obj[a].env
    BY <1>1 DEF ObjectsRewritten
  <1>7. \A u : Right(obj, u) => Right(obj', u)
    BY <1>6, RightKept
  <1>8. NothingDangles'
    <2>1. ObjectsRight(obj')
      <3> SUFFICES ASSUME NEW a \in DOMAIN obj
                   PROVE  Right(obj', obj'[a].link) /\ \A u \in Word : Right(obj', obj'[a].vals[u])
        BY <1>6 DEF ObjectsRight
      <3>1. Right(obj, obj[a].link) /\ \A u \in Word : Right(obj, obj[a].vals[u])
        BY DEF Sound, NothingDangles, ObjectsRight
      <3>2. \A u \in Word : obj'[a].vals[u] \in {obj[a].vals[u], v}
        BY <1>1 DEF ObjectsRewritten
      <3> HIDE DEF Right
      <3> QED
        BY <1>6, <1>7, <3>1, <3>2
    <2>2. RegistersRight(obj', ctx, child, closure)
      BY <1>7 DEF Sound, NothingDangles, RegistersRight
    <2>3. GlobalRight(obj', global')
      <3> SUFFICES ASSUME NEW u \in Word PROVE Right(obj', global'[u])
        BY DEF GlobalRight
      <3>1. Right(obj, global[u]) /\ global'[u] \in {global[u], v}
        BY <1>1 DEF Sound, NothingDangles, GlobalRight
      <3> QED
        BY <1>7, <3>1
    <2>4. OperandsRight(obj', ds)
      BY <1>7 DEF Sound, NothingDangles, OperandsRight
    <2>5. RecordsRight(obj', rs')
      <3> SUFFICES ASSUME NEW i \in 1 .. Len(rs)
                   PROVE  IF rs'[i].body THEN Right(obj', rs'[i].caller) ELSE Right(obj', Clo(rs'[i].clo))
        BY <1>4 DEF RecordsRight
      <3>1. IF rs[i].body THEN Right(obj, rs[i].caller) ELSE Right(obj, Clo(rs[i].clo))
        BY DEF Sound, NothingDangles, RecordsRight
      <3>2. /\ rs[i].body => rs'[i].caller = rs[i].caller
            /\ ~rs[i].body => rs'[i].clo = rs[i].clo
        BY <1>1 DEF RecordsRewritten
      <3> QED
        BY <1>4, <1>7, <3>1, <3>2
    <2>6. TracedRight(obj', rs', Traced(rs, ctx, child))
      <3> SUFFICES ASSUME NEW i \in Traced(rs, ctx, child)
                   PROVE  Right(obj', rs'[i].link) /\ \A u \in Word : Right(obj', rs'[i].vals[u])
        BY DEF TracedRight
      <3>1. i \in 1 .. Len(rs) /\ rs[i].body
        BY DEF Traced
      <3>2. Right(obj, rs[i].link) /\ \A u \in Word : Right(obj, rs[i].vals[u])
        BY DEF Sound, NothingDangles, TracedRight
      <3>3. rs'[i].link = rs[i].link /\ \A u \in Word : rs'[i].vals[u] \in {rs[i].vals[u], v}
        BY <1>1, <3>1 DEF RecordsRewritten
      <3> HIDE DEF Right
      <3> QED
        BY <1>7, <3>2, <3>3
    <2> QED
      BY <1>2, <1>4, <2>1, <2>2, <2>3, <2>4, <2>5, <2>6 DEF NothingDangles
  <1>9. StackOwned(rs', ctx, child)
    <2>1. Owned(ctx, rs, Len(rs)) /\ Owned(child, rs, Len(rs)) /\ Len(rs) \in 0 .. Len(rs)
      BY <1>3 DEF Sound, StackOwned
    <2>2. ASSUME NEW i \in 1 .. Len(rs), rs[i].body
          PROVE  Owned(rs'[i].caller, rs', i - 1) /\ rs'[i].caller # None /\ rs'[i].link[1] # "stack"
      <3>1. rs'[i].caller = rs[i].caller /\ rs'[i].link = rs[i].link
        BY <1>1, <2>2 DEF RecordsRewritten
      <3>2. Owned(rs[i].caller, rs, i - 1) /\ rs[i].caller # None /\ rs[i].link[1] # "stack"
        BY <2>2 DEF Sound, StackOwned
      <3>3. i - 1 \in 0 .. Len(rs)
        BY <1>3
      <3> QED
        BY <1>4, <3>1, <3>2, <3>3
    <2> QED
      BY <1>4, <2>1, <2>2 DEF StackOwned
  <1>10. NoStackInHeap(obj')
    BY <1>6 DEF Sound, NoStackInHeap
  <1>11. Levelled(rs', ds)
    <2>1. \A i \in 1 .. Len(rs) : rs'[i].sp = rs[i].sp
      BY <1>1 DEF RecordsRewritten
    <2> QED
      BY <1>4, <2>1 DEF Sound, Levelled
  <1>12. Making(obj, ds, ctx, pend, pc)'
    BY <1>2 DEF Making
  <1>13. OwnEnvs(rs') /\ NoCopies(obj', rs', ctx)
    <2>1. \A i \in 1 .. Len(rs) : rs[i].body => rs'[i].env = rs[i].env /\ rs'[i].caller = rs[i].caller
      BY <1>1 DEF RecordsRewritten
    <2>2. OwnEnvs(rs')
      BY <1>4, <2>1 DEF Sound, OwnEnvs
    <2>3. ASSUME NEW d, NoCopyOf(obj, rs, d), d[1] = "stack" => d[2] \in 1 .. Len(rs) /\ rs[d[2]].body
          PROVE  NoCopyOf(obj', rs', d)
      BY <1>6, <2>1, <2>3 DEF NoCopyOf
    <2>4. NoCopyOf(obj', rs', ctx)
      BY <2>3, CtxOnStack DEF Sound, NoCopies
    <2>5. ASSUME NEW i \in 1 .. Len(rs), rs[i].body PROVE NoCopyOf(obj', rs', rs[i].caller)
      <3>1. Owned(rs[i].caller, rs, i - 1) /\ NoCopyOf(obj, rs, rs[i].caller)
        BY <2>5 DEF Sound, StackOwned, NoCopies
      <3>2. rs[i].caller[1] = "stack" => rs[i].caller[2] \in 1 .. Len(rs) /\ rs[rs[i].caller[2]].body
        BY <1>3, <3>1 DEF Owned
      <3> QED
        BY <2>3, <3>1, <3>2
    <2> QED
      BY <1>4, <2>1, <2>2, <2>4, <2>5 DEF NoCopies
  <1> QED
    BY <1>2, <1>5, <1>8, <1>9, <1>10, <1>11, <1>12, <1>13 DEF Sound

LEMMA SetIsSound ==
  ASSUME Sound, NEW w \in Word, Set(w)
  PROVE  Sound'
  <1> DEFINE c == IF Home(w) = None THEN ctx ELSE Home(w)
  <1>1. c \in Chain /\ c # None
    <2>1. Home(w) \in Chain /\ ctx \in Chain /\ ctx # None
      BY HomeIs, Types DEF Sound, Chain
    <2> QED
      BY <2>1
  <1>2. Write(c, w, ds[Len(ds)]) /\ Eval /\ UNCHANGED <<ds, registers>> /\ Len(ds) > Base
    BY DEF Set
  <1> HIDE DEF c
  <1>3. ds[Len(ds)] \in Values /\ Right(obj, ds[Len(ds)])
    BY <1>2, BaseIs, TopValue, Types DEF Sound
  <1> QED
    BY <1>1, <1>2, <1>3, WriteIsSound

-----------------------------------------------------------------------------
(* Calls, entries and returns.                                             *)

(* Ownership is a matter of the records up to n. *)
LEMMA OwnedBelow ==
  ASSUME NEW c, NEW R, NEW Q, NEW n \in Nat, \A i \in 1 .. n : Q[i] = R[i], Owned(c, R, n)
  PROVE  Owned(c, Q, n)
  BY DEF Owned

(* The same of copies of contexts: only the record c names matters. *)
LEMMA NoCopyBelow ==
  ASSUME NEW O, NEW c, NEW R, NEW Q, NoCopyOf(O, R, c), c[1] = "stack" => Q[c[2]] = R[c[2]]
  PROVE  NoCopyOf(O, Q, c)
  BY DEF NoCopyOf

LEMMA TracedBelow ==
  ASSUME NEW O, NEW R, NEW Q, NEW T, NEW S, TracedRight(O, R, T), S \subseteq T,
         \A i \in S : Q[i] = R[i]
  PROVE  TracedRight(O, Q, S)
  BY DEF TracedRight

LEMMA CallIsSound ==
  ASSUME Sound, NEW w \in Word, Call(w)
  PROVE  Sound'
  <1> DEFINE v == Vals(Home(w))[w]
             q == [body |-> FALSE, clo |-> v[2], sp |-> Len(ds)]
             n == Len(rs)
             R == Append(rs, q)
  <1>1. v \in Values /\ Right(obj, v) /\ v[1] = "clo"
    <2>1. Home(w) \in Chain /\ Home(w) # None
      BY HomeIs DEF Call
    <2> QED
      BY <2>1, ChainFacts DEF Call
  <1>2. v[2] \in Addr /\ v = Clo(v[2])
    BY <1>1, ValueIs
  <1>3. /\ rs' = R /\ closure' = v /\ child' = None /\ obj' = obj /\ global' = global /\ ds' = ds
        /\ ctx' = ctx /\ pend' = pend /\ pc' = "eval" /\ n < MaxDepth /\ pc = "eval"
    BY DEF Call, Eval
  <1> HIDE DEF v
  <1>4. /\ rs \in Seq(Record) /\ n \in Nat /\ Len(ds) \in Nat /\ MaxDepth \in Nat
        /\ \A i \in 1 .. n : rs[i] \in Record
    BY Types, ClosuresAssumption DEF Sound
  <1>5. q \in Record /\ ~q.body /\ q.clo = v[2] /\ q.sp = Len(ds)
    BY <1>2, <1>4 DEF Record, Waiting
  <1> HIDE DEF q
  <1>6. /\ R \in Seq(Record) /\ Len(R) = n + 1 /\ R[n + 1] = q
        /\ \A i \in 1 .. n : R[i] = rs[i]
    BY <1>4, <1>5, AppendProperties
  <1> HIDE DEF R, n
  <1>7. \A i \in 1 .. Len(R) : i \in 1 .. n \/ i = n + 1
    BY <1>4, <1>6
  <1>8. TypeOK'
    <2>1. R \in Seq(Waiting \cup Active) /\ Len(R) <= MaxDepth
      BY <1>3, <1>4, <1>6 DEF Record
    <2> QED
      BY <1>2, <1>3, <2>1, NamesAreRefs DEF Sound, TypeOK
  <1>9. NothingDangles'
    <2>1. RegistersRight(obj, ctx, None, v)
      BY <1>1, NamesAreRefs DEF Sound, NothingDangles, RegistersRight, Right
    <2>2. RecordsRight(obj, R)
      <3> SUFFICES ASSUME NEW i \in 1 .. Len(R)
                   PROVE  IF R[i].body THEN Right(obj, R[i].caller) ELSE Right(obj, Clo(R[i].clo))
        BY DEF RecordsRight
      <3>1. CASE i \in 1 .. n
        BY <1>6, <3>1 DEF Sound, NothingDangles, RecordsRight, n
      <3>2. CASE i = n + 1
        BY <1>1, <1>2, <1>5, <1>6, <3>2
      <3> QED
        BY <1>7, <3>1, <3>2
    <2>3. TracedRight(obj, R, Traced(R, ctx, None))
      <3>1. Traced(R, ctx, None) \subseteq Traced(rs, ctx, child)
        <4> SUFFICES ASSUME NEW i \in Traced(R, ctx, None) PROVE i \in Traced(rs, ctx, child)
          OBVIOUS
        <4>1. i \in 1 .. n /\ rs[i].body
          BY <1>5, <1>6, <1>7 DEF Traced
        <4>2. CASE OnStack(i) \in {ctx, None}
          BY <4>1, <4>2, NamesAreRefs DEF Traced, n
        <4>3. CASE \E j \in 1 .. Len(R) : R[j].body /\ R[j].caller = OnStack(i)
          <5>1. PICK j \in 1 .. Len(R) : R[j].body /\ R[j].caller = OnStack(i)
            BY <4>3
          <5>2. j \in 1 .. n /\ rs[j].body /\ rs[j].caller = OnStack(i)
            BY <1>5, <1>6, <1>7, <5>1
          <5> QED
            BY <4>1, <5>2 DEF Traced, n
        <4> QED
          BY <4>2, <4>3 DEF Traced
      <3>2. \A i \in Traced(R, ctx, None) : R[i] = rs[i]
        BY <1>6, <3>1 DEF Traced, n
      <3>3. TracedRight(obj, rs, Traced(rs, ctx, child))
        BY DEF Sound, NothingDangles
      <3> QED
        BY <3>1, <3>2, <3>3, TracedBelow
    <2> QED
      BY <1>3, <2>1, <2>2, <2>3 DEF Sound, NothingDangles
  <1>10. StackOwned(R, ctx, None)
    <2>1. Owned(ctx, R, n + 1)
      <3>1. Owned(ctx, rs, n)
        BY DEF Sound, StackOwned, n
      <3>2. Owned(ctx, R, n)
        BY <1>4, <1>6, <3>1, OwnedBelow
      <3> QED
        BY <1>4, <1>5, <1>6, <3>2 DEF Owned
    <2>2. Owned(None, R, n + 1)
      BY NamesAreRefs DEF Owned
    <2>3. ASSUME NEW i \in 1 .. Len(R), R[i].body
          PROVE  Owned(R[i].caller, R, i - 1) /\ R[i].caller # None /\ R[i].link[1] # "stack"
      <3>1. i \in 1 .. n /\ i - 1 \in Nat /\ R[i] = rs[i] /\ \A j \in 1 .. i - 1 : R[j] = rs[j]
        BY <1>4, <1>5, <1>6, <1>7, <2>3
      <3>2. Owned(rs[i].caller, rs, i - 1) /\ rs[i].caller # None /\ rs[i].link[1] # "stack"
        BY <2>3, <3>1 DEF Sound, StackOwned, n
      <3> QED
        BY <3>1, <3>2, OwnedBelow
    <2> QED
      BY <1>6, <2>1, <2>2, <2>3 DEF StackOwned
  <1>11. Levelled(R, ds)
    <2>1. \A i \in 1 .. n : rs[i].sp \in Nat /\ rs[i].sp <= Len(ds)
      BY <1>4, RecordIs DEF Sound, Levelled, n
    <2>2. \A i, j \in 1 .. n : i <= j => rs[i].sp <= rs[j].sp
      BY DEF Sound, Levelled, n
    <2>3. ASSUME NEW i \in 1 .. Len(R), NEW j \in 1 .. Len(R), i <= j PROVE R[i].sp <= R[j].sp
      <3>1. CASE j = n + 1
        BY <1>4, <1>5, <1>6, <1>7, <2>1, <3>1
      <3>2. CASE j \in 1 .. n
        <4>1. i \in 1 .. n
          BY <1>4, <1>6, <2>3, <3>2
        <4> QED
          BY <1>6, <2>2, <2>3, <3>2, <4>1
      <3> QED
        BY <1>7, <3>1, <3>2
    <2>4. \A i \in 1 .. Len(R) : R[i].sp <= Len(ds)
      BY <1>4, <1>5, <1>6, <1>7, <2>1
    <2> QED
      BY <2>3, <2>4 DEF Sound, Levelled
  <1>12. OwnEnvs(R)
    BY <1>5, <1>6, <1>7 DEF Sound, OwnEnvs, n
  <1>13. NoCopies(obj, R, ctx)
    <2>1. NoCopyOf(obj, R, ctx)
      <3>1. ctx[1] = "stack" => ctx[2] \in 1 .. n
        BY CtxOnStack DEF n
      <3> QED
        BY <1>6, <3>1, NoCopyBelow DEF Sound, NoCopies
    <2>2. ASSUME NEW i \in 1 .. Len(R), R[i].body PROVE NoCopyOf(obj, R, R[i].caller)
      <3>1. i \in 1 .. n /\ R[i] = rs[i]
        BY <1>5, <1>6, <1>7, <2>2
      <3>2. NoCopyOf(obj, rs, rs[i].caller) /\ Owned(rs[i].caller, rs, i - 1)
        BY <2>2, <3>1 DEF Sound, NoCopies, StackOwned, n
      <3>3. rs[i].caller[1] = "stack" => rs[i].caller[2] \in 1 .. n
        BY <1>4, <3>1, <3>2 DEF Owned
      <3> QED
        BY <1>6, <3>1, <3>2, <3>3, NoCopyBelow
    <2> QED
      BY <2>1, <2>2 DEF NoCopies
  <1> QED
    BY <1>3, <1>8, <1>9, <1>10, <1>11, <1>12, <1>13 DEF Sound, Making

(* The arguments, bound to their parameters. *)
LEMMA BoundIs ==
  ASSUME Sound, NEW ps \in Params, NEW s \in Nat, s <= Len(ds), Len(ds) - s = Len(ps)
  PROVE  LET vals == Bound(ps, SubSeq(ds, s + 1, Len(ds)))
         IN  vals \in [Word -> Values] /\ \A w \in Word : Right(obj, vals[w])
  <1> DEFINE args == SubSeq(ds, s + 1, Len(ds))
             m == Len(ps)
  <1>1. /\ ds \in Seq(Values) /\ Len(ds) \in Nat /\ m \in Nat /\ Len(ds) = s + m
        /\ \A i \in 1 .. Len(ds) : ds[i] \in Values /\ Right(obj, ds[i])
    <2>1. ps \in Seq(Word)
      BY ClosuresAssumption
    <2>2. m \in Nat
      BY <2>1, LenProperties
    <2>3. ds \in Seq(Values) /\ Len(ds) \in Nat /\ \A i \in 1 .. Len(ds) : ds[i] \in Values
      BY Types DEF Sound
    <2>4. \A i \in 1 .. Len(ds) : Right(obj, ds[i])
      BY DEF Sound, NothingDangles, OperandsRight
    <2> HIDE DEF m
    <2>5. Len(ds) = s + m
      BY <2>2, <2>3 DEF m
    <2> QED
      BY <2>2, <2>3, <2>4, <2>5
  <1> HIDE DEF m
  <1>2. \A k \in 1 .. m : args[k] = ds[s + k] /\ s + k \in 1 .. Len(ds)
    <2>1. s + 1 \in Int /\ Len(ds) \in Int /\ \A i \in s + 1 .. Len(ds) : ds[i] \in Values
      BY <1>1
    <2>2. \A k \in 1 .. Len(ds) - (s + 1) + 1 : args[k] = ds[(s + 1) + k - 1]
      BY <2>1, SubSeqProperties
    <2> HIDE DEF args
    <2> QED
      BY <1>1, <2>2
  <1> HIDE DEF args
  <1>3. ASSUME NEW w \in Word PROVE Bound(ps, args)[w] \in Values /\ Right(obj, Bound(ps, args)[w])
    <2>1. CASE \E k \in 1 .. m : ps[k] = w
      <3> DEFINE k == CHOOSE k \in 1 .. m : ps[k] = w
      <3>1. k \in 1 .. m
        BY <2>1
      <3>2. Bound(ps, args)[w] = args[k]
        BY <2>1 DEF Bound, m
      <3> HIDE DEF k
      <3> QED
        BY <1>1, <1>2, <3>1, <3>2
    <2>2. CASE ~\E k \in 1 .. m : ps[k] = w
      BY <2>2, ValueIs DEF Bound, m, Right
    <2> QED
      BY <2>1, <2>2
  <1>4. Bound(ps, args) \in [Word -> Values]
    <2>1. Bound(ps, args) = [w \in Word |-> Bound(ps, args)[w]]
      BY DEF Bound
    <2> QED
      BY <1>3, <2>1
  <1> QED
    BY <1>3, <1>4 DEF args

LEMMA EnterIsSound ==
  ASSUME Sound, NEW ps \in Params, Enter(ps)
  PROVE  Sound'
  <1> DEFINE n == Len(rs)
             vals == Bound(ps, SubSeq(ds, Top.sp + 1, Len(ds)))
             D == SubSeq(ds, 1, Top.sp)
             c == OnStack(n)
  <1>1. PICK id \in EnvId \ InUse :
               rs' = [rs EXCEPT ![n] = [body |-> TRUE, link |-> obj[Top.clo].link, vals |-> vals,
                                        caller |-> ctx, sp |-> Top.sp, env |-> id]]
    BY DEF Enter
  <1> DEFINE q == [body |-> TRUE, link |-> obj[Top.clo].link, vals |-> vals,
                   caller |-> ctx, sp |-> Top.sp, env |-> id]
  <1>2. /\ rs # <<>> /\ ~Top.body /\ Len(ds) - Top.sp = Len(ps)
        /\ ds' = D /\ ctx' = c /\ child' = c /\ closure' = Clo(Top.clo)
        /\ obj' = obj /\ global' = global /\ pend' = pend /\ pc' = "eval" /\ pc = "eval"
    BY DEF Enter, Eval
  <1>3. /\ rs \in Seq(Record) /\ n \in Nat /\ n <= MaxDepth /\ MaxDepth \in Nat
        /\ ds \in Seq(Values) /\ Len(ds) \in Nat /\ Len(ds) <= MaxData /\ MaxData \in Nat
        /\ ctx \in CtxRefs /\ ctx # None
    BY Types, ClosuresAssumption DEF Sound, Levelled
  <1>4. n \in 1 .. n /\ Top = rs[n] /\ rs[n] \in Record /\ ~rs[n].body /\ Top.sp \in Nat /\ Top.sp <= Len(ds)
    <2>1. n \in 1 .. n /\ Top = rs[n]
      BY <1>2, <1>3, EmptySeq DEF Top
    <2>2. rs[n] \in Record
      BY <2>1, Types DEF Sound
    <2> QED
      BY <1>2, <2>1, <2>2, RecordIs DEF Sound, Levelled
  <1>5. vals \in [Word -> Values] /\ \A w \in Word : Right(obj, vals[w])
    BY <1>2, <1>4, BoundIs
  <1>6. /\ Top.clo \in Addr /\ Right(obj, Clo(Top.clo)) /\ Top.clo \in DOMAIN obj
        /\ obj[Top.clo].link \in CtxRefs /\ Right(obj, obj[Top.clo].link)
        /\ obj[Top.clo].link[1] # "stack"
    <2>1. Top.clo \in Addr
      BY <1>4, RecordIs
    <2>2. Right(obj, Clo(Top.clo))
      BY <1>4 DEF Sound, NothingDangles, RecordsRight
    <2>3. Top.clo \in DOMAIN obj
      BY <2>2, ValueIs DEF Right
    <2>4. Right(obj, obj[Top.clo].link) /\ obj[Top.clo].link[1] # "stack"
      BY <2>3 DEF Sound, NothingDangles, ObjectsRight, NoStackInHeap
    <2> QED
      BY <2>1, <2>2, <2>3, <2>4, Types DEF Sound
  <1>7. D \in Seq(Values) /\ Len(D) = Top.sp /\ \A i \in 1 .. Top.sp : D[i] = ds[i]
    BY <1>3, <1>4, CutOff
  <1> HIDE DEF vals, D
  <1>8. /\ q \in Record /\ q.body /\ q.link = obj[Top.clo].link /\ q.vals = vals
        /\ q.caller = ctx /\ q.sp = Top.sp /\ q.env = id
    BY <1>3, <1>4, <1>5, <1>6 DEF Record, Active
  <1> HIDE DEF q
  <1>9. /\ rs' \in Seq(Record) /\ Len(rs') = n /\ rs'[n] = q
        /\ \A i \in 1 .. n - 1 : rs'[i] = rs[i] /\ i \in 1 .. n
    <2>1. /\ rs' \in Seq(Record) /\ Len(rs') = Len(rs)
          /\ \A i \in 1 .. n : rs'[i] = IF i = n THEN q ELSE rs[i]
      BY <1>1, <1>3, <1>4, <1>8, ExceptSeq DEF q
    <2> QED
      BY <1>3, <1>4, <2>1
  <1>10. \A i \in 1 .. n : i \in 1 .. n - 1 \/ i = n
    BY <1>3
  <1> HIDE DEF n
  <1>11. c[1] = "stack" /\ c[2] = n /\ c \in CtxRefs /\ c # None
    BY <1>3, <1>4, NamesAreRefs
  <1>12. TypeOK'
    <2>1. rs' \in Seq(Waiting \cup Active) /\ Len(rs') <= MaxDepth
      BY <1>3, <1>9 DEF Record
    <2>2. Len(D) <= MaxData + 1
      BY <1>3, <1>4, <1>7
    <2> HIDE DEF c
    <2> QED
      BY <1>2, <1>6, <1>7, <1>11, <2>1, <2>2 DEF Sound, TypeOK
  <1>13. NothingDangles'
    <2>1. RegistersRight(obj, c, c, Clo(Top.clo))
      BY <1>6, <1>11 DEF RegistersRight, Right
    <2>2. RecordsRight(obj, rs')
      <3> SUFFICES ASSUME NEW i \in 1 .. n
                   PROVE  IF rs'[i].body THEN Right(obj, rs'[i].caller) ELSE Right(obj, Clo(rs'[i].clo))
        BY <1>9 DEF RecordsRight
      <3>1. CASE i \in 1 .. n - 1
        BY <1>9, <3>1 DEF Sound, NothingDangles, RecordsRight, n
      <3>2. CASE i = n
        BY <1>8, <1>9, <3>2 DEF Sound, NothingDangles, RegistersRight
      <3> QED
        BY <1>10, <3>1, <3>2
    <2>3. OperandsRight(obj, D)
      <3> SUFFICES ASSUME NEW i \in 1 .. Len(D) PROVE Right(obj, D[i])
        BY DEF OperandsRight
      <3>1. i \in 1 .. Len(ds) /\ D[i] = ds[i]
        BY <1>3, <1>4, <1>7
      <3> QED
        BY <3>1 DEF Sound, NothingDangles, OperandsRight
    <2>4. TracedRight(obj, rs', Traced(rs', c, c))
      <3>1. ASSUME NEW i \in Traced(rs', c, c), i # n PROVE i \in Traced(rs, ctx, child)
        <4>1. i \in 1 .. n - 1 /\ rs[i].body /\ i \in 1 .. n
          BY <1>9, <1>10, <3>1 DEF Traced
        <4>2. OnStack(i) # c
          BY <3>1, <1>11, NamesAreRefs
        <4>3. PICK j \in 1 .. n : rs'[j].body /\ rs'[j].caller = OnStack(i)
          BY <1>9, <3>1, <4>2 DEF Traced
        <4>4. CASE j = n
          BY <1>8, <1>9, <4>1, <4>3, <4>4 DEF Traced, n
        <4>5. CASE j \in 1 .. n - 1
          BY <1>9, <4>1, <4>3, <4>5 DEF Traced, n
        <4> QED
          BY <1>10, <4>4, <4>5
      <3> SUFFICES ASSUME NEW i \in Traced(rs', c, c)
                   PROVE  Right(obj, rs'[i].link) /\ \A w \in Word : Right(obj, rs'[i].vals[w])
        BY DEF TracedRight
      <3>2. CASE i = n
        BY <1>5, <1>6, <1>8, <1>9, <3>2
      <3>3. CASE i # n
        <4>1. i \in Traced(rs, ctx, child) /\ rs'[i] = rs[i]
          <5>1. i \in 1 .. n
            BY <1>9 DEF Traced
          <5> QED
            BY <1>9, <1>10, <3>1, <3>3, <5>1
        <4> QED
          BY <4>1 DEF Sound, NothingDangles, TracedRight
      <3> QED
        BY <3>2, <3>3
    <2> HIDE DEF c
    <2> QED
      BY <1>2, <2>1, <2>2, <2>3, <2>4 DEF Sound, NothingDangles
  <1>14. Owned(ctx, rs', n - 1) /\ (ctx[1] = "stack" => ctx[2] \in 1 .. n - 1)
    <2>1. Owned(ctx, rs, n) /\ n - 1 \in Nat
      BY <1>3, <1>4 DEF Sound, StackOwned, n
    <2>2. ctx[1] = "stack" => ctx[2] \in 1 .. n - 1
      BY <1>4, <1>10, <2>1 DEF Owned
    <2>3. Owned(ctx, rs, n - 1)
      BY <1>3, <2>1, <2>2 DEF Owned
    <2> QED
      BY <1>9, <2>1, <2>2, <2>3, OwnedBelow
  <1>15. ASSUME NEW i \in 1 .. n - 1, rs[i].body
         PROVE  /\ Owned(rs[i].caller, rs', i - 1) /\ rs[i].caller # None /\ rs[i].link[1] # "stack"
                /\ NoCopyOf(obj, rs, rs[i].caller)
                /\ rs[i].caller[1] = "stack" => rs[i].caller[2] \in 1 .. n - 1
    <2>1. Owned(rs[i].caller, rs, i - 1) /\ rs[i].caller # None /\ rs[i].link[1] # "stack"
      BY <1>9, <1>15 DEF Sound, StackOwned, n
    <2>2. i - 1 \in Nat /\ \A j \in 1 .. i - 1 : rs'[j] = rs[j] /\ j \in 1 .. n - 1
      BY <1>3, <1>9
    <2>3. NoCopyOf(obj, rs, rs[i].caller)
      BY <1>9, <1>15 DEF Sound, NoCopies, n
    <2>4. rs[i].caller[1] = "stack" => rs[i].caller[2] \in 1 .. n - 1
      BY <2>1, <2>2 DEF Owned
    <2> QED
      BY <2>1, <2>2, <2>3, <2>4, OwnedBelow
  <1>16. StackOwned(rs', c, c)
    <2>1. Owned(c, rs', n)
      BY <1>3, <1>4, <1>8, <1>9, <1>11 DEF Owned
    <2>2. ASSUME NEW i \in 1 .. n, rs'[i].body
          PROVE  Owned(rs'[i].caller, rs', i - 1) /\ rs'[i].caller # None /\ rs'[i].link[1] # "stack"
      <3>1. CASE i = n
        BY <1>3, <1>6, <1>8, <1>9, <1>14, <3>1
      <3>2. CASE i \in 1 .. n - 1
        BY <1>9, <1>15, <2>2, <3>2
      <3> QED
        BY <1>10, <3>1, <3>2
    <2> HIDE DEF c
    <2> QED
      BY <1>9, <2>1, <2>2 DEF StackOwned
  <1>17. Levelled(rs', D)
    <2>1. \A i \in 1 .. n : rs'[i].sp = rs[i].sp
      BY <1>4, <1>8, <1>9, <1>10
    <2>2. \A i, j \in 1 .. n : i <= j => rs[i].sp <= rs[j].sp
      BY DEF Sound, Levelled, n
    <2>3. \A i \in 1 .. n : rs[i].sp <= Len(D)
      BY <1>4, <1>7, <2>2
    <2>4. Len(D) <= MaxData
      BY <1>3, <1>4, <1>7
    <2> QED
      BY <1>9, <2>1, <2>2, <2>3, <2>4 DEF Levelled
  <1>18. /\ \A i \in 1 .. n : rs[i].body => rs[i].env # id
         /\ \A a \in DOMAIN obj : obj[a].env # id
    BY <1>1 DEF InUse, n
  <1>19. OwnEnvs(rs')
    <2> SUFFICES ASSUME NEW i \in 1 .. n, NEW j \in 1 .. n, rs'[i].body, rs'[j].body, i # j
                 PROVE  rs'[i].env # rs'[j].env
      BY <1>9 DEF OwnEnvs
    <2>1. CASE i \in 1 .. n - 1 /\ j \in 1 .. n - 1
      BY <1>9, <2>1 DEF Sound, OwnEnvs, n
    <2>2. CASE i = n /\ j \in 1 .. n - 1
      BY <1>8, <1>9, <1>18, <2>2
    <2>3. CASE j = n /\ i \in 1 .. n - 1
      BY <1>8, <1>9, <1>18, <2>3
    <2> QED
      BY <1>10, <2>1, <2>2, <2>3
  <1>20. NoCopies(obj, rs', c)
    <2>1. NoCopyOf(obj, rs', c)
      BY <1>8, <1>9, <1>11, <1>18 DEF NoCopyOf
    <2>2. NoCopyOf(obj, rs', ctx)
      BY <1>9, <1>14, NoCopyBelow DEF Sound, NoCopies
    <2>3. ASSUME NEW i \in 1 .. n, rs'[i].body PROVE NoCopyOf(obj, rs', rs'[i].caller)
      <3>1. CASE i = n
        BY <1>8, <1>9, <2>2, <3>1
      <3>2. CASE i \in 1 .. n - 1
        <4>1. rs[i].body /\ rs'[i] = rs[i]
          BY <1>9, <2>3, <3>2
        <4>2. /\ NoCopyOf(obj, rs, rs[i].caller)
              /\ rs[i].caller[1] = "stack" => rs[i].caller[2] \in 1 .. n - 1
          BY <1>15, <3>2, <4>1
        <4> QED
          BY <1>9, <4>1, <4>2, NoCopyBelow
      <3> QED
        BY <1>10, <3>1, <3>2
    <2> HIDE DEF c
    <2> QED
      BY <1>9, <2>1, <2>3 DEF NoCopies
  <1> HIDE DEF c
  <1> QED
    BY <1>2, <1>12, <1>13, <1>16, <1>17, <1>19, <1>20 DEF Sound, Making

(* Frame i is left with one value, and every invocation above it. *)
LEMMA LeaveIsSound ==
  ASSUME Sound, Eval, NEW i \in 1 .. Len(rs), rs[i].body, Leave(i)
  PROVE  Sound'
  <1> DEFINE m == i - 1
             c == rs[i].caller
             R == SubSeq(rs, 1, i - 1)
             C == SubSeq(ds, 1, rs[i].sp)
             v == ds[Len(ds)]
             D == Append(C, v)
  <1>1. /\ rs' = R /\ ds' = D /\ ctx' = c /\ child' = None /\ closure' = None
        /\ obj' = obj /\ global' = global /\ pend' = pend /\ pc' = "eval" /\ Len(ds) > Base
    BY DEF Leave, Eval
  <1>2. /\ rs \in Seq(Record) /\ Len(rs) \in Nat /\ Len(rs) <= MaxDepth /\ MaxDepth \in Nat
        /\ ds \in Seq(Values) /\ Len(ds) \in Nat /\ Len(ds) <= MaxData /\ MaxData \in Nat
        /\ rs[i] \in Record /\ Base \in Nat /\ rs[i].sp \in Nat /\ rs[i].sp <= Base
    BY Types, BaseIs, ClosuresAssumption DEF Sound, Levelled
  <1>3. m \in 0 .. Len(rs) /\ m \in Nat /\ \A k \in 1 .. m : k \in 1 .. Len(rs) /\ k - 1 \in Nat
    BY <1>2
  <1>4. R \in Seq(Record) /\ Len(R) = m /\ \A k \in 1 .. m : R[k] = rs[k]
    BY <1>2, <1>3, CutOff
  <1>5. v \in Values /\ Right(obj, v)
    BY <1>1, <1>2, TopValue
  <1>6. /\ D \in Seq(Values) /\ Len(D) = rs[i].sp + 1 /\ D[rs[i].sp + 1] = v
        /\ \A k \in 1 .. rs[i].sp : D[k] = ds[k]
    <2>1. rs[i].sp \in 0 .. Len(ds)
      BY <1>1, <1>2
    <2>2. C \in Seq(Values) /\ Len(C) = rs[i].sp /\ \A k \in 1 .. rs[i].sp : C[k] = ds[k]
      BY <1>2, <2>1, CutOff
    <2> HIDE DEF C, v
    <2> QED
      BY <1>5, <2>2, AppendProperties
  <1>7. /\ c \in CtxRefs /\ c # None /\ Right(obj, c) /\ Owned(c, rs, m) /\ NoCopyOf(obj, rs, c)
    BY <1>2, RecordIs DEF Sound, StackOwned, NothingDangles, RecordsRight, NoCopies
  <1>8. Right(obj, None) /\ Owned(None, R, m)
    BY NamesAreRefs DEF Right, Owned
  <1> HIDE DEF R, C, D, v
  <1>9. TypeOK'
    <2>1. R \in Seq(Waiting \cup Active) /\ Len(R) <= MaxDepth
      BY <1>2, <1>3, <1>4 DEF Record
    <2>2. Len(D) <= MaxData + 1
      BY <1>1, <1>2, <1>6
    <2> HIDE DEF c, m
    <2> QED
      BY <1>1, <1>6, <1>7, <2>1, <2>2, NamesAreRefs DEF Sound, TypeOK
  <1>10. \A k \in 1 .. m : OnStack(k) = c => k \in Traced(rs, ctx, child) \/ ~rs[k].body
    BY <1>3 DEF Traced
  <1> HIDE DEF c, m
  <1>11. NothingDangles'
    <2>1. RegistersRight(obj, c, None, None)
      BY <1>7, <1>8 DEF RegistersRight
    <2>2. RecordsRight(obj, R)
      BY <1>3, <1>4 DEF Sound, NothingDangles, RecordsRight
    <2>3. OperandsRight(obj, D)
      <3> SUFFICES ASSUME NEW k \in 1 .. Len(D) PROVE Right(obj, D[k])
        BY DEF OperandsRight
      <3>1. CASE k \in 1 .. rs[i].sp
        <4>1. k \in 1 .. Len(ds)
          BY <1>1, <1>2, <3>1
        <4> QED
          BY <1>6, <3>1, <4>1 DEF Sound, NothingDangles, OperandsRight
      <3>2. CASE k = rs[i].sp + 1
        BY <1>5, <1>6, <3>2
      <3> QED
        BY <1>2, <1>6, <3>1, <3>2
    <2>4. TracedRight(obj, R, Traced(R, c, None))
      <3>1. Traced(R, c, None) \subseteq Traced(rs, ctx, child)
        <4> SUFFICES ASSUME NEW k \in Traced(R, c, None) PROVE k \in Traced(rs, ctx, child)
          OBVIOUS
        <4>1. k \in 1 .. m /\ k \in 1 .. Len(rs) /\ rs[k].body
          BY <1>3, <1>4 DEF Traced
        <4>2. CASE OnStack(k) \in {c, None}
          BY <1>10, <4>1, <4>2, NamesAreRefs
        <4>3. CASE \E j \in 1 .. Len(R) : R[j].body /\ R[j].caller = OnStack(k)
          BY <1>3, <1>4, <4>1, <4>3 DEF Traced
        <4> QED
          BY <4>2, <4>3 DEF Traced
      <3>2. \A k \in Traced(R, c, None) : R[k] = rs[k]
        BY <1>4 DEF Traced
      <3>3. TracedRight(obj, rs, Traced(rs, ctx, child))
        BY DEF Sound, NothingDangles
      <3> QED
        BY <3>1, <3>2, <3>3, TracedBelow
    <2> QED
      BY <1>1, <2>1, <2>2, <2>3, <2>4 DEF Sound, NothingDangles
  <1>12. StackOwned(R, c, None)
    <2>1. Owned(c, R, m)
      BY <1>3, <1>4, <1>7, OwnedBelow
    <2>2. ASSUME NEW k \in 1 .. m, R[k].body
          PROVE  Owned(R[k].caller, R, k - 1) /\ R[k].caller # None /\ R[k].link[1] # "stack"
      <3>1. k \in 1 .. Len(rs) /\ k - 1 \in Nat /\ R[k] = rs[k] /\ \A j \in 1 .. k - 1 : R[j] = rs[j]
        BY <1>3, <1>4
      <3>2. Owned(rs[k].caller, rs, k - 1) /\ rs[k].caller # None /\ rs[k].link[1] # "stack"
        BY <2>2, <3>1 DEF Sound, StackOwned
      <3> QED
        BY <3>1, <3>2, OwnedBelow
    <2> QED
      BY <1>4, <1>8, <2>1, <2>2 DEF StackOwned
  <1>13. Levelled(R, D)
    <2>1. \A k, j \in 1 .. m : k <= j => R[k].sp <= R[j].sp
      BY <1>3, <1>4 DEF Sound, Levelled
    <2>2. \A k \in 1 .. m : R[k].sp <= Len(D)
      <3> SUFFICES ASSUME NEW k \in 1 .. m PROVE R[k].sp <= Len(D)
        OBVIOUS
      <3>1. k \in 1 .. Len(rs) /\ k <= i
        BY <1>2, <1>3 DEF m
      <3>2. rs[k].sp \in Nat /\ rs[k].sp <= rs[i].sp
        BY <3>1, BaseIs DEF Sound, Levelled
      <3> QED
        BY <1>2, <1>4, <1>6, <3>2
    <2>3. Len(D) <= MaxData
      BY <1>1, <1>2, <1>6
    <2> QED
      BY <1>4, <2>1, <2>2, <2>3 DEF Levelled
  <1>14. OwnEnvs(R)
    BY <1>3, <1>4 DEF Sound, OwnEnvs
  <1>15. NoCopies(obj, R, c)
    <2>1. NoCopyOf(obj, R, c)
      <3>1. c[1] = "stack" => c[2] \in 1 .. m
        BY <1>7 DEF Owned
      <3> QED
        BY <1>4, <1>7, <3>1, NoCopyBelow
    <2>2. ASSUME NEW k \in 1 .. m, R[k].body PROVE NoCopyOf(obj, R, R[k].caller)
      <3>1. k \in 1 .. Len(rs) /\ R[k] = rs[k]
        BY <1>3, <1>4
      <3>2. NoCopyOf(obj, rs, rs[k].caller) /\ Owned(rs[k].caller, rs, k - 1)
        BY <2>2, <3>1 DEF Sound, NoCopies, StackOwned
      <3>3. rs[k].caller[1] = "stack" => rs[k].caller[2] \in 1 .. m
        BY <1>3, <3>2 DEF Owned
      <3> QED
        BY <1>4, <3>1, <3>2, <3>3, NoCopyBelow
    <2> QED
      BY <1>4, <2>1, <2>2 DEF NoCopies
  <1> QED
    BY <1>1, <1>9, <1>11, <1>12, <1>13, <1>14, <1>15 DEF Sound, Making

LEMMA ReturnsAreSound ==
  ASSUME Sound, NormalReturn \/ \E i \in 1 .. Len(rs) : Return(i)
  PROVE  Sound'
  <1>1. CASE NormalReturn
    <2>1. Len(rs) \in 1 .. Len(rs) /\ rs[Len(rs)].body
      BY <1>1, Types, EmptySeq DEF Sound, NormalReturn, Top
    <2> QED
      BY <1>1, <2>1, LeaveIsSound DEF NormalReturn
  <1>2. CASE \E i \in 1 .. Len(rs) : Return(i)
    BY <1>2, LeaveIsSound DEF Return
  <1> QED
    BY <1>1, <1>2

-----------------------------------------------------------------------------
(* The collector.                                                          *)

(* Live has the objects the roots name and what the objects in it name.    *)
LEMMA LiveIs ==
  /\ Live \subseteq DOMAIN obj
  /\ \A a \in RootRefs : a \in DOMAIN obj => a \in Live
  /\ \A a \in Live : \A b \in RefsIn(obj[a].link, obj[a].vals) : b \in DOMAIN obj => b \in Live
  <1>1. Live \subseteq DOMAIN obj /\ \A a \in RootRefs : a \in DOMAIN obj => a \in Live
    BY DEF Live
  <1>2. ASSUME NEW a \in Live, NEW b \in RefsIn(obj[a].link, obj[a].vals), b \in DOMAIN obj
        PROVE  b \in Live
    <2> SUFFICES ASSUME NEW S \in SUBSET (RootRefs \cup DOMAIN obj), RootRefs \subseteq S, Closed(S)
                 PROVE  b \in S
      BY <1>2 DEF Live
    <2>1. a \in S /\ a \in DOMAIN obj
      BY DEF Live
    <2> QED
      BY <2>1 DEF Closed
  <1> QED
    BY <1>1, <1>2

(* A value that the collector finds is as right after a collection. *)
LEMMA RightAfterSweep ==
  ASSUME Sweep, NEW v, Right(obj, v), Refs(v) \subseteq RootRefs
  PROVE  Right(obj', v)
  <1>1. v[1] \in {"heap", "clo"} => v[2] \in RootRefs
    BY DEF Refs
  <1>2. v[1] \in {"heap", "clo"} => v[2] \in Live
    BY <1>1, LiveIs DEF Right
  <1>3. obj' = [a \in Live |-> obj[a]]
    BY DEF Sweep
  <1> QED
    BY <1>2, <1>3 DEF Right

LEMMA SweepIsSound ==
  ASSUME Sound, Sweep, UNCHANGED <<global, rs, ds, ctx, child, closure, pend>>,
         pc' \in {"eval", "alloc1", "alloc2", "fill", "halt", "oom", "lost"},
         Making(obj', ds, ctx, pend, pc')
  PROVE  Sound'
  <1>1. /\ DOMAIN obj' = Live /\ Live \subseteq DOMAIN obj
        /\ \A a \in Live : obj'[a] = obj[a] /\ a \in DOMAIN obj
    BY LiveIs DEF Sweep
  <1>2. TypeOK'
    <2>1. obj' \in [DOMAIN obj' -> Object] /\ DOMAIN obj' \subseteq Addr
      <3>1. obj' = [a \in Live |-> obj[a]]
        BY DEF Sweep
      <3>2. \A a \in Live : obj[a] \in Object /\ a \in Addr
        BY <1>1, Types DEF Sound
      <3> QED
        BY <1>1, <3>1, <3>2
    <2> QED
      BY <2>1 DEF Sound, TypeOK
  <1>3. ObjectsRight(obj')
    <2> SUFFICES ASSUME NEW a \in Live
                 PROVE  Right(obj', obj[a].link) /\ \A w \in Word : Right(obj', obj[a].vals[w])
      BY <1>1 DEF ObjectsRight
    <2>1. Right(obj, obj[a].link) /\ \A w \in Word : Right(obj, obj[a].vals[w])
      BY <1>1 DEF Sound, NothingDangles, ObjectsRight
    <2>2. \A b \in RefsIn(obj[a].link, obj[a].vals) : b \in DOMAIN obj => b \in Live
      BY LiveIs
    <2>3. /\ Refs(obj[a].link) \subseteq RefsIn(obj[a].link, obj[a].vals)
          /\ \A w \in Word : Refs(obj[a].vals[w]) \subseteq RefsIn(obj[a].link, obj[a].vals)
      BY DEF RefsIn
    <2>4. ASSUME NEW v, Right(obj, v), Refs(v) \subseteq RefsIn(obj[a].link, obj[a].vals)
          PROVE  Right(obj', v)
      <3>1. v[1] \in {"heap", "clo"} => v[2] \in Live
        BY <2>2, <2>4 DEF Right, Refs
      <3> QED
        BY <1>1, <2>4, <3>1 DEF Right
    <2> QED
      BY <2>1, <2>3, <2>4
  <1>4. RegistersRight(obj', ctx, child, closure)
    <2>1. Refs(ctx) \subseteq RootRefs /\ Refs(child) \subseteq RootRefs /\ Refs(closure) \subseteq RootRefs
      BY DEF RootRefs
    <2> QED
      BY <2>1, RightAfterSweep DEF Sound, NothingDangles, RegistersRight
  <1>5. GlobalRight(obj', global)
    <2>1. \A w \in Word : Refs(global[w]) \subseteq RootRefs
      BY DEF RootRefs
    <2> QED
      BY <2>1, RightAfterSweep DEF Sound, NothingDangles, GlobalRight
  <1>6. OperandsRight(obj', ds)
    <2>1. \A i \in 1 .. Len(ds) : Refs(ds[i]) \subseteq RootRefs
      BY DEF RootRefs
    <2> QED
      BY <2>1, RightAfterSweep DEF Sound, NothingDangles, OperandsRight
  <1>7. RecordsRight(obj', rs)
    <2>1. ASSUME NEW i \in 1 .. Len(rs), rs[i].body PROVE Refs(rs[i].caller) \subseteq RootRefs
      BY <2>1 DEF RootRefs
    <2>2. ASSUME NEW i \in 1 .. Len(rs), ~rs[i].body PROVE Refs(Clo(rs[i].clo)) \subseteq RootRefs
      <3>1. Refs(Clo(rs[i].clo)) = {rs[i].clo}
        BY ValueIs DEF Refs
      <3> QED
        BY <2>2, <3>1 DEF RootRefs
    <2> QED
      BY <2>1, <2>2, RightAfterSweep DEF Sound, NothingDangles, RecordsRight
  <1>8. TracedRight(obj', rs, Traced(rs, ctx, child))
    <2> SUFFICES ASSUME NEW i \in Traced(rs, ctx, child)
                 PROVE  Right(obj', rs[i].link) /\ \A w \in Word : Right(obj', rs[i].vals[w])
      BY DEF TracedRight
    <2>1. i \in TracedDepths
      BY DEF Traced, TracedDepths
    <2>2. RefsIn(rs[i].link, rs[i].vals) \subseteq RootRefs
      BY <2>1 DEF RootRefs
    <2>3. Refs(rs[i].link) \subseteq RootRefs /\ \A w \in Word : Refs(rs[i].vals[w]) \subseteq RootRefs
      BY <2>2 DEF RefsIn
    <2>4. Right(obj, rs[i].link) /\ \A w \in Word : Right(obj, rs[i].vals[w])
      BY DEF Sound, NothingDangles, TracedRight
    <2> QED
      BY <2>3, <2>4, RightAfterSweep
  <1>9. NothingDangles'
    BY <1>3, <1>4, <1>5, <1>6, <1>7, <1>8 DEF NothingDangles
  <1>10. StackOwned(rs, ctx, child)' /\ Levelled(rs, ds)' /\ OwnEnvs(rs)'
    BY DEF Sound
  <1>11. NoStackInHeap(obj') /\ NoCopies(obj', rs, ctx)
    BY <1>1 DEF Sound, NoStackInHeap, NoCopies, NoCopyOf
  <1> QED
    BY <1>2, <1>9, <1>10, <1>11 DEF Sound

LEMMA CollectionsAreSound ==
  ASSUME Sound, Collect \/ CollectForClosure \/ CollectForPromotion
  PROVE  Sound'
  <1>1. CASE Collect
    <2>1. Sweep /\ UNCHANGED <<global, rs, ds, ctx, child, closure, pend>> /\ pc' = "eval"
      BY <1>1 DEF Collect, registers, Eval
    <2> QED
      BY <2>1, SweepIsSound DEF Making
  <1>2. CASE CollectForClosure
    <2>1. UNCHANGED <<global, rs, ds, ctx, child, closure, pend>> /\ pc = "alloc1"
      BY <1>2 DEF CollectForClosure
    <2>2. CASE pc' = "halt" /\ UNCHANGED obj
      <3>1. TypeOK'
        BY <2>1, <2>2 DEF Sound, TypeOK
      <3>2. Making(obj, ds, ctx, pend, pc)'
        BY <2>2 DEF Making
      <3> QED
        BY <2>1, <2>2, <3>1, <3>2 DEF Sound, NothingDangles
    <2>3. CASE Sweep /\ UNCHANGED pc
      <3>1. Making(obj', ds, ctx, pend, pc')
        BY <2>1, <2>3 DEF Sound, Making
      <3> QED
        BY <2>1, <2>3, <3>1, SweepIsSound
    <2> QED
      BY <1>2, <2>2, <2>3 DEF CollectForClosure
  <1>3. CASE CollectForPromotion
    <2>1. /\ Sweep /\ UNCHANGED <<global, rs, ds, ctx, child, closure, pend>>
          /\ pc = "alloc2" /\ pc' = IF pend[2] \in Live THEN pc ELSE "lost"
      BY <1>3 DEF CollectForPromotion
    <2>2. Making(obj', ds, ctx, pend, pc')
      <3>1. CASE pend[2] \in Live
        <4>1. pend[2] \in DOMAIN obj' /\ obj'[pend[2]] = obj[pend[2]]
          BY <2>1, <3>1 DEF Sweep
        <4> QED
          BY <2>1, <3>1, <4>1 DEF Sound, Making
      <3>2. CASE pend[2] \notin Live
        BY <2>1, <3>2 DEF Making
      <3> QED
        BY <3>1, <3>2
    <2> QED
      BY <2>1, <2>2, SweepIsSound
  <1> QED
    BY <1>1, <1>2, <1>3

-----------------------------------------------------------------------------
(* r_mkclosure.                                                            *)

(* The heap with o at a, which was not there or had the kind of o. *)
LEMMA HeapWith ==
  ASSUME Sound, NEW a \in Addr, NEW o \in Object,
         a \in DOMAIN obj => obj[a].kind = o.kind /\ o.link # None,
         Right(obj, o.link), o.link[1] # "stack", \A w \in Word : Right(obj, o.vals[w]),
         DOMAIN obj' = DOMAIN obj \cup {a}, obj' \in [DOMAIN obj' -> Object],
         obj'[a] = o, \A b \in DOMAIN obj : b # a => obj'[b] = obj[b]
  PROVE  /\ DOMAIN obj' \subseteq Addr
         /\ \A v : Right(obj, v) => Right(obj', v)
         /\ ObjectsRight(obj') /\ NoStackInHeap(obj')
         /\ RegistersRight(obj', ctx, child, closure) /\ GlobalRight(obj', global)
         /\ OperandsRight(obj', ds) /\ RecordsRight(obj', rs)
         /\ TracedRight(obj', rs, Traced(rs, ctx, child))
         /\ \A c : NoCopyOf(obj, rs, c) /\ (c[1] = "stack" /\ o.kind = "ctx" => o.env # rs[c[2]].env)
                     => NoCopyOf(obj', rs, c)
  <1>1. /\ DOMAIN obj \subseteq DOMAIN obj'
        /\ \A b \in DOMAIN obj : obj'[b].kind = obj[b].kind /\ (obj[b].link # None => obj'[b].link # None)
    OBVIOUS
  <1>2. \A v : Right(obj, v) => Right(obj', v)
    BY <1>1, RightKept
  <1>3. DOMAIN obj' \subseteq Addr
    BY DEF Sound, TypeOK
  <1>4. \A b \in DOMAIN obj' : b = a \/ (b \in DOMAIN obj /\ obj'[b] = obj[b])
    OBVIOUS
  <1>5. ObjectsRight(obj')
    <2> SUFFICES ASSUME NEW b \in DOMAIN obj'
                 PROVE  Right(obj', obj'[b].link) /\ \A w \in Word : Right(obj', obj'[b].vals[w])
      BY DEF ObjectsRight
    <2> HIDE DEF Right
    <2>1. CASE b = a
      BY <1>2, <2>1
    <2>2. CASE b \in DOMAIN obj /\ obj'[b] = obj[b]
      <3>1. Right(obj, obj[b].link) /\ \A w \in Word : Right(obj, obj[b].vals[w])
        BY <2>2 DEF Sound, NothingDangles, ObjectsRight
      <3> QED
        BY <1>2, <2>2, <3>1
    <2> QED
      BY <1>4, <2>1, <2>2
  <1>6. NoStackInHeap(obj')
    BY <1>4 DEF Sound, NoStackInHeap
  <1>7. RegistersRight(obj', ctx, child, closure) /\ GlobalRight(obj', global)
    BY <1>2 DEF Sound, NothingDangles, RegistersRight, GlobalRight
  <1>8. OperandsRight(obj', ds) /\ RecordsRight(obj', rs)
    BY <1>2 DEF Sound, NothingDangles, OperandsRight, RecordsRight
  <1>9. TracedRight(obj', rs, Traced(rs, ctx, child))
    BY <1>2 DEF Sound, NothingDangles, TracedRight
  <1>10. ASSUME NEW c, NoCopyOf(obj, rs, c), c[1] = "stack" /\ o.kind = "ctx" => o.env # rs[c[2]].env
         PROVE  NoCopyOf(obj', rs, c)
    BY <1>4, <1>10 DEF NoCopyOf
  <1> QED
    BY <1>2, <1>3, <1>5, <1>6, <1>7, <1>8, <1>9, <1>10

(* A function grown by a payload. *)
LEMMA Grown ==
  ASSUME NEW a \in Addr, NEW o \in Object, TypeOK, a \notin DOMAIN obj,
         obj' = [b \in DOMAIN obj \cup {a} |-> IF b = a THEN o ELSE obj[b]]
  PROVE  /\ DOMAIN obj' = DOMAIN obj \cup {a} /\ obj' \in [DOMAIN obj' -> Object]
         /\ obj'[a] = o /\ \A b \in DOMAIN obj : b # a => obj'[b] = obj[b]
  <1>1. \A b \in DOMAIN obj : obj[b] \in Object
    BY Types
  <1> QED
    BY <1>1

LEMMA RawIs ==
  /\ Raw \in Object /\ Raw.kind = "closure" /\ Raw.link = None
  /\ \A w \in Word : Raw.vals[w] = Unbound
  /\ \A c \in CtxRefs : LET q == [Raw EXCEPT !.link = c]
                        IN  /\ q \in Object /\ q.kind = "closure" /\ q.link = c
                            /\ \A w \in Word : q.vals[w] = Unbound
  BY NamesAreRefs, ValueIs, ClosuresAssumption DEF Raw, Object, Empty

LEMMA AllocClosureIsSound ==
  ASSUME Sound, NEW a \in Addr, AllocClosure(a)
  PROVE  Sound'
  <1>1. /\ a \notin DOMAIN obj /\ pc = "alloc1"
        /\ obj' = [b \in DOMAIN obj \cup {a} |-> IF b = a THEN Raw ELSE obj[b]]
        /\ pend' = Clo(a) /\ pc' = IF ctx[1] = "stack" THEN "alloc2" ELSE "fill"
        /\ global' = global /\ rs' = rs /\ ds' = ds /\ ctx' = ctx /\ child' = child /\ closure' = closure
    BY DEF AllocClosure
  <1>2. /\ DOMAIN obj' = DOMAIN obj \cup {a} /\ obj' \in [DOMAIN obj' -> Object]
        /\ obj'[a] = Raw /\ \A b \in DOMAIN obj : b # a => obj'[b] = obj[b]
    BY <1>1, Grown, RawIs DEF Sound
  <1>3. Right(obj, None) /\ Right(obj, Unbound) /\ None[1] # "stack"
    BY NamesAreRefs, ValueIs DEF Right
  <1>4. /\ DOMAIN obj' \subseteq Addr
        /\ ObjectsRight(obj') /\ NoStackInHeap(obj')
        /\ RegistersRight(obj', ctx, child, closure) /\ GlobalRight(obj', global)
        /\ OperandsRight(obj', ds) /\ RecordsRight(obj', rs)
        /\ TracedRight(obj', rs, Traced(rs, ctx, child))
        /\ \A c : NoCopyOf(obj, rs, c) => NoCopyOf(obj', rs, c)
    <2> HIDE DEF Right
    <2>1. /\ Right(obj, Raw.link) /\ Raw.link[1] # "stack" /\ \A w \in Word : Right(obj, Raw.vals[w])
          /\ Raw.kind # "ctx" /\ Raw \in Object
      BY <1>3, RawIs
    <2> HIDE DEF Raw
    <2> QED
      BY <1>1, <1>2, <2>1, HeapWith
  <1>5. TypeOK'
    BY <1>1, <1>2, <1>4 DEF Sound, TypeOK
  <1>6. Making(obj', ds, ctx, Clo(a), pc')
    BY <1>1, <1>2, RawIs, ValueIs DEF Sound, Making
  <1>7. NoCopies(obj', rs, ctx)
    BY <1>4 DEF Sound, NoCopies
  <1> QED
    BY <1>1, <1>4, <1>5, <1>6, <1>7 DEF Sound, NothingDangles

LEMMA PromoteIsSound ==
  ASSUME Sound, NEW b \in Addr, Promote(b)
  PROVE  Sound'
  <1> DEFINE i == ctx[2]
             o == [kind |-> "ctx", link |-> Parent(ctx), vals |-> Vals(ctx), env |-> rs[ctx[2]].env]
             c == Managed(b)
  <1>1. /\ b \notin DOMAIN obj /\ pc = "alloc2" /\ pc' = "fill" /\ pend' = pend
        /\ obj' = [a \in DOMAIN obj \cup {b} |-> IF a = b THEN o ELSE obj[a]]
        /\ global' = global /\ rs' = rs /\ ds' = ds /\ ctx' = c /\ child' = child /\ closure' = closure
    BY DEF Promote
  <1>2. /\ ctx[1] = "stack" /\ i \in 1 .. Len(rs) /\ rs[i].body /\ rs[i] \in Record
        /\ \A j \in i + 1 .. Len(rs) : ~rs[j].body
    BY <1>1, CtxOnStack DEF Sound, Making
  <1>3. /\ Vals(ctx) \in [Word -> Values] /\ \A w \in Word : Right(obj, Vals(ctx)[w])
        /\ Parent(ctx) \in CtxRefs /\ Right(obj, Parent(ctx)) /\ Parent(ctx)[1] # "stack"
    BY ChainFacts, Types DEF Sound, Chain
  <1>4. rs[i].env \in EnvId
    BY <1>2, RecordIs
  <1>5. /\ o \in Object /\ o.kind = "ctx" /\ o.link = Parent(ctx) /\ o.vals = Vals(ctx)
        /\ o.env = rs[i].env
    BY <1>3, <1>4 DEF Object
  <1> HIDE DEF o
  <1>6. /\ DOMAIN obj' = DOMAIN obj \cup {b} /\ obj' \in [DOMAIN obj' -> Object]
        /\ obj'[b] = o /\ \A a \in DOMAIN obj : a # b => obj'[a] = obj[a]
    BY <1>1, <1>5, Grown DEF Sound
  <1>7. /\ DOMAIN obj' \subseteq Addr
        /\ \A v : Right(obj, v) => Right(obj', v)
        /\ ObjectsRight(obj') /\ NoStackInHeap(obj')
        /\ RegistersRight(obj', ctx, child, closure) /\ GlobalRight(obj', global)
        /\ OperandsRight(obj', ds) /\ RecordsRight(obj', rs)
        /\ TracedRight(obj', rs, Traced(rs, ctx, child))
        /\ \A d : NoCopyOf(obj, rs, d) /\ (d[1] = "stack" => o.env # rs[d[2]].env)
                    => NoCopyOf(obj', rs, d)
    <2>1. /\ Right(obj, o.link) /\ o.link[1] # "stack" /\ \A w \in Word : Right(obj, o.vals[w])
      BY <1>3, <1>5
    <2> QED
      BY <1>1, <1>5, <1>6, <2>1, HeapWith
  <1>8. c \in CtxRefs /\ c # None /\ c[1] = "heap" /\ c[2] = b
    BY NamesAreRefs
  <1> HIDE DEF c
  <1>9. TypeOK'
    BY <1>1, <1>6, <1>7, <1>8 DEF Sound, TypeOK
  <1>10. Right(obj', c)
    BY <1>5, <1>6, <1>8 DEF Right
  <1>11. NothingDangles'
    <2>1. RegistersRight(obj', c, child, closure)
      BY <1>7, <1>10 DEF RegistersRight
    <2>2. Traced(rs, c, child) \subseteq Traced(rs, ctx, child)
      BY <1>8, NamesAreRefs DEF Traced
    <2>3. TracedRight(obj', rs, Traced(rs, c, child))
      BY <1>7, <2>2 DEF TracedRight
    <2> QED
      BY <1>1, <1>7, <2>1, <2>3 DEF NothingDangles
  <1>12. StackOwned(rs, c, child)
    BY <1>8 DEF Sound, StackOwned, Owned
  <1>13. Making(obj', ds, c, pend, "fill")
    <2>1. /\ Len(ds) < MaxData /\ pend[1] = "clo" /\ pend[2] \in DOMAIN obj
          /\ obj[pend[2]].kind = "closure" /\ obj[pend[2]].link = None
      BY <1>1 DEF Sound, Making
    <2> QED
      BY <1>1, <1>6, <1>8, <2>1 DEF Making
  <1>14. NoCopies(obj', rs, c)
    <2>1. NoCopyOf(obj', rs, c)
      BY <1>8 DEF NoCopyOf
    <2>2. ASSUME NEW j \in 1 .. Len(rs), rs[j].body PROVE NoCopyOf(obj', rs, rs[j].caller)
      <3>1. NoCopyOf(obj, rs, rs[j].caller) /\ Owned(rs[j].caller, rs, j - 1)
        BY <2>2 DEF Sound, NoCopies, StackOwned
      <3>2. ASSUME rs[j].caller[1] = "stack" PROVE o.env # rs[rs[j].caller[2]].env
        <4> DEFINE k == rs[j].caller[2]
        <4>1. k \in 1 .. j - 1 /\ rs[k].body
          BY <3>1, <3>2 DEF Owned
        <4>2. k # i /\ k \in 1 .. Len(rs) /\ Len(rs) \in Nat
          <5>1. Len(rs) \in Nat
            BY Types DEF Sound
          <5>2. j \notin i + 1 .. Len(rs)
            BY <1>2, <2>2
          <5> HIDE DEF k, i
          <5> QED
            BY <1>2, <4>1, <5>1, <5>2
        <4> HIDE DEF k
        <4> QED
          BY <1>2, <1>5, <4>1, <4>2 DEF Sound, OwnEnvs, k
      <3> QED
        BY <1>7, <3>1, <3>2
    <2> QED
      BY <2>1, <2>2 DEF NoCopies
  <1> QED
    BY <1>1, <1>7, <1>9, <1>11, <1>12, <1>13, <1>14 DEF Sound

LEMMA FillIsSound ==
  ASSUME Sound, Fill
  PROVE  Sound'
  <1> DEFINE a == pend[2]
             o == [Raw EXCEPT !.link = ctx]
             D == Append(ds, pend)
  <1>1. /\ pc = "fill" /\ obj' = [obj EXCEPT ![a] = o] /\ ds' = D /\ pend' = None /\ pc' = "eval"
        /\ global' = global /\ rs' = rs /\ ctx' = ctx /\ child' = child /\ closure' = closure
    BY DEF Fill
  <1>2. /\ pend[1] = "clo" /\ a \in DOMAIN obj /\ obj[a].kind = "closure"
        /\ ctx[1] # "stack" /\ Len(ds) < MaxData
    BY <1>1 DEF Sound, Making
  <1>3. /\ o \in Object /\ o.kind = "closure" /\ o.link = ctx /\ \A w \in Word : o.vals[w] = Unbound
    BY RawIs, Types DEF Sound
  <1> HIDE DEF o
  <1>4. /\ DOMAIN obj' = DOMAIN obj \cup {a} /\ obj' \in [DOMAIN obj' -> Object]
        /\ obj'[a] = o /\ \A b \in DOMAIN obj : b # a => obj'[b] = obj[b]
    <2>1. obj \in [DOMAIN obj -> Object]
      BY DEF Sound, TypeOK
    <2> HIDE DEF a
    <2> QED
      BY <1>1, <1>2, <1>3, <2>1
  <1>5. a \in Addr /\ pend \in Values
    <2>1. a \in Addr
      BY <1>2, Types DEF Sound
    <2>2. pend = Clo(a)
      BY <1>2, NamesAreRefs, ValueIs DEF Sound, TypeOK
    <2> QED
      BY <2>1, <2>2, ValueIs
  <1>6. Right(obj, ctx) /\ Right(obj, Unbound)
    BY ValueIs DEF Sound, NothingDangles, RegistersRight, Right
  <1>7. Right(obj', pend) /\ ctx # None
    BY <1>2, <1>3, <1>4, Types DEF Right, Sound
  <1> HIDE DEF a, D
  <1>8. /\ DOMAIN obj' \subseteq Addr
        /\ \A v : Right(obj, v) => Right(obj', v)
        /\ ObjectsRight(obj') /\ NoStackInHeap(obj')
        /\ RegistersRight(obj', ctx, child, closure) /\ GlobalRight(obj', global)
        /\ OperandsRight(obj', ds) /\ RecordsRight(obj', rs)
        /\ TracedRight(obj', rs, Traced(rs, ctx, child))
        /\ \A d : NoCopyOf(obj, rs, d) => NoCopyOf(obj', rs, d)
    <2>1. Right(obj, o.link) /\ o.link[1] # "stack" /\ (\A w \in Word : Right(obj, o.vals[w])) /\ o.kind # "ctx" /\ o.link # None
      BY <1>2, <1>3, <1>6, <1>7
    <2> QED
      BY <1>2, <1>3, <1>4, <1>5, <2>1, HeapWith
  <1>9. /\ ds \in Seq(Values) /\ Len(ds) \in Nat /\ MaxData \in Nat
    BY Types, ClosuresAssumption DEF Sound
  <1>10. /\ D \in Seq(Values) /\ Len(D) = Len(ds) + 1 /\ D[Len(ds) + 1] = pend
         /\ \A i \in 1 .. Len(ds) : D[i] = ds[i]
    BY <1>5, <1>9, AppendProperties DEF D
  <1>11. OperandsRight(obj', D)
    <2> SUFFICES ASSUME NEW i \in 1 .. Len(D) PROVE Right(obj', D[i])
      BY DEF OperandsRight
    <2>1. CASE i \in 1 .. Len(ds)
      BY <1>8, <1>10, <2>1 DEF OperandsRight
    <2>2. CASE i = Len(ds) + 1
      BY <1>7, <1>10, <2>2
    <2> QED
      BY <1>9, <1>10, <2>1, <2>2
  <1>12. Levelled(rs, D)
    <2>1. \A i \in 1 .. Len(rs) : rs[i].sp \in Nat /\ rs[i].sp <= Len(ds)
      BY Types, RecordIs DEF Sound, Levelled
    <2> QED
      BY <1>2, <1>9, <1>10, <2>1 DEF Sound, Levelled
  <1>13. TypeOK'
    BY <1>1, <1>2, <1>4, <1>8, <1>9, <1>10 DEF Sound, TypeOK
  <1>14. NoCopies(obj', rs, ctx)
    BY <1>8 DEF Sound, NoCopies
  <1> QED
    BY <1>1, <1>8, <1>11, <1>12, <1>13, <1>14 DEF Sound, NothingDangles, Making

-----------------------------------------------------------------------------
(* The theorems.                                                           *)

LEMMA InitIsSound ==
  ASSUME Init
  PROVE  Sound
  <1>1. /\ obj = << >> /\ global = Empty /\ rs = <<>> /\ ds = <<>>
        /\ ctx = Global /\ child = None /\ closure = None /\ pend = None /\ pc = "eval"
        /\ Len(rs) = 0 /\ Len(ds) = 0 /\ DOMAIN obj = {}
    BY DEF Init
  <1>2. TypeOK
    <2>1. global \in [Word -> Values]
      BY <1>1, ValueIs DEF Empty
    <2>2. rs \in Seq(Waiting \cup Active) /\ ds \in Seq(Values) /\ Len(rs) <= MaxDepth /\ Len(ds) <= MaxData + 1
      BY <1>1, ClosuresAssumption
    <2>3. DOMAIN obj \subseteq Addr /\ obj \in [DOMAIN obj -> Object]
      BY <1>1
    <2> QED
      BY <1>1, <2>1, <2>2, <2>3, NamesAreRefs DEF TypeOK
  <1>3. NothingDangles
    <2>1. RegistersRight(obj, ctx, child, closure)
      BY <1>1, NamesAreRefs DEF RegistersRight, Right
    <2>2. GlobalRight(obj, global)
      BY <1>1, ValueIs DEF GlobalRight, Right, Empty
    <2>3. ObjectsRight(obj) /\ OperandsRight(obj, ds) /\ RecordsRight(obj, rs)
      BY <1>1 DEF ObjectsRight, OperandsRight, RecordsRight
    <2>4. TracedRight(obj, rs, Traced(rs, ctx, child))
      BY <1>1 DEF TracedRight, Traced
    <2> QED
      BY <2>1, <2>2, <2>3, <2>4 DEF NothingDangles
  <1>4. StackOwned(rs, ctx, child) /\ NoStackInHeap(obj)
    BY <1>1, NamesAreRefs DEF StackOwned, Owned, NoStackInHeap
  <1>5. Levelled(rs, ds) /\ Making(obj, ds, ctx, pend, pc) /\ OwnEnvs(rs)
    BY <1>1, ClosuresAssumption DEF Levelled, Making, OwnEnvs
  <1>6. NoCopies(obj, rs, ctx)
    BY <1>1 DEF NoCopies, NoCopyOf
  <1> QED
    BY <1>2, <1>3, <1>4, <1>5, <1>6 DEF Sound

LEMMA StepKeepsSound ==
  ASSUME Sound, [Next]_vars
  PROVE  Sound'
  <1>1. CASE UNCHANGED vars
    BY <1>1 DEF vars, Sound, TypeOK, NothingDangles
  <1>2. CASE PushScalar \/ Drop \/ \E w \in Word : Fetch(w)
    BY <1>2, PushScalarIsSound, DropIsSound, FetchIsSound
  <1>3. CASE \E w \in Word : Set(w) \/ Call(w)
    BY <1>3, SetIsSound, CallIsSound
  <1>4. CASE \E ps \in Params : Enter(ps)
    BY <1>4, EnterIsSound
  <1>5. CASE NormalReturn \/ \E i \in 1 .. Len(rs) : Return(i)
    BY <1>5, ReturnsAreSound
  <1>6. CASE Collect \/ CollectForClosure \/ CollectForPromotion
    BY <1>6, CollectionsAreSound
  <1>7. CASE BeginClosure \/ Fill \/ OutOfMemory
    BY <1>7, BeginClosureIsSound, FillIsSound, OutOfMemoryIsSound
  <1>8. CASE \E a \in Addr : AllocClosure(a) \/ Promote(a)
    BY <1>8, AllocClosureIsSound, PromoteIsSound
  <1> QED
    BY <1>1, <1>2, <1>3, <1>4, <1>5, <1>6, <1>7, <1>8 DEF Next

(* Sound is inductive: it holds however calls, returns, closures and       *)
(* collections follow one another.                                         *)
THEOREM Invariance == Spec => []Sound
  <1>1. Sound /\ [Next]_vars => Sound'
    BY StepKeepsSound
  <1>2. Init => Sound
    BY InitIsSound
  <1> QED
    BY <1>1, <1>2, PTL DEF Spec

(* No collection frees what the evaluator can still follow, and no         *)
(* reference to a popped context outlives its invocation.                  *)
THEOREM ReferencesStaySound == Spec => []ReferencesAreSound
  <1>1. Sound => ReferencesAreSound
    BY SoundMeans
  <1> QED
    BY <1>1, Invariance, PTL

(* Once a context has been promoted no register and no frame names the     *)
(* copy that was left on the return stack.                                 *)
THEOREM CopiesAreNotUsed == Spec => []NoStaleCopy
  <1>1. Sound => NoStaleCopy
    BY SoundMeans
  <1> QED
    BY <1>1, Invariance, PTL

-----------------------------------------------------------------------------
(* Identities of environments.  This second invariant says that every body *)
(* entered has its context in one place: what stands for the innermost     *)
(* body below n is its context on the return stack, or the heap's only     *)
(* copy of it.                                                             *)

CopyOf(c, O, e) == c[1] = "heap" /\ c[2] \in DOMAIN O /\ O[c[2]].kind = "ctx" /\ O[c[2]].env = e

Stands(c, O, R, n) ==
    \/ c = Global /\ \A j \in 1 .. n : ~R[j].body
    \/ \E k \in 1 .. n : /\ R[k].body /\ \A j \in k + 1 .. n : ~R[j].body
                         /\ c = OnStack(k) \/ CopyOf(c, O, R[k].env)

Represented(O, R, c) ==
    Stands(c, O, R, Len(R)) /\ \A i \in 1 .. Len(R) : R[i].body => Stands(R[i].caller, O, R, i - 1)

OwnCopies(O, R) ==
    /\ \A a, b \in DOMAIN O : O[a].kind = "ctx" /\ O[b].kind = "ctx" /\ a # b => O[a].env # O[b].env
    /\ \A a \in DOMAIN O : O[a].kind = "ctx" => O[a].env # 0
    /\ \A i \in 1 .. Len(R) : R[i].body => R[i].env # 0

(* Contexts in the heap lead to older ones. *)
Older(O, rank) ==
    \A a \in DOMAIN O : O[a].kind = "ctx" /\ O[a].link[1] = "heap" => rank[O[a].link[2]] < rank[a]

Ranked(O) == \E rank \in [Addr -> Nat] : Older(O, rank)

Identified == Represented(obj, rs, ctx) /\ OwnCopies(obj, rs) /\ Ranked(obj)

(* What c stands for is kept while its object is, and records keep what    *)
(* they are.                                                               *)
LEMMA StandsKept ==
  ASSUME NEW c, NEW O, NEW P, NEW R, NEW Q, NEW n \in Nat,
         \A j \in 1 .. n : Q[j].body = R[j].body /\ (R[j].body => Q[j].env = R[j].env),
         \A e : CopyOf(c, O, e) => CopyOf(c, P, e),
         Stands(c, O, R, n)
  PROVE  Stands(c, P, Q, n)
  <1>1. CASE c = Global /\ \A j \in 1 .. n : ~R[j].body
    BY <1>1 DEF Stands
  <1>2. CASE \E k \in 1 .. n : /\ R[k].body /\ \A j \in k + 1 .. n : ~R[j].body
                               /\ c = OnStack(k) \/ CopyOf(c, O, R[k].env)
    <2>1. PICK k \in 1 .. n : /\ R[k].body /\ \A j \in k + 1 .. n : ~R[j].body
                              /\ c = OnStack(k) \/ CopyOf(c, O, R[k].env)
      BY <1>2
    <2>2. /\ Q[k].body /\ \A j \in k + 1 .. n : ~Q[j].body
          /\ c = OnStack(k) \/ CopyOf(c, P, Q[k].env)
      BY <2>1
    <2> QED
      BY <2>2 DEF Stands
  <1> QED
    BY <1>1, <1>2 DEF Stands

LEMMA RepresentedKept ==
  ASSUME NEW c, NEW O, NEW P, NEW R, NEW Q, Len(R) \in Nat, Len(Q) = Len(R),
         \A j \in 1 .. Len(R) : /\ Q[j].body = R[j].body
                                /\ R[j].body => Q[j].env = R[j].env /\ Q[j].caller = R[j].caller,
         \A e : CopyOf(c, O, e) => CopyOf(c, P, e),
         \A j \in 1 .. Len(R) : R[j].body
             => \A e : CopyOf(R[j].caller, O, e) => CopyOf(R[j].caller, P, e),
         Represented(O, R, c)
  PROVE  Represented(P, Q, c)
  <1>1. Stands(c, P, Q, Len(R))
    <2>1. Stands(c, O, R, Len(R))
      BY DEF Represented
    <2> QED
      BY <2>1, StandsKept
  <1>2. ASSUME NEW i \in 1 .. Len(R), R[i].body PROVE Stands(R[i].caller, P, Q, i - 1)
    <2>1. Stands(R[i].caller, O, R, i - 1)
      BY <1>2 DEF Represented
    <2>2. i - 1 \in Nat /\ \A j \in 1 .. i - 1 : j \in 1 .. Len(R)
      OBVIOUS
    <2>3. \A j \in 1 .. i - 1 : Q[j].body = R[j].body /\ (R[j].body => Q[j].env = R[j].env)
      BY <2>2
    <2>4. \A e : CopyOf(R[i].caller, O, e) => CopyOf(R[i].caller, P, e)
      BY <1>2
    <2> QED
      BY <2>1, <2>2, <2>3, <2>4, StandsKept
  <1> QED
    BY <1>1, <1>2 DEF Represented

(* Where no context comes or goes. *)
LEMMA SameContexts ==
  ASSUME Sound, Identified, rs' = rs, ctx' = ctx,
         \A a \in DOMAIN obj : obj[a].kind = "ctx"
            => /\ a \in DOMAIN obj' /\ obj'[a].kind = "ctx"
               /\ obj'[a].env = obj[a].env /\ obj'[a].link = obj[a].link,
         \A a \in DOMAIN obj' : obj'[a].kind = "ctx" => a \in DOMAIN obj /\ obj[a].kind = "ctx"
  PROVE  Identified'
  <1>1. Len(rs) \in Nat
    BY Types DEF Sound
  <1>2. \A c, e : CopyOf(c, obj, e) => CopyOf(c, obj', e)
    BY DEF CopyOf
  <1>3. Represented(obj', rs, ctx)
    BY <1>1, <1>2, RepresentedKept DEF Identified
  <1>4. OwnCopies(obj', rs)
    BY DEF Identified, OwnCopies
  <1>5. Ranked(obj')
    BY DEF Identified, Ranked, Older
  <1> QED
    BY <1>3, <1>4, <1>5 DEF Identified

LEMMA WriteKeepsIdentities ==
  ASSUME Sound, Identified, NEW w \in Word, Set(w)
  PROVE  Identified'
  <1> DEFINE c == IF Home(w) = None THEN ctx ELSE Home(w)
  <1>1. c \in Chain /\ c # None
    <2>1. Home(w) \in Chain /\ ctx \in Chain /\ ctx # None
      BY HomeIs, Types DEF Sound, Chain
    <2> QED
      BY <2>1
  <1>2. Write(c, w, ds[Len(ds)]) /\ ctx' = ctx /\ Len(ds) > Base
    BY DEF Set, registers
  <1> HIDE DEF c
  <1>3. ds[Len(ds)] \in Values
    BY <1>2, BaseIs, TopValue, Types DEF Sound
  <1>4. ObjectsRewritten(obj, obj', ds[Len(ds)]) /\ RecordsRewritten(rs, rs', ds[Len(ds)])
    BY <1>1, <1>2, <1>3, WriteFacts
  <1>5. /\ DOMAIN obj' = DOMAIN obj
        /\ \A a \in DOMAIN obj : obj'[a].kind = obj[a].kind /\ obj'[a].env = obj[a].env /\ obj'[a].link = obj[a].link
    BY <1>4 DEF ObjectsRewritten
  <1>6. /\ Len(rs) \in Nat /\ Len(rs') = Len(rs)
        /\ \A j \in 1 .. Len(rs) : /\ rs'[j].body = rs[j].body
                                   /\ rs[j].body => rs'[j].env = rs[j].env /\ rs'[j].caller = rs[j].caller
    BY <1>4, Types DEF RecordsRewritten, Sound
  <1>7. \A d, e : CopyOf(d, obj, e) => CopyOf(d, obj', e)
    BY <1>5 DEF CopyOf
  <1>8. Represented(obj', rs', ctx)
    BY <1>6, <1>7, RepresentedKept DEF Identified
  <1>9. OwnCopies(obj', rs')
    BY <1>5, <1>6 DEF Identified, OwnCopies
  <1>10. Ranked(obj')
    BY <1>5 DEF Identified, Ranked, Older
  <1> QED
    BY <1>2, <1>8, <1>9, <1>10 DEF Identified

LEMMA SweepKeepsIdentities ==
  ASSUME Sound, Identified, Sweep, rs' = rs, ctx' = ctx
  PROVE  Identified'
  <1>1. /\ DOMAIN obj' = Live /\ Live \subseteq DOMAIN obj
        /\ \A a \in Live : obj'[a] = obj[a] /\ a \in DOMAIN obj
    BY LiveIs DEF Sweep
  <1>2. ASSUME NEW c, Refs(c) \subseteq RootRefs, NEW e, CopyOf(c, obj, e) PROVE CopyOf(c, obj', e)
    <2>1. c[2] \in RootRefs /\ c[2] \in DOMAIN obj
      BY <1>2 DEF Refs, CopyOf
    <2>2. c[2] \in Live
      BY <2>1, LiveIs
    <2> QED
      BY <1>1, <1>2, <2>2 DEF CopyOf
  <1>3. Refs(ctx) \subseteq RootRefs /\ \A i \in 1 .. Len(rs) : rs[i].body => Refs(rs[i].caller) \subseteq RootRefs
    BY DEF RootRefs
  <1>4. Len(rs) \in Nat
    BY Types DEF Sound
  <1>5. Represented(obj', rs, ctx)
    <2>1. \A e : CopyOf(ctx, obj, e) => CopyOf(ctx, obj', e)
      BY <1>2, <1>3
    <2>2. \A j \in 1 .. Len(rs) : rs[j].body
             => \A e : CopyOf(rs[j].caller, obj, e) => CopyOf(rs[j].caller, obj', e)
      BY <1>2, <1>3
    <2> QED
      BY <1>4, <2>1, <2>2, RepresentedKept DEF Identified
  <1>6. OwnCopies(obj', rs)
    BY <1>1 DEF Identified, OwnCopies
  <1>7. Ranked(obj')
    BY <1>1 DEF Identified, Ranked, Older
  <1> QED
    BY <1>5, <1>6, <1>7 DEF Identified

LEMMA PromoteKeepsIdentities ==
  ASSUME Sound, Identified, NEW b \in Addr, Promote(b)
  PROVE  Identified'
  <1> DEFINE i == ctx[2]
             c == Managed(b)
             link == Parent(ctx)
  <1>1. /\ b \notin DOMAIN obj /\ pc = "alloc2" /\ rs' = rs /\ ctx' = c
        /\ DOMAIN obj' = DOMAIN obj \cup {b} /\ obj'[b].kind = "ctx" /\ obj'[b].link = link
        /\ obj'[b].env = rs[i].env /\ \A a \in DOMAIN obj : obj'[a] = obj[a]
    BY DEF Promote
  <1>2. /\ ctx[1] = "stack" /\ i \in 1 .. Len(rs) /\ rs[i].body
        /\ \A j \in i + 1 .. Len(rs) : ~rs[j].body
    BY <1>1, CtxOnStack DEF Sound, Making
  <1>3. Right(obj, link)
    BY ChainFacts, Types DEF Sound, Chain
  <1> HIDE DEF link
  <1>4. Len(rs) \in Nat
    BY Types DEF Sound
  <1>5. Represented(obj', rs, c)
    <2>1. CopyOf(c, obj', rs[i].env)
      BY <1>1, NamesAreRefs DEF CopyOf
    <2>2. Stands(c, obj', rs, Len(rs))
      BY <1>2, <2>1 DEF Stands
    <2>3. \A d, e : CopyOf(d, obj, e) => CopyOf(d, obj', e)
      BY <1>1 DEF CopyOf
    <2>4. ASSUME NEW j \in 1 .. Len(rs), rs[j].body PROVE Stands(rs[j].caller, obj', rs, j - 1)
      <3>1. Stands(rs[j].caller, obj, rs, j - 1) /\ j - 1 \in Nat
        BY <1>4, <2>4 DEF Identified, Represented
      <3> QED
        BY <2>3, <3>1, StandsKept
    <2> QED
      BY <2>2, <2>4 DEF Represented
  <1>6. OwnCopies(obj', rs)
    <2>1. \A a \in DOMAIN obj : obj[a].kind = "ctx" => obj[a].env # rs[i].env
      BY <1>2 DEF Sound, NoCopies, NoCopyOf
    <2>2. rs[i].env # 0
      BY <1>2 DEF Identified, OwnCopies
    <2> HIDE DEF i
    <2> QED
      BY <1>1, <2>1, <2>2 DEF Identified, OwnCopies
  <1>7. Ranked(obj')
    <2>1. PICK rank \in [Addr -> Nat] : Older(obj, rank)
      BY DEF Identified, Ranked
    <2> DEFINE new == IF link[1] = "heap" THEN rank[link[2]] + 1 ELSE 0
               r == [rank EXCEPT ![b] = new]
    <2>2. link[1] = "heap" => link[2] \in DOMAIN obj /\ link[2] \in Addr /\ link[2] # b
      BY <1>1, <1>3, Types DEF Sound, Right
    <2>3. new \in Nat
      BY <2>2
    <2>4. r \in [Addr -> Nat] /\ r[b] = new /\ \A a \in Addr : a # b => r[a] = rank[a]
      <3> HIDE DEF new
      <3> QED
        BY <2>3
    <2> HIDE DEF r
    <2>5. Older(obj', r)
      <3> SUFFICES ASSUME NEW a \in DOMAIN obj', obj'[a].kind = "ctx", obj'[a].link[1] = "heap"
                   PROVE  r[obj'[a].link[2]] < r[a]
        BY DEF Older
      <3>1. CASE a = b
        BY <1>1, <2>2, <2>4, <3>1
      <3>2. CASE a # b
        <4>1. a \in DOMAIN obj /\ obj'[a] = obj[a] /\ a \in Addr
          BY <1>1, <3>2, Types DEF Sound
        <4>2. Right(obj, obj[a].link)
          BY <4>1 DEF Sound, NothingDangles, ObjectsRight
        <4>3. obj[a].link[2] \in DOMAIN obj /\ obj[a].link[2] # b /\ obj[a].link[2] \in Addr
          BY <1>1, <4>1, <4>2, Types DEF Sound, Right
        <4>4. rank[obj[a].link[2]] < rank[a]
          BY <2>1, <4>1 DEF Older
        <4> QED
          BY <2>4, <3>2, <4>1, <4>3, <4>4
      <3> QED
        BY <3>1, <3>2
    <2> QED
      BY <2>4, <2>5 DEF Ranked
  <1> HIDE DEF c
  <1> QED
    BY <1>1, <1>5, <1>6, <1>7 DEF Identified

LEMMA CallKeepsIdentities ==
  ASSUME Sound, Identified, NEW w \in Word, Call(w)
  PROVE  Identified'
  <1> DEFINE v == Vals(Home(w))[w]
             q == [body |-> FALSE, clo |-> v[2], sp |-> Len(ds)]
             n == Len(rs)
  <1>1. rs' = Append(rs, q) /\ obj' = obj /\ ctx' = ctx
    BY DEF Call
  <1>2. rs \in Seq(Record) /\ n \in Nat /\ Len(ds) \in Nat
    BY Types DEF Sound
  <1>3. q \in Record /\ ~q.body
    <2>1. Home(w) \in Chain /\ Home(w) # None /\ v[1] = "clo"
      BY HomeIs DEF Call
    <2>2. v \in Values
      BY <2>1, ChainFacts
    <2>3. v[2] \in Addr
      BY <2>1, <2>2, ValueIs
    <2> HIDE DEF v
    <2> QED
      BY <1>2, <2>3 DEF Record, Waiting
  <1> HIDE DEF q
  <1>4. Len(rs') = n + 1 /\ ~rs'[n + 1].body /\ \A i \in 1 .. n : rs'[i] = rs[i]
    BY <1>1, <1>2, <1>3, AppendProperties
  <1> HIDE DEF n
  <1>5. \A i \in 1 .. n + 1 : i \in 1 .. n \/ i = n + 1
    BY <1>2
  <1>6. Represented(obj, rs', ctx)
    <2>1. Stands(ctx, obj, rs', n)
      <3>1. Stands(ctx, obj, rs, n)
        BY DEF Identified, Represented, n
      <3> QED
        BY <1>2, <1>4, <3>1, StandsKept
    <2>2. Stands(ctx, obj, rs', n + 1)
      <3>1. CASE ctx = Global /\ \A j \in 1 .. n : ~rs'[j].body
        BY <1>4, <1>5, <3>1 DEF Stands
      <3>2. CASE \E k \in 1 .. n : /\ rs'[k].body /\ \A j \in k + 1 .. n : ~rs'[j].body
                                   /\ ctx = OnStack(k) \/ CopyOf(ctx, obj, rs'[k].env)
        <4>1. PICK k \in 1 .. n : /\ rs'[k].body /\ \A j \in k + 1 .. n : ~rs'[j].body
                                  /\ ctx = OnStack(k) \/ CopyOf(ctx, obj, rs'[k].env)
          BY <3>2
        <4>2. k \in 1 .. n + 1 /\ \A j \in k + 1 .. n + 1 : ~rs'[j].body
          BY <1>2, <1>4, <4>1
        <4> QED
          BY <4>1, <4>2 DEF Stands
      <3> QED
        BY <2>1, <3>1, <3>2 DEF Stands
    <2>3. ASSUME NEW i \in 1 .. n + 1, rs'[i].body PROVE Stands(rs'[i].caller, obj, rs', i - 1)
      <3>1. i \in 1 .. n /\ i - 1 \in Nat /\ rs'[i] = rs[i] /\ \A j \in 1 .. i - 1 : rs'[j] = rs[j]
        BY <1>2, <1>4, <1>5, <2>3
      <3>2. Stands(rs[i].caller, obj, rs, i - 1)
        BY <2>3, <3>1 DEF Identified, Represented, n
      <3> QED
        BY <3>1, <3>2, StandsKept
    <2> QED
      BY <1>4, <2>2, <2>3 DEF Represented
  <1>7. OwnCopies(obj, rs')
    BY <1>4, <1>5 DEF Identified, OwnCopies, n
  <1> QED
    BY <1>1, <1>6, <1>7 DEF Identified

(* What an entry does to the return stack. *)
LEMMA EnterFacts ==
  ASSUME Sound, NEW ps \in Params, Enter(ps)
  PROVE  \E id \in EnvId \ InUse :
            /\ Len(rs) \in 1 .. Len(rs) /\ Top = rs[Len(rs)] /\ ~rs[Len(rs)].body
            /\ rs' \in Seq(Record) /\ Len(rs') = Len(rs)
            /\ rs'[Len(rs)] = [body |-> TRUE, link |-> obj[Top.clo].link,
                               vals |-> Bound(ps, SubSeq(ds, Top.sp + 1, Len(ds))),
                               caller |-> ctx, sp |-> Top.sp, env |-> id]
            /\ \A i \in 1 .. Len(rs) - 1 : rs'[i] = rs[i]
            /\ obj' = obj /\ ctx' = OnStack(Len(rs))
  <1> DEFINE n == Len(rs)
             vals == Bound(ps, SubSeq(ds, Top.sp + 1, Len(ds)))
  <1>1. PICK id \in EnvId \ InUse :
               rs' = [rs EXCEPT ![n] = [body |-> TRUE, link |-> obj[Top.clo].link, vals |-> vals,
                                        caller |-> ctx, sp |-> Top.sp, env |-> id]]
    BY DEF Enter
  <1> DEFINE q == [body |-> TRUE, link |-> obj[Top.clo].link, vals |-> vals,
                   caller |-> ctx, sp |-> Top.sp, env |-> id]
  <1>2. /\ rs # <<>> /\ ~Top.body /\ Len(ds) - Top.sp = Len(ps) /\ obj' = obj /\ ctx' = OnStack(n)
    BY DEF Enter
  <1>3. rs \in Seq(Record) /\ n \in Nat /\ Len(ds) \in Nat /\ ctx \in CtxRefs
    BY Types DEF Sound
  <1>4. n \in 1 .. n /\ Top = rs[n] /\ rs[n] \in Record /\ ~rs[n].body /\ Top.sp \in Nat /\ Top.sp <= Len(ds)
    <2>1. n \in 1 .. n /\ Top = rs[n]
      BY <1>2, <1>3, EmptySeq DEF Top
    <2>2. rs[n] \in Record
      BY <2>1, Types DEF Sound
    <2> QED
      BY <1>2, <2>1, <2>2, RecordIs DEF Sound, Levelled
  <1>5. vals \in [Word -> Values]
    BY <1>2, <1>4, BoundIs
  <1>6. obj[Top.clo].link \in CtxRefs
    <2>1. Right(obj, Clo(Top.clo))
      BY <1>4 DEF Sound, NothingDangles, RecordsRight
    <2>2. Top.clo \in DOMAIN obj
      BY <2>1, ValueIs DEF Right
    <2> QED
      BY <2>2, Types DEF Sound
  <1> HIDE DEF vals
  <1>7. q \in Record
    BY <1>3, <1>4, <1>5, <1>6 DEF Record, Active
  <1> HIDE DEF q
  <1>8. /\ rs' \in Seq(Record) /\ Len(rs') = Len(rs)
        /\ \A i \in 1 .. n : rs'[i] = IF i = n THEN q ELSE rs[i]
    BY <1>1, <1>3, <1>4, <1>7, ExceptSeq DEF q
  <1>9. rs'[n] = q /\ \A i \in 1 .. n - 1 : rs'[i] = rs[i]
    BY <1>3, <1>4, <1>8
  <1> QED
    BY <1>2, <1>4, <1>8, <1>9 DEF q, vals

LEMMA EnterKeepsIdentities ==
  ASSUME Sound, Identified, NEW ps \in Params, Enter(ps)
  PROVE  Identified'
  <1> DEFINE n == Len(rs)
             c == OnStack(n)
  <1>1. PICK id \in EnvId \ InUse :
            /\ n \in 1 .. n /\ ~rs[n].body
            /\ Len(rs') = n
            /\ rs'[n].body /\ rs'[n].caller = ctx /\ rs'[n].env = id
            /\ \A i \in 1 .. n - 1 : rs'[i] = rs[i]
            /\ obj' = obj /\ ctx' = c
    <2>1. PICK id \in EnvId \ InUse :
            /\ Len(rs) \in 1 .. Len(rs) /\ Top = rs[Len(rs)] /\ ~rs[Len(rs)].body
            /\ rs' \in Seq(Record) /\ Len(rs') = Len(rs)
            /\ rs'[Len(rs)] = [body |-> TRUE, link |-> obj[Top.clo].link,
                               vals |-> Bound(ps, SubSeq(ds, Top.sp + 1, Len(ds))),
                               caller |-> ctx, sp |-> Top.sp, env |-> id]
            /\ \A i \in 1 .. Len(rs) - 1 : rs'[i] = rs[i]
            /\ obj' = obj /\ ctx' = OnStack(Len(rs))
      BY EnterFacts
    <2>2. rs'[n].body /\ rs'[n].caller = ctx /\ rs'[n].env = id
      BY <2>1
    <2> QED
      BY <2>1, <2>2
  <1>2. n \in Nat
    BY Types DEF Sound
  <1>3. id # 0
    BY <1>1 DEF InUse
  <1> HIDE DEF n
  <1>4. \A i \in 1 .. n : i \in 1 .. n - 1 \/ i = n
    BY <1>2
  <1>5. Represented(obj, rs', c)
    <2>1. Stands(c, obj, rs', n)
      <3>1. n \in 1 .. n /\ rs'[n].body /\ \A j \in n + 1 .. n : ~rs'[j].body
        BY <1>1, <1>2
      <3> QED
        BY <3>1 DEF Stands
    <2>2. Stands(ctx, obj, rs', n - 1)
      <3>1. Stands(ctx, obj, rs, n)
        BY DEF Identified, Represented, n
      <3>2. Stands(ctx, obj, rs, n - 1)
        <4>1. CASE ctx = Global /\ \A j \in 1 .. n : ~rs[j].body
          BY <1>2, <4>1 DEF Stands
        <4>2. CASE \E k \in 1 .. n : /\ rs[k].body /\ \A j \in k + 1 .. n : ~rs[j].body
                                     /\ ctx = OnStack(k) \/ CopyOf(ctx, obj, rs[k].env)
          <5>1. PICK k \in 1 .. n : /\ rs[k].body /\ \A j \in k + 1 .. n : ~rs[j].body
                                    /\ ctx = OnStack(k) \/ CopyOf(ctx, obj, rs[k].env)
            BY <4>2
          <5>2. k \in 1 .. n - 1 /\ \A j \in k + 1 .. n - 1 : ~rs[j].body
            BY <1>1, <1>2, <1>4, <5>1
          <5> QED
            BY <5>1, <5>2 DEF Stands
        <4> QED
          BY <3>1, <4>1, <4>2 DEF Stands
      <3> QED
        BY <1>1, <1>2, <3>2, StandsKept
    <2>3. ASSUME NEW i \in 1 .. n, rs'[i].body PROVE Stands(rs'[i].caller, obj, rs', i - 1)
      <3>1. CASE i = n
        BY <1>1, <2>2, <3>1
      <3>2. CASE i \in 1 .. n - 1
        <4>1. i \in 1 .. n /\ i - 1 \in Nat /\ rs'[i] = rs[i] /\ \A j \in 1 .. i - 1 : rs'[j] = rs[j]
          BY <1>1, <1>2, <3>2
        <4>2. Stands(rs[i].caller, obj, rs, i - 1)
          BY <2>3, <4>1 DEF Identified, Represented, n
        <4> QED
          BY <4>1, <4>2, StandsKept
      <3> QED
        BY <1>4, <3>1, <3>2
    <2> QED
      BY <1>1, <2>1, <2>3 DEF Represented
  <1>6. OwnCopies(obj, rs')
    <2> SUFFICES ASSUME NEW i \in 1 .. n, rs'[i].body PROVE rs'[i].env # 0
      BY <1>1 DEF Identified, OwnCopies
    <2>1. i \in 1 .. n - 1 => rs'[i] = rs[i]
      BY <1>1
    <2> QED
      BY <1>1, <1>3, <1>4, <2>1 DEF Identified, OwnCopies, n
  <1> HIDE DEF c
  <1> QED
    BY <1>1, <1>5, <1>6 DEF Identified

LEMMA LeaveKeepsIdentities ==
  ASSUME Sound, Identified, NEW i \in 1 .. Len(rs), rs[i].body, Leave(i)
  PROVE  Identified'
  <1> DEFINE m == i - 1
             R == SubSeq(rs, 1, i - 1)
  <1>1. rs' = R /\ ctx' = rs[i].caller /\ obj' = obj
    BY DEF Leave
  <1>2. rs \in Seq(Record) /\ Len(rs) \in Nat
    BY Types DEF Sound
  <1>3. m \in 0 .. Len(rs) /\ m \in Nat /\ \A k \in 1 .. m : k \in 1 .. Len(rs) /\ k - 1 \in Nat
    BY <1>2
  <1>4. Len(R) = m /\ \A k \in 1 .. m : R[k] = rs[k]
    BY <1>2, <1>3, CutOff
  <1>5. Stands(rs[i].caller, obj, rs, m)
    BY DEF Identified, Represented
  <1> HIDE DEF m, R
  <1>6. Represented(obj, R, rs[i].caller)
    <2>1. Stands(rs[i].caller, obj, R, m)
      BY <1>3, <1>4, <1>5, StandsKept
    <2>2. ASSUME NEW k \in 1 .. m, R[k].body PROVE Stands(R[k].caller, obj, R, k - 1)
      <3>1. k \in 1 .. Len(rs) /\ k - 1 \in Nat /\ R[k] = rs[k] /\ \A j \in 1 .. k - 1 : R[j] = rs[j]
        BY <1>3, <1>4
      <3>2. Stands(rs[k].caller, obj, rs, k - 1)
        BY <2>2, <3>1 DEF Identified, Represented
      <3> QED
        BY <3>1, <3>2, StandsKept
    <2> QED
      BY <1>4, <2>1, <2>2 DEF Represented
  <1>7. OwnCopies(obj, R)
    BY <1>3, <1>4 DEF Identified, OwnCopies
  <1> QED
    BY <1>1, <1>6, <1>7 DEF Identified

LEMMA StepKeepsIdentities ==
  ASSUME Sound, Identified, [Next]_vars
  PROVE  Identified'
  <1>1. CASE rs' = rs /\ ctx' = ctx /\ obj' = obj
    BY <1>1, SameContexts
  <1>2. CASE UNCHANGED vars \/ PushScalar \/ Drop \/ \E w \in Word : Fetch(w)
    BY <1>1, <1>2 DEF vars, PushScalar, Drop, Fetch, registers
  <1>3. CASE BeginClosure \/ OutOfMemory
    BY <1>1, <1>3 DEF BeginClosure, OutOfMemory
  <1>4. CASE \E w \in Word : Set(w) \/ Call(w)
    BY <1>4, WriteKeepsIdentities, CallKeepsIdentities
  <1>5. CASE \E ps \in Params : Enter(ps)
    BY <1>5, EnterKeepsIdentities
  <1>6. CASE NormalReturn
    <2>1. Len(rs) \in 1 .. Len(rs) /\ rs[Len(rs)].body
      BY <1>6, Types, EmptySeq DEF Sound, NormalReturn, Top
    <2> QED
      BY <1>6, <2>1, LeaveKeepsIdentities DEF NormalReturn
  <1>7. CASE \E i \in 1 .. Len(rs) : Return(i)
    BY <1>7, LeaveKeepsIdentities DEF Return
  <1>8. CASE Collect \/ CollectForPromotion
    BY <1>8, SweepKeepsIdentities DEF Collect, CollectForPromotion, registers
  <1>9. CASE CollectForClosure
    BY <1>1, <1>9, SweepKeepsIdentities DEF CollectForClosure
  <1>10. CASE Fill
    <2> DEFINE a == pend[2]
               o == [Raw EXCEPT !.link = ctx]
    <2>1. a \in DOMAIN obj /\ obj[a].kind = "closure"
      BY <1>10 DEF Fill, Sound, Making
    <2>2. o.kind = "closure"
      BY DEF Raw
    <2>3. obj' = [obj EXCEPT ![a] = o] /\ rs' = rs /\ ctx' = ctx
      BY <1>10 DEF Fill
    <2>4. obj \in [DOMAIN obj -> Object]
      BY DEF Sound, TypeOK
    <2> HIDE DEF o, a
    <2>5. DOMAIN obj' = DOMAIN obj /\ obj'[a] = o /\ \A d \in DOMAIN obj : d # a => obj'[d] = obj[d]
      BY <2>1, <2>3, <2>4
    <2> QED
      BY <2>1, <2>2, <2>3, <2>5, SameContexts
  <1>11. CASE \E a \in Addr : AllocClosure(a)
    <2>1. PICK a \in Addr : AllocClosure(a)
      BY <1>11
    <2>2. /\ a \notin DOMAIN obj /\ rs' = rs /\ ctx' = ctx
          /\ DOMAIN obj' = DOMAIN obj \cup {a} /\ obj'[a] = Raw /\ \A d \in DOMAIN obj : obj'[d] = obj[d]
      BY <2>1 DEF AllocClosure
    <2>3. Raw.kind = "closure"
      BY DEF Raw
    <2> HIDE DEF Raw
    <2> QED
      BY <2>2, <2>3, SameContexts
  <1>12. CASE \E a \in Addr : Promote(a)
    BY <1>12, PromoteKeepsIdentities
  <1> QED
    BY <1>2, <1>3, <1>4, <1>5, <1>6, <1>7, <1>8, <1>9, <1>10, <1>11, <1>12 DEF Next

LEMMA InitIsIdentified ==
  ASSUME Init
  PROVE  Identified
  <1>1. obj = << >> /\ rs = <<>> /\ ctx = Global /\ Len(rs) = 0 /\ DOMAIN obj = {}
    BY DEF Init
  <1>2. Represented(obj, rs, ctx) /\ OwnCopies(obj, rs)
    BY <1>1 DEF Represented, Stands, OwnCopies
  <1>3. Ranked(obj)
    <2>1. [a \in Addr |-> 0] \in [Addr -> Nat]
      OBVIOUS
    <2> QED
      BY <1>1, <2>1 DEF Ranked, Older
  <1> QED
    BY <1>2, <1>3 DEF Identified

-----------------------------------------------------------------------------
(* The environments that a state stands for.                               *)

(* There is no recursion without an end where a measure decreases in S and *)
(* what is not in S stays.                                                 *)
LEMMA Settles ==
  ASSUME NEW S, IsFiniteSet(S), NEW rank \in [S -> Nat], NEW f,
         \A n \in Nat : f[n] \in S => f[n + 1] \notin S \/ rank[f[n + 1]] < rank[f[n]],
         \A n \in Nat : f[n] \notin S => f[n + 1] = f[n]
  PROVE  \A n \in Nat : n >= Cardinality(S) => f[n] \notin S /\ f[n] = f[Cardinality(S)]
  <1> DEFINE Seen(n) == \E T \in SUBSET S : /\ IsFiniteSet(T) /\ Cardinality(T) = n + 1
                                            /\ f[n] \in T /\ \A x \in T : rank[f[n]] <= rank[x]
             V == {n \in Nat : f[n] \in S => Seen(n)}
             K == Cardinality(S)
             W == {n \in Nat : n >= K => f[n] \notin S /\ f[n] = f[K]}
  <1>1. 0 \in V
    <2> SUFFICES ASSUME f[0] \in S PROVE Seen(0)
      OBVIOUS
    <2>1. {f[0]} \in SUBSET S /\ 0 + 1 = 1
      OBVIOUS
    <2>2. rank[f[0]] <= rank[f[0]]
      OBVIOUS
    <2>3. IsFiniteSet({f[0]}) /\ Cardinality({f[0]}) = 1
      BY FS_Singleton, Zenon
    <2> QED
      BY <2>1, <2>2, <2>3
  <1>2. ASSUME NEW n \in Nat, n \in V PROVE n + 1 \in V
    <2> SUFFICES ASSUME f[n + 1] \in S PROVE Seen(n + 1)
      OBVIOUS
    <2>1. f[n] \in S /\ rank[f[n + 1]] < rank[f[n]]
      OBVIOUS
    <2>2. PICK T \in SUBSET S : /\ IsFiniteSet(T) /\ Cardinality(T) = n + 1
                                /\ f[n] \in T /\ \A x \in T : rank[f[n]] <= rank[x]
      BY <1>2, <2>1
    <2>3. \A x \in T : rank[f[n + 1]] < rank[x]
      BY <2>1, <2>2
    <2>4. f[n + 1] \notin T
      BY <2>3
    <2> DEFINE U == T \cup {f[n + 1]}
    <2>5. U \in SUBSET S /\ f[n + 1] \in U
      OBVIOUS
    <2>6. IsFiniteSet(U) /\ Cardinality(U) = (n + 1) + 1
      BY <2>2, <2>4, FS_AddElement
    <2>7. \A x \in U : rank[f[n + 1]] <= rank[x]
      BY <2>3
    <2> QED
      BY <2>5, <2>6, <2>7
  <1>3. \A n \in Nat : f[n] \in S => Seen(n)
    <2> HIDE DEF V
    <2>1. Nat \subseteq V
      BY <1>1, <1>2, NatSetInduction
    <2> QED
      BY <2>1 DEF V
  <1>4. K \in Nat
    BY FS_CardinalityType
  <1>5. f[K] \notin S
    <2> SUFFICES ASSUME f[K] \in S PROVE FALSE
      OBVIOUS
    <2>1. PICK T \in SUBSET S : IsFiniteSet(T) /\ Cardinality(T) = K + 1
      BY <1>3, <1>4
    <2>2. Cardinality(T) <= K
      BY FS_Subset
    <2> QED
      BY <1>4, <2>1, <2>2
  <1> HIDE DEF K
  <1>6. 0 \in W
    <2>1. 0 >= K => 0 = K
      BY <1>4
    <2> QED
      BY <1>5, <2>1
  <1>7. ASSUME NEW n \in Nat, n \in W PROVE n + 1 \in W
    <2> SUFFICES ASSUME n + 1 >= K PROVE f[n + 1] \notin S /\ f[n + 1] = f[K]
      OBVIOUS
    <2>1. CASE n >= K
      BY <1>7, <2>1
    <2>2. CASE n + 1 = K
      BY <1>5, <2>2
    <2> QED
      BY <1>4, <2>1, <2>2
  <1>8. \A n \in Nat : n >= K => f[n] \notin S /\ f[n] = f[K]
    <2> HIDE DEF W
    <2>1. Nat \subseteq W
      BY <1>6, <1>7, NatSetInduction
    <2> QED
      BY <2>1 DEF W
  <1> QED
    BY <1>8 DEF K

(* What frames name is on the stack and has no copy, or is the copy: a     *)
(* context on the stack that has no copy is named, and is traced.          *)
NamedByFrame(R, c, d) == d = c \/ \E j \in 1 .. Len(R) : R[j].body /\ R[j].caller = d

LEMMA UncopiedIsNamed ==
  ASSUME Sound, Identified, NEW k \in 1 .. Len(rs), rs[k].body,
         \A a \in DOMAIN obj : obj[a].kind = "ctx" => obj[a].env # rs[k].env
  PROVE  NamedByFrame(rs, ctx, OnStack(k)) /\ k \in Traced(rs, ctx, child)
  <1> DEFINE T == {j \in k + 1 .. Len(rs) : rs[j].body}
  <1>1. Len(rs) \in Nat
    BY Types DEF Sound
  <1>2. \A c : ~CopyOf(c, obj, rs[k].env)
    BY DEF CopyOf
  <1>3. ASSUME NEW c, NEW n \in k .. Len(rs), Stands(c, obj, rs, n), \A j \in k + 1 .. n : ~rs[j].body
        PROVE  c = OnStack(k)
    <2>1. k \in 1 .. n
      BY <1>1
    <2>2. PICK m \in 1 .. n : /\ rs[m].body /\ \A j \in m + 1 .. n : ~rs[j].body
                              /\ c = OnStack(m) \/ CopyOf(c, obj, rs[m].env)
      BY <1>3, <2>1 DEF Stands
    <2>3. m = k
      <3>1. m < k => k \in m + 1 .. n
        BY <1>1, <2>1
      <3>2. k < m => m \in k + 1 .. n
        BY <1>1, <2>1
      <3> QED
        BY <1>1, <1>3, <2>2, <3>1, <3>2
    <2> QED
      BY <1>2, <2>2, <2>3
  <1>4. CASE T = {}
    <2>1. Stands(ctx, obj, rs, Len(rs)) /\ Len(rs) \in k .. Len(rs)
      BY <1>1 DEF Identified, Represented
    <2>2. ctx = OnStack(k)
      BY <1>3, <1>4, <2>1
    <2> QED
      BY <2>2 DEF Traced, NamedByFrame
  <1>5. CASE T # {}
    <2>1. T \subseteq Nat
      BY <1>1
    <2> HIDE DEF T
    <2>2. PICK j \in T : \A i \in T : j <= i
      BY <1>5, <2>1, LeastOf
    <2>3. j \in k + 1 .. Len(rs) /\ rs[j].body /\ j \in Nat
      BY <2>1, <2>2 DEF T
    <2>4. \A i \in k + 1 .. j - 1 : ~rs[i].body
      <3> SUFFICES ASSUME NEW i \in k + 1 .. j - 1, rs[i].body PROVE FALSE
        OBVIOUS
      <3>1. i \in k + 1 .. Len(rs) /\ i < j
        BY <1>1, <2>3
      <3> QED
        BY <2>2, <2>3, <3>1 DEF T
    <2>5. Stands(rs[j].caller, obj, rs, j - 1)
      BY <1>1, <2>3 DEF Identified, Represented
    <2>6. j - 1 \in k .. Len(rs)
      BY <1>1, <2>3
    <2>7. rs[j].caller = OnStack(k)
      BY <1>3, <2>4, <2>5, <2>6
    <2> QED
      BY <1>1, <2>3, <2>7 DEF Traced, NamedByFrame
  <1> QED
    BY <1>4, <1>5

(* A context that a reference the evaluator follows can name. *)
Context(c) ==
    /\ c \in CtxRefs /\ c # None
    /\ c[1] = "stack" => c[2] \in 1 .. Len(rs) /\ rs[c[2]].body /\ c = OnStack(c[2])
    /\ c[1] = "heap" => c[2] \in DOMAIN obj /\ obj[c[2]].kind = "ctx" /\ c = Managed(c[2])
    /\ c[1] \in {"stack", "heap"} \/ c = Global

(* A holder is a context that is there, and on the stack only one that is  *)
(* named; every context without a copy that a reference can name is one.   *)
LEMMA HoldersAre ==
  ASSUME Sound, Identified
  PROVE  /\ \A c \in Holders : Context(c)
         /\ \A c \in CtxRefs : Right(obj, c) /\ c # None /\ c[1] # "stack" => c \in Holders
         /\ \A c \in CtxRefs : /\ c[1] = "stack" /\ c[2] \in 1 .. Len(rs)
                               /\ rs[c[2]].body /\ NoCopyOf(obj, rs, c)
                               => c \in Holders
         /\ \A c \in Holders : c[1] = "stack" => /\ NoCopyOf(obj, rs, c) /\ c[2] \in Traced(rs, ctx, child)
                                                 /\ NamedByFrame(rs, ctx, c)
  <1>1. Len(rs) \in 0 .. MaxDepth /\ DOMAIN obj \subseteq Addr /\ MaxDepth \in Nat
    BY Types, ClosuresAssumption DEF Sound
  <1>2. ASSUME NEW c \in HeapCtxs PROVE Context(c) /\ c[1] = "heap"
    <2>1. PICK a \in DOMAIN obj : obj[a].kind = "ctx" /\ c = Managed(a)
      BY <1>2 DEF HeapCtxs
    <2> QED
      BY <1>1, <2>1, NamesAreRefs DEF Context
  <1>3. Context(Global) /\ Global[1] = "global"
    BY NamesAreRefs DEF Context
  <1>4. ASSUME NEW c \in StackCtxs PROVE Context(c) /\ c[1] = "stack"
    <2>1. PICK i \in 1 .. Len(rs) : rs[i].body /\ c = OnStack(i)
      BY <1>4 DEF StackCtxs
    <2>2. i \in 1 .. MaxDepth
      BY <1>1
    <2> QED
      BY <2>1, <2>2, NamesAreRefs DEF Context
  <1>5. \A c \in Holders : Context(c)
    BY <1>2, <1>3, <1>4 DEF Holders
  <1>6. ASSUME NEW c \in CtxRefs, Right(obj, c), c # None, c[1] # "stack" PROVE c \in Holders
    <2>1. CASE c = Global
      BY <2>1 DEF Holders
    <2>2. CASE c[1] = "heap" /\ c = Managed(c[2])
      BY <1>6, <2>2 DEF Right, Holders, HeapCtxs
    <2> QED
      BY <1>6, <2>1, <2>2, CtxRefIs
  <1>7. \A c, a : c[1] = "stack" => IdOf(c) = rs[c[2]].env /\ IdOf(Managed(a)) = obj[a].env
    BY NamesAreRefs DEF IdOf
  <1>8. ASSUME NEW c \in CtxRefs, c[1] = "stack", c[2] \in 1 .. Len(rs), rs[c[2]].body, NoCopyOf(obj, rs, c)
        PROVE  c \in Holders
    <2>1. c = OnStack(c[2])
      BY <1>8, CtxRefIs, NamesAreRefs
    <2>2. c \in StackCtxs
      BY <1>8, <2>1 DEF StackCtxs
    <2>3. IdOf(c) \notin {IdOf(h) : h \in HeapCtxs}
      BY <1>7, <1>8 DEF NoCopyOf, HeapCtxs
    <2> QED
      BY <2>2, <2>3 DEF Holders
  <1>9. ASSUME NEW c \in Holders, c[1] = "stack" 
        PROVE  NoCopyOf(obj, rs, c) /\ c[2] \in Traced(rs, ctx, child) /\ NamedByFrame(rs, ctx, c)
    <2>1. IdOf(c) \notin {IdOf(h) : h \in HeapCtxs}
      BY <1>2, <1>3, <1>9 DEF Holders
    <2>2. \A a \in DOMAIN obj : obj[a].kind = "ctx" => Managed(a) \in HeapCtxs
      BY DEF HeapCtxs
    <2>3. \A a \in DOMAIN obj : obj[a].kind = "ctx" => obj[a].env # rs[c[2]].env
      BY <1>7, <1>9, <2>1, <2>2
    <2>4. c[2] \in 1 .. Len(rs) /\ rs[c[2]].body /\ c = OnStack(c[2])
      BY <1>5, <1>9 DEF Context
    <2> QED
      BY <2>3, <2>4, UncopiedIsNamed DEF NoCopyOf
  <1> QED
    BY <1>5, <1>6, <1>8, <1>9

(* What they bind and lead to. *)
LEMMA HoldersLead ==
  ASSUME Sound, Identified, NEW c \in Holders
  PROVE  /\ Vals(c) \in [Word -> Values] /\ \A w \in Word : Right(obj, Vals(c)[w])
         /\ Parent(c) \in CtxRefs /\ Right(obj, Parent(c)) /\ Parent(c)[1] # "stack"
         /\ Parent(c) # None => Parent(c) \in Holders
  <1>1. Context(c) /\ (c[1] = "stack" => c[2] \in Traced(rs, ctx, child))
    BY HoldersAre
  <1>2. CASE c[1] = "stack"
    <2> DEFINE i == c[2]
    <2>1. i \in 1 .. Len(rs) /\ rs[i].body /\ i \in Traced(rs, ctx, child)
      BY <1>1, <1>2 DEF Context
    <2>2. rs[i] \in Record
      BY <2>1, Types DEF Sound
    <2>3. Vals(c) = rs[i].vals /\ Parent(c) = rs[i].link
      BY <1>2 DEF Vals, Parent
    <2>4. rs[i].vals \in [Word -> Values] /\ rs[i].link \in CtxRefs
      BY <2>1, <2>2, RecordIs
    <2>5. Right(obj, rs[i].link) /\ \A w \in Word : Right(obj, rs[i].vals[w])
      BY <2>1 DEF Sound, NothingDangles, TracedRight
    <2>6. rs[i].link[1] # "stack"
      BY <2>1 DEF Sound, StackOwned
    <2> HIDE DEF i
    <2> QED
      BY <2>3, <2>4, <2>5, <2>6, HoldersAre
  <1>3. CASE c[1] = "heap"
    <2> DEFINE a == c[2]
    <2>1. a \in DOMAIN obj
      BY <1>1, <1>3 DEF Context
    <2>2. Vals(c) = obj[a].vals /\ Parent(c) = obj[a].link
      BY <1>3 DEF Vals, Parent
    <2>3. obj[a].vals \in [Word -> Values] /\ obj[a].link \in CtxRefs
      BY <2>1, Types DEF Sound
    <2>4. Right(obj, obj[a].link) /\ \A w \in Word : Right(obj, obj[a].vals[w])
      BY <2>1 DEF Sound, NothingDangles, ObjectsRight
    <2>5. obj[a].link[1] # "stack"
      BY <2>1 DEF Sound, NoStackInHeap
    <2> HIDE DEF a
    <2> QED
      BY <2>2, <2>3, <2>4, <2>5, HoldersAre
  <1>4. CASE c = Global
    <2>1. Vals(c) = global /\ Parent(c) = None
      BY <1>4, NamesAreRefs DEF Vals, Parent
    <2>2. global \in [Word -> Values] /\ \A w \in Word : Right(obj, global[w])
      BY DEF Sound, TypeOK, NothingDangles, GlobalRight
    <2> QED
      BY <2>1, <2>2, NamesAreRefs DEF Right
  <1> QED
    BY <1>1, <1>2, <1>3, <1>4 DEF Context

(* No environment is in two places. *)
LEMMA OneHolder ==
  ASSUME Sound, Identified, NEW c \in Holders, NEW d \in Holders, IdOf(c) = IdOf(d)
  PROVE  c = d
  <1>1. Context(c) /\ Context(d)
    BY HoldersAre
  <1>2. \A e : IdOf(e) = CASE e[1] = "stack" -> rs[e[2]].env [] e[1] = "heap" -> obj[e[2]].env [] OTHER -> 0
    BY DEF IdOf
  <1>3. ASSUME NEW e \in Holders, e[1] = "stack"
        PROVE  IdOf(e) # 0 /\ \A h \in Holders : h[1] = "heap" => IdOf(h) # IdOf(e)
    <2>1. Context(e) /\ NoCopyOf(obj, rs, e)
      BY <1>3, HoldersAre
    <2>2. rs[e[2]].env # 0
      BY <1>3, <2>1 DEF Context, Identified, OwnCopies
    <2>3. ASSUME NEW h \in Holders, h[1] = "heap" PROVE IdOf(h) # IdOf(e)
      <3>1. Context(h)
        BY HoldersAre
      <3> QED
        BY <1>2, <1>3, <2>1, <2>3, <3>1 DEF Context, NoCopyOf
    <2> QED
      BY <1>2, <1>3, <2>2, <2>3
  <1>4. ASSUME NEW e \in Holders, e[1] = "heap" PROVE IdOf(e) # 0
    <2>1. Context(e)
      BY HoldersAre
    <2> QED
      BY <1>2, <1>4, <2>1 DEF Context, Identified, OwnCopies
  <1>5. CASE c[1] = "stack" /\ d[1] = "stack"
    BY <1>1, <1>2, <1>5 DEF Context, Sound, OwnEnvs
  <1>6. CASE c[1] = "heap" /\ d[1] = "heap"
    BY <1>1, <1>2, <1>6 DEF Context, Identified, OwnCopies
  <1>7. IdOf(Global) = 0
    BY NamesAreRefs DEF IdOf
  <1> QED
    BY <1>1, <1>3, <1>4, <1>5, <1>6, <1>7 DEF Context

(* The contexts that registers, frames and closures name. *)
LEMMA NamesAreHolders ==
  ASSUME Sound, Identified
  PROVE  /\ ctx \in Holders
         /\ \A i \in 1 .. Len(rs) : IF rs[i].body THEN rs[i].caller \in Holders
                                                  ELSE /\ rs[i].clo \in DOMAIN obj
                                                       /\ obj[rs[i].clo].link \in Holders
                                                       /\ obj[rs[i].clo].link[1] # "stack"
         /\ \A v \in Values : v[1] = "clo" /\ Right(obj, v)
               => v[2] \in DOMAIN obj /\ obj[v[2]].link \in Holders /\ obj[v[2]].link[1] # "stack"
  <1>1. Len(rs) \in Nat
    BY Types DEF Sound
  <1>2. ASSUME NEW c \in CtxRefs, c # None, NEW n \in 0 .. Len(rs), Owned(c, rs, n), Right(obj, c),
               NoCopyOf(obj, rs, c)
        PROVE  c \in Holders
    <2>1. CASE c[1] = "stack"
      <3>1. c[2] \in 1 .. Len(rs) /\ rs[c[2]].body
        BY <1>1, <1>2, <2>1 DEF Owned
      <3> QED
        BY <1>2, <2>1, <3>1, HoldersAre
    <2>2. CASE c[1] # "stack"
      BY <1>2, <2>2, HoldersAre
    <2> QED
      BY <2>1, <2>2
  <1>3. ctx \in Holders
    <2>1. ctx \in CtxRefs /\ ctx # None /\ Len(rs) \in 0 .. Len(rs)
      BY <1>1, Types DEF Sound
    <2>2. Owned(ctx, rs, Len(rs)) /\ Right(obj, ctx) /\ NoCopyOf(obj, rs, ctx)
      BY DEF Sound, StackOwned, NothingDangles, RegistersRight, NoCopies
    <2> QED
      BY <1>2, <2>1, <2>2
  <1>4. ASSUME NEW a, Right(obj, Clo(a))
        PROVE  a \in DOMAIN obj /\ obj[a].link \in Holders /\ obj[a].link[1] # "stack"
    <2>1. a \in DOMAIN obj /\ obj[a].link # None
      BY <1>4, ValueIs DEF Right
    <2>2. obj[a].link \in CtxRefs /\ Right(obj, obj[a].link) /\ obj[a].link[1] # "stack"
      BY <2>1, Types DEF Sound, NothingDangles, ObjectsRight, NoStackInHeap
    <2> QED
      BY <2>1, <2>2, HoldersAre
  <1>5. ASSUME NEW i \in 1 .. Len(rs), rs[i].body PROVE rs[i].caller \in Holders
    <2>1. rs[i].caller \in CtxRefs /\ i - 1 \in 0 .. Len(rs)
      BY <1>1, <1>5, Types, RecordIs DEF Sound
    <2>2. /\ Owned(rs[i].caller, rs, i - 1) /\ rs[i].caller # None /\ Right(obj, rs[i].caller)
          /\ NoCopyOf(obj, rs, rs[i].caller)
      BY <1>5 DEF Sound, StackOwned, NothingDangles, RecordsRight, NoCopies
    <2> QED
      BY <1>2, <2>1, <2>2
  <1>6. \A i \in 1 .. Len(rs) : ~rs[i].body => Right(obj, Clo(rs[i].clo))
    BY DEF Sound, NothingDangles, RecordsRight
  <1>7. \A v \in Values : v[1] = "clo" => v = Clo(v[2])
    BY ValueIs
  <1> QED
    BY <1>3, <1>4, <1>5, <1>6, <1>7

LEMMA NodeIs ==
  ASSUME NEW c
  PROVE  /\ Node(c).id = IdOf(c)
         /\ Node(c).parent = IF Parent(c) = None THEN None ELSE <<"env", IdOf(Parent(c))>>
         /\ Node(c).vals = [w \in Word |-> AbsValue(Vals(c)[w])]
  BY Zenon DEF Node

(* The abstract environment of an identity is the node of its one holder.  *)
LEMMA NodeAt ==
  ASSUME Sound, Identified, NEW c \in Holders
  PROVE  Abs!At(AbsEnv, IdOf(c)) = Node(c)
  <1>1. Node(c) \in AbsEnv
    BY DEF AbsEnv
  <1>2. \A n \in AbsEnv : n.id = IdOf(c) => n = Node(c)
    <2> SUFFICES ASSUME NEW d \in Holders, Node(d).id = IdOf(c) PROVE Node(d) = Node(c)
      BY DEF AbsEnv
    <2>1. d = c
      BY NodeIs, OneHolder
    <2> QED
      BY <2>1
  <1>3. Node(c).id = IdOf(c)
    BY NodeIs
  <1>4. Abs!At(AbsEnv, IdOf(c)) = CHOOSE n \in AbsEnv : n.id = IdOf(c)
    BY DEF Abs!At
  <1> HIDE DEF AbsEnv, Node
  <1> QED
    BY <1>1, <1>2, <1>3, <1>4

(* The value a value stands for. *)
LEMMA AbsValueIs ==
  ASSUME Sound, Identified, NEW v \in Values, Right(obj, v)
  PROVE  /\ AbsValue(v) # Unbound <=> v # Unbound
         /\ AbsValue(v)[1] = "clo" <=> v[1] = "clo"
         /\ v[1] = "clo" => AbsValue(v) = <<"clo", IdOf(obj[v[2]].link)>>
         /\ Abs!Named(AbsValue(v)) \subseteq {IdOf(c) : c \in Holders}
  <1>1. v[1] \in {"unbound", "scalar", "clo"}
    BY ValueIs
  <1>2. CASE v[1] = "clo"
    <2>1. AbsValue(v) = <<"clo", IdOf(obj[v[2]].link)>>
      BY <1>2 DEF AbsValue
    <2>2. obj[v[2]].link \in Holders
      BY <1>2, NamesAreHolders
    <2>3. Abs!Named(AbsValue(v)) = {IdOf(obj[v[2]].link)}
      BY <2>1 DEF Abs!Named
    <2> QED
      BY <1>2, <2>1, <2>2, <2>3 DEF Unbound
  <1>3. CASE v[1] # "clo"
    <2>1. AbsValue(v) = v
      BY <1>3 DEF AbsValue
    <2>2. Abs!Named(v) = {}
      BY <1>1, <1>3 DEF Abs!Named
    <2> QED
      BY <1>3, <2>1, <2>2
  <1> QED
    BY <1>2, <1>3

(* No environment that is named is missing. *)
AbsClosed == Abs!Closed(AbsEnv, Abs!Roots(IdOf(ctx), AbsStk, AbsDs))

(* The environments there are have everything that they or the roots name. *)
LEMMA AbsIsClosed == Sound /\ Identified => AbsClosed
  <1> SUFFICES ASSUME Sound, Identified PROVE AbsClosed
    OBVIOUS
  <1> DEFINE I == {IdOf(c) : c \in Holders}
  <1>1. Abs!Ids(AbsEnv) = I
    <2>1. \A c : Node(c).id = IdOf(c)
      BY NodeIs
    <2> QED
      BY <2>1 DEF Abs!Ids, AbsEnv
  <1>2. Len(rs) \in Nat /\ Len(ds) \in Nat
    BY Types DEF Sound
  <1>3. \A v \in Values : Right(obj, v) => Abs!Named(AbsValue(v)) \subseteq I
    BY AbsValueIs
  <1>4. 0 \in I /\ IdOf(ctx) \in I
    <2>1. Global \in Holders /\ IdOf(Global) = 0
      BY NamesAreRefs DEF Holders, IdOf
    <2> QED
      BY <2>1, NamesAreHolders
  <1> HIDE DEF I
  <1>5. ASSUME NEW i \in 1 .. Len(AbsDs) PROVE Abs!Named(AbsDs[i]) \subseteq I
    <2>1. Len(AbsDs) = Len(ds)
      BY <1>2 DEF AbsDs
    <2>2. AbsDs[i] = AbsValue(ds[i])
      BY <2>1 DEF AbsDs
    <2>3. ds[i] \in Values /\ Right(obj, ds[i])
      BY <2>1, Types DEF Sound, NothingDangles, OperandsRight
    <2> QED
      BY <1>3, <2>2, <2>3
  <1>6. ASSUME NEW i \in 1 .. Len(AbsStk) PROVE AbsStk[i].env \in I
    <2>1. Len(AbsStk) = Len(rs)
      BY <1>2 DEF AbsStk
    <2>2. AbsStk[i].env = WaitsFor(rs[i])
      BY <2>1 DEF AbsStk
    <2>3. WaitsFor(rs[i]) \in I
      BY <2>1, NamesAreHolders DEF WaitsFor, I
    <2> QED
      BY <2>2, <2>3
  <1>7. ASSUME NEW n \in AbsEnv PROVE Abs!NamedBy(n) \subseteq I
    <2>1. PICK c \in Holders : n = Node(c)
      BY DEF AbsEnv
    <2>2. n.parent = (IF Parent(c) = None THEN None ELSE <<"env", IdOf(Parent(c))>>)
          /\ n.vals = [w \in Word |-> AbsValue(Vals(c)[w])]
      BY <2>1, NodeIs
    <2>3. Abs!Named(n.parent) \subseteq I
      <3>1. CASE Parent(c) = None
        BY <2>2, <3>1, NamesAreRefs DEF Abs!Named
      <3>2. CASE Parent(c) # None
        <4>1. IdOf(Parent(c)) \in I
          BY <3>2, HoldersLead DEF I
        <4> QED
          BY <2>2, <3>2, <4>1 DEF Abs!Named
      <3> QED
        BY <3>1, <3>2
    <2>4. ASSUME NEW w \in Word PROVE Abs!Named(n.vals[w]) \subseteq I
      <3>1. n.vals[w] = AbsValue(Vals(c)[w]) /\ Vals(c)[w] \in Values /\ Right(obj, Vals(c)[w])
        BY <2>2, HoldersLead
      <3> QED
        BY <1>3, <3>1
    <2>5. DOMAIN n.vals = Word
      BY <2>2
    <2>6. Abs!NamedBy(n) = Abs!Named(n.parent) \cup (UNION {Abs!Named(n.vals[w]) : w \in DOMAIN n.vals})
      BY DEF Abs!NamedBy
    <2> QED
      BY <2>3, <2>4, <2>5, <2>6, Zenon
  <1>8. Abs!Roots(IdOf(ctx), AbsStk, AbsDs) \subseteq I
    BY <1>4, <1>5, <1>6, Zenon DEF Abs!Roots
  <1> QED
    BY <1>1, <1>7, <1>8, Zenon DEF AbsClosed, Abs!Closed

(* What a chain's context is in the environments' chain. *)
Place(c) == IF c = None THEN None ELSE <<"env", IdOf(c)>>

NextPlace(w, i) == IF i = None \/ Abs!At(AbsEnv, i[2]).vals[w] # Unbound
                   THEN i ELSE Abs!At(AbsEnv, i[2]).parent

(* The abstract search, written step by step.                              *)
LEMMA AbsHomeIs ==
  ASSUME NEW w, NEW h,
         h = [n \in Nat |-> IF n = 0 THEN <<"env", IdOf(ctx)>> ELSE NextPlace(w, h[n - 1])]
  PROVE  Cardinality(AbsEnv) \in Nat => Abs!Home(w) = h[Cardinality(AbsEnv)]
  <1> DEFINE at == CHOOSE at : at = [n \in Nat |-> IF n = 0 THEN <<"env", IdOf(ctx)>>
                                                            ELSE NextPlace(w, at[n - 1])]
             T == {n \in Nat : at[n] = h[n]}
  <1>1. at = [n \in Nat |-> IF n = 0 THEN <<"env", IdOf(ctx)>> ELSE NextPlace(w, at[n - 1])]
    OBVIOUS
  <1> HIDE DEF at
  <1>2. /\ \A n \in Nat : at[n] = IF n = 0 THEN <<"env", IdOf(ctx)>> ELSE NextPlace(w, at[n - 1])
        /\ \A n \in Nat : h[n] = IF n = 0 THEN <<"env", IdOf(ctx)>> ELSE NextPlace(w, h[n - 1])
    BY <1>1, Zenon
  <1>3. 0 \in T
    BY <1>2
  <1>4. ASSUME NEW n \in Nat, n \in T PROVE n + 1 \in T
    <2>1. n + 1 \in Nat /\ n + 1 # 0 /\ (n + 1) - 1 = n
      OBVIOUS
    <2>2. at[n + 1] = NextPlace(w, at[n]) /\ h[n + 1] = NextPlace(w, h[n])
      BY <1>2, <2>1
    <2> QED
      BY <1>4, <2>1, <2>2
  <1>5. \A n \in Nat : at[n] = h[n]
    <2> HIDE DEF T
    <2>1. Nat \subseteq T
      BY <1>3, <1>4, NatSetInduction
    <2> QED
      BY <2>1 DEF T
  <1>6. Abs!Home(w) = at[Cardinality(AbsEnv)]
    <2>1. Abs!Home(w) = at[Abs!Cardinality(AbsEnv)]
      BY DEF Abs!Home, at, NextPlace, Abs!NoEnv, None, Abs!Unbound, Unbound
    <2>2. Abs!Cardinality(AbsEnv) = Cardinality(AbsEnv)
      BY DEF Abs!Cardinality, Cardinality
    <2> QED
      BY <2>1, <2>2
  <1> QED
    BY <1>5, <1>6

(* One step of the abstract search is one step of r_lookup.                *)
LEMMA NextPlaceIs ==
  ASSUME Sound, Identified, NEW w \in Word, NEW c \in Holders
  PROVE  NextPlace(w, Place(c)) = Place(IF Vals(c)[w] # Unbound THEN c ELSE Parent(c))
  <1>1. Context(c) /\ c # None
    BY HoldersAre DEF Context
  <1>2. Place(c) = <<"env", IdOf(c)>> /\ Place(c) # None /\ Place(c)[2] = IdOf(c)
    BY <1>1 DEF Place, None
  <1>3. Abs!At(AbsEnv, IdOf(c)) = Node(c)
    BY NodeAt
  <1>4. Node(c).vals[w] = AbsValue(Vals(c)[w]) /\ Node(c).parent = Place(Parent(c))
    BY NodeIs DEF Place
  <1>5. AbsValue(Vals(c)[w]) # Unbound <=> Vals(c)[w] # Unbound
    BY HoldersLead, AbsValueIs
  <1> HIDE DEF Place
  <1> QED
    BY <1>2, <1>3, <1>4, <1>5 DEF NextPlace

(* There are finitely many environments, as heap and stack are finite.     *)
LEMMA AbsEnvIsFinite ==
  ASSUME Sound, Identified
  PROVE  IsFiniteSet(Holders) /\ IsFiniteSet(AbsEnv)
  <1> DEFINE H == {c \in Holders : c[1] = "heap"}
             K == {c \in Holders : c[1] = "stack"}
             f == [c \in H |-> c[2]]
             g == [c \in K |-> c[2]]
             h == [n \in AbsEnv |-> CHOOSE c \in Holders : Node(c) = n]
  <1>1. \A c \in Holders : Context(c)
    BY HoldersAre
  <1>2. DOMAIN obj \subseteq Addr /\ Len(rs) \in Nat
    BY Types DEF Sound
  <1>3. IsFiniteSet(H)
    <2>1. f \in Injection(H, Addr)
      BY <1>1, <1>2 DEF Injection, IsInjective, Context
    <2> HIDE DEF f, H
    <2> QED
      BY <2>1, FS_Injection, ClosuresAssumption
  <1>4. IsFiniteSet(K)
    <2>1. g \in Injection(K, 1 .. Len(rs))
      BY <1>1 DEF Injection, IsInjective, Context
    <2>2. IsFiniteSet(1 .. Len(rs))
      BY <1>2, FS_Interval
    <2> HIDE DEF g, K
    <2> QED
      BY <2>1, <2>2, FS_Injection
  <1>5. IsFiniteSet(Holders)
    <2>1. IsFiniteSet((H \cup K) \cup {Global})
      <3> HIDE DEF H, K
      <3> QED
        BY <1>3, <1>4, FS_Union, FS_AddElement, Zenon
    <2>2. Holders \subseteq (H \cup K) \cup {Global}
      BY <1>1 DEF Context
    <2> HIDE DEF H, K
    <2> QED
      BY <2>1, <2>2, FS_Subset
  <1>6. h \in Injection(AbsEnv, Holders)
    <2>1. \A n \in AbsEnv : \E c \in Holders : Node(c) = n
      BY DEF AbsEnv
    <2> HIDE DEF Holders, Node, AbsEnv
    <2>2. \A n \in AbsEnv : h[n] \in Holders /\ Node(h[n]) = n
      BY <2>1
    <2>3. h \in [AbsEnv -> Holders]
      BY <2>2
    <2> HIDE DEF h
    <2> QED
      BY <2>2, <2>3 DEF Injection, IsInjective
  <1> HIDE DEF h
  <1> QED
    BY <1>5, <1>6, FS_Injection

(* A word's home is the home of the environments' chain. *)
LEMMA HomeMeans ==
  ASSUME Sound, Identified, NEW w \in Word
  PROVE  Home(w) \in Holders \cup {None} /\ Abs!Home(w) = Place(Home(w))
  <1> DEFINE S == {c \in Chain : c # None /\ Vals(c)[w] = Unbound}
             N == Cardinality(Addr) + 3
             E == Cardinality(AbsEnv)
             K == Cardinality(S)
  <1>1. Chain \subseteq Holders \cup {None}
    <2>1. ctx \in Holders
      BY NamesAreHolders
    <2> QED
      BY <2>1 DEF Chain, Holders, HeapCtxs, HeapContexts
  <1>2. \A c \in Chain : c # None => Context(c) /\ Parent(c) \in Chain /\ Parent(c)[1] # "stack"
    BY <1>1, HoldersAre, ChainFacts
  <1>3. PICK f : /\ Home(w) = f[N]
                 /\ f[0] = ctx
                 /\ \A n \in Nat : f[n] \in Chain
                 /\ \A n \in Nat : f[n + 1] = IF f[n] = None \/ Vals(f[n])[w] # Unbound
                                              THEN f[n] ELSE Parent(f[n])
    <2>1. ctx \in Chain
      BY DEF Chain
    <2> QED
      BY <1>2, <2>1, HomeSteps
  <1>4. PICK r \in [Addr -> Nat] : Older(obj, r)
    BY DEF Identified, Ranked
  <1>5. DOMAIN obj \subseteq Addr
    BY Types DEF Sound
  <1> DEFINE up(c) == IF Parent(c)[1] = "heap" THEN r[Parent(c)[2]] + 2 ELSE 1
             rank == [c \in S |-> IF c[1] = "heap" THEN r[c[2]] + 1 ELSE IF c[1] = "stack" THEN up(c) ELSE 0]
  <1>6. \A c \in S : c[1] = "heap" => c[2] \in DOMAIN obj /\ obj[c[2]].kind = "ctx" /\ r[c[2]] \in Nat
    BY <1>2, <1>5 DEF Context
  <1>7. \A c \in S : up(c) \in Nat
    <2> SUFFICES ASSUME NEW c \in S, Parent(c)[1] = "heap" PROVE r[Parent(c)[2]] + 2 \in Nat
      OBVIOUS
    <2>1. Parent(c) # None
      BY NamesAreRefs
    <2>2. Context(Parent(c))
      BY <1>2, <2>1
    <2>3. Parent(c)[2] \in Addr
      BY <1>5, <2>2 DEF Context
    <2> QED
      BY <2>3
  <1>8. rank \in [S -> Nat]
    <2> HIDE DEF S, up
    <2> QED
      BY <1>6, <1>7
  <1>9. ASSUME NEW c \in S, Parent(c) \in S PROVE rank[Parent(c)] < rank[c]
    <2> DEFINE p == Parent(c)
    <2>1. Context(c) /\ Context(p) /\ p[1] # "stack" /\ p # None
      BY <1>2, <1>9
    <2>2. rank[p] = IF p[1] = "heap" THEN r[p[2]] + 1 ELSE 0
      BY <1>9, <2>1
    <2>3. p[1] = "heap" => r[p[2]] \in Nat
      BY <1>6, <1>9
    <2>4. CASE c[1] = "stack"
      <3>1. rank[c] = IF p[1] = "heap" THEN r[p[2]] + 2 ELSE 1
        BY <2>4
      <3> HIDE DEF p, rank
      <3> QED
        BY <2>2, <2>3, <3>1 DEF p
    <2>5. CASE c[1] = "heap"
      <3>1. rank[c] = r[c[2]] + 1 /\ r[c[2]] \in Nat
        BY <1>6, <2>5
      <3>2. p = obj[c[2]].link
        BY <2>5 DEF Parent
      <3>3. p[1] = "heap" => r[p[2]] < r[c[2]]
        BY <1>4, <1>6, <2>5, <3>2 DEF Older
      <3> HIDE DEF p, rank
      <3> QED
        BY <2>2, <2>3, <3>1, <3>3 DEF p
    <2>6. CASE c = Global
      <3>1. p = None
        BY <2>6, NamesAreRefs DEF Parent
      <3> QED
        BY <2>1, <3>1
    <2> QED
      BY <2>1, <2>4, <2>5, <2>6 DEF Context
  <1>10. IsFiniteSet(S) /\ K <= N /\ N \in Nat
    <2> DEFINE U == S \ {ctx, Global}
               g == [c \in U |-> c[2]]
    <2>1. g \in Injection(U, Addr)
      <3>1. \A c \in U : \E a \in Addr : c = Managed(a)
        BY <1>5 DEF Chain, HeapContexts
      <3>2. \A c \in U : c[2] \in Addr /\ c = Managed(c[2])
        BY <3>1, NamesAreRefs
      <3> HIDE DEF U
      <3> QED
        BY <3>2 DEF Injection, IsInjective
    <2> DEFINE X == U \cup {ctx}
               Y == X \cup {Global}
    <2>2. S \subseteq Y
      OBVIOUS
    <2> HIDE DEF U, g, S
    <2>3. IsFiniteSet(U) /\ Cardinality(U) <= Cardinality(Addr)
      BY <2>1, FS_Injection, ClosuresAssumption
    <2>4. Cardinality(Addr) \in Nat /\ Cardinality(U) \in Nat
      BY <2>3, FS_CardinalityType, ClosuresAssumption
    <2>5. IsFiniteSet(X) /\ (Cardinality(X) = Cardinality(U) \/ Cardinality(X) = Cardinality(U) + 1)
      BY <2>3, FS_AddElement
    <2> HIDE DEF X
    <2>6. IsFiniteSet(Y) /\ (Cardinality(Y) = Cardinality(X) \/ Cardinality(Y) = Cardinality(X) + 1)
      BY <2>5, FS_AddElement
    <2> HIDE DEF Y
    <2>7. IsFiniteSet(S) /\ K <= Cardinality(Y)
      BY <2>2, <2>6, FS_Subset
    <2>8. K \in Nat
      BY <2>7, FS_CardinalityType
    <2> QED
      BY <2>3, <2>4, <2>5, <2>6, <2>7, <2>8
  <1>11. K <= E /\ E \in Nat /\ K \in Nat
    <2> DEFINE g == [c \in S |-> Node(c)]
    <2>1. S \subseteq Holders
      BY <1>1
    <2> HIDE DEF S
    <2>2. \A c \in S : Node(c) \in AbsEnv
      BY <2>1 DEF AbsEnv
    <2>3. \A c, d \in S : Node(c) = Node(d) => c = d
      <3>1. \A c : Node(c).id = IdOf(c)
        BY NodeIs
      <3> QED
        BY <2>1, <3>1, OneHolder
    <2> HIDE DEF Node
    <2>4. g \in Injection(S, AbsEnv)
      BY <2>2, <2>3 DEF Injection, IsInjective
    <2> HIDE DEF g
    <2>5. IsFiniteSet(AbsEnv)
      BY AbsEnvIsFinite
    <2> QED
      BY <1>10, <2>4, <2>5, FS_Injection, FS_CardinalityType
  <1>12. \A n \in Nat : f[n] \in S => f[n + 1] = Parent(f[n])
    BY <1>3
  <1>13. \A n \in Nat : f[n] \notin S => f[n + 1] = f[n]
    BY <1>3
  <1>14. f[N] = f[E]
    <2> HIDE DEF S, rank, up
    <2>1. \A n \in Nat : f[n] \in S => f[n + 1] \notin S \/ rank[f[n + 1]] < rank[f[n]]
      BY <1>9, <1>12
    <2>2. \A n \in Nat : n >= Cardinality(S) => f[n] = f[Cardinality(S)]
      BY <1>8, <1>10, <1>13, <2>1, Settles
    <2> QED
      BY <1>10, <1>11, <2>2
  <1> DEFINE h == [n \in Nat |-> Place(f[n])]
  <1>15. h = [n \in Nat |-> IF n = 0 THEN <<"env", IdOf(ctx)>> ELSE NextPlace(w, h[n - 1])]
    <2>1. h[0] = <<"env", IdOf(ctx)>>
      <3>1. ctx # None
        BY Types DEF Sound
      <3> QED
        BY <1>3, <3>1 DEF Place
    <2>2. ASSUME NEW n \in Nat PROVE h[n + 1] = NextPlace(w, h[n])
      <3>1. h[n + 1] = Place(f[n + 1]) /\ h[n] = Place(f[n])
        OBVIOUS
      <3> HIDE DEF h
      <3>2. CASE f[n] = None
        <4>1. Place(None) = None /\ NextPlace(w, None) = None
          BY DEF Place, NextPlace
        <4>2. f[n + 1] = None
          BY <1>3, <3>2
        <4> QED
          BY <3>1, <3>2, <4>1, <4>2
      <3>3. CASE f[n] # None
        <4>1. f[n] \in Holders
          BY <1>1, <1>3, <3>3
        <4>2. f[n + 1] = IF Vals(f[n])[w] # Unbound THEN f[n] ELSE Parent(f[n])
          BY <1>3, <3>3
        <4> QED
          BY <3>1, <4>1, <4>2, NextPlaceIs
      <3> QED
        BY <3>2, <3>3
    <2>3. \A n \in Nat : n # 0 => h[n] = NextPlace(w, h[n - 1])
      <3> SUFFICES ASSUME NEW n \in Nat, n # 0 PROVE h[n] = NextPlace(w, h[n - 1])
        OBVIOUS
      <3>1. n - 1 \in Nat /\ (n - 1) + 1 = n
        OBVIOUS
      <3> HIDE DEF h
      <3> QED
        BY <2>2, <3>1
    <2>4. h = [n \in Nat |-> h[n]]
      OBVIOUS
    <2> HIDE DEF h
    <2> QED
      BY <2>1, <2>3, <2>4
  <1>16. Abs!Home(w) = h[E]
    <2> HIDE DEF h
    <2> QED
      BY <1>11, <1>15, AbsHomeIs
  <1>17. h[E] = Place(f[E])
    BY <1>11
  <1>18. Home(w) \in Holders \cup {None}
    BY <1>1, <1>3, <1>10
  <1> HIDE DEF h
  <1> QED
    BY <1>3, <1>14, <1>16, <1>17, <1>18

-----------------------------------------------------------------------------
(* Sequences, item by item.                                                *)

Items(f, n) == f = [i \in 1 .. n |-> f[i]]

(* A function on 1 .. n is a sequence of that length.                      *)
LEMMA SequenceOf ==
  ASSUME NEW n \in Nat, NEW f, Items(f, n)
  PROVE  Len(f) = n /\ \E S : f \in Seq(S)
  <1> DEFINE S == {f[i] : i \in 1 .. n}
  <1>1. f \in [1 .. n -> S]
    BY DEF Items
  <1> HIDE DEF S
  <1>2. f \in Seq(S) /\ Len(f) = n
    BY <1>1
  <1> QED
    BY <1>2

(* What agrees with f on n places and has one more is f with that appended. *)
LEMMA AppendedTo ==
  ASSUME NEW n \in Nat, NEW f, Items(f, n), NEW g, Items(g, n + 1), \A i \in 1 .. n : g[i] = f[i]
  PROVE  g = Append(f, g[n + 1])
  <1>1. Len(f) = n
    BY SequenceOf
  <1>2. Append(f, g[n + 1]) = [i \in 1 .. n + 1 |-> IF i = n + 1 THEN g[n + 1] ELSE f[i]]
    BY <1>1
  <1>3. \A i \in 1 .. n + 1 : i \in 1 .. n \/ i = n + 1
    OBVIOUS
  <1>4. \A i \in 1 .. n + 1 : g[i] = IF i = n + 1 THEN g[n + 1] ELSE f[i]
    BY <1>3
  <1>5. g = [i \in 1 .. n + 1 |-> g[i]]
    BY DEF Items
  <1> QED
    BY <1>2, <1>4, <1>5

(* What agrees with f on its first m places, and has no more, is f cut.    *)
LEMMA CutTo ==
  ASSUME NEW n \in Nat, NEW f, Items(f, n), NEW m \in 0 .. n,
         NEW g, Items(g, m), \A i \in 1 .. m : g[i] = f[i]
  PROVE  g = SubSeq(f, 1, m)
  <1>1. PICK S : f \in Seq(S)
    BY SequenceOf
  <1>2. Len(f) = n
    BY SequenceOf
  <1>3. SubSeq(f, 1, m) \in Seq(S) /\ Len(SubSeq(f, 1, m)) = m /\ \A i \in 1 .. m : SubSeq(f, 1, m)[i] = f[i]
    BY <1>1, <1>2, CutOff
  <1>4. SubSeq(f, 1, m) = [i \in 1 .. m |-> SubSeq(f, 1, m)[i]]
    BY <1>3
  <1>5. g = [i \in 1 .. m |-> g[i]]
    BY DEF Items
  <1> QED
    BY <1>3, <1>4, <1>5

(* What agrees with f but for place k is f with that place replaced.       *)
LEMMA ReplacedIn ==
  ASSUME NEW n \in Nat, NEW f, Items(f, n), NEW k \in 1 .. n,
         NEW g, Items(g, n), \A i \in 1 .. n : i # k => g[i] = f[i]
  PROVE  g = [f EXCEPT ![k] = g[k]]
  BY DEF Items

-----------------------------------------------------------------------------
(* Environments over given objects, records and global values, so that     *)
(* they can be compared before and after a step.                           *)

IdIn(O, R, c) == CASE c[1] = "stack" -> R[c[2]].env
                   [] c[1] = "heap"  -> O[c[2]].env
                   [] OTHER          -> 0

ValueIn(O, R, v) == IF v[1] = "clo" THEN <<"clo", IdIn(O, R, O[v[2]].link)>> ELSE v

ParentIn(O, R, c) == CASE c[1] = "stack" -> R[c[2]].link
                       [] c[1] = "heap"  -> O[c[2]].link
                       [] OTHER          -> None

ValsIn(O, R, G, c) == CASE c[1] = "stack" -> R[c[2]].vals
                        [] c[1] = "heap"  -> O[c[2]].vals
                        [] OTHER          -> G

NodeOf(O, R, id, p, vals) ==
    [id |-> id, parent |-> IF p = None THEN None ELSE <<"env", IdIn(O, R, p)>>,
     vals |-> [w \in Word |-> ValueIn(O, R, vals[w])]]

NodeIn(O, R, G, c) == NodeOf(O, R, IdIn(O, R, c), ParentIn(O, R, c), ValsIn(O, R, G, c))

WaitsIn(O, R, r) == IF r.body THEN IdIn(O, R, r.caller) ELSE IdIn(O, R, O[r.clo].link)

FrameIn(O, R, r) == [body |-> r.body, sp |-> r.sp, env |-> WaitsIn(O, R, r)]

StandsFor ==
    /\ AbsEnv = {NodeIn(obj, rs, global, c) : c \in Holders}
    /\ IdOf(ctx) = IdIn(obj, rs, ctx)
    /\ AbsStk = [i \in 1 .. Len(rs) |-> FrameIn(obj, rs, rs[i])]
    /\ AbsDs = [i \in 1 .. Len(ds) |-> ValueIn(obj, rs, ds[i])]

(* The operators of Closures are these, over the state's own objects.      *)
LEMMA InNow ==
  /\ \A c : /\ IdOf(c) = IdIn(obj, rs, c) /\ Parent(c) = ParentIn(obj, rs, c)
            /\ Vals(c) = ValsIn(obj, rs, global, c) /\ Node(c) = NodeIn(obj, rs, global, c)
  /\ \A v : AbsValue(v) = ValueIn(obj, rs, v)
  /\ \A r : WaitsFor(r) = WaitsIn(obj, rs, r)
  <1>1. \A c : IdOf(c) = IdIn(obj, rs, c)
    BY DEF IdOf, IdIn
  <1>2. \A c : Parent(c) = ParentIn(obj, rs, c) /\ Vals(c) = ValsIn(obj, rs, global, c)
    BY DEF Parent, ParentIn, Vals, ValsIn
  <1>3. \A v : AbsValue(v) = ValueIn(obj, rs, v)
    BY <1>1 DEF AbsValue, ValueIn
  <1>4. \A r : WaitsFor(r) = WaitsIn(obj, rs, r)
    BY <1>1 DEF WaitsFor, WaitsIn
  <1>5. \A c : Node(c) = NodeIn(obj, rs, global, c)
    BY <1>1, <1>2, <1>3 DEF Node, NodeIn, NodeOf
  <1> QED
    BY <1>1, <1>2, <1>3, <1>4, <1>5

LEMMA ItStandsFor == StandsFor
  BY InNow DEF StandsFor, AbsEnv, AbsStk, AbsDs, FrameIn

(* What holders are and lead to, in one formula. *)
HolderFacts ==
    /\ \A c \in Holders :
          /\ Context(c)
          /\ c[1] = "stack" => NoCopyOf(obj, rs, c) /\ NamedByFrame(rs, ctx, c)
          /\ ValsIn(obj, rs, global, c) \in [Word -> Values]
          /\ \A w \in Word : Right(obj, ValsIn(obj, rs, global, c)[w])
          /\ ParentIn(obj, rs, c) \in CtxRefs /\ Right(obj, ParentIn(obj, rs, c))
          /\ ParentIn(obj, rs, c)[1] # "stack"
    /\ ctx \in Holders
    /\ \A i \in 1 .. Len(rs) : IF rs[i].body THEN rs[i].caller \in Holders
                                             ELSE /\ rs[i].clo \in DOMAIN obj
                                                  /\ obj[rs[i].clo].link \in Holders
                                                  /\ obj[rs[i].clo].link[1] # "stack"

(* The facts about holders follow from the two invariants.                 *)
LEMMA TheseAreFacts == Sound /\ Identified => HolderFacts /\ AbsClosed
  <1> SUFFICES ASSUME Sound, Identified PROVE HolderFacts /\ AbsClosed
    OBVIOUS
  <1>1. ASSUME NEW c \in Holders
        PROVE  /\ Context(c) /\ (c[1] = "stack" => NoCopyOf(obj, rs, c) /\ NamedByFrame(rs, ctx, c))
               /\ ValsIn(obj, rs, global, c) \in [Word -> Values]
               /\ \A w \in Word : Right(obj, ValsIn(obj, rs, global, c)[w])
               /\ ParentIn(obj, rs, c) \in CtxRefs /\ Right(obj, ParentIn(obj, rs, c))
               /\ ParentIn(obj, rs, c)[1] # "stack"
    BY <1>1, HoldersAre, HoldersLead, InNow
  <1> QED
    BY <1>1, NamesAreHolders, AbsIsClosed DEF HolderFacts

(* They hold in the next state as well.                                    *)
LEMMA NextFacts == Sound' /\ Identified' => HolderFacts' /\ AbsClosed' /\ StandsFor'
  <1>1. Sound /\ Identified => HolderFacts /\ AbsClosed
    BY TheseAreFacts
  <1>2. StandsFor
    BY ItStandsFor
  <1> QED
    BY <1>1, <1>2, PTL

(* A step whose environments are among e is a Becomes(e, ...): what is left *)
(* is closed, as it is in every state.                                     *)
LEMMA BecomesIs ==
  ASSUME Sound', Identified', NEW e, AbsEnv' \subseteq e,
         NEW c, c = IdOf(ctx)', NEW k, k = AbsStk', NEW d, d = AbsDs'
  PROVE  Abs!Becomes(e, c, k, d)
  <1>1. AbsClosed'
    BY NextFacts
  <1>2. Abs!Closed(AbsEnv', Abs!Roots(c, k, d))
    BY <1>1 DEF AbsClosed
  <1> QED
    BY <1>2 DEF Abs!Becomes

-----------------------------------------------------------------------------
(* What a step leaves as it was.                                           *)

(* Contexts keep their environment and link, and closures their link.      *)
Kept(O, P) ==
    \A a \in DOMAIN O \cap DOMAIN P :
        /\ P[a].kind = O[a].kind
        /\ O[a].kind = "ctx" => P[a].env = O[a].env
        /\ O[a].kind = "ctx" \/ O[a].link # None => P[a].link = O[a].link

RecordKept(R, Q, i) ==
    /\ Q[i].body = R[i].body /\ Q[i].sp = R[i].sp
    /\ ~R[i].body => Q[i].clo = R[i].clo
    /\ R[i].body => Q[i].caller = R[i].caller /\ Q[i].env = R[i].env /\ Q[i].link = R[i].link

(* The identity of a context that stays.                                   *)
LEMMA IdKept ==
  ASSUME NEW O, NEW P, NEW R, NEW Q, Kept(O, P), NEW c,
         c[1] = "heap" => Right(O, c) /\ Right(P, c),
         c[1] = "stack" => Q[c[2]].env = R[c[2]].env
  PROVE  IdIn(P, Q, c) = IdIn(O, R, c)
  BY DEF Kept, Right, IdIn

LEMMA HeapIdKept ==
  ASSUME NEW O, NEW P, NEW R, NEW Q, Kept(O, P), NEW c, Right(O, c), Right(P, c), c[1] # "stack"
  PROVE  IdIn(P, Q, c) = IdIn(O, R, c)
  BY DEF Kept, Right, IdIn

(* The value of a closure whose object stays.                              *)
LEMMA ValueKept ==
  ASSUME NEW O, NEW P, NEW R, NEW Q, Kept(O, P), ObjectsRight(O), ObjectsRight(P), NoStackInHeap(O),
         NEW v, Right(O, v), Right(P, v)
  PROVE  ValueIn(P, Q, v) = ValueIn(O, R, v)
  <1> SUFFICES ASSUME v[1] = "clo" PROVE IdIn(P, Q, P[v[2]].link) = IdIn(O, R, O[v[2]].link)
    BY DEF ValueIn
  <1> DEFINE l == O[v[2]].link
  <1>1. v[2] \in DOMAIN O /\ v[2] \in DOMAIN P /\ l # None
    BY DEF Right
  <1>2. P[v[2]].link = l
    BY <1>1 DEF Kept
  <1>3. Right(O, l) /\ Right(P, l) /\ l[1] # "stack"
    BY <1>1, <1>2 DEF ObjectsRight, NoStackInHeap
  <1> HIDE DEF l
  <1>4. IdIn(P, Q, l) = IdIn(O, R, l)
    BY <1>3, HeapIdKept
  <1> QED
    BY <1>2, <1>4 DEF l

(* A node whose parent and values stay.                                    *)
LEMMA NodeKept ==
  ASSUME NEW O, NEW P, NEW R, NEW Q, Kept(O, P), ObjectsRight(O), ObjectsRight(P), NoStackInHeap(O),
         NEW id, NEW p, Right(O, p), Right(P, p), p[1] # "stack",
         NEW vals, \A w \in Word : Right(O, vals[w]) /\ Right(P, vals[w])
  PROVE  NodeOf(P, Q, id, p, vals) = NodeOf(O, R, id, p, vals)
  <1>1. IdIn(P, Q, p) = IdIn(O, R, p)
    BY HeapIdKept
  <1>2. \A w \in Word : ValueIn(P, Q, vals[w]) = ValueIn(O, R, vals[w])
    BY ValueKept
  <1>3. [w \in Word |-> ValueIn(P, Q, vals[w])] = [w \in Word |-> ValueIn(O, R, vals[w])]
    BY <1>2
  <1> QED
    BY <1>1, <1>3, Zenon DEF NodeOf

(* A holder that keeps its values is the same environment after the step.  *)
LEMMA HolderKept ==
  ASSUME Sound, Identified, Sound', Identified', Kept(obj, obj'),
         NEW c, c \in Holders, c \in Holders',
         c[1] = "stack" => rs'[c[2]].env = rs[c[2]].env,
         ParentIn(obj', rs', c) = ParentIn(obj, rs, c),
         ValsIn(obj', rs', global', c) = ValsIn(obj, rs, global, c)
  PROVE  /\ IdIn(obj', rs', c) = IdIn(obj, rs, c)
         /\ NodeIn(obj', rs', global', c) = NodeIn(obj, rs, global, c)
  <1> DEFINE p == ParentIn(obj, rs, c)
             vals == ValsIn(obj, rs, global, c)
  <1>1. HolderFacts /\ HolderFacts'
    BY TheseAreFacts, NextFacts
  <1>2. c[1] = "heap" => Right(obj, c) /\ Right(obj', c)
    <2>1. Context(c) /\ Context(c)'
      BY <1>1 DEF HolderFacts
    <2> QED
      BY <2>1 DEF Context, Right
  <1>3. IdIn(obj', rs', c) = IdIn(obj, rs, c)
    BY <1>2, IdKept
  <1>4. Right(obj, p) /\ p[1] # "stack" /\ \A w \in Word : Right(obj, vals[w])
    BY <1>1 DEF HolderFacts
  <1>5. Right(obj', p) /\ \A w \in Word : Right(obj', vals[w])
    BY <1>1 DEF HolderFacts
  <1>6. ObjectsRight(obj) /\ ObjectsRight(obj') /\ NoStackInHeap(obj)
    BY DEF Sound, NothingDangles
  <1> HIDE DEF p, vals
  <1>7. NodeOf(obj', rs', IdIn(obj, rs, c), p, vals) = NodeOf(obj, rs, IdIn(obj, rs, c), p, vals)
    BY <1>4, <1>5, <1>6, NodeKept
  <1> QED
    BY <1>3, <1>7 DEF NodeIn, p, vals

(* So is what a frame waits for that keeps its caller or its closure.      *)
LEMMA FrameKept ==
  ASSUME Sound, Identified, Sound', Identified', Kept(obj, obj'),
         NEW i \in 1 .. Len(rs), i \in 1 .. Len(rs'),
         \A j \in 1 .. i : RecordKept(rs, rs', j)
  PROVE  FrameIn(obj', rs', rs'[i]) = FrameIn(obj, rs, rs[i])
  <1>1. HolderFacts /\ HolderFacts'
    BY TheseAreFacts, NextFacts
  <1>2. Len(rs) \in Nat
    BY Types DEF Sound
  <1>3. RecordKept(rs, rs', i)
    BY <1>2
  <1>4. CASE rs[i].body
    <2> DEFINE c == rs[i].caller
    <2>1. rs'[i].body /\ rs'[i].caller = c
      BY <1>3, <1>4 DEF RecordKept
    <2>2. c \in Holders
      BY <1>1, <1>4 DEF HolderFacts
    <2>3. rs'[i].caller \in Holders'
      BY <1>1, <2>1 DEF HolderFacts
    <2>4. c[1] = "heap" => Right(obj, c) /\ Right(obj', c)
      <3>1. Right(obj, c)
        BY <1>4 DEF Sound, NothingDangles, RecordsRight
      <3>2. Right(obj', rs'[i].caller)
        BY <2>1 DEF Sound, NothingDangles, RecordsRight
      <3> QED
        BY <2>1, <3>1, <3>2
    <2>5. c[1] = "stack" => c[2] \in 1 .. i - 1 /\ rs[c[2]].body
      BY <1>4 DEF Sound, StackOwned, Owned
    <2>6. c[1] = "stack" => rs'[c[2]].env = rs[c[2]].env
      <3> SUFFICES ASSUME c[1] = "stack" PROVE rs'[c[2]].env = rs[c[2]].env
        OBVIOUS
      <3>1. RecordKept(rs, rs', c[2])
        BY <1>2, <2>5
      <3> QED
        BY <2>5, <3>1 DEF RecordKept
    <2> HIDE DEF c
    <2>7. IdIn(obj', rs', c) = IdIn(obj, rs, c)
      BY <2>4, <2>6, IdKept
    <2> QED
      BY <1>3, <1>4, <2>1, <2>7 DEF FrameIn, WaitsIn, RecordKept, c
  <1>5. CASE ~rs[i].body
    <2> DEFINE a == rs[i].clo
               l == obj[a].link
    <2>1. ~rs'[i].body /\ rs'[i].clo = a
      BY <1>3, <1>5 DEF RecordKept
    <2>2. Right(obj, Clo(a))
      BY <1>5 DEF Sound, NothingDangles, RecordsRight
    <2>3. Right(obj', Clo(rs'[i].clo))
      BY <2>1 DEF Sound, NothingDangles, RecordsRight
    <2>4. a \in DOMAIN obj /\ a \in DOMAIN obj' /\ l # None
      BY <2>1, <2>2, <2>3, ValueIs DEF Right
    <2>5. obj'[a].link = l
      BY <2>4 DEF Kept
    <2>6. Right(obj, l) /\ Right(obj', obj'[a].link) /\ l[1] # "stack"
      BY <2>4 DEF Sound, NothingDangles, ObjectsRight, NoStackInHeap
    <2>7. IdIn(obj', rs', l) = IdIn(obj, rs, l)
      BY <2>5, <2>6, HeapIdKept
    <2> HIDE DEF a, l
    <2> QED
      BY <1>3, <1>5, <2>1, <2>5, <2>7 DEF FrameIn, WaitsIn, RecordKept, a, l
  <1> QED
    BY <1>4, <1>5

(* And so are the values of operands. *)
LEMMA OperandKept ==
  ASSUME Sound, Identified, Sound', Identified', Kept(obj, obj'),
         NEW i \in 1 .. Len(ds), NEW j \in 1 .. Len(ds'), ds'[j] = ds[i]
  PROVE  ValueIn(obj', rs', ds'[j]) = ValueIn(obj, rs, ds[i])
  <1> DEFINE v == ds[i]
  <1>1. Right(obj, v) /\ ds'[j] = v
    BY DEF Sound, NothingDangles, OperandsRight
  <1>2. Right(obj', ds'[j])
    BY DEF Sound, NothingDangles, OperandsRight
  <1>3. ObjectsRight(obj) /\ ObjectsRight(obj') /\ NoStackInHeap(obj)
    BY DEF Sound, NothingDangles
  <1> HIDE DEF v
  <1>4. ValueIn(obj', rs', v) = ValueIn(obj, rs, v)
    BY <1>1, <1>2, <1>3, ValueKept
  <1> QED
    BY <1>1, <1>4 DEF v

-----------------------------------------------------------------------------
(* The steps of the evaluator on its operands.                             *)

(* The converse of HoldersAre: a context without a copy is a holder.       *)
LEMMA IsHolder ==
  ASSUME Sound, Identified, NEW c, Context(c), c[1] = "stack" => NoCopyOf(obj, rs, c)
  PROVE  c \in Holders
  <1>1. CASE c[1] = "stack"
    BY <1>1, HoldersAre DEF Context
  <1>2. CASE c[1] # "stack"
    <2>1. Right(obj, c)
      BY <1>2, NamesAreRefs DEF Context, Right
    <2> QED
      BY <1>2, <2>1, HoldersAre DEF Context
  <1> QED
    BY <1>1, <1>2

(* A step that changes operands only.                                      *)
LEMMA OperandsOnly ==
  ASSUME Sound, Identified, Sound', Identified', UNCHANGED <<obj, global, rs, ctx>>,
         NEW d, d = AbsDs'
  PROVE  Abs!Becomes(AbsEnv, IdOf(ctx), AbsStk, d)
  <1>1. StandsFor /\ StandsFor'
    BY ItStandsFor, NextFacts
  <1>2. Holders' = Holders
    BY DEF Holders, HeapCtxs, StackCtxs, IdOf
  <1>3. AbsEnv' = AbsEnv
    BY <1>1, <1>2 DEF StandsFor
  <1>4. IdOf(ctx)' = IdOf(ctx) /\ AbsStk' = AbsStk
    BY <1>1 DEF StandsFor
  <1> QED
    BY <1>3, <1>4, BecomesIs

(* The abstract stacks are as long as the stacks.                          *)
LEMMA AbsBaseIs ==
  ASSUME Sound
  PROVE  Abs!Base = Base /\ Len(AbsDs) = Len(ds) /\ Len(AbsStk) = Len(rs)
  <1>1. Len(rs) \in Nat /\ Len(ds) \in Nat /\ rs \in Seq(Record)
    BY Types DEF Sound
  <1>2. Len(AbsDs) = Len(ds)
    BY <1>1 DEF AbsDs
  <1>3. Len(AbsStk) = Len(rs)
    BY <1>1 DEF AbsStk
  <1>4. CASE rs = <<>>
    <2>1. AbsStk = <<>>
      BY <1>4 DEF AbsStk
    <2> QED
      BY <1>2, <1>3, <1>4, <2>1 DEF Abs!Base, Base
  <1>5. CASE rs # <<>>
    <2>1. Len(rs) \in 1 .. Len(rs)
      BY <1>1, <1>5, EmptySeq
    <2>2. AbsStk # <<>>
      BY <1>3, <2>1
    <2>3. AbsStk[Len(rs)].sp = rs[Len(rs)].sp
      BY <2>1 DEF AbsStk
    <2> QED
      BY <1>2, <1>3, <1>5, <2>2, <2>3 DEF Abs!Base, Base, Top
  <1> QED
    BY <1>4, <1>5

(* A push of v. *)
LEMMA PushedIs ==
  ASSUME Sound, Identified, Sound', Identified', UNCHANGED <<obj, rs>>, NEW v, ds' = Append(ds, v)
  PROVE  AbsDs' = Append(AbsDs, ValueIn(obj, rs, v))
  <1> DEFINE n == Len(ds)
             g == [i \in 1 .. n + 1 |-> ValueIn(obj, rs, Append(ds, v)[i])]
             f == [i \in 1 .. n |-> ValueIn(obj, rs, ds[i])]
  <1>1. ds \in Seq(Values) /\ n \in Nat
    BY Types DEF Sound
  <1>2. Len(Append(ds, v)) = n + 1 /\ Append(ds, v)[n + 1] = v /\ \A i \in 1 .. n : Append(ds, v)[i] = ds[i]
    BY <1>1
  <1>3. AbsDs' = g /\ AbsDs = f
    BY <1>2, ItStandsFor, NextFacts DEF StandsFor
  <1> HIDE DEF n
  <1>4. Items(f, n) /\ Items(g, n + 1)
    BY DEF Items
  <1>5. \A i \in 1 .. n : g[i] = f[i]
    BY <1>1, <1>2
  <1>6. n + 1 \in 1 .. n + 1
    BY <1>1
  <1>7. g[n + 1] = ValueIn(obj, rs, v)
    BY <1>2, <1>6
  <1> HIDE DEF f, g
  <1>8. g = Append(f, g[n + 1])
    BY <1>1, <1>4, <1>5, AppendedTo
  <1> QED
    BY <1>3, <1>7, <1>8

(* A push of a scalar is one in the abstract program.                      *)
LEMMA PushScalarMapped ==
  ASSUME Sound, Identified, Sound', Identified', PushScalar
  PROVE  Abs!PushScalar
  <1>1. UNCHANGED <<obj, global, rs, ctx>> /\ ds' = Append(ds, Scalar)
    BY DEF PushScalar, Push, registers
  <1>2. ValueIn(obj, rs, Scalar) = Scalar
    BY ValueIs DEF ValueIn
  <1>3. AbsDs' = Append(AbsDs, Scalar)
    BY <1>1, <1>2, PushedIs
  <1> QED
    BY <1>1, <1>3, OperandsOnly DEF Abs!PushScalar, Abs!Scalar, Scalar

(* The value a word has. *)
LEMMA ValueMeans ==
  ASSUME Sound, Identified, NEW w \in Word, Home(w) # None
  PROVE  /\ Abs!Home(w) # Abs!NoEnv /\ Abs!Home(w)[2] = IdOf(Home(w))
         /\ Home(w) \in Holders
         /\ Vals(Home(w))[w] \in Values /\ Right(obj, Vals(Home(w))[w])
         /\ Abs!ValueOf(w) = AbsValue(Vals(Home(w))[w])
  <1> DEFINE h == Home(w)
  <1>1. h \in Holders /\ Abs!Home(w) = Place(h)
    BY HomeMeans
  <1>2. Place(h) = <<"env", IdOf(h)>>
    BY DEF Place
  <1> HIDE DEF h
  <1>3. Abs!Home(w) # Abs!NoEnv /\ Abs!Home(w)[2] = IdOf(h)
    BY <1>1, <1>2 DEF Abs!NoEnv
  <1>4. Abs!At(AbsEnv, IdOf(h)).vals = [u \in Word |-> AbsValue(Vals(h)[u])]
    BY <1>1, NodeAt, NodeIs
  <1>5. Abs!ValueOf(w) = AbsValue(Vals(h)[w])
    BY <1>3, <1>4 DEF Abs!ValueOf
  <1> QED
    BY <1>1, <1>3, <1>5, HoldersLead DEF h

(* A fetch pushes the value that the nearest abstract environment has.     *)
LEMMA FetchMapped ==
  ASSUME Sound, Identified, Sound', Identified', NEW w \in Word, Fetch(w)
  PROVE  Abs!Fetch(w)
  <1> DEFINE v == Vals(Home(w))[w]
  <1>1. UNCHANGED <<obj, global, rs, ctx>> /\ ds' = Append(ds, v) /\ Home(w) # None
    BY DEF Fetch, Push, registers
  <1>2. ValueIn(obj, rs, v) = Abs!ValueOf(w) /\ Abs!Home(w) # Abs!NoEnv
    BY <1>1, ValueMeans, InNow
  <1> HIDE DEF v
  <1>3. AbsDs' = Append(AbsDs, Abs!ValueOf(w))
    BY <1>1, <1>2, PushedIs
  <1> QED
    BY <1>1, <1>2, <1>3, OperandsOnly DEF Abs!Fetch

(* A drop is one in the abstract program.                                  *)
LEMMA DropMapped ==
  ASSUME Sound, Identified, Sound', Identified', Drop
  PROVE  Abs!Drop
  <1> DEFINE n == Len(ds)
             D == SubSeq(ds, 1, n - 1)
             g == [i \in 1 .. n - 1 |-> ValueIn(obj, rs, D[i])]
             f == [i \in 1 .. n |-> ValueIn(obj, rs, ds[i])]
  <1>1. UNCHANGED <<obj, global, rs, ctx>> /\ ds' = D /\ n > Base
    BY DEF Drop, registers
  <1>2. ds \in Seq(Values) /\ n \in Nat /\ n - 1 \in 0 .. n
    BY <1>1, Types, BaseIs DEF Sound
  <1>3. Len(D) = n - 1 /\ \A i \in 1 .. n - 1 : D[i] = ds[i]
    BY <1>2, CutOff
  <1> HIDE DEF D
  <1>4. AbsDs' = g /\ AbsDs = f
    BY <1>1, <1>3, ItStandsFor, NextFacts DEF StandsFor
  <1> HIDE DEF n
  <1>5. Items(f, n) /\ Items(g, n - 1)
    BY DEF Items
  <1>6. \A i \in 1 .. n - 1 : g[i] = f[i]
    BY <1>2, <1>3
  <1> HIDE DEF f, g
  <1>7. AbsDs' = SubSeq(AbsDs, 1, n - 1)
    BY <1>2, <1>4, <1>5, <1>6, CutTo
  <1>8. Len(AbsDs) = n /\ Abs!Base = Base
    BY AbsBaseIs DEF n
  <1> QED
    BY <1>1, <1>7, <1>8, OperandsOnly DEF Abs!Drop

-----------------------------------------------------------------------------
(* Steps of the heap: they do nothing, or forget environments.             *)

(* A step that leaves holders as they are, but for those in D, makes no    *)
(* other environment.                                                      *)
LEMMA EnvShrinks ==
  ASSUME Sound, Identified, Sound', Identified', Kept(obj, obj'),
         NEW D, \A c \in Holders' : c \in D \/
            /\ c \in Holders
            /\ c[1] = "stack" => rs'[c[2]].env = rs[c[2]].env
            /\ ParentIn(obj', rs', c) = ParentIn(obj, rs, c)
            /\ ValsIn(obj', rs', global', c) = ValsIn(obj, rs, global, c)
  PROVE  AbsEnv' \subseteq AbsEnv \cup {NodeIn(obj', rs', global', c) : c \in D}
  <1>1. StandsFor /\ StandsFor'
    BY ItStandsFor, NextFacts
  <1> SUFFICES ASSUME NEW c \in Holders', c \notin D
               PROVE  NodeIn(obj', rs', global', c) \in AbsEnv
    BY <1>1 DEF StandsFor
  <1>2. NodeIn(obj', rs', global', c) = NodeIn(obj, rs, global, c) /\ c \in Holders
    BY HolderKept
  <1> QED
    BY <1>1, <1>2 DEF StandsFor

(* A step that keeps records and operands keeps what they stand for.       *)
LEMMA StacksKept ==
  ASSUME Sound, Identified, Sound', Identified', Kept(obj, obj')
  PROVE  /\ Len(rs') = Len(rs) /\ (\A i \in 1 .. Len(rs) : RecordKept(rs, rs', i)) => AbsStk' = AbsStk
         /\ ds' = ds => AbsDs' = AbsDs
  <1>1. StandsFor /\ StandsFor'
    BY ItStandsFor, NextFacts
  <1>2. Len(rs) \in Nat
    BY Types DEF Sound
  <1>3. ASSUME Len(rs') = Len(rs), \A i \in 1 .. Len(rs) : RecordKept(rs, rs', i) PROVE AbsStk' = AbsStk
    <2>1. \A i \in 1 .. Len(rs) : FrameIn(obj', rs', rs'[i]) = FrameIn(obj, rs, rs[i])
      <3> SUFFICES ASSUME NEW i \in 1 .. Len(rs)
                   PROVE  FrameIn(obj', rs', rs'[i]) = FrameIn(obj, rs, rs[i])
        OBVIOUS
      <3>1. \A j \in 1 .. i : RecordKept(rs, rs', j)
        BY <1>2, <1>3
      <3> QED
        BY <1>3, <3>1, FrameKept
    <2> QED
      BY <1>1, <1>3, <2>1 DEF StandsFor
  <1>4. ASSUME ds' = ds PROVE AbsDs' = AbsDs
    <2>1. \A i \in 1 .. Len(ds) : ValueIn(obj', rs', ds'[i]) = ValueIn(obj, rs, ds[i])
      BY <1>4, OperandKept
    <2> QED
      BY <1>1, <1>4, <2>1 DEF StandsFor
  <1> QED
    BY <1>3, <1>4

(* A step that keeps both stacks, and makes no environment, at most forgets *)
(* some.                                                                   *)
LEMMA QuietStep ==
  ASSUME Sound, Identified, Sound', Identified', Kept(obj, obj'), rs' = rs, ds' = ds,
         AbsEnv' \subseteq AbsEnv, IdOf(ctx)' = IdOf(ctx)
  PROVE  Abs!Forget
  <1>1. AbsStk' = AbsStk /\ AbsDs' = AbsDs
    BY StacksKept DEF RecordKept
  <1> QED
    BY <1>1, BecomesIs DEF Abs!Forget

(* RV_CTX stands for the same environment while it is not assigned.        *)
LEMMA CtxKept ==
  ASSUME Sound, Identified, Sound', Identified', Kept(obj, obj'), rs' = rs, ctx' = ctx
  PROVE  IdOf(ctx)' = IdOf(ctx)
  <1>1. IdOf(ctx) = IdIn(obj, rs, ctx) /\ IdOf(ctx)' = IdIn(obj', rs', ctx')
    BY ItStandsFor, NextFacts DEF StandsFor
  <1> DEFINE c == ctx
  <1>2. Right(obj, c)
    BY DEF Sound, NothingDangles, RegistersRight
  <1>3. Right(obj', c)
    BY DEF Sound, NothingDangles, RegistersRight
  <1> HIDE DEF c
  <1>4. /\ c[1] = "heap" => Right(obj, c) /\ Right(obj', c)
        /\ c[1] = "stack" => rs'[c[2]].env = rs[c[2]].env
    BY <1>2, <1>3
  <1>5. IdIn(obj', rs', c) = IdIn(obj, rs, c)
    BY <1>4 DEF IdIn, Kept, Right
  <1> QED
    BY <1>1, <1>5 DEF c

(* No context changes, comes, or goes while something names it. *)
LEMMA HeapStep ==
  ASSUME Sound, Identified, Sound', Identified', UNCHANGED <<global, rs, ctx>>, Kept(obj, obj'),
         \A a \in DOMAIN obj' : obj'[a].kind = "ctx" => a \in DOMAIN obj /\ obj'[a] = obj[a]
  PROVE  AbsEnv' \subseteq AbsEnv /\ IdOf(ctx)' = IdOf(ctx)
  <1>1. HolderFacts'
    BY NextFacts
  <1>2. ASSUME NEW c \in Holders'
        PROVE  /\ c \in Holders
               /\ c[1] = "stack" => rs'[c[2]].env = rs[c[2]].env
               /\ ParentIn(obj', rs', c) = ParentIn(obj, rs, c)
               /\ ValsIn(obj', rs', global', c) = ValsIn(obj, rs, global, c)
    <2>1. Context(c)'
      BY <1>1 DEF HolderFacts
    <2>2. Context(c)
      BY <2>1 DEF Context
    <2>3. c[1] = "stack" => NoCopyOf(obj, rs, c)
      <3>1. c[1] = "stack" => NamedByFrame(rs', ctx', c)
        BY <1>1 DEF HolderFacts
      <3>2. c[1] = "stack" => NamedByFrame(rs, ctx, c)
        BY <3>1
      <3> QED
        BY <3>2 DEF NamedByFrame, Sound, NoCopies
    <2>4. c \in Holders
      BY <2>2, <2>3, IsHolder
    <2>5. c[1] = "heap" => obj'[c[2]] = obj[c[2]]
      BY <2>1 DEF Context
    <2> QED
      BY <2>4, <2>5 DEF ParentIn, ValsIn
  <1> DEFINE D == {}
  <1>3. AbsEnv' \subseteq AbsEnv \cup {NodeIn(obj', rs', global', c) : c \in D}
    <2> HIDE DEF D
    <2> QED
      BY <1>2, EnvShrinks
  <1>4. AbsEnv' \subseteq AbsEnv
    BY <1>3
  <1> QED
    BY <1>4, CtxKept

(* A collection at most forgets environments.                              *)
LEMMA SweepMapped ==
  ASSUME Sound, Identified, Sound', Identified', Sweep, UNCHANGED <<global, rs, ds, ctx>>
  PROVE  Abs!Forget
  <1>1. \A a \in DOMAIN obj' : a \in DOMAIN obj /\ obj'[a] = obj[a]
    BY LiveIs DEF Sweep
  <1>2. Kept(obj, obj')
    BY <1>1 DEF Kept
  <1> QED
    BY <1>1, <1>2, HeapStep, QuietStep

(* So does the allocation of a closure, whose fields are not written yet.  *)
LEMMA AllocMapped ==
  ASSUME Sound, Identified, Sound', Identified', NEW a \in Addr, AllocClosure(a)
  PROVE  Abs!Forget
  <1>1. /\ a \notin DOMAIN obj /\ UNCHANGED <<global, rs, ds, ctx>>
        /\ DOMAIN obj' = DOMAIN obj \cup {a} /\ obj'[a] = Raw /\ \A b \in DOMAIN obj : obj'[b] = obj[b]
    BY DEF AllocClosure
  <1>2. Raw.kind = "closure"
    BY DEF Raw
  <1>3. Kept(obj, obj')
    BY <1>1 DEF Kept
  <1> HIDE DEF Raw
  <1>4. \A b \in DOMAIN obj' : obj'[b].kind = "ctx" => b \in DOMAIN obj /\ obj'[b] = obj[b]
    BY <1>1, <1>2
  <1> QED
    BY <1>1, <1>3, <1>4, HeapStep, QuietStep

(* The copy of RV_CTX is the environment that the original was.            *)
LEMMA PromoteMapped ==
  ASSUME Sound, Identified, Sound', Identified', NEW b \in Addr, Promote(b)
  PROVE  Abs!Forget
  <1> DEFINE s == ctx
             d == Managed(b)
  <1>1. /\ b \notin DOMAIN obj /\ pc = "alloc2" /\ UNCHANGED <<global, rs, ds>> /\ ctx' = d
        /\ DOMAIN obj' = DOMAIN obj \cup {b} /\ obj'[b].kind = "ctx"
        /\ obj'[b].link = Parent(s) /\ obj'[b].vals = Vals(s) /\ obj'[b].env = rs[s[2]].env
        /\ \A a \in DOMAIN obj : obj'[a] = obj[a]
    BY DEF Promote
  <1>2. s[1] = "stack" /\ s \in Holders /\ Context(s)
    <2>1. s[1] = "stack"
      BY <1>1 DEF Sound, Making
    <2> QED
      BY <2>1, HoldersAre, NamesAreHolders
  <1>3. HolderFacts /\ HolderFacts' /\ StandsFor /\ StandsFor'
    BY TheseAreFacts, NextFacts, ItStandsFor
  <1>4. Kept(obj, obj')
    BY <1>1 DEF Kept
  <1>5. d[1] = "heap" /\ d[2] = b
    BY NamesAreRefs
  <1>6. /\ Parent(s) = ParentIn(obj, rs, s) /\ Vals(s) = ValsIn(obj, rs, global, s)
        /\ IdIn(obj, rs, s) = rs[s[2]].env
    BY <1>2, InNow DEF IdIn
  <1> HIDE DEF s, d
  <1>7. NodeIn(obj', rs', global', d) = NodeIn(obj, rs, global, s) /\ IdIn(obj', rs', d) = IdIn(obj, rs, s)
    <2> DEFINE p == ParentIn(obj, rs, s)
               vals == ValsIn(obj, rs, global, s)
               id == IdIn(obj, rs, s)
    <2>1. IdIn(obj', rs', d) = id /\ ParentIn(obj', rs', d) = p /\ ValsIn(obj', rs', global', d) = vals
      BY <1>1, <1>5, <1>6 DEF IdIn, ParentIn, ValsIn
    <2>2. Right(obj, p) /\ p[1] # "stack" /\ \A w \in Word : Right(obj, vals[w])
      BY <1>2, <1>3 DEF HolderFacts
    <2> HIDE DEF p, vals, id
    <2>3. Right(obj', p) /\ \A w \in Word : Right(obj', vals[w])
      BY <1>1, <2>2 DEF Right
    <2>4. ObjectsRight(obj) /\ ObjectsRight(obj') /\ NoStackInHeap(obj)
      BY DEF Sound, NothingDangles
    <2>5. NodeOf(obj', rs', id, p, vals) = NodeOf(obj, rs, id, p, vals)
      BY <1>4, <2>2, <2>3, <2>4, NodeKept
    <2> QED
      BY <2>1, <2>5 DEF NodeIn, p, vals, id
  <1>8. ASSUME NEW c \in Holders', c # d
        PROVE  /\ c \in Holders
               /\ c[1] = "stack" => rs'[c[2]].env = rs[c[2]].env
               /\ ParentIn(obj', rs', c) = ParentIn(obj, rs, c)
               /\ ValsIn(obj', rs', global', c) = ValsIn(obj, rs, global, c)
    <2>1. Context(c)' /\ (c[1] = "stack" => NoCopyOf(obj', rs', c))
      BY <1>3, <1>8 DEF HolderFacts
    <2>2. Context(c)
      BY <1>1, <1>8, <2>1 DEF Context, d
    <2>3. c[1] = "stack" => NoCopyOf(obj, rs, c)
      BY <1>1, <2>1 DEF NoCopyOf
    <2>4. c \in Holders
      BY <2>2, <2>3, IsHolder
    <2>5. c[1] = "heap" => obj'[c[2]] = obj[c[2]]
      BY <1>1, <2>2 DEF Context
    <2> QED
      BY <1>1, <2>4, <2>5 DEF ParentIn, ValsIn
  <1> DEFINE D == {d}
  <1>9. AbsEnv' \subseteq AbsEnv \cup {NodeIn(obj', rs', global', c) : c \in D}
    <2>1. \A c \in Holders' : c \in D \/ c # d
      OBVIOUS
    <2> HIDE DEF D
    <2> QED
      BY <1>4, <1>8, <2>1, EnvShrinks
  <1>10. NodeIn(obj', rs', global', d) \in AbsEnv
    BY <1>2, <1>3, <1>7 DEF StandsFor
  <1>11. AbsEnv' \subseteq AbsEnv
    BY <1>9, <1>10
  <1>12. IdOf(ctx)' = IdOf(ctx)
    BY <1>1, <1>3, <1>7 DEF StandsFor, s
  <1> QED
    BY <1>1, <1>4, <1>11, <1>12, QuietStep

(* The fields written make the closure of the current environment.         *)
LEMMA FillMapped ==
  ASSUME Sound, Identified, Sound', Identified', Fill
  PROVE  Abs!MakeClosure
  <1> DEFINE a == pend[2]
             o == [Raw EXCEPT !.link = ctx]
  <1>1. /\ a \in DOMAIN obj /\ obj[a].kind = "closure" /\ obj[a].link = None /\ pend[1] = "clo"
        /\ ctx[1] # "stack"
    BY DEF Fill, Sound, Making
  <1>2. o.kind = "closure" /\ o.link = ctx
    BY DEF Raw
  <1>3. obj' = [obj EXCEPT ![a] = o] /\ UNCHANGED <<global, rs, ctx>> /\ ds' = Append(ds, pend)
    BY DEF Fill
  <1>4. obj \in [DOMAIN obj -> Object]
    BY DEF Sound, TypeOK
  <1> HIDE DEF o, a
  <1>5. DOMAIN obj' = DOMAIN obj /\ obj'[a] = o /\ \A b \in DOMAIN obj : b # a => obj'[b] = obj[b]
    BY <1>1, <1>3, <1>4
  <1>6. Kept(obj, obj')
    BY <1>1, <1>2, <1>5 DEF Kept
  <1>7. \A b \in DOMAIN obj' : obj'[b].kind = "ctx" => b \in DOMAIN obj /\ obj'[b] = obj[b]
    BY <1>2, <1>5
  <1>8. StandsFor /\ StandsFor'
    BY ItStandsFor, NextFacts
  <1> DEFINE n == Len(ds)
             f == AbsDs
             g == AbsDs'
  <1>9. n \in Nat /\ Len(ds') = n + 1 /\ ds'[n + 1] = pend /\ \A i \in 1 .. n : ds'[i] = ds[i]
    BY <1>3, Types DEF Sound
  <1>10. Items(f, n) /\ Items(g, n + 1)
    BY <1>8, <1>9 DEF StandsFor, Items
  <1>11. \A i \in 1 .. n : g[i] = f[i]
    <2> SUFFICES ASSUME NEW i \in 1 .. n PROVE g[i] = f[i]
      OBVIOUS
    <2>1. i \in 1 .. Len(ds) /\ i \in 1 .. Len(ds') /\ ds'[i] = ds[i]
      BY <1>9
    <2>2. ValueIn(obj', rs', ds'[i]) = ValueIn(obj, rs, ds[i])
      BY <1>6, <2>1, OperandKept
    <2> QED
      BY <1>8, <2>1, <2>2 DEF StandsFor
  <1>12. IdOf(ctx)' = IdOf(ctx)
    BY <1>3, <1>6, CtxKept
  <1>13. g[n + 1] = <<"clo", IdOf(ctx)>>
    <2>1. n + 1 \in 1 .. Len(ds')
      BY <1>9
    <2>2. g[n + 1] = ValueIn(obj', rs', pend)
      BY <1>8, <1>9, <2>1 DEF StandsFor
    <2>3. ValueIn(obj', rs', pend) = <<"clo", IdIn(obj', rs', obj'[a].link)>>
      BY <1>1 DEF ValueIn, a
    <2>4. IdIn(obj', rs', obj'[a].link) = IdOf(ctx)'
      BY <1>2, <1>3, <1>5, <1>8 DEF StandsFor
    <2> QED
      BY <1>12, <2>2, <2>3, <2>4
  <1> HIDE DEF f, g, n
  <1>14. g = Append(f, <<"clo", IdOf(ctx)>>)
    <2>1. g = Append(f, g[n + 1])
      BY <1>9, <1>10, <1>11, AppendedTo
    <2> QED
      BY <1>13, <2>1
  <1>15. AbsStk' = AbsStk
    <2>1. Len(rs') = Len(rs) /\ \A i \in 1 .. Len(rs) : RecordKept(rs, rs', i)
      BY <1>3 DEF RecordKept
    <2> QED
      BY <1>6, <2>1, StacksKept
  <1>16. AbsEnv' \subseteq AbsEnv
    BY <1>3, <1>6, <1>7, HeapStep
  <1> QED
    BY <1>12, <1>14, <1>15, <1>16, BecomesIs DEF Abs!MakeClosure, f, g

-----------------------------------------------------------------------------
(* r_set.                                                                  *)

(* The values after a write. *)
LEMMA WriteVals ==
  ASSUME Sound, Identified, NEW h, h \in Holders, NEW w \in Word, NEW v, Write(h, w, v),
         NEW c, c \in Holders
  PROVE  ValsIn(obj', rs', global', c) = IF c = h THEN [ValsIn(obj, rs, global, c) EXCEPT ![w] = v]
                                                  ELSE ValsIn(obj, rs, global, c)
  <1>1. Context(c) /\ Context(h)
    BY HoldersAre
  <1>2. obj \in [DOMAIN obj -> Object] /\ rs \in Seq(Record) /\ global \in [Word -> Values]
    BY Types DEF Sound, TypeOK
  <1>3. \A a \in DOMAIN obj : obj[a] \in Object
    BY <1>2
  <1>4. \A i \in 1 .. Len(rs) : rs[i].body => rs[i] \in Active
    BY <1>2, Types, RecordIs DEF Sound
  <1>5. CASE h[1] = "heap"
    <2> DEFINE b == h[2]
               q == [obj[b] EXCEPT !.vals[w] = v]
    <2>1. b \in DOMAIN obj /\ h = Managed(b)
      BY <1>1, <1>5 DEF Context
    <2>2. obj' = [obj EXCEPT ![b].vals[w] = v] /\ rs' = rs /\ global' = global
      BY <1>5, NamesAreRefs DEF Write
    <2>3. obj' = [obj EXCEPT ![b] = q]
      BY <2>2
    <2>4. q.vals = [obj[b].vals EXCEPT ![w] = v]
      BY <1>3, <2>1 DEF Object
    <2> HIDE DEF b, q
    <2>5. obj'[b] = q /\ \A a \in DOMAIN obj : a # b => obj'[a] = obj[a]
      BY <1>2, <2>1, <2>3
    <2>6. CASE c = h
      BY <1>5, <2>4, <2>5, <2>6 DEF ValsIn, b
    <2>7. CASE c # h
      <3>1. c[1] = "heap" => c[2] \in DOMAIN obj /\ c[2] # b
        BY <1>1, <2>1, <2>7 DEF Context
      <3> QED
        BY <2>2, <2>5, <2>7, <3>1 DEF ValsIn
    <2> QED
      BY <2>6, <2>7
  <1>6. CASE h[1] = "stack"
    <2> DEFINE k == h[2]
               q == [rs[k] EXCEPT !.vals[w] = v]
    <2>1. k \in 1 .. Len(rs) /\ h = OnStack(k) /\ rs[k].body
      BY <1>1, <1>6 DEF Context
    <2>2. rs' = [rs EXCEPT ![k].vals[w] = v] /\ obj' = obj /\ global' = global
      BY <1>6, NamesAreRefs DEF Write
    <2>3. rs' = [rs EXCEPT ![k] = q]
      BY <2>2
    <2>4. q.vals = [rs[k].vals EXCEPT ![w] = v]
      BY <1>4, <2>1 DEF Active
    <2> HIDE DEF k, q
    <2>5. rs'[k] = q /\ \A a \in 1 .. Len(rs) : a # k => rs'[a] = rs[a]
      BY <1>2, <2>1, <2>3
    <2>6. CASE c = h
      BY <1>6, <2>4, <2>5, <2>6 DEF ValsIn, k
    <2>7. CASE c # h
      <3>1. c[1] = "stack" => c[2] \in 1 .. Len(rs) /\ c[2] # k
        BY <1>1, <2>1, <2>7 DEF Context
      <3> QED
        BY <2>2, <2>5, <2>7, <3>1 DEF ValsIn
    <2> QED
      BY <2>6, <2>7
  <1>7. CASE h = Global
    <2>1. global' = [global EXCEPT ![w] = v] /\ obj' = obj /\ rs' = rs
      BY <1>7, NamesAreRefs DEF Write
    <2>2. c = h <=> c[1] \notin {"heap", "stack"}
      BY <1>1, <1>7, NamesAreRefs DEF Context
    <2> QED
      BY <2>1, <2>2 DEF ValsIn
  <1> QED
    BY <1>1, <1>5, <1>6, <1>7 DEF Context

Rewritten(n, w, x) == [n EXCEPT !.vals[w] = x]

(* A node whose values are rewritten at w is the node rewritten at w.      *)
LEMMA NodeRewritten ==
  ASSUME NEW O, NEW R, NEW id, NEW p, NEW vals, NEW w \in Word, NEW v,
         NEW new, \A u \in Word : new[u] = IF u = w THEN v ELSE vals[u]
  PROVE  NodeOf(O, R, id, p, new) = Rewritten(NodeOf(O, R, id, p, vals), w, ValueIn(O, R, v))
  <1> DEFINE n == NodeOf(O, R, id, p, vals)
             f == [u \in Word |-> ValueIn(O, R, vals[u])]
             g == [u \in Word |-> ValueIn(O, R, new[u])]
             par == IF p = None THEN None ELSE <<"env", IdIn(O, R, p)>>
  <1>1. g = [f EXCEPT ![w] = ValueIn(O, R, v)]
    OBVIOUS
  <1>2. n = [id |-> id, parent |-> par, vals |-> f]
    BY DEF NodeOf
  <1>3. NodeOf(O, R, id, p, new) = [id |-> id, parent |-> par, vals |-> g]
    BY DEF NodeOf
  <1> HIDE DEF n, f, g, par
  <1>4. [n EXCEPT !.vals[w] = ValueIn(O, R, v)]
        = [id |-> id, parent |-> par, vals |-> [f EXCEPT ![w] = ValueIn(O, R, v)]]
    BY <1>2
  <1> QED
    BY <1>1, <1>3, <1>4 DEF n, Rewritten

(* r_set sets the word in the environment it is bound in, else in the      *)
(* current one.                                                            *)
LEMMA SetMapped ==
  ASSUME Sound, Identified, Sound', Identified', NEW w \in Word, Set(w)
  PROVE  Abs!Set(w)
  <1> DEFINE h == IF Home(w) = None THEN ctx ELSE Home(w)
             v == ds[Len(ds)]
             x == ValueIn(obj, rs, v)
             e == {IF n.id = IdOf(h) THEN [n EXCEPT !.vals[w] = x] ELSE n : n \in AbsEnv}
  <1>1. Len(ds) > Base /\ Write(h, w, v) /\ UNCHANGED <<ds, ctx>>
    BY DEF Set, registers
  <1>2. h \in Holders /\ h \in Chain /\ h # None
    <2>1. ctx \in Holders /\ ctx \in Chain /\ ctx # None
      BY NamesAreHolders, Types DEF Chain, Sound
    <2>2. Home(w) \in Chain /\ (Home(w) # None => Home(w) \in Holders)
      BY HomeIs, HomeMeans
    <2> QED
      BY <2>1, <2>2
  <1>3. IdOf(h) = IF Abs!Home(w) = Abs!NoEnv THEN IdOf(ctx) ELSE Abs!Home(w)[2]
    <2>1. CASE Home(w) = None
      <3>1. Abs!Home(w) = Abs!NoEnv
        BY <2>1, HomeMeans DEF Place, None, Abs!NoEnv
      <3> QED
        BY <2>1, <3>1
    <2>2. CASE Home(w) # None
      BY <2>2, ValueMeans
    <2> QED
      BY <2>1, <2>2
  <1> HIDE DEF h
  <1>4. Len(ds) \in 1 .. Len(ds) /\ v \in Values /\ Right(obj, v)
    BY <1>1, BaseIs, TopValue, Types DEF Sound
  <1>5. AbsDs[Len(AbsDs)] = x /\ Len(AbsDs) > Abs!Base
    <2>1. Len(AbsDs) = Len(ds) /\ Abs!Base = Base
      BY AbsBaseIs
    <2> QED
      BY <1>1, <1>4, <2>1, ItStandsFor DEF StandsFor
  <1>6. ObjectsRewritten(obj, obj', v) /\ RecordsRewritten(rs, rs', v)
    BY <1>1, <1>2, <1>4, WriteFacts
  <1> HIDE DEF v
  <1>7. Kept(obj, obj') /\ \A a \in DOMAIN obj' : a \in DOMAIN obj /\ obj'[a].kind = obj[a].kind
                                                  /\ obj'[a].env = obj[a].env /\ obj'[a].link = obj[a].link
    BY <1>6 DEF ObjectsRewritten, Kept
  <1>8. Len(rs') = Len(rs) /\ \A i \in 1 .. Len(rs) : RecordKept(rs, rs', i)
    BY <1>6 DEF RecordsRewritten, RecordKept
  <1>9. HolderFacts /\ HolderFacts' /\ StandsFor /\ StandsFor'
    BY TheseAreFacts, NextFacts, ItStandsFor
  <1>10. ASSUME NEW c \in Holders'
         PROVE  c \in Holders /\ (c[1] = "stack" => rs'[c[2]].env = rs[c[2]].env)
                /\ ParentIn(obj', rs', c) = ParentIn(obj, rs, c)
    <2>1. Context(c)' /\ (c[1] = "stack" => NoCopyOf(obj', rs', c))
      BY <1>9 DEF HolderFacts
    <2>2. Context(c) /\ (c[1] = "stack" => rs'[c[2]].env = rs[c[2]].env)
      BY <1>7, <1>8, <2>1 DEF Context, RecordKept
    <2>3. \A a \in DOMAIN obj : a \in DOMAIN obj'
      BY <1>6 DEF ObjectsRewritten
    <2>4. c[1] = "stack" => NoCopyOf(obj, rs, c)
      BY <1>7, <2>1, <2>2, <2>3 DEF NoCopyOf
    <2>5. ParentIn(obj', rs', c) = ParentIn(obj, rs, c)
      BY <1>7, <1>8, <2>1, <2>2 DEF Context, ParentIn, RecordKept
    <2> QED
      BY <2>2, <2>4, <2>5, IsHolder
  <1>11. ASSUME NEW c \in Holders' PROVE NodeIn(obj', rs', global', c) \in e
    <2>1. c \in Holders /\ (c[1] = "stack" => rs'[c[2]].env = rs[c[2]].env)
          /\ ParentIn(obj', rs', c) = ParentIn(obj, rs, c)
      BY <1>10
    <2>2. NodeIn(obj, rs, global, c) \in AbsEnv /\ NodeIn(obj, rs, global, c).id = IdOf(c)
      BY <1>9, <2>1, InNow, NodeIs DEF StandsFor
    <2>3. CASE c # h
      <3>1. ValsIn(obj', rs', global', c) = ValsIn(obj, rs, global, c)
        BY <1>1, <1>2, <2>1, <2>3, WriteVals
      <3>2. NodeIn(obj', rs', global', c) = NodeIn(obj, rs, global, c)
        BY <1>7, <2>1, <3>1, HolderKept
      <3>3. IdOf(c) # IdOf(h)
        BY <1>2, <2>1, <2>3, OneHolder
      <3> QED
        BY <2>2, <3>2, <3>3
    <2>4. CASE c = h
      <3> DEFINE vals == ValsIn(obj, rs, global, c)
                 new == [vals EXCEPT ![w] = v]
                 p == ParentIn(obj, rs, c)
                 id == IdIn(obj, rs, c)
      <3>1. ValsIn(obj', rs', global', c) = new
        BY <1>1, <1>2, <2>1, <2>4, WriteVals
      <3>2. vals \in [Word -> Values] /\ Right(obj, p) /\ p[1] # "stack" /\ \A u \in Word : Right(obj, vals[u])
        BY <1>9, <2>1 DEF HolderFacts
      <3>3. Right(obj', p) /\ \A u \in Word : Right(obj', new[u])
        BY <1>9, <2>1, <3>1 DEF HolderFacts
      <3>4. IdIn(obj', rs', c) = id
        <4>1. Context(c)
          BY <1>9, <2>1 DEF HolderFacts
        <4>2. c[1] = "heap" => c[2] \in DOMAIN obj' /\ obj'[c[2]].env = obj[c[2]].env
          BY <1>6, <4>1 DEF Context, ObjectsRewritten
        <4> QED
          BY <2>1, <4>2 DEF IdIn
      <3>5. NodeIn(obj', rs', global', c) = NodeOf(obj', rs', id, p, new)
        BY <2>1, <3>1, <3>4 DEF NodeIn
      <3>6. NodeIn(obj, rs, global, c) = NodeOf(obj, rs, id, p, vals)
        BY DEF NodeIn
      <3> HIDE DEF vals, p, id
      <3>7. \A u \in Word : Right(obj, new[u])
        BY <1>4, <3>2
      <3>8. \A u \in Word : new[u] = IF u = w THEN v ELSE vals[u]
        BY <3>2
      <3> HIDE DEF new
      <3>9. ObjectsRight(obj) /\ ObjectsRight(obj') /\ NoStackInHeap(obj)
        BY DEF Sound, NothingDangles
      <3>10. NodeOf(obj', rs', id, p, new) = NodeOf(obj, rs, id, p, new)
        BY <1>7, <3>2, <3>3, <3>7, <3>9, NodeKept
      <3>11. NodeOf(obj, rs, id, p, new) = Rewritten(NodeOf(obj, rs, id, p, vals), w, x)
        <4> HIDE DEF e
        <4> QED
          BY <3>8, NodeRewritten
      <3> QED
        BY <2>2, <2>4, <3>5, <3>6, <3>10, <3>11 DEF Rewritten
    <2> QED
      BY <2>3, <2>4
  <1>12. AbsEnv' \subseteq e
    <2> HIDE DEF e
    <2> QED
      BY <1>9, <1>11 DEF StandsFor
  <1>13. AbsStk' = AbsStk /\ AbsDs' = AbsDs
    BY <1>1, <1>7, <1>8, StacksKept
  <1>14. IdOf(ctx)' = IdOf(ctx)
    <2> DEFINE c == ctx
    <2>1. c \in Holders /\ IdOf(ctx)' = IdIn(obj', rs', c) /\ IdOf(ctx) = IdIn(obj, rs, c)
      BY <1>1, <1>9, NamesAreHolders DEF StandsFor
    <2>2. Context(c)
      BY <2>1, HoldersAre
    <2> HIDE DEF c
    <2>3. c[1] = "heap" => obj'[c[2]].env = obj[c[2]].env
      BY <1>6, <2>2 DEF Context, ObjectsRewritten
    <2>4. c[1] = "stack" => rs'[c[2]].env = rs[c[2]].env
      BY <1>8, <2>2 DEF Context, RecordKept
    <2>5. IdIn(obj', rs', c) = IdIn(obj, rs, c)
      BY <2>3, <2>4 DEF IdIn
    <2> QED
      BY <2>1, <2>5
  <1>15. Abs!Becomes(e, IdOf(ctx), AbsStk, AbsDs)
    <2> HIDE DEF e
    <2> QED
      BY <1>12, <1>13, <1>14, BecomesIs
  <1> HIDE DEF x
  <1>16. e = {IF n.id = IdOf(h) THEN [n EXCEPT !.vals[w] = AbsDs[Len(AbsDs)]] ELSE n : n \in AbsEnv}
    BY <1>5
  <1> HIDE DEF e
  <1> QED
    BY <1>3, <1>5, <1>15, <1>16 DEF Abs!Set

-----------------------------------------------------------------------------
(* Calls, entries and returns.                                             *)

(* The frames up to n stay: contexts in the heap and theirs are as they    *)
(* were, and others may be in D.                                           *)
LEMMA FramesStep ==
  ASSUME Sound, Identified, Sound', Identified', UNCHANGED <<obj, global>>,
         NEW n \in 0 .. Len(rs), n <= Len(rs'), \A i \in 1 .. n : rs'[i] = rs[i],
         NEW D, \A i \in n + 1 .. Len(rs') : rs'[i].body => OnStack(i) \in D
  PROVE  /\ AbsEnv' \subseteq AbsEnv \cup {NodeIn(obj', rs', global', c) : c \in D}
         /\ \A i \in 1 .. n : AbsStk'[i] = AbsStk[i]
         /\ \A v : Right(obj, v) => ValueIn(obj', rs', v) = ValueIn(obj, rs, v)
         /\ \A c : (c[1] = "stack" => c[2] \in 1 .. n) => IdIn(obj', rs', c) = IdIn(obj, rs, c)
  <1>1. StandsFor /\ StandsFor' /\ HolderFacts /\ HolderFacts'
    BY ItStandsFor, TheseAreFacts, NextFacts
  <1>2. Kept(obj, obj')
    BY DEF Kept
  <1>3. Len(rs) \in Nat
    BY Types DEF Sound
  <1>4. Len(rs') \in Nat
    <2>1. rs' \in Seq(Record)
      BY DEF Sound, TypeOK, Record
    <2> QED
      BY <2>1, LenProperties
  <1>5. ASSUME NEW c \in Holders', c \notin D
        PROVE  /\ c \in Holders
               /\ c[1] = "stack" => rs'[c[2]].env = rs[c[2]].env
               /\ ParentIn(obj', rs', c) = ParentIn(obj, rs, c)
               /\ ValsIn(obj', rs', global', c) = ValsIn(obj, rs, global, c)
    <2>1. Context(c)' /\ (c[1] = "stack" => NoCopyOf(obj', rs', c))
      BY <1>1 DEF HolderFacts
    <2>2. c[1] = "stack" => c[2] \in 1 .. n
      BY <1>4, <1>5, <2>1 DEF Context
    <2>3. c[1] = "stack" => rs'[c[2]] = rs[c[2]] /\ c[2] \in 1 .. Len(rs)
      BY <1>3, <2>2
    <2>4. Context(c)
      BY <2>1, <2>3 DEF Context
    <2>5. c[1] = "stack" => NoCopyOf(obj, rs, c)
      BY <2>1, <2>3 DEF NoCopyOf
    <2> QED
      BY <2>3, <2>4, <2>5, IsHolder DEF ParentIn, ValsIn
  <1>6. AbsEnv' \subseteq AbsEnv \cup {NodeIn(obj', rs', global', c) : c \in D}
    BY <1>2, <1>5, EnvShrinks
  <1>7. ASSUME NEW i \in 1 .. n PROVE AbsStk'[i] = AbsStk[i]
    <2>1. i \in 1 .. Len(rs) /\ i \in 1 .. Len(rs') /\ \A j \in 1 .. i : RecordKept(rs, rs', j)
      BY <1>3, <1>4 DEF RecordKept
    <2>2. FrameIn(obj', rs', rs'[i]) = FrameIn(obj, rs, rs[i])
      BY <1>2, <2>1, FrameKept
    <2> QED
      BY <1>1, <2>1, <2>2 DEF StandsFor
  <1>8. ASSUME NEW v, Right(obj, v) PROVE ValueIn(obj', rs', v) = ValueIn(obj, rs, v)
    <2>1. ObjectsRight(obj) /\ NoStackInHeap(obj)
      BY DEF Sound, NothingDangles
    <2>2. v[1] = "clo" => obj[v[2]].link[1] # "stack"
      BY <1>8, <2>1 DEF Right, NoStackInHeap
    <2> QED
      BY <2>2 DEF ValueIn, IdIn
  <1>9. \A c : (c[1] = "stack" => c[2] \in 1 .. n) => IdIn(obj', rs', c) = IdIn(obj, rs, c)
    BY DEF IdIn
  <1> QED
    BY <1>6, <1>7, <1>8, <1>9

(* A call begins with the environment the closure captured.                *)
LEMMA CallMapped ==
  ASSUME Sound, Identified, Sound', Identified', NEW w \in Word, Call(w)
  PROVE  Abs!Call(w)
  <1> DEFINE v == Vals(Home(w))[w]
             q == [body |-> FALSE, clo |-> v[2], sp |-> Len(ds)]
             n == Len(rs)
             x == [body |-> FALSE, env |-> Abs!ValueOf(w)[2], sp |-> Len(AbsDs)]
  <1>1. /\ Home(w) # None /\ v[1] = "clo" /\ rs' = Append(rs, q)
        /\ UNCHANGED <<obj, global, ds, ctx>>
    BY DEF Call
  <1>2. Abs!Home(w) # Abs!NoEnv /\ v \in Values /\ Right(obj, v) /\ Abs!ValueOf(w) = AbsValue(v)
    BY <1>1, ValueMeans
  <1>3. AbsValue(v)[1] = "clo" /\ AbsValue(v)[2] = IdIn(obj, rs, obj[v[2]].link) /\ v[2] \in Addr
        /\ obj[v[2]].link[1] # "stack"
    <2>1. AbsValue(v) = <<"clo", IdOf(obj[v[2]].link)>>
      BY <1>1, <1>2, AbsValueIs
    <2> QED
      BY <1>1, <1>2, <2>1, InNow, ValueIs, NamesAreHolders
  <1>4. rs \in Seq(Record) /\ n \in Nat /\ n \in 0 .. Len(rs)
    BY Types DEF Sound
  <1>5. Len(rs') = n + 1 /\ rs'[n + 1] = q /\ \A i \in 1 .. n : rs'[i] = rs[i]
    BY <1>1, <1>4
  <1>6. q.body = FALSE /\ q.clo = v[2] /\ q.sp = Len(ds)
    OBVIOUS
  <1> HIDE DEF v, q
  <1> DEFINE D == {}
  <1>7. /\ AbsEnv' \subseteq AbsEnv \cup {NodeIn(obj', rs', global', c) : c \in D}
        /\ \A i \in 1 .. n : AbsStk'[i] = AbsStk[i]
        /\ \A u : Right(obj, u) => ValueIn(obj', rs', u) = ValueIn(obj, rs, u)
        /\ \A c : (c[1] = "stack" => c[2] \in 1 .. n) => IdIn(obj', rs', c) = IdIn(obj, rs, c)
    <2>1. n <= Len(rs') /\ \A i \in n + 1 .. Len(rs') : ~rs'[i].body
      BY <1>4, <1>5, <1>6
    <2> HIDE DEF n, D
    <2>2. \A i \in n + 1 .. Len(rs') : rs'[i].body => OnStack(i) \in D
      BY <2>1
    <2> QED
      BY <1>1, <1>4, <1>5, <2>1, <2>2, FramesStep
  <1>8. AbsEnv' \subseteq AbsEnv
    BY <1>7
  <1>9. StandsFor /\ StandsFor'
    BY ItStandsFor, NextFacts
  <1>10. IdOf(ctx)' = IdOf(ctx)
    <2> DEFINE c == ctx
    <2>1. c[1] = "stack" => c[2] \in 1 .. n
      BY CtxOnStack
    <2>2. IdIn(obj', rs', c) = IdIn(obj, rs, c)
      BY <1>7, <2>1
    <2> QED
      BY <1>1, <1>9, <2>2 DEF StandsFor
  <1>11. AbsDs' = AbsDs
    <2>1. \A i \in 1 .. Len(ds) : Right(obj, ds[i])
      BY DEF Sound, NothingDangles, OperandsRight
    <2>2. \A i \in 1 .. Len(ds) : ValueIn(obj', rs', ds[i]) = ValueIn(obj, rs, ds[i])
      BY <1>7, <2>1
    <2> QED
      BY <1>1, <1>9, <2>2 DEF StandsFor
  <1> DEFINE f == AbsStk
             g == AbsStk'
  <1>12. Items(f, n) /\ Items(g, n + 1)
    BY <1>5, <1>9 DEF StandsFor, Items
  <1>13. g[n + 1] = x
    <2>1. g[n + 1] = FrameIn(obj', rs', q)
      BY <1>4, <1>5, <1>9 DEF StandsFor
    <2>2. FrameIn(obj', rs', q) = [body |-> FALSE, sp |-> Len(ds), env |-> WaitsIn(obj', rs', q)]
      BY <1>6 DEF FrameIn
    <2>3. WaitsIn(obj', rs', q) = IdIn(obj, rs, obj[v[2]].link)
      BY <1>1, <1>3, <1>6, <1>7 DEF WaitsIn
    <2>4. Len(AbsDs) = Len(ds)
      BY AbsBaseIs
    <2> QED
      BY <1>2, <1>3, <2>1, <2>2, <2>3, <2>4
  <1>14. \A i \in 1 .. n : g[i] = f[i]
    BY <1>7
  <1> HIDE DEF f, g, n, x
  <1>15. g = Append(f, x)
    <2>1. g = Append(f, g[n + 1])
      BY <1>4, <1>12, <1>14, AppendedTo
    <2> QED
      BY <1>13, <2>1
  <1>16. Abs!Becomes(AbsEnv, IdOf(ctx), Append(AbsStk, x), AbsDs)
    BY <1>8, <1>10, <1>11, <1>15, BecomesIs DEF f, g
  <1> QED
    BY <1>2, <1>3, <1>16 DEF Abs!Call, x

(* A return leaves the bodies from i on, with its value.                   *)
LEMMA LeaveMapped ==
  ASSUME Sound, Identified, Sound', Identified', NEW i \in 1 .. Len(rs), rs[i].body, Leave(i)
  PROVE  Abs!LeaveBody(i) /\ i \in 1 .. Len(AbsStk)
  <1> DEFINE m == i - 1
             s == rs[i].sp
             v == ds[Len(ds)]
             R == SubSeq(rs, 1, m)
             E == SubSeq(ds, 1, s)
             c == rs[i].caller
  <1>1. rs' = R /\ ctx' = c /\ ds' = Append(E, v) /\ Len(ds) > Base /\ UNCHANGED <<obj, global>>
    BY DEF Leave
  <1>2. rs \in Seq(Record) /\ Len(rs) \in Nat /\ ds \in Seq(Values) /\ Len(ds) \in Nat
    BY Types DEF Sound
  <1>3. m \in 0 .. Len(rs) /\ i \in Nat /\ i \in 1 .. Len(rs)
    BY <1>2
  <1>4. Len(R) = m /\ \A k \in 1 .. m : R[k] = rs[k]
    BY <1>2, <1>3, CutOff
  <1>5. s \in 0 .. Len(ds) /\ s \in Nat
    BY <1>2, BaseIs
  <1>6. Len(E) = s /\ E \in Seq(Values) /\ \A k \in 1 .. s : E[k] = ds[k]
    BY <1>2, <1>5, CutOff
  <1>7. Len(ds) \in 1 .. Len(ds) /\ v \in Values /\ Right(obj, v)
    BY <1>1, <1>2, BaseIs, TopValue
  <1>8. c[1] = "stack" => c[2] \in 1 .. m
    BY DEF Sound, StackOwned, Owned
  <1>9. StandsFor /\ StandsFor' /\ Len(AbsStk) = Len(rs) /\ Len(AbsDs) = Len(ds) /\ Abs!Base = Base
    BY ItStandsFor, NextFacts, AbsBaseIs
  <1>10. AbsStk[i].body /\ AbsStk[i].sp = s /\ AbsStk[i].env = IdIn(obj, rs, c)
    BY <1>9 DEF StandsFor, FrameIn, WaitsIn
  <1>11. AbsDs[Len(AbsDs)] = ValueIn(obj, rs, v)
    BY <1>7, <1>9 DEF StandsFor
  <1> HIDE DEF m, s, v, R, E, c
  <1>12. Len(ds') = s + 1 /\ ds'[s + 1] = v /\ \A k \in 1 .. s : ds'[k] = ds[k]
    BY <1>1, <1>5, <1>6, <1>7
  <1> DEFINE D == {}
  <1>13. /\ AbsEnv' \subseteq AbsEnv \cup {NodeIn(obj', rs', global', d) : d \in D}
         /\ \A k \in 1 .. m : AbsStk'[k] = AbsStk[k]
         /\ \A u : Right(obj, u) => ValueIn(obj', rs', u) = ValueIn(obj, rs, u)
         /\ \A d : (d[1] = "stack" => d[2] \in 1 .. m) => IdIn(obj', rs', d) = IdIn(obj, rs, d)
    <2>1. m <= Len(rs') /\ \A k \in 1 .. m : rs'[k] = rs[k]
      BY <1>1, <1>3, <1>4
    <2>2. \A k \in m + 1 .. Len(rs') : rs'[k].body => OnStack(k) \in D
      BY <1>1, <1>3, <1>4
    <2> HIDE DEF D
    <2> QED
      BY <1>1, <1>3, <2>1, <2>2, FramesStep
  <1>14. AbsEnv' \subseteq AbsEnv
    BY <1>13
  <1>15. IdOf(ctx)' = AbsStk[i].env
    <2>1. IdOf(ctx)' = IdIn(obj', rs', c)
      BY <1>1, <1>9 DEF StandsFor
    <2>2. IdIn(obj', rs', c) = IdIn(obj, rs, c)
      BY <1>8, <1>13
    <2> QED
      BY <1>10, <2>1, <2>2
  <1>16. AbsStk' = SubSeq(AbsStk, 1, m)
    <2> DEFINE f == AbsStk
               g == AbsStk'
               n == Len(rs)
    <2>1. Items(f, n) /\ Items(g, m)
      BY <1>1, <1>4, <1>9 DEF StandsFor, Items
    <2>2. n \in Nat /\ m \in 0 .. n /\ \A k \in 1 .. m : g[k] = f[k]
      BY <1>2, <1>3, <1>13
    <2> HIDE DEF f, g, n
    <2>3. g = SubSeq(f, 1, m)
      BY <2>1, <2>2, CutTo
    <2> QED
      BY <2>3 DEF f, g
  <1>17. AbsDs' = Append(SubSeq(AbsDs, 1, s), AbsDs[Len(AbsDs)])
    <2> DEFINE f == AbsDs
               g == AbsDs'
               n == Len(ds)
               h == [k \in 1 .. s |-> f[k]]
    <2>1. Items(f, n) /\ Items(g, s + 1) /\ Items(h, s)
      BY <1>9, <1>12 DEF StandsFor, Items
    <2>2. g[s + 1] = AbsDs[Len(AbsDs)]
      <3>1. s + 1 \in 1 .. Len(ds')
        BY <1>5, <1>12
      <3>2. g[s + 1] = ValueIn(obj', rs', v)
        BY <1>9, <1>12, <3>1 DEF StandsFor
      <3> QED
        BY <1>7, <1>11, <1>13, <3>2
    <2>3. \A k \in 1 .. s : g[k] = f[k]
      <3> SUFFICES ASSUME NEW k \in 1 .. s PROVE g[k] = f[k]
        OBVIOUS
      <3>1. k \in 1 .. Len(ds) /\ k \in 1 .. Len(ds') /\ ds'[k] = ds[k]
        BY <1>2, <1>5, <1>12
      <3>2. Right(obj, ds[k])
        BY <3>1 DEF Sound, NothingDangles, OperandsRight
      <3>3. ValueIn(obj', rs', ds[k]) = ValueIn(obj, rs, ds[k])
        BY <1>13, <3>2
      <3> QED
        BY <1>9, <3>1, <3>3 DEF StandsFor
    <2>4. \A k \in 1 .. s : h[k] = f[k] /\ g[k] = h[k]
      BY <2>3
    <2> HIDE DEF f, g, h, n
    <2>5. h = SubSeq(f, 1, s)
      <3>1. n \in Nat /\ s \in 0 .. n
        BY <1>2, <1>5 DEF n
      <3> QED
        BY <2>1, <2>4, <3>1, CutTo
    <2>6. g = Append(h, g[s + 1])
      BY <1>5, <2>1, <2>4, AppendedTo
    <2> QED
      BY <2>2, <2>5, <2>6 DEF f, g
  <1>18. Abs!Becomes(AbsEnv, AbsStk[i].env, SubSeq(AbsStk, 1, m),
                     Append(SubSeq(AbsDs, 1, s), AbsDs[Len(AbsDs)]))
    BY <1>14, <1>15, <1>16, <1>17, BecomesIs
  <1> QED
    BY <1>1, <1>3, <1>9, <1>10, <1>18 DEF Abs!LeaveBody, m

(* The arguments bind the same words in both.                              *)
LEMMA BoundMeans ==
  ASSUME Sound, Identified, NEW ps \in Params, NEW s \in Nat, s <= Len(ds), Len(ds) - s = Len(ps)
  PROVE  Abs!Bound(ps, SubSeq(AbsDs, s + 1, Len(AbsDs)))
         = [w \in Word |-> ValueIn(obj, rs, Bound(ps, SubSeq(ds, s + 1, Len(ds)))[w])]
  <1> DEFINE n == Len(ds)
             m == Len(ps)
             args == SubSeq(ds, s + 1, n)
             aargs == SubSeq(AbsDs, s + 1, n)
  <1>1. n \in Nat /\ Len(AbsDs) = n /\ ds \in Seq(Values)
    BY Types, AbsBaseIs DEF Sound
  <1>2. m \in Nat /\ n = s + m
    <2>1. ps \in Seq(Word)
      BY ClosuresAssumption
    <2>2. m \in Nat
      BY <2>1, LenProperties
    <2> HIDE DEF m
    <2> QED
      BY <1>1, <2>2 DEF m
  <1>3. AbsDs = [i \in 1 .. n |-> ValueIn(obj, rs, ds[i])]
    BY ItStandsFor DEF StandsFor
  <1> HIDE DEF m, n
  <1>4. ASSUME NEW k \in 1 .. m PROVE args[k] = ds[s + k] /\ aargs[k] = ValueIn(obj, rs, ds[s + k])
    <2>1. \A i \in s + 1 .. n : i \in 1 .. n
      BY <1>1
    <2>2. \A i \in s + 1 .. n : ds[i] \in Values
      BY <1>1, <2>1, ElementOfSeq DEF n
    <2>3. s + 1 \in Int /\ n \in Int /\ k \in 1 .. n - (s + 1) + 1 /\ (s + 1) + k - 1 = s + k /\ s + k \in 1 .. n
      BY <1>1, <1>2
    <2>4. args[k] = ds[s + k]
      BY <2>2, <2>3, SubSeqProperties
    <2> DEFINE T == {AbsDs[i] : i \in s + 1 .. n}
               F == AbsDs
    <2>5. \A i \in s + 1 .. n : F[i] \in T
      OBVIOUS
    <2> HIDE DEF T, F
    <2>6. SubSeq(F, s + 1, n)[k] = F[s + k]
      BY <2>3, <2>5, SubSeqProperties
    <2>7. aargs[k] = AbsDs[s + k]
      BY <2>6 DEF F
    <2> QED
      BY <1>3, <2>3, <2>4, <2>7
  <1> HIDE DEF args, aargs
  <1>5. ASSUME NEW w \in Word PROVE Abs!Bound(ps, aargs)[w] = ValueIn(obj, rs, Bound(ps, args)[w])
    <2>1. CASE \E k \in 1 .. m : ps[k] = w
      <3> DEFINE k == CHOOSE k \in 1 .. m : ps[k] = w
      <3>1. k \in 1 .. m
        BY <2>1
      <3>2. Bound(ps, args)[w] = args[k]
        BY <2>1 DEF Bound, m
      <3>3. Abs!Bound(ps, aargs)[w] = aargs[k]
        BY <2>1 DEF Abs!Bound, m
      <3> HIDE DEF k
      <3> QED
        BY <1>4, <3>1, <3>2, <3>3
    <2>2. CASE ~\E k \in 1 .. m : ps[k] = w
      <3>1. Bound(ps, args)[w] = Unbound /\ Abs!Bound(ps, aargs)[w] = Unbound
        BY <2>2 DEF Bound, Abs!Bound, m, Unbound, Abs!Unbound
      <3> QED
        BY <3>1, ValueIs DEF ValueIn
    <2> QED
      BY <2>1, <2>2
  <1>6. Abs!Bound(ps, aargs) = [w \in Word |-> Abs!Bound(ps, aargs)[w]]
    BY DEF Abs!Bound
  <1>7. Abs!Bound(ps, aargs) = [w \in Word |-> ValueIn(obj, rs, Bound(ps, args)[w])]
    BY <1>5, <1>6
  <1> QED
    BY <1>1, <1>7 DEF args, aargs, n

(* An entry makes a new environment whose parent is the captured one.      *)
LEMMA EnterMapped ==
  ASSUME Sound, Identified, Sound', Identified', NEW ps \in Params, Enter(ps)
  PROVE  \E id \in EnvId : Abs!Enter(id, ps)
  <1> DEFINE n == Len(rs)
             m == n - 1
             s == rs[n].sp
             l == obj[rs[n].clo].link
             d == OnStack(n)
             B == Bound(ps, SubSeq(ds, s + 1, Len(ds)))
             A == Abs!Bound(ps, SubSeq(AbsDs, s + 1, Len(AbsDs)))
  <1>1. PICK id \in EnvId \ InUse :
            /\ n \in 1 .. n /\ Top = rs[n] /\ ~rs[n].body
            /\ Len(rs') = n
            /\ rs'[n] = [body |-> TRUE, link |-> obj[Top.clo].link,
                         vals |-> Bound(ps, SubSeq(ds, Top.sp + 1, Len(ds))),
                         caller |-> ctx, sp |-> Top.sp, env |-> id]
            /\ \A i \in 1 .. n - 1 : rs'[i] = rs[i]
            /\ obj' = obj /\ ctx' = d
    BY EnterFacts
  <1> DEFINE q == rs'[n]
  <1>2. q.body = TRUE /\ q.link = l /\ q.vals = B /\ q.caller = ctx /\ q.sp = s /\ q.env = id
    BY <1>1
  <1>3. Len(ds) - s = Len(ps) /\ ds' = SubSeq(ds, 1, s) /\ global' = global /\ rs # <<>>
    BY <1>1 DEF Enter
  <1>4. n \in Nat /\ rs \in Seq(Record) /\ rs[n] \in Record /\ ds \in Seq(Values) /\ Len(ds) \in Nat
    BY <1>1, Types DEF Sound
  <1>5. s \in Nat /\ s <= Len(ds) /\ s \in 0 .. Len(ds)
    BY <1>1, <1>4, BaseIs DEF Sound, Levelled
  <1>6. StandsFor /\ StandsFor' /\ Len(AbsStk) = n /\ Len(AbsDs) = Len(ds)
    BY ItStandsFor, NextFacts, AbsBaseIs
  <1>7. l \in Holders /\ l[1] # "stack" /\ l # None /\ Right(obj, l)
    <2>1. l \in Holders /\ l[1] # "stack"
      BY <1>1, NamesAreHolders
    <2>2. Context(l)
      BY <2>1, HoldersAre
    <2> HIDE DEF l
    <2>3. \/ l = Global /\ l[1] = "global"
          \/ l[1] = "heap" /\ l[2] \in DOMAIN obj /\ obj[l[2]].kind = "ctx" /\ l # None
      BY <2>1, <2>2, NamesAreRefs DEF Context
    <2> QED
      BY <2>1, <2>3, NamesAreRefs DEF Right
  <1>8. B \in [Word -> Values] /\ \A w \in Word : Right(obj, B[w])
    BY <1>3, <1>5, BoundIs
  <1>9. A = [w \in Word |-> ValueIn(obj, rs, B[w])]
    BY <1>3, <1>5, BoundMeans
  <1>10. d[1] = "stack" /\ d[2] = n
    BY NamesAreRefs
  <1>11. ctx[1] = "stack" => ctx[2] \in 1 .. m
    <2> SUFFICES ASSUME ctx[1] = "stack" PROVE ctx[2] \in 1 .. m
      OBVIOUS
    <2>1. ctx[2] \in 1 .. n /\ rs[ctx[2]].body
      BY CtxOnStack
    <2> QED
      BY <1>1, <1>4, <2>1
  <1>12. /\ m \in 0 .. n /\ m + 1 = n /\ m <= Len(rs') /\ \A i \in 1 .. m : rs'[i] = rs[i]
         /\ \A i \in m + 1 .. Len(rs') : i = n
    BY <1>1, <1>4
  <1>13. AbsStk[n].body = FALSE /\ AbsStk[n].sp = s /\ AbsStk[n].env = IdIn(obj, rs, l)
    <2>1. rs[n].body = FALSE
      BY <1>1, <1>4, RecordIs
    <2> QED
      BY <1>1, <1>6, <2>1 DEF StandsFor, FrameIn, WaitsIn
  <1> HIDE DEF m, s, l, d, B, A, q
  <1> DEFINE D == {d}
  <1>14. /\ AbsEnv' \subseteq AbsEnv \cup {NodeIn(obj', rs', global', c) : c \in D}
         /\ \A k \in 1 .. m : AbsStk'[k] = AbsStk[k]
         /\ \A u : Right(obj, u) => ValueIn(obj', rs', u) = ValueIn(obj, rs, u)
         /\ \A c : (c[1] = "stack" => c[2] \in 1 .. m) => IdIn(obj', rs', c) = IdIn(obj, rs, c)
    <2>1. \A k \in m + 1 .. Len(rs') : rs'[k].body => OnStack(k) \in D
      BY <1>12 DEF d
    <2> HIDE DEF D
    <2> QED
      BY <1>1, <1>3, <1>12, <2>1, FramesStep
  <1> DEFINE new == [id |-> id, parent |-> <<"env", AbsStk[n].env>>, vals |-> A]
  <1>15. NodeIn(obj', rs', global', d) = new
    <2>1. IdIn(obj', rs', d) = id /\ ParentIn(obj', rs', d) = l /\ ValsIn(obj', rs', global', d) = B
      BY <1>2, <1>10 DEF IdIn, ParentIn, ValsIn, q
    <2>2. IdIn(obj', rs', l) = IdIn(obj, rs, l)
      BY <1>7, <1>14
    <2>3. \A w \in Word : ValueIn(obj', rs', B[w]) = ValueIn(obj, rs, B[w])
      BY <1>8, <1>14
    <2>4. A = [w \in Word |-> ValueIn(obj', rs', B[w])]
      BY <1>9, <2>3
    <2>5. NodeIn(obj', rs', global', d) = NodeOf(obj', rs', id, l, B)
      BY <2>1 DEF NodeIn
    <2>6. NodeOf(obj', rs', id, l, B) = [id |-> id, parent |-> <<"env", IdIn(obj', rs', l)>>, vals |-> A]
      BY <1>7, <2>4 DEF NodeOf
    <2> QED
      BY <1>13, <2>2, <2>5, <2>6
  <1> HIDE DEF new
  <1>16. AbsEnv' \subseteq AbsEnv \cup {new}
    BY <1>14, <1>15
  <1>17. IdOf(ctx)' = id
    <2>1. IdOf(ctx)' = IdIn(obj', rs', d)
      BY <1>1, <1>6 DEF StandsFor
    <2> QED
      BY <1>2, <1>10, <2>1 DEF IdIn, q
  <1>18. id \notin Abs!Ids(AbsEnv)
    <2>1. \A c \in Holders : Context(c) /\ Node(c).id = IdOf(c)
      BY HoldersAre, NodeIs
    <2>2. \A c \in Holders : IdOf(c) \in InUse
      BY <2>1 DEF Context, IdOf, InUse
    <2>3. \A x \in AbsEnv : x.id \in InUse
      BY <2>1, <2>2 DEF AbsEnv
    <2> QED
      BY <2>3 DEF Abs!Ids
  <1> DEFINE top == [body |-> TRUE, env |-> IdOf(ctx), sp |-> s]
  <1>19. AbsStk' = [AbsStk EXCEPT ![n] = top]
    <2> DEFINE f == AbsStk
               g == AbsStk'
    <2>1. Items(f, n) /\ Items(g, n)
      BY <1>1, <1>6 DEF StandsFor, Items
    <2>2. \A k \in 1 .. n : k # n => g[k] = f[k]
      BY <1>4, <1>12, <1>14
    <2>3. g[n] = top
      <3>1. g[n] = FrameIn(obj', rs', q)
        BY <1>1, <1>6 DEF StandsFor, q
      <3>2. WaitsIn(obj', rs', q) = IdIn(obj', rs', ctx)
        BY <1>2 DEF WaitsIn
      <3>3. IdIn(obj', rs', ctx) = IdOf(ctx)
        BY <1>6, <1>11, <1>14 DEF StandsFor
      <3>4. FrameIn(obj', rs', q) = [body |-> TRUE, sp |-> s, env |-> WaitsIn(obj', rs', q)]
        BY <1>2 DEF FrameIn
      <3> QED
        BY <3>1, <3>2, <3>3, <3>4
    <2> HIDE DEF f, g, top, n
    <2>4. g = [f EXCEPT ![n] = g[n]]
      BY <1>1, <1>4, <2>1, <2>2, ReplacedIn
    <2> QED
      BY <2>3, <2>4 DEF f, g
  <1>20. AbsDs' = SubSeq(AbsDs, 1, s)
    <2> DEFINE f == AbsDs
               g == AbsDs'
               k0 == Len(ds)
    <2>1. Len(ds') = s /\ \A i \in 1 .. s : ds'[i] = ds[i]
      BY <1>3, <1>4, <1>5, CutOff
    <2>2. Items(f, k0) /\ Items(g, s)
      BY <1>6, <2>1 DEF StandsFor, Items
    <2>3. \A i \in 1 .. s : g[i] = f[i]
      <3> SUFFICES ASSUME NEW i \in 1 .. s PROVE g[i] = f[i]
        OBVIOUS
      <3>1. i \in 1 .. Len(ds) /\ i \in 1 .. Len(ds') /\ ds'[i] = ds[i]
        BY <1>4, <1>5, <2>1
      <3>2. Right(obj, ds[i])
        BY <3>1 DEF Sound, NothingDangles, OperandsRight
      <3>3. ValueIn(obj', rs', ds[i]) = ValueIn(obj, rs, ds[i])
        BY <1>14, <3>2
      <3> QED
        BY <1>6, <3>1, <3>3 DEF StandsFor
    <2>4. k0 \in Nat /\ s \in 0 .. k0
      BY <1>4, <1>5
    <2> HIDE DEF f, g, k0
    <2>5. g = SubSeq(f, 1, s)
      BY <2>2, <2>3, <2>4, CutTo
    <2> QED
      BY <2>5 DEF f, g
  <1> HIDE DEF n, top
  <1>21. Abs!Becomes(AbsEnv \cup {new}, id, [AbsStk EXCEPT ![n] = top], SubSeq(AbsDs, 1, s))
    BY <1>16, <1>17, <1>19, <1>20, BecomesIs
  <1>22. AbsStk # <<>> /\ ~AbsStk[n].body /\ Len(AbsDs) - AbsStk[n].sp = Len(ps)
    <2>1. AbsStk # <<>>
      BY <1>1, <1>4, <1>6 DEF n
    <2> QED
      BY <1>3, <1>6, <1>13, <2>1
  <1>23. Abs!Enter(id, ps)
    BY <1>6, <1>13, <1>18, <1>21, <1>22 DEF Abs!Enter, new, A, top
  <1> QED
    BY <1>23

(* A step that changes neither objects nor contexts nor operands.          *)
LEMMA SameMapped ==
  ASSUME Sound, Identified, Sound', Identified', UNCHANGED <<obj, global, rs, ds, ctx>>
  PROVE  Abs!Forget
  <1>1. Kept(obj, obj')
    BY DEF Kept
  <1>2. \A a \in DOMAIN obj' : obj'[a].kind = "ctx" => a \in DOMAIN obj /\ obj'[a] = obj[a]
    OBVIOUS
  <1>3. AbsEnv' \subseteq AbsEnv /\ IdOf(ctx)' = IdOf(ctx)
    BY <1>1, <1>2, HeapStep
  <1> QED
    BY <1>1, <1>3, QuietStep

(* Every step of the evaluator and of the collector is one of the abstract *)
(* environments.                                                           *)
LEMMA StepMapped ==
  ASSUME Sound, Identified, [Next]_vars
  PROVE  Abs!AbsNext
  <1>1. Sound' /\ Identified'
    BY StepKeepsSound, StepKeepsIdentities
  <1>2. CASE UNCHANGED vars \/ BeginClosure \/ OutOfMemory
    BY <1>1, <1>2, SameMapped DEF vars, BeginClosure, OutOfMemory, Abs!AbsNext
  <1>3. CASE PushScalar \/ Drop
    BY <1>1, <1>3, PushScalarMapped, DropMapped DEF Abs!AbsNext
  <1>4. CASE \E w \in Word : Fetch(w) \/ Set(w) \/ Call(w)
    <2>1. \E w \in Word : Abs!Fetch(w) \/ Abs!Set(w) \/ Abs!Call(w)
      BY <1>1, <1>4, FetchMapped, SetMapped, CallMapped
    <2> QED
      BY <2>1 DEF Abs!AbsNext
  <1>5. CASE \E ps \in Params : Enter(ps)
    <2>1. \E id \in EnvId, ps \in Params : Abs!Enter(id, ps)
      BY <1>1, <1>5, EnterMapped
    <2> QED
      BY <2>1 DEF Abs!AbsNext
  <1>6. CASE NormalReturn \/ \E i \in 1 .. Len(rs) : Return(i)
    <2>1. \E i \in 1 .. Len(rs) : rs[i].body /\ Leave(i)
      <3>1. CASE NormalReturn
        <4>1. Len(rs) \in 1 .. Len(rs) /\ rs[Len(rs)].body
          BY <3>1, Types, EmptySeq DEF Sound, NormalReturn, Top
        <4> QED
          BY <3>1, <4>1 DEF NormalReturn
      <3>2. CASE \E i \in 1 .. Len(rs) : Return(i)
        BY <3>2 DEF Return
      <3> QED
        BY <1>6, <3>1, <3>2
    <2>2. \E i \in 1 .. Len(AbsStk) : Abs!LeaveBody(i)
      BY <1>1, <2>1, LeaveMapped
    <2> QED
      BY <2>2 DEF Abs!AbsNext
  <1>7. CASE Collect \/ CollectForClosure \/ CollectForPromotion
    <2>1. /\ UNCHANGED <<global, rs, ds, ctx>>
          /\ Sweep \/ obj' = obj
      BY <1>7 DEF Collect, CollectForClosure, CollectForPromotion, registers
    <2>2. Abs!Forget
      BY <1>1, <2>1, SweepMapped, SameMapped
    <2> QED
      BY <2>2 DEF Abs!AbsNext
  <1>8. CASE Fill
    BY <1>1, <1>8, FillMapped DEF Abs!AbsNext
  <1>9. CASE \E a \in Addr : AllocClosure(a) \/ Promote(a)
    <2>1. Abs!Forget
      BY <1>1, <1>9, AllocMapped, PromoteMapped
    <2> QED
      BY <2>1 DEF Abs!AbsNext
  <1> QED
    BY <1>2, <1>3, <1>4, <1>5, <1>6, <1>7, <1>8, <1>9 DEF Next

(* At the start there is the global environment and nothing else.          *)
LEMMA InitMapped ==
  ASSUME Init
  PROVE  Abs!AbsInit
  <1>1. /\ obj = << >> /\ global = Empty /\ ctx = Global
        /\ Len(rs) = 0 /\ Len(ds) = 0
    BY DEF Init
  <1>2. DOMAIN obj = {}
    BY <1>1
  <1>3. Holders = {Global}
    <2>1. HeapCtxs = {}
      BY <1>2 DEF HeapCtxs
    <2>2. StackCtxs = {}
      BY <1>1 DEF StackCtxs
    <2> QED
      BY <2>1, <2>2 DEF Holders
  <1>4. AbsEnv = {Node(Global)}
    BY <1>3 DEF AbsEnv
  <1>5. IdOf(Global) = 0 /\ Parent(Global) = None /\ Vals(Global) = Empty
    BY <1>1 DEF IdOf, Parent, Vals, Global
  <1>6. Node(Global).vals = [w \in Word |-> Abs!Unbound]
    <2>1. \A w \in Word : AbsValue(Empty[w]) = Abs!Unbound
      BY DEF AbsValue, Empty, Unbound, Abs!Unbound
    <2>2. Node(Global).vals = [w \in Word |-> AbsValue(Empty[w])]
      BY <1>5, NodeIs
    <2> QED
      BY <2>1, <2>2
  <1>7. Node(Global) = [id |-> 0, parent |-> Abs!NoEnv, vals |-> [w \in Word |-> Abs!Unbound]]
    <2>1. Node(Global) = [id |-> Node(Global).id, parent |-> Node(Global).parent,
                          vals |-> Node(Global).vals]
      BY DEF Node
    <2>2. Node(Global).id = 0 /\ Node(Global).parent = Abs!NoEnv
      BY <1>5, NodeIs DEF None, Abs!NoEnv
    <2> QED
      BY <1>6, <2>1, <2>2
  <1>8. AbsStk = <<>> /\ AbsDs = <<>>
    BY <1>1 DEF AbsStk, AbsDs
  <1> QED
    BY <1>1, <1>4, <1>5, <1>7, <1>8 DEF Abs!AbsInit

(* What AbstractClosures promises the evaluator does, for any programs,    *)
(* heaps and depths: contexts on the return stack, their promotion by      *)
(* r_mkclosure and collections at any moment cannot be told from           *)
(* environments that are there for as long as something names them.        *)
THEOREM ClosuresRefineAbstractClosures == Spec => ImplementsAbstractClosures
  <1>1. Init => Identified /\ Abs!AbsInit
    BY InitIsIdentified, InitMapped
  <1>2. Sound /\ Identified /\ [Next]_vars => Identified' /\ [Abs!AbsNext]_(Abs!absVars)
    BY StepKeepsIdentities, StepMapped
  <1> QED
    BY <1>1, <1>2, Invariance, PTL DEF Spec, ImplementsAbstractClosures, Abs!AbsSpec
=============================================================================
