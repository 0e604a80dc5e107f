------------------------------ MODULE Contexts ------------------------------
(***************************************************************************)
(* Contexts as the runtime lays them out: a block of cells with count      *)
(* (word, value) pairs at its start and, behind room for cap pairs, a hash *)
(* index of cap buckets over them.  The pairs are authoritative; the index *)
(* is built when the count reaches HashMin and is consulted while          *)
(* HashMin <= count < cap.  A full context goes on growing over its index. *)
(***************************************************************************)
EXTENDS Integers, Sequences

CONSTANTS
    Word,          \* symbol ids, which the index hashes modulo cap
    Value,
    GlobalCap, ChildCap,   \* 48 and R0S1_CTX_CAP in the code
    HashMin,       \* HASH_MIN
    Slack,         \* cells of a context block behind the index (64 - 51)
    Garbage,       \* what r_mkctx may find in the cells it does not write
    Loaded,        \* word lists the loader may bind in the global context
    MaxChain,      \* bound on nested activations
    MaxParams      \* bound on the parameters of a function

ASSUME ContextsAssumption ==
    /\ Word \subseteq Nat /\ Value \subseteq Nat /\ Value # {}
    /\ HashMin \in 1 .. ChildCap /\ ChildCap \in Nat /\ GlobalCap \in Nat \ {0}
    /\ HashMin <= GlobalCap
    /\ Slack \in Nat /\ MaxChain \in Nat \ {0} /\ MaxParams \in Nat
    /\ Garbage \subseteq [k : {"word", "value", "entry", "empty"}, id : Nat, x : Nat]
    /\ \A ws \in Loaded : /\ ws \in Seq(Word)       \* r0_s1_init binds no word twice
                           /\ \A i, j \in 1 .. Len(ws) : ws[i] = ws[j] => i = j

VARIABLES
    ctxs,          \* the chain from the global context to RV_CTX
    found          \* the value r_lookup left, -1 if none

vars == <<ctxs, found>>

NotFound == -1

(* A cell, whatever region it is in: [k, id, x] *)
Cell(k, id, x) == [k |-> k, id |-> id, x |-> x]
WordCell(w)    == Cell("word", w, 0)
ValueCell(v)   == Cell("value", 0, v)
Entry(w, slot) == Cell("entry", w, slot)       \* word id * 256 + slot
EmptyBucket    == Cell("empty", 0, 0)          \* HASH_EMPTY

Extent(cap) == 3 * cap + Slack

WordAt(c, i)  == c.cells[2 * i].id
ValueAt(c, i) == c.cells[2 * i + 1].x
Bucket(c, w, k) == 2 * c.cap + ((w + k) % c.cap)

-----------------------------------------------------------------------------
(* Reading *)

Slots(c, w) == {i \in 0 .. c.count - 1 : WordAt(c, i) = w}
First(S)    == CHOOSE i \in S : \A j \in S : i <= j

ScanSlot(c, w) == IF Slots(c, w) = {} THEN NotFound ELSE First(Slots(c, w))

(* Probing stops at an empty bucket or at one with the word's id. *)
Stops(c, w) == {k \in 0 .. c.cap - 1 :
                   LET e == c.cells[Bucket(c, w, k)] IN e = EmptyBucket \/ e.id = w}

HashSlot(c, w) ==
    IF Stops(c, w) = {} THEN NotFound
    ELSE LET e == c.cells[Bucket(c, w, First(Stops(c, w)))]
         IN  IF e = EmptyBucket THEN NotFound ELSE e.x

Indexed(c) == HashMin <= c.count /\ c.count < c.cap

Find(c, w) == IF Indexed(c) THEN HashSlot(c, w) ELSE ScanSlot(c, w)

-----------------------------------------------------------------------------
(* Writing *)

Put(c, at, x) == [c EXCEPT !.cells = [i \in DOMAIN c.cells |-> IF i = at THEN x ELSE c.cells[i]]]

(* r_hash_insert: the first empty bucket; nothing once slots are used up *)
HashInsert(c, w, slot) ==
    LET free == {k \in 0 .. c.cap - 1 : c.cells[Bucket(c, w, k)] = EmptyBucket}
    IN  IF slot >= c.cap \/ free = {} THEN c
        ELSE Put(c, Bucket(c, w, First(free)), Entry(w, slot))

(* mutant: the buckets are not emptied first *)
BuildHashOverGarbage(c) ==
    LET built[n \in 0 .. c.count] == IF n = 0 THEN c ELSE HashInsert(built[n - 1], WordAt(c, n - 1), n - 1)
    IN  built[c.count]

BuildHash(c) ==
    LET zeroed == [c EXCEPT !.cells = [i \in DOMAIN c.cells |->
                      IF i \in 2 * c.cap .. 3 * c.cap - 1 THEN EmptyBucket ELSE c.cells[i]]]
        built[n \in 0 .. c.count] == IF n = 0 THEN zeroed
                            ELSE HashInsert(built[n - 1], WordAt(c, n - 1), n - 1)
    IN  built[c.count]

Pair(c, w, v) ==
    [Put(Put(c, 2 * c.count, WordCell(w)), 2 * c.count + 1, ValueCell(v)) EXCEPT !.count = @ + 1]

(* mutant: the index is built anew with every binding from HashMin on *)
BindRebuilds(c, w, v) ==
    LET d == Pair(c, w, v)
    IN  IF d.count >= HashMin THEN BuildHash(d) ELSE d

(* What r_set and r_append do to the context that gets the new pair *)
Bind(c, w, v) ==
    LET d == Pair(c, w, v)
    IN  CASE d.count = HashMin -> BuildHash(d)
          [] d.count > HashMin -> HashInsert(d, w, c.count)
          [] OTHER             -> d

(* The loader's bind() keeps the index from the first binding on. *)
LoaderBind(c, w, v) ==
    LET d == Pair(c, w, v)
        at == {k \in 0 .. c.cap - 1 :
                  LET e == c.cells[Bucket(c, w, k)] IN e = EmptyBucket \/ e.id = w}
    IN  IF c.count < c.cap /\ at # {} THEN Put(d, Bucket(c, w, First(at)), Entry(w, c.count)) ELSE d

-----------------------------------------------------------------------------
EmptyGlobal ==
    [managed |-> FALSE, count |-> 0, cap |-> GlobalCap,
     cells |-> [i \in 0 .. Extent(GlobalCap) - 1 |-> EmptyBucket]]

(* r_mkctx writes no cell behind the header. *)
Fresh(g) ==
    [managed |-> FALSE, count |-> 0, cap |-> ChildCap,
     cells |-> [i \in 0 .. Extent(ChildCap) - 1 |-> g]]

Preloaded(ws) ==
    LET c[n \in 0 .. Len(ws)] == IF n = 0 THEN EmptyGlobal ELSE LoaderBind(c[n - 1], ws[n], First(Value))
    IN  c[Len(ws)]

Init ==
    /\ ctxs \in {<<Preloaded(ws)>> : ws \in Loaded}
    /\ found = NotFound

Top == ctxs[Len(ctxs)]

(* An invocation: a new context, its parameters bound from the last to the *)
(* first (a parameter list may name a word twice)                          *)
Enter(g, ps) ==
    LET c[n \in 0 .. Len(ps)] == IF n = 0 THEN Fresh(g) ELSE Bind(c[n - 1], ps[n][1], ps[n][2])
    IN  /\ Len(ctxs) < MaxChain
        /\ ctxs' = Append(ctxs, c[Len(ps)])
        /\ found' = NotFound

Leave ==
    /\ Len(ctxs) > 1
    /\ ctxs' = SubSeq(ctxs, 1, Len(ctxs) - 1)
    /\ found' = NotFound

(* r_set scans the chain for the nearest binding, else it binds in RV_CTX. *)
Binding(w) == {i \in 1 .. Len(ctxs) : Slots(ctxs[i], w) # {}}

Set(w, v) ==
    LET i == CHOOSE j \in Binding(w) : \A k \in Binding(w) : k <= j
    IN  /\ ctxs' = IF Binding(w) = {}
                   THEN [ctxs EXCEPT ![Len(ctxs)] = Bind(Top, w, v)]
                   ELSE [ctxs EXCEPT ![i] = Put(@, 2 * ScanSlot(@, w) + 1, ValueCell(v))]
        /\ found' = NotFound

(* mutant: the slot is returned for the value *)
LookupSlot(w) ==
    LET hits == {i \in 1 .. Len(ctxs) : Find(ctxs[i], w) # NotFound}
        i    == CHOOSE j \in hits : \A k \in hits : k <= j
    IN  /\ found' = IF hits = {} THEN NotFound ELSE Find(ctxs[i], w)
        /\ UNCHANGED ctxs

Lookup(w) ==
    LET hits == {i \in 1 .. Len(ctxs) : Find(ctxs[i], w) # NotFound}
        i    == CHOOSE j \in hits : \A k \in hits : k <= j
    IN  /\ found' = IF hits = {} THEN NotFound ELSE ValueAt(ctxs[i], Find(ctxs[i], w))
        /\ UNCHANGED ctxs

(* mutant: the index is not copied *)
PromotePairsOnly(g) ==
    /\ Len(ctxs) > 1 /\ ~Top.managed
    /\ ctxs' = [ctxs EXCEPT ![Len(ctxs)] =
                  [Top EXCEPT !.managed = TRUE, !.cells = [i \in DOMAIN @ |-> IF i < 2 * Top.count THEN @[i] ELSE g]]]
    /\ found' = NotFound

(* r_mkclosure copies RV_CTX to a block of the managed heap: the header,   *)
(* count pairs and the index                                               *)
Promote(g) ==
    /\ Len(ctxs) > 1 /\ ~Top.managed
    /\ ctxs' = [ctxs EXCEPT ![Len(ctxs)] =
                  [Top EXCEPT !.managed = TRUE, !.cells =
                      [i \in DOMAIN @ |-> IF \/ i < 2 * Top.count
                                             \/ i \in 2 * ChildCap .. 3 * ChildCap - 1
                                          THEN @[i] ELSE g]]]
    /\ found' = NotFound

ParamList == UNION {[1 .. n -> Word \X Value] : n \in 0 .. MaxParams}

Next ==
    \/ \E g \in Garbage : Promote(g) \/ \E ps \in ParamList : Enter(g, ps)
    \/ Leave
    \/ \E w \in Word : Lookup(w) \/ \E v \in Value : Set(w, v)

Spec == Init /\ [][Next]_vars

-----------------------------------------------------------------------------
Cells(cap) == [0 .. Extent(cap) - 1 -> [k : {"word", "value", "entry", "empty"}, id : Nat, x : Nat]]

(* Contexts have the capacity they were made with; a lookup gives a value. *)
TypeOK ==
    /\ Len(ctxs) \in 1 .. MaxChain
    /\ \A i \in 1 .. Len(ctxs) :
          LET c == ctxs[i]
          IN  /\ c.managed \in BOOLEAN
              /\ c.cap = IF i = 1 THEN GlobalCap ELSE ChildCap
              /\ c.count \in Nat
              /\ c.cells \in Cells(c.cap)
    /\ found \in Value \cup {NotFound}

(* "The ordered (word,value) pairs remain authoritative": whenever r_lookup*)
(* goes by the index, it gets the slot the ordered scan would find, the    *)
(* one r_set updates: also after collisions, for a word bound twice, over  *)
(* stale cells of earlier activations and after promotion.                 *)
IndexAgreesWithScan ==
    \A i \in 1 .. Len(ctxs) : \A w \in Word : Find(ctxs[i], w) = ScanSlot(ctxs[i], w)

(* A context's first count pairs are a word and a value each: an index     *)
(* entry is never written over a pair, even when pairs outgrow the cap and *)
(* take the cells of the index.                                            *)
PairsIntact ==
    \A i \in 1 .. Len(ctxs) : \A s \in 0 .. ctxs[i].count - 1 :
        2 * s + 1 < Extent(ctxs[i].cap) =>
            ctxs[i].cells[2 * s].k = "word" /\ ctxs[i].cells[2 * s + 1].k = "value"

(* Pairs and index of every context are whole, and agree. *)
TableIsSound == TypeOK /\ IndexAgreesWithScan /\ PairsIntact

(* The refinement: the environment a context is, and the answer *)
EnvOf(c) == [w \in Word |-> IF Slots(c, w) = {} THEN NotFound ELSE ValueAt(c, ScanSlot(c, w))]

Abs == INSTANCE AbstractContexts WITH
           chain <- [i \in 1 .. Len(ctxs) |-> EnvOf(ctxs[i])], found <- found, Unbound <- NotFound

(* Pairs, index, garbage and promotion cannot be told from a plain chain   *)
(* of environments.                                                        *)
ImplementsAbstractContexts == Abs!AbsSpec

-----------------------------------------------------------------------------
(* An instance for TLC: with three buckets words 0 and 3 collide, and      *)
(* stale cells look like index entries of a word the program uses.         *)
Stale     == {Entry(0, 1)}
Colliding == {<<0, 3>>}
=============================================================================
