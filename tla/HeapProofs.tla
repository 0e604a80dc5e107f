----------------------------- MODULE HeapProofs -----------------------------
(***************************************************************************)
(* Proofs about the allocator and the sweep, for every heap size, every    *)
(* set of payload sizes and every set of objects the mark phase may keep.  *)
(***************************************************************************)
EXTENDS Heap, FiniteSetTheorems, TLAPS

(* What ties the sweep's registers to the block walk.  The sweep pointer   *)
(* is always on a header or at the frontier, and the free run being built  *)
(* is a free block that ends exactly there: that is what makes "size of    *)
(* prev_free += size of this block" a merge of neighbours.                 *)
SweepInv ==
    pc = "sweep" =>
       /\ addr \in DOMAIN blk \cup {hp}
       /\ prevFree # 0 =>
             /\ prevFree \in FreeBlocks
             /\ prevFree + blk[prevFree].size = addr
       /\ prevFree = 0 => \A a \in FreeBlocks : a + blk[a].size # addr

(* A header and at least one payload unit; a request survives its collection. *)
RequestInv == pc \in {"alloc", "oom"} \/ req.attempt = 1 => req.extent >= 2

IInv == TypeOK /\ Tiling /\ NoAdjacentFree /\ MarksAreTransient
          /\ SweepAccounting /\ SweepInv /\ RequestInv

-----------------------------------------------------------------------------
(* The seeded descriptors tile the arena from its base to REG_HP.          *)
LEMMA InitInv == Init => IInv
<1> SUFFICES ASSUME Init PROVE IInv
  OBVIOUS
<1> USE HeapAssumption
<1>1. SeedAddrs \subseteq HeapBase .. (HeapLimit - 1)
  BY DEF SeedAddrs
<1>2. DOMAIN blk = SeedAddrs /\ \A a \in SeedAddrs : blk[a].size = 2 /\ blk[a].state = "alloc"
  BY DEF Init
<1>3. TypeOK
  <2>1. blk \in [DOMAIN blk -> Block]
    BY DEF Init, Block, States
  <2>2. hp \in HeapBase .. HeapLimit
    BY DEF Init
  <2> QED BY <1>1, <1>2, <2>1, <2>2 DEF Init, TypeOK, NoRequest
<1>4. Tiling
  <2>1. hp > HeapBase => HeapBase \in SeedAddrs
    <3>1. HeapBase + 2 * 0 = HeapBase
      OBVIOUS
    <3> QED BY <3>1 DEF Init, SeedAddrs
  <2>2. ASSUME NEW a \in SeedAddrs
        PROVE  /\ a + 2 \in SeedAddrs \cup {hp}
               /\ a + 2 <= hp
               /\ \A b \in SeedAddrs : b > a => b >= a + 2
    <3>1. PICK t \in 0 .. (Seeds - 1) : a = HeapBase + 2 * t
      BY DEF SeedAddrs
    <3>2. a + 2 = HeapBase + 2 * (t + 1)
      BY <3>1
    <3>3. CASE t + 1 \in 0 .. (Seeds - 1)
      <4>1. a + 2 \in SeedAddrs
        BY <3>2, <3>3 DEF SeedAddrs
      <4> QED BY <4>1, <3>1 DEF Init, SeedAddrs
    <3>4. CASE t + 1 = Seeds
      BY <3>1, <3>4 DEF Init, SeedAddrs
    <3> QED BY <3>3, <3>4
  <2> QED BY <1>2, <2>1, <2>2 DEF Tiling
<1> QED BY <1>2, <1>3, <1>4
      DEF IInv, Init, NoAdjacentFree, MarksAreTransient, SweepAccounting, SweepInv,
          RequestInv, FreeBlocks, Marked, NoRequest

-----------------------------------------------------------------------------
(* The actions that leave the blocks and the frontier alone. *)

(* A request only sets r_alloc's registers: a header and a payload.        *)
LEMMA RequestStep == ASSUME IInv, NEW n \in Payloads, NEW k \in Kinds, Request(n, k) PROVE IInv'
<1>1. n + 1 \in Nat /\ n + 1 >= 2
  BY HeapAssumption
<1>2. req' \in [extent : Nat, kind : Kinds, attempt : {0, 1}] /\ req'.extent >= 2
  BY <1>1 DEF Request
<1>3. TypeOK' /\ RequestInv'
  BY <1>2 DEF IInv, TypeOK, RequestInv, Request
<1> QED BY <1>3 DEF IInv, Request, Tiling, NoAdjacentFree, MarksAreTransient, SweepAccounting,
                    SweepInv, FreeBlocks, Marked

(* The retry, the halt and the two ends of a collection move no block.     *)
LEMMA QuietStep ==
    ASSUME IInv, CollectOnce \/ OutOfMemory \/ Collect \/ SweepDone PROVE IInv'
<1> USE DEF IInv, TypeOK, Tiling, NoAdjacentFree, MarksAreTransient, SweepAccounting,
            SweepInv, RequestInv, FreeBlocks, Marked
<1>1. CASE CollectOnce
  BY <1>1 DEF CollectOnce
<1>2. CASE OutOfMemory
  BY <1>2 DEF OutOfMemory
<1>3. CASE Collect
  BY <1>3 DEF Collect
<1>4. CASE SweepDone
  <2>1. \A a \in DOMAIN blk : a < hp
    BY DEF Block
  <2>2. addr >= hp /\ hp' = hp /\ blk' = blk /\ pc' \in {"run", "alloc"}
    BY <1>4 DEF SweepDone
  <2>3. req' = req /\ (pc' = "alloc" => req.attempt = 1)
    BY <1>4 DEF SweepDone
  <2> QED BY <1>4, <2>1, <2>2, <2>3 DEF SweepDone
<1> QED BY <1>1, <1>2, <1>3, <1>4

-----------------------------------------------------------------------------
(* The actions that rewrite the blocks. *)

(* Marking changes mark bits only, and the sweep starts at the base.       *)
LEMMA MarkStep == ASSUME IInv, NEW S \in SUBSET Allocated, Mark(S) PROVE IInv'
<1> USE DEF IInv
<1>1. /\ DOMAIN blk' = DOMAIN blk
      /\ \A a \in DOMAIN blk : /\ blk'[a] \in Block
                               /\ blk'[a].size = blk[a].size
                               /\ blk'[a].state = "free" <=> blk[a].state = "free"
  BY DEF Mark, TypeOK, Block, States, Allocated
<1>2. FreeBlocks' = FreeBlocks
  BY <1>1 DEF FreeBlocks
<1>3. TypeOK'
  <2>1. blk' \in [DOMAIN blk' -> Block]
    BY <1>1 DEF Mark
  <2>2. addr' = HeapBase /\ addr' \in HeapBase .. HeapLimit
    BY HeapAssumption DEF Mark
  <2> QED BY <1>1, <2>1, <2>2 DEF Mark, TypeOK
<1>4. Tiling'
  BY <1>1 DEF Mark, Tiling
<1>5. \A a \in DOMAIN blk : a >= HeapBase /\ a + blk[a].size > HeapBase
  BY HeapAssumption DEF TypeOK, Block
<1>6. NoAdjacentFree' /\ MarksAreTransient'
  BY <1>1, <1>2, <1>5 DEF Mark, NoAdjacentFree, MarksAreTransient, FreeBlocks, Marked
<1>7. SweepInv'
  <2>1. addr' \in DOMAIN blk' \cup {hp'}
    BY <1>1, HeapAssumption DEF Mark, TypeOK, Tiling
  <2>2. \A a \in FreeBlocks' : a + blk'[a].size # HeapBase
    BY <1>1, <1>5, HeapAssumption DEF FreeBlocks, TypeOK, Block
  <2> QED BY <2>1, <2>2 DEF Mark, SweepInv
<1>8. SweepAccounting' /\ RequestInv'
  BY HeapAssumption DEF Mark, SweepAccounting, RequestInv, TypeOK
<1> QED BY <1>3, <1>4, <1>6, <1>7, <1>8

(* What the tiling says of one block and its neighbours. *)
LEMMA Neighbours ==
    ASSUME IInv, NEW a \in DOMAIN blk
    PROVE  /\ a \in Int /\ a >= HeapBase /\ a < hp
           /\ blk[a].size \in Nat /\ blk[a].size >= 2
           /\ a + blk[a].size \in DOMAIN blk \cup {hp}
           /\ a + blk[a].size <= hp
           /\ \A b \in DOMAIN blk : b > a => b >= a + blk[a].size
  BY HeapAssumption DEF IInv, TypeOK, Tiling, Block

(* A bump adds one block at the frontier, which becomes its end.           *)
LEMMA BumpStep == ASSUME IInv, Bump PROVE IInv'
<1> USE DEF IInv
<1> DEFINE new == [size |-> req.extent, state |-> "alloc", kind |-> req.kind]
<1>1. new \in Block
  BY DEF Bump, RequestInv, TypeOK, Block, States
<1>2. hp \in Int /\ req.extent \in Nat /\ req.extent >= 2 /\ hp \notin DOMAIN blk
  BY Neighbours, HeapAssumption DEF Bump, TypeOK, RequestInv
<1>3. /\ DOMAIN blk' = DOMAIN blk \cup {hp}
      /\ blk'[hp] = new
      /\ \A b \in DOMAIN blk : blk'[b] = blk[b]
      /\ hp' = hp + req.extent
  BY <1>2 DEF Bump
<1>4. TypeOK'
  <2>1. hp' \in HeapBase .. HeapLimit /\ hp < HeapLimit
    BY <1>2, <1>3, HeapAssumption DEF Bump, TypeOK
  <2>2. DOMAIN blk' \subseteq HeapBase .. (HeapLimit - 1)
    BY <1>2, <1>3, <2>1, HeapAssumption DEF TypeOK
  <2>3. blk' \in [DOMAIN blk' -> Block]
    BY <1>1, <1>3 DEF Bump, TypeOK
  <2> QED BY <2>1, <2>2, <2>3, HeapAssumption DEF Bump, TypeOK, NoRequest
<1>5. Tiling'
  <2>1. HeapBase \in DOMAIN blk'
    BY <1>2, <1>3, HeapAssumption DEF Tiling, TypeOK
  <2>2. ASSUME NEW a \in DOMAIN blk'
        PROVE  /\ a + blk'[a].size \in DOMAIN blk' \cup {hp'}
               /\ a + blk'[a].size <= hp'
               /\ \A b \in DOMAIN blk' : b > a => b >= a + blk'[a].size
    BY <1>2, <1>3, Neighbours
  <2> QED BY <2>1, <2>2 DEF Tiling
<1>6. FreeBlocks' = FreeBlocks /\ Marked' = Marked
  BY <1>2, <1>3 DEF FreeBlocks, Marked
<1> QED BY <1>3, <1>4, <1>5, <1>6
        DEF Bump, NoAdjacentFree, MarksAreTransient, SweepAccounting, SweepInv, RequestInv,
            NoRequest, FreeBlocks, Marked

(* A split puts the new header where the taken part ends.                  *)
LEMMA SplitStep ==
    ASSUME IInv, FirstFit, NEW a \in Fitting, blk[a].size - req.extent >= 2, Split(a)
    PROVE  IInv'
<1> USE DEF IInv
<1> DEFINE rest == a + req.extent
           taken == [size |-> req.extent, state |-> "alloc", kind |-> req.kind]
           left == [size |-> blk[a].size - req.extent, state |-> "free", kind |-> blk[a].kind]
<1>1. /\ a \in DOMAIN blk /\ blk[a].state = "free" /\ blk[a].kind \in Kinds
      /\ req.extent \in Nat /\ req.extent >= 2 /\ req.kind \in Kinds /\ hp \in Int
  BY HeapAssumption DEF Fitting, FreeBlocks, FirstFit, RequestInv, TypeOK, Block
<1>2. /\ a \in Int /\ a >= HeapBase /\ a < hp /\ blk[a].size \in Nat
      /\ \A b \in DOMAIN blk : b > a => b >= a + blk[a].size
      /\ a + blk[a].size <= hp /\ a + blk[a].size \in DOMAIN blk \cup {hp}
  BY <1>1, Neighbours
<1>3. rest \notin DOMAIN blk /\ rest > a /\ rest + left.size = a + blk[a].size /\ rest < hp
  BY <1>1, <1>2
<1>4. /\ DOMAIN blk' = DOMAIN blk \cup {rest}
      /\ blk'[a] = taken /\ blk'[rest] = left
      /\ \A b \in DOMAIN blk \ {a} : blk'[b] = blk[b]
  BY <1>1, <1>2, <1>3 DEF Split
<1>5. pc = "alloc" /\ pc' = "run" /\ req' = NoRequest
      /\ hp' = hp /\ addr' = addr /\ prevFree' = prevFree /\ stat' = stat
  BY DEF FirstFit
<1>6. TypeOK'
  <2>1. taken \in Block /\ left \in Block
    BY <1>1, <1>2 DEF Block, States
  <2>2. blk' \in [DOMAIN blk' -> Block]
    <3>1. \A b \in DOMAIN blk' : blk'[b] \in Block
      BY <1>4, <2>1 DEF TypeOK
    <3> QED BY <3>1 DEF Split
  <2>3. rest \in HeapBase .. (HeapLimit - 1)
    BY <1>1, <1>2, <1>3, HeapAssumption DEF TypeOK
  <2> QED BY <1>4, <1>5, <2>2, <2>3, HeapAssumption DEF TypeOK, NoRequest
<1>7. Tiling'
  <2>1. ASSUME NEW c \in DOMAIN blk'
        PROVE  /\ c + blk'[c].size \in DOMAIN blk' \cup {hp'}
               /\ c + blk'[c].size <= hp'
               /\ \A b \in DOMAIN blk' : b > c => b >= c + blk'[c].size
    <3>1. CASE c = a
      BY <1>1, <1>2, <1>3, <1>4, <1>5, <3>1, Neighbours
    <3>2. CASE c = rest
      BY <1>1, <1>2, <1>3, <1>4, <1>5, <3>2, Neighbours
    <3>3. CASE c \in DOMAIN blk \ {a}
      <4>1. blk'[c] = blk[c]
        BY <1>4, <3>3
      <4>2. rest > c => rest >= c + blk[c].size
        BY <1>1, <1>2, <1>3, <3>3, Neighbours
      <4> QED BY <1>4, <1>5, <3>3, <4>1, <4>2, Neighbours
    <3> QED BY <1>4, <3>1, <3>2, <3>3
  <2> QED BY <1>4, <1>5, <2>1 DEF Tiling
<1>8. FreeBlocks' = (FreeBlocks \ {a}) \cup {rest} /\ Marked' = Marked
  BY <1>1, <1>3, <1>4 DEF FreeBlocks, Marked
<1>9. NoAdjacentFree'
  <2> SUFFICES ASSUME NEW c \in FreeBlocks', NEW d \in FreeBlocks', d = c + blk'[c].size
               PROVE  FALSE
    BY DEF NoAdjacentFree
  <2>1. \A e \in FreeBlocks \ {a} : e \in DOMAIN blk /\ e # rest /\ e # a /\ blk'[e] = blk[e]
    BY <1>3, <1>4 DEF FreeBlocks
  <2>2. a \in FreeBlocks
    BY <1>1 DEF FreeBlocks
  <2>3. CASE c = rest
    <3>1. d = a + blk[a].size
      BY <1>3, <1>4, <2>3
    <3>2. d \in FreeBlocks
      BY <1>1, <1>2, <1>3, <1>8, <3>1
    <3> QED BY <1>5, <2>2, <3>1, <3>2 DEF NoAdjacentFree
  <2>4. CASE c # rest
    <3>1. c \in FreeBlocks /\ c # a /\ d = c + blk[c].size
      BY <1>8, <2>1, <2>4
    <3>2. d # rest
      BY <1>1, <1>2, <1>3, <2>1, <3>1, Neighbours DEF FreeBlocks
    <3> QED BY <1>5, <1>8, <2>2, <3>1, <3>2 DEF NoAdjacentFree
  <2> QED BY <2>3, <2>4
<1> QED BY <1>1, <1>4, <1>5, <1>6, <1>7, <1>8, <1>9
        DEF MarksAreTransient, SweepAccounting, SweepInv, RequestInv, NoRequest

(* A block taken with its remainder keeps its size.                        *)
LEMMA TakeWholeStep ==
    ASSUME IInv, FirstFit, NEW a \in Fitting, TakeWhole(a)
    PROVE  IInv'
<1> USE DEF IInv
<1>1. a \in DOMAIN blk /\ req.kind \in Kinds /\ blk[a].size \in Nat /\ blk[a].state = "free"
  BY DEF Fitting, FreeBlocks, TypeOK, Block
<1>2. /\ DOMAIN blk' = DOMAIN blk
      /\ blk'[a] = [size |-> blk[a].size, state |-> "alloc", kind |-> req.kind]
      /\ \A b \in DOMAIN blk : blk'[b].size = blk[b].size
      /\ \A b \in DOMAIN blk \ {a} : blk'[b] = blk[b]
  BY <1>1 DEF TakeWhole, TypeOK
<1>3. pc = "alloc" /\ pc' = "run" /\ req' = NoRequest
      /\ hp' = hp /\ addr' = addr /\ prevFree' = prevFree /\ stat' = stat
  BY DEF FirstFit
<1>4. TypeOK'
  <2>1. blk'[a] \in Block
    BY <1>1, <1>2 DEF Block, States, TypeOK
  <2>2. blk' \in [DOMAIN blk' -> Block]
    BY <1>2, <2>1 DEF TakeWhole, TypeOK
  <2> QED BY <1>2, <1>3, <2>2, HeapAssumption DEF TypeOK, NoRequest
<1>5. Tiling'
  BY <1>2, <1>3 DEF Tiling
<1>6. FreeBlocks' = FreeBlocks \ {a} /\ Marked' = Marked
  BY <1>1, <1>2 DEF FreeBlocks, Marked
<1>7. NoAdjacentFree'
  BY <1>2, <1>3, <1>6 DEF NoAdjacentFree, FreeBlocks
<1> QED BY <1>3, <1>4, <1>5, <1>6, <1>7
        DEF MarksAreTransient, SweepAccounting, SweepInv, RequestInv, NoRequest

(* Facts every sweep step starts from: the pointer is on a header. *)
LEMMA SweepAt ==
    ASSUME IInv, pc = "sweep", addr < hp
    PROVE  /\ addr \in DOMAIN blk /\ addr \in Int
           /\ blk[addr] \in Block
           /\ blk[addr].size \in Nat /\ blk[addr].size >= 2
           /\ addr + blk[addr].size \in DOMAIN blk \cup {hp}
           /\ addr + blk[addr].size \in HeapBase .. HeapLimit
           /\ stat.live \in Nat /\ stat.free \in Nat
           /\ stat.live + stat.free = addr - HeapBase
<1>1. addr \in DOMAIN blk
  BY HeapAssumption DEF IInv, SweepInv, TypeOK
<1> QED BY <1>1, Neighbours, HeapAssumption DEF IInv, TypeOK, SweepAccounting

(* A live block ends the free run and counts as live.                      *)
LEMMA SweepLiveStep == ASSUME IInv, SweepLive PROVE IInv'
<1> USE DEF IInv
<1>1. pc = "sweep" /\ addr < hp /\ blk[addr].state = "marked"
  BY DEF SweepLive
<1>2. /\ DOMAIN blk' = DOMAIN blk
      /\ \A b \in DOMAIN blk : blk'[b].size = blk[b].size
      /\ blk'[addr] = [blk[addr] EXCEPT !.state = "alloc"]
      /\ \A b \in DOMAIN blk \ {addr} : blk'[b] = blk[b]
  BY <1>1, SweepAt DEF SweepLive, TypeOK, Block
<1>3. TypeOK'
  <2>1. blk'[addr] \in Block
    BY <1>1, <1>2, SweepAt DEF Block, States
  <2>2. blk' \in [DOMAIN blk' -> Block]
    BY <1>2, <2>1 DEF SweepLive, TypeOK
  <2>3. stat' \in [live : Nat, free : Nat, blocks : Nat, reclaim : Nat]
    BY <1>1, SweepAt DEF SweepLive, TypeOK
  <2> QED BY <1>1, <1>2, <2>2, <2>3, SweepAt DEF SweepLive, TypeOK
<1>4. Tiling'
  BY <1>2 DEF SweepLive, Tiling
<1>5. FreeBlocks' = FreeBlocks /\ Marked' = Marked \ {addr}
  BY <1>1, <1>2, SweepAt DEF FreeBlocks, Marked, Block
<1>6. NoAdjacentFree'
  <2> SUFFICES ASSUME NEW a \in FreeBlocks, NEW b \in FreeBlocks, b = a + blk[a].size
               PROVE  b >= addr + blk[addr].size
    BY <1>2, <1>5 DEF SweepLive, NoAdjacentFree, FreeBlocks
  <2>1. b >= addr /\ b # addr
    BY <1>1 DEF NoAdjacentFree, FreeBlocks
  <2> QED BY <1>1, <2>1, SweepAt, Neighbours DEF FreeBlocks, TypeOK
<1>7. MarksAreTransient'
  <2> SUFFICES ASSUME NEW a \in Marked, a # addr
               PROVE  a >= addr + blk[addr].size
    BY <1>5 DEF SweepLive, MarksAreTransient
  <2>1. a >= addr
    BY DEF MarksAreTransient
  <2> QED BY <1>1, <2>1, SweepAt, Neighbours DEF Marked, TypeOK
<1>8. SweepAccounting'
  <2>1. stat'.live = stat.live + blk[addr].size /\ stat'.free = stat.free
    BY DEF SweepLive, TypeOK
  <2> QED BY <1>1, <2>1, SweepAt, HeapAssumption DEF SweepLive, SweepAccounting
<1>9. SweepInv'
  <2>1. ASSUME NEW a \in FreeBlocks PROVE a + blk[a].size # addr + blk[addr].size
    BY <1>1, SweepAt, Neighbours DEF FreeBlocks, TypeOK
  <2>2. \A a \in FreeBlocks' : a + blk'[a].size # addr'
    BY <1>2, <1>5, <2>1 DEF SweepLive, FreeBlocks
  <2> QED BY <1>1, <1>2, <2>2, SweepAt DEF SweepLive, SweepInv
<1> QED BY <1>3, <1>4, <1>6, <1>7, <1>8, <1>9 DEF SweepLive, RequestInv

(* The first free or dead block after a live one starts the free run.      *)
LEMMA SweepNewRunStep == ASSUME IInv, SweepNewRun PROVE IInv'
<1> USE DEF IInv
<1>1. pc = "sweep" /\ addr < hp /\ blk[addr].state # "marked" /\ prevFree = 0
  BY DEF SweepNewRun
<1>2. /\ DOMAIN blk' = DOMAIN blk
      /\ \A b \in DOMAIN blk : blk'[b].size = blk[b].size
      /\ blk'[addr] = [blk[addr] EXCEPT !.state = "free"]
      /\ \A b \in DOMAIN blk \ {addr} : blk'[b] = blk[b]
  BY <1>1, SweepAt DEF SweepNewRun, TypeOK, Block
<1>3. TypeOK'
  <2>1. blk'[addr] \in Block
    BY <1>1, <1>2, SweepAt DEF Block, States
  <2>2. blk' \in [DOMAIN blk' -> Block]
    BY <1>2, <2>1 DEF SweepNewRun, TypeOK
  <2>3. stat' \in [live : Nat, free : Nat, blocks : Nat, reclaim : Nat]
    <3>1. stat.free + blk[addr].size \in Nat /\ stat.blocks + 1 \in Nat
      BY <1>1, SweepAt DEF TypeOK
    <3> QED BY <3>1 DEF SweepNewRun, TypeOK
  <2>4. prevFree' \in HeapBase .. (HeapLimit - 1)
    BY <1>1, SweepAt DEF SweepNewRun, TypeOK
  <2> QED BY <1>1, <1>2, <2>2, <2>3, <2>4, SweepAt DEF SweepNewRun, TypeOK
<1>4. Tiling'
  BY <1>2 DEF SweepNewRun, Tiling
<1>5. FreeBlocks' = FreeBlocks \cup {addr} /\ Marked' = Marked
  BY <1>1, <1>2, SweepAt DEF FreeBlocks, Marked, Block
<1>6. NoAdjacentFree'
  <2> SUFFICES ASSUME NEW a \in FreeBlocks \cup {addr}, NEW b \in FreeBlocks \cup {addr},
                      b = a + blk[a].size
               PROVE  b >= addr + blk[addr].size
    BY <1>1, <1>2, <1>5, SweepAt DEF SweepNewRun, NoAdjacentFree, FreeBlocks
  <2>1. CASE a = addr
    BY <1>1, <2>1, SweepAt
  <2>2. CASE a # addr
    <3>1. b # addr
      BY <1>1, <2>2 DEF SweepInv
    <3>2. b >= addr
      BY <1>1, <2>2, <3>1 DEF NoAdjacentFree
    <3> QED BY <1>1, <3>1, <3>2, SweepAt, Neighbours DEF FreeBlocks, TypeOK
  <2> QED BY <2>1, <2>2
<1>7. MarksAreTransient'
  <2> SUFFICES ASSUME NEW a \in Marked
               PROVE  a >= addr + blk[addr].size
    BY <1>5 DEF SweepNewRun, MarksAreTransient
  <2>1. a >= addr /\ a # addr
    BY <1>1 DEF MarksAreTransient, Marked
  <2> QED BY <1>1, <2>1, SweepAt, Neighbours DEF Marked, TypeOK
<1>8. SweepAccounting'
  <2>1. stat'.free = stat.free + blk[addr].size /\ stat'.live = stat.live
    BY DEF SweepNewRun, TypeOK
  <2> QED BY <1>1, <2>1, SweepAt, HeapAssumption DEF SweepNewRun, SweepAccounting
<1>9. SweepInv'
  <2>1. prevFree' \in FreeBlocks' /\ prevFree' + blk'[prevFree'].size = addr'
    BY <1>1, <1>2, <1>5, SweepAt DEF SweepNewRun
  <2>2. prevFree' # 0
    BY <1>1, SweepAt, HeapAssumption DEF SweepNewRun, TypeOK
  <2> QED BY <1>1, <1>2, <2>1, <2>2, SweepAt DEF SweepNewRun, SweepInv
<1> QED BY <1>3, <1>4, <1>6, <1>7, <1>8, <1>9 DEF SweepNewRun, RequestInv

(* A free or dead block that ends a free run's reach is merged with it.    *)
LEMMA SweepCoalesceStep == ASSUME IInv, SweepCoalesce PROVE IInv'
<1> USE DEF IInv
<1>1. pc = "sweep" /\ addr < hp /\ blk[addr].state # "marked" /\ prevFree # 0
  BY DEF SweepCoalesce
<1>2. /\ prevFree \in DOMAIN blk /\ blk[prevFree].state = "free" /\ blk[prevFree] \in Block
      /\ prevFree + blk[prevFree].size = addr
      /\ prevFree \in Int /\ prevFree < addr /\ prevFree # addr /\ blk[prevFree].size \in Nat
  <2>1. prevFree \in FreeBlocks /\ prevFree + blk[prevFree].size = addr
    BY <1>1 DEF SweepInv
  <2> QED BY <2>1, Neighbours DEF FreeBlocks, TypeOK
<1> DEFINE merged == [blk[prevFree] EXCEPT !.size = @ + blk[addr].size]
<1>3. /\ DOMAIN blk' = DOMAIN blk \ {addr}
      /\ blk'[prevFree] = merged
      /\ \A b \in DOMAIN blk \ {addr, prevFree} : blk'[b] = blk[b]
  BY <1>2 DEF SweepCoalesce
<1>4. merged \in Block /\ merged.size = blk[prevFree].size + blk[addr].size /\ merged.state = "free"
  BY <1>1, <1>2, SweepAt DEF Block, States
<1>a. /\ blk'[prevFree].state = "free"
      /\ blk'[prevFree].size = blk[prevFree].size + blk[addr].size
      /\ prevFree + blk'[prevFree].size = addr + blk[addr].size
      /\ prevFree \in DOMAIN blk'
  <2>1. blk'[prevFree].state = "free" /\ blk'[prevFree].size = blk[prevFree].size + blk[addr].size
    BY <1>3, <1>4
  <2> QED BY <1>1, <1>2, <1>3, <2>1, SweepAt
<1>5. TypeOK'
  <2>1. \A b \in DOMAIN blk' : blk'[b] \in Block
    BY <1>3, <1>4 DEF TypeOK
  <2>2. blk' \in [DOMAIN blk' -> Block]
    BY <2>1 DEF SweepCoalesce
  <2>3. stat' \in [live : Nat, free : Nat, blocks : Nat, reclaim : Nat]
    BY <1>1, SweepAt DEF SweepCoalesce, TypeOK
  <2> QED BY <1>1, <1>3, <2>2, <2>3, SweepAt DEF SweepCoalesce, TypeOK
<1>6. ASSUME NEW c \in DOMAIN blk' \ {prevFree}
      PROVE  /\ c \in DOMAIN blk /\ c # addr /\ blk'[c] = blk[c]
             /\ c + blk[c].size # addr
             /\ addr > c => prevFree >= c + blk[c].size
             /\ c > prevFree => c >= addr + blk[addr].size
  <2>1. c \in DOMAIN blk /\ c # addr /\ blk'[c] = blk[c] /\ c \in Int /\ blk[c].size \in Nat
    BY <1>3, Neighbours
  <2>2. addr > c => prevFree >= c + blk[c].size
    <3>1. addr > c => c < prevFree
      BY <1>2, <2>1, Neighbours
    <3> QED BY <1>2, <2>1, <3>1, Neighbours
  <2>3. c + blk[c].size # addr
    <3>1. blk[c].size >= 2
      BY <2>1, Neighbours
    <3> QED BY <1>2, <2>1, <2>2, <3>1
  <2>4. c > prevFree => c > addr
    BY <1>1, <1>2, <2>1, Neighbours, SweepAt
  <2>5. c > addr => c >= addr + blk[addr].size
    BY <1>1, <2>1, Neighbours, SweepAt
  <2> QED BY <2>1, <2>2, <2>3, <2>4, <2>5
<1> HIDE DEF merged
<1>7. Tiling'
  <2>1. ASSUME NEW c \in DOMAIN blk'
        PROVE  /\ c + blk'[c].size \in DOMAIN blk' \cup {hp'}
               /\ c + blk'[c].size <= hp'
               /\ \A b \in DOMAIN blk' : b > c => b >= c + blk'[c].size
    <3>1. CASE c = prevFree
      <4>1. c + blk'[c].size = addr + blk[addr].size
        BY <1>a, <3>1
      <4>2. addr + blk[addr].size # addr /\ addr + blk[addr].size <= hp /\ hp' = hp
        BY <1>1, SweepAt, Neighbours DEF SweepCoalesce
      <4>3. addr + blk[addr].size \in DOMAIN blk' \cup {hp'}
        BY <1>1, <1>3, <4>2, SweepAt
      <4>4. \A b \in DOMAIN blk' : b > prevFree => b >= addr + blk[addr].size
        BY <1>2, <1>6
      <4> QED BY <3>1, <4>1, <4>2, <4>3, <4>4
    <3>2. CASE c # prevFree
      <4>1. c \in DOMAIN blk /\ c # addr /\ blk'[c] = blk[c] /\ c + blk[c].size # addr
        BY <1>6, <3>2
      <4> QED BY <1>3, <4>1, Neighbours DEF SweepCoalesce
    <3> QED BY <3>1, <3>2
  <2>2. hp' > HeapBase => HeapBase \in DOMAIN blk'
    BY <1>1, <1>2, <1>3, Neighbours DEF SweepCoalesce, Tiling, TypeOK
  <2> QED BY <2>1, <2>2 DEF Tiling
<1>8. FreeBlocks' = FreeBlocks \ {addr} /\ Marked' = Marked
  BY <1>1, <1>2, <1>3, <1>a DEF FreeBlocks, Marked
<1>9. NoAdjacentFree'
  <2> SUFFICES ASSUME NEW c \in FreeBlocks', NEW d \in FreeBlocks', d = c + blk'[c].size
               PROVE  d >= addr + blk[addr].size
    BY <1>1 DEF SweepCoalesce, NoAdjacentFree
  <2>1. d \in DOMAIN blk /\ d # addr /\ d \in FreeBlocks
    BY <1>3, <1>8 DEF FreeBlocks
  <2>2. CASE c = prevFree
    BY <1>a, <2>2, SweepAt, <1>1
  <2>3. CASE c # prevFree
    <3>1. c \in FreeBlocks /\ d = c + blk[c].size
      BY <1>6, <1>8, <2>3 DEF FreeBlocks
    <3>2. d >= addr
      BY <2>1, <3>1 DEF NoAdjacentFree
    <3> QED BY <1>1, <2>1, <3>2, SweepAt, Neighbours DEF TypeOK
  <2> QED BY <2>2, <2>3
<1>10. MarksAreTransient'
  <2> SUFFICES ASSUME NEW a \in Marked
               PROVE  a >= addr + blk[addr].size
    BY <1>8 DEF SweepCoalesce, MarksAreTransient
  <2>1. a >= addr /\ a # addr
    BY <1>1 DEF MarksAreTransient, Marked
  <2> QED BY <1>1, <2>1, SweepAt, Neighbours DEF Marked, TypeOK
<1>11. SweepAccounting'
  <2>1. stat'.free = stat.free + blk[addr].size /\ stat'.live = stat.live
    BY DEF SweepCoalesce, TypeOK
  <2> QED BY <1>1, <2>1, SweepAt, HeapAssumption DEF SweepCoalesce, SweepAccounting
<1>12. SweepInv'
  <2>1. addr' = addr + blk[addr].size /\ prevFree' = prevFree /\ hp' = hp
    BY DEF SweepCoalesce
  <2>2. addr + blk[addr].size # addr
    BY <1>1, SweepAt
  <2>3. prevFree \in FreeBlocks' /\ prevFree + blk'[prevFree].size = addr'
    BY <1>1, <1>2, <1>3, <1>4, <1>8, <2>1, SweepAt DEF FreeBlocks
  <2> QED BY <1>1, <1>3, <2>1, <2>2, <2>3, SweepAt DEF SweepInv
<1> QED BY <1>5, <1>7, <1>9, <1>10, <1>11, <1>12 DEF SweepCoalesce, RequestInv

-----------------------------------------------------------------------------
(* IInv is inductive, hence invariant: the walk of the heap is well formed *)
(* whatever sequence of allocations, splits, merges and collections ran.   *)
THEOREM Invariance == Spec => []IInv
<1>1. IInv /\ [Next]_vars => IInv'
  <2> SUFFICES ASSUME IInv, [Next]_vars PROVE IInv'
    OBVIOUS
  <2>1. ASSUME NEW n \in Payloads, NEW k \in Kinds, Request(n, k) PROVE IInv'
    BY <2>1, RequestStep
  <2>2. CASE FirstFit
    <3>1. PICK a \in Fitting : \/ blk[a].size - req.extent >= 2 /\ Split(a)
                               \/ blk[a].size - req.extent < 2 /\ TakeWhole(a)
      BY <2>2 DEF FirstFit
    <3> QED BY <2>2, <3>1, SplitStep, TakeWholeStep
  <2>3. CASE Bump
    BY <2>3, BumpStep
  <2>4. CASE CollectOnce \/ OutOfMemory \/ Collect \/ SweepDone
    BY <2>4, QuietStep
  <2>5. ASSUME NEW S \in SUBSET Allocated, Mark(S) PROVE IInv'
    BY <2>5, MarkStep
  <2>6. CASE SweepLive
    BY <2>6, SweepLiveStep
  <2>7. CASE SweepNewRun
    BY <2>7, SweepNewRunStep
  <2>8. CASE SweepCoalesce
    BY <2>8, SweepCoalesceStep
  <2>9. CASE UNCHANGED vars
    BY <2>9 DEF vars, IInv, TypeOK, Tiling, NoAdjacentFree, MarksAreTransient, SweepAccounting,
                SweepInv, RequestInv, FreeBlocks, Marked
  <2> QED BY <2>1, <2>2, <2>3, <2>4, <2>5, <2>6, <2>7, <2>8, <2>9 DEF Next
<1> QED BY InitInv, <1>1, PTL DEF Spec

(* Registers keep their types and REG_HP stays inside the heap. *)
THEOREM TypeCorrect == Spec => []TypeOK
<1>1. IInv => TypeOK
  BY DEF IInv
<1> QED BY Invariance, <1>1, PTL

(* The walk r_alloc and the sweep make over the heap visits headers only. *)
THEOREM BlocksTile == Spec => []Tiling
<1>1. IInv => Tiling
  BY DEF IInv
<1> QED BY Invariance, <1>1, PTL

(* Free blocks never stay adjacent once the sweep has passed them. *)
THEOREM CoalescingComplete == Spec => []NoAdjacentFree
<1>1. IInv => NoAdjacentFree
  BY DEF IInv
<1> QED BY Invariance, <1>1, PTL

(* No mark survives the collection that set it. *)
THEOREM MarksCleared == Spec => []MarksAreTransient
<1>1. IInv => MarksAreTransient
  BY DEF IInv
<1> QED BY Invariance, <1>1, PTL

(* The live and free counters account for every cell the sweep passed. *)
THEOREM CellsAccounted == Spec => []SweepAccounting
<1>1. IInv => SweepAccounting
  BY DEF IInv
<1> QED BY Invariance, <1>1, PTL

(* In every state the blocks tile the arena, no two free ones adjoin, no   *)
(* mark is stale and the counters add up.                                  *)
THEOREM HeapStaysWhole == Spec => []HeapIsWhole
<1>1. IInv => HeapIsWhole
  BY DEF IInv, HeapIsWhole
<1> QED BY Invariance, <1>1, PTL

(* There are never more blocks than half the units of the heap. *)
THEOREM FewBlocks == Spec => []BlocksFitWorklist
<1>1. IInv => BlocksFitWorklist
  <2> SUFFICES ASSUME IInv PROVE BlocksFitWorklist
    OBVIOUS
  <2> DEFINE half == (HeapLimit - HeapBase) \div 2
             slot == [a \in DOMAIN blk |-> (a - HeapBase) \div 2]
  <2>1. HeapBase \in Nat /\ HeapLimit \in Nat /\ HeapBase <= HeapLimit /\ half \in Nat
        /\ hp \in Int /\ hp <= HeapLimit
    BY HeapAssumption DEF IInv, TypeOK
  <2>2. ASSUME NEW a \in DOMAIN blk
        PROVE  /\ a \in Int /\ a >= HeapBase /\ a + 2 <= HeapLimit
               /\ \A b \in DOMAIN blk : b > a => b >= a + 2
    <3>1. /\ a \in Int /\ a >= HeapBase /\ blk[a].size \in Nat /\ blk[a].size >= 2
          /\ a + blk[a].size <= hp
          /\ \A b \in DOMAIN blk : b > a => b >= a + blk[a].size
      BY Neighbours
    <3>2. \A b \in DOMAIN blk : b \in Int
      BY Neighbours
    <3> QED BY <2>1, <3>1, <3>2
  <2>3. \A a \in DOMAIN blk : slot[a] \in 0 .. (half - 1)
    BY <2>1, <2>2
  <2>4. \A a, b \in DOMAIN blk : slot[a] = slot[b] => a = b
    BY <2>1, <2>2
  <2>5. slot \in Injection(DOMAIN blk, 0 .. (half - 1))
    BY <2>3, <2>4 DEF Injection, IsInjective
  <2>6. IsFiniteSet(0 .. (half - 1)) /\ Cardinality(0 .. (half - 1)) = half
    BY <2>1, FS_Interval
  <2>7. IsFiniteSet(DOMAIN blk) /\ Cardinality(DOMAIN blk) <= half
    BY <2>5, <2>6, FS_Injection
  <2>8. Cardinality(DOMAIN blk) \in Nat
    BY <2>7, FS_CardinalityType
  <2> QED BY <2>1, <2>7, <2>8 DEF BlocksFitWorklist
<1> QED BY Invariance, <1>1, PTL

-----------------------------------------------------------------------------
(* The refinement: blocks of the walk seen as the objects of AbstractHeap. *)

(* The abstract objects are the allocated blocks, marked or not.           *)
LEMMA ObjectsDomain ==
    /\ DOMAIN Objects = Allocated
    /\ \A a \in Allocated : Objects[a] = [size |-> blk[a].size, kind |-> blk[a].kind]
  BY DEF Objects

(* The same after a step.                                                  *)
LEMMA ObjectsDomainPrime ==
    /\ DOMAIN Objects' = Allocated'
    /\ \A a \in Allocated' : Objects'[a] = [size |-> blk'[a].size, kind |-> blk'[a].kind]
  BY DEF Objects

(* When the allocated blocks and what the abstraction shows of them are    *)
(* the same, so are the objects.                                           *)
LEMMA SameObjects ==
    ASSUME Allocated' = Allocated,
           \A a \in Allocated : blk'[a].size = blk[a].size /\ blk'[a].kind = blk[a].kind
    PROVE  Objects' = Objects
  BY DEF Objects

(* The seeded descriptors are the abstract heap's first objects.           *)
LEMMA AbsInitHolds == Init => Abs!AbsInit
<1> SUFFICES ASSUME Init PROVE Abs!AbsInit
  OBVIOUS
<1>1. IInv
  BY InitInv
<1>2. ASSUME NEW a \in DOMAIN Objects
      PROVE  Abs!Cells(a, Objects[a].size) \subseteq HeapBase .. (HeapLimit - 1)
  <2>0. a \in Allocated
    BY ObjectsDomain
  <2>3. Objects[a] = [size |-> blk[a].size, kind |-> blk[a].kind]
    BY <2>0, ObjectsDomain
  <2>1. a \in DOMAIN blk /\ Objects[a].size = blk[a].size
    BY <2>0, <2>3 DEF Allocated
  <2> QED BY <1>1, <2>1, Neighbours, HeapAssumption DEF IInv, TypeOK, Abs!Cells
<1> QED BY <1>2 DEF Init, Kept, Phase, Abs!AbsInit

(* Taking free units for an object is the abstract Allocate. *)
LEMMA AllocateStep ==
    ASSUME IInv, IInv', pc = "alloc", pc' = "run",
           NEW a \in Int, NEW s \in Nat, NEW k \in Kinds,
           a \in DOMAIN blk', blk'[a].size = s, s >= 2, blk'[a].kind = k,
           Allocated' = Allocated \cup {a}, a \notin Allocated,
           \A b \in Allocated : blk'[b] = blk[b]
    PROVE  Abs!AbsNext
<1>1. Phase = "run" /\ Phase' = "run" /\ Kept' = Kept
  BY DEF Phase, Kept
<1>2. /\ Abs!Cells(a, s) \subseteq HeapBase .. (HeapLimit - 1)
      /\ a \in HeapBase .. (HeapLimit - 1) /\ s \in 2 .. (HeapLimit - HeapBase)
  <2>1. a >= HeapBase /\ a + s <= hp' /\ hp' <= HeapLimit /\ hp' \in Int
    BY HeapAssumption DEF IInv, Tiling, TypeOK
  <2> QED BY <2>1, HeapAssumption DEF Abs!Cells
<1>3. ASSUME NEW b \in DOMAIN Objects
      PROVE  Abs!Cells(a, s) \cap Abs!Cells(b, Objects[b].size) = {}
  <2>0. b \in Allocated /\ b # a
    BY ObjectsDomain
  <2>1. b \in Allocated' /\ b \in DOMAIN blk' /\ blk'[b].size = blk[b].size
    BY <2>0 DEF Allocated
  <2>2. Objects[b].size = blk[b].size
    <3>1. Objects[b] = [size |-> blk[b].size, kind |-> blk[b].kind]
      BY <2>0, ObjectsDomain
    <3> QED BY <3>1
  <2>3. b \in Int /\ blk[b].size \in Nat
    BY <2>0, Neighbours DEF Allocated
  <2>4. b > a => b >= a + s
    BY <2>1 DEF IInv, Tiling
  <2>5. a > b => a >= b + blk[b].size
    BY <2>1 DEF IInv, Tiling
  <2> QED BY <2>0, <2>1, <2>2, <2>3, <2>4, <2>5 DEF Abs!Cells
<1>4. Objects' = [b \in DOMAIN Objects \cup {a} |->
                     IF b = a THEN [size |-> s, kind |-> k] ELSE Objects[b]]
  BY ObjectsDomain DEF Objects
<1>5. Abs!Allocate(a, s, k)
  BY <1>1, <1>2, <1>3, <1>4 DEF Abs!Allocate
<1> QED BY <1>2, <1>5 DEF Abs!AbsNext

(* First fit and bump are both the abstract Allocate.                      *)
LEMMA AllocRefines == ASSUME IInv, IInv', FirstFit \/ Bump PROVE Abs!AbsNext
<1> USE DEF IInv
<1>1. pc = "alloc" /\ pc' = "run"
  BY DEF FirstFit, Bump
<1>2. req.extent \in Nat /\ req.extent >= 2 /\ req.kind \in Kinds
  BY <1>1 DEF TypeOK, RequestInv
<1>3. CASE Bump
  <2>1. hp \notin DOMAIN blk /\ hp \in Int
    BY Neighbours, HeapAssumption DEF TypeOK
  <2>2. /\ DOMAIN blk' = DOMAIN blk \cup {hp}
        /\ blk'[hp] = [size |-> req.extent, state |-> "alloc", kind |-> req.kind]
        /\ \A b \in DOMAIN blk : blk'[b] = blk[b]
    BY <1>3, <2>1 DEF Bump
  <2>3. Allocated' = Allocated \cup {hp} /\ hp \notin Allocated
    BY <2>1, <2>2 DEF Allocated
  <2> QED BY <1>1, <1>2, <2>1, <2>2, <2>3, AllocateStep DEF Allocated
<1>4. CASE FirstFit
  <2>1. PICK a \in Fitting : \/ blk[a].size - req.extent >= 2 /\ Split(a)
                             \/ blk[a].size - req.extent < 2 /\ TakeWhole(a)
    BY <1>4 DEF FirstFit
  <2>2. a \in DOMAIN blk /\ a \in Int /\ blk[a].state = "free" /\ a \notin Allocated
        /\ blk[a].size \in Nat /\ blk[a].size >= 2
    BY Neighbours DEF Fitting, FreeBlocks, Allocated
  <2>3. CASE blk[a].size - req.extent >= 2 /\ Split(a)
    <3>1. a + req.extent \notin DOMAIN blk /\ a + req.extent # a
      BY <1>2, <2>2, <2>3, Neighbours
    <3>2. /\ DOMAIN blk' = DOMAIN blk \cup {a + req.extent}
          /\ blk'[a] = [size |-> req.extent, state |-> "alloc", kind |-> req.kind]
          /\ blk'[a + req.extent].state = "free"
          /\ \A b \in DOMAIN blk \ {a} : blk'[b] = blk[b]
      BY <2>2, <2>3, <3>1 DEF Split
    <3>3. Allocated' = Allocated \cup {a}
      BY <2>2, <3>1, <3>2 DEF Allocated
    <3> QED BY <1>1, <1>2, <2>2, <3>2, <3>3, AllocateStep DEF Allocated
  <2>4. CASE TakeWhole(a)
    <3>1. /\ DOMAIN blk' = DOMAIN blk
          /\ blk'[a] = [size |-> blk[a].size, state |-> "alloc", kind |-> req.kind]
          /\ \A b \in DOMAIN blk \ {a} : blk'[b] = blk[b]
      BY <2>2, <2>4 DEF TakeWhole, TypeOK
    <3>2. Allocated' = Allocated \cup {a}
      BY <2>2, <3>1 DEF Allocated
    <3> QED BY <1>1, <1>2, <2>2, <3>1, <3>2, AllocateStep DEF Allocated
  <2> QED BY <2>1, <2>3, <2>4
<1> QED BY <1>3, <1>4

(* The mark phase fixes the objects the collection keeps; nothing else     *)
(* changes for the evaluator.                                              *)
LEMMA MarkRefines ==
    ASSUME IInv, IInv', NEW S \in SUBSET Allocated, Mark(S) PROVE Abs!AbsNext
<1> USE DEF IInv
<1>1. /\ DOMAIN blk' = DOMAIN blk
      /\ \A a \in DOMAIN blk : blk'[a].size = blk[a].size /\ blk'[a].kind = blk[a].kind
      /\ \A a \in DOMAIN blk : blk'[a].state = IF a \in S THEN "marked" ELSE blk[a].state
  BY DEF Mark, TypeOK, Block
<1>2. pc = "mark" /\ pc' = "sweep" /\ addr' = HeapBase
  BY DEF Mark
<1>3. Allocated' = Allocated
  BY <1>1 DEF Allocated
<1>4. Objects' = Objects
  BY <1>1, <1>3, SameObjects DEF Allocated
<1>5. Kept' = S
  <2>1. Marked' = S
    BY <1>1, <1>2 DEF Marked, Allocated, MarksAreTransient
  <2>2. \A a \in Allocated : ~ (a < HeapBase)
    BY HeapAssumption DEF TypeOK, Allocated
  <2> QED BY <1>2, <1>3, <2>1, <2>2 DEF Kept
<1>6. Phase = "run" /\ Phase' = "collect"
  BY <1>2 DEF Phase
<1>7. S \in SUBSET DOMAIN Objects /\ Abs!BeginCollect(S)
  BY <1>4, <1>5, <1>6, ObjectsDomain DEF Abs!BeginCollect
<1> QED BY <1>7 DEF Abs!AbsNext

(* Passing a block keeps it when it was marked and reclaims it when it was *)
(* allocated and unmarked; a block already free is nothing to the evaluator. *)
LEMMA SweepLiveRefines ==
    ASSUME IInv, IInv', SweepLive PROVE UNCHANGED Abs!absVars
<1> USE DEF IInv
<1>1. pc = "sweep" /\ pc' = "sweep" /\ addr < hp /\ blk[addr].state = "marked"
      /\ addr' = addr + blk[addr].size
  BY DEF SweepLive
<1>2. /\ DOMAIN blk' = DOMAIN blk
      /\ blk'[addr] = [blk[addr] EXCEPT !.state = "alloc"]
      /\ \A b \in DOMAIN blk \ {addr} : blk'[b] = blk[b]
  BY <1>1, SweepAt DEF SweepLive, TypeOK
<1>3. \A a \in DOMAIN blk : blk'[a].size = blk[a].size /\ blk'[a].kind = blk[a].kind
  BY <1>1, <1>2, SweepAt DEF Block
<1>4. blk'[addr].state = "alloc"
  BY <1>1, <1>2, SweepAt DEF Block
<1>5. Allocated' = Allocated /\ Marked' = Marked \ {addr}
  <2>1. addr \in DOMAIN blk
    BY <1>1, SweepAt
  <2> HIDE DEF IInv
  <2>2. Allocated' = Allocated
    BY <1>1, <1>2, <1>4, <2>1 DEF Allocated
  <2>3. Marked' = Marked \ {addr}
    BY <1>1, <1>2, <1>4, <2>1 DEF Marked
  <2> QED BY <2>2, <2>3
<1>6. Objects' = Objects
  BY <1>3, <1>5, SameObjects DEF Allocated
<1>7. Kept' = Kept
  <2>1. \A a \in Allocated : a < addr' <=> a < addr \/ a = addr
    BY <1>1, SweepAt, Neighbours DEF Allocated
  <2>2. addr \in Marked /\ addr \in Allocated
    BY <1>1, SweepAt DEF Marked, Allocated
  <2> QED BY <1>1, <1>5, <2>1, <2>2 DEF Kept
<1> QED BY <1>1, <1>6, <1>7 DEF Phase, Abs!absVars

(* Sweeping a dead block is the abstract Free; a free one is a stutter.    *)
LEMMA SweepDeadRefines ==
    ASSUME IInv, IInv', SweepNewRun \/ SweepCoalesce
    PROVE  Abs!AbsNext \/ UNCHANGED Abs!absVars
<1> USE DEF IInv
<1>1. pc = "sweep" /\ pc' = "sweep" /\ addr < hp /\ blk[addr].state # "marked"
      /\ addr' = addr + blk[addr].size
  BY DEF SweepNewRun, SweepCoalesce
<1>2. /\ DOMAIN blk' \subseteq DOMAIN blk
      /\ \A b \in DOMAIN blk : b \notin Allocated \/ b = addr \/ (b \in DOMAIN blk' /\ blk'[b] = blk[b])
      /\ \A b \in DOMAIN blk' : b \in Allocated' => b \in Allocated /\ b # addr
  <2>1. CASE SweepNewRun
    <3>1. /\ DOMAIN blk' = DOMAIN blk
          /\ blk'[addr].state = "free"
          /\ \A b \in DOMAIN blk \ {addr} : blk'[b] = blk[b]
      BY <1>1, <2>1, SweepAt DEF SweepNewRun, TypeOK, Block
    <3> QED BY <3>1 DEF Allocated
  <2>2. CASE SweepCoalesce
    <3>1. /\ DOMAIN blk' = DOMAIN blk \ {addr}
          /\ prevFree \in DOMAIN blk => blk'[prevFree].state = blk[prevFree].state
          /\ \A b \in DOMAIN blk \ {addr, prevFree} : blk'[b] = blk[b]
      <4>1. prevFree \in FreeBlocks /\ prevFree + blk[prevFree].size = addr
        BY <1>1, <2>2 DEF SweepCoalesce, SweepInv
      <4>2. prevFree \in DOMAIN blk /\ prevFree # addr /\ blk[prevFree] \in Block
        BY <1>1, <4>1, Neighbours, SweepAt DEF FreeBlocks, TypeOK
      <4> QED BY <2>2, <4>2 DEF SweepCoalesce, Block
    <3>2. prevFree \in DOMAIN blk /\ blk[prevFree].state = "free"
      BY <1>1, <2>2 DEF SweepCoalesce, SweepInv, FreeBlocks
    <3> QED BY <3>1, <3>2 DEF Allocated
  <2> QED BY <2>1, <2>2
<1>3. Allocated' = Allocated \ {addr}
      /\ \A b \in Allocated \ {addr} : blk'[b] = blk[b]
  BY <1>2 DEF Allocated
<1>4. Marked' = Marked
  BY <1>1, <1>3 DEF Allocated, Marked
<1>5. \A a \in Allocated \ {addr} : a < addr' <=> a < addr
  <2> SUFFICES ASSUME NEW a \in Allocated \ {addr} PROVE a < addr' <=> a < addr
    OBVIOUS
  <2>1. a \in DOMAIN blk /\ a # addr
    BY DEF Allocated
  <2>2. a > addr => a >= addr + blk[addr].size
    BY <1>1, <2>1, SweepAt, Neighbours
  <2>3. a \in Int /\ addr \in Int /\ blk[addr].size \in Nat
    BY <1>1, <2>1, SweepAt, Neighbours
  <2> HIDE DEF IInv
  <2> QED BY <1>1, <2>1, <2>2, <2>3
<1>6. addr \in Int /\ addr \notin Marked
  BY <1>1, SweepAt DEF Marked
<1>7. Kept' = Kept /\ addr \notin Kept
  BY <1>1, <1>3, <1>4, <1>5, <1>6 DEF Kept
<1>8. Phase = "collect" /\ Phase' = "collect"
  BY <1>1 DEF Phase
<1>9. Objects' = [b \in DOMAIN Objects \ {addr} |-> Objects[b]]
  BY <1>3, ObjectsDomain DEF Objects
<1>10. CASE addr \in Allocated
  <2>1. addr \in DOMAIN Objects
    BY <1>10, ObjectsDomain
  <2>2. Abs!Reclaim(addr)
    BY <1>7, <1>8, <1>9, <2>1 DEF Abs!Reclaim
  <2> QED BY <2>1, <2>2 DEF Abs!AbsNext
<1>11. CASE addr \notin Allocated
  <2>1. Objects' = Objects
    BY <1>3, <1>11, SameObjects
  <2> QED BY <1>7, <1>8, <2>1 DEF Abs!absVars
<1> QED BY <1>10, <1>11

(* What moves no block starts or ends an abstract phase, or stutters.      *)
LEMMA QuietRefines ==
    ASSUME IInv, IInv', CollectOnce \/ OutOfMemory \/ Collect \/ SweepDone
    PROVE  Abs!AbsNext \/ UNCHANGED Abs!absVars
<1> USE DEF IInv
<1>1. blk' = blk /\ hp' = hp /\ addr' = addr
  BY DEF CollectOnce, OutOfMemory, Collect, SweepDone
<1>2. Allocated' = Allocated /\ Objects' = Objects
  BY <1>1 DEF Allocated, Objects
<1>3. CASE CollectOnce \/ Collect
  BY <1>2, <1>3 DEF CollectOnce, Collect, Phase, Kept, Abs!absVars
<1>4. CASE OutOfMemory
  <2>1. Abs!OutOfMemory
    BY <1>2, <1>4 DEF OutOfMemory, Phase, Kept, Abs!OutOfMemory
  <2> QED BY <2>1 DEF Abs!AbsNext
<1>5. CASE SweepDone
  <2>1. pc = "sweep" /\ addr >= hp /\ pc' \in {"run", "alloc"}
    BY <1>5 DEF SweepDone
  <2>2. \A a \in Allocated : a < addr
    BY <2>1, Neighbours, HeapAssumption DEF Allocated, TypeOK
  <2>3. DOMAIN Objects = Kept /\ Kept' = {}
    BY <2>1, <2>2, ObjectsDomain DEF Kept, Marked, Allocated
  <2>4. Abs!EndCollect
    BY <1>2, <2>1, <2>3 DEF Phase, Abs!EndCollect
  <2> QED BY <2>4 DEF Abs!AbsNext
<1> QED BY <1>3, <1>4, <1>5

(* Every step of the allocator and the collector is a step of the abstract *)
(* heap or invisible to the evaluator: objects get cells of their own, do  *)
(* not move or change size, and go only when a collection did not keep     *)
(* them, all of those before it ends.                                      *)
THEOREM HeapRefinesAbstractHeap == Spec => ImplementsAbstractHeap
<1>1. Init => Abs!AbsInit
  BY AbsInitHolds
<1>2. IInv /\ IInv' /\ [Next]_vars => [Abs!AbsNext]_(Abs!absVars)
  <2> SUFFICES ASSUME IInv, IInv', [Next]_vars PROVE Abs!AbsNext \/ UNCHANGED Abs!absVars
    OBVIOUS
  <2>1. ASSUME NEW n \in Payloads, NEW k \in Kinds, Request(n, k) PROVE UNCHANGED Abs!absVars
    <3>1. Objects' = Objects /\ Kept' = Kept /\ Phase' = Phase
      BY <2>1 DEF Request, Objects, Allocated, Kept, Phase
    <3> QED BY <3>1 DEF Abs!absVars
  <2>2. CASE FirstFit \/ Bump
    BY <2>2, AllocRefines
  <2>3. ASSUME NEW S \in SUBSET Allocated, Mark(S) PROVE Abs!AbsNext
    BY <2>3, MarkRefines
  <2>4. CASE SweepLive
    BY <2>4, SweepLiveRefines
  <2>5. CASE SweepNewRun \/ SweepCoalesce
    BY <2>5, SweepDeadRefines
  <2>6. CASE CollectOnce \/ OutOfMemory \/ Collect \/ SweepDone
    BY <2>6, QuietRefines
  <2>7. CASE UNCHANGED vars
    <3>1. Objects' = Objects /\ Kept' = Kept /\ Phase' = Phase
      BY <2>7 DEF vars, Objects, Allocated, Marked, Kept, Phase
    <3> QED BY <3>1 DEF Abs!absVars
  <2> QED BY <2>1, <2>2, <2>3, <2>4, <2>5, <2>6, <2>7 DEF Next
<1> QED BY Invariance, <1>1, <1>2, PTL DEF Spec, ImplementsAbstractHeap, Abs!AbsSpec
=============================================================================
