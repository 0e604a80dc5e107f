--------------------------- MODULE ContextsProofs ---------------------------
(***************************************************************************)
(* Contexts for any words, capacities, garbage and depth of calls: what    *)
(* probing the hash index finds is what the ordered scan finds, pairs are  *)
(* never written over by index entries, and the chain of contexts is a     *)
(* chain of environments.  First the index as a function on buckets, then  *)
(* what each routine does to one context, then the chain of them.          *)
(***************************************************************************)
EXTENDS Contexts, Induction, SequenceTheorems, FiniteSetTheorems

-----------------------------------------------------------------------------
(* The index, apart from contexts.                                         *)

CellSet == [k : {"word", "value", "entry", "empty"}, id : Nat, x : Nat]

(* Cells of the four kinds. *)
LEMMA CellFacts ==
  ASSUME NEW w \in Nat, NEW s \in Nat
  PROVE  /\ Entry(w, s) \in CellSet /\ Entry(w, s).id = w /\ Entry(w, s).x = s
         /\ Entry(w, s) # EmptyBucket /\ EmptyBucket \in CellSet
         /\ WordCell(w) \in CellSet /\ WordCell(w).id = w /\ WordCell(w).k = "word"
         /\ ValueCell(w) \in CellSet /\ ValueCell(w).x = w /\ ValueCell(w).k = "value"
  BY DEF Entry, EmptyBucket, WordCell, ValueCell, Cell, CellSet

(* First finds the least. *)
LEMMA FirstIs ==
  ASSUME NEW S, S \subseteq Nat, S # {}
  PROVE  First(S) \in S /\ \A j \in S : First(S) <= j
  <1>1. \E i \in S : \A j \in S : i <= j
    BY LeastOf
  <1> QED
    BY <1>1 DEF First

(* What a probe wraps around. *)
LEMMA Wraps ==
  ASSUME NEW cap \in Nat \ {0}, NEW a \in Nat
  PROVE  a = cap * (a \div cap) + (a % cap) /\ a \div cap \in Int /\ a % cap \in 0 .. cap - 1
  <1>1. a % cap \in 0 .. cap - 1
    OBVIOUS
  <1>2. a \div cap \in Int
    OBVIOUS
  <1>3. a = cap * (a \div cap) + (a % cap)
    OBVIOUS
  <1> QED
    BY <1>1, <1>2, <1>3

(* Where the k-th probe for w looks, among cap buckets. *)
Probe(cap, w, k) == (w + k) % cap

(* The first cap probes look at different buckets. *)
LEMMA ProbesDiffer ==
  ASSUME NEW cap \in Nat \ {0}, NEW w \in Nat
  PROVE  /\ \A k \in Nat : Probe(cap, w, k) \in 0 .. cap - 1
         /\ \A j, k \in 0 .. cap - 1 : Probe(cap, w, j) = Probe(cap, w, k) => j = k
  <1>1. \A k \in Nat : Probe(cap, w, k) \in 0 .. cap - 1
    BY DEF Probe
  <1>2. ASSUME NEW j \in 0 .. cap - 1, NEW k \in 0 .. cap - 1, j < k, Probe(cap, w, j) = Probe(cap, w, k)
        PROVE  FALSE
    <2> DEFINE q == (w + k) \div cap
               p == (w + j) \div cap
    <2>1. w + k = cap * q + ((w + k) % cap) /\ q \in Int
      BY Wraps
    <2>2. w + j = cap * p + ((w + j) % cap) /\ p \in Int
      BY Wraps
    <2>3. (w + k) % cap = (w + j) % cap /\ (w + k) % cap \in Int
      BY <1>2 DEF Probe
    <2> HIDE DEF q, p
    <2>4. k - j = cap * (q - p) /\ k - j > 0 /\ k - j < cap
      BY <1>2, <2>1, <2>2, <2>3
    <2>5. CASE q - p <= 0
      BY <2>1, <2>2, <2>4, <2>5
    <2>6. CASE q - p >= 1
      BY <2>1, <2>2, <2>4, <2>6
    <2> QED
      BY <2>1, <2>2, <2>5, <2>6
  <1>3. \A j, k \in 0 .. cap - 1 : Probe(cap, w, j) = Probe(cap, w, k) => j = k
    <2> SUFFICES ASSUME NEW j \in 0 .. cap - 1, NEW k \in 0 .. cap - 1,
                        Probe(cap, w, j) = Probe(cap, w, k), j # k
                 PROVE  FALSE
      OBVIOUS
    <2>1. j < k \/ k < j
      OBVIOUS
    <2> QED
      BY <1>2, <2>1
  <1> QED
    BY <1>1, <1>3

(* Slot s is the first of word w among those of W. *)
IsFirst(W, w, s) == W[s] = w /\ \A r \in 0 .. s - 1 : W[r] # w

(* The buckets I have the first n slots of W, each once, and a word's      *)
(* first slot is what probing for the word comes to.                       *)
Hashed(cap, I, W, n) ==
    /\ \A b \in 0 .. cap - 1 : I[b] = EmptyBucket \/ \E s \in 0 .. n - 1 : I[b] = Entry(W[s], s)
    /\ \A b, d \in 0 .. cap - 1 : I[b] = I[d] /\ I[b] # EmptyBucket => b = d
    /\ \A w \in Nat, s \in 0 .. n - 1 : IsFirst(W, w, s) =>
          \E k \in 0 .. cap - 1 :
             /\ I[Probe(cap, w, k)] = Entry(w, s)
             /\ \A j \in 0 .. k - 1 : I[Probe(cap, w, j)] # EmptyBucket /\ I[Probe(cap, w, j)].id # w

(* Only the words of those slots matter. *)
LEMMA HashedAgree ==
  ASSUME NEW cap, NEW I, NEW W, NEW X, NEW n \in Nat, Hashed(cap, I, W, n),
         \A s \in 0 .. n - 1 : W[s] = X[s]
  PROVE  Hashed(cap, I, X, n)
  <1>1. \A w \in Nat, s \in 0 .. n - 1 : IsFirst(X, w, s) => IsFirst(W, w, s)
    <2> SUFFICES ASSUME NEW w \in Nat, NEW s \in 0 .. n - 1, IsFirst(X, w, s) PROVE IsFirst(W, w, s)
      OBVIOUS
    <2>1. \A r \in 0 .. s - 1 : r \in 0 .. n - 1
      OBVIOUS
    <2> QED
      BY <2>1 DEF IsFirst
  <1> QED
    BY <1>1 DEF Hashed

(* As long as a slot is left there is an empty bucket. *)
LEMMA BucketLeft ==
  ASSUME NEW cap \in Nat \ {0}, NEW I, NEW W, NEW n \in 0 .. cap - 1, NEW w \in Nat,
         \A s \in 0 .. n : W[s] \in Nat, Hashed(cap, I, W, n)
  PROVE  \E k \in 0 .. cap - 1 : I[Probe(cap, w, k)] = EmptyBucket
  <1> SUFFICES ASSUME \A k \in 0 .. cap - 1 : I[Probe(cap, w, k)] # EmptyBucket
               PROVE  FALSE
    OBVIOUS
  <1> DEFINE f == [k \in 0 .. cap - 1 |-> I[Probe(cap, w, k)].x]
  <1>1. ASSUME NEW k \in 0 .. cap - 1
        PROVE  f[k] \in 0 .. n - 1 /\ I[Probe(cap, w, k)] = Entry(W[f[k]], f[k])
    <2>1. Probe(cap, w, k) \in 0 .. cap - 1
      BY DEF Probe
    <2>2. PICK s \in 0 .. n - 1 : I[Probe(cap, w, k)] = Entry(W[s], s)
      BY <2>1 DEF Hashed
    <2>3. Entry(W[s], s).x = s
      BY CellFacts
    <2> QED
      BY <2>2, <2>3
  <1>2. f \in [0 .. cap - 1 -> 0 .. n - 1]
    BY <1>1
  <1> HIDE DEF f
  <1>3. /\ IsFiniteSet(0 .. cap - 1) /\ Cardinality(0 .. cap - 1) = cap
        /\ IsFiniteSet(0 .. n - 1) /\ Cardinality(0 .. n - 1) = n
    <2>1. 0 \in Int /\ cap - 1 \in Int /\ n - 1 \in Int
      OBVIOUS
    <2>2. IsFiniteSet(0 .. cap - 1) /\ IsFiniteSet(0 .. n - 1)
      BY <2>1, FS_Interval
    <2>3. Cardinality(0 .. cap - 1) = IF 0 > cap - 1 THEN 0 ELSE cap - 1 - 0 + 1
      BY <2>1, FS_Interval, Zenon
    <2>4. Cardinality(0 .. n - 1) = IF 0 > n - 1 THEN 0 ELSE n - 1 - 0 + 1
      BY <2>1, FS_Interval, Zenon
    <2> QED
      BY <2>2, <2>3, <2>4
  <1>4. Cardinality(0 .. n - 1) < Cardinality(0 .. cap - 1)
    BY <1>3
  <1>5. PICK x, y \in 0 .. cap - 1 : x # y /\ f[x] = f[y]
    <2> DEFINE S == 0 .. cap - 1
               T == 0 .. n - 1
    <2>1. IsFiniteSet(S) /\ IsFiniteSet(T) /\ Cardinality(T) < Cardinality(S) /\ f \in [S -> T]
      BY <1>2, <1>3, <1>4
    <2> HIDE DEF S, T
    <2>2. \E x, y \in S : x # y /\ f[x] = f[y]
      BY <2>1, FS_PigeonHole
    <2> QED
      BY <2>2 DEF S
  <1>6. I[Probe(cap, w, x)] = I[Probe(cap, w, y)]
    BY <1>1, <1>5
  <1>7. Probe(cap, w, x) = Probe(cap, w, y)
    <2>1. Probe(cap, w, x) \in 0 .. cap - 1 /\ Probe(cap, w, y) \in 0 .. cap - 1
      BY DEF Probe
    <2> QED
      BY <1>6, <2>1 DEF Hashed
  <1> QED
    BY <1>5, <1>7, ProbesDiffer

(* r_hash_insert puts the next slot into the index. *)
LEMMA InsertHashes ==
  ASSUME NEW cap \in Nat \ {0}, NEW I, NEW W, NEW n \in 0 .. cap - 1,
         \A s \in 0 .. n : W[s] \in Nat, Hashed(cap, I, W, n),
         NEW m \in 0 .. cap - 1, I[Probe(cap, W[n], m)] = EmptyBucket,
         \A k \in 0 .. m - 1 : I[Probe(cap, W[n], k)] # EmptyBucket,
         NEW J, \A b \in 0 .. cap - 1 : J[b] = IF b = Probe(cap, W[n], m) THEN Entry(W[n], n) ELSE I[b]
  PROVE  Hashed(cap, J, W, n + 1)
  <1> DEFINE t == Probe(cap, W[n], m)
  <1>1. n \in 0 .. n /\ W[n] \in Nat /\ n \in Nat
    OBVIOUS
  <1>2. t \in 0 .. cap - 1 /\ I[t] = EmptyBucket
    BY <1>1 DEF Probe
  <1>3. \A b \in 0 .. cap - 1 : J[b] = IF b = t THEN Entry(W[n], n) ELSE I[b]
    OBVIOUS
  <1>4. Entry(W[n], n) # EmptyBucket /\ Entry(W[n], n).x = n /\ Entry(W[n], n).id = W[n]
    BY <1>1, CellFacts
  <1>5. \A s \in 0 .. n - 1 : s \in 0 .. n /\ s \in Nat /\ s # n /\ W[s] \in Nat
    OBVIOUS
  <1>6. \A s \in 0 .. n - 1 : Entry(W[s], s) # EmptyBucket /\ Entry(W[s], s).x = s /\ Entry(W[s], s).id = W[s]
    BY <1>5, CellFacts
  <1>7. ASSUME NEW b \in 0 .. cap - 1
        PROVE  J[b] = EmptyBucket \/ \E s \in 0 .. (n + 1) - 1 : J[b] = Entry(W[s], s)
    <2>1. n \in 0 .. (n + 1) - 1 /\ \A s \in 0 .. n - 1 : s \in 0 .. (n + 1) - 1
      OBVIOUS
    <2>2. CASE b = t
      BY <1>3, <2>1, <2>2
    <2>3. CASE b # t
      <3>1. J[b] = I[b]
        BY <1>3, <2>3
      <3>2. I[b] = EmptyBucket \/ \E s \in 0 .. n - 1 : I[b] = Entry(W[s], s)
        BY DEF Hashed
      <3> QED
        BY <2>1, <3>1, <3>2
    <2> QED
      BY <2>2, <2>3
  <1>8. ASSUME NEW b \in 0 .. cap - 1, b # t PROVE J[b] # Entry(W[n], n)
    <2>1. J[b] = I[b] /\ (I[b] = EmptyBucket \/ \E s \in 0 .. n - 1 : I[b] = Entry(W[s], s))
      BY <1>3, <1>8 DEF Hashed
    <2> QED
      BY <1>4, <1>5, <1>6, <2>1
  <1>9. ASSUME NEW b \in 0 .. cap - 1, NEW d \in 0 .. cap - 1, J[b] = J[d], J[b] # EmptyBucket
        PROVE  b = d
    <2>1. CASE b = t \/ d = t
      BY <1>3, <1>8, <1>9, <2>1
    <2>2. CASE b # t /\ d # t
      BY <1>3, <1>9, <2>2 DEF Hashed
    <2> QED
      BY <2>1, <2>2
  <1>10. ASSUME NEW w \in Nat, NEW s \in 0 .. (n + 1) - 1, IsFirst(W, w, s)
         PROVE  \E k \in 0 .. cap - 1 :
                   /\ J[Probe(cap, w, k)] = Entry(w, s)
                   /\ \A j \in 0 .. k - 1 : J[Probe(cap, w, j)] # EmptyBucket /\ J[Probe(cap, w, j)].id # w
    <2>1. CASE s = n
      <3>1. w = W[n] /\ \A r \in 0 .. n - 1 : W[r] # w
        BY <1>10, <2>1 DEF IsFirst
      <3>2. J[Probe(cap, w, m)] = Entry(w, s)
        BY <1>2, <1>3, <2>1, <3>1
      <3>3. ASSUME NEW j \in 0 .. m - 1
            PROVE  J[Probe(cap, w, j)] # EmptyBucket /\ J[Probe(cap, w, j)].id # w
        <4>1. j \in 0 .. cap - 1 /\ j # m /\ j \in Nat
          OBVIOUS
        <4>2. Probe(cap, w, j) \in 0 .. cap - 1 /\ Probe(cap, w, j) # t
          BY <3>1, <4>1, ProbesDiffer
        <4>3. J[Probe(cap, w, j)] = I[Probe(cap, w, j)] /\ I[Probe(cap, w, j)] # EmptyBucket
          BY <1>3, <3>1, <4>2
        <4>4. PICK r \in 0 .. n - 1 : I[Probe(cap, w, j)] = Entry(W[r], r)
          BY <4>2, <4>3 DEF Hashed
        <4> QED
          BY <1>6, <3>1, <4>3, <4>4
      <3> QED
        BY <3>2, <3>3
    <2>2. CASE s # n
      <3>1. s \in 0 .. n - 1
        BY <2>2
      <3>2. PICK k \in 0 .. cap - 1 :
               /\ I[Probe(cap, w, k)] = Entry(w, s)
               /\ \A j \in 0 .. k - 1 : I[Probe(cap, w, j)] # EmptyBucket /\ I[Probe(cap, w, j)].id # w
        BY <1>10, <3>1 DEF Hashed
      <3>3. \A j \in 0 .. k : Probe(cap, w, j) \in 0 .. cap - 1 /\ j \in Nat
        BY DEF Probe
      <3>4. k \in 0 .. k /\ Entry(w, s) # EmptyBucket
        <4>1. k \in 0 .. k /\ s \in Nat
          BY <3>1
        <4> QED
          BY <4>1, CellFacts
      <3>5. J[Probe(cap, w, k)] = Entry(w, s)
        BY <1>2, <1>3, <3>2, <3>3, <3>4
      <3>6. ASSUME NEW j \in 0 .. k - 1
            PROVE  J[Probe(cap, w, j)] # EmptyBucket /\ J[Probe(cap, w, j)].id # w
        <4>1. j \in 0 .. k
          OBVIOUS
        <4> QED
          BY <1>2, <1>3, <3>2, <3>3, <4>1
      <3> QED
        BY <3>5, <3>6
    <2> QED
      BY <2>1, <2>2
  <1>11. Hashed(cap, J, W, n + 1)
    BY <1>7, <1>9, <1>10 DEF Hashed
  <1> QED
    BY <1>11

(* The slots that have w, and the probes that stop there. *)
SlotsIn(W, n, w)    == {s \in 0 .. n - 1 : W[s] = w}
StopsIn(cap, I, w)  == {k \in 0 .. cap - 1 : I[Probe(cap, w, k)] = EmptyBucket \/ I[Probe(cap, w, k)].id = w}

(* Probing finds what the ordered scan finds. *)
LEMMA ProbeFinds ==
  ASSUME NEW cap \in Nat \ {0}, NEW I, NEW W, NEW n \in 0 .. cap, NEW w \in Nat,
         \A s \in 0 .. n - 1 : W[s] \in Nat, Hashed(cap, I, W, n),
         NEW S, S = SlotsIn(W, n, w), NEW P, P = StopsIn(cap, I, w)
  PROVE  /\ S = {} => P = {} \/ I[Probe(cap, w, First(P))] = EmptyBucket
         /\ S # {} => /\ P # {} /\ I[Probe(cap, w, First(P))] # EmptyBucket
                      /\ I[Probe(cap, w, First(P))].x = First(S)
  <1>0. S = {s \in 0 .. n - 1 : W[s] = w}
        /\ P = {k \in 0 .. cap - 1 : I[Probe(cap, w, k)] = EmptyBucket \/ I[Probe(cap, w, k)].id = w}
    BY DEF SlotsIn, StopsIn
  <1>1. S \subseteq Nat /\ P \subseteq Nat
    BY <1>0
  <1>2. CASE S = {}
    <2> SUFFICES ASSUME P # {}, I[Probe(cap, w, First(P))] # EmptyBucket PROVE FALSE
      BY <1>2
    <2>1. First(P) \in P
      BY <1>1, FirstIs
    <2>2. I[Probe(cap, w, First(P))].id = w /\ Probe(cap, w, First(P)) \in 0 .. cap - 1
      BY <1>0, <1>1, <2>1, ProbesDiffer
    <2>3. PICK s \in 0 .. n - 1 : I[Probe(cap, w, First(P))] = Entry(W[s], s)
      BY <2>2 DEF Hashed
    <2>4. W[s] = w
      BY <2>2, <2>3, CellFacts
    <2> QED
      BY <1>0, <1>2, <2>4
  <1>3. CASE S # {}
    <2>1. First(S) \in S /\ \A j \in S : First(S) <= j
      BY <1>1, <1>3, FirstIs
    <2>2. First(S) \in 0 .. n - 1 /\ First(S) \in Nat
      BY <1>0, <2>1
    <2>3. IsFirst(W, w, First(S))
      <3>1. W[First(S)] = w
        BY <1>0, <2>1
      <3>2. ASSUME NEW r \in 0 .. First(S) - 1 PROVE W[r] # w
        <4>1. r \in 0 .. n - 1 /\ ~ (First(S) <= r)
          BY <2>2
        <4> QED
          BY <1>0, <2>1, <4>1
      <3> QED
        BY <3>1, <3>2 DEF IsFirst
    <2>4. PICK k \in 0 .. cap - 1 :
             /\ I[Probe(cap, w, k)] = Entry(w, First(S))
             /\ \A j \in 0 .. k - 1 : I[Probe(cap, w, j)] # EmptyBucket /\ I[Probe(cap, w, j)].id # w
      BY <2>2, <2>3 DEF Hashed
    <2>5. Entry(w, First(S)) # EmptyBucket /\ Entry(w, First(S)).id = w /\ Entry(w, First(S)).x = First(S)
      BY <2>2, CellFacts
    <2>6. k \in P
      BY <1>0, <2>4, <2>5
    <2>7. First(P) \in P /\ First(P) <= k
      BY <1>1, <2>6, FirstIs
    <2>8. ~ (First(P) < k)
      <3> SUFFICES ASSUME First(P) < k PROVE FALSE
        OBVIOUS
      <3>1. First(P) \in 0 .. k - 1
        BY <1>1, <2>7
      <3> QED
        BY <1>0, <2>4, <2>7, <3>1
    <2>9. First(P) = k
      BY <1>1, <2>7, <2>8
    <2> QED
      BY <1>3, <2>4, <2>5, <2>6, <2>9
  <1> QED
    BY <1>2, <1>3

-----------------------------------------------------------------------------
(* Contexts                                                                *)

Table(cap) == [managed : BOOLEAN, count : Nat, cap : {cap}, cells : Cells(cap)]

IndexOf(c) == [b \in 0 .. c.cap - 1 |-> c.cells[2 * c.cap + b]]
WordsOf(c) == [s \in Nat |-> WordAt(c, s)]

(* d is c but for its cells. *)
Alike(c, d) == d.managed = c.managed /\ d.count = c.count /\ d.cap = c.cap

(* What is in a table. *)
LEMMA TableFacts ==
  ASSUME NEW cap \in Nat \ {0}, NEW c \in Table(cap)
  PROVE  /\ c.cap = cap /\ c.count \in Nat /\ c.managed \in BOOLEAN
         /\ c.cells \in [0 .. Extent(cap) - 1 -> CellSet]
         /\ Extent(cap) \in Nat /\ 3 * cap <= Extent(cap)
         /\ \A i \in 0 .. Extent(cap) - 1 : c.cells[i] \in CellSet /\ c.cells[i].id \in Nat
  <1>1. c.cap = cap /\ c.count \in Nat /\ c.managed \in BOOLEAN
    BY DEF Table
  <1>2. c.cells \in [0 .. Extent(cap) - 1 -> CellSet]
    BY DEF Table, Cells, CellSet
  <1>3. Extent(cap) \in Nat /\ 3 * cap <= Extent(cap)
    BY ContextsAssumption DEF Extent
  <1>4. \A i \in 0 .. Extent(cap) - 1 : c.cells[i] \in CellSet
    BY <1>2
  <1>5. \A x \in CellSet : x.id \in Nat
    BY DEF CellSet
  <1> QED
    BY <1>1, <1>2, <1>3, <1>4, <1>5

(* A bucket is in the index. *)
LEMMA BucketIs ==
  ASSUME NEW cap \in Nat \ {0}, NEW c \in Table(cap), NEW w \in Nat, NEW k \in Nat
  PROVE  /\ Probe(cap, w, k) \in 0 .. cap - 1
         /\ Bucket(c, w, k) = 2 * cap + Probe(cap, w, k)
         /\ c.cells[Bucket(c, w, k)] = IndexOf(c)[Probe(cap, w, k)]
  <1>1. Probe(cap, w, k) \in 0 .. cap - 1
    BY DEF Probe
  <1>2. c.cap = cap
    BY TableFacts
  <1>3. Bucket(c, w, k) = 2 * cap + Probe(cap, w, k)
    BY <1>2 DEF Bucket, Probe
  <1> QED
    BY <1>1, <1>2, <1>3 DEF IndexOf

(* Put changes a cell. *)
LEMMA PutFacts ==
  ASSUME NEW cap \in Nat \ {0}, NEW c \in Table(cap), NEW at, NEW x \in CellSet
  PROVE  /\ Put(c, at, x) \in Table(cap) /\ Alike(c, Put(c, at, x))
         /\ \A i \in 0 .. Extent(cap) - 1 : Put(c, at, x).cells[i] = IF i = at THEN x ELSE c.cells[i]
  <1> DEFINE e == [i \in 0 .. Extent(cap) - 1 |-> IF i = at THEN x ELSE c.cells[i]]
  <1>1. c.cells \in [0 .. Extent(cap) - 1 -> CellSet]
    BY TableFacts
  <1>2. DOMAIN c.cells = 0 .. Extent(cap) - 1
    BY <1>1
  <1>3. Put(c, at, x) = [c EXCEPT !.cells = e]
    BY <1>2 DEF Put
  <1>4. e \in [0 .. Extent(cap) - 1 -> CellSet]
    BY <1>1
  <1>5. \A i \in 0 .. Extent(cap) - 1 : e[i] = IF i = at THEN x ELSE c.cells[i]
    OBVIOUS
  <1> HIDE DEF e
  <1>6. [c EXCEPT !.cells = e] \in Table(cap)
    BY <1>4 DEF Table, Cells, CellSet
  <1>7. Alike(c, [c EXCEPT !.cells = e]) /\ [c EXCEPT !.cells = e].cells = e
    BY DEF Table, Alike
  <1> QED
    BY <1>3, <1>5, <1>6, <1>7

(* r_hash_insert leaves the pairs, and gets the next slot into the index.  *)
LEMMA HashInsertHashes ==
  ASSUME NEW cap \in Nat \ {0}, NEW c \in Table(cap), NEW W, NEW n \in 0 .. cap - 1,
         \A s \in 0 .. n : W[s] \in Nat, Hashed(cap, IndexOf(c), W, n),
         NEW w, w = W[n]
  PROVE  LET d == HashInsert(c, w, n)
         IN  /\ d \in Table(cap) /\ Alike(c, d) /\ Hashed(cap, IndexOf(d), W, n + 1)
             /\ \A i \in 0 .. 2 * cap - 1 : d.cells[i] = c.cells[i]
  <1> DEFINE I == IndexOf(c)
             F == {k \in 0 .. cap - 1 : c.cells[Bucket(c, w, k)] = EmptyBucket}
             m == First(F)
             at == Bucket(c, w, m)
             d == Put(c, at, Entry(w, n))
  <1>1. w \in Nat /\ n \in Nat /\ c.cap = cap /\ ~ (n >= cap)
    <2>1. n \in 0 .. n
      OBVIOUS
    <2> QED
      BY <2>1, TableFacts
  <1>2. \A k \in 0 .. cap - 1 : /\ Probe(cap, w, k) \in 0 .. cap - 1
                                /\ Bucket(c, w, k) = 2 * cap + Probe(cap, w, k)
                                /\ c.cells[Bucket(c, w, k)] = I[Probe(cap, w, k)]
    <2> SUFFICES ASSUME NEW k \in 0 .. cap - 1
                 PROVE  /\ Probe(cap, w, k) \in 0 .. cap - 1
                        /\ Bucket(c, w, k) = 2 * cap + Probe(cap, w, k)
                        /\ c.cells[Bucket(c, w, k)] = I[Probe(cap, w, k)]
      OBVIOUS
    <2>1. k \in Nat
      OBVIOUS
    <2>2. /\ Probe(cap, w, k) \in 0 .. cap - 1
          /\ Bucket(c, w, k) = 2 * cap + Probe(cap, w, k)
          /\ c.cells[Bucket(c, w, k)] = IndexOf(c)[Probe(cap, w, k)]
      <3>1. w \in Nat /\ c \in Table(cap) /\ cap \in Nat \ {0}
        BY <1>1
      <3> QED
        BY <2>1, <3>1, BucketIs
    <2> QED
      BY <2>2
  <1>3. F # {}
    <2>1. PICK k \in 0 .. cap - 1 : I[Probe(cap, w, k)] = EmptyBucket
      BY <1>1, BucketLeft
    <2> QED
      BY <1>2, <2>1
  <1>4. m \in 0 .. cap - 1 /\ c.cells[Bucket(c, w, m)] = EmptyBucket /\ \A j \in F : m <= j
    <2>1. F \subseteq Nat
      OBVIOUS
    <2> HIDE DEF F
    <2>2. m \in F /\ \A j \in F : m <= j
      BY <1>3, <2>1, FirstIs
    <2> QED
      BY <2>2 DEF F
  <1>5. HashInsert(c, w, n) = d
    BY <1>1, <1>3 DEF HashInsert
  <1>6. I[Probe(cap, w, m)] = EmptyBucket /\ \A k \in 0 .. m - 1 : I[Probe(cap, w, k)] # EmptyBucket
    <2> HIDE DEF m
    <2>1. ASSUME NEW k \in 0 .. m - 1, I[Probe(cap, w, k)] = EmptyBucket PROVE FALSE
      <3>1. k \in 0 .. cap - 1 /\ ~ (m <= k)
        BY <1>4
      <3>2. k \in F
        BY <1>2, <2>1, <3>1
      <3> QED
        BY <1>4, <3>1, <3>2
    <2> QED
      BY <1>2, <1>4, <2>1
  <1>7. Entry(w, n) \in CellSet
    BY <1>1, CellFacts
  <1>8. /\ d \in Table(cap) /\ Alike(c, d)
        /\ \A i \in 0 .. Extent(cap) - 1 : d.cells[i] = IF i = at THEN Entry(w, n) ELSE c.cells[i]
    BY <1>7, PutFacts
  <1>9. at = 2 * cap + Probe(cap, w, m) /\ Probe(cap, w, m) \in 0 .. cap - 1
    BY <1>2, <1>4
  <1> HIDE DEF d, at, m, F
  <1>10. Extent(cap) \in Nat /\ 3 * cap <= Extent(cap)
    BY TableFacts
  <1>11. \A i \in 0 .. 2 * cap - 1 : d.cells[i] = c.cells[i]
    <2>1. \A i \in 0 .. 2 * cap - 1 : i \in 0 .. Extent(cap) - 1 /\ i # at
      BY <1>9, <1>10
    <2> QED
      BY <1>8, <2>1
  <1>12. ASSUME NEW b \in 0 .. cap - 1
         PROVE  IndexOf(d)[b] = IF b = Probe(cap, w, m) THEN Entry(w, n) ELSE I[b]
    <2>1. 2 * cap + b \in 0 .. Extent(cap) - 1 /\ (2 * cap + b = at <=> b = Probe(cap, w, m))
      BY <1>9, <1>10
    <2>2. d.cap = cap
      BY <1>8, TableFacts
    <2>3. IndexOf(d)[b] = d.cells[2 * cap + b] /\ I[b] = c.cells[2 * cap + b]
      BY <1>1, <2>2 DEF IndexOf
    <2> QED
      BY <1>8, <2>1, <2>3
  <1> HIDE DEF I
  <1>13. Hashed(cap, IndexOf(d), W, n + 1)
    <2> DEFINE J == IndexOf(d)
    <2>1. /\ m \in 0 .. cap - 1 /\ I[Probe(cap, W[n], m)] = EmptyBucket
          /\ \A k \in 0 .. m - 1 : I[Probe(cap, W[n], k)] # EmptyBucket
          /\ \A b \in 0 .. cap - 1 : J[b] = IF b = Probe(cap, W[n], m) THEN Entry(W[n], n) ELSE I[b]
      BY <1>4, <1>6, <1>12
    <2>2. Hashed(cap, I, W, n)
      BY DEF I
    <2> HIDE DEF J
    <2>3. Hashed(cap, J, W, n + 1)
      BY <2>1, <2>2, InsertHashes
    <2> QED
      BY <2>3 DEF J
  <1> QED
    BY <1>5, <1>8, <1>11, <1>13

(* Whatever is in the table, r_hash_insert leaves a table. *)
LEMMA HashInsertTable ==
  ASSUME NEW cap \in Nat \ {0}, NEW c \in Table(cap), NEW w \in Nat, NEW n \in Nat
  PROVE  /\ HashInsert(c, w, n) \in Table(cap) /\ Alike(c, HashInsert(c, w, n))
         /\ n >= cap => HashInsert(c, w, n) = c
  <1> DEFINE F == {k \in 0 .. c.cap - 1 : c.cells[Bucket(c, w, k)] = EmptyBucket}
             at == Bucket(c, w, First(F))
  <1>1. Entry(w, n) \in CellSet
    BY CellFacts
  <1>2. HashInsert(c, w, n) = IF n >= c.cap \/ F = {} THEN c ELSE Put(c, at, Entry(w, n))
    BY DEF HashInsert
  <1>3. c.cap = cap
    BY TableFacts
  <1> HIDE DEF at, F
  <1>4. Put(c, at, Entry(w, n)) \in Table(cap) /\ Alike(c, Put(c, at, Entry(w, n)))
    BY <1>1, PutFacts
  <1>5. Alike(c, c)
    BY DEF Alike
  <1> QED
    BY <1>2, <1>3, <1>4, <1>5

(* r_build_hash leaves the pairs and makes an index of them. *)
LEMMA BuildHashHashes ==
  ASSUME NEW cap \in Nat \ {0}, NEW c \in Table(cap), c.count <= cap,
         \A s \in 0 .. c.count - 1 : WordAt(c, s) \in Nat
  PROVE  LET d == BuildHash(c)
         IN  /\ d \in Table(cap) /\ Alike(c, d)
             /\ Hashed(cap, IndexOf(d), WordsOf(c), c.count)
             /\ \A i \in 0 .. 2 * cap - 1 : d.cells[i] = c.cells[i]
  <1> DEFINE K == c.count
             W == WordsOf(c)
             e == [i \in 0 .. Extent(cap) - 1 |->
                      IF i \in 2 * cap .. 3 * cap - 1 THEN EmptyBucket ELSE c.cells[i]]
             z == [c EXCEPT !.cells = e]
             G == [p \in (1 .. K) \X Table(cap) |-> HashInsert(p[2], WordAt(c, p[1] - 1), p[1] - 1)]
             b == CHOOSE f : f = [n \in 0 .. K |-> IF n = 0 THEN z
                                                   ELSE HashInsert(f[n - 1], WordAt(c, n - 1), n - 1)]
  <1>1. /\ K \in Nat /\ c.cap = cap /\ c.cells \in [0 .. Extent(cap) - 1 -> CellSet]
        /\ Extent(cap) \in Nat /\ 3 * cap <= Extent(cap)
    BY TableFacts
  <1>2. BuildHash(c) = b[K]
    <2>1. DOMAIN c.cells = 0 .. Extent(cap) - 1
      BY <1>1
    <2>2. z = [c EXCEPT !.cells = [i \in DOMAIN c.cells |->
                  IF i \in 2 * c.cap .. 3 * c.cap - 1 THEN EmptyBucket ELSE c.cells[i]]]
      BY <1>1, <2>1
    <2> HIDE DEF z
    <2> QED
      BY <2>2 DEF BuildHash
  <1>3. /\ z \in Table(cap) /\ Alike(c, z) /\ z.cells = e
    <2>1. EmptyBucket \in CellSet
      <3>1. 0 \in Nat
        OBVIOUS
      <3> QED
        BY <3>1, CellFacts
    <2>2. e \in [0 .. Extent(cap) - 1 -> CellSet]
      BY <1>1, <2>1
    <2> HIDE DEF e
    <2> QED
      BY <2>2 DEF Table, Cells, CellSet, Alike
  <1>4. \A i \in 0 .. 2 * cap - 1 : z.cells[i] = c.cells[i]
    <2>1. \A i \in 0 .. 2 * cap - 1 : i \in 0 .. Extent(cap) - 1 /\ i \notin 2 * cap .. 3 * cap - 1
      BY <1>1
    <2>2. \A i \in 0 .. 2 * cap - 1 : e[i] = c.cells[i]
      BY <2>1
    <2> HIDE DEF e, z
    <2> QED
      BY <1>3, <2>2
  <1>5. Hashed(cap, IndexOf(z), W, 0)
    <2>1. ASSUME NEW r \in 0 .. cap - 1 PROVE IndexOf(z)[r] = EmptyBucket
      <3>1. 2 * cap + r \in 0 .. Extent(cap) - 1 /\ 2 * cap + r \in 2 * cap .. 3 * cap - 1
        BY <1>1
      <3>2. e[2 * cap + r] = EmptyBucket
        BY <3>1
      <3> HIDE DEF e, z
      <3>3. z.cap = cap
        BY <1>3, TableFacts
      <3>4. IndexOf(z)[r] = z.cells[2 * cap + r]
        BY <3>3 DEF IndexOf
      <3> QED
        BY <1>3, <3>2, <3>4
    <2> DEFINE I == IndexOf(z)
    <2>2. \A r \in 0 .. cap - 1 : I[r] = EmptyBucket
      BY <2>1
    <2>3. 0 .. 0 - 1 = {}
      OBVIOUS
    <2> HIDE DEF I
    <2> QED
      BY <2>2, <2>3 DEF Hashed, I
  <1> HIDE DEF e, z
  <1>6. \A n \in 1 .. K : n - 1 \in Nat /\ n - 1 \in 0 .. K - 1 /\ n - 1 \in 0 .. cap - 1 /\ WordAt(c, n - 1) \in Nat
    <2>1. \A n \in 1 .. K : n - 1 \in Nat /\ n - 1 \in 0 .. K - 1 /\ n - 1 \in 0 .. cap - 1
      BY <1>1
    <2> QED
      BY <2>1
  <1>7. \A n \in 1 .. K : \A v \in Table(cap) :
           /\ G[<<n, v>>] = HashInsert(v, WordAt(c, n - 1), n - 1)
           /\ G[<<n, v>>] \in Table(cap)
    <2>1. \A n \in 1 .. K : \A v \in Table(cap) : G[<<n, v>>] = HashInsert(v, WordAt(c, n - 1), n - 1)
      OBVIOUS
    <2>2. ASSUME NEW n \in 1 .. K, NEW v \in Table(cap)
          PROVE  HashInsert(v, WordAt(c, n - 1), n - 1) \in Table(cap)
      <3>1. n - 1 \in Nat /\ WordAt(c, n - 1) \in Nat
        BY <1>6
      <3> QED
        BY <3>1, HashInsertTable
    <2> HIDE DEF G
    <2> QED
      BY <2>1, <2>2
  <1>8. PICK g : IsRecursionTo(K, g, z, G) /\ \A n \in 0 .. K : g[n] \in Table(cap)
    <2> HIDE DEF G, K
    <2> QED
      BY <1>1, <1>3, <1>7, TypedRecursion
  <1>9. g = [n \in 0 .. K |-> g[n]] /\ \A n \in 0 .. K : g[n] = IF n = 0 THEN z ELSE G[<<n, g[n - 1]>>]
    <2> HIDE DEF G, K
    <2> QED
      BY <1>8, Zenon DEF IsRecursionTo
  <1> HIDE DEF G
  <1>10. \A n \in 0 .. K : g[n] = IF n = 0 THEN z ELSE HashInsert(g[n - 1], WordAt(c, n - 1), n - 1)
    <2> SUFFICES ASSUME NEW n \in 0 .. K, n # 0
                 PROVE  g[n] = HashInsert(g[n - 1], WordAt(c, n - 1), n - 1)
      BY <1>9
    <2>1. n \in 1 .. K /\ n - 1 \in 0 .. K
      BY <1>1
    <2> QED
      BY <1>7, <1>8, <1>9, <2>1
  <1>11. g = [n \in 0 .. K |-> IF n = 0 THEN z ELSE HashInsert(g[n - 1], WordAt(c, n - 1), n - 1)]
    <2> HIDE DEF K
    <2> QED
      BY <1>9, <1>10
  <1>12. b = [n \in 0 .. K |-> IF n = 0 THEN z ELSE HashInsert(b[n - 1], WordAt(c, n - 1), n - 1)]
    <2> HIDE DEF K
    <2> QED
      BY <1>11
  <1> HIDE DEF b
  <1>13. \A n \in 0 .. K : b[n] = IF n = 0 THEN z ELSE HashInsert(b[n - 1], WordAt(c, n - 1), n - 1)
    <2> HIDE DEF K
    <2> QED
      BY <1>12, Zenon
  <1> DEFINE S == {n \in 0 .. K : /\ b[n] \in Table(cap) /\ Alike(c, b[n]) /\ Hashed(cap, IndexOf(b[n]), W, n)
                                  /\ \A i \in 0 .. 2 * cap - 1 : b[n].cells[i] = c.cells[i]}
  <1>14. 0 \in S
    <2>1. 0 \in 0 .. K
      BY <1>1
    <2>2. b[0] = z
      BY <1>13, <2>1
    <2> HIDE DEF K, W
    <2> QED
      BY <1>3, <1>4, <1>5, <2>1, <2>2
  <1>15. ASSUME NEW n \in 0 .. K - 1, n \in S PROVE n + 1 \in S
    <2>1. /\ n + 1 \in 0 .. K /\ n + 1 \in 1 .. K /\ n + 1 # 0 /\ (n + 1) - 1 = n
          /\ n \in 0 .. cap - 1 /\ n \in Nat
      BY <1>1
    <2>2. b[n + 1] = HashInsert(b[n], WordAt(c, n), n)
      BY <1>13, <2>1
    <2>3. WordAt(c, n) = W[n] /\ \A s \in 0 .. n : W[s] \in Nat
      <3>1. \A s \in 0 .. n : s \in Nat /\ s \in 0 .. K - 1
        BY <1>1
      <3> QED
        BY <2>1, <3>1 DEF WordsOf
    <2> DEFINE p == b[n]
               q == b[n + 1]
    <2>4. p \in Table(cap) /\ Alike(c, p) /\ Hashed(cap, IndexOf(p), W, n)
          /\ \A i \in 0 .. 2 * cap - 1 : p.cells[i] = c.cells[i]
      BY <1>15
    <2>5. q = HashInsert(p, W[n], n)
      BY <2>2, <2>3
    <2> HIDE DEF p, q, W, K
    <2>6. /\ q \in Table(cap) /\ Alike(p, q) /\ Hashed(cap, IndexOf(q), W, n + 1)
          /\ \A i \in 0 .. 2 * cap - 1 : q.cells[i] = p.cells[i]
      BY <2>1, <2>3, <2>4, <2>5, HashInsertHashes
    <2>7. Alike(c, q) /\ \A i \in 0 .. 2 * cap - 1 : q.cells[i] = c.cells[i]
      BY <2>4, <2>6 DEF Alike
    <2> QED
      BY <2>1, <2>6, <2>7 DEF q
  <1>16. K \in S
    <2> HIDE DEF S, K
    <2>1. 0 .. K \subseteq S
      BY <1>1, <1>14, <1>15, BoundedInduction
    <2> QED
      BY <1>1, <2>1
  <1> QED
    BY <1>2, <1>16

(* The pairs of a context, as far as its block has them. *)
HasPairs(c) ==
    \A s \in 0 .. c.count - 1 : 2 * s + 1 < Extent(c.cap) =>
        \E w \in Word, v \in Value : c.cells[2 * s] = WordCell(w) /\ c.cells[2 * s + 1] = ValueCell(v)

SamePairs(c, d, n) ==
    \A s \in 0 .. n - 1 : 2 * s + 1 < Extent(c.cap) =>
        d.cells[2 * s] = c.cells[2 * s] /\ d.cells[2 * s + 1] = c.cells[2 * s + 1]

(* The index of a context is one of its pairs. *)
IsIndexed(c) == Hashed(c.cap, IndexOf(c), WordsOf(c), c.count)

Good(c) == HasPairs(c) /\ (Indexed(c) => IsIndexed(c))

(* d is c with the pair (w, v) behind the ones it had. *)
Extends(c, w, v, d) ==
    /\ d.managed = c.managed /\ d.cap = c.cap /\ d.count = c.count + 1
    /\ SamePairs(c, d, c.count)
    /\ 2 * c.count + 1 < Extent(c.cap) =>
          d.cells[2 * c.count] = WordCell(w) /\ d.cells[2 * c.count + 1] = ValueCell(v)

(* A context that has grown by a pair has pairs. *)
LEMMA ExtendsHasPairs ==
  ASSUME NEW cap \in Nat \ {0}, NEW c \in Table(cap), HasPairs(c), NEW w \in Word, NEW v \in Value,
         NEW d, Extends(c, w, v, d)
  PROVE  HasPairs(d)
  <1>1. c.count \in Nat /\ d.cap = c.cap /\ d.count = c.count + 1
    BY TableFacts DEF Extends
  <1> SUFFICES ASSUME NEW s \in 0 .. c.count, 2 * s + 1 < Extent(c.cap)
               PROVE  \E u \in Word, x \in Value : d.cells[2 * s] = WordCell(u) /\ d.cells[2 * s + 1] = ValueCell(x)
    BY <1>1 DEF HasPairs
  <1>2. CASE s = c.count
    BY <1>2 DEF Extends
  <1>3. CASE s # c.count
    <2>1. s \in 0 .. c.count - 1
      BY <1>1, <1>3
    <2>2. d.cells[2 * s] = c.cells[2 * s] /\ d.cells[2 * s + 1] = c.cells[2 * s + 1]
      BY <2>1 DEF Extends, SamePairs
    <2>3. \E u \in Word, x \in Value : c.cells[2 * s] = WordCell(u) /\ c.cells[2 * s + 1] = ValueCell(x)
      BY <2>1 DEF HasPairs
    <2> QED
      BY <2>2, <2>3
  <1> QED
    BY <1>2, <1>3

(* The words of the pairs. *)
LEMMA PairWords ==
  ASSUME NEW cap \in Nat \ {0}, NEW c \in Table(cap), HasPairs(c),
         NEW s \in 0 .. c.count - 1, 2 * s + 1 < Extent(cap)
  PROVE  /\ WordAt(c, s) \in Word /\ WordAt(c, s) \in Nat /\ WordsOf(c)[s] = WordAt(c, s)
         /\ ValueAt(c, s) \in Value
         /\ c.cells[2 * s].k = "word" /\ c.cells[2 * s + 1].k = "value"
  <1>1. c.cap = cap /\ c.count \in Nat
    BY TableFacts
  <1>2. PICK w \in Word, v \in Value : c.cells[2 * s] = WordCell(w) /\ c.cells[2 * s + 1] = ValueCell(v)
    BY <1>1 DEF HasPairs
  <1>3. w \in Nat /\ v \in Nat /\ s \in Nat
    BY <1>1, ContextsAssumption
  <1>4. WordCell(w).id = w /\ WordCell(w).k = "word" /\ ValueCell(v).x = v /\ ValueCell(v).k = "value"
    BY <1>3, CellFacts
  <1> QED
    BY <1>2, <1>3, <1>4 DEF WordAt, ValueAt, WordsOf

(* The same for as many as there are buckets. *)
LEMMA WordsUpToCap ==
  ASSUME NEW cap \in Nat \ {0}, NEW c \in Table(cap), HasPairs(c), c.count <= cap
  PROVE  \A s \in 0 .. c.count - 1 : WordAt(c, s) \in Nat /\ WordsOf(c)[s] \in Nat
  <1> SUFFICES ASSUME NEW s \in 0 .. c.count - 1 PROVE WordAt(c, s) \in Nat /\ WordsOf(c)[s] \in Nat
    OBVIOUS
  <1>1. 2 * s + 1 < Extent(cap)
    BY TableFacts
  <1> QED
    BY <1>1, PairWords

(* Pairs below the index, kept with the cells there. *)
LEMMA LowCells ==
  ASSUME NEW cap \in Nat \ {0}, NEW c \in Table(cap), NEW d, NEW n \in Nat, n <= cap,
         \A i \in 0 .. 2 * cap - 1 : d.cells[i] = c.cells[i]
  PROVE  /\ SamePairs(c, d, n)
         /\ \A s \in 0 .. n - 1 : WordsOf(d)[s] = WordsOf(c)[s]
  <1>1. \A s \in 0 .. n - 1 : s \in Nat /\ 2 * s \in 0 .. 2 * cap - 1 /\ 2 * s + 1 \in 0 .. 2 * cap - 1
    OBVIOUS
  <1> QED
    BY <1>1 DEF SamePairs, WordsOf, WordAt

(* The pair is written, and no other cell. *)
LEMMA PairFacts ==
  ASSUME NEW cap \in Nat \ {0}, NEW c \in Table(cap), NEW w \in Word, NEW v \in Value
  PROVE  LET d == Pair(c, w, v)
         IN  /\ d \in Table(cap) /\ Extends(c, w, v, d)
             /\ \A i \in 0 .. Extent(cap) - 1 :
                   i # 2 * c.count /\ i # 2 * c.count + 1 => d.cells[i] = c.cells[i]
  <1> DEFINE n == c.count
             p == Put(c, 2 * n, WordCell(w))
             q == Put(p, 2 * n + 1, ValueCell(v))
             d == Pair(c, w, v)
  <1>1. n \in Nat /\ c.cap = cap /\ Extent(cap) \in Nat
    BY TableFacts
  <1>2. WordCell(w) \in CellSet /\ ValueCell(v) \in CellSet
    <2>1. w \in Nat /\ v \in Nat
      BY ContextsAssumption
    <2> QED
      BY <2>1, CellFacts
  <1>3. /\ p \in Table(cap) /\ Alike(c, p)
        /\ \A i \in 0 .. Extent(cap) - 1 : p.cells[i] = IF i = 2 * n THEN WordCell(w) ELSE c.cells[i]
    BY <1>2, PutFacts
  <1> HIDE DEF p
  <1>4. /\ q \in Table(cap) /\ Alike(p, q)
        /\ \A i \in 0 .. Extent(cap) - 1 : q.cells[i] = IF i = 2 * n + 1 THEN ValueCell(v) ELSE p.cells[i]
    BY <1>2, <1>3, PutFacts
  <1>5. d = [q EXCEPT !.count = @ + 1]
    BY DEF Pair, p
  <1> HIDE DEF d, q
  <1>6. /\ d \in Table(cap) /\ d.count = n + 1 /\ d.managed = c.managed /\ d.cap = c.cap /\ d.cells = q.cells
    <2>1. q.count = n /\ q.managed = c.managed /\ q.cap = c.cap
      BY <1>3, <1>4 DEF Alike
    <2> HIDE DEF n
    <2> QED
      BY <1>1, <1>4, <1>5, <2>1 DEF Table
  <1>7. \A i \in 0 .. Extent(cap) - 1 :
           d.cells[i] = IF i = 2 * n + 1 THEN ValueCell(v) ELSE IF i = 2 * n THEN WordCell(w) ELSE c.cells[i]
    BY <1>3, <1>4, <1>6
  <1>8. SamePairs(c, d, n)
    <2> SUFFICES ASSUME NEW s \in 0 .. n - 1, 2 * s + 1 < Extent(cap)
                 PROVE  d.cells[2 * s] = c.cells[2 * s] /\ d.cells[2 * s + 1] = c.cells[2 * s + 1]
      BY <1>1 DEF SamePairs
    <2>1. /\ 2 * s \in 0 .. Extent(cap) - 1 /\ 2 * s + 1 \in 0 .. Extent(cap) - 1
          /\ 2 * s # 2 * n /\ 2 * s # 2 * n + 1 /\ 2 * s + 1 # 2 * n /\ 2 * s + 1 # 2 * n + 1
      BY <1>1
    <2> QED
      BY <1>7, <2>1
  <1>9. 2 * n + 1 < Extent(cap) => d.cells[2 * n] = WordCell(w) /\ d.cells[2 * n + 1] = ValueCell(v)
    <2> SUFFICES ASSUME 2 * n + 1 < Extent(cap)
                 PROVE  d.cells[2 * n] = WordCell(w) /\ d.cells[2 * n + 1] = ValueCell(v)
      OBVIOUS
    <2>1. 2 * n \in 0 .. Extent(cap) - 1 /\ 2 * n + 1 \in 0 .. Extent(cap) - 1 /\ 2 * n # 2 * n + 1
      BY <1>1
    <2> QED
      BY <1>7, <2>1
  <1>10. Extends(c, w, v, d)
    BY <1>1, <1>6, <1>8, <1>9 DEF Extends
  <1> QED
    BY <1>6, <1>7, <1>10 DEF d

(* A pair below the index leaves the index. *)
LEMMA PairLeavesIndex ==
  ASSUME NEW cap \in Nat \ {0}, NEW c \in Table(cap), NEW w \in Word, NEW v \in Value, c.count < cap
  PROVE  IndexOf(Pair(c, w, v)) = IndexOf(c)
  <1> DEFINE d == Pair(c, w, v)
  <1>1. /\ d \in Table(cap)
        /\ \A i \in 0 .. Extent(cap) - 1 : i # 2 * c.count /\ i # 2 * c.count + 1 => d.cells[i] = c.cells[i]
    BY PairFacts
  <1> HIDE DEF d
  <1>2. c.cap = cap /\ d.cap = cap /\ c.count \in Nat /\ Extent(cap) \in Nat /\ 3 * cap <= Extent(cap)
    BY <1>1, TableFacts
  <1>3. ASSUME NEW b \in 0 .. cap - 1 PROVE d.cells[2 * cap + b] = c.cells[2 * cap + b]
    <2>1. 2 * cap + b \in 0 .. Extent(cap) - 1 /\ 2 * cap + b # 2 * c.count /\ 2 * cap + b # 2 * c.count + 1
      BY <1>2
    <2> QED
      BY <1>1, <2>1
  <1>4. IndexOf(d) = IndexOf(c)
    BY <1>2, <1>3 DEF IndexOf
  <1> QED
    BY <1>4 DEF d

(* What leaves the pairs alone leaves the context the longer one. *)
LEMMA ExtendsAlike ==
  ASSUME NEW cap \in Nat \ {0}, NEW c \in Table(cap), NEW w, NEW v, NEW p, Extends(c, w, v, p),
         NEW q, Alike(p, q), SamePairs(p, q, c.count + 1)
  PROVE  Extends(c, w, v, q)
  <1>1. c.count \in Nat /\ p.cap = c.cap /\ p.count = c.count + 1 /\ p.managed = c.managed
    BY TableFacts DEF Extends
  <1>2. q.cap = c.cap /\ q.count = c.count + 1 /\ q.managed = c.managed
    BY <1>1 DEF Alike
  <1>3. \A s \in 0 .. c.count : 2 * s + 1 < Extent(c.cap) =>
           q.cells[2 * s] = p.cells[2 * s] /\ q.cells[2 * s + 1] = p.cells[2 * s + 1]
    <2>1. \A s \in 0 .. c.count : s \in 0 .. (c.count + 1) - 1
      BY <1>1
    <2> QED
      BY <1>1, <2>1 DEF SamePairs
  <1>4. SamePairs(c, q, c.count)
    <2>1. \A s \in 0 .. c.count - 1 : s \in 0 .. c.count
      BY <1>1
    <2> QED
      BY <1>3, <2>1 DEF SamePairs, Extends
  <1>5. c.count \in 0 .. c.count
    BY <1>1
  <1> QED
    BY <1>2, <1>3, <1>4, <1>5 DEF Extends

(* The pair is there before the index has it. *)
LEMMA IndexAfterPair ==
  ASSUME NEW cap \in Nat \ {0}, NEW c \in Table(cap), HasPairs(c), IsIndexed(c), c.count < cap,
         NEW w \in Word, NEW v \in Value
  PROVE  LET p == Pair(c, w, v)
         IN  /\ Hashed(cap, IndexOf(p), WordsOf(p), c.count)
             /\ \A s \in 0 .. c.count : WordsOf(p)[s] \in Nat
             /\ WordsOf(p)[c.count] = w
  <1> DEFINE p == Pair(c, w, v)
             n == c.count
  <1>1. n \in Nat /\ c.cap = cap /\ 3 * cap <= Extent(cap) /\ Extent(cap) \in Nat
    BY TableFacts
  <1>2. p \in Table(cap) /\ Extends(c, w, v, p)
    BY PairFacts
  <1>3. IndexOf(p) = IndexOf(c)
    BY PairLeavesIndex
  <1> HIDE DEF p
  <1>4. HasPairs(p)
    BY <1>2, ExtendsHasPairs
  <1>5. \A s \in 0 .. n - 1 : WordsOf(c)[s] = WordsOf(p)[s]
    <2> SUFFICES ASSUME NEW s \in 0 .. n - 1 PROVE WordsOf(c)[s] = WordsOf(p)[s]
      OBVIOUS
    <2>1. s \in Nat /\ 2 * s + 1 < Extent(cap)
      BY <1>1
    <2>2. p.cells[2 * s] = c.cells[2 * s]
      BY <1>1, <1>2, <2>1 DEF Extends, SamePairs
    <2> QED
      BY <2>1, <2>2 DEF WordsOf, WordAt
  <1>6. \A s \in 0 .. n : WordsOf(p)[s] \in Nat
    <2>1. p.count = n + 1 /\ p.count <= cap /\ \A s \in 0 .. n : s \in 0 .. p.count - 1
      BY <1>1, <1>2 DEF Extends
    <2> QED
      BY <1>2, <1>4, <2>1, WordsUpToCap
  <1>7. Hashed(cap, IndexOf(p), WordsOf(p), n)
    <2> DEFINE I == IndexOf(p)
               W == WordsOf(c)
               X == WordsOf(p)
    <2>1. Hashed(cap, I, W, n)
      BY <1>1, <1>3 DEF IsIndexed
    <2> HIDE DEF I, W, X, n
    <2>2. Hashed(cap, I, X, n)
      BY <1>1, <1>5, <2>1, HashedAgree DEF W, X
    <2> QED
      BY <2>2 DEF I, X
  <1>8. WordsOf(p)[n] = w
    <2>1. 2 * n + 1 < Extent(cap)
      BY <1>1
    <2>2. p.cells[2 * n] = WordCell(w)
      BY <1>1, <1>2, <2>1 DEF Extends
    <2>3. WordCell(w).id = w
      <3>1. w \in Nat
        BY ContextsAssumption
      <3> QED
        BY <3>1, CellFacts
    <2> QED
      BY <1>1, <2>2, <2>3 DEF WordsOf, WordAt
  <1> QED
    BY <1>6, <1>7, <1>8 DEF p

(* A context whose low cells and whose index of the pairs there are those  *)
(* of p with its words indexed is indexed.                                 *)
LEMMA IndexedAgain ==
  ASSUME NEW cap \in Nat \ {0}, NEW p \in Table(cap), p.count <= cap,
         NEW q \in Table(cap), Alike(p, q), Hashed(cap, IndexOf(q), WordsOf(p), p.count),
         \A i \in 0 .. 2 * cap - 1 : q.cells[i] = p.cells[i]
  PROVE  IsIndexed(q) /\ SamePairs(p, q, p.count)
  <1>1. p.count \in Nat /\ q.count = p.count /\ q.cap = cap
    BY TableFacts DEF Alike
  <1>2. SamePairs(p, q, p.count) /\ \A s \in 0 .. p.count - 1 : WordsOf(p)[s] = WordsOf(q)[s]
    BY <1>1, LowCells
  <1> DEFINE I == IndexOf(q)
             W == WordsOf(p)
             X == WordsOf(q)
             n == p.count
  <1>3. Hashed(cap, I, W, n) /\ n \in Nat /\ \A s \in 0 .. n - 1 : W[s] = X[s]
    BY <1>1, <1>2
  <1> HIDE DEF I, W, X, n
  <1>4. Hashed(cap, I, X, n)
    BY <1>3, HashedAgree
  <1> QED
    BY <1>1, <1>2, <1>4 DEF IsIndexed, I, X, n

(* r_set and r_append: the pair is appended, and the index kept, for a     *)
(* context that is indexed when it has to be.                              *)
LEMMA BindFacts ==
  ASSUME NEW cap \in Nat \ {0}, HashMin <= cap, NEW c \in Table(cap), Good(c),
         NEW w \in Word, NEW v \in Value
  PROVE  LET d == Bind(c, w, v) IN d \in Table(cap) /\ Good(d) /\ Extends(c, w, v, d)
  <1> DEFINE p == Pair(c, w, v)
             n == c.count
  <1>1. n \in Nat /\ c.cap = cap /\ 3 * cap <= Extent(cap) /\ Extent(cap) \in Nat /\ HashMin \in Nat /\ HashMin > 0
    BY TableFacts, ContextsAssumption
  <1>2. p \in Table(cap) /\ Extends(c, w, v, p)
    BY PairFacts
  <1>3. Bind(c, w, v) = CASE p.count = HashMin -> BuildHash(p)
                          [] p.count > HashMin -> HashInsert(p, w, n)
                          [] OTHER             -> p
    BY DEF Bind
  <1>4. w \in Nat
    BY ContextsAssumption
  <1>5. n < cap /\ IsIndexed(c) =>
           /\ Hashed(cap, IndexOf(p), WordsOf(p), n)
           /\ \A s \in 0 .. n : WordsOf(p)[s] \in Nat
           /\ WordsOf(p)[n] = w
    BY IndexAfterPair DEF Good
  <1> HIDE DEF p
  <1>6. HasPairs(p) /\ p.count = n + 1 /\ p.cap = cap
    BY <1>1, <1>2, ExtendsHasPairs DEF Good, Extends
  <1>7. ASSUME NEW q \in Table(cap), Alike(p, q), Hashed(cap, IndexOf(q), WordsOf(p), n + 1), n + 1 <= cap,
               \A i \in 0 .. 2 * cap - 1 : q.cells[i] = p.cells[i]
        PROVE  Good(q) /\ Extends(c, w, v, q)
    <2>1. IsIndexed(q) /\ SamePairs(p, q, n + 1)
      BY <1>2, <1>6, <1>7, IndexedAgain
    <2>2. Extends(c, w, v, q)
      BY <1>2, <1>7, <2>1, ExtendsAlike
    <2>3. HasPairs(q)
      BY <2>2, ExtendsHasPairs DEF Good
    <2> QED
      BY <2>1, <2>2, <2>3 DEF Good
  <1>8. CASE p.count = HashMin
    <2> DEFINE q == BuildHash(p)
    <2>1. \A s \in 0 .. p.count - 1 : WordAt(p, s) \in Nat
      BY <1>2, <1>6, <1>8, WordsUpToCap
    <2>2. /\ q \in Table(cap) /\ Alike(p, q) /\ Hashed(cap, IndexOf(q), WordsOf(p), p.count)
          /\ \A i \in 0 .. 2 * cap - 1 : q.cells[i] = p.cells[i]
      <3>1. p.count <= cap
        BY <1>8
      <3>2. p \in Table(cap) /\ cap \in Nat \ {0}
        BY <1>2
      <3> HIDE DEF n
      <3>3. /\ BuildHash(p) \in Table(cap) /\ Alike(p, BuildHash(p))
            /\ Hashed(cap, IndexOf(BuildHash(p)), WordsOf(p), p.count)
            /\ \A i \in 0 .. 2 * cap - 1 : BuildHash(p).cells[i] = p.cells[i]
        BY <2>1, <3>1, <3>2, BuildHashHashes
      <3> QED
        BY <3>3
    <2>3. Bind(c, w, v) = q
      BY <1>1, <1>3, <1>8
    <2> HIDE DEF q
    <2>4. n + 1 <= cap /\ Hashed(cap, IndexOf(q), WordsOf(p), n + 1)
      BY <1>6, <1>8, <2>2
    <2>5. Good(q) /\ Extends(c, w, v, q)
      BY <1>7, <2>2, <2>4
    <2> QED
      BY <2>2, <2>3, <2>5
  <1>9. CASE p.count > HashMin /\ n < cap
    <2> DEFINE q == HashInsert(p, w, n)
               W == WordsOf(p)
    <2>1. Indexed(c)
      BY <1>1, <1>6, <1>9 DEF Indexed
    <2>2. Hashed(cap, IndexOf(p), W, n) /\ (\A s \in 0 .. n : W[s] \in Nat) /\ w = W[n]
      BY <1>5, <1>9, <2>1 DEF Good
    <2>3. n \in 0 .. cap - 1
      BY <1>1, <1>9
    <2> HIDE DEF W
    <2>4. /\ q \in Table(cap) /\ Alike(p, q) /\ Hashed(cap, IndexOf(q), W, n + 1)
          /\ \A i \in 0 .. 2 * cap - 1 : q.cells[i] = p.cells[i]
      BY <1>2, <2>2, <2>3, HashInsertHashes
    <2>5. Bind(c, w, v) = q
      BY <1>1, <1>3, <1>6, <1>9
    <2> HIDE DEF q
    <2>6. Good(q) /\ Extends(c, w, v, q)
      <3>1. n + 1 <= cap
        BY <1>1, <1>9
      <3> QED
        BY <1>7, <2>4, <3>1 DEF W
    <2> QED
      BY <2>4, <2>5, <2>6
  <1>10. CASE p.count > HashMin /\ ~ (n < cap)
    <2>1. HashInsert(p, w, n) = p
      BY <1>1, <1>2, <1>4, <1>10, HashInsertTable
    <2>2. Bind(c, w, v) = p
      BY <1>1, <1>3, <1>6, <1>10, <2>1
    <2>3. ~ Indexed(p)
      BY <1>1, <1>6, <1>10 DEF Indexed
    <2> QED
      BY <1>2, <1>6, <2>2, <2>3 DEF Good
  <1>11. CASE ~ (p.count > HashMin) /\ p.count # HashMin
    <2>1. Bind(c, w, v) = p
      BY <1>3, <1>11
    <2>2. ~ Indexed(p)
      BY <1>1, <1>6, <1>11 DEF Indexed
    <2> QED
      BY <1>2, <1>6, <2>1, <2>2 DEF Good
  <1> QED
    BY <1>8, <1>9, <1>10, <1>11

(* bind() of the loader: a word that is not bound goes into the index.     *)
LEMMA LoaderBindFacts ==
  ASSUME NEW cap \in Nat \ {0}, NEW c \in Table(cap), HasPairs(c), c.count <= cap => IsIndexed(c),
         NEW w \in Word, NEW v \in Value,
         \A s \in 0 .. c.count - 1 : 2 * s + 1 < Extent(cap) => WordAt(c, s) # w
  PROVE  LET d == LoaderBind(c, w, v)
         IN  d \in Table(cap) /\ HasPairs(d) /\ (d.count <= cap => IsIndexed(d)) /\ Extends(c, w, v, d)
  <1> DEFINE p == Pair(c, w, v)
             n == c.count
             I == IndexOf(c)
             F == {k \in 0 .. c.cap - 1 :
                     LET e == c.cells[Bucket(c, w, k)] IN e = EmptyBucket \/ e.id = w}
             m == First(F)
             q == Put(p, Bucket(c, w, m), Entry(w, n))
  <1>1. /\ n \in Nat /\ c.cap = cap /\ 3 * cap <= Extent(cap) /\ Extent(cap) \in Nat
        /\ w \in Nat
    BY TableFacts, ContextsAssumption
  <1>2. p \in Table(cap) /\ Extends(c, w, v, p)
    BY PairFacts
  <1>3. LoaderBind(c, w, v) = IF n < c.cap /\ F # {} THEN q ELSE p
    BY DEF LoaderBind
  <1>4. \A k \in 0 .. cap - 1 : /\ Probe(cap, w, k) \in 0 .. cap - 1
                                /\ Bucket(c, w, k) = 2 * cap + Probe(cap, w, k)
                                /\ c.cells[Bucket(c, w, k)] = I[Probe(cap, w, k)]
    <2> SUFFICES ASSUME NEW k \in 0 .. cap - 1
                 PROVE  /\ Probe(cap, w, k) \in 0 .. cap - 1
                        /\ Bucket(c, w, k) = 2 * cap + Probe(cap, w, k)
                        /\ c.cells[Bucket(c, w, k)] = I[Probe(cap, w, k)]
      OBVIOUS
    <2>1. k \in Nat /\ w \in Nat /\ c \in Table(cap) /\ cap \in Nat \ {0}
      BY <1>1
    <2> QED
      BY <2>1, BucketIs
  <1>5. IndexOf(p) = I \/ ~ (n < cap)
    BY PairLeavesIndex
  <1>6. n < cap => /\ Hashed(cap, IndexOf(p), WordsOf(p), n)
                   /\ \A s \in 0 .. n : WordsOf(p)[s] \in Nat
                   /\ WordsOf(p)[n] = w
    BY <1>1, IndexAfterPair
  <1> HIDE DEF p, q, m
  <1>7. HasPairs(p) /\ p.count = n + 1 /\ p.cap = cap
    BY <1>1, <1>2, ExtendsHasPairs DEF Extends
  <1>8. CASE ~ (n < cap)
    <2>1. LoaderBind(c, w, v) = p /\ ~ (p.count <= cap)
      BY <1>1, <1>3, <1>7, <1>8
    <2> QED
      BY <1>2, <1>7, <2>1
  <1>9. CASE n < cap
    <2> DEFINE W == WordsOf(p)
               t == Probe(cap, w, m)
    <2>1. Hashed(cap, I, W, n) /\ (\A s \in 0 .. n : W[s] \in Nat) /\ W[n] = w /\ IndexOf(p) = I
      BY <1>5, <1>6, <1>9
    <2>2. \A s \in 0 .. n - 1 : W[s] # w
      <3> SUFFICES ASSUME NEW s \in 0 .. n - 1 PROVE W[s] # w
        OBVIOUS
      <3>1. s \in Nat /\ 2 * s + 1 < Extent(cap)
        BY <1>1, <1>9
      <3>2. p.cells[2 * s] = c.cells[2 * s] /\ WordAt(c, s) # w
        BY <1>1, <1>2, <3>1 DEF Extends, SamePairs
      <3> QED
        BY <3>1, <3>2 DEF WordsOf, WordAt
    <2>3. \A b \in 0 .. cap - 1 : I[b] = EmptyBucket \/ I[b].id # w
      <3> SUFFICES ASSUME NEW b \in 0 .. cap - 1, I[b] # EmptyBucket PROVE I[b].id # w
        OBVIOUS
      <3> HIDE DEF I, W
      <3>1. PICK s \in 0 .. n - 1 : I[b] = Entry(W[s], s)
        BY <2>1 DEF Hashed
      <3>2. s \in 0 .. n /\ s \in Nat
        BY <1>1
      <3>3. W[s] \in Nat
        BY <2>1, <3>2
      <3>4. Entry(W[s], s).id = W[s]
        BY <3>2, <3>3, CellFacts
      <3> QED
        BY <2>2, <3>1, <3>4
    <2>4. \A k \in 0 .. cap - 1 : k \in F <=> I[Probe(cap, w, k)] = EmptyBucket
      BY <1>1, <1>4, <2>3
    <2>5. n \in 0 .. cap - 1
      BY <1>1, <1>9
    <2>6. F # {} /\ F \subseteq Nat /\ F \subseteq 0 .. cap - 1
      <3>1. \E k \in 0 .. cap - 1 : I[Probe(cap, w, k)] = EmptyBucket
        <4> HIDE DEF I, W, n
        <4> QED
          BY <1>1, <2>1, <2>5, BucketLeft
      <3> QED
        BY <1>1, <2>4, <3>1
    <2> HIDE DEF F
    <2>7. m \in F /\ \A j \in F : m <= j
      BY <2>6, FirstIs DEF m
    <2>8. m \in 0 .. cap - 1 /\ I[t] = EmptyBucket /\ t \in 0 .. cap - 1 /\ Bucket(c, w, m) = 2 * cap + t
      BY <1>4, <2>4, <2>6, <2>7
    <2>9. \A k \in 0 .. m - 1 : I[Probe(cap, w, k)] # EmptyBucket
      <3> SUFFICES ASSUME NEW k \in 0 .. m - 1 PROVE I[Probe(cap, w, k)] # EmptyBucket
        OBVIOUS
      <3>1. k \in 0 .. cap - 1 /\ ~ (m <= k)
        BY <2>8
      <3> QED
        BY <2>4, <2>7, <3>1
    <2>10. Entry(w, n) \in CellSet
      BY <1>1, CellFacts
    <2>11. /\ q \in Table(cap) /\ Alike(p, q)
           /\ \A i \in 0 .. Extent(cap) - 1 : q.cells[i] = IF i = 2 * cap + t THEN Entry(w, n) ELSE p.cells[i]
      BY <1>2, <2>8, <2>10, PutFacts DEF q
    <2>12. \A i \in 0 .. 2 * cap - 1 : q.cells[i] = p.cells[i]
      <3>1. \A i \in 0 .. 2 * cap - 1 : i \in 0 .. Extent(cap) - 1 /\ i # 2 * cap + t
        BY <1>1, <2>8
      <3> QED
        BY <2>11, <3>1
    <2> DEFINE J == IndexOf(q)
    <2>13. ASSUME NEW b \in 0 .. cap - 1
           PROVE  J[b] = IF b = t THEN Entry(w, n) ELSE I[b]
      <3>1. 2 * cap + b \in 0 .. Extent(cap) - 1 /\ (2 * cap + b = 2 * cap + t <=> b = t)
        BY <1>1, <2>8
      <3>2. q.cap = cap
        BY <2>11, TableFacts
      <3>3. J[b] = q.cells[2 * cap + b] /\ IndexOf(p)[b] = p.cells[2 * cap + b]
        BY <1>7, <3>2 DEF IndexOf
      <3> HIDE DEF J
      <3> QED
        BY <2>1, <2>11, <3>1, <3>3
    <2> HIDE DEF J, I, W, t
    <2>14. Hashed(cap, J, W, n + 1)
      <3>1. /\ I[Probe(cap, W[n], m)] = EmptyBucket
            /\ \A k \in 0 .. m - 1 : I[Probe(cap, W[n], k)] # EmptyBucket
            /\ \A b \in 0 .. cap - 1 : J[b] = IF b = Probe(cap, W[n], m) THEN Entry(W[n], n) ELSE I[b]
        BY <2>1, <2>8, <2>9, <2>13 DEF t
      <3> QED
        BY <2>1, <2>5, <2>8, <3>1, InsertHashes
    <2>15. IsIndexed(q) /\ SamePairs(p, q, n + 1)
      <3>1. p.count <= cap /\ Hashed(cap, IndexOf(q), WordsOf(p), p.count)
        BY <1>1, <1>7, <1>9, <2>14 DEF J, W
      <3>2. IsIndexed(q) /\ SamePairs(p, q, p.count)
        BY <1>2, <2>11, <2>12, <3>1, IndexedAgain
      <3> QED
        BY <1>7, <3>2
    <2>16. Extends(c, w, v, q)
      BY <1>2, <2>11, <2>15, ExtendsAlike
    <2>17. HasPairs(q)
      BY <2>16, ExtendsHasPairs
    <2>18. LoaderBind(c, w, v) = q
      BY <1>1, <1>3, <1>9, <2>6
    <2> QED
      BY <2>11, <2>15, <2>16, <2>17, <2>18
  <1> QED
    BY <1>8, <1>9

(* Reading: the index, when it is asked, has what the scan would find.     *)
LEMMA FindAgrees ==
  ASSUME NEW cap \in Nat \ {0}, NEW c \in Table(cap), Good(c), NEW w \in Word
  PROVE  /\ Find(c, w) = ScanSlot(c, w)
         /\ IF Slots(c, w) = {} THEN ScanSlot(c, w) = NotFound
            ELSE /\ ScanSlot(c, w) \in 0 .. c.count - 1 /\ WordAt(c, ScanSlot(c, w)) = w
                 /\ \A s \in Slots(c, w) : ScanSlot(c, w) <= s
  <1>1. c.count \in Nat /\ c.cap = cap /\ w \in Nat
    BY TableFacts, ContextsAssumption
  <1>2. IF Slots(c, w) = {} THEN ScanSlot(c, w) = NotFound
        ELSE /\ ScanSlot(c, w) \in 0 .. c.count - 1 /\ WordAt(c, ScanSlot(c, w)) = w
             /\ \A s \in Slots(c, w) : ScanSlot(c, w) <= s
    <2> DEFINE S == Slots(c, w)
    <2>1. S \subseteq Nat
      BY <1>1 DEF Slots
    <2>2. CASE S = {}
      BY <2>2 DEF ScanSlot
    <2>3. CASE S # {}
      <3>1. ScanSlot(c, w) = First(S)
        BY <2>3 DEF ScanSlot
      <3> HIDE DEF S
      <3>2. First(S) \in S /\ \A s \in S : First(S) <= s
        BY <2>1, <2>3, FirstIs
      <3>3. First(S) \in 0 .. c.count - 1 /\ WordAt(c, First(S)) = w
        BY <3>2 DEF S, Slots
      <3> QED
        BY <2>3, <3>1, <3>2, <3>3 DEF S
    <2> QED
      BY <2>2, <2>3
  <1>3. CASE ~ Indexed(c)
    BY <1>2, <1>3 DEF Find
  <1>4. CASE Indexed(c)
    <2> DEFINE I == IndexOf(c)
               W == WordsOf(c)
               n == c.count
               S == Slots(c, w)
               P == Stops(c, w)
               e == c.cells[Bucket(c, w, First(P))]
    <2>1. n \in 0 .. cap /\ Hashed(cap, I, W, n) /\ HasPairs(c)
      BY <1>1, <1>4 DEF Indexed, Good, IsIndexed
    <2>2. \A s \in 0 .. n - 1 : W[s] \in Nat
      BY <2>1, WordsUpToCap
    <2>3. S = {s \in 0 .. n - 1 : W[s] = w}
      <3>1. \A s \in 0 .. n - 1 : W[s] = WordAt(c, s)
        BY <1>1 DEF WordsOf
      <3> QED
        BY <3>1 DEF Slots
    <2>4. \A k \in 0 .. cap - 1 : c.cells[Bucket(c, w, k)] = I[Probe(cap, w, k)]
      <3> SUFFICES ASSUME NEW k \in 0 .. cap - 1 PROVE c.cells[Bucket(c, w, k)] = I[Probe(cap, w, k)]
        OBVIOUS
      <3>1. k \in Nat /\ w \in Nat /\ c \in Table(cap) /\ cap \in Nat \ {0}
        BY <1>1
      <3> QED
        BY <3>1, BucketIs
    <2>5. P = {k \in 0 .. cap - 1 : I[Probe(cap, w, k)] = EmptyBucket \/ I[Probe(cap, w, k)].id = w}
      BY <1>1, <2>4 DEF Stops
    <2>6. Find(c, w) = IF P = {} THEN NotFound ELSE IF e = EmptyBucket THEN NotFound ELSE e.x
      BY <1>4 DEF Find, HashSlot
    <2>7. P # {} => e = I[Probe(cap, w, First(P))]
      <3> SUFFICES ASSUME P # {} PROVE e = I[Probe(cap, w, First(P))]
        OBVIOUS
      <3>1. P \subseteq Nat /\ P \subseteq 0 .. cap - 1
        BY <2>5
      <3> HIDE DEF P
      <3>2. First(P) \in 0 .. cap - 1
        BY <3>1, FirstIs
      <3> QED
        BY <2>4, <3>2
    <2> HIDE DEF I, W, P, e, n, S
    <2>8. S = SlotsIn(W, n, w) /\ P = StopsIn(cap, I, w)
      BY <2>3, <2>5 DEF SlotsIn, StopsIn
    <2>9. /\ S = {} => P = {} \/ I[Probe(cap, w, First(P))] = EmptyBucket
          /\ S # {} => /\ P # {} /\ I[Probe(cap, w, First(P))] # EmptyBucket
                       /\ I[Probe(cap, w, First(P))].x = First(S)
      <3>1. cap \in Nat \ {0} /\ w \in Nat /\ n \in 0 .. cap
        BY <1>1, <2>1
      <3> QED
        BY <2>1, <2>2, <2>8, <3>1, ProbeFinds
    <2>10. ScanSlot(c, w) = IF S = {} THEN NotFound ELSE First(S)
      BY DEF ScanSlot, S
    <2>11. Find(c, w) = ScanSlot(c, w)
      BY <2>6, <2>7, <2>9, <2>10
    <2> QED
      BY <1>2, <2>11
  <1> QED
    BY <1>2, <1>3, <1>4

(* A context with the words and the index of a good one. *)
LEMMA GoodAgain ==
  ASSUME NEW cap \in Nat \ {0}, NEW c \in Table(cap), Good(c), NEW d \in Table(cap), d.count = c.count,
         HasPairs(d),
         Indexed(c) => /\ \A b \in 0 .. cap - 1 : d.cells[2 * cap + b] = c.cells[2 * cap + b]
                       /\ \A s \in 0 .. c.count - 1 : WordAt(d, s) = WordAt(c, s)
  PROVE  Good(d)
  <1> DEFINE n == c.count
             I == IndexOf(c)
             J == IndexOf(d)
             W == WordsOf(c)
             X == WordsOf(d)
  <1>1. n \in Nat /\ c.cap = cap /\ d.cap = cap
    BY TableFacts
  <1>2. Indexed(d) <=> Indexed(c)
    BY <1>1 DEF Indexed
  <1>3. ASSUME Indexed(c) PROVE Hashed(cap, J, X, n)
    <2>1. J = I
      BY <1>1, <1>3 DEF IndexOf
    <2>2. \A s \in 0 .. n - 1 : W[s] = X[s]
      BY <1>1, <1>3 DEF WordsOf
    <2>3. Hashed(cap, I, W, n)
      BY <1>1, <1>3 DEF Good, IsIndexed
    <2> HIDE DEF I, J, W, X, n
    <2> QED
      BY <1>1, <2>1, <2>2, <2>3, HashedAgree
  <1> QED
    BY <1>1, <1>2, <1>3 DEF Good, IsIndexed

(* r_set over a binding: the value of the pair is another one. *)
LEMMA SetFacts ==
  ASSUME NEW cap \in Nat \ {0}, NEW c \in Table(cap), Good(c), NEW s \in 0 .. c.count - 1, NEW v \in Value
  PROVE  LET d == Put(c, 2 * s + 1, ValueCell(v))
         IN  /\ d \in Table(cap) /\ Good(d) /\ Alike(c, d)
             /\ \A r \in 0 .. c.count - 1 : 2 * r + 1 < Extent(cap) =>
                   /\ WordAt(d, r) = WordAt(c, r)
                   /\ ValueAt(d, r) = IF r = s THEN v ELSE ValueAt(c, r)
  <1> DEFINE d == Put(c, 2 * s + 1, ValueCell(v))
  <1>1. /\ c.count \in Nat /\ c.cap = cap /\ 3 * cap <= Extent(cap) /\ Extent(cap) \in Nat /\ s \in Nat
    BY TableFacts
  <1>2. ValueCell(v) \in CellSet /\ ValueCell(v).x = v
    <2>1. v \in Nat
      BY ContextsAssumption
    <2> QED
      BY <2>1, CellFacts
  <1>3. /\ d \in Table(cap) /\ Alike(c, d)
        /\ \A i \in 0 .. Extent(cap) - 1 : d.cells[i] = IF i = 2 * s + 1 THEN ValueCell(v) ELSE c.cells[i]
    BY <1>2, PutFacts
  <1> HIDE DEF d
  <1>4. d.cap = cap /\ d.count = c.count
    BY <1>1, <1>3 DEF Alike
  <1>5. ASSUME NEW r \in 0 .. c.count - 1, 2 * r + 1 < Extent(cap)
        PROVE  /\ d.cells[2 * r] = c.cells[2 * r]
               /\ d.cells[2 * r + 1] = IF r = s THEN ValueCell(v) ELSE c.cells[2 * r + 1]
    <2>1. /\ 2 * r \in 0 .. Extent(cap) - 1 /\ 2 * r + 1 \in 0 .. Extent(cap) - 1
          /\ 2 * r # 2 * s + 1 /\ (2 * r + 1 = 2 * s + 1 <=> r = s)
      BY <1>1, <1>5
    <2> QED
      BY <1>3, <2>1
  <1>6. HasPairs(d)
    <2> SUFFICES ASSUME NEW r \in 0 .. c.count - 1, 2 * r + 1 < Extent(cap)
                 PROVE  \E u \in Word, x \in Value : d.cells[2 * r] = WordCell(u) /\ d.cells[2 * r + 1] = ValueCell(x)
      BY <1>1, <1>4 DEF HasPairs
    <2>1. \E u \in Word, x \in Value : c.cells[2 * r] = WordCell(u) /\ c.cells[2 * r + 1] = ValueCell(x)
      BY <1>1 DEF HasPairs, Good
    <2> QED
      BY <1>5, <2>1
  <1>7. ASSUME Indexed(c)
        PROVE  /\ \A b \in 0 .. cap - 1 : d.cells[2 * cap + b] = c.cells[2 * cap + b]
               /\ \A r \in 0 .. c.count - 1 : WordAt(d, r) = WordAt(c, r)
    <2>1. c.count < cap
      BY <1>1, <1>7 DEF Indexed
    <2>2. ASSUME NEW b \in 0 .. cap - 1 PROVE d.cells[2 * cap + b] = c.cells[2 * cap + b]
      <3>1. 2 * cap + b \in 0 .. Extent(cap) - 1 /\ 2 * cap + b # 2 * s + 1
        BY <1>1, <2>1
      <3> QED
        BY <1>3, <3>1
    <2>3. ASSUME NEW r \in 0 .. c.count - 1 PROVE WordAt(d, r) = WordAt(c, r)
      <3>1. 2 * r + 1 < Extent(cap)
        BY <1>1, <2>1
      <3> QED
        BY <1>5, <3>1 DEF WordAt
    <2> QED
      BY <2>2, <2>3
  <1>8. Good(d)
    BY <1>3, <1>4, <1>6, <1>7, GoodAgain
  <1>9. \A r \in 0 .. c.count - 1 : 2 * r + 1 < Extent(cap) =>
           /\ WordAt(d, r) = WordAt(c, r)
           /\ ValueAt(d, r) = IF r = s THEN v ELSE ValueAt(c, r)
    BY <1>2, <1>5 DEF WordAt, ValueAt
  <1> QED
    BY <1>3, <1>8, <1>9 DEF d

(* r_mkclosure's copy has the pairs and the index. *)
Promoted(c, g) ==
    [c EXCEPT !.managed = TRUE, !.cells =
        [i \in DOMAIN @ |-> IF \/ i < 2 * c.count
                               \/ i \in 2 * ChildCap .. 3 * ChildCap - 1
                            THEN @[i] ELSE g]]

(* The capacities there are. *)
LEMMA ChildCapIs ==
  ChildCap \in Nat \ {0} /\ HashMin <= ChildCap /\ GlobalCap \in Nat \ {0} /\ HashMin <= GlobalCap
  BY ContextsAssumption

(* Promotion keeps what a context is. *)
LEMMA PromoteFacts ==
  ASSUME NEW c \in Table(ChildCap), Good(c), NEW g \in Garbage
  PROVE  LET d == Promoted(c, g)
         IN  /\ d \in Table(ChildCap) /\ Good(d) /\ d.count = c.count
             /\ \A s \in 0 .. c.count - 1 : 2 * s + 1 < Extent(ChildCap) =>
                   WordAt(d, s) = WordAt(c, s) /\ ValueAt(d, s) = ValueAt(c, s)
  <1> DEFINE cap == ChildCap
             d == Promoted(c, g)
             n == c.count
             e == [i \in 0 .. Extent(cap) - 1 |-> IF i < 2 * n \/ i \in 2 * cap .. 3 * cap - 1
                                                  THEN c.cells[i] ELSE g]
  <1>0. cap \in Nat \ {0}
    BY ChildCapIs
  <1> HIDE DEF cap
  <1>1. /\ n \in Nat /\ c.cap = cap /\ 3 * cap <= Extent(cap) /\ Extent(cap) \in Nat
        /\ c.cells \in [0 .. Extent(cap) - 1 -> CellSet] /\ DOMAIN c.cells = 0 .. Extent(cap) - 1
    BY <1>0, TableFacts DEF cap
  <1>2. d = [c EXCEPT !.managed = TRUE, !.cells = e]
    <2>1. e = [i \in DOMAIN c.cells |-> IF \/ i < 2 * c.count
                                           \/ i \in 2 * ChildCap .. 3 * ChildCap - 1
                                        THEN c.cells[i] ELSE g]
      BY <1>1 DEF cap
    <2> HIDE DEF e
    <2>2. c.cells = [c EXCEPT !.managed = TRUE].cells
      BY DEF Table
    <2> QED
      BY <2>1, <2>2 DEF Promoted
  <1>3. e \in [0 .. Extent(cap) - 1 -> CellSet]
    <2>1. g \in CellSet
      BY ContextsAssumption DEF CellSet
    <2> QED
      BY <1>1, <2>1
  <1>4. \A i \in 0 .. Extent(cap) - 1 : i < 2 * n \/ i \in 2 * cap .. 3 * cap - 1 => e[i] = c.cells[i]
    OBVIOUS
  <1> HIDE DEF e, d
  <1>5. d \in Table(cap) /\ d.count = n /\ d.cap = cap /\ d.cells = e
    BY <1>1, <1>2, <1>3 DEF Table, Cells, CellSet, cap
  <1>6. ASSUME NEW s \in 0 .. n - 1, 2 * s + 1 < Extent(cap)
        PROVE  d.cells[2 * s] = c.cells[2 * s] /\ d.cells[2 * s + 1] = c.cells[2 * s + 1]
    <2>1. /\ 2 * s \in 0 .. Extent(cap) - 1 /\ 2 * s + 1 \in 0 .. Extent(cap) - 1
          /\ 2 * s < 2 * n /\ 2 * s + 1 < 2 * n
      BY <1>1, <1>6
    <2> QED
      BY <1>4, <1>5, <2>1
  <1>7. HasPairs(d)
    <2> SUFFICES ASSUME NEW s \in 0 .. n - 1, 2 * s + 1 < Extent(cap)
                 PROVE  \E u \in Word, x \in Value : d.cells[2 * s] = WordCell(u) /\ d.cells[2 * s + 1] = ValueCell(x)
      BY <1>1, <1>5 DEF HasPairs
    <2>1. \E u \in Word, x \in Value : c.cells[2 * s] = WordCell(u) /\ c.cells[2 * s + 1] = ValueCell(x)
      BY <1>1 DEF HasPairs, Good
    <2> QED
      BY <1>6, <2>1
  <1>8. \A b \in 0 .. cap - 1 : d.cells[2 * cap + b] = c.cells[2 * cap + b]
    <2> SUFFICES ASSUME NEW b \in 0 .. cap - 1 PROVE d.cells[2 * cap + b] = c.cells[2 * cap + b]
      OBVIOUS
    <2>1. 2 * cap + b \in 0 .. Extent(cap) - 1 /\ 2 * cap + b \in 2 * cap .. 3 * cap - 1
      BY <1>0, <1>1
    <2> QED
      BY <1>4, <1>5, <2>1
  <1>9. ASSUME Indexed(c), NEW s \in 0 .. n - 1 PROVE WordAt(d, s) = WordAt(c, s)
    <2>1. 2 * s + 1 < Extent(cap)
      BY <1>0, <1>1, <1>9 DEF Indexed
    <2> QED
      BY <1>6, <2>1 DEF WordAt
  <1>10. Good(d)
    <2>1. c \in Table(cap)
      BY DEF cap
    <2> QED
      BY <1>0, <1>5, <1>7, <1>8, <1>9, <2>1, GoodAgain
  <1>11. \A s \in 0 .. n - 1 : 2 * s + 1 < Extent(cap) =>
            WordAt(d, s) = WordAt(c, s) /\ ValueAt(d, s) = ValueAt(c, s)
    BY <1>6 DEF WordAt, ValueAt
  <1> QED
    BY <1>5, <1>10, <1>11 DEF d, cap

(* The contexts that have no pair yet. *)
LEMMA FreshIsGood ==
  /\ EmptyGlobal \in Table(GlobalCap) /\ EmptyGlobal.count = 0 /\ EmptyGlobal.cap = GlobalCap
  /\ HasPairs(EmptyGlobal) /\ IsIndexed(EmptyGlobal)
  /\ \A g \in Garbage : Fresh(g) \in Table(ChildCap) /\ Good(Fresh(g))
  <1>0. EmptyBucket \in CellSet /\ \A g \in Garbage : g \in CellSet
    <2>1. 0 \in Nat
      OBVIOUS
    <2> QED
      BY <2>1, CellFacts, ContextsAssumption DEF CellSet
  <1>1. EmptyGlobal \in Table(GlobalCap) /\ EmptyGlobal.count = 0 /\ EmptyGlobal.cap = GlobalCap
    BY <1>0 DEF EmptyGlobal, Table, Cells, CellSet
  <1>2. 0 .. 0 - 1 = {}
    OBVIOUS
  <1>3. HasPairs(EmptyGlobal)
    BY <1>1, <1>2 DEF HasPairs
  <1>4. IsIndexed(EmptyGlobal)
    <2> DEFINE I == IndexOf(EmptyGlobal)
               W == WordsOf(EmptyGlobal)
    <2>1. ASSUME NEW b \in 0 .. GlobalCap - 1 PROVE I[b] = EmptyBucket
      <3>1. 2 * GlobalCap + b \in 0 .. Extent(GlobalCap) - 1
        BY ContextsAssumption DEF Extent
      <3>2. EmptyGlobal.cells[2 * GlobalCap + b] = EmptyBucket
        BY <3>1 DEF EmptyGlobal
      <3> QED
        BY <1>1, <3>2 DEF IndexOf
    <2> HIDE DEF I, W
    <2>2. Hashed(GlobalCap, I, W, 0)
      BY <1>2, <2>1 DEF Hashed
    <2> QED
      BY <1>1, <2>2 DEF IsIndexed, I, W
  <1>5. ASSUME NEW g \in Garbage PROVE Fresh(g) \in Table(ChildCap) /\ Good(Fresh(g))
    <2>1. Fresh(g) \in Table(ChildCap) /\ Fresh(g).count = 0
      BY <1>0 DEF Fresh, Table, Cells, CellSet
    <2>2. HasPairs(Fresh(g))
      BY <1>2, <2>1 DEF HasPairs
    <2>3. ~ Indexed(Fresh(g))
      BY <2>1, ContextsAssumption DEF Indexed
    <2> QED
      BY <2>1, <2>2, <2>3 DEF Good
  <1> QED
    BY <1>1, <1>3, <1>4, <1>5

(* Whatever is in the table, the loader's bind leaves a table. *)
LEMMA LoaderBindTable ==
  ASSUME NEW cap \in Nat \ {0}, NEW c \in Table(cap), NEW w \in Word, NEW v \in Value
  PROVE  LoaderBind(c, w, v) \in Table(cap)
  <1> DEFINE p == Pair(c, w, v)
             F == {k \in 0 .. c.cap - 1 :
                     LET e == c.cells[Bucket(c, w, k)] IN e = EmptyBucket \/ e.id = w}
             at == Bucket(c, w, First(F))
  <1>1. p \in Table(cap)
    BY PairFacts
  <1>2. Entry(w, c.count) \in CellSet
    <2>1. w \in Nat /\ c.count \in Nat
      BY TableFacts, ContextsAssumption
    <2> QED
      BY <2>1, CellFacts
  <1>3. LoaderBind(c, w, v) = IF c.count < c.cap /\ F # {} THEN Put(p, at, Entry(w, c.count)) ELSE p
    BY DEF LoaderBind
  <1> HIDE DEF p, F, at
  <1>4. Put(p, at, Entry(w, c.count)) \in Table(cap)
    BY <1>1, <1>2, PutFacts
  <1> QED
    BY <1>1, <1>3, <1>4

(* The global context the loader leaves is a good one. *)
LEMMA PreloadedIsGood ==
  ASSUME NEW ws \in Loaded
  PROVE  /\ Preloaded(ws) \in Table(GlobalCap) /\ Good(Preloaded(ws)) /\ Preloaded(ws).count = Len(ws)
         /\ \A s \in 0 .. Len(ws) - 1 : 2 * s + 1 < Extent(GlobalCap) => WordAt(Preloaded(ws), s) = ws[s + 1]
  <1> DEFINE cap == GlobalCap
             K == Len(ws)
             v == First(Value)
             z == EmptyGlobal
             V == Table(cap)
             G == [p \in (1 .. K) \X V |-> LoaderBind(p[2], ws[p[1]], v)]
             b == CHOOSE f : f = [n \in 0 .. K |-> IF n = 0 THEN z ELSE LoaderBind(f[n - 1], ws[n], v)]
  <1>1. Preloaded(ws) = b[K]
    BY DEF Preloaded
  <1>2. cap \in Nat \ {0} /\ HashMin <= cap
    BY ChildCapIs
  <1>3. K \in Nat /\ (\A n \in 1 .. K : ws[n] \in Word) /\ \A i, j \in 1 .. K : ws[i] = ws[j] => i = j
    <2>1. ws \in Seq(Word) /\ \A i, j \in 1 .. Len(ws) : ws[i] = ws[j] => i = j
      BY ContextsAssumption
    <2> QED
      BY <2>1, ElementOfSeq, LenProperties
  <1>4. v \in Value
    BY ContextsAssumption, FirstIs
  <1>5. z \in V /\ z.count = 0 /\ z.cap = cap /\ HasPairs(z) /\ IsIndexed(z)
    BY FreshIsGood
  <1> HIDE DEF cap, K, v, z
  <1>6. \A n \in 1 .. K : \A c \in V : G[<<n, c>>] = LoaderBind(c, ws[n], v) /\ G[<<n, c>>] \in V
    <2>1. \A n \in 1 .. K : \A c \in V : G[<<n, c>>] = LoaderBind(c, ws[n], v)
      OBVIOUS
    <2>2. ASSUME NEW n \in 1 .. K, NEW c \in V PROVE LoaderBind(c, ws[n], v) \in V
      <3>1. ws[n] \in Word
        BY <1>3
      <3> QED
        BY <1>2, <1>4, <3>1, LoaderBindTable
    <2> HIDE DEF G, V
    <2> QED
      BY <2>1, <2>2
  <1> HIDE DEF G, V
  <1>7. PICK g : IsRecursionTo(K, g, z, G) /\ \A n \in 0 .. K : g[n] \in V
    BY <1>3, <1>5, <1>6, TypedRecursion
  <1>8. g = [n \in 0 .. K |-> g[n]] /\ \A n \in 0 .. K : g[n] = IF n = 0 THEN z ELSE G[<<n, g[n - 1]>>]
    BY <1>7, Zenon DEF IsRecursionTo
  <1>9. \A n \in 0 .. K : g[n] = IF n = 0 THEN z ELSE LoaderBind(g[n - 1], ws[n], v)
    <2> SUFFICES ASSUME NEW n \in 0 .. K, n # 0 PROVE g[n] = LoaderBind(g[n - 1], ws[n], v)
      BY <1>8
    <2>1. n \in 1 .. K /\ n - 1 \in 0 .. K
      BY <1>3
    <2> QED
      BY <1>6, <1>7, <1>8, <2>1
  <1>10. g = [n \in 0 .. K |-> IF n = 0 THEN z ELSE LoaderBind(g[n - 1], ws[n], v)]
    BY <1>8, <1>9
  <1>11. b = [n \in 0 .. K |-> IF n = 0 THEN z ELSE LoaderBind(b[n - 1], ws[n], v)]
    BY <1>10
  <1> HIDE DEF b
  <1>12. \A n \in 0 .. K : b[n] = IF n = 0 THEN z ELSE LoaderBind(b[n - 1], ws[n], v)
    BY <1>11, Zenon
  <1> DEFINE Has(c, n) == /\ c \in V /\ HasPairs(c) /\ (c.count <= cap => IsIndexed(c)) /\ c.count = n
                          /\ \A s \in 0 .. n - 1 : 2 * s + 1 < Extent(cap) => WordAt(c, s) = ws[s + 1]
             S == {n \in 0 .. K : Has(b[n], n)}
  <1>13. 0 \in S
    <2>1. 0 \in 0 .. K /\ 0 .. 0 - 1 = {}
      BY <1>3
    <2>2. b[0] = z
      BY <1>12, <2>1
    <2>3. Has(z, 0)
      BY <1>5, <2>1
    <2> HIDE DEF Has
    <2> QED
      BY <2>1, <2>2, <2>3
  <1>14. ASSUME NEW n \in 0 .. K - 1, n \in S PROVE n + 1 \in S
    <2> DEFINE c == b[n]
               d == b[n + 1]
               w == ws[n + 1]
    <2>1. n + 1 \in 0 .. K /\ n + 1 \in 1 .. K /\ n + 1 # 0 /\ (n + 1) - 1 = n /\ n \in Nat
      BY <1>3
    <2>2. d = LoaderBind(c, w, v) /\ w \in Word
      BY <1>3, <1>12, <2>1
    <2>3. Has(c, n)
      BY <1>14
    <2>4. \A s \in 0 .. c.count - 1 : 2 * s + 1 < Extent(cap) => WordAt(c, s) # w
      <3> SUFFICES ASSUME NEW s \in 0 .. n - 1, 2 * s + 1 < Extent(cap) PROVE WordAt(c, s) # w
        BY <2>3
      <3>1. s + 1 \in 1 .. K /\ s + 1 # n + 1
        BY <1>3, <2>1
      <3>2. ws[s + 1] # ws[n + 1]
        BY <1>3, <2>1, <3>1
      <3>3. \A r \in 0 .. n - 1 : 2 * r + 1 < Extent(cap) => WordAt(c, r) = ws[r + 1]
        BY <2>3
      <3> HIDE DEF c
      <3> QED
        BY <3>2, <3>3
    <2>5. c \in Table(cap) /\ HasPairs(c) /\ (c.count <= cap => IsIndexed(c)) /\ c.count = n
      BY <2>3 DEF V
    <2> HIDE DEF c, d, w
    <2>6. d \in Table(cap) /\ HasPairs(d) /\ (d.count <= cap => IsIndexed(d)) /\ Extends(c, w, v, d)
      BY <1>2, <1>4, <2>2, <2>4, <2>5, LoaderBindFacts
    <2>7. d.count = n + 1 /\ c.cap = cap
      BY <1>2, <2>5, <2>6, TableFacts DEF Extends
    <2>8. ASSUME NEW s \in 0 .. (n + 1) - 1, 2 * s + 1 < Extent(cap) PROVE WordAt(d, s) = ws[s + 1]
      <3>1. CASE s = n
        <4>1. d.cells[2 * n] = WordCell(w)
          BY <2>5, <2>6, <2>7, <2>8, <3>1 DEF Extends
        <4>2. WordCell(w).id = w
          <5>1. w \in Nat
            BY <2>2, ContextsAssumption
          <5> QED
            BY <5>1, CellFacts
        <4> QED
          BY <3>1, <4>1, <4>2 DEF WordAt, w
      <3>2. CASE s # n
        <4>1. s \in 0 .. n - 1
          BY <2>1, <3>2
        <4>2. d.cells[2 * s] = c.cells[2 * s]
          BY <2>5, <2>6, <2>7, <2>8, <4>1 DEF Extends, SamePairs
        <4>3. WordAt(c, s) = ws[s + 1]
          BY <2>3, <2>8, <4>1
        <4> QED
          BY <4>2, <4>3 DEF WordAt
      <3> QED
        BY <3>1, <3>2
    <2>9. Has(d, n + 1)
      BY <2>6, <2>7, <2>8 DEF V
    <2> HIDE DEF Has
    <2> QED
      BY <2>1, <2>9 DEF d
  <1>15. Has(b[K], K)
    <2> HIDE DEF S
    <2>1. 0 .. K \subseteq S
      BY <1>3, <1>13, <1>14, BoundedInduction
    <2>2. K \in 0 .. K
      BY <1>3
    <2> QED
      BY <2>1, <2>2 DEF S
  <1>16. b[K] \in Table(cap) /\ b[K].cap = cap
    BY <1>2, <1>15, TableFacts DEF V
  <1>17. Good(b[K])
    <2>1. Indexed(b[K]) => b[K].count <= cap
      BY <1>2, <1>3, <1>15, <1>16 DEF Indexed
    <2> QED
      BY <1>15, <2>1 DEF Good
  <1>18. /\ b[K].count = K
         /\ \A s \in 0 .. K - 1 : 2 * s + 1 < Extent(cap) => WordAt(b[K], s) = ws[s + 1]
    BY <1>15
  <1> HIDE DEF Has
  <1> QED
    BY <1>1, <1>16, <1>17, <1>18 DEF cap, K

(* The context an activation binds its parameters in. *)
Entered(g, ps) ==
    LET c[n \in 0 .. Len(ps)] == IF n = 0 THEN Fresh(g) ELSE Bind(c[n - 1], ps[n][1], ps[n][2])
    IN  c[Len(ps)]

(* It is a good one. *)
LEMMA EnteredIsGood ==
  ASSUME NEW g \in Garbage, NEW ps \in ParamList
  PROVE  Entered(g, ps) \in Table(ChildCap) /\ Good(Entered(g, ps)) /\ Entered(g, ps).count = Len(ps)
  <1> DEFINE K == Len(ps)
             z == Fresh(g)
             V == {c \in Table(ChildCap) : Good(c)}
             G == [p \in (1 .. K) \X V |-> Bind(p[2], ps[p[1]][1], ps[p[1]][2])]
             b == CHOOSE f : f = [n \in 0 .. K |-> IF n = 0 THEN z ELSE Bind(f[n - 1], ps[n][1], ps[n][2])]
  <1>1. Entered(g, ps) = b[K]
    BY DEF Entered
  <1>2. K \in Nat /\ \A n \in 1 .. K : ps[n][1] \in Word /\ ps[n][2] \in Value
    <2>1. PICK m \in 0 .. MaxParams : ps \in [1 .. m -> Word \X Value]
      BY DEF ParamList
    <2>2. m \in Nat
      BY ContextsAssumption
    <2>3. Len(ps) = m
      BY <2>1, <2>2
    <2>4. \A n \in 1 .. m : ps[n] \in Word \X Value
      BY <2>1
    <2> QED
      BY <2>2, <2>3, <2>4
  <1>3. z \in V /\ z.count = 0
    BY FreshIsGood DEF Fresh
  <1>4. ASSUME NEW n \in 1 .. K, NEW c \in V
        PROVE  Bind(c, ps[n][1], ps[n][2]) \in V /\ Bind(c, ps[n][1], ps[n][2]).count = c.count + 1
    <2>1. ps[n][1] \in Word /\ ps[n][2] \in Value
      BY <1>2
    <2>2. c \in Table(ChildCap) /\ Good(c) /\ ChildCap \in Nat \ {0} /\ HashMin <= ChildCap
      BY ChildCapIs
    <2> QED
      BY <2>1, <2>2, BindFacts DEF Extends
  <1> HIDE DEF K, z
  <1>5. \A n \in 1 .. K : \A c \in V : G[<<n, c>>] = Bind(c, ps[n][1], ps[n][2]) /\ G[<<n, c>>] \in V
    <2>1. \A n \in 1 .. K : \A c \in V : G[<<n, c>>] = Bind(c, ps[n][1], ps[n][2])
      <3> HIDE DEF V
      <3> QED
        OBVIOUS
    <2> HIDE DEF G, V
    <2> QED
      BY <1>4, <2>1
  <1> HIDE DEF G, V
  <1>6. PICK h : IsRecursionTo(K, h, z, G) /\ \A n \in 0 .. K : h[n] \in V
    BY <1>2, <1>3, <1>5, TypedRecursion
  <1>7. h = [n \in 0 .. K |-> h[n]] /\ \A n \in 0 .. K : h[n] = IF n = 0 THEN z ELSE G[<<n, h[n - 1]>>]
    BY <1>6, Zenon DEF IsRecursionTo
  <1>8. \A n \in 0 .. K : h[n] = IF n = 0 THEN z ELSE Bind(h[n - 1], ps[n][1], ps[n][2])
    <2> SUFFICES ASSUME NEW n \in 0 .. K, n # 0 PROVE h[n] = Bind(h[n - 1], ps[n][1], ps[n][2])
      BY <1>7
    <2>1. n \in 1 .. K /\ n - 1 \in 0 .. K
      BY <1>2
    <2> QED
      BY <1>5, <1>6, <1>7, <2>1
  <1>9. h = [n \in 0 .. K |-> IF n = 0 THEN z ELSE Bind(h[n - 1], ps[n][1], ps[n][2])]
    BY <1>7, <1>8
  <1>10. b = [n \in 0 .. K |-> IF n = 0 THEN z ELSE Bind(b[n - 1], ps[n][1], ps[n][2])]
    BY <1>9
  <1> HIDE DEF b
  <1>11. \A n \in 0 .. K : b[n] = IF n = 0 THEN z ELSE Bind(b[n - 1], ps[n][1], ps[n][2])
    BY <1>10, Zenon
  <1> DEFINE S == {n \in 0 .. K : b[n] \in V /\ b[n].count = n}
  <1>12. 0 \in S
    <2>1. 0 \in 0 .. K
      BY <1>2
    <2> QED
      BY <1>3, <1>11, <2>1
  <1>13. ASSUME NEW n \in 0 .. K - 1, n \in S PROVE n + 1 \in S
    <2>1. n + 1 \in 0 .. K /\ n + 1 \in 1 .. K /\ n + 1 # 0 /\ (n + 1) - 1 = n
      BY <1>2
    <2>2. b[n + 1] = Bind(b[n], ps[n + 1][1], ps[n + 1][2])
      BY <1>11, <2>1
    <2> QED
      BY <1>4, <1>13, <2>1, <2>2
  <1>14. b[K] \in V /\ b[K].count = K
    <2> HIDE DEF S
    <2>1. 0 .. K \subseteq S
      BY <1>2, <1>12, <1>13, BoundedInduction
    <2>2. K \in 0 .. K
      BY <1>2
    <2> QED
      BY <2>1, <2>2 DEF S
  <1> QED
    BY <1>1, <1>14 DEF V, K

-----------------------------------------------------------------------------
(* The chain *)

CapOf(i) == IF i = 1 THEN GlobalCap ELSE ChildCap
AnyTable == Table(GlobalCap) \cup Table(ChildCap)

(* The inductive invariant: contexts with the pairs their count says and,  *)
(* while the index is consulted, an index of them.                         *)
GoodChain(C) ==
    /\ C \in Seq(AnyTable) /\ Len(C) \in 1 .. MaxChain
    /\ \A i \in 1 .. Len(C) : C[i] \in Table(CapOf(i)) /\ Good(C[i])

ChainIsGood == GoodChain(ctxs)

(* No context has outgrown its block, which nothing in the code prevents.  *)
AllFit(C) == \A i \in 1 .. Len(C) : 2 * C[i].count <= Extent(C[i].cap)

Fits == AllFit(ctxs)

(* The capacity of the i-th context. *)
LEMMA CapIs ==
  ASSUME NEW i
  PROVE  /\ CapOf(i) \in Nat \ {0} /\ HashMin <= CapOf(i) /\ Table(CapOf(i)) \subseteq AnyTable
         /\ i # 1 => CapOf(i) = ChildCap
         /\ CapOf(1) = GlobalCap
  BY ChildCapIs DEF CapOf, AnyTable

(* A step that leaves another good context in one place. *)
LEMMA ChainAgain ==
  ASSUME ChainIsGood, NEW j \in 1 .. Len(ctxs), NEW d \in Table(CapOf(j)), Good(d),
         ctxs' = [ctxs EXCEPT ![j] = d]
  PROVE  /\ ChainIsGood' /\ Len(ctxs') = Len(ctxs)
         /\ \A i \in 1 .. Len(ctxs) : ctxs'[i] = IF i = j THEN d ELSE ctxs[i]
  <1>1. ctxs \in Seq(AnyTable) /\ d \in AnyTable
    BY CapIs DEF ChainIsGood, GoodChain
  <1>2. /\ ctxs' \in Seq(AnyTable) /\ Len(ctxs') = Len(ctxs)
        /\ \A i \in 1 .. Len(ctxs) : ctxs'[i] = IF i = j THEN d ELSE ctxs[i]
    BY <1>1, ExceptSeq
  <1>3. ASSUME NEW i \in 1 .. Len(ctxs) PROVE ctxs'[i] \in Table(CapOf(i)) /\ Good(ctxs'[i])
    BY <1>2 DEF ChainIsGood, GoodChain
  <1>4. ChainIsGood'
    <2>1. Len(ctxs') \in 1 .. MaxChain
      BY <1>2 DEF ChainIsGood, GoodChain
    <2>2. \A i \in 1 .. Len(ctxs') : ctxs'[i] \in Table(CapOf(i)) /\ Good(ctxs'[i])
      BY <1>2, <1>3
    <2>3. ctxs' \in Seq(AnyTable)
      BY <1>2
    <2> QED
      BY <2>1, <2>2, <2>3 DEF ChainIsGood, GoodChain
  <1> QED
    BY <1>2, <1>4

(* There is always the global context. *)
LEMMA ChainLength ==
  ASSUME ChainIsGood
  PROVE  Len(ctxs) \in Nat /\ Len(ctxs) >= 1 /\ Len(ctxs) \in 1 .. Len(ctxs) /\ 1 \in 1 .. Len(ctxs)
  <1>1. Len(ctxs) \in 1 .. MaxChain /\ MaxChain \in Nat
    BY ContextsAssumption DEF ChainIsGood, GoodChain
  <1> QED
    BY <1>1

(* What r_set finds: the innermost context that binds the word. *)
LEMMA NearestIs ==
  ASSUME ChainIsGood, NEW B, B \subseteq 1 .. Len(ctxs), B # {}
  PROVE  LET i == CHOOSE j \in B : \A k \in B : k <= j IN i \in B /\ \A k \in B : k <= i
  <1>1. Len(ctxs) \in Nat
    BY ChainLength
  <1>2. B \subseteq 0 .. Len(ctxs)
    BY <1>1
  <1>3. \E x \in B : \A y \in B : y <= x
    BY <1>1, <1>2, GreatestOf
  <1> QED
    BY <1>3

(* A call *)
LEMMA EnterKeeps ==
  ASSUME ChainIsGood, NEW g \in Garbage, NEW ps \in ParamList, Enter(g, ps)
  PROVE  /\ ChainIsGood' /\ found' = NotFound /\ Len(ctxs') = Len(ctxs) + 1
         /\ \A i \in 1 .. Len(ctxs) : ctxs'[i] = ctxs[i]
         /\ ctxs'[Len(ctxs) + 1] \in Table(ChildCap) /\ Good(ctxs'[Len(ctxs) + 1])
         /\ ctxs'[Len(ctxs) + 1].count = Len(ps)
  <1> DEFINE d == Entered(g, ps)
             n == Len(ctxs)
  <1>1. d \in Table(ChildCap) /\ Good(d) /\ d.count = Len(ps)
    BY EnteredIsGood
  <1>2. n < MaxChain /\ ctxs' = Append(ctxs, d) /\ found' = NotFound
    BY DEF Enter, Entered
  <1> HIDE DEF d
  <1>3. ctxs \in Seq(AnyTable) /\ d \in AnyTable /\ n \in Nat /\ n >= 1
    BY <1>1, ChainLength DEF ChainIsGood, GoodChain, AnyTable
  <1>4. /\ ctxs' \in Seq(AnyTable) /\ Len(ctxs') = n + 1 /\ ctxs'[n + 1] = d
        /\ \A i \in 1 .. n : ctxs'[i] = ctxs[i]
    BY <1>2, <1>3, AppendProperties
  <1>5. ASSUME NEW i \in 1 .. n + 1 PROVE ctxs'[i] \in Table(CapOf(i)) /\ Good(ctxs'[i])
    <2>1. CASE i = n + 1
      <3>1. i # 1
        BY <1>3, <2>1
      <3>2. CapOf(i) = ChildCap
        BY <3>1 DEF CapOf
      <3> QED
        BY <1>1, <1>4, <2>1, <3>2
    <2>2. CASE i # n + 1
      <3>1. i \in 1 .. n
        BY <1>3, <2>2
      <3> QED
        BY <1>4, <3>1 DEF ChainIsGood, GoodChain
    <2> QED
      BY <2>1, <2>2
  <1>6. Len(ctxs') \in 1 .. MaxChain
    BY <1>2, <1>3, <1>4, ContextsAssumption
  <1>7. ChainIsGood'
    BY <1>4, <1>5, <1>6 DEF ChainIsGood, GoodChain
  <1> QED
    BY <1>1, <1>2, <1>4, <1>7

(* A return *)
LEMMA LeaveKeeps ==
  ASSUME ChainIsGood, Leave
  PROVE  /\ ChainIsGood' /\ found' = NotFound /\ Len(ctxs') = Len(ctxs) - 1
         /\ \A i \in 1 .. Len(ctxs) - 1 : ctxs'[i] = ctxs[i]
  <1> DEFINE n == Len(ctxs)
  <1>1. n > 1 /\ ctxs' = SubSeq(ctxs, 1, n - 1) /\ found' = NotFound
    BY DEF Leave
  <1>2. n \in Nat /\ ctxs \in Seq(AnyTable) /\ n \in 1 .. MaxChain
    BY ChainLength DEF ChainIsGood, GoodChain
  <1>3. \A i \in 1 .. n - 1 : ctxs[i] \in AnyTable
    BY <1>2, ElementOfSeq
  <1>4. /\ ctxs' \in Seq(AnyTable) /\ Len(ctxs') = IF 1 <= n - 1 THEN (n - 1) - 1 + 1 ELSE 0
        /\ \A i \in 1 .. (n - 1) - 1 + 1 : ctxs'[i] = ctxs[1 + i - 1]
    <2>1. 1 \in Int /\ n - 1 \in Int
      BY <1>2
    <2> QED
      BY <1>1, <1>3, <2>1, SubSeqProperties
  <1>5. Len(ctxs') = n - 1 /\ \A i \in 1 .. n - 1 : ctxs'[i] = ctxs[i]
    <2>1. (n - 1) - 1 + 1 = n - 1 /\ 1 <= n - 1 /\ \A i \in 1 .. n - 1 : 1 + i - 1 = i
      BY <1>1, <1>2
    <2> QED
      BY <1>4, <2>1
  <1>6. ChainIsGood'
    <2>1. Len(ctxs') \in 1 .. MaxChain
      BY <1>1, <1>2, <1>5, ContextsAssumption
    <2>2. \A i \in 1 .. Len(ctxs') : i \in 1 .. n
      BY <1>2, <1>5
    <2>3. \A i \in 1 .. Len(ctxs') : ctxs'[i] \in Table(CapOf(i)) /\ Good(ctxs'[i])
      BY <1>5, <2>2 DEF ChainIsGood, GoodChain
    <2> QED
      BY <1>4, <2>1, <2>3 DEF ChainIsGood, GoodChain
  <1> QED
    BY <1>1, <1>5, <1>6

(* A closure made *)
LEMMA PromoteKeeps ==
  ASSUME ChainIsGood, NEW g \in Garbage, Promote(g)
  PROVE  /\ ChainIsGood' /\ found' = NotFound /\ Len(ctxs') = Len(ctxs)
         /\ Top \in Table(ChildCap) /\ Good(Top)
         /\ \A i \in 1 .. Len(ctxs) : ctxs'[i] = IF i = Len(ctxs) THEN Promoted(Top, g) ELSE ctxs[i]
  <1> DEFINE n == Len(ctxs)
             d == Promoted(Top, g)
  <1>1. n \in Nat /\ n \in 1 .. n /\ n > 1 /\ found' = NotFound /\ ctxs' = [ctxs EXCEPT ![n] = d]
    BY ChainLength DEF Promote, Promoted
  <1>2. CapOf(n) = ChildCap
    BY <1>1 DEF CapOf
  <1>3. Top \in Table(ChildCap) /\ Good(Top)
    BY <1>1, <1>2 DEF ChainIsGood, GoodChain, Top
  <1>4. d \in Table(ChildCap) /\ Good(d)
    BY <1>3, PromoteFacts
  <1> HIDE DEF d
  <1>5. /\ ChainIsGood' /\ Len(ctxs') = n
        /\ \A i \in 1 .. n : ctxs'[i] = IF i = n THEN d ELSE ctxs[i]
    BY <1>1, <1>2, <1>4, ChainAgain
  <1> QED
    BY <1>1, <1>3, <1>5 DEF d

(* r_set: the nearest binding gets the value, or RV_CTX a binding.         *)
LEMMA SetKeeps ==
  ASSUME ChainIsGood, NEW w \in Word, NEW v \in Value, Set(w, v)
  PROVE  /\ ChainIsGood' /\ found' = NotFound /\ Len(ctxs') = Len(ctxs)
         /\ \E j \in 1 .. Len(ctxs) : \E d :
               /\ d \in Table(CapOf(j)) /\ Good(d)
               /\ \A i \in 1 .. Len(ctxs) : ctxs'[i] = IF i = j THEN d ELSE ctxs[i]
               /\ \/ Binding(w) = {} /\ j = Len(ctxs) /\ Extends(ctxs[j], w, v, d)
                  \/ /\ j \in Binding(w) /\ \A k \in Binding(w) : k <= j
                     /\ d = Put(ctxs[j], 2 * ScanSlot(ctxs[j], w) + 1, ValueCell(v))
  <1> DEFINE n == Len(ctxs)
             i == CHOOSE j \in Binding(w) : \A k \in Binding(w) : k <= j
  <1>1. n \in Nat /\ n \in 1 .. n /\ found' = NotFound
    BY ChainLength DEF Set
  <1>2. CASE Binding(w) = {}
    <2> DEFINE d == Bind(Top, w, v)
    <2>1. ctxs[n] \in Table(CapOf(n)) /\ Good(ctxs[n]) /\ Top = ctxs[n]
      BY <1>1 DEF ChainIsGood, GoodChain, Top
    <2>2. d \in Table(CapOf(n)) /\ Good(d) /\ Extends(ctxs[n], w, v, d)
      <3>1. CapOf(n) \in Nat \ {0} /\ HashMin <= CapOf(n)
        BY CapIs
      <3> QED
        BY <2>1, <3>1, BindFacts
    <2>3. ctxs' = [ctxs EXCEPT ![n] = d]
      BY <1>2 DEF Set
    <2> HIDE DEF d
    <2>4. /\ ChainIsGood' /\ Len(ctxs') = n
          /\ \A j \in 1 .. n : ctxs'[j] = IF j = n THEN d ELSE ctxs[j]
      BY <1>1, <2>2, <2>3, ChainAgain
    <2> QED
      BY <1>1, <1>2, <2>2, <2>4
  <1>3. CASE Binding(w) # {}
    <2>1. i \in Binding(w) /\ \A k \in Binding(w) : k <= i
      <3> DEFINE B == Binding(w)
      <3>1. B \subseteq 1 .. Len(ctxs) /\ B # {}
        BY <1>3 DEF Binding
      <3> HIDE DEF B
      <3>2. LET j == CHOOSE j \in B : \A k \in B : k <= j IN j \in B /\ \A k \in B : k <= j
        BY <3>1, NearestIs
      <3> QED
        BY <3>2 DEF B
    <2>2. i \in 1 .. n /\ Slots(ctxs[i], w) # {}
      BY <2>1 DEF Binding
    <2> DEFINE c == ctxs[i]
               d == Put(c, 2 * ScanSlot(c, w) + 1, ValueCell(v))
    <2>3. ctxs' = [ctxs EXCEPT ![i] = d]
      BY <1>3 DEF Set
    <2> HIDE DEF i
    <2>4. c \in Table(CapOf(i)) /\ Good(c) /\ CapOf(i) \in Nat \ {0}
      BY <2>2, CapIs DEF ChainIsGood, GoodChain
    <2>5. ScanSlot(c, w) \in 0 .. c.count - 1
      BY <2>2, <2>4, FindAgrees
    <2>6. d \in Table(CapOf(i)) /\ Good(d)
      <3> HIDE DEF c
      <3> QED
        BY <2>4, <2>5, SetFacts
    <2> HIDE DEF d
    <2>7. /\ ChainIsGood' /\ Len(ctxs') = n
          /\ \A j \in 1 .. n : ctxs'[j] = IF j = i THEN d ELSE ctxs[j]
      BY <2>2, <2>3, <2>6, ChainAgain
    <2> QED
      BY <1>1, <2>1, <2>2, <2>6, <2>7 DEF d
  <1> QED
    BY <1>2, <1>3

-----------------------------------------------------------------------------
(* What the chain promises *)

(* Every context of a chain is a good one: its pairs are whole, and while  *)
(* its index is consulted, it is an index of them.                         *)
THEOREM Invariance == Spec => []ChainIsGood
  <1>1. Init => ChainIsGood
    <2> SUFFICES ASSUME NEW ws \in Loaded, ctxs = <<Preloaded(ws)>> PROVE ChainIsGood
      BY DEF Init
    <2> DEFINE c == Preloaded(ws)
    <2>1. c \in Table(GlobalCap) /\ Good(c)
      BY PreloadedIsGood
    <2> HIDE DEF c
    <2>2. ctxs \in Seq(AnyTable) /\ Len(ctxs) = 1 /\ ctxs[1] = c
      BY <2>1 DEF AnyTable, c
    <2>3. \A i \in 1 .. 1 : i = 1
      OBVIOUS
    <2>4. CapOf(1) = GlobalCap /\ 1 \in 1 .. MaxChain
      BY ContextsAssumption DEF CapOf
    <2> QED
      BY <2>1, <2>2, <2>3, <2>4 DEF ChainIsGood, GoodChain
  <1>2. ChainIsGood /\ [Next]_vars => ChainIsGood'
    <2> SUFFICES ASSUME ChainIsGood, [Next]_vars PROVE ChainIsGood'
      OBVIOUS
    <2>1. ASSUME NEW g \in Garbage, Promote(g) PROVE ChainIsGood'
      BY <2>1, PromoteKeeps
    <2>2. ASSUME NEW g \in Garbage, NEW ps \in ParamList, Enter(g, ps) PROVE ChainIsGood'
      BY <2>2, EnterKeeps
    <2>3. CASE Leave
      BY <2>3, LeaveKeeps
    <2>4. ASSUME NEW w \in Word, NEW v \in Value, Set(w, v) PROVE ChainIsGood'
      BY <2>4, SetKeeps
    <2>5. ASSUME ctxs' = ctxs PROVE ChainIsGood'
      BY <2>5 DEF ChainIsGood, GoodChain
    <2>6. ASSUME NEW w \in Word, Lookup(w) PROVE ChainIsGood'
      BY <2>5, <2>6 DEF Lookup
    <2>7. CASE UNCHANGED vars
      BY <2>5, <2>7 DEF vars
    <2> QED
      BY <2>1, <2>2, <2>3, <2>4, <2>6, <2>7 DEF Next
  <1> QED
    BY <1>1, <1>2, PTL DEF Spec

(* "The ordered (word,value) pairs remain authoritative": r_lookup gets by *)
(* the index the slot the ordered scan of r_set would find.                *)
THEOREM IndexNeverDisagrees == Spec => []IndexAgreesWithScan
  <1>1. ChainIsGood => IndexAgreesWithScan
    <2> SUFFICES ASSUME ChainIsGood, NEW i \in 1 .. Len(ctxs), NEW w \in Word
                 PROVE  Find(ctxs[i], w) = ScanSlot(ctxs[i], w)
      BY DEF IndexAgreesWithScan
    <2>1. ctxs[i] \in Table(CapOf(i)) /\ Good(ctxs[i]) /\ CapOf(i) \in Nat \ {0}
      BY CapIs DEF ChainIsGood, GoodChain
    <2> QED
      BY <2>1, FindAgrees
  <1> QED
    BY <1>1, Invariance, PTL

(* No index entry is ever written over a pair. *)
THEOREM PairsStayWhole == Spec => []PairsIntact
  <1>1. ChainIsGood => PairsIntact
    <2> SUFFICES ASSUME ChainIsGood, NEW i \in 1 .. Len(ctxs), NEW s \in 0 .. ctxs[i].count - 1,
                        2 * s + 1 < Extent(ctxs[i].cap)
                 PROVE  ctxs[i].cells[2 * s].k = "word" /\ ctxs[i].cells[2 * s + 1].k = "value"
      BY DEF PairsIntact
    <2>1. ctxs[i] \in Table(CapOf(i)) /\ HasPairs(ctxs[i]) /\ CapOf(i) \in Nat \ {0}
      BY CapIs DEF ChainIsGood, GoodChain, Good
    <2>2. ctxs[i].cap = CapOf(i)
      BY <2>1, TableFacts
    <2> QED
      BY <2>1, <2>2, PairWords
  <1> QED
    BY <1>1, Invariance, PTL

(* A context that fits its block, one pair at a time. *)
LEMMA FitsSlot ==
  ASSUME NEW cap \in Nat \ {0}, NEW c \in Table(cap), HasPairs(c), 2 * c.count <= Extent(cap),
         NEW s \in 0 .. c.count - 1
  PROVE  /\ 2 * s + 1 < Extent(cap) /\ s \in Nat
         /\ WordAt(c, s) \in Word /\ ValueAt(c, s) \in Value
  <1>1. 2 * s + 1 < Extent(cap) /\ s \in Nat
    BY TableFacts
  <1> QED
    BY <1>1, PairWords

(* What a lookup leaves is a value or nothing. *)
LEMMA LookupIs ==
  ASSUME ChainIsGood, NEW w \in Word, Lookup(w)
  PROVE  /\ Binding(w) = {} => found' = NotFound
         /\ Binding(w) # {} =>
               LET i == CHOOSE j \in Binding(w) : \A k \in Binding(w) : k <= j
               IN  found' = ValueAt(ctxs[i], ScanSlot(ctxs[i], w))
  <1> DEFINE hits == {i \in 1 .. Len(ctxs) : Find(ctxs[i], w) # NotFound}
  <1>1. ASSUME NEW i \in 1 .. Len(ctxs)
        PROVE  /\ Find(ctxs[i], w) = ScanSlot(ctxs[i], w)
               /\ ScanSlot(ctxs[i], w) = NotFound <=> Slots(ctxs[i], w) = {}
    <2>1. ctxs[i] \in Table(CapOf(i)) /\ Good(ctxs[i]) /\ CapOf(i) \in Nat \ {0}
      BY CapIs DEF ChainIsGood, GoodChain
    <2> DEFINE c == ctxs[i]
    <2>2. c \in Table(CapOf(i)) /\ Good(c)
      BY <2>1
    <2> HIDE DEF c
    <2>3. /\ Find(c, w) = ScanSlot(c, w)
          /\ IF Slots(c, w) = {} THEN ScanSlot(c, w) = NotFound
             ELSE ScanSlot(c, w) \in 0 .. c.count - 1
      BY <2>1, <2>2, FindAgrees
    <2>4. c.count \in Nat
      BY <2>1, <2>2, TableFacts
    <2>5. NotFound \notin 0 .. c.count - 1
      BY <2>4 DEF NotFound
    <2> QED
      BY <2>3, <2>5 DEF c
  <1>2. hits = Binding(w)
    BY <1>1 DEF Binding
  <1>3. /\ hits = {} => found' = NotFound
        /\ hits # {} => LET i == CHOOSE j \in hits : \A k \in hits : k <= j
                        IN  found' = ValueAt(ctxs[i], Find(ctxs[i], w))
    BY DEF Lookup
  <1> HIDE DEF hits
  <1>4. CASE Binding(w) = {}
    BY <1>2, <1>3, <1>4
  <1>5. CASE Binding(w) # {}
    <2> DEFINE B == Binding(w)
               i == CHOOSE j \in B : \A k \in B : k <= j
    <2>1. found' = ValueAt(ctxs[i], Find(ctxs[i], w))
      BY <1>2, <1>3, <1>5
    <2>2. i \in B
      <3>1. B \subseteq 1 .. Len(ctxs)
        BY DEF Binding
      <3>2. B # {}
        BY <1>5
      <3> HIDE DEF B
      <3> QED
        BY <3>1, <3>2, NearestIs
    <2>3. i \in 1 .. Len(ctxs)
      BY <2>2 DEF Binding
    <2> HIDE DEF i
    <2>4. found' = ValueAt(ctxs[i], ScanSlot(ctxs[i], w))
      BY <1>1, <2>1, <2>3
    <2> QED
      BY <1>5, <2>4 DEF i
  <1> QED
    BY <1>4, <1>5

(* The same, of contexts that fit. *)
LEMMA LookupTyped ==
  ASSUME ChainIsGood, Fits, NEW w \in Word, Lookup(w)
  PROVE  found' \in Value \cup {NotFound}
  <1>1. CASE Binding(w) = {}
    BY <1>1, LookupIs
  <1>2. CASE Binding(w) # {}
    <2> DEFINE B == Binding(w)
               i == CHOOSE j \in B : \A k \in B : k <= j
               c == ctxs[i]
    <2>1. found' = ValueAt(c, ScanSlot(c, w))
      BY <1>2, LookupIs
    <2>2. i \in B
      <3>1. B \subseteq 1 .. Len(ctxs) /\ B # {}
        BY <1>2 DEF Binding
      <3> HIDE DEF B
      <3> QED
        BY <3>1, NearestIs
    <2>3. i \in 1 .. Len(ctxs) /\ Slots(c, w) # {}
      BY <2>2 DEF Binding
    <2> HIDE DEF i
    <2>4. c \in Table(CapOf(i)) /\ Good(c) /\ CapOf(i) \in Nat \ {0} /\ 2 * c.count <= Extent(c.cap)
      BY <2>3, CapIs DEF ChainIsGood, GoodChain, Fits, AllFit
    <2> HIDE DEF c
    <2>5. ScanSlot(c, w) \in 0 .. c.count - 1 /\ c.cap = CapOf(i) /\ HasPairs(c)
      BY <2>3, <2>4, FindAgrees, TableFacts DEF Good
    <2>6. ValueAt(c, ScanSlot(c, w)) \in Value
      BY <2>4, <2>5, FitsSlot
    <2> QED
      BY <2>1, <2>6
  <1> QED
    BY <1>1, <1>2

(* Contexts are tables of their capacity, and a lookup gives a value.      *)
THEOREM TypeCorrectness == Spec /\ []Fits => []TypeOK
  <1> DEFINE Found == found \in Value \cup {NotFound}
  <1>1. Init => Found
    BY DEF Init
  <1>2. ChainIsGood /\ Fits /\ Found /\ [Next]_vars => Found'
    <2> SUFFICES ASSUME ChainIsGood, Fits, Found, [Next]_vars PROVE Found'
      OBVIOUS
    <2>1. ASSUME NEW w \in Word, Lookup(w) PROVE Found'
      BY <2>1, LookupTyped
    <2>2. CASE UNCHANGED vars
      BY <2>2 DEF vars
    <2>3. ASSUME \/ Leave \/ \E g \in Garbage : Promote(g) \/ \E ps \in ParamList : Enter(g, ps)
                 \/ \E w \in Word, v \in Value : Set(w, v)
          PROVE  Found'
      BY <2>3 DEF Leave, Promote, Enter, Set
    <2> QED
      BY <2>1, <2>2, <2>3 DEF Next
  <1>3. ChainIsGood /\ Found => TypeOK
    <2> SUFFICES ASSUME ChainIsGood, Found PROVE TypeOK
      OBVIOUS
    <2>1. ASSUME NEW i \in 1 .. Len(ctxs)
          PROVE  /\ ctxs[i].managed \in BOOLEAN /\ ctxs[i].cap = CapOf(i)
                 /\ ctxs[i].count \in Nat /\ ctxs[i].cells \in Cells(CapOf(i))
      BY DEF ChainIsGood, GoodChain, Table
    <2> QED
      BY <2>1 DEF TypeOK, ChainIsGood, GoodChain, CapOf
  <1> HIDE DEF Found
  <1> QED
    BY <1>1, <1>2, <1>3, Invariance, PTL DEF Spec

(* Pairs and index of every context are whole and agree, as long as no     *)
(* context outgrows its block.                                             *)
THEOREM TablesAreSound == Spec /\ []Fits => []TableIsSound
  <1>1. TypeOK /\ IndexAgreesWithScan /\ PairsIntact => TableIsSound
    BY DEF TableIsSound
  <1> QED
    BY <1>1, TypeCorrectness, IndexNeverDisagrees, PairsStayWhole, PTL

-----------------------------------------------------------------------------
(* The refinement *)

Env == [Word -> Value \cup {NotFound}]
EnvsOf(C) == [i \in 1 .. Len(C) |-> EnvOf(C[i])]

(* The environment of a context that fits. *)
LEMMA EnvIs ==
  ASSUME NEW cap \in Nat \ {0}, NEW c \in Table(cap), Good(c), 2 * c.count <= Extent(cap)
  PROVE  /\ EnvOf(c) \in Env
         /\ \A w \in Word : /\ EnvOf(c)[w] = NotFound <=> Slots(c, w) = {}
                            /\ Slots(c, w) # {} => EnvOf(c)[w] = ValueAt(c, ScanSlot(c, w))
  <1>1. NotFound \notin Value
    BY ContextsAssumption DEF NotFound
  <1>2. ASSUME NEW w \in Word, Slots(c, w) # {} PROVE ValueAt(c, ScanSlot(c, w)) \in Value
    <2>1. ScanSlot(c, w) \in 0 .. c.count - 1 /\ HasPairs(c)
      BY <1>2, FindAgrees DEF Good
    <2> QED
      BY <2>1, FitsSlot
  <1>3. \A w \in Word : EnvOf(c)[w] = IF Slots(c, w) = {} THEN NotFound ELSE ValueAt(c, ScanSlot(c, w))
    BY DEF EnvOf
  <1>4. EnvOf(c) \in Env
    BY <1>2 DEF EnvOf, Env
  <1> QED
    BY <1>1, <1>2, <1>3, <1>4

(* A pair more binds its word. *)
LEMMA BindEnv ==
  ASSUME NEW cap \in Nat \ {0}, NEW c \in Table(cap), Good(c), NEW w \in Word, NEW v \in Value,
         Slots(c, w) = {}, NEW d \in Table(cap), Good(d), Extends(c, w, v, d), 2 * d.count <= Extent(cap)
  PROVE  EnvOf(d) = [EnvOf(c) EXCEPT ![w] = v]
  <1> DEFINE n == c.count
  <1>1. n \in Nat /\ c.cap = cap /\ d.cap = cap /\ d.count = n + 1 /\ 2 * n + 1 < Extent(cap) /\ w \in Nat /\ v \in Nat
    <2>1. n \in Nat /\ c.cap = cap /\ d.cap = cap /\ d.count = n + 1 /\ Extent(cap) \in Nat
      BY TableFacts DEF Extends
    <2> QED
      BY <2>1, ContextsAssumption
  <1>2. WordAt(d, n) = w /\ ValueAt(d, n) = v
    <2>1. d.cells[2 * n] = WordCell(w) /\ d.cells[2 * n + 1] = ValueCell(v)
      BY <1>1 DEF Extends
    <2> QED
      BY <1>1, <2>1, CellFacts DEF WordAt, ValueAt
  <1>3. \A s \in 0 .. n - 1 : WordAt(d, s) = WordAt(c, s) /\ ValueAt(d, s) = ValueAt(c, s)
    <2> SUFFICES ASSUME NEW s \in 0 .. n - 1 PROVE WordAt(d, s) = WordAt(c, s) /\ ValueAt(d, s) = ValueAt(c, s)
      OBVIOUS
    <2>1. 2 * s + 1 < Extent(cap)
      BY <1>1, TableFacts
    <2>2. d.cells[2 * s] = c.cells[2 * s] /\ d.cells[2 * s + 1] = c.cells[2 * s + 1]
      BY <1>1, <2>1 DEF Extends, SamePairs
    <2> QED
      BY <2>2 DEF WordAt, ValueAt
  <1>4. \A s : s \in 0 .. d.count - 1 <=> s \in 0 .. n - 1 \/ s = n
    BY <1>1
  <1>5. ASSUME NEW u \in Word
        PROVE  EnvOf(d)[u] = IF u = w THEN v ELSE EnvOf(c)[u]
    <2>1. EnvOf(d)[u] = IF Slots(d, u) = {} THEN NotFound ELSE ValueAt(d, ScanSlot(d, u))
      BY DEF EnvOf
    <2>2. EnvOf(c)[u] = IF Slots(c, u) = {} THEN NotFound ELSE ValueAt(c, ScanSlot(c, u))
      BY DEF EnvOf
    <2>3. CASE u = w
      <3>1. n \in Slots(d, u)
        BY <1>2, <1>4, <2>3 DEF Slots
      <3>2. \A s \in Slots(d, u) : s = n
        <4> SUFFICES ASSUME NEW s \in 0 .. n - 1, WordAt(d, s) = w PROVE FALSE
          BY <1>4, <2>3 DEF Slots
        <4>1. s \in Slots(c, w)
          BY <1>3 DEF Slots
        <4> QED
          BY <4>1
      <3>3. Slots(d, u) # {} /\ ScanSlot(d, u) = n
        <4>1. ScanSlot(d, u) = First(Slots(d, u))
          BY <3>1 DEF ScanSlot
        <4>2. Slots(d, u) \subseteq Nat
          BY <1>1, <3>2
        <4> DEFINE S == Slots(d, u)
        <4>3. S \subseteq Nat /\ S # {} /\ \A s \in S : s = n
          BY <3>1, <3>2, <4>2
        <4> HIDE DEF S
        <4>4. First(S) = n
          BY <4>3, FirstIs
        <4> QED
          BY <3>1, <4>1, <4>4 DEF S
      <3> QED
        BY <1>2, <2>1, <2>3, <3>3
    <2>4. CASE u # w
      <3>1. Slots(d, u) = Slots(c, u)
        BY <1>2, <1>3, <1>4, <2>4 DEF Slots
      <3>2. ScanSlot(d, u) = ScanSlot(c, u)
        BY <3>1 DEF ScanSlot
      <3>3. Slots(c, u) # {} => ScanSlot(c, u) \in 0 .. n - 1
        BY FindAgrees
      <3> QED
        BY <1>3, <2>1, <2>2, <2>4, <3>1, <3>2, <3>3
    <2> QED
      BY <2>3, <2>4
  <1>6. EnvOf(c) = [u \in Word |-> EnvOf(c)[u]] /\ EnvOf(d) = [u \in Word |-> EnvOf(d)[u]]
    BY DEF EnvOf
  <1> DEFINE e == EnvOf(c)
             f == EnvOf(d)
  <1> HIDE DEF e, f
  <1>7. e = [u \in Word |-> e[u]] /\ f = [u \in Word |-> f[u]] /\ \A u \in Word : f[u] = IF u = w THEN v ELSE e[u]
    BY <1>5, <1>6 DEF e, f
  <1>8. f = [e EXCEPT ![w] = v]
    BY <1>7
  <1> QED
    BY <1>8 DEF e, f

(* Pairs with the same words, and the same values but of w, bind the same  *)
(* but for w.                                                              *)
LEMMA SameEnv ==
  ASSUME NEW cap \in Nat \ {0}, NEW c \in Table(cap), Good(c), NEW d, d.count = c.count,
         \A s \in 0 .. c.count - 1 : WordAt(d, s) = WordAt(c, s),
         NEW u \in Word
  PROVE  /\ Slots(d, u) = Slots(c, u) /\ ScanSlot(d, u) = ScanSlot(c, u)
         /\ EnvOf(d)[u] = IF Slots(c, u) = {} THEN NotFound ELSE ValueAt(d, ScanSlot(c, u))
         /\ EnvOf(c)[u] = IF Slots(c, u) = {} THEN NotFound ELSE ValueAt(c, ScanSlot(c, u))
         /\ Slots(c, u) # {} => ScanSlot(c, u) \in 0 .. c.count - 1 /\ WordAt(c, ScanSlot(c, u)) = u
  <1>1. Slots(d, u) = Slots(c, u)
    BY DEF Slots
  <1>2. ScanSlot(d, u) = ScanSlot(c, u)
    BY <1>1 DEF ScanSlot
  <1>3. Slots(c, u) # {} => ScanSlot(c, u) \in 0 .. c.count - 1 /\ WordAt(c, ScanSlot(c, u)) = u
    BY FindAgrees
  <1> QED
    BY <1>1, <1>2, <1>3 DEF EnvOf

(* A value set is the value of its word. *)
LEMMA SetEnv ==
  ASSUME NEW cap \in Nat \ {0}, NEW c \in Table(cap), Good(c), NEW w \in Word, NEW v \in Value,
         Slots(c, w) # {}, 2 * c.count <= Extent(cap),
         NEW d, d = Put(c, 2 * ScanSlot(c, w) + 1, ValueCell(v))
  PROVE  EnvOf(d) = [EnvOf(c) EXCEPT ![w] = v]
  <1> DEFINE t == ScanSlot(c, w)
  <1>1. t \in 0 .. c.count - 1 /\ WordAt(c, t) = w
    BY FindAgrees
  <1>2. /\ Alike(c, d)
        /\ \A r \in 0 .. c.count - 1 : 2 * r + 1 < Extent(cap) =>
              /\ WordAt(d, r) = WordAt(c, r)
              /\ ValueAt(d, r) = IF r = t THEN v ELSE ValueAt(c, r)
    <2> HIDE DEF t
    <2>1. d = Put(c, 2 * t + 1, ValueCell(v))
      BY DEF t
    <2> QED
      BY <1>1, <2>1, SetFacts
  <1> HIDE DEF t
  <1>3. d.count = c.count /\ \A r \in 0 .. c.count - 1 : 2 * r + 1 < Extent(cap)
    <2>1. d.count = c.count
      BY <1>2 DEF Alike
    <2> QED
      BY <2>1, TableFacts
  <1>4. \A r \in 0 .. c.count - 1 : /\ WordAt(d, r) = WordAt(c, r)
                                    /\ ValueAt(d, r) = IF r = t THEN v ELSE ValueAt(c, r)
    BY <1>2, <1>3
  <1>5. ASSUME NEW u \in Word PROVE EnvOf(d)[u] = IF u = w THEN v ELSE EnvOf(c)[u]
    <2>1. /\ EnvOf(d)[u] = IF Slots(c, u) = {} THEN NotFound ELSE ValueAt(d, ScanSlot(c, u))
          /\ EnvOf(c)[u] = IF Slots(c, u) = {} THEN NotFound ELSE ValueAt(c, ScanSlot(c, u))
          /\ Slots(c, u) # {} => ScanSlot(c, u) \in 0 .. c.count - 1 /\ WordAt(c, ScanSlot(c, u)) = u
      BY <1>3, <1>4, SameEnv
    <2>2. CASE u = w
      BY <1>1, <1>4, <2>1, <2>2 DEF t
    <2>3. CASE u # w
      BY <1>1, <1>4, <2>1, <2>3
    <2> QED
      BY <2>2, <2>3
  <1>6. EnvOf(c) = [u \in Word |-> EnvOf(c)[u]] /\ EnvOf(d) = [u \in Word |-> EnvOf(d)[u]]
    BY DEF EnvOf
  <1> DEFINE e == EnvOf(c)
             f == EnvOf(d)
  <1> HIDE DEF e, f
  <1>7. e = [u \in Word |-> e[u]] /\ f = [u \in Word |-> f[u]] /\ \A u \in Word : f[u] = IF u = w THEN v ELSE e[u]
    BY <1>5, <1>6 DEF e, f
  <1>8. f = [e EXCEPT ![w] = v]
    BY <1>7
  <1> QED
    BY <1>8 DEF e, f

(* A promoted context is the environment it was. *)
LEMMA PromoteEnv ==
  ASSUME NEW c \in Table(ChildCap), Good(c), NEW g \in Garbage, 2 * c.count <= Extent(ChildCap)
  PROVE  EnvOf(Promoted(c, g)) = EnvOf(c)
  <1> DEFINE d == Promoted(c, g)
  <1>1. /\ d.count = c.count
        /\ \A s \in 0 .. c.count - 1 : 2 * s + 1 < Extent(ChildCap) =>
              WordAt(d, s) = WordAt(c, s) /\ ValueAt(d, s) = ValueAt(c, s)
    BY PromoteFacts
  <1>2. ChildCap \in Nat \ {0}
    BY ChildCapIs
  <1>3. \A s \in 0 .. c.count - 1 : 2 * s + 1 < Extent(ChildCap)
    BY <1>2, TableFacts
  <1> HIDE DEF d
  <1>4. \A s \in 0 .. c.count - 1 : WordAt(d, s) = WordAt(c, s) /\ ValueAt(d, s) = ValueAt(c, s)
    BY <1>1, <1>3
  <1>5. ASSUME NEW u \in Word PROVE EnvOf(d)[u] = EnvOf(c)[u]
    <2>1. /\ EnvOf(d)[u] = IF Slots(c, u) = {} THEN NotFound ELSE ValueAt(d, ScanSlot(c, u))
          /\ EnvOf(c)[u] = IF Slots(c, u) = {} THEN NotFound ELSE ValueAt(c, ScanSlot(c, u))
          /\ Slots(c, u) # {} => ScanSlot(c, u) \in 0 .. c.count - 1
      BY <1>1, <1>2, <1>4, SameEnv
    <2> QED
      BY <1>4, <2>1
  <1>6. EnvOf(c) = [u \in Word |-> EnvOf(c)[u]] /\ EnvOf(d) = [u \in Word |-> EnvOf(d)[u]]
    BY DEF EnvOf
  <1> QED
    BY <1>5, <1>6 DEF d

(* The contexts of a chain that fits. *)
LEMMA ChainEnvs ==
  ASSUME NEW C, GoodChain(C), AllFit(C)
  PROVE  /\ EnvsOf(C) \in Seq(Env) /\ Len(EnvsOf(C)) = Len(C)
         /\ \A i \in 1 .. Len(C) :
               /\ EnvsOf(C)[i] = EnvOf(C[i]) /\ EnvsOf(C)[i] \in Env
               /\ CapOf(i) \in Nat \ {0} /\ C[i] \in Table(CapOf(i)) /\ Good(C[i])
               /\ 2 * C[i].count <= Extent(CapOf(i))
               /\ \A w \in Word : EnvsOf(C)[i][w] = NotFound <=> Slots(C[i], w) = {}
  <1>1. ASSUME NEW i \in 1 .. Len(C)
        PROVE  /\ CapOf(i) \in Nat \ {0} /\ C[i] \in Table(CapOf(i)) /\ Good(C[i])
               /\ 2 * C[i].count <= Extent(CapOf(i))
    <2>1. CapOf(i) \in Nat \ {0} /\ C[i] \in Table(CapOf(i)) /\ Good(C[i])
      BY CapIs DEF GoodChain
    <2>2. C[i].cap = CapOf(i)
      BY <2>1, TableFacts
    <2> QED
      BY <2>1, <2>2 DEF AllFit
  <1>2. ASSUME NEW i \in 1 .. Len(C)
        PROVE  EnvOf(C[i]) \in Env /\ \A w \in Word : EnvOf(C[i])[w] = NotFound <=> Slots(C[i], w) = {}
    <2> DEFINE c == C[i]
    <2>1. CapOf(i) \in Nat \ {0} /\ c \in Table(CapOf(i)) /\ Good(c) /\ 2 * c.count <= Extent(CapOf(i))
      BY <1>1
    <2> HIDE DEF c
    <2>2. EnvOf(c) \in Env /\ \A w \in Word : EnvOf(c)[w] = NotFound <=> Slots(c, w) = {}
      BY <2>1, EnvIs
    <2> QED
      BY <2>2 DEF c
  <1>3. Len(C) \in Nat
    BY ContextsAssumption DEF GoodChain
  <1>4. \A i \in 1 .. Len(C) : EnvsOf(C)[i] = EnvOf(C[i])
    BY DEF EnvsOf
  <1>5. EnvsOf(C) \in [1 .. Len(C) -> Env]
    BY <1>2 DEF EnvsOf
  <1>6. EnvsOf(C) \in Seq(Env) /\ Len(EnvsOf(C)) = Len(C)
    BY <1>3, <1>5
  <1> QED
    BY <1>1, <1>2, <1>4, <1>6

(* The chain of environments before and after a step, for the lemmas on    *)
(* the abstract actions.                                                   *)
LEMMA AbsParts ==
  /\ \A w \in Word : Abs!Binding(w) = {i \in 1 .. Len(EnvsOf(ctxs)) : EnvsOf(ctxs)[i][w] # NotFound}
  /\ Abs!Env = Env
  BY DEF Abs!Binding, EnvsOf, Abs!Env, Env

(* The words bound in the chain are those bound in its environments. *)
LEMMA SameBinding ==
  ASSUME ChainIsGood, Fits, NEW w \in Word
  PROVE  Abs!Binding(w) = Binding(w) /\ Binding(w) \subseteq 1 .. Len(ctxs)
  <1>1. /\ Len(EnvsOf(ctxs)) = Len(ctxs)
        /\ \A i \in 1 .. Len(ctxs) : EnvsOf(ctxs)[i][w] = NotFound <=> Slots(ctxs[i], w) = {}
    BY ChainEnvs DEF ChainIsGood, Fits
  <1>2. Abs!Binding(w) = {i \in 1 .. Len(EnvsOf(ctxs)) : EnvsOf(ctxs)[i][w] # NotFound}
    BY AbsParts
  <1> QED
    BY <1>1, <1>2 DEF Binding

(* A call puts an environment before the chain. *)
LEMMA EnterRefines ==
  ASSUME ChainIsGood, Fits, Fits', NEW g \in Garbage, NEW ps \in ParamList, Enter(g, ps)
  PROVE  Abs!Enter
  <1> DEFINE n == Len(ctxs)
  <1>1. /\ ChainIsGood' /\ found' = NotFound /\ Len(ctxs') = n + 1
        /\ \A i \in 1 .. n : ctxs'[i] = ctxs[i]
    BY EnterKeeps
  <1> DEFINE e == EnvsOf(ctxs)
             f == EnvsOf(ctxs')
  <1>2. e \in Seq(Env) /\ Len(e) = n /\ \A i \in 1 .. n : e[i] = EnvOf(ctxs[i]) /\ e[i] \in Env
    BY ChainEnvs DEF ChainIsGood, Fits
  <1>3. f \in Seq(Env) /\ Len(f) = n + 1 /\ \A i \in 1 .. n + 1 : f[i] = EnvOf(ctxs'[i]) /\ f[i] \in Env
    BY <1>1, ChainEnvs DEF ChainIsGood, Fits
  <1>4. n \in Nat
    BY ChainLength
  <1> HIDE DEF e, f, n
  <1>5. \A i \in 1 .. n : f[i] = e[i] /\ i \in 1 .. n + 1
    BY <1>1, <1>2, <1>3, <1>4
  <1>6. f[n + 1] \in Env
    BY <1>3, <1>4
  <1>7. SubSeq(f, 1, n) = e
    <2>1. /\ SubSeq(f, 1, n) \in Seq(Env) /\ Len(SubSeq(f, 1, n)) = IF 1 <= n THEN n - 1 + 1 ELSE 0
          /\ \A i \in 1 .. n - 1 + 1 : SubSeq(f, 1, n)[i] = f[1 + i - 1]
      <3>1. 1 \in Int /\ n \in Int /\ \A i \in 1 .. n : f[i] \in Env
        BY <1>3, <1>4, <1>5
      <3> QED
        BY <3>1, SubSeqProperties
    <2>2. Len(SubSeq(f, 1, n)) = n /\ \A i \in 1 .. n : SubSeq(f, 1, n)[i] = f[i]
      <3>1. n - 1 + 1 = n /\ (~ (1 <= n) => n = 0) /\ \A i \in 1 .. n : 1 + i - 1 = i
        BY <1>4
      <3> QED
        BY <2>1, <3>1
    <2> QED
      BY <1>2, <1>5, <2>1, <2>2, SeqEqual
  <1>8. Len(f) = Len(e) + 1 /\ f[Len(e) + 1] \in Env /\ SubSeq(f, 1, Len(e)) = e
    BY <1>2, <1>3, <1>6, <1>7
  <1> QED
    BY <1>1, <1>8, AbsParts DEF Abs!Enter, EnvsOf, e, f

(* A return takes the innermost off. *)
LEMMA LeaveRefines ==
  ASSUME ChainIsGood, Fits, Fits', Leave
  PROVE  Abs!Leave
  <1> DEFINE n == Len(ctxs)
  <1>1. /\ ChainIsGood' /\ found' = NotFound /\ Len(ctxs') = n - 1
        /\ \A i \in 1 .. n - 1 : ctxs'[i] = ctxs[i]
    BY LeaveKeeps
  <1> DEFINE e == EnvsOf(ctxs)
             f == EnvsOf(ctxs')
  <1>2. e \in Seq(Env) /\ Len(e) = n /\ \A i \in 1 .. n : e[i] = EnvOf(ctxs[i]) /\ e[i] \in Env
    BY ChainEnvs DEF ChainIsGood, Fits
  <1>3. f \in Seq(Env) /\ Len(f) = n - 1 /\ \A i \in 1 .. n - 1 : f[i] = EnvOf(ctxs'[i])
    BY <1>1, ChainEnvs DEF ChainIsGood, Fits
  <1>4. n \in Nat /\ n > 1
    BY ChainLength DEF Leave
  <1> HIDE DEF e, f, n
  <1>5. \A i \in 1 .. n - 1 : f[i] = e[i] /\ e[i] \in Env
    <2>1. \A i \in 1 .. n - 1 : i \in 1 .. n
      BY <1>4
    <2> QED
      BY <1>1, <1>2, <1>3, <2>1
  <1>6. f = SubSeq(e, 1, n - 1)
    <2>1. /\ SubSeq(e, 1, n - 1) \in Seq(Env) /\ Len(SubSeq(e, 1, n - 1)) = IF 1 <= n - 1 THEN (n - 1) - 1 + 1 ELSE 0
          /\ \A i \in 1 .. (n - 1) - 1 + 1 : SubSeq(e, 1, n - 1)[i] = e[1 + i - 1]
      <3>1. 1 \in Int /\ n - 1 \in Int
        BY <1>4
      <3> QED
        BY <1>5, <3>1, SubSeqProperties
    <2>2. Len(SubSeq(e, 1, n - 1)) = n - 1 /\ \A i \in 1 .. n - 1 : SubSeq(e, 1, n - 1)[i] = e[i]
      <3>1. (n - 1) - 1 + 1 = n - 1 /\ 1 <= n - 1 /\ \A i \in 1 .. n - 1 : 1 + i - 1 = i
        BY <1>4
      <3> QED
        BY <2>1, <3>1
    <2> QED
      BY <1>3, <1>5, <2>1, <2>2, SeqEqual
  <1>7. Len(e) > 1 /\ f = SubSeq(e, 1, Len(e) - 1)
    BY <1>2, <1>4, <1>6
  <1> QED
    BY <1>1, <1>7 DEF Abs!Leave, EnvsOf, e, f

(* A promotion is none of the chain's business. *)
LEMMA PromoteRefines ==
  ASSUME ChainIsGood, Fits, Fits', NEW g \in Garbage, Promote(g)
  PROVE  Abs!Forget
  <1> DEFINE n == Len(ctxs)
             e == EnvsOf(ctxs)
             f == EnvsOf(ctxs')
  <1>1. /\ ChainIsGood' /\ found' = NotFound /\ Len(ctxs') = n /\ Top \in Table(ChildCap) /\ Good(Top)
        /\ \A i \in 1 .. n : ctxs'[i] = IF i = n THEN Promoted(Top, g) ELSE ctxs[i]
    BY PromoteKeeps
  <1>2. n \in 1 .. n
    BY ChainLength
  <1>3. 2 * Top.count <= Extent(ChildCap)
    <2>1. Top = ctxs[n] /\ Top.cap = ChildCap
      BY <1>1, ChildCapIs, TableFacts DEF Top
    <2> QED
      BY <1>2, <2>1 DEF Fits, AllFit
  <1>4. EnvOf(Promoted(Top, g)) = EnvOf(Top)
    BY <1>1, <1>3, PromoteEnv
  <1>5. e \in Seq(Env) /\ Len(e) = n /\ \A i \in 1 .. n : e[i] = EnvOf(ctxs[i])
    BY ChainEnvs DEF ChainIsGood, Fits
  <1>6. f \in Seq(Env) /\ Len(f) = n /\ \A i \in 1 .. n : f[i] = EnvOf(ctxs'[i])
    BY <1>1, ChainEnvs DEF ChainIsGood, Fits
  <1> HIDE DEF e, f
  <1>7. \A i \in 1 .. n : f[i] = e[i]
    BY <1>1, <1>4, <1>5, <1>6 DEF Top
  <1>8. f = e
    BY <1>5, <1>6, <1>7, SeqEqual
  <1> QED
    BY <1>1, <1>8 DEF Abs!Forget, EnvsOf, e, f

(* Setting a word changes its nearest binding, or makes one. *)
LEMMA SetRefines ==
  ASSUME ChainIsGood, Fits, Fits', NEW w \in Word, NEW v \in Value, Set(w, v)
  PROVE  Abs!Set(w, v)
  <1> DEFINE n == Len(ctxs)
             e == EnvsOf(ctxs)
             f == EnvsOf(ctxs')
  <1>1. ChainIsGood' /\ found' = NotFound /\ Len(ctxs') = n
    BY SetKeeps
  <1>2. PICK j \in 1 .. n : \E d :
           /\ d \in Table(CapOf(j)) /\ Good(d)
           /\ \A i \in 1 .. n : ctxs'[i] = IF i = j THEN d ELSE ctxs[i]
           /\ \/ Binding(w) = {} /\ j = n /\ Extends(ctxs[j], w, v, d)
              \/ /\ j \in Binding(w) /\ \A k \in Binding(w) : k <= j
                 /\ d = Put(ctxs[j], 2 * ScanSlot(ctxs[j], w) + 1, ValueCell(v))
    BY SetKeeps
  <1>3. PICK d :
           /\ d \in Table(CapOf(j)) /\ Good(d)
           /\ \A i \in 1 .. n : ctxs'[i] = IF i = j THEN d ELSE ctxs[i]
           /\ \/ Binding(w) = {} /\ j = n /\ Extends(ctxs[j], w, v, d)
              \/ /\ j \in Binding(w) /\ \A k \in Binding(w) : k <= j
                 /\ d = Put(ctxs[j], 2 * ScanSlot(ctxs[j], w) + 1, ValueCell(v))
    BY <1>2
  <1>4. /\ e \in Seq(Env) /\ Len(e) = n
        /\ \A i \in 1 .. n : /\ e[i] = EnvOf(ctxs[i]) /\ e[i] \in Env
                             /\ CapOf(i) \in Nat \ {0} /\ ctxs[i] \in Table(CapOf(i)) /\ Good(ctxs[i])
                             /\ 2 * ctxs[i].count <= Extent(CapOf(i))
    BY ChainEnvs DEF ChainIsGood, Fits
  <1>5. /\ f \in Seq(Env) /\ Len(f) = n
        /\ \A i \in 1 .. n : /\ f[i] = EnvOf(ctxs'[i]) /\ f[i] \in Env
                             /\ 2 * ctxs'[i].count <= Extent(CapOf(i))
    BY <1>1, ChainEnvs DEF ChainIsGood, Fits
  <1>6. Abs!Binding(w) = Binding(w) /\ Binding(w) \subseteq 1 .. n
    BY SameBinding
  <1> HIDE DEF e, f
  <1>7. f[j] = [e[j] EXCEPT ![w] = v]
    <2> DEFINE c == ctxs[j]
    <2>1. /\ c \in Table(CapOf(j)) /\ Good(c) /\ CapOf(j) \in Nat \ {0}
          /\ 2 * c.count <= Extent(CapOf(j)) /\ 2 * d.count <= Extent(CapOf(j))
          /\ e[j] = EnvOf(c) /\ f[j] = EnvOf(d)
      BY <1>3, <1>4, <1>5
    <2>2. CASE Binding(w) = {}
      <3>1. j = n /\ Extends(c, w, v, d)
        BY <1>3, <2>2
      <3>2. Slots(c, w) = {}
        BY <2>2 DEF Binding
      <3> HIDE DEF c
      <3>3. EnvOf(d) = [EnvOf(c) EXCEPT ![w] = v]
        BY <1>3, <2>1, <3>1, <3>2, BindEnv
      <3> QED
        BY <2>1, <3>3
    <2>3. CASE Binding(w) # {}
      <3>1. j \in Binding(w) /\ d = Put(c, 2 * ScanSlot(c, w) + 1, ValueCell(v))
        BY <1>3, <2>3
      <3>2. Slots(c, w) # {}
        BY <3>1 DEF Binding
      <3> HIDE DEF c
      <3>3. EnvOf(d) = [EnvOf(c) EXCEPT ![w] = v]
        BY <2>1, <3>1, <3>2, SetEnv
      <3> QED
        BY <2>1, <3>3
    <2> QED
      BY <2>2, <2>3
  <1>8. \A i \in 1 .. n : i # j => f[i] = e[i]
    BY <1>3, <1>4, <1>5
  <1>9. f = [e EXCEPT ![j][w] = v]
    <2> DEFINE r == [e[j] EXCEPT ![w] = v]
               h == [e EXCEPT ![j] = r]
    <2>1. r \in Env /\ j \in 1 .. Len(e)
      BY <1>4, <1>5, <1>7
    <2>2. f[j] = r
      BY <1>7
    <2> HIDE DEF r
    <2>3. h \in Seq(Env) /\ Len(h) = n /\ \A i \in 1 .. n : h[i] = IF i = j THEN r ELSE e[i]
      BY <1>4, <2>1, ExceptSeq
    <2> HIDE DEF h
    <2>4. f = h
      BY <1>5, <1>8, <2>2, <2>3, SeqEqual
    <2> QED
      BY <2>4 DEF h, r
  <1>10. j = IF Abs!Binding(w) = {} THEN Len(e) ELSE Abs!Nearest(w)
    <2>1. CASE Binding(w) = {}
      BY <1>3, <1>4, <1>6, <2>1
    <2>2. CASE Binding(w) # {}
      <3> DEFINE B == Binding(w)
      <3>1. j \in B /\ (\A k \in B : k <= j) /\ B \subseteq 1 .. n
        BY <1>3, <1>6, <2>2
      <3>2. Abs!Nearest(w) = CHOOSE i \in B : \A k \in B : k <= i
        BY <1>6 DEF Abs!Nearest
      <3> HIDE DEF B
      <3>3. \A i \in B : (\A k \in B : k <= i) => i = j
        <4>1. \A i \in B : i \in 1 .. n /\ j \in 1 .. n
          BY <3>1
        <4>2. \A i \in B : (\A k \in B : k <= i) => j <= i /\ i <= j
          BY <3>1
        <4> QED
          BY <4>1, <4>2
      <3>4. (CHOOSE i \in B : \A k \in B : k <= i) = j
        BY <3>1, <3>3
      <3> QED
        BY <1>6, <2>2, <3>2, <3>4
    <2> QED
      BY <2>1, <2>2
  <1>11. LET i == IF Abs!Binding(w) = {} THEN Len(e) ELSE Abs!Nearest(w)
         IN  f = [e EXCEPT ![i][w] = v] /\ found' = NotFound
    BY <1>1, <1>9, <1>10
  <1> QED
    BY <1>11 DEF Abs!Set, EnvsOf, e, f

(* A lookup gives the nearest binding. *)
LEMMA LookupRefines ==
  ASSUME ChainIsGood, Fits, NEW w \in Word, Lookup(w)
  PROVE  Abs!Lookup(w)
  <1> DEFINE B == Binding(w)
             i == CHOOSE j \in B : \A k \in B : k <= j
             e == EnvsOf(ctxs)
  <1>1. Abs!Binding(w) = B /\ B \subseteq 1 .. Len(ctxs)
    BY SameBinding
  <1>2. B = {} => found' = NotFound
    BY LookupIs
  <1>3. ASSUME B # {} PROVE found' = e[i][w] /\ i = Abs!Nearest(w)
    <2>1. found' = ValueAt(ctxs[i], ScanSlot(ctxs[i], w))
      BY <1>3, LookupIs
    <2>2. i \in B
      <3> HIDE DEF B
      <3> QED
        BY <1>1, <1>3, NearestIs
    <2>3. i = Abs!Nearest(w)
      BY <1>1 DEF Abs!Nearest
    <2>4. i \in 1 .. Len(ctxs) /\ Slots(ctxs[i], w) # {}
      BY <2>2 DEF Binding
    <2> HIDE DEF i
    <2> DEFINE c == ctxs[i]
    <2>5. CapOf(i) \in Nat \ {0} /\ c \in Table(CapOf(i)) /\ Good(c) /\ 2 * c.count <= Extent(CapOf(i)) /\ e[i] = EnvOf(c)
      BY <2>4, ChainEnvs DEF ChainIsGood, Fits
    <2>6. found' = ValueAt(c, ScanSlot(c, w)) /\ Slots(c, w) # {}
      BY <2>1, <2>4
    <2> HIDE DEF c, e
    <2>7. EnvOf(c)[w] = ValueAt(c, ScanSlot(c, w))
      BY <2>5, <2>6, EnvIs
    <2> QED
      BY <2>3, <2>5, <2>6, <2>7
  <1>4. ctxs' = ctxs
    BY DEF Lookup
  <1>5. found' = IF Abs!Binding(w) = {} THEN NotFound ELSE e[Abs!Nearest(w)][w]
    <2> HIDE DEF B, i, e
    <2> QED
      BY <1>1, <1>2, <1>3
  <1> QED
    BY <1>4, <1>5 DEF Abs!Lookup, EnvsOf, e

(* Pairs, index, garbage and promotion cannot be told from a plain chain   *)
(* of environments, as long as no context outgrows its block.              *)
THEOREM ContextsRefineAbstractContexts ==
  Spec /\ []Fits => ImplementsAbstractContexts
  <1>1. Init /\ ChainIsGood /\ Fits => Abs!AbsInit
    <2> SUFFICES ASSUME Init, ChainIsGood, Fits PROVE Abs!AbsInit
      OBVIOUS
    <2>1. Len(ctxs) = 1 /\ found = NotFound
      BY DEF Init
    <2>2. Len(EnvsOf(ctxs)) = 1 /\ EnvsOf(ctxs)[1] \in Env
      <3>1. 1 \in 1 .. Len(ctxs)
        BY ChainLength
      <3> QED
        BY <2>1, <3>1, ChainEnvs DEF ChainIsGood, Fits
    <2> QED
      BY <2>1, <2>2, AbsParts DEF Abs!AbsInit, EnvsOf
  <1>2. ChainIsGood /\ Fits /\ Fits' /\ [Next]_vars => [Abs!AbsNext]_(Abs!absVars)
    <2> SUFFICES ASSUME ChainIsGood, Fits, Fits', [Next]_vars PROVE [Abs!AbsNext]_(Abs!absVars)
      OBVIOUS
    <2>1. ASSUME NEW g \in Garbage, Promote(g) PROVE Abs!AbsNext
      BY <2>1, PromoteRefines DEF Abs!AbsNext
    <2>2. ASSUME NEW g \in Garbage, NEW ps \in ParamList, Enter(g, ps) PROVE Abs!AbsNext
      BY <2>2, EnterRefines DEF Abs!AbsNext
    <2>3. CASE Leave
      BY <2>3, LeaveRefines DEF Abs!AbsNext
    <2>4. ASSUME NEW w \in Word, NEW v \in Value, Set(w, v) PROVE Abs!AbsNext
      BY <2>4, SetRefines DEF Abs!AbsNext
    <2>5. ASSUME NEW w \in Word, Lookup(w) PROVE Abs!AbsNext
      BY <2>5, LookupRefines DEF Abs!AbsNext
    <2>6. CASE UNCHANGED vars
      BY <2>6 DEF vars, Abs!absVars
    <2> QED
      BY <2>1, <2>2, <2>3, <2>4, <2>5, <2>6 DEF Next
  <1> QED
    BY <1>1, <1>2, Invariance, PTL DEF Spec, ImplementsAbstractContexts, Abs!AbsSpec

-----------------------------------------------------------------------------
(* Room                                                                    *)
(*                                                                         *)
(* That contexts fit need not be assumed of every behaviour.  r_set binds  *)
(* a word only when no context of the chain has it, so that a context has  *)
(* a pair more than the words of its program at most for each parameter    *)
(* that names a word again.                                                *)

(* Parameters of an activation whose words may come again. *)
Spare(i) == IF i = 1 \/ MaxParams = 0 THEN 0 ELSE MaxParams - 1

(* The words of a program fit into the global context, and with them the   *)
(* parameters of an activation into its own.                               *)
RoomForWords ==
    /\ IsFiniteSet(Word)
    /\ 2 * Cardinality(Word) <= Extent(GlobalCap)
    /\ 2 * (Cardinality(Word) + Spare(2)) <= Extent(ChildCap)

(* No word is bound twice from slot q on. *)
BoundOnce(c, q) == \A s, r \in q .. c.count - 1 : WordAt(c, s) = WordAt(c, r) => s = r

(* The invariant: contexts fit, since their words are bound once. *)
Roomy ==
    \A i \in 1 .. Len(ctxs) : /\ 2 * ctxs[i].count <= Extent(ctxs[i].cap)
                              /\ BoundOnce(ctxs[i], Spare(i))

LEMMA SpareIs ==
  ASSUME NEW i
  PROVE  Spare(i) \in Nat /\ Spare(1) = 0 /\ (i # 1 => Spare(i) = Spare(2))
  BY ContextsAssumption DEF Spare

(* What is bound once, with a word that is not bound, are as many words as *)
(* a program has at most.                                                  *)
LEMMA OneMoreWord ==
  ASSUME IsFiniteSet(Word), NEW cap \in Nat \ {0}, NEW c \in Table(cap), HasPairs(c),
         2 * c.count <= Extent(cap), NEW q \in Nat, BoundOnce(c, q), NEW w \in Word, Slots(c, w) = {}
  PROVE  c.count + 1 <= Cardinality(Word) + q
  <1> DEFINE n == c.count
             f == [s \in q .. n |-> IF s = n THEN w ELSE WordAt(c, s)]
  <1>1. n \in Nat /\ c.cap = cap
    BY TableFacts
  <1>2. \A s \in 0 .. n - 1 : WordAt(c, s) \in Word /\ WordAt(c, s) # w
    <2>1. \A s \in 0 .. n - 1 : WordAt(c, s) # w
      BY DEF Slots
    <2>2. \A s \in 0 .. n - 1 : WordAt(c, s) \in Word
      BY FitsSlot
    <2> QED
      BY <2>1, <2>2
  <1>3. f \in [q .. n -> Word]
    <2> SUFFICES ASSUME NEW s \in q .. n, s # n PROVE WordAt(c, s) \in Word
      OBVIOUS
    <2>1. s \in 0 .. n - 1
      BY <1>1
    <2> QED
      BY <1>2, <2>1
  <1>4. \A s, r \in q .. n : f[s] = f[r] => s = r
    <2> SUFFICES ASSUME NEW s \in q .. n, NEW r \in q .. n, f[s] = f[r], s # r PROVE FALSE
      OBVIOUS
    <2>1. \A t \in q .. n : t # n => t \in q .. n - 1 /\ t \in 0 .. n - 1
      BY <1>1
    <2>2. CASE s # n /\ r # n
      BY <2>1, <2>2 DEF BoundOnce
    <2>3. CASE s = n
      <3>1. f[s] = w /\ f[r] = WordAt(c, r)
        BY <2>3
      <3> QED
        BY <1>2, <2>1, <2>3, <3>1
    <2>4. CASE r = n
      <3>1. f[r] = w /\ f[s] = WordAt(c, s)
        BY <2>4
      <3> QED
        BY <1>2, <2>1, <2>4, <3>1
    <2> QED
      BY <2>2, <2>3, <2>4
  <1>5. f \in Injection(q .. n, Word)
    <2> HIDE DEF f
    <2>1. DOMAIN f = q .. n
      BY <1>3
    <2> QED
      BY <1>3, <1>4, <2>1 DEF Injection, IsInjective
  <1> HIDE DEF f, n
  <1>6. Cardinality(q .. n) <= Cardinality(Word) /\ Cardinality(Word) \in Nat
    BY <1>5, FS_Injection, FS_CardinalityType
  <1>7. Cardinality(q .. n) = IF q > n THEN 0 ELSE n - q + 1
    BY <1>1, FS_Interval
  <1>8. n + 1 <= Cardinality(Word) + q
    BY <1>1, <1>6, <1>7
  <1> QED
    BY <1>8 DEF n

(* So there is room for a pair more. *)
LEMMA RoomForMore ==
  ASSUME RoomForWords, NEW i, NEW c \in Table(CapOf(i)), HasPairs(c), 2 * c.count <= Extent(c.cap),
         BoundOnce(c, Spare(i)), NEW w \in Word, Slots(c, w) = {}
  PROVE  2 * (c.count + 1) <= Extent(c.cap)
  <1>1. CapOf(i) \in Nat \ {0} /\ c.cap = CapOf(i) /\ c.count \in Nat /\ Extent(CapOf(i)) \in Nat
    BY CapIs, TableFacts
  <1>2. c.count + 1 <= Cardinality(Word) + Spare(i)
    BY <1>1, SpareIs, OneMoreWord DEF RoomForWords
  <1>3. Cardinality(Word) \in Nat /\ Spare(i) \in Nat
    BY FS_CardinalityType, SpareIs DEF RoomForWords
  <1>4. CASE i = 1
    <2>1. Spare(i) = 0 /\ CapOf(i) = GlobalCap
      BY <1>4, SpareIs DEF CapOf
    <2> QED
      BY <1>1, <1>2, <1>3, <2>1 DEF RoomForWords
  <1>5. CASE i # 1
    <2>1. Spare(i) = Spare(2) /\ CapOf(i) = ChildCap
      BY <1>5, SpareIs DEF CapOf
    <2> QED
      BY <1>1, <1>2, <1>3, <2>1 DEF RoomForWords
  <1> QED
    BY <1>4, <1>5

(* A pair with a word that was not bound leaves words bound once. *)
LEMMA BoundOnceMore ==
  ASSUME NEW cap \in Nat \ {0}, NEW c \in Table(cap), HasPairs(c), NEW q \in Nat, BoundOnce(c, q),
         NEW w \in Word, NEW v \in Value, Slots(c, w) = {}, NEW d, Extends(c, w, v, d),
         2 * d.count <= Extent(cap)
  PROVE  BoundOnce(d, q)
  <1> DEFINE n == c.count
  <1>1. n \in Nat /\ c.cap = cap /\ d.count = n + 1 /\ 2 * n + 1 < Extent(cap) /\ Extent(cap) \in Nat
    BY TableFacts DEF Extends
  <1>2. WordAt(d, n) = w
    <2>1. w \in Nat
      BY ContextsAssumption
    <2> QED
      BY <1>1, <2>1, CellFacts DEF Extends, WordAt
  <1>3. \A s \in 0 .. n - 1 : WordAt(d, s) = WordAt(c, s) /\ WordAt(c, s) # w
    <2> SUFFICES ASSUME NEW s \in 0 .. n - 1 PROVE WordAt(d, s) = WordAt(c, s) /\ WordAt(c, s) # w
      OBVIOUS
    <2>1. 2 * s + 1 < Extent(cap)
      BY <1>1
    <2> QED
      BY <1>1, <2>1 DEF Extends, SamePairs, WordAt, Slots
  <1> SUFFICES ASSUME NEW s \in q .. n, NEW r \in q .. n, WordAt(d, s) = WordAt(d, r) PROVE s = r
    BY <1>1 DEF BoundOnce
  <1>4. \A t \in q .. n : t = n \/ (t \in q .. n - 1 /\ t \in 0 .. n - 1)
    BY <1>1
  <1>5. CASE s # n /\ r # n
    BY <1>3, <1>4, <1>5 DEF BoundOnce
  <1>6. \A t \in q .. n : t # n => WordAt(d, t) # w
    BY <1>3, <1>4
  <1>7. CASE s = n \/ r = n
    BY <1>2, <1>6, <1>7
  <1> QED
    BY <1>5, <1>7

(* The same words are bound once. *)
LEMMA BoundOnceAgain ==
  ASSUME NEW cap \in Nat \ {0}, NEW c \in Table(cap), 2 * c.count <= Extent(cap),
         NEW q \in Nat, BoundOnce(c, q), NEW d, d.count = c.count,
         \A s \in 0 .. c.count - 1 : 2 * s + 1 < Extent(cap) => WordAt(d, s) = WordAt(c, s)
  PROVE  BoundOnce(d, q)
  <1>1. c.count \in Nat /\ Extent(cap) \in Nat
    BY TableFacts
  <1>2. \A s \in q .. c.count - 1 : s \in 0 .. c.count - 1 /\ 2 * s + 1 < Extent(cap)
    BY <1>1
  <1> QED
    BY <1>2 DEF BoundOnce

(* The loader binds its words once. *)
LEMMA PreloadedRoomy ==
  ASSUME RoomForWords, NEW ws \in Loaded
  PROVE  LET c == Preloaded(ws)
         IN  2 * c.count <= Extent(GlobalCap) /\ BoundOnce(c, 0)
  <1> DEFINE c == Preloaded(ws)
             K == Len(ws)
  <1>1. ws \in Seq(Word) /\ \A i, j \in 1 .. K : ws[i] = ws[j] => i = j
    BY ContextsAssumption
  <1>2. K \in Nat /\ ws \in [1 .. K -> Word]
    BY <1>1, LenProperties
  <1>3. c.count = K /\ \A s \in 0 .. K - 1 : 2 * s + 1 < Extent(GlobalCap) => WordAt(c, s) = ws[s + 1]
    BY PreloadedIsGood
  <1> HIDE DEF c, K
  <1>4. ws \in Injection(1 .. K, Word)
    <2>1. DOMAIN ws = 1 .. K
      BY <1>2
    <2> QED
      BY <1>1, <1>2, <2>1 DEF Injection, IsInjective
  <1>5. Cardinality(1 .. K) <= Cardinality(Word) /\ Cardinality(Word) \in Nat
    BY <1>4, FS_Injection, FS_CardinalityType DEF RoomForWords
  <1>6. Cardinality(1 .. K) = K
    BY <1>2, FS_Interval
  <1>7. Extent(GlobalCap) \in Nat
    BY ContextsAssumption DEF Extent
  <1>8. 2 * K <= Extent(GlobalCap)
    BY <1>2, <1>5, <1>6, <1>7 DEF RoomForWords
  <1>9. \A s \in 0 .. K - 1 : 2 * s + 1 < Extent(GlobalCap) /\ s + 1 \in 1 .. K
    BY <1>2, <1>7, <1>8
  <1>10. BoundOnce(c, 0)
    <2> SUFFICES ASSUME NEW s \in 0 .. K - 1, NEW r \in 0 .. K - 1, WordAt(c, s) = WordAt(c, r) PROVE s = r
      BY <1>3 DEF BoundOnce
    <2>1. ws[s + 1] = ws[r + 1]
      BY <1>3, <1>9
    <2>2. s + 1 = r + 1
      BY <1>1, <1>9, <2>1
    <2> QED
      BY <1>2, <2>2
  <1> QED
    BY <1>3, <1>8, <1>10 DEF c

(* An activation starts with its parameters. *)
LEMMA EnterRoomy ==
  ASSUME RoomForWords, ChainIsGood, Roomy, NEW g \in Garbage, NEW ps \in ParamList, Enter(g, ps)
  PROVE  Roomy'
  <1> DEFINE n == Len(ctxs)
             d == ctxs'[n + 1]
  <1>1. /\ Len(ctxs') = n + 1 /\ \A i \in 1 .. n : ctxs'[i] = ctxs[i]
        /\ d \in Table(ChildCap) /\ d.count = Len(ps) /\ n \in Nat /\ n >= 1
    BY EnterKeeps, ChainLength
  <1>2. Len(ps) \in 0 .. MaxParams /\ (Len(ps) > 0 => Word # {})
    <2>1. PICK m \in 0 .. MaxParams : ps \in [1 .. m -> Word \X Value]
      BY DEF ParamList
    <2>2. m \in Nat
      BY ContextsAssumption
    <2>3. Len(ps) = m
      BY <2>1, <2>2
    <2>4. m > 0 => ps[1] \in Word \X Value
      BY <2>1, <2>2
    <2> QED
      BY <2>3, <2>4
  <1>3. Len(ps) > 0 => Cardinality(Word) >= 1
    <2>1. Cardinality(Word) \in Nat /\ (Cardinality(Word) = 0 <=> Word = {})
      BY FS_CardinalityType, FS_EmptySet DEF RoomForWords
    <2> QED
      BY <1>2, <2>1
  <1>4. Cardinality(Word) \in Nat /\ MaxParams \in Nat /\ Extent(ChildCap) \in Nat
    BY FS_CardinalityType, ContextsAssumption DEF RoomForWords, Extent
  <1>5. /\ Len(ps) <= Spare(2) + 1 /\ (Len(ps) > 0 => Len(ps) <= Spare(2) + Cardinality(Word))
        /\ Spare(2) \in Nat /\ Len(ps) \in Nat
    BY <1>2, <1>3, <1>4 DEF Spare
  <1>6. 2 * Len(ps) <= Extent(ChildCap)
    BY <1>4, <1>5 DEF RoomForWords
  <1> HIDE DEF d
  <1>7. BoundOnce(d, Spare(2))
    <2>1. \A s \in Spare(2) .. d.count - 1 : s = Spare(2)
      BY <1>1, <1>5
    <2> QED
      BY <2>1 DEF BoundOnce
  <1>8. d.cap = ChildCap
    BY <1>1 DEF Table
  <1> SUFFICES ASSUME NEW i \in 1 .. n + 1
               PROVE  2 * ctxs'[i].count <= Extent(ctxs'[i].cap) /\ BoundOnce(ctxs'[i], Spare(i))
    BY <1>1 DEF Roomy, BoundOnce
  <1>9. CASE i = n + 1
    <2>1. Spare(i) = Spare(2)
      BY <1>1, <1>9, SpareIs
    <2> QED
      BY <1>1, <1>6, <1>7, <1>8, <1>9, <2>1 DEF d
  <1>10. CASE i # n + 1
    <2>1. i \in 1 .. n
      BY <1>1, <1>10
    <2> QED
      BY <1>1, <2>1 DEF Roomy
  <1> QED
    BY <1>9, <1>10

(* A context changed in place, with the same words. *)
LEMMA SameWordsRoomy ==
  ASSUME ChainIsGood, Roomy, NEW j \in 1 .. Len(ctxs), NEW d,
         Len(ctxs') = Len(ctxs), \A i \in 1 .. Len(ctxs) : ctxs'[i] = IF i = j THEN d ELSE ctxs[i],
         d.cap = ctxs[j].cap, d.count = ctxs[j].count,
         \A s \in 0 .. d.count - 1 : 2 * s + 1 < Extent(d.cap) => WordAt(d, s) = WordAt(ctxs[j], s)
  PROVE  Roomy'
  <1> DEFINE c == ctxs[j]
  <1>1. c \in Table(CapOf(j)) /\ CapOf(j) \in Nat \ {0} /\ c.cap = CapOf(j)
    BY CapIs, TableFacts DEF ChainIsGood, GoodChain
  <1>2. 2 * c.count <= Extent(c.cap) /\ BoundOnce(c, Spare(j))
    BY DEF Roomy
  <1>3. BoundOnce(d, Spare(j))
    <2>1. d.count = c.count /\ \A s \in 0 .. c.count - 1 : 2 * s + 1 < Extent(CapOf(j)) => WordAt(d, s) = WordAt(c, s)
      BY <1>1
    <2> HIDE DEF c
    <2> QED
      BY <1>1, <1>2, <2>1, SpareIs, BoundOnceAgain
  <1> SUFFICES ASSUME NEW i \in 1 .. Len(ctxs)
               PROVE  2 * ctxs'[i].count <= Extent(ctxs'[i].cap) /\ BoundOnce(ctxs'[i], Spare(i))
    BY DEF Roomy, BoundOnce
  <1>4. CASE i = j
    BY <1>2, <1>3, <1>4
  <1>5. CASE i # j
    BY <1>5 DEF Roomy
  <1> QED
    BY <1>4, <1>5

(* r_set binds only a word that the context does not have. *)
LEMMA SetRoomy ==
  ASSUME RoomForWords, ChainIsGood, Roomy, NEW w \in Word, NEW v \in Value, Set(w, v)
  PROVE  Roomy'
  <1> DEFINE n == Len(ctxs)
  <1>1. Len(ctxs') = n /\ n \in Nat /\ n \in 1 .. n
    BY SetKeeps, ChainLength
  <1>0. PICK j \in 1 .. n : \E d :
               /\ d \in Table(CapOf(j)) /\ Good(d)
               /\ \A i \in 1 .. n : ctxs'[i] = IF i = j THEN d ELSE ctxs[i]
               /\ \/ Binding(w) = {} /\ j = n /\ Extends(ctxs[j], w, v, d)
                  \/ /\ j \in Binding(w) /\ \A k \in Binding(w) : k <= j
                     /\ d = Put(ctxs[j], 2 * ScanSlot(ctxs[j], w) + 1, ValueCell(v))
    BY SetKeeps
  <1>2. PICK d :
               /\ d \in Table(CapOf(j)) /\ Good(d)
               /\ \A i \in 1 .. n : ctxs'[i] = IF i = j THEN d ELSE ctxs[i]
               /\ \/ Binding(w) = {} /\ j = n /\ Extends(ctxs[j], w, v, d)
                  \/ /\ j \in Binding(w) /\ \A k \in Binding(w) : k <= j
                     /\ d = Put(ctxs[j], 2 * ScanSlot(ctxs[j], w) + 1, ValueCell(v))
    BY <1>0
  <1> DEFINE c == ctxs[j]
  <1>3. /\ c \in Table(CapOf(j)) /\ Good(c) /\ HasPairs(c) /\ CapOf(j) \in Nat \ {0} /\ c.cap = CapOf(j)
        /\ 2 * c.count <= Extent(c.cap) /\ BoundOnce(c, Spare(j)) /\ Spare(j) \in Nat
    BY CapIs, TableFacts, SpareIs DEF ChainIsGood, GoodChain, Good, Roomy
  <1>4. CASE Binding(w) = {} /\ Extends(c, w, v, d)
    <2>1. Slots(c, w) = {}
      BY <1>4 DEF Binding
    <2> HIDE DEF c
    <2>2. 2 * (c.count + 1) <= Extent(c.cap)
      BY <1>3, <2>1, RoomForMore
    <2>3. d.cap = c.cap /\ d.count = c.count + 1
      BY <1>4 DEF Extends
    <2>4. BoundOnce(d, Spare(j))
      BY <1>3, <1>4, <2>1, <2>2, <2>3, BoundOnceMore
    <2> SUFFICES ASSUME NEW i \in 1 .. n
                 PROVE  2 * ctxs'[i].count <= Extent(ctxs'[i].cap) /\ BoundOnce(ctxs'[i], Spare(i))
      BY <1>1 DEF Roomy, BoundOnce
    <2>5. CASE i = j
      BY <1>2, <2>2, <2>3, <2>4, <2>5
    <2>6. CASE i # j
      BY <1>2, <2>6 DEF Roomy
    <2> QED
      BY <2>5, <2>6
  <1>5. CASE j \in Binding(w) /\ d = Put(c, 2 * ScanSlot(c, w) + 1, ValueCell(v))
    <2>1. Slots(c, w) # {}
      BY <1>5 DEF Binding
    <2>2. d.cap = c.cap /\ d.count = c.count
          /\ \A s \in 0 .. d.count - 1 : 2 * s + 1 < Extent(d.cap) => WordAt(d, s) = WordAt(c, s)
      <3> HIDE DEF c
      <3>1. ScanSlot(c, w) \in 0 .. c.count - 1
        BY <1>3, <2>1, FindAgrees
      <3>2. /\ Alike(c, d)
            /\ \A r \in 0 .. c.count - 1 : 2 * r + 1 < Extent(CapOf(j)) => WordAt(d, r) = WordAt(c, r)
        BY <1>3, <1>5, <3>1, SetFacts
      <3> QED
        BY <1>3, <3>2 DEF Alike
    <2> QED
      BY <1>1, <1>2, <2>2, SameWordsRoomy
  <1> QED
    BY <1>2, <1>4, <1>5

(* Promotion copies the words. *)
LEMMA PromoteRoomy ==
  ASSUME ChainIsGood, Roomy, NEW g \in Garbage, Promote(g)
  PROVE  Roomy'
  <1> DEFINE n == Len(ctxs)
             d == Promoted(Top, g)
  <1>1. /\ Len(ctxs') = n /\ n \in 1 .. n /\ Top = ctxs[n] /\ Top \in Table(ChildCap) /\ Good(Top)
        /\ \A i \in 1 .. n : ctxs'[i] = IF i = n THEN d ELSE ctxs[i]
    BY PromoteKeeps, ChainLength DEF Top
  <1>2. /\ d \in Table(ChildCap) /\ d.count = Top.count
        /\ \A s \in 0 .. Top.count - 1 : 2 * s + 1 < Extent(ChildCap) => WordAt(d, s) = WordAt(Top, s)
    BY <1>1, PromoteFacts
  <1> HIDE DEF d
  <1>3. d.cap = ChildCap /\ Top.cap = ChildCap
    BY <1>1, <1>2 DEF Table
  <1> QED
    BY <1>1, <1>2, <1>3, SameWordsRoomy

(* A return leaves the others as they were. *)
LEMMA LeaveRoomy ==
  ASSUME ChainIsGood, Roomy, Leave
  PROVE  Roomy'
  <1>1. /\ Len(ctxs') = Len(ctxs) - 1 /\ Len(ctxs) \in Nat
        /\ \A i \in 1 .. Len(ctxs) - 1 : ctxs'[i] = ctxs[i]
    BY LeaveKeeps, ChainLength
  <1>2. \A i \in 1 .. Len(ctxs') : i \in 1 .. Len(ctxs) /\ ctxs'[i] = ctxs[i]
    BY <1>1
  <1> QED
    BY <1>2 DEF Roomy, BoundOnce

(* A program whose words fit into the global context, and together with    *)
(* the parameters of any function into the context of an activation, never *)
(* has a context that outgrows its block: r_set and r_append bind a word   *)
(* only where it is not bound, and the loader binds no word twice.         *)
THEOREM FewWordsFit ==
  ASSUME RoomForWords
  PROVE  Spec => []Fits
  <1>1. Init => Roomy
    <2> SUFFICES ASSUME NEW ws \in Loaded, ctxs = <<Preloaded(ws)>> PROVE Roomy
      BY DEF Init
    <2> DEFINE c == Preloaded(ws)
    <2>1. c \in Table(GlobalCap) /\ 2 * c.count <= Extent(GlobalCap) /\ BoundOnce(c, 0)
      BY PreloadedIsGood, PreloadedRoomy
    <2> HIDE DEF c
    <2>2. Len(ctxs) = 1 /\ ctxs[1] = c /\ c.cap = GlobalCap /\ Spare(1) = 0
      BY <2>1, SpareIs DEF Table, c
    <2>3. \A i \in 1 .. 1 : i = 1
      OBVIOUS
    <2> QED
      BY <2>1, <2>2, <2>3 DEF Roomy
  <1>2. ChainIsGood /\ Roomy /\ [Next]_vars => Roomy'
    <2> SUFFICES ASSUME ChainIsGood, Roomy, [Next]_vars PROVE Roomy'
      OBVIOUS
    <2>1. ASSUME NEW g \in Garbage, Promote(g) PROVE Roomy'
      BY <2>1, PromoteRoomy
    <2>2. ASSUME NEW g \in Garbage, NEW ps \in ParamList, Enter(g, ps) PROVE Roomy'
      BY <2>2, EnterRoomy
    <2>3. CASE Leave
      BY <2>3, LeaveRoomy
    <2>4. ASSUME NEW w \in Word, NEW v \in Value, Set(w, v) PROVE Roomy'
      BY <2>4, SetRoomy
    <2>5. ASSUME ctxs' = ctxs PROVE Roomy'
      BY <2>5 DEF Roomy, BoundOnce
    <2>6. ASSUME NEW w \in Word, Lookup(w) PROVE Roomy'
      BY <2>5, <2>6 DEF Lookup
    <2>7. CASE UNCHANGED vars
      BY <2>5, <2>7 DEF vars
    <2> QED
      BY <2>1, <2>2, <2>3, <2>4, <2>6, <2>7 DEF Next
  <1>3. Roomy => Fits
    BY DEF Roomy, Fits, AllFit
  <1> QED
    BY <1>1, <1>2, <1>3, Invariance, PTL DEF Spec

(* Of such a program, then, every context is whole at every moment, with   *)
(* nothing assumed of its run.                                             *)
THEOREM FewWordsAreSound ==
  ASSUME RoomForWords
  PROVE  Spec => []TableIsSound
  BY FewWordsFit, TablesAreSound, PTL

(* And its contexts cannot be told from a chain of environments.           *)
THEOREM FewWordsRefine ==
  ASSUME RoomForWords
  PROVE  Spec => ImplementsAbstractContexts
  BY FewWordsFit, ContextsRefineAbstractContexts, PTL

=============================================================================
