----------------------------- MODULE Induction -----------------------------
(***************************************************************************)
(* Induction over the natural numbers, stated for sets: the models follow  *)
(* chains of frames and contexts with functions that are recursive in a    *)
(* natural number, and what those return is proved with these lemmas.      *)
(***************************************************************************)
EXTENDS Integers, TLAPS, WellFoundedInduction

(* Every inhabited set of natural numbers has a least element. *)
LEMMA LeastOf ==
  ASSUME NEW T, T \subseteq Nat, T # {}
  PROVE  \E x \in T : \A y \in T : x <= y
  <1> DEFINE R == OpToRel(<, Nat)
  <1>1. IsWellFoundedOn(R, Nat)
    BY NatLessThanWellFounded, Zenon
  <1>2. \A x, y \in Nat : x < y => <<x, y>> \in R
    BY DEF OpToRel
  <1> HIDE DEF R
  <1>3. PICK x \in T : \A y \in T : ~ (<<y, x>> \in R)
    BY <1>1, WFMin, Zenon
  <1>4. ASSUME NEW y \in T PROVE x <= y
    <2>1. x \in Nat /\ y \in Nat
      OBVIOUS
    <2>2. ~ (y < x)
      BY <1>2, <1>3, <2>1, Zenon
    <2> QED
      BY <2>1, <2>2
  <1> QED
    BY <1>4

(* A set with 0 that is closed under successor has every natural number. *)
LEMMA NatSetInduction ==
  ASSUME NEW S, 0 \in S, \A n \in Nat : n \in S => n + 1 \in S
  PROVE  Nat \subseteq S
  <1> SUFFICES ASSUME NEW k \in Nat, k \notin S PROVE FALSE
    OBVIOUS
  <1> DEFINE T == {n \in Nat : n \notin S}
  <1>1. PICK x \in T : \A y \in T : x <= y
    BY LeastOf
  <1>2. x # 0
    OBVIOUS
  <1>3. x - 1 \in Nat /\ x - 1 \notin T
    BY <1>1, <1>2
  <1> QED
    BY <1>3

(* The same up to a bound, as the models' chains have one. *)
LEMMA BoundedInduction ==
  ASSUME NEW K \in Nat, NEW S, 0 \in S,
         \A n \in 0 .. K - 1 : n \in S => n + 1 \in S
  PROVE  0 .. K \subseteq S
  <1> DEFINE T == {n \in Nat : n <= K => n \in S}
  <1>1. 0 \in T /\ \A n \in Nat : n \in T => n + 1 \in T
    OBVIOUS
  <1> HIDE DEF T
  <1>2. Nat \subseteq T
    BY <1>1, NatSetInduction
  <1> QED
    BY <1>2 DEF T

(* Every bounded inhabited set of natural numbers has a greatest element. *)
LEMMA GreatestOf ==
  ASSUME NEW K \in Nat, NEW T, T \subseteq 0 .. K, T # {}
  PROVE  \E x \in T : \A y \in T : y <= x
  <1> DEFINE D == {K - x : x \in T}
  <1>0. ASSUME NEW x \in T PROVE x \in Nat /\ K - x \in Nat
    <2>1. x \in 0 .. K
      OBVIOUS
    <2> QED
      BY <2>1
  <1>1. D \subseteq Nat /\ D # {}
    BY <1>0
  <1>2. PICK d \in D : \A e \in D : d <= e
    <2> HIDE DEF D
    <2> QED
      BY <1>1, LeastOf
  <1>3. PICK x \in T : d = K - x
    OBVIOUS
  <1>4. ASSUME NEW y \in T PROVE y <= x
    <2>1. d <= K - y
      BY <1>2
    <2> QED
      BY <1>0, <1>3, <2>1
  <1> QED
    BY <1>4

(* f is defined by its value a at 0 and by its value at n from that before. *)
IsRecursion(f, a, G) ==
    /\ f = [n \in Nat |-> f[n]]
    /\ \A n \in Nat : f[n] = IF n = 0 THEN a ELSE G[<<n, f[n - 1]>>]

(* There is such a function, whatever a and G are. *)
LEMMA PrimitiveRecursion ==
  ASSUME NEW a, NEW G
  PROVE  \E f : IsRecursion(f, a, G)
  <1> DEFINE Step(c, n) == IF n = 0 THEN a ELSE G[<<n, c[n - 1]>>]
             Up(k, c) == c = [n \in 0 .. k |-> Step(c, n)]
             S == {k \in Nat : \E c : Up(k, c)}
  <1>1. 0 \in S
    <2> DEFINE c0 == [n \in 0 .. 0 |-> a]
    <2>1. Up(0, c0)
      OBVIOUS
    <2> QED
      BY <2>1
  <1>2. ASSUME NEW k \in Nat, k \in S PROVE k + 1 \in S
    <2>1. PICK c : Up(k, c)
      BY <1>2
    <2> DEFINE d == [n \in 0 .. k + 1 |-> IF n <= k THEN c[n] ELSE G[<<n, c[k]>>]]
    <2>2. ASSUME NEW n \in 0 .. k + 1 PROVE d[n] = Step(d, n)
      <3>1. CASE n = 0
        BY <2>1, <3>1
      <3>2. CASE n # 0 /\ n <= k
        <4>1. n - 1 \in 0 .. k /\ n \in 0 .. k /\ n - 1 \in 0 .. k + 1 /\ n - 1 <= k
          BY <3>2
        <4>2. c[n] = G[<<n, c[n - 1]>>]
          BY <2>1, <3>2, <4>1
        <4>3. d[n] = c[n] /\ d[n - 1] = c[n - 1]
          BY <3>2, <4>1
        <4> HIDE DEF d
        <4> QED
          BY <3>2, <4>2, <4>3
      <3>3. CASE n = k + 1
        <4>1. d[n - 1] = c[k] /\ d[n] = G[<<n, c[k]>>] /\ n # 0
          BY <3>3
        <4> HIDE DEF d
        <4> QED
          BY <4>1
      <3> QED
        BY <3>1, <3>2, <3>3
    <2>3. d = [n \in 0 .. k + 1 |-> d[n]]
      OBVIOUS
    <2> HIDE DEF d
    <2>4. Up(k + 1, d)
      BY <2>2, <2>3
    <2> QED
      BY <2>4
  <1>3. Nat \subseteq S
    <2> HIDE DEF S
    <2> QED
      BY <1>1, <1>2, NatSetInduction
  <1> DEFINE C(k) == CHOOSE c : Up(k, c)
             T == {n \in Nat : \A k \in Nat : n <= k => C(k)[n] = C(n)[n]}
             f == [n \in Nat |-> C(n)[n]]
  <1>4. ASSUME NEW k \in Nat, NEW n \in 0 .. k PROVE C(k)[n] = Step(C(k), n)
    <2>1. Up(k, C(k))
      BY <1>3
    <2> HIDE DEF C
    <2>2. \A c : Up(k, c) => c[n] = Step(c, n)
      <3> SUFFICES ASSUME NEW c, Up(k, c) PROVE c[n] = Step(c, n)
        OBVIOUS
      <3>1. c[n] = [m \in 0 .. k |-> Step(c, m)][n]
        BY Zenon
      <3>2. [m \in 0 .. k |-> Step(c, m)][n] = Step(c, n)
        OBVIOUS
      <3> QED
        BY <3>1, <3>2, Zenon
    <2> HIDE DEF Up
    <2> QED
      BY <2>1, <2>2
  <1> HIDE DEF C
  <1>5. 0 \in T
    <2>1. ASSUME NEW k \in Nat PROVE C(k)[0] = a
      <3>1. 0 \in 0 .. k
        OBVIOUS
      <3> QED
        BY <1>4, <3>1
    <2> QED
      BY <2>1
  <1>6. ASSUME NEW n \in Nat, n \in T PROVE n + 1 \in T
    <2> SUFFICES ASSUME NEW k \in Nat, n + 1 <= k PROVE C(k)[n + 1] = C(n + 1)[n + 1]
      OBVIOUS
    <2>0. n + 1 \in 0 .. k /\ n + 1 \in 0 .. n + 1 /\ n + 1 # 0 /\ (n + 1) - 1 = n
      OBVIOUS
    <2>1. C(k)[n + 1] = G[<<n + 1, C(k)[n]>>]
      BY <1>4, <2>0
    <2>2. C(n + 1)[n + 1] = G[<<n + 1, C(n + 1)[n]>>]
      BY <1>4, <2>0
    <2>3. C(k)[n] = C(n)[n] /\ C(n + 1)[n] = C(n)[n]
      BY <1>6
    <2> QED
      BY <2>1, <2>2, <2>3
  <1>7. Nat \subseteq T
    <2> HIDE DEF T
    <2> QED
      BY <1>5, <1>6, NatSetInduction
  <1>8. ASSUME NEW n \in Nat PROVE f[n] = Step(f, n)
    <2>1. CASE n = 0
      <3>1. 0 \in 0 .. 0 /\ 0 \in Nat
        OBVIOUS
      <3>2. C(0)[0] = a
        BY <1>4, <3>1
      <3> QED
        BY <2>1, <3>2
    <2>2. CASE n # 0
      <3>1. C(n)[n] = G[<<n, C(n)[n - 1]>>]
        BY <1>4, <2>2
      <3>2. C(n)[n - 1] = C(n - 1)[n - 1] /\ n - 1 \in Nat
        BY <1>7, <2>2
      <3> QED
        BY <2>2, <3>1, <3>2
    <2> QED
      BY <2>1, <2>2
  <1>9. f = [n \in Nat |-> f[n]]
    OBVIOUS
  <1> HIDE DEF f
  <1>10. IsRecursion(f, a, G)
    BY <1>8, <1>9 DEF IsRecursion
  <1> QED
    BY <1>10

(* The same for a function on the numbers up to K. *)
IsRecursionTo(K, f, a, G) ==
    /\ f = [n \in 0 .. K |-> f[n]]
    /\ \A n \in 0 .. K : f[n] = IF n = 0 THEN a ELSE G[<<n, f[n - 1]>>]

(* There is one, whatever a and G are. *)
LEMMA BoundedRecursion ==
  ASSUME NEW K \in Nat, NEW a, NEW G
  PROVE  \E f : IsRecursionTo(K, f, a, G)
  <1>1. PICK h : IsRecursion(h, a, G)
    BY PrimitiveRecursion
  <1> DEFINE f == [n \in 0 .. K |-> h[n]]
  <1>2. ASSUME NEW n \in 0 .. K PROVE f[n] = IF n = 0 THEN a ELSE G[<<n, f[n - 1]>>]
    <2>1. n \in Nat /\ f[n] = h[n]
      OBVIOUS
    <2>2. h[n] = IF n = 0 THEN a ELSE G[<<n, h[n - 1]>>]
      BY <1>1, <2>1 DEF IsRecursion
    <2>3. n # 0 => n - 1 \in 0 .. K
      OBVIOUS
    <2>4. n # 0 => f[n - 1] = h[n - 1]
      BY <2>3
    <2> HIDE DEF f
    <2> QED
      BY <2>1, <2>2, <2>4
  <1>3. f = [n \in 0 .. K |-> f[n]]
    OBVIOUS
  <1> HIDE DEF f
  <1>4. IsRecursionTo(K, f, a, G)
    BY <1>2, <1>3 DEF IsRecursionTo
  <1> QED
    BY <1>4

(* And where G stays in a set, so do its values. *)
LEMMA TypedRecursion ==
  ASSUME NEW K \in Nat, NEW V, NEW a \in V, NEW G,
         \A n \in 1 .. K : \A v \in V : G[<<n, v>>] \in V
  PROVE  \E f : IsRecursionTo(K, f, a, G) /\ \A n \in 0 .. K : f[n] \in V
  <1>1. PICK f : IsRecursionTo(K, f, a, G)
    BY BoundedRecursion
  <1> DEFINE S == {n \in 0 .. K : f[n] \in V}
  <1>2. \A n \in 0 .. K : f[n] = IF n = 0 THEN a ELSE G[<<n, f[n - 1]>>]
    BY <1>1 DEF IsRecursionTo
  <1>3. 0 \in S
    <2>1. 0 \in 0 .. K
      OBVIOUS
    <2> QED
      BY <1>2, <2>1
  <1>4. ASSUME NEW n \in 0 .. K - 1, n \in S PROVE n + 1 \in S
    <2>1. n + 1 \in 0 .. K /\ n + 1 \in 1 .. K /\ n + 1 # 0 /\ (n + 1) - 1 = n
      OBVIOUS
    <2>2. f[n + 1] = G[<<n + 1, f[n]>>]
      BY <1>2, <2>1
    <2> QED
      BY <1>4, <2>1, <2>2
  <1>5. 0 .. K \subseteq S
    <2> HIDE DEF S
    <2> QED
      BY <1>3, <1>4, BoundedInduction
  <1> QED
    BY <1>1, <1>5

=============================================================================
