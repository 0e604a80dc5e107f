------------------------- MODULE ActivationsProofs -------------------------
(***************************************************************************)
(* The stacks of the evaluator are sound for any program, any arities and  *)
(* any depth: the frames are chained as they lie on the return stack, each *)
(* record has the block its routine interrupted, the data stack holds just *)
(* the operands of the routines under way, and a return carries its whole  *)
(* result set.  The inductive invariant is Sound.                          *)
(***************************************************************************)
EXTENDS Activations, ReturnStack, Induction, SequenceTheorems

Record == Call \cup Frame \cup Do \cup Values \cup Pending
Datum  == {"value", "count"} \X Nat

(* The model's Held and Operands, of any return stack R. *)
HeldIn(e) == CASE e.k = "call" -> e.i [] e.k = "values" -> e.got [] OTHER -> 0
Sum(R, c, n) == IF n = 0 THEN 0 ELSE c[n - 1] + HeldIn(R[n])
OperandsOf(R) == CHOOSE c : c = [n \in Nat |-> Sum(R, c, n)]

(* They are what the model defines for its own return stack. *)
LEMMA OperandsIs == Operands = OperandsOf(rs) /\ Operands' = OperandsOf(rs')
  BY DEF Operands, OperandsOf, Sum, Held, HeldIn

(* The recursive definition of Operands defines a function. *)
LEMMA OperandsUnfold ==
  ASSUME NEW R
  PROVE  OperandsOf(R) = [n \in Nat |-> Sum(R, OperandsOf(R), n)]
  <1> DEFINE Up(k, c) == c = [n \in 0 .. k |-> Sum(R, c, n)]
             S == {k \in Nat : \E c : Up(k, c)}
  <1>1. 0 \in S
    <2> DEFINE c0 == [n \in 0 .. 0 |-> 0]
    <2>1. Up(0, c0)
      BY DEF Sum
    <2> QED
      BY <2>1
  <1>2. ASSUME NEW k \in Nat, k \in S PROVE k + 1 \in S
    <2>1. PICK c : Up(k, c)
      BY <1>2
    <2> DEFINE d == [n \in 0 .. k + 1 |-> IF n <= k THEN c[n] ELSE c[k] + HeldIn(R[n])]
    <2>2. ASSUME NEW n \in 0 .. k + 1 PROVE d[n] = Sum(R, d, n)
      <3>1. CASE n = 0
        BY <2>1, <3>1 DEF Sum
      <3>2. CASE n # 0 /\ n <= k
        <4>1. n - 1 \in 0 .. k /\ n \in 0 .. k
          BY <3>2
        <4>2. c[n] = c[n - 1] + HeldIn(R[n])
          BY <2>1, <3>2, <4>1 DEF Sum
        <4> QED
          BY <3>2, <4>1, <4>2 DEF Sum
      <3>3. CASE n = k + 1
        <4>1. d[n - 1] = c[k]
          BY <3>3
        <4> QED
          BY <3>3, <4>1 DEF Sum
      <3> QED
        BY <3>1, <3>2, <3>3
    <2>3. d = [n \in 0 .. k + 1 |-> d[n]]
      OBVIOUS
    <2> HIDE DEF d
    <2>4. Up(k + 1, d)
      BY <2>2, <2>3
    <2> QED
      BY <2>4
  <1>3. Nat \subseteq S
    <2> HIDE DEF S
    <2> QED
      BY <1>1, <1>2, NatSetInduction
  <1> DEFINE C(k) == CHOOSE c : Up(k, c)
             T == {n \in Nat : \A k \in Nat : n <= k => C(k)[n] = C(n)[n]}
             f == [n \in Nat |-> C(n)[n]]
  <1>4. ASSUME NEW k \in Nat, NEW n \in 0 .. k PROVE C(k)[n] = Sum(R, C(k), n)
    <2>1. Up(k, C(k))
      BY <1>3
    <2> HIDE DEF C
    <2> QED
      BY <2>1
  <1> HIDE DEF C
  <1>5. 0 \in T
    BY <1>4 DEF Sum
  <1>6. ASSUME NEW n \in Nat, n \in T PROVE n + 1 \in T
    <2> SUFFICES ASSUME NEW k \in Nat, n + 1 <= k PROVE C(k)[n + 1] = C(n + 1)[n + 1]
      OBVIOUS
    <2>1. C(k)[n + 1] = C(k)[n] + HeldIn(R[n + 1])
      BY <1>4 DEF Sum
    <2>2. C(n + 1)[n + 1] = C(n + 1)[n] + HeldIn(R[n + 1])
      BY <1>4 DEF Sum
    <2>3. C(k)[n] = C(n)[n] /\ C(n + 1)[n] = C(n)[n]
      BY <1>6
    <2> QED
      BY <2>1, <2>2, <2>3
  <1>7. Nat \subseteq T
    <2> HIDE DEF T
    <2> QED
      BY <1>5, <1>6, NatSetInduction
  <1>8. ASSUME NEW n \in Nat PROVE f[n] = Sum(R, f, n)
    <2>1. CASE n = 0
      BY <1>4, <2>1 DEF Sum
    <2>2. CASE n # 0
      <3>1. C(n)[n] = C(n)[n - 1] + HeldIn(R[n])
        BY <1>4, <2>2 DEF Sum
      <3>2. C(n)[n - 1] = C(n - 1)[n - 1] /\ n - 1 \in Nat
        BY <1>7, <2>2
      <3> QED
        BY <2>2, <3>1, <3>2 DEF Sum
    <2> QED
      BY <2>1, <2>2
  <1>9. f = [n \in Nat |-> f[n]]
    OBVIOUS
  <1> HIDE DEF f
  <1>10. f = [n \in Nat |-> Sum(R, f, n)]
    BY <1>8, <1>9
  <1> QED
    BY <1>10 DEF OperandsOf

(* Operands counts one record after the other. *)
LEMMA OperandsStep ==
  ASSUME NEW R
  PROVE  /\ OperandsOf(R)[0] = 0
         /\ \A n \in Nat \ {0} : OperandsOf(R)[n] = OperandsOf(R)[n - 1] + HeldIn(R[n])
  <1> DEFINE f == OperandsOf(R)
  <1>1. f = [n \in Nat |-> Sum(R, f, n)]
    BY OperandsUnfold
  <1> HIDE DEF f
  <1>2. \A n \in Nat : f[n] = Sum(R, f, n)
    BY <1>1, Zenon
  <1> QED
    BY <1>2 DEF Sum, f

(* What lies below is counted alike when the records below hold the same.  *)
LEMMA OperandsAgree ==
  ASSUME NEW R, NEW S, NEW k \in Nat, \A n \in 1 .. k : HeldIn(R[n]) = HeldIn(S[n])
  PROVE  \A n \in 0 .. k : OperandsOf(R)[n] = OperandsOf(S)[n]
  <1> DEFINE T == {n \in 0 .. k : OperandsOf(R)[n] = OperandsOf(S)[n]}
  <1>1. 0 \in T
    BY OperandsStep
  <1>2. ASSUME NEW n \in 0 .. k - 1, n \in T PROVE n + 1 \in T
    <2>1. n + 1 \in 1 .. k /\ n + 1 \in Nat \ {0} /\ (n + 1) - 1 = n
      OBVIOUS
    <2>2. /\ OperandsOf(R)[n + 1] = OperandsOf(R)[n] + HeldIn(R[n + 1])
          /\ OperandsOf(S)[n + 1] = OperandsOf(S)[n] + HeldIn(S[n + 1])
      BY <2>1, OperandsStep
    <2> QED
      BY <1>2, <2>1, <2>2
  <1> HIDE DEF T
  <1>3. 0 .. k \subseteq T
    BY <1>1, <1>2, BoundedInduction
  <1> QED
    BY <1>3 DEF T

(* Records hold no less than nothing. *)
LEMMA HeldType ==
  ASSUME NEW e \in Record
  PROVE  /\ HeldIn(e) \in Nat
         /\ e.k \in {"call", "frame", "do", "values", "set", "return"}
         /\ e.k = "call" => e \in Call /\ HeldIn(e) = e.i
         /\ e.k = "values" => e \in Values /\ HeldIn(e) = e.got
         /\ e.k = "frame" => e \in Frame
         /\ e.k = "do" => e \in Do
         /\ e.k = "return" => e \in [k : {"return"}, own : Site]
         /\ e.k \notin {"call", "values"} => HeldIn(e) = 0
  <1>1. CASE e \in Call
    BY <1>1 DEF Call, HeldIn
  <1>2. CASE e \in Values
    BY <1>2 DEF Values, HeldIn
  <1>3. CASE e \in Frame
    BY <1>3 DEF Frame, HeldIn
  <1>4. CASE e \in Do
    BY <1>4 DEF Do, HeldIn
  <1>5. CASE e \in [k : {"set"}]
    BY <1>5 DEF HeldIn
  <1>6. CASE e \in [k : {"return"}, own : Site]
    BY <1>6 DEF HeldIn
  <1> QED
    BY <1>1, <1>2, <1>3, <1>4, <1>5, <1>6 DEF Record, Pending

(* The operands of the records below are among all the operands.           *)
LEMMA OperandsMonotone ==
  ASSUME NEW R \in Seq(Record)
  PROVE  \A n \in 0 .. Len(R) : /\ OperandsOf(R)[n] \in Nat
                                /\ \A m \in 0 .. n : OperandsOf(R)[m] <= OperandsOf(R)[n]
  <1> DEFINE f == OperandsOf(R)
             T == {n \in 0 .. Len(R) : f[n] \in Nat /\ \A m \in 0 .. n : f[m] <= f[n] /\ f[m] \in Nat}
  <1>0. Len(R) \in Nat
    BY LenProperties
  <1>1. 0 \in T
    BY <1>0, OperandsStep
  <1>2. ASSUME NEW n \in 0 .. Len(R) - 1, n \in T PROVE n + 1 \in T
    <2>1. n + 1 \in 1 .. Len(R) /\ n + 1 \in Nat \ {0} /\ (n + 1) - 1 = n
      BY <1>0
    <2>2. f[n + 1] = f[n] + HeldIn(R[n + 1])
      BY <2>1, OperandsStep
    <2>3. R[n + 1] \in Record
      BY <2>1, ElementOfSeq
    <2>4. HeldIn(R[n + 1]) \in Nat
      BY <2>3, HeldType
    <2> HIDE DEF f
    <2>5. f[n + 1] \in Nat /\ f[n] <= f[n + 1] /\ f[n] \in Nat
      BY <1>2, <2>2, <2>4
    <2>6. \A m \in 0 .. n + 1 : m = n + 1 \/ m \in 0 .. n
      BY <2>1
    <2>7. ASSUME NEW m \in 0 .. n + 1 PROVE f[m] <= f[n + 1] /\ f[m] \in Nat
      <3>1. CASE m = n + 1
        BY <2>5, <3>1
      <3>2. CASE m \in 0 .. n
        BY <1>2, <2>5, <3>2
      <3> QED
        BY <2>6, <3>1, <3>2
    <2> QED
      BY <2>1, <2>5, <2>7
  <1> HIDE DEF T
  <1>3. 0 .. Len(R) \subseteq T
    BY <1>0, <1>1, <1>2, BoundedInduction
  <1> QED
    BY <1>3 DEF T

-----------------------------------------------------------------------------
(* The frames and the saved blocks, without a choice.                      *)

(* f is the innermost frame among the first n records of R, 0 if none. *)
IsFrameBelow(R, n, f) == /\ f \in 0 .. n
                         /\ f # 0 => R[f].k = "frame"
                         /\ \A j \in f + 1 .. n : R[j].k # "frame"

(* x is the block that was being evaluated above record i: the next record *)
(* that entered a block saved it, or it is the current block b.            *)
IsSaved(R, b, i, x) ==
    \A j \in i + 1 .. Len(R) + 1 :
        /\ j <= Len(R) => R[j].k \in Entered
        /\ \A m \in i + 1 .. j - 1 : R[m].k \notin Entered
        => x = IF j = Len(R) + 1 THEN b ELSE R[j].blk

WellStacked(R, f, b) ==
    /\ IsFrameBelow(R, Len(R), f)
    /\ IsSaved(R, b, 0, 0)
    /\ \A i \in 1 .. Len(R) :
          /\ R[i].k = "frame" => /\ IsFrameBelow(R, i - 1, R[i].prev)
                                 /\ IsSaved(R, b, i, R[i].site)
                                 /\ R[i].sp = OperandsOf(R)[i - 1]
          /\ R[i].k = "return" => IsSaved(R, b, i, R[i].own)

(* The model's FrameBelow chooses that frame. *)
LEMMA FrameBelowIs ==
  ASSUME NEW n \in Nat, NEW f
  PROVE  FrameBelow(n) = f <=> IsFrameBelow(rs, n, f)
  <1> DEFINE F == {i \in 1 .. n : rs[i].k = "frame"}
  <1>1. ASSUME NEW g, NEW h, IsFrameBelow(rs, n, g), IsFrameBelow(rs, n, h) PROVE g = h
    BY <1>1 DEF IsFrameBelow
  <1>2. IsFrameBelow(rs, n, FrameBelow(n))
    <2>1. CASE F = {}
      BY <2>1 DEF FrameBelow, IsFrameBelow
    <2>2. CASE F # {}
      <3>1. PICK i \in F : \A j \in F : j <= i
        <4>1. F \subseteq 0 .. n
          OBVIOUS
        <4> HIDE DEF F
        <4> QED
          BY <2>2, <4>1, GreatestOf
      <3>2. i \in 1 .. n /\ rs[i].k = "frame" /\ \A j \in (i + 1) .. n : rs[j].k # "frame"
        BY <3>1
      <3>3. /\ FrameBelow(n) \in 1 .. n /\ rs[FrameBelow(n)].k = "frame"
            /\ \A j \in (FrameBelow(n) + 1) .. n : rs[j].k # "frame"
        BY <3>2 DEF FrameBelow
      <3> QED
        BY <3>3 DEF IsFrameBelow
    <2> QED
      BY <2>1, <2>2
  <1> QED
    BY <1>1, <1>2

(* The model's Saved chooses that block. *)
LEMMA SavedIs ==
  ASSUME TypeOK, NEW i \in 0 .. Len(rs), NEW x
  PROVE  Saved(i) = x <=> IsSaved(rs, blk, i, x)
  <1> DEFINE L == Len(rs)
             E == {j \in (i + 1) .. L : rs[j].k \in Entered}
  <1>0. L \in Nat
    BY LenProperties DEF TypeOK
  <1> HIDE DEF L
  <1>1. CASE E = {}
    <2>1. Saved(i) = blk
      BY <1>1 DEF Saved, L
    <2>2. IsSaved(rs, blk, i, x) <=> x = blk
      <3>1. L + 1 \in i + 1 .. L + 1 /\ \A m \in i + 1 .. L : rs[m].k \notin Entered
        BY <1>0, <1>1 DEF L
      <3>2. IsSaved(rs, blk, i, x) => x = blk
        BY <1>0, <3>1 DEF IsSaved, L
      <3>3. x = blk => IsSaved(rs, blk, i, x)
        BY <1>0, <3>1 DEF IsSaved, L
      <3> QED
        BY <3>2, <3>3
    <2> QED
      BY <2>1, <2>2
  <1>2. CASE E # {}
    <2>1. PICK l \in E : \A j \in E : l <= j
      <3>1. E \subseteq Nat
        BY <1>0
      <3> HIDE DEF E
      <3> QED
        BY <1>2, <3>1, LeastOf
    <2> DEFINE Least(j) == rs[j].k \in Entered /\ \A m \in (i + 1) .. (j - 1) : rs[m].k \notin Entered
               c == CHOOSE j \in (i + 1) .. L : Least(j)
    <2>2. l \in (i + 1) .. L /\ Least(l)
      BY <1>0, <2>1
    <2>3. c \in (i + 1) .. L /\ Least(c)
      BY <2>2
    <2>4. Saved(i) = rs[c].blk
      BY <1>2 DEF Saved, L
    <2> HIDE DEF c
    <2>5. IsSaved(rs, blk, i, x) => x = rs[c].blk
      <3>1. c \in i + 1 .. L + 1 /\ c # L + 1
        BY <1>0, <2>3
      <3> QED
        BY <2>3, <3>1 DEF IsSaved, L
    <2>6. x = rs[c].blk => IsSaved(rs, blk, i, x)
      <3> SUFFICES ASSUME x = rs[c].blk, NEW j \in i + 1 .. L + 1,
                          j <= L => rs[j].k \in Entered,
                          \A m \in i + 1 .. j - 1 : rs[m].k \notin Entered
                   PROVE  x = IF j = L + 1 THEN blk ELSE rs[j].blk
        BY DEF IsSaved, L
      <3>1. j = c
        BY <1>0, <2>3
      <3> QED
        BY <1>0, <2>3, <3>1
    <2> QED
      BY <2>4, <2>5, <2>6
  <1> QED
    BY <1>1, <1>2

(* What the runs check of the frames and the blocks, said without choices. *)
LEMMA WellStackedIs ==
  ASSUME TypeOK
  PROVE  WellStacked(rs, frame, blk) <=>
            /\ FrameChainIsStack /\ BlkIsSaved
            /\ \A i \in 1 .. Len(rs) : rs[i].k = "frame" => rs[i].sp = Operands[i - 1]
  <1>1. Len(rs) \in Nat
    BY LenProperties DEF TypeOK
  <1>2. /\ FrameBelow(Len(rs)) = frame <=> IsFrameBelow(rs, Len(rs), frame)
        /\ \A i \in 1 .. Len(rs) : FrameBelow(i - 1) = rs[i].prev <=> IsFrameBelow(rs, i - 1, rs[i].prev)
    <2>1. \A i \in 1 .. Len(rs) : i - 1 \in Nat
      BY <1>1
    <2> QED
      BY <1>1, <2>1, FrameBelowIs
  <1>3. /\ Saved(0) = 0 <=> IsSaved(rs, blk, 0, 0)
        /\ \A i \in 1 .. Len(rs) : /\ Saved(i) = rs[i].site <=> IsSaved(rs, blk, i, rs[i].site)
                                   /\ Saved(i) = rs[i].own <=> IsSaved(rs, blk, i, rs[i].own)
    <2>1. 0 \in 0 .. Len(rs) /\ \A i \in 1 .. Len(rs) : i \in 0 .. Len(rs)
      BY <1>1
    <2> QED
      BY <2>1, SavedIs
  <1>4. \A i \in 1 .. Len(rs) : Operands[i - 1] = OperandsOf(rs)[i - 1]
    BY OperandsIs
  <1>5. FrameChainIsStack <=>
           /\ IsFrameBelow(rs, Len(rs), frame)
           /\ \A i \in 1 .. Len(rs) : rs[i].k = "frame" => IsFrameBelow(rs, i - 1, rs[i].prev)
    BY <1>2, Zenon DEF FrameChainIsStack
  <1>6. BlkIsSaved <=>
           /\ IsSaved(rs, blk, 0, 0)
           /\ \A i \in 1 .. Len(rs) : /\ rs[i].k = "frame" => IsSaved(rs, blk, i, rs[i].site)
                                      /\ rs[i].k = "return" => IsSaved(rs, blk, i, rs[i].own)
    BY <1>3, Zenon DEF BlkIsSaved
  <1> QED
    BY <1>4, <1>5, <1>6, Zenon DEF WellStacked

-----------------------------------------------------------------------------
(* What pushes, pops and cuts make of a return stack.                      *)

(* A record on top of others leaves what lies below as it was. *)
LEMMA Appended ==
  ASSUME NEW R \in Seq(Record), NEW e \in Record
  PROVE  /\ Append(R, e) \in Seq(Record) /\ Len(Append(R, e)) = Len(R) + 1 /\ Len(R) \in Nat
         /\ \A i \in 1 .. Len(R) : Append(R, e)[i] = R[i]
         /\ Append(R, e)[Len(R) + 1] = e
         /\ \A n \in 0 .. Len(R) : OperandsOf(Append(R, e))[n] = OperandsOf(R)[n]
         /\ OperandsOf(Append(R, e))[Len(R) + 1] = OperandsOf(R)[Len(R)] + HeldIn(e)
  <1> DEFINE S == Append(R, e)
  <1>1. /\ S \in Seq(Record) /\ Len(S) = Len(R) + 1 /\ Len(R) \in Nat
        /\ \A i \in 1 .. Len(R) : S[i] = R[i]
        /\ S[Len(R) + 1] = e
    BY AppendProperties, LenProperties
  <1> HIDE DEF S
  <1>2. \A n \in 0 .. Len(R) : OperandsOf(S)[n] = OperandsOf(R)[n]
    BY <1>1, OperandsAgree
  <1>3. OperandsOf(S)[Len(R) + 1] = OperandsOf(S)[Len(R)] + HeldIn(S[Len(R) + 1])
    <2>1. Len(R) + 1 \in Nat \ {0} /\ (Len(R) + 1) - 1 = Len(R)
      BY <1>1
    <2> QED
      BY <2>1, OperandsStep
  <1>4. Len(R) \in 0 .. Len(R)
    BY <1>1
  <1> QED
    BY <1>1, <1>2, <1>3, <1>4 DEF S

(* So does a cut. *)
LEMMA CutOff ==
  ASSUME NEW R \in Seq(Record), NEW t \in 1 .. Len(R)
  PROVE  /\ SubSeq(R, 1, t - 1) \in Seq(Record) /\ Len(SubSeq(R, 1, t - 1)) = t - 1
         /\ Len(R) \in Nat
         /\ \A i \in 1 .. t - 1 : SubSeq(R, 1, t - 1)[i] = R[i]
         /\ \A n \in 0 .. t - 1 : OperandsOf(SubSeq(R, 1, t - 1))[n] = OperandsOf(R)[n]
  <1> DEFINE S == SubSeq(R, 1, t - 1)
  <1>1. Len(R) \in Nat /\ t - 1 \in Nat
    BY LenProperties
  <1>2. \A i \in 1 .. t - 1 : R[i] \in Record
    BY <1>1, ElementOfSeq
  <1>3. /\ S \in Seq(Record) /\ Len(S) = t - 1
        /\ \A i \in 1 .. t - 1 : S[i] = R[i]
    <2>1. /\ S \in Seq(Record) /\ Len(S) = IF 1 <= t - 1 THEN (t - 1) - 1 + 1 ELSE 0
          /\ \A i \in 1 .. (t - 1) - 1 + 1 : S[i] = R[1 + i - 1]
      BY <1>1, <1>2, SubSeqProperties
    <2> HIDE DEF S
    <2> QED
      BY <1>1, <2>1
  <1> HIDE DEF S
  <1>4. \A n \in 0 .. t - 1 : OperandsOf(S)[n] = OperandsOf(R)[n]
    BY <1>1, <1>3, OperandsAgree
  <1> QED
    BY <1>1, <1>3, <1>4 DEF S

(* A record that enters no block and is no frame changes neither chain. *)
LEMMA PushPlain ==
  ASSUME NEW R \in Seq(Record), NEW e \in Record, NEW f, NEW b, WellStacked(R, f, b),
         e.k \in {"call", "set", "return"}, e.k = "return" => e.own = b
  PROVE  WellStacked(Append(R, e), f, b)
  <1> DEFINE S == Append(R, e)
             L == Len(R)
  <1>1. /\ L \in Nat /\ Len(S) = L + 1 /\ S[L + 1] = e
        /\ \A i \in 1 .. L : S[i] = R[i]
        /\ \A n \in 0 .. L : OperandsOf(S)[n] = OperandsOf(R)[n]
    BY Appended
  <1> HIDE DEF S, L
  <1>2. e.k \notin Entered /\ e.k # "frame"
    BY DEF Entered
  <1>3. ASSUME NEW i \in 0 .. L, NEW x, IsSaved(R, b, i, x) PROVE IsSaved(S, b, i, x)
    <2> SUFFICES ASSUME NEW j \in i + 1 .. L + 2,
                        j <= L + 1 => S[j].k \in Entered,
                        \A m \in i + 1 .. j - 1 : S[m].k \notin Entered
                 PROVE  x = IF j = L + 2 THEN b ELSE S[j].blk
      BY <1>1 DEF IsSaved
    <2>1. j # L + 1
      BY <1>1, <1>2
    <2>2. CASE j = L + 2
      <3>1. L + 1 \in i + 1 .. L + 1 /\ \A m \in i + 1 .. L : R[m].k \notin Entered
        BY <1>1, <2>2
      <3> QED
        BY <1>1, <1>3, <2>2, <3>1 DEF IsSaved, L
    <2>3. CASE j <= L
      <3>0. j \in 1 .. L /\ j \in i + 1 .. L + 1 /\ \A m \in i + 1 .. j - 1 : m \in 1 .. L
        BY <1>1, <2>3
      <3>1. /\ j \in 1 .. L /\ j \in i + 1 .. L + 1 /\ S[j] = R[j]
            /\ \A m \in i + 1 .. j - 1 : R[m].k \notin Entered
        <4>1. \A m \in i + 1 .. j - 1 : S[m] = R[m]
          BY <1>1, <3>0
        <4> QED
          BY <1>1, <3>0, <4>1
      <3>2. R[j].k \in Entered /\ j # L + 1
        BY <1>1, <2>3, <3>1
      <3>3. x = R[j].blk
        BY <1>3, <3>1, <3>2 DEF IsSaved, L
      <3> QED
        BY <1>1, <2>3, <3>1, <3>3
    <2> QED
      BY <1>1, <2>1, <2>2, <2>3
  <1>4. ASSUME NEW i \in 1 .. L, NEW x, IsFrameBelow(R, i - 1, x) PROVE IsFrameBelow(S, i - 1, x)
    BY <1>1, <1>4 DEF IsFrameBelow
  <1>5. IsFrameBelow(S, L + 1, f)
    <2>1. IsFrameBelow(R, L, f)
      BY DEF WellStacked, L
    <2> QED
      BY <1>1, <1>2, <2>1 DEF IsFrameBelow
  <1>6. IsSaved(S, b, 0, 0)
    BY <1>1, <1>3 DEF WellStacked
  <1>7. ASSUME e.k = "return" PROVE IsSaved(S, b, L + 1, e.own)
    BY <1>1, <1>7 DEF IsSaved
  <1>8. ASSUME NEW i \in 1 .. L + 1
        PROVE  /\ S[i].k = "frame" => /\ IsFrameBelow(S, i - 1, S[i].prev)
                                      /\ IsSaved(S, b, i, S[i].site)
                                      /\ S[i].sp = OperandsOf(S)[i - 1]
               /\ S[i].k = "return" => IsSaved(S, b, i, S[i].own)
    <2>1. CASE i = L + 1
      BY <1>1, <1>2, <1>7, <2>1
    <2>2. CASE i # L + 1
      <3>1. i \in 1 .. L /\ S[i] = R[i] /\ i \in 0 .. L /\ i - 1 \in 0 .. L
        BY <1>1, <2>2
      <3>2. /\ R[i].k = "frame" => /\ IsFrameBelow(R, i - 1, R[i].prev)
                                   /\ IsSaved(R, b, i, R[i].site)
                                   /\ R[i].sp = OperandsOf(R)[i - 1]
            /\ R[i].k = "return" => IsSaved(R, b, i, R[i].own)
        BY <3>1 DEF WellStacked, L
      <3> QED
        BY <1>1, <1>3, <1>4, <3>1, <3>2
    <2> QED
      BY <2>1, <2>2
  <1>9. WellStacked(S, f, b)
    BY <1>1, <1>5, <1>6, <1>8 DEF WellStacked
  <1> QED
    BY <1>9 DEF S

(* A routine that enters a block keeps the block below. *)
LEMMA PushEntered ==
  ASSUME NEW R \in Seq(Record), NEW e \in Record, NEW f, NEW b, NEW c, WellStacked(R, f, b),
         e.k \in {"do", "values", "frame"}, e.blk = b,
         e.k = "frame" => e.prev = f /\ e.site = c /\ e.sp = OperandsOf(R)[Len(R)]
  PROVE  WellStacked(Append(R, e), IF e.k = "frame" THEN Len(R) + 1 ELSE f, c)
  <1> DEFINE S == Append(R, e)
             L == Len(R)
             g == IF e.k = "frame" THEN Len(R) + 1 ELSE f
  <1>1. /\ L \in Nat /\ Len(S) = L + 1 /\ S[L + 1] = e
        /\ \A i \in 1 .. L : S[i] = R[i]
        /\ \A n \in 0 .. L : OperandsOf(S)[n] = OperandsOf(R)[n]
    BY Appended
  <1>2. g = IF e.k = "frame" THEN L + 1 ELSE f
    OBVIOUS
  <1> HIDE DEF S, L, g
  <1>3. e.k \in Entered
    BY DEF Entered
  <1>4. ASSUME NEW i \in 0 .. L, NEW x, IsSaved(R, b, i, x) PROVE IsSaved(S, c, i, x)
    <2> SUFFICES ASSUME NEW j \in i + 1 .. L + 2,
                        j <= L + 1 => S[j].k \in Entered,
                        \A m \in i + 1 .. j - 1 : S[m].k \notin Entered
                 PROVE  x = IF j = L + 2 THEN c ELSE S[j].blk
      BY <1>1 DEF IsSaved
    <2>1. j # L + 2
      BY <1>1, <1>3
    <2>2. CASE j = L + 1
      <3>1. L + 1 \in i + 1 .. L + 1 /\ \A m \in i + 1 .. L : R[m].k \notin Entered
        <4>1. L + 1 \in i + 1 .. L + 1
          BY <1>1
        <4>2. ASSUME NEW m \in i + 1 .. L
              PROVE  R[m].k \notin Entered
          <5>1. m \in 1 .. L /\ m \in i + 1 .. j - 1
            BY <1>1, <2>2
          <5>2. S[m] = R[m]
            BY <1>1, <5>1
          <5>3. S[m].k \notin Entered
            BY <5>1
          <5> QED
            BY <5>2, <5>3
        <4> QED
          BY <4>1, <4>2
      <3> QED
        BY <1>1, <1>4, <2>2, <3>1 DEF IsSaved, L
    <2>3. CASE j <= L
      <3>0. j \in 1 .. L /\ j \in i + 1 .. L + 1 /\ \A m \in i + 1 .. j - 1 : m \in 1 .. L
        BY <1>1, <2>3
      <3>1. /\ j \in 1 .. L /\ j \in i + 1 .. L + 1 /\ S[j] = R[j]
            /\ \A m \in i + 1 .. j - 1 : R[m].k \notin Entered
        <4>1. \A m \in i + 1 .. j - 1 : S[m] = R[m]
          BY <1>1, <3>0
        <4> QED
          BY <1>1, <3>0, <4>1
      <3>2. R[j].k \in Entered /\ j # L + 1
        BY <1>1, <2>3, <3>1
      <3>3. x = R[j].blk
        BY <1>4, <3>1, <3>2 DEF IsSaved, L
      <3> QED
        BY <1>1, <2>3, <3>1, <3>3
    <2> QED
      BY <1>1, <2>1, <2>2, <2>3
  <1>5. ASSUME NEW i \in 1 .. L + 1, NEW x, IsFrameBelow(R, i - 1, x) PROVE IsFrameBelow(S, i - 1, x)
    BY <1>1, <1>5 DEF IsFrameBelow
  <1>6. IsFrameBelow(R, L, f)
    BY DEF WellStacked, L
  <1>7. IsFrameBelow(S, L + 1, g)
    BY <1>1, <1>2, <1>6 DEF IsFrameBelow
  <1>8. IsSaved(S, c, 0, 0)
    BY <1>1, <1>4 DEF WellStacked
  <1>9. ASSUME e.k = "frame" PROVE IsSaved(S, c, L + 1, e.site)
    BY <1>1, <1>9 DEF IsSaved
  <1>10. ASSUME NEW i \in 1 .. L + 1
         PROVE  /\ S[i].k = "frame" => /\ IsFrameBelow(S, i - 1, S[i].prev)
                                       /\ IsSaved(S, c, i, S[i].site)
                                       /\ S[i].sp = OperandsOf(S)[i - 1]
                /\ S[i].k = "return" => IsSaved(S, c, i, S[i].own)
    <2>1. CASE i = L + 1
      <3>1. i - 1 = L /\ L + 1 \in 1 .. L + 1 /\ L \in 0 .. L /\ L + 1 - 1 = L
        BY <1>1, <2>1
      <3>2. ASSUME e.k = "frame" PROVE IsFrameBelow(S, L, e.prev)
        <4>1. IsFrameBelow(S, L + 1 - 1, f)
          BY <1>5, <1>6, <3>1
        <4> QED
          BY <3>1, <3>2, <4>1
      <3>3. ASSUME e.k = "frame" PROVE e.sp = OperandsOf(S)[L]
        BY <1>1, <3>1, <3>3 DEF L
      <3> QED
        BY <1>1, <1>9, <2>1, <3>1, <3>2, <3>3
    <2>2. CASE i # L + 1
      <3>1. i \in 1 .. L /\ S[i] = R[i] /\ i \in 0 .. L /\ i - 1 \in 0 .. L
        BY <1>1, <2>2
      <3>2. /\ R[i].k = "frame" => /\ IsFrameBelow(R, i - 1, R[i].prev)
                                   /\ IsSaved(R, b, i, R[i].site)
                                   /\ R[i].sp = OperandsOf(R)[i - 1]
            /\ R[i].k = "return" => IsSaved(R, b, i, R[i].own)
        BY <3>1 DEF WellStacked, L
      <3> QED
        BY <1>1, <1>4, <1>5, <3>1, <3>2
    <2> QED
      BY <2>1, <2>2
  <1>11. WellStacked(S, g, c)
    BY <1>1, <1>7, <1>8, <1>10 DEF WellStacked
  <1> QED
    BY <1>11 DEF S, g

(* To go back to below a record restores what that record saved: it entered *)
(* a block, or it is the topmost one and plain.                             *)
LEMMA CutRestores ==
  ASSUME NEW R \in Seq(Record), NEW f, NEW b, WellStacked(R, f, b), NEW t \in 1 .. Len(R),
         R[t].k \in Entered \/ t = Len(R),
         t # Len(R) => R[t].k = "frame"
  PROVE  WellStacked(SubSeq(R, 1, t - 1), IF R[t].k = "frame" THEN R[t].prev ELSE f,
                     IF R[t].k \in Entered THEN R[t].blk ELSE b)
  <1> DEFINE S == SubSeq(R, 1, t - 1)
             L == Len(R)
             g == IF R[t].k = "frame" THEN R[t].prev ELSE f
             c == IF R[t].k \in Entered THEN R[t].blk ELSE b
  <1>1. /\ L \in Nat /\ Len(S) = t - 1 /\ t \in 1 .. L
        /\ \A i \in 1 .. t - 1 : S[i] = R[i]
        /\ \A n \in 0 .. t - 1 : OperandsOf(S)[n] = OperandsOf(R)[n]
    BY CutOff
  <1>2. /\ g = IF R[t].k = "frame" THEN R[t].prev ELSE f
        /\ c = IF R[t].k \in Entered THEN R[t].blk ELSE b
    OBVIOUS
  <1>3. WellStacked(R, f, b) /\ (R[t].k \in Entered \/ t = L) /\ (t # L => R[t].k = "frame")
    OBVIOUS
  <1> HIDE DEF S, L, g, c
  <1>4. ASSUME NEW i \in 0 .. t - 1, NEW x, IsSaved(R, b, i, x) PROVE IsSaved(S, c, i, x)
    <2> SUFFICES ASSUME NEW j \in i + 1 .. t,
                        j <= t - 1 => S[j].k \in Entered,
                        \A m \in i + 1 .. j - 1 : S[m].k \notin Entered
                 PROVE  x = IF j = t THEN c ELSE S[j].blk
      BY <1>1 DEF IsSaved
    <2>1. \A m \in i + 1 .. j - 1 : R[m].k \notin Entered
      BY <1>1
    <2>2. CASE j = t /\ R[t].k \in Entered
      <3>1. j \in i + 1 .. L + 1 /\ j # L + 1
        BY <1>1
      <3> QED
        BY <1>2, <1>4, <2>1, <2>2, <3>1 DEF IsSaved, L
    <2>3. CASE j = t /\ R[t].k \notin Entered
      <3>1. t = L /\ L + 1 \in i + 1 .. L + 1
        BY <1>1, <1>3, <2>3
      <3>2. \A m \in i + 1 .. L : R[m].k \notin Entered
        <4>1. \A m \in i + 1 .. L : m = t \/ m \in i + 1 .. j - 1
          BY <1>1, <2>3, <3>1
        <4> QED
          BY <2>1, <2>3, <4>1
      <3>3. x = b
        BY <1>1, <1>4, <3>1, <3>2 DEF IsSaved, L
      <3> QED
        BY <1>2, <2>3, <3>3
    <2>4. CASE j # t
      <3>1. j \in 1 .. t - 1 /\ j \in i + 1 .. L + 1 /\ j # L + 1 /\ S[j] = R[j] /\ S[j].k \in Entered
        BY <1>1, <2>4
      <3> QED
        BY <1>4, <2>1, <2>4, <3>1 DEF IsSaved, L
    <2> QED
      BY <2>2, <2>3, <2>4
  <1>5. ASSUME NEW i \in 1 .. t, NEW x, IsFrameBelow(R, i - 1, x) PROVE IsFrameBelow(S, i - 1, x)
    BY <1>1, <1>5 DEF IsFrameBelow
  <1>6. IsFrameBelow(R, t - 1, g)
    <2>1. CASE R[t].k = "frame"
      BY <1>1, <1>2, <1>3, <2>1 DEF WellStacked, L
    <2>2. CASE R[t].k # "frame"
      <3>1. t = L /\ g = f /\ IsFrameBelow(R, L, f)
        BY <1>2, <1>3, <2>2 DEF WellStacked, L
      <3> QED
        BY <1>1, <2>2, <3>1 DEF IsFrameBelow
    <2> QED
      BY <2>1, <2>2
  <1>7. IsFrameBelow(S, t - 1, g)
    BY <1>1, <1>5, <1>6
  <1>8. IsSaved(S, c, 0, 0)
    BY <1>1, <1>3, <1>4 DEF WellStacked
  <1>9. ASSUME NEW i \in 1 .. t - 1
        PROVE  /\ S[i].k = "frame" => /\ IsFrameBelow(S, i - 1, S[i].prev)
                                      /\ IsSaved(S, c, i, S[i].site)
                                      /\ S[i].sp = OperandsOf(S)[i - 1]
               /\ S[i].k = "return" => IsSaved(S, c, i, S[i].own)
    <2>1. i \in 1 .. L /\ i \in 1 .. t /\ S[i] = R[i] /\ i \in 0 .. t - 1 /\ i - 1 \in 0 .. t - 1
      BY <1>1
    <2>2. /\ R[i].k = "frame" => /\ IsFrameBelow(R, i - 1, R[i].prev)
                                 /\ IsSaved(R, b, i, R[i].site)
                                 /\ R[i].sp = OperandsOf(R)[i - 1]
          /\ R[i].k = "return" => IsSaved(R, b, i, R[i].own)
      BY <1>3, <2>1 DEF WellStacked, L
    <2> QED
      BY <1>1, <1>4, <1>5, <2>1, <2>2
  <1>10. WellStacked(S, g, c)
    BY <1>1, <1>7, <1>8, <1>9 DEF WellStacked
  <1> QED
    BY <1>10 DEF S, g, c

(* The count in the topmost record is no part of either chain. *)
LEMMA BumpTop ==
  ASSUME NEW R \in Seq(Record), NEW f, NEW b, WellStacked(R, f, b), R # << >>,
         NEW e \in Record, e.k = R[Len(R)].k, e.k \in {"call", "values"},
         e.k = "values" => e.blk = R[Len(R)].blk
  PROVE  /\ [R EXCEPT ![Len(R)] = e] \in Seq(Record)
         /\ Len([R EXCEPT ![Len(R)] = e]) = Len(R) /\ Len(R) \in Nat \ {0}
         /\ [R EXCEPT ![Len(R)] = e][Len(R)] = e
         /\ \A i \in 1 .. Len(R) - 1 : [R EXCEPT ![Len(R)] = e][i] = R[i]
         /\ OperandsOf([R EXCEPT ![Len(R)] = e])[Len(R)] = OperandsOf(R)[Len(R) - 1] + HeldIn(e)
         /\ WellStacked([R EXCEPT ![Len(R)] = e], f, b)
  <1> DEFINE L == Len(R)
             S == [R EXCEPT ![Len(R)] = e]
  <1>1. L \in Nat \ {0} /\ L \in 1 .. Len(R)
    BY EmptySeq
  <1>2. /\ S \in Seq(Record) /\ Len(S) = L /\ S[L] = e
        /\ \A i \in 1 .. L - 1 : S[i] = R[i]
    <2>1. /\ S \in Seq(Record) /\ Len(S) = L
          /\ \A j \in 1 .. L : S[j] = IF j = L THEN e ELSE R[j]
      BY <1>1, ExceptSeq
    <2> HIDE DEF S, L
    <2> QED
      BY <1>1, <2>1
  <1>3. WellStacked(R, f, b) /\ e.k = R[L].k /\ e.k \in {"call", "values"}
        /\ (e.k = "values" => e.blk = R[L].blk)
    OBVIOUS
  <1> HIDE DEF S, L
  <1>4. \A n \in 0 .. L - 1 : OperandsOf(S)[n] = OperandsOf(R)[n]
    <2>1. L - 1 \in Nat /\ \A n \in 1 .. L - 1 : HeldIn(R[n]) = HeldIn(S[n])
      BY <1>1, <1>2
    <2>2. \A n \in 0 .. L - 1 : OperandsOf(R)[n] = OperandsOf(S)[n]
      BY <2>1, OperandsAgree
    <2> QED
      BY <2>2
  <1>5. OperandsOf(S)[L] = OperandsOf(R)[L - 1] + HeldIn(e)
    <2>1. OperandsOf(S)[L] = OperandsOf(S)[L - 1] + HeldIn(S[L])
      BY <1>1, OperandsStep
    <2> QED
      BY <1>1, <1>2, <1>4, <2>1
  <1>6. \A i \in 1 .. L : /\ S[i].k = R[i].k
                          /\ S[i].k \in Entered => S[i].blk = R[i].blk
                          /\ S[i].k \in {"frame", "return"} => S[i] = R[i]
    <2> SUFFICES ASSUME NEW i \in 1 .. L
                 PROVE  /\ S[i].k = R[i].k
                        /\ S[i].k \in Entered => S[i].blk = R[i].blk
                        /\ S[i].k \in {"frame", "return"} => S[i] = R[i]
      OBVIOUS
    <2>1. CASE i = L
      BY <1>2, <1>3, <2>1 DEF Entered
    <2>2. CASE i # L
      <3>1. i \in 1 .. L - 1
        BY <1>1, <2>2
      <3> QED
        BY <1>2, <3>1
    <2> QED
      BY <2>1, <2>2
  <1>7. ASSUME NEW i \in 0 .. L, NEW x, IsSaved(R, b, i, x) PROVE IsSaved(S, b, i, x)
    <2> SUFFICES ASSUME NEW j \in i + 1 .. L + 1,
                        j <= L => S[j].k \in Entered,
                        \A m \in i + 1 .. j - 1 : S[m].k \notin Entered
                 PROVE  x = IF j = L + 1 THEN b ELSE S[j].blk
      BY <1>2 DEF IsSaved
    <2>1. j <= L => R[j].k \in Entered /\ S[j].blk = R[j].blk
      BY <1>1, <1>6
    <2>2. \A m \in i + 1 .. j - 1 : R[m].k \notin Entered
      BY <1>1, <1>6
    <2>3. x = IF j = L + 1 THEN b ELSE R[j].blk
      BY <1>7, <2>1, <2>2 DEF IsSaved, L
    <2> QED
      BY <1>1, <2>1, <2>3
  <1>8. ASSUME NEW n \in 0 .. L, NEW x, IsFrameBelow(R, n, x) PROVE IsFrameBelow(S, n, x)
    BY <1>1, <1>6, <1>8 DEF IsFrameBelow
  <1>9. ASSUME NEW i \in 1 .. L
        PROVE  /\ S[i].k = "frame" => /\ IsFrameBelow(S, i - 1, S[i].prev)
                                      /\ IsSaved(S, b, i, S[i].site)
                                      /\ S[i].sp = OperandsOf(S)[i - 1]
               /\ S[i].k = "return" => IsSaved(S, b, i, S[i].own)
    <2>1. i \in 0 .. L /\ i - 1 \in 0 .. L /\ i - 1 \in 0 .. L - 1
      BY <1>1
    <2>2. /\ R[i].k = "frame" => /\ IsFrameBelow(R, i - 1, R[i].prev)
                                 /\ IsSaved(R, b, i, R[i].site)
                                 /\ R[i].sp = OperandsOf(R)[i - 1]
          /\ R[i].k = "return" => IsSaved(R, b, i, R[i].own)
      BY <1>3 DEF WellStacked, L
    <2> QED
      BY <1>4, <1>6, <1>7, <1>8, <2>1, <2>2
  <1>10. IsFrameBelow(S, L, f) /\ IsSaved(S, b, 0, 0)
    BY <1>1, <1>3, <1>7, <1>8 DEF WellStacked, L
  <1>11. WellStacked(S, f, b)
    BY <1>2, <1>9, <1>10 DEF WellStacked
  <1> QED
    BY <1>1, <1>2, <1>5, <1>11 DEF S, L

-----------------------------------------------------------------------------
(* The data stack.                                                         *)

(* The count on top of a stack and the set below it. *)
LEMMA ResultSet ==
  ASSUME NEW d \in Seq(Datum), Len(d) > 0, N(d) + 1 <= Len(d)
  PROVE  /\ N(d) \in Nat /\ Len(d) \in Nat \ {0}
         /\ Below(d) \in Seq(Datum) /\ Len(Below(d)) = Len(d) - N(d) - 1
         /\ Result(d) \in Seq(Datum) /\ Len(Result(d)) = N(d)
         /\ \A i \in 1 .. N(d) : Result(d)[i] = d[Len(d) - N(d) - 1 + i]
         /\ Reduced(d) \in Seq(Datum) /\ Len(Reduced(d)) = Len(d) - N(d)
  <1>1. Len(d) \in Nat \ {0}
    BY LenProperties
  <1>2. ASSUME NEW i \in 1 .. Len(d) PROVE d[i] \in Datum
    BY ElementOfSeq
  <1>3. N(d) \in Nat
    <2>1. d[Len(d)] \in Datum
      BY <1>1, <1>2
    <2> QED
      BY <2>1 DEF N, Datum
  <1> DEFINE L == Len(d)
             m == N(d)
  <1>4. L \in Nat \ {0} /\ m \in Nat /\ m + 1 <= L /\ L = Len(d) /\ m = N(d)
    BY <1>1, <1>3
  <1> HIDE DEF L, m
  <1>5. Below(d) \in Seq(Datum) /\ Len(Below(d)) = L - m - 1
    <2>1. 1 \in Int /\ L - m - 1 \in Int /\ \A i \in 1 .. L - m - 1 : d[i] \in Datum
      BY <1>2, <1>4
    <2>2. /\ SubSeq(d, 1, L - m - 1) \in Seq(Datum)
          /\ Len(SubSeq(d, 1, L - m - 1)) = IF 1 <= L - m - 1 THEN (L - m - 1) - 1 + 1 ELSE 0
      BY <2>1, SubSeqProperties
    <2> QED
      BY <1>4, <2>2 DEF Below
  <1>6. /\ Result(d) \in Seq(Datum) /\ Len(Result(d)) = m
        /\ \A i \in 1 .. m : Result(d)[i] = d[L - m - 1 + i]
    <2>1. L - m \in Int /\ L - 1 \in Int /\ \A i \in L - m .. L - 1 : d[i] \in Datum
      BY <1>2, <1>4
    <2>2. /\ SubSeq(d, L - m, L - 1) \in Seq(Datum)
          /\ Len(SubSeq(d, L - m, L - 1)) = IF L - m <= L - 1 THEN (L - 1) - (L - m) + 1 ELSE 0
          /\ \A i \in 1 .. (L - 1) - (L - m) + 1 : SubSeq(d, L - m, L - 1)[i] = d[L - m + i - 1]
      BY <2>1, SubSeqProperties
    <2>3. Result(d) = SubSeq(d, L - m, L - 1)
      BY <1>4 DEF Result
    <2>4. (L - 1) - (L - m) + 1 = m /\ \A i \in 1 .. m : L - m + i - 1 = L - m - 1 + i
      BY <1>4
    <2>5. Result(d) \in Seq(Datum) /\ \A i \in 1 .. m : Result(d)[i] = d[L - m - 1 + i]
      BY <2>2, <2>3, <2>4
    <2>6. Len(Result(d)) = m
      BY <1>4, <2>2, <2>3
    <2> QED
      BY <2>5, <2>6
  <1>7. Reduced(d) \in Seq(Datum) /\ Len(Reduced(d)) = L - m
    <2> DEFINE v == IF m = 0 THEN NONE ELSE Result(d)[1]
    <2>1. v \in Datum
      <3>1. CASE m = 0
        BY <3>1 DEF Datum, NONE, Val
      <3>2. CASE m # 0
        <4>1. 1 \in 1 .. Len(Result(d))
          BY <1>4, <1>6, <3>2
        <4> QED
          BY <1>6, <3>2, <4>1, ElementOfSeq
      <3> QED
        BY <3>1, <3>2
    <2>2. Reduced(d) = Append(Below(d), v)
      BY <1>4 DEF Reduced
    <2> HIDE DEF v
    <2>3. Append(Below(d), v) \in Seq(Datum) /\ Len(Append(Below(d), v)) = Len(Below(d)) + 1
      BY <1>5, <2>1, AppendProperties
    <2> QED
      BY <1>4, <1>5, <2>2, <2>3
  <1> QED
    BY <1>4, <1>5, <1>6, <1>7

(* A count pushed on a stack makes what lies under it a result set. *)
LEMMA CountPushed ==
  ASSUME NEW d \in Seq(Datum), NEW n \in Nat
  PROVE  /\ Append(d, Count(n)) \in Seq(Datum) /\ Len(Append(d, Count(n))) = Len(d) + 1
         /\ Len(d) \in Nat /\ N(Append(d, Count(n))) = n
         /\ Append(d, Count(n))[Len(Append(d, Count(n)))][1] = "count"
  <1>1. Count(n) \in Datum
    BY DEF Count, Datum
  <1>2. /\ Append(d, Count(n)) \in Seq(Datum) /\ Len(Append(d, Count(n))) = Len(d) + 1
        /\ Append(d, Count(n))[Len(d) + 1] = Count(n) /\ Len(d) \in Nat
    BY <1>1, AppendProperties, LenProperties
  <1> QED
    BY <1>2 DEF N, Count

(* A literal, or the NONE of an empty block, is a set of one. *)
LEMMA LiteralPushed ==
  ASSUME NEW d \in Seq(Datum), NEW v \in Nat
  PROVE  d \o <<Val(v), Count(1)>> = Append(Append(d, Val(v)), Count(1)) /\ Append(d, Val(v)) \in Seq(Datum)
         /\ Len(Append(d, Val(v))) = Len(d) + 1
  <1>1. Val(v) \in Datum /\ Count(1) \in Datum
    BY DEF Val, Count, Datum
  <1>2. Append(d, Val(v)) \in Seq(Datum) /\ Len(Append(d, Val(v))) = Len(d) + 1
    BY <1>1, AppendProperties
  <1>3. /\ Append(d, Val(v)) = d \o <<Val(v)>>
        /\ Append(Append(d, Val(v)), Count(1)) = Append(d, Val(v)) \o <<Count(1)>>
    BY <1>1, <1>2, AppendIsConcat
  <1>4. <<Val(v)>> \in Seq(Datum) /\ <<Count(1)>> \in Seq(Datum)
    BY <1>1
  <1>5. (d \o <<Val(v)>>) \o <<Count(1)>> = d \o (<<Val(v)>> \o <<Count(1)>>)
    BY <1>4, ConcatAssociative
  <1>6. <<Val(v)>> \o <<Count(1)>> = <<Val(v), Count(1)>>
    <2> DEFINE a == Val(v)
               c == Count(1)
    <2>1. a \in Datum /\ c \in Datum
      BY <1>1
    <2> HIDE DEF a, c
    <2>2. /\ <<a>> \in Seq(Datum) /\ <<c>> \in Seq(Datum) /\ <<a, c>> \in Seq(Datum)
          /\ Len(<<a>>) = 1 /\ Len(<<c>>) = 1 /\ Len(<<a, c>>) = 2
      BY <2>1
    <2>3. /\ <<a>> \o <<c>> \in Seq(Datum) /\ Len(<<a>> \o <<c>>) = 2
          /\ \A i \in 1 .. 2 : (<<a>> \o <<c>>)[i] = IF i <= 1 THEN <<a>>[i] ELSE <<c>>[i - 1]
      BY <2>2, ConcatProperties
    <2>4. \A i \in 1 .. 2 : (<<a>> \o <<c>>)[i] = <<a, c>>[i]
      BY <2>3
    <2>5. <<a>> \o <<c>> = <<a, c>>
      BY <2>2, <2>3, <2>4, SeqEqual
    <2> QED
      BY <2>5 DEF a, c
  <1> QED
    BY <1>2, <1>3, <1>5, <1>6

(* What a return pushes again is the result set it popped. *)
LEMMA SetReplaced ==
  ASSUME NEW d \in Seq(Datum), ds \in Seq(Datum), Len(ds) > 0, N(ds) + 1 <= Len(ds)
  PROVE  /\ Replaced(d) \in Seq(Datum) /\ Len(Replaced(d)) = Len(d) + N(ds) + 1
         /\ Len(d) \in Nat /\ Replaced(d)[Len(Replaced(d))][1] = "count"
         /\ N(Replaced(d)) = N(ds) /\ Result(Replaced(d)) = Result(ds)
  <1> DEFINE m == N(ds)
             L == Len(ds)
             r == [i \in 1 .. N(ds) |-> Buffer[N(ds) - i]]
             D == Replaced(d)
  <1>1. /\ m \in Nat /\ L \in Nat \ {0} /\ m + 1 <= L
        /\ Result(ds) \in Seq(Datum) /\ Len(Result(ds)) = m
        /\ \A i \in 1 .. m : Result(ds)[i] = ds[L - m - 1 + i]
    BY ResultSet
  <1>2. r = Result(ds)
    <2>1. Result(ds) = [i \in 1 .. m |-> Result(ds)[i]]
      BY <1>1, LenProperties
    <2>2. ASSUME NEW i \in 1 .. m PROVE r[i] = ds[L - m - 1 + i]
      <3>1. m - i \in 0 .. m - 1 /\ L - 1 - (m - i) = L - m - 1 + i
        BY <1>1
      <3>2. Buffer[m - i] = ds[L - 1 - (m - i)]
        BY <3>1 DEF Buffer
      <3>3. r[i] = Buffer[m - i]
        OBVIOUS
      <3> QED
        BY <3>1, <3>2, <3>3
    <2>3. r = [i \in 1 .. m |-> r[i]]
      OBVIOUS
    <2> HIDE DEF r, m, L
    <2> QED
      BY <1>1, <2>1, <2>2, <2>3
  <1>3. D = (d \o Result(ds)) \o <<Count(m)>>
    BY <1>2 DEF Replaced
  <1> HIDE DEF m, L, r, D
  <1>4. Count(m) \in Datum /\ Count(m)[1] = "count" /\ Count(m)[2] = m
    BY <1>1 DEF Count, Datum
  <1>5. /\ d \o Result(ds) \in Seq(Datum) /\ Len(d \o Result(ds)) = Len(d) + m
        /\ \A i \in 1 .. Len(d) + m : (d \o Result(ds))[i] = IF i <= Len(d) THEN d[i] ELSE Result(ds)[i - Len(d)]
        /\ Len(d) \in Nat
    BY <1>1, ConcatProperties, LenProperties
  <1>6. D = Append(d \o Result(ds), Count(m))
    BY <1>3, <1>4, <1>5, AppendIsConcat
  <1>7. /\ D \in Seq(Datum) /\ Len(D) = Len(d) + m + 1
        /\ \A i \in 1 .. Len(d) + m : D[i] = (d \o Result(ds))[i]
        /\ D[Len(d) + m + 1] = Count(m)
    BY <1>4, <1>5, <1>6, AppendProperties
  <1>8. N(D) = m /\ D[Len(D)][1] = "count"
    BY <1>4, <1>7 DEF N
  <1>9. /\ Result(D) \in Seq(Datum) /\ Len(Result(D)) = m
        /\ \A i \in 1 .. m : Result(D)[i] = D[Len(D) - m - 1 + i]
    <2>1. Len(D) > 0 /\ N(D) + 1 <= Len(D)
      BY <1>1, <1>5, <1>7, <1>8
    <2> QED
      BY <1>7, <1>8, <2>1, ResultSet
  <1>10. ASSUME NEW i \in 1 .. m PROVE Result(D)[i] = Result(ds)[i]
    <2>1. Len(D) - m - 1 + i = Len(d) + i /\ Len(d) + i \in 1 .. Len(d) + m
          /\ ~ (Len(d) + i <= Len(d)) /\ Len(d) + i - Len(d) = i
      BY <1>1, <1>5, <1>7
    <2>2. D[Len(d) + i] = Result(ds)[i]
      BY <1>5, <1>7, <2>1
    <2> QED
      BY <1>9, <2>1, <2>2
  <1>11. Result(D) = Result(ds)
    BY <1>1, <1>9, <1>10, SeqEqual
  <1> QED
    BY <1>5, <1>7, <1>8, <1>11 DEF D, m

(* A cut of the data stack. *)
LEMMA DataCut ==
  ASSUME NEW d \in Seq(Datum), NEW n \in 0 .. Len(d)
  PROVE  SubSeq(d, 1, n) \in Seq(Datum) /\ Len(SubSeq(d, 1, n)) = n
  <1>1. Len(d) \in Nat /\ \A i \in 1 .. n : d[i] \in Datum
    <2>1. Len(d) \in Nat
      BY LenProperties
    <2>2. \A i \in 1 .. n : i \in 1 .. Len(d)
      BY <2>1
    <2> QED
      BY <2>1, <2>2, ElementOfSeq
  <1>2. /\ SubSeq(d, 1, n) \in Seq(Datum)
        /\ Len(SubSeq(d, 1, n)) = IF 1 <= n THEN n - 1 + 1 ELSE 0
    BY <1>1, SubSeqProperties
  <1> QED
    BY <1>1, <1>2

-----------------------------------------------------------------------------
(* The inductive invariant, over the values of the variables.              *)

(* The operands of the routines under way and the result set. *)
DataFits(R, d, p) ==
    /\ p \in {"expr", "next", "enter"} => Len(d) = OperandsOf(R)[Len(R)]
    /\ p \in {"done", "last"} => /\ Len(d) > 0 /\ d[Len(d)][1] = "count"
                                 /\ Len(d) = OperandsOf(R)[Len(R)] + N(d) + 1

(* A body is entered by a call with all its arguments. *)
ReadyToEnter(R, p) ==
    p = "enter" => R # <<>> /\ R[Len(R)].k = "call" /\ R[Len(R)].i = R[Len(R)].arity

(* RV_NVALS is the count of the one VALUES under way. *)
ValuesCounted(R, n) ==
    \A i \in 1 .. Len(R) : R[i].k = "values" => /\ R[i].got = n
                                                /\ \A j \in 1 .. Len(R) : R[j].k = "values" => j = i

Sound ==
    /\ TypeOK
    /\ WellStacked(rs, frame, blk)
    /\ DataFits(rs, ds, pc)
    /\ ReadyToEnter(rs, pc)
    /\ ValuesCounted(rs, nvals)

(* What the invariant says of the values, with the types by their names. *)
LEMMA SoundIs ==
  ASSUME Sound
  PROVE  /\ rs \in Seq(Record) /\ ds \in Seq(Datum) /\ frame \in Nat /\ blk \in Block
         /\ site \in Block \cup {HashMin} /\ nvals \in Nat
         /\ Len(rs) \in Nat /\ Len(ds) \in Nat
         /\ OperandsOf(rs)[Len(rs)] \in Nat
         /\ WellStacked(rs, frame, blk) /\ DataFits(rs, ds, pc) /\ ReadyToEnter(rs, pc)
         /\ ValuesCounted(rs, nvals)
  <1>1. rs \in Seq(Record) /\ ds \in Seq(Datum)
    BY DEF Sound, TypeOK, Record, Datum
  <1>2. Len(rs) \in Nat /\ Len(ds) \in Nat
    BY <1>1, LenProperties
  <1>3. OperandsOf(rs)[Len(rs)] \in Nat
    <2>1. Len(rs) \in 0 .. Len(rs)
      BY <1>2
    <2> QED
      BY <1>1, <2>1, OperandsMonotone
  <1> QED
    BY <1>1, <1>2, <1>3 DEF Sound, TypeOK

(* A result set lies on its operands. *)
LEMMA SetIsThere ==
  ASSUME Sound, Done
  PROVE  /\ Len(ds) > 0 /\ N(ds) + 1 <= Len(ds) /\ N(ds) \in Nat
         /\ Len(ds) = OperandsOf(rs)[Len(rs)] + N(ds) + 1
  <1>1. /\ ds \in Seq(Datum) /\ Len(ds) \in Nat /\ OperandsOf(rs)[Len(rs)] \in Nat
        /\ Len(ds) > 0 /\ Len(ds) = OperandsOf(rs)[Len(rs)] + N(ds) + 1
    BY SoundIs DEF DataFits, Done
  <1>2. ds[Len(ds)] \in Datum
    <2>1. Len(ds) \in 1 .. Len(ds)
      BY <1>1
    <2> QED
      BY <1>1, <2>1, ElementOfSeq
  <1>3. N(ds) \in Nat
    BY <1>2 DEF N, Datum
  <1> QED
    BY <1>1, <1>3

(* The invariant after a step, from what it says of the new values. *)
LEMMA SoundAgain ==
  ASSUME rs' \in Seq(Record), ds' \in Seq(Datum), frame' \in Nat, blk' \in Block,
         site' \in Block \cup {HashMin}, nvals' \in Nat,
         pc' \in {"expr", "next", "done", "last", "enter", "halt"},
         WellStacked(rs', frame', blk'), DataFits(rs', ds', pc'), ReadyToEnter(rs', pc'),
         ValuesCounted(rs', nvals')
  PROVE  Sound'
  BY DEF Sound, TypeOK, Record, Datum

(* The topmost record and what it holds. *)
LEMMA TopIs ==
  ASSUME NEW R \in Seq(Record), R # <<>>
  PROVE  /\ Len(R) \in Nat \ {0} /\ Len(R) \in 1 .. Len(R) /\ R[Len(R)] \in Record
         /\ OperandsOf(R)[Len(R) - 1] \in Nat /\ HeldIn(R[Len(R)]) \in Nat
         /\ OperandsOf(R)[Len(R)] = OperandsOf(R)[Len(R) - 1] + HeldIn(R[Len(R)])
  <1>1. Len(R) \in Nat \ {0} /\ Len(R) \in 1 .. Len(R)
    BY EmptySeq
  <1>2. R[Len(R)] \in Record
    BY <1>1, ElementOfSeq
  <1>3. OperandsOf(R)[Len(R) - 1] \in Nat
    <2>1. Len(R) - 1 \in 0 .. Len(R)
      BY <1>1
    <2> QED
      BY <2>1, OperandsMonotone
  <1> QED
    BY <1>1, <1>2, <1>3, HeldType, OperandsStep

(* A new record holds nothing yet. *)
LEMMA PushKeeps ==
  ASSUME NEW R \in Seq(Record), NEW e \in Record, NEW d, NEW n, NEW p \in {"expr", "next", "enter"},
         HeldIn(e) = 0, e.k = "values" => n = 0 /\ \A i \in 1 .. Len(R) : R[i].k # "values",
         Len(d) = OperandsOf(R)[Len(R)],
         NEW m, ValuesCounted(R, m), e.k # "values" => m = n
  PROVE  DataFits(Append(R, e), d, p) /\ ValuesCounted(Append(R, e), n)
  <1> DEFINE S == Append(R, e)
             L == Len(R)
  <1>1. /\ L \in Nat /\ Len(S) = L + 1 /\ S[L + 1] = e
        /\ \A i \in 1 .. L : S[i] = R[i]
        /\ OperandsOf(S)[L + 1] = OperandsOf(R)[L] + HeldIn(e)
    BY Appended
  <1>2. OperandsOf(R)[L] \in Nat
    <2>1. L \in 0 .. Len(R)
      BY <1>1
    <2> QED
      BY <2>1, OperandsMonotone
  <1>3. /\ HeldIn(e) = 0 /\ Len(d) = OperandsOf(R)[L]
        /\ e.k = "values" => n = 0 /\ \A i \in 1 .. L : R[i].k # "values"
        /\ e.k # "values" => m = n
        /\ \A i \in 1 .. L : R[i].k = "values" => /\ R[i].got = m
                                                  /\ \A j \in 1 .. L : R[j].k = "values" => j = i
    BY DEF ValuesCounted
  <1>4. e.k = "values" => e.got = 0
    BY <1>3, HeldType
  <1> HIDE DEF S, L
  <1>5. DataFits(S, d, p)
    BY <1>1, <1>2, <1>3 DEF DataFits
  <1>6. ValuesCounted(S, n)
    <2> SUFFICES ASSUME NEW i \in 1 .. L + 1, S[i].k = "values"
                 PROVE  S[i].got = n /\ \A j \in 1 .. L + 1 : S[j].k = "values" => j = i
      BY <1>1 DEF ValuesCounted
    <2>1. \A j \in 1 .. L + 1 : j = L + 1 \/ j \in 1 .. L
      BY <1>1
    <2>2. CASE e.k = "values"
      <3>1. \A j \in 1 .. L + 1 : S[j].k = "values" => j = L + 1
        BY <1>1, <1>3, <2>1, <2>2
      <3> QED
        BY <1>1, <1>3, <1>4, <2>2, <3>1
    <2>3. CASE e.k # "values"
      <3>1. \A j \in 1 .. L + 1 : S[j].k = "values" => j \in 1 .. L /\ R[j].k = "values" /\ S[j] = R[j]
        BY <1>1, <2>1, <2>3
      <3> QED
        BY <1>3, <2>3, <3>1
    <2> QED
      BY <2>2, <2>3
  <1> QED
    BY <1>5, <1>6 DEF S

(* A cut keeps the count. *)
LEMMA CutCounted ==
  ASSUME NEW R \in Seq(Record), NEW t \in 1 .. Len(R), NEW n, ValuesCounted(R, n)
  PROVE  ValuesCounted(SubSeq(R, 1, t - 1), n)
  <1> DEFINE S == SubSeq(R, 1, t - 1)
  <1>1. /\ Len(R) \in Nat /\ Len(S) = t - 1 /\ \A i \in 1 .. t - 1 : S[i] = R[i]
    BY CutOff
  <1> HIDE DEF S
  <1>2. \A i \in 1 .. Len(S) : i \in 1 .. Len(R) /\ S[i] = R[i]
    BY <1>1
  <1>3. ValuesCounted(S, n)
    BY <1>2 DEF ValuesCounted
  <1> QED
    BY <1>3 DEF S

(* The end of a routine restores what it saved and takes what it held. *)
LEMMA PopKeeps ==
  ASSUME NEW R \in Seq(Record), R # <<>>, NEW f, NEW b, NEW n, WellStacked(R, f, b), ValuesCounted(R, n)
  PROVE  /\ SubSeq(R, 1, Len(R) - 1) \in Seq(Record) /\ Len(SubSeq(R, 1, Len(R) - 1)) = Len(R) - 1
         /\ WellStacked(SubSeq(R, 1, Len(R) - 1),
                        IF R[Len(R)].k = "frame" THEN R[Len(R)].prev ELSE f,
                        IF R[Len(R)].k \in Entered THEN R[Len(R)].blk ELSE b)
         /\ ValuesCounted(SubSeq(R, 1, Len(R) - 1), n)
         /\ OperandsOf(SubSeq(R, 1, Len(R) - 1))[Len(R) - 1] = OperandsOf(R)[Len(R) - 1]
  <1>1. Len(R) \in Nat \ {0} /\ Len(R) \in 1 .. Len(R)
    BY TopIs
  <1>2. /\ SubSeq(R, 1, Len(R) - 1) \in Seq(Record) /\ Len(SubSeq(R, 1, Len(R) - 1)) = Len(R) - 1
        /\ \A m \in 0 .. Len(R) - 1 : OperandsOf(SubSeq(R, 1, Len(R) - 1))[m] = OperandsOf(R)[m]
    BY <1>1, CutOff
  <1>3. Len(R) - 1 \in 0 .. Len(R) - 1
    BY <1>1
  <1>4. WellStacked(SubSeq(R, 1, Len(R) - 1),
                    IF R[Len(R)].k = "frame" THEN R[Len(R)].prev ELSE f,
                    IF R[Len(R)].k \in Entered THEN R[Len(R)].blk ELSE b)
    BY <1>1, CutRestores
  <1>5. ValuesCounted(SubSeq(R, 1, Len(R) - 1), n)
    BY <1>1, CutCounted
  <1> QED
    BY <1>2, <1>3, <1>4, <1>5

(* The chain from RV_FRAME leads through frames of the stack only. *)
LEMMA ChainIsFrames ==
  ASSUME Sound
  PROVE  \A i \in Chain : i \in 1 .. Len(rs) /\ rs[i].k = "frame"
  <1> DEFINE V == {0} \cup {i \in 1 .. Len(rs) : rs[i].k = "frame"}
             prev(i) == IF i = 0 THEN 0 ELSE rs[i].prev
             G == [p \in Nat \X V |-> prev(p[2])]
             link == CHOOSE c : c = [n \in Nat |-> IF n = 0 THEN frame
                                                   ELSE IF c[n - 1] = 0 THEN 0 ELSE rs[c[n - 1]].prev]
  <1>1. Len(rs) \in Nat /\ WellStacked(rs, frame, blk)
    BY SoundIs
  <1>2. frame \in V
    BY <1>1 DEF WellStacked, IsFrameBelow
  <1>3. ASSUME NEW v \in V PROVE prev(v) \in V
    <2>1. CASE v = 0
      BY <2>1
    <2>2. CASE v # 0
      <3>1. v \in 1 .. Len(rs) /\ rs[v].k = "frame"
        BY <2>2
      <3>2. IsFrameBelow(rs, v - 1, rs[v].prev)
        BY <1>1, <3>1 DEF WellStacked
      <3>3. rs[v].prev \in 0 .. v - 1 /\ (rs[v].prev # 0 => rs[rs[v].prev].k = "frame")
        BY <3>2 DEF IsFrameBelow
      <3>4. rs[v].prev = 0 \/ rs[v].prev \in 1 .. Len(rs)
        BY <1>1, <3>1, <3>3
      <3> QED
        BY <2>2, <3>3, <3>4
    <2> QED
      BY <2>1, <2>2
  <1>4. PICK g : IsRecursion(g, frame, G)
    <2> HIDE DEF G
    <2> QED
      BY PrimitiveRecursion
  <1>5. /\ g = [n \in Nat |-> g[n]]
        /\ \A n \in Nat : g[n] = IF n = 0 THEN frame ELSE G[<<n, g[n - 1]>>]
    <2> HIDE DEF G
    <2> QED
      BY <1>4, Zenon DEF IsRecursion
  <1>6. \A n \in Nat, v \in V : G[<<n, v>>] = prev(v)
    <2> HIDE DEF V
    <2> QED
      OBVIOUS
  <1> HIDE DEF V, G
  <1>7. Nat \subseteq {n \in Nat : g[n] \in V}
    <2> DEFINE S == {n \in Nat : g[n] \in V}
    <2>1. 0 \in S
      BY <1>2, <1>5
    <2>2. ASSUME NEW n \in Nat, n \in S PROVE n + 1 \in S
      <3>1. n + 1 \in Nat /\ n + 1 # 0 /\ (n + 1) - 1 = n
        OBVIOUS
      <3>2. g[n + 1] = G[<<n + 1, g[n]>>]
        BY <1>5, <3>1
      <3>3. g[n + 1] = prev(g[n])
        BY <1>6, <2>2, <3>1, <3>2
      <3> QED
        BY <1>3, <2>2, <3>1, <3>3
    <2> HIDE DEF S
    <2>3. Nat \subseteq S
      BY <2>1, <2>2, NatSetInduction
    <2> QED
      BY <2>3 DEF S
  <1>8. ASSUME NEW n \in Nat
        PROVE  g[n] = IF n = 0 THEN frame ELSE IF g[n - 1] = 0 THEN 0 ELSE rs[g[n - 1]].prev
    <2>1. CASE n = 0
      BY <1>5, <2>1
    <2>2. CASE n # 0
      <3>1. n - 1 \in Nat
        BY <2>2
      <3>2. g[n] = G[<<n, g[n - 1]>>] /\ g[n - 1] \in V
        BY <1>5, <1>7, <2>2, <3>1
      <3> QED
        BY <1>6, <2>2, <3>2
    <2> QED
      BY <2>1, <2>2
  <1>9. g = [n \in Nat |-> g[n]]
    BY <1>5, Zenon
  <1>10. g = [n \in Nat |-> IF n = 0 THEN frame ELSE IF g[n - 1] = 0 THEN 0 ELSE rs[g[n - 1]].prev]
    BY <1>8, <1>9
  <1>11. link = [n \in Nat |-> IF n = 0 THEN frame ELSE IF link[n - 1] = 0 THEN 0 ELSE rs[link[n - 1]].prev]
    BY <1>10
  <1> HIDE DEF link
  <1>12. \A n \in Nat : link[n] = IF n = 0 THEN frame ELSE IF link[n - 1] = 0 THEN 0 ELSE rs[link[n - 1]].prev
    BY <1>11, Zenon
  <1>13. Nat \subseteq {n \in Nat : link[n] \in V}
    <2> DEFINE S == {n \in Nat : link[n] \in V}
    <2>1. 0 \in S
      BY <1>2, <1>12
    <2>2. ASSUME NEW n \in Nat, n \in S PROVE n + 1 \in S
      <3>1. n + 1 \in Nat /\ n + 1 # 0 /\ (n + 1) - 1 = n
        OBVIOUS
      <3>2. link[n + 1] = prev(link[n])
        BY <1>12, <3>1
      <3> QED
        BY <1>3, <2>2, <3>1, <3>2
    <2> HIDE DEF S
    <2>3. Nat \subseteq S
      BY <2>1, <2>2, NatSetInduction
    <2> QED
      BY <2>3 DEF S
  <1>14. Chain = {link[n] : n \in 0 .. Len(rs)} \ {0}
    BY DEF Chain, link
  <1>15. \A n \in 0 .. Len(rs) : n \in Nat
    BY <1>1
  <1> QED
    BY <1>13, <1>14, <1>15 DEF V

-----------------------------------------------------------------------------
(* Every step keeps the invariant.                                         *)

(* A literal is a result set of one on the operands. *)
LEMMA LiteralKeeps ==
  ASSUME Sound, NEW v \in Value, Literal(v)
  PROVE  Sound'
  <1>1. v \in Nat
    BY ActivationsAssumption
  <1> DEFINE d == Append(ds, Val(v))
  <1>2. /\ ds' = Append(d, Count(1)) /\ d \in Seq(Datum) /\ Len(d) = Len(ds) + 1
    BY <1>1, SoundIs, LiteralPushed DEF Literal
  <1> HIDE DEF d
  <1>3. /\ ds' \in Seq(Datum) /\ Len(ds') = Len(d) + 1 /\ N(ds') = 1 /\ ds'[Len(ds')][1] = "count"
    BY <1>2, CountPushed
  <1>4. Len(ds) = OperandsOf(rs)[Len(rs)] /\ OperandsOf(rs)[Len(rs)] \in Nat
    BY SoundIs DEF DataFits, Literal, Starting
  <1>5. rs' = rs /\ frame' = frame /\ blk' = blk /\ site' = site /\ nvals' = nvals /\ pc' = "done"
    BY DEF Literal
  <1>6. DataFits(rs', ds', pc')
    BY <1>2, <1>3, <1>4, <1>5 DEF DataFits
  <1>7. ReadyToEnter(rs', pc')
    BY <1>5 DEF ReadyToEnter
  <1> QED
    BY <1>3, <1>5, <1>6, <1>7, SoundIs, SoundAgain

(* An empty block's NONE likewise. *)
LEMMA EmptyBlockKeeps ==
  ASSUME Sound, EmptyBlock
  PROVE  Sound'
  <1> DEFINE d == Append(ds, Val(0))
  <1>2. /\ ds' = Append(d, Count(1)) /\ d \in Seq(Datum) /\ Len(d) = Len(ds) + 1
    BY SoundIs, LiteralPushed DEF EmptyBlock, NONE
  <1> HIDE DEF d
  <1>3. /\ ds' \in Seq(Datum) /\ Len(ds') = Len(d) + 1 /\ N(ds') = 1 /\ ds'[Len(ds')][1] = "count"
    BY <1>2, CountPushed
  <1>4. Len(ds) = OperandsOf(rs)[Len(rs)] /\ OperandsOf(rs)[Len(rs)] \in Nat
    BY SoundIs DEF DataFits, EmptyBlock
  <1>5. rs' = rs /\ frame' = frame /\ blk' = blk /\ site' = site /\ nvals' = nvals /\ pc' = "last"
    BY DEF EmptyBlock
  <1>6. DataFits(rs', ds', pc')
    BY <1>2, <1>3, <1>4, <1>5 DEF DataFits
  <1>7. ReadyToEnter(rs', pc')
    BY <1>5 DEF ReadyToEnter
  <1> QED
    BY <1>3, <1>5, <1>6, <1>7, SoundIs, SoundAgain

(* A call, a set-word and a return wait for an expression. *)
LEMMA WaitKeeps ==
  ASSUME Sound, Starting, NEW e \in Record, e.k \in {"call", "set", "return"}, HeldIn(e) = 0,
         e.k = "return" => e.own = blk, e.k = "call" => e.i = 0,
         rs' = Append(rs, e), ds' = ds, frame' = frame, blk' = blk, nvals' = nvals,
         site' \in Block \cup {HashMin},
         pc' = "expr" \/ (pc' = "enter" /\ e.k = "call" /\ e.arity = 0)
  PROVE  Sound'
  <1>1. /\ rs \in Seq(Record) /\ WellStacked(rs, frame, blk) /\ ValuesCounted(rs, nvals)
        /\ Len(ds) = OperandsOf(rs)[Len(rs)]
    BY SoundIs DEF DataFits, Starting
  <1>2. /\ rs' \in Seq(Record) /\ Len(rs') = Len(rs) + 1 /\ Len(rs) \in Nat
        /\ rs'[Len(rs) + 1] = e
    BY <1>1, Appended
  <1>3. WellStacked(rs', frame', blk')
    BY <1>1, PushPlain
  <1>4. pc' \in {"expr", "next", "enter"} /\ e.k # "values"
    OBVIOUS
  <1>5. DataFits(Append(rs, e), ds, pc') /\ ValuesCounted(Append(rs, e), nvals)
    BY <1>1, <1>4, PushKeeps
  <1>6. ReadyToEnter(rs', pc')
    <2>1. rs' # <<>>
      BY <1>2, EmptySeq
    <2> QED
      BY <1>2, <2>1 DEF ReadyToEnter
  <1>7. DataFits(rs', ds', pc') /\ ValuesCounted(rs', nvals')
    BY <1>5
  <1> QED
    BY <1>2, <1>3, <1>4, <1>6, <1>7, SoundIs, SoundAgain

(* r_invoke_closure saves callee and arity and waits for arguments. *)
LEMMA StartCallKeeps ==
  ASSUME Sound, NEW c \in Site, NEW n \in Arity, StartCall(c, n)
  PROVE  Sound'
  <1> DEFINE e == [k |-> "call", clo |-> c, arity |-> n, i |-> 0]
  <1>1. e \in Record /\ HeldIn(e) = 0
    BY DEF Record, Call, HeldIn
  <1>2. e.k = "call" /\ e.i = 0 /\ e.arity = n
    OBVIOUS
  <1>3. /\ Starting /\ rs' = Append(rs, e) /\ ds' = ds /\ frame' = frame /\ blk' = blk
        /\ nvals' = nvals /\ site' = site
        /\ pc' = "expr" \/ (pc' = "enter" /\ n = 0)
    BY DEF StartCall
  <1> HIDE DEF e
  <1>4. site' \in Block \cup {HashMin}
    BY <1>3, SoundIs
  <1> QED
    BY <1>1, <1>2, <1>3, <1>4, WaitKeeps

(* A set-word waits for its value. *)
LEMMA StartSetKeeps ==
  ASSUME Sound, StartSet
  PROVE  Sound'
  <1> DEFINE e == [k |-> "set"]
  <1>1. e \in Record /\ HeldIn(e) = 0
    BY DEF Record, Pending, HeldIn
  <1>2. e.k = "set"
    OBVIOUS
  <1>3. /\ Starting /\ rs' = Append(rs, e) /\ ds' = ds /\ frame' = frame /\ blk' = blk
        /\ nvals' = nvals /\ site' = site /\ pc' = "expr"
    BY DEF StartSet
  <1> HIDE DEF e
  <1>4. site' \in Block \cup {HashMin}
    BY <1>3, SoundIs
  <1> QED
    BY <1>1, <1>2, <1>3, <1>4, WaitKeeps

(* A halt leaves everything where it is. *)
LEMMA HaltKeeps ==
  ASSUME Sound, rs' = rs, ds' = ds, frame' = frame, blk' = blk, nvals' = nvals,
         site' \in Block \cup {HashMin}, pc' = "halt"
  PROVE  Sound'
  <1>1. DataFits(rs', ds', pc') /\ ReadyToEnter(rs', pc')
    BY DEF DataFits, ReadyToEnter
  <1> QED
    BY <1>1, SoundIs, SoundAgain

(* r_return waits for its argument, or halts outside functions. *)
LEMMA StartReturnKeeps ==
  ASSUME Sound, StartReturn
  PROVE  Sound'
  <1>1. blk \in Block
    BY SoundIs
  <1>2. /\ Starting /\ ds' = ds /\ frame' = frame /\ blk' = blk /\ nvals' = nvals
        /\ site' \in Block \cup {HashMin}
    BY <1>1 DEF StartReturn
  <1>3. CASE blk = 0
    BY <1>2, <1>3, HaltKeeps DEF StartReturn
  <1>4. CASE blk # 0
    <2> DEFINE e == [k |-> "return", own |-> blk]
    <2>1. e \in Record /\ HeldIn(e) = 0
      BY <1>1, <1>4 DEF Record, Pending, HeldIn, Block
    <2>2. e.k = "return" /\ e.own = blk
      OBVIOUS
    <2>3. rs' = Append(rs, e) /\ pc' = "expr"
      BY <1>4 DEF StartReturn
    <2> HIDE DEF e
    <2> QED
      BY <1>2, <2>1, <2>2, <2>3, WaitKeeps
  <1> QED
    BY <1>3, <1>4

(* DO and VALUES save the block they interrupt. *)
LEMMA StartBlockKeeps ==
  ASSUME Sound, NEW b \in Block, StartDo(b) \/ StartValues(b)
  PROVE  Sound'
  <1>1. /\ rs \in Seq(Record) /\ WellStacked(rs, frame, blk) /\ ValuesCounted(rs, nvals)
        /\ Len(ds) = OperandsOf(rs)[Len(rs)] /\ blk \in Block
    BY SoundIs DEF DataFits, Starting, StartDo, StartValues
  <1>2. PICK e \in Record : /\ rs' = Append(rs, e) /\ HeldIn(e) = 0 /\ e.blk = blk
                            /\ \/ e.k = "do" /\ nvals' = nvals
                               \/ /\ e.k = "values" /\ nvals' = 0
                                  /\ \A i \in 1 .. Len(rs) : rs[i].k # "values"
    <2>1. CASE StartDo(b)
      <3>1. [k |-> "do", blk |-> blk] \in Record /\ HeldIn([k |-> "do", blk |-> blk]) = 0
        BY <1>1 DEF Record, Do, HeldIn
      <3> QED
        BY <2>1, <3>1 DEF StartDo
    <2>2. CASE StartValues(b)
      <3>1. /\ [k |-> "values", blk |-> blk, got |-> 0] \in Record
            /\ HeldIn([k |-> "values", blk |-> blk, got |-> 0]) = 0
        BY <1>1 DEF Record, Values, HeldIn
      <3> QED
        BY <2>2, <3>1 DEF StartValues
    <2> QED
      BY <2>1, <2>2
  <1>3. ds' = ds /\ frame' = frame /\ blk' = b /\ site' = site /\ pc' = "next"
    BY DEF StartDo, StartValues
  <1>4. rs' \in Seq(Record)
    BY <1>1, <1>2, Appended
  <1>5. WellStacked(rs', frame', blk')
    BY <1>1, <1>2, <1>3, PushEntered
  <1>6. DataFits(Append(rs, e), ds, "next") /\ ValuesCounted(Append(rs, e), nvals')
    BY <1>1, <1>2, PushKeeps
  <1>7. DataFits(rs', ds', pc') /\ ValuesCounted(rs', nvals') /\ ReadyToEnter(rs', pc')
    BY <1>2, <1>3, <1>6 DEF ReadyToEnter
  <1>8. nvals' \in Nat /\ site' \in Block \cup {HashMin} /\ frame' \in Nat /\ ds' \in Seq(Datum)
    BY <1>2, <1>3, SoundIs
  <1> QED
    BY <1>3, <1>4, <1>5, <1>7, <1>8, SoundAgain

(* An argument is one more operand; its call is entered with the last. *)
LEMMA ArgumentKeeps ==
  ASSUME Sound, Argument
  PROVE  Sound'
  <1> DEFINE L == Len(rs)
             e == [Top EXCEPT !.i = @ + 1]
  <1>1. /\ rs \in Seq(Record) /\ WellStacked(rs, frame, blk) /\ ValuesCounted(rs, nvals) /\ ds \in Seq(Datum)
    BY SoundIs
  <1>2. rs # <<>> /\ Top.k = "call" /\ Done
    BY DEF Argument, On
  <1>3. /\ L \in Nat \ {0} /\ L \in 1 .. L /\ Top \in Record
        /\ OperandsOf(rs)[L - 1] \in Nat
        /\ OperandsOf(rs)[L] = OperandsOf(rs)[L - 1] + HeldIn(Top)
    BY <1>1, <1>2, TopIs DEF Top
  <1>4. Top \in Call /\ HeldIn(Top) = Top.i
    BY <1>2, <1>3, HeldType
  <1>5. e \in Call /\ e.i = Top.i + 1 /\ e.arity = Top.arity /\ e.k = "call" /\ Top.i \in Nat
    BY <1>4 DEF Call
  <1>6. rs' = [rs EXCEPT ![L] = e]
    BY DEF Argument, Top
  <1> HIDE DEF e, L
  <1>7. e \in Record /\ HeldIn(e) = Top.i + 1
    BY <1>5 DEF Record, HeldIn
  <1>8. L = Len(rs) /\ Top = rs[Len(rs)]
    BY DEF L, Top
  <1>9. /\ rs' \in Seq(Record) /\ Len(rs') = L /\ rs'[L] = e
        /\ \A i \in 1 .. L - 1 : rs'[i] = rs[i]
        /\ OperandsOf(rs')[L] = OperandsOf(rs)[L - 1] + HeldIn(e)
        /\ WellStacked(rs', frame, blk)
    <2>1. /\ e.k = rs[Len(rs)].k /\ e.k \in {"call", "values"}
          /\ e.k = "values" => e.blk = rs[Len(rs)].blk
      BY <1>2, <1>5, <1>8
    <2> DEFINE S == [rs EXCEPT ![Len(rs)] = e]
    <2>2. /\ S \in Seq(Record) /\ Len(S) = Len(rs) /\ S[Len(rs)] = e
          /\ \A i \in 1 .. Len(rs) - 1 : S[i] = rs[i]
          /\ OperandsOf(S)[Len(rs)] = OperandsOf(rs)[Len(rs) - 1] + HeldIn(e)
          /\ WellStacked(S, frame, blk)
      BY <1>1, <1>2, <1>7, <2>1, BumpTop
    <2>3. rs' = S
      BY <1>6, <1>8
    <2> HIDE DEF S
    <2> QED
      BY <1>8, <2>2, <2>3
  <1>10. /\ Len(ds) > 0 /\ N(ds) + 1 <= Len(ds) /\ N(ds) \in Nat
         /\ Len(ds) = OperandsOf(rs)[L] + N(ds) + 1
    BY <1>2, <1>8, SetIsThere
  <1>11. ds' \in Seq(Datum) /\ Len(ds') = Len(ds) - N(ds)
    BY <1>1, <1>10, ResultSet DEF Argument
  <1>12. /\ frame' = frame /\ blk' = blk /\ site' = site /\ nvals' = nvals
         /\ pc' = IF Top.i + 1 = Top.arity THEN "enter" ELSE "expr"
    BY DEF Argument
  <1>13. Len(ds') = OperandsOf(rs')[L]
    BY <1>3, <1>4, <1>5, <1>7, <1>9, <1>10, <1>11
  <1>14. DataFits(rs', ds', pc')
    BY <1>9, <1>12, <1>13 DEF DataFits
  <1>15. ReadyToEnter(rs', pc')
    <2>1. rs' # <<>>
      BY <1>3, <1>9, EmptySeq
    <2> QED
      BY <1>5, <1>9, <1>12, <2>1 DEF ReadyToEnter
  <1>16. ValuesCounted(rs', nvals')
    <2>1. \A i \in 1 .. L : rs'[i].k = "values" => i \in 1 .. L - 1
      BY <1>3, <1>5, <1>9
    <2>2. \A i \in 1 .. L : rs'[i].k = "values" => rs[i] = rs'[i]
      BY <1>9, <2>1
    <2> QED
      BY <1>1, <1>8, <1>9, <1>12, <2>2 DEF ValuesCounted
  <1>17. WellStacked(rs', frame', blk')
    BY <1>9, <1>12
  <1>18. pc' \in {"expr", "next", "done", "last", "enter", "halt"}
    BY <1>12
  <1> QED
    BY <1>9, <1>11, <1>12, <1>14, <1>15, <1>16, <1>17, <1>18, SoundIs, SoundAgain

(* So is an element of VALUES, which counts it. *)
LEMMA CollectKeeps ==
  ASSUME Sound, Collect
  PROVE  Sound'
  <1> DEFINE L == Len(rs)
             e == [Top EXCEPT !.got = @ + 1]
  <1>0. CASE N(ds) # 1
    <2>1. site' \in Block \cup {HashMin}
      BY SoundIs DEF Collect
    <2> QED
      BY <1>0, <2>1, HaltKeeps DEF Collect
  <1>1. CASE N(ds) = 1
    <2>1. /\ rs \in Seq(Record) /\ WellStacked(rs, frame, blk) /\ ValuesCounted(rs, nvals)
          /\ ds \in Seq(Datum) /\ nvals \in Nat /\ Len(ds) \in Nat
      BY SoundIs
    <2>2. rs # <<>> /\ Top.k = "values" /\ Done
      BY DEF Collect, On
    <2>3. /\ L \in Nat \ {0} /\ L \in 1 .. L /\ Top \in Record
          /\ OperandsOf(rs)[L - 1] \in Nat
          /\ OperandsOf(rs)[L] = OperandsOf(rs)[L - 1] + HeldIn(Top)
      BY <2>1, <2>2, TopIs DEF Top
    <2>4. Top \in Values /\ HeldIn(Top) = Top.got
      BY <2>2, <2>3, HeldType
    <2>5. e \in Values /\ e.got = Top.got + 1 /\ e.blk = Top.blk /\ e.k = "values" /\ Top.got \in Nat
      BY <2>4 DEF Values
    <2>6. rs' = [rs EXCEPT ![L] = e]
      BY <1>1 DEF Collect, Top
    <2> HIDE DEF e, L
    <2>7. e \in Record /\ HeldIn(e) = Top.got + 1
      BY <2>5 DEF Record, HeldIn
    <2>8. L = Len(rs) /\ Top = rs[Len(rs)]
      BY DEF L, Top
    <2>9. /\ rs' \in Seq(Record) /\ Len(rs') = L /\ rs'[L] = e
          /\ \A i \in 1 .. L - 1 : rs'[i] = rs[i]
          /\ OperandsOf(rs')[L] = OperandsOf(rs)[L - 1] + HeldIn(e)
          /\ WellStacked(rs', frame, blk)
      <3>1. /\ e.k = rs[Len(rs)].k /\ e.k \in {"call", "values"}
            /\ e.k = "values" => e.blk = rs[Len(rs)].blk
        BY <2>2, <2>5, <2>8
      <3> DEFINE S == [rs EXCEPT ![Len(rs)] = e]
      <3>2. /\ S \in Seq(Record) /\ Len(S) = Len(rs) /\ S[Len(rs)] = e
            /\ \A i \in 1 .. Len(rs) - 1 : S[i] = rs[i]
            /\ OperandsOf(S)[Len(rs)] = OperandsOf(rs)[Len(rs) - 1] + HeldIn(e)
            /\ WellStacked(S, frame, blk)
        BY <2>1, <2>2, <2>7, <3>1, BumpTop
      <3>3. rs' = S
        BY <2>6, <2>8
      <3> HIDE DEF S
      <3> QED
        BY <2>8, <3>2, <3>3
    <2>10. Len(ds) > 0 /\ Len(ds) = OperandsOf(rs)[L] + 2
      BY <1>1, <2>1, <2>2, <2>3, <2>4, <2>5, <2>8, SetIsThere
    <2>11. ds' \in Seq(Datum) /\ Len(ds') = Len(ds) - 1
      <3>1. Len(ds) - 1 \in 0 .. Len(ds)
        BY <2>1, <2>10
      <3> QED
        BY <1>1, <2>1, <3>1, DataCut DEF Collect
    <2>12. frame' = frame /\ blk' = blk /\ site' = site /\ nvals' = nvals + 1 /\ pc' = "next"
      BY <1>1 DEF Collect
    <2>13. Len(ds') = OperandsOf(rs')[L]
      BY <2>3, <2>4, <2>5, <2>7, <2>9, <2>10, <2>11
    <2>14. DataFits(rs', ds', pc') /\ ReadyToEnter(rs', pc')
      BY <2>9, <2>12, <2>13 DEF DataFits, ReadyToEnter
    <2>16. ValuesCounted(rs', nvals')
      <3>1. Top.got = nvals /\ \A j \in 1 .. L : rs[j].k = "values" => j = L
        BY <2>1, <2>2, <2>3, <2>8 DEF ValuesCounted
      <3>2. \A j \in 1 .. L : j = L \/ j \in 1 .. L - 1
        BY <2>3
      <3>3. \A j \in 1 .. L : rs'[j].k = "values" => j = L
        BY <2>3, <2>9, <3>1, <3>2
      <3> QED
        BY <2>5, <2>9, <2>12, <3>1, <3>3 DEF ValuesCounted
    <2>17. WellStacked(rs', frame', blk') /\ nvals' \in Nat
      BY <2>1, <2>9, <2>12
    <2> QED
      BY <2>9, <2>11, <2>12, <2>14, <2>16, <2>17, SoundIs, SoundAgain
  <1> QED
    BY <1>0, <1>1

(* A result set that is not the last is discarded. *)
LEMMA DiscardKeeps ==
  ASSUME Sound, Discard
  PROVE  Sound'
  <1>1. /\ ds \in Seq(Datum) /\ OperandsOf(rs)[Len(rs)] \in Nat
    BY SoundIs
  <1>2. /\ Len(ds) > 0 /\ N(ds) + 1 <= Len(ds) /\ N(ds) \in Nat
        /\ Len(ds) = OperandsOf(rs)[Len(rs)] + N(ds) + 1
    BY SetIsThere DEF Discard, Done
  <1>3. ds' \in Seq(Datum) /\ Len(ds') = Len(ds) - N(ds) - 1
    BY <1>1, <1>2, ResultSet DEF Discard
  <1>4. rs' = rs /\ frame' = frame /\ blk' = blk /\ site' = site /\ nvals' = nvals /\ pc' = "expr"
    BY DEF Discard
  <1>5. Len(ds') = OperandsOf(rs)[Len(rs)]
    BY <1>1, <1>2, <1>3
  <1>6. DataFits(rs', ds', pc') /\ ReadyToEnter(rs', pc')
    BY <1>4, <1>5 DEF DataFits, ReadyToEnter
  <1> QED
    BY <1>3, <1>4, <1>6, SoundIs, SoundAgain

(* The topmost record of a routine that ends, and what is left. *)
LEMMA PoppedIs ==
  ASSUME Sound, rs # <<>>
  PROVE  /\ Top \in Record /\ Len(rs) \in Nat \ {0}
         /\ Popped \in Seq(Record) /\ Len(Popped) = Len(rs) - 1
         /\ WellStacked(Popped, IF Top.k = "frame" THEN Top.prev ELSE frame,
                        IF Top.k \in Entered THEN Top.blk ELSE blk)
         /\ ValuesCounted(Popped, nvals)
         /\ OperandsOf(Popped)[Len(Popped)] \in Nat /\ HeldIn(Top) \in Nat
         /\ OperandsOf(rs)[Len(rs)] = OperandsOf(Popped)[Len(Popped)] + HeldIn(Top)
         /\ (Top.k \notin {"call", "values"} => OperandsOf(rs)[Len(rs)] = OperandsOf(Popped)[Len(Popped)])
  <1>1. rs \in Seq(Record) /\ WellStacked(rs, frame, blk) /\ ValuesCounted(rs, nvals)
    BY SoundIs
  <1>2. /\ Top \in Record /\ Len(rs) \in Nat \ {0}
        /\ OperandsOf(rs)[Len(rs) - 1] \in Nat /\ HeldIn(Top) \in Nat
        /\ OperandsOf(rs)[Len(rs)] = OperandsOf(rs)[Len(rs) - 1] + HeldIn(Top)
    BY <1>1, TopIs DEF Top
  <1>3. /\ Popped \in Seq(Record) /\ Len(Popped) = Len(rs) - 1
        /\ WellStacked(Popped, IF Top.k = "frame" THEN Top.prev ELSE frame,
                        IF Top.k \in Entered THEN Top.blk ELSE blk)
        /\ ValuesCounted(Popped, nvals)
        /\ OperandsOf(Popped)[Len(rs) - 1] = OperandsOf(rs)[Len(rs) - 1]
    BY <1>1, PopKeeps DEF Popped, Top
  <1>4. Top.k \notin {"call", "values"} => HeldIn(Top) = 0
    BY <1>2, HeldType
  <1> QED
    BY <1>2, <1>3, <1>4

(* DO goes back to the block it interrupted, with the result set as it is. *)
LEMMA EndDoKeeps ==
  ASSUME Sound, EndDo
  PROVE  Sound'
  <1>1. rs # <<>> /\ Top.k = "do" /\ Done /\ Top.k \in Entered
    BY DEF EndDo, On, Entered
  <1>2. /\ Top \in Record /\ Popped \in Seq(Record)
        /\ WellStacked(Popped, frame, Top.blk) /\ ValuesCounted(Popped, nvals)
        /\ OperandsOf(rs)[Len(rs)] = OperandsOf(Popped)[Len(Popped)]
    BY <1>1, PoppedIs
  <1>3. Top.blk \in Block
    BY <1>1, <1>2, HeldType DEF Do
  <1>4. /\ rs' = Popped /\ blk' = Top.blk /\ ds' = ds /\ frame' = frame /\ site' = site
        /\ nvals' = nvals /\ pc' = "done"
    BY DEF EndDo
  <1>5. DataFits(rs, ds, pc) /\ pc \in {"done", "last"}
    BY <1>1, SoundIs DEF Done
  <1>6. DataFits(Popped, ds, "done")
    BY <1>2, <1>5 DEF DataFits
  <1>7. DataFits(rs', ds', pc') /\ ReadyToEnter(rs', pc')
    BY <1>4, <1>6 DEF ReadyToEnter
  <1>8. rs' \in Seq(Record) /\ WellStacked(rs', frame', blk') /\ ValuesCounted(rs', nvals') /\ blk' \in Block
    BY <1>2, <1>3, <1>4
  <1>9. ds' \in Seq(Datum) /\ frame' \in Nat /\ site' \in Block \cup {HashMin} /\ nvals' \in Nat
    BY <1>4, SoundIs
  <1> QED
    BY <1>4, <1>7, <1>8, <1>9, SoundAgain

(* The frame of the body that ends is the topmost record: RV_FRAME is it. *)
LEMMA EndBodyKeeps ==
  ASSUME Sound, EndBody
  PROVE  Sound'
  <1>1. rs # <<>> /\ Top.k = "frame" /\ Done /\ Top.k \in Entered
    BY DEF EndBody, On, Entered
  <1>2. /\ Top \in Record /\ Popped \in Seq(Record) /\ Len(rs) \in Nat \ {0}
        /\ WellStacked(Popped, Top.prev, Top.blk) /\ ValuesCounted(Popped, nvals)
        /\ OperandsOf(rs)[Len(rs)] = OperandsOf(Popped)[Len(Popped)]
    BY <1>1, PoppedIs
  <1>3. Top.blk \in Block /\ Top.prev \in Nat
    BY <1>1, <1>2, HeldType DEF Frame
  <1>4. frame = Len(rs)
    <2>1. IsFrameBelow(rs, Len(rs), frame)
      BY SoundIs DEF WellStacked
    <2>2. frame \in 0 .. Len(rs) /\ \A j \in frame + 1 .. Len(rs) : rs[j].k # "frame"
      BY <2>1 DEF IsFrameBelow
    <2>3. rs[Len(rs)].k = "frame"
      BY <1>1 DEF Top
    <2>4. frame < Len(rs) => Len(rs) \in frame + 1 .. Len(rs)
      BY <1>2, <2>2
    <2> QED
      BY <1>2, <2>2, <2>3, <2>4
  <1>5. /\ rs' = Popped /\ blk' = Top.blk /\ frame' = Top.prev /\ ds' = ds /\ site' = site
        /\ nvals' = nvals /\ pc' = "done"
    BY <1>4 DEF EndBody, Popped, Top
  <1>6. DataFits(rs, ds, pc) /\ pc \in {"done", "last"}
    BY <1>1, SoundIs DEF Done
  <1>7. DataFits(Popped, ds, "done")
    BY <1>2, <1>6 DEF DataFits
  <1>8. DataFits(rs', ds', pc') /\ ReadyToEnter(rs', pc')
    BY <1>5, <1>7 DEF ReadyToEnter
  <1>9. rs' \in Seq(Record) /\ WellStacked(rs', frame', blk') /\ ValuesCounted(rs', nvals') /\ blk' \in Block
    BY <1>2, <1>3, <1>5
  <1>10. ds' \in Seq(Datum) /\ frame' \in Nat /\ site' \in Block \cup {HashMin} /\ nvals' \in Nat
    BY <1>3, <1>5, SoundIs
  <1> QED
    BY <1>5, <1>8, <1>9, <1>10, SoundAgain

(* A set-word keeps the first value of its set and makes it a set. *)
LEMMA EndSetKeeps ==
  ASSUME Sound, EndSet
  PROVE  Sound'
  <1>1. rs # <<>> /\ Top.k = "set" /\ Done /\ Top.k \notin Entered
    BY DEF EndSet, On, Entered
  <1>2. /\ Popped \in Seq(Record) /\ WellStacked(Popped, frame, blk) /\ ValuesCounted(Popped, nvals)
        /\ OperandsOf(rs)[Len(rs)] = OperandsOf(Popped)[Len(Popped)]
        /\ OperandsOf(Popped)[Len(Popped)] \in Nat
    BY <1>1, PoppedIs
  <1>3. /\ rs' = Popped /\ ds' = Append(Reduced(ds), Count(1)) /\ blk' = blk /\ frame' = frame
        /\ nvals' = nvals /\ pc' = "done" /\ site' \in {site, HashMin}
    BY DEF EndSet
  <1>4. /\ Len(ds) > 0 /\ N(ds) + 1 <= Len(ds) /\ N(ds) \in Nat
        /\ Len(ds) = OperandsOf(rs)[Len(rs)] + N(ds) + 1
    BY <1>1, SetIsThere
  <1>5. Reduced(ds) \in Seq(Datum) /\ Len(Reduced(ds)) = Len(ds) - N(ds) /\ Len(ds) \in Nat
    BY <1>4, SoundIs, ResultSet
  <1>6. /\ ds' \in Seq(Datum) /\ Len(ds') = Len(Reduced(ds)) + 1 /\ N(ds') = 1
        /\ ds'[Len(ds')][1] = "count"
    BY <1>3, <1>5, CountPushed
  <1>7. Len(ds') = OperandsOf(Popped)[Len(Popped)] + 2
    <2> DEFINE q == OperandsOf(Popped)[Len(Popped)]
    <2>1. OperandsOf(rs)[Len(rs)] = q /\ q \in Nat
      BY <1>2
    <2>2. Len(ds) \in Nat /\ N(ds) \in Nat
      BY <1>4, <1>5
    <2>3. Len(ds) = q + N(ds) + 1
      BY <1>4, <2>1
    <2>4. Len(ds') = (Len(ds) - N(ds)) + 1
      BY <1>5, <1>6
    <2> HIDE DEF q
    <2>5. Len(ds') = q + 2
      BY <2>1, <2>2, <2>3, <2>4
    <2> QED
      BY <2>5 DEF q
  <1>8. DataFits(rs', ds', pc') /\ ReadyToEnter(rs', pc')
    BY <1>2, <1>3, <1>6, <1>7 DEF DataFits, ReadyToEnter
  <1>9. rs' \in Seq(Record) /\ WellStacked(rs', frame', blk') /\ ValuesCounted(rs', nvals')
    BY <1>2, <1>3
  <1>10. frame' \in Nat /\ site' \in Block \cup {HashMin} /\ nvals' \in Nat /\ blk' \in Block
    BY <1>3, SoundIs
  <1> QED
    BY <1>3, <1>6, <1>8, <1>9, <1>10, SoundAgain

(* The values a VALUES has collected become its result set. *)
LEMMA EndValuesKeeps ==
  ASSUME Sound, EndValues
  PROVE  Sound'
  <1>1. rs # <<>> /\ Top.k = "values" /\ pc = "next" /\ Top.k \in Entered
    BY DEF EndValues, On, Entered
  <1>2. /\ Top \in Record /\ Popped \in Seq(Record) /\ Len(rs) \in Nat \ {0}
        /\ WellStacked(Popped, frame, Top.blk) /\ ValuesCounted(Popped, nvals)
        /\ OperandsOf(Popped)[Len(Popped)] \in Nat
        /\ OperandsOf(rs)[Len(rs)] = OperandsOf(Popped)[Len(Popped)] + HeldIn(Top)
    BY <1>1, PoppedIs
  <1>3. Top.blk \in Block /\ HeldIn(Top) = Top.got
    BY <1>1, <1>2, HeldType DEF Values
  <1>4. Top.got = nvals
    <2>1. Len(rs) \in 1 .. Len(rs) /\ rs[Len(rs)].k = "values"
      BY <1>1, <1>2 DEF Top
    <2> QED
      BY <2>1, SoundIs DEF ValuesCounted, Top
  <1>5. /\ rs' = Popped /\ ds' = Append(ds, Count(nvals)) /\ blk' = Top.blk /\ frame' = frame
        /\ site' = site /\ nvals' = nvals /\ pc' = "done"
    BY DEF EndValues
  <1>6. ds \in Seq(Datum) /\ nvals \in Nat /\ Len(ds) = OperandsOf(rs)[Len(rs)]
    BY <1>1, SoundIs DEF DataFits
  <1>7. /\ ds' \in Seq(Datum) /\ Len(ds') = Len(ds) + 1 /\ N(ds') = nvals
        /\ ds'[Len(ds')][1] = "count"
    BY <1>5, <1>6, CountPushed
  <1>8. Len(ds') = OperandsOf(Popped)[Len(Popped)] + nvals + 1
    BY <1>2, <1>3, <1>4, <1>6, <1>7
  <1>9. DataFits(rs', ds', pc') /\ ReadyToEnter(rs', pc')
    BY <1>2, <1>5, <1>6, <1>7, <1>8 DEF DataFits, ReadyToEnter
  <1>10. rs' \in Seq(Record) /\ WellStacked(rs', frame', blk') /\ ValuesCounted(rs', nvals') /\ blk' \in Block
    BY <1>2, <1>3, <1>5
  <1>11. frame' \in Nat /\ site' \in Block \cup {HashMin} /\ nvals' \in Nat
    BY <1>5, SoundIs
  <1> QED
    BY <1>5, <1>7, <1>9, <1>10, <1>11, SoundAgain

(* The call's record makes room for a frame linked to RV_FRAME; the        *)
(* arguments, now bound, are off the data stack.                           *)
LEMMA EnterKeeps ==
  ASSUME Sound, Enter
  PROVE  Sound'
  <1>1. rs # <<>> /\ Top.k = "call" /\ Top.i = Top.arity /\ Top.k \notin Entered
    BY SoundIs DEF Enter, ReadyToEnter, Top, Entered
  <1>2. /\ Top \in Record /\ Popped \in Seq(Record) /\ Len(Popped) = Len(rs) - 1 /\ Len(rs) \in Nat \ {0}
        /\ WellStacked(Popped, frame, blk) /\ ValuesCounted(Popped, nvals)
        /\ OperandsOf(Popped)[Len(Popped)] \in Nat
        /\ OperandsOf(rs)[Len(rs)] = OperandsOf(Popped)[Len(Popped)] + HeldIn(Top)
    BY <1>1, PoppedIs
  <1>3. Top.clo \in Site /\ HeldIn(Top) = Top.i /\ Top.i \in Nat
    BY <1>1, <1>2, HeldType DEF Call
  <1>4. /\ ds \in Seq(Datum) /\ blk \in Block /\ frame \in Nat /\ Len(ds) \in Nat
        /\ Len(ds) = OperandsOf(rs)[Len(rs)]
    BY SoundIs DEF DataFits, Enter
  <1>5. Len(ds) - Top.arity = OperandsOf(Popped)[Len(Popped)] /\ Len(ds) - Top.arity \in 0 .. Len(ds)
    BY <1>1, <1>2, <1>3, <1>4
  <1> DEFINE e == [k |-> "frame", prev |-> frame, site |-> Top.clo,
                   sp |-> Len(ds) - Top.arity, blk |-> blk]
  <1>6. /\ e \in Record /\ HeldIn(e) = 0 /\ e.k = "frame" /\ e.blk = blk /\ e.prev = frame
        /\ e.site = Top.clo /\ e.sp = OperandsOf(Popped)[Len(Popped)]
    <2>1. Len(ds) - Top.arity \in Nat
      BY <1>4, <1>5
    <2>2. e \in Frame
      BY <1>3, <1>4, <2>1 DEF Frame
    <2> QED
      BY <1>5, <2>2 DEF Record, HeldIn
  <1>7. rs' = Append(Popped, e)
    BY DEF Enter
  <1> HIDE DEF e
  <1>8. rs' \in Seq(Record)
    BY <1>2, <1>6, <1>7, Appended
  <1>9. WellStacked(rs', Len(rs), Top.clo)
    <2>1. WellStacked(Append(Popped, e), IF e.k = "frame" THEN Len(Popped) + 1 ELSE frame, Top.clo)
      BY <1>2, <1>6, PushEntered
    <2>2. Len(Popped) + 1 = Len(rs)
      BY <1>2
    <2> QED
      BY <1>6, <1>7, <2>1, <2>2
  <1>10. /\ ds' = SubSeq(ds, 1, Len(ds) - Top.arity) /\ frame' = Len(rs) /\ blk' = Top.clo
         /\ nvals' = nvals /\ pc' = "next" /\ site' \in {site, HashMin}
    BY DEF Enter
  <1>11. ds' \in Seq(Datum) /\ Len(ds') = OperandsOf(Popped)[Len(Popped)]
    BY <1>4, <1>5, <1>10, DataCut
  <1>12. DataFits(rs', ds', pc') /\ ValuesCounted(rs', nvals')
    BY <1>2, <1>6, <1>7, <1>10, <1>11, PushKeeps
  <1>13. ReadyToEnter(rs', pc')
    BY <1>10 DEF ReadyToEnter
  <1>14. blk' \in Block /\ frame' \in Nat
    BY <1>2, <1>3, <1>10 DEF Block
  <1>15. site' \in Block \cup {HashMin} /\ nvals' \in Nat
    BY <1>10, SoundIs
  <1> QED
    BY <1>8, <1>9, <1>10, <1>11, <1>12, <1>13, <1>14, <1>15, SoundAgain

(* The innermost frame with the site is there to be found. *)
LEMMA TargetIs ==
  ASSUME Sound, Targets # {}, NEW t, t = CHOOSE i \in Targets : \A j \in Targets : j <= i
  PROVE  t \in 1 .. Len(rs) /\ rs[t].k = "frame"
  <1>1. \A i \in Targets : i \in 1 .. Len(rs) /\ rs[i].k = "frame"
    BY ChainIsFrames DEF Targets
  <1>2. Len(rs) \in Nat /\ \A i \in Targets : i \in 0 .. Len(rs)
    BY <1>1, SoundIs
  <1>3. PICK x \in Targets : \A y \in Targets : y <= x
    <2>1. Targets \subseteq 0 .. Len(rs)
      BY <1>2
    <2> DEFINE T == Targets
    <2>2. T # {}
      OBVIOUS
    <2> HIDE DEF T
    <2>3. \E x \in T : \A y \in T : y <= x
      BY <1>2, <2>1, <2>2, GreatestOf DEF T
    <2> QED
      BY <2>3 DEF T
  <1>4. t \in Targets
    BY <1>3
  <1> QED
    BY <1>1, <1>4

(* A return goes to below its target's frame: the data stack is cut to the *)
(* operands of the routines below it and has the result set on them.       *)
LEMMA UnwindKeeps ==
  ASSUME Sound, Unwind
  PROVE  /\ Sound'
         /\ pc' = "done" => Result(ds') = Result(ds) /\ N(ds') = N(ds)
  <1>1. CASE Targets = {}
    <2>1. /\ rs' = rs /\ ds' = ds /\ frame' = frame /\ blk' = blk /\ nvals' = nvals /\ site' = site
          /\ pc' = "halt"
      BY <1>1 DEF Unwind
    <2>2. site' \in Block \cup {HashMin}
      BY <2>1, SoundIs
    <2> QED
      BY <2>1, <2>2, HaltKeeps
  <1>2. CASE Targets # {}
    <2>1. PICK t : t = CHOOSE i \in Targets : \A j \in Targets : j <= i
      OBVIOUS
    <2>2. t \in 1 .. Len(rs) /\ rs[t].k = "frame" /\ rs[t].k \in Entered
      BY <1>2, <2>1, TargetIs DEF Entered
    <2>3. /\ ds' = Replaced(SubSeq(ds, 1, rs[t].sp)) /\ rs' = SubSeq(rs, 1, t - 1)
          /\ blk' = rs[t].blk /\ frame' = rs[t].prev /\ pc' = "done" /\ site' = site /\ nvals' = nvals
      BY <1>2, <2>1 DEF Unwind
    <2>4. /\ rs \in Seq(Record) /\ WellStacked(rs, frame, blk) /\ ValuesCounted(rs, nvals)
          /\ ds \in Seq(Datum) /\ Len(rs) \in Nat /\ Len(ds) \in Nat
      BY SoundIs
    <2>5. rs[t].blk \in Block /\ rs[t].prev \in Nat
      <3>1. rs[t] \in Record
        BY <2>2, <2>4, ElementOfSeq
      <3> QED
        BY <2>2, <3>1, HeldType DEF Frame
    <2>6. /\ Len(ds) > 0 /\ N(ds) + 1 <= Len(ds) /\ N(ds) \in Nat
          /\ Len(ds) = OperandsOf(rs)[Len(rs)] + N(ds) + 1
      BY SetIsThere DEF Unwind
    <2>7. rs[t].sp = OperandsOf(rs)[t - 1]
      BY <2>2, <2>4 DEF WellStacked
    <2>8. OperandsOf(rs)[t - 1] \in Nat /\ OperandsOf(rs)[t - 1] <= OperandsOf(rs)[Len(rs)]
          /\ OperandsOf(rs)[Len(rs)] \in Nat
      <3>1. t - 1 \in 0 .. Len(rs) /\ Len(rs) \in 0 .. Len(rs)
        BY <2>2, <2>4
      <3> QED
        BY <2>4, <3>1, OperandsMonotone
    <2>9. rs[t].sp \in 0 .. Len(ds)
      BY <2>4, <2>6, <2>7, <2>8
    <2> DEFINE d == SubSeq(ds, 1, rs[t].sp)
    <2>10. d \in Seq(Datum) /\ Len(d) = rs[t].sp
      BY <2>4, <2>9, DataCut
    <2>11. ds' = Replaced(d)
      BY <2>3
    <2> HIDE DEF d
    <2>12. /\ ds' \in Seq(Datum) /\ Len(ds') = Len(d) + N(ds) + 1 /\ ds'[Len(ds')][1] = "count"
           /\ N(ds') = N(ds) /\ Result(ds') = Result(ds)
      BY <2>4, <2>6, <2>10, <2>11, SetReplaced
    <2>13. /\ rs' \in Seq(Record) /\ Len(rs') = t - 1
           /\ OperandsOf(rs')[t - 1] = OperandsOf(rs)[t - 1]
      <3>1. t - 1 \in 0 .. t - 1
        BY <2>2, <2>4
      <3> QED
        BY <2>2, <2>3, <2>4, <3>1, CutOff
    <2>14. WellStacked(rs', frame', blk')
      <3>1. WellStacked(SubSeq(rs, 1, t - 1), IF rs[t].k = "frame" THEN rs[t].prev ELSE frame,
                        IF rs[t].k \in Entered THEN rs[t].blk ELSE blk)
        BY <2>2, <2>4, CutRestores
      <3> QED
        BY <2>2, <2>3, <3>1
    <2>15. ValuesCounted(rs', nvals')
      <3>1. ValuesCounted(SubSeq(rs, 1, t - 1), nvals)
        BY <2>2, <2>4, CutCounted
      <3> QED
        BY <2>3, <3>1
    <2>16. Len(ds') = OperandsOf(rs')[Len(rs')] + N(ds') + 1 /\ Len(ds') > 0
      BY <2>6, <2>7, <2>8, <2>10, <2>12, <2>13
    <2>17. DataFits(rs', ds', pc') /\ ReadyToEnter(rs', pc')
      BY <2>3, <2>12, <2>16 DEF DataFits, ReadyToEnter
    <2>18. blk' \in Block /\ frame' \in Nat
      BY <2>3, <2>5
    <2>19. site' \in Block \cup {HashMin} /\ nvals' \in Nat
      BY <2>3, SoundIs
    <2>20. Sound'
      BY <2>3, <2>12, <2>13, <2>14, <2>15, <2>17, <2>18, <2>19, SoundAgain
    <2> QED
      BY <2>12, <2>20
  <1> QED
    BY <1>1, <1>2

-----------------------------------------------------------------------------
(* It holds in the first state: nothing is under way. *)
LEMMA InitSound == ASSUME Init PROVE Sound
  <1>1. rs = <<>> /\ ds = <<>> /\ frame = 0 /\ blk = 0 /\ site = 0 /\ nvals = 0 /\ pc = "next"
    BY DEF Init
  <1>2. Len(rs) = 0 /\ Len(ds) = 0
    BY <1>1
  <1>3. TypeOK
    BY <1>1 DEF TypeOK, Block
  <1>4. WellStacked(rs, frame, blk)
    BY <1>1, <1>2 DEF WellStacked, IsFrameBelow, IsSaved
  <1>5. DataFits(rs, ds, pc)
    BY <1>1, <1>2, OperandsStep DEF DataFits
  <1> QED
    BY <1>1, <1>2, <1>3, <1>4, <1>5 DEF Sound, ReadyToEnter, ValuesCounted

(* Every step keeps it, and a return carries its result set. *)
LEMMA StepSound ==
  ASSUME Sound, [Next]_vars
  PROVE  Sound' /\ (Returns => Result(ds') = Result(ds) /\ N(ds') = N(ds))
  <1>1. CASE UNCHANGED vars
    <2>1. rs' = rs /\ ds' = ds /\ frame' = frame /\ blk' = blk /\ site' = site /\ nvals' = nvals /\ pc' = pc
      BY <1>1 DEF vars
    <2>2. Sound'
      BY <2>1, SoundIs, SoundAgain DEF Sound, TypeOK
    <2> QED
      BY <2>1, <2>2
  <1>2. CASE Next
    <2>1. Sound'
      BY <1>2, LiteralKeeps, StartCallKeeps, StartBlockKeeps, StartSetKeeps, StartReturnKeeps,
         ArgumentKeeps, EnterKeeps, DiscardKeeps, EmptyBlockKeeps, EndDoKeeps, EndBodyKeeps,
         CollectKeeps, EndValuesKeeps, EndSetKeeps, UnwindKeeps DEF Next
    <2>2. ASSUME Returns PROVE Unwind
      <3>1. rs # <<>> /\ Top.k = "return" /\ pc \in {"done", "last"}
        BY <2>2 DEF Returns, Done, On
      <3>2. ReadyToEnter(rs, pc)
        BY SoundIs
      <3> QED
        BY <1>2, <3>1 DEF Next, Literal, StartCall, StartDo, StartValues, StartSet, StartReturn, Starting,
           Argument, Enter, Discard, EmptyBlock, EndDo, EndBody, Collect, EndValues, EndSet, On
    <2>3. Returns => pc' = "done"
      BY DEF Returns
    <2> QED
      BY <2>1, <2>2, <2>3, UnwindKeeps
  <1> QED
    BY <1>1, <1>2

(* The invariant says what the runs check. *)
LEMMA SoundMeans ==
  ASSUME Sound
  PROVE  StacksAreSound /\ DataStackIsOperands
  <1>1. TypeOK /\ WellStacked(rs, frame, blk) /\ DataFits(rs, ds, pc)
    BY DEF Sound
  <1>2. /\ FrameChainIsStack /\ BlkIsSaved
        /\ \A i \in 1 .. Len(rs) : rs[i].k = "frame" => rs[i].sp = Operands[i - 1]
    BY <1>1, WellStackedIs
  <1>3. Operands[Len(rs)] = OperandsOf(rs)[Len(rs)]
    BY OperandsIs
  <1> QED
    BY <1>1, <1>2, <1>3 DEF StacksAreSound, DataStackIsOperands, DataFits

(* The invariant holds in every state of every run. *)
THEOREM Invariance == Spec => []Sound
  <1>1. Init => Sound
    BY InitSound
  <1>2. Sound /\ [Next]_vars => Sound'
    BY StepSound
  <1> QED
    BY <1>1, <1>2, PTL DEF Spec

(* RV_FRAME and the saved frames are the frames of the return stack from   *)
(* the innermost on, and RV_BLK and the saved blocks are those of the      *)
(* routines under way, whatever returns have cut off (r_invoke_closure,    *)
(* r_run_block, r_return).                                                 *)
THEOREM StacksSound == Spec => []StacksAreSound
  <1>1. Sound => StacksAreSound
    BY SoundMeans
  <1> QED
    BY <1>1, Invariance, PTL

(* Between expressions the data stack holds the operands of the routines   *)
(* under way and no more, and with a result set just that set on them.     *)
THEOREM DataStackSound == Spec => []DataStackIsOperands
  <1>1. Sound => DataStackIsOperands
    BY SoundMeans
  <1> QED
    BY <1>1, Invariance, PTL

(* r_return pops its result set into RV_RES_BUF and pushes it again, whole *)
(* and in order, on the data stack of its target's caller.                 *)
THEOREM ResultsAreCarried == Spec => ReturnCarriesResult
  <1>1. Sound /\ [Next]_vars => [Returns => Result(ds') = Result(ds) /\ N(ds') = N(ds)]_vars
    BY StepSound
  <1>2. Spec => [][Next]_vars
    BY DEF Spec
  <1>3. ReturnCarriesResult <=> [][Returns => Result(ds') = Result(ds) /\ N(ds') = N(ds)]_vars
    BY DEF ReturnCarriesResult
  <1> QED
    BY <1>1, <1>2, <1>3, Invariance, PTL

-----------------------------------------------------------------------------
(***************************************************************************)
(* The addresses of the return stack, for every extent of it and every way *)
(* routines save cells on it: whichever activation ends, and however, RP   *)
(* is where its caller left it; and no context or frame overlaps another   *)
(* cell in use or the data stack, though the room is checked before the    *)
(* arguments run.                                                          *)
(***************************************************************************)

(* Between the check and the allocation the room is still there, because   *)
(* what the arguments pushed has been popped.                              *)
CallsHaveRoom == \A i \in 1 .. Len(entries) :
                    entries[i].phase = "call" => Bottom <= ReturnCell(entries[i]) - GuardRoom

(* Nothing is popped above the stack. *)
TopsBelowTop == \A i \in 1 .. Len(entries) : entries[i].top <= StackTop

StackInv == StackTypeOK /\ EntriesAreStacked /\ ActivationsFit /\ CallsHaveRoom /\ TopsBelowTop

(* The fields of an entry are integers. *)
LEMMA EntryFields ==
  ASSUME NEW e \in Entries
  PROVE  e.top \in Int /\ e.saved \in Int /\ e.saved >= 0 /\ e.frame \in Int
         /\ e.phase \in {"eval", "call", "active", "done"}
  <1>1. e.saved \in SavedCells /\ SavedCells \subseteq Nat
    BY StackAssumption DEF Entries
  <1>2. e.saved \in Nat
    BY <1>1
  <1> QED
    BY <1>2 DEF Entries

(* mkctx's base is aligned and the context ends below the return address. *)
LEMMA MkctxPlace ==
  ASSUME NEW r \in Int
  PROVE  /\ Mkctx(r) \in Int /\ Mkctx(r) % 16 = 0
         /\ Mkctx(r) <= r - 64 /\ r - 79 <= Mkctx(r)
  BY DEF Mkctx, CtxCells

(* Below an aligned context the frame starts 16 cells lower. *)
LEMMA FrameBasePlace ==
  ASSUME NEW r \in Int, r % 16 = 0
  PROVE  FrameBase(r) = r - 16
  BY DEF FrameBase, FrameCells

(* An activation that starts where the guard found room fits. *)
LEMMA NewActivationFits ==
  ASSUME NEW r \in Int, Bottom <= r - GuardRoom
  PROVE  LET c == Mkctx(r - 1)
         IN /\ c \in Int /\ FrameBase(c) \in Int
            /\ c % 16 = 0 /\ FrameBase(c) % 16 = 0
            /\ Bottom <= FrameBase(c) /\ FrameBase(c) + FrameCells <= c
            /\ c + CtxCells <= r
            /\ FrameBase(c) <= r
  <1> DEFINE c == Mkctx(r - 1)
  <1>1. c \in Int /\ c % 16 = 0 /\ c <= r - 65 /\ r - 80 <= c
    BY MkctxPlace
  <1>2. FrameBase(c) = c - 16
    BY <1>1, FrameBasePlace
  <1> HIDE DEF c
  <1>3. (c - 16) % 16 = 0
    BY <1>1
  <1>4. Bottom \in Nat
    BY StackAssumption
  <1> QED
    BY <1>1, <1>2, <1>3, <1>4 DEF GuardRoom, FrameCells, CtxCells, c

-----------------------------------------------------------------------------
(* Replacing the last entry by one with the same top keeps the rest of the *)
(* stack in place.                                                         *)
LEMMA ReplaceLast ==
  ASSUME StackInv, NEW n \in 1 .. Len(entries), NEW e \in Entries,
         e.top = entries[n].top,
         entries' = [SubSeq(entries, 1, n) EXCEPT ![n] = e],
         rp' = Low(e), rp' <= StackTop, rp' \in Int, UNCHANGED halted,
         e.phase = "active" => ActivationFits(e),
         e.phase = "call" => Bottom <= ReturnCell(e) - GuardRoom
  PROVE  StackInv'
  <1> DEFINE s == SubSeq(entries, 1, n)
  <1>1. entries \in Seq(Entries)
    BY DEF StackInv, StackTypeOK
  <1>2. s \in Seq(Entries) /\ Len(s) = n /\ \A i \in 1 .. n : s[i] = entries[i]
    BY <1>1
  <1>3. /\ entries' \in Seq(Entries) /\ Len(entries') = n
        /\ entries'[n] = e /\ \A i \in 1 .. n - 1 : entries'[i] = entries[i]
    <2> HIDE DEF s
    <2>1. entries' = [s EXCEPT ![n] = e]
      BY DEF s
    <2> QED
      BY <1>2, <2>1
  <1>4. StackTypeOK'
    BY <1>3 DEF StackInv, StackTypeOK
  <1>5. EntriesAreStacked'
    <2>1. rp' = Low(Last(entries'))
      BY <1>3 DEF Last
    <2>2. \A i \in 1 .. Len(entries') :
             entries'[i].top = IF i = 1 THEN StackTop ELSE Low(entries'[i - 1])
      <3> SUFFICES ASSUME NEW i \in 1 .. n
                   PROVE  entries'[i].top = IF i = 1 THEN StackTop ELSE Low(entries'[i - 1])
        BY <1>3
      <3>1. entries'[i].top = entries[i].top
        <4>1. i = n \/ i \in 1 .. n - 1
          OBVIOUS
        <4>2. CASE i = n
          BY <1>3, <4>2
        <4>3. CASE i \in 1 .. n - 1
          <5>1. entries'[i] = entries[i]
            BY <1>3, <4>3
          <5> QED
            BY <5>1
        <4> QED
          BY <4>1, <4>2, <4>3
      <3>2. entries[i].top = IF i = 1 THEN StackTop ELSE Low(entries[i - 1])
        BY <1>1 DEF StackInv, EntriesAreStacked
      <3>3. ASSUME i # 1
            PROVE  entries'[i - 1] = entries[i - 1]
        <4>1. Len(entries) \in Nat
          BY <1>1
        <4>2. i - 1 \in 1 .. n - 1
          BY <3>3, <4>1
        <4> QED
          BY <1>3, <4>2
      <3> QED
        BY <3>1, <3>2, <3>3
    <2>3. entries' # << >>
      BY <1>3
    <2>4. rp' = IF entries' = << >> THEN StackTop ELSE Low(Last(entries'))
      BY <2>1, <2>3
    <2> QED
      BY <2>2, <2>4 DEF EntriesAreStacked
  <1>6. ActivationsFit'
    BY <1>1, <1>3 DEF StackInv, ActivationsFit, ActivationFits, ReturnCell
  <1>7. CallsHaveRoom'
    BY <1>1, <1>3 DEF StackInv, CallsHaveRoom, ReturnCell
  <1>8. TopsBelowTop'
    <2>1. \A i \in 1 .. Len(entries) : entries[i].top <= StackTop
      BY DEF StackInv, TopsBelowTop
    <2>2. ASSUME NEW i \in 1 .. n
          PROVE  entries'[i].top = entries[i].top /\ i \in 1 .. Len(entries)
      <3>1. i \in 1 .. Len(entries) /\ (i = n \/ i \in 1 .. n - 1)
        BY <1>1
      <3> QED
        BY <1>3, <3>1
    <2> QED
      BY <1>3, <2>1, <2>2 DEF TopsBelowTop
  <1> QED
    BY <1>4, <1>5, <1>6, <1>7, <1>8 DEF StackInv

(* The last entry is an entry, and its cells start at RP. *)
LEMMA TheLast ==
  ASSUME StackInv, entries # << >>
  PROVE  /\ Len(entries) \in 1 .. Len(entries)
         /\ Last(entries) = entries[Len(entries)]
         /\ Last(entries) \in Entries
         /\ rp = Low(Last(entries))
         /\ entries = SubSeq(entries, 1, Len(entries))
  BY DEF StackInv, StackTypeOK, EntriesAreStacked, Last

(* The initial stack is empty. *)
LEMMA InitStackInv == StackInit => StackInv
  <1> SUFFICES ASSUME StackInit PROVE StackInv
    OBVIOUS
  <1>1. rp = StackTop /\ entries = << >> /\ halted = FALSE
    BY DEF StackInit
  <1>2. Len(entries) = 0 /\ entries \in Seq(Entries)
    BY <1>1
  <1>3. StackTypeOK
    <2>1. rp \in Int /\ rp <= StackTop
      BY <1>1, StackAssumption
    <2>2. halted \in BOOLEAN
      BY <1>1
    <2> QED
      BY <1>2, <2>1, <2>2 DEF StackTypeOK
  <1>4. EntriesAreStacked
    BY <1>1, <1>2 DEF EntriesAreStacked
  <1>5. ActivationsFit /\ CallsHaveRoom /\ TopsBelowTop
    BY <1>2 DEF ActivationsFit, CallsHaveRoom, TopsBelowTop
  <1> QED
    BY <1>3, <1>4, <1>5 DEF StackInv

(* A step that gives the last entry its next phase. *)
LEMMA LastKeepsStackInv ==
  ASSUME StackInv, entries # << >>, NEW e \in Entries, e.top = Last(entries).top,
         entries' = [entries EXCEPT ![Len(entries)] = e],
         rp' = Low(e), rp' <= StackTop, rp' \in Int, UNCHANGED halted,
         e.phase = "active" => ActivationFits(e),
         e.phase = "call" => Bottom <= ReturnCell(e) - GuardRoom
  PROVE  StackInv'
  <1>1. /\ Len(entries) \in 1 .. Len(entries)
        /\ e.top = entries[Len(entries)].top
        /\ entries' = [SubSeq(entries, 1, Len(entries)) EXCEPT ![Len(entries)] = e]
    BY TheLast
  <1> QED
    BY <1>1, ReplaceLast

(* Starting a sub-expression pushes an entry below RP. *)
LEMMA SubexprKeepsStackInv ==
  ASSUME StackInv, NEW k \in SavedCells, Subexpr(k)
  PROVE  StackInv'
  <1> DEFINE e == [phase |-> "eval", top |-> rp, saved |-> k, ctx |-> 0, frame |-> 0]
  <1>1. entries \in Seq(Entries) /\ rp \in Int /\ rp <= StackTop /\ StackTop \in Int /\ k \in Nat
    BY StackAssumption DEF StackInv, StackTypeOK
  <1>2. e \in Entries
    BY <1>1 DEF Entries
  <1>3. entries' = Append(entries, e) /\ rp' = rp - k - 1 /\ UNCHANGED halted
    BY DEF Subexpr
  <1> HIDE DEF e
  <1>4. /\ entries' \in Seq(Entries) /\ Len(entries') = Len(entries) + 1
        /\ entries'[Len(entries) + 1] = e
        /\ \A i \in 1 .. Len(entries) : entries'[i] = entries[i]
        /\ Last(entries') = e
    BY <1>1, <1>2, <1>3 DEF Last
  <1>5. StackTypeOK'
    BY <1>1, <1>3, <1>4 DEF StackInv, StackTypeOK
  <1>6. EntriesAreStacked'
    <2>1. rp' = Low(Last(entries')) /\ entries' # << >> /\ e.top = rp
      BY <1>1, <1>3, <1>4 DEF e, Low, ReturnCell
    <2>2. rp = IF entries = << >> THEN StackTop ELSE Low(entries[Len(entries)])
      BY DEF StackInv, EntriesAreStacked, Last
    <2>3. ASSUME NEW i \in 1 .. Len(entries')
          PROVE  entries'[i].top = IF i = 1 THEN StackTop ELSE Low(entries'[i - 1])
      <3>1. CASE i = Len(entries) + 1
        <4>1. entries'[i].top = rp
          BY <1>4, <2>1, <3>1
        <4>2. i = 1 <=> entries = << >>
          BY <1>1, <3>1
        <4>3. i # 1 => i - 1 = Len(entries) /\ i - 1 \in 1 .. Len(entries)
          BY <1>1, <3>1
        <4> QED
          BY <1>4, <2>2, <4>1, <4>2, <4>3
      <3>2. CASE i \in 1 .. Len(entries)
        <4>1. entries[i].top = IF i = 1 THEN StackTop ELSE Low(entries[i - 1])
          BY <3>2 DEF StackInv, EntriesAreStacked
        <4>2. i # 1 => i - 1 \in 1 .. Len(entries)
          BY <1>1, <3>2
        <4> QED
          BY <1>4, <3>2, <4>1, <4>2
      <3> QED
        BY <1>1, <1>4, <3>1, <3>2
    <2> QED
      BY <2>1, <2>3 DEF EntriesAreStacked
  <1>7. e.phase = "eval"
    BY DEF e
  <1>8. \A i \in 1 .. Len(entries') : i \in 1 .. Len(entries) \/ entries'[i] = e
    BY <1>1, <1>4
  <1>9. ActivationsFit'
    BY <1>4, <1>7, <1>8 DEF StackInv, ActivationsFit, ActivationFits, ReturnCell
  <1>10. CallsHaveRoom'
    BY <1>4, <1>7, <1>8 DEF StackInv, CallsHaveRoom, ReturnCell
  <1>11. TopsBelowTop'
    <2>1. e.top <= StackTop
      BY <1>1 DEF e
    <2> QED
      BY <1>4, <1>8, <2>1 DEF StackInv, TopsBelowTop
  <1> QED
    BY <1>5, <1>6, <1>9, <1>10, <1>11 DEF StackInv

(* The caller's own cells end where its entry's top is. *)
LEMMA RestoreKeepsStackInv ==
  ASSUME StackInv, Restore
  PROVE  StackInv'
  <1> DEFINE n == Len(entries)
  <1>1. entries \in Seq(Entries) /\ entries # << >> /\ n \in Nat \ {0} /\ StackTop \in Int
    BY StackAssumption DEF StackInv, StackTypeOK, Restore, InPhase
  <1>2. rp' = entries[n].top /\ entries[n].top \in Int /\ entries[n].top <= StackTop
    <2>1. Last(entries).phase = "done" /\ rp' = rp + Last(entries).saved
      BY DEF Restore, InPhase
    <2>2. Last(entries) = entries[n] /\ Last(entries) \in Entries /\ rp = Low(Last(entries))
      BY <1>1, TheLast
    <2>3. PICK e \in Entries : e = entries[n]
      BY <2>2
    <2>4. e.saved \in Int /\ e.top \in Int
      BY EntryFields
    <2>5. rp = e.top - e.saved
      BY <2>1, <2>2, <2>3 DEF Low
    <2>6. rp' = e.top
      BY <2>1, <2>2, <2>3, <2>4, <2>5
    <2> QED
      BY <1>1, <2>3, <2>4, <2>6 DEF StackInv, TopsBelowTop
  <1>3. /\ entries' \in Seq(Entries) /\ Len(entries') = n - 1
        /\ \A i \in 1 .. n - 1 : entries'[i] = entries[i]
    <2>1. entries' = SubSeq(entries, 1, n - 1) /\ halted' = halted
      BY DEF Restore, Front
    <2>2. n \in Int /\ n - 1 \in Int /\ 1 \in 1 .. n /\ n - 1 \in 1 - 1 .. n
      BY <1>1
    <2>3. /\ SubSeq(entries, 1, n - 1) \in Seq(Entries)
          /\ Len(SubSeq(entries, 1, n - 1)) = n - 1
          /\ \A i \in 1 .. n - 1 : SubSeq(entries, 1, n - 1)[i] = entries[i]
      <3>1. ASSUME NEW i \in 1 .. n - 1
            PROVE  i \in Int /\ 1 + i - 1 = i /\ i \in 1 .. n - 1 - 1 + 1
        BY <2>2
      <3> QED
        BY <1>1, <2>2, <3>1, SMTT(30)
    <2> QED
      BY <2>1, <2>3
  <1>4. \A i \in 1 .. n : entries[i].top = IF i = 1 THEN StackTop ELSE Low(entries[i - 1])
    BY DEF StackInv, EntriesAreStacked
  <1> HIDE DEF n
  <1>5. ASSUME n = 1
        PROVE  entries' = << >> /\ rp' = StackTop
    BY <1>2, <1>3, <1>4, <1>5
  <1>6. ASSUME n # 1
        PROVE  entries' # << >> /\ rp' = Low(Last(entries'))
    <2>1. n - 1 \in 1 .. n - 1 /\ n \in 1 .. n /\ entries' # << >>
      BY <1>1, <1>3, <1>6
    <2>2. Last(entries') = entries[n - 1]
      BY <1>3, <2>1 DEF Last
    <2> QED
      BY <1>2, <1>4, <1>6, <2>1, <2>2
  <1>7. \A i \in 1 .. Len(entries') : i \in 1 .. n /\ entries'[i] = entries[i]
                                     /\ (i # 1 => i - 1 \in 1 .. n - 1)
    BY <1>1, <1>3
  <1>8. EntriesAreStacked'
    <2>1. rp' = IF entries' = << >> THEN StackTop ELSE Low(Last(entries'))
      BY <1>5, <1>6
    <2>2. ASSUME NEW i \in 1 .. Len(entries')
          PROVE  entries'[i].top = IF i = 1 THEN StackTop ELSE Low(entries'[i - 1])
      BY <1>3, <1>4, <1>7
    <2> QED
      BY <2>1, <2>2 DEF EntriesAreStacked
  <1>9. StackTypeOK'
    BY <1>2, <1>3 DEF StackInv, StackTypeOK, Restore
  <1>10. ActivationsFit' /\ CallsHaveRoom' /\ TopsBelowTop'
    BY <1>7 DEF StackInv, ActivationsFit, ActivationFits, CallsHaveRoom, TopsBelowTop,
                ReturnCell, n
  <1> QED
    BY <1>8, <1>9, <1>10 DEF StackInv

(* mkctx and the frame's allocation come after the arguments. *)
LEMMA ActivateKeepsStackInv ==
  ASSUME StackInv, Activate
  PROVE  StackInv'
  <1>1. entries # << >> /\ Last(entries).phase = "call"
    BY DEF Activate, InPhase
  <1>2. PICK l \in Entries : l = Last(entries) /\ rp = Low(l) /\ l.phase = "call"
    BY <1>1, TheLast
  <1> DEFINE r == ReturnCell(l)
             c == Mkctx(r - 1)
             e == [l EXCEPT !.phase = "active", !.ctx = c, !.frame = FrameBase(c)]
  <1>3. l.top \in Int /\ l.saved \in Int /\ l.saved >= 0 /\ r \in Int
    BY EntryFields DEF ReturnCell
  <1>4. rp = r - 2 /\ rp + 2 - 1 = r - 1
    BY <1>2, <1>3 DEF Low
  <1>5. Bottom <= r - GuardRoom
    BY <1>1, <1>2, TheLast DEF StackInv, CallsHaveRoom
  <1>6. /\ c \in Int /\ FrameBase(c) \in Int
        /\ c % 16 = 0 /\ FrameBase(c) % 16 = 0
        /\ Bottom <= FrameBase(c) /\ FrameBase(c) + FrameCells <= c
        /\ c + CtxCells <= r /\ FrameBase(c) <= r
    <2> HIDE DEF r
    <2> QED
      BY <1>3, <1>5, NewActivationFits
  <1>7. entries' = [entries EXCEPT ![Len(entries)] = e] /\ rp' = FrameBase(c) /\ UNCHANGED halted
    <2>1. Last(entries) = entries[Len(entries)] /\ Len(entries) \in 1 .. Len(entries)
      BY <1>1, TheLast
    <2>2. Mkctx(rp + 2 - 1) = c
      BY <1>4
    <2> HIDE DEF c
    <2> QED
      BY <1>2, <2>1, <2>2 DEF Activate
  <1> HIDE DEF c, r
  <1>8. /\ e \in Entries /\ e.top = l.top /\ e.saved = l.saved
        /\ e.phase = "active" /\ e.ctx = c /\ e.frame = FrameBase(c)
    BY <1>6 DEF Entries
  <1> HIDE DEF e
  <1>9. ReturnCell(e) = r
    BY <1>8 DEF ReturnCell, r
  <1>10. ActivationFits(e)
    BY <1>6, <1>8, <1>9 DEF ActivationFits
  <1>11. rp' = Low(e) /\ rp' \in Int
    BY <1>6, <1>7, <1>8 DEF Low
  <1>12. rp' <= StackTop
    <2>1. rp \in Int /\ rp <= StackTop /\ l.top <= StackTop /\ StackTop \in Int
      BY <1>1, <1>2, TheLast, StackAssumption DEF StackInv, StackTypeOK, TopsBelowTop
    <2> QED
      BY <1>3, <1>6, <1>7, <2>1 DEF r, ReturnCell
  <1> QED
    BY <1>1, <1>2, <1>7, <1>8, <1>10, <1>11, <1>12, LastKeepsStackInv

(* The stack is as it was. *)
LEMMA SameStackKeepsStackInv ==
  ASSUME StackInv, UNCHANGED <<rp, entries>>, halted' \in BOOLEAN
  PROVE  StackInv'
  <1>1. StackTypeOK' /\ TopsBelowTop'
    BY DEF StackInv, StackTypeOK, TopsBelowTop
  <1>2. EntriesAreStacked'
    <2>1. rp' = IF entries' = << >> THEN StackTop ELSE Low(Last(entries'))
      BY DEF StackInv, EntriesAreStacked
    <2>2. \A i \in 1 .. Len(entries') :
             entries'[i].top = IF i = 1 THEN StackTop ELSE Low(entries'[i - 1])
      BY DEF StackInv, EntriesAreStacked
    <2> QED
      BY <2>1, <2>2 DEF EntriesAreStacked, Low, ReturnCell
  <1>3. ActivationsFit'
    BY DEF StackInv, ActivationsFit, ActivationFits, ReturnCell
  <1>4. CallsHaveRoom'
    BY DEF StackInv, CallsHaveRoom, ReturnCell
  <1> QED
    BY <1>1, <1>2, <1>3, <1>4 DEF StackInv

(* A literal, or the check of an invocation, changes the last entry's phase. *)
LEMMA AtOnceKeepsStackInv ==
  ASSUME StackInv, AtOnce
  PROVE  StackInv'
  <1>1. entries # << >> /\ Last(entries).phase = "eval"
    BY DEF AtOnce, InPhase
  <1>2. PICK l \in Entries : /\ l = Last(entries) /\ l = entries[Len(entries)]
                             /\ rp = Low(l) /\ l.phase = "eval" /\ l.top <= StackTop
    BY <1>1, TheLast DEF StackInv, TopsBelowTop
  <1> DEFINE e == [l EXCEPT !.phase = "done"]
  <1>3. l.top \in Int /\ l.saved \in Int /\ l.saved >= 0 /\ StackTop \in Int
    BY EntryFields, StackAssumption
  <1>4. e \in Entries /\ e.phase = "done" /\ e.top = l.top /\ e.saved = l.saved
    BY DEF Entries
  <1>5. entries' = [entries EXCEPT ![Len(entries)] = e] /\ rp' = rp + 1 /\ UNCHANGED halted
    BY <1>2 DEF AtOnce
  <1> HIDE DEF e
  <1>6. rp = l.top - l.saved - 1
    BY <1>2 DEF Low, ReturnCell
  <1>7. rp' = Low(e) /\ rp' \in Int /\ rp' <= StackTop
    BY <1>2, <1>3, <1>4, <1>5, <1>6 DEF Low
  <1> QED
    BY <1>1, <1>2, <1>4, <1>5, <1>7, LastKeepsStackInv

(* An invocation halts or goes on with the room it has found.              *)
LEMMA InvokeKeepsStackInv ==
  ASSUME StackInv, Invoke
  PROVE  StackInv'
  <1>1. entries # << >> /\ Last(entries).phase = "eval"
    BY DEF Invoke, InPhase
  <1>2. PICK l \in Entries : /\ l = Last(entries) /\ l = entries[Len(entries)]
                             /\ rp = Low(l) /\ l.phase = "eval" /\ l.top <= StackTop
    BY <1>1, TheLast DEF StackInv, TopsBelowTop
  <1>3. l.top \in Int /\ l.saved \in Int /\ l.saved >= 0 /\ StackTop \in Int /\ Bottom \in Int
    BY EntryFields, StackAssumption
  <1>4. CASE rp - GuardRoom < Bottom
    <2>1. halted' = TRUE /\ UNCHANGED <<rp, entries>>
      BY <1>4 DEF Invoke
    <2> QED
      BY <2>1, SameStackKeepsStackInv
  <1>5. CASE ~(rp - GuardRoom < Bottom)
    <2> DEFINE e == [l EXCEPT !.phase = "call"]
    <2>1. e \in Entries /\ e.phase = "call" /\ e.top = l.top /\ e.saved = l.saved
      BY DEF Entries
    <2>2. entries' = [entries EXCEPT ![Len(entries)] = e] /\ rp' = rp - 2 /\ UNCHANGED halted
      BY <1>2, <1>5 DEF Invoke
    <2> HIDE DEF e
    <2>3. rp = l.top - l.saved - 1
      BY <1>2 DEF Low, ReturnCell
    <2>4. ReturnCell(e) = rp
      BY <2>1, <2>3 DEF ReturnCell
    <2>5. rp' = Low(e) /\ rp' \in Int /\ rp' <= StackTop
      BY <1>2, <1>3, <2>1, <2>2, <2>3, <2>4 DEF Low
    <2>6. Bottom <= ReturnCell(e) - GuardRoom
      BY <1>3, <1>5, <2>3, <2>4 DEF GuardRoom
    <2> QED
      BY <1>1, <1>2, <2>1, <2>2, <2>5, <2>6, LastKeepsStackInv
  <1> QED
    BY <1>4, <1>5

(* FRAME_RP is the cell above the return address, whatever lies below. *)
LEMMA LeaveKeepsStackInv ==
  ASSUME StackInv, NEW n \in 1 .. Len(entries), Leave(n)
  PROVE  StackInv'
  <1>1. entries \in Seq(Entries)
    BY DEF StackInv, StackTypeOK
  <1>2. PICK l \in Entries : l = entries[n] /\ l.top <= StackTop
    BY <1>1 DEF StackInv, TopsBelowTop
  <1> DEFINE e == [l EXCEPT !.phase = "done"]
  <1>3. l.top \in Int /\ l.saved \in Int /\ l.saved >= 0 /\ StackTop \in Int
    BY EntryFields, StackAssumption
  <1>4. e \in Entries /\ e.phase = "done" /\ e.top = l.top /\ e.saved = l.saved
    BY DEF Entries
  <1>5. SubSeq(entries, 1, n)[n] = l
    BY <1>1, <1>2
  <1>6. /\ entries' = [SubSeq(entries, 1, n) EXCEPT ![n] = e]
        /\ rp' = l.top - l.saved /\ UNCHANGED halted
    <2>1. entries' = [SubSeq(entries, 1, n) EXCEPT ![n].phase = "done"]
      BY DEF Leave
    <2>2. rp' = ReturnCell(l) + 1 /\ UNCHANGED halted
      BY <1>2 DEF Leave
    <2>3. [SubSeq(entries, 1, n) EXCEPT ![n].phase = "done"] = [SubSeq(entries, 1, n) EXCEPT ![n] = e]
      BY <1>5
    <2>4. entries' = [SubSeq(entries, 1, n) EXCEPT ![n] = e]
      BY <2>1, <2>3
    <2>5. rp' = l.top - l.saved
      BY <1>3, <2>2 DEF ReturnCell
    <2> QED
      BY <2>2, <2>4, <2>5
  <1> HIDE DEF e
  <1>7. rp' = Low(e) /\ rp' \in Int /\ rp' <= StackTop
    BY <1>2, <1>3, <1>4, <1>6 DEF Low
  <1> QED
    BY <1>2, <1>4, <1>6, <1>7, ReplaceLast

(* StackInv is inductive: the return stack is in order whatever is evaluated.  *)
THEOREM StackInvariance == StackSpec => []StackInv
  <1>1. StackInit => StackInv
    BY InitStackInv
  <1>2. StackInv /\ [StackNext]_stack => StackInv'
    <2> SUFFICES ASSUME StackInv, [StackNext]_stack PROVE StackInv'
      OBVIOUS
    <2>1. CASE UNCHANGED stack
      BY <2>1, SameStackKeepsStackInv DEF stack, StackInv, StackTypeOK
    <2>2. ASSUME NEW k \in SavedCells, Subexpr(k) PROVE StackInv'
      BY <2>2, SubexprKeepsStackInv
    <2>3. CASE AtOnce
      BY <2>3, AtOnceKeepsStackInv
    <2>4. CASE Restore
      BY <2>4, RestoreKeepsStackInv
    <2>5. CASE Invoke
      BY <2>5, InvokeKeepsStackInv
    <2>6. CASE Activate
      BY <2>6, ActivateKeepsStackInv
    <2>7. ASSUME NEW n \in 1 .. Len(entries), Leave(n) PROVE StackInv'
      BY <2>7, LeaveKeepsStackInv
    <2> QED
      BY <2>1, <2>2, <2>3, <2>4, <2>5, <2>6, <2>7 DEF StackNext
  <1> QED
    BY <1>1, <1>2, PTL DEF StackSpec

(* RP never rises above the stack's top and the entries keep their types. *)
THEOREM StackTypeCorrect == StackSpec => []StackTypeOK
  <1>1. StackInv => StackTypeOK
    BY DEF StackInv
  <1> QED
    BY <1>1, StackInvariance, PTL

(* However activations end, normally or by a return across any number of   *)
(* them, the caller finds RP at its own saved cells.                       *)
THEOREM StackIsDisciplined == StackSpec => []EntriesAreStacked
  <1>1. StackInv => EntriesAreStacked
    BY DEF StackInv
  <1> QED
    BY <1>1, StackInvariance, PTL

(* The 96 cells the guard asks for are enough for every alignment of RP,   *)
(* and are still there when the arguments have been evaluated.             *)
THEOREM GuardIsEnough == StackSpec => []ActivationsFit
  <1>1. StackInv => ActivationsFit
    BY DEF StackInv
  <1> QED
    BY <1>1, StackInvariance, PTL

(* The discipline and the guard together, for every size of the stack.     *)
THEOREM StackStaysSound == StackSpec => []StackIsSound
  <1>1. StackInv => StackIsSound
    BY DEF StackInv, StackIsSound
  <1> QED
    BY <1>1, StackInvariance, PTL
=============================================================================
