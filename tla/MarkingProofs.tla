--------------------------- MODULE MarkingProofs ---------------------------
(***************************************************************************)
(* The mark phase marks exactly what is reachable and stays inside its     *)
(* worklist, for every object graph.                                       *)
(***************************************************************************)
EXTENDS Marking, FiniteSetTheorems, SequenceTheorems, TLAPS

(* A value mark_value has dealt with. *)
Covered(v) == v \notin Bad /\ (v \in Node => v \in marked \cup seen)

Queued(n)  == \E k \in 1 .. Len(worklist) : worklist[k] = n
OnTrail(n) == \E k \in 1 .. Len(trail) : trail[k].node = n

(* Tri-colour: a node that was reached is queued (grey), being traced, or  *)
(* all its fields were dealt with (black); a tracer has dealt with every   *)
(* field before its cursor.                                                *)
Black(n) == \A j \in 1 .. Len(fields[n]) : Covered(fields[n][j])

TriColour ==
    /\ \A n \in marked \cup seen \cup {Root} : Queued(n) \/ OnTrail(n) \/ Black(n)
    /\ \A k \in 1 .. Len(trail) : \A j \in 1 .. Len(fields[trail[k].node]) :
          j < trail[k].next => Covered(fields[trail[k].node][j])

QueueInv ==
    /\ \A k \in 1 .. Len(worklist) : worklist[k] \in marked
    /\ \A k, m \in 1 .. Len(worklist) : worklist[k] = worklist[m] => k = m

OnlyReachable ==
    /\ marked \subseteq Reachable
    /\ seen \subseteq Reachable
    /\ \A k \in 1 .. Len(trail) : trail[k].node \in Reachable

PhaseInv ==
    /\ pc = "done" => trail = <<>> /\ worklist = <<>>
    /\ pc = "halt" => CorruptReachable

IInv == TypeOK /\ TriColour /\ QueueInv /\ OnlyReachable /\ PhaseInv

-----------------------------------------------------------------------------
(* The last element of a non-empty sequence, and the sequence without it. *)
LEMMA DropLast ==
    ASSUME NEW S, NEW s \in Seq(S), s # <<>>
    PROVE  /\ Len(s) \in Nat \ {0} /\ s[Len(s)] \in S
           /\ SubSeq(s, 1, Len(s) - 1) \in Seq(S)
           /\ Len(SubSeq(s, 1, Len(s) - 1)) = Len(s) - 1
           /\ \A k \in 1 .. Len(s) - 1 : SubSeq(s, 1, Len(s) - 1)[k] = s[k]
<1>1. Len(s) \in Nat \ {0}
  BY EmptySeq
<1>2. Len(s) \in 1 .. Len(s) /\ s[Len(s)] \in S
  BY <1>1, ElementOfSeq
<1>3. \A i \in 1 .. Len(s) - 1 : s[i] \in S
  BY <1>1, ElementOfSeq
<1>4. /\ SubSeq(s, 1, Len(s) - 1) \in Seq(S)
      /\ Len(SubSeq(s, 1, Len(s) - 1)) = IF 1 <= Len(s) - 1 THEN Len(s) - 1 - 1 + 1 ELSE 0
      /\ \A i \in 1 .. (Len(s) - 1) - 1 + 1 : SubSeq(s, 1, Len(s) - 1)[i] = s[1 + i - 1]
  BY <1>1, <1>3, SubSeqProperties
<1>5. Len(SubSeq(s, 1, Len(s) - 1)) = Len(s) - 1
  <2>1. \A n \in Nat \ {0} : \A m : m = (IF 1 <= n - 1 THEN n - 1 - 1 + 1 ELSE 0) => m = n - 1
    OBVIOUS
  <2> QED BY <1>1, <1>4, <2>1, Zenon
<1>6. \A k \in 1 .. Len(s) - 1 : SubSeq(s, 1, Len(s) - 1)[k] = s[k]
  <2> SUFFICES ASSUME NEW k \in 1 .. Len(s) - 1 PROVE SubSeq(s, 1, Len(s) - 1)[k] = s[k]
    OBVIOUS
  <2>1. k \in 1 .. (Len(s) - 1) - 1 + 1 /\ 1 + k - 1 = k
    BY <1>1
  <2> QED BY <1>4, <2>1
<1> QED BY <1>1, <1>2, <1>4, <1>5, <1>6

(* Reachable holds the roots and is closed under the fields. *)
LEMMA ReachableClosed ==
    /\ Root \in Reachable
    /\ \A n \in Reachable : \A i \in 1 .. Len(fields[n]) :
          fields[n][i] \in Node => fields[n][i] \in Reachable
<1>1. Root \in Reachable
  BY DEF Reachable, Node
<1>2. ASSUME NEW n \in Reachable, NEW i \in 1 .. Len(fields[n]), fields[n][i] \in Node
      PROVE  fields[n][i] \in Reachable
  <2> SUFFICES ASSUME NEW S \in SUBSET Node, Root \in S, Closed(S)
               PROVE  fields[n][i] \in S
    BY <1>2 DEF Reachable
  <2>1. n \in S
    BY DEF Reachable
  <2> QED BY <1>2, <2>1 DEF Closed
<1> QED BY <1>1, <1>2

(* Everything reachable lies in any closed set that holds the roots. *)
LEMMA ReachableLeast ==
    ASSUME NEW S \in SUBSET Node, Root \in S, Closed(S) PROVE Reachable \subseteq S
  BY DEF Reachable

(* The collection starts at the roots with nothing marked.                 *)
LEMMA InitInv == Init => IInv
<1> SUFFICES ASSUME Init PROVE IInv
  OBVIOUS
<1> USE DEF Init
<1>1. WellFormed(fields)
  BY MarkingAssumption
<1>2. TypeOK
  <2>1. trail \in Seq([node : Node, next : Nat \ {0}])
    BY DEF Node
  <2> QED BY <1>1, <2>1 DEF TypeOK
<1>3. Len(trail) = 1 /\ trail[1] = [node |-> Root, next |-> 1] /\ Len(worklist) = 0
  OBVIOUS
<1>4. TriColour
  <2>1. OnTrail(Root)
    BY <1>3 DEF OnTrail
  <2>2. \A k \in 1 .. Len(trail) : trail[k].next = 1
    BY <1>3
  <2> QED BY <2>1, <2>2 DEF TriColour
<1>5. OnlyReachable
  BY <1>3, ReachableClosed DEF OnlyReachable
<1> QED BY <1>2, <1>3, <1>4, <1>5 DEF IInv, QueueInv, PhaseInv

(* The top tracer, and what advancing its cursor does to the trail. *)
LEMMA TopFacts ==
    ASSUME IInv, Tracing
    PROVE  /\ Len(trail) \in Nat /\ Len(trail) >= 1
           /\ Top.node \in Node /\ Top.next \in Nat \ {0}
           /\ Top.node \in Reachable
           /\ fields \in [Node -> Seq(Value \cup Frame)]
           /\ Len(fields[Top.node]) \in Nat
<1>1. Len(trail) \in Nat /\ Len(trail) >= 1 /\ trail[Len(trail)] \in [node : Node, next : Nat \ {0}]
  <2>1. trail \in Seq([node : Node, next : Nat \ {0}]) /\ trail # <<>>
    BY DEF IInv, TypeOK, Tracing
  <2>2. Len(trail) \in Nat \ {0}
    BY <2>1, EmptySeq
  <2>3. Len(trail) \in 1 .. Len(trail)
    BY <2>2
  <2>4. trail[Len(trail)] \in [node : Node, next : Nat \ {0}]
    BY <2>1, <2>3, ElementOfSeq
  <2> QED BY <2>2, <2>4
<1>2. fields \in [Node -> Seq(Value \cup Frame)]
  BY DEF IInv, TypeOK, WellFormed
<1> QED BY <1>1, <1>2 DEF Top, IInv, OnlyReachable

(* The cell a tracer is at is a value of its object's fields.              *)
LEMMA CurrentFacts ==
    ASSUME IInv, Tracing, HasNext
    PROVE  /\ Top.next \in 1 .. Len(fields[Top.node])
           /\ Current \in Value \cup Frame
           /\ Current \in Node => Current \in Reachable
<1>1. Top.next \in 1 .. Len(fields[Top.node])
  BY TopFacts DEF HasNext
<1>2. fields[Top.node] \in Seq(Value \cup Frame)
  BY TopFacts
<1>3. Current \in Value \cup Frame
  BY <1>1, <1>2, ElementOfSeq DEF Current
<1> QED BY <1>1, <1>3, TopFacts, ReachableClosed DEF Current

(* Moving the cursor keeps the trail's type and its nodes.                 *)
LEMMA AdvancedFacts ==
    ASSUME IInv, Tracing, HasNext
    PROVE  /\ Advanced \in Seq([node : Node, next : Nat \ {0}])
           /\ Len(Advanced) = Len(trail)
           /\ \A k \in 1 .. Len(trail) :
                 /\ Advanced[k].node = trail[k].node
                 /\ Advanced[k].next = IF k = Len(trail) THEN Top.next + 1 ELSE trail[k].next
<1> DEFINE E == [node : Node, next : Nat \ {0}]
<1>1. trail \in Seq(E) /\ Len(trail) \in 1 .. Len(trail)
  BY TopFacts DEF IInv, TypeOK
<1>2. Advanced = [trail EXCEPT ![Len(trail)] = [Top EXCEPT !.next = @ + 1]]
  BY DEF Advanced, Top
<1>3. [Top EXCEPT !.next = @ + 1] \in E
      /\ [Top EXCEPT !.next = @ + 1].node = Top.node
      /\ [Top EXCEPT !.next = @ + 1].next = Top.next + 1
  <2>1. Top \in E
    BY <1>1, ElementOfSeq DEF Top
  <2> QED BY <2>1
<1> HIDE DEF E
<1> DEFINE e == [Top EXCEPT !.next = @ + 1]
<1> HIDE DEF e
<1>4. e \in E /\ Advanced = [trail EXCEPT ![Len(trail)] = e]
  BY <1>2, <1>3 DEF e
<1>5. /\ Advanced \in Seq(E) /\ Len(Advanced) = Len(trail)
      /\ \A j \in 1 .. Len(trail) : Advanced[j] = IF j = Len(trail) THEN e ELSE trail[j]
  BY <1>1, <1>4, ExceptSeq
<1>6. e.node = Top.node /\ e.next = Top.next + 1
  BY <1>3 DEF e
<1> QED BY <1>1, <1>5, <1>6 DEF E, Top


(* Advancing the innermost tracer past a value that is now dealt with     *)
(* keeps the second half of TriColour.                                     *)
LEMMA AdvanceCovers ==
    ASSUME IInv, Tracing, HasNext, NEW c, c = Current, Covered(c)',
           \A v : Covered(v) => Covered(v)',
           NEW k \in 1 .. Len(trail), NEW j \in 1 .. Len(fields[trail[k].node]),
           j < Advanced[k].next,
           NEW v, v = fields[trail[k].node][j]
    PROVE  Covered(v)'
<1>1. Advanced[k].next = IF k = Len(trail) THEN Top.next + 1 ELSE trail[k].next
  BY AdvancedFacts
<1>2. CASE k = Len(trail) /\ j = Top.next
  <2>1. v = c
    BY <1>2 DEF Current, Top
  <2> QED BY <2>1
<1>3. CASE ~(k = Len(trail) /\ j = Top.next)
  <2>1. k = Len(trail) => trail[k] = Top
    BY DEF Top
  <2>2. j \in Int /\ Top.next \in Int
    BY TopFacts
  <2>3. j < trail[k].next
    BY <1>1, <1>3, <2>1, <2>2
  <2>4. Covered(v)
    BY <2>3 DEF IInv, TriColour
  <2> QED BY <2>4
<1> QED BY <1>2, <1>3

-----------------------------------------------------------------------------
(* One lemma per action. *)

(* mark-push marks an object and queues it once.                           *)
LEMMA MarkPushStep == ASSUME IInv, MarkPush PROVE IInv'
<1> USE DEF IInv
<1>0. PICK c : c = Current
  OBVIOUS
<1>1. Tracing /\ HasNext /\ c \in Obj \ marked /\ fields' = fields /\ seen' = seen
      /\ marked' = marked \cup {c} /\ pc' = pc /\ pc = "trace"
      /\ worklist' = Append(worklist, c) /\ trail' = Advanced
  BY <1>0 DEF MarkPush, Tracing
<1>2. worklist \in Seq(Obj) /\ Len(worklist) \in Nat
  BY DEF TypeOK
<1>3. /\ worklist' \in Seq(Obj) /\ Len(worklist') = Len(worklist) + 1
      /\ \A k \in 1 .. Len(worklist) : worklist'[k] = worklist[k]
      /\ worklist'[Len(worklist) + 1] = c
  BY <1>1, <1>2, AppendProperties
<1>4. TypeOK'
  BY <1>1, <1>3, AdvancedFacts DEF TypeOK
<1>5. \A v : Covered(v) => Covered(v)'
  BY <1>1 DEF Covered
<1>6. Covered(c)'
  BY <1>1, MarkingAssumption DEF Covered
<1>7. QueueInv'
  <2>1. \A k \in 1 .. Len(worklist') : worklist'[k] \in marked'
    BY <1>1, <1>2, <1>3 DEF QueueInv
  <2>2. \A k \in 1 .. Len(worklist) : worklist'[k] \in marked /\ worklist'[k] # c
    BY <1>1, <1>3 DEF QueueInv
  <2>3. \A k, m \in 1 .. Len(worklist) : worklist'[k] = worklist'[m] => k = m
    BY <1>3 DEF QueueInv
  <2> QED BY <1>2, <1>3, <2>1, <2>2, <2>3 DEF QueueInv
<1>8. TriColour'
  <2>1. ASSUME NEW n \in (marked \cup seen \cup {Root})'
        PROVE  Queued(n)' \/ OnTrail(n)' \/ Black(n)'
    <3>1. CASE n = c
      BY <1>2, <1>3, <3>1 DEF Queued
    <3>2. CASE n # c
      <4>1. n \in marked \cup seen \cup {Root}
        BY <1>1, <3>2
      <4>2. Queued(n) => Queued(n)'
        BY <1>2, <1>3 DEF Queued
      <4>3. OnTrail(n) => OnTrail(n)'
        BY <1>1, AdvancedFacts DEF OnTrail
      <4>4. Black(n) => Black(n)'
        BY <1>1, <1>5 DEF Black
      <4> QED BY <4>1, <4>2, <4>3, <4>4 DEF TriColour
    <3> QED BY <3>1, <3>2
  <2>2. ASSUME NEW k \in 1 .. Len(trail'), NEW j \in 1 .. Len(fields[trail'[k].node]),
               j < trail'[k].next, NEW v, v = fields[trail'[k].node][j]
        PROVE  Covered(v)'
    BY <1>0, <1>1, <1>5, <1>6, <2>2, AdvancedFacts, AdvanceCovers
  <2> QED BY <1>1, <2>1, <2>2 DEF TriColour
<1>9. OnlyReachable'
  <2>1. Reachable' = Reachable
    BY <1>1 DEF Reachable, Closed
  <2>2. c \in Reachable
    BY <1>0, <1>1, CurrentFacts DEF Node
  <2> QED BY <1>1, <2>1, <2>2, AdvancedFacts DEF OnlyReachable
<1>10. PhaseInv'
  BY <1>1 DEF PhaseInv
<1> QED BY <1>4, <1>7, <1>8, <1>9, <1>10

(* A scalar, a marked object or a context seen before is passed over.      *)
LEMMA SkipStep == ASSUME IInv, Skip PROVE IInv'
<1> USE DEF IInv
<1>0. PICK c : c = Current
  OBVIOUS
<1>1. Tracing /\ HasNext /\ c \in marked \cup Scalar /\ trail' = Advanced
      /\ UNCHANGED <<fields, marked, worklist, seen, pc>> /\ pc = "trace"
  BY <1>0 DEF Skip, Tracing
<1>2. TypeOK'
  BY <1>1, AdvancedFacts DEF TypeOK
<1>3. \A v : Covered(v) <=> Covered(v)'
  BY <1>1 DEF Covered
<1>4. Covered(c)'
  BY <1>1, MarkingAssumption DEF Covered, TypeOK, Node, Value
<1>5. TriColour'
  <2>1. ASSUME NEW n \in marked \cup seen \cup {Root}
        PROVE  Queued(n)' \/ OnTrail(n)' \/ Black(n)'
    <3>1. OnTrail(n) => OnTrail(n)'
      BY <1>1, AdvancedFacts DEF OnTrail
    <3>2. (Queued(n) => Queued(n)') /\ (Black(n) => Black(n)')
      BY <1>1, <1>3 DEF Queued, Black
    <3> QED BY <3>1, <3>2 DEF TriColour
  <2>2. ASSUME NEW k \in 1 .. Len(trail'), NEW j \in 1 .. Len(fields[trail'[k].node]),
               j < trail'[k].next, NEW v, v = fields[trail'[k].node][j]
        PROVE  Covered(v)'
    BY <1>0, <1>1, <1>3, <1>4, <2>2, AdvancedFacts, AdvanceCovers
  <2> QED BY <1>1, <2>1, <2>2 DEF TriColour
<1>6. OnlyReachable'
  <2>1. Reachable' = Reachable
    BY <1>1 DEF Reachable, Closed
  <2> QED BY <1>1, <2>1, AdvancedFacts DEF OnlyReachable
<1> QED BY <1>1, <1>2, <1>5, <1>6 DEF QueueInv, PhaseInv

(* A context off the heap and a frame are entered at once, on the return  *)
(* stack.                                                                  *)
LEMMA EnterStep == ASSUME IInv, TraceContext \/ MarkFrame PROVE IInv'
<1> USE DEF IInv
<1>0. PICK c : c = Current
  OBVIOUS
<1> DEFINE E == [node : Node, next : Nat \ {0}]
           new == [node |-> c, next |-> 1]
<1>1. Tracing /\ HasNext /\ c \in Ext \cup Frame /\ trail' = Append(Advanced, new)
      /\ seen' = seen \cup {c} /\ UNCHANGED <<fields, marked, worklist, pc>> /\ pc = "trace"
  BY <1>0 DEF TraceContext, MarkFrame, Enter, Tracing
<1>2. /\ trail' \in Seq(E)
      /\ Len(trail') = Len(trail) + 1
      /\ \A k \in 1 .. Len(trail) : trail'[k] = Advanced[k]
      /\ trail'[Len(trail) + 1] = new
      /\ Len(trail) \in Nat
  <2>1. new \in E
    BY <1>1 DEF Node
  <2>2. Advanced \in Seq(E) /\ Len(Advanced) = Len(trail) /\ Len(trail) \in Nat
    BY <1>1, AdvancedFacts, TopFacts
  <2> HIDE DEF E, new
  <2> QED BY <1>1, <2>1, <2>2, AppendProperties
<1>3. TypeOK'
  BY <1>1, <1>2 DEF TypeOK
<1>4. \A v : Covered(v) => Covered(v)'
  BY <1>1 DEF Covered
<1>5. Covered(c)'
  BY <1>1, MarkingAssumption DEF Covered, Value
<1>6. OnTrail(c)'
  <2>1. Len(trail') \in 1 .. Len(trail') /\ trail'[Len(trail')].node = c
    BY <1>2
  <2> QED BY <2>1 DEF OnTrail
<1>7. TriColour'
  <2>1. ASSUME NEW n \in (marked \cup seen \cup {Root})', n # c
        PROVE  Queued(n)' \/ OnTrail(n)' \/ Black(n)'
    <3>1. n \in marked \cup seen \cup {Root}
      BY <1>1, <2>1
    <3>2. OnTrail(n) => OnTrail(n)'
      <4> SUFFICES ASSUME NEW k \in 1 .. Len(trail), trail[k].node = n
                   PROVE  k \in 1 .. Len(trail') /\ trail'[k].node = n
        BY DEF OnTrail
      <4> QED BY <1>1, <1>2, AdvancedFacts
    <3>3. (Queued(n) => Queued(n)') /\ (Black(n) => Black(n)')
      BY <1>1, <1>4 DEF Queued, Black
    <3> QED BY <3>1, <3>2, <3>3 DEF TriColour
  <2>2. ASSUME NEW k \in 1 .. Len(trail'), NEW j \in 1 .. Len(fields[trail'[k].node]),
               j < trail'[k].next, NEW v, v = fields[trail'[k].node][j]
        PROVE  Covered(v)'
    <3>1. CASE k = Len(trail) + 1
      BY <1>2, <2>2, <3>1
    <3>2. CASE k \in 1 .. Len(trail)
      <4>1. trail'[k] = Advanced[k] /\ trail'[k].node = trail[k].node
        BY <1>1, <1>2, <3>2, AdvancedFacts
      <4> QED BY <1>0, <1>1, <1>4, <1>5, <2>2, <3>2, <4>1, AdvanceCovers
    <3> QED BY <1>2, <3>1, <3>2
  <2> QED BY <1>1, <1>6, <2>1, <2>2 DEF TriColour
<1>8. OnlyReachable'
  <2>1. Reachable' = Reachable
    BY <1>1 DEF Reachable, Closed
  <2>2. c \in Reachable
    BY <1>0, <1>1, CurrentFacts DEF Node
  <2>3. \A k \in 1 .. Len(trail') : trail'[k].node \in Reachable
    <3>1. \A k \in 1 .. Len(trail) : trail'[k].node \in Reachable
      BY <1>1, <1>2, AdvancedFacts DEF OnlyReachable
    <3> QED BY <1>2, <2>2, <3>1
  <2> QED BY <1>1, <2>1, <2>2, <2>3 DEF OnlyReachable
<1> QED BY <1>1, <1>3, <1>7, <1>8 DEF QueueInv, PhaseInv

(* The machine halts on a corrupt cell that a reached node holds.          *)
LEMMA FailStopStep == ASSUME IInv, FailStop PROVE IInv'
<1> USE DEF IInv
<1>1. Tracing /\ HasNext /\ Current \in Bad /\ pc' = "halt"
      /\ UNCHANGED <<fields, marked, worklist, trail, seen>>
  BY DEF FailStop
<1>2. CorruptReachable
  BY <1>1, TopFacts, CurrentFacts DEF CorruptReachable, Current
<1>3. CorruptReachable'
  <2>1. Reachable' = Reachable
    BY <1>1 DEF Reachable, Closed
  <2> QED BY <1>1, <1>2, <2>1 DEF CorruptReachable
<1>4. TypeOK' /\ QueueInv'
  BY <1>1 DEF TypeOK, QueueInv
<1>5. TriColour'
  BY <1>1 DEF TriColour, Queued, OnTrail, Black, Covered
<1>6. OnlyReachable'
  BY <1>1 DEF OnlyReachable, Reachable, Closed
<1> QED BY <1>1, <1>3, <1>4, <1>5, <1>6 DEF PhaseInv

(* A tracer ends with all fields of its node reached.                      *)
LEMMA LeaveTracerStep == ASSUME IInv, LeaveTracer PROVE IInv'
<1> USE DEF IInv
<1> DEFINE E == [node : Node, next : Nat \ {0}]
<1>1. Tracing /\ ~HasNext /\ trail' = SubSeq(trail, 1, Len(trail) - 1)
      /\ UNCHANGED <<fields, marked, worklist, seen, pc>> /\ pc = "trace"
  BY DEF LeaveTracer, Tracing
<1>2. /\ trail' \in Seq(E) /\ Len(trail') = Len(trail) - 1
      /\ \A k \in 1 .. Len(trail) - 1 : trail'[k] = trail[k]
      /\ Len(trail) \in Nat \ {0}
  <2>1. trail \in Seq(E) /\ trail # <<>>
    BY <1>1 DEF TypeOK, Tracing
  <2> HIDE DEF E
  <2> QED BY <1>1, <2>1, DropLast
<1>3. TypeOK'
  BY <1>1, <1>2 DEF TypeOK
<1>4. \A v : Covered(v) <=> Covered(v)'
  BY <1>1 DEF Covered
<1>5. Black(Top.node)
  <2>1. \A j \in 1 .. Len(fields[Top.node]) : j < Top.next
    BY <1>1, TopFacts DEF HasNext
  <2> QED BY <1>2, <2>1 DEF TriColour, Top, Black
<1>6. TriColour'
  <2>1. ASSUME NEW n \in marked \cup seen \cup {Root}
        PROVE  Queued(n)' \/ OnTrail(n)' \/ Black(n)'
    <3>1. (Queued(n) => Queued(n)') /\ (Black(n) => Black(n)')
      BY <1>1, <1>4 DEF Queued, Black
    <3>2. CASE OnTrail(n)
      <4>1. PICK k \in 1 .. Len(trail) : trail[k].node = n
        BY <3>2 DEF OnTrail
      <4>2. CASE k = Len(trail)
        <5>1. n = Top.node
          BY <4>1, <4>2 DEF Top
        <5> QED BY <1>5, <3>1, <5>1
      <4>3. CASE k # Len(trail)
        <5>1. k \in 1 .. Len(trail') /\ trail'[k].node = n
          BY <1>2, <4>1, <4>3
        <5> QED BY <5>1 DEF OnTrail
      <4> QED BY <4>2, <4>3
    <3> QED BY <3>1, <3>2 DEF TriColour
  <2>2. \A k \in 1 .. Len(trail') : \A j \in 1 .. Len(fields[trail'[k].node]) :
           j < trail'[k].next => Covered(fields[trail'[k].node][j])
    <3>1. \A k \in 1 .. Len(trail') : k \in 1 .. Len(trail) /\ trail'[k] = trail[k]
      BY <1>2
    <3> QED BY <3>1 DEF TriColour
  <2> QED BY <1>1, <1>4, <2>1, <2>2 DEF TriColour
<1>7. OnlyReachable'
  <2>1. Reachable' = Reachable
    BY <1>1 DEF Reachable, Closed
  <2> QED BY <1>1, <1>2, <2>1 DEF OnlyReachable
<1> QED BY <1>1, <1>3, <1>6, <1>7 DEF QueueInv, PhaseInv

(* The drain takes the last object of the worklist and traces it.          *)
LEMMA DrainStep == ASSUME IInv, Drain PROVE IInv'
<1> USE DEF IInv
<1> DEFINE last == worklist[Len(worklist)]
<1>1. pc = "trace" /\ trail = <<>> /\ worklist # <<>>
      /\ worklist' = SubSeq(worklist, 1, Len(worklist) - 1)
      /\ trail' = <<[node |-> last, next |-> 1]>>
      /\ UNCHANGED <<fields, marked, seen, pc>>
  BY DEF Drain
<1>2. worklist \in Seq(Obj) /\ Len(worklist) \in Nat \ {0} /\ last \in Obj /\ last \in marked
  <2>1. worklist \in Seq(Obj) /\ Len(worklist) \in Nat \ {0} /\ last \in Obj
    BY <1>1, DropLast DEF TypeOK
  <2> QED BY <2>1 DEF QueueInv
<1>3. /\ worklist' \in Seq(Obj) /\ Len(worklist') = Len(worklist) - 1
      /\ \A k \in 1 .. Len(worklist) - 1 : worklist'[k] = worklist[k]
  BY <1>1, <1>2, DropLast
<1>4. Len(trail') = 1 /\ trail'[1].node = last /\ trail'[1].next = 1
  BY <1>1
<1>5. TypeOK'
  <2>1. trail' \in Seq([node : Node, next : Nat \ {0}])
    BY <1>1, <1>2 DEF Node
  <2> QED BY <1>1, <1>3, <2>1 DEF TypeOK
<1>6. \A v : Covered(v) <=> Covered(v)'
  BY <1>1 DEF Covered
<1>7. QueueInv'
  BY <1>1, <1>2, <1>3 DEF QueueInv
<1>8. TriColour'
  <2>1. ASSUME NEW n \in marked \cup seen \cup {Root}
        PROVE  Queued(n)' \/ OnTrail(n)' \/ Black(n)'
    <3>1. ~OnTrail(n)
      BY <1>1 DEF OnTrail
    <3>2. Black(n) => Black(n)'
      BY <1>1, <1>6 DEF Black
    <3>3. CASE Queued(n)
      <4>1. PICK k \in 1 .. Len(worklist) : worklist[k] = n
        BY <3>3 DEF Queued
      <4>2. CASE k = Len(worklist)
        BY <1>4, <4>1, <4>2 DEF OnTrail
      <4>3. CASE k # Len(worklist)
        <5>1. k \in 1 .. Len(worklist') /\ worklist'[k] = n
          BY <1>2, <1>3, <4>1, <4>3
        <5> QED BY <5>1 DEF Queued
      <4> QED BY <4>2, <4>3
    <3> QED BY <3>1, <3>2, <3>3 DEF TriColour
  <2>2. \A k \in 1 .. Len(trail') : trail'[k].next = 1
    BY <1>4
  <2> QED BY <1>1, <2>1, <2>2 DEF TriColour
<1>9. OnlyReachable'
  <2>1. Reachable' = Reachable
    BY <1>1 DEF Reachable, Closed
  <2> QED BY <1>1, <1>2, <1>4, <2>1 DEF OnlyReachable
<1> QED BY <1>1, <1>5, <1>7, <1>8, <1>9 DEF PhaseInv

(* With no tracer and no queued object the mark phase is over.             *)
LEMMA StartSweepStep == ASSUME IInv, StartSweep PROVE IInv'
<1> USE DEF IInv
<1>1. pc = "trace" /\ trail = <<>> /\ worklist = <<>> /\ pc' = "done"
      /\ UNCHANGED <<fields, marked, worklist, trail, seen>>
  BY DEF StartSweep
<1>2. TypeOK' /\ QueueInv'
  BY <1>1 DEF TypeOK, QueueInv
<1>3. TriColour'
  BY <1>1 DEF TriColour, Queued, OnTrail, Black, Covered
<1>4. OnlyReachable'
  BY <1>1 DEF OnlyReachable, Reachable, Closed
<1> QED BY <1>1, <1>2, <1>3, <1>4 DEF PhaseInv

-----------------------------------------------------------------------------
(* IInv is inductive: marking is tri-colour with the worklist and the      *)
(* trail as grey, on every graph.                                          *)
THEOREM Invariance == Spec => []IInv
<1>1. IInv /\ [Next]_vars => IInv'
  <2> SUFFICES ASSUME IInv, [Next]_vars PROVE IInv'
    OBVIOUS
  <2>1. CASE UNCHANGED vars
    <3>1. UNCHANGED <<fields, marked, worklist, trail, seen, pc>>
      BY <2>1 DEF vars
    <3>2. TypeOK' /\ QueueInv'
      BY <3>1 DEF IInv, TypeOK, QueueInv
    <3>3. TriColour'
      BY <3>1 DEF IInv, TriColour, Queued, OnTrail, Black, Covered
    <3>4. OnlyReachable' /\ PhaseInv'
      BY <3>1 DEF IInv, OnlyReachable, PhaseInv, CorruptReachable, Reachable, Closed
    <3> QED BY <3>2, <3>3, <3>4 DEF IInv
  <2> QED BY <2>1, MarkPushStep, SkipStep, EnterStep, FailStopStep, LeaveTracerStep,
             DrainStep, StartSweepStep DEF Next
<1> QED BY InitInv, <1>1, PTL DEF Spec

(* Registers of the mark phase keep their types. *)
THEOREM TypeCorrect == Spec => []TypeOK
<1>1. IInv => TypeOK
  BY DEF IInv
<1> QED BY Invariance, <1>1, PTL

(* At the end of the mark phase what was reached is closed under fields. *)
LEMMA DoneIsClosed ==
    ASSUME IInv, pc = "done"
    PROVE  /\ Reachable \subseteq marked \cup seen \cup {Root}
           /\ \A n \in marked \cup seen \cup {Root} : Black(n)
<1>1. trail = <<>> /\ worklist = <<>>
  BY DEF IInv, PhaseInv
<1>2. \A n \in marked \cup seen \cup {Root} : Black(n)
  BY <1>1 DEF IInv, TriColour, Queued, OnTrail
<1>3. marked \cup seen \cup {Root} \in SUBSET Node
  BY DEF IInv, TypeOK, Node
<1>4. Closed(marked \cup seen \cup {Root})
  BY <1>2 DEF Closed, Black, Covered
<1> QED BY <1>2, <1>3, <1>4, ReachableLeast

(* The sweep finds marked exactly the objects the program can still get    *)
(* at: collection is safe (nothing in use is freed) and complete.          *)
THEOREM MarkingIsExact == Spec => []MarksExactlyReachable
<1>1. IInv => MarksExactlyReachable
  <2> SUFFICES ASSUME IInv, pc = "done" PROVE marked = Reachable \cap Obj
    BY DEF MarksExactlyReachable
  <2>1. marked \subseteq Reachable \cap Obj
    BY DEF IInv, OnlyReachable, TypeOK
  <2>2. Reachable \cap Obj \subseteq marked
    <3>1. seen \cap Obj = {} /\ Root \notin Obj
      BY MarkingAssumption DEF IInv, TypeOK, Value
    <3> QED BY <3>1, DoneIsClosed
  <2> QED BY <2>1, <2>2
<1> QED BY Invariance, <1>1, PTL

(* The collector fail-stops on corruption it can reach and on nothing else. *)
THEOREM FailStopExact == Spec => []FailStopIsExact
<1>1. IInv => FailStopIsExact
  <2> SUFFICES ASSUME IInv, pc = "done", CorruptReachable PROVE FALSE
    BY DEF FailStopIsExact, IInv, PhaseInv
  <2>1. PICK n \in Reachable : \E i \in 1 .. Len(fields[n]) : fields[n][i] \in Bad
    BY DEF CorruptReachable
  <2>2. Black(n)
    BY DoneIsClosed
  <2> QED BY <2>1, <2>2 DEF Black, Covered
<1> QED BY Invariance, <1>1, PTL

(* The unchecked stores into GC_WORKLIST stay inside its 256 cells. *)
THEOREM WorklistNeverOverflows == Spec => []WorklistInBounds
<1>1. IInv => WorklistInBounds
  <2> SUFFICES ASSUME IInv PROVE Len(worklist) <= WorklistSize
    BY DEF WorklistInBounds
  <2>1. worklist \in Seq(Obj) /\ Len(worklist) \in Nat
        /\ worklist \in [1 .. Len(worklist) -> Obj]
    BY LenProperties DEF IInv, TypeOK
  <2>2. worklist \in Injection(1 .. Len(worklist), Obj)
    BY <2>1 DEF IInv, QueueInv, Injection, IsInjective
  <2>3. IsFiniteSet(1 .. Len(worklist)) /\ Cardinality(1 .. Len(worklist)) <= Cardinality(Obj)
    BY <2>2, WorklistAssumption, FS_Injection
  <2>4. Cardinality(1 .. Len(worklist)) = Len(worklist)
    BY <2>1, FS_Interval
  <2>5. Cardinality(Obj) \in Nat
    BY WorklistAssumption, FS_CardinalityType
  <2> QED BY <2>1, <2>3, <2>4, <2>5, WorklistAssumption
<1> QED BY Invariance, <1>1, PTL

(* The trail, by depth: an object or the roots, then n frames of one chain, *)
(* each older than the one before it, then a context off the heap, and the  *)
(* global context below a stack context.                                    *)
Trail(n) ==
    /\ Len(trail) <= n + 3 /\ (n > 0 => n < Len(trail))
    /\ \A i \in 2 .. n + 1 : trail[i].node \in Frame
    /\ \A i \in 2 .. n : trail[i + 1].node = fields[trail[i].node][1]
    /\ \A i, j \in 2 .. n + 1 : i < j => trail[i].node < trail[j].node
    /\ Len(trail) >= n + 2 => trail[n + 2].node \in Ext
    /\ Len(trail) = n + 3 => trail[n + 3].node = Global

TrailInv == \E n \in Nat : Trail(n)

(* What is entered is added to the trail, and what it is entered from.     *)
LEMMA Entered ==
    ASSUME IInv, Tracing, HasNext, Enter
    PROVE  /\ Len(trail) \in Nat \ {0} /\ Len(trail') = Len(trail) + 1 /\ fields' = fields
           /\ \A k \in 1 .. Len(trail) : trail'[k].node = trail[k].node
           /\ trail'[Len(trail) + 1].node = Current
           /\ Top.node = trail[Len(trail)].node
           /\ Top.node \in Obj \cup StackCtx => Current \notin StackCtx \cup Frame
           /\ Top.node = Global => Current \notin Ext \cup Frame
           /\ Top.node \in Frame /\ Current \in Frame =>
                 Current = fields[Top.node][1] /\ Current > Top.node
<1> DEFINE new == [node |-> Current, next |-> 1]
           E == [node : Node, next : Nat \ {0}]
<1>1. /\ Len(Advanced) = Len(trail) /\ Len(trail) \in Nat /\ Len(trail) >= 1
      /\ \A k \in 1 .. Len(trail) : Advanced[k].node = trail[k].node
      /\ Advanced \in Seq(E)
  BY AdvancedFacts, TopFacts
<1>2. trail' = Append(Advanced, new)
  BY DEF Enter
<1>3. /\ Len(trail') = Len(trail) + 1 /\ trail'[Len(trail) + 1] = new
      /\ \A k \in 1 .. Len(trail) : trail'[k] = Advanced[k]
  <2> HIDE DEF new, E
  <2> QED BY <1>1, <1>2, AppendProperties
<1>4. Top.next \in 1 .. Len(fields[Top.node])
  BY CurrentFacts
<1>5. /\ Top.node \in Obj \cup StackCtx => Current \notin StackCtx \cup Frame
      /\ Top.node = Global => Current \notin Ext \cup Frame
      /\ Top.node \in Frame /\ Current \in Frame =>
            Current = fields[Top.node][1] /\ Current > Top.node
  BY <1>4 DEF IInv, TypeOK, WellFormed, Current
<1> QED BY <1>1, <1>3, <1>5 DEF Top, Enter

(* Contexts are entered below the frames, the global context last.         *)
LEMMA TraceContextKeepsTrail ==
    ASSUME IInv, NEW n \in Nat, Trail(n), TraceContext PROVE Trail(n)'
<1>1. Current \in Ext /\ Tracing /\ HasNext /\ Enter
  BY DEF TraceContext
<1>2. Len(trail) \in {n + 1, n + 2, n + 3}
  <2>1. Len(trail) \in Nat \ {0}
    BY <1>1, Entered
  <2> QED BY <2>1 DEF Trail
<1>3. CASE Len(trail) = n + 1
  BY <1>1, <1>3, Entered DEF Trail
<1>4. CASE Len(trail) = n + 2
  <2>1. Top.node \in Ext
    BY <1>1, <1>4, Entered DEF Trail
  <2>2. Current = Global
    BY <1>1, <2>1, Entered DEF Ext
  <2> QED BY <1>1, <1>4, <2>2, Entered DEF Trail
<1>5. CASE Len(trail) = n + 3
  BY <1>1, <1>5, Entered DEF Trail
<1> QED BY <1>2, <1>3, <1>4, <1>5

(* A frame is entered from the roots or from the next newer frame.         *)
LEMMA MarkFrameKeepsTrail ==
    ASSUME IInv, NEW n \in Nat, Trail(n), MarkFrame PROVE Trail(n + 1)'
<1>1. Current \in Frame /\ Tracing /\ HasNext /\ Enter
  BY DEF MarkFrame
<1>2. Len(trail) \in {n + 1, n + 2, n + 3}
  <2>1. Len(trail) \in Nat \ {0}
    BY <1>1, Entered
  <2> QED BY <2>1 DEF Trail
<1>3. Len(trail) = n + 1
  <2>1. ASSUME Len(trail) \in {n + 2, n + 3} PROVE FALSE
    <3>1. Top.node \in Ext
      BY <1>1, <2>1, Entered DEF Trail, Ext
    <3> QED BY <1>1, <3>1, Entered DEF Ext
  <2> QED BY <1>2, <2>1
<1>4. \A i \in 2 .. n + 2 : trail'[i].node \in Frame
  BY <1>1, <1>3, Entered DEF Trail
<1>5. \A i \in 2 .. n + 1 : trail'[i + 1].node = fields[trail'[i].node][1]
  <2> SUFFICES ASSUME NEW i \in 2 .. n + 1
               PROVE  trail'[i + 1].node = fields[trail'[i].node][1]
    OBVIOUS
  <2>1. CASE i \in 2 .. n
    <3>1. trail'[i] .node = trail[i].node /\ trail'[i + 1].node = trail[i + 1].node
      BY <1>1, <1>3, <2>1, Entered
    <3> QED BY <2>1, <3>1 DEF Trail
  <2>2. CASE i = n + 1
    <3>1. Top.node = trail[i].node /\ Top.node \in Frame
      BY <1>1, <1>3, <2>2, Entered DEF Trail
    <3> QED BY <1>1, <1>3, <2>2, <3>1, Entered
  <2> QED BY <2>1, <2>2
<1>6. \A i, j \in 2 .. n + 2 : i < j => trail'[i].node < trail'[j].node
  <2> SUFFICES ASSUME NEW i \in 2 .. n + 2, NEW j \in 2 .. n + 2, i < j
               PROVE  trail'[i].node < trail'[j].node
    OBVIOUS
  <2>1. i \in 2 .. n + 1 /\ trail'[i].node = trail[i].node
    BY <1>1, <1>3, Entered
  <2>2. CASE j \in 2 .. n + 1
    <3>1. trail'[j].node = trail[j].node
      BY <1>1, <1>3, <2>2, Entered
    <3> QED BY <2>1, <2>2, <3>1 DEF Trail
  <2>3. CASE j = n + 2
    <3>1. Top.node = trail[n + 1].node /\ Top.node \in Frame /\ trail'[j].node = Current
      BY <1>1, <1>3, <2>1, <2>3, Entered DEF Trail
    <3>2. Top.node < Current
      BY <1>1, <3>1, Entered
    <3>3. CASE i = n + 1
      BY <2>1, <3>1, <3>2, <3>3
    <3>4. CASE i # n + 1
      <4>1. trail[i].node < Top.node /\ trail[i].node \in Nat
        <5>1. i \in 2 .. n + 1 /\ n + 1 \in 2 .. n + 1 /\ i < n + 1
          BY <2>1, <3>4
        <5>2. trail[i].node < trail[n + 1].node /\ trail[i].node \in Frame
          BY <5>1 DEF Trail
        <5> QED BY <3>1, <5>2, MarkingAssumption
      <4>2. Top.node \in Nat /\ Current \in Nat
        BY <1>1, <3>1, MarkingAssumption
      <4> QED BY <2>1, <3>1, <3>2, <4>1, <4>2
    <3> QED BY <3>3, <3>4
  <2> QED BY <2>2, <2>3
<1> QED BY <1>1, <1>3, <1>4, <1>5, <1>6, Entered DEF Trail

(* A tracer that is left is the last of the trail.                         *)
LEMMA LeaveKeepsTrail ==
    ASSUME IInv, NEW n \in Nat, Trail(n), LeaveTracer PROVE TrailInv'
<1>1. /\ trail \in Seq([node : Node, next : Nat \ {0}]) /\ trail # <<>>
      /\ trail' = SubSeq(trail, 1, Len(trail) - 1) /\ fields' = fields
  BY DEF LeaveTracer, Tracing, IInv, TypeOK
<1>2. /\ Len(trail) \in Nat \ {0} /\ Len(trail') = Len(trail) - 1
      /\ \A k \in 1 .. Len(trail) - 1 : trail'[k] = trail[k]
  BY <1>1, DropLast
<1>3. /\ n + 1 = Len(trail) /\ n > 0 => n - 1 \in Nat
      /\ \A i \in 2 .. n : i \in 2 .. n + 1
      /\ \A i \in 2 .. n - 1 : i \in 2 .. n /\ i \in 2 .. n + 1 /\ i + 1 \in 2 .. n
  OBVIOUS
<1>4. CASE n > 0 /\ Len(trail) = n + 1
  <2>1. n - 1 \in Nat /\ Len(trail') = n /\ \A k \in 2 .. n : trail'[k] = trail[k]
    BY <1>2, <1>4
  <2>2. \A i \in 2 .. n : trail'[i].node \in Frame
    BY <1>3, <2>1 DEF Trail
  <2>3. \A i, j \in 2 .. n : i < j => trail'[i].node < trail'[j].node
    BY <1>3, <2>1 DEF Trail
  <2>4. \A i \in 2 .. n - 1 : trail'[i + 1].node = fields'[trail'[i].node][1]
    BY <1>1, <1>3, <2>1 DEF Trail
  <2>5. n - 1 + 1 = n /\ n - 1 + 2 = n + 1 /\ n - 1 + 3 = n + 2
    OBVIOUS
  <2>6. Trail(n - 1)'
    BY <2>1, <2>2, <2>3, <2>4, <2>5 DEF Trail
  <2> QED BY <2>1, <2>6 DEF TrailInv
<1>5. CASE ~(n > 0 /\ Len(trail) = n + 1)
  <2>1. /\ \A i \in 2 .. n + 1 : trail'[i] = trail[i]
        /\ \A i \in 2 .. n : trail'[i] = trail[i] /\ trail'[i + 1] = trail[i + 1]
    <3>1. (Len(trail) \in Nat \ {0} /\ n + 1 <= Len(trail) - 1) \/ n = 0
      BY <1>2, <1>5 DEF Trail
    <3>2. /\ \A i \in 2 .. n + 1 : i \in 1 .. Len(trail) - 1
          /\ \A i \in 2 .. n : i \in 1 .. Len(trail) - 1 /\ i + 1 \in 1 .. Len(trail) - 1
      BY <1>2, <3>1
    <3> QED BY <1>2, <3>2
  <2>2. /\ \A i \in 2 .. n + 1 : trail'[i].node \in Frame
        /\ \A i, j \in 2 .. n + 1 : i < j => trail'[i].node < trail'[j].node
    BY <2>1 DEF Trail
  <2>3. \A i \in 2 .. n : trail'[i + 1].node = fields'[trail'[i].node][1]
    BY <1>1, <2>1 DEF Trail
  <2>4. Len(trail') <= n + 3 /\ (n > 0 => n < Len(trail'))
    BY <1>2, <1>5 DEF Trail
  <2>5. /\ Len(trail') >= n + 2 => trail'[n + 2].node \in Ext
        /\ Len(trail') = n + 3 => trail'[n + 3].node = Global
    BY <1>2 DEF Trail
  <2>6. Trail(n)'
    BY <2>2, <2>3, <2>4, <2>5 DEF Trail
  <2> QED BY <2>6 DEF TrailInv
<1> QED BY <1>4, <1>5

(* The frames under way are different frames, so no more than there are.   *)
LEMMA FramesOnTrail ==
    ASSUME NEW n \in Nat, Trail(n) PROVE n <= Cardinality(Frame)
<1> DEFINE f == [i \in 1 .. n |-> trail[i + 1].node]
<1>1. \A i \in 1 .. n : i + 1 \in 2 .. n + 1 /\ f[i] \in Frame
  BY DEF Trail
<1>2. ASSUME NEW i \in 1 .. n, NEW j \in 1 .. n, f[i] = f[j] PROVE i = j
  <2>1. /\ i < j => f[i] < f[j]
        /\ j < i => f[j] < f[i]
    BY <1>1 DEF Trail
  <2>2. f[i] \in Nat /\ f[j] \in Nat
    BY <1>1, MarkingAssumption
  <2> HIDE DEF f
  <2> QED BY <1>2, <2>1, <2>2
<1>3. f \in Injection(1 .. n, Frame)
  <2>1. f \in [1 .. n -> Frame]
    BY <1>1
  <2> HIDE DEF f
  <2> QED BY <1>2, <2>1 DEF Injection, IsInjective
<1>4. Cardinality(1 .. n) <= Cardinality(Frame)
  BY <1>3, MarkingAssumption, FS_Injection
<1>5. Cardinality(1 .. n) = n
  BY FS_Interval
<1> QED BY <1>4, <1>5

(* The recursion of the collector on the return stack: three tracers, and  *)
(* one mark_frame for every live frame of the chain it walks.              *)
THEOREM RecursionIsBounded == Spec => []BoundedRecursion
<1>1. Init => TrailInv
  <2> SUFFICES ASSUME Init PROVE Trail(0)
    BY DEF TrailInv
  <2> QED BY DEF Init, Trail
<1>2. IInv /\ TrailInv /\ [Next]_vars => TrailInv'
  <2> SUFFICES ASSUME IInv, NEW n \in Nat, Trail(n), [Next]_vars PROVE TrailInv'
    BY DEF TrailInv
  <2>1. ASSUME trail' = trail, fields' = fields PROVE Trail(n)'
    BY <2>1 DEF Trail
  <2>2. ASSUME Tracing, HasNext, trail' = Advanced, fields' = fields PROVE Trail(n)'
    <3>1. /\ Len(Advanced) = Len(trail) /\ Len(trail) \in Nat
          /\ \A k \in 1 .. Len(trail) : Advanced[k].node = trail[k].node
      BY <2>2, TopFacts, AdvancedFacts
    <3>2. \A k \in Nat : k \in 1 .. Len(trail) => trail'[k].node = trail[k].node
      BY <2>2, <3>1
    <3>3. Len(trail') = Len(trail)
      BY <2>2, <3>1
    <3>4. /\ \A i \in 2 .. n + 1 : i \in 1 .. Len(trail)
          /\ \A i \in 2 .. n : i \in 1 .. Len(trail) /\ i + 1 \in 1 .. Len(trail)
          /\ Len(trail) >= n + 2 => n + 2 \in 1 .. Len(trail)
          /\ Len(trail) = n + 3 => n + 3 \in 1 .. Len(trail)
      BY <3>1 DEF Trail
    <3>5. /\ \A i \in 2 .. n + 1 : trail'[i].node \in Frame
          /\ \A i \in 2 .. n : trail'[i + 1].node = fields'[trail'[i].node][1]
      BY <2>2, <3>2, <3>4 DEF Trail
    <3>6. \A i, j \in 2 .. n + 1 : i < j => trail'[i].node < trail'[j].node
      BY <3>2, <3>4 DEF Trail
    <3>7. /\ Len(trail') >= n + 2 => trail'[n + 2].node \in Ext
          /\ Len(trail') = n + 3 => trail'[n + 3].node = Global
      BY <3>2, <3>3, <3>4 DEF Trail
    <3> QED BY <3>3, <3>5, <3>6, <3>7 DEF Trail
  <2>3. CASE LeaveTracer
    BY <2>3, LeaveKeepsTrail
  <2>4. CASE Drain
    <3>1. Trail(0)'
      BY <2>4 DEF Drain, Trail
    <3> QED BY <3>1 DEF TrailInv
  <2>5. CASE MarkPush
    BY <2>5, <2>2 DEF MarkPush, TrailInv
  <2>6. CASE Skip
    BY <2>6, <2>2 DEF Skip, TrailInv
  <2>7. CASE TraceContext
    BY <2>7, TraceContextKeepsTrail DEF TrailInv
  <2>8. CASE MarkFrame
    <3>1. n + 1 \in Nat /\ Trail(n + 1)'
      BY <2>8, MarkFrameKeepsTrail
    <3> QED BY <3>1 DEF TrailInv
  <2>9. CASE FailStop \/ StartSweep \/ UNCHANGED vars
    BY <2>9, <2>1 DEF FailStop, StartSweep, vars, TrailInv
  <2> QED BY <2>3, <2>4, <2>5, <2>6, <2>7, <2>8, <2>9 DEF Next
<1>3. TrailInv => BoundedRecursion
  <2> SUFFICES ASSUME NEW n \in Nat, Trail(n) PROVE BoundedRecursion
    BY DEF TrailInv
  <2>1. n \in 0 .. Cardinality(Frame)
    BY FramesOnTrail, MarkingAssumption, FS_CardinalityType
  <2> QED BY <2>1 DEF Trail, BoundedRecursion
<1> QED BY Invariance, <1>1, <1>2, <1>3, PTL DEF Spec

(* The unchecked stores stay in the worklist, the recursion takes three    *)
(* tracers and one level for every frame of a chain, and the fail-stop is  *)
(* exact, on every graph.                                                  *)
THEOREM MarkPhaseCorrect == Spec => []MarkPhaseIsSound
<1>1. TypeOK /\ WorklistInBounds /\ BoundedRecursion /\ FailStopIsExact => MarkPhaseIsSound
  BY DEF MarkPhaseIsSound
<1> QED BY TypeCorrect, WorklistNeverOverflows, RecursionIsBounded, FailStopExact, <1>1, PTL
=============================================================================
