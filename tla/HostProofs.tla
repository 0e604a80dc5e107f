----------------------------- MODULE HostProofs -----------------------------
(***************************************************************************)
(* Proofs about the pages, for every value of the constants.               *)
(*                                                                         *)
(* Every component C of Hosts has an inductive invariant, C!Inv, stated at *)
(* the end of its own module: its type invariant, the properties of its    *)
(* states that Hosts promises, and what they rest on.  A section of this   *)
(* module shows that it holds when the component starts (CStarts), that    *)
(* every step of the component keeps it (CKeeps), with what the step       *)
(* itself promises, and that nothing else disturbs it (CStays).  The last  *)
(* section puts them together: part says which component runs and never    *)
(* changes, so HostInv, which asks of that component its invariant, is one *)
(* of Hosts, and the properties follow.                                    *)
(***************************************************************************)
EXTENDS Hosts, Induction, FiniteSetTheorems, SequenceTheorems

-----------------------------------------------------------------------------
(* Arithmetic.                                                              *)

(* Multiplication by a natural number keeps the order.                      *)
LEMMA Multiply ==
  ASSUME NEW u \in Nat, NEW x \in Int, NEW y \in Int, x <= y
  PROVE  u * x \in Int /\ u * y \in Int /\ u * x <= u * y
  OBVIOUS

(* Division by a positive number, as bounds.                                *)
LEMMA Quotient ==
  ASSUME NEW a \in Int, NEW u \in Nat \ {0}
  PROVE  /\ a \div u \in Int /\ a % u \in 0 .. u - 1
         /\ u * (a \div u) <= a /\ a < u * (a \div u) + u
         /\ a >= 0 => a \div u >= 0
  <1>1. a \div u \in Int /\ a % u \in 0 .. u - 1 /\ a = u * (a \div u) + (a % u)
    OBVIOUS
  <1>2. u * (a \div u) \in Int
    BY <1>1
  <1>3. u * (a \div u) <= a /\ a < u * (a \div u) + u
    BY <1>1, <1>2
  <1>4. ASSUME a >= 0 PROVE a \div u >= 0
    <2> DEFINE q == a \div u
    <2>1. q \in Int /\ a < u * q + u
      BY <1>1, <1>3
    <2> HIDE DEF q
    <2>2. ASSUME q + 1 <= 0 PROVE FALSE
      <3>1. u * (q + 1) <= u * 0 /\ u * (q + 1) = u * q + u /\ u * 0 = 0
        BY <2>1, <2>2, Multiply
      <3> QED
        BY <1>4, <2>1, <3>1
    <2>3. q >= 0
      BY <2>1, <2>2
    <2> QED
      BY <2>3 DEF q
  <1> QED
    BY <1>1, <1>3, <1>4

-----------------------------------------------------------------------------
(* Glon Patrol's keys.                                                      *)

(* No key is down when the page opens.                                      *)
LEMMA PatrolStarts == Patrol!Init => Patrol!Inv
  BY DEF Patrol!Init, Patrol!Inv, Patrol!TypeOK, Patrol!KeysNeverStick

(* Keys and a lost focus change what is held and what is sent together.     *)
LEMMA PatrolKeeps ==
  ASSUME Patrol!Inv, Patrol!Next
  PROVE  Patrol!Inv'
  <1> USE DEF Patrol!Inv, Patrol!TypeOK, Patrol!KeysNeverStick, Patrol!Wanted
  <1>1. ASSUME NEW c \in Patrol!Codes, Patrol!Down(c) PROVE Patrol!Inv'
    BY <1>1 DEF Patrol!Down, Patrol!KEY, Patrol!Codes
  <1>2. ASSUME NEW c \in Patrol!Codes, Patrol!Up(c) PROVE Patrol!Inv'
    BY <1>2 DEF Patrol!Up, Patrol!KEY, Patrol!Codes
  <1>3. CASE Patrol!Blur
    BY <1>3 DEF Patrol!Blur, Patrol!resetInput
  <1>4. CASE Patrol!Hide
    BY <1>4 DEF Patrol!Hide, Patrol!resetInput
  <1>5. CASE Patrol!Focus
    BY <1>5 DEF Patrol!Focus
  <1> QED
    BY <1>1, <1>2, <1>3, <1>4, <1>5 DEF Patrol!Next

(* A step of no component leaves Glon Patrol as it is.                      *)
LEMMA PatrolStays ==
  ASSUME Patrol!Inv, UNCHANGED vars
  PROVE  Patrol!Inv'
  BY DEF Patrol!Inv, Patrol!TypeOK, Patrol!KeysNeverStick, Patrol!Wanted, vars

-----------------------------------------------------------------------------
(* The game's driver: input and ticks.                                      *)

(* The loop begins with no time owed and no tap held.                       *)
LEMMA LoopStarts == Loop!Init => Loop!Inv
  <1> SUFFICES ASSUME Loop!Init PROVE Loop!Inv
    OBVIOUS
  <1>1. /\ s1 = {} /\ s2 = "focused" /\ s3 = {} /\ s4 = {} /\ s5 = {} /\ s6 = {} /\ s7 = FALSE
        /\ s8 = 0 /\ s9 = FALSE /\ s10 = 0 /\ s11 = [c \in Loop!Controls |-> 0] /\ s12 = {}
        /\ s13 = {}
    BY DEF Loop!Init
  <1>2. s11 \in [Loop!Controls -> 0 .. 2] /\ s8 \in 0 .. Loop!SIM_DT - 1
        /\ s10 \in 0 .. Loop!MAX_CATCHUP /\ s8 < Loop!SIM_DT /\ s10 <= Loop!MAX_CATCHUP
    BY <1>1 DEF Loop!SIM_DT, Loop!MAX_CATCHUP
  <1>3. Loop!TypeOK
    BY <1>1, <1>2 DEF Loop!TypeOK
  <1> QED
    BY <1>1, <1>2, <1>3 DEF Loop!Inv, Loop!TapCountsOnce, Loop!KeysFollowInput

(* The names of the keys' controls and the touch buttons'. *)
LEMMA LoopControls == \A s \in Loop!Sources : Loop!Control(s) \in Loop!Controls
  BY DEF Loop!Controls

(* What the player holds, after a press and after a release: what was held   *)
(* and what Glon has down still come from somewhere.                         *)
LoopSound == /\ s3 \subseteq Loop!Physical
             /\ s6 \subseteq Loop!Physical \cup s4 \cup s13
             /\ s2 # "focused" => s3 \subseteq {Loop!Control(s) : s \in s1 \cap Loop!Touch}

LEMMA LoopPhysical ==
  ASSUME Loop!Inv, NEW s \in Loop!Sources, UNCHANGED <<s2, s6>>,
         \/ /\ s1' = s1 \cup {s} /\ s13' = s13
            /\ \/ s3' = s3 \cup {Loop!Control(s)} /\ Loop!Heard(s) /\ s4 \subseteq s4'
               \/ UNCHANGED <<s3, s4>>
         \/ /\ s1' = s1 \ {s} /\ s13' = s13 \cup {Loop!Control(s)} /\ s4' = s4
            /\ \/ s3' = s3 \ {Loop!Control(s)}
               \/ s3' = s3 /\ s2 # "focused" /\ s \notin Loop!Touch
  PROVE  LoopSound'
  <1> USE DEF Loop!Inv, Loop!TypeOK, Loop!KeysFollowInput, Loop!Physical, LoopSound
  <1>1. CASE s1' = s1 \cup {s}
    BY <1>1 DEF Loop!Heard
  <1>2. CASE s1' = s1 \ {s} /\ s3' = s3 \ {Loop!Control(s)}
    <2>1. \A t \in s1 : Loop!Control(t) # Loop!Control(s) => t \in s1'
      BY <1>2
    <2> QED
      BY <1>2, <2>1
  <1>3. CASE s1' = s1 \ {s} /\ s3' = s3 /\ s2 # "focused" /\ s \notin Loop!Touch
    <2>1. \A t \in s1 : Loop!Control(t) # Loop!Control(s) => t \in s1'
      BY <1>3
    <2>2. s1' \cap Loop!Touch = s1 \cap Loop!Touch
      BY <1>3
    <2> QED
      BY <1>3, <2>1, <2>2
  <1> QED
    BY <1>1, <1>2, <1>3

(* Pressing or releasing a control. *)
LEMMA LoopSetHeld ==
  ASSUME Loop!Inv, NEW c \in Loop!Controls, NEW d \in BOOLEAN, Loop!setHeld(c, d),
         UNCHANGED <<s2, s5, s6, s7, s8, s9, s10>>, s1' \subseteq Loop!Sources,
         s13' \subseteq Loop!Controls, LoopSound'
  PROVE  Loop!Inv'
  <1> USE DEF Loop!Inv, Loop!TypeOK, Loop!TapCountsOnce, Loop!KeysFollowInput, LoopSound
  <1>1. CASE d
    BY <1>1 DEF Loop!setHeld
  <1>2. CASE ~d
    BY <1>2 DEF Loop!setHeld
  <1> QED
    BY <1>1, <1>2

(* The input is reset. *)
LEMMA LoopReset ==
  ASSUME Loop!Inv, Loop!resetInput, s8' \in {0, s8},
         UNCHANGED <<s1, s9, s10>>, s2' \in {"focused", "blurred", "hidden"}, s7' \in BOOLEAN
  PROVE  Loop!Inv'
  BY DEF Loop!Inv, Loop!TypeOK, Loop!TapCountsOnce, Loop!KeysFollowInput, Loop!resetInput,
         Loop!SIM_DT

(* A frame runs no more ticks than the time on the clock pays for. *)
LEMMA LoopTicks ==
  ASSUME NEW t \in Nat, NEW n \in 0 .. Loop!Ticks(t)
  PROVE  n \in 0 .. 5 /\ t - 2 * n >= 0
  BY DEF Loop!Ticks, Loop!SIM_DT, Loop!MAX_CATCHUP

(* A frame that runs n ticks keeps what the loop keeps.                     *)
LEMMA LoopRun ==
  ASSUME Loop!Inv, NEW t \in Nat, NEW n \in 0 .. Loop!Ticks(t), Loop!Run(t, n), s7' = TRUE
  PROVE  Loop!Inv'
  <1> DEFINE want == s3 \cup s4
             later == IF n > 0 THEN s3 \cup (s4 \ (s4 \ s3)) ELSE want
  <1>1. n \in 0 .. 5 /\ t - 2 * n >= 0 /\ n \in Nat
    BY LoopTicks
  <1>2. /\ s10' = n
        /\ s8' = IF n < Loop!Ticks(t) \/ t - n * 2 >= 2 THEN 0 ELSE t - n * 2
        /\ s5' = later
        /\ s6' = (Loop!Sent(s5, want) \cup (later \ want)) \ (want \ later)
        /\ s4' = IF n > 0 THEN {} ELSE s4
        /\ s11' = [c \in Loop!Controls |->
                      CASE n > 0 /\ c \in later -> Loop!Count(s11[c] + n)
                        [] n > 0 /\ c \in want \ later -> Loop!Count(s11[c] + 1)
                        [] OTHER -> s11[c]]
        /\ s13' = {} /\ UNCHANGED <<s1, s2, s3, s9, s12>>
    BY DEF Loop!Run, Loop!Sync, Loop!Released, Loop!Consumed, Loop!SIM_DT
  <1>3. s6' = s5'
    BY <1>2 DEF Loop!Sent, Loop!Inv, Loop!KeysFollowInput
  <1>4. later = IF n > 0 THEN s3 ELSE want
    OBVIOUS
  <1>5. s8' \in 0 .. 1
    BY <1>1, <1>2
  <1>6. ASSUME NEW c \in Loop!Controls
        PROVE  /\ s11'[c] \in 0 .. 2
               /\ n = 0 => s11'[c] = s11[c]
               /\ n > 0 /\ c \in s3 => s11'[c] # 0
               /\ n > 0 /\ c \in s4 /\ c \notin s3 => s11'[c] = Loop!Count(s11[c] + 1)
               /\ c \notin s4 /\ c \notin s3 => s11'[c] = s11[c]
    <2>1. s11[c] \in 0 .. 2
      BY DEF Loop!Inv, Loop!TypeOK
    <2> HIDE DEF want, later
    <2>2. s11'[c] = CASE n > 0 /\ c \in later -> Loop!Count(s11[c] + n)
                      [] n > 0 /\ c \in want \ later -> Loop!Count(s11[c] + 1)
                      [] OTHER -> s11[c]
      BY <1>2
    <2>3. Loop!Count(s11[c] + n) \in 0 .. 2 /\ Loop!Count(s11[c] + 1) \in 0 .. 2
          /\ (n > 0 => Loop!Count(s11[c] + n) # 0)
      BY <1>1, <2>1 DEF Loop!Count
    <2>4. CASE n > 0 /\ c \in later
      <3>1. s11'[c] = Loop!Count(s11[c] + n)
        BY <2>2, <2>4
      <3> QED
        BY <1>1, <1>4, <2>3, <2>4, <3>1 DEF want
    <2>5. CASE n > 0 /\ c \notin later /\ c \in want
      <3>1. s11'[c] = Loop!Count(s11[c] + 1)
        BY <2>2, <2>5
      <3> QED
        BY <1>1, <1>4, <2>3, <2>5, <3>1 DEF want
    <2>6. CASE ~(n > 0 /\ c \in later) /\ ~(n > 0 /\ c \in want)
      <3>1. s11'[c] = s11[c]
        BY <2>2, <2>6
      <3> QED
        BY <1>1, <1>4, <2>1, <2>6, <3>1 DEF want
    <2> QED
      BY <2>4, <2>5, <2>6
  <1>7. Loop!TypeOK'
    <2>1. s11' \in [Loop!Controls -> 0 .. 2]
      BY <1>2, <1>6
    <2>2. s5' \subseteq Loop!Controls /\ s6' \subseteq Loop!Controls /\ s4' \subseteq Loop!Controls
      BY <1>2, <1>3, <1>4 DEF Loop!Inv, Loop!TypeOK
    <2>3. s8' \in 0 .. Loop!SIM_DT - 1 /\ s10' \in 0 .. Loop!MAX_CATCHUP
      BY <1>1, <1>2, <1>5 DEF Loop!SIM_DT, Loop!MAX_CATCHUP
    <2>4. UNCHANGED <<s1, s2, s3, s9, s12>> /\ s7' = TRUE /\ s13' = {}
      BY <1>2
    <2> HIDE DEF want, later
    <2> QED
      BY <2>1, <2>2, <2>3, <2>4 DEF Loop!Inv, Loop!TypeOK
  <1>8. Loop!KeysFollowInput'
    <2>1. s10' = n /\ UNCHANGED <<s1, s3>> /\ s5' = later /\ (n = 0 => s4' = s4)
      BY <1>1, <1>2
    <2>2. s3 \subseteq Loop!Physical /\ Loop!Physical' = Loop!Physical
      BY <2>1 DEF Loop!Inv, Loop!KeysFollowInput, Loop!Physical
    <2>3. s6' \subseteq Loop!Physical \cup s4'
      BY <1>1, <1>3, <1>4, <2>1, <2>2
    <2> HIDE DEF want, later
    <2> QED
      BY <1>1, <1>3, <1>5, <2>1, <2>2, <2>3 DEF Loop!KeysFollowInput, Loop!SIM_DT, Loop!MAX_CATCHUP
  <1> HIDE DEF want, later
  <1>9. Loop!TapCountsOnce'
    <2> SUFFICES ASSUME NEW c \in s12 \ s3
                 PROVE  s11'[c] = (IF c \in s4' THEN 0 ELSE 1)
      BY <1>2 DEF Loop!TapCountsOnce
    <2>1. c \in Loop!Controls /\ s11[c] = (IF c \in s4 THEN 0 ELSE 1)
      BY DEF Loop!Inv, Loop!TypeOK, Loop!TapCountsOnce
    <2> QED
      BY <1>1, <1>2, <1>6, <2>1 DEF Loop!Count
  <1>10. \A c \in s3' : s11'[c] = 0 => c \in s4'
    <2> SUFFICES ASSUME NEW c \in s3, s11'[c] = 0
                 PROVE  c \in s4'
      BY <1>2
    <2>1. c \in Loop!Controls /\ (s11[c] = 0 => c \in s4)
      BY DEF Loop!Inv, Loop!TypeOK
    <2> QED
      BY <1>1, <1>2, <1>6, <2>1
  <1>11. s2' # "focused" => s3' \subseteq {Loop!Control(s) : s \in s1' \cap Loop!Touch}
    BY <1>2 DEF Loop!Inv
  <1> QED
    BY <1>2, <1>7, <1>8, <1>9, <1>10, <1>11 DEF Loop!Inv

(* A step of no component leaves the loop of Kaka's host as it is.          *)
LEMMA LoopStays ==
  ASSUME Loop!Inv, UNCHANGED <<s1, s3, s4, s5, s6, s10, s11, s12, s13>>,
         s2' \in {"focused", s2}, s7' \in BOOLEAN, s8' \in {0, s8},
         s9' \in BOOLEAN
  PROVE  Loop!Inv'
  BY DEF Loop!Inv, Loop!TypeOK, Loop!TapCountsOnce, Loop!KeysFollowInput, Loop!Physical,
         Loop!SIM_DT

(* A frame runs whole ticks and hands each tap to the first of them.        *)
LEMMA LoopKeeps ==
  ASSUME Loop!Inv, Loop!Next
  PROVE  Loop!Inv'
  <1> USE DEF Loop!history, Loop!input
  <1>0. Loop!TypeOK
    BY DEF Loop!Inv
  <1>1. ASSUME NEW s \in Loop!Sources, Loop!Down(s) PROVE Loop!Inv'
    <2>1. CASE Loop!Heard(s)
      <3>1. LoopSound' /\ s13' = s13
        BY <1>1, <2>1, LoopPhysical DEF Loop!Down, Loop!setHeld
      <3> QED
        BY <1>0, <1>1, <2>1, <3>1, LoopControls, LoopSetHeld DEF Loop!Down, Loop!TypeOK
    <2>2. CASE ~Loop!Heard(s)
      <3>1. LoopSound'
        BY <1>1, <2>2, LoopPhysical DEF Loop!Down
      <3> QED
        BY <1>0, <1>1, <2>2, <3>1 DEF Loop!Down, Loop!Inv, Loop!TypeOK, Loop!TapCountsOnce,
                                      Loop!KeysFollowInput, LoopSound
    <2> QED
      BY <2>1, <2>2
  <1>2. ASSUME NEW s \in Loop!Sources, Loop!Up(s) PROVE Loop!Inv'
    <2>1. CASE Loop!Heard(s) \/ s \in Loop!Touch
      <3>1. LoopSound' /\ s13' \subseteq Loop!Controls
        BY <1>0, <1>2, <2>1, LoopControls, LoopPhysical DEF Loop!Up, Loop!setHeld, Loop!TypeOK
      <3> QED
        BY <1>0, <1>2, <2>1, <3>1, LoopControls, LoopSetHeld DEF Loop!Up, Loop!TypeOK
    <2>2. CASE ~(Loop!Heard(s) \/ s \in Loop!Touch)
      <3>1. LoopSound' /\ s13' \subseteq Loop!Controls
        BY <1>0, <1>2, <2>2, LoopControls, LoopPhysical DEF Loop!Up, Loop!Heard, Loop!TypeOK
      <3> QED
        BY <1>0, <1>2, <2>2, <3>1 DEF Loop!Up, Loop!Inv, Loop!TypeOK, Loop!TapCountsOnce,
                                      Loop!KeysFollowInput, LoopSound
    <2> QED
      BY <2>1, <2>2
  <1>3. ASSUME NEW b \in BOOLEAN, Loop!Restart(b) PROVE Loop!Inv'
    BY <1>0, <1>3, LoopReset DEF Loop!Restart, Loop!TypeOK
  <1>4. ASSUME NEW b \in BOOLEAN, Loop!pin(b) PROVE Loop!Inv'
    BY <1>0, <1>4, LoopStays DEF Loop!pin, Loop!TypeOK
  <1>5. CASE Loop!Blur
    BY <1>0, <1>5, LoopReset DEF Loop!Blur, Loop!TypeOK
  <1>6. CASE Loop!Hide
    BY <1>0, <1>6, LoopReset DEF Loop!Hide, Loop!TypeOK
  <1>7. CASE Loop!Show
    BY <1>0, <1>7, LoopStays DEF Loop!Show, Loop!TypeOK
  <1>8. CASE Loop!Focus
    BY <1>0, <1>8, LoopStays DEF Loop!Focus, Loop!TypeOK
  <1>9. ASSUME NEW dt \in LoopSteps, Loop!frame(dt) PROVE Loop!Inv'
    <2> DEFINE passed == IF ~s7 THEN 0 ELSE IF dt > 25 THEN 25 ELSE dt
    <2>1. s8 + passed \in Nat
      BY <1>0, LoopAssumption DEF Loop!TypeOK, Loop!SIM_DT
    <2>2. CASE s9
      BY <1>0, <1>9, <2>2, LoopStays DEF Loop!frame, Loop!TypeOK
    <2>3. CASE ~s9
      <3>1. PICK n \in 0 .. Loop!Ticks(s8 + passed) : Loop!Run(s8 + passed, n) /\ s7' = TRUE
        BY <1>9, <2>3 DEF Loop!frame
      <3> HIDE DEF passed
      <3> QED
        BY <2>1, <3>1, LoopRun
    <2> QED
      BY <2>2, <2>3
  <1> QED
    BY <1>1, <1>2, <1>3, <1>4, <1>5, <1>6, <1>7, <1>8, <1>9 DEF Loop!Next

-----------------------------------------------------------------------------
(* The game's view and its buttons.                                         *)

(* The width of the view is between that of a canvas and two and a half. *)
LEMMA ViewWidth ==
  ASSUME NEW d \in Displays
  PROVE  View!Width(d) \in 640 .. 1600
  <1> DEFINE n == (2 * 480 * d[1] + 32 * d[2]) \div (2 * 32 * d[2])
  <1>1. d[1] \in Nat /\ d[2] \in Nat \ {0} /\ d[3] \in BOOLEAN
    BY ViewAssumption
  <1>2. n \in Int
    <2>1. 2 * 32 * d[2] \in Nat \ {0} /\ 2 * 480 * d[1] + 32 * d[2] \in Int
      BY <1>1
    <2> QED
      BY <2>1
  <1>3. View!Width(d) = IF d[3] THEN View!Greater(640, View!Lesser(1600, 32 * n)) ELSE 640
    BY DEF View!Width
  <1> HIDE DEF n
  <1> QED
    BY <1>2, <1>3 DEF View!Greater, View!Lesser

(* What concerns the taps, and what the screen and the fullscreen button. *)
ViewTaps == /\ s12 \in 0 .. View!FRESH /\ s13 \in -1 .. MaxLag /\ s14 \in 0 .. 2 /\ s15 \in 0 .. 1
            /\ s14 = s15 /\ (s13 >= 0 => s12 = s13)

(* The size of the display, and of the picture.                             *)
ViewScreen == /\ s1 \in Displays /\ s2 \in {"none", "event", "timer"}
              /\ s3 \in 640 .. 1600 /\ s4 \in 0 .. 1600 /\ s5 \in 320 .. 1600
              /\ s6 \in BOOLEAN /\ ~s6 /\ s3 = s4 /\ s5 = s4
              /\ s2 # "event" => s3 = View!Width(s1) /\ s5 = s3

(* The button for the full screen, and when it is shown.                    *)
ViewButton == /\ s7 \in BOOLEAN /\ s8 \in BOOLEAN /\ s9 \in BOOLEAN /\ s10 \in BOOLEAN
              /\ s11 \in {"hidden", "FULLSCREEN", "EXIT"}
              /\ s9 \/ s11 # "hidden" => s8
              /\ ~s10 => (s11 = "EXIT") = s9

(* The invariant of the view is these three.                                *)
LEMMA ViewParts == View!Inv <=> ViewTaps /\ ViewScreen /\ ViewButton
  <1> USE DEF View!Inv, View!TypeOK, View!OneTapOneEvent, View!ViewIsShared
  <1>1. View!Inv => ViewTaps
    BY DEF ViewTaps
  <1>2. View!Inv => ViewScreen
    BY DEF ViewScreen
  <1>3. View!Inv => ViewButton
    BY DEF ViewButton
  <1>4. ViewTaps /\ ViewScreen /\ ViewButton => View!TypeOK
    BY DEF ViewTaps, ViewScreen, ViewButton
  <1>5. ViewTaps => View!OneTapOneEvent /\ (s13 >= 0 => s12 = s13)
    BY DEF ViewTaps
  <1>6. ViewScreen /\ ViewButton =>
          View!ViewIsShared /\ s3 = s4 /\ s5 = s4 /\ (s9 \/ s11 # "hidden" => s8)
    BY DEF ViewScreen, ViewButton
  <1> QED
    BY <1>1, <1>2, <1>3, <1>4, <1>5, <1>6

(* Canvas, view and picture begin with one size.                            *)
LEMMA ViewStarts == View!Init => View!Inv
  <1> SUFFICES ASSUME View!Init PROVE View!Inv
    OBVIOUS
  <1>1. /\ s1 \in Displays /\ s2 = "none" /\ s3 = View!Width(s1) /\ s4 = View!Width(s1)
        /\ s5 = View!Width(s1) /\ s6 = FALSE /\ s7 \in BOOLEAN /\ s8 \in BOOLEAN /\ s9 = FALSE
        /\ s10 = FALSE /\ s11 = View!Label(FALSE) /\ s12 = 7 /\ s13 = -1 /\ s14 = 0 /\ s15 = 0
    BY DEF View!Init, View!FRESH
  <1>2. View!Width(s1) \in 640 .. 1600
    BY <1>1, ViewWidth
  <1>3. ViewButton
    BY <1>1 DEF View!Label, ViewButton
  <1>4. ViewScreen
    <2>1. s3 \in 640 .. 1600 /\ s4 \in 0 .. 1600 /\ s5 \in 320 .. 1600
      BY <1>1, <1>2, SMTT(30)
    <2>2. s6 \in BOOLEAN /\ ~s6 /\ s3 = s4 /\ s5 = s4 /\ s3 = View!Width(s1) /\ s5 = s3
      BY <1>1
    <2> QED
      BY <1>1, <2>1, <2>2 DEF ViewScreen
  <1>5. ViewTaps
    BY <1>1, ViewAssumption DEF ViewTaps, View!FRESH
  <1> QED
    BY <1>3, <1>4, <1>5, ViewParts

(* Each of them is kept: taps,                                              *)
LEMMA ViewKeepsTaps ==
  ASSUME View!Inv, View!Next
  PROVE  ViewTaps'
  <1> USE ViewParts, ViewAssumption DEF ViewTaps, View!screen, View!button, View!taps, View!FRESH
  <1>1. CASE View!Fit \/ View!Refresh
    BY <1>1 DEF View!Fit, View!Refresh
  <1>2. CASE View!PointerUp
    BY <1>2 DEF View!PointerUp
  <1>3. CASE View!Activate
    BY <1>3 DEF View!Activate, View!Recent
  <1>4. CASE View!Wait
    BY <1>4 DEF View!Wait, View!Lesser
  <1>5. ASSUME NEW d \in Displays,
               View!Turn(d) \/ View!Toggle(d) \/ \E g \in BOOLEAN : View!Press(g, d)
        PROVE  ViewTaps'
    BY <1>5 DEF View!Turn, View!Toggle, View!Press
  <1>6. ASSUME NEW c \in BOOLEAN, View!Click(c)
        PROVE  ViewTaps'
    BY <1>6 DEF View!Click, View!Recent
  <1> QED
    BY <1>1, <1>2, <1>3, <1>4, <1>5, <1>6 DEF View!Next

(* the size,                                                                *)
LEMMA ViewKeepsScreen ==
  ASSUME View!Inv, View!Next
  PROVE  ViewScreen'
  <1> USE DEF ViewScreen, View!screen, View!button, View!taps
  <1>0. ViewScreen
    BY ViewParts
  <1>1. CASE View!Fit
    <2>1. View!Width(s1) \in 640 .. 1600
      BY <1>0, ViewWidth
    <2>2. /\ s2' = "none" /\ s1' = s1 /\ s3' = View!Width(s1) /\ s4' = View!Width(s1)
          /\ IF s4 # View!Width(s1) THEN View!Told(View!Width(s1))
             ELSE s5' = s5 /\ s6' = (s6 \/ s3 # View!Width(s1))
      BY <1>1 DEF View!Fit, View!fitView
    <2>3. s5' = View!Width(s1) /\ s6' = FALSE
      <3>1. CASE s4 # View!Width(s1)
        BY <2>1, <2>2, <3>1 DEF View!Told, View!Greater, View!Lesser
      <3>2. CASE s4 = View!Width(s1)
        BY <1>0, <2>2, <3>2
      <3> QED
        BY <3>1, <3>2
    <2>4. View!Width(s1') = View!Width(s1)
      BY <2>2
    <2>5. s3' \in 640 .. 1600 /\ s4' \in 0 .. 1600 /\ s5' \in 320 .. 1600
      <3>1. s3' = View!Width(s1) /\ s4' = View!Width(s1) /\ s5' = View!Width(s1)
        BY <2>2, <2>3
      <3> QED
        BY <2>1, <3>1, SMTT(30)
    <2>6. s6' \in BOOLEAN /\ ~s6' /\ s3' = s4' /\ s5' = s4' /\ s3' = View!Width(s1') /\ s5' = s3'
      BY <2>2, <2>3, <2>4
    <2> QED
      BY <1>0, <2>2, <2>5, <2>6
  <1>2. ASSUME UNCHANGED View!screen
        PROVE  ViewScreen'
    BY <1>0, <1>2 DEF View!Width
  <1>3. ASSUME NEW d \in Displays,
               View!Turn(d) \/ View!Toggle(d)
        PROVE  ViewScreen'
    BY <1>0, <1>3 DEF View!Turn, View!Toggle
  <1>4. ASSUME NEW d \in Displays, NEW g \in BOOLEAN, View!Press(g, d)
        PROVE  ViewScreen'
    <2>1. /\ UNCHANGED <<s3, s4, s5, s6>> /\ s1' \in {s1, d}
          /\ s2' \in {"event", "timer", s2}
          /\ s2' # "event" => s1' = s1 /\ s2 # "event"
      BY <1>4 DEF View!Press
    <2> QED
      BY <1>0, <2>1 DEF View!Width
  <1> QED
    BY <1>1, <1>2, <1>3, <1>4 DEF View!Next, View!Refresh, View!PointerUp, View!Activate,
       View!Wait, View!Click

(* and the button.                                                          *)
LEMMA ViewKeepsButton ==
  ASSUME View!Inv, View!Next
  PROVE  ViewButton'
  <1> USE DEF ViewButton
  <1>0. ViewButton
    BY ViewParts
  <1>1. CASE View!Refresh
    BY <1>0, <1>1 DEF View!Refresh, View!Label, View!isStandalone
  <1>2. ASSUME UNCHANGED View!button
        PROVE  ViewButton'
    BY <1>0, <1>2 DEF View!button
  <1>3. ASSUME NEW d \in Displays, View!Toggle(d)
        PROVE  ViewButton'
    BY <1>0, <1>3 DEF View!Toggle
  <1>4. ASSUME NEW d \in Displays, NEW g \in BOOLEAN, View!Press(g, d)
        PROVE  ViewButton'
    BY <1>0, <1>4 DEF View!Press
  <1> QED
    BY <1>1, <1>2, <1>3, <1>4 DEF View!Next, View!Fit, View!PointerUp, View!Activate,
       View!Wait, View!Click, View!Turn, View!button

(* A resize, a frame and a tap keep the picture, its size and the button in *)
(* agreement.                                                               *)
LEMMA ViewKeeps ==
  ASSUME View!Inv, View!Next
  PROVE  View!Inv'
  <1>1. (ViewTaps /\ ViewScreen /\ ViewButton)'
    BY ViewKeepsTaps, ViewKeepsScreen, ViewKeepsButton
  <1> QED
    BY <1>1, ViewParts, PTL

(* A step of no component leaves Kaka's view as it is.                      *)
LEMMA ViewStays ==
  ASSUME View!Inv, UNCHANGED vars
  PROVE  View!Inv'
  <1>1. ViewTaps' /\ ViewButton'
    BY ViewParts DEF ViewTaps, ViewButton, vars
  <1>2. ViewScreen'
    BY ViewParts DEF ViewScreen, View!Width, vars
  <1>3. (ViewTaps /\ ViewScreen /\ ViewButton)'
    BY <1>1, <1>2
  <1> QED
    BY <1>3, ViewParts, PTL

-----------------------------------------------------------------------------
(* The demo launcher.                                                       *)

(* The launcher begins on its list, with nothing loaded.                    *)
LEMMA ShopStarts == Shop!Init => Shop!Inv
  <1> SUFFICES ASSUME Shop!Init PROVE Shop!Inv
    OBVIOUS
  <1>1. s5 \in [Demos -> 0 .. MaxFetches] /\ \A d \in Demos : s5[d] = 0
    BY ShopAssumption DEF Shop!Init
  <1> QED
    BY <1>1, ShopAssumption DEF Shop!Init, Shop!Inv, Shop!TypeOK, Shop!RoutesFollowLoads

(* A page Glon is asked for is loaded, or home. *)
LEMMA ShopDispatch ==
  ASSUME NEW r \in Demos \cup {"home"}, NEW l \in SUBSET Demos, Shop!Dispatch(r, l),
         r \in l \cup {"home"}, s3 \subseteq l
  PROVE  s1' = r /\ s2' = r /\ s3' \subseteq l
  BY DEF Shop!Dispatch, Shop!Rendered

(* A route is shown only once its demo has come.                            *)
LEMMA ShopKeeps ==
  ASSUME Shop!Inv, Shop!Next
  PROVE  Shop!Inv'
  <1> USE DEF Shop!Inv, Shop!TypeOK, Shop!RoutesFollowLoads
  <1>1. ASSUME NEW d \in Demos, Shop!Load(d) PROVE Shop!Inv'
    <2>1. /\ s5' \in [Demos -> 0 .. MaxFetches]
          /\ \A e \in Demos : s5'[e] > 0 => s5[e] > 0 \/ e = d
      BY <1>1, ShopAssumption DEF Shop!Load
    <2> QED
      BY <1>1, <2>1 DEF Shop!Load, Shop!Click
  <1>2. ASSUME NEW d \in Demos, Shop!Open(d) PROVE Shop!Inv'
    <2>1. s1' = d /\ s2' = d /\ s3' \subseteq s4
      BY <1>2, ShopDispatch DEF Shop!Open
    <2> QED
      BY <1>2, <2>1, ShopAssumption DEF Shop!Open, Shop!Click
  <1>3. CASE Shop!Back
    <2>1. s1' = "home" /\ s2' = "home" /\ s3' \subseteq s4
      BY <1>3, ShopDispatch DEF Shop!Back
    <2> QED
      BY <1>3, <2>1, ShopAssumption DEF Shop!Back
  <1>4. CASE Shop!DemoEvent
    BY <1>4, ShopAssumption DEF Shop!DemoEvent, Shop!Rendered
  <1>5. ASSUME NEW d \in Demos, Shop!loadResource(d) PROVE Shop!Inv'
    <2>1. /\ s5' \in [Demos -> 0 .. MaxFetches] /\ \A e \in Demos : s5'[e] > 0 => s5[e] > 0
          /\ s6' = s6 /\ d \in s6
      BY <1>5, ShopAssumption DEF Shop!loadResource
    <2>2. CASE Shop!Arrives(d)
      <3>1. s1' = d /\ s2' = d /\ s3' \subseteq s4' /\ s4' = s4 \cup {d}
        BY <2>2, ShopDispatch DEF Shop!Arrives
      <3> QED
        BY <2>1, <3>1, ShopAssumption
    <2>3. CASE Shop!Unloadable(d) \/ Shop!Failed
      <3>1. s1' = "error" /\ UNCHANGED <<s2, s3>> /\ s4' \in {s4, s4 \cup {d}}
        BY <2>3 DEF Shop!Unloadable, Shop!Failed, Shop!glonEvent
      <3> QED
        BY <2>1, <3>1, ShopAssumption
    <2> QED
      BY <1>5, <2>2, <2>3 DEF Shop!loadResource
  <1> QED
    BY <1>1, <1>2, <1>3, <1>4, <1>5 DEF Shop!Next

(* A step of no component leaves the demo launcher as it is.                *)
LEMMA ShopStays ==
  ASSUME Shop!Inv, UNCHANGED vars
  PROVE  Shop!Inv'
  BY DEF Shop!Inv, Shop!TypeOK, Shop!RoutesFollowLoads, vars

-----------------------------------------------------------------------------
(* The pages' boots.                                                        *)

(* A plan with its listeners at w: sources before, events after. *)
WellPlanned(plan, w) ==
    /\ Len(plan.steps) \in Nat /\ w \in 1 .. Len(plan.steps)
    /\ DOMAIN plan.steps = 1 .. Len(plan.steps)
    /\ \A i \in 1 .. Len(plan.steps) : /\ plan.steps[i] = "wire" <=> i = w
                                       /\ plan.steps[i] = "load" => i < w
                                       /\ plan.steps[i] = "event" => i > w
    /\ plan.streams \in BOOLEAN /\ plan.retries = plan.streams

(* Every plan registers its handlers at one stage, after what can fail.     *)
LEMMA BootPlans ==
  ASSUME NEW p \in DOMAIN Boot!Plans
  PROVE  \E w \in Nat : WellPlanned(Boot!Plans[p], w)
  <1>1. CASE p = "glon"
    <2>1. WellPlanned(Boot!GlonJs, 3)
      BY DEF Boot!GlonJs, Boot!Sync, WellPlanned
    <2>2. Boot!Plans[p] = Boot!GlonJs
      BY <1>1 DEF Boot!Plans
    <2> QED
      BY <2>1, <2>2
  <1>2. CASE p = "shop"
    <2>1. WellPlanned(Boot!ShopBoot, 3)
      BY DEF Boot!ShopBoot, Boot!Sync, WellPlanned
    <2>2. Boot!Plans[p] = Boot!ShopBoot
      BY <1>2 DEF Boot!Plans
    <2> QED
      BY <2>1, <2>2
  <1>3. CASE p = "traffic"
    <2>1. WellPlanned(Boot!TrafficBoot, 3)
      BY DEF Boot!TrafficBoot, Boot!Sync, WellPlanned
    <2>2. Boot!Plans[p] = Boot!TrafficBoot
      BY <1>3 DEF Boot!Plans
    <2> QED
      BY <2>1, <2>2
  <1>4. CASE p = "linda"
    <2>1. WellPlanned(Boot!LindaBoot, 3)
      BY DEF Boot!LindaBoot, Boot!Sync, WellPlanned
    <2>2. Boot!Plans[p] = Boot!LindaBoot
      BY <1>4 DEF Boot!Plans
    <2> QED
      BY <2>1, <2>2
  <1>5. CASE p = "live"
    <2>1. WellPlanned(Boot!LiveBoot, 5)
      BY DEF Boot!LiveBoot, Boot!Sync, WellPlanned
    <2>2. Boot!Plans[p] = Boot!LiveBoot
      BY <1>5 DEF Boot!Plans
    <2> QED
      BY <2>1, <2>2
  <1>6. CASE p = "patrol"
    <2>1. WellPlanned(Boot!PatrolBoot, 8)
      BY DEF Boot!PatrolBoot, Boot!Sync, WellPlanned
    <2>2. Boot!Plans[p] = Boot!PatrolBoot
      BY <1>6 DEF Boot!Plans
    <2> QED
      BY <2>1, <2>2
  <1>7. CASE p = "kaka"
    <2>1. WellPlanned(Boot!KakaBoot, 19)
      BY DEF Boot!KakaBoot, Boot!Sync, WellPlanned
    <2>2. Boot!Plans[p] = Boot!KakaBoot
      BY <1>7 DEF Boot!Plans
    <2> QED
      BY <2>1, <2>2
  <1>8. p \in {"glon", "shop", "traffic", "linda", "live", "patrol", "kaka"}
    BY DEF Boot!Plans
  <1> QED
    BY <1>1, <1>2, <1>3, <1>4, <1>5, <1>6, <1>7, <1>8

(* The plan that the page follows does.                                     *)
LEMMA BootWired ==
  ASSUME s1 \in DOMAIN Boot!Plans
  PROVE  WellPlanned(Boot!Plans[s1], Boot!WiredAt)
  <1>1. PICK w \in Nat : WellPlanned(Boot!Plans[s1], w)
    BY BootPlans
  <1>2. w \in DOMAIN Boot!steps /\ \A i \in DOMAIN Boot!steps : Boot!steps[i] = "wire" <=> i = w
    BY <1>1 DEF WellPlanned, Boot!steps
  <1>3. Boot!WiredAt = w
    BY <1>2 DEF Boot!WiredAt
  <1> QED
    BY <1>1, <1>3

(* The position of the listeners and of what comes before and behind them.  *)
LEMMA BootPlan ==
  ASSUME s1 \in DOMAIN Boot!Plans
  PROVE  /\ Len(Boot!steps) \in Nat /\ Boot!WiredAt \in 1 .. Len(Boot!steps)
         /\ DOMAIN Boot!steps = 1 .. Len(Boot!steps)
         /\ \A i \in 1 .. Len(Boot!steps) :
               /\ Boot!steps[i] = "wire" <=> i = Boot!WiredAt
               /\ Boot!steps[i] = "event" => i > Boot!WiredAt
         /\ \A i \in Boot!Sources : i \in Nat /\ i < Boot!WiredAt
         /\ Boot!Plans[s1].retries = Boot!Plans[s1].streams
  BY BootWired DEF WellPlanned, Boot!steps, Boot!Sources

(* What fails, fails at a stage of the plan, or nothing does.               *)
LEMMA BootFault ==
  ASSUME s1 \in DOMAIN Boot!Plans, s2 \in Boot!Failing(s1)
  PROVE  s2[1] \in Nat
  <1>1. DOMAIN Boot!Plans[s1].steps \subseteq Nat
    BY BootWired DEF WellPlanned
  <1> QED
    BY <1>1 DEF Boot!Failing

(* No handler is registered before the page starts.                         *)
LEMMA BootStarts == Boot!Init => Boot!Inv
  <1> SUFFICES ASSUME Boot!Init PROVE Boot!Inv
    OBVIOUS
  <1>1. s1 \in DOMAIN Boot!Plans /\ s2 \in Boot!Failing(s1) /\ s3 \in {"streaming", "bytes"}
        /\ (s3 = "streaming" => Boot!Plans[s1].streams)
        /\ s4 = 0 /\ s5 = 0 /\ s6 = 0 /\ s7 = FALSE
    BY DEF Boot!Init
  <1>2. Boot!Wired = 0
    BY <1>1, BootPlan DEF Boot!Wired
  <1>3. Len(Boot!steps) \in Nat
    BY <1>1, BootPlan
  <1>4. Boot!TypeOK
    <2>1. s4 \in 0 .. Len(Boot!steps) /\ s5 \in 0 .. Len(Boot!steps) /\ s6 \in 0 .. 2
      BY <1>1, <1>3
    <2>2. s7 \in BOOLEAN
      BY <1>1
    <2>3. s3 \in {"streaming", "bytes", "up", "dead"}
      BY <1>1
    <2> QED
      BY <1>1, <2>1, <2>2, <2>3 DEF Boot!TypeOK
  <1>5. ~(s6 > 1) /\ s3 # "up" /\ 0 <= 0
    BY <1>1
  <1>6. Boot!HandlersOnce
    BY <1>1, <1>5 DEF Boot!HandlersOnce
  <1> QED
    BY <1>1, <1>2, <1>4, <1>5, <1>6 DEF Boot!Inv

(* Each stage of the plan is reached once, whatever fails.                  *)
LEMMA BootKeeps ==
  ASSUME Boot!Inv, Boot!Next
  PROVE  Boot!Inv'
  <1> DEFINE W == Boot!WiredAt
             L == Len(Boot!steps)
             S == Boot!Plans[s1].streams
  <1>0. /\ s1 \in DOMAIN Boot!Plans /\ s2 \in Boot!Failing(s1)
        /\ s3 \in {"streaming", "bytes", "up", "dead"}
        /\ s4 \in 0 .. L /\ s5 \in 0 .. L /\ s6 \in 0 .. 2 /\ s7 = FALSE
        /\ Boot!HandlersOnce /\ Boot!Wired = IF s4 >= W THEN 1 ELSE 0
    BY DEF Boot!Inv, Boot!TypeOK, Boot!HandlersOnce, Boot!Wired
  <1>1. /\ s6 # Boot!Wired => /\ s6 = Boot!Wired + 1 /\ s2[2] = "trap" /\ s2[1] > W
                              /\ S /\ s3 # "streaming"
                              /\ s3 = "dead" => s4 = 0 \/ s4 >= W
        /\ s3 = "up" => s4 = L
        /\ s3 = "streaming" => S
        /\ s5 <= s4
    BY DEF Boot!Inv
  <1>2. L \in Nat /\ W \in 1 .. L /\ DOMAIN Boot!steps = 1 .. L
    BY <1>0, BootPlan
  <1>3. \A i \in 1 .. L : /\ Boot!steps[i] = "wire" <=> i = W
                          /\ Boot!steps[i] = "event" => i > W
    BY <1>0, BootPlan
  <1>4. \A i \in Boot!Sources : i \in Nat /\ i < W
    BY <1>0, BootPlan
  <1>5. Boot!Plans[s1].retries = S
    BY <1>0, BootPlan
  <1>6. s2[1] \in Nat
    BY <1>0, BootFault
  <1>7. s1' = s1 /\ s2' = s2
    BY DEF Boot!Next, Boot!Instantiation, Boot!ErrorCode, Boot!Trap, Boot!Step,
           Boot!Click, Boot!Rejected
  <1>8. /\ Boot!Plans' = Boot!Plans /\ Boot!steps' = Boot!steps /\ W' = W /\ L' = L /\ S' = S
        /\ Boot!Sources' = Boot!Sources /\ Boot!Failing(s1)' = Boot!Failing(s1)
    BY <1>7 DEF Boot!steps, Boot!WiredAt, Boot!Sources, Boot!Failing, Boot!Plans
  <1>9. Boot!Wired' = IF s4' >= W THEN 1 ELSE 0
    BY <1>8 DEF Boot!Wired
  <1> DEFINE Kept == /\ s3' \in {"streaming", "bytes", "up", "dead"}
                     /\ s4' \in 0 .. L /\ s5' \in 0 .. L /\ s6' \in 0 .. 2 /\ s7' = FALSE
                     /\ s6' # Boot!Wired' =>
                          /\ s6' = Boot!Wired' + 1 /\ s2[2] = "trap" /\ s2[1] > W
                          /\ S /\ s3' # "streaming"
                          /\ s3' = "dead" => s4' = 0 \/ s4' >= W
                     /\ s3' = "up" => s4' = L
                     /\ s3' = "streaming" => S
                     /\ s5' <= s4'
  <1>10. ASSUME Kept PROVE Boot!Inv'
    <2>1. /\ s6' > 1 => s2[2] = "trap" /\ s2[1] > W
          /\ s3' = "up" => s6' >= 1 /\ \A i \in Boot!Sources : i <= s4'
      BY <1>2, <1>4, <1>9, <1>10
    <2>2. Boot!HandlersOnce'
      BY <1>7, <1>8, <1>10, <2>1 DEF Boot!HandlersOnce
    <2>3. Boot!TypeOK'
      BY <1>0, <1>7, <1>8, <1>10 DEF Boot!TypeOK
    <2> QED
      BY <1>7, <1>8, <1>10, <2>2, <2>3 DEF Boot!Inv
  <1> HIDE DEF W, L, S
  <1>11. ASSUME Boot!Rejected, s4 = 0 \/ s2 = <<s4 + 1, "trap">>, s3 \in {"streaming", "bytes"}
         PROVE  Kept
    BY <1>0, <1>1, <1>2, <1>6, <1>9, <1>11 DEF Boot!Rejected
  <1>12. CASE Boot!Instantiation
    BY <1>10, <1>11, <1>12 DEF Boot!Instantiation, Boot!Booting
  <1>13. CASE Boot!ErrorCode
    <2>1. s2[2] # "trap"
      BY <1>13 DEF Boot!ErrorCode
    <2>2. Kept
      BY <1>0, <1>1, <1>2, <1>9, <1>13, <2>1 DEF Boot!ErrorCode
    <2> QED
      BY <1>10, <2>2
  <1>14. CASE Boot!Trap
    BY <1>10, <1>11, <1>14 DEF Boot!Trap, Boot!Booting, Boot!Here
  <1>15. CASE Boot!Step
    <2>1. /\ s3 \in {"streaming", "bytes"} /\ s4 + 1 \in 1 .. L /\ s4' = s4 + 1
          /\ s5' \in {s5, s5 + 1}
          /\ s6' = IF s4 + 1 = W THEN s6 + 1 ELSE s6
          /\ s3' = IF s4 + 1 = L THEN "up" ELSE s3
      BY <1>0, <1>2, <1>3, <1>15 DEF Boot!Step, Boot!Booting, Boot!Here, L
    <2>2. s7' = FALSE
      <3>1. s7' = (s7 \/ (Boot!steps[s4 + 1] = "event" /\ Boot!NotLoaded))
        BY <1>15 DEF Boot!Step, Boot!Here
      <3>2. Boot!steps[s4 + 1] = "event" => ~Boot!NotLoaded
        BY <1>0, <1>2, <1>3, <1>4, <2>1 DEF Boot!NotLoaded
      <3> QED
        BY <1>0, <3>1, <3>2
    <2>3. Kept
      BY <1>0, <1>1, <1>2, <1>9, <2>1, <2>2
    <2> QED
      BY <1>10, <2>3
  <1>16. CASE Boot!Click
    <2>1. s4 = 0 \/ s4 >= W
      BY <1>0, <1>1, <1>2, <1>5, <1>16 DEF Boot!Click
    <2>2. s4 > 0 => ~Boot!NotLoaded
      BY <1>0, <1>2, <1>4, <2>1 DEF Boot!NotLoaded
    <2>3. s7' = FALSE
      BY <1>0, <1>16, <2>2 DEF Boot!Click
    <2>4. Kept
      BY <1>0, <1>1, <1>2, <1>9, <1>16, <2>3 DEF Boot!Click
    <2> QED
      BY <1>10, <2>4
  <1> QED
    BY <1>12, <1>13, <1>14, <1>15, <1>16 DEF Boot!Next

(* A step of no component leaves the start of a page as it is.              *)
LEMMA BootStays ==
  ASSUME Boot!Inv, UNCHANGED vars
  PROVE  Boot!Inv'
  <1> USE DEF vars
  <1>1. Boot!TypeOK' /\ Boot!HandlersOnce'
    BY DEF Boot!Inv, Boot!TypeOK, Boot!HandlersOnce, Boot!steps, Boot!Sources, Boot!WiredAt,
           Boot!Failing, Boot!Plans
  <1> QED
    BY <1>1 DEF Boot!Inv, Boot!steps, Boot!WiredAt, Boot!Plans, Boot!Wired

-----------------------------------------------------------------------------
(* The high score.                                                          *)

(* The tabs open with the high score that is stored.                        *)
LEMMA ScoreStarts == Score!Init => Score!Inv
  <1> SUFFICES ASSUME Score!Init PROVE Score!Inv
    OBVIOUS
  <1>1. s4 \in [Tabs -> Score!Scores] /\ s5 \in [Tabs -> Score!Scores] /\ s6 \in [Tabs -> Score!Scores]
    BY ScoreAssumption DEF Score!Init, Score!Scores
  <1> QED
    BY <1>1 DEF Score!Init, Score!Inv, Score!TypeOK

(* What a render mirrors is what the host has saved.                        *)
LEMMA ScoreMirrors ==
  ASSUME Score!TypeOK, NEW t \in Tabs, NEW v \in Score!Scores, Score!Mirror(t, v)
  PROVE  /\ s1' \in Score!Scores /\ s4' \in [Tabs -> Score!Scores] /\ s6' \in [Tabs -> Score!Scores]
         /\ s4'[t] = v /\ s6'[t] = v
         /\ \A u \in Tabs \ {t} : s4'[u] = s4[u] /\ s6'[u] = s6[u]
         /\ s1' # s1 => s1' = v /\ v # s4[t] /\ t \notin s2
  BY DEF Score!TypeOK, Score!Mirror

(* A write never lowers what the tab had saved, and a start writes nothing. *)
LEMMA ScoreKeeps ==
  ASSUME Score!Inv, Score!Next
  PROVE  Score!Inv' /\ Score!KeepsHighScore
  <1>1. /\ s1 \in Score!Scores /\ s2 \subseteq Tabs /\ s3 \subseteq Tabs
        /\ s4 \in [Tabs -> Score!Scores] /\ s5 \in [Tabs -> Score!Scores]
        /\ s6 \in [Tabs -> Score!Scores]
        /\ \A t \in Tabs : s6[t] = IF t \in s3 THEN s4[t] ELSE 0
        /\ Score!TypeOK
    BY DEF Score!Inv, Score!TypeOK
  <1>2. Score!Scores \subseteq Nat /\ 0 \in Score!Scores
    BY ScoreAssumption DEF Score!Scores
  <1>3. ASSUME /\ s1' \in Score!Scores /\ s2' \subseteq Tabs /\ s3' \subseteq Tabs
               /\ s4' \in [Tabs -> Score!Scores] /\ s5' \in [Tabs -> Score!Scores]
               /\ s6' \in [Tabs -> Score!Scores]
               /\ \A t \in Tabs : s6'[t] = IF t \in s3' THEN s4'[t] ELSE 0
        PROVE  Score!Inv'
    <2>1. Score!Scores' = Score!Scores
      BY DEF Score!Scores
    <2> QED
      BY <1>3, <2>1 DEF Score!Inv, Score!TypeOK
  <1>4. ASSUME NEW t \in Tabs, Score!Reload(t) PROVE Score!Inv' /\ Score!KeepsHighScore
    <2>1. Score!readStoredHigh(t) \in Score!Scores
      BY <1>1, <1>2 DEF Score!readStoredHigh
    <2>2. Score!Inv'
      BY <1>1, <1>2, <1>3, <1>4, <2>1 DEF Score!Reload
    <2> QED
      BY <1>4, <2>2 DEF Score!Reload, Score!KeepsHighScore
  <1>5. ASSUME NEW t \in Tabs, Score!Boot(t) PROVE Score!Inv' /\ Score!KeepsHighScore
    <2> DEFINE v == Score!readStoredHigh(t)
    <2>1. v \in Score!Scores /\ Score!Higher(s6[t], v) = v
      BY <1>1, <1>2, <1>5 DEF Score!readStoredHigh, Score!Higher, Score!Boot
    <2>2. Score!Mirror(t, v)
      BY <1>5, <2>1 DEF Score!Boot
    <2>3. /\ s1' \in Score!Scores /\ s4' \in [Tabs -> Score!Scores] /\ s6' \in [Tabs -> Score!Scores]
          /\ s4'[t] = v /\ s6'[t] = v
          /\ \A u \in Tabs \ {t} : s4'[u] = s4[u] /\ s6'[u] = s6[u]
          /\ s1' # s1 => s1' = v /\ t \notin s2
      BY <1>1, <2>1, <2>2, ScoreMirrors
    <2>4. s1' = s1
      BY <2>3 DEF Score!readStoredHigh
    <2>5. s2' = s2 /\ s3' = s3 \cup {t} /\ s5' = s5
      BY <1>5 DEF Score!Boot
    <2>6. Score!Inv'
      BY <1>1, <1>3, <2>3, <2>5
    <2> QED
      BY <2>4, <2>6 DEF Score!KeepsHighScore
  <1>6. ASSUME NEW t \in Tabs, Score!Play(t) PROVE Score!Inv' /\ Score!KeepsHighScore
    <2> DEFINE v == Score!Higher(s6[t], s5[t] + 1)
    <2>1. /\ t \in s3 /\ s5[t] + 1 \in Score!Scores /\ s5' = [s5 EXCEPT ![t] = s5[t] + 1]
          /\ Score!Mirror(t, v) /\ s2' = s2 /\ s3' = s3
      BY <1>1, <1>6, ScoreAssumption DEF Score!Play, Score!Scores
    <2>0. s6[t] \in Score!Scores /\ s6[t] \in Nat /\ s5[t] + 1 \in Nat /\ s6[t] = s4[t]
      BY <1>1, <1>2, <2>1
    <2>2. /\ v \in Score!Scores /\ v >= s6[t]
          /\ v # s6[t] => v = s5[t] + 1
      BY <2>0, <2>1 DEF Score!Higher
    <2> HIDE DEF v
    <2>3. /\ s1' \in Score!Scores /\ s4' \in [Tabs -> Score!Scores] /\ s6' \in [Tabs -> Score!Scores]
          /\ s4'[t] = v /\ s6'[t] = v
          /\ \A u \in Tabs \ {t} : s4'[u] = s4[u] /\ s6'[u] = s6[u]
          /\ s1' # s1 => s1' = v /\ v # s4[t]
      BY <1>1, <2>1, <2>2, ScoreMirrors
    <2>4. Score!Inv'
      BY <1>1, <1>3, <2>1, <2>3
    <2>5. s5'[t] = s5[t] + 1
      BY <1>1, <2>1
    <2>6. s1' # s1 => s1' = s6'[t] /\ s5'[t] = s1' /\ s1' > s4[t]
      <3>1. v \in Nat
        BY <1>2, <2>2
      <3> QED
        BY <2>0, <2>2, <2>3, <2>5, <3>1
    <2> QED
      BY <2>1, <2>4, <2>6 DEF Score!KeepsHighScore
  <1>7. ASSUME NEW t \in Tabs, Score!Restart(t) PROVE Score!Inv' /\ Score!KeepsHighScore
    <2>1. /\ t \in s3 /\ s5' = [s5 EXCEPT ![t] = 0]
          /\ Score!Mirror(t, s6[t]) /\ s2' = s2 /\ s3' = s3
      BY <1>7 DEF Score!Restart
    <2>2. /\ s1' \in Score!Scores /\ s4' \in [Tabs -> Score!Scores] /\ s6' \in [Tabs -> Score!Scores]
          /\ s4'[t] = s6[t] /\ s6'[t] = s6[t]
          /\ \A u \in Tabs \ {t} : s4'[u] = s4[u] /\ s6'[u] = s6[u]
          /\ s1' # s1 => s6[t] # s4[t]
      BY <1>1, <2>1, ScoreMirrors
    <2>3. s1' = s1
      BY <1>1, <2>1, <2>2
    <2>4. Score!Inv'
      BY <1>1, <1>2, <1>3, <2>1, <2>2
    <2> QED
      BY <2>3, <2>4 DEF Score!KeepsHighScore
  <1> QED
    BY <1>4, <1>5, <1>6, <1>7 DEF Score!Next

(* A step of no component leaves the high score as it is.                   *)
LEMMA ScoreStays ==
  ASSUME Score!Inv, UNCHANGED vars
  PROVE  Score!Inv'
  BY DEF Score!Inv, Score!TypeOK, Score!Scores, vars

-----------------------------------------------------------------------------
(* The trench mission as the host presents it.                              *)

(* What a picture of the flight shows.                                      *)
SceneFrame(p, q, b) == [op |-> "A", phase |-> p, shield |-> q, boost |-> b]

(* What Glon has, and whether the host shows it.                            *)
SceneGlon ==
    /\ s1 \in {"forest", "cave", "trench"} /\ s2 \in BOOLEAN
    /\ s3 \in 0 .. 5 /\ s4 \in 0 .. 3 /\ s5 \in -1 .. 1 /\ s6 \in BOOLEAN
    /\ ~s2 => s3 = 0

(* What the host drew last.                                                 *)
SceneDrawn ==
    /\ s9 \in 0 .. 5 /\ s10 \in 0 .. 3 \cup {99}
    /\ s8 \in BOOLEAN /\ s11 \in BOOLEAN
    /\ \/ /\ s7 = TRUE /\ s1 = "trench" /\ s9 = s3 /\ s12 = SceneFrame(s3, s4, s5)
          /\ s13 = IF s3 >= 4 THEN 1 ELSE 0
       \/ /\ s7 = FALSE /\ s12 = [op |-> "B"] /\ ~s8 /\ s13 = 0
          /\ s1 = "trench" => s3 = 0
    /\ s11 => s8
    /\ s8 => s3 < 4 /\ s5 > 0

(* A picture tells phase, shield and boost apart.                           *)
LEMMA SceneRecords ==
  ASSUME NEW p \in 0 .. 5, NEW q \in 0 .. 3, NEW b \in -1 .. 1
  PROVE  /\ SceneFrame(p, q, b) \in Scene!Frames /\ SceneFrame(p, q, b) # Scene!None
         /\ SceneFrame(p, q, b).op = "A" /\ SceneFrame(p, q, b).phase = p
         /\ SceneFrame(p, q, b).shield = q /\ SceneFrame(p, q, b).boost = b
  <1>1. SceneFrame(p, q, b).op = "A" /\ Scene!None.op = "B"
    BY DEF SceneFrame, Scene!None
  <1> QED
    BY <1>1 DEF SceneFrame, Scene!Frames, Scene!SHIELD

(* The invariant of the scene is these parts.                               *)
LEMMA SceneWhole == Scene!Inv <=> SceneGlon /\ SceneDrawn
  <1>1. ASSUME Scene!Inv PROVE SceneGlon /\ SceneDrawn
    <2>1. SceneGlon
      BY <1>1 DEF Scene!Inv, Scene!TypeOK, Scene!SHIELD, SceneGlon
    <2>2. /\ s7 \in BOOLEAN /\ s9 \in 0 .. 5 /\ s10 \in 0 .. 3 \cup {99} /\ s8 \in BOOLEAN
          /\ s11 \in BOOLEAN /\ (s11 => s8) /\ (s8 => s3 < 4 /\ s5 > 0)
      BY <1>1 DEF Scene!Inv, Scene!TypeOK, Scene!SHIELD
    <2>3. ASSUME s7
          PROVE  /\ s1 = "trench" /\ s9 = s3 /\ s12 = SceneFrame(s3, s4, s5)
                 /\ s13 = IF s3 >= 4 THEN 1 ELSE 0
      <3>1. s1 = "trench" /\ s9 = s3 /\ s12 = SceneFrame(s3, s4, s5)
        BY <1>1, <2>3 DEF Scene!Inv, Scene!Frame, SceneFrame
      <3>2. s12.phase = s3
        BY <2>1, <3>1, SceneRecords DEF SceneGlon
      <3> QED
        BY <1>1, <2>3, <3>1, <3>2 DEF Scene!Inv, Scene!EachEndChimesOnce
    <2>4. ASSUME ~s7
          PROVE  /\ s12 = [op |-> "B"] /\ ~s8 /\ s13 = 0 /\ (s1 = "trench" => s3 = 0)
      BY <1>1, <2>4 DEF Scene!Inv, Scene!EachEndChimesOnce, Scene!None
    <2> QED
      BY <2>1, <2>2, <2>3, <2>4 DEF SceneDrawn
  <1>2. ASSUME SceneGlon, SceneDrawn PROVE Scene!Inv
    <2>1. CASE s7
      <3>1. /\ s1 = "trench" /\ s9 = s3 /\ s12 = SceneFrame(s3, s4, s5)
            /\ s13 = IF s3 >= 4 THEN 1 ELSE 0
        BY <1>2, <2>1 DEF SceneDrawn
      <3>2. /\ s12 \in Scene!Frames /\ s12 # Scene!None /\ s12.phase = s3 /\ s12.boost = s5
        BY <1>2, <3>1, SceneRecords DEF SceneGlon
      <3>3. Scene!EngineStops
        BY <1>2, <2>1, <3>2 DEF SceneDrawn, Scene!EngineStops, Scene!Boosting
      <3>4. Scene!EachEndChimesOnce
        BY <2>1, <3>1, <3>2 DEF Scene!EachEndChimesOnce
      <3>5. Scene!TypeOK
        BY <1>2, <2>1, <3>1, <3>2 DEF Scene!TypeOK, Scene!SHIELD, SceneGlon, SceneDrawn
      <3>6. s12 = Scene!Frame(s1, s3, s4, s5)
        BY <3>1 DEF Scene!Frame, SceneFrame
      <3> QED
        BY <1>2, <2>1, <3>1, <3>3, <3>4, <3>5, <3>6 DEF Scene!Inv, SceneGlon, SceneDrawn
    <2>2. CASE ~s7
      <3>1. s7 = FALSE /\ s12 = Scene!None /\ ~s8 /\ ~s11 /\ s13 = 0 /\ (s1 = "trench" => s3 = 0)
        BY <1>2, <2>2 DEF SceneDrawn, Scene!None
      <3>2. Scene!TypeOK
        <4>1. s12 \in Scene!Frames \cup {Scene!None} /\ s13 \in 0 .. 2
          BY <3>1
        <4>2. s7 \in BOOLEAN /\ s8 \in BOOLEAN /\ s11 \in BOOLEAN
          BY <1>2, <3>1 DEF SceneDrawn
        <4>3. s9 \in 0 .. 5 /\ s10 \in 0 .. 3 \cup {99}
          BY <1>2 DEF SceneDrawn
        <4> QED
          BY <1>2, <4>1, <4>2, <4>3 DEF Scene!TypeOK, Scene!SHIELD, SceneGlon
      <3> QED
        BY <1>2, <3>1, <3>2 DEF Scene!Inv, Scene!EngineStops, Scene!EachEndChimesOnce, SceneGlon
    <2> QED
      BY <2>1, <2>2
  <1> QED
    BY <1>1, <1>2

(* The same, after a step.                                                  *)
LEMMA SceneWholeNext == (SceneGlon /\ SceneDrawn)' => Scene!Inv'
  BY SceneWhole, PTL

(* The mission is left, or not there.                                       *)
LEMMA SceneBlank ==
  ASSUME SceneGlon, SceneDrawn, Scene!drawScript(Scene!None)
  PROVE  /\ s7' = FALSE /\ s12' = [op |-> "B"] /\ ~s8' /\ ~s11' /\ s13' = 0
         /\ s8' \in BOOLEAN /\ s11' \in BOOLEAN
         /\ s9' \in 0 .. 5 /\ s10' \in 0 .. 3 \cup {99}
  <1>1. Scene!None.op = "B" /\ Scene!None = [op |-> "B"]
    BY DEF Scene!None
  <1>2. /\ s7' = FALSE /\ s13' = 0 /\ s12' = Scene!None /\ UNCHANGED <<s9, s10>>
        /\ IF s7 THEN Scene!Leave ELSE UNCHANGED <<s11, s8>>
    BY <1>1 DEF Scene!drawScript
  <1>3. s8' = FALSE /\ s11' = FALSE
    BY <1>2 DEF Scene!Leave, SceneDrawn
  <1> QED
    BY <1>1, <1>2, <1>3 DEF SceneDrawn

(* A frame of a mission that goes on, or begins.                            *)
LEMMA SceneShown ==
  ASSUME SceneGlon, SceneDrawn,
         NEW p \in 0 .. 5, NEW q \in 0 .. 3, NEW b \in -1 .. 1,
         s7 /\ s3 >= 4 => p >= 4, ~s7 => p < 4, s8 => b >= 0 \/ p >= 4,
         Scene!drawScript(SceneFrame(p, q, b))
  PROVE  /\ s7' = TRUE /\ s9' = p /\ s10' = q /\ s12' = SceneFrame(p, q, b)
         /\ s13' = IF p >= 4 THEN 1 ELSE 0
         /\ s8' \in BOOLEAN /\ s11' \in BOOLEAN
         /\ s11' => s8'
         /\ s8' => p < 4 /\ b > 0
  <1> DEFINE f == SceneFrame(p, q, b)
  <1>1. f.op = "A" /\ f.phase = p /\ f.shield = q /\ f.boost = b
    BY SceneRecords
  <1>2. Scene!drawScript(f)
    OBVIOUS
  <1> HIDE DEF f
  <1>3. /\ s7' = TRUE /\ s13' = (IF Scene!Ended(f) /\ s13 < 2 THEN s13 + 1 ELSE s13)
        /\ s9' = p /\ s10' = q /\ Scene!Engine(f) /\ s12' = f
    BY <1>1, <1>2 DEF Scene!drawScript
  <1>4. /\ Scene!Ended(f) <=> p >= 4 /\ s9 < 4
        /\ Scene!Boosting(f) <=> p < 4 /\ b > 0
        /\ Scene!NotBoosting(f) <=> p >= 4 \/ b = 0
    BY <1>1 DEF Scene!Ended, Scene!Boosting, Scene!NotBoosting
  <1>5. s13' = IF p >= 4 THEN 1 ELSE 0
    BY <1>3, <1>4 DEF SceneDrawn, SceneGlon
  <1>6. /\ s8' = ((s8 \/ Scene!Boosting(f)) /\ ~Scene!NotBoosting(f))
        /\ s11' = CASE Scene!Boosting(f) /\ ~s8 -> s11 \/ s6
                    [] Scene!NotBoosting(f) /\ s8 -> FALSE
                    [] OTHER -> s11
    BY <1>3 DEF Scene!Engine
  <1>7. s8 \in BOOLEAN /\ s11 \in BOOLEAN /\ s6 \in BOOLEAN /\ (s11 => s8)
    BY DEF SceneDrawn, SceneGlon
  <1>8. s8' = (IF p < 4 /\ b > 0 THEN TRUE ELSE FALSE)
    <2>1. CASE p < 4 /\ b > 0
      <3>1. Scene!Boosting(f) /\ ~Scene!NotBoosting(f)
        BY <1>4, <2>1
      <3>2. s8' = TRUE
        BY <1>6, <3>1
      <3> QED
        BY <2>1, <3>2
    <2>2. CASE ~(p < 4 /\ b > 0)
      <3>1. ~Scene!Boosting(f) /\ (s8 => Scene!NotBoosting(f))
        BY <1>4, <2>2
      <3>2. s8' = FALSE
        BY <1>6, <3>1
      <3> QED
        BY <2>2, <3>2
    <2> QED
      BY <2>1, <2>2
  <1>9. CASE p < 4 /\ b > 0
    <2>1. Scene!Boosting(f) /\ ~Scene!NotBoosting(f)
      BY <1>4, <1>9
    <2>2. s8' = TRUE
      BY <1>6, <2>1
    <2>3. s11' = CASE ~s8 -> s11 \/ s6 [] OTHER -> s11
      BY <1>6, <2>1
    <2>4. s11' \in BOOLEAN
      BY <1>7, <2>3
    <2> QED
      BY <1>3, <1>5, <1>8, <2>2, <2>4 DEF f
  <1>10. CASE ~(p < 4 /\ b > 0)
    <2>1. ~Scene!Boosting(f)
      BY <1>4, <1>10
    <2>2. s8 => Scene!NotBoosting(f)
      BY <1>4, <1>10
    <2>3. s11' = FALSE
      BY <1>6, <1>7, <2>1, <2>2
    <2> QED
      BY <1>3, <1>5, <1>8, <2>3 DEF f
  <1> QED
    BY <1>9, <1>10

(* A state of Glon and its frame.                                           *)
LEMMA SceneBecomes ==
  ASSUME SceneGlon, SceneDrawn,
         s1' \in {"forest", "cave", "trench"}, s2' \in BOOLEAN,
         s3' \in 0 .. 5, s4' \in 0 .. 3, s5' \in -1 .. 1, s6' \in BOOLEAN, ~s2' => s3' = 0,
         s1' = "trench" => /\ s7 /\ s3 >= 4 => s3' >= 4
                           /\ ~s7 => s3' < 4
                           /\ s8 => s5' >= 0 \/ s3' >= 4,
         Scene!drawScript(Scene!Frame(s1', s3', s4', s5'))
  PROVE  (SceneGlon /\ SceneDrawn)'
  <1> DEFINE m == s1'
             p == s3'
             q == s4'
             b == s5'
  <1>1. SceneGlon'
    BY DEF SceneGlon
  <1>2. CASE m = "trench"
    <2>1. Scene!drawScript(SceneFrame(p, q, b))
      BY <1>2 DEF Scene!Frame, SceneFrame
    <2>2. /\ p \in 0 .. 5 /\ q \in 0 .. 3 /\ b \in -1 .. 1
          /\ s7 /\ s3 >= 4 => p >= 4
          /\ ~s7 => p < 4
          /\ s8 => b >= 0 \/ p >= 4
      BY <1>2
    <2> HIDE DEF p, q, b
    <2>3. /\ s7' = TRUE /\ s9' = p /\ s10' = q /\ s12' = SceneFrame(p, q, b)
          /\ s13' = IF p >= 4 THEN 1 ELSE 0
          /\ s8' \in BOOLEAN /\ s11' \in BOOLEAN
          /\ s11' => s8'
          /\ s8' => p < 4 /\ b > 0
      BY <2>1, <2>2, SceneShown
    <2>4. s10' \in 0 .. 3 \cup {99} /\ s9' \in 0 .. 5
      BY <2>2, <2>3
    <2> QED
      BY <1>1, <1>2, <2>3, <2>4 DEF SceneDrawn, SceneFrame, p, q, b
  <1>3. CASE m # "trench"
    <2>1. Scene!drawScript(Scene!None)
      BY <1>3 DEF Scene!Frame
    <2> QED
      BY <1>1, <1>3, <2>1, SceneBlank DEF SceneDrawn
  <1> QED
    BY <1>2, <1>3

(* A step of the program gives the host one picture of the state it left.   *)
LEMMA SceneMoves ==
  ASSUME NEW m, NEW e \in BOOLEAN, NEW p, NEW q, NEW b, Scene!Becomes(m, e, p, q, b)
  PROVE  /\ s1' = m /\ s2' = e /\ s2' \in BOOLEAN /\ s3' = p /\ s4' = q /\ s5' = b
         /\ Scene!drawScript(Scene!Frame(s1', s3', s4', s5'))
  BY DEF Scene!Becomes

(* Nothing sounds before the first picture.                                 *)
LEMMA SceneStarts == Scene!Init => Scene!Inv
  <1> SUFFICES ASSUME Scene!Init PROVE SceneGlon /\ SceneDrawn
    BY SceneWhole
  <1>1. SceneGlon
    <2>1. s2 \in BOOLEAN /\ s6 \in BOOLEAN
      BY DEF Scene!Init
    <2>2. /\ s1 \in {"forest", "cave", "trench"} /\ s3 = 0 /\ s3 \in 0 .. 5 /\ s4 \in 0 .. 3
          /\ s5 \in -1 .. 1
      BY DEF Scene!Init
    <2> QED
      BY <2>1, <2>2 DEF SceneGlon
  <1>2. s10 \in 0 .. 3 \cup {99} /\ s12 = [op |-> "B"]
    BY DEF Scene!Init, Scene!None
  <1>3. s7 = FALSE /\ s8 \in BOOLEAN /\ ~s8 /\ s11 \in BOOLEAN /\ ~s11
    BY DEF Scene!Init
  <1>4. s9 \in 0 .. 5 /\ s13 = 0 /\ s1 # "trench"
    BY DEF Scene!Init
  <1> QED
    BY <1>1, <1>2, <1>3, <1>4 DEF SceneDrawn

(* Each picture the program sends starts and stops the sounds it should.    *)
LEMMA SceneKeeps ==
  ASSUME Scene!Inv, Scene!Next
  PROVE  Scene!Inv'
  <1>1. SceneGlon /\ SceneDrawn
    BY SceneWhole
  <1> SUFFICES (SceneGlon /\ SceneDrawn)'
    BY SceneWholeNext
  <1>2. /\ s1 \in {"forest", "cave", "trench"} /\ s2 \in BOOLEAN /\ s3 \in 0 .. 5
        /\ s4 \in 0 .. 3 /\ s5 \in -1 .. 1 /\ s6 \in BOOLEAN /\ (~s2 => s3 = 0)
        /\ (s7 => s1 = "trench") /\ (~s7 /\ s1 = "trench" => s3 = 0)
        /\ (s8 => s3 < 4 /\ s5 > 0) /\ s7 \in BOOLEAN
    BY <1>1 DEF SceneGlon, SceneDrawn
  <1>3. CASE Scene!Walk
    <2>1. ~s7 /\ ~s8 /\ s6' = s6
      BY <1>1, <1>2, <1>3 DEF Scene!Walk, SceneDrawn
    <2>2. CASE Scene!Becomes("cave", FALSE, 0, 0, s5)
      <3>1. /\ s1' = "cave" /\ s2' \in BOOLEAN /\ ~s2' /\ s3' = 0 /\ s4' = 0 /\ s5' = s5
            /\ Scene!drawScript(Scene!Frame(s1', s3', s4', s5'))
        BY <2>2, SceneMoves
      <3>2. s3' \in 0 .. 5 /\ s4' \in 0 .. 3
        BY <3>1
      <3> QED
        BY <1>1, <1>2, <2>1, <3>1, <3>2, SceneBecomes
    <2>3. ASSUME NEW facing \in {-1, 1}, Scene!Becomes("trench", FALSE, 0, 1, facing)
          PROVE  (SceneGlon /\ SceneDrawn)'
      <3>1. /\ s1' = "trench" /\ s2' \in BOOLEAN /\ ~s2' /\ s3' = 0 /\ s4' = 1 /\ s5' = facing
            /\ Scene!drawScript(Scene!Frame(s1', s3', s4', s5'))
        BY <2>3, SceneMoves
      <3>2. s5' \in -1 .. 1 /\ s3' \in 0 .. 5 /\ s4' \in 0 .. 3
        BY <2>3, <3>1
      <3> QED
        BY <1>1, <1>2, <2>1, <3>1, <3>2, SceneBecomes
    <2> QED
      BY <1>3, <2>2, <2>3 DEF Scene!Walk
  <1>4. CASE Scene!Enter
    <2>1. /\ s1' = "trench" /\ s2' = TRUE /\ s3' = 0 /\ s4' = 3 /\ s5' = 0 /\ s6' = s6 /\ s3 = 0
          /\ Scene!drawScript(Scene!Frame(s1', s3', s4', s5'))
      BY <1>2, <1>4, SceneMoves DEF Scene!Enter, Scene!SHIELD
    <2> QED
      BY <1>1, <1>2, <2>1, SceneBecomes
  <1>5. ASSUME NEW hit \in BOOLEAN, NEW next \in 0 .. 3, NEW b \in {0, 1},
               Scene!Fly(hit, next, b)
        PROVE  (SceneGlon /\ SceneDrawn)'
    <2> DEFINE left == IF hit /\ s4 > 0 THEN s4 - 1 ELSE s4
               failed == hit /\ left = 0 /\ next = s3
               p == IF failed THEN 3 ELSE next
    <2>1. /\ s3 \in {0, 1} /\ s6' = s6 /\ Scene!Becomes("trench", TRUE, p, left, b)
      BY <1>5 DEF Scene!Fly
    <2>2. p \in 0 .. 3 /\ left \in 0 .. 3
      BY <1>2, <1>5
    <2> HIDE DEF p, left
    <2>3. /\ s1' = "trench" /\ s2' = TRUE /\ s3' = p /\ s4' = left /\ s5' = b
          /\ Scene!drawScript(Scene!Frame(s1', s3', s4', s5'))
      BY <2>1, SceneMoves
    <2>4. p \in 0 .. 5 /\ b \in -1 .. 1 /\ b >= 0 /\ p < 4 /\ ~(s3 >= 4)
      BY <1>5, <2>1, <2>2
    <2> QED
      BY <1>1, <1>2, <2>1, <2>2, <2>3, <2>4, SceneBecomes
  <1>6. CASE Scene!Freeze
    <2> DEFINE p == IF s3 < 4 THEN s3 + 2 ELSE s3
    <2>1. /\ s1 = "trench" /\ s3 >= 2 /\ s6' = s6 /\ Scene!Becomes("trench", TRUE, p, s4, s5)
      BY <1>6 DEF Scene!Freeze
    <2>2. p \in 0 .. 5 /\ p >= 4
      BY <1>2, <2>1
    <2> HIDE DEF p
    <2>3. /\ s1' = "trench" /\ s2' = TRUE /\ s3' = p /\ s4' = s4 /\ s5' = s5
          /\ Scene!drawScript(Scene!Frame(s1', s3', s4', s5'))
      BY <2>1, SceneMoves
    <2>4. s7
      BY <1>2, <2>1
    <2> QED
      BY <1>1, <1>2, <2>1, <2>2, <2>3, <2>4, SceneBecomes
  <1>7. CASE Scene!Exit
    <2> DEFINE m == IF s3 = 4 THEN "forest" ELSE "cave"
    <2>1. s6' = s6 /\ Scene!Becomes(m, FALSE, 0, 0, s5)
      BY <1>7 DEF Scene!Exit
    <2>2. m \in {"forest", "cave", "trench"} /\ m # "trench"
      OBVIOUS
    <2> HIDE DEF m
    <2>3. /\ s1' = m /\ s2' \in BOOLEAN /\ ~s2' /\ s3' = 0 /\ s4' = 0 /\ s5' = s5
          /\ Scene!drawScript(Scene!Frame(s1', s3', s4', s5'))
      BY <2>1, SceneMoves
    <2>4. s3' \in 0 .. 5 /\ s4' \in 0 .. 3
      BY <2>3
    <2> QED
      BY <1>1, <1>2, <2>1, <2>2, <2>3, <2>4, SceneBecomes
  <1>8. CASE Scene!Event
    <2>1. /\ UNCHANGED <<s1, s2, s3, s4, s5, s6>>
          /\ Scene!drawScript(Scene!Frame(s1', s3', s4', s5'))
      BY <1>8 DEF Scene!Event, Scene!glon
    <2>2. s1 = "trench" => (~s7 => s3 < 4) /\ (s8 => s5 >= 0 \/ s3 >= 4)
      BY <1>2
    <2> QED
      BY <1>1, <1>2, <2>1, <2>2, SceneBecomes
  <1>9. CASE Scene!Redraw
    <2>1. s7 /\ UNCHANGED <<s1, s2, s3, s4, s5, s6>> /\ Scene!drawScript(s12)
      BY <1>9 DEF Scene!Redraw, Scene!glon
    <2>2. s1 = "trench" /\ s12 = SceneFrame(s3, s4, s5)
      BY <1>1, <2>1 DEF SceneDrawn
    <2>3. Scene!drawScript(Scene!Frame(s1', s3', s4', s5'))
      BY <2>1, <2>2 DEF Scene!Frame, SceneFrame
    <2>4. s8 => s5 >= 0 \/ s3 >= 4
      BY <1>2
    <2> QED
      BY <1>1, <1>2, <2>1, <2>3, <2>4, SceneBecomes
  <1>10. CASE Scene!Gesture
    BY <1>1, <1>10 DEF Scene!Gesture, Scene!glon, Scene!host, SceneGlon, SceneDrawn, SceneFrame
  <1>11. ASSUME NEW helmet \in BOOLEAN, Scene!Restart(helmet)
         PROVE  (SceneGlon /\ SceneDrawn)'
    <2>1. /\ s1' \in {"trench", "forest"} /\ s2' = helmet /\ s3' = 0 /\ s4' \in {0, 3}
          /\ s5' \in {0, 1} /\ s6' = s6 /\ Scene!drawScript(Scene!None)
      BY <1>11 DEF Scene!Restart, Scene!SHIELD
    <2>2. /\ s7' = FALSE /\ s12' = [op |-> "B"] /\ ~s8' /\ ~s11' /\ s13' = 0
          /\ s8' \in BOOLEAN /\ s11' \in BOOLEAN
          /\ s9' \in 0 .. 5 /\ s10' \in 0 .. 3 \cup {99}
      BY <1>1, <2>1, SceneBlank
    <2> QED
      BY <1>2, <1>11, <2>1, <2>2 DEF SceneGlon, SceneDrawn
  <1> QED
    BY <1>3, <1>4, <1>5, <1>6, <1>7, <1>8, <1>9, <1>10, <1>11 DEF Scene!Next

(* A step of no component leaves Kaka's scene as it is.                     *)
LEMMA SceneStays ==
  ASSUME Scene!Inv, UNCHANGED vars
  PROVE  Scene!Inv'
  <1>1. (SceneGlon /\ SceneDrawn)'
    BY SceneWhole DEF SceneGlon, SceneDrawn, SceneFrame, vars
  <1> QED
    BY <1>1, SceneWholeNext

-----------------------------------------------------------------------------
(* The missions.                                                            *)

(* What a hit does, in a mission with the shields, reason, guard and phase   *)
(* of s.                                                                    *)
LEMMA MissionHit ==
  ASSUME NEW s \in [phase : 0 .. 5, shield : 0 .. 3, why : 0 .. 7, guard : 0 .. GUARD],
         NEW r \in 0 .. 7
  PROVE  LET h == Mission!fighterHit(s, r)
         IN  /\ h \in [phase : 0 .. 5, shield : 0 .. 3, why : 0 .. 7, guard : 0 .. GUARD]
             /\ h = s \/ /\ r > 0 /\ s.guard = 0 /\ h.why = r
                         /\ s.shield > 0 => h.shield = s.shield - 1 /\ h.guard = GUARD
                         /\ s.shield = 0 => h.shield = 0
                         /\ h.phase = IF h.shield < 1 THEN 3 ELSE s.phase
  <1> DEFINE left == IF s.shield > 0 THEN s.shield - 1 ELSE 0
  <1>1. CASE r = 0 \/ s.guard > 0
    BY <1>1 DEF Mission!fighterHit
  <1>2. CASE r > 0 /\ s.guard = 0
    <2>1. left \in 0 .. 3 /\ (s.shield > 0 => left = s.shield - 1) /\ (s.shield = 0 => left = 0)
      OBVIOUS
    <2>2. Mission!fighterHit(s, r) =
            [s EXCEPT !.why = r, !.shield = left, !.guard = IF s.shield > 0 THEN GUARD ELSE 0,
                      !.phase = IF left < 1 THEN 3 ELSE s.phase]
      BY <1>2, MissionAssumption DEF Mission!fighterHit
    <2> HIDE DEF left
    <2>3. (IF s.shield > 0 THEN GUARD ELSE 0) \in 0 .. GUARD
      BY MissionAssumption
    <2>4. (IF left < 1 THEN 3 ELSE s.phase) \in 0 .. 5
      OBVIOUS
    <2>5. /\ Mission!fighterHit(s, r).why = r /\ Mission!fighterHit(s, r).shield = left
          /\ Mission!fighterHit(s, r).guard = IF s.shield > 0 THEN GUARD ELSE 0
          /\ Mission!fighterHit(s, r).phase = IF left < 1 THEN 3 ELSE s.phase
      BY <2>2
    <2>6. Mission!fighterHit(s, r) \in [phase : 0 .. 5, shield : 0 .. 3, why : 0 .. 7, guard : 0 .. GUARD]
      BY <2>1, <2>2, <2>3, <2>4
    <2> QED
      BY <1>2, <2>1, <2>5, <2>6
  <1> QED
    BY <1>1, <1>2, MissionAssumption

(* What is assumed of the constants of a mission.                           *)
LEMMA MissionBounds ==
  /\ LAST \in Nat /\ LAST >= 1 /\ TARGET \in Nat /\ STRAY \in Nat /\ STRAY >= 1
  /\ HOLD \in Nat /\ COOL \in Nat /\ ESCAPE \in Nat /\ ESCAPE >= 2 /\ GUARD \in Nat /\ GUARD >= 2
  <1>1. \A n \in Nat \ {0} : n \in Nat /\ n >= 1
    OBVIOUS
  <1>2. \A n \in Nat \ {0, 1} : n \in Nat /\ n >= 2
    OBVIOUS
  <1> QED
    BY <1>1, <1>2, MissionAssumption

(* HITS / ACCURACY.                                                         *)
LEMMA MissionAccuracy ==
  ASSUME s6 \in Nat, s7 \in Nat, s7 <= s6
  PROVE  Mission!Accuracy <= 100
  <1>1. CASE s6 > 0
    <2> DEFINE a == 200 * s7 + s6
               b == 2 * s6
               q == a \div b
    <2>1. a \in Nat /\ b \in Nat /\ b > 0 /\ a < 101 * b
      BY <1>1
    <2>2. q \in Int /\ b * q <= a
      BY <2>1, Z3
    <2>3. q <= 100
      <3> SUFFICES ASSUME q >= 101 PROVE FALSE
        BY <2>2
      <3> HIDE DEF a, b, q
      <3>1. b * q >= b * 101
        BY <2>1, <2>2
      <3> QED
        BY <2>1, <2>2, <3>1
    <2> QED
      BY <1>1, <2>3 DEF Mission!Accuracy
  <1> QED
    BY <1>1 DEF Mission!Accuracy

(* The cause a debrief names.                                               *)
LEMMA MissionCause ==
  ASSUME s4 \in 0 .. 7, s3 \in 0 .. 3, s3 = 0 => s4 > 0
  PROVE  /\ Mission!Cause = "ABANDONED" <=> s4 = 6
         /\ Mission!Cause = "TARGET NOT DESTROYED" <=> s4 # 6 /\ s3 > 0
         /\ s4 # 6 /\ s3 = 0 => Mission!Cause = Mission!FWHY[s4]
  <1>1. s4 \in {0, 1, 2, 3, 4, 5, 6, 7} /\ (s3 > 0 \/ s3 = 0)
    OBVIOUS
  <1>2. /\ Mission!FWHY[1] = "LEFT WALL" /\ Mission!FWHY[2] = "RIGHT WALL"
        /\ Mission!FWHY[3] = "GATE" /\ Mission!FWHY[4] = "RAMMED"
        /\ Mission!FWHY[5] = "FIGHTER FIRE" /\ Mission!FWHY[6] = "ABANDONED"
        /\ Mission!FWHY[7] = "SURFACE"
    BY DEF Mission!FWHY
  <1>3. s4 # 0 => /\ Mission!FWHY[s4] # "TARGET NOT DESTROYED"
                  /\ Mission!FWHY[s4] = "ABANDONED" <=> s4 = 6
    BY <1>1, <1>2
  <1>4. Mission!Cause = IF s4 = 6 THEN "ABANDONED"
                        ELSE IF s3 > 0 THEN "TARGET NOT DESTROYED" ELSE Mission!FWHY[s4]
    BY <1>2 DEF Mission!Cause, Mission!ABANDONED
  <1>5. s3 = 0 => ~(s3 > 0) /\ s4 # 0
    OBVIOUS
  <1>6. CASE s3 > 0
    <2>1. s3 # 0
      BY <1>6
    <2>2. Mission!Cause = IF s4 = 6 THEN "ABANDONED" ELSE "TARGET NOT DESTROYED"
      BY <1>4, <1>6
    <2> QED
      BY <1>6, <2>1, <2>2, Zenon
  <1>7. CASE s3 = 0
    <2>1. Mission!Cause = IF s4 = 6 THEN "ABANDONED" ELSE Mission!FWHY[s4]
      BY <1>4, <1>5, <1>7
    <2> QED
      BY <1>3, <1>5, <1>7, <2>1, Zenon
  <1> QED
    BY <1>1, <1>6, <1>7

(* The invariant without its two first parts.                               *)
MissionRest ==
    /\ s2 = 0 => s3 > 0 /\ s10 <= STRAY
    /\ s2 = 1 => s9 > 0 /\ s10 = 0 /\ (s3 = 0 => s8 > 0)
    /\ s2 \in {1, 2, 4} => s13 = "delivered"
    /\ s2 >= 4 /\ s10 > 0 => s14
    /\ s4 # 6 => s4 = s12
    /\ s4 = 6 => s2 \in {3, 5} /\ s13 = "abandoned"
    /\ s3 < 3 => s12 > 0
    /\ s13 = "abandoned" => s2 \in {3, 5} /\ (s4 = 6 \/ s12 > 0)
    /\ s2 \in {3, 5} /\ s13 = "delivered" => s1 = LAST \/ s3 = 0
    /\ s6 < s1 /\ s7 <= s6

(* The invariant of a mission is these parts.                               *)
LEMMA MissionWhole == Mission!Inv <=> Mission!TypeOK /\ MissionRest
  <1> SUFFICES ASSUME Mission!TypeOK, MissionRest PROVE Mission!DebriefTellsTheEnd
    BY DEF Mission!Inv, MissionRest, Mission!ABANDONED, Mission!SHIELD
  <1>1. /\ s2 \in 0 .. 5 /\ s4 \in 0 .. 7 /\ s3 \in 0 .. 3 /\ s6 \in Nat /\ s7 \in Nat /\ s12 \in 0 .. 7
    BY MissionBounds DEF Mission!TypeOK, Mission!SHIELD
  <1>2. /\ s2 = 4 => s13 = "delivered"
        /\ s4 # 6 => s4 = s12
        /\ s4 = 6 => s13 = "abandoned"
        /\ s3 < 3 => s12 > 0
        /\ s13 = "abandoned" => s4 = 6 \/ s12 > 0
        /\ s2 = 5 /\ s13 = "delivered" => s1 = LAST \/ s3 = 0
        /\ s7 <= s6
    BY DEF MissionRest
  <1>3. Mission!Accuracy <= 100
    BY <1>1, <1>2, MissionAccuracy
  <1>4. s3 = 0 => s4 > 0
    BY <1>1, <1>2
  <1>5. /\ Mission!Cause = "ABANDONED" <=> s4 = 6
        /\ Mission!Cause = "TARGET NOT DESTROYED" <=> s4 # 6 /\ s3 > 0
        /\ s4 # 6 /\ s3 = 0 => Mission!Cause = Mission!FWHY[s4]
    BY <1>1, <1>4, MissionCause
  <1>6. s3 = 0 \/ s3 > 0
    BY <1>1
  <1>7. Mission!Cause = "ABANDONED" => s13 = "abandoned"
    BY <1>2, <1>5
  <1>8. s13 = "abandoned" /\ Mission!Cause # "ABANDONED" =>
          s12 > 0 /\ Mission!Cause \in {"TARGET NOT DESTROYED", Mission!FWHY[s12]}
    BY <1>2, <1>5, <1>6
  <1>9. Mission!Cause \notin {"ABANDONED", "TARGET NOT DESTROYED"} =>
          s3 = 0 /\ s12 > 0 /\ Mission!Cause = Mission!FWHY[s12]
    <2>1. s3 = 0 => s12 > 0
      BY <1>2
    <2> QED
      BY <1>2, <1>5, <1>6, <2>1
  <1>10. s2 = 5 /\ Mission!Cause = "TARGET NOT DESTROYED" => s3 > 0 /\ (s13 = "delivered" => s1 = LAST)
    <2>1. ~(s3 = 0 /\ s3 > 0)
      BY <1>1
    <2> QED
      BY <1>2, <1>5, <2>1
  <1> QED
    BY <1>2, <1>3, <1>7, <1>8, <1>9, <1>10 DEF Mission!DebriefTellsTheEnd

(* A mission begins with its shields, and nothing that ended it.            *)
LEMMA MissionStarts == Mission!Init => Mission!Inv
  <1> SUFFICES ASSUME Mission!Init PROVE Mission!TypeOK /\ MissionRest
    BY MissionWhole
  <1>1. /\ s1 = 1 /\ s2 = 0 /\ s3 = 3 /\ s4 = 0 /\ s5 = 1 /\ s6 = 0 /\ s7 = 0 /\ s8 = GUARD
        /\ s9 = 0 /\ s10 = 0 /\ s11 = "aligned" /\ s12 = 0 /\ s13 = "none" /\ s14 = FALSE
    BY DEF Mission!Init, Mission!SHIELD
  <1>2. /\ s1 \in 0 .. LAST /\ s6 \in 0 .. LAST /\ s7 \in 0 .. LAST /\ s8 \in 0 .. GUARD
        /\ s9 \in 0 .. ESCAPE + HOLD + COOL /\ s10 \in 0 .. STRAY + 1
    BY <1>1, MissionBounds
  <1>3. /\ s2 \in 0 .. 5 /\ s3 \in 0 .. 3 /\ s4 \in 0 .. 7 /\ s5 \in 0 .. 1 /\ s12 \in 0 .. 7
        /\ s3 > 0 /\ s10 <= STRAY /\ s6 < s1 /\ s7 <= s6 /\ ~(s2 >= 4) /\ ~(s3 < 3)
    BY <1>1, MissionBounds
  <1>4. s14 \in BOOLEAN
    BY <1>1
  <1>5. Mission!TypeOK
    BY <1>1, <1>2, <1>3, <1>4 DEF Mission!TypeOK, Mission!SHIELD, Mission!Places
  <1> QED
    BY <1>1, <1>3, <1>5 DEF MissionRest

(* The hits of a tick: by the walls, by a foe, by a gate.  The first one     *)
(* guards the ship against the others.                                      *)
MissionState == [phase : 0 .. 5, shield : 0 .. 3, why : 0 .. 7, guard : 0 .. GUARD]
(* A tick spent too far away.                                               *)
MissionAway(h, n) == IF n > STRAY THEN [h EXCEPT !.why = Mission!ABANDONED, !.phase = 3] ELSE h
(* All that can hit in a tick.                                              *)
MissionTick(s, wall, n, foe, g) ==
    Mission!fighterHit(Mission!fighterHit(MissionAway(Mission!fighterHit(s, wall), n), foe), g)

(* One tick costs at most one shield, and leaves a reason when it ends the  *)
(* mission.                                                                 *)
LEMMA MissionHits ==
  ASSUME NEW s \in MissionState, s.phase = 0, s.shield > 0,
         NEW wall \in Mission!Hits, NEW n \in Nat, NEW foe \in {0, 4, 5}, NEW g \in {0, 3}
  PROVE  LET h == MissionTick(s, wall, n, foe, g)
         IN  /\ h \in MissionState
             /\ \/ /\ h.shield = s.shield /\ h.guard = s.guard
                   /\ h.why = IF n > STRAY THEN 6 ELSE s.why
                   /\ h.phase = IF n > STRAY THEN 3 ELSE 0
                \/ /\ h.shield = s.shield - 1 /\ h.guard = GUARD
                   /\ h.phase = IF n > STRAY \/ h.shield < 1 THEN 3 ELSE 0
                   /\ \/ h.why \in {1, 2, 3, 4, 5, 7}
                      \/ h.why = 6 /\ n > STRAY /\ wall > 0
  <1> DEFINE h1 == Mission!fighterHit(s, wall)
             h2 == MissionAway(h1, n)
             h3 == Mission!fighterHit(h2, foe)
             h4 == Mission!fighterHit(h3, g)
  <1>1. wall \in 0 .. 7 /\ foe \in 0 .. 7 /\ g \in 0 .. 7 /\ wall \in {0, 1, 2, 7}
    BY DEF Mission!Hits
  <1>2. h1 \in MissionState /\ \/ h1 = s
                               \/ /\ wall > 0 /\ h1.why = wall /\ h1.shield = s.shield - 1
                                  /\ h1.guard = GUARD /\ h1.phase = IF h1.shield < 1 THEN 3 ELSE 0
    BY <1>1, MissionHit DEF MissionState
  <1> HIDE DEF h1
  <1>3. /\ h2 \in MissionState /\ h2.shield = h1.shield /\ h2.guard = h1.guard
        /\ h2.why = IF n > STRAY THEN 6 ELSE h1.why
        /\ h2.phase = IF n > STRAY THEN 3 ELSE h1.phase
    <2>1. CASE n > STRAY
      <3>1. h2 = [h1 EXCEPT !.why = 6, !.phase = 3]
        BY <2>1 DEF MissionAway, Mission!ABANDONED
      <3>2. 6 \in 0 .. 7 /\ 3 \in 0 .. 5
        OBVIOUS
      <3>3. h2 \in MissionState
        BY <1>2, <3>1, <3>2 DEF MissionState
      <3>4. h2.why = 6 /\ h2.phase = 3 /\ h2.shield = h1.shield /\ h2.guard = h1.guard
        BY <1>2, <3>1 DEF MissionState
      <3> QED
        BY <2>1, <3>3, <3>4
    <2>2. CASE ~(n > STRAY)
      <3>1. h2 = h1
        BY <2>2 DEF MissionAway
      <3> QED
        BY <1>2, <2>2, <3>1
    <2> QED
      BY <2>1, <2>2
  <1> HIDE DEF h2
  <1>4. h3 \in MissionState /\ \/ h3 = h2
                               \/ /\ foe > 0 /\ h2.guard = 0 /\ h3.why = foe
                                  /\ h2.shield > 0 => h3.shield = h2.shield - 1 /\ h3.guard = GUARD
                                  /\ h2.shield = 0 => h3.shield = 0
                                  /\ h3.phase = IF h3.shield < 1 THEN 3 ELSE h2.phase
    BY <1>1, <1>3, MissionHit DEF MissionState
  <1> HIDE DEF h3
  <1>5. h4 \in MissionState /\ \/ h4 = h3
                               \/ /\ g > 0 /\ h3.guard = 0 /\ h4.why = g
                                  /\ h3.shield > 0 => h4.shield = h3.shield - 1 /\ h4.guard = GUARD
                                  /\ h3.shield = 0 => h4.shield = 0
                                  /\ h4.phase = IF h4.shield < 1 THEN 3 ELSE h3.phase
    BY <1>1, <1>4, MissionHit DEF MissionState
  <1>6. MissionTick(s, wall, n, foe, g) = h4
    BY DEF MissionTick, h1, h2, h3
  <1> HIDE DEF h4
  <1>7. GUARD > 0 /\ GUARD \in Nat
    BY MissionBounds
  <1>8. /\ s.shield \in 1 .. 3 /\ s.guard \in Nat /\ h1.shield \in 0 .. 3 /\ h2.shield \in 0 .. 3
        /\ h3.shield \in 0 .. 3 /\ h4.shield \in 0 .. 3
        /\ h1.guard \in Nat /\ h2.guard \in Nat /\ h3.guard \in Nat
    BY <1>2, <1>3, <1>4, <1>5, <1>7 DEF MissionState
  <1> DEFINE Free == /\ h4.shield = s.shield /\ h4.guard = s.guard
                     /\ h4.why = IF n > STRAY THEN 6 ELSE s.why
                     /\ h4.phase = IF n > STRAY THEN 3 ELSE 0
             Reason == \/ h4.why \in {1, 2, 3, 4, 5, 7}
                       \/ h4.why = 6 /\ n > STRAY /\ wall > 0
             Taken == /\ h4.shield = s.shield - 1 /\ h4.guard = GUARD
                      /\ h4.phase = IF n > STRAY \/ h4.shield < 1 THEN 3 ELSE 0
                      /\ Reason
  <1>9. CASE h1 = s
    <2>1. h2.phase = IF n > STRAY THEN 3 ELSE 0
      BY <1>3, <1>9
    <2>2. ASSUME h3 = h2, h4 = h3 PROVE Free
      BY <1>3, <1>9, <2>1, <2>2
    <2>3. ASSUME h3 = h2, h4 # h3 PROVE Taken
      <3>1. g = 3 /\ h4.why = 3 /\ h4.shield = s.shield - 1 /\ h4.guard = GUARD
            /\ h4.phase = IF h4.shield < 1 THEN 3 ELSE h2.phase
        BY <1>1, <1>3, <1>5, <1>8, <1>9, <2>3
      <3> QED
        BY <2>1, <3>1
    <2>4. ASSUME h3 # h2 PROVE Taken
      <3>1. foe \in {4, 5} /\ h3.why = foe /\ h3.shield = s.shield - 1 /\ h3.guard = GUARD
            /\ h3.phase = IF h3.shield < 1 THEN 3 ELSE h2.phase
        BY <1>1, <1>3, <1>4, <1>8, <1>9, <2>4
      <3>2. h4 = h3
        BY <1>5, <1>7, <3>1
      <3> QED
        BY <2>1, <3>1, <3>2
    <2>5. Free \/ Taken
      BY <2>2, <2>3, <2>4
    <2> QED
      BY <1>5, <1>6, <2>5
  <1>10. CASE h1 # s
    <2>1. h2 = h3 /\ h4 = h3
      BY <1>2, <1>3, <1>4, <1>5, <1>7, <1>8, <1>10
    <2>2. h4.shield = s.shield - 1 /\ h4.guard = GUARD
      BY <1>2, <1>3, <1>10, <2>1
    <2>3. h4.phase = IF n > STRAY \/ h4.shield < 1 THEN 3 ELSE 0
      BY <1>2, <1>3, <1>10, <2>1
    <2>4. wall > 0 /\ wall \in {1, 2, 7}
      BY <1>1, <1>2, <1>10
    <2>5. h4.why = IF n > STRAY THEN 6 ELSE wall
      BY <1>2, <1>3, <1>10, <2>1
    <2>6. Reason
      BY <2>4, <2>5
    <2>7. Taken
      BY <2>2, <2>3, <2>6
    <2> QED
      BY <1>5, <1>6, <2>7
  <1> QED
    BY <1>9, <1>10

(* What a tick of the flight does, in terms of its hits.                    *)
LEMMA MissionRun ==
  ASSUME Mission!Inv, NEW p \in Mission!Places, NEW wall \in Mission!Hits, NEW foe \in {0, 4, 5},
         NEW gate \in BOOLEAN, NEW rock \in BOOLEAN, NEW downs \in BOOLEAN, NEW drop \in BOOLEAN,
         Mission!Run(p, wall, foe, gate, rock, downs, drop)
  PROVE  /\ Mission!TypeOK' /\ MissionRest'
         /\ s2 = 0 /\ s2' < 4
         /\ s13' = "abandoned" => s10 = STRAY
         /\ s2' = 1 => s10' = 0 /\ (s1 >= TARGET \/ s1' = TARGET)
  <1> DEFINE stray == IF p = "far" THEN s10 + 1 ELSE 0
             g == IF gate THEN 3 ELSE 0
             s == [phase |-> 0, shield |-> s3, why |-> s4, guard |-> s8]
             h == MissionTick(s, wall, stray, foe, g)
             shoots == rock /\ s9 < 1
             drops == drop /\ s5 = 1
             hits == drops /\ p = "aligned" /\ s1' >= TARGET
             clock1 == IF hits THEN ESCAPE ELSE IF shoots THEN COOL ELSE s9
  <1>1. /\ s2 = 0 /\ s1 < LAST /\ s1' = s1 + 1 /\ s11' = p /\ s14' = s14
        /\ s10' = stray
        /\ s6' = s6 + (IF shoots THEN 1 ELSE 0)
        /\ s7' = s7 + (IF shoots /\ downs THEN 1 ELSE 0)
        /\ s5' = IF drops THEN 0 ELSE s5
        /\ s3' = h.shield /\ s4' = h.why
        /\ s2' = IF s1' >= LAST THEN 3 ELSE IF hits THEN 1 ELSE h.phase
        /\ s8' = IF h.guard > 0 THEN h.guard - 1 ELSE 0
        /\ s9' = IF clock1 > 0 THEN clock1 - 1 ELSE 0
        /\ s12' = IF h.shield < s3 THEN IF h.why = 6 THEN wall ELSE h.why ELSE s12
        /\ s13' = CASE hits -> "delivered"
                    [] ~hits /\ stray > STRAY -> "abandoned"
                    [] ~hits /\ stray <= STRAY /\ h.phase = 3 -> "shield"
                    [] OTHER -> IF s1' >= LAST THEN "late" ELSE "none"
    BY DEF Mission!Run, MissionTick, MissionAway, Mission!ABANDONED
  <1> HIDE DEF h, s
  <1>2. /\ s1 \in 0 .. LAST /\ s3 \in 0 .. 3 /\ s4 \in 0 .. 7 /\ s5 \in 0 .. 1
        /\ s6 \in 0 .. LAST /\ s7 \in 0 .. LAST /\ s8 \in 0 .. GUARD
        /\ s9 \in 0 .. ESCAPE + HOLD + COOL /\ s10 \in 0 .. STRAY + 1 /\ s12 \in 0 .. 7
    BY DEF Mission!Inv, Mission!TypeOK, Mission!SHIELD
  <1>3. s14 \in BOOLEAN
    BY DEF Mission!Inv, Mission!TypeOK
  <1>4. /\ s3 > 0 /\ s10 <= STRAY /\ s4 # 6 /\ s4 = s12 /\ (s3 < 3 => s12 > 0)
        /\ s6 < s1 /\ s7 <= s6
    BY <1>1, MissionWhole DEF MissionRest
  <1>5. stray \in 0 .. STRAY + 1 /\ stray \in Nat /\ (stray > STRAY => s10 = STRAY)
    BY <1>2, <1>4, MissionBounds
  <1>6. hits => p = "aligned" /\ s1' >= TARGET /\ stray = 0
    OBVIOUS
  <1>7. s \in MissionState /\ s.phase = 0 /\ s.shield = s3 /\ s.why = s4 /\ s.guard = s8
    BY <1>2 DEF s, MissionState
  <1>8. g \in {0, 3}
    OBVIOUS
  <1>9. /\ h \in MissionState
        /\ \/ /\ h.shield = s3 /\ h.guard = s8
              /\ h.why = IF stray > STRAY THEN 6 ELSE s4
              /\ h.phase = IF stray > STRAY THEN 3 ELSE 0
           \/ /\ h.shield = s3 - 1 /\ h.guard = GUARD
              /\ h.phase = IF stray > STRAY \/ h.shield < 1 THEN 3 ELSE 0
              /\ \/ h.why \in {1, 2, 3, 4, 5, 7}
                 \/ h.why = 6 /\ stray > STRAY /\ wall > 0
    <2> HIDE DEF g, stray
    <2> QED
      BY <1>4, <1>5, <1>7, <1>8, MissionHits, SMTT(30) DEF h
  <1>10. h.shield \in 0 .. 3 /\ h.guard \in 0 .. GUARD /\ h.why \in 0 .. 7 /\ wall \in 0 .. 7
    BY <1>9 DEF MissionState, Mission!Hits
  <1>11. /\ s5' \in 0 .. 1
         /\ \/ s6' = s6 /\ s7' = s7
            \/ s6' = s6 + 1 /\ s7' \in {s7, s7 + 1}
    <2>1. s5' = s5 \/ s5' = 0
      BY <1>1
    <2>2. CASE shoots /\ downs
      BY <1>1, <1>2, <2>1, <2>2
    <2>3. CASE shoots /\ ~downs
      <3>1. s6' = s6 + 1 /\ s7' = s7 + 0
        BY <1>1, <2>3
      <3> QED
        BY <1>2, <2>1, <3>1
    <2>4. CASE ~shoots
      <3>1. s6' = s6 + 0 /\ s7' = s7 + 0
        BY <1>1, <2>4
      <3> QED
        BY <1>2, <2>1, <3>1
    <2> QED
      BY <2>2, <2>3, <2>4
  <1>12. s9' \in 0 .. ESCAPE + HOLD + COOL /\ (hits => s9' > 0)
    <2>1. clock1 \in 0 .. ESCAPE + HOLD + COOL
      BY <1>2, MissionBounds
    <2>2. hits => clock1 = ESCAPE
      OBVIOUS
    <2> HIDE DEF clock1, hits
    <2> QED
      BY <1>1, <2>1, <2>2, MissionBounds
  <1> HIDE DEF hits, stray, g
  <1>13. /\ s1' \in 0 .. LAST /\ s3' \in 0 .. 3 /\ s4' \in 0 .. 7 /\ s6' \in 0 .. LAST /\ s7' \in 0 .. LAST
         /\ s8' \in 0 .. GUARD /\ s10' \in 0 .. STRAY + 1 /\ s12' \in 0 .. 7
         /\ s6' < s1' /\ s7' <= s6'
    <2>1. s1' \in 0 .. LAST /\ s6' \in 0 .. LAST /\ s7' \in 0 .. LAST /\ s6' < s1' /\ s7' <= s6'
      BY <1>1, <1>2, <1>4, <1>11, MissionBounds
    <2>2. s8' \in 0 .. GUARD
      BY <1>1, <1>10, MissionBounds
    <2>3. s12' \in 0 .. 7
      BY <1>1, <1>2, <1>10
    <2> QED
      BY <1>1, <1>5, <1>10, <2>1, <2>2, <2>3
  <1>14. s2' \in {0, 1, 3} /\ (s2' = 1 <=> hits /\ ~(s1' >= LAST))
    <2>1. h.phase \in {0, 3}
      BY <1>9
    <2> QED
      BY <1>1, <2>1
  <1>15. s13' \in {"none", "late", "abandoned", "shield", "delivered"}
         /\ (hits <=> s13' = "delivered") /\ (s13' = "abandoned" <=> ~hits /\ stray > STRAY)
    <2>1. CASE hits
      BY <1>1, <2>1
    <2>2. CASE ~hits /\ stray > STRAY
      BY <1>1, <1>5, <2>2, MissionBounds
    <2>3. CASE ~hits /\ ~(stray > STRAY)
      <3>1. s13' \in {"none", "late", "shield"}
        BY <1>1, <2>3
      <3> QED
        BY <2>3, <3>1
    <2> QED
      BY <2>1, <2>2, <2>3
  <1>16. Mission!TypeOK'
    <2>1. s14' \in BOOLEAN
      BY <1>1, <1>3
    <2>2. s2' \in 0 .. 5
      BY <1>14
    <2>3. s13' \in {"none", "late", "abandoned", "shield", "delivered"} /\ s11' \in Mission!Places
      BY <1>1, <1>15
    <2> QED
      BY <1>11, <1>12, <1>13, <2>1, <2>2, <2>3 DEF Mission!TypeOK, Mission!SHIELD, Mission!Places
  <1>17. /\ s4' = 6 => stray > STRAY
         /\ s4' # 6 => s4' = s12'
         /\ s3' < 3 => s12' > 0
         /\ stray > STRAY => h.phase = 3 /\ (s4' = 6 \/ s12' > 0)
         /\ s3' = 0 => s8' > 0
         /\ h.phase = 0 => s3' > 0 /\ stray <= STRAY
    <2>1. CASE h.shield = s3
      <3>1. h.guard = s8 /\ (h.why = IF stray > STRAY THEN 6 ELSE s4)
            /\ h.phase = IF stray > STRAY THEN 3 ELSE 0
        BY <1>2, <1>9, <2>1
      <3>2. s3' = s3 /\ s12' = s12 /\ s4' = h.why
        BY <1>1, <1>2, <2>1
      <3> QED
        BY <1>2, <1>4, <1>5, <3>1, <3>2, MissionBounds
    <2>2. CASE h.shield = s3 - 1
      <3>1. /\ h.guard = GUARD
            /\ h.phase = IF stray > STRAY \/ h.shield < 1 THEN 3 ELSE 0
            /\ h.why \in {1, 2, 3, 4, 5, 7} \/ (h.why = 6 /\ stray > STRAY /\ wall > 0)
        BY <1>2, <1>9, <2>2
      <3>2. s3' = s3 - 1 /\ s4' = h.why /\ s8' = GUARD - 1
            /\ s12' = IF h.why = 6 THEN wall ELSE h.why
        BY <1>1, <1>2, <2>2, <3>1, MissionBounds
      <3> QED
        BY <1>2, <1>4, <1>5, <2>2, <3>1, <3>2, MissionBounds
    <2> QED
      BY <1>9, <2>1, <2>2
  <1>18. hits => ~(stray > STRAY)
    BY <1>6, MissionBounds
  <1>19. s2' = 0 => s3' > 0 /\ s10' <= STRAY
    BY <1>1, <1>14, <1>17
  <1>20. s2' = 1 => s9' > 0 /\ s10' = 0 /\ (s3' = 0 => s8' > 0)
    BY <1>1, <1>6, <1>12, <1>14, <1>17
  <1>21. s2' \in {1, 2, 4} => s13' = "delivered"
    BY <1>14, <1>15
  <1>22. s4' = 6 => s2' \in {3, 5} /\ s13' = "abandoned"
    BY <1>1, <1>15, <1>17, <1>18
  <1>23. s13' = "abandoned" => s2' \in {3, 5} /\ (s4' = 6 \/ s12' > 0)
    BY <1>1, <1>15, <1>17
  <1>24. s2' \in {3, 5} /\ s13' = "delivered" => s1' = LAST \/ s3' = 0
    BY <1>13, <1>14, <1>15, MissionBounds
  <1>25. s2' < 4 /\ ~(s2' >= 4)
    BY <1>14
  <1>26. MissionRest'
    BY <1>13, <1>17, <1>19, <1>20, <1>21, <1>22, <1>23, <1>24, <1>25 DEF MissionRest
  <1>27. s13' = "abandoned" => s10 = STRAY
    BY <1>5, <1>15
  <1>28. s2' = 1 => s1 >= TARGET \/ s1' = TARGET
    BY <1>1, <1>2, <1>6, <1>14, MissionBounds
  <1> QED
    BY <1>1, <1>16, <1>20, <1>25, <1>26, <1>27, <1>28

(* A tick, a hit and a held trigger leave the reason of the end with the    *)
(* end.                                                                     *)
LEMMA MissionKeeps ==
  ASSUME Mission!Inv, Mission!Next
  PROVE  Mission!Inv' /\ Mission!LeavesRested /\ Mission!CueLeads
  <1> DEFINE Goal == Mission!TypeOK' /\ MissionRest' /\ Mission!LeavesRested /\ Mission!CueLeads
  <1>1. /\ s1 \in 0 .. LAST /\ s2 \in 0 .. 5 /\ s3 \in 0 .. 3 /\ s4 \in 0 .. 7 /\ s5 \in 0 .. 1
        /\ s6 \in 0 .. LAST /\ s7 \in 0 .. LAST /\ s8 \in 0 .. GUARD
        /\ s9 \in 0 .. ESCAPE + HOLD + COOL /\ s10 \in 0 .. STRAY + 1
        /\ s11 \in Mission!Places /\ s12 \in 0 .. 7
    BY DEF Mission!Inv, Mission!TypeOK, Mission!SHIELD
  <1>2. s14 \in BOOLEAN /\ s13 \in {"none", "late", "abandoned", "shield", "delivered"}
    BY DEF Mission!Inv, Mission!TypeOK
  <1>3. MissionRest
    BY MissionWhole
  <1>4. ASSUME NEW p \in Mission!Places, NEW wall \in Mission!Hits, NEW foe \in {0, 4, 5},
               NEW gate \in BOOLEAN, NEW rock \in BOOLEAN, NEW downs \in BOOLEAN,
               NEW drop \in BOOLEAN, Mission!Run(p, wall, foe, gate, rock, downs, drop)
        PROVE  Goal
    <2>1. /\ Mission!TypeOK' /\ MissionRest' /\ s2 = 0 /\ s2' < 4
          /\ s13' = "abandoned" => s10 = STRAY
          /\ s2' = 1 => s10' = 0 /\ (s1 >= TARGET \/ s1' = TARGET)
      BY <1>4, MissionRun
    <2>2. Mission!LeavesRested
      BY <2>1 DEF Mission!LeavesRested
    <2>3. s13' = "abandoned" => Mission!Countdown = 0
      BY <2>1, MissionBounds DEF Mission!Countdown
    <2>4. s2' = 1 => Mission!Countdown' = -1
      BY <2>1 DEF Mission!Countdown
    <2>5. s2' = 1 => Mission!TargetCue # "none" \/ s1' = TARGET
      <3> SUFFICES ASSUME s1 >= TARGET PROVE Mission!TargetCue # "none"
        BY <2>1
      <3>1. ~(s1 < TARGET \/ s2 # 0)
        BY <1>1, <2>1, MissionBounds
      <3>2. Mission!TargetCue \in {"DROP BERRIES", "ALIGN + DROP BERRIES", "DESCEND TO DROP"}
        <4>1. CASE s11 = "aligned"
          BY <3>1, <4>1, Zenon DEF Mission!TargetCue
        <4>2. CASE s11 = "trench"
          BY <3>1, <4>2, Zenon DEF Mission!TargetCue
        <4>3. CASE s11 \notin {"aligned", "trench"}
          BY <3>1, <4>3, Zenon DEF Mission!TargetCue
        <4> QED
          BY <4>1, <4>2, <4>3
      <3> QED
        BY <3>2, Zenon
    <2> QED
      BY <2>1, <2>2, <2>3, <2>4, <2>5 DEF Mission!CueLeads
  <1>5. ASSUME NEW p \in Mission!Places, NEW foe \in {0, 4, 5}, Mission!Escape(p, foe)
        PROVE  Goal
    <2> DEFINE s == [phase |-> 1, shield |-> s3, why |-> s4, guard |-> s8]
               h == Mission!fighterHit(s, foe)
    <2>1. /\ s2 = 1 /\ s11' = p /\ s3' = h.shield /\ s4' = h.why /\ s8' = h.guard
          /\ s9' = s9 - 1 /\ s2' = IF s9 - 1 < 1 THEN 2 ELSE h.phase
          /\ s12' = IF h.shield < s3 THEN foe ELSE s12
      BY <1>5 DEF Mission!Escape
    <2>2. UNCHANGED <<s1, s5, s6, s7, s10, s13, s14>>
      BY <1>5 DEF Mission!Escape, Mission!tally
    <2>3. s \in MissionState /\ s.phase = 1 /\ s.shield = s3 /\ s.why = s4 /\ s.guard = s8
      BY <1>1 DEF MissionState
    <2> HIDE DEF s
    <2>4. /\ h \in MissionState
          /\ h = s \/ /\ foe > 0 /\ s8 = 0 /\ h.why = foe
                      /\ s3 > 0 => h.shield = s3 - 1 /\ h.guard = GUARD
                      /\ s3 = 0 => h.shield = 0
                      /\ h.phase = IF h.shield < 1 THEN 3 ELSE 1
      BY <2>3, MissionHit DEF MissionState
    <2> HIDE DEF h
    <2>5. h.shield \in 0 .. 3 /\ h.why \in 0 .. 7 /\ h.guard \in 0 .. GUARD /\ h.phase \in 0 .. 5
      BY <2>4 DEF MissionState
    <2>6. s9 > 0 /\ s10 = 0 /\ (s3 = 0 => s8 > 0) /\ s13 = "delivered" /\ s4 # 6 /\ s4 = s12
          /\ (s3 < 3 => s12 > 0) /\ s6 < s1 /\ s7 <= s6
      BY <1>3, <2>1 DEF MissionRest
    <2>7. foe \in 0 .. 5
      OBVIOUS
    <2>8. \/ h.shield = s3 /\ h.why = s4 /\ h.guard = s8 /\ h.phase = 1 /\ s12' = s12
          \/ /\ h.shield = s3 - 1 /\ h.why = foe /\ foe > 0 /\ h.guard = GUARD /\ s12' = foe
             /\ h.phase = IF h.shield < 1 THEN 3 ELSE 1
      <3>1. CASE h = s
        BY <1>1, <2>1, <2>3, <3>1
      <3>2. CASE h # s
        BY <1>1, <2>1, <2>4, <2>5, <2>6, <3>2
      <3> QED
        BY <3>1, <3>2
    <2>9. /\ s2' \in {1, 2, 3} /\ (s2' = 1 => s9' > 0) /\ (s3' = 0 => s8' > 0)
          /\ (s2' = 3 => s3' = 0)
      BY <1>1, <2>1, <2>5, <2>6, <2>8, MissionBounds
    <2>10. /\ s4' # 6 /\ s4' = s12' /\ (s3' < 3 => s12' > 0)
           /\ s3' \in 0 .. 3 /\ s4' \in 0 .. 7 /\ s8' \in 0 .. GUARD /\ s12' \in 0 .. 7
      BY <1>1, <2>1, <2>5, <2>6, <2>7, <2>8
    <2>11. s9' \in 0 .. ESCAPE + HOLD + COOL
      BY <1>1, <2>1, <2>6, MissionBounds
    <2>12. s2' \in 0 .. 5 /\ ~(s2' >= 4) /\ ~(s2' < 1)
      BY <2>9
    <2>13. Mission!TypeOK'
      BY <1>1, <1>2, <2>1, <2>2, <2>10, <2>11, <2>12 DEF Mission!TypeOK, Mission!SHIELD, Mission!Places
    <2>14. MissionRest'
      BY <2>2, <2>6, <2>9, <2>10, <2>12 DEF MissionRest
    <2>15. Mission!LeavesRested
      BY <2>1 DEF Mission!LeavesRested
    <2>16. Mission!CueLeads
      <3>1. Mission!Countdown' = -1
        BY <2>2, <2>6 DEF Mission!Countdown
      <3> QED
        BY <2>1, <3>1 DEF Mission!CueLeads
    <2> QED
      BY <2>13, <2>14, <2>15, <2>16
  <1>6. ASSUME Mission!Freeze PROVE Goal
    <2>1. /\ s2 \in {2, 3} /\ s2' = s2 + 2 /\ s9' = HOLD /\ s10' = 0 /\ s14' = FALSE
          /\ UNCHANGED <<s1, s3, s4, s5, s6, s7, s8, s11, s12, s13>>
      BY <1>6 DEF Mission!Freeze, Mission!tally
    <2>2. s9' \in 0 .. ESCAPE + HOLD + COOL /\ s10' \in 0 .. STRAY + 1 /\ ~(s10' > 0)
      BY <2>1, MissionBounds
    <2>3. \/ s2 = 2 /\ s2' = 4
          \/ s2 = 3 /\ s2' = 5
      BY <2>1
    <2>4. s14' \in BOOLEAN
      BY <2>1
    <2>5. Mission!TypeOK'
      <3>1. s2' \in 0 .. 5
        BY <2>3
      <3> QED
        BY <1>1, <1>2, <2>1, <2>2, <2>4, <3>1 DEF Mission!TypeOK, Mission!SHIELD, Mission!Places
    <2>6. MissionRest'
      BY <1>3, <2>1, <2>2, <2>3 DEF MissionRest
    <2>7. Mission!LeavesRested /\ Mission!CueLeads
      BY <2>3 DEF Mission!LeavesRested, Mission!CueLeads
    <2> QED
      BY <2>5, <2>6, <2>7
  <1>7. ASSUME Mission!Exit PROVE Goal
    <2>1. /\ s2 \in {4, 5} /\ s10 > 0
          /\ s1' = 1 /\ s2' = 0 /\ s3' = 3 /\ s4' = 0 /\ s5' = 1 /\ s6' = 0 /\ s7' = 0 /\ s8' = GUARD
          /\ s9' = 0 /\ s10' = 0 /\ s11' = "aligned" /\ s12' = 0 /\ s13' = "none" /\ s14' = FALSE
      BY <1>7 DEF Mission!Exit, Mission!SHIELD
    <2>2. Mission!Init'
      BY <2>1 DEF Mission!Init, Mission!SHIELD
    <2>3. (Mission!TypeOK /\ MissionRest)'
      BY <2>2, MissionStarts, MissionWhole, PTL
    <2>4. Mission!LeavesRested /\ Mission!CueLeads
      <3>1. s14
        BY <1>3, <2>1 DEF MissionRest
      <3>2. s2' # 1 /\ s2 # 0
        BY <2>1
      <3> QED
        BY <3>1, <3>2 DEF Mission!LeavesRested, Mission!CueLeads
    <2> QED
      BY <2>3, <2>4
  <1>8. ASSUME NEW trigger \in BOOLEAN, Mission!Debrief(trigger) PROVE Goal
    <2>1. /\ s2 \in {4, 5}
          /\ UNCHANGED <<s1, s2, s3, s4, s5, s6, s7, s8, s11, s12, s13>>
          /\ s10' = IF ~trigger /\ s9 = 0 THEN 1 ELSE s10
          /\ s9' = IF s9 > 0 THEN s9 - 1 ELSE 0
      BY <1>8 DEF Mission!Debrief, Mission!tally
    <2>2. s14' = (s14 \/ (~trigger /\ s2 >= 4 /\ s9 = 0))
      BY <1>8 DEF Mission!Debrief, Mission!Invited
    <2>3. s14' \in BOOLEAN
      BY <2>2
    <2>4. s9' \in 0 .. ESCAPE + HOLD + COOL /\ s10' \in 0 .. STRAY + 1
      BY <1>1, <2>1, MissionBounds
    <2>5. s10' > 0 => s14'
      <3>1. s2 >= 4
        BY <2>1
      <3>2. CASE ~trigger /\ s9 = 0
        BY <2>2, <3>1, <3>2
      <3>3. CASE ~(~trigger /\ s9 = 0)
        <4>1. s10' = s10
          BY <2>1, <3>3
        <4>2. s10 > 0 => s14
          BY <1>3, <3>1 DEF MissionRest
        <4> QED
          BY <2>2, <4>1, <4>2
      <3> QED
        BY <3>2, <3>3
    <2>6. Mission!TypeOK'
      BY <1>1, <1>2, <2>1, <2>3, <2>4 DEF Mission!TypeOK, Mission!SHIELD, Mission!Places
    <2>7. MissionRest'
      <3>1. s2' # 0 /\ s2' # 1
        BY <2>1
      <3> QED
        BY <1>3, <2>1, <2>5, <3>1 DEF MissionRest
    <2>8. Mission!LeavesRested /\ Mission!CueLeads
      BY <2>1 DEF Mission!LeavesRested, Mission!CueLeads
    <2> QED
      BY <2>6, <2>7, <2>8
  <1>9. Goal
    BY <1>4, <1>5, <1>6, <1>7, <1>8 DEF Mission!Next
  <1>10. (Mission!TypeOK /\ MissionRest)' => Mission!Inv'
    BY MissionWhole, PTL
  <1> QED
    BY <1>9, <1>10

(* A step of no component leaves a mission as it is.                        *)
LEMMA MissionStays ==
  ASSUME Mission!Inv, UNCHANGED vars
  PROVE  Mission!Inv'
  <1>1. Mission!TypeOK /\ MissionRest
    BY MissionWhole
  <1>2. (Mission!TypeOK /\ MissionRest)'
    BY <1>1 DEF Mission!TypeOK, MissionRest, vars
  <1> QED
    BY <1>2, MissionWhole, PTL

-----------------------------------------------------------------------------
(* The Linda page.                                                          *)

(* No timer runs before Start is pressed.                                   *)
LEMMA LindaStarts == Linda!Init => Linda!Inv
  <1> SUFFICES ASSUME Linda!Init PROVE Linda!Inv
    OBVIOUS
  <1>1. s1 = FALSE /\ s2 = FALSE /\ s3 = 0 /\ s4 = "Run" /\ s5 = 0
    BY DEF Linda!Init
  <1>2. s3 \in 0 .. 2 /\ s5 \in 0 .. Slices
    BY <1>1, LindaAssumption
  <1> QED
    BY <1>1, <1>2 DEF Linda!Inv, Linda!TypeOK, Linda!OneTimer

(* Whatever is pressed, there is at most one timer.                         *)
LEMMA LindaKeeps ==
  ASSUME Linda!Inv, Linda!Next
  PROVE  Linda!Inv'
  <1>1. s1 \in BOOLEAN /\ s2 = s1 /\ s4 \in {"Run", "Pause"} /\ (s4 = "Pause" <=> s1)
    BY DEF Linda!Inv, Linda!TypeOK, Linda!OneTimer
  <1>2. s3 = (IF s1 THEN 1 ELSE 0) /\ s5 \in 0 .. Slices
    BY DEF Linda!Inv, Linda!TypeOK, Linda!OneTimer
  <1>3. Linda!Stepped \in 0 .. Slices
    BY <1>2, LindaAssumption DEF Linda!Stepped, Linda!Complete
  <1> DEFINE Stops(n) == s1' = FALSE /\ s2' = FALSE /\ s4' = "Run" /\ s3' = 0 /\ n \in 0 .. Slices /\ s5' = n
             Goes(n) == s1' = TRUE /\ s2' = TRUE /\ s4' = "Pause" /\ s3' = 1 /\ n \in 0 .. Slices /\ s5' = n
  <1>4. ASSUME NEW n, Stops(n) \/ Goes(n) PROVE Linda!Inv'
    <2>1. s3' \in 0 .. 2 /\ s5' \in 0 .. Slices
      BY <1>4
    <2>2. Linda!TypeOK'
      BY <1>4, <2>1 DEF Linda!TypeOK
    <2> QED
      BY <1>4, <2>2 DEF Linda!Inv, Linda!OneTimer
  <1>5. Linda!Cleared(s3) = 0
    BY <1>1, <1>2 DEF Linda!Cleared
  <1>6. ASSUME Linda!TickBody(0) PROVE Stops(Linda!Stepped) \/ Goes(Linda!Stepped)
    BY <1>3, <1>6 DEF Linda!TickBody
  <1>7. CASE Linda!tick
    <2>1. s1
      BY <1>2, <1>7 DEF Linda!tick
    <2>2. Linda!TickBody(0)
      BY <1>2, <1>7, <2>1 DEF Linda!tick
    <2> QED
      BY <1>4, <1>6, <2>2
  <1>8. CASE Linda!Reset
    <2>1. Stops(0)
      BY <1>5, <1>8, LindaAssumption DEF Linda!Reset, Linda!stopRun
    <2> QED
      BY <1>4, <2>1
  <1>9. CASE Linda!StepClick
    <2>1. Stops(Linda!Stepped)
      BY <1>3, <1>5, <1>9 DEF Linda!StepClick, Linda!stopRun
    <2> QED
      BY <1>4, <2>1
  <1>10. CASE Linda!Run
    <2>1. CASE s1
      <3>1. Stops(s5)
        BY <1>2, <1>5, <1>10, <2>1 DEF Linda!Run, Linda!stopRun
      <3> QED
        BY <1>4, <3>1
    <2>2. CASE ~s1
      <3>1. Linda!TickBody(0)
        BY <1>2, <1>10, <2>2 DEF Linda!Run
      <3> QED
        BY <1>4, <1>6, <3>1
    <2> QED
      BY <2>1, <2>2
  <1> QED
    BY <1>7, <1>8, <1>9, <1>10 DEF Linda!Next

(* A step of no component leaves the Linda page as it is.                   *)
LEMMA LindaStays ==
  ASSUME Linda!Inv, UNCHANGED vars
  PROVE  Linda!Inv'
  BY DEF Linda!Inv, Linda!TypeOK, Linda!OneTimer, vars

-----------------------------------------------------------------------------
(* The traffic page.                                                        *)

(* Every model that can be chosen.                                          *)
TrafficAll == Models \cup {"idm"}

(* The loader heap holds at most one model beside IDM.                      *)
LEMMA TrafficOneModel ==
  ASSUME s9 \subseteq {"idm", s8} \ {"none"}
  PROVE  Traffic!Cardinality(s9 \ {"idm"}) <= 1
  <1> DEFINE T == s9 \ {"idm"}
  <1>1. IsFiniteSet({s8}) /\ Cardinality({s8}) = 1
    BY FS_Singleton
  <1>2. T \subseteq {s8}
    OBVIOUS
  <1>3. Cardinality(T) <= Cardinality({s8})
    BY <1>1, <1>2, FS_Subset
  <1>4. Traffic!Cardinality(T) = Cardinality(T)
    BY DEF Traffic!Cardinality, Cardinality
  <1> QED
    BY <1>1, <1>3, <1>4

(* The invariant in parts: the controls and what is loaded; the clock.      *)
TrafficShown ==
    /\ s1 \in BOOLEAN /\ s2 \in BOOLEAN /\ s12 \in BOOLEAN /\ s14 = FALSE
    /\ s4 \in {"Start", "Pause"} /\ (s4 = "Start" => ~s1)
    /\ s5 \in TrafficAll /\ s7 = s5 /\ s6 \in {"baseline", "pacing"}
    /\ s8 \in Models \cup {"none"} /\ s9 \subseteq TrafficAll
    /\ "idm" \in s9 /\ s9 \subseteq {"idm", s8} \ {"none"}
    /\ s10 \in [model : TrafficAll, mode : {"baseline", "pacing"}, tick : 0 .. MaxTick]
    /\ s10.model = s5
    /\ s4 = "Pause" => (s1 <=> s2)
    /\ s6 = "pacing" => s10.mode = "pacing"
    /\ s8 = "none" => s6 = s10.mode

(* The speed, and how old the last frame is.                                *)
TrafficClock == s3 \in {1, 2, 5} /\ s11 \in 0 .. 10 /\ s13 \in 0 .. 10 /\ s11 <= s13

(* The invariant of the traffic page is these parts.                        *)
LEMMA TrafficWhole == Traffic!Inv <=> TrafficShown /\ TrafficClock
  <1>1. Traffic!Inv => TrafficShown /\ TrafficClock
    BY DEF Traffic!Inv, Traffic!TypeOK, Traffic!ControlsAgree, TrafficShown, TrafficClock, TrafficAll
  <1>2. ASSUME TrafficShown, TrafficClock PROVE Traffic!Inv
    <2>1. Traffic!Cardinality(s9 \ {"idm"}) <= 1
      BY <1>2, TrafficOneModel DEF TrafficShown
    <2>2. Traffic!TypeOK
      BY <1>2 DEF Traffic!TypeOK, TrafficShown, TrafficClock, TrafficAll
    <2>3. /\ s7 = s5 /\ s5 = s10.model /\ (s4 = "Start" => ~s1)
          /\ (s4 = "Pause" => (s1 <=> s2)) /\ (s6 = "pacing" => s10.mode = "pacing")
          /\ (s8 = "none" => s6 = s10.mode)
      BY <1>2 DEF TrafficShown
    <2>4. Traffic!ControlsAgree
      BY <2>1, <2>3, Zenon DEF Traffic!ControlsAgree
    <2> QED
      BY <1>2, <2>2, <2>4 DEF Traffic!Inv, TrafficShown, TrafficClock
  <1> QED
    BY <1>1, <1>2

(* The traffic page begins stopped, with the default model.                 *)
LEMMA TrafficStarts == Traffic!Init => Traffic!Inv
  <1> SUFFICES ASSUME Traffic!Init PROVE TrafficShown /\ TrafficClock
    BY TrafficWhole
  <1>1. s10 \in [model : TrafficAll, mode : {"baseline", "pacing"}, tick : 0 .. MaxTick]
        /\ s10.model = "idm" /\ s10.mode = "baseline"
    BY TrafficAssumption DEF Traffic!Init, TrafficAll
  <1>2. TrafficClock
    BY DEF Traffic!Init, TrafficClock
  <1> QED
    BY <1>1, <1>2, TrafficAssumption DEF Traffic!Init, TrafficShown, TrafficAll

(* Where Glon's handlers leave the simulation.                              *)
LEMMA TrafficSim ==
  ASSUME TrafficShown
  PROVE  /\ Traffic!Rewound \in [model : TrafficAll, mode : {"baseline", "pacing"}, tick : 0 .. MaxTick]
         /\ Traffic!Rewound.model = s5
         /\ Traffic!Rewound.mode = s10.mode /\ Traffic!Advanced.mode = s10.mode
         /\ Traffic!Advanced \in [model : TrafficAll, mode : {"baseline", "pacing"}, tick : 0 .. MaxTick]
         /\ Traffic!Advanced.model = s5 /\ Traffic!Advanced.tick >= s10.tick
  <1>1. s10 \in [model : TrafficAll, mode : {"baseline", "pacing"}, tick : 0 .. MaxTick]
        /\ s10.model = s5
    BY DEF TrafficShown
  <1>2. 0 \in 0 .. MaxTick
    BY TrafficAssumption
  <1> DEFINE t == IF s10.tick < MaxTick THEN s10.tick + 1 ELSE s10.tick
  <1>3. t \in 0 .. MaxTick /\ t >= s10.tick
    BY <1>1, TrafficAssumption
  <1>4. Traffic!Advanced = [s10 EXCEPT !.tick = t]
    BY DEF Traffic!Advanced
  <1> HIDE DEF t
  <1> QED
    BY <1>1, <1>2, <1>3, <1>4 DEF Traffic!Rewound

(* A selection and a tick keep the controls and the loader heap in          *)
(* agreement.                                                               *)
LEMMA TrafficKeeps ==
  ASSUME Traffic!Inv, Traffic!Next
  PROVE  Traffic!Inv' /\ Traffic!SteadyStep
  <1> DEFINE Sims == [model : TrafficAll, mode : {"baseline", "pacing"}, tick : 0 .. MaxTick]
             Goal == TrafficShown' /\ TrafficClock' /\ Traffic!SteadyStep
  <1>1. TrafficShown /\ TrafficClock
    BY TrafficWhole
  <1>2. s10 \in Sims /\ s10.model = s5 /\ s10.tick \in Nat
    BY <1>1, TrafficAssumption DEF TrafficShown
  <1>3. /\ Traffic!Rewound \in Sims /\ Traffic!Rewound.model = s5
        /\ Traffic!Rewound.mode = s10.mode /\ Traffic!Advanced.mode = s10.mode
        /\ Traffic!Advanced \in Sims /\ Traffic!Advanced.model = s5
        /\ Traffic!Advanced.tick >= s10.tick
    BY <1>1, TrafficSim
  <1> HIDE DEF Sims
  <1>4. ASSUME NEW dt \in FrameTimes, Traffic!frame(dt) PROVE Goal
    <2> DEFINE t == Traffic!Capped(s11 + dt)
               g == Traffic!Capped(s13 + dt)
               e == Traffic!eventPeriod
    <2>1. /\ s11' = IF Traffic!Due(t) \/ s12 THEN 0 ELSE t
          /\ s12' = FALSE
          /\ s13' = IF Traffic!Due(t) THEN 0 ELSE g
          /\ s14' = (s14 \/ (Traffic!Due(t) /\ g < e))
          /\ s10' = IF Traffic!Due(t) THEN Traffic!Advanced ELSE s10
          /\ UNCHANGED <<s1, s2, s3, s4, s5, s6, s7, s8, s9>>
      BY <1>4 DEF Traffic!frame, Traffic!controls, Traffic!budget
    <2>2. t \in 0 .. 10 /\ g \in 0 .. 10 /\ t <= g
      BY <1>1, TrafficAssumption DEF TrafficClock, Traffic!Capped
    <2>3. e \in {2, 5, 10}
      BY <1>1 DEF TrafficClock, Traffic!eventPeriod
    <2>4. Traffic!Due(t) => t >= e
      BY DEF Traffic!Due
    <2> HIDE DEF t, g, e
    <2>5. Traffic!Due(t) => ~(g < e)
      BY <2>2, <2>3, <2>4
    <2>6. s14' = FALSE
      BY <1>1, <2>1, <2>5 DEF TrafficShown
    <2>7. TrafficClock'
      <3>1. CASE Traffic!Due(t)
        BY <1>1, <2>1, <3>1 DEF TrafficClock
      <3>2. CASE ~Traffic!Due(t)
        <4>1. s11' \in {0, t} /\ s13' = g /\ s3' = s3
          BY <2>1, <3>2
        <4> QED
          BY <1>1, <2>2, <4>1 DEF TrafficClock
      <3> QED
        BY <3>1, <3>2
    <2>8. s10' \in Sims /\ s10'.model = s5 /\ s10'.mode = s10.mode /\ s10'.tick >= s10.tick
      BY <1>2, <1>3, <2>1
    <2>9. TrafficShown'
      BY <1>1, <2>1, <2>6, <2>8 DEF TrafficShown, Sims
    <2>10. ~(s10'.tick < s10.tick)
      <3>1. s10'.tick \in Int /\ s10.tick \in Int
        BY <1>2, <2>8, TrafficAssumption DEF Sims
      <3> QED
        BY <2>8, <3>1
    <2> QED
      BY <2>6, <2>7, <2>9, <2>10 DEF Traffic!SteadyStep
  <1>5. ASSUME Traffic!start PROVE Goal
    <2>1. /\ s1' = TRUE /\ s2' = TRUE /\ s4' = "Pause" /\ s11' = 0 /\ s12' = TRUE
          /\ s10' = IF s2 THEN s10 ELSE Traffic!Rewound
          /\ UNCHANGED <<s3, s5, s6, s7, s8, s9, s13, s14>>
      BY <1>5 DEF Traffic!start, Traffic!StartedFrom, Traffic!budget
    <2>2. TrafficClock'
      BY <1>1, <2>1 DEF TrafficClock
    <2>3. s10' \in Sims /\ s10'.model = s5 /\ s10'.mode = s10.mode /\ (s2 => s10' = s10)
      BY <1>2, <1>3, <2>1
    <2>4. TrafficShown'
      BY <1>1, <2>1, <2>3 DEF TrafficShown, Sims
    <2>5. ~(s10.tick < s10.tick)
      BY <1>2
    <2> QED
      BY <1>1, <2>1, <2>2, <2>3, <2>4, <2>5 DEF Traffic!SteadyStep, TrafficShown
  <1>6. ASSUME Traffic!pause PROVE Goal
    <2>1. s1' = FALSE /\ s4' = "Start" /\ UNCHANGED <<s2, s3, s5, s6, s7, s8, s9, s10, s11, s12, s13, s14>>
      BY <1>6 DEF Traffic!pause, Traffic!budget, Traffic!clock
    <2>2. TrafficShown' /\ TrafficClock'
      BY <1>1, <2>1 DEF TrafficShown, TrafficClock, Sims
    <2>3. ~(s10.tick < s10.tick)
      BY <1>2
    <2> QED
      BY <1>1, <2>1, <2>2, <2>3 DEF Traffic!SteadyStep, TrafficShown
  <1>7. ASSUME Traffic!reset PROVE Goal
    <2>1. /\ s1' = FALSE /\ s2' = FALSE /\ s4' = "Start" /\ s10' = Traffic!Rewound
          /\ UNCHANGED <<s3, s5, s6, s7, s8, s9, s11, s12, s13, s14>>
      BY <1>7 DEF Traffic!reset, Traffic!Stop, Traffic!budget, Traffic!clock
    <2>2. TrafficShown' /\ TrafficClock'
      BY <1>1, <1>3, <2>1 DEF TrafficShown, TrafficClock, Sims
    <2> QED
      BY <1>1, <2>1, <2>2 DEF Traffic!SteadyStep, TrafficShown
  <1>8. ASSUME NEW s \in {1, 2, 5}, Traffic!setSpeed(s) PROVE Goal
    <2>1. s3' = s /\ UNCHANGED <<s1, s2, s4, s5, s6, s7, s8, s9, s10, s11, s12, s13, s14>>
      BY <1>8 DEF Traffic!setSpeed, Traffic!controls, Traffic!budget, Traffic!clock
    <2>2. TrafficShown' /\ TrafficClock'
      BY <1>1, <2>1 DEF TrafficShown, TrafficClock, Sims
    <2>3. ~(s10.tick < s10.tick)
      BY <1>2
    <2> QED
      BY <1>1, <2>1, <2>2, <2>3 DEF Traffic!SteadyStep, TrafficShown
  <1>9. ASSUME NEW m \in {"baseline", "pacing"}, Traffic!setMode(m) PROVE Goal
    <2>1. /\ s1' = FALSE /\ s2' = FALSE /\ s4' = "Start" /\ s6' = m
          /\ s10' = [Traffic!Rewound EXCEPT !.mode = m]
          /\ UNCHANGED <<s3, s5, s7, s8, s9, s11, s12, s13, s14>>
      BY <1>9 DEF Traffic!setMode, Traffic!Stop, Traffic!budget, Traffic!clock
    <2>2. s10' \in Sims /\ s10'.model = s5 /\ s10'.mode = m
      BY <1>3, <2>1 DEF Sims
    <2>3. TrafficShown' /\ TrafficClock'
      BY <1>1, <2>1, <2>2 DEF TrafficShown, TrafficClock, Sims
    <2> QED
      BY <1>1, <2>1, <2>3 DEF Traffic!SteadyStep, TrafficShown
  <1>10. ASSUME NEW m \in TrafficAll, Traffic!setModel(m) PROVE Goal
    <2>1. s1' = FALSE /\ s2' = FALSE /\ UNCHANGED <<s3, s11, s12, s13, s14>>
      BY <1>10 DEF Traffic!setModel, Traffic!Stop, Traffic!clock
    <2>2. /\ s8' \in Models \cup {"none"} /\ s9' \subseteq TrafficAll
          /\ "idm" \in s9' /\ s9' \subseteq {"idm", s8'} \ {"none"}
      <3>1. CASE UNCHANGED <<s8, s9>>
        BY <1>1, <3>1 DEF TrafficShown
      <3>2. CASE m \notin s9 /\ s8 = "none" /\ s9' = s9 \cup {m} /\ s8' = m
        BY <1>1, <3>2, TrafficAssumption DEF TrafficShown, TrafficAll
      <3> QED
        BY <1>10, <3>1, <3>2 DEF Traffic!setModel, Traffic!Refused, Traffic!Ensured, Traffic!MayLoad,
             Traffic!budget
    <2>3. \/ UNCHANGED <<s4, s5, s6, s7, s10>>
          \/ /\ s5' = m /\ s7' = m /\ s4' = "Start"
             /\ s6' = IF m = "idm" THEN s6 ELSE "baseline"
             /\ s10' = [Traffic!Rewound EXCEPT !.model = m]
      BY <1>10 DEF Traffic!setModel, Traffic!StayPut, Traffic!controls
    <2>4. s10' \in Sims /\ s10'.model = s5' /\ s5' \in TrafficAll /\ s7' = s5'
      BY <1>1, <1>2, <1>3, <2>3 DEF Sims, TrafficShown
    <2>5. s4' \in {"Start", "Pause"} /\ s6' \in {"baseline", "pacing"}
      BY <1>1, <2>3 DEF TrafficShown
    <2>6. s4' = "Pause" => (s1' <=> s2')
      BY <2>1
    <2>7. s10'.mode = s10.mode
      BY <1>2, <1>3, <2>3 DEF Sims
    <2>8. s6' = "pacing" => s10'.mode = "pacing"
      BY <1>1, <2>3, <2>7 DEF TrafficShown
    <2>9. s8' = "none" => s6' = s10'.mode
      <3>1. s8' = "none" => s8 = "none"
        BY <1>10, TrafficAssumption
        DEF Traffic!setModel, Traffic!Refused, Traffic!Ensured, Traffic!budget, TrafficAll
      <3>2. CASE UNCHANGED s6
        BY <1>1, <2>7, <3>1, <3>2 DEF TrafficShown
      <3>3. CASE ~ UNCHANGED s6
        <4>1. m # "idm" /\ Traffic!Ensured(m)
          BY <1>10, <2>3, <3>3 DEF Traffic!setModel, Traffic!StayPut, Traffic!controls
        <4>2. s8' = m \/ (m \in s9 /\ s8' = s8)
          BY <4>1 DEF Traffic!Ensured, Traffic!budget
        <4>3. s8' # "none"
          BY <1>1, <4>1, <4>2, TrafficAssumption DEF TrafficShown, TrafficAll
        <4> QED
          BY <4>3
      <3> QED
        BY <3>2, <3>3
    <2>10. TrafficShown'
      BY <1>1, <2>1, <2>2, <2>4, <2>5, <2>6, <2>8, <2>9 DEF TrafficShown, Sims
    <2>11. TrafficClock'
      BY <1>1, <2>1 DEF TrafficClock
    <2> QED
      BY <1>1, <2>1, <2>10, <2>11 DEF Traffic!SteadyStep, TrafficShown
  <1>11. Goal
    BY <1>4, <1>5, <1>6, <1>7, <1>8, <1>9, <1>10 DEF Traffic!Next, TrafficAll
  <1>12. (TrafficShown /\ TrafficClock)' => Traffic!Inv'
    BY TrafficWhole, PTL
  <1> QED
    BY <1>11, <1>12

(* A step of no component leaves the traffic page as it is.                 *)
LEMMA TrafficStays ==
  ASSUME Traffic!Inv, UNCHANGED vars
  PROVE  Traffic!Inv'
  BY DEF Traffic!Inv, Traffic!TypeOK, Traffic!ControlsAgree, vars

-----------------------------------------------------------------------------
(* The launcher's animated picture.                                         *)

(* Paths: the first move of a token, and how many moves it has at most.     *)
LEMMA CanvasPath ==
  ASSUME s1 \in Traces, NEW id \in TokenIds
  PROVE  /\ Len(s1) \in Nat
         /\ Canvas!hops(id) \in 0 .. Len(s1)
         /\ Canvas!path(id) # {} => Canvas!claimStep(id) \in 1 .. Len(s1)
  <1>1. s1 \in Seq(TokenIds)
    BY CanvasAssumption
  <1>2. Len(s1) \in Nat /\ DOMAIN s1 = 1 .. Len(s1)
    BY <1>1
  <1>3. Canvas!path(id) \subseteq 1 .. Len(s1)
    BY <1>2 DEF Canvas!path
  <1>4. Canvas!hops(id) = Cardinality(Canvas!path(id))
    BY DEF Canvas!hops, Canvas!Cardinality, Cardinality
  <1>5. IsFiniteSet(1 .. Len(s1)) /\ Cardinality(1 .. Len(s1)) = Len(s1)
    <2>1. ASSUME NEW n \in Nat PROVE IsFiniteSet(1 .. n) /\ Cardinality(1 .. n) = n
      BY FS_Interval
    <2> QED
      BY <1>2, <2>1
  <1>6. IsFiniteSet(Canvas!path(id)) /\ Cardinality(Canvas!path(id)) <= Len(s1)
    BY <1>3, <1>5, FS_Subset
  <1>7. Cardinality(Canvas!path(id)) \in Nat
    BY <1>6, FS_CardinalityType
  <1>8. ASSUME Canvas!path(id) # {} PROVE Canvas!claimStep(id) \in 1 .. Len(s1)
    <2>1. \E i \in Canvas!path(id) : \A k \in Canvas!path(id) : i <= k
      BY <1>3, <1>8, LeastOf
    <2> QED
      BY <1>3, <2>1 DEF Canvas!claimStep
  <1> QED
    BY <1>2, <1>4, <1>6, <1>7, <1>8

(* Time does not take a token back.                                         *)
LEMMA CanvasForward ==
  ASSUME NEW a \in Nat, NEW b \in Nat, a <= b
  PROVE  /\ a \div 430 \in Nat /\ b \div 430 \in Nat /\ a % 430 \in 0 .. 429 /\ b % 430 \in 0 .. 429
         /\ a \div 430 < b \div 430 \/ (a \div 430 = b \div 430 /\ a % 430 <= b % 430)
  OBVIOUS

(* A trace begins before its first hop.                                     *)
LEMMA CanvasStarts == Canvas!Init => Canvas!Inv
  <1> SUFFICES ASSUME Canvas!Init PROVE Canvas!Inv
    OBVIOUS
  <1>1. s1 \in Traces /\ s2 = -1 /\ s4 = TRUE /\ s3 = [id \in TokenIds |-> <<0, 0>>]
    BY DEF Canvas!Init
  <1>2. Len(s1) \in Nat
    BY <1>1, CanvasAssumption
  <1>3. s2 \in -1 .. Canvas!Horizon /\ 0 \in 0 .. Len(s1) /\ 0 \in 0 .. 429
    BY <1>1, <1>2 DEF Canvas!Horizon, Canvas!STEP, Canvas!DUR
  <1>4. 430 - 1 = 429
    OBVIOUS
  <1>5. Canvas!TypeOK
    BY <1>1, <1>3, <1>4 DEF Canvas!TypeOK, Canvas!DUR
  <1> QED
    BY <1>1, <1>5 DEF Canvas!Inv

(* A hop starts only where the one before it ended.                         *)
LEMMA CanvasKeeps ==
  ASSUME Canvas!Inv, Canvas!Next
  PROVE  Canvas!Inv' /\ Canvas!HopIsSequential
  <1> DEFINE n == Len(s1)
             H == Canvas!Horizon
             c(id) == Canvas!claimStep(id)
             L(id, t) == Canvas!Local(id, t)
  <1>1. /\ s1 \in Traces /\ s2 \in -1 .. H /\ s3 \in [TokenIds -> (0 .. n) \X (0 .. 429)]
        /\ \A id \in TokenIds : s3[id] = <<0, 0>>
                           \/ \E t \in 0 .. s2 : Canvas!Travels(id, t) /\ s3[id] = Canvas!Place(id, t)
    <2>1. 430 - 1 = 429
      OBVIOUS
    <2> QED
      BY <2>1 DEF Canvas!Inv, Canvas!TypeOK, Canvas!DUR
  <1>2. n \in Nat /\ H = 560 * n
    BY <1>1, CanvasAssumption DEF Canvas!Horizon, Canvas!STEP, Canvas!DUR
  <1>3. PICK dt \in Steps : Canvas!Frame(dt)
    BY DEF Canvas!Next
  <1> DEFINE t == IF s2 = -1 THEN 0 ELSE s2 + dt
  <1>4. /\ s1' = s1
        /\ s2' = IF t > H THEN H ELSE t
        /\ s3' = [id \in TokenIds |-> IF Canvas!Travels(id, t) THEN Canvas!Place(id, t) ELSE s3[id]]
        /\ s4' = \E id \in TokenIds : Canvas!path(id) # {} /\ ~Canvas!Arrived(id, t)
    BY <1>3 DEF Canvas!Frame
  <1>5. t \in Nat /\ s2 <= t
    BY <1>1, CanvasAssumption
  <1> HIDE DEF t
  <1>6. ASSUME NEW id \in TokenIds
        PROVE  /\ Canvas!hops(id) \in 0 .. n
               /\ Canvas!path(id) # {} => c(id) \in 1 .. n
    BY <1>1, CanvasPath
  <1>7. ASSUME NEW id \in TokenIds, NEW x \in Nat, Canvas!Travels(id, x)
        PROVE  /\ L(id, x) \in Nat /\ L(id, x) = x - (c(id) - 1) * 130
               /\ L(id, x) \div 430 < Canvas!hops(id) /\ c(id) \in 1 .. n /\ x <= H
               /\ Canvas!Place(id, x) = <<1 + L(id, x) \div 430, L(id, x) % 430>>
               /\ Canvas!Place(id, x) \in (0 .. n) \X (0 .. 429)
    <2>1. c(id) \in 1 .. n /\ Canvas!hops(id) \in 0 .. n
      BY <1>6, <1>7 DEF Canvas!Travels
    <2>2. L(id, x) = x - (c(id) - 1) * 130
      BY DEF Canvas!Local, Canvas!STEP
    <2>3. ~(L(id, x) < 0) /\ ~(L(id, x) \div 430 >= Canvas!hops(id))
      BY <1>7 DEF Canvas!Travels, Canvas!Waiting, Canvas!Arrived, Canvas!DUR
    <2>4. Canvas!Place(id, x) = <<1 + L(id, x) \div 430, L(id, x) % 430>>
      BY DEF Canvas!Place, Canvas!DUR
    <2> DEFINE l == L(id, x)
               d == c(id)
    <2> HIDE DEF c, L
    <2>5. l \in Nat /\ l \div 430 < Canvas!hops(id) /\ l \div 430 \in Nat /\ l % 430 \in 0 .. 429
      <3>1. l \in Int
        BY <1>2, <2>1, <2>2
      <3>2. l \in Nat
        BY <2>3, <3>1
      <3> HIDE DEF l
      <3>3. l \div 430 \in Nat /\ l % 430 \in 0 .. 429
        BY <3>2
      <3> QED
        BY <2>1, <2>3, <3>2, <3>3 DEF l
    <2>6. l < 430 * n
      BY <1>2, <2>1, <2>5
    <2>7. x <= H
      BY <1>2, <2>1, <2>2, <2>5, <2>6, SMTT(30)
    <2>8. 1 + l \div 430 \in 0 .. n
      BY <1>2, <2>1, <2>5
    <2> QED
      BY <2>1, <2>2, <2>4, <2>5, <2>7, <2>8
  <1> HIDE DEF c, L, H, n
  <1>8. ASSUME NEW id \in TokenIds
        PROVE  /\ Canvas!path(id)' = Canvas!path(id)
               /\ \A x \in Nat : /\ Canvas!Travels(id, x)' <=> Canvas!Travels(id, x)
                                 /\ Canvas!Place(id, x)' = Canvas!Place(id, x)
    <2>1. Canvas!path(id)' = Canvas!path(id)
      BY <1>4 DEF Canvas!path
    <2>2. Canvas!claimStep(id)' = Canvas!claimStep(id) /\ Canvas!hops(id)' = Canvas!hops(id)
      BY <2>1 DEF Canvas!claimStep, Canvas!hops, Canvas!Cardinality
    <2>3. \A x \in Nat : Canvas!Local(id, x)' = Canvas!Local(id, x)
      BY <2>2 DEF Canvas!Local, Canvas!STEP
    <2> QED
      BY <2>1, <2>2, <2>3 DEF Canvas!Travels, Canvas!Place, Canvas!Waiting, Canvas!Arrived, Canvas!DUR
  <1>9. s2' \in -1 .. H /\ s2 <= s2' /\ (t <= H => s2' = t)
    BY <1>1, <1>2, <1>4, <1>5
  <1>10. ASSUME NEW id \in TokenIds
         PROVE  /\ s3'[id] \in (0 .. n) \X (0 .. 429)
                /\ s3'[id] = <<0, 0>>
                   \/ \E x \in 0 .. s2' : Canvas!Travels(id, x)' /\ s3'[id] = Canvas!Place(id, x)'
                /\ Canvas!Before(s3[id], s3'[id])
    <2>1. CASE Canvas!Travels(id, t)
      <3>1. s3'[id] = Canvas!Place(id, t) /\ s3'[id] \in (0 .. n) \X (0 .. 429) /\ s2' = t
        BY <1>4, <1>5, <1>7, <1>9, <2>1
      <3>2. \E x \in 0 .. s2' : Canvas!Travels(id, x)' /\ s3'[id] = Canvas!Place(id, x)'
        <4>1. PICK x \in Nat : x = t
          BY <1>5
        <4>2. Canvas!Travels(id, x)' /\ s3'[id] = Canvas!Place(id, x)' /\ x \in 0 .. s2'
          BY <1>8, <2>1, <3>1, <4>1
        <4> QED
          BY <4>2
      <3>3. Canvas!Before(s3[id], s3'[id])
        <4>1. L(id, t) \in Nat /\ s3'[id] = <<1 + L(id, t) \div 430, L(id, t) % 430>>
          BY <1>5, <1>7, <2>1, <3>1
        <4>2. CASE s3[id] = <<0, 0>>
          BY <4>1, <4>2 DEF Canvas!Before
        <4>3. CASE s3[id] # <<0, 0>>
          <5>1. PICK x \in 0 .. s2 : Canvas!Travels(id, x) /\ s3[id] = Canvas!Place(id, x)
            BY <1>1, <4>3
          <5>2. x \in Nat /\ x <= t
            BY <1>1, <1>5, <1>9, <5>1
          <5>3. L(id, x) \in Nat /\ s3[id] = <<1 + L(id, x) \div 430, L(id, x) % 430>>
                /\ L(id, x) = x - (c(id) - 1) * 130 /\ L(id, t) = t - (c(id) - 1) * 130
                /\ c(id) \in Nat
            BY <1>2, <1>5, <1>7, <2>1, <5>1, <5>2
          <5>4. L(id, x) <= L(id, t)
            BY <1>5, <4>1, <5>2, <5>3
          <5>5. L(id, x) \div 430 < L(id, t) \div 430
                \/ (L(id, x) \div 430 = L(id, t) \div 430 /\ L(id, x) % 430 <= L(id, t) % 430)
            BY <4>1, <5>3, <5>4, CanvasForward
          <5> QED
            BY <4>1, <5>3, <5>5 DEF Canvas!Before
        <4> QED
          BY <4>2, <4>3
      <3> QED
        BY <3>1, <3>2, <3>3
    <2>2. CASE ~Canvas!Travels(id, t)
      <3>1. s3'[id] = s3[id]
        BY <1>4, <2>2
      <3>2. s3[id] \in (0 .. n) \X (0 .. 429)
        BY <1>1 DEF n
      <3>3. Canvas!Before(s3[id], s3[id])
        BY <1>2, <3>2 DEF Canvas!Before
      <3>4. s3[id] = <<0, 0>>
            \/ \E x \in 0 .. s2' : Canvas!Travels(id, x)' /\ s3[id] = Canvas!Place(id, x)'
        <4> SUFFICES ASSUME NEW x \in 0 .. s2, Canvas!Travels(id, x), s3[id] = Canvas!Place(id, x)
                     PROVE  \E y \in 0 .. s2' : Canvas!Travels(id, y)' /\ s3[id] = Canvas!Place(id, y)'
          BY <1>1
        <4>1. x \in Nat /\ x \in 0 .. s2'
          BY <1>1, <1>2, <1>9
        <4> QED
          BY <1>8, <4>1
      <3> QED
        BY <3>1, <3>2, <3>3, <3>4
    <2> QED
      BY <2>1, <2>2
  <1>11. Canvas!Inv'
    <2>1. n' = n /\ H' = H
      BY <1>4 DEF n, H, Canvas!Horizon, Canvas!STEP, Canvas!DUR
    <2>2. s3' \in [TokenIds -> (0 .. n) \X (0 .. 429)]
      <3>1. s3' = [id \in TokenIds |-> s3'[id]]
        BY <1>4
      <3> QED
        BY <1>10, <3>1
    <2>3. s4' \in BOOLEAN
      BY <1>4
    <2>4. 430 - 1 = 429
      OBVIOUS
    <2>5. Canvas!TypeOK'
      BY <1>1, <1>4, <1>9, <2>1, <2>2, <2>3, <2>4 DEF Canvas!TypeOK, Canvas!DUR, n, H
    <2> QED
      BY <1>10, <2>5 DEF Canvas!Inv
  <1>12. ASSUME NEW id \in TokenIds, s3'[id] # s3[id], NEW other \in TokenIds, Canvas!path(other) # {},
                Canvas!claimStep(other) < Canvas!claimStep(id)
         PROVE  s3'[other] # <<0, 0>> \/ Canvas!Arrived(other, s2')
    <2>1. Canvas!Travels(id, t)
      BY <1>4, <1>12
    <2>2. s2' = t /\ L(id, t) \in Nat /\ L(id, t) = t - (c(id) - 1) * 130 /\ c(id) \in 1 .. n
      BY <1>5, <1>7, <1>9, <2>1
    <2>3. c(other) \in 1 .. n /\ c(other) < c(id)
      BY <1>6, <1>12 DEF c
    <2>4. L(other, t) = t - (c(other) - 1) * 130
      BY DEF L, c, Canvas!Local, Canvas!STEP
    <2>5. ~(L(other, t) < 0)
      BY <1>2, <1>5, <2>2, <2>3, <2>4
    <2>6. CASE Canvas!Arrived(other, t)
      BY <2>2, <2>6
    <2>7. CASE ~Canvas!Arrived(other, t)
      <3>1. Canvas!Travels(other, t)
        BY <1>12, <2>5, <2>7 DEF Canvas!Travels, Canvas!Waiting, L
      <3>2. L(other, t) \in Nat /\ s3'[other] = <<1 + L(other, t) \div 430, L(other, t) % 430>>
        BY <1>4, <1>5, <1>7, <3>1
      <3> QED
        BY <3>2
    <2> QED
      BY <2>6, <2>7
  <1>13. Canvas!HopIsSequential
    BY <1>10, <1>12 DEF Canvas!HopIsSequential
  <1> QED
    BY <1>11, <1>13

(* A step of no component leaves the token canvas as it is.                 *)
LEMMA CanvasStays ==
  ASSUME Canvas!Inv, UNCHANGED vars
  PROVE  Canvas!Inv'
  <1> USE DEF vars
  <1>1. Canvas!TypeOK'
    BY DEF Canvas!Inv, Canvas!TypeOK, Canvas!Horizon, Canvas!STEP, Canvas!DUR
  <1>2. \A id \in TokenIds : /\ Canvas!path(id)' = Canvas!path(id)
                        /\ Canvas!claimStep(id)' = Canvas!claimStep(id)
                        /\ Canvas!hops(id)' = Canvas!hops(id)
    BY DEF Canvas!path, Canvas!claimStep, Canvas!hops, Canvas!Cardinality
  <1>3. \A id \in TokenIds, x \in Int : /\ Canvas!Travels(id, x)' <=> Canvas!Travels(id, x)
                                   /\ Canvas!Place(id, x)' = Canvas!Place(id, x)
    BY <1>2 DEF Canvas!Travels, Canvas!Place, Canvas!Waiting, Canvas!Arrived, Canvas!Local,
                Canvas!STEP, Canvas!DUR
  <1> QED
    BY <1>1, <1>3 DEF Canvas!Inv

-----------------------------------------------------------------------------
(* The live-translation page: what Glon is told.                            *)

(* Only Live's registers, spelt out.                                        *)
LiveText == {"Ready", "Starting", "Listening", "Stopped", "Error"}
(* What the page can have been told.                                        *)
LiveEvents == [token : {"qwen-status"}, text : LiveText]
              \cup [token : {"qwen-error", "qwen-text"}, text : {"-"}]

(* The types of what the page keeps.                                        *)
LiveShape ==
    /\ s1 \in BOOLEAN /\ s7 \in BOOLEAN /\ s11 \in BOOLEAN
    /\ s2 \in Sessions \cup {0} /\ s5 \in Sessions \cup {0}
    /\ s3 \in [Sessions -> {"none", "connecting", "open", "failing", "closing", "closed"}]
    /\ s4 \subseteq Sessions /\ s6 \subseteq Sessions
    /\ s8 \in {"none", "starting", "listening", "stopped", "error"} /\ s10 \in LiveText
    /\ s9 \in Seq(LiveEvents)

(* What was said last is what was told last.                                *)
LiveTold ==
    /\ \A k \in DOMAIN s9 :
         /\ s9[k].token # "qwen-text"
         /\ \A j \in DOMAIN s9 : s9[j].token # "qwen-text" => j <= k
         => s9[k] = Live!Announced
    /\ (\A k \in DOMAIN s9 : s9[k].token = "qwen-text") =>
         s10 = Live!TextOf(s8) /\ s11 = (s8 = "error")

(* At most one session is live, and it is the current one.                  *)
LiveSession ==
    /\ s8 = "error" => s7 \/ ~s1
    /\ ~s1 => s2 = 0 /\ \A s \in Sessions : s3[s] = "none"
    /\ \A s \in Sessions \ {s2} : s3[s] \in {"none", "closing", "closed"}
    /\ \A s \in Sessions : s3[s] # "failing"
    /\ s4 \subseteq {s2} \ {0}
    /\ \A s \in s4 : s3[s] \in {"open", "closing", "closed"}

(* What is pending belongs to the current session.                          *)
LiveHeard ==
    /\ s2 # 0 /\ (s3[s2] = "connecting" \/ s4 # {}) => s10 # "Listening" /\ Live!Pending = {}
    /\ Live!Pending # {} => s2 # 0 /\ s10 # "Listening"
    /\ \A j, k \in Live!Pending : j = k
    /\ s2 = 0 /\ s10 = "Listening" => s8 = "stopped"

(* The sound is faithful.                                                   *)
LiveSound == s12 \in Seq(Int) /\ Live!AudioIsFaithful

(* The invariant of the microphone page is these parts.                     *)
LEMMA LiveWhole ==
  Live!Inv <=> LiveShape /\ LiveTold /\ LiveSession /\ LiveHeard /\ LiveSound
  <1>1. ASSUME LiveTold PROVE Live!StatusAgrees
    BY <1>1 DEF LiveTold, Live!StatusAgrees
  <1>2. Live!TypeOK <=> LiveShape /\ s12 \in Seq(Int)
    BY DEF Live!TypeOK, LiveShape, LiveEvents, LiveText, Live!Events, Live!Texts, Live!States
  <1>3. LiveTold <=> /\ \A k \in DOMAIN s9 : Live!LastTold(k) => s9[k] = Live!Announced
                     /\ (\A k \in DOMAIN s9 : ~Live!Tells(k)) =>
                          s10 = Live!TextOf(s8) /\ s11 = (s8 = "error")
    BY Zenon DEF LiveTold, Live!LastTold, Live!Tells
  <1> QED
    BY <1>1, <1>2, <1>3, Zenon DEF Live!Inv, LiveSession, LiveHeard, LiveSound

(* The same, after a step.                                                  *)
LEMMA LiveWholeNext ==
  (LiveShape /\ LiveTold /\ LiveSession /\ LiveHeard /\ LiveSound)' => Live!Inv'
  BY LiveWhole, PTL

(* The state and its announcement.                                          *)
LEMMA LiveNames ==
  ASSUME s8 \in {"none", "starting", "listening", "stopped", "error"}
  PROVE  /\ Live!TextOf(s8) \in LiveText
         /\ s8 = "error" => Live!TextOf(s8) = "Error"
         /\ s8 # "error" => Live!Announced = Live!Status(Live!TextOf(s8))
         /\ s8 = "error" => Live!Announced = Live!Event("qwen-error")
         /\ Live!Announced \in LiveEvents /\ Live!Announced.token # "qwen-text"
  <1>1. Live!TextOf(s8) \in LiveText /\ (s8 = "error" => Live!TextOf(s8) = "Error")
    BY DEF Live!TextOf, LiveText
  <1> QED
    BY <1>1 DEF Live!Announced, Live!Status, Live!Event, LiveEvents

(* Events delivered that end with the announcement of the new state.        *)
LEMMA LiveDelivers ==
  ASSUME s9 \in Seq(LiveEvents), NEW E \in Seq(LiveEvents), E # <<>>,
         s9' = s9 \o E, E[Len(E)] = Live!Announced', E[Len(E)].token # "qwen-text"
  PROVE  s9' \in Seq(LiveEvents) /\ LiveTold'
  <1>1. s9' \in Seq(LiveEvents) /\ Len(s9') = Len(s9) + Len(E) /\ Len(s9) \in Nat /\ Len(E) \in Nat \ {0}
    BY LenProperties, EmptySeq
  <1>2. DOMAIN s9' = 1 .. Len(s9') /\ Len(s9') \in 1 .. Len(s9')
    BY <1>1
  <1>3. s9'[Len(s9')] = E[Len(E)]
    BY <1>1
  <1>4. s9'[Len(s9')].token # "qwen-text"
    BY <1>3
  <1>5. ASSUME NEW k \in DOMAIN s9', \A j \in DOMAIN s9' : s9'[j].token # "qwen-text" => j <= k
        PROVE  k = Len(s9')
    <2>1. Len(s9') <= k
      BY <1>2, <1>4, <1>5, Zenon
    <2>2. k <= Len(s9') /\ k \in Nat /\ Len(s9') \in Nat
      BY <1>1, <1>2
    <2> QED
      BY <2>1, <2>2
  <1>6. ASSUME NEW k \in DOMAIN s9', \A j \in DOMAIN s9' : s9'[j].token # "qwen-text" => j <= k
        PROVE  s9'[k] = Live!Announced'
    BY <1>3, <1>5, <1>6
  <1>7. ~(\A k \in DOMAIN s9' : s9'[k].token = "qwen-text")
    BY <1>2, <1>4
  <1> QED
    BY <1>1, <1>6, <1>7, Zenon DEF LiveTold

(* What the events that are delivered bring with them.                      *)
LEMMA LivePending ==
  ASSUME s9 \in Seq(LiveEvents), NEW E \in Seq(LiveEvents), s9' = s9 \o E
  PROVE  /\ (\A i \in 1 .. Len(E) : E[i] # Live!Status("Listening")) => Live!Pending' = Live!Pending
         /\ E = <<Live!Status("Listening")>> => Live!Pending' = Live!Pending \cup {Len(s9) + 1}
  <1>1. /\ Len(s9') = Len(s9) + Len(E) /\ Len(s9) \in Nat /\ Len(E) \in Nat
        /\ DOMAIN s9 = 1 .. Len(s9) /\ DOMAIN s9' = 1 .. Len(s9')
    BY LenProperties
  <1>2. \A k \in 1 .. Len(s9) : s9'[k] = s9[k]
    BY <1>1
  <1>3. \A k \in Len(s9) + 1 .. Len(s9) + Len(E) : s9'[k] = E[k - Len(s9)] /\ k - Len(s9) \in 1 .. Len(E)
    BY <1>1
  <1>4. Live!Pending' = {k \in DOMAIN s9' : s9'[k] = Live!Status("Listening")}
    BY DEF Live!Pending, Live!Status
  <1>5. ASSUME \A i \in 1 .. Len(E) : E[i] # Live!Status("Listening")
        PROVE  Live!Pending' = Live!Pending
    BY <1>1, <1>2, <1>3, <1>4, <1>5 DEF Live!Pending
  <1>6. ASSUME E = <<Live!Status("Listening")>>
        PROVE  Live!Pending' = Live!Pending \cup {Len(s9) + 1}
    <2>1. Len(E) = 1 /\ E[1] = Live!Status("Listening")
      BY <1>6
    <2>2. Len(s9') = Len(s9) + 1 /\ s9'[Len(s9) + 1] = Live!Status("Listening")
      BY <1>1, <1>3, <2>1
    <2> QED
      BY <1>1, <1>2, <1>4, <2>2 DEF Live!Pending
  <1> QED
    BY <1>5, <1>6

(* A text tells no status.                                                  *)
LEMMA LiveText1 ==
  ASSUME s9 \in Seq(LiveEvents), LiveTold, s9' = s9 \o <<Live!Event("qwen-text")>>,
         UNCHANGED <<s8, s10, s11>>
  PROVE  s9' \in Seq(LiveEvents) /\ LiveTold'
  <1> DEFINE n == Len(s9)
  <1>1. Live!Event("qwen-text") \in LiveEvents
    BY DEF Live!Event, LiveEvents
  <1>2. /\ s9' \in Seq(LiveEvents) /\ Len(s9') = n + 1 /\ n \in Nat
        /\ DOMAIN s9 = 1 .. n /\ DOMAIN s9' = 1 .. n + 1
    BY <1>1, LenProperties
  <1>3. (\A k \in 1 .. n : s9'[k] = s9[k]) /\ s9'[n + 1] = Live!Event("qwen-text")
    BY <1>2
  <1>4. s9'[n + 1].token = "qwen-text"
    BY <1>3 DEF Live!Event
  <1>5. Live!Announced' = Live!Announced /\ Live!TextOf(s8)' = Live!TextOf(s8)
    BY DEF Live!Announced, Live!Event, Live!Status, Live!TextOf
  <1>6. ASSUME NEW k \in DOMAIN s9', s9'[k].token # "qwen-text",
               \A j \in DOMAIN s9' : s9'[j].token # "qwen-text" => j <= k
        PROVE  s9'[k] = Live!Announced'
    <2>1. k \in 1 .. n
      BY <1>2, <1>4, <1>6
    <2>2. s9[k].token # "qwen-text" /\ \A j \in DOMAIN s9 : s9[j].token # "qwen-text" => j <= k
      BY <1>2, <1>3, <1>6, <2>1
    <2> QED
      BY <1>2, <1>3, <1>5, <2>1, <2>2 DEF LiveTold
  <1>7. ASSUME \A k \in DOMAIN s9' : s9'[k].token = "qwen-text"
        PROVE  s10' = Live!TextOf(s8)' /\ s11' = (s8 = "error")'
    <2>1. \A k \in DOMAIN s9 : s9[k].token = "qwen-text"
      BY <1>2, <1>3, <1>7
    <2> QED
      BY <1>5, <2>1 DEF LiveTold
  <1> QED
    BY <1>2, <1>6, <1>7, Zenon DEF LiveTold

(* A timer that fires takes the first event.                                *)
LEMMA LiveFires ==
  ASSUME LiveShape, LiveTold, Live!TimerFires
  PROVE  /\ s9' \in Seq(LiveEvents) /\ LiveTold' /\ s10' \in LiveText /\ s11' \in BOOLEAN
         /\ s9[1] \in LiveEvents /\ 1 \in DOMAIN s9
         /\ s9[1] = Live!Status("Listening") => s10' = "Listening"
         /\ s9[1] # Live!Status("Listening") => s10' = s10 \/ s10' # "Listening"
  <1> DEFINE n == Len(s9)
             e == s9[1]
  <1>1. /\ s9 # << >> /\ s9 \in Seq(LiveEvents) /\ s9' = Tail(s9)
        /\ s8' = s8 /\ s8 \in {"none", "starting", "listening", "stopped", "error"}
        /\ s10 \in LiveText /\ s11 \in BOOLEAN
    BY DEF Live!TimerFires, LiveShape
  <1>2. \/ e.token = "qwen-status" /\ s10' = e.text /\ s11' = FALSE
        \/ e.token = "qwen-error" /\ s10' = "Error" /\ s11' = TRUE
        \/ e.token = "qwen-text" /\ s10' = s10 /\ s11' = s11
    BY <1>1 DEF Live!TimerFires
  <1>3. /\ n \in Nat \ {0} /\ Len(s9') = n - 1 /\ s9' \in Seq(LiveEvents)
        /\ DOMAIN s9 = 1 .. n /\ DOMAIN s9' = 1 .. n - 1
        /\ \A k \in 1 .. n - 1 : s9'[k] = s9[k + 1]
    BY <1>1, EmptySeq, LenProperties
  <1>4. e \in LiveEvents /\ 1 \in DOMAIN s9
    BY <1>1, <1>3
  <1>5. s10' \in LiveText /\ s11' \in BOOLEAN
    BY <1>1, <1>2, <1>4 DEF LiveEvents, LiveText
  <1>6. /\ e = Live!Status("Listening") => s10' = "Listening"
        /\ e # Live!Status("Listening") => s10' = s10 \/ s10' # "Listening"
    BY <1>2, <1>4 DEF Live!Status, LiveEvents
  <1>7. Live!Announced' = Live!Announced /\ Live!TextOf(s8)' = Live!TextOf(s8)
    BY <1>1 DEF Live!Announced, Live!Event, Live!Status, Live!TextOf
  <1> HIDE DEF e
  <1>8. ASSUME NEW k \in DOMAIN s9', s9'[k].token # "qwen-text",
               \A j \in DOMAIN s9' : s9'[j].token # "qwen-text" => j <= k
        PROVE  s9'[k] = Live!Announced'
    <2>1. k \in 1 .. n - 1 /\ k + 1 \in DOMAIN s9
      BY <1>3
    <2>2. ASSUME NEW j \in DOMAIN s9, s9[j].token # "qwen-text" PROVE j <= k + 1
      <3>1. CASE j = 1
        BY <2>1, <3>1, <1>3
      <3>2. CASE j # 1
        <4>1. j - 1 \in DOMAIN s9' /\ s9'[j - 1] = s9[j]
          BY <1>3, <3>2
        <4>2. j - 1 <= k
          BY <1>8, <2>2, <4>1
        <4> QED
          BY <1>3, <2>1, <4>2
      <3> QED
        BY <3>1, <3>2
    <2>3. s9[k + 1].token # "qwen-text" /\ s9'[k] = s9[k + 1]
      BY <1>3, <1>8, <2>1
    <2> QED
      BY <1>7, <2>1, <2>2, <2>3 DEF LiveTold
  <1>9. ASSUME \A k \in DOMAIN s9' : s9'[k].token = "qwen-text"
        PROVE  s10' = Live!TextOf(s8)' /\ s11' = (s8 = "error")'
    <2>1. \A j \in DOMAIN s9 : j # 1 => s9[j].token = "qwen-text"
      <3> SUFFICES ASSUME NEW j \in DOMAIN s9, j # 1 PROVE s9[j].token = "qwen-text"
        OBVIOUS
      <3>1. j - 1 \in DOMAIN s9' /\ s9'[j - 1] = s9[j]
        BY <1>3
      <3> QED
        BY <1>9, <3>1
    <2>2. CASE e.token = "qwen-text"
      <3>1. \A j \in DOMAIN s9 : s9[j].token = "qwen-text"
        BY <2>1, <2>2 DEF e
      <3>2. s10 = Live!TextOf(s8) /\ s11 = (s8 = "error")
        BY <3>1 DEF LiveTold
      <3> QED
        BY <1>1, <1>2, <1>7, <2>2, <3>2
    <2>3. CASE e.token # "qwen-text"
      <3>1. \A j \in DOMAIN s9 : s9[j].token # "qwen-text" => j <= 1
        BY <2>1, <1>3
      <3>2. e = Live!Announced
        BY <1>4, <2>3, <3>1 DEF LiveTold, e
      <3>3. CASE s8 = "error"
        <4>1. e.token = "qwen-error" /\ Live!TextOf(s8) = "Error"
          BY <3>2, <3>3, <1>1, LiveNames DEF Live!Event
        <4> QED
          BY <1>1, <1>2, <1>7, <3>3, <4>1
      <3>4. CASE s8 # "error"
        <4>1. e.token = "qwen-status" /\ e.text = Live!TextOf(s8)
          BY <3>2, <3>4, <1>1, LiveNames DEF Live!Status
        <4> QED
          BY <1>1, <1>2, <1>7, <3>4, <4>1
      <3> QED
        BY <3>3, <3>4
    <2> QED
      BY <2>2, <2>3
  <1> QED
    BY <1>3, <1>4, <1>5, <1>6, <1>8, <1>9, Zenon DEF LiveTold, e
(* What each decision of the host tells.                                    *)
LEMMA LiveSays ==
  ASSUME s9 \in Seq(LiveEvents), NEW text \in LiveText, s8' # "error", Live!TextOf(s8)' = text,
         s8' \in {"none", "starting", "listening", "stopped", "error"},
         s9' = s9 \o <<Live!Status(text)>>
  PROVE  /\ s9' \in Seq(LiveEvents) /\ LiveTold'
         /\ text # "Listening" => Live!Pending' = Live!Pending
         /\ text = "Listening" => Live!Pending' = Live!Pending \cup {Len(s9) + 1}
  <1> DEFINE e == Live!Status(text)
             E == <<e>>
  <1>1. e \in LiveEvents /\ e.token # "qwen-text" /\ (text # "Listening" => e # Live!Status("Listening"))
    BY DEF Live!Status, LiveEvents
  <1>2. Live!Announced' = e
    BY DEF Live!Announced, Live!Status
  <1> HIDE DEF e
  <1>3. E \in Seq(LiveEvents) /\ E # <<>> /\ Len(E) = 1 /\ E[1] = e
    BY <1>1
  <1>4. s9' \in Seq(LiveEvents) /\ LiveTold'
    <2>1. s9' = s9 \o E
      BY DEF e
    <2>2. E[Len(E)] = Live!Announced' /\ E[Len(E)].token # "qwen-text"
      BY <1>1, <1>2, <1>3
    <2> HIDE DEF E
    <2> QED
      BY <1>3, <2>1, <2>2, LiveDelivers
  <1>5. text # "Listening" => Live!Pending' = Live!Pending
    <2> SUFFICES ASSUME text # "Listening" PROVE Live!Pending' = Live!Pending
      OBVIOUS
    <2>1. s9' = s9 \o E
      BY DEF e
    <2>2. \A i \in 1 .. Len(E) : E[i] # Live!Status("Listening")
      BY <1>1, <1>3
    <2> HIDE DEF E
    <2> QED
      BY <1>3, <2>1, <2>2, LivePending
  <1>6. text = "Listening" => Live!Pending' = Live!Pending \cup {Len(s9) + 1}
    <2> SUFFICES ASSUME text = "Listening" PROVE Live!Pending' = Live!Pending \cup {Len(s9) + 1}
      OBVIOUS
    <2>1. s9' = s9 \o E /\ E = <<Live!Status("Listening")>>
      BY DEF e
    <2> HIDE DEF E
    <2> QED
      BY <1>3, <2>1, LivePending
  <1> QED
    BY <1>4, <1>5, <1>6

(* An error is told, and nothing else becomes pending.                      *)
LEMMA LiveFails ==
  ASSUME s9 \in Seq(LiveEvents), s8' = "error",
         NEW E, E \in {Live!ErrorEvents, <<Live!Status("Stopped")>> \o Live!ErrorEvents},
         s9' = s9 \o E
  PROVE  s9' \in Seq(LiveEvents) /\ LiveTold' /\ Live!Pending' = Live!Pending
  <1> DEFINE a == Live!Status("Stopped")
             b == Live!Status("Error")
             c == Live!Event("qwen-error")
             d == Live!Status("Listening")
  <1>1. a \in LiveEvents /\ b \in LiveEvents /\ c \in LiveEvents
    BY DEF Live!Status, Live!Event, LiveEvents, LiveText
  <1>2. a # d /\ b # d /\ c # d /\ c.token # "qwen-text"
    BY DEF Live!Status, Live!Event
  <1>3. Live!Announced' = c
    BY DEF Live!Announced, Live!Event
  <1>4. E \in {<<b, c>>, <<a>> \o <<b, c>>}
    BY DEF Live!ErrorEvents
  <1> HIDE DEF a, b, c, d
  <1>6. /\ E \in Seq(LiveEvents) /\ E # <<>> /\ E[Len(E)] = c
        /\ \A i \in 1 .. Len(E) : E[i] # d
    <2>1. CASE E = <<b, c>>
      BY <1>1, <1>2, <2>1
    <2>2. CASE E = <<a>> \o <<b, c>>
      <3>1. <<a>> \in Seq(LiveEvents) /\ <<b, c>> \in Seq(LiveEvents)
        BY <1>1
      <3>2. E \in Seq(LiveEvents) /\ Len(E) = 3
        BY <2>2, <3>1, ConcatProperties
      <3>3. E[1] = a /\ E[2] = b /\ E[3] = c
        BY <2>2, <3>1, ConcatProperties
      <3>4. E # <<>>
        BY <3>2, SMTT(30)
      <3>5. \A i \in 1 .. 3 : E[i] # d
        BY <1>2, <3>3
      <3>6. E[Len(E)] = c
        BY <3>2, <3>3
      <3>7. \A i \in 1 .. Len(E) : E[i] # d
        BY <3>2, <3>5
      <3> QED
        BY <3>2, <3>4, <3>6, <3>7
    <2> QED
      BY <1>4, <2>1, <2>2
  <1>7. s9' \in Seq(LiveEvents) /\ LiveTold'
    BY <1>2, <1>3, <1>6, LiveDelivers
  <1>8. \A i \in 1 .. Len(E) : E[i] # Live!Status("Listening")
    BY <1>6 DEF d
  <1>9. Live!Pending' = Live!Pending
    BY <1>6, <1>8, LivePending
  <1> QED
    BY <1>7, <1>9

(* A text is not a status.                                                  *)
LEMMA LiveTextSent ==
  ASSUME s9 \in Seq(LiveEvents), s9' = s9 \o <<Live!Event("qwen-text")>>
  PROVE  Live!Pending' = Live!Pending
  <1> DEFINE e == Live!Event("qwen-text")
             E == <<e>>
  <1>1. e \in LiveEvents /\ e # Live!Status("Listening")
    BY DEF Live!Status, Live!Event, LiveEvents
  <1> HIDE DEF e
  <1>2. E \in Seq(LiveEvents) /\ \A i \in 1 .. Len(E) : E[i] # Live!Status("Listening")
    BY <1>1
  <1>3. s9' = s9 \o E
    BY DEF e
  <1> HIDE DEF E
  <1> QED
    BY <1>2, <1>3, LivePending

(* The first event leaves, the others move up.                              *)
LEMMA LivePendingFires ==
  ASSUME s9 \in Seq(LiveEvents), s9 # << >>, s9' = Tail(s9)
  PROVE  Live!Pending' = {k \in 1 .. Len(s9) - 1 : k + 1 \in Live!Pending}
  <1>1. /\ Len(s9) \in Nat \ {0} /\ DOMAIN s9 = 1 .. Len(s9) /\ DOMAIN s9' = 1 .. Len(s9) - 1
        /\ \A k \in 1 .. Len(s9) - 1 : s9'[k] = s9[k + 1] /\ k + 1 \in DOMAIN s9
    BY EmptySeq, LenProperties
  <1>2. Live!Pending' = {k \in DOMAIN s9' : s9'[k] = Live!Status("Listening")}
    BY DEF Live!Pending, Live!Status
  <1> QED
    BY <1>1, <1>2 DEF Live!Pending
-----------------------------------------------------------------------------
(* The live-translation page: the sound.                                    *)

(* Integer division keeps the order.                                        *)
LEMMA QuotientGrows ==
  ASSUME NEW a \in Int, NEW b \in Int, a <= b, NEW u \in Nat \ {0}
  PROVE  a \div u <= b \div u
  <1> DEFINE p == a \div u
             q == b \div u
  <1>1. p \in Int /\ q \in Int /\ u * p <= a /\ b < u * q + u
    BY Quotient
  <1> HIDE DEF p, q
  <1>2. ASSUME q + 1 <= p PROVE FALSE
    <2>1. u * (q + 1) <= u * p
      BY <1>1, <1>2, Multiply
    <2>2. u * (q + 1) = u * q + u
      BY <1>1
    <2>3. u * q \in Int /\ u * p \in Int
      BY <1>1, Multiply
    <2> QED
      BY <1>1, <2>1, <2>2, <2>3
  <1>3. p <= q
    BY <1>1, <1>2
  <1> QED
    BY <1>3 DEF p, q

(* Full scale is the same in both units.                                    *)
LEMMA QuotientScales ==
  ASSUME NEW a \in Int, NEW u \in Nat \ {0}
  PROVE  (160 * a) \div (160 * u) = a \div u
  <1> DEFINE q == a \div u
             v == 160 * u
             p == (160 * a) \div v
  <1>1. q \in Int /\ u * q <= a /\ a < u * q + u
    BY Quotient
  <1>2. v \in Nat \ {0} /\ 160 * a \in Int
    OBVIOUS
  <1>3. p \in Int /\ v * p <= 160 * a /\ 160 * a < v * p + v
    BY <1>2, Quotient, ZenonT(40)
  <1> HIDE DEF q, p
  <1>4. u * p \in Int /\ u * q \in Int /\ v * p = 160 * (u * p)
    BY <1>1, <1>3
  <1>5. u * p <= a /\ a < u * p + u
    BY <1>3, <1>4
  <1>6. ~(p + 1 <= q)
    <2> SUFFICES ASSUME p + 1 <= q PROVE FALSE
      OBVIOUS
    <2>1. u * (p + 1) <= u * q /\ u * (p + 1) = u * p + u
      BY <1>1, <1>3, Multiply
    <2> QED
      BY <1>1, <1>4, <1>5, <2>1
  <1>7. ~(q + 1 <= p)
    <2> SUFFICES ASSUME q + 1 <= p PROVE FALSE
      OBVIOUS
    <2>1. u * (q + 1) <= u * p /\ u * (q + 1) = u * q + u
      BY <1>1, <1>3, Multiply
    <2> QED
      BY <1>1, <1>4, <1>5, <2>1
  <1>8. p = q
    BY <1>1, <1>3, <1>6, <1>7
  <1> QED
    BY <1>8 DEF p, q, v

(* The division of the code, which truncates.                               *)
LEMMA Truncation ==
  ASSUME NEW a \in Int, NEW u \in Nat \ {0}
  PROVE  Live!TruncDiv(a, u) \in Int
  BY Quotient DEF Live!TruncDiv

(* So does division that truncates.                                         *)
LEMMA TruncationGrows ==
  ASSUME NEW a \in Int, NEW b \in Int, a <= b, NEW u \in Nat \ {0}
  PROVE  Live!TruncDiv(a, u) <= Live!TruncDiv(b, u)
  <1>1. CASE a < 0 /\ b < 0
    <2>1. (-b) \div u <= (-a) \div u /\ (-b) \div u \in Int /\ (-a) \div u \in Int
      BY QuotientGrows, Quotient
    <2> QED
      BY <1>1, <2>1 DEF Live!TruncDiv
  <1>2. CASE a < 0 /\ b >= 0
    <2>1. (-a) \div u >= 0 /\ b \div u >= 0 /\ (-a) \div u \in Int /\ b \div u \in Int
      BY <1>2, Quotient
    <2> QED
      BY <1>2, <2>1 DEF Live!TruncDiv
  <1>3. CASE a >= 0
    BY <1>3, QuotientGrows DEF Live!TruncDiv
  <1> QED
    BY <1>1, <1>2, <1>3

(* Truncation does not see a common factor.                                 *)
LEMMA TruncationScales ==
  ASSUME NEW a \in Int, NEW u \in Nat \ {0}
  PROVE  Live!TruncDiv(160 * a, 160 * u) = Live!TruncDiv(a, u)
  <1>1. (160 * a) \div (160 * u) = a \div u /\ (160 * (-a)) \div (160 * u) = (-a) \div u
    BY QuotientScales
  <1>2. 160 * (-a) = -(160 * a) /\ (a < 0 <=> 160 * a < 0)
    OBVIOUS
  <1> QED
    BY <1>1, <1>2 DEF Live!TruncDiv

(* A sample v of a scale with full value u, as it is sent.                  *)
LivePcm(v, u) == LET s == Live!Clamp(v, u)
                 IN  Live!TruncDiv(s * (IF s < 0 THEN 32768 ELSE 32767), u)

(* Truncation of a multiple is exact.                                       *)
LEMMA TruncationOfMultiple ==
  ASSUME NEW k \in Nat, NEW u \in Nat \ {0}
  PROVE  Live!TruncDiv(k * u, u) = k /\ Live!TruncDiv(-(k * u), u) = -k
  <1> DEFINE a == k * u
             q == a \div u
  <1>1. a \in Nat /\ a = u * k
    OBVIOUS
  <1>2. q \in Int /\ u * q <= a /\ a < u * q + u
    BY <1>1, Quotient
  <1> HIDE DEF a, q
  <1>3. ~(q + 1 <= k)
    <2> SUFFICES ASSUME q + 1 <= k PROVE FALSE
      OBVIOUS
    <2>1. u * (q + 1) <= u * k /\ u * (q + 1) = u * q + u /\ u * q \in Int
      BY <1>2, Multiply
    <2> QED
      BY <1>1, <1>2, <2>1
  <1>4. ~(k + 1 <= q)
    <2> SUFFICES ASSUME k + 1 <= q PROVE FALSE
      OBVIOUS
    <2>1. u * (k + 1) <= u * q /\ u * (k + 1) = u * k + u /\ u * q \in Int
      BY <1>2, Multiply
    <2> QED
      BY <1>1, <1>2, <2>1
  <1>5. q = k
    BY <1>2, <1>3, <1>4
  <1>6. (-(-a)) = a /\ ~(a < 0) /\ (a = 0 \/ -a < 0)
    BY <1>1
  <1>7. Live!TruncDiv(a, u) = k
    BY <1>5, <1>6 DEF Live!TruncDiv, q
  <1>8. Live!TruncDiv(-a, u) = -k
    <2>1. CASE a = 0
      <3>1. -a = a
        BY <1>1, <2>1
      <3>2. k = 0
        <4>1. ASSUME k >= 1 PROVE FALSE
          <5>1. u * 1 <= u * k
            BY <4>1, Multiply
          <5> QED
            BY <1>1, <2>1, <5>1
        <4> QED
          BY <4>1
      <3> QED
        BY <1>7, <3>1, <3>2
    <2>2. CASE a # 0
      BY <1>5, <1>6, <2>2 DEF Live!TruncDiv, q
    <2> QED
      BY <2>1, <2>2
  <1> QED
    BY <1>7, <1>8 DEF a

(* The ends of the scale are the ends of 16 bits.                           *)
LEMMA FullScale ==
  ASSUME NEW u \in Nat \ {0}
  PROVE  Live!TruncDiv(32767 * u, u) = 32767 /\ Live!TruncDiv(-(32768 * u), u) = -32768
  <1>1. ASSUME NEW k \in Nat, k = 32767 PROVE Live!TruncDiv(32767 * u, u) = 32767
    <2>1. Live!TruncDiv(k * u, u) = k
      BY TruncationOfMultiple
    <2> QED
      BY <1>1, <2>1
  <1>2. ASSUME NEW k \in Nat, k = 32768 PROVE Live!TruncDiv(-(32768 * u), u) = -32768
    <2>1. Live!TruncDiv(-(k * u), u) = -k
      BY TruncationOfMultiple
    <2> QED
      BY <1>2, <2>1
  <1> QED
    BY <1>1, <1>2

(* Clamping keeps the order, and the unit is free.                          *)
LEMMA ClampBounds ==
  ASSUME NEW v \in Int, NEW w \in Int, v <= w, NEW u \in Nat \ {0}
  PROVE  /\ Live!Clamp(v, u) \in Int /\ Live!Clamp(w, u) \in Int
         /\ Live!Clamp(v, u) <= Live!Clamp(w, u)
         /\ Live!Clamp(160 * v, 160 * u) = 160 * Live!Clamp(v, u)
  BY DEF Live!Clamp

(* A sample becomes 16 bits,                                                *)
LEMMA PcmBounds ==
  ASSUME NEW v \in Int, NEW u \in Nat \ {0}
  PROVE  LivePcm(v, u) \in Int /\ -32768 <= LivePcm(v, u) /\ LivePcm(v, u) <= 32767
  <1> DEFINE s == Live!Clamp(v, u)
             x == s * (IF s < 0 THEN 32768 ELSE 32767)
             hi == 32767 * u
             lo == -(32768 * u)
  <1>1. s \in Int /\ -u <= s /\ s <= u
    BY DEF Live!Clamp
  <1> HIDE DEF s
  <1>2. x \in Int /\ hi \in Int /\ lo \in Int /\ lo <= x /\ x <= hi
    BY <1>1
  <1>3. Live!TruncDiv(hi, u) = 32767 /\ Live!TruncDiv(lo, u) = -32768
    BY FullScale
  <1> HIDE DEF x, hi, lo
  <1>4. Live!TruncDiv(lo, u) <= Live!TruncDiv(x, u) /\ Live!TruncDiv(x, u) <= Live!TruncDiv(hi, u)
        /\ Live!TruncDiv(x, u) \in Int
    BY <1>2, TruncationGrows, Truncation
  <1>5. LivePcm(v, u) = Live!TruncDiv(x, u)
    BY DEF LivePcm, s, x
  <1> QED
    BY <1>3, <1>4, <1>5

(* in order,                                                                *)
LEMMA PcmGrows ==
  ASSUME NEW v \in Int, NEW w \in Int, v <= w, NEW u \in Nat \ {0}
  PROVE  LivePcm(v, u) <= LivePcm(w, u)
  <1> DEFINE s == Live!Clamp(v, u)
             t == Live!Clamp(w, u)
             x == s * (IF s < 0 THEN 32768 ELSE 32767)
             y == t * (IF t < 0 THEN 32768 ELSE 32767)
  <1>1. s \in Int /\ t \in Int /\ s <= t
    BY ClampBounds
  <1> HIDE DEF s, t
  <1>2. x \in Int /\ y \in Int /\ x <= y
    BY <1>1
  <1> HIDE DEF x, y
  <1>3. Live!TruncDiv(x, u) <= Live!TruncDiv(y, u)
    BY <1>2, TruncationGrows
  <1>4. LivePcm(v, u) = Live!TruncDiv(x, u) /\ LivePcm(w, u) = Live!TruncDiv(y, u)
    BY DEF LivePcm, s, t, x, y
  <1> QED
    BY <1>3, <1>4

(* whatever the unit,                                                       *)
LEMMA PcmScales ==
  ASSUME NEW v \in Int, NEW u \in Nat \ {0}
  PROVE  LivePcm(160 * v, 160 * u) = LivePcm(v, u)
  <1> DEFINE s == Live!Clamp(v, u)
             x == s * (IF s < 0 THEN 32768 ELSE 32767)
  <1>1. s \in Int /\ Live!Clamp(160 * v, 160 * u) = 160 * s
    BY ClampBounds
  <1> HIDE DEF s
  <1>2. (160 * s) * (IF 160 * s < 0 THEN 32768 ELSE 32767) = 160 * x /\ x \in Int
    BY <1>1
  <1>3. LivePcm(160 * v, 160 * u) = Live!TruncDiv(160 * x, 160 * u)
    BY <1>1, <1>2 DEF LivePcm
  <1>4. LivePcm(v, u) = Live!TruncDiv(x, u)
    BY DEF LivePcm, s
  <1> HIDE DEF x
  <1> QED
    BY <1>2, <1>3, <1>4, TruncationScales

(* and as the host computes it.                                             *)
LEMMA PcmOfSample ==
  ASSUME NEW v \in Int
  PROVE  LivePcm(v, Unit) = Live!Scaled(v)
  <1>1. Unit \in Nat \ {0}
    BY LiveAssumption
  <1>2. Live!TruncDiv(32767 * Unit, Unit) = 32767 /\ Live!TruncDiv(-(32768 * Unit), Unit) = -32768
    BY <1>1, FullScale
  <1>3. CASE v >= Unit
    <2>1. Live!Clamp(v, Unit) = Unit /\ ~(Unit < 0) /\ Unit * 32767 = 32767 * Unit
      BY <1>1, <1>3 DEF Live!Clamp
    <2>2. LivePcm(v, Unit) = Live!TruncDiv(32767 * Unit, Unit)
      BY <2>1 DEF LivePcm
    <2>3. Live!Scaled(v) = 32767
      BY <1>3, <1>1 DEF Live!Scaled
    <2> QED
      BY <1>2, <2>2, <2>3
  <1>4. CASE v <= -Unit
    <2>1. Live!Clamp(v, Unit) = -Unit /\ -Unit < 0 /\ (-Unit) * 32768 = -(32768 * Unit) /\ ~(v >= Unit)
      BY <1>1, <1>4 DEF Live!Clamp
    <2> QED
      BY <1>2, <1>4, <2>1 DEF LivePcm, Live!Scaled
  <1>5. CASE ~(v >= Unit) /\ ~(v <= -Unit)
    <2>1. Live!Clamp(v, Unit) = v
      BY <1>1, <1>5 DEF Live!Clamp
    <2> QED
      BY <1>5, <2>1 DEF LivePcm, Live!Scaled
  <1> QED
    BY <1>3, <1>4, <1>5

(* A number of 16 bits survives the store.                                  *)
LEMMA SixteenBits ==
  ASSUME NEW v \in Int, -32768 <= v, v <= 32767
  PROVE  Live!Int16(v) = v
  BY DEF Live!Int16

(* So a sample does.                                                        *)
LEMMA PcmFits ==
  ASSUME NEW v \in Int, NEW u \in Nat \ {0}
  PROVE  LivePcm(v, u) \in Int /\ Live!Int16(LivePcm(v, u)) = LivePcm(v, u)
  BY PcmBounds, SixteenBits

(* Interpolation between two samples, or the last one repeated.             *)
LEMMA Interpolated ==
  ASSUME NEW a \in Int, NEW b \in Int, NEW f \in 0 .. 159,
         NEW v, v = a * (160 - f) + b * f
  PROVE  /\ v \in Int
         /\ a <= b => 160 * a <= v /\ v <= 160 * b
         /\ b <= a => 160 * b <= v /\ v <= 160 * a
  <1> DEFINE d == b - a
  <1>1. v \in Int /\ v = 160 * a + d * f /\ v = 160 * b - d * (160 - f) /\ d * f \in Int /\ d * (160 - f) \in Int
    OBVIOUS
  <1>2. d >= 0 => d * f >= 0 /\ d * (160 - f) >= 0
    OBVIOUS
  <1>3. d <= 0 => d * f <= 0 /\ d * (160 - f) <= 0
    OBVIOUS
  <1>4. d \in Int /\ (a <= b <=> d >= 0) /\ (b <= a <=> d <= 0)
    OBVIOUS
  <1> HIDE DEF d
  <1> QED
    BY <1>1, <1>2, <1>3, <1>4

(* The frame that is sent: how long it is, and what its samples are.        *)
LEMMA LiveFrame ==
  ASSUME NEW frame \in Seq(Int), NEW rate \in Nat \ {0}
  PROVE  LET out == Live!floatToPCM16(Live!downsampleTo16k(frame, rate), 160 * Unit)
             L == Len(out)
         IN  /\ out \in Seq(Int)
             /\ 2 * (L * rate - Len(frame) * 160) \in (-rate) .. rate
             /\ Live!Spans(frame, out)
  <1> DEFINE n == Len(frame)
             x == Live!downsampleTo16k(frame, rate)
             one == 160 * Unit
             out == Live!floatToPCM16(x, one)
             top == 2 * n * 160 + rate
             d == 2 * rate
             L == top \div d
             left(k) == ((k - 1) * rate) \div 160
             frac(k) == ((k - 1) * rate) % 160
             at(k) == frame[left(k) + 1] * (160 - frac(k))
                      + frame[Live!Smaller(left(k) + 1, n - 1) + 1] * frac(k)
  <1>1. n \in Nat /\ \A i \in 1 .. n : frame[i] \in Int
    BY LenProperties
  <1>2. Unit \in Nat \ {0} /\ one \in Nat \ {0}
    BY LiveAssumption
  <1>17. top \in Nat /\ d \in Nat \ {0}
    BY <1>1
  <1>3. top \in Nat /\ d \in Nat \ {0} /\ top = 320 * n + rate /\ d = 2 * rate
    BY <1>1
  <1> HIDE DEF top, d
  <1>19. \A a \in Int, u \in Nat \ {0} :
            a \div u \in Int /\ (a >= 0 => a \div u >= 0)
            /\ u * (a \div u) <= a /\ a < u * (a \div u) + u
    BY Quotient
  <1>20. top \in Int
    BY <1>17
  <1>18. top \div d \in Int /\ (top >= 0 => top \div d >= 0)
         /\ d * (top \div d) <= top /\ top < d * (top \div d) + d
    BY <1>17, <1>19, <1>20, Zenon
  <1>4. L \in Nat /\ d * L <= top /\ top < d * L + d
    BY <1>17, <1>18
  <1> HIDE DEF L
  <1>5. x = [k \in 1 .. L |-> at(k)]
    BY DEF Live!downsampleTo16k, L, top, d
  <1>6. ASSUME NEW k \in 1 .. L
        PROVE  /\ left(k) + 1 \in 1 .. n /\ Live!Smaller(left(k) + 1, n - 1) + 1 \in 1 .. n
               /\ frac(k) \in 0 .. 159
    <2> DEFINE p == (k - 1) * rate
               q == p \div 160
    <2>1. k - 1 \in Nat /\ p \in Nat
      BY <1>4
    <2> HIDE DEF p
    <2>2. q \in Nat /\ 160 * q <= p /\ p % 160 \in 0 .. 159
      BY <2>1, Quotient
    <2>3. d * k <= d * L /\ d * L \in Int
      BY <1>3, <1>4, Multiply
    <2>4. d * k = 2 * p + 2 * rate
      BY <1>3, <1>4 DEF p
    <2> HIDE DEF q
    <2>5. 2 * p + 2 * rate <= 320 * n + rate
      BY <1>3, <1>4, <2>1, <2>3, <2>4, <1>1, SMTT(30)
    <2>6. q < n
      BY <1>1, <2>1, <2>2, <2>5
    <2>7. q + 1 \in 1 .. n /\ Live!Smaller(q + 1, n - 1) + 1 \in 1 .. n
      BY <1>1, <2>2, <2>6 DEF Live!Smaller
    <2> QED
      BY <2>2, <2>7 DEF p, q
  <1>7. ASSUME NEW k \in 1 .. L
        PROVE  /\ at(k) \in Int
               /\ \E i, j \in 1 .. n : 160 * frame[i] <= at(k) /\ at(k) <= 160 * frame[j]
    <2> DEFINE i == left(k) + 1
               j == Live!Smaller(left(k) + 1, n - 1) + 1
               f == frac(k)
    <2>1. i \in 1 .. n /\ j \in 1 .. n /\ f \in 0 .. 159
      BY <1>6
    <2> DEFINE a == frame[i]
               b == frame[j]
               v == at(k)
    <2>2. v = a * (160 - f) + b * f
      OBVIOUS
    <2> HIDE DEF i, j, f, at
    <2>3. a \in Int /\ b \in Int
      BY <1>1, <2>1
    <2> HIDE DEF a, b, v
    <2>4. /\ v \in Int
          /\ a <= b => 160 * a <= v /\ v <= 160 * b
          /\ b <= a => 160 * b <= v /\ v <= 160 * a
      BY <2>1, <2>2, <2>3, Interpolated
    <2>5. a <= b \/ b <= a
      BY <2>3
    <2> QED
      BY <2>1, <2>4, <2>5 DEF a, b, v
  <1> HIDE DEF at
  <1>8. DOMAIN x = 1 .. L /\ \A k \in 1 .. L : x[k] = at(k)
    BY <1>5
  <1> HIDE DEF x, one
  <1>16. \A v, w \in Int :
           /\ LivePcm(v, one) \in Int /\ Live!Int16(LivePcm(v, one)) = LivePcm(v, one)
           /\ v <= w => LivePcm(v, one) <= LivePcm(w, one)
    BY <1>2, PcmFits, PcmGrows, Zenon
  <1>9. out = [k \in 1 .. L |-> Live!Int16(LivePcm(x[k], one))]
    BY <1>8 DEF Live!floatToPCM16, LivePcm
  <1> HIDE DEF out
  <1>10. ASSUME NEW k \in 1 .. L
         PROVE  /\ out[k] \in Int
                /\ \E i, j \in 1 .. n : Live!Scaled(frame[i]) <= out[k] /\ out[k] <= Live!Scaled(frame[j])
    <2>1. x[k] \in Int
      BY <1>7, <1>8
    <2>2. out[k] = LivePcm(x[k], one) /\ out[k] \in Int
      BY <1>9, <1>16, <2>1
    <2>3. PICK i, j \in 1 .. n : 160 * frame[i] <= x[k] /\ x[k] <= 160 * frame[j]
      BY <1>7, <1>8
    <2>4. 160 * frame[i] \in Int /\ 160 * frame[j] \in Int /\ frame[i] \in Int /\ frame[j] \in Int
      BY <1>1, <2>3, SMTT(30)
    <2>5. LivePcm(160 * frame[i], one) <= LivePcm(x[k], one)
          /\ LivePcm(x[k], one) <= LivePcm(160 * frame[j], one)
      BY <1>16, <2>1, <2>3, <2>4, Zenon
    <2>6. LivePcm(160 * frame[i], one) = LivePcm(frame[i], Unit)
          /\ LivePcm(160 * frame[j], one) = LivePcm(frame[j], Unit)
      BY <1>2, <2>4, PcmScales, ZenonT(40) DEF one
    <2>7. LivePcm(frame[i], Unit) = Live!Scaled(frame[i]) /\ LivePcm(frame[j], Unit) = Live!Scaled(frame[j])
      BY <2>4, PcmOfSample
    <2> QED
      BY <2>2, <2>5, <2>6, <2>7, <2>3, Zenon
  <1>11. \A k \in 1 .. n : Live!Scaled(frame[k]) \in Int
    <2> SUFFICES ASSUME NEW v \in Int PROVE Live!Scaled(v) \in Int
      BY <1>1
    <2>2. LivePcm(v, Unit) \in Int
      BY <1>2, PcmBounds
    <2> QED
      BY <2>2, PcmOfSample
  <1>12. out \in Seq(Int) /\ Len(out) = L /\ DOMAIN out = 1 .. L
    BY <1>4, <1>9, <1>10
  <1>13. DOMAIN frame = 1 .. n
    OBVIOUS
  <1>14. Live!Spans(frame, out)
    <2> SUFFICES ASSUME NEW k \in 1 .. L
                 PROVE  \E i, j \in 1 .. n : /\ Live!Scaled(frame[i]) - 1 <= out[k]
                                             /\ out[k] <= Live!Scaled(frame[j]) + 1
      BY <1>12, <1>13 DEF Live!Spans
    <2>1. PICK i, j \in 1 .. n : Live!Scaled(frame[i]) <= out[k] /\ out[k] <= Live!Scaled(frame[j])
      BY <1>10
    <2>2. out[k] \in Int /\ Live!Scaled(frame[i]) \in Int /\ Live!Scaled(frame[j]) \in Int
      BY <1>10, <1>11
    <2> QED
      BY <2>1, <2>2, SMTT(30)
  <1>15. 2 * (L * rate - n * 160) \in (-rate) .. rate
    <2>1. d * L = 2 * (L * rate) /\ L * rate \in Int
      BY <1>3, <1>4
    <2> QED
      BY <1>1, <1>3, <1>4, <2>1
  <1> QED
    BY <1>12, <1>14, <1>15 DEF out, x, one, n
(* A step that sends no sound leaves it faithful.                           *)
LEMMA LiveQuiet ==
  ASSUME LiveSound, s12' = s12
  PROVE  LiveSound'
  BY DEF LiveSound, Live!AudioIsFaithful

(* An announced state, and a session that did not change.                   *)
LEMMA LiveSame ==
  ASSUME LiveTold, LiveHeard, UNCHANGED <<s8, s9, s10, s11>>
  PROVE  LiveTold' /\ Live!Pending' = Live!Pending
  <1>1. Live!Announced' = Live!Announced /\ Live!TextOf(s8)' = Live!TextOf(s8)
    BY DEF Live!Announced, Live!Event, Live!Status, Live!TextOf
  <1>2. Live!Pending' = Live!Pending
    BY DEF Live!Pending, Live!Status
  <1> QED
    BY <1>1, <1>2 DEF LiveTold

(* The page begins with no session and nothing to tell.                     *)
LEMMA LiveStarts == Live!Init => Live!Inv
  <1> SUFFICES ASSUME Live!Init PROVE Live!Inv
    OBVIOUS
  <1>1. s9 = << >> /\ s12 = << >> /\ s8 = "none" /\ s10 = "Ready" /\ s2 = 0 /\ s4 = {} /\ s11 = FALSE
        /\ s3 = [s \in Sessions |-> "none"]
    BY DEF Live!Init
  <1>9. s1 \in BOOLEAN /\ s5 = 0 /\ s6 = {} /\ s7 = FALSE
    BY DEF Live!Init
  <1>10. s9 \in Seq(LiveEvents)
    BY <1>1
  <1>11. s3 \in [Sessions -> {"none", "connecting", "open", "failing", "closing", "closed"}]
    BY <1>1
  <1>2. LiveShape
    BY <1>1, <1>9, <1>10, <1>11 DEF LiveShape, LiveText
  <1>3. Live!Pending = {} /\ DOMAIN s9 = {}
    BY <1>1 DEF Live!Pending
  <1>4. Live!TextOf(s8) = "Ready"
    BY <1>1 DEF Live!TextOf
  <1>5. LiveTold
    BY <1>1, <1>3, <1>4 DEF LiveTold
  <1>6. LiveSession
    BY <1>1 DEF LiveSession
  <1>7. LiveHeard
    BY <1>1, <1>3 DEF LiveHeard
  <1>8. LiveSound
    BY <1>1 DEF LiveSound, Live!AudioIsFaithful
  <1> QED
    BY <1>2, <1>5, <1>6, <1>7, <1>8, LiveWhole

(* The intents of the page, and the timer.                                  *)
LEMMA LiveIntents ==
  ASSUME LiveShape, LiveTold, LiveSession, LiveHeard, LiveSound,
         \/ Live!StartAgain \/ Live!StartUnconfigured \/ Live!startListening
         \/ Live!stopListening \/ Live!TimerFires
  PROVE  LiveShape' /\ LiveTold' /\ LiveSession' /\ LiveHeard' /\ LiveSound' /\ Live!KeepsError
  <1> DEFINE Goal == LiveShape' /\ LiveTold' /\ LiveSession' /\ LiveHeard' /\ LiveSound' /\ Live!KeepsError
  <1>0. s9 \in Seq(LiveEvents) /\ Sessions \subseteq Nat \ {0}
    BY LiveAssumption DEF LiveShape
  <1>1. ASSUME Live!StartAgain PROVE Goal
    <2>1. UNCHANGED <<s1, s2, s3, s4, s5, s6, s7, s8, s9, s10, s11, s12>>
      BY <1>1 DEF Live!StartAgain, Live!vars
    <2>2. LiveTold' /\ Live!Pending' = Live!Pending /\ LiveSound'
      BY <2>1, LiveSame, LiveQuiet
    <2> QED
      BY <2>1, <2>2 DEF LiveShape, LiveSession, LiveHeard, Live!KeepsError
  <1>2. ASSUME Live!StartUnconfigured PROVE Goal
    <2>1. /\ s10 # "Listening" /\ s2 = 0 /\ ~s1 /\ s8' = "error" /\ s9' = s9 \o Live!ErrorEvents
          /\ UNCHANGED <<s1, s2, s3, s4, s5, s6, s7, s10, s11, s12>>
      BY <1>2 DEF Live!StartUnconfigured, Live!setStatus, Live!deliver, Live!device
    <2>2. s9' \in Seq(LiveEvents) /\ LiveTold' /\ Live!Pending' = Live!Pending
      BY <1>0, <2>1, LiveFails
    <2>3. LiveSound'
      BY <2>1, LiveQuiet
    <2> QED
      BY <2>1, <2>2, <2>3 DEF LiveShape, LiveSession, LiveHeard, Live!KeepsError
  <1>3. ASSUME Live!startListening PROVE Goal
    <2>1. PICK s \in Sessions :
            /\ s10 # "Listening" /\ s2 = 0 /\ s1 /\ s3[s] = "none" /\ s8' = "starting"
            /\ s9' = s9 \o <<Live!Status("Starting")>> /\ s7' = FALSE /\ s2' = s
            /\ s3' = [s3 EXCEPT ![s] = "connecting"]
            /\ UNCHANGED <<s1, s4, s5, s6, s10, s11, s12>>
      BY <1>3 DEF Live!startListening, Live!setStatus, Live!deliver, Live!Unused
    <2>2. Live!TextOf(s8)' = "Starting"
      BY <2>1 DEF Live!TextOf
    <2>3. s9' \in Seq(LiveEvents) /\ LiveTold' /\ Live!Pending' = Live!Pending
      BY <1>0, <2>1, <2>2, LiveSays DEF LiveText
    <2>4. LiveSound'
      BY <2>1, LiveQuiet
    <2>5. Live!Pending = {} /\ s4 = {}
      BY <2>1 DEF LiveSession, LiveHeard
    <2>6. LiveShape'
      BY <2>1, <2>3 DEF LiveShape
    <2>9. \A t \in Sessions : s3'[t] = IF t = s THEN "connecting" ELSE s3[t]
      BY <2>1 DEF LiveShape
    <2>7. LiveSession'
      BY <1>0, <2>1, <2>5, <2>9 DEF LiveSession
    <2>8. LiveHeard'
      BY <2>1, <2>3, <2>5 DEF LiveHeard
    <2> QED
      BY <2>1, <2>3, <2>4, <2>6, <2>7, <2>8 DEF Live!KeepsError
  <1>4. ASSUME Live!stopListening PROVE Goal
    <2>1. /\ s10 = "Listening" /\ s6' = s6 \ {s5} /\ s5' = 0 /\ s2' = 0
          /\ s3' = [s \in Sessions |-> IF s = s2 THEN Live!Closed(s) ELSE s3[s]]
          /\ s8' = "stopped" /\ s9' = s9 \o <<Live!Status("Stopped")>>
          /\ UNCHANGED <<s1, s4, s7, s10, s11, s12>>
      BY <1>4 DEF Live!stopListening, Live!Release, Live!stopMicrophone, Live!setStatus, Live!deliver
    <2>2. Live!TextOf(s8)' = "Stopped"
      BY <2>1 DEF Live!TextOf
    <2>3. s9' \in Seq(LiveEvents) /\ LiveTold' /\ Live!Pending' = Live!Pending
      BY <1>0, <2>1, <2>2, LiveSays DEF LiveText
    <2>4. LiveSound'
      BY <2>1, LiveQuiet
    <2>5. Live!Pending = {} /\ s4 = {} /\ (s2 # 0 => s3[s2] # "connecting") /\ (s2 = 0 => s8 = "stopped")
      BY <2>1 DEF LiveSession, LiveHeard
    <2>6. /\ s3' \in [Sessions -> {"none", "connecting", "open", "failing", "closing", "closed"}]
          /\ \A s \in Sessions \ {s2} : s3'[s] = s3[s]
          /\ s2 \in Sessions => s3'[s2] \in {"none", "closing", "closed", "failing"}
                                /\ (s3[s2] # "failing" => s3'[s2] # "failing")
                                /\ (s3[s2] = "none" => s3'[s2] = "none")
      BY <1>0, <2>1, <2>5 DEF LiveShape, Live!Closed
    <2>7. s2 \in Sessions => s3[s2] # "failing"
      BY DEF LiveSession
    <2>8. LiveShape'
      BY <2>1, <2>3, <2>6 DEF LiveShape
    <2>9. LiveSession'
      BY <1>0, <2>1, <2>5, <2>6, <2>7 DEF LiveShape, LiveSession
    <2>10. LiveHeard'
      BY <2>1, <2>3, <2>5 DEF LiveHeard
    <2> QED
      BY <2>1, <2>3, <2>4, <2>5, <2>8, <2>9, <2>10 DEF Live!KeepsError
  <1>5. ASSUME Live!TimerFires PROVE Goal
    <2>1. s9 # << >> /\ s9' = Tail(s9) /\ UNCHANGED <<s1, s2, s3, s4, s5, s6, s7, s8, s12>>
      BY <1>5 DEF Live!TimerFires, Live!device
    <2>2. /\ s9' \in Seq(LiveEvents) /\ LiveTold' /\ s10' \in LiveText /\ s11' \in BOOLEAN
          /\ 1 \in DOMAIN s9
          /\ s9[1] = Live!Status("Listening") => s10' = "Listening"
          /\ s9[1] # Live!Status("Listening") => s10' = s10 \/ s10' # "Listening"
      BY <1>5, LiveFires
    <2>3. Live!Pending' = {k \in 1 .. Len(s9) - 1 : k + 1 \in Live!Pending}
      BY <1>0, <2>1, LivePendingFires
    <2>4. Len(s9) \in Nat
      BY <1>0
    <2>5. LiveSound'
      BY <2>1, LiveQuiet
    <2>6. LiveShape' /\ LiveSession' /\ Live!KeepsError
      BY <2>1, <2>2 DEF LiveShape, LiveSession, Live!KeepsError
    <2>7. LiveHeard'
      <3>1. CASE s9[1] = Live!Status("Listening")
        <4>1. 1 \in Live!Pending
          BY <2>2, <3>1 DEF Live!Pending, Live!Status
        <4>2. Live!Pending' = {}
          BY <2>3, <2>4, <4>1 DEF LiveHeard
        <4>3. s2 # 0 /\ ~(s3[s2] = "connecting" \/ s4 # {})
          BY <4>1 DEF LiveHeard
        <4> QED
          BY <2>1, <4>2, <4>3 DEF LiveHeard
      <3>2. CASE s9[1] # Live!Status("Listening")
        <4>1. Live!Pending' # {} => Live!Pending # {}
          BY <2>3
        <4>2. \A j, k \in Live!Pending' : j = k
          BY <2>3, <2>4 DEF LiveHeard
        <4>3. s10' = s10 \/ s10' # "Listening"
          BY <2>2, <3>2
        <4> QED
          BY <2>1, <4>1, <4>2, <4>3 DEF LiveHeard
      <3> QED
        BY <3>1, <3>2
    <2> QED
      BY <2>2, <2>5, <2>6, <2>7
  <1> QED
    BY <1>1, <1>2, <1>3, <1>4, <1>5

(* The socket, the microphone and the audio thread.                         *)
LEMMA LiveCallbacks ==
  ASSUME LiveShape, LiveTold, LiveSession, LiveHeard, LiveSound, NEW s \in Sessions,
         \/ Live!Opened(s) \/ Live!SocketError(s) \/ Live!SocketClosed(s)
         \/ Live!startMicrophone(s) \/ Live!MicrophoneRefused(s)
         \/ \E kind \in {"status", "stopped", "text", "error"} : Live!Message(s, kind)
  PROVE  LiveShape' /\ LiveTold' /\ LiveSession' /\ LiveHeard' /\ LiveSound' /\ Live!KeepsError
  <1> DEFINE Goal == LiveShape' /\ LiveTold' /\ LiveSession' /\ LiveHeard' /\ LiveSound' /\ Live!KeepsError
  <1>0. s9 \in Seq(LiveEvents) /\ Sessions \subseteq Nat \ {0} /\ s # 0
    BY LiveAssumption DEF LiveShape
  <1>1. ASSUME s3[s] \in {"connecting", "open", "failing"} PROVE s2 = s /\ s1
    BY <1>1 DEF LiveSession
  <1>2. ASSUME s \in s4
        PROVE  /\ s2 = s /\ s4 = {s} /\ s10 # "Listening" /\ Live!Pending = {}
               /\ s3[s] \in {"open", "closing", "closed"} /\ s1
    <2>1. s2 = s /\ s4 = {s} /\ s3[s] \in {"open", "closing", "closed"} /\ s2 # 0
      BY <1>0, <1>2 DEF LiveSession
    <2>2. s10 # "Listening" /\ Live!Pending = {}
      BY <2>1 DEF LiveHeard
    <2> QED
      BY <2>1, <2>2, <1>0 DEF LiveSession
  <1>3. ASSUME Live!Opened(s) PROVE Goal
    <2>1. /\ s3[s] = "connecting" /\ s3' = [s3 EXCEPT ![s] = "open"] /\ s4' = s4 \cup {s}
          /\ UNCHANGED <<s1, s2, s5, s6, s7, s8, s9, s10, s11, s12>>
      BY <1>3 DEF Live!Opened
    <2>2. s2 = s /\ s1
      BY <1>1, <2>1
    <2>3. s10 # "Listening" /\ Live!Pending = {}
      BY <1>0, <2>1, <2>2 DEF LiveHeard
    <2>4. LiveTold' /\ Live!Pending' = Live!Pending /\ LiveSound'
      BY <2>1, LiveSame, LiveQuiet
    <2>5. LiveShape'
      BY <2>1 DEF LiveShape
    <2>6. LiveSession'
      BY <1>0, <2>1, <2>2 DEF LiveShape, LiveSession
    <2>7. LiveHeard'
      BY <2>1, <2>2, <2>3, <2>4, <1>0 DEF LiveHeard
    <2> QED
      BY <2>1, <2>4, <2>5, <2>6, <2>7 DEF Live!KeepsError
  <1>4. ASSUME Live!SocketError(s) PROVE Goal
    <2>1. /\ s3[s] \in {"connecting", "open", "failing"} /\ s3' = [s3 EXCEPT ![s] = "closing"] /\ s7' = TRUE
          /\ s8' = "error" /\ s9' = s9 \o Live!ErrorEvents
          /\ UNCHANGED <<s1, s2, s4, s5, s6, s10, s11, s12>>
      BY <1>4 DEF Live!SocketError, Live!setStatus, Live!deliver
    <2>2. s2 = s /\ s1
      BY <1>1, <2>1
    <2>3. s9' \in Seq(LiveEvents) /\ LiveTold' /\ Live!Pending' = Live!Pending
      BY <1>0, <2>1, LiveFails
    <2>4. LiveSound'
      BY <2>1, LiveQuiet
    <2>5. LiveShape'
      BY <2>1, <2>3 DEF LiveShape
    <2>6. LiveSession'
      BY <1>0, <2>1, <2>2 DEF LiveShape, LiveSession
    <2>7. LiveHeard'
      BY <1>0, <2>1, <2>2, <2>3 DEF LiveHeard, LiveShape
    <2> QED
      BY <2>1, <2>3, <2>4, <2>5, <2>6, <2>7 DEF Live!KeepsError
  <1>5. ASSUME Live!Stopped, UNCHANGED <<s10, s11>>, s7' = s7, s1
        PROVE  /\ s9' \in Seq(LiveEvents) /\ LiveTold' /\ Live!Pending' = Live!Pending
               /\ s8' = s8 \/ (s8' = "stopped" /\ ~s7 /\ s8 # "error")
    <2>1. CASE s7
      <3>1. UNCHANGED <<s8, s9>>
        BY <1>5, <2>1 DEF Live!Stopped
      <3> QED
        BY <1>0, <1>5, <3>1, LiveSame
    <2>2. CASE ~s7
      <3>1. s8' = "stopped" /\ s9' = s9 \o <<Live!Status("Stopped")>>
        BY <1>5, <2>2 DEF Live!Stopped, Live!setStatus, Live!deliver
      <3>2. Live!TextOf(s8)' = "Stopped"
        BY <3>1 DEF Live!TextOf
      <3>3. s9' \in Seq(LiveEvents) /\ LiveTold' /\ Live!Pending' = Live!Pending
        BY <1>0, <3>1, <3>2, LiveSays DEF LiveText
      <3> QED
        BY <1>5, <2>2, <3>1, <3>3 DEF LiveSession
    <2> QED
      BY <2>1, <2>2
  <1>6. ASSUME Live!SocketClosed(s) PROVE Goal
    <2>1. /\ s3[s] \in {"open", "closing"} /\ s3' = [s3 EXCEPT ![s] = "closed"] /\ Live!Stopped
          /\ UNCHANGED <<s1, s2, s4, s5, s6, s7, s10, s11, s12>>
      BY <1>6 DEF Live!SocketClosed
    <2>2. s1
      BY <2>1 DEF LiveSession
    <2>3. /\ s9' \in Seq(LiveEvents) /\ LiveTold' /\ Live!Pending' = Live!Pending
          /\ s8' = s8 \/ (s8' = "stopped" /\ ~s7 /\ s8 # "error")
      BY <1>5, <2>1, <2>2
    <2>4. LiveSound'
      BY <2>1, LiveQuiet
    <2>5. LiveShape'
      BY <2>1, <2>3 DEF LiveShape
    <2>6. LiveSession'
      BY <1>0, <2>1, <2>2, <2>3 DEF LiveShape, LiveSession
    <2>7. LiveHeard'
      BY <1>0, <2>1, <2>3 DEF LiveHeard, LiveShape
    <2> QED
      BY <2>1, <2>3, <2>4, <2>5, <2>6, <2>7 DEF Live!KeepsError
  <1>7. ASSUME Live!startMicrophone(s) PROVE Goal
    <2>1. /\ s \in s4 /\ s4' = s4 \ {s} /\ s5' = s /\ s6' = s6 \cup {s} /\ s8' = "listening"
          /\ s9' = s9 \o <<Live!Status("Listening")>>
          /\ UNCHANGED <<s1, s2, s3, s7, s10, s11, s12>>
      BY <1>7 DEF Live!startMicrophone, Live!setStatus, Live!deliver
    <2>2. /\ s2 = s /\ s4 = {s} /\ s10 # "Listening" /\ Live!Pending = {}
          /\ s3[s] \in {"open", "closing", "closed"} /\ s1
      BY <1>2, <2>1
    <2>3. Live!TextOf(s8)' = "Listening"
      BY <2>1 DEF Live!TextOf
    <2>4. s9' \in Seq(LiveEvents) /\ LiveTold' /\ Live!Pending' = Live!Pending \cup {Len(s9) + 1}
      BY <1>0, <2>1, <2>3, LiveSays DEF LiveText
    <2>5. LiveSound'
      BY <2>1, LiveQuiet
    <2>6. LiveShape'
      BY <2>1, <2>4 DEF LiveShape
    <2>7. LiveSession'
      BY <1>0, <2>1, <2>2 DEF LiveShape, LiveSession
    <2>8. LiveHeard'
      BY <1>0, <2>1, <2>2, <2>4 DEF LiveHeard
    <2> QED
      BY <2>1, <2>4, <2>5, <2>6, <2>7, <2>8 DEF Live!KeepsError
  <1>8. ASSUME Live!MicrophoneRefused(s) PROVE Goal
    <2>1. /\ s \in s4 /\ s4' = s4 \ {s} /\ s7' = TRUE /\ s6' = s6 \ {s5} /\ s5' = 0 /\ s2' = 0
          /\ s3' = [t \in Sessions |-> IF t = s2 THEN Live!Closed(t) ELSE s3[t]]
          /\ s8' = "error" /\ s9' = s9 \o (<<Live!Status("Stopped")>> \o Live!ErrorEvents)
          /\ UNCHANGED <<s1, s10, s11, s12>>
      BY <1>8 DEF Live!MicrophoneRefused, Live!Release, Live!stopMicrophone, Live!setStatus, Live!deliver
    <2>2. /\ s2 = s /\ s4 = {s} /\ s10 # "Listening" /\ Live!Pending = {}
          /\ s3[s] \in {"open", "closing", "closed"} /\ s1
      BY <1>2, <2>1
    <2>3. s9' \in Seq(LiveEvents) /\ LiveTold' /\ Live!Pending' = Live!Pending
      BY <1>0, <2>1, LiveFails
    <2>4. LiveSound'
      BY <2>1, LiveQuiet
    <2>5. /\ s3' \in [Sessions -> {"none", "connecting", "open", "failing", "closing", "closed"}]
          /\ \A t \in Sessions \ {s} : s3'[t] = s3[t]
          /\ s3'[s] \in {"closing", "closed"}
      BY <2>1, <2>2 DEF LiveShape, Live!Closed
    <2>6. LiveShape'
      BY <2>1, <2>3, <2>5 DEF LiveShape
    <2>7. LiveSession'
      BY <2>1, <2>2, <2>5 DEF LiveSession
    <2>8. LiveHeard'
      BY <2>1, <2>2, <2>3 DEF LiveHeard
    <2> QED
      BY <2>1, <2>3, <2>4, <2>6, <2>7, <2>8 DEF Live!KeepsError
  <1>9. ASSUME NEW kind \in {"status", "stopped", "text", "error"}, Live!Message(s, kind) PROVE Goal
    <2>1. /\ s3[s] = "open" /\ UNCHANGED <<s1, s2, s3, s4, s5, s6, s10, s11, s12>>
          /\ \/ UNCHANGED <<s7, s8, s9>>
             \/ Live!Stopped /\ UNCHANGED s7
             \/ s9' = s9 \o <<Live!Event("qwen-text")>> /\ UNCHANGED <<s7, s8>>
             \/ s8' = "error" /\ s9' = s9 \o Live!ErrorEvents /\ s7' = TRUE
      BY <1>9 DEF Live!Message, Live!device, Live!deliver, Live!setStatus
    <2>2. s2 = s /\ s1
      BY <1>1, <2>1
    <2>3. /\ s9' \in Seq(LiveEvents) /\ LiveTold' /\ Live!Pending' = Live!Pending
          /\ \/ s8' = s8 /\ s7' = s7
             \/ s8' = "stopped" /\ ~s7 /\ s8 # "error" /\ s7' = s7
             \/ s8' = "error" /\ s7' = TRUE
      <3>1. CASE UNCHANGED <<s7, s8, s9>>
        BY <1>0, <2>1, <3>1, LiveSame
      <3>2. CASE Live!Stopped /\ UNCHANGED s7
        BY <1>5, <2>1, <2>2, <3>2
      <3>3. CASE s9' = s9 \o <<Live!Event("qwen-text")>> /\ UNCHANGED <<s7, s8>>
        BY <1>0, <2>1, <3>3, LiveText1, LiveTextSent
      <3>4. CASE s8' = "error" /\ s9' = s9 \o Live!ErrorEvents /\ s7' = TRUE
        BY <1>0, <3>4, LiveFails
      <3> QED
        BY <2>1, <3>1, <3>2, <3>3, <3>4
    <2>4. LiveSound'
      BY <2>1, LiveQuiet
    <2>5. LiveShape'
      BY <2>1, <2>3 DEF LiveShape
    <2>6. LiveSession'
      BY <2>1, <2>2, <2>3 DEF LiveSession
    <2>7. LiveHeard'
      BY <1>0, <2>1, <2>2, <2>3 DEF LiveHeard
    <2> QED
      BY <2>3, <2>4, <2>5, <2>6, <2>7 DEF Live!KeepsError
  <1> QED
    BY <1>3, <1>4, <1>6, <1>7, <1>8, <1>9

(* What the page says follows what its session does, whichever event comes  *)
(* next.                                                                    *)
LEMMA LiveKeeps ==
  ASSUME Live!Inv, Live!Next
  PROVE  Live!Inv' /\ Live!KeepsError
  <1>1. LiveShape /\ LiveTold /\ LiveSession /\ LiveHeard /\ LiveSound
    BY LiveWhole
  <1> DEFINE Goal == LiveShape' /\ LiveTold' /\ LiveSession' /\ LiveHeard' /\ LiveSound' /\ Live!KeepsError
  <1>2. ASSUME NEW frame \in AudioFrames, NEW rate \in Rates, Live!AudioFrame(frame, rate) PROVE Goal
    <2> DEFINE out == Live!floatToPCM16(Live!downsampleTo16k(frame, rate), 160 * Unit)
    <2>1. s12' = out /\ UNCHANGED <<s1, s2, s3, s4, s5, s6, s7, s8, s9, s10, s11>>
      BY <1>2 DEF Live!AudioFrame, Live!device
    <2>2. frame \in Seq(Int) /\ rate \in Nat \ {0}
      BY LiveAssumption
    <2>3. /\ out \in Seq(Int) /\ 2 * (Len(out) * rate - Len(frame) * 160) \in (-rate) .. rate
          /\ Live!Spans(frame, out)
      BY <2>2, LiveFrame
    <2> HIDE DEF out
    <2>4. LiveSound'
      BY <2>1, <2>3 DEF LiveSound, Live!AudioIsFaithful, Live!Spans, Live!Scaled, Live!TruncDiv
    <2>5. LiveTold' /\ Live!Pending' = Live!Pending
      BY <1>1, <2>1, LiveSame
    <2> QED
      BY <1>1, <2>1, <2>4, <2>5 DEF LiveShape, LiveSession, LiveHeard, Live!KeepsError
  <1>3. Goal
    BY <1>1, <1>2, LiveIntents, LiveCallbacks DEF Live!Next
  <1> QED
    BY <1>3, LiveWholeNext

(* A step of no component leaves the microphone page as it is.              *)
LEMMA LiveStays ==
  ASSUME Live!Inv, UNCHANGED vars
  PROVE  Live!Inv'
  <1>1. LiveShape /\ LiveTold /\ LiveSession /\ LiveHeard /\ LiveSound
    BY LiveWhole
  <1>2. UNCHANGED <<s1, s2, s3, s4, s5, s6, s7, s8, s9, s10, s11, s12>>
    BY DEF vars
  <1>3. LiveTold' /\ Live!Pending' = Live!Pending /\ LiveSound'
    BY <1>1, <1>2, LiveSame, LiveQuiet
  <1>4. LiveShape' /\ LiveSession' /\ LiveHeard'
    BY <1>1, <1>2, <1>3 DEF LiveShape, LiveSession, LiveHeard
  <1> QED
    BY <1>3, <1>4, LiveWholeNext

-----------------------------------------------------------------------------
(* The boxes of the explorer and of the primer.                             *)

(* What a box can show.                                                     *)
BoxesOut == {"", "running", "error"} \cup BoxTexts

(* The types of what the page keeps.                                        *)
BoxesShape ==
    /\ s1 \in {"primer", "latex"} /\ s2 \in {"loading", "running", "ready", "failed"}
    /\ s3 \in [Boxes -> BoxTexts] /\ s4 \in [Boxes -> BoxesOut] /\ s5 \in [Boxes -> BOOLEAN]
    /\ s6 \in [Boxes -> Seq(BoxTexts)] /\ s7 \in Int /\ s8 \in 0 .. Explorer!Last
    /\ s9 \in Boxes \cup {0}

(* The boxes whose button is disabled.                                      *)
BoxesBusy == {b \in Boxes : s5[b]}

(* Every busy box has one run, and the page counts them.                    *)
BoxesCount ==
    IF s2 \in {"running", "ready"}
    THEN /\ \A b \in Boxes : Len(s6[b]) = (IF s5[b] THEN 1 ELSE 0)
         /\ s1 = "latex" => s7 = Cardinality(BoxesBusy)
    ELSE s7 = 0 /\ \A b \in Boxes : s6[b] = <<>>

(* The invariant of the explorer is these parts.                            *)
LEMMA BoxesWhole == Explorer!Inv <=> BoxesShape /\ BoxesCount
  <1>1. Explorer!TypeOK <=> BoxesShape
    BY Zenon DEF Explorer!TypeOK, BoxesShape, Explorer!Outputs, BoxesOut
  <1>2. Explorer!Cardinality({b \in Boxes : s5[b]}) = Cardinality(BoxesBusy)
    BY DEF Explorer!Cardinality, Cardinality, BoxesBusy
  <1>3. Explorer!Wired <=> s2 \in {"running", "ready"}
    BY DEF Explorer!Wired
  <1>4. Explorer!BusyCountsRuns <=>
          (Explorer!Wired => /\ \A b \in Boxes : Len(s6[b]) = (IF s5[b] THEN 1 ELSE 0)
                             /\ s1 = "latex" => s7 = Cardinality(BoxesBusy))
    BY <1>2, Zenon DEF Explorer!BusyCountsRuns
  <1> QED
    BY <1>1, <1>3, <1>4, Zenon DEF Explorer!Inv, BoxesCount

(* The same, after a step.                                                  *)
LEMMA BoxesWholeNext == (BoxesShape /\ BoxesCount)' => Explorer!Inv'
  BY BoxesWhole, PTL

(* The boxes are numbered.                                                  *)
LEMMA BoxesLast ==
  /\ IsFiniteSet(Boxes) /\ Explorer!Last \in Boxes /\ Boxes = 1 .. Explorer!Last
  /\ Explorer!Last \in Nat
  <1>1. PICK n \in Boxes : n \in Nat /\ Boxes = 1 .. n
    BY BoxesAssumption
  <1>2. IsFiniteSet(1 .. n)
    <2>1. n \in Int
      BY <1>1
    <2> QED
      BY <2>1, FS_Interval
  <1>3. n \in Boxes /\ \A c \in Boxes : c <= n
    BY <1>1
  <1>4. Explorer!Last \in Boxes /\ \A c \in Boxes : c <= Explorer!Last
    BY <1>3 DEF Explorer!Last
  <1>5. Explorer!Last = n
    BY <1>1, <1>3, <1>4
  <1> QED
    BY <1>1, <1>2, <1>3, <1>5

(* What a box can show besides a text.                                      *)
LEMMA BoxesWords == "" \in BoxesOut /\ "running" \in BoxesOut /\ "error" \in BoxesOut /\ BoxTexts \subseteq BoxesOut
  BY Zenon DEF BoxesOut

(* No box runs before the page is ready.                                    *)
LEMMA BoxesStarts == Explorer!Init => Explorer!Inv
  <1> SUFFICES ASSUME Explorer!Init PROVE BoxesShape /\ BoxesCount
    BY BoxesWhole
  <1>1. s4 \in [Boxes -> BoxesOut]
    <2>1. s4 = [b \in Boxes |-> ""]
      BY Zenon DEF Explorer!Init
    <2> QED
      BY <2>1, BoxesWords, Zenon
  <1>2. s2 = "loading" /\ s1 \in {"primer", "latex"} /\ s5 = [b \in Boxes |-> TRUE]
        /\ s6 = [b \in Boxes |-> <<>>] /\ s7 = 0 /\ s8 = 0 /\ s9 = 0
        /\ s3 = [b \in Boxes |-> "default"]
    BY Zenon DEF Explorer!Init
  <1> QED
    BY <1>1, <1>2, BoxesAssumption, BoxesLast DEF BoxesShape, BoxesCount

(* A box that becomes busy, and one that comes back.                        *)
LEMMA BoxesTaken ==
  ASSUME NEW b \in Boxes, ~s5[b], s5' = [s5 EXCEPT ![b] = TRUE], s5 \in [Boxes -> BOOLEAN]
  PROVE  Cardinality(BoxesBusy)' = Cardinality(BoxesBusy) + 1
  <1>1. BoxesBusy \subseteq Boxes /\ b \notin BoxesBusy /\ BoxesBusy' = BoxesBusy \cup {b}
    BY DEF BoxesBusy
  <1>2. IsFiniteSet(BoxesBusy)
    BY <1>1, BoxesLast, FS_Subset
  <1>3. Cardinality(BoxesBusy \cup {b}) = Cardinality(BoxesBusy) + 1
    BY <1>1, <1>2, FS_AddElement
  <1> QED
    BY <1>1, <1>3

(* One busy box less.                                                       *)
LEMMA BoxesFreed ==
  ASSUME NEW b \in Boxes, s5[b], s5' = [s5 EXCEPT ![b] = FALSE], s5 \in [Boxes -> BOOLEAN]
  PROVE  Cardinality(BoxesBusy)' = Cardinality(BoxesBusy) - 1
  <1>1. BoxesBusy \subseteq Boxes /\ b \in BoxesBusy /\ BoxesBusy' = BoxesBusy \ {b}
    BY DEF BoxesBusy
  <1>2. IsFiniteSet(BoxesBusy)
    BY <1>1, BoxesLast, FS_Subset
  <1>3. Cardinality(BoxesBusy \ {b}) = Cardinality(BoxesBusy) - 1
    BY <1>1, <1>2, FS_RemoveElement
  <1> QED
    BY <1>1, <1>3

(* go() keeps buttons, programs and counter together.                       *)
LEMMA BoxesBegin ==
  ASSUME BoxesShape, BoxesCount, s2 \in {"running", "ready"}, NEW b \in Boxes, NEW t \in BoxTexts,
         Explorer!Begin(b, t), s1' = s1, s2' \in {"running", "ready"}
  PROVE  /\ s4' \in [Boxes -> BoxesOut] /\ s5' \in [Boxes -> BOOLEAN]
         /\ s6' \in [Boxes -> Seq(BoxTexts)] /\ s7' \in Int /\ BoxesCount'
  <1>0. BoxesCount' <=> /\ \A c \in Boxes : Len(s6'[c]) = (IF s5'[c] THEN 1 ELSE 0)
                        /\ s1 = "latex" => s7' = Cardinality(BoxesBusy)'
    BY DEF BoxesCount
  <1>1. /\ \A c \in Boxes : Len(s6[c]) = (IF s5[c] THEN 1 ELSE 0)
        /\ s1 = "latex" => s7 = Cardinality(BoxesBusy)
    BY DEF BoxesCount
  <1>2. /\ s4 \in [Boxes -> BoxesOut] /\ s5 \in [Boxes -> BOOLEAN]
        /\ s6 \in [Boxes -> Seq(BoxTexts)] /\ s7 \in Int
    BY DEF BoxesShape
  <1>3. CASE UNCHANGED <<s4, s5, s6, s7>>
    <2>1. BoxesBusy' = BoxesBusy
      BY <1>3 DEF BoxesBusy
    <2> QED
      BY <1>0, <1>1, <1>2, <1>3, <2>1
  <1>4. CASE s4' = [s4 EXCEPT ![b] = ""] /\ UNCHANGED <<s5, s6, s7>>
    <2>1. BoxesBusy' = BoxesBusy
      BY <1>4, Zenon DEF BoxesBusy
    <2>2. s4' \in [Boxes -> BoxesOut]
      <3> DEFINE w == ""
      <3>1. w \in BoxesOut /\ s4' = [s4 EXCEPT ![b] = w]
        BY <1>4, BoxesWords, Zenon
      <3> HIDE DEF w
      <3> QED
        BY <1>2, <3>1
    <2>3. s5' = s5 /\ s6' = s6 /\ s7' = s7
      BY <1>4, Zenon
    <2> QED
      BY <1>0, <1>1, <1>2, <2>1, <2>2, <2>3
  <1>5. CASE /\ ~s5[b] /\ s5' = [s5 EXCEPT ![b] = TRUE] /\ s4' = [s4 EXCEPT ![b] = "running"]
             /\ s6' = [s6 EXCEPT ![b] = Append(@, t)]
             /\ s7' = IF s1 = "latex" THEN s7 + 1 ELSE s7
    <2>1. Cardinality(BoxesBusy)' = Cardinality(BoxesBusy) + 1
      BY <1>2, <1>5, BoxesTaken
    <2>2. Len(s6[b]) = 0 /\ s6[b] \in Seq(BoxTexts)
      BY <1>1, <1>2, <1>5
    <2>3. Append(s6[b], t) \in Seq(BoxTexts) /\ Len(Append(s6[b], t)) = 1
      BY <2>2
    <2>4. /\ s6' \in [Boxes -> Seq(BoxTexts)]
          /\ \A c \in Boxes : Len(s6'[c]) = (IF s5'[c] THEN 1 ELSE 0)
      BY <1>1, <1>2, <1>5, <2>3
    <2>5. s4' \in [Boxes -> BoxesOut] /\ s5' \in [Boxes -> BOOLEAN] /\ s7' \in Int
      <3>1. s4' = [s4 EXCEPT ![b] = "running"] /\ s4 \in [Boxes -> BoxesOut] /\ "running" \in BoxesOut
        BY <1>2, <1>5, BoxesWords, Zenon
      <3>2. s4' \in [Boxes -> BoxesOut]
        BY <3>1
      <3> QED
        BY <1>2, <1>5, <3>2
    <2>6. s1 = "latex" => s7' = Cardinality(BoxesBusy)'
      BY <1>1, <1>5, <2>1
    <2> QED
      BY <1>0, <2>4, <2>5, <2>6
  <1> QED
    BY <1>3, <1>4, <1>5, Zenon DEF Explorer!Begin, Explorer!Refused, Explorer!busy

(* A run that begins and one that ends are counted once.                    *)
LEMMA BoxesKeeps ==
  ASSUME Explorer!Inv, Explorer!Next
  PROVE  Explorer!Inv'
  <1> DEFINE Goal == BoxesShape' /\ BoxesCount'
  <1>1. BoxesShape /\ BoxesCount
    BY BoxesWhole
  <1>2. Explorer!Last' = Explorer!Last
    BY DEF Explorer!Last
  <1>3. ASSUME NEW b \in Boxes, NEW t \in BoxTexts, Explorer!Begin(b, t), s2 \in {"running", "ready"},
               s3' \in [Boxes -> BoxTexts], UNCHANGED <<s1, s2>>, s8' \in 0 .. Explorer!Last, s9' \in Boxes \cup {0}
        PROVE  Goal
    <2>1. /\ s4' \in [Boxes -> BoxesOut] /\ s5' \in [Boxes -> BOOLEAN]
          /\ s6' \in [Boxes -> Seq(BoxTexts)] /\ s7' \in Int /\ BoxesCount'
      BY <1>1, <1>3, BoxesBegin
    <2> QED
      BY <1>1, <1>2, <1>3, <2>1, Zenon DEF BoxesShape
  <1>4. ASSUME UNCHANGED <<s1, s6, s7>>, BoxesBusy' = BoxesBusy, s5' = s5, UNCHANGED s2 PROVE BoxesCount'
    BY <1>1, <1>4, Zenon DEF BoxesCount
  <1>5. ASSUME Explorer!Wire \/ Explorer!WirePrimer PROVE Goal
    <2>1. /\ s2 = "loading" /\ s5' = [b \in Boxes |-> FALSE] /\ s2' \in {"running", "ready"}
          /\ UNCHANGED <<s1, s3, s4, s6, s7, s8, s9>>
      BY <1>5 DEF Explorer!Wire, Explorer!WirePrimer
    <2>2. s7 = 0 /\ \A b \in Boxes : s6[b] = <<>>
      BY <1>1, <2>1 DEF BoxesCount
    <2>3. BoxesBusy' = {}
      BY <2>1 DEF BoxesBusy
    <2>4. Cardinality({}) = 0
      BY FS_EmptySet
    <2>5. BoxesCount'
      BY <2>1, <2>2, <2>3, <2>4 DEF BoxesCount
    <2> QED
      BY <1>1, <1>2, <2>1, <2>5 DEF BoxesShape
  <1>6. ASSUME Explorer!LoadFails PROVE Goal
    <2>1. s2 = "loading" /\ s2' = "failed" /\ UNCHANGED <<s1, s3, s4, s5, s6, s7, s8, s9>>
      BY <1>6 DEF Explorer!LoadFails
    <2> QED
      BY <1>1, <1>2, <2>1 DEF BoxesShape, BoxesCount
  <1>7. ASSUME NEW b \in Boxes, Explorer!Go(b) PROVE Goal
    <2>1. /\ s2 \in {"running", "ready"} /\ Explorer!Begin(b, s3[b]) /\ UNCHANGED <<s1, s2, s3, s8, s9>>
      BY <1>7 DEF Explorer!Go, Explorer!Wired
    <2>2. s3[b] \in BoxTexts
      BY <1>1 DEF BoxesShape
    <2> QED
      BY <1>1, <1>3, <2>1, <2>2 DEF BoxesShape
  <1>8. ASSUME NEW b \in Boxes, Explorer!Reset(b) PROVE Goal
    <2>1. /\ s2 \in {"running", "ready"} /\ s3' = [s3 EXCEPT ![b] = "default"]
          /\ UNCHANGED <<s1, s2, s8, s9>>
          /\ \/ Explorer!Begin(b, "default")
             \/ s4' = [s4 EXCEPT ![b] = ""] /\ UNCHANGED <<s5, s6, s7>>
      BY <1>8, Zenon DEF Explorer!Reset, Explorer!Wired
    <2>2. s3' \in [Boxes -> BoxTexts]
      <3>1. s3' = [s3 EXCEPT ![b] = "default"] /\ s3 \in [Boxes -> BoxTexts] /\ "default" \in BoxTexts
        BY <1>1, <2>1, BoxesAssumption, Zenon DEF BoxesShape
      <3> QED
        BY <3>1
    <2>3. CASE Explorer!Begin(b, "default")
      <3>1. s8' \in 0 .. Explorer!Last /\ s9' \in Boxes \cup {0} /\ s2 \in {"running", "ready"} /\ UNCHANGED <<s1, s2>>
        BY <1>1, <2>1, Zenon DEF BoxesShape
      <3> QED
        BY <1>3, <2>2, <2>3, <3>1, BoxesAssumption
    <2>4. CASE s4' = [s4 EXCEPT ![b] = ""] /\ UNCHANGED <<s5, s6, s7>>
      <3> DEFINE w == ""
      <3>1. w \in BoxesOut /\ s4' = [s4 EXCEPT ![b] = w] /\ UNCHANGED <<s1, s2, s5, s6, s7, s8, s9>>
        BY <2>1, <2>4, BoxesWords, Zenon
      <3> HIDE DEF w
      <3>2. s4' \in [Boxes -> BoxesOut]
        BY <1>1, <3>1 DEF BoxesShape
      <3>3. BoxesBusy' = BoxesBusy
        BY <3>1 DEF BoxesBusy
      <3>4. BoxesCount'
        BY <1>4, <3>1, <3>3
      <3> QED
        BY <1>1, <1>2, <2>2, <3>1, <3>2, <3>4 DEF BoxesShape
    <2> QED
      BY <2>1, <2>3, <2>4, Zenon
  <1>9. ASSUME NEW b \in Boxes, NEW t \in BoxTexts, Explorer!Edit(b, t) PROVE Goal
    <2>1. s3' = [s3 EXCEPT ![b] = t] /\ UNCHANGED <<s1, s2, s4, s5, s6, s7, s8, s9>>
      BY <1>9 DEF Explorer!Edit
    <2>2. BoxesBusy' = BoxesBusy
      BY <2>1 DEF BoxesBusy
    <2>3. BoxesCount'
      BY <1>4, <2>1, <2>2
    <2> QED
      BY <1>1, <1>2, <2>1, <2>3 DEF BoxesShape
  <1>10. ASSUME NEW t \in BoxTexts, Explorer!Chip(t) PROVE Goal
    <2>1. /\ s2 \in {"running", "ready"} /\ s3' = [s3 EXCEPT ![Explorer!Last] = t]
          /\ Explorer!Begin(Explorer!Last, t) /\ UNCHANGED <<s1, s2, s8, s9>>
      BY <1>10 DEF Explorer!Chip, Explorer!Wired
    <2>2. Explorer!Last \in Boxes /\ s3' \in [Boxes -> BoxTexts]
      BY <1>1, <2>1, BoxesLast DEF BoxesShape
    <2> QED
      BY <1>1, <1>3, <2>1, <2>2 DEF BoxesShape
  <1>11. ASSUME NEW b \in Boxes, NEW r \in BoxTexts \cup {"error"}, Explorer!Finish(b, r) PROVE Goal
    <2>1. /\ s6[b] # <<>> /\ s4' = [s4 EXCEPT ![b] = r] /\ s6' = [s6 EXCEPT ![b] = Tail(@)]
          /\ s5' = [s5 EXCEPT ![b] = FALSE]
          /\ s7' = IF s1 = "latex" THEN s7 + (-1) ELSE s7
          /\ s9' \in {0, s9} /\ UNCHANGED <<s1, s2, s3, s8>>
      BY <1>11 DEF Explorer!Finish, Explorer!Result, Explorer!busy
    <2>2. /\ s2 \in {"running", "ready"}
          /\ \A c \in Boxes : Len(s6[c]) = (IF s5[c] THEN 1 ELSE 0)
          /\ s1 = "latex" => s7 = Cardinality(BoxesBusy)
      BY <1>1, <2>1 DEF BoxesCount
    <2>3. s6[b] \in Seq(BoxTexts) /\ s5[b] /\ Len(s6[b]) = 1
      <3>1. s6[b] \in Seq(BoxTexts) /\ Len(s6[b]) # 0
        BY <1>1, <2>1, EmptySeq DEF BoxesShape
      <3> QED
        BY <2>2, <3>1
    <2>4. Tail(s6[b]) \in Seq(BoxTexts) /\ Len(Tail(s6[b])) = 0
      BY <2>1, <2>3
    <2>5. /\ s6' \in [Boxes -> Seq(BoxTexts)]
          /\ \A c \in Boxes : Len(s6'[c]) = (IF s5'[c] THEN 1 ELSE 0)
      BY <1>1, <2>1, <2>2, <2>4 DEF BoxesShape
    <2>6. Cardinality(BoxesBusy)' = Cardinality(BoxesBusy) - 1
      BY <1>1, <2>1, <2>3, BoxesFreed DEF BoxesShape
    <2>7. s7 \in Int /\ s7' \in Int /\ (s1 = "latex" => s7' = s7 - 1)
      BY <1>1, <2>1 DEF BoxesShape
    <2>8. BoxesCount'
      BY <2>1, <2>2, <2>5, <2>6, <2>7 DEF BoxesCount
    <2>9. s4' \in [Boxes -> BoxesOut] /\ s5' \in [Boxes -> BOOLEAN]
      BY <1>1, <2>1, BoxesWords DEF BoxesShape
    <2> QED
      BY <1>1, <1>2, <2>1, <2>5, <2>7, <2>8, <2>9 DEF BoxesShape
  <1>12. ASSUME Explorer!Sequence PROVE Goal
    <2>1. s2 = "running" /\ UNCHANGED <<s1, s3>>
      BY <1>12 DEF Explorer!Sequence
    <2>2. CASE s2' = "ready" /\ UNCHANGED <<s4, s5, s6, s7, s8, s9>>
      <3>1. BoxesBusy' = BoxesBusy
        BY <2>2 DEF BoxesBusy
      <3>2. BoxesCount'
        BY <1>1, <2>1, <2>2, <3>1 DEF BoxesCount
      <3> QED
        BY <1>1, <1>2, <2>1, <2>2, <3>2 DEF BoxesShape
    <2>3. CASE /\ s8 # Explorer!Last /\ s8' = s8 + 1 /\ Explorer!Begin(s8 + 1, s3[s8 + 1])
               /\ s9' \in {s8 + 1, 0} /\ s2' = s2
      <3>1. s8 + 1 \in Boxes /\ s8' \in 0 .. Explorer!Last /\ s3[s8 + 1] \in BoxTexts
        BY <1>1, <2>3, BoxesLast DEF BoxesShape
      <3> QED
        BY <1>1, <1>3, <2>1, <2>3, <3>1 DEF BoxesShape
    <2> QED
      BY <1>12, <2>2, <2>3 DEF Explorer!Sequence
  <1>13. Goal
    BY <1>5, <1>6, <1>7, <1>8, <1>9, <1>10, <1>11, <1>12, Zenon DEF Explorer!Next
  <1> QED
    BY <1>13, BoxesWholeNext

(* A step of no component leaves the explorer and the primer as it is.      *)
LEMMA BoxesStays ==
  ASSUME Explorer!Inv, UNCHANGED vars
  PROVE  Explorer!Inv'
  <1>1. BoxesShape /\ BoxesCount
    BY BoxesWhole
  <1>2. UNCHANGED <<s1, s2, s3, s4, s5, s6, s7, s8, s9>>
    BY DEF vars
  <1>3. BoxesBusy' = BoxesBusy /\ Explorer!Last' = Explorer!Last
    BY <1>2 DEF BoxesBusy, Explorer!Last
  <1> QED
    BY <1>1, <1>2, <1>3, BoxesWholeNext, Zenon DEF BoxesShape, BoxesCount

-----------------------------------------------------------------------------
(* The memory of the Emscripten build.                                      *)

(* The limit of the build is a number of pages.                             *)
LEMMA MemoryMax == Memory!getHeapMax \in Nat \ {0} /\ Memory!getHeapMax % 64 = 0
  BY DEF Memory!getHeapMax

(* Rounding up to pages, for the three cuts that are tried.                 *)
LEMMA MemoryAligned ==
  ASSUME NEW p \in Nat \ {0}, NEW q \in {5, 10, 20}, NEW a, a = Memory!alignMemory(p, q)
  PROVE  /\ a \in Nat \ {0} /\ a % 64 = 0
         /\ p <= a * q /\ a * q < p + 64 * q
  <1>1. CASE q = 5
    BY <1>1 DEF Memory!alignMemory, Memory!PAGE
  <1>2. CASE q = 10
    BY <1>2 DEF Memory!alignMemory, Memory!PAGE
  <1>3. CASE q = 20
    BY <1>3 DEF Memory!alignMemory, Memory!PAGE
  <1> QED
    BY <1>1, <1>2, <1>3

(* What is asked of the browser: enough, not much more than was requested,  *)
(* and with the last cut not more than a twentieth over it.                 *)
LEMMA MemoryNew ==
  ASSUME s1 \in Nat \ {0}, NEW r \in Nat, s1 < r, r <= Memory!getHeapMax, NEW c \in {1, 2, 4}
  PROVE  LET n == Memory!newSize(r, c) IN
         /\ n \in 1 .. Memory!getHeapMax /\ n % 64 = 0
         /\ r <= n /\ n < r + 98304 + 64
         /\ c = 4 => 20 * n < 21 * r + 20 * 64
  <1> DEFINE q == 5 * c
             p == Memory!Greater(r * 5 * c, Memory!Lesser(s1 * (5 * c + 1), (r + 98304) * 5 * c))
             a == Memory!alignMemory(p, q)
             n == Memory!newSize(r, c)
  <1>1. q \in {5, 10, 20} /\ (c = 4 => q = 20)
    OBVIOUS
  <1>2. p \in Nat \ {0} /\ r * q <= p /\ p <= (r + 98304) * q /\ (c = 4 => p < 21 * r)
    <2>1. CASE c = 1
      BY <2>1 DEF Memory!Greater, Memory!Lesser
    <2>2. CASE c = 2
      BY <2>2 DEF Memory!Greater, Memory!Lesser
    <2>3. CASE c = 4
      BY <2>3 DEF Memory!Greater, Memory!Lesser
    <2> QED
      BY <2>1, <2>2, <2>3
  <1>3. n = Memory!Lesser(Memory!getHeapMax, a)
    BY DEF Memory!newSize, Memory!OVERGROWTH
  <1> HIDE DEF p, q, n
  <1>4. a \in Nat \ {0} /\ a % 64 = 0 /\ p <= a * q /\ a * q < p + 64 * q
    <2>1. a = Memory!alignMemory(p, q)
      OBVIOUS
    <2> HIDE DEF a
    <2>2. p \in Nat \ {0} /\ q \in {5, 10, 20}
      BY <1>1, <1>2
    <2> QED
      BY <2>1, <2>2, MemoryAligned, ZenonT(40)
  <1> HIDE DEF a
  <1>5. r <= a /\ a < r + 98304 + 64
    <2>1. CASE q = 5
      BY <1>2, <1>4, <2>1
    <2>2. CASE q = 10
      BY <1>2, <1>4, <2>2
    <2>3. CASE q = 20
      BY <1>2, <1>4, <2>3
    <2> QED
      BY <1>1, <2>1, <2>2, <2>3
  <1>6. c = 4 => 20 * a < 21 * r + 20 * 64
    BY <1>1, <1>2, <1>4
  <1>7. n \in Nat \ {0} /\ n <= Memory!getHeapMax /\ n <= a /\ r <= n /\ n % 64 = 0
    BY <1>3, <1>4, <1>5, MemoryMax DEF Memory!Lesser
  <1>8. n \in 1 .. Memory!getHeapMax
    BY <1>7, MemoryMax
  <1> QED
    BY <1>4, <1>5, <1>6, <1>7, <1>8 DEF n

(* The first of the attempts that the browser can satisfy.                  *)
LEMMA MemoryFirst ==
  ASSUME NEW S \in SUBSET {1, 2, 4}, S # {}
  PROVE  Memory!First(S) \in S
  <1>1. \E c \in S : \A d \in S : c <= d
    <2>1. S \subseteq Nat
      OBVIOUS
    <2> QED
      BY <2>1, LeastOf
  <1> QED
    BY <1>1 DEF Memory!First

(* The views are as large as the memory, which is within its limit.         *)
MemorySizes ==
    /\ s1 \in 1 .. Memory!getHeapMax /\ s1 % 64 = 0 /\ s2 = s1 /\ s3 \in Limits /\ s1 <= s3
    /\ s4.granted \in BOOLEAN /\ s4.requested \in Nat

(* What was granted is there; what was refused was near the limit.          *)
MemoryAnswers ==
    /\ s4.granted => s4.requested <= s1 /\ s1 < s4.requested + 98304 + 64
    /\ s4.granted \/ s4.requested > Memory!getHeapMax \/ 20 * s3 < 21 * s4.requested + 20 * 64

(* The invariant of memory is these two.                                    *)
LEMMA MemoryWhole == Memory!Inv <=> MemorySizes /\ MemoryAnswers
  <1> DEFINE Sized == s1 \in 1 .. Memory!getHeapMax /\ s3 \in Limits
  <1>1. Memory!getHeapMax \in Nat /\ Limits \subseteq Nat
    BY MemoryAssumption, MemoryMax
  <1>3. Memory!TypeOK <=> Sized /\ s1 % 64 = 0 /\ s4.granted \in BOOLEAN
    BY DEF Memory!TypeOK, Memory!PAGE
  <1>4. Sized => (s1 <= Memory!Lesser(s3, Memory!getHeapMax) <=> s1 <= s3)
    BY <1>1 DEF Memory!Lesser
  <1>5. Memory!GrowthSuffices <=>
          /\ s2 = s1 /\ s1 <= Memory!Lesser(s3, Memory!getHeapMax)
          /\ s4.granted => s4.requested <= s1 /\ s1 < s4.requested + 98304 + 64
    BY DEF Memory!GrowthSuffices, Memory!OVERGROWTH, Memory!PAGE
  <1>6. Memory!RefusedOnlyNearLimit <=>
          s4.granted \/ s4.requested > Memory!getHeapMax \/ 20 * s3 < 21 * s4.requested + 20 * 64
    BY DEF Memory!RefusedOnlyNearLimit, Memory!PAGE
  <1>7. MemorySizes <=> Sized /\ s1 % 64 = 0 /\ s2 = s1 /\ s1 <= s3
                        /\ s4.granted \in BOOLEAN /\ s4.requested \in Nat
    BY DEF MemorySizes
  <1> HIDE DEF Sized
  <1> QED
    BY <1>3, <1>4, <1>5, <1>6, <1>7 DEF Memory!Inv, MemoryAnswers

(* The same, after a step.                                                  *)
LEMMA MemoryWholeNext == (MemorySizes /\ MemoryAnswers)' => Memory!Inv'
  BY MemoryWhole, PTL

(* A memory begins within its limit, and nothing has been asked of it.      *)
LEMMA MemoryStarts == Memory!Init => Memory!Inv
  <1> SUFFICES ASSUME Memory!Init PROVE MemorySizes /\ MemoryAnswers
    BY MemoryWhole
  <1>1. s1 \in Nat \ {0} /\ s1 <= Memory!getHeapMax /\ s1 % 64 = 0
    BY MemoryAssumption DEF Memory!Init, Memory!getHeapMax
  <1>2. s1 \in Nat /\ s2 = s1 /\ s3 \in Limits /\ s1 <= s3 /\ s4 = [requested |-> s1, granted |-> TRUE]
    BY <1>1 DEF Memory!Init
  <1>3. s4.granted = TRUE /\ s4.requested = s1
    BY <1>2
  <1> QED
    BY <1>1, <1>2, <1>3, MemoryMax DEF MemorySizes, MemoryAnswers

(* A request is granted in full, or it was near the limit.                  *)
LEMMA MemoryKeeps ==
  ASSUME Memory!Inv, Memory!Next
  PROVE  Memory!Inv'
  <1>1. MemorySizes /\ MemoryAnswers
    BY MemoryWhole
  <1>2. PICK r \in Requests : Memory!resize_heap(r)
    BY DEF Memory!Next
  <1> DEFINE A == Memory!Attempts(r)
  <1>3. r \in Nat /\ s1 \in Nat \ {0} /\ s1 < r /\ s3' = s3 /\ s3 \in Nat
    BY <1>1, <1>2, MemoryAssumption, MemoryMax DEF MemorySizes, Memory!resize_heap
  <1>4. A \in SUBSET {1, 2, 4} /\ \A c \in {1, 2, 4} : c \in A <=> Memory!newSize(r, c) <= s3
    BY DEF Memory!Attempts, Memory!Fits
  <1>5. \/ (r > Memory!getHeapMax \/ A = {}) /\ s4' = [requested |-> r, granted |-> FALSE] /\ s1' = s1 /\ s2' = s2
        \/ ~(r > Memory!getHeapMax) /\ A # {} /\ s4' = [requested |-> r, granted |-> TRUE]
           /\ s1' = Memory!newSize(r, Memory!First(A)) /\ s2' = s1'
    BY <1>2 DEF Memory!resize_heap, Memory!growMemory
  <1> HIDE DEF A
  <1>6. CASE (r > Memory!getHeapMax \/ A = {}) /\ s4' = [requested |-> r, granted |-> FALSE] /\ s1' = s1 /\ s2' = s2
    <2>1. s4'.granted = FALSE /\ s4'.requested = r
      BY <1>6
    <2>2. r <= Memory!getHeapMax => 20 * s3 < 21 * r + 20 * 64
      <3> SUFFICES ASSUME r <= Memory!getHeapMax PROVE 20 * s3 < 21 * r + 20 * 64
        OBVIOUS
      <3> DEFINE n == Memory!newSize(r, 4)
      <3>1. ~(n <= s3)
        BY <1>3, <1>4, <1>6, MemoryMax
      <3>2. n \in 1 .. Memory!getHeapMax /\ 20 * n < 21 * r + 20 * 64
        BY <1>3, MemoryMax, MemoryNew
      <3>3. n \in Int
        BY <3>2, MemoryMax
      <3> HIDE DEF n
      <3>4. 20 * n < 21 * r + 20 * 64
        BY <3>2
      <3> QED
        BY <1>3, <3>1, <3>3, <3>4
    <2>3. MemorySizes'
      BY <1>1, <1>3, <1>6, <2>1 DEF MemorySizes
    <2>4. MemoryAnswers'
      BY <1>3, <2>1, <2>2, MemoryMax DEF MemoryAnswers
    <2> QED
      BY <2>3, <2>4, MemoryWholeNext
  <1>7. CASE /\ ~(r > Memory!getHeapMax) /\ A # {} /\ s4' = [requested |-> r, granted |-> TRUE]
             /\ s1' = Memory!newSize(r, Memory!First(A)) /\ s2' = s1'
    <2> DEFINE c == Memory!First(A)
               n == Memory!newSize(r, c)
    <2>1. c \in A /\ c \in {1, 2, 4}
      BY <1>4, <1>7, MemoryFirst
    <2>2. n <= s3
      BY <1>4, <2>1
    <2>3. n \in 1 .. Memory!getHeapMax /\ n % 64 = 0 /\ r <= n /\ n < r + 98304 + 64
      BY <1>3, <1>7, <2>1, MemoryMax, MemoryNew
    <2>4. s1' = n /\ s2' = n /\ s4'.granted = TRUE /\ s4'.requested = r
      BY <1>7
    <2> HIDE DEF n
    <2>5. MemorySizes'
      <3>1. s1' \in 1 .. Memory!getHeapMax /\ s1' % 64 = 0 /\ s2' = s1' /\ s3' \in Limits /\ s1' <= s3'
        BY <1>1, <1>3, <2>2, <2>3, <2>4 DEF MemorySizes
      <3>2. s4'.granted \in BOOLEAN /\ s4'.requested \in Nat
        BY <1>3, <2>4
      <3> QED
        BY <3>1, <3>2 DEF MemorySizes
    <2>6. MemoryAnswers'
      BY <2>3, <2>4 DEF MemoryAnswers
    <2> QED
      BY <2>5, <2>6, MemoryWholeNext
  <1> QED
    BY <1>5, <1>6, <1>7

(* A step of no component leaves the growth of memory as it is.             *)
LEMMA MemoryStays ==
  ASSUME Memory!Inv, UNCHANGED vars
  PROVE  Memory!Inv'
  <1>1. MemorySizes' /\ MemoryAnswers'
    BY MemoryWhole DEF MemorySizes, MemoryAnswers, vars
  <1> QED
    BY <1>1, MemoryWholeNext

-----------------------------------------------------------------------------
(* The standalone counter.                                                  *)

(* Where the first number is put.                                           *)
CounterStart == Counter!RoundUp(StartCells, 16)

(* The types of what the page keeps.                                        *)
CounterSizes ==
    /\ s1 \in {"new", "up", "toolong", "unparsed"} /\ s2 \in Counter!Sources
    /\ s3 \in 0 .. HEAP /\ s5 \in 0 .. MaxCalls

(* The number shown, and the cells it took.                                 *)
CounterRow ==
    IF s1 = "up"
    THEN /\ s6 \in 0 .. s5 /\ s6 = (IF s5 < Counter!Room THEN s5 ELSE Counter!Room)
         /\ s7 = s6
         /\ s4 = IF s6 = 0 THEN StartCells ELSE CounterStart + 16 * s6 - 12
    ELSE s5 = 0 /\ s6 = 0 /\ s7 = 0 /\ s4 \in 0 .. HEAP_LIMIT

(* What is assumed of the constants of the counter.                         *)
LEMMA CounterBounds ==
  /\ HEAP \in Nat /\ StartBytes \in 0 .. HEAP /\ StartCells \in Nat /\ HEAP_LIMIT \in Nat
  /\ StartCells + 19 <= HEAP_LIMIT /\ MaxCalls \in Nat
  BY CounterAssumption, SMT

(* How many blocks fit, and that numbers can carry as many.                 *)
LEMMA CounterRoom ==
  /\ CounterStart \in Nat /\ CounterStart % 16 = 0
  /\ StartCells <= CounterStart /\ CounterStart < StartCells + 16
  /\ Counter!Room \in Nat \ {0} /\ Counter!Room < Counter!BASE - 1
  /\ CounterStart + 16 * Counter!Room - 12 <= HEAP_LIMIT
  /\ HEAP_LIMIT < CounterStart + 16 * Counter!Room + 4
  <1>1. /\ CounterStart \in Nat /\ CounterStart % 16 = 0
        /\ StartCells <= CounterStart /\ CounterStart < StartCells + 16
    BY CounterBounds DEF CounterStart, Counter!RoundUp
  <1>2. Counter!Room = (HEAP_LIMIT - 4 - CounterStart) \div 16 + 1
    BY DEF Counter!Room, CounterStart
  <1>3. HEAP_LIMIT - 4 - CounterStart \in Nat /\ HEAP_LIMIT \in Nat /\ HEAP_LIMIT < 1000000
    BY <1>1, CounterAssumption, SMT
  <1>4. Counter!BASE = 1000000
    BY SMT DEF Counter!BASE
  <1>5. Counter!Room \in Nat \ {0} /\ Counter!Room < Counter!BASE - 1
    BY <1>1, <1>2, <1>3, <1>4, SMT
  <1>6. /\ CounterStart + 16 * Counter!Room - 12 <= HEAP_LIMIT
        /\ HEAP_LIMIT < CounterStart + 16 * Counter!Room + 4
    BY <1>1, <1>2, <1>3, SMT
  <1> QED
    BY <1>1, <1>5, <1>6

(* A handle stands for its value by a factor that is not zero.              *)
LEMMA CounterBase == Counter!BASE \in Nat \ {0}
  BY SMT DEF Counter!BASE

(* The invariant of the counter page is these two.                          *)
LEMMA CounterWhole == Counter!Inv <=> CounterSizes /\ CounterRow
  <1>1. ASSUME Counter!Inv PROVE CounterSizes /\ CounterRow
    BY <1>1 DEF Counter!Inv, Counter!TypeOK, Counter!CountsWhileItFits, CounterSizes, CounterRow,
         CounterStart
  <1>2. ASSUME CounterSizes, CounterRow PROVE Counter!Inv
    <2>1. s4 \in 0 .. HEAP_LIMIT /\ s6 \in 0 .. s5 /\ s7 \in 0 .. Counter!BASE - 1
      <3>1. CASE s1 = "up"
        <4>1. s5 \in Nat /\ s6 \in Nat /\ s6 <= s5 /\ s6 <= Counter!Room /\ s7 = s6
          BY <1>2, <3>1, CounterRoom, CounterBounds DEF CounterSizes, CounterRow
        <4>2. s7 \in 0 .. Counter!BASE - 1
          BY <4>1, CounterRoom, CounterBase
        <4>3. s4 = IF s6 = 0 THEN StartCells ELSE CounterStart + 16 * s6 - 12
          BY <1>2, <3>1 DEF CounterRow
        <4>4. s4 \in 0 .. HEAP_LIMIT
          BY <4>1, <4>3, CounterRoom, CounterBounds
        <4> QED
          BY <4>1, <4>2, <4>4
      <3>2. CASE s1 # "up"
        BY <1>2, <3>2, CounterBase, CounterBounds DEF CounterRow, CounterSizes
      <3> QED
        BY <3>1, <3>2
    <2> QED
      BY <1>2, <2>1 DEF Counter!Inv, Counter!TypeOK, Counter!CountsWhileItFits, CounterSizes,
         CounterRow, CounterStart
  <1> QED
    BY <1>1, <1>2

(* The same, after a step.                                                  *)
LEMMA CounterWholeNext == (CounterSizes /\ CounterRow)' => Counter!Inv'
  BY CounterWhole, PTL

(* The counter page begins with what the loader left.                       *)
LEMMA CounterStarts == Counter!Init => Counter!Inv
  BY CounterWhole, CounterBounds DEF Counter!Init, CounterSizes, CounterRow

(* A click's bytes stay in the heap.                                        *)
LEMMA CounterBytes ==
  ASSUME s3 \in 0 .. HEAP
  PROVE  Counter!alloc(9) \in 0 .. HEAP
  <1>1. Counter!RoundUp(s3, 8) \in Nat
    BY CounterBounds DEF Counter!RoundUp
  <1> QED
    BY <1>1, CounterBounds DEF Counter!alloc, Counter!malloc

(* Its block comes after the one before, or does not fit.                   *)
LEMMA CounterBlock ==
  ASSUME NEW k \in Nat, k <= Counter!Room,
         s4 = IF k = 0 THEN StartCells ELSE CounterStart + 16 * k - 12
  PROVE  LET b == Counter!lalloc(s4, 4)
         IN  IF k < Counter!Room THEN b.hp = CounterStart + 16 * (k + 1) - 12 /\ b.at # -1
                                 ELSE b.hp = s4 /\ b.at = -1
  <1> DEFINE a == Counter!RoundUp(s4, 16)
             b == Counter!lalloc(s4, 4)
  <1>1. a = CounterStart + 16 * k
    <2>1. CASE k = 0
      BY <2>1, CounterRoom DEF CounterStart
    <2>2. CASE k # 0
      <3>1. a = ((CounterStart + 16 * k + 3) \div 16) * 16
        BY <2>2, CounterRoom DEF Counter!RoundUp
      <3> QED
        BY <3>1, CounterRoom
    <2> QED
      BY <2>1, <2>2
  <1>2. b = IF a + 4 > HEAP_LIMIT THEN [hp |-> s4, at |-> -1] ELSE [hp |-> a + 4, at |-> a]
    BY DEF Counter!lalloc
  <1> HIDE DEF a, b
  <1>3. a + 4 > HEAP_LIMIT <=> ~(k < Counter!Room)
    BY <1>1, CounterRoom, CounterBounds
  <1>4. CASE k < Counter!Room
    <2>1. b.hp = a + 4 /\ b.at = a
      BY <1>2, <1>3, <1>4
    <2> QED
      BY <1>1, <1>4, <2>1, CounterRoom DEF b
  <1>5. CASE ~(k < Counter!Room)
    <2>1. b.hp = s4 /\ b.at = -1
      BY <1>2, <1>3, <1>5
    <2> QED
      BY <1>5, <2>1 DEF b
  <1> QED
    BY <1>4, <1>5

(* What the printed number shows.                                           *)
LEMMA CounterPrinted ==
  ASSUME NEW v \in Nat, v < Counter!BASE - 1, NEW old
  PROVE  (IF Counter!BASE + v >= Counter!BASE /\ (Counter!BASE + v) \div Counter!BASE = 1
          THEN (Counter!BASE + v) % Counter!BASE ELSE old) = v
  BY SMT DEF Counter!BASE

(* A call prints the number while the loader heap has room for it.          *)
LEMMA CounterKeeps ==
  ASSUME Counter!Inv, Counter!Next
  PROVE  Counter!Inv'
  <1>1. CounterSizes /\ CounterRow
    BY CounterWhole
  <1>2. CASE Counter!Load
    <2>1. /\ s1 = "new" /\ s1' \in {"toolong", "up", "unparsed"}
          /\ s1' = "up" => s3' = StartBytes /\ s4' = StartCells
          /\ s1' # "up" => s3' = s3 /\ s4' = s4
          /\ UNCHANGED <<s2, s5, s6, s7>>
      BY <1>2 DEF Counter!Load
    <2>2. s5 = 0 /\ s6 = 0 /\ s7 = 0 /\ s4 \in 0 .. HEAP_LIMIT
      BY <1>1, <2>1 DEF CounterRow
    <2>3. CounterSizes'
      BY <1>1, <2>1, <2>2, CounterBounds DEF CounterSizes
    <2>4. CounterRow'
      BY <2>1, <2>2, CounterRoom DEF CounterRow
    <2> QED
      BY <2>3, <2>4, CounterWholeNext
  <1>3. CASE Counter!Click
    <2> DEFINE b == Counter!lalloc(s4, 4)
    <2>1. /\ s1 = "up" /\ s5 < MaxCalls /\ s5' = s5 + 1 /\ s3' = Counter!alloc(9)
          /\ s4' = b.hp /\ Counter!Run(b.at) /\ UNCHANGED <<s1, s2>>
      BY <1>3 DEF Counter!Click
    <2>2. /\ s6 \in Nat /\ s5 \in Nat /\ s6 = (IF s5 < Counter!Room THEN s5 ELSE Counter!Room)
          /\ s7 = s6 /\ s4 = IF s6 = 0 THEN StartCells ELSE CounterStart + 16 * s6 - 12
      BY <1>1, <2>1, CounterBounds DEF CounterSizes, CounterRow
    <2>3. s6 <= Counter!Room
      BY <2>2, CounterRoom
    <2>4. IF s6 < Counter!Room THEN b.hp = CounterStart + 16 * (s6 + 1) - 12 /\ b.at # -1
                               ELSE b.hp = s4 /\ b.at = -1
      BY <2>2, <2>3, CounterBlock
    <2> HIDE DEF b
    <2>5. s3' \in 0 .. HEAP
      BY <1>1, <2>1, CounterBytes DEF CounterSizes
    <2>6. CounterSizes'
      BY <1>1, <2>1, <2>2, <2>5, CounterBounds DEF CounterSizes
    <2>7. CASE s6 < Counter!Room
      <3>1. s6' = s6 + 1 /\ Counter!printf(Counter!BASE + s6')
        BY <2>1, <2>4, <2>7 DEF Counter!Run
      <3>2. s7' = s6'
        <4>1. s6' \in Nat /\ s6' < Counter!BASE - 1
          BY <2>2, <2>7, <3>1, CounterRoom, CounterBase
        <4> DEFINE v == s6'
        <4>2. s7' = IF Counter!BASE + v >= Counter!BASE /\ (Counter!BASE + v) \div Counter!BASE = 1
                    THEN (Counter!BASE + v) % Counter!BASE ELSE s7
          BY <3>1 DEF Counter!printf
        <4> HIDE DEF v
        <4>3. v \in Nat /\ v < Counter!BASE - 1
          BY <4>1 DEF v
        <4>4. s7' = v
          BY <4>2, <4>3, CounterPrinted
        <4> QED
          BY <4>4 DEF v
      <3>3. s5 < Counter!Room /\ s6 = s5
        BY <2>2, <2>7, CounterRoom
      <3>4. s6' = (IF s5' < Counter!Room THEN s5' ELSE Counter!Room) /\ s6' \in 0 .. s5' /\ s6' # 0
        BY <2>1, <2>2, <3>1, <3>3, CounterRoom
      <3>5. s4' = CounterStart + 16 * s6' - 12
        BY <2>1, <2>4, <2>7, <3>1
      <3>6. Counter!Room' = Counter!Room /\ CounterStart' = CounterStart
        OBVIOUS
      <3>7. CounterRow'
        BY <2>1, <3>2, <3>4, <3>5 DEF CounterRow
      <3> QED
        BY <2>6, <3>7, CounterWholeNext
    <2>8. CASE ~(s6 < Counter!Room)
      <3>1. UNCHANGED <<s4, s6, s7>>
        BY <2>1, <2>4, <2>8 DEF Counter!Run
      <3>2. ~(s5 < Counter!Room) /\ s6 = Counter!Room
        BY <2>2, <2>3, <2>8, CounterRoom
      <3>3. s6' = (IF s5' < Counter!Room THEN s5' ELSE Counter!Room) /\ s6' \in 0 .. s5'
        BY <2>1, <2>2, <3>1, <3>2, CounterRoom
      <3>4. CounterRow'
        BY <2>1, <2>2, <3>1, <3>3 DEF CounterRow
      <3> QED
        BY <2>6, <3>4, CounterWholeNext
    <2> QED
      BY <2>7, <2>8
  <1> QED
    BY <1>2, <1>3 DEF Counter!Next

(* A step of no component leaves the WASM counter page as it is.            *)
LEMMA CounterStays ==
  ASSUME Counter!Inv, UNCHANGED vars
  PROVE  Counter!Inv'
  <1>1. CounterSizes' /\ CounterRow'
    BY CounterWhole DEF CounterSizes, CounterRow, vars
  <1> QED
    BY <1>1, CounterWholeNext

-----------------------------------------------------------------------------
(* The start of the Emscripten runtime.                                     *)

(* What the runtime keeps.                                                  *)
RuntimeRecords ==
    [deps : Nat, armed : BOOLEAN, hooks : 0 .. 1, timers : Nat, atInit : 0 .. 1,
     calledRun : BOOLEAN, ctors : 0 .. 1, listeners : 0 .. 1, mains : 0 .. 1,
     initialized : BOOLEAN]

(* A runtime whose program ran once or not at all, and has its constructors *)
(* waiting from the moment the instance is received until then.             *)
RuntimeGood(r, received) ==
    /\ r \in RuntimeRecords
    /\ r.mains = (IF r.calledRun THEN 1 ELSE 0)
    /\ r.ctors = r.mains /\ r.listeners = r.mains
    /\ r.atInit = (IF received /\ ~r.calledRun THEN 1 ELSE 0)

(* What the runtime still waits for.                                        *)
RuntimeSum(r) == r.timers + r.deps + r.hooks

(* doRun leaves a runtime whose program ran once.                           *)
LEMMA RuntimeDoRun ==
  ASSUME NEW r, RuntimeGood(r, TRUE), NEW o
  PROVE  LET d == Runtime!doRun(r, o) IN
         /\ RuntimeGood(d, TRUE) /\ d.timers = r.timers /\ d.deps = r.deps /\ d.hooks = r.hooks
         /\ d.calledRun
  <1> DEFINE d == Runtime!doRun(r, o)
  <1>1. r \in RuntimeRecords
    BY DEF RuntimeGood
  <1>2. CASE r.calledRun
    <2>1. d = r
      BY <1>2 DEF Runtime!doRun
    <2> HIDE DEF d
    <2>2. RuntimeGood(d, TRUE) /\ d.timers = r.timers /\ d.deps = r.deps /\ d.hooks = r.hooks /\ d.calledRun
      BY <1>2, <2>1
    <2> QED
      BY <2>2 DEF d
  <1>3. CASE ~r.calledRun
    <2>1. d = [r EXCEPT !.calledRun = TRUE, !.atInit = 0, !.ctors = @ + r.atInit,
                        !.listeners = @ + 1, !.mains = @ + 1, !.initialized = (o = "ready")]
      BY <1>3 DEF Runtime!doRun
    <2>2. r.mains = 0 /\ r.ctors = 0 /\ r.listeners = 0 /\ r.atInit = 1
      BY <1>3 DEF RuntimeGood
    <2> HIDE DEF d
    <2>3. /\ d.deps = r.deps /\ d.armed = r.armed /\ d.hooks = r.hooks /\ d.timers = r.timers
          /\ d.atInit = 0 /\ d.calledRun = TRUE /\ d.ctors = 1 /\ d.listeners = 1 /\ d.mains = 1
          /\ d.initialized = (o = "ready")
      BY <1>1, <2>1, <2>2 DEF RuntimeRecords
    <2>4. d \in RuntimeRecords
      <3>1. d = [r EXCEPT !.calledRun = TRUE, !.atInit = 0, !.ctors = 1,
                          !.listeners = 1, !.mains = 1, !.initialized = (o = "ready")]
        BY <1>1, <2>1, <2>2 DEF RuntimeRecords
      <3> DEFINE b == (o = "ready")
                 a1 == [r EXCEPT !.calledRun = TRUE]
                 a2 == [a1 EXCEPT !.atInit = 0]
                 a3 == [a2 EXCEPT !.ctors = 1]
                 a4 == [a3 EXCEPT !.listeners = 1]
                 a5 == [a4 EXCEPT !.mains = 1]
                 a6 == [a5 EXCEPT !.initialized = b]
      <3>2. b \in BOOLEAN /\ d = a6
        BY <3>1
      <3> HIDE DEF b
      <3>3. a1 \in RuntimeRecords
        BY <1>1 DEF RuntimeRecords
      <3> HIDE DEF a1
      <3>4. a2 \in RuntimeRecords
        BY <3>3 DEF RuntimeRecords
      <3> HIDE DEF a2
      <3>5. a3 \in RuntimeRecords
        BY <3>4 DEF RuntimeRecords
      <3> HIDE DEF a3
      <3>6. a4 \in RuntimeRecords
        BY <3>5 DEF RuntimeRecords
      <3> HIDE DEF a4
      <3>7. a5 \in RuntimeRecords
        BY <3>6 DEF RuntimeRecords
      <3> HIDE DEF a5
      <3>8. a6 \in RuntimeRecords
        BY <3>2, <3>7 DEF RuntimeRecords
      <3> QED
        BY <3>2, <3>8
    <2>5. RuntimeGood(d, TRUE)
      BY <2>3, <2>4 DEF RuntimeGood
    <2> QED
      BY <2>3, <2>5 DEF d
  <1> QED
    BY <1>2, <1>3

(* run(): at once when nothing is awaited, or by a timeout.                 *)
LEMMA RuntimeRun ==
  ASSUME NEW r, NEW v \in BOOLEAN, RuntimeGood(r, v), r.deps = 0 => v, NEW o
  PROVE  LET n == Runtime!run(r, o) IN
         /\ RuntimeGood(n, v) /\ n.hooks <= r.hooks
         /\ RuntimeSum(n) <= RuntimeSum(r) + 1
         /\ r.deps > 0 => n = r
  <1> DEFINE n == Runtime!run(r, o)
             p == Runtime!preRun(r)
             q == [p EXCEPT !.timers = @ + 1]
             Goal(x) == /\ RuntimeGood(x, v) /\ x.hooks <= r.hooks /\ RuntimeSum(x) <= RuntimeSum(r) + 1
  <1>1. r \in RuntimeRecords
    BY DEF RuntimeGood
  <1>2. p = [r EXCEPT !.deps = @ + r.hooks, !.hooks = 0]
    BY DEF Runtime!preRun
  <1> HIDE DEF p
  <1>3. /\ p \in RuntimeRecords /\ p.deps = r.deps + r.hooks /\ p.hooks = 0 /\ p.timers = r.timers
        /\ p.mains = r.mains /\ p.ctors = r.ctors /\ p.listeners = r.listeners
        /\ p.calledRun = r.calledRun /\ p.atInit = r.atInit
    <2> DEFINE w == r.deps + r.hooks
    <2>1. w \in Nat
      BY <1>1 DEF RuntimeRecords
    <2>2. p = [r EXCEPT !.deps = w, !.hooks = 0]
      BY <1>1, <1>2 DEF RuntimeRecords
    <2> HIDE DEF w
    <2>3. p \in RuntimeRecords
      <3> DEFINE a == [r EXCEPT !.deps = w]
      <3>1. p = [a EXCEPT !.hooks = 0]
        BY <2>2
      <3>2. a \in RuntimeRecords
        BY <1>1, <2>1 DEF RuntimeRecords
      <3> HIDE DEF a
      <3> QED
        BY <3>1, <3>2 DEF RuntimeRecords
    <2>4. /\ p.deps = w /\ p.hooks = 0 /\ p.timers = r.timers
          /\ p.mains = r.mains /\ p.ctors = r.ctors /\ p.listeners = r.listeners
          /\ p.calledRun = r.calledRun /\ p.atInit = r.atInit
      BY <1>1, <2>2 DEF RuntimeRecords
    <2> QED
      BY <2>3, <2>4 DEF w
  <1>4. RuntimeGood(p, v)
    BY <1>3 DEF RuntimeGood
  <1>5. r.deps \in Nat /\ r.hooks \in 0 .. 1 /\ r.timers \in Nat
    BY <1>1 DEF RuntimeRecords
  <1>6. n = CASE r.deps > 0 -> r
              [] r.deps = 0 /\ p.deps > 0 -> p
              [] p.deps = 0 /\ s1.setStatus -> q
              [] OTHER -> Runtime!doRun(p, o)
    BY DEF Runtime!run, p
  <1> HIDE DEF n
  <1>7. CASE r.deps > 0
    <2>1. n = r
      BY <1>3, <1>5, <1>6, <1>7
    <2>2. Goal(n)
      BY <1>5, <2>1 DEF RuntimeSum
    <2> QED
      BY <2>1, <2>2 DEF n
  <1>8. CASE r.deps = 0 /\ p.deps > 0
    <2>1. n = p
      BY <1>3, <1>5, <1>6, <1>8
    <2>2. Goal(n)
      BY <1>3, <1>4, <1>5, <2>1 DEF RuntimeSum
    <2> QED
      BY <1>8, <2>2 DEF n
  <1>9. CASE r.deps = 0 /\ p.deps = 0 /\ s1.setStatus
    <2>1. n = q
      BY <1>3, <1>5, <1>6, <1>9
    <2>2. /\ q \in RuntimeRecords /\ q.deps = p.deps /\ q.hooks = p.hooks /\ q.timers = p.timers + 1
          /\ q.mains = p.mains /\ q.ctors = p.ctors /\ q.listeners = p.listeners
          /\ q.calledRun = p.calledRun /\ q.atInit = p.atInit
      BY <1>3 DEF RuntimeRecords
    <2> HIDE DEF q
    <2>3. RuntimeGood(q, v)
      BY <1>4, <2>2 DEF RuntimeGood
    <2>4. Goal(q)
      BY <1>3, <1>5, <2>2, <2>3 DEF RuntimeSum
    <2> QED
      BY <1>9, <2>1, <2>4 DEF n
  <1>10. CASE r.deps = 0 /\ p.deps = 0 /\ ~s1.setStatus
    <2> DEFINE d == Runtime!doRun(p, o)
    <2>1. n = d
      BY <1>3, <1>5, <1>6, <1>10
    <2>2. v = TRUE
      BY <1>10
    <2>3. /\ RuntimeGood(d, TRUE) /\ d.timers = p.timers /\ d.deps = p.deps /\ d.hooks = p.hooks
      BY <1>4, <2>2, RuntimeDoRun
    <2> HIDE DEF d
    <2>4. RuntimeGood(d, v)
      BY <2>2, <2>3
    <2>5. d.hooks <= r.hooks /\ RuntimeSum(d) <= RuntimeSum(r) + 1
      BY <1>3, <1>5, <2>3 DEF RuntimeSum
    <2>6. Goal(d)
      BY <2>4, <2>5
    <2> QED
      BY <1>10, <2>1, <2>6 DEF n
  <1>11. p.deps > 0 \/ p.deps = 0
    BY <1>3, <1>5
  <1> QED
    BY <1>5, <1>7, <1>8, <1>9, <1>10, <1>11

(* A dependency ends, and may be the last one that was awaited.             *)
LEMMA RuntimeRemove ==
  ASSUME NEW r, NEW v \in BOOLEAN, RuntimeGood(r, v), r.deps > 0, r.deps = 1 => v, NEW o
  PROVE  LET n == Runtime!removeRunDependency(r, o) IN
         /\ RuntimeGood(n, v)
         /\ RuntimeSum(n) <= RuntimeSum(r)
         /\ r.deps > 1 => n = [r EXCEPT !.deps = @ - 1] /\ n.deps = r.deps - 1
                          /\ n.timers = r.timers /\ n.calledRun = r.calledRun
         /\ ~r.armed => n = [r EXCEPT !.deps = @ - 1]
  <1> DEFINE n == Runtime!removeRunDependency(r, o)
             d == [r EXCEPT !.deps = @ - 1]
             e == [d EXCEPT !.armed = FALSE]
             f == IF e.calledRun THEN e ELSE Runtime!run(e, o)
             g == [f EXCEPT !.armed = ~f.calledRun]
  <1>1. r \in RuntimeRecords /\ r.deps \in Nat \ {0} /\ r.hooks \in 0 .. 1 /\ r.timers \in Nat
    BY DEF RuntimeGood, RuntimeRecords
  <1>2. /\ d \in RuntimeRecords /\ d.deps = r.deps - 1 /\ d.hooks = r.hooks /\ d.timers = r.timers
        /\ d.mains = r.mains /\ d.ctors = r.ctors /\ d.listeners = r.listeners
        /\ d.calledRun = r.calledRun /\ d.atInit = r.atInit /\ d.armed = r.armed
    BY <1>1 DEF RuntimeRecords
  <1>3. RuntimeGood(d, v) /\ RuntimeSum(d) = RuntimeSum(r) - 1
    BY <1>1, <1>2 DEF RuntimeGood, RuntimeSum
  <1>4. n = IF d.deps = 0 /\ d.armed THEN g ELSE d
    BY DEF Runtime!removeRunDependency, Runtime!runCaller
  <1> HIDE DEF n
  <1>5. CASE ~(d.deps = 0 /\ d.armed)
    <2>1. n = d
      BY <1>4, <1>5
    <2>2. RuntimeSum(d) <= RuntimeSum(r)
      BY <1>1, <1>3 DEF RuntimeSum
    <2>3. RuntimeGood(n, v) /\ RuntimeSum(n) <= RuntimeSum(r)
      BY <1>3, <2>1, <2>2
    <2> QED
      BY <1>2, <2>1, <2>3 DEF n
  <1>6. CASE d.deps = 0 /\ d.armed
    <2>1. n = g /\ v = TRUE /\ ~(r.deps > 1) /\ r.armed
      BY <1>1, <1>2, <1>4, <1>6
    <2> HIDE DEF d
    <2>2. /\ e \in RuntimeRecords /\ e.deps = d.deps /\ e.hooks = d.hooks /\ e.timers = d.timers
          /\ e.mains = d.mains /\ e.ctors = d.ctors /\ e.listeners = d.listeners
          /\ e.calledRun = d.calledRun /\ e.atInit = d.atInit
      BY <1>2 DEF RuntimeRecords
    <2> HIDE DEF e
    <2>3. RuntimeGood(e, v) /\ RuntimeSum(e) = RuntimeSum(d)
      BY <1>3, <2>2 DEF RuntimeGood, RuntimeSum
    <2>4. RuntimeGood(f, v) /\ RuntimeSum(f) <= RuntimeSum(e) + 1
      <3>1. CASE e.calledRun
        <4>1. f = e
          BY <3>1
        <4>2. RuntimeSum(e) <= RuntimeSum(e) + 1
          BY <2>2, <1>2, <1>1 DEF RuntimeSum
        <4> QED
          BY <2>3, <4>1, <4>2
      <3>2. CASE ~e.calledRun
        <4>1. f = Runtime!run(e, o)
          BY <3>2
        <4> QED
          BY <2>1, <2>3, <4>1, RuntimeRun
      <3> QED
        BY <3>1, <3>2
    <2> HIDE DEF f
    <2>5. f \in RuntimeRecords
      BY <2>4 DEF RuntimeGood
    <2>6. /\ g \in RuntimeRecords /\ g.deps = f.deps /\ g.hooks = f.hooks /\ g.timers = f.timers
          /\ g.mains = f.mains /\ g.ctors = f.ctors /\ g.listeners = f.listeners
          /\ g.calledRun = f.calledRun /\ g.atInit = f.atInit
      BY <2>5 DEF RuntimeRecords
    <2> HIDE DEF g
    <2>7. RuntimeGood(g, v) /\ RuntimeSum(g) = RuntimeSum(f)
      BY <2>4, <2>6 DEF RuntimeGood, RuntimeSum
    <2>8. RuntimeSum(r) \in Int /\ RuntimeSum(f) \in Int /\ RuntimeSum(e) \in Int
      BY <1>1, <2>2, <2>5 DEF RuntimeSum, RuntimeRecords
    <2>9. RuntimeSum(g) <= RuntimeSum(r)
      BY <1>3, <2>3, <2>4, <2>7, <2>8
    <2> QED
      BY <2>1, <2>7, <2>9 DEF n
  <1> QED
    BY <1>5, <1>6

(* How the page was built, and how far it got.                              *)
RuntimeFrame ==
    /\ s1 \in [setStatus : BOOLEAN, preRun : 0 .. 1, atOnce : BOOLEAN]
    /\ s2 \in {"script", "streaming", "fetching", "compiling", "received", "aborted"}
    /\ s4 \in 0 .. MaxLate

(* The runtime is good, and waits for what is still to come.                *)
RuntimeWaits ==
    /\ RuntimeGood(s3, s2 = "received")
    /\ s2 # "received" => ~s3.calledRun /\ s3.timers = 0
    /\ s2 \notin {"script", "received"} => s3.deps > 0
    /\ s2 = "script" => s3.deps = 0 /\ ~s3.armed /\ s4 = 0 /\ s3.hooks = s1.preRun
    /\ RuntimeSum(s3) <= 1 + s1.preRun + s4

(* The number shown is the number of clicks, as far as it has digits.       *)
RuntimeText ==
    /\ s5 \in 0 .. MaxClicks
    /\ s6 = IF s5 < Factor THEN s5 ELSE Factor - 1

(* The invariant of the runtime is these three.                             *)
LEMMA RuntimeWhole == Runtime!Inv <=> RuntimeFrame /\ RuntimeWaits /\ RuntimeText
  <1>1. ASSUME Runtime!Inv PROVE RuntimeFrame /\ RuntimeWaits /\ RuntimeText
    <2>1. RuntimeFrame /\ RuntimeText
      BY <1>1 DEF Runtime!Inv, Runtime!TypeOK, Runtime!DisplayFollowsCounter, Runtime!Shells,
           RuntimeFrame, RuntimeText
    <2>2. s3 \in RuntimeRecords
      <3>1. 0 .. 2 + MaxLate \subseteq Nat
        BY RuntimeAssumption
      <3>2. s3 \in [deps : 0 .. 2 + MaxLate, armed : BOOLEAN, hooks : 0 .. 1,
               timers : 0 .. 2 + MaxLate, atInit : 0 .. 1, calledRun : BOOLEAN,
               ctors : 0 .. 1, listeners : 0 .. 1, mains : 0 .. 1, initialized : BOOLEAN]
        BY <1>1 DEF Runtime!Inv, Runtime!TypeOK
      <3> DEFINE S == 0 .. 2 + MaxLate
      <3>3. S \subseteq Nat
        BY <3>1
      <3>4. s3 \in [deps : S, armed : BOOLEAN, hooks : 0 .. 1,
               timers : S, atInit : 0 .. 1, calledRun : BOOLEAN,
               ctors : 0 .. 1, listeners : 0 .. 1, mains : 0 .. 1, initialized : BOOLEAN]
        BY <3>2
      <3> HIDE DEF S
      <3> QED
        BY <3>3, <3>4 DEF RuntimeRecords
    <2>3. RuntimeWaits
      BY <1>1, <2>2 DEF Runtime!Inv, Runtime!MainOnce, RuntimeWaits, RuntimeGood, RuntimeSum
    <2> QED
      BY <2>1, <2>3
  <1>2. ASSUME RuntimeFrame, RuntimeWaits, RuntimeText PROVE Runtime!Inv
    <2>1. s3 \in RuntimeRecords
      BY <1>2 DEF RuntimeWaits, RuntimeGood
    <2>2. /\ s3.deps \in Nat /\ s3.timers \in Nat /\ s3.hooks \in 0 .. 1 /\ s1.preRun \in 0 .. 1
          /\ s4 \in 0 .. MaxLate /\ MaxLate \in Nat
          /\ s3.timers + s3.deps + s3.hooks <= 1 + s1.preRun + s4
      BY <1>2, <2>1, RuntimeAssumption DEF RuntimeFrame, RuntimeWaits, RuntimeSum, RuntimeRecords
    <2>3. s3.deps \in 0 .. 2 + MaxLate /\ s3.timers \in 0 .. 2 + MaxLate
      BY <2>2
    <2>4. s3 \in [deps : 0 .. 2 + MaxLate, armed : BOOLEAN, hooks : 0 .. 1,
               timers : 0 .. 2 + MaxLate, atInit : 0 .. 1, calledRun : BOOLEAN,
               ctors : 0 .. 1, listeners : 0 .. 1, mains : 0 .. 1, initialized : BOOLEAN]
      <3> DEFINE S == 0 .. 2 + MaxLate
      <3>1. s3.deps \in S /\ s3.timers \in S
        BY <2>3
      <3> HIDE DEF S
      <3>2. s3 \in [deps : S, armed : BOOLEAN, hooks : 0 .. 1,
               timers : S, atInit : 0 .. 1, calledRun : BOOLEAN,
               ctors : 0 .. 1, listeners : 0 .. 1, mains : 0 .. 1, initialized : BOOLEAN]
        BY <2>1, <3>1 DEF RuntimeRecords
      <3> QED
        BY <3>2 DEF S
    <2>5. s6 \in Int /\ s5 \in 0 .. MaxClicks
      BY <1>2, RuntimeAssumption DEF RuntimeText
    <2>6. Runtime!TypeOK
      BY <1>2, <2>4, <2>5 DEF RuntimeFrame, Runtime!TypeOK, Runtime!Shells
    <2>7. s3.mains <= 1 /\ s3.listeners = s3.mains /\ s3.ctors = s3.mains
          /\ (s3.mains = 1 => s2 = "received")
      BY <1>2 DEF RuntimeWaits, RuntimeGood
    <2> QED
      BY <1>2, <2>2, <2>6, <2>7 DEF Runtime!Inv, Runtime!MainOnce, Runtime!DisplayFollowsCounter,
         RuntimeWaits, RuntimeGood, RuntimeText
  <1> QED
    BY <1>1, <1>2

(* The same, after a step.                                                  *)
LEMMA RuntimeWholeNext == (RuntimeFrame /\ RuntimeWaits /\ RuntimeText)' => Runtime!Inv'
  BY RuntimeWhole, PTL

(* The runtime begins with no timer, no dependency and no hook but the      *)
(* page's.                                                                  *)
LEMMA RuntimeStarts == Runtime!Init => Runtime!Inv
  <1> SUFFICES ASSUME Runtime!Init PROVE RuntimeFrame /\ RuntimeWaits /\ RuntimeText
    BY RuntimeWhole
  <1>1. RuntimeFrame /\ RuntimeText
    BY RuntimeAssumption DEF Runtime!Init, Runtime!Shells, RuntimeFrame, RuntimeText
  <1>2. s1.preRun \in 0 .. 1
    BY <1>1 DEF RuntimeFrame
  <1>3. s3 = [deps |-> 0, armed |-> FALSE, hooks |-> s1.preRun, timers |-> 0, atInit |-> 0,
              calledRun |-> FALSE, ctors |-> 0, listeners |-> 0, mains |-> 0,
              initialized |-> FALSE] /\ s2 = "script" /\ s4 = 0
    BY DEF Runtime!Init
  <1>4. s3 \in RuntimeRecords
    BY <1>2, <1>3 DEF RuntimeRecords
  <1>5. RuntimeWaits
    BY <1>2, <1>3, <1>4 DEF RuntimeWaits, RuntimeGood, RuntimeSum
  <1> QED
    BY <1>1, <1>5

(* The printed number: a handle 1 and a value, as long as the value fits.   *)
LEMMA RuntimePrinted ==
  ASSUME NEW b \in Nat \ {0}, NEW v \in Nat, v < b
  PROVE  b + v >= b /\ (b + v) \div b = 1 /\ (b + v) % b = v
  <1> DEFINE a == b + v
             q == a \div b
  <1>1. q \in Int /\ b * q <= a /\ a < b * q + b /\ a % b \in 0 .. b - 1
    <2>1. a \in Int
      OBVIOUS
    <2> HIDE DEF a
    <2> QED
      BY <2>1, Quotient
  <1>2. a = b * q + (a % b)
    OBVIOUS
  <1>3. a = b + v
    OBVIOUS
  <1> HIDE DEF q, a
  <1>4. ~(q <= 0)
    <2> SUFFICES ASSUME q <= 0 PROVE FALSE
      OBVIOUS
    <2>1. b * q <= b * 0 /\ b * 0 = 0 /\ b * q \in Int
      BY <1>1, Multiply
    <2> QED
      BY <1>1, <1>3, <2>1
  <1>5. ~(2 <= q)
    <2> SUFFICES ASSUME 2 <= q PROVE FALSE
      OBVIOUS
    <2>1. b * 2 <= b * q /\ b * 2 = b + b /\ b * q \in Int
      BY <1>1, Multiply
    <2> QED
      BY <1>1, <1>3, <2>1
  <1>6. q = 1
    BY <1>1, <1>4, <1>5
  <1>7. a % b = v
    BY <1>1, <1>2, <1>3, <1>6
  <1> QED
    BY <1>3, <1>6, <1>7 DEF q, a

(* A larger value changes the handle, which then has no element.            *)
LEMMA RuntimeWraps ==
  ASSUME NEW b \in Nat \ {0}, NEW v \in Nat, ~(v < b)
  PROVE  (b + v) \div b # 1
  <1> DEFINE a == b + v
             q == a \div b
  <1>1. q \in Int /\ a < b * q + b
    BY Quotient
  <1>2. a = b + v
    OBVIOUS
  <1> HIDE DEF q, a
  <1>3. q # 1
    BY <1>1, <1>2
  <1> QED
    BY <1>3 DEF q, a

(* A late dependency of the shell, and a click, leave the program alone.    *)
LEMMA RuntimeKeeps ==
  ASSUME Runtime!Inv, Runtime!Next
  PROVE  Runtime!Inv'
  <1>1. RuntimeFrame /\ RuntimeWaits /\ RuntimeText
    BY RuntimeWhole
  <1> SUFFICES RuntimeFrame' /\ RuntimeWaits' /\ RuntimeText'
    BY RuntimeWholeNext
  <1>2. /\ s3 \in RuntimeRecords /\ s1.preRun \in 0 .. 1 /\ s1.atOnce \in BOOLEAN
        /\ s3.deps \in Nat /\ s3.timers \in Nat /\ s3.hooks \in 0 .. 1 /\ s4 \in Nat
        /\ s4 \in 0 .. MaxLate /\ MaxLate \in Nat
    BY <1>1, RuntimeAssumption DEF RuntimeFrame, RuntimeWaits, RuntimeGood, RuntimeRecords
  <1>3. ASSUME NEW o, Runtime!Script(o)
        PROVE  RuntimeFrame' /\ RuntimeWaits' /\ RuntimeText'
    <2> DEFINE a == [s3 EXCEPT !.deps = 1]
               b == [a EXCEPT !.atInit = 1]
               g == IF s1.atOnce THEN Runtime!removeRunDependency(b, o) ELSE a
               h == [g EXCEPT !.armed = TRUE]
               w == s1.atOnce
    <2>1. /\ s2 = "script" /\ s3' = Runtime!run(h, o)
          /\ s2' = (IF w THEN "received" ELSE "streaming")
          /\ UNCHANGED <<s1, s4, s5, s6>>
      BY <1>3 DEF Runtime!Script, Runtime!receiveInstance
    <2>2. s3.deps = 0 /\ ~s3.armed /\ s4 = 0 /\ ~s3.calledRun /\ s3.timers = 0
          /\ s3.hooks <= s1.preRun
      <3>1. /\ s3.deps = 0 /\ ~s3.armed /\ s4 = 0 /\ ~s3.calledRun /\ s3.timers = 0
            /\ s3.hooks = s1.preRun
        BY <1>1, <2>1 DEF RuntimeWaits
      <3> QED
        BY <1>2, <3>1
    <2>3. /\ a \in RuntimeRecords /\ a.deps = 1 /\ a.hooks = s3.hooks /\ a.timers = 0 /\ ~a.armed
          /\ a.mains = s3.mains /\ a.ctors = s3.ctors /\ a.listeners = s3.listeners
          /\ a.calledRun = s3.calledRun /\ a.atInit = s3.atInit
      BY <1>2, <2>2 DEF RuntimeRecords
    <2> HIDE DEF a
    <2>4. /\ b \in RuntimeRecords /\ b.deps = 1 /\ b.hooks = s3.hooks /\ b.timers = 0 /\ ~b.armed
          /\ b.mains = s3.mains /\ b.ctors = s3.ctors /\ b.listeners = s3.listeners
          /\ b.calledRun = s3.calledRun /\ b.atInit = 1
      BY <2>3 DEF RuntimeRecords
    <2> HIDE DEF b
    <2>5. RuntimeGood(g, w) /\ g.deps = (IF w THEN 0 ELSE 1) /\ g.hooks = s3.hooks /\ g.timers = 0
          /\ ~g.calledRun
      <3>1. RuntimeGood(s3, FALSE)
        BY <1>1, <2>1 DEF RuntimeWaits, RuntimeGood
      <3>2. CASE w
        <4>1. RuntimeGood(b, TRUE)
          BY <2>2, <2>4, <3>1 DEF RuntimeGood
        <4> DEFINE c == Runtime!removeRunDependency(b, o)
        <4>2. c = [b EXCEPT !.deps = @ - 1] /\ RuntimeGood(c, TRUE)
          <5>1. b.deps > 0 /\ ~b.armed /\ (b.deps = 1 => TRUE)
            BY <2>4
          <5> QED
            BY <4>1, <5>1, RuntimeRemove
        <4>3. RuntimeGood(c, TRUE)
          BY <4>2
        <4>4. c.deps = 0 /\ c.hooks = b.hooks /\ c.timers = b.timers /\ c.calledRun = b.calledRun
          BY <2>4, <4>2 DEF RuntimeRecords
        <4>5. g = c
          BY <3>2
        <4>6. w = TRUE
          BY <3>2
        <4> HIDE DEF c, g, w
        <4> QED
          BY <2>2, <2>4, <4>3, <4>4, <4>5, <4>6
      <3>3. CASE ~w
        <4>1. RuntimeGood(a, FALSE)
          BY <2>2, <2>3, <3>1 DEF RuntimeGood
        <4>2. g = a /\ w = FALSE
          BY <1>2, <3>3
        <4> HIDE DEF g, w
        <4> QED
          BY <2>2, <2>3, <4>1, <4>2
      <3> QED
        BY <3>2, <3>3
    <2> HIDE DEF g
    <2>6. g \in RuntimeRecords
      BY <2>5 DEF RuntimeGood
    <2>7. /\ h \in RuntimeRecords /\ h.deps = g.deps /\ h.hooks = g.hooks /\ h.timers = g.timers
          /\ h.mains = g.mains /\ h.ctors = g.ctors /\ h.listeners = g.listeners
          /\ h.calledRun = g.calledRun /\ h.atInit = g.atInit
      BY <2>6 DEF RuntimeRecords
    <2> HIDE DEF h
    <2>8. RuntimeGood(h, w) /\ (h.deps = 0 => w) /\ w \in BOOLEAN
      BY <1>2, <2>5, <2>7 DEF RuntimeGood
    <2> DEFINE n == Runtime!run(h, o)
    <2>9. /\ RuntimeGood(n, w) /\ RuntimeSum(n) <= RuntimeSum(h) + 1 /\ (h.deps > 0 => n = h)
      BY <2>8, RuntimeRun
    <2> HIDE DEF n
    <2>10. n \in RuntimeRecords
      BY <2>9 DEF RuntimeGood
    <2>11. RuntimeSum(n) <= 1 + s1.preRun
      <3>1. RuntimeSum(n) \in Int
        BY <2>10 DEF RuntimeSum, RuntimeRecords
      <3>2. CASE w
        <4>1. RuntimeSum(h) = s3.hooks
          BY <1>2, <2>5, <2>7, <3>2 DEF RuntimeSum
        <4> QED
          BY <1>2, <2>2, <2>9, <3>1, <4>1
      <3>3. CASE ~w
        <4>1. RuntimeSum(h) = 1 + s3.hooks /\ n = h
          BY <1>2, <2>5, <2>7, <2>9, <3>3 DEF RuntimeSum
        <4> QED
          BY <1>2, <2>2, <3>1, <4>1
      <3> QED
        BY <3>2, <3>3
    <2>12. ~w => n = h /\ n.deps = 1 /\ ~n.calledRun /\ n.timers = 0
      BY <2>5, <2>7, <2>9
    <2>13. s3' = n /\ s4' = s4 /\ s1' = s1
      BY <2>1 DEF n
    <2>14. (s2' = "received") = w
      BY <1>2, <2>1
    <2>15. RuntimeFrame' /\ RuntimeText'
      BY <1>1, <2>1 DEF RuntimeFrame, RuntimeText
    <2>16. s2' # "script" /\ (s2' = "received" <=> w)
      BY <2>1
    <2> HIDE DEF w
    <2>17. RuntimeGood(s3', s2' = "received")
      BY <2>9, <2>13, <2>14
    <2>18. /\ s2' # "received" => ~s3'.calledRun /\ s3'.timers = 0
           /\ s2' \notin {"script", "received"} => s3'.deps > 0
      BY <2>12, <2>13, <2>16
    <2>19. RuntimeSum(s3') <= 1 + s1'.preRun + s4'
      BY <1>2, <2>2, <2>11, <2>13
    <2> QED
      BY <2>15, <2>16, <2>17, <2>18, <2>19 DEF RuntimeWaits, RuntimeSum
  <1>4. ASSUME NEW o, Runtime!Receive(o)
        PROVE  RuntimeFrame' /\ RuntimeWaits' /\ RuntimeText'
    <2> DEFINE b == [s3 EXCEPT !.atInit = 1]
               n == Runtime!removeRunDependency(b, o)
    <2>1. /\ s2 \in {"streaming", "compiling"} /\ s2' = "received" /\ s3' = n
          /\ UNCHANGED <<s1, s4, s5, s6>>
      BY <1>4 DEF Runtime!Receive, Runtime!receiveInstance
    <2>2. s3.deps > 0 /\ ~s3.calledRun /\ RuntimeGood(s3, FALSE)
      BY <1>1, <2>1 DEF RuntimeWaits, RuntimeGood
    <2>3. /\ b \in RuntimeRecords /\ b.deps = s3.deps /\ b.hooks = s3.hooks /\ b.timers = s3.timers
          /\ b.mains = s3.mains /\ b.ctors = s3.ctors /\ b.listeners = s3.listeners
          /\ b.calledRun = s3.calledRun /\ b.atInit = 1
      BY <1>2 DEF RuntimeRecords
    <2> HIDE DEF b
    <2>4. RuntimeGood(b, TRUE) /\ RuntimeSum(b) = RuntimeSum(s3)
      BY <2>2, <2>3 DEF RuntimeGood, RuntimeSum
    <2>5. RuntimeGood(n, TRUE) /\ RuntimeSum(n) <= RuntimeSum(b)
      BY <2>2, <2>3, <2>4, RuntimeRemove
    <2> HIDE DEF n
    <2>6. (s2' = "received") = TRUE
      BY <2>1
    <2>7. RuntimeGood(s3', s2' = "received")
      BY <2>1, <2>5, <2>6
    <2>8. RuntimeSum(s3') <= 1 + s1'.preRun + s4'
      <3>1. RuntimeSum(s3) <= 1 + s1.preRun + s4
        BY <1>1 DEF RuntimeWaits
      <3>2. s1' = s1 /\ s4' = s4 /\ s3' = n
        BY <2>1
      <3>3. n \in RuntimeRecords
        BY <2>5 DEF RuntimeGood
      <3>4. RuntimeSum(n) \in Int /\ RuntimeSum(s3) \in Int
        BY <1>2, <3>3 DEF RuntimeSum, RuntimeRecords
      <3>5. RuntimeSum(n) <= 1 + s1.preRun + s4
        BY <1>2, <2>4, <2>5, <3>1, <3>4
      <3> QED
        BY <3>2, <3>5
    <2>9. RuntimeFrame' /\ RuntimeText'
      BY <1>1, <2>1 DEF RuntimeFrame, RuntimeText
    <2> QED
      BY <2>1, <2>7, <2>8, <2>9 DEF RuntimeWaits, RuntimeSum
  <1>5. ASSUME NEW o, Runtime!DependencyEnds(o)
        PROVE  RuntimeFrame' /\ RuntimeWaits' /\ RuntimeText'
    <2> DEFINE n == Runtime!removeRunDependency(s3, o)
               v == s2 = "received"
    <2>1. /\ s2 # "script" /\ s3.deps > (IF v THEN 0 ELSE 1) /\ s3' = n
          /\ UNCHANGED <<s1, s2, s4, s5, s6>>
      BY <1>5 DEF Runtime!DependencyEnds, Runtime!Instance
    <2>2. RuntimeGood(s3, v) /\ v \in BOOLEAN /\ s3.deps > 0 /\ (s3.deps = 1 => v)
      BY <1>1, <1>2, <2>1 DEF RuntimeWaits
    <2>3. /\ RuntimeGood(n, v) /\ RuntimeSum(n) <= RuntimeSum(s3)
          /\ s3.deps > 1 => /\ n.deps = s3.deps - 1
                            /\ n.timers = s3.timers /\ n.calledRun = s3.calledRun
      <3> HIDE DEF v
      <3> QED
        BY <2>2, RuntimeRemove
    <2> HIDE DEF n
    <2>4. RuntimeGood(s3', s2' = "received")
      BY <2>1, <2>3
    <2>5. RuntimeSum(s3') <= 1 + s1'.preRun + s4'
      <3>1. RuntimeSum(s3) <= 1 + s1.preRun + s4
        BY <1>1 DEF RuntimeWaits
      <3>2. s1' = s1 /\ s4' = s4 /\ s3' = n
        BY <2>1
      <3>3. n \in RuntimeRecords
        BY <2>3 DEF RuntimeGood
      <3>4. RuntimeSum(n) \in Int /\ RuntimeSum(s3) \in Int
        BY <1>2, <3>3 DEF RuntimeSum, RuntimeRecords
      <3> QED
        BY <1>2, <2>3, <3>1, <3>2, <3>4
    <2>6. /\ s2' # "received" => ~s3'.calledRun /\ s3'.timers = 0
          /\ s2' \notin {"script", "received"} => s3'.deps > 0
      BY <1>1, <1>2, <2>1, <2>3 DEF RuntimeWaits
    <2>7. RuntimeFrame' /\ RuntimeText'
      BY <1>1, <2>1 DEF RuntimeFrame, RuntimeText
    <2> QED
      BY <2>1, <2>4, <2>5, <2>6, <2>7 DEF RuntimeWaits, RuntimeSum
  <1>6. ASSUME NEW o, Runtime!Timeout(o)
        PROVE  RuntimeFrame' /\ RuntimeWaits' /\ RuntimeText'
    <2> DEFINE b == [s3 EXCEPT !.timers = @ - 1]
               n == Runtime!doRun(b, o)
    <2>1. s3.timers > 0 /\ s3' = n /\ UNCHANGED <<s1, s2, s4, s5, s6>>
      BY <1>6 DEF Runtime!Timeout
    <2>2. s2 = "received" /\ RuntimeGood(s3, TRUE)
      BY <1>1, <1>2, <2>1 DEF RuntimeWaits, RuntimeGood
    <2>3. /\ b \in RuntimeRecords /\ b.deps = s3.deps /\ b.hooks = s3.hooks
          /\ b.timers = s3.timers - 1
          /\ b.mains = s3.mains /\ b.ctors = s3.ctors /\ b.listeners = s3.listeners
          /\ b.calledRun = s3.calledRun /\ b.atInit = s3.atInit
      BY <1>2, <2>1 DEF RuntimeRecords
    <2> HIDE DEF b
    <2>4. RuntimeGood(b, TRUE)
      BY <2>2, <2>3 DEF RuntimeGood
    <2>5. RuntimeGood(n, TRUE) /\ n.timers = b.timers /\ n.deps = b.deps /\ n.hooks = b.hooks
      BY <2>4, RuntimeDoRun
    <2> HIDE DEF n
    <2>6. (s2' = "received") = TRUE
      BY <2>1, <2>2
    <2>7. RuntimeGood(s3', s2' = "received")
      BY <2>1, <2>5, <2>6
    <2>8. RuntimeSum(s3') <= 1 + s1'.preRun + s4'
      <3>1. RuntimeSum(s3) <= 1 + s1.preRun + s4
        BY <1>1 DEF RuntimeWaits
      <3>2. s1' = s1 /\ s4' = s4 /\ s3' = n
        BY <2>1
      <3>3. RuntimeSum(n) <= RuntimeSum(s3) /\ RuntimeSum(n) \in Int /\ RuntimeSum(s3) \in Int
        BY <1>2, <2>3, <2>5 DEF RuntimeSum
      <3> QED
        BY <1>2, <3>1, <3>2, <3>3
    <2>9. RuntimeFrame' /\ RuntimeText'
      BY <1>1, <2>1 DEF RuntimeFrame, RuntimeText
    <2> QED
      BY <2>6, <2>7, <2>8, <2>9 DEF RuntimeWaits, RuntimeSum
  <1>7. ASSUME Runtime!StreamingFails \/ Runtime!BytesArrive \/ Runtime!Abort
        PROVE  RuntimeFrame' /\ RuntimeWaits' /\ RuntimeText'
    <2>1. /\ s2 \in {"streaming", "fetching", "compiling"}
          /\ s2' \in {"fetching", "compiling", "aborted"}
          /\ UNCHANGED <<s1, s3, s4, s5, s6>>
      BY <1>7 DEF Runtime!StreamingFails, Runtime!BytesArrive, Runtime!Abort
    <2>2. RuntimeGood(s3, s2 = "received") /\ RuntimeSum(s3) <= 1 + s1.preRun + s4
      BY <1>1 DEF RuntimeWaits
    <2>3. (s2 = "received") = (s2' = "received")
      BY <2>1
    <2>4. RuntimeGood(s3', s2' = "received") /\ RuntimeSum(s3') <= 1 + s1'.preRun + s4'
      BY <2>1, <2>2, <2>3
    <2> QED
      BY <1>1, <2>1, <2>4 DEF RuntimeFrame, RuntimeText, RuntimeWaits, RuntimeSum
  <1>8. ASSUME Runtime!addRunDependency
        PROVE  RuntimeFrame' /\ RuntimeWaits' /\ RuntimeText'
    <2> DEFINE n == [s3 EXCEPT !.deps = @ + 1]
    <2>1. /\ s2 # "script" /\ s4 < MaxLate /\ s4' = s4 + 1 /\ s3' = n
          /\ UNCHANGED <<s1, s2, s5, s6>>
      BY <1>8 DEF Runtime!addRunDependency
    <2>2. /\ n \in RuntimeRecords /\ n.deps = s3.deps + 1 /\ n.hooks = s3.hooks
          /\ n.timers = s3.timers
          /\ n.mains = s3.mains /\ n.ctors = s3.ctors /\ n.listeners = s3.listeners
          /\ n.calledRun = s3.calledRun /\ n.atInit = s3.atInit
      BY <1>2 DEF RuntimeRecords
    <2> HIDE DEF n
    <2>3. RuntimeGood(n, s2 = "received")
      BY <1>1, <2>2 DEF RuntimeWaits, RuntimeGood
    <2>4. RuntimeGood(s3', s2' = "received")
      BY <2>1, <2>3
    <2>5. RuntimeSum(s3) <= 1 + s1.preRun + s4
      BY <1>1 DEF RuntimeWaits
    <2>6. RuntimeSum(n) <= 1 + s1.preRun + (s4 + 1)
      BY <1>2, <2>2, <2>5 DEF RuntimeSum
    <2>7. RuntimeSum(s3') <= 1 + s1'.preRun + s4'
      BY <2>1, <2>6
    <2>8. RuntimeFrame' /\ RuntimeText'
      BY <1>1, <1>2, <2>1 DEF RuntimeFrame, RuntimeText
    <2>9. /\ s2' # "received" => ~s3'.calledRun /\ s3'.timers = 0
          /\ s2' \notin {"script", "received"} => s3'.deps > 0
      BY <1>1, <1>2, <2>1, <2>2 DEF RuntimeWaits
    <2> QED
      BY <2>1, <2>4, <2>7, <2>8, <2>9 DEF RuntimeWaits, RuntimeSum
  <1>9. ASSUME Runtime!Click
        PROVE  RuntimeFrame' /\ RuntimeWaits' /\ RuntimeText'
    <2>1. /\ s5 < MaxClicks /\ s5' = (IF s3.initialized THEN s5 + 1 ELSE s5)
          /\ s6' = (IF s3.initialized
                    THEN IF Factor + s5' >= Factor /\ (Factor + s5') \div Factor = 1
                         THEN (Factor + s5') % Factor ELSE s6
                    ELSE s6)
          /\ UNCHANGED <<s1, s2, s3, s4>>
      BY <1>9 DEF Runtime!Click, Runtime!shown
    <2>2. RuntimeFrame' /\ RuntimeWaits'
      BY <1>1, <2>1 DEF RuntimeFrame, RuntimeWaits, RuntimeGood, RuntimeSum
    <2>3. s5 \in Nat /\ s6 = (IF s5 < Factor THEN s5 ELSE Factor - 1) /\ Factor \in Nat \ {0}
          /\ MaxClicks \in Nat
      BY <1>1, RuntimeAssumption DEF RuntimeText
    <2>4. CASE ~s3.initialized
      BY <1>1, <2>1, <2>2, <2>4 DEF RuntimeText
    <2>5. CASE s3.initialized
      <3>1. s5' = s5 + 1
        BY <2>1, <2>5
      <3>2. CASE s5 + 1 < Factor
        <4>1. Factor + (s5 + 1) >= Factor /\ (Factor + (s5 + 1)) \div Factor = 1
              /\ (Factor + (s5 + 1)) % Factor = s5 + 1
          BY <2>3, <3>2, RuntimePrinted
        <4>2. s6' = s5'
          BY <2>1, <2>5, <3>1, <4>1
        <4> QED
          BY <2>1, <2>2, <2>3, <3>1, <3>2, <4>2 DEF RuntimeText
      <3>3. CASE ~(s5 + 1 < Factor)
        <4>1. (Factor + (s5 + 1)) \div Factor # 1
          BY <2>3, <3>3, RuntimeWraps
        <4>2. s6' = s6
          BY <2>1, <2>5, <3>1, <4>1
        <4>3. s6 = Factor - 1
          BY <2>3, <3>3
        <4> QED
          BY <2>1, <2>2, <2>3, <3>1, <3>3, <4>2, <4>3 DEF RuntimeText
      <3> QED
        BY <3>2, <3>3
    <2> QED
      BY <2>4, <2>5
  <1> QED
    BY <1>3, <1>4, <1>5, <1>6, <1>7, <1>8, <1>9 DEF Runtime!Next

(* A step of no component leaves the runtime of the web counter as it is.   *)
LEMMA RuntimeStays ==
  ASSUME Runtime!Inv, UNCHANGED vars
  PROVE  Runtime!Inv'
  <1>1. (RuntimeFrame /\ RuntimeWaits /\ RuntimeText)'
    BY RuntimeWhole DEF RuntimeFrame, RuntimeWaits, RuntimeText, RuntimeGood, RuntimeSum, vars
  <1> QED
    BY <1>1, RuntimeWholeNext

-----------------------------------------------------------------------------
(* The ghosts.                                                              *)

(* The ids the host remembers: as many as it may, and each of them once.    *)
Remembered(seen) ==
    /\ seen \in Seq(Ghosts!Ids) /\ Len(seen) <= GhostSeen
    /\ \A a, b \in DOMAIN seen : seen[a] = seen[b] => a = b

(* What a pest that is shown again may have after it in the list.           *)
Company(h0, dead, j) == IF j \in h0.risen THEN dead \cup Ghosts!Since(h0.seen, j) ELSE dead

(* The host when a render with the corpses dead begins.                     *)
Ready(h0, dead) ==
    /\ dead \subseteq Ghosts!Ids /\ Cardinality(dead) <= Slots
    /\ h0.ghosts \in Seq(Ghosts!Ids) /\ Len(h0.ghosts) <= GhostCap
    /\ Remembered(h0.seen) /\ ~ h0.twice
    /\ \A j \in dead \cap h0.risen :
          /\ j \in Ghosts!Members(h0.seen)
          /\ Cardinality(dead \cup Ghosts!Since(h0.seen, j)) <= Slots

(* The host after some of the death events of that render.                  *)
Shown(h0, dead, h) ==
    /\ h.ghosts \in Seq(Ghosts!Ids) /\ Len(h.ghosts) <= GhostCap
    /\ Remembered(h.seen) /\ ~ h.twice
    /\ h0.risen \subseteq h.risen /\ h.risen \subseteq h0.risen \cup dead
    /\ \A j \in dead \cap h.risen :
          /\ j \in Ghosts!Members(h.seen)
          /\ Ghosts!Since(h.seen, j) \subseteq Company(h0, dead, j)

(* A list t after id was put in s, which lost its d oldest entries.          *)
Pushed(s, id, t, d) ==
    /\ t \in Seq(Ghosts!Ids) /\ Len(t) <= GhostSeen
    /\ d \in {0, 1} /\ Len(t) = Len(s) + 1 - d /\ (d = 1 => Len(s) = GhostSeen)
    /\ \A k \in 1 .. Len(t) : k < Len(t) => k + d \in 1 .. Len(s) /\ t[k] = s[k + d]
    /\ Len(t) > 0 => t[Len(t)] = id

(* Remembering one more pest drops at most the oldest.                      *)
LEMMA GhostPushed ==
  ASSUME NEW s \in Seq(Ghosts!Ids), Len(s) <= GhostSeen, NEW id \in Ghosts!Ids
  PROVE  \E d \in {0, 1} : Pushed(s, id, Ghosts!Newest(Append(s, id), GhostSeen), d)
  <1> DEFINE a == Append(s, id)  t == Ghosts!Newest(a, GhostSeen)  L == Len(s)
  <1>0. GhostSeen \in Nat
    BY GhostsAssumption
  <1>1. /\ a \in Seq(Ghosts!Ids) /\ Len(a) = L + 1 /\ a[L + 1] = id
        /\ \A k \in 1 .. L : a[k] = s[k]
    OBVIOUS
  <1>2. L \in Nat /\ L <= GhostSeen /\ L = Len(s)
    OBVIOUS
  <1>3. t = IF L + 1 > GhostSeen THEN Tail(a) ELSE a
    BY <1>1, Zenon DEF Ghosts!Newest
  <1> HIDE DEF a, t, L
  <1>4. CASE L < GhostSeen
    <2>1. t = a
      BY <1>0, <1>2, <1>3, <1>4
    <2>2. /\ Len(t) = L + 1 - 0 /\ t[Len(t)] = id
          /\ \A k \in 1 .. Len(t) : k < Len(t) => k + 0 \in 1 .. L /\ t[k] = s[k + 0]
      BY <1>1, <1>2, <2>1
    <2>3. Pushed(s, id, t, 0)
      BY <1>0, <1>1, <1>2, <1>4, <2>1, <2>2 DEF Pushed
    <2> QED
      BY <2>3 DEF t, a
  <1>5. CASE L = GhostSeen
    <2>1. t = Tail(a)
      BY <1>0, <1>2, <1>3, <1>5
    <2>2. t \in Seq(Ghosts!Ids) /\ Len(t) = L /\ \A k \in 1 .. L : t[k] = a[k + 1]
      BY <1>1, <1>2, <2>1
    <2>3. /\ Len(t) = L + 1 - 1 /\ (Len(t) > 0 => t[Len(t)] = id)
          /\ \A k \in 1 .. Len(t) : k < Len(t) => k + 1 \in 1 .. L /\ t[k] = s[k + 1]
      BY <1>1, <1>2, <2>2
    <2>4. Pushed(s, id, t, 1)
      BY <1>2, <1>5, <2>2, <2>3 DEF Pushed
    <2> QED
      BY <2>4 DEF t, a
  <1> QED
    BY <1>0, <1>2, <1>4, <1>5

(* A remembered id is forgotten only when more than the list holds came     *)
(* after it.                                                                *)
LEMMA GhostRemembered ==
  ASSUME NEW s, Remembered(s), NEW id \in Ghosts!Ids, id \notin Ghosts!Members(s),
         NEW t, NEW d, Pushed(s, id, t, d)
  PROVE  /\ Remembered(t)
         /\ GhostSeen > 0 => id \in Ghosts!Members(t) /\ Ghosts!Since(t, id) \subseteq {id}
         /\ \A j \in Ghosts!Members(s) : Ghosts!Since(t, j) \subseteq Ghosts!Since(s, j) \cup {id}
         /\ \A j \in Ghosts!Members(s) : \A B :
               /\ IsFiniteSet(B) /\ Cardinality(B) <= GhostSeen
               /\ Ghosts!Since(s, j) \cup {id} \subseteq B
               => j \in Ghosts!Members(t)
  <1> DEFINE n == GhostSeen  L == Len(s)
  <1>1. n \in Nat /\ L \in Nat /\ L <= n /\ s \in Seq(Ghosts!Ids) /\ DOMAIN s = 1 .. L
        /\ \A a, b \in 1 .. L : s[a] = s[b] => a = b
        /\ \A k \in 1 .. L : s[k] # id /\ s[k] \in Ghosts!Ids
    BY GhostsAssumption DEF Remembered, Ghosts!Members
  <1>2. t \in Seq(Ghosts!Ids) /\ Len(t) <= n
    BY DEF Pushed
  <1>3. DOMAIN t = 1 .. Len(t) /\ Len(t) \in Nat
    BY <1>2
  <1>4. n = GhostSeen
    OBVIOUS
  <1>5. /\ d \in {0, 1} /\ Len(t) = L + 1 - d /\ (d = 1 => L = n)
        /\ \A k \in 1 .. Len(t) : k < Len(t) => k + d \in 1 .. L /\ t[k] = s[k + d]
        /\ Len(t) > 0 => t[Len(t)] = id
    BY DEF Pushed
  <1> HIDE DEF n, L
  <1>6. Remembered(t)
    <2>1. ASSUME NEW a \in 1 .. Len(t), NEW b \in 1 .. Len(t), t[a] = t[b], a < b PROVE FALSE
      <3>0. a \in Nat /\ b \in Nat /\ a >= 1 /\ b >= 1 /\ a <= Len(t) /\ b <= Len(t)
        BY <1>3
      <3>1. a < Len(t) /\ a + d \in 1 .. L /\ t[a] = s[a + d] /\ t[a] # id
        BY <1>1, <1>3, <1>5, <2>1
      <3>2. b < Len(t)
        <4> DEFINE m == Len(t)
        <4>1. m \in Nat /\ b \in Nat /\ b <= m /\ (m > 0 => t[m] = id)
          BY <1>3, <1>5, <3>0
        <4>2. b = m => t[b] = t[m]
          OBVIOUS
        <4>3. t[b] # id /\ b >= 1
          BY <2>1, <3>0, <3>1, Zenon
        <4> HIDE DEF m
        <4>4. b < m
          BY <4>1, <4>2, <4>3
        <4> QED
          BY <4>4, Zenon DEF m
      <3>3. b + d \in 1 .. L /\ t[b] = s[b + d]
        BY <1>5, <3>2
      <3>4. a + d = b + d
        BY <1>1, <2>1, <3>1, <3>3
      <3> QED
        BY <1>5, <2>1, <3>0, <3>4
    <2>2. \A a, b \in 1 .. Len(t) : t[a] = t[b] => a = b
      <3> SUFFICES ASSUME NEW a \in 1 .. Len(t), NEW b \in 1 .. Len(t), t[a] = t[b], a # b PROVE FALSE
        OBVIOUS
      <3>1. a < b \/ b < a
        OBVIOUS
      <3> QED
        BY <2>1, <3>1
    <2> QED
      BY <1>2, <1>3, <1>4, <2>2 DEF Remembered
  <1>7. ASSUME n > 0 PROVE id \in Ghosts!Members(t) /\ Ghosts!Since(t, id) \subseteq {id}
    <2>1. Len(t) > 0 /\ Len(t) \in DOMAIN t /\ t[Len(t)] = id
      BY <1>1, <1>3, <1>5, <1>7
    <2>2. ASSUME NEW k \in DOMAIN t, NEW i \in DOMAIN t, i <= k, t[i] = id PROVE t[k] = id
      <3>1. i = Len(t)
        BY <1>6, <2>1, <2>2 DEF Remembered
      <3>2. k = Len(t)
        BY <1>3, <2>2, <3>1
      <3> QED
        BY <2>1, <3>2
    <2> QED
      BY <2>1, <2>2 DEF Ghosts!Members, Ghosts!Since
  <1>8. ASSUME NEW j \in Ghosts!Members(s) PROVE Ghosts!Since(t, j) \subseteq Ghosts!Since(s, j) \cup {id}
    <2>1. j # id
      OBVIOUS
    <2>2. ASSUME NEW k \in DOMAIN t, NEW i \in DOMAIN t, i <= k, t[i] = j, t[k] # id
          PROVE  t[k] \in Ghosts!Since(s, j)
      <3>1. k < Len(t) /\ i < Len(t) /\ k \in 1 .. Len(t) /\ i \in 1 .. Len(t)
        BY <1>3, <1>5, <2>1, <2>2
      <3>2. k + d \in DOMAIN s /\ i + d \in DOMAIN s /\ t[k] = s[k + d] /\ j = s[i + d] /\ i + d <= k + d
        <4>1. k + d \in 1 .. L /\ i + d \in 1 .. L /\ t[k] = s[k + d] /\ t[i] = s[i + d]
          BY <1>5, <3>1
        <4>2. i + d <= k + d
          BY <1>3, <1>5, <2>2, <3>1
        <4> QED
          BY <1>1, <2>2, <4>1, <4>2
      <3> QED
        BY <3>2 DEF Ghosts!Since
    <2> QED
      BY <2>2 DEF Ghosts!Since
  <1>9. ASSUME NEW j \in Ghosts!Members(s), NEW B, IsFiniteSet(B), Cardinality(B) <= n,
               Ghosts!Since(s, j) \cup {id} \subseteq B
        PROVE  j \in Ghosts!Members(t)
    <2>1. PICK i \in 1 .. L : s[i] = j
      BY <1>1 DEF Ghosts!Members
    <2>2. CASE i - d \in 1 .. Len(t)
      <3>1. CASE i - d < Len(t)
        <4>1. t[i - d] = s[(i - d) + d]
          BY <1>5, <2>2, <3>1
        <4>2. (i - d) + d = i
          BY <1>5
        <4>3. t[i - d] = j
          BY <2>1, <4>1, <4>2
        <4> QED
          BY <1>3, <2>2, <4>3 DEF Ghosts!Members
      <3>2. CASE i - d = Len(t)
        BY <1>1, <1>5, <2>1, <3>2
      <3> QED
        BY <1>3, <2>2, <3>1, <3>2
    <2>3. CASE i - d \notin 1 .. Len(t)
      <3>1. d = 1 /\ i = 1 /\ L = n
        BY <1>1, <1>3, <1>5, <2>3
      <3>2. \A k \in 1 .. L : s[k] \in B
        <4>1. \A k \in 1 .. L : 1 <= k
          OBVIOUS
        <4>2. \A k \in 1 .. L : s[k] \in Ghosts!Since(s, j)
          BY <1>1, <2>1, <3>1, <4>1 DEF Ghosts!Since
        <4> QED
          BY <1>9, <4>2
      <3> DEFINE f == [k \in 1 .. n + 1 |-> IF k = n + 1 THEN id ELSE s[k]]
      <3>3. f \in Injection(1 .. n + 1, B)
        <4>1. id \in B
          BY <1>9
        <4>2. \A k \in 1 .. n + 1 : f[k] \in B
          BY <1>1, <3>1, <3>2, <4>1
        <4>3. \A a, b \in 1 .. n + 1 : f[a] = f[b] => a = b
          BY <1>1, <3>1
        <4> QED
          BY <4>2, <4>3 DEF Injection, IsInjective
      <3> HIDE DEF f
      <3>4. 1 \in Int /\ n + 1 \in Int /\ IsFiniteSet(1 .. n + 1) /\ Cardinality(1 .. n + 1) = n + 1
        <4>1. n + 1 \in Int /\ 1 <= n + 1 /\ (n + 1) - 1 + 1 = n + 1
          BY <1>1
        <4> QED
          BY <4>1, FS_Interval
      <3> DEFINE D == 1 .. n + 1
      <3>5. IsFiniteSet(D) /\ f \in Injection(D, B) /\ Cardinality(D) = n + 1
        BY <3>3, <3>4
      <3> HIDE DEF D
      <3>6. Cardinality(D) <= Cardinality(B)
        BY <1>9, <3>5, FS_Injection
      <3>7. Cardinality(B) \in Nat
        BY <1>9, FS_CardinalityType
      <3> QED
        BY <1>1, <1>9, <3>5, <3>6, <3>7
    <2> QED
      BY <2>2, <2>3
  <1> QED
    BY <1>4, <1>6, <1>7, <1>8, <1>9

(* Pests are a finite set.                                                  *)
LEMMA GhostIds == IsFiniteSet(Ghosts!Ids) /\ \A S \in SUBSET Ghosts!Ids : IsFiniteSet(S) /\ Cardinality(S) \in Nat
  <1>1. IsFiniteSet(1 .. MaxId)
    <2>1. 1 \in Int /\ MaxId \in Int
      BY GhostsAssumption
    <2> QED
      BY <2>1, FS_Interval
  <1>2. IsFiniteSet(Ghosts!Ids)
    BY <1>1 DEF Ghosts!Ids
  <1> QED
    BY <1>2, FS_Subset, FS_CardinalityType

(* What was remembered since a pest are pests.                              *)
LEMMA GhostSinceIds ==
  ASSUME NEW s, Remembered(s), NEW j
  PROVE  Ghosts!Since(s, j) \subseteq Ghosts!Ids
  <1>1. \A k \in DOMAIN s : s[k] \in Ghosts!Ids
    BY DEF Remembered
  <1> QED
    BY <1>1 DEF Ghosts!Since

(* A pest dies in the company of no more than can be alive at a time.       *)
LEMMA GhostCompany ==
  ASSUME NEW h0, NEW dead, Ready(h0, dead), NEW j \in dead
  PROVE  /\ IsFiniteSet(Company(h0, dead, j)) /\ Cardinality(Company(h0, dead, j)) <= Slots
         /\ dead \subseteq Company(h0, dead, j)
  <1>1. dead \subseteq Ghosts!Ids /\ Cardinality(dead) <= Slots /\ Remembered(h0.seen)
    BY DEF Ready
  <1>2. CASE j \in h0.risen
    <2> DEFINE S == dead \cup Ghosts!Since(h0.seen, j)
    <2>1. Ghosts!Since(h0.seen, j) \subseteq Ghosts!Ids
      BY <1>1, GhostSinceIds
    <2>2. S \subseteq Ghosts!Ids /\ dead \subseteq S
      BY <1>1, <2>1
    <2>3. Cardinality(S) <= Slots
      BY <1>2 DEF Ready
    <2>4. Company(h0, dead, j) = S
      BY <1>2 DEF Company
    <2> HIDE DEF S
    <2> QED
      BY <2>2, <2>3, <2>4, GhostIds
  <1>3. CASE j \notin h0.risen
    BY <1>1, <1>3, GhostIds DEF Company
  <1> QED
    BY <1>2, <1>3

(* One death event keeps what a render has shown.                           *)
LEMMA GhostAdded ==
  ASSUME NEW h0, NEW dead, Ready(h0, dead), NEW h, Shown(h0, dead, h), NEW id \in dead
  PROVE  Shown(h0, dead, Ghosts!addGhost(h, id))
  <1>1. CASE id \in Ghosts!Members(h.seen)
    BY <1>1 DEF Ghosts!addGhost
  <1>2. CASE id \notin Ghosts!Members(h.seen)
    <2> DEFINE g == Ghosts!Newest(Append(h.ghosts, id), GhostCap)
               t == Ghosts!Newest(Append(h.seen, id), GhostSeen)
               r == Ghosts!Rise(h, id)
    <2>1. r.ghosts = g /\ r.seen = t /\ r.risen = h.risen \cup {id} /\ (r.twice => h.twice \/ id \in h.risen)
      BY DEF Ghosts!Rise
    <2>2. id \in Ghosts!Ids /\ dead \subseteq Ghosts!Ids
      BY DEF Ready
    <2>3. g \in Seq(Ghosts!Ids) /\ Len(g) <= GhostCap
      <3> DEFINE a == Append(h.ghosts, id)
      <3>1. GhostCap \in Nat /\ h.ghosts \in Seq(Ghosts!Ids) /\ Len(h.ghosts) <= GhostCap
        BY GhostsAssumption DEF Shown
      <3>2. a \in Seq(Ghosts!Ids) /\ Len(a) = Len(h.ghosts) + 1
        BY <2>2, <3>1
      <3> HIDE DEF a
      <3>3. a # << >> /\ Tail(a) \in Seq(Ghosts!Ids) /\ Len(Tail(a)) = Len(a) - 1
        BY <3>1, <3>2
      <3>4. g = IF Len(a) > GhostCap THEN Tail(a) ELSE a
        BY Zenon DEF Ghosts!Newest, a
      <3> HIDE DEF g
      <3> QED
        BY <3>1, <3>2, <3>3, <3>4
    <2>4. Remembered(h.seen)
      BY DEF Shown
    <2>5. PICK d : Pushed(h.seen, id, t, d)
      <3>1. h.seen \in Seq(Ghosts!Ids) /\ Len(h.seen) <= GhostSeen
        BY <2>4 DEF Remembered
      <3> QED
        BY <2>2, <3>1, GhostPushed
    <2> HIDE DEF g, t, r
    <2>6. /\ Remembered(t)
          /\ GhostSeen > 0 => id \in Ghosts!Members(t) /\ Ghosts!Since(t, id) \subseteq {id}
          /\ \A j \in Ghosts!Members(h.seen) : Ghosts!Since(t, j) \subseteq Ghosts!Since(h.seen, j) \cup {id}
          /\ \A j \in Ghosts!Members(h.seen) : \A B :
                /\ IsFiniteSet(B) /\ Cardinality(B) <= GhostSeen
                /\ Ghosts!Since(h.seen, j) \cup {id} \subseteq B
                => j \in Ghosts!Members(t)
      BY <1>2, <2>2, <2>4, <2>5, GhostRemembered
    <2>7. id \notin h.risen
      BY <1>2 DEF Shown
    <2>8. ASSUME NEW j \in dead, j \in r.risen
          PROVE  j \in Ghosts!Members(t) /\ Ghosts!Since(t, j) \subseteq Company(h0, dead, j)
      <3> DEFINE B == Company(h0, dead, j)
      <3>1. IsFiniteSet(B) /\ Cardinality(B) <= Slots /\ dead \subseteq B
        BY GhostCompany
      <3>2. Cardinality(B) <= GhostSeen /\ (B # {} => GhostSeen > 0)
        <4>1. Cardinality(B) \in Nat /\ (B # {} => Cardinality(B) # 0)
          BY <3>1, FS_CardinalityType, FS_EmptySet
        <4> QED
          BY <3>1, <4>1, GhostsAssumption
      <3> HIDE DEF B
      <3>3. CASE j = id
        BY <2>6, <3>1, <3>2, <3>3 DEF B
      <3>4. CASE j # id
        <4>1. j \in dead \cap h.risen
          BY <2>1, <2>8, <3>4
        <4>2. j \in Ghosts!Members(h.seen) /\ Ghosts!Since(h.seen, j) \subseteq B
          BY <4>1 DEF Shown, B
        <4>3. Ghosts!Since(h.seen, j) \cup {id} \subseteq B
          BY <3>1, <4>2
        <4>4. j \in Ghosts!Members(t)
          BY <2>6, <3>1, <3>2, <4>2, <4>3
        <4>5. Ghosts!Since(t, j) \subseteq B
          BY <2>6, <4>2, <4>3
        <4> QED
          BY <4>4, <4>5 DEF B
      <3> QED
        BY <3>3, <3>4
    <2>9. h0.risen \subseteq h.risen /\ h.risen \subseteq h0.risen \cup dead /\ ~ h.twice
      BY DEF Shown
    <2>10. Shown(h0, dead, r)
      BY <2>1, <2>3, <2>6, <2>7, <2>8, <2>9 DEF Shown
    <2> QED
      BY <1>2, <2>10 DEF Ghosts!addGhost, r
  <1> QED
    BY <1>1, <1>2

(* A host's lists and histories, whatever is in them.                       *)
GhostHosts == [ghosts : Seq(Ghosts!Ids), seen : Seq(Ghosts!Ids),
               risen : SUBSET Ghosts!Ids, twice : BOOLEAN]

(* The newest of the remembered are pests.                                  *)
LEMMA GhostNewestIds ==
  ASSUME NEW s \in Seq(Ghosts!Ids), NEW id \in Ghosts!Ids, NEW n \in Nat
  PROVE  Ghosts!Newest(Append(s, id), n) \in Seq(Ghosts!Ids)
  <1> DEFINE a == Append(s, id)
  <1>1. a \in Seq(Ghosts!Ids) /\ Len(a) = Len(s) + 1
    OBVIOUS
  <1> HIDE DEF a
  <1>2. Tail(a) \in Seq(Ghosts!Ids)
    BY <1>1
  <1>3. Ghosts!Newest(a, n) \in Seq(Ghosts!Ids)
    BY <1>1, <1>2, Zenon DEF Ghosts!Newest
  <1> QED
    BY <1>3 DEF a

(* A ghost more leaves the host whole.                                      *)
LEMMA GhostAddedHost ==
  ASSUME NEW h \in GhostHosts, NEW id \in Ghosts!Ids
  PROVE  Ghosts!addGhost(h, id) \in GhostHosts
  <1> DEFINE g == Ghosts!Newest(Append(h.ghosts, id), GhostCap)
             t == Ghosts!Newest(Append(h.seen, id), GhostSeen)
             r == h.risen \cup {id}
             w == (h.twice \/ id \in h.risen)
  <1>1. g \in Seq(Ghosts!Ids) /\ t \in Seq(Ghosts!Ids)
    BY GhostNewestIds, GhostsAssumption DEF GhostHosts
  <1>2. r \in SUBSET Ghosts!Ids /\ w \in BOOLEAN
    BY DEF GhostHosts
  <1>3. Ghosts!Rise(h, id) = [ghosts |-> g, seen |-> t, risen |-> r, twice |-> w]
    BY DEF Ghosts!Rise
  <1> HIDE DEF g, t, r, w
  <1>4. Ghosts!Rise(h, id) \in GhostHosts
    BY <1>1, <1>2, <1>3 DEF GhostHosts
  <1> QED
    BY <1>4 DEF Ghosts!addGhost

(* All of them, in whatever order they come.                                *)
LEMMA GhostRenders ==
  ASSUME NEW h0 \in GhostHosts, NEW dead, Ready(h0, dead), NEW order \in Ghosts!Orders(dead),
         NEW N, N = Ghosts!Cardinality(dead)
  PROVE  Shown(h0, dead, Ghosts!After(h0, order, N)) /\ Ghosts!After(h0, order, N) \in GhostHosts
  <1>1. N = Cardinality(dead) /\ N \in Nat /\ dead \subseteq Ghosts!Ids
    BY GhostIds DEF Ready, Ghosts!Cardinality, Cardinality
  <1>2. order \in [1 .. N -> dead]
    BY DEF Ghosts!Orders
  <1>3. Shown(h0, dead, h0)
    <2>1. \A j \in dead \cap h0.risen : Ghosts!Since(h0.seen, j) \subseteq Company(h0, dead, j)
      BY DEF Company
    <2> QED
      BY <2>1 DEF Ready, Shown
  <1> DEFINE G == [p \in (1 .. N) \X GhostHosts |-> Ghosts!addGhost(p[2], order[p[1]])]
             b == CHOOSE f : f = [k \in 0 .. N |-> IF k = 0 THEN h0
                                                   ELSE Ghosts!addGhost(f[k - 1], order[k])]
  <1>4. Ghosts!After(h0, order, N) = b[N]
    BY DEF Ghosts!After
  <1>5. \A n \in 1 .. N : \A v \in GhostHosts :
           /\ G[<<n, v>>] = Ghosts!addGhost(v, order[n])
           /\ G[<<n, v>>] \in GhostHosts
    <2>1. \A n \in 1 .. N : \A v \in GhostHosts : G[<<n, v>>] = Ghosts!addGhost(v, order[n])
      OBVIOUS
    <2>2. \A n \in 1 .. N : \A v \in GhostHosts : Ghosts!addGhost(v, order[n]) \in GhostHosts
      BY <1>1, <1>2, GhostAddedHost
    <2> HIDE DEF G
    <2> QED
      BY <2>1, <2>2
  <1>6. PICK g : IsRecursionTo(N, g, h0, G) /\ \A n \in 0 .. N : g[n] \in GhostHosts
    <2> HIDE DEF G
    <2> QED
      BY <1>1, <1>5, TypedRecursion
  <1>7. g = [n \in 0 .. N |-> g[n]] /\ \A n \in 0 .. N : g[n] = IF n = 0 THEN h0 ELSE G[<<n, g[n - 1]>>]
    <2> HIDE DEF G
    <2> QED
      BY <1>6, Zenon DEF IsRecursionTo
  <1> HIDE DEF G
  <1>8. \A n \in 0 .. N : g[n] = IF n = 0 THEN h0 ELSE Ghosts!addGhost(g[n - 1], order[n])
    <2> SUFFICES ASSUME NEW n \in 0 .. N, n # 0 PROVE g[n] = Ghosts!addGhost(g[n - 1], order[n])
      BY <1>7
    <2>1. n \in 1 .. N /\ n - 1 \in 0 .. N
      BY <1>1
    <2> QED
      BY <1>5, <1>6, <1>7, <2>1
  <1>9. g = [n \in 0 .. N |-> IF n = 0 THEN h0 ELSE Ghosts!addGhost(g[n - 1], order[n])]
    BY <1>7, <1>8
  <1>10. b = [n \in 0 .. N |-> IF n = 0 THEN h0 ELSE Ghosts!addGhost(b[n - 1], order[n])]
    BY <1>9
  <1> HIDE DEF b
  <1>11. \A n \in 0 .. N : b[n] = IF n = 0 THEN h0 ELSE Ghosts!addGhost(b[n - 1], order[n])
    BY <1>10, Zenon
  <1> DEFINE S == {n \in 0 .. N : Shown(h0, dead, b[n]) /\ b[n] \in GhostHosts}
  <1>12. 0 \in S
    BY <1>1, <1>3, <1>11
  <1>13. ASSUME NEW n \in 0 .. N - 1, n \in S PROVE n + 1 \in S
    <2>1. n + 1 \in 0 .. N /\ n + 1 \in 1 .. N /\ n + 1 # 0 /\ (n + 1) - 1 = n
      BY <1>1
    <2>2. b[n + 1] = Ghosts!addGhost(b[n], order[n + 1]) /\ order[n + 1] \in dead
      BY <1>2, <1>11, <2>1
    <2>3. Shown(h0, dead, b[n]) /\ b[n] \in GhostHosts
      BY <1>13
    <2> DEFINE p == b[n]  id == order[n + 1]
    <2> HIDE DEF p, id
    <2>4. Shown(h0, dead, Ghosts!addGhost(p, id)) /\ Ghosts!addGhost(p, id) \in GhostHosts
      BY <1>1, <2>2, <2>3, GhostAdded, GhostAddedHost DEF p, id
    <2> QED
      BY <2>1, <2>2, <2>4 DEF p, id
  <1>14. N \in S
    <2> HIDE DEF S
    <2>1. 0 .. N \subseteq S
      BY <1>1, <1>12, <1>13, BoundedInduction
    <2> QED
      BY <1>1, <2>1
  <1> QED
    BY <1>4, <1>14

(* The component's own Cardinality is the library's.                        *)
LEMMA GhostCount == \A S : Ghosts!Cardinality(S) = Cardinality(S)
  BY DEF Ghosts!Cardinality, Cardinality

(* What a render leaves in the registers.                                   *)
LEMMA GhostRegisters ==
  ASSUME NEW dead, Ready(Ghosts!Host, dead), Ghosts!Host \in GhostHosts,
         Ghosts!Render(Ghosts!Host, dead)
  PROVE  /\ s4' \in Seq(Ghosts!Ids) /\ Len(s4') <= GhostCap
         /\ Remembered(s5') /\ ~ s8' /\ s8' \in BOOLEAN
         /\ s7' \subseteq s7 \cup dead
         /\ \A j \in dead \cap s7' :
               /\ j \in Ghosts!Members(s5')
               /\ Ghosts!Since(s5', j) \subseteq Company(Ghosts!Host, dead, j)
  <1> DEFINE h0 == Ghosts!Host
  <1>1. h0.risen = s7
    BY DEF Ghosts!Host
  <1>2. PICK order \in Ghosts!Orders(dead) :
           LET after == Ghosts!After(h0, order, Ghosts!Cardinality(dead))
           IN  s4' = after.ghosts /\ s5' = after.seen /\ s7' = after.risen /\ s8' = after.twice
    BY Zenon DEF Ghosts!Render
  <1> DEFINE h == Ghosts!After(h0, order, Ghosts!Cardinality(dead))
  <1>3. s4' = h.ghosts /\ s5' = h.seen /\ s7' = h.risen /\ s8' = h.twice
    BY <1>2
  <1> HIDE DEF h0
  <1>4. Shown(h0, dead, h) /\ h \in GhostHosts
    BY GhostRenders DEF h0
  <1> HIDE DEF h
  <1>5. ~ s8'
    BY <1>3, <1>4 DEF Shown
  <1>6. s8' \in BOOLEAN
    <2>1. h.twice \in BOOLEAN
      BY <1>4 DEF GhostHosts
    <2> QED
      BY <1>3, <2>1, Zenon
  <1> QED
    BY <1>1, <1>3, <1>4, <1>5, <1>6 DEF Shown, h0

(* Nobody has died when the host starts.                                    *)
LEMMA GhostsStarts == Ghosts!Init => Ghosts!Inv
  <1> SUFFICES ASSUME Ghosts!Init PROVE Ghosts!Inv
    OBVIOUS
  <1>1. /\ s1 = 0 /\ s2 = {} /\ s3 = << >> /\ s4 = << >> /\ s5 = << >>
        /\ s6 = {} /\ s7 = {} /\ s8 = FALSE
    BY DEF Ghosts!Init
  <1>2. DOMAIN s3 = {} /\ DOMAIN s5 = {} /\ s4 \in Seq(Ghosts!Ids) /\ s5 \in Seq(Ghosts!Ids)
        /\ Len(s4) = 0 /\ Len(s5) = 0
    BY <1>1
  <1>3. Cardinality(s2 \cup DOMAIN s3) = 0
    BY <1>1, <1>2, FS_EmptySet
  <1>4. Ghosts!TypeOK /\ Ghosts!RisesOnce
    <2>1. s8 \in BOOLEAN /\ ~ s8
      BY <1>1, Zenon
    <2>2. 0 \in 0 .. MaxId /\ 0 <= GhostCap /\ 0 <= GhostSeen
      BY GhostsAssumption
    <2>3. s2 \subseteq Ghosts!Ids /\ s6 \subseteq Ghosts!Ids /\ s7 \subseteq Ghosts!Ids
      BY <1>1
    <2>4. s1 \in 0 .. MaxId /\ Len(s4) <= GhostCap /\ Len(s5) <= GhostSeen
      BY <1>1, <1>2, <2>2, Zenon
    <2> QED
      BY <1>2, <2>1, <2>3, <2>4 DEF Ghosts!TypeOK, Ghosts!RisesOnce
  <1> QED
    BY <1>1, <1>2, <1>3, <1>4, GhostsAssumption, GhostCount DEF Ghosts!Inv

(* A batch of deaths gives a ghost to those that have had none, and         *)
(* remembers them.                                                          *)
LEMMA GhostsKeeps ==
  ASSUME Ghosts!Inv, Ghosts!Next
  PROVE  Ghosts!Inv'
  <1> DEFINE C == DOMAIN s3
  <1>1. /\ s1 \in 0 .. MaxId /\ s2 \subseteq Ghosts!Ids /\ C \subseteq Ghosts!Ids
        /\ \A i \in C : s3[i] \in 1 .. 2
        /\ s4 \in Seq(Ghosts!Ids) /\ Len(s4) <= GhostCap
        /\ s6 \subseteq Ghosts!Ids /\ s7 \subseteq Ghosts!Ids /\ s8 \in BOOLEAN
    BY DEF Ghosts!Inv, Ghosts!TypeOK
  <1>2. Remembered(s5) /\ ~ s8
    BY DEF Ghosts!Inv, Ghosts!TypeOK, Ghosts!RisesOnce, Remembered
  <1>3. /\ s2 \cup C \cup s7 \subseteq 1 .. s1
        /\ s2 \cap (C \cup s7) = {}
        /\ Cardinality(s2 \cup C) <= Slots
        /\ \A j \in C \cap s7 :
             /\ j \in Ghosts!Members(s5)
             /\ Cardinality(C \cup Ghosts!Since(s5, j)) <= Slots
             /\ s3[j] = 2 => Ghosts!Since(s5, j) \subseteq C
    BY GhostCount DEF Ghosts!Inv
  <1>4. ASSUME /\ s1' \in 0 .. MaxId /\ s2' \subseteq Ghosts!Ids /\ DOMAIN s3' \subseteq Ghosts!Ids
               /\ \A i \in DOMAIN s3' : s3'[i] \in 1 .. 2
               /\ s4' \in Seq(Ghosts!Ids) /\ Len(s4') <= GhostCap
               /\ Remembered(s5') /\ ~ s8' /\ s8' \in BOOLEAN
               /\ s6' \subseteq Ghosts!Ids /\ s7' \subseteq Ghosts!Ids
               /\ s2' \cup DOMAIN s3' \cup s7' \subseteq 1 .. s1'
               /\ s2' \cap (DOMAIN s3' \cup s7') = {}
               /\ Cardinality(s2' \cup DOMAIN s3') <= Slots
               /\ \A j \in DOMAIN s3' \cap s7' :
                    /\ j \in Ghosts!Members(s5')
                    /\ Cardinality(DOMAIN s3' \cup Ghosts!Since(s5', j)) <= Slots
                    /\ s3'[j] = 2 => Ghosts!Since(s5', j) \subseteq DOMAIN s3'
        PROVE  Ghosts!Inv'
    <2>1. Ghosts!Ids' = Ghosts!Ids
      BY DEF Ghosts!Ids
    <2>2. Ghosts!TypeOK' /\ Ghosts!RisesOnce'
      BY <1>4, <2>1 DEF Ghosts!TypeOK, Ghosts!RisesOnce, Remembered
    <2>3. \A a, b \in DOMAIN s5' : s5'[a] = s5'[b] => a = b
      BY <1>4 DEF Remembered
    <2> QED
      BY <1>4, <2>2, <2>3, GhostCount DEF Ghosts!Inv
  <1>5. Ghosts!Host \in GhostHosts /\ Ghosts!Host.ghosts = s4 /\ Ghosts!Host.seen = s5
        /\ Ghosts!Host.risen = s7 /\ (Ghosts!Host.twice = s8)
    <2>1. s5 \in Seq(Ghosts!Ids)
      BY <1>2 DEF Remembered
    <2> QED
      BY <1>1, <2>1 DEF Ghosts!Host, GhostHosts
  <1>6. ~ Ghosts!Host.twice
    BY <1>2, <1>5
  <1> HIDE DEF C
  <1>7. ASSUME NEW pest \in BOOLEAN, Ghosts!Claim(pest) PROVE Ghosts!Inv'
    <2>1. /\ s1 < MaxId /\ s1' = s1 + 1
          /\ s2' = IF pest THEN s2 \cup {s1 + 1} ELSE s2
          /\ s3' = s3 /\ s4' = s4 /\ s5' = s5 /\ s6' = s6 /\ s7' = s7 /\ s8' = s8
          /\ pest => Cardinality(s2 \cup C) < Slots
      BY <1>7, GhostCount DEF Ghosts!Claim, C
    <2>2. /\ s1' \in 0 .. MaxId /\ s1 + 1 \in Ghosts!Ids /\ s1 + 1 \notin 1 .. s1
          /\ 1 .. s1 \subseteq 1 .. s1' /\ s1 + 1 \in 1 .. s1'
      BY <1>1, <2>1, GhostsAssumption DEF Ghosts!Ids
    <2>3. Cardinality(s2' \cup C) <= Slots
      <3>1. CASE ~ pest
        BY <1>3, <2>1, <3>1
      <3>2. CASE pest
        <4> DEFINE S == s2 \cup C
        <4>1. IsFiniteSet(S) /\ Cardinality(S) \in Nat
          BY <1>1, GhostIds DEF C
        <4>2. s1 + 1 \notin S /\ s2' \cup C = S \cup {s1 + 1} /\ Cardinality(S) < Slots
          BY <1>3, <2>1, <2>2, <3>2
        <4> HIDE DEF S
        <4>3. Cardinality(S \cup {s1 + 1}) = Cardinality(S) + 1
          BY <4>1, <4>2, FS_AddElement
        <4> QED
          BY <4>1, <4>2, <4>3, GhostsAssumption
      <3> QED
        BY <3>1, <3>2
    <2>4. s2' \subseteq Ghosts!Ids /\ s2' \subseteq s2 \cup {s1 + 1}
      BY <1>1, <2>1, <2>2
    <2>5. s2' \cap (C \cup s7) = {} /\ s2' \cup C \cup s7 \subseteq 1 .. s1'
      BY <1>3, <2>2, <2>4
    <2> QED
      BY <1>1, <1>2, <1>3, <1>4, <2>1, <2>2, <2>3, <2>4, <2>5 DEF C
  <1>8. ASSUME NEW K \in SUBSET s2, NEW first \in {1, 2}, Ghosts!Tick(K, first) PROVE Ghosts!Inv'
    <2> DEFINE D == {j \in C : s3[j] > 1} \cup K
               left == [i \in D |-> IF i \in K THEN first ELSE s3[i] - 1]
    <2>1. /\ s3' = left /\ s2' = s2 \ K /\ s6' = s6 \cup K /\ s1' = s1
          /\ Ghosts!Render(Ghosts!Host, DOMAIN left)
      BY <1>8, Zenon DEF Ghosts!Tick, C
    <2>2. DOMAIN left = D /\ D \subseteq C \cup s2 /\ D \subseteq Ghosts!Ids
      BY <1>1 DEF C
    <2>3. \A i \in D : left[i] \in 1 .. 2 /\ (left[i] = 2 => i \in K) /\ (i \notin K => s3[i] = 2 /\ i \in C)
      BY <1>1 DEF C
    <2>4. s2' \cup D \subseteq s2 \cup C /\ s2' \cap D = {}
      BY <1>3, <2>1
    <2> HIDE DEF D, left
    <2>5. ASSUME NEW S, S \subseteq s2 \cup C PROVE Cardinality(S) <= Slots
      <3> DEFINE U == s2 \cup C
      <3>1. IsFiniteSet(U) /\ Cardinality(U) <= Slots /\ S \subseteq U
        BY <1>1, <1>3, <2>5, GhostIds DEF C
      <3> HIDE DEF U
      <3>2. IsFiniteSet(S) /\ Cardinality(S) <= Cardinality(U)
        BY <3>1, FS_Subset
      <3>3. Cardinality(S) \in Nat /\ Cardinality(U) \in Nat
        BY <3>1, <3>2, FS_CardinalityType
      <3> QED
        BY <3>1, <3>2, <3>3, GhostsAssumption
    <2>6. ASSUME NEW j \in D \cap s7
          PROVE  j \notin K /\ j \in C \cap s7 /\ j \in Ghosts!Members(s5) /\ Ghosts!Since(s5, j) \subseteq C
      <3>1. j \notin K
        BY <1>3
      <3> QED
        BY <1>3, <2>3, <3>1
    <2>7. Ready(Ghosts!Host, D)
      <3>1. \A j \in D \cap s7 : Cardinality(D \cup Ghosts!Since(s5, j)) <= Slots
        BY <2>2, <2>5, <2>6
      <3>2. Cardinality(D) <= Slots
        BY <2>2, <2>5
      <3> QED
        BY <1>1, <1>2, <1>5, <1>6, <2>2, <2>6, <3>1, <3>2 DEF Ready
    <2>8. /\ s4' \in Seq(Ghosts!Ids) /\ Len(s4') <= GhostCap
          /\ Remembered(s5') /\ ~ s8' /\ s8' \in BOOLEAN
          /\ s7' \subseteq s7 \cup D
          /\ \A j \in D \cap s7' :
                /\ j \in Ghosts!Members(s5')
                /\ Ghosts!Since(s5', j) \subseteq Company(Ghosts!Host, D, j)
      BY <1>5, <2>1, <2>2, <2>7, GhostRegisters
    <2>9. ASSUME NEW j \in D \cap s7'
          PROVE  /\ j \in Ghosts!Members(s5')
                 /\ Cardinality(D \cup Ghosts!Since(s5', j)) <= Slots
                 /\ left[j] = 2 => Ghosts!Since(s5', j) \subseteq D
      <3>1. j \in s7 => Ghosts!Since(s5', j) \subseteq C \cup D /\ left[j] # 2
        BY <1>5, <2>3, <2>6, <2>8 DEF Company
      <3>2. j \notin s7 => Ghosts!Since(s5', j) \subseteq D
        BY <1>5, <2>8 DEF Company
      <3>3. D \cup Ghosts!Since(s5', j) \subseteq s2 \cup C
        BY <2>2, <3>1, <3>2
      <3> QED
        BY <2>5, <2>8, <3>1, <3>2, <3>3
    <2>10. Cardinality(s2' \cup D) <= Slots
      BY <2>4, <2>5
    <2>11. s2' \cap (D \cup s7') = {} /\ s2' \cup D \cup s7' \subseteq 1 .. s1'
      BY <1>3, <2>1, <2>2, <2>4, <2>8
    <2>12. s2' \subseteq Ghosts!Ids /\ s6' \subseteq Ghosts!Ids /\ s7' \subseteq Ghosts!Ids /\ s1' \in 0 .. MaxId
      BY <1>1, <2>1, <2>2, <2>8
    <2>13. DOMAIN s3' = D /\ \A i \in D : s3'[i] = left[i]
      BY <2>1, <2>2
    <2> QED
      BY <1>4, <2>2, <2>3, <2>8, <2>9, <2>10, <2>11, <2>12, <2>13
  <1>9. ASSUME Ghosts!Event PROVE Ghosts!Inv'
    <2>1. /\ s1' = s1 /\ s2' = s2 /\ s3' = s3 /\ s6' = s6
          /\ Ghosts!Render(Ghosts!Host, C)
      BY <1>9, Zenon DEF Ghosts!Event, Ghosts!glon, C
    <2>2. C \subseteq Ghosts!Ids /\ IsFiniteSet(s2 \cup C) /\ IsFiniteSet(C) /\ C \subseteq s2 \cup C
      BY <1>1, GhostIds DEF C
    <2>3. Cardinality(C) <= Slots
      <3> DEFINE U == s2 \cup C
      <3>1. IsFiniteSet(U) /\ Cardinality(U) <= Slots /\ C \subseteq U
        BY <1>3, <2>2
      <3> HIDE DEF U
      <3>2. Cardinality(C) <= Cardinality(U) /\ Cardinality(C) \in Nat /\ Cardinality(U) \in Nat
        BY <2>2, <3>1, FS_Subset, FS_CardinalityType
      <3> QED
        BY <3>1, <3>2, GhostsAssumption
    <2>4. Ready(Ghosts!Host, C)
      BY <1>1, <1>2, <1>3, <1>5, <1>6, <2>2, <2>3 DEF Ready
    <2>5. /\ s4' \in Seq(Ghosts!Ids) /\ Len(s4') <= GhostCap
          /\ Remembered(s5') /\ ~ s8' /\ s8' \in BOOLEAN
          /\ s7' \subseteq s7 \cup C
          /\ \A j \in C \cap s7' :
                /\ j \in Ghosts!Members(s5')
                /\ Ghosts!Since(s5', j) \subseteq Company(Ghosts!Host, C, j)
      BY <1>5, <2>1, <2>4, GhostRegisters
    <2>6. ASSUME NEW j \in C \cap s7'
          PROVE  /\ j \in Ghosts!Members(s5')
                 /\ Cardinality(C \cup Ghosts!Since(s5', j)) <= Slots
                 /\ s3[j] = 2 => Ghosts!Since(s5', j) \subseteq C
      <3> DEFINE B == Company(Ghosts!Host, C, j)
                 S == C \cup Ghosts!Since(s5', j)
      <3>1. IsFiniteSet(B) /\ Cardinality(B) <= Slots /\ C \subseteq B
        BY <2>4, GhostCompany
      <3>2. S \subseteq B
        BY <2>5, <3>1
      <3>3. s3[j] = 2 => B \subseteq C
        BY <1>3, <1>5 DEF Company
      <3> HIDE DEF B
      <3>4. s3[j] = 2 => Ghosts!Since(s5', j) \subseteq C
        BY <3>2, <3>3
      <3> HIDE DEF S
      <3>5. Cardinality(S) <= Cardinality(B) /\ Cardinality(S) \in Nat /\ Cardinality(B) \in Nat
        BY <3>1, <3>2, FS_Subset, FS_CardinalityType
      <3>6. Cardinality(S) <= Slots
        BY <3>1, <3>5, GhostsAssumption
      <3> QED
        BY <2>5, <3>4, <3>6 DEF S
    <2>7. s2' \cap (C \cup s7') = {} /\ s2' \cup C \cup s7' \subseteq 1 .. s1'
      BY <1>3, <2>1, <2>5
    <2>8. s7' \subseteq Ghosts!Ids /\ Cardinality(s2' \cup C) <= Slots /\ DOMAIN s3' = C
      BY <1>1, <1>3, <2>1, <2>2, <2>5 DEF C
    <2> QED
      BY <1>1, <1>4, <2>1, <2>5, <2>6, <2>7, <2>8 DEF C
  <1>10. ASSUME NEW k \in 1 .. Len(s4), Ghosts!Expire(k) PROVE Ghosts!Inv'
    <2> DEFINE p == SubSeq(s4, 1, k - 1)
               q == SubSeq(s4, k + 1, Len(s4))
    <2>1. /\ s4' = p \o q /\ s1' = s1 /\ s2' = s2 /\ s3' = s3
          /\ s5' = s5 /\ s6' = s6 /\ s7' = s7 /\ s8' = s8
      BY <1>10 DEF Ghosts!Expire, Ghosts!glon
    <2>2. p \in Seq(Ghosts!Ids) /\ Len(p) = k - 1
      BY <1>1
    <2>3. q \in Seq(Ghosts!Ids) /\ Len(q) = Len(s4) - k
      BY <1>1
    <2> HIDE DEF p, q
    <2>4. p \o q \in Seq(Ghosts!Ids) /\ Len(p \o q) = Len(p) + Len(q)
      BY <2>2, <2>3
    <2>5. s4' \in Seq(Ghosts!Ids) /\ Len(s4') <= GhostCap
      BY <1>1, <2>1, <2>2, <2>3, <2>4, GhostsAssumption
    <2> QED
      BY <1>1, <1>2, <1>3, <1>4, <2>1, <2>5 DEF C
  <1>11. ASSUME Ghosts!Restart PROVE Ghosts!Inv'
    <2> DEFINE cleared == [ghosts |-> << >>, seen |-> << >>, risen |-> {}, twice |-> s8]
    <2>1. /\ s1' = 0 /\ s2' = {} /\ s3' = << >> /\ s6' = {} /\ s7' = {} /\ s8' = s8
      BY <1>11 DEF Ghosts!Restart
    <2>2. PICK order \in Ghosts!Orders(C) :
             LET after == Ghosts!After(cleared, order, Ghosts!Cardinality(C))
             IN  s4' = after.ghosts /\ s5' = after.seen
      BY <1>11, Zenon DEF Ghosts!Restart, C
    <2> DEFINE h == Ghosts!After(cleared, order, Ghosts!Cardinality(C))
    <2>3. s4' = h.ghosts /\ s5' = h.seen
      BY <2>2
    <2>4. /\ cleared.ghosts = << >> /\ cleared.seen = << >> /\ cleared.risen = {} /\ cleared.twice = s8
          /\ cleared \in GhostHosts
      BY <1>1 DEF GhostHosts
    <2> HIDE DEF cleared
    <2>5. Cardinality(C) <= Slots /\ C \subseteq Ghosts!Ids
      <3> DEFINE U == s2 \cup C
      <3>1. IsFiniteSet(U) /\ Cardinality(U) <= Slots /\ C \subseteq U /\ C \subseteq Ghosts!Ids /\ IsFiniteSet(C)
        BY <1>1, <1>3, GhostIds DEF C
      <3> HIDE DEF U
      <3>2. Cardinality(C) <= Cardinality(U) /\ Cardinality(C) \in Nat /\ Cardinality(U) \in Nat
        BY <3>1, FS_Subset, FS_CardinalityType
      <3> QED
        BY <3>1, <3>2, GhostsAssumption
    <2>6. Ready(cleared, C)
      <3>1. << >> \in Seq(Ghosts!Ids) /\ Len(<< >>) = 0 /\ DOMAIN << >> = {}
        OBVIOUS
      <3> DEFINE e == << >>
      <3> HIDE DEF e
      <3>2. e \in Seq(Ghosts!Ids) /\ Len(e) = 0 /\ DOMAIN e = {} /\ cleared.ghosts = e /\ cleared.seen = e
        BY <2>4, <3>1 DEF e
      <3>3. Remembered(e)
        BY <3>2, GhostsAssumption DEF Remembered
      <3>4. ~ cleared.twice
        BY <1>2, <2>4
      <3> QED
        BY <2>4, <2>5, <3>2, <3>3, <3>4, GhostsAssumption DEF Ready
    <2>7. Shown(cleared, C, h)
      BY <2>4, <2>6, GhostRenders
    <2> HIDE DEF h
    <2>8. s4' \in Seq(Ghosts!Ids) /\ Len(s4') <= GhostCap /\ Remembered(s5')
      BY <2>3, <2>7 DEF Shown
    <2>9. DOMAIN s3' = {}
      BY <2>1
    <2>10. Cardinality(s2' \cup DOMAIN s3') <= Slots
      <3>1. s2' \cup DOMAIN s3' = {}
        BY <2>1, <2>9
      <3> QED
        BY <3>1, FS_EmptySet, GhostsAssumption
    <2>11. ~ s8' /\ s8' \in BOOLEAN
      BY <1>1, <1>2, <2>1
    <2>12. s1' \in 0 .. MaxId
      BY <2>1, GhostsAssumption
    <2> HIDE DEF cleared
    <2> QED
      BY <1>4, <2>1, <2>8, <2>9, <2>10, <2>11, <2>12
  <1> QED
    BY <1>7, <1>8, <1>9, <1>10, <1>11 DEF Ghosts!Next

(* A step of no component leaves the ghosts as it is.                       *)
LEMMA GhostsStays ==
  ASSUME Ghosts!Inv, UNCHANGED vars
  PROVE  Ghosts!Inv'
  <1>1. /\ s1' = s1 /\ s2' = s2 /\ s3' = s3 /\ s4' = s4 /\ s5' = s5
        /\ s6' = s6 /\ s7' = s7 /\ s8' = s8
    BY DEF vars
  <1>2. Ghosts!TypeOK' /\ Ghosts!RisesOnce'
    BY <1>1 DEF Ghosts!Inv, Ghosts!TypeOK, Ghosts!RisesOnce, Ghosts!Ids
  <1> QED
    BY <1>1, <1>2, GhostCount DEF Ghosts!Inv

-----------------------------------------------------------------------------
(* The files.                                                               *)

(* Files as MEMFS keeps them.                                               *)
FileNodes == [contents : Seq(Int), usedBytes : Nat, write : BOOLEAN]

(* A file whose storage is as long as what is used of it, and zero beyond.  *)
SoundFile(node) ==
    /\ node \in FileNodes /\ node.usedBytes <= Len(node.contents)
    /\ \A j \in node.usedBytes + 1 .. Len(node.contents) : node.contents[j] = 0

(* The bytes a program finds in it.                                         *)
FileBytes(node) == SubSeq(node.contents, 1, node.usedBytes)

(* A function on 1 .. n is a sequence of length n.                          *)
LEMMA FunctionSeq ==
  ASSUME NEW n \in Nat, NEW f, f = [i \in 1 .. n |-> f[i]], \A i \in 1 .. n : f[i] \in Int
  PROVE  f \in Seq(Int) /\ Len(f) = n /\ DOMAIN f = 1 .. n
  <1>1. f \in [1 .. n -> Int] /\ DOMAIN f = 1 .. n
    BY Zenon
  <1>2. f \in Seq(Int)
    BY <1>1, SeqDef
  <1>3. DOMAIN f = 1 .. Len(f) /\ Len(f) \in Nat
    BY <1>2, LenProperties
  <1> QED
    BY <1>1, <1>2, <1>3

(* The fields of a sound file.                                              *)
LEMMA FileStorage ==
  ASSUME NEW node, SoundFile(node)
  PROVE  /\ node.contents \in Seq(Int) /\ node.usedBytes \in Nat /\ node.write \in BOOLEAN
         /\ node = [contents |-> node.contents, usedBytes |-> node.usedBytes, write |-> node.write]
         /\ Len(node.contents) \in Nat /\ DOMAIN node.contents = 1 .. Len(node.contents)
         /\ \A i \in 1 .. Len(node.contents) : node.contents[i] \in Int
  <1>1. node \in FileNodes
    BY DEF SoundFile
  <1>2. /\ node.contents \in Seq(Int) /\ node.usedBytes \in Nat /\ node.write \in BOOLEAN
        /\ node = [contents |-> node.contents, usedBytes |-> node.usedBytes, write |-> node.write]
    BY <1>1 DEF FileNodes
  <1> QED
    BY <1>2, LenProperties, ElementOfSeq

(* Its bytes are the first of its storage.                                  *)
LEMMA FileBytesAre ==
  ASSUME NEW node, SoundFile(node)
  PROVE  /\ FileBytes(node) \in Seq(Int) /\ Len(FileBytes(node)) = node.usedBytes
         /\ \A i \in 1 .. node.usedBytes : FileBytes(node)[i] = node.contents[i]
  <1> DEFINE c == node.contents  u == node.usedBytes
  <1>1. c \in Seq(Int) /\ u \in Nat /\ u <= Len(c) /\ \A i \in 1 .. Len(c) : c[i] \in Int
    BY FileStorage DEF SoundFile
  <1>2. FileBytes(node) = SubSeq(c, 1, u)
    BY DEF FileBytes
  <1> HIDE DEF c, u
  <1>3. Len(c) \in Nat
    BY <1>1
  <1>4. \A i \in 1 .. u : c[i] \in Int
    BY <1>1, <1>3
  <1>5. 1 \in Int /\ u \in Int
    BY <1>1
  <1>6. /\ SubSeq(c, 1, u) \in Seq(Int)
        /\ Len(SubSeq(c, 1, u)) = IF 1 <= u THEN u - 1 + 1 ELSE 0
        /\ \A i \in 1 .. u - 1 + 1 : SubSeq(c, 1, u)[i] = c[1 + i - 1]
    BY <1>4, <1>5, SubSeqProperties
  <1>7. (IF 1 <= u THEN u - 1 + 1 ELSE 0) = u /\ 1 .. u - 1 + 1 = 1 .. u
        /\ \A i \in 1 .. u : 1 + i - 1 = i
    BY <1>1
  <1>8. FileBytes(node) \in Seq(Int) /\ Len(FileBytes(node)) = u /\ \A i \in 1 .. u : FileBytes(node)[i] = c[i]
    BY <1>2, <1>6, <1>7
  <1> QED
    BY <1>8 DEF c, u

(* TypedArray.set: data fits in a from pos on.                              *)
LEMMA FileSet ==
  ASSUME NEW a \in Seq(Int), NEW data \in Seq(Int), NEW pos \in Nat, NEW s, s = Files!Set(a, pos, data)
  PROVE  /\ s \in Seq(Int) /\ Len(s) = Len(a)
         /\ \A i \in 1 .. Len(a) : s[i] = IF pos < i /\ i <= pos + Len(data) THEN data[i - pos] ELSE a[i]
  <1> DEFINE n == Len(a)  m == Len(data)
  <1>1. /\ n \in Nat /\ m \in Nat /\ DOMAIN a = 1 .. n /\ \A i \in 1 .. n : a[i] \in Int
        /\ \A i \in 1 .. m : data[i] \in Int
    OBVIOUS
  <1>2. s = [i \in 1 .. n |-> IF pos < i /\ i <= pos + m THEN data[i - pos] ELSE a[i]]
    BY <1>1, Zenon DEF Files!Set
  <1> HIDE DEF n, m
  <1>3. \A i \in 1 .. n : s[i] = IF pos < i /\ i <= pos + m THEN data[i - pos] ELSE a[i]
    BY <1>2
  <1>4. \A i \in 1 .. n : pos < i /\ i <= pos + m => i - pos \in 1 .. m
    BY <1>1
  <1>5. \A i \in 1 .. n : s[i] \in Int
    BY <1>1, <1>3, <1>4
  <1>6. s = [i \in 1 .. n |-> s[i]]
    BY <1>2
  <1>7. s \in Seq(Int) /\ Len(s) = n
    BY <1>1, <1>5, <1>6, FunctionSeq
  <1> QED
    BY <1>3, <1>7 DEF n, m

(* MEMFS.expandFileStorage keeps the bytes and makes the storage as long as *)
(* it has to be.                                                            *)
LEMMA FileExpands ==
  ASSUME NEW node, SoundFile(node), NEW needed \in Nat, NEW x, x = Files!expandFileStorage(node, needed)
  PROVE  /\ SoundFile(x) /\ x.usedBytes = node.usedBytes /\ x.write = node.write
         /\ Len(x.contents) >= needed
         /\ \A i \in 1 .. node.usedBytes : x.contents[i] = node.contents[i]
  <1> DEFINE c == node.contents  u == node.usedBytes  prev == Len(c)
             grown == IF prev < CAPACITY_DOUBLING_MAX THEN 2 * prev ELSE (9 * prev) \div 8
             capacity == Files!Greater(Files!Greater(needed, grown), IF prev # 0 THEN MIN_CAPACITY ELSE 0)
             b == FileBytes(node)
             e == Files!Set(Files!Zeros(capacity), 0, b)
  <1>1. /\ c \in Seq(Int) /\ u \in Nat /\ prev \in Nat /\ u <= prev /\ node.write \in BOOLEAN
        /\ node = [contents |-> c, usedBytes |-> u, write |-> node.write]
    BY FileStorage DEF SoundFile
  <1>2. x = IF prev >= needed THEN node ELSE [node EXCEPT !.contents = e]
    BY Zenon DEF Files!expandFileStorage, FileBytes
  <1>3. b \in Seq(Int) /\ Len(b) = u /\ \A i \in 1 .. u : b[i] = c[i]
    BY FileBytesAre
  <1> HIDE DEF c, u, b
  <1>4. CASE prev >= needed
    BY <1>2, <1>4 DEF c
  <1>5. CASE ~ (prev >= needed)
    <2>1. grown \in Nat
      <3>1. 9 * prev \in Nat
        BY <1>1
      <3>2. (9 * prev) \div 8 \in Nat
        BY <3>1, Quotient
      <3> QED
        BY <1>1, <3>2
    <2> HIDE DEF grown, prev
    <2>2. capacity \in Nat /\ capacity >= needed
      BY <1>1, <2>1, FilesAssumption DEF Files!Greater
    <2>3. u < capacity
      BY <1>1, <1>5, <2>2
    <2> DEFINE z == Files!Zeros(capacity)
    <2> HIDE DEF capacity
    <2>4. z = [i \in 1 .. capacity |-> 0]
      BY DEF Files!Zeros
    <2>5. z \in Seq(Int) /\ Len(z) = capacity /\ \A i \in 1 .. capacity : z[i] = 0
      <3>1. \A i \in 1 .. capacity : z[i] = 0
        BY <2>4
      <3>2. z = [i \in 1 .. capacity |-> z[i]] /\ \A i \in 1 .. capacity : z[i] \in Int
        BY <2>4, <3>1
      <3> HIDE DEF z
      <3> QED
        BY <2>2, <3>1, <3>2, FunctionSeq
    <2> HIDE DEF z
    <2>6. /\ e \in Seq(Int) /\ Len(e) = capacity
          /\ \A i \in 1 .. capacity : e[i] = IF 0 < i /\ i <= 0 + u THEN b[i - 0] ELSE z[i]
      <3>1. 0 \in Nat /\ e = Files!Set(z, 0, b)
        BY DEF z
      <3> HIDE DEF e
      <3> QED
        BY <1>3, <2>5, <3>1, FileSet
    <2> HIDE DEF e
    <2>7. \A i \in 1 .. capacity : e[i] = IF i <= u THEN c[i] ELSE 0
      <3> SUFFICES ASSUME NEW i \in 1 .. capacity PROVE e[i] = IF i <= u THEN c[i] ELSE 0
        OBVIOUS
      <3>1. 0 < i /\ 0 + u = u /\ i - 0 = i /\ z[i] = 0
        BY <1>1, <2>5
      <3>2. i <= u => i \in 1 .. u
        BY <1>1
      <3> QED
        BY <1>3, <2>6, <3>1, <3>2
    <2>8. x = [contents |-> e, usedBytes |-> u, write |-> node.write]
      BY <1>1, <1>2, <1>5
    <2>9. x.contents = e /\ x.usedBytes = u /\ x.write = node.write /\ x \in FileNodes
      BY <1>1, <2>6, <2>8 DEF FileNodes
    <2>10. \A j \in u + 1 .. capacity : e[j] = 0
      BY <1>1, <2>7
    <2>11. SoundFile(x)
      BY <1>1, <2>3, <2>6, <2>9, <2>10 DEF SoundFile
    <2>12. \A i \in 1 .. u : e[i] = c[i]
      BY <1>1, <2>2, <2>3, <2>7
    <2> QED
      BY <2>2, <2>6, <2>9, <2>11, <2>12 DEF c, u
  <1> QED
    BY <1>4, <1>5

(* Each byte of w, which is f with data at position pos.                    *)
IsWritten(w, f, data, pos, l) ==
    /\ l \in Nat /\ w \in Seq(Int) /\ Len(w) = l
    /\ \A i \in 1 .. l : w[i] = IF pos < i /\ i <= pos + Len(data) THEN data[i - pos]
                                ELSE IF i <= Len(f) THEN f[i] ELSE 0

(* The abstract write: each byte of its result.                             *)
LEMMA FileWritten ==
  ASSUME NEW f \in Seq(Int), NEW data \in Seq(Int), NEW pos \in Nat, NEW w,
         w = Files!Files!Written(f, pos, data),
         NEW l, l = IF data # <<>> /\ pos + Len(data) > Len(f) THEN pos + Len(data) ELSE Len(f)
  PROVE  IsWritten(w, f, data, pos, l)
  <1> DEFINE k == Len(f)  m == Len(data)
             n == IF pos + m > k THEN pos + m ELSE k
  <1>1. k \in Nat /\ m \in Nat /\ (\A i \in 1 .. k : f[i] \in Int) /\ (\A i \in 1 .. m : data[i] \in Int)
        /\ (data = <<>> <=> m = 0)
    OBVIOUS
  <1>2. n \in Nat
    BY <1>1
  <1>3. CASE data = <<>>
    <2>1. w = f
      BY <1>3, Zenon DEF Files!Files!Written
    <2>2. m = 0
      BY <1>1, <1>3
    <2>3. \A i \in 1 .. k : f[i] = IF pos < i /\ i <= pos + m THEN data[i - pos]
                                   ELSE IF i <= k THEN f[i] ELSE 0
      BY <1>1, <2>2
    <2>4. l = k
      BY <1>3
    <2> QED
      BY <1>1, <2>1, <2>3, <2>4 DEF IsWritten
  <1>4. CASE data # <<>>
    <2>1. w = [i \in 1 .. n |-> CASE pos < i /\ i <= pos + m -> data[i - pos]
                                  [] (i <= pos \/ i > pos + m) /\ i <= k -> f[i]
                                  [] OTHER -> 0]
      BY <1>4, Zenon DEF Files!Files!Written
    <2> HIDE DEF k, m, n
    <2>2. \A i \in 1 .. n : w[i] = CASE pos < i /\ i <= pos + m -> data[i - pos]
                                     [] (i <= pos \/ i > pos + m) /\ i <= k -> f[i]
                                     [] OTHER -> 0
      BY <2>1
    <2>3. \A i \in 1 .. n : w[i] = IF pos < i /\ i <= pos + m THEN data[i - pos]
                                   ELSE IF i <= k THEN f[i] ELSE 0
      <3> SUFFICES ASSUME NEW i \in 1 .. n
                   PROVE  w[i] = IF pos < i /\ i <= pos + m THEN data[i - pos]
                                 ELSE IF i <= k THEN f[i] ELSE 0
        OBVIOUS
      <3>1. i \in Int
        BY <1>2
      <3>2. (~ (pos < i /\ i <= pos + m)) => (i <= pos \/ i > pos + m)
        BY <1>1, <3>1
      <3>3. (pos < i /\ i <= pos + m) => ~ (i <= pos \/ i > pos + m)
        BY <1>1, <3>1
      <3> QED
        BY <2>2, <3>2, <3>3
    <2>4. \A i \in 1 .. n : w[i] \in Int
      <3> SUFFICES ASSUME NEW i \in 1 .. n PROVE w[i] \in Int
        OBVIOUS
      <3>1. pos < i /\ i <= pos + m => i - pos \in 1 .. m
        BY <1>1, <1>2
      <3>2. i <= k => i \in 1 .. k
        BY <1>1, <1>2
      <3> QED
        <4>1. CASE pos < i /\ i <= pos + m
          <5>1. w[i] = data[i - pos] /\ i - pos \in 1 .. m
            BY <2>3, <3>1, <4>1
          <5>2. data[i - pos] \in Int
            BY <1>1, <5>1
          <5> QED
            BY <5>1, <5>2
        <4>2. CASE ~(pos < i /\ i <= pos + m) /\ i <= k
          <5>1. w[i] = f[i] /\ i \in 1 .. k
            BY <2>3, <3>2, <4>2
          <5>2. f[i] \in Int
            BY <1>1, <5>1
          <5> QED
            BY <5>1, <5>2
        <4>3. CASE ~(pos < i /\ i <= pos + m) /\ ~(i <= k)
          <5>1. w[i] = 0
            BY <2>3, <4>3
          <5> QED
            BY <5>1
        <4> QED
          BY <4>1, <4>2, <4>3
    <2>5. w = [i \in 1 .. n |-> w[i]]
      BY <2>1
    <2>6. w \in Seq(Int) /\ Len(w) = n
      BY <1>2, <2>4, <2>5, FunctionSeq
    <2>7. n = l
      BY <1>4 DEF n, m, k
    <2> QED
      BY <1>2, <2>3, <2>6, <2>7 DEF IsWritten, k, m
  <1> QED
    BY <1>3, <1>4

(* Sequences that have the same bytes are the same.                         *)
LEMMA SameBytes ==
  ASSUME NEW s \in Seq(Int), NEW t \in Seq(Int), NEW n \in Nat, Len(s) = n, Len(t) = n,
         \A i \in 1 .. n : s[i] = t[i]
  PROVE  s = t
  BY SeqEqual

(* MEMFS writes what a write promises, and leaves a sound file.             *)
LEMMA FileWrites ==
  ASSUME NEW node, SoundFile(node), NEW data \in Seq(Int), NEW pos \in Nat, NEW array,
         NEW x, x = Files!memfsWrite(node, data, pos, array)
  PROVE  /\ SoundFile(x) /\ x.write = node.write
         /\ FileBytes(x) = Files!Files!Written(FileBytes(node), pos, data)
         /\ x.usedBytes = IF data # <<>> /\ pos + Len(data) > node.usedBytes THEN pos + Len(data)
                          ELSE node.usedBytes
  <1> DEFINE c == node.contents  u == node.usedBytes  m == Len(data)
             f == FileBytes(node)
             w == Files!Files!Written(f, pos, data)
             n == IF data # <<>> /\ pos + m > u THEN pos + m ELSE u
  <1>1. /\ c \in Seq(Int) /\ u \in Nat /\ u <= Len(c) /\ Len(c) \in Nat /\ node.write \in BOOLEAN
        /\ node = [contents |-> c, usedBytes |-> u, write |-> node.write]
        /\ \A j \in u + 1 .. Len(c) : c[j] = 0
    BY FileStorage DEF SoundFile
  <1>2. f \in Seq(Int) /\ Len(f) = u /\ \A i \in 1 .. u : f[i] = c[i]
    BY FileBytesAre
  <1>3. m \in Nat /\ (data = <<>> <=> m = 0)
    OBVIOUS
  <1>4. w = Files!Files!Written(f, pos, data)
    OBVIOUS
  <1> HIDE DEF w, f, u
  <1>5. /\ w \in Seq(Int) /\ Len(w) = n /\ n \in Nat
        /\ \A i \in 1 .. n : w[i] = IF pos < i /\ i <= pos + m THEN data[i - pos]
                                    ELSE IF i <= u THEN f[i] ELSE 0
    <2>1. n = IF data # <<>> /\ pos + Len(data) > Len(f) THEN pos + Len(data) ELSE Len(f)
      BY <1>2
    <2> HIDE DEF n
    <2>2. /\ n \in Nat /\ w \in Seq(Int) /\ Len(w) = n
          /\ \A i \in 1 .. n : w[i] = IF pos < i /\ i <= pos + Len(data) THEN data[i - pos]
                                      ELSE IF i <= Len(f) THEN f[i] ELSE 0
      <3>1. f \in Seq(Int)
        BY <1>2
      <3> QED
        BY <1>4, <2>1, <3>1, FileWritten, SMTT(30) DEF IsWritten
    <2> QED
      BY <1>2, <2>2
  <1> HIDE DEF c, m, n
  \* it is enough to look at each byte
  <1>6. ASSUME NEW d \in Seq(Int), x = [contents |-> d, usedBytes |-> n, write |-> node.write],
               n <= Len(d), \A j \in n + 1 .. Len(d) : d[j] = 0,
               \A i \in 1 .. n : d[i] = IF pos < i /\ i <= pos + m THEN data[i - pos]
                                        ELSE IF i <= u THEN c[i] ELSE 0
        PROVE  SoundFile(x) /\ x.write = node.write /\ FileBytes(x) = w /\ x.usedBytes = n
    <2>1. x.contents = d /\ x.usedBytes = n /\ x.write = node.write /\ x \in FileNodes
      BY <1>1, <1>5, <1>6 DEF FileNodes
    <2>2. SoundFile(x)
      BY <1>6, <2>1 DEF SoundFile
    <2>3. FileBytes(x) \in Seq(Int) /\ Len(FileBytes(x)) = n /\ \A i \in 1 .. n : FileBytes(x)[i] = d[i]
      BY <2>1, <2>2, FileBytesAre
    <2>4. \A i \in 1 .. n : i <= u => f[i] = c[i]
      BY <1>1, <1>2, <1>5
    <2>5. \A i \in 1 .. n : FileBytes(x)[i] = w[i]
      BY <1>5, <1>6, <2>3, <2>4
    <2>6. FileBytes(x) = w
      BY <1>5, <2>3, <2>5, SameBytes
    <2> QED
      BY <2>1, <2>2, <2>6
  <1>7. CASE data = <<>>
    <2>1. x = node /\ m = 0 /\ n = u
      BY <1>3, <1>7 DEF Files!memfsWrite, n
    <2>2. \A i \in 1 .. n : c[i] = IF pos < i /\ i <= pos + m THEN data[i - pos]
                                   ELSE IF i <= u THEN c[i] ELSE 0
      BY <1>1, <2>1
    <2>3. x = [contents |-> c, usedBytes |-> n, write |-> node.write] /\ n <= Len(c)
          /\ \A j \in n + 1 .. Len(c) : c[j] = 0
      BY <1>1, <2>1
    <2>4. SoundFile(x) /\ x.write = node.write /\ FileBytes(x) = w /\ x.usedBytes = n
      BY <1>1, <1>6, <2>2, <2>3
    <2> QED
      BY <2>4 DEF w, f, n, u, m
  <1>8. CASE data # <<>> /\ ~ array /\ u = 0 /\ pos = 0
    <2>1. x = [contents |-> data, usedBytes |-> m, write |-> node.write]
      <3>1. x = [node EXCEPT !.contents = data, !.usedBytes = m]
        BY <1>8 DEF Files!memfsWrite, u, m
      <3> HIDE DEF m
      <3> QED
        BY <1>1, <3>1
    <2>2. n = m
      BY <1>3, <1>8 DEF n
    <2>3. \A i \in 1 .. n : data[i] = IF pos < i /\ i <= pos + m THEN data[i - pos]
                                      ELSE IF i <= u THEN c[i] ELSE 0
      BY <1>3, <1>8, <2>2
    <2>4. n <= Len(data) /\ \A j \in n + 1 .. Len(data) : data[j] = 0
      BY <1>3, <2>2 DEF m
    <2>5. SoundFile(x) /\ x.write = node.write /\ FileBytes(x) = w /\ x.usedBytes = n
      BY <1>6, <2>1, <2>2, <2>3, <2>4
    <2> QED
      BY <2>5 DEF w, f, n, u, m
  <1>9. CASE data # <<>> /\ ~ array /\ ~ (u = 0 /\ pos = 0) /\ pos + m <= u
    <2> DEFINE e == Files!Set(c, pos, data)
    <2>1. x = [contents |-> e, usedBytes |-> u, write |-> node.write]
      BY <1>1, <1>9 DEF Files!memfsWrite, u, m, c
    <2>2. e \in Seq(Int) /\ Len(e) = Len(c)
          /\ \A i \in 1 .. Len(c) : e[i] = IF pos < i /\ i <= pos + m THEN data[i - pos] ELSE c[i]
      <3>1. e = Files!Set(c, pos, data)
        OBVIOUS
      <3>2. c \in Seq(Int)
        BY <1>1
      <3> HIDE DEF e
      <3>3. /\ e \in Seq(Int) /\ Len(e) = Len(c)
            /\ \A i \in 1 .. Len(c) : e[i] = IF pos < i /\ i <= pos + Len(data) THEN data[i - pos] ELSE c[i]
        BY <3>1, <3>2, FileSet
      <3> QED
        BY <3>3 DEF m
    <2> HIDE DEF e
    <2>3. n = u
      BY <1>1, <1>3, <1>9 DEF n
    <2>4. \A i \in 1 .. n : e[i] = IF pos < i /\ i <= pos + m THEN data[i - pos]
                                   ELSE IF i <= u THEN c[i] ELSE 0
      BY <1>1, <2>2, <2>3
    <2>5. \A j \in n + 1 .. Len(e) : e[j] = 0
      <3> SUFFICES ASSUME NEW j \in n + 1 .. Len(e) PROVE e[j] = 0
        OBVIOUS
      <3>1. j \in u + 1 .. Len(c)
        BY <2>2, <2>3
      <3>2. j \in 1 .. Len(c) /\ ~ (j <= pos + m)
        BY <1>1, <1>3, <1>9, <3>1
      <3> QED
        BY <1>1, <2>2, <3>1, <3>2
    <2>6. n <= Len(e)
      BY <1>1, <2>2, <2>3
    <2>7. SoundFile(x) /\ x.write = node.write /\ FileBytes(x) = w /\ x.usedBytes = n
      BY <1>6, <2>1, <2>2, <2>3, <2>4, <2>5, <2>6
    <2> QED
      BY <2>7 DEF w, f, n, u, m
  <1>10. CASE data # <<>> /\ (array \/ ~ (u = 0 /\ pos = 0)) /\ (array \/ ~ (pos + m <= u))
    <2> DEFINE more == Files!expandFileStorage(node, pos + m)
               c2 == more.contents
               e == Files!Set(c2, pos, data)
    <2>0. pos + m \in Nat /\ more = Files!expandFileStorage(node, pos + m)
      BY <1>3
    <2>1. x = [more EXCEPT !.contents = Files!Set(@, pos, data), !.usedBytes = Files!Greater(@, pos + m)]
      BY <1>10 DEF Files!memfsWrite, u, m
    <2> HIDE DEF more
    <2>2. /\ SoundFile(more) /\ more.usedBytes = u /\ more.write = node.write
          /\ Len(more.contents) >= pos + m
          /\ \A i \in 1 .. u : more.contents[i] = c[i]
      BY <2>0, FileExpands DEF u, c
    <2>3. /\ c2 \in Seq(Int) /\ Len(c2) \in Nat /\ Len(c2) >= pos + m /\ u <= Len(c2)
          /\ (\A i \in 1 .. u : c2[i] = c[i])
          /\ (\A j \in u + 1 .. Len(c2) : c2[j] = 0)
          /\ more = [contents |-> c2, usedBytes |-> u, write |-> node.write]
      BY <2>2, FileStorage DEF SoundFile
    <2> HIDE DEF c2
    <2>4. Files!Greater(u, pos + m) = n
      <3>1. data # <<>>
        BY <1>10
      <3>2. u \in Int /\ pos + m \in Int
        BY <1>1, <1>3
      <3>3. n = IF pos + m > u THEN pos + m ELSE u
        BY <3>1 DEF n
      <3>4. Files!Greater(u, pos + m) = IF u > pos + m THEN u ELSE pos + m
        BY DEF Files!Greater
      <3> DEFINE k == pos + m
      <3> HIDE DEF k
      <3> QED
        BY <3>2, <3>3, <3>4 DEF k
    <2>5. x = [contents |-> e, usedBytes |-> n, write |-> node.write]
      BY <2>1, <2>3, <2>4
    <2>6. e \in Seq(Int) /\ Len(e) = Len(c2)
          /\ \A i \in 1 .. Len(c2) : e[i] = IF pos < i /\ i <= pos + m THEN data[i - pos] ELSE c2[i]
      BY <2>3, FileSet DEF m
    <2> HIDE DEF e
    <2>7. n <= Len(e) /\ n >= u /\ n >= pos + m
      BY <1>1, <1>3, <1>10, <2>3, <2>6 DEF n
    <2>8. ASSUME NEW i \in 1 .. n
          PROVE  e[i] = IF pos < i /\ i <= pos + m THEN data[i - pos]
                        ELSE IF i <= u THEN c[i] ELSE 0
      <3>1. i \in 1 .. Len(c2)
        BY <1>5, <2>3, <2>6, <2>7
      <3>2. c2[i] = IF i <= u THEN c[i] ELSE 0
        <4>1. i <= u => i \in 1 .. u
          BY <1>1, <3>1
        <4>2. ~ (i <= u) => i \in u + 1 .. Len(c2)
          BY <1>1, <2>3, <3>1
        <4> QED
          BY <2>3, <4>1, <4>2
      <3> QED
        BY <2>6, <3>1, <3>2
    <2>9. ASSUME NEW j \in n + 1 .. Len(e) PROVE e[j] = 0
      <3>1. j \in 1 .. Len(c2) /\ j \in u + 1 .. Len(c2) /\ ~ (j <= pos + m)
        <4> DEFINE k == Len(c2)
        <4>1. k \in Nat /\ n \in Nat /\ n >= u /\ n >= pos + m /\ j \in n + 1 .. k /\ u \in Nat
          BY <1>1, <1>5, <2>3, <2>6, <2>7
        <4> HIDE DEF k
        <4>2. j \in 1 .. k /\ j \in u + 1 .. k /\ ~ (j <= pos + m)
          BY <1>3, <4>1
        <4> QED
          BY <4>2 DEF k
      <3> QED
        BY <2>3, <2>6, <3>1
    <2>10. SoundFile(x) /\ x.write = node.write /\ FileBytes(x) = w /\ x.usedBytes = n
      BY <1>6, <2>5, <2>6, <2>7, <2>8, <2>9
    <2> QED
      BY <2>10 DEF w, f, n, u, m
  <1> QED
    BY <1>7, <1>8, <1>9, <1>10

(* A part of a sequence, byte by byte.                                      *)
IsPart(p, s, a, b) == p \in Seq(Int) /\ Len(p) = b - a /\ \A i \in 1 .. b - a : p[i] = s[a + i]

(* SubSeq cuts such a part.                                                 *)
LEMMA PartOf ==
  ASSUME NEW s \in Seq(Int), NEW a \in Nat, NEW b \in Nat, a <= b, b <= Len(s),
         NEW p, p = SubSeq(s, a + 1, b)
  PROVE  IsPart(p, s, a, b)
  <1>1. a + 1 \in Int /\ b \in Int /\ Len(s) \in Nat
    OBVIOUS
  <1>2. \A i \in a + 1 .. b : s[i] \in Int
    <2>1. \A i \in 1 .. Len(s) : s[i] \in Int
      OBVIOUS
    <2> QED
      BY <1>1, <2>1
  <1> DEFINE a1 == a + 1
  <1>3. a1 \in Int
    BY <1>1
  <1>4. p = SubSeq(s, a1, b) /\ \A i \in a1 .. b : s[i] \in Int
    BY <1>2
  <1> HIDE DEF a1
  <1>5. /\ p \in Seq(Int)
        /\ Len(p) = IF a1 <= b THEN b - a1 + 1 ELSE 0
        /\ \A i \in 1 .. b - a1 + 1 : p[i] = s[a1 + i - 1]
    BY <1>1, <1>3, <1>4, SubSeqProperties
  <1>6. (IF a1 <= b THEN b - a1 + 1 ELSE 0) = b - a /\ b - a1 + 1 = b - a
        /\ \A i \in 1 .. b - a : a1 + i - 1 = a + i
    BY <1>1 DEF a1
  <1> QED
    BY <1>5, <1>6 DEF IsPart

(* Two pieces of data, written one after the other, are written as one.     *)
LEMMA FileWrittenTwice ==
  ASSUME NEW f \in Seq(Int), NEW data \in Seq(Int), NEW pos \in Nat, NEW cut \in 0 .. Len(data),
         NEW d1, IsPart(d1, data, 0, cut), NEW d2, IsPart(d2, data, cut, Len(data))
  PROVE  Files!Files!Written(Files!Files!Written(f, pos, d1), pos + cut, d2) = Files!Files!Written(f, pos, data)
  <1> DEFINE m == Len(data)  k == Len(f)
             lg == IF cut > 0 /\ pos + cut > k THEN pos + cut ELSE k
             l == IF m > 0 /\ pos + m > k THEN pos + m ELSE k
             g == Files!Files!Written(f, pos, d1)
             v == Files!Files!Written(g, pos + cut, d2)
             w == Files!Files!Written(f, pos, data)
  <1>1. m \in Nat /\ k \in Nat /\ cut \in 0 .. m /\ cut \in Nat /\ pos + cut \in Nat
    OBVIOUS
  <1>2. d1 \in Seq(Int) /\ Len(d1) = cut /\ \A i \in 1 .. cut : d1[i] = data[i]
    <2>1. cut - 0 = cut /\ \A i \in 1 .. cut : 0 + i = i
      BY <1>1
    <2> QED
      BY <2>1 DEF IsPart
  <1>3. d2 \in Seq(Int) /\ Len(d2) = m - cut /\ \A i \in 1 .. m - cut : d2[i] = data[cut + i]
    BY DEF IsPart
  <1>4. (d1 # <<>> <=> cut > 0) /\ (d2 # <<>> <=> m - cut > 0) /\ (data # <<>> <=> m > 0)
    <2>1. \A s \in Seq(Int) : s # <<>> <=> Len(s) > 0
      OBVIOUS
    <2>2. cut > 0 <=> Len(d1) > 0
      BY <1>2
    <2>3. m - cut > 0 <=> Len(d2) > 0
      BY <1>3
    <2> QED
      BY <1>2, <1>3, <2>1, <2>2, <2>3
  <1>5. /\ lg = IF d1 # <<>> /\ pos + Len(d1) > Len(f) THEN pos + Len(d1) ELSE Len(f)
        /\ l = IF data # <<>> /\ pos + Len(data) > Len(f) THEN pos + Len(data) ELSE Len(f)
    BY <1>2, <1>4
  <1>6. g = Files!Files!Written(f, pos, d1) /\ v = Files!Files!Written(g, pos + cut, d2)
        /\ w = Files!Files!Written(f, pos, data)
    OBVIOUS
  <1> HIDE DEF g, v, w, lg, l
  <1>7. IsWritten(g, f, d1, pos, lg)
    <2>1. d1 \in Seq(Int) /\ lg = IF d1 # <<>> /\ pos + Len(d1) > Len(f) THEN pos + Len(d1) ELSE Len(f)
      BY <1>2, <1>5
    <2>2. g = Files!Files!Written(f, pos, d1)
      BY <1>6
    <2> QED
      BY <2>1, <2>2, FileWritten
  <1>8. IsWritten(w, f, data, pos, l)
    <2>1. l = IF data # <<>> /\ pos + Len(data) > Len(f) THEN pos + Len(data) ELSE Len(f)
      BY <1>5
    <2>2. w = Files!Files!Written(f, pos, data)
      BY <1>6
    <2> QED
      BY <2>1, <2>2, FileWritten
  <1>9. l = IF d2 # <<>> /\ (pos + cut) + Len(d2) > Len(g) THEN (pos + cut) + Len(d2) ELSE Len(g)
    <2>1. l = IF m - cut > 0 /\ (pos + cut) + (m - cut) > lg THEN (pos + cut) + (m - cut) ELSE lg
      <3> HIDE DEF m, k
      <3> QED
        BY <1>1 DEF l, lg
    <2>2. Len(g) = lg /\ lg \in Nat
      BY <1>7 DEF IsWritten
    <2>3. Len(d2) = m - cut
      BY <1>3
    <2> HIDE DEF m
    <2> QED
      BY <1>4, <2>1, <2>2, <2>3
  <1>10. IsWritten(v, g, d2, pos + cut, l)
    <2> DEFINE q == pos + cut
    <2>1. q \in Nat /\ d2 \in Seq(Int) /\ g \in Seq(Int)
      BY <1>1, <1>3, <1>7 DEF IsWritten
    <2>2. v = Files!Files!Written(g, q, d2)
          /\ l = IF d2 # <<>> /\ q + Len(d2) > Len(g) THEN q + Len(d2) ELSE Len(g)
      BY <1>6, <1>9
    <2> HIDE DEF q
    <2>3. IsWritten(v, g, d2, q, l)
      BY <2>1, <2>2, FileWritten
    <2> QED
      BY <2>3 DEF q
  <1> HIDE DEF m, k
  <1>11. l >= lg
    BY <1>1 DEF l, lg
  <1>12. ASSUME NEW i \in 1 .. l PROVE v[i] = w[i]
    <2>0. /\ i \in Nat /\ i >= 1 /\ lg \in Nat
          /\ v[i] = IF pos + cut < i /\ i <= (pos + cut) + (m - cut) THEN d2[i - (pos + cut)]
                    ELSE IF i <= lg THEN g[i] ELSE 0
          /\ w[i] = IF pos < i /\ i <= pos + m THEN data[i - pos]
                    ELSE IF i <= k THEN f[i] ELSE 0
          /\ i <= lg => g[i] = IF pos < i /\ i <= pos + cut THEN d1[i - pos]
                               ELSE IF i <= k THEN f[i] ELSE 0
      <3>1. l \in Nat /\ lg \in Nat /\ Len(g) = lg
        BY <1>7, <1>8 DEF IsWritten
      <3>2. i \in Nat /\ i >= 1 /\ (i <= lg => i \in 1 .. lg)
        BY <3>1
      <3>3. Len(f) = k /\ Len(data) = m /\ Len(d2) = m - cut /\ Len(d1) = cut
        BY <1>2, <1>3 DEF k, m
      <3>4. v[i] = IF pos + cut < i /\ i <= (pos + cut) + Len(d2) THEN d2[i - (pos + cut)]
                   ELSE IF i <= Len(g) THEN g[i] ELSE 0
        BY <1>10 DEF IsWritten
      <3>5. w[i] = IF pos < i /\ i <= pos + Len(data) THEN data[i - pos]
                   ELSE IF i <= Len(f) THEN f[i] ELSE 0
        BY <1>8 DEF IsWritten
      <3>6. i <= lg => g[i] = IF pos < i /\ i <= pos + Len(d1) THEN d1[i - pos]
                              ELSE IF i <= Len(f) THEN f[i] ELSE 0
        BY <1>7, <3>2 DEF IsWritten
      <3> QED
        BY <3>1, <3>2, <3>3, <3>4, <3>5, <3>6
    <2>1. CASE pos + cut < i /\ i <= pos + m
      <3>1. i - (pos + cut) \in 1 .. m - cut /\ cut + (i - (pos + cut)) = i - pos
            /\ i <= (pos + cut) + (m - cut) /\ pos < i
        BY <1>1, <2>0, <2>1
      <3>2. v[i] = d2[i - (pos + cut)]
        BY <2>0, <2>1, <3>1
      <3>3. d2[i - (pos + cut)] = data[i - pos]
        BY <1>3, <3>1
      <3>4. w[i] = data[i - pos]
        BY <2>0, <2>1, <3>1
      <3> QED
        BY <3>2, <3>3, <3>4
    <2>2. CASE ~ (pos + cut < i /\ i <= pos + m)
      <3>0. ~ (pos + cut < i /\ i <= (pos + cut) + (m - cut))
        BY <1>1, <2>0, <2>2
      <3>1. v[i] = IF i <= lg THEN g[i] ELSE 0
        BY <2>0, <3>0
      <3>2. CASE pos < i /\ i <= pos + cut
        <4>1. i <= lg /\ i - pos \in 1 .. cut /\ i <= pos + m
          BY <1>1, <2>0, <3>2 DEF lg
        <4>2. g[i] = d1[i - pos] /\ w[i] = data[i - pos]
          BY <2>0, <3>2, <4>1
        <4> QED
          BY <1>2, <3>1, <4>1, <4>2
      <3>3. CASE ~ (pos < i /\ i <= pos + cut)
        <4>1. w[i] = IF i <= k THEN f[i] ELSE 0
          <5>1. ~ (pos < i /\ i <= pos + m)
            BY <1>1, <2>0, <2>2, <3>3
          <5> QED
            BY <2>0, <5>1
        <4>2. i <= k => i <= lg
          BY <1>1, <2>0 DEF lg
        <4>3. i <= lg => g[i] = IF i <= k THEN f[i] ELSE 0
          BY <2>0, <3>3
        <4> QED
          BY <3>1, <4>1, <4>2, <4>3
      <3> QED
        BY <3>2, <3>3
    <2> QED
      BY <2>1, <2>2
  <1>13. v = w
    <2>1. v \in Seq(Int) /\ w \in Seq(Int) /\ Len(v) = l /\ Len(w) = l /\ l \in Nat
      BY <1>8, <1>10 DEF IsWritten
    <2> QED
      BY <1>12, <2>1, SameBytes
  <1> QED
    BY <1>13 DEF v, w, g

(* r is what a read of n bytes at pos finds in f.                           *)
IsRead(r, f, pos, n) ==
    /\ r \in Seq(Int)
    /\ Len(r) = IF pos >= Len(f) THEN 0 ELSE IF Len(f) - pos < n THEN Len(f) - pos ELSE n
    /\ \A i \in 1 .. Len(r) : pos + i \in 1 .. Len(f) /\ r[i] = f[pos + i]

(* MEMFS reads bytes of the file, as many as are there.                     *)
LEMMA FileReadsOnce ==
  ASSUME NEW node, SoundFile(node), NEW pos \in Nat, NEW n \in Nat, NEW r, r = Files!memfsRead(node, n, pos),
         NEW f, f = FileBytes(node)
  PROVE  IsRead(r, f, pos, n)
  <1> DEFINE c == node.contents  u == node.usedBytes
  <1>1. c \in Seq(Int) /\ u \in Nat /\ u <= Len(c)
    BY FileStorage DEF SoundFile
  <1>2. Len(f) = u /\ \A i \in 1 .. u : f[i] = c[i]
    BY FileBytesAre
  <1>3. r = IF pos >= u THEN <<>> ELSE SubSeq(c, pos + 1, pos + Files!Lesser(u - pos, n))
    BY DEF Files!memfsRead
  <1> HIDE DEF c, u
  <1>4. CASE pos >= u
    <2>1. r = <<>>
      BY <1>3, <1>4
    <2> QED
      BY <1>2, <1>4, <2>1 DEF IsRead
  <1>5. CASE ~ (pos >= u)
    <2> DEFINE e == IF u - pos < n THEN u - pos ELSE n
               b == pos + e
    <2>1. e \in Nat /\ b \in Nat /\ pos <= b /\ b <= u
      BY <1>1, <1>5
    <2>2. r = SubSeq(c, pos + 1, b)
      BY <1>3, <1>5 DEF Files!Lesser
    <2>3. b - pos = e /\ Len(c) \in Nat
      BY <1>1, <2>1
    <2> HIDE DEF b
    <2>4. b <= Len(c)
      BY <1>1, <2>1, <2>3
    <2>5. r \in Seq(Int) /\ Len(r) = b - pos /\ \A i \in 1 .. b - pos : r[i] = c[pos + i]
      <3>1. IsPart(r, c, pos, b)
        BY <1>1, <2>1, <2>2, <2>4, PartOf
      <3> QED
        BY <3>1 DEF IsPart
    <2>6. \A i \in 1 .. e : pos + i \in 1 .. u
      <3> HIDE DEF e
      <3> QED
        BY <1>1, <2>1, <2>3
    <2>7. Len(r) = e
      BY <2>3, <2>5
    <2> HIDE DEF e
    <2>8. \A i \in 1 .. e : r[i] = f[pos + i]
      BY <1>2, <2>3, <2>5, <2>6
    <2>9. (IF pos >= Len(f) THEN 0 ELSE IF Len(f) - pos < n THEN Len(f) - pos ELSE n) = e
      BY <1>2, <1>5 DEF e
    <2> QED
      BY <1>2, <2>5, <2>6, <2>7, <2>8, <2>9 DEF IsRead
  <1> QED
    BY <1>4, <1>5

(* Two pieces of memory are read as one.                                    *)
LEMMA FileReads ==
  ASSUME NEW node, SoundFile(node), NEW pos \in Nat, NEW n \in Nat, NEW m \in Nat,
         NEW r, r = Files!doReadv(node, pos, n, m)
  PROVE  r \in Seq(Int) /\ r = Files!Files!At(FileBytes(node), pos, n + m)
  <1> DEFINE f == FileBytes(node)  u == Len(f)
             one == Files!memfsRead(node, n, pos)
             two == Files!memfsRead(node, m, pos + Len(one))
             b == IF pos + (n + m) < u THEN pos + (n + m) ELSE u
             a == Files!Files!At(f, pos, n + m)
  <1>1. f \in Seq(Int) /\ u \in Nat
    BY FileBytesAre
  <1>2. f = FileBytes(node) /\ one = Files!memfsRead(node, n, pos)
        /\ two = Files!memfsRead(node, m, pos + Len(one))
    OBVIOUS
  <1>3. r = IF Len(one) < n THEN one ELSE one \o two
    BY DEF Files!doReadv
  <1>4. a = SubSeq(f, pos + 1, b)
    BY DEF Files!Files!At
  <1> HIDE DEF f, one, two, a
  <1>5. /\ one \in Seq(Int)
        /\ Len(one) = IF pos >= u THEN 0 ELSE IF u - pos < n THEN u - pos ELSE n
        /\ \A i \in 1 .. Len(one) : pos + i \in 1 .. u /\ one[i] = f[pos + i]
    <2>1. IsRead(one, f, pos, n)
      BY <1>2, FileReadsOnce
    <2> QED
      BY <2>1 DEF IsRead
  <1>6. pos + Len(one) \in Nat /\ Len(one) \in Nat
    BY <1>5
  <1>7. /\ two \in Seq(Int)
        /\ Len(two) = IF pos + Len(one) >= u THEN 0 ELSE IF u - (pos + Len(one)) < m THEN u - (pos + Len(one)) ELSE m
        /\ \A i \in 1 .. Len(two) : (pos + Len(one)) + i \in 1 .. u /\ two[i] = f[(pos + Len(one)) + i]
    <2> DEFINE q == pos + Len(one)
    <2>1. q \in Nat /\ two = Files!memfsRead(node, m, q)
      BY <1>2, <1>6
    <2> HIDE DEF q
    <2>2. IsRead(two, f, q, m)
      BY <1>2, <2>1, FileReadsOnce
    <2> QED
      BY <2>2 DEF q, IsRead
  <1> DEFINE x == Len(one)  y == Len(two)
             l == IF pos >= u THEN 0 ELSE b - pos
  <1>8. x \in Nat /\ y \in Nat
    <2>1. one \in Seq(Int) /\ two \in Seq(Int)
      BY <1>5, <1>7
    <2> QED
      BY <2>1 DEF x, y
  <1>9. (x < n => x = l) /\ (~ (x < n) => x + y = l) /\ l \in Nat
    <2> HIDE DEF u
    <2> DEFINE xx == x  yy == y
    <2>1. xx = IF pos >= u THEN 0 ELSE IF u - pos < n THEN u - pos ELSE n
      BY <1>5
    <2>2. yy = IF pos + xx >= u THEN 0 ELSE IF u - (pos + xx) < m THEN u - (pos + xx) ELSE m
      BY <1>7
    <2> HIDE DEF xx, yy
    <2>3. (xx < n => xx = l) /\ (~ (xx < n) => xx + yy = l) /\ l \in Nat
      BY <1>1, <2>1, <2>2
    <2> QED
      BY <2>3 DEF xx, yy
  <1>10. r \in Seq(Int) /\ Len(r) = l /\ \A i \in 1 .. l : r[i] = f[pos + i]
    <2>1. CASE x < n
      <3>1. r = one
        BY <1>3, <2>1
      <3> QED
        BY <1>5, <1>9, <2>1, <3>1
    <2>2. CASE ~ (x < n)
      <3> DEFINE t == one \o two
      <3>1. r = t
        BY <1>3, <2>2
      <3>2. t \in Seq(Int) /\ Len(t) = x + y
            /\ \A i \in 1 .. x + y : t[i] = IF i <= x THEN one[i] ELSE two[i - x]
        BY <1>5, <1>7, ConcatProperties
      <3> HIDE DEF t
      <3>3. ASSUME NEW i \in 1 .. x + y PROVE t[i] = f[pos + i]
        <4>1. CASE i <= x
          <5>1. i \in 1 .. x
            BY <1>8, <4>1
          <5> QED
            BY <1>5, <3>2, <4>1, <5>1
        <4>2. CASE ~ (i <= x)
          <5>1. i - x \in 1 .. y /\ (pos + x) + (i - x) = pos + i
            BY <1>8, <4>2
          <5>2. two[i - x] = f[(pos + x) + (i - x)]
            BY <1>7, <5>1
          <5> QED
            BY <3>2, <4>2, <5>1, <5>2
        <4> QED
          BY <4>1, <4>2
      <3> QED
        BY <1>9, <2>2, <3>1, <3>2, <3>3
    <2> QED
      BY <2>1, <2>2
  <1>11. a \in Seq(Int) /\ Len(a) = l /\ \A i \in 1 .. l : a[i] = f[pos + i]
    <2>1. CASE pos >= u
      <3>1. b < pos + 1 /\ pos + 1 \in Int /\ b \in Int
        BY <1>1, <2>1
      <3> DEFINE p1 == pos + 1
      <3> HIDE DEF p1, b
      <3>2. SubSeq(f, p1, b) = <<>>
        BY <3>1, SubSeqEmpty DEF p1
      <3>3. a = <<>> /\ l = 0
        BY <1>4, <2>1, <3>2 DEF p1
      <3> QED
        BY <3>3
    <2>2. CASE ~ (pos >= u)
      <3>1. b \in Nat /\ pos <= b /\ b <= u /\ l = b - pos
        BY <1>1, <2>2
      <3> HIDE DEF b, l
      <3>2. a \in Seq(Int) /\ Len(a) = b - pos /\ \A i \in 1 .. b - pos : a[i] = f[pos + i]
        <4>1. IsPart(a, f, pos, b)
          <5> HIDE DEF u
          <5>1. b <= Len(f)
            BY <3>1 DEF u
          <5> QED
            BY <1>1, <1>4, <3>1, <5>1, PartOf
        <4> QED
          BY <4>1 DEF IsPart
      <3> QED
        BY <3>1, <3>2
    <2> QED
      BY <2>1, <2>2
  <1> HIDE DEF l
  <1>12. r = a
    BY <1>9, <1>10, <1>11, SameBytes, ZenonT(40)
  <1> QED
    BY <1>10, <1>12 DEF a, f

(* The states that streams share, and what a descriptor has.                *)
FileOpens == [pos : Nat, acc : {"r", "w", "rw"}, append : BOOLEAN]
(* What a descriptor has, with n files.                                     *)
FileStreams(n) == {Files!NONE} \cup [node : 1 .. n, shared : Fds]

(* The invariant, of the registers a step leaves as well.                   *)
SoundFiles(nodes, names, streams, shared) ==
    /\ nodes \in Seq(FileNodes) /\ \A i \in 1 .. Len(nodes) : SoundFile(nodes[i])
    /\ names \in [Names -> 0 .. Len(nodes)]
    /\ streams \in [Fds -> FileStreams(Len(nodes))]
    /\ shared \in [Fds -> FileOpens]

(* The invariant says so of the registers of this component,                *)
LEMMA FilesSound ==
  ASSUME Files!Inv
  PROVE  SoundFiles(s1, s2, s3, s4)
  <1>1. /\ s1 \in Seq(FileNodes) /\ s2 \in [Names -> 0 .. Len(s1)]
        /\ s3 \in [Fds -> FileStreams(Len(s1))] /\ s4 \in [Fds -> FileOpens]
    BY DEF Files!Inv, FileNodes, FileStreams, FileOpens
  <1>2. DOMAIN s1 = 1 .. Len(s1)
    BY <1>1
  <1>3. \A i \in DOMAIN s1 : /\ s1[i].usedBytes \in 0 .. Len(s1[i].contents)
                             /\ \A j \in s1[i].usedBytes + 1 .. Len(s1[i].contents) : s1[i].contents[j] = 0
    BY DEF Files!Inv, Files!TypeOK, Files!SlackIsZero
  <1>4. ASSUME NEW i \in 1 .. Len(s1) PROVE SoundFile(s1[i])
    <2>1. s1[i] \in FileNodes
      BY <1>1, ElementOfSeq
    <2>2. s1[i].contents \in Seq(Int)
      BY <2>1 DEF FileNodes
    <2>3. Len(s1[i].contents) \in Nat
      BY <2>2
    <2>4. s1[i].usedBytes <= Len(s1[i].contents)
      BY <1>2, <1>3, <2>3
    <2> QED
      BY <1>2, <1>3, <2>1, <2>4 DEF SoundFile
  <1> QED
    BY <1>1, <1>4 DEF SoundFiles

(* and follows from it after a step.                                        *)
LEMMA FilesKept ==
  ASSUME SoundFiles(s1', s2', s3', s4')
  PROVE  Files!Inv'
  <1> DEFINE n == Len(s1')
  <1>1. /\ s1' \in Seq(FileNodes) /\ s2' \in [Names -> 0 .. n]
        /\ s3' \in [Fds -> FileStreams(n)] /\ s4' \in [Fds -> FileOpens]
        /\ \A i \in 1 .. n : SoundFile(s1'[i])
    BY DEF SoundFiles
  <1>2. DOMAIN s1' = 1 .. n /\ n \in Nat
    BY <1>1
  <1>3. \A i \in DOMAIN s1' : /\ s1'[i].usedBytes \in 0 .. Len(s1'[i].contents)
                              /\ \A j \in s1'[i].usedBytes + 1 .. Len(s1'[i].contents) : s1'[i].contents[j] = 0
    <2> SUFFICES ASSUME NEW i \in DOMAIN s1'
                 PROVE  /\ s1'[i].usedBytes \in 0 .. Len(s1'[i].contents)
                        /\ \A j \in s1'[i].usedBytes + 1 .. Len(s1'[i].contents) : s1'[i].contents[j] = 0
      OBVIOUS
    <2> DEFINE node == s1'[i]
    <2>1. SoundFile(node)
      BY <1>1, <1>2
    <2> HIDE DEF node
    <2>2. node.usedBytes \in Nat /\ Len(node.contents) \in Nat /\ node.usedBytes <= Len(node.contents)
      BY <2>1, FileStorage DEF SoundFile
    <2>3. \A j \in node.usedBytes + 1 .. Len(node.contents) : node.contents[j] = 0
      BY <2>1 DEF SoundFile
    <2>4. node.usedBytes \in 0 .. Len(node.contents)
      BY <2>2
    <2> QED
      BY <2>3, <2>4 DEF node
  <1>4. \A m \in Names : s2'[m] = Files!NoName \/ s2'[m] \in DOMAIN s1'
    BY <1>1, <1>2 DEF Files!NoName
  <1>5. \A fd \in Fds : s3'[fd] = Files!NONE \/ s3'[fd].node \in DOMAIN s1'
    BY <1>1, <1>2 DEF FileStreams
  <1>6. Files!TypeOK' /\ Files!SlackIsZero'
    BY <1>3, <1>4, <1>5 DEF Files!TypeOK, Files!SlackIsZero, Files!NoName, Files!NONE
  <1>7. /\ s1' \in Seq([contents : Seq(Int), usedBytes : Nat, write : BOOLEAN])
        /\ s3' \in [Fds -> {Files!NONE} \cup [node : 1 .. Len(s1'), shared : Fds]]
        /\ s4' \in [Fds -> [pos : Nat, acc : {"r", "w", "rw"}, append : BOOLEAN]]
    BY <1>1 DEF FileNodes, FileStreams, FileOpens
  <1> QED
    BY <1>1, <1>6, <1>7 DEF Files!Inv, Files!NONE

(* The files and the descriptors as the abstract specification has them.    *)
FilesSeen ==
    [i \in DOMAIN s1 |-> [bytes |-> SubSeq(s1[i].contents, 1, s1[i].usedBytes),
                          writable |-> s1[i].write]]
(* The descriptors as the abstract specification has them.                  *)
FdsSeen == [fd \in Fds |-> [file |-> s3[fd].node, of |-> s3[fd].shared]]
(* One file, as it has it.                                                  *)
SeenFile(node) == [bytes |-> FileBytes(node), writable |-> node.write]
(* All it can be.                                                           *)
SeenFiles == [bytes : Seq(Int), writable : BOOLEAN]
(* A descriptor that is closed.                                             *)
SeenClosed == [file |-> 0, of |-> -1]

(* A sound file is seen as a file.                                          *)
LEMMA SeenFileIs ==
  ASSUME NEW node, SoundFile(node)
  PROVE  SeenFile(node) \in SeenFiles
  BY FileStorage, FileBytesAre DEF SeenFile, SeenFiles

(* The files are seen as a sequence of files, one for one.                  *)
LEMMA FilesSeenIs ==
  ASSUME SoundFiles(s1, s2, s3, s4)
  PROVE  /\ FilesSeen = [i \in 1 .. Len(s1) |-> SeenFile(s1[i])]
         /\ FilesSeen \in Seq(SeenFiles) /\ Len(FilesSeen) = Len(s1)
         /\ Len(s1) \in Nat /\ \A i \in 1 .. Len(s1) : FilesSeen[i] = SeenFile(s1[i])
  <1>1. Len(s1) \in Nat /\ DOMAIN s1 = 1 .. Len(s1)
    BY DEF SoundFiles
  <1>2. FilesSeen = [i \in 1 .. Len(s1) |-> SeenFile(s1[i])]
    BY <1>1 DEF FilesSeen, SeenFile, FileBytes
  <1>3. \A i \in 1 .. Len(s1) : FilesSeen[i] = SeenFile(s1[i])
    BY <1>2
  <1>4. \A i \in 1 .. Len(s1) : SeenFile(s1[i]) \in SeenFiles
    BY SeenFileIs DEF SoundFiles
  <1> DEFINE f == FilesSeen  n == Len(s1)
  <1>5. f = [i \in 1 .. n |-> f[i]] /\ n \in Nat /\ \A i \in 1 .. n : f[i] \in SeenFiles
    BY <1>1, <1>2, <1>3, <1>4
  <1> HIDE DEF f, n
  <1>6. f \in [1 .. n -> SeenFiles] /\ DOMAIN f = 1 .. n
    BY <1>5, Zenon
  <1>7. f \in Seq(SeenFiles)
    BY <1>5, <1>6, SeqDef
  <1>8. DOMAIN f = 1 .. Len(f) /\ Len(f) \in Nat
    BY <1>7, LenProperties
  <1>9. Len(f) = n
    BY <1>5, <1>6, <1>8
  <1> QED
    BY <1>1, <1>2, <1>3, <1>7, <1>9 DEF f, n

(* The same files, after a step.                                            *)
LEMMA FilesSeenNext ==
  ASSUME SoundFiles(s1', s2', s3', s4')
  PROVE  /\ FilesSeen' = [i \in 1 .. Len(s1') |-> SeenFile(s1'[i])]
         /\ Len(s1') \in Nat
  <1>1. Len(s1') \in Nat /\ DOMAIN s1' = 1 .. Len(s1')
    BY DEF SoundFiles
  <1> QED
    BY <1>1 DEF FilesSeen, SeenFile, FileBytes

(* The descriptors, too.                                                    *)
LEMMA FdsSeenAre ==
  ASSUME SoundFiles(s1, s2, s3, s4)
  PROVE  /\ s3 = [fd \in Fds |-> s3[fd]] /\ s4 = [s \in Fds |-> s4[s]]
         /\ \A fd \in Fds :
               /\ FdsSeen[fd] = [file |-> s3[fd].node, of |-> s3[fd].shared]
               /\ FdsSeen[fd].file = s3[fd].node /\ FdsSeen[fd].of = s3[fd].shared
               /\ s3[fd] = Files!NONE => FdsSeen[fd] = SeenClosed /\ s3[fd].shared = -1
               /\ s3[fd] # Files!NONE => /\ FdsSeen[fd] # SeenClosed
                                         /\ s3[fd].shared \in Fds /\ s3[fd].node \in 1 .. Len(s1)
                                         /\ s3[fd] = [node |-> s3[fd].node, shared |-> s3[fd].shared]
  <1>1. s3 \in [Fds -> FileStreams(Len(s1))] /\ s4 \in [Fds -> FileOpens]
    BY DEF SoundFiles
  <1>2. ASSUME NEW fd \in Fds
        PROVE  /\ FdsSeen[fd] = [file |-> s3[fd].node, of |-> s3[fd].shared]
               /\ FdsSeen[fd].file = s3[fd].node /\ FdsSeen[fd].of = s3[fd].shared
    BY DEF FdsSeen
  <1>3. ASSUME NEW fd \in Fds, s3[fd] = Files!NONE PROVE FdsSeen[fd] = SeenClosed /\ s3[fd].shared = -1
    BY <1>2, <1>3 DEF Files!NONE, SeenClosed
  <1>4. ASSUME NEW fd \in Fds, s3[fd] # Files!NONE
        PROVE  /\ FdsSeen[fd] # SeenClosed
               /\ s3[fd].shared \in Fds /\ s3[fd].node \in 1 .. Len(s1)
               /\ s3[fd] = [node |-> s3[fd].node, shared |-> s3[fd].shared]
    <2>1. s3[fd] \in [node : 1 .. Len(s1), shared : Fds]
      BY <1>1, <1>4 DEF FileStreams
    <2>2. s3[fd].shared \in Fds /\ s3[fd].node \in 1 .. Len(s1)
          /\ s3[fd] = [node |-> s3[fd].node, shared |-> s3[fd].shared]
      BY <2>1
    <2>3. s3[fd].node # 0
      BY <2>2
    <2>4. FdsSeen[fd] # SeenClosed
      <3>1. SeenClosed.file = 0
        BY DEF SeenClosed
      <3> QED
        BY <1>2, <2>3, <3>1
    <2> QED
      BY <2>2, <2>4
  <1> QED
    BY <1>1, <1>2, <1>3, <1>4

(* Both specifications choose from the same sets.                           *)
LEMMA FilesLowest == \A S : Files!Lowest(S) = Files!Files!Lowest(S)
  BY DEF Files!Lowest, Files!Files!Lowest

(* The lowest descriptor of a set is one of them.                           *)
LEMMA FilesLowestIn ==
  ASSUME NEW S, S \subseteq Nat, S # {}
  PROVE  Files!Lowest(S) \in S
  <1>1. \E d \in S : \A e \in S : d <= e
    BY LeastOf
  <1> QED
    BY <1>1 DEF Files!Lowest

(* Descriptors are numbers, and finitely many.                              *)
LEMMA FilesFds == Fds \subseteq Nat /\ IsFiniteSet(Fds) /\ 0 .. MAX_OPEN_FDS \subseteq Fds
  <1>1. PICK n \in Nat : Fds = 0 .. n /\ MAX_OPEN_FDS <= n
    BY FilesAssumption
  <1>2. MAX_OPEN_FDS \in Nat
    BY FilesAssumption
  <1>3. 0 .. n \subseteq Nat /\ 0 .. MAX_OPEN_FDS \subseteq 0 .. n /\ 0 \in Int /\ n \in Int
    BY <1>1, <1>2
  <1>4. IsFiniteSet(0 .. n)
    BY <1>3, FS_Interval
  <1> QED
    BY <1>1, <1>3, <1>4

(* So an open, a copy and the state of a stream find the same place.        *)
LEMMA FilesChoose ==
  ASSUME SoundFiles(s1, s2, s3, s4)
  PROVE  /\ Files!nextfd = Files!Files!Opening
         /\ Files!nextfd \subseteq Fds \ Files!StdFds /\ Files!nextfd \subseteq Nat
         /\ \A d \in Files!nextfd : s3[d] = Files!NONE
         /\ Files!Unused = Files!Files!Unused /\ Files!Unused \subseteq Fds
         /\ \A low : /\ {e \in Fds : e >= low /\ ~ Files!Taken(e)} = {e \in Files!Files!Free : e >= low}
                     /\ {e \in Fds : e >= low /\ ~ Files!Taken(e)} \subseteq Fds
  <1>1. /\ DOMAIN s4 = Fds
        /\ \A fd \in Fds : /\ s3[fd] = Files!NONE <=> FdsSeen[fd] = SeenClosed
                           /\ s3[fd] = Files!NONE => s3[fd].shared = -1
                           /\ FdsSeen[fd].of = s3[fd].shared
    BY FdsSeenAre DEF SoundFiles
  <1>2. Files!Files!Free = {d \in Fds \ Files!StdFds : FdsSeen[d] = SeenClosed}
    BY DEF Files!Files!Free, FdsSeen, SeenClosed
  <1>3. Files!Files!Opening = Files!Files!Free \cap (0 .. MAX_OPEN_FDS)
    BY DEF Files!Files!Opening
  <1>4. Files!Files!Unused = {o \in DOMAIN s4 : \A d \in Fds : FdsSeen[d] # SeenClosed => FdsSeen[d].of # o}
    BY DEF Files!Files!Unused, FdsSeen, SeenClosed
  <1>5. \A e \in Fds : ~ Files!Taken(e) <=> e \in Files!Files!Free
    BY <1>1, <1>2 DEF Files!Taken
  <1>6. Files!nextfd = Files!Files!Opening
    BY <1>3, <1>5, <1>2, FilesFds DEF Files!nextfd
  <1>7. Files!nextfd \subseteq Fds \ Files!StdFds /\ Files!nextfd \subseteq Nat
        /\ \A d \in Files!nextfd : s3[d] = Files!NONE
    BY <1>1, <1>2, <1>3, <1>6, FilesFds
  <1>8. \A o \in Fds : o # -1
    BY FilesFds
  <1>9. Files!Unused = Files!Files!Unused
    BY <1>1, <1>4, <1>8 DEF Files!Unused
  <1>10. Files!Unused \subseteq Fds
    BY <1>1 DEF Files!Unused
  <1>11. \A low : {e \in Fds : e >= low /\ ~ Files!Taken(e)} = {e \in Files!Files!Free : e >= low}
    BY <1>2, <1>5
  <1>12. \A low : {e \in Fds : e >= low /\ ~ Files!Taken(e)} \subseteq Fds
    OBVIOUS
  <1> QED
    BY <1>6, <1>7, <1>9, <1>10, <1>11, <1>12

(* While a descriptor is free, so is a place for what a stream shares.      *)
LEMMA FilesRoom ==
  ASSUME SoundFiles(s1, s2, s3, s4), Files!nextfd # {}
  PROVE  Files!Unused # {}
  <1>1. PICK free \in Fds : s3[free] = Files!NONE
    BY FilesChoose
  <1> DEFINE T == {fd \in Fds : s3[fd] # Files!NONE}
             f == [fd \in T |-> s3[fd].shared]
  <1>2. T \subseteq Fds /\ free \notin T /\ IsFiniteSet(Fds)
    BY <1>1, FilesFds
  <1>3. \A fd \in T : f[fd] \in Fds
    BY FdsSeenAre
  <1>4. ASSUME Files!Unused = {} PROVE FALSE
    <2>1. \A s \in Fds : \E fd \in Fds : s3[fd].shared = s
      BY <1>4 DEF Files!Unused, SoundFiles
    <2>2. \A s \in Fds : \E fd \in T : f[fd] = s
      <3> SUFFICES ASSUME NEW s \in Fds PROVE \E fd \in T : f[fd] = s
        OBVIOUS
      <3>1. PICK fd \in Fds : s3[fd].shared = s
        BY <2>1
      <3>2. s # -1
        BY FilesFds
      <3>3. fd \in T
        BY <3>1, <3>2, FdsSeenAre
      <3> QED
        BY <3>1, <3>3
    <2>3. f \in Surjection(T, Fds)
      BY <1>3, <2>2 DEF Surjection
    <2> HIDE DEF f, T
    <2>4. IsFiniteSet(T)
      BY <1>2, FS_Subset
    <2>5. Cardinality(Fds) <= Cardinality(T)
      BY <2>3, <2>4, FS_Surjection
    <2>6. Cardinality(T) <= Cardinality(Fds) /\ (Cardinality(T) = Cardinality(Fds) => T = Fds)
      BY <1>2, FS_Subset
    <2>7. Cardinality(T) \in Nat /\ Cardinality(Fds) \in Nat
      BY <1>2, <2>4, FS_CardinalityType
    <2> QED
      BY <1>2, <2>5, <2>6, <2>7
  <1> QED
    BY <1>4

(* A step that leaves the files, or the descriptors, as they are.           *)
LEMMA FilesStill == s1' = s1 => FilesSeen' = FilesSeen
  BY DEF FilesSeen

(* And the descriptors.                                                     *)
LEMMA FdsStill == s3' = s3 => FdsSeen' = FdsSeen
  BY DEF FdsSeen

(* Each call is one that the abstract specification allows, and leaves      *)
(* sound files.                                                             *)
LEMMA FilesClose ==
  ASSUME SoundFiles(s1, s2, s3, s4), NEW fd \in Fds \ Files!StdFds, s3[fd] # Files!NONE,
         Files!Close(fd)
  PROVE  SoundFiles(s1', s2', s3', s4') /\ Files!Files!Close(fd)
  <1>1. /\ s1' = s1 /\ s2' = s2 /\ s3' = [s3 EXCEPT ![fd] = Files!NONE]
        /\ s4' = IF \E e \in Fds \ {fd} : s3[e].shared = s3[fd].shared THEN s4
                 ELSE [s4 EXCEPT ![s3[fd].shared] = Files!Fresh]
        /\ s5' = [call |-> "close", err |-> "ok", value |-> <<>>]
    BY DEF Files!Close, Files!Answer
  <1>2. /\ s3 \in [Fds -> FileStreams(Len(s1))] /\ s4 \in [Fds -> FileOpens]
        /\ Files!NONE \in FileStreams(Len(s1)) /\ Files!Fresh \in FileOpens
    BY DEF SoundFiles, FileStreams, FileOpens, Files!Fresh
  <1>3. s3[fd].shared \in Fds /\ s3[fd].shared # -1
    <2>1. s3[fd].shared \in Fds
      BY FdsSeenAre
    <2>2. Fds \subseteq Nat
      BY FilesFds
    <2> QED
      BY <2>1, <2>2
  <1>4. SoundFiles(s1', s2', s3', s4')
    <2>1. s3' \in [Fds -> FileStreams(Len(s1))] /\ s4' \in [Fds -> FileOpens]
      BY <1>1, <1>2, <1>3
    <2> QED
      BY <1>1, <2>1 DEF SoundFiles
  <1>5. FdsSeen' = [FdsSeen EXCEPT ![fd] = SeenClosed]
    <2>1. \A d \in Fds : s3'[d] = IF d = fd THEN Files!NONE ELSE s3[d]
      BY <1>1, <1>2
    <2>2. Files!NONE.node = 0 /\ Files!NONE.shared = -1
      BY DEF Files!NONE
    <2>3. \A d \in Fds : [file |-> s3'[d].node, of |-> s3'[d].shared]
                          = IF d = fd THEN SeenClosed ELSE [file |-> s3[d].node, of |-> s3[d].shared]
      BY <2>1, <2>2 DEF SeenClosed
    <2> QED
      BY <2>3 DEF FdsSeen
  <1>6. (\E e \in Fds \ {fd} : s3[e].shared = s3[fd].shared)
          <=> \E e \in Fds \ {fd} : FdsSeen[e] # SeenClosed /\ FdsSeen[e].of = FdsSeen[fd].of
    BY <1>3, FdsSeenAre, ZenonT(40)
  <1>7. s4' = IF \E e \in Fds \ {fd} : FdsSeen[e] # SeenClosed /\ FdsSeen[e].of = FdsSeen[fd].of THEN s4
              ELSE [s4 EXCEPT ![FdsSeen[fd].of] = Files!Files!Fresh]
    BY <1>1, <1>6, FdsSeenAre DEF Files!Fresh, Files!Files!Fresh
  <1>8. FilesSeen' = FilesSeen
    BY <1>1, FilesStill
  <1>9. Files!Files!Close(fd)
    BY <1>1, <1>5, <1>7, <1>8, Zenon DEF Files!Files!Close, Files!Files!Say, FdsSeen, FilesSeen, SeenClosed
  <1> QED
    BY <1>4, <1>9

(* F_SETFL changes the mode for all copies.                                 *)
LEMMA FilesSetAppend ==
  ASSUME SoundFiles(s1, s2, s3, s4), NEW fd \in Fds \ Files!StdFds, s3[fd] # Files!NONE,
         Files!SetAppend(fd)
  PROVE  SoundFiles(s1', s2', s3', s4') /\ Files!Files!SetAppend(fd)
  <1> DEFINE o == s3[fd].shared
  <1>1. /\ s1' = s1 /\ s2' = s2 /\ s3' = s3 /\ s4' = [s4 EXCEPT ![o].append = TRUE]
        /\ s5' = [call |-> "fcntl", err |-> "ok", value |-> <<>>]
    BY DEF Files!SetAppend, Files!Answer
  <1>2. o \in Fds /\ o = FdsSeen[fd].of
    BY FdsSeenAre
  <1> HIDE DEF o
  <1>3. s4' \in [Fds -> FileOpens]
    <2>1. s4 \in [Fds -> FileOpens] /\ [s4[o] EXCEPT !.append = TRUE] \in FileOpens
      BY <1>2, ZenonT(40) DEF SoundFiles, FileOpens
    <2> QED
      BY <1>1, <2>1
  <1>4. SoundFiles(s1', s2', s3', s4')
    BY <1>1, <1>3 DEF SoundFiles
  <1>5. FilesSeen' = FilesSeen /\ FdsSeen' = FdsSeen
    BY <1>1, FilesStill, FdsStill
  <1>6. s4' = [s4 EXCEPT ![FdsSeen[fd].of].append = TRUE]
    BY <1>1, <1>2
  <1>7. Files!Files!SetAppend(fd)
    BY <1>1, <1>5, <1>6, Zenon DEF Files!Files!SetAppend, Files!Files!Say, FdsSeen, FilesSeen
  <1> QED
    BY <1>4, <1>7

(* F_DUPFD makes a copy at the lowest free descriptor.                      *)
LEMMA FilesDup ==
  ASSUME SoundFiles(s1, s2, s3, s4), NEW fd \in Fds \ Files!StdFds, s3[fd] # Files!NONE,
         NEW low \in Fds, Files!Dup(fd, low)
  PROVE  SoundFiles(s1', s2', s3', s4') /\ Files!Files!Dup(fd, low)
  <1> DEFINE S == {e \in Fds : e >= low /\ ~ Files!Taken(e)}
             new == Files!Lowest(S)
  <1>1. /\ s1' = s1 /\ s2' = s2 /\ s3' = [s3 EXCEPT ![new] = s3[fd]] /\ s4' = s4
        /\ s5' = [call |-> "dup", err |-> "ok", value |-> <<new>>]
        /\ S # {}
    BY DEF Files!Dup, Files!Answer
  <1>2. S = {e \in Files!Files!Free : e >= low} /\ S \subseteq Fds /\ S \subseteq Nat
    BY FilesChoose, FilesFds
  <1>3. new = Files!Files!Lowest(S)
    BY FilesLowest
  <1>0. new = Files!Lowest(S)
    OBVIOUS
  <1> HIDE DEF S, new
  <1>4. new \in Fds
    BY <1>0, <1>1, <1>2, FilesLowestIn
  <1>5. SoundFiles(s1', s2', s3', s4')
    <2>1. s3' \in [Fds -> FileStreams(Len(s1))]
      BY <1>1 DEF SoundFiles
    <2> QED
      BY <1>1, <2>1 DEF SoundFiles
  <1>6. FdsSeen' = [FdsSeen EXCEPT ![new] = FdsSeen[fd]]
    <2>1. \A d \in Fds : s3'[d] = IF d = new THEN s3[fd] ELSE s3[d]
      BY <1>1 DEF SoundFiles
    <2> QED
      BY <2>1 DEF FdsSeen
  <1>7. FilesSeen' = FilesSeen
    BY <1>1, FilesStill
  <1> DEFINE F == {e \in Files!Files!Free : e >= low}
  <1>8. /\ F # {} /\ FdsSeen' = [FdsSeen EXCEPT ![Files!Files!Lowest(F)] = FdsSeen[fd]]
        /\ s5' = [call |-> "dup", err |-> "ok", value |-> <<Files!Files!Lowest(F)>>]
    BY <1>1, <1>2, <1>3, <1>6
  <1>9. Files!Files!Dup(fd, low)
    BY <1>1, <1>7, <1>8, Zenon DEF Files!Files!Dup, Files!Files!Say, FdsSeen, FilesSeen
  <1> QED
    BY <1>5, <1>9

(* A seek moves the position, and never below zero.                         *)
LEMMA FilesSeek ==
  ASSUME SoundFiles(s1, s2, s3, s4), NEW fd \in Fds \ Files!StdFds, s3[fd] # Files!NONE,
         NEW off \in Offsets, NEW from \in {"set", "cur", "end"}, Files!Seek(fd, off, from)
  PROVE  SoundFiles(s1', s2', s3', s4') /\ Files!Files!Seek(fd, off, from)
  <1> DEFINE o == s3[fd].shared  k == s3[fd].node  node == s1[k]
             pos == Files!memfsLlseek(node, s4[o].pos, off, from)
             base == CASE from = "set" -> 0
                       [] from = "cur" -> s4[FdsSeen[fd].of].pos
                       [] from = "end" -> Len(FilesSeen[FdsSeen[fd].file].bytes)
  <1>1. o \in Fds /\ o = FdsSeen[fd].of /\ k \in 1 .. Len(s1) /\ k = FdsSeen[fd].file
    BY FdsSeenAre
  <1>2. s4 \in [Fds -> FileOpens] /\ s4[o].pos \in Nat
    BY <1>1 DEF SoundFiles, FileOpens
  <1>3. /\ SoundFile(node) /\ FilesSeen[k] = SeenFile(node)
    BY <1>1, FilesSeenIs DEF SoundFiles
  <1>4. Len(FilesSeen[k].bytes) = node.usedBytes /\ node.usedBytes \in Nat
    BY <1>3, FileBytesAre, FileStorage DEF SeenFile
  <1>5. off \in Int
    BY FilesAssumption
  <1>6. /\ UNCHANGED <<s1, s2, s3>>
        /\ IF pos < 0 THEN s5' = [call |-> "seek", err |-> "EINVAL", value |-> <<>>] /\ s4' = s4
           ELSE /\ s4' = [s4 EXCEPT ![o].pos = pos]
                /\ s5' = [call |-> "seek", err |-> "ok", value |-> <<pos>>]
    BY DEF Files!Seek, Files!NodeOf, Files!StateOf, Files!llseek, Files!Error, Files!Answer
  <1>7. pos = base + off /\ pos \in Int
    <2> HIDE DEF o, k, node
    <2>1. CASE from = "set"
      BY <1>5, <2>1 DEF Files!memfsLlseek
    <2>2. CASE from = "cur"
      BY <1>1, <1>2, <1>5, <2>2 DEF Files!memfsLlseek
    <2>3. CASE from = "end"
      BY <1>1, <1>4, <1>5, <2>3 DEF Files!memfsLlseek
    <2> QED
      BY <2>1, <2>2, <2>3
  <1> HIDE DEF o, k, node, pos
  <1>8. SoundFiles(s1', s2', s3', s4')
    <2>1. CASE pos < 0
      BY <1>6, <2>1 DEF SoundFiles
    <2>2. CASE ~ (pos < 0)
      <3>1. pos \in Nat
        BY <1>7, <2>2
      <3>2. [s4[o] EXCEPT !.pos = pos] \in FileOpens
        BY <1>1, <1>2, <3>1 DEF FileOpens
      <3>3. s4' \in [Fds -> FileOpens]
        BY <1>2, <1>6, <2>2, <3>2
      <3> QED
        BY <1>6, <3>3 DEF SoundFiles
    <2> QED
      BY <2>1, <2>2
  <1>9. FilesSeen' = FilesSeen /\ FdsSeen' = FdsSeen /\ s2' = s2
    BY <1>6, FilesStill, FdsStill
  <1>10. IF base + off < 0 THEN s5' = [call |-> "seek", err |-> "EINVAL", value |-> <<>>] /\ s4' = s4
         ELSE /\ s4' = [s4 EXCEPT ![FdsSeen[fd].of].pos = base + off]
              /\ s5' = [call |-> "seek", err |-> "ok", value |-> <<base + off>>]
    <2> HIDE DEF base
    <2> QED
      BY <1>1, <1>6, <1>7
  <1>11. Files!Files!Seek(fd, off, from)
    BY <1>9, <1>10, Zenon
       DEF Files!Files!Seek, Files!Files!Say, Files!Files!Refuse, FdsSeen, FilesSeen
  <1> QED
    BY <1>8, <1>11

(* A read gives the bytes from the position on, and moves it.               *)
LEMMA FilesRead ==
  ASSUME SoundFiles(s1, s2, s3, s4), NEW fd \in Fds \ Files!StdFds, s3[fd] # Files!NONE,
         NEW n \in Lengths, NEW m \in Lengths, Files!Read(fd, n, m)
  PROVE  SoundFiles(s1', s2', s3', s4') /\ Files!Files!Read(fd, n + m)
  <1> DEFINE o == s3[fd].shared  k == s3[fd].node  node == s1[k]
             r == Files!doReadv(node, s4[o].pos, n, m)
             got == Files!Files!At(FilesSeen[FdsSeen[fd].file].bytes, s4[FdsSeen[fd].of].pos, n + m)
  <1>1. o \in Fds /\ o = FdsSeen[fd].of /\ k \in 1 .. Len(s1) /\ k = FdsSeen[fd].file
    BY FdsSeenAre
  <1>2. s4 \in [Fds -> FileOpens] /\ s4[o].pos \in Nat
    BY <1>1 DEF SoundFiles, FileOpens
  <1>3. SoundFile(node) /\ FilesSeen[k].bytes = FileBytes(node)
    BY <1>1, FilesSeenIs DEF SoundFiles, SeenFile
  <1>4. n \in Nat /\ m \in Nat
    BY FilesAssumption
  <1>5. /\ UNCHANGED <<s1, s2, s3>>
        /\ IF s4[o].acc = "w" THEN s5' = [call |-> "read", err |-> "EBADF", value |-> <<>>] /\ s4' = s4
           ELSE /\ s4' = [s4 EXCEPT ![o].pos = @ + Len(r)]
                /\ s5' = [call |-> "read", err |-> "ok", value |-> r]
    BY DEF Files!Read, Files!NodeOf, Files!StateOf, Files!Error, Files!Answer
  <1>6. r \in Seq(Int) /\ r = got
    <2> DEFINE p == s4[o].pos
    <2>1. p \in Nat /\ r = Files!doReadv(node, p, n, m)
      BY <1>2
    <2>2. got = Files!Files!At(FileBytes(node), p, n + m)
      <3> HIDE DEF o, k, node
      <3> QED
        BY <1>1, <1>3
    <2> HIDE DEF p, node, r, got
    <2> QED
      BY <1>3, <1>4, <2>1, <2>2, FileReads
  <1> HIDE DEF o, k, node, r
  <1>7. SoundFiles(s1', s2', s3', s4')
    <2>1. CASE s4[o].acc = "w"
      BY <1>5, <2>1 DEF SoundFiles
    <2>2. CASE s4[o].acc # "w"
      <3>1. s4[o].pos + Len(r) \in Nat
        BY <1>2, <1>6
      <3>2. [s4[o] EXCEPT !.pos = @ + Len(r)] \in FileOpens
        BY <1>1, <1>2, <3>1 DEF FileOpens
      <3>3. s4' \in [Fds -> FileOpens]
        BY <1>2, <1>5, <2>2, <3>2
      <3> QED
        BY <1>5, <3>3 DEF SoundFiles
    <2> QED
      BY <2>1, <2>2
  <1>8. FilesSeen' = FilesSeen /\ FdsSeen' = FdsSeen /\ s2' = s2
    BY <1>5, FilesStill, FdsStill
  <1>9. IF s4[FdsSeen[fd].of].acc = "w"
        THEN s5' = [call |-> "read", err |-> "EBADF", value |-> <<>>] /\ s4' = s4
        ELSE /\ s4' = [s4 EXCEPT ![FdsSeen[fd].of].pos = @ + Len(got)]
             /\ s5' = [call |-> "read", err |-> "ok", value |-> got]
    <2> HIDE DEF got
    <2> QED
      BY <1>1, <1>5, <1>6
  <1>10. Files!Files!Read(fd, n + m)
    BY <1>8, <1>9, Zenon
       DEF Files!Files!Read, Files!Files!MayRead, Files!Files!Say, Files!Files!Refuse, FdsSeen, FilesSeen
  <1> QED
    BY <1>7, <1>10

(* A write from memory: the storage of node with data at pos.               *)
IsWrite(x, node, data, pos) ==
    /\ SoundFile(x) /\ x.write = node.write
    /\ FileBytes(x) = Files!Files!Written(FileBytes(node), pos, data)
    /\ x.usedBytes = IF data # <<>> /\ pos + Len(data) > node.usedBytes THEN pos + Len(data)
                     ELSE node.usedBytes

(* Such is what MEMFS leaves.                                               *)
LEMMA FileWritesPiece ==
  ASSUME NEW node, SoundFile(node), NEW data \in Seq(Int), NEW pos \in Nat,
         NEW array, NEW x, x = Files!memfsWrite(node, data, pos, array)
  PROVE  IsWrite(x, node, data, pos)
  <1>1. SoundFile(x) /\ x.write = node.write
    BY FileWrites
  <1>2. FileBytes(x) = Files!Files!Written(FileBytes(node), pos, data)
    BY FileWrites
  <1>3. x.usedBytes = IF data # <<>> /\ pos + Len(data) > node.usedBytes THEN pos + Len(data)
                      ELSE node.usedBytes
    BY FileWrites
  <1> QED
    BY <1>1, <1>2, <1>3, Zenon DEF IsWrite

(* Two writes of a stream: one is the file after the first piece, two after *)
(* the second, which starts at next.                                        *)
AreWrites(node, state, data, cut, pos, d1, d2, one, moved, next, two) ==
    /\ SoundFile(node) /\ state \in FileOpens /\ data \in Seq(Int) /\ cut \in 0 .. Len(data)
    /\ pos = Files!Start(node, state)
    /\ IsPart(d1, data, 0, cut) /\ IsPart(d2, data, cut, Len(data))
    /\ one = Files!memfsWrite(node, d1, pos, FALSE)
    /\ moved.append = state.append /\ moved.pos = pos + cut
    /\ next = Files!Start(one, moved) /\ two = Files!memfsWrite(one, d2, next, FALSE)

(* Two pieces, each written where the one before it ended or, in append     *)
(* mode, at the end of the file: what one piece would have written.         *)
LEMMA FileWritesTwice ==
  ASSUME NEW node, NEW state, NEW data, NEW cut, NEW pos, NEW d1, NEW d2, NEW one, NEW moved, NEW next, NEW two,
         AreWrites(node, state, data, cut, pos, d1, d2, one, moved, next, two)
  PROVE  /\ pos \in Nat /\ pos = IF state.append THEN Len(FileBytes(node)) ELSE state.pos
         /\ SoundFile(two) /\ two.write = node.write
         /\ FileBytes(two) = Files!Files!Written(FileBytes(node), pos, data)
  <1>0. /\ SoundFile(node) /\ state \in FileOpens /\ data \in Seq(Int) /\ cut \in 0 .. Len(data)
        /\ pos = Files!Start(node, state)
        /\ IsPart(d1, data, 0, cut) /\ IsPart(d2, data, cut, Len(data))
        /\ one = Files!memfsWrite(node, d1, pos, FALSE)
        /\ moved.append = state.append /\ moved.pos = pos + cut
        /\ next = Files!Start(one, moved) /\ two = Files!memfsWrite(one, d2, next, FALSE)
    BY Zenon DEF AreWrites
  <1>1. /\ state.pos \in Nat /\ state.append \in BOOLEAN /\ cut \in Nat /\ Len(data) \in Nat /\ cut <= Len(data)
    BY <1>0 DEF FileOpens
  <1>2. /\ FileBytes(node) \in Seq(Int) /\ Len(FileBytes(node)) = node.usedBytes /\ node.usedBytes \in Nat
    BY <1>0, FileBytesAre, FileStorage
  <1>3. pos = (IF state.append THEN Len(FileBytes(node)) ELSE state.pos) /\ pos \in Nat
    BY <1>0, <1>1, <1>2 DEF Files!Start
  <1>4. /\ d1 \in Seq(Int) /\ Len(d1) = cut /\ d2 \in Seq(Int) /\ (d1 = <<>> <=> cut = 0)
    <2>1. d1 \in Seq(Int) /\ Len(d1) = cut - 0 /\ d2 \in Seq(Int)
      BY <1>0, Zenon DEF IsPart
    <2> QED
      BY <1>1, <2>1
  <1>5. /\ SoundFile(one) /\ one.write = node.write
        /\ FileBytes(one) = Files!Files!Written(FileBytes(node), pos, d1)
        /\ one.usedBytes = IF d1 # <<>> /\ pos + Len(d1) > node.usedBytes THEN pos + Len(d1)
                           ELSE node.usedBytes
    <2> DEFINE no == FALSE
    <2>1. one = Files!memfsWrite(node, d1, pos, no)
      BY <1>0
    <2> HIDE DEF no
    <2>2. IsWrite(one, node, d1, pos)
      BY <1>0, <1>3, <1>4, <2>1, FileWritesPiece
    <2> QED
      BY <2>2, Zenon DEF IsWrite
  <1>6. pos \in Nat /\ cut \in Nat /\ pos + cut \in Nat /\ node.usedBytes \in Nat
    <2>1. pos \in Nat /\ node.usedBytes \in Nat
      BY <1>2, <1>3, Zenon
    <2> QED
      BY <1>1, <2>1
  <1>7. next = pos + cut
    <2>1. CASE state.append
      <3>1. pos = node.usedBytes /\ next = one.usedBytes
        BY <1>0, <1>1, <1>2, <1>3, <2>1 DEF Files!Start
      <3>2. CASE cut = 0
        <4>1. d1 = <<>>
          BY <1>4, <3>2
        <4>2. one.usedBytes = node.usedBytes
          BY <1>5, <4>1, Zenon
        <4>3. pos + cut = pos
          BY <1>6, <3>2
        <4> QED
          BY <3>1, <4>2, <4>3, Zenon
      <3>3. CASE cut # 0
        <4>1. d1 # <<>>
          BY <1>4, <3>3
        <4>2. pos + Len(d1) = pos + cut /\ pos + cut > node.usedBytes
          BY <1>4, <1>6, <3>1, <3>3
        <4>3. one.usedBytes = pos + Len(d1)
          BY <1>5, <4>1, <4>2, Zenon
        <4> QED
          BY <3>1, <4>2, <4>3, Zenon
      <3> QED
        BY <3>2, <3>3
    <2>2. CASE ~ state.append
      BY <1>0, <1>1, <2>2 DEF Files!Start
    <2> QED
      BY <2>1, <2>2
  <1>8. /\ SoundFile(two) /\ two.write = one.write
        /\ FileBytes(two) = Files!Files!Written(FileBytes(one), next, d2)
    <2>1. next \in Nat
      BY <1>6, <1>7, Zenon
    <2> DEFINE no == FALSE
    <2>2. two = Files!memfsWrite(one, d2, next, no)
      BY <1>0
    <2> HIDE DEF no
    <2>3. IsWrite(two, one, d2, next)
      BY <1>4, <1>5, <2>1, <2>2, FileWritesPiece
    <2> QED
      BY <2>3, Zenon DEF IsWrite
  <1>9. Files!Files!Written(Files!Files!Written(FileBytes(node), pos, d1), pos + cut, d2)
          = Files!Files!Written(FileBytes(node), pos, data)
    BY <1>0, <1>2, <1>3, FileWrittenTwice
  <1> QED
    BY <1>3, <1>5, <1>7, <1>8, <1>9, Zenon

(* A file replaced by another, as both specifications see it.               *)
LEMMA FileReplaced ==
  ASSUME SoundFiles(s1, s2, s3, s4), NEW k \in 1 .. Len(s1), NEW node, SoundFile(node),
         node.write = s1[k].write, s1' = [s1 EXCEPT ![k] = node]
  PROVE  /\ s1' \in Seq(FileNodes) /\ Len(s1') = Len(s1) /\ \A i \in 1 .. Len(s1') : SoundFile(s1'[i])
         /\ FilesSeen' = [FilesSeen EXCEPT ![k].bytes = FileBytes(node)]
  <1>1. /\ s1 \in Seq(FileNodes) /\ node \in FileNodes /\ \A i \in 1 .. Len(s1) : SoundFile(s1[i])
    BY DEF SoundFiles, SoundFile
  <1>2. s1' \in Seq(FileNodes) /\ Len(s1') = Len(s1)
        /\ \A i \in 1 .. Len(s1) : s1'[i] = IF i = k THEN node ELSE s1[i]
    BY <1>1, ExceptSeq
  <1>3. \A i \in 1 .. Len(s1') : SoundFile(s1'[i])
    BY <1>1, <1>2
  <1>4. DOMAIN s1' = 1 .. Len(s1)
    BY <1>2, LenProperties
  <1>5. FilesSeen' = [i \in 1 .. Len(s1) |-> SeenFile(s1'[i])]
    BY <1>4 DEF FilesSeen, SeenFile, FileBytes
  <1>6. /\ FilesSeen = [i \in 1 .. Len(s1) |-> SeenFile(s1[i])]
    BY FilesSeenIs
  <1>7. SeenFile(node) = [SeenFile(s1[k]) EXCEPT !.bytes = FileBytes(node)]
    BY DEF SeenFile
  <1>8. FilesSeen' = [FilesSeen EXCEPT ![k] = SeenFile(node)]
    BY <1>2, <1>5, <1>6, SMTT(30)
  <1>9. FilesSeen[k] = SeenFile(s1[k])
    BY <1>6
  <1> QED
    BY <1>2, <1>3, <1>7, <1>8, <1>9

(* A write in one piece or two is one write.                                *)
LEMMA FilesWrite ==
  ASSUME SoundFiles(s1, s2, s3, s4), NEW fd \in Fds \ Files!StdFds, s3[fd] # Files!NONE,
         NEW data \in Data, NEW cut \in 0 .. Len(data), Files!Write(fd, data, cut)
  PROVE  SoundFiles(s1', s2', s3', s4') /\ Files!Files!Write(fd, data)
  <1> DEFINE o == s3[fd].shared  k == s3[fd].node  node == s1[k]  state == s4[o]
             pos == Files!Start(node, state)
             d1 == SubSeq(data, 1, cut)  d2 == SubSeq(data, cut + 1, Len(data))
             one == Files!memfsWrite(node, d1, pos, FALSE)
             moved == [state EXCEPT !.pos = pos + cut]
             next == Files!Start(one, moved)
             two == Files!memfsWrite(one, d2, next, FALSE)
             f == FilesSeen[FdsSeen[fd].file].bytes
             at == IF s4[FdsSeen[fd].of].append THEN Len(f) ELSE s4[FdsSeen[fd].of].pos
  <1>1. o \in Fds /\ o = FdsSeen[fd].of /\ k \in 1 .. Len(s1) /\ k = FdsSeen[fd].file
    BY FdsSeenAre
  <1>2. s4 \in [Fds -> FileOpens] /\ state \in FileOpens
    BY <1>1 DEF SoundFiles
  <1>3. SoundFile(node) /\ FilesSeen[k].bytes = FileBytes(node)
    BY <1>1, FilesSeenIs DEF SoundFiles, SeenFile
  <1>4. data \in Seq(Int) /\ cut \in Nat /\ cut <= Len(data) /\ Len(data) \in Nat
    BY FilesAssumption
  <1>5. IF state.acc = "r"
        THEN UNCHANGED <<s1, s2, s3, s4>> /\ s5' = [call |-> "write", err |-> "EBADF", value |-> <<>>]
        ELSE /\ s1' = [s1 EXCEPT ![k] = two] /\ s4' = [s4 EXCEPT ![o].pos = pos + Len(data)]
             /\ s5' = [call |-> "write", err |-> "ok", value |-> <<Len(data)>>]
             /\ UNCHANGED <<s2, s3>>
    BY DEF Files!Write, Files!NodeOf, Files!StateOf, Files!Error, Files!Answer
  <1>6. /\ pos \in Nat /\ pos = IF state.append THEN Len(FileBytes(node)) ELSE state.pos
        /\ SoundFile(two) /\ two.write = node.write
        /\ FileBytes(two) = Files!Files!Written(FileBytes(node), pos, data)
    <2>1. d1 = SubSeq(data, 0 + 1, cut)
      OBVIOUS
    <2>2. /\ one = Files!memfsWrite(node, d1, pos, FALSE) /\ pos = Files!Start(node, state)
          /\ next = Files!Start(one, moved)
          /\ two = Files!memfsWrite(one, d2, next, FALSE) /\ d2 = SubSeq(data, cut + 1, Len(data))
      OBVIOUS
    <2> HIDE DEF node, state, pos, d1, d2, one, next, two
    <2>5. moved.append = state.append /\ moved.pos = pos + cut
      BY <1>2 DEF FileOpens
    <2> HIDE DEF moved
    <2>3. IsPart(d1, data, 0, cut)
      <3> DEFINE n == 0
      <3>1. n \in Nat /\ n <= cut /\ cut \in Nat /\ cut <= Len(data) /\ data \in Seq(Int)
            /\ d1 = SubSeq(data, n + 1, cut)
        BY <1>4, <2>1
      <3> HIDE DEF n
      <3>2. IsPart(d1, data, n, cut)
        BY <3>1, PartOf
      <3> QED
        BY <3>2 DEF n
    <2>4. IsPart(d2, data, cut, Len(data))
      <3> DEFINE n == Len(data)
      <3>1. n \in Nat /\ cut <= n /\ cut \in Nat /\ n <= Len(data) /\ data \in Seq(Int)
            /\ d2 = SubSeq(data, cut + 1, n)
        BY <1>4, <2>2
      <3> HIDE DEF n
      <3>2. IsPart(d2, data, cut, n)
        BY <3>1, PartOf
      <3> QED
        BY <3>2 DEF n
    <2>6. cut \in 0 .. Len(data)
      OBVIOUS
    <2>7. AreWrites(node, state, data, cut, pos, d1, d2, one, moved, next, two)
      BY <1>2, <1>3, <1>4, <2>2, <2>3, <2>4, <2>5, <2>6, Zenon DEF AreWrites
    <2> QED
      BY <2>7, FileWritesTwice
  <1>7. f = FileBytes(node) /\ at = pos /\ state = s4[FdsSeen[fd].of]
    <2> HIDE DEF pos
    <2> QED
      BY <1>1, <1>3, <1>6
  <1>8. node.write = s1[k].write
    OBVIOUS
  <1>9. CASE state.acc = "r"
    <2>1. FilesSeen' = FilesSeen /\ FdsSeen' = FdsSeen
      BY <1>5, <1>9, FilesStill, FdsStill
    <2>2. SoundFiles(s1', s2', s3', s4')
      BY <1>5, <1>9 DEF SoundFiles
    <2>3. s4[FdsSeen[fd].of].acc = "r"
      BY <1>1, <1>9
    <2>4. Files!Files!Write(fd, data)
      <3>1. UNCHANGED <<s2, s4>> /\ s5' = [call |-> "write", err |-> "EBADF", value |-> <<>>]
        BY <1>5, <1>9
      <3> QED
        BY <2>1, <2>3, <3>1, Zenon
           DEF Files!Files!Write, Files!Files!MayWrite, Files!Files!Say, Files!Files!Refuse, FdsSeen, FilesSeen
    <2> QED
      BY <2>2, <2>4
  <1>10. CASE state.acc # "r"
    <2> HIDE DEF node, state, pos, two, f, at
    <2>1. /\ s1' \in Seq(FileNodes) /\ Len(s1') = Len(s1) /\ \A i \in 1 .. Len(s1') : SoundFile(s1'[i])
          /\ FilesSeen' = [FilesSeen EXCEPT ![k].bytes = FileBytes(two)]
      <3>1. two.write = s1[k].write /\ s1' = [s1 EXCEPT ![k] = two]
        BY <1>5, <1>6, <1>8, <1>10
      <3> HIDE DEF k
      <3> QED
        BY <1>1, <1>6, <3>1, FileReplaced
    <2>2. s4' \in [Fds -> FileOpens]
      <3>1. pos + Len(data) \in Nat
        BY <1>4, <1>6
      <3>2. [state EXCEPT !.pos = pos + Len(data)] \in FileOpens
        BY <1>2, <3>1 DEF FileOpens
      <3> QED
        BY <1>1, <1>2, <1>5, <1>10, <3>2 DEF state
    <2>3. SoundFiles(s1', s2', s3', s4')
      BY <1>5, <1>10, <2>1, <2>2 DEF SoundFiles
    <2>4. FdsSeen' = FdsSeen
      BY <1>5, <1>10, FdsStill
    <2>5. FilesSeen' = [FilesSeen EXCEPT ![FdsSeen[fd].file].bytes = Files!Files!Written(f, at, data)]
      BY <1>1, <1>6, <1>7, <2>1
    <2>6. s4' = [s4 EXCEPT ![FdsSeen[fd].of].pos = at + Len(data)]
      BY <1>1, <1>5, <1>7, <1>10
    <2>7. s4[FdsSeen[fd].of].acc # "r" /\ s2' = s2
          /\ s5' = [call |-> "write", err |-> "ok", value |-> <<Len(data)>>]
      BY <1>5, <1>7, <1>10
    <2>8. Files!Files!Write(fd, data)
      BY <2>4, <2>5, <2>6, <2>7, Zenon
         DEF Files!Files!Write, Files!Files!MayWrite, Files!Files!Say, FdsSeen, FilesSeen, f, at
    <2> QED
      BY <2>3, <2>8
  <1> QED
    BY <1>9, <1>10

(* A file that was just made is empty.                                      *)
LEMMA FileNew ==
  ASSUME NEW write \in BOOLEAN, NEW node, node = Files!NewFile(write)
  PROVE  SoundFile(node) /\ node.write = write /\ node.usedBytes = 0 /\ FileBytes(node) = <<>>
  <1>1. node = [contents |-> <<>>, usedBytes |-> 0, write |-> write]
    BY DEF Files!NewFile
  <1>2. node.contents = <<>> /\ node.usedBytes = 0 /\ node.write = write /\ node \in FileNodes
    BY <1>1 DEF FileNodes
  <1>3. Len(node.contents) = 0
    BY <1>2
  <1>4. SoundFile(node)
    BY <1>2, <1>3 DEF SoundFile
  <1>5. FileBytes(node) \in Seq(Int) /\ Len(FileBytes(node)) = 0
    BY <1>2, <1>4, FileBytesAre
  <1>6. FileBytes(node) = <<>>
    BY <1>5
  <1> QED
    BY <1>2, <1>4, <1>6

(* A truncated file is empty, too.                                          *)
LEMMA FileTruncated ==
  ASSUME NEW node, SoundFile(node), NEW t, t = Files!truncate(node)
  PROVE  SoundFile(t) /\ t.write = node.write /\ FileBytes(t) = <<>>
  <1> DEFINE w == node.write
  <1>1. /\ node = [contents |-> node.contents, usedBytes |-> node.usedBytes, write |-> w] /\ w \in BOOLEAN
    BY FileStorage
  <1>2. t = [contents |-> <<>>, usedBytes |-> 0, write |-> w]
    BY <1>1 DEF Files!truncate
  <1>3. t = Files!NewFile(w)
    BY <1>2 DEF Files!NewFile
  <1> HIDE DEF w
  <1>4. SoundFile(t) /\ t.write = w /\ FileBytes(t) = <<>>
    BY <1>1, <1>3, FileNew
  <1> QED
    BY <1>4 DEF w

(* All that is written to an empty file from its beginning is all it has.   *)
LEMMA FileFilled ==
  ASSUME NEW data \in Seq(Int)
  PROVE  Files!Files!Written(<<>>, 0, data) = data
  <1> DEFINE f == <<>>  pos == 0  w == Files!Files!Written(f, pos, data)  m == Len(data)
             l == IF data # <<>> /\ pos + Len(data) > Len(f) THEN pos + Len(data) ELSE Len(f)
  <1>1. f \in Seq(Int) /\ pos \in Nat /\ Len(f) = 0 /\ pos = 0 /\ m \in Nat /\ (data = <<>> <=> m = 0)
    OBVIOUS
  <1>2. w = Files!Files!Written(f, pos, data)
        /\ l = IF data # <<>> /\ pos + Len(data) > Len(f) THEN pos + Len(data) ELSE Len(f)
    OBVIOUS
  <1>3. l = m
    BY <1>1
  <1> HIDE DEF f, pos, w, l
  <1>4. IsWritten(w, f, data, pos, l)
    BY <1>1, <1>2, FileWritten
  <1>5. w \in Seq(Int) /\ Len(w) = l
        /\ \A i \in 1 .. l : w[i] = IF pos < i /\ i <= pos + Len(data) THEN data[i - pos]
                                    ELSE IF i <= Len(f) THEN f[i] ELSE 0
    BY <1>4, Zenon DEF IsWritten
  <1>6. \A i \in 1 .. m : w[i] = data[i]
    <2> SUFFICES ASSUME NEW i \in 1 .. m PROVE w[i] = data[i]
      OBVIOUS
    <2>1. pos < i /\ i <= pos + Len(data) /\ i - pos = i /\ i \in 1 .. l
      BY <1>1, <1>3
    <2> QED
      BY <1>5, <2>1, Zenon
  <1>7. Len(w) = m /\ w \in Seq(Int) /\ m \in Nat /\ Len(data) = m
    BY <1>1, <1>3, <1>5
  <1> HIDE DEF m
  <1>8. w = data
    BY <1>6, <1>7, SameBytes
  <1> QED
    BY <1>8 DEF w, f, pos

(* One more file, as both specifications see it.                            *)
LEMMA FileAdded ==
  ASSUME SoundFiles(s1, s2, s3, s4), NEW node, SoundFile(node), s1' = Append(s1, node)
  PROVE  /\ s1' \in Seq(FileNodes) /\ Len(s1') = Len(s1) + 1 /\ \A i \in 1 .. Len(s1') : SoundFile(s1'[i])
         /\ FilesSeen' = Append(FilesSeen, SeenFile(node))
  <1>1. /\ s1 \in Seq(FileNodes) /\ node \in FileNodes /\ \A i \in 1 .. Len(s1) : SoundFile(s1[i])
    BY DEF SoundFiles, SoundFile
  <1>2. s1' \in Seq(FileNodes) /\ Len(s1') = Len(s1) + 1 /\ Len(s1) \in Nat
        /\ \A i \in 1 .. Len(s1) + 1 : s1'[i] = IF i <= Len(s1) THEN s1[i] ELSE node
    BY <1>1, AppendProperties
  <1>3. \A i \in 1 .. Len(s1') : SoundFile(s1'[i])
    BY <1>1, <1>2
  <1>4. DOMAIN s1' = 1 .. Len(s1) + 1
    BY <1>2, LenProperties
  <1> DEFINE n == Len(s1)  g == FilesSeen
  <1>5. FilesSeen' = [i \in 1 .. n + 1 |-> SeenFile(s1'[i])]
    BY <1>4 DEF FilesSeen, SeenFile, FileBytes
  <1>6. /\ g \in Seq(SeenFiles) /\ Len(g) = n /\ n \in Nat
        /\ \A i \in 1 .. n : g[i] = SeenFile(s1[i])
    BY FilesSeenIs
  <1>7. SeenFile(node) \in SeenFiles
    BY SeenFileIs
  <1>8. \A i \in 1 .. n : SeenFile(s1'[i]) = g[i]
    BY <1>2, <1>6
  <1>9. SeenFile(s1'[n + 1]) = SeenFile(node)
    BY <1>2
  <1> DEFINE a == Append(g, SeenFile(node))
  <1> HIDE DEF g, n
  <1>10. /\ a \in Seq(SeenFiles) /\ Len(a) = n + 1
         /\ \A i \in 1 .. n + 1 : a[i] = IF i <= n THEN g[i] ELSE SeenFile(node)
    BY <1>6, <1>7, AppendProperties
  <1> HIDE DEF a
  <1>11. \A i \in 1 .. n + 1 : a[i] = SeenFile(s1'[i])
    <2> SUFFICES ASSUME NEW i \in 1 .. n + 1 PROVE a[i] = SeenFile(s1'[i])
      OBVIOUS
    <2>1. CASE i <= n
      <3>1. i \in 1 .. n /\ a[i] = g[i]
        BY <1>6, <1>10, <2>1
      <3> QED
        BY <1>8, <3>1
    <2>2. CASE ~ (i <= n)
      <3>1. i = n + 1 /\ a[i] = SeenFile(node)
        BY <1>6, <1>10, <2>2
      <3> QED
        BY <1>9, <3>1
    <2> QED
      BY <2>1, <2>2
  <1>12. DOMAIN a = 1 .. n + 1
    BY <1>10, LenProperties
  <1>13. a = [i \in 1 .. n + 1 |-> a[i]]
    <2>1. a \in [1 .. n + 1 -> SeenFiles]
      BY <1>10, LenProperties
    <2> QED
      BY <2>1
  <1>14. FilesSeen' = a
    BY <1>5, <1>11, <1>13
  <1> QED
    BY <1>2, <1>3, <1>14 DEF a, g, n

(* An unlink leaves the file to its descriptors.                            *)
LEMMA FilesUnlink ==
  ASSUME SoundFiles(s1, s2, s3, s4), NEW n \in Names, Files!Unlink(n)
  PROVE  SoundFiles(s1', s2', s3', s4') /\ Files!Files!Unlink(n)
  <1>1. /\ UNCHANGED <<s1, s3, s4>>
        /\ IF s2[n] = 0 THEN s2' = s2 /\ s5' = [call |-> "unlink", err |-> "ENOENT", value |-> <<>>]
           ELSE s2' = [s2 EXCEPT ![n] = 0] /\ s5' = [call |-> "unlink", err |-> "ok", value |-> <<>>]
    BY DEF Files!Unlink, Files!Error, Files!Answer, Files!NoName
  <1>2. SoundFiles(s1', s2', s3', s4')
    <2>1. 0 \in 0 .. Len(s1) /\ s2 \in [Names -> 0 .. Len(s1)]
      BY FilesSeenIs DEF SoundFiles
    <2>2. s2' \in [Names -> 0 .. Len(s1)]
      BY <1>1, <2>1
    <2> QED
      BY <1>1, <2>2 DEF SoundFiles
  <1>3. FilesSeen' = FilesSeen /\ FdsSeen' = FdsSeen
    BY <1>1, FilesStill, FdsStill
  <1>4. Files!Files!Unlink(n)
    BY <1>1, <1>3, Zenon DEF Files!Files!Unlink, Files!Files!Say, Files!Files!Refuse, FdsSeen, FilesSeen
  <1> QED
    BY <1>2, <1>4

(* The invariant with one more file, or with a file replaced.               *)
LEMMA FilesMore ==
  ASSUME SoundFiles(s1, s2, s3, s4), s1' \in Seq(FileNodes), Len(s1') = Len(s1) + 1,
         \A i \in 1 .. Len(s1') : SoundFile(s1'[i]),
         NEW n \in Names, s2' = [s2 EXCEPT ![n] = Len(s1) + 1]
  PROVE  /\ s2' \in [Names -> 0 .. Len(s1')] /\ s3 \in [Fds -> FileStreams(Len(s1'))]
         /\ Len(s1) + 1 \in 1 .. Len(s1')
  <1> DEFINE l == Len(s1)
  <1>1. l \in Nat /\ Len(s1') = l + 1
    BY FilesSeenIs
  <1>2. s2 \in [Names -> 0 .. l] /\ s3 \in [Fds -> FileStreams(l)] /\ s2' = [s2 EXCEPT ![n] = l + 1]
    BY DEF SoundFiles
  <1> HIDE DEF l
  <1>3. 0 .. l \subseteq 0 .. l + 1 /\ l + 1 \in 0 .. l + 1 /\ 1 .. l \subseteq 1 .. l + 1 /\ l + 1 \in 1 .. l + 1
    BY <1>1
  <1>4. s2' \in [Names -> 0 .. l + 1]
    <2>1. s2 \in [Names -> 0 .. l + 1]
      BY <1>2, <1>3
    <2> QED
      BY <1>2, <1>3, <2>1
  <1>5. FileStreams(l) \subseteq FileStreams(l + 1)
    BY <1>3 DEF FileStreams
  <1>6. s3 \in [Fds -> FileStreams(l + 1)]
    BY <1>2, <1>5
  <1> QED
    BY <1>1, <1>3, <1>4, <1>6 DEF l

(* A file of the host has its data, or for want of a descriptor nothing.    *)
LEMMA FilesProvide ==
  ASSUME SoundFiles(s1, s2, s3, s4), NEW n \in Names, NEW data \in Data, NEW array \in BOOLEAN, NEW w \in BOOLEAN,
         Files!createDataFile(n, data, array, w)
  PROVE  SoundFiles(s1', s2', s3', s4') /\ Files!Files!Provide(n, data, w)
  <1>1. data \in Seq(Int)
    BY FilesAssumption
  <1>2. CASE s2[n] # 0
    <2>1. UNCHANGED <<s1, s2, s3, s4>> /\ s5' = [call |-> "provide", err |-> "EEXIST", value |-> <<>>]
      BY <1>2 DEF Files!createDataFile, Files!Error, Files!Answer, Files!NoName
    <2>2. SoundFiles(s1', s2', s3', s4')
      BY <2>1 DEF SoundFiles
    <2>3. FilesSeen' = FilesSeen /\ FdsSeen' = FdsSeen
      BY <2>1, FilesStill, FdsStill
    <2>4. UNCHANGED <<s2, s4>> /\ s5' = [call |-> "provide", err |-> "EEXIST", value |-> <<>>]
      BY <2>1
    <2>5. Files!Files!Provide(n, data, w)
      BY <1>2, <2>3, <2>4, Zenon DEF Files!Files!Provide, Files!Files!Say, Files!Files!Refuse, FdsSeen, FilesSeen
    <2> QED
      BY <2>2, <2>5
  <1>3. CASE s2[n] = 0
    <2> DEFINE none == Files!nextfd = {}
               new == Files!NewFile(w)  empty == Files!NewFile(TRUE)  zero == 0
               made == IF none THEN empty ELSE Files!memfsWrite(new, data, zero, array)
    <2>1. /\ s2' = [s2 EXCEPT ![n] = Len(s1) + 1] /\ s1' = Append(s1, made)
          /\ s5' = [call |-> "provide", err |-> IF none THEN "EMFILE" ELSE "ok", value |-> <<>>]
          /\ UNCHANGED <<s3, s4>>
      BY <1>3 DEF Files!createDataFile, Files!Answer, Files!NoName
    <2>2. /\ SoundFile(new) /\ new.write = w /\ FileBytes(new) = <<>>
      <3>1. new = Files!NewFile(w)
        OBVIOUS
      <3> HIDE DEF new
      <3> QED
        BY <3>1, FileNew
    <2>3. SoundFile(empty) /\ empty.write = TRUE /\ FileBytes(empty) = <<>>
      <3> DEFINE yes == TRUE
      <3>1. empty = Files!NewFile(yes) /\ yes \in BOOLEAN /\ yes = TRUE
        OBVIOUS
      <3> HIDE DEF empty, yes
      <3>2. SoundFile(empty) /\ empty.write = yes /\ FileBytes(empty) = <<>>
        BY <3>1, FileNew
      <3> QED
        BY <3>1, <3>2
    <2>4. /\ SoundFile(made)
          /\ ~ none => SeenFile(made) = [bytes |-> data, writable |-> w]
          /\ none => SeenFile(made) = [bytes |-> <<>>, writable |-> TRUE]
      <3>1. CASE none
        <4>1. made = empty
          BY <3>1
        <4> HIDE DEF made, empty, none
        <4> QED
          BY <2>3, <3>1, <4>1 DEF SeenFile
      <3>2. CASE ~ none
        <4>1. made = Files!memfsWrite(new, data, zero, array) /\ zero \in Nat
          BY <3>2
        <4> HIDE DEF made, new, none, zero
        <4>2. IsWrite(made, new, data, zero)
          BY <1>1, <2>2, <4>1, FileWritesPiece
        <4>3. SoundFile(made) /\ made.write = w /\ FileBytes(made) = Files!Files!Written(<<>>, zero, data)
          BY <2>2, <4>2, Zenon DEF IsWrite
        <4>4. FileBytes(made) = data
          BY <1>1, <4>3, FileFilled DEF zero
        <4> QED
          BY <3>2, <4>3, <4>4 DEF SeenFile
      <3> QED
        BY <3>1, <3>2
    <2> HIDE DEF made, none
    <2>5. /\ s1' \in Seq(FileNodes) /\ Len(s1') = Len(s1) + 1 /\ \A i \in 1 .. Len(s1') : SoundFile(s1'[i])
          /\ FilesSeen' = Append(FilesSeen, SeenFile(made))
      BY <2>1, <2>4, FileAdded
    <2>6. SoundFiles(s1', s2', s3', s4')
      <3>1. s2' \in [Names -> 0 .. Len(s1')] /\ s3 \in [Fds -> FileStreams(Len(s1'))]
        BY <2>1, <2>5, FilesMore
      <3> QED
        BY <2>1, <2>5, <3>1 DEF SoundFiles
    <2>7. FdsSeen' = FdsSeen /\ s4' = s4 /\ Len(FilesSeen) = Len(s1)
      BY <2>1, FdsStill, FilesSeenIs
    <2>8. s2' = [s2 EXCEPT ![n] = Len(FilesSeen) + 1]
      BY <2>1, <2>7
    <2>9. \/ /\ FilesSeen' = Append(FilesSeen, [bytes |-> data, writable |-> w])
             /\ s5' = [call |-> "provide", err |-> "ok", value |-> <<>>]
          \/ /\ Files!Files!Opening = {} /\ FilesSeen' = Append(FilesSeen, [bytes |-> <<>>, writable |-> TRUE])
             /\ s5' = [call |-> "provide", err |-> "EMFILE", value |-> <<>>]
      <3>1. Files!nextfd = Files!Files!Opening
        BY FilesChoose
      <3>2. none <=> Files!nextfd = {}
        BY DEF none
      <3> QED
        BY <2>1, <2>4, <2>5, <3>1, <3>2
    <2>10. Files!Files!Provide(n, data, w)
      BY <1>3, <2>7, <2>8, <2>9, Zenon
         DEF Files!Files!Provide, Files!Files!Say, Files!Files!Refuse, FdsSeen, FilesSeen
    <2> QED
      BY <2>6, <2>10
  <1> QED
    BY <1>2, <1>3

(* Both specifications refuse the same opens.                               *)
LEMMA FilesAllowed ==
  ASSUME SoundFiles(s1, s2, s3, s4), NEW n \in Names, NEW m
  PROVE  /\ Files!Files!Allowed(n, m) <=> s2[n] # 0 /\ ~ (m.creat /\ m.excl) /\ Files!mayOpen(s1[s2[n]], m)
         /\ Files!Files!Created(n, m) <=> s2[n] = 0 /\ m.creat
         /\ s2[n] # 0 => s2[n] \in 1 .. Len(s1)
  <1>1. Files!Files!Created(n, m) <=> s2[n] = 0 /\ m.creat
    BY DEF Files!Files!Created
  <1>2. s2[n] # 0 => s2[n] \in 1 .. Len(s1)
    <2>1. s2[n] \in 0 .. Len(s1) /\ Len(s1) \in Nat
      BY FilesSeenIs DEF SoundFiles
    <2> QED
      BY <2>1
  <1>3. ASSUME s2[n] # 0 PROVE FilesSeen[s2[n]].writable = s1[s2[n]].write
    BY <1>2, <1>3, FilesSeenIs DEF SeenFile
  <1>4. Files!Files!Allowed(n, m)
          <=> /\ s2[n] # 0 /\ ~ (m.creat /\ m.excl)
              /\ FilesSeen[s2[n]].writable \/ (m.acc = "r" /\ ~ m.trunc)
    BY Zenon DEF Files!Files!Allowed, FilesSeen
  <1>5. Files!mayOpen(s1[s2[n]], m) <=> s1[s2[n]].write \/ (m.acc = "r" /\ ~ m.trunc)
    BY DEF Files!mayOpen
  <1>6. Files!Files!Allowed(n, m) <=> s2[n] # 0 /\ ~ (m.creat /\ m.excl) /\ Files!mayOpen(s1[s2[n]], m)
    BY <1>3, <1>4, <1>5
  <1> QED
    BY <1>1, <1>2, <1>6

(* What an open does to the file before it looks for a descriptor.          *)
LEMMA FilesPrepared ==
  ASSUME SoundFiles(s1, s2, s3, s4), NEW n \in Names, NEW m, NEW id,
         id = (IF s2[n] # 0 THEN s2[n] ELSE Len(s1) + 1), s2[n] # 0 \/ m.creat,
         s2' = [s2 EXCEPT ![n] = id],
         s2[n] = 0 => s1' = Append(s1, Files!NewFile(TRUE)),
         s2[n] # 0 /\ m.trunc => s1' = [s1 EXCEPT ![id] = Files!truncate(@)],
         s2[n] # 0 /\ ~ m.trunc => s1' = s1
  PROVE  /\ s1' \in Seq(FileNodes) /\ \A i \in 1 .. Len(s1') : SoundFile(s1'[i])
         /\ s2' \in [Names -> 0 .. Len(s1')] /\ s3 \in [Fds -> FileStreams(Len(s1'))]
         /\ s2'[n] = id /\ id \in 1 .. Len(s1')
         /\ Files!Files!Prepared(n, m)
  <1>1. s2 \in [Names -> 0 .. Len(s1)] /\ Len(s1) \in Nat /\ Len(FilesSeen) = Len(s1)
        /\ s1 \in Seq(FileNodes) /\ s3 \in [Fds -> FileStreams(Len(s1))]
        /\ \A i \in 1 .. Len(s1) : SoundFile(s1[i])
    BY FilesSeenIs DEF SoundFiles
  <1>2. s2'[n] = id
    BY <1>1
  <1>3. CASE s2[n] = 0
    <2> DEFINE yes == TRUE  new == Files!NewFile(yes)
    <2>1. new = Files!NewFile(yes) /\ yes \in BOOLEAN /\ yes = TRUE /\ s1' = Append(s1, new)
      BY <1>3
    <2> HIDE DEF new, yes
    <2>2. SoundFile(new) /\ new.write = yes /\ FileBytes(new) = <<>>
      BY <2>1, FileNew
    <2>3. SeenFile(new) = [bytes |-> <<>>, writable |-> TRUE]
      BY <2>1, <2>2 DEF SeenFile
    <2>4. /\ s1' \in Seq(FileNodes) /\ Len(s1') = Len(s1) + 1 /\ \A i \in 1 .. Len(s1') : SoundFile(s1'[i])
          /\ FilesSeen' = Append(FilesSeen, SeenFile(new))
      BY <2>1, <2>2, FileAdded
    <2>5. id = Len(s1) + 1 /\ s2' = [s2 EXCEPT ![n] = Len(s1) + 1]
      BY <1>3
    <2>6. /\ s2' \in [Names -> 0 .. Len(s1')] /\ s3 \in [Fds -> FileStreams(Len(s1'))]
          /\ id \in 1 .. Len(s1')
      BY <2>4, <2>5, FilesMore
    <2>7. Files!Files!Prepared(n, m)
      <3>1. Files!Files!Created(n, m)
        BY <1>3, FilesAllowed
      <3>2. FilesSeen' = Append(FilesSeen, [bytes |-> <<>>, writable |-> TRUE])
        BY <2>3, <2>4
      <3>3. s2' = [s2 EXCEPT ![n] = Len(FilesSeen) + 1]
        BY <1>1, <2>5
      <3> QED
        BY <3>1, <3>2, <3>3, Zenon DEF Files!Files!Prepared, FilesSeen
    <2> QED
      BY <1>2, <2>4, <2>6, <2>7
  <1>4. CASE s2[n] # 0
    <2>1. id = s2[n] /\ id \in 1 .. Len(s1)
      BY <1>4, FilesAllowed
    <2>2. s2' = s2
      BY <1>1, <2>1
    <2>3. ~ Files!Files!Created(n, m)
      BY <1>4, FilesAllowed
    <2>4. CASE m.trunc
      <3> DEFINE node == s1[id]  t == Files!truncate(node)
      <3>1. s1' = [s1 EXCEPT ![id] = t]
        BY <1>4, <2>4
      <3>2. SoundFile(node) /\ t = Files!truncate(node) /\ node.write = s1[id].write
        BY <1>1, <2>1
      <3> HIDE DEF node, t
      <3>3. SoundFile(t) /\ t.write = node.write /\ FileBytes(t) = <<>>
        BY <3>2, FileTruncated
      <3>4. /\ s1' \in Seq(FileNodes) /\ Len(s1') = Len(s1) /\ \A i \in 1 .. Len(s1') : SoundFile(s1'[i])
            /\ FilesSeen' = [FilesSeen EXCEPT ![id].bytes = FileBytes(t)]
        <4>1. t.write = s1[id].write /\ SoundFile(t)
          BY <3>2, <3>3, Zenon
        <4> QED
          BY <2>1, <3>1, <4>1, FileReplaced
      <3>5. FilesSeen' = [FilesSeen EXCEPT ![s2[n]].bytes = <<>>]
        BY <2>1, <3>3, <3>4
      <3>6. Files!Files!Prepared(n, m)
        BY <2>2, <2>3, <2>4, <3>5, Zenon DEF Files!Files!Prepared, FilesSeen
      <3> QED
        BY <1>1, <1>2, <2>1, <2>2, <3>4, <3>6
    <2>5. CASE ~ m.trunc
      <3>1. s1' = s1
        BY <1>4, <2>5
      <3>2. FilesSeen' = FilesSeen
        BY <3>1, FilesStill
      <3>3. Files!Files!Prepared(n, m)
        BY <2>2, <2>3, <2>5, <3>2, Zenon DEF Files!Files!Prepared, FilesSeen
      <3> QED
        BY <1>1, <1>2, <2>1, <2>2, <3>1, <3>3
    <2> QED
      BY <2>4, <2>5
  <1> QED
    BY <1>3, <1>4

(* An open finds, makes or empties the file and takes the lowest            *)
(* descriptor.                                                              *)
LEMMA FilesOpen ==
  ASSUME SoundFiles(s1, s2, s3, s4), NEW n \in Names, NEW m \in Modes, Files!Open(n, m)
  PROVE  SoundFiles(s1', s2', s3', s4') /\ Files!Files!Open(n, m)
  <1> DEFINE id == IF s2[n] # 0 THEN s2[n] ELSE Len(s1) + 1
             refused == \E e \in {"ENOENT", "EEXIST", "EACCES"} :
                           /\ s5' = [call |-> "open", err |-> e, value |-> <<>>]
                           /\ UNCHANGED <<s1, s2, s3, s4>>
             d == Files!Lowest(Files!nextfd)  u == Files!Lowest(Files!Unused)
             state == [pos |-> 0, acc |-> m.acc, append |-> m.append]
             given == IF Files!nextfd = {}
                      THEN /\ s5' = [call |-> "open", err |-> "EMFILE", value |-> <<>>]
                           /\ UNCHANGED <<s3, s4>>
                      ELSE /\ s3' = [s3 EXCEPT ![d] = [node |-> id, shared |-> u]]
                           /\ s4' = [s4 EXCEPT ![u] = state]
                           /\ s5' = [call |-> "open", err |-> "ok", value |-> <<d>>]
             nodes == CASE ~ (s2[n] # 0) -> Append(s1, Files!NewFile(TRUE))
                        [] s2[n] # 0 /\ m.trunc -> [s1 EXCEPT ![id] = Files!truncate(@)]
                        [] OTHER -> s1
  <1>1. \/ s2[n] # 0 /\ m.creat /\ m.excl /\ refused
        \/ s2[n] = 0 /\ ~ m.creat /\ refused
        \/ s2[n] # 0 /\ ~ Files!mayOpen(s1[s2[n]], m) /\ refused
        \/ /\ IF s2[n] # 0 THEN ~ (m.creat /\ m.excl) /\ Files!mayOpen(s1[s2[n]], m) ELSE m.creat
           /\ s2' = [s2 EXCEPT ![n] = id] /\ s1' = nodes /\ given
    BY Zenon DEF Files!Open, Files!Error, Files!Answer, Files!NoName
  <1>2. /\ Files!Files!Allowed(n, m) <=> s2[n] # 0 /\ ~ (m.creat /\ m.excl) /\ Files!mayOpen(s1[s2[n]], m)
        /\ Files!Files!Created(n, m) <=> s2[n] = 0 /\ m.creat
    BY FilesAllowed
  <1>3. CASE refused /\ ~ Files!Files!Allowed(n, m) /\ ~ Files!Files!Created(n, m)
    <2>1. FilesSeen' = FilesSeen /\ FdsSeen' = FdsSeen
      BY <1>3, FilesStill, FdsStill
    <2>2. SoundFiles(s1', s2', s3', s4')
      BY <1>3 DEF SoundFiles
    <2>3. PICK e \in {"ENOENT", "EEXIST", "EACCES"} : s5' = [call |-> "open", err |-> e, value |-> <<>>]
      BY <1>3
    <2>4. UNCHANGED <<s2, s4>>
      BY <1>3
    <2>5. Files!Files!Open(n, m)
      BY <1>3, <2>1, <2>3, <2>4, Zenon
         DEF Files!Files!Open, Files!Files!Say, Files!Files!Refuse, FdsSeen, FilesSeen
    <2> QED
      BY <2>2, <2>5
  <1>4. CASE /\ s2' = [s2 EXCEPT ![n] = id] /\ s1' = nodes /\ given
             /\ Files!Files!Allowed(n, m) \/ Files!Files!Created(n, m)
    <2>1. /\ s2[n] # 0 \/ m.creat
          /\ s2[n] = 0 => s1' = Append(s1, Files!NewFile(TRUE))
          /\ s2[n] # 0 /\ m.trunc => s1' = [s1 EXCEPT ![id] = Files!truncate(@)]
          /\ s2[n] # 0 /\ ~ m.trunc => s1' = s1
      BY <1>2, <1>4
    <2>2. id = (IF s2[n] # 0 THEN s2[n] ELSE Len(s1) + 1) /\ s2' = [s2 EXCEPT ![n] = id]
      BY <1>4
    <2> HIDE DEF id, nodes
    <2>3. /\ s1' \in Seq(FileNodes) /\ \A i \in 1 .. Len(s1') : SoundFile(s1'[i])
          /\ s2' \in [Names -> 0 .. Len(s1')] /\ s3 \in [Fds -> FileStreams(Len(s1'))]
          /\ s2'[n] = id /\ id \in 1 .. Len(s1')
          /\ Files!Files!Prepared(n, m)
      BY <2>1, <2>2, FilesPrepared
    <2>4. Files!nextfd = Files!Files!Opening /\ Files!Unused = Files!Files!Unused
      BY FilesChoose
    <2>5. s4 \in [Fds -> FileOpens]
      BY DEF SoundFiles
    <2>6. CASE Files!nextfd = {}
      <3>1. s3' = s3 /\ s4' = s4 /\ s5' = [call |-> "open", err |-> "EMFILE", value |-> <<>>]
        BY <1>4, <2>6
      <3>2. SoundFiles(s1', s2', s3', s4')
        BY <2>3, <2>5, <3>1 DEF SoundFiles
      <3>3. FdsSeen' = FdsSeen
        BY <3>1, FdsStill
      <3>4. Files!Files!Opening = {}
        BY <2>4, <2>6
      <3>5. Files!Files!Open(n, m)
        BY <1>4, <2>3, <3>1, <3>3, <3>4, Zenon DEF Files!Files!Open, Files!Files!Say, FdsSeen
      <3> QED
        BY <3>2, <3>5
    <2>7. CASE Files!nextfd # {}
      <3>1. /\ s3' = [s3 EXCEPT ![d] = [node |-> id, shared |-> u]]
            /\ s4' = [s4 EXCEPT ![u] = state]
            /\ s5' = [call |-> "open", err |-> "ok", value |-> <<d>>]
        BY <1>4, <2>7
      <3>2. Files!Unused # {} /\ Files!Unused \subseteq Fds /\ Files!nextfd \subseteq Fds
            /\ Files!nextfd \subseteq Nat /\ Fds \subseteq Nat
        BY <2>7, FilesRoom, FilesChoose, FilesFds
      <3>3. d \in Files!nextfd /\ u \in Files!Unused
        BY <2>7, <3>2, FilesLowestIn
      <3>4. d = Files!Files!Lowest(Files!Files!Opening) /\ u = Files!Files!Lowest(Files!Files!Unused)
        BY <2>4, FilesLowest
      <3> HIDE DEF d, u
      <3>5. d \in Fds /\ u \in Fds
        BY <3>2, <3>3
      <3>6. state \in FileOpens
        <4>1. m.acc \in {"r", "w", "rw"} /\ m.append \in BOOLEAN
          BY FilesAssumption
        <4> QED
          BY <4>1 DEF FileOpens
      <3>7. s4' \in [Fds -> FileOpens]
        <4> HIDE DEF state
        <4> QED
          BY <2>5, <3>1, <3>6
      <3>8. s3' \in [Fds -> FileStreams(Len(s1'))]
        <4>1. [node |-> id, shared |-> u] \in FileStreams(Len(s1'))
          BY <2>3, <3>5 DEF FileStreams
        <4> QED
          BY <2>3, <3>1, <4>1
      <3>9. SoundFiles(s1', s2', s3', s4')
        BY <2>3, <3>7, <3>8 DEF SoundFiles
      <3>10. FdsSeen' = [FdsSeen EXCEPT ![d] = [file |-> s2'[n], of |-> u]]
        <4>1. \A e \in Fds : s3'[e] = IF e = d THEN [node |-> id, shared |-> u] ELSE s3[e]
          BY <2>3, <3>1
        <4>2. \A e \in Fds : [file |-> s3'[e].node, of |-> s3'[e].shared]
                             = IF e = d THEN [file |-> id, of |-> u] ELSE [file |-> s3[e].node, of |-> s3[e].shared]
          BY <4>1
        <4>3. FdsSeen' = [FdsSeen EXCEPT ![d] = [file |-> id, of |-> u]]
          BY <4>2 DEF FdsSeen
        <4> QED
          BY <2>3, <4>3
      <3> DEFINE O == Files!Files!Opening  U == Files!Files!Unused
      <3>11. /\ O # {} /\ U # {}
             /\ FdsSeen' = [FdsSeen EXCEPT ![Files!Files!Lowest(O)] = [file |-> s2'[n], of |-> Files!Files!Lowest(U)]]
             /\ s4' = [s4 EXCEPT ![Files!Files!Lowest(U)] = state]
             /\ s5' = [call |-> "open", err |-> "ok", value |-> <<Files!Files!Lowest(O)>>]
        BY <2>4, <2>7, <3>1, <3>2, <3>4, <3>10
      <3>12. Files!Files!Open(n, m)
        BY <1>4, <2>3, <3>11, Zenon DEF Files!Files!Open, Files!Files!Say, FdsSeen
      <3> QED
        BY <3>9, <3>12
    <2> QED
      BY <2>6, <2>7
  <1> QED
    BY <1>1, <1>2, <1>3, <1>4

(* The embedded file is there to begin with, and no stream.                 *)
LEMMA FilesBegin ==
  ASSUME Files!Init
  PROVE  Files!Inv /\ Files!StartsAbstract
  <1> DEFINE yes == TRUE  zero == 0  no == FALSE  new == Files!NewFile(yes)
             node == Files!memfsWrite(new, Embedded.bytes, zero, no)
  <1>1. /\ s1 = <<node>> /\ s2 = [n \in Names |-> IF n = Embedded.name THEN 1 ELSE 0]
        /\ s3 = [fd \in Fds |-> Files!NONE] /\ s4 = [s \in Fds |-> Files!Fresh]
        /\ s5 = [call |-> "init", err |-> "ok", value |-> <<>>]
    BY DEF Files!Init, Files!NoName
  <1>2. Embedded.bytes \in Seq(Int)
    BY FilesAssumption
  <1>3. new = Files!NewFile(yes) /\ yes \in BOOLEAN /\ yes = TRUE /\ zero \in Nat
        /\ node = Files!memfsWrite(new, Embedded.bytes, zero, no)
    OBVIOUS
  <1> HIDE DEF yes, no, new, node, zero
  <1>4. SoundFile(new) /\ new.write = yes /\ FileBytes(new) = <<>>
    BY <1>3, FileNew
  <1>5. IsWrite(node, new, Embedded.bytes, zero)
    BY <1>2, <1>3, <1>4, FileWritesPiece
  <1>6. SoundFile(node) /\ node.write = yes
        /\ FileBytes(node) = Files!Files!Written(<<>>, zero, Embedded.bytes)
    BY <1>4, <1>5, Zenon DEF IsWrite
  <1>7. SeenFile(node) = [bytes |-> Embedded.bytes, writable |-> TRUE]
    BY <1>2, <1>3, <1>6, FileFilled DEF SeenFile, zero
  <1>8. s1 \in Seq(FileNodes) /\ Len(s1) = 1 /\ DOMAIN s1 = 1 .. 1 /\ s1[1] = node
    <2>1. node \in FileNodes
      BY <1>6 DEF SoundFile
    <2> QED
      BY <1>1, <2>1
  <1>9. FilesSeen = <<[bytes |-> Embedded.bytes, writable |-> TRUE]>>
    <2>1. FilesSeen = [i \in 1 .. 1 |-> SeenFile(s1[i])]
      BY <1>8 DEF FilesSeen, SeenFile, FileBytes
    <2> DEFINE f == [bytes |-> Embedded.bytes, writable |-> TRUE]
    <2>2. FilesSeen = [i \in 1 .. 1 |-> f]
      BY <1>7, <1>8, <2>1
    <2> HIDE DEF f
    <2>3. FilesSeen = <<f>>
      BY <2>2
    <2> QED
      BY <2>3 DEF f
  <1>10. FdsSeen = [d \in Fds |-> SeenClosed]
    BY <1>1 DEF FdsSeen, SeenClosed, Files!NONE
  <1>11. Files!StartsAbstract
    BY <1>1, <1>9, <1>10, Zenon
       DEF Files!StartsAbstract, Files!Files!Init, FilesSeen, FdsSeen, SeenClosed, Files!Fresh, Files!Files!Fresh
  <1>12. /\ \A i \in 1 .. Len(s1) : SoundFile(s1[i])
         /\ s2 \in [Names -> 0 .. Len(s1)] /\ s3 \in [Fds -> FileStreams(Len(s1))] /\ s4 \in [Fds -> FileOpens]
    <2>1. \A i \in 1 .. Len(s1) : SoundFile(s1[i])
      BY <1>6, <1>8
    <2>2. s2 \in [Names -> 0 .. 1]
      BY <1>1
    <2>3. s3 \in [Fds -> FileStreams(Len(s1))]
      BY <1>1 DEF FileStreams
    <2>4. s4 \in [Fds -> FileOpens]
      BY <1>1 DEF FileOpens, Files!Fresh
    <2> QED
      BY <1>8, <2>1, <2>2, <2>3, <2>4
  <1>13. /\ \A i \in DOMAIN s1 : /\ s1[i].usedBytes \in 0 .. Len(s1[i].contents)
                                 /\ \A j \in s1[i].usedBytes + 1 .. Len(s1[i].contents) : s1[i].contents[j] = 0
    <2>1. /\ node.usedBytes \in Nat /\ Len(node.contents) \in Nat /\ node.usedBytes <= Len(node.contents)
          /\ \A j \in node.usedBytes + 1 .. Len(node.contents) : node.contents[j] = 0
      BY <1>6, FileStorage DEF SoundFile
    <2>2. node.usedBytes \in 0 .. Len(node.contents)
      BY <2>1
    <2> QED
      BY <1>8, <2>1, <2>2
  <1>14. /\ \A n \in Names : s2[n] = 0 \/ s2[n] \in DOMAIN s1
         /\ \A fd \in Fds : s3[fd] = Files!NONE
    BY <1>1, <1>8
  <1> QED
    BY <1>8, <1>11, <1>12, <1>13, <1>14
       DEF Files!Inv, Files!TypeOK, Files!SlackIsZero, Files!NoName, FileNodes, FileStreams, FileOpens

(* The embedded file is sound, and no stream is open.                       *)
LEMMA FilesStarts == Files!Init => Files!Inv
  BY FilesBegin

(* Every call is one of the abstract specification's, and keeps the         *)
(* invariant.                                                               *)
LEMMA FilesKeeps ==
  ASSUME Files!Inv, Files!Next
  PROVE  Files!Inv' /\ Files!StepIsAbstract
  <1>1. SoundFiles(s1, s2, s3, s4)
    BY FilesSound
  <1>2. \A fd \in Fds : s3[fd] # Files!NONE => FdsSeen[fd] # SeenClosed
    BY <1>1, FdsSeenAre
  <1>3. ASSUME NEW n \in Names, NEW m \in Modes, Files!Open(n, m)
        PROVE  SoundFiles(s1', s2', s3', s4') /\ Files!Files!Next
    <2>1. SoundFiles(s1', s2', s3', s4') /\ Files!Files!Open(n, m)
      BY <1>1, <1>3, FilesOpen
    <2> QED
      BY <2>1 DEF Files!Files!Next
  <1>4. ASSUME NEW n \in Names, Files!Unlink(n)
        PROVE  SoundFiles(s1', s2', s3', s4') /\ Files!Files!Next
    <2>1. SoundFiles(s1', s2', s3', s4') /\ Files!Files!Unlink(n)
      BY <1>1, <1>4, FilesUnlink
    <2> QED
      BY <2>1 DEF Files!Files!Next
  <1>5. ASSUME NEW n \in Names, NEW d \in Data, NEW array \in BOOLEAN, NEW w \in BOOLEAN,
               Files!createDataFile(n, d, array, w)
        PROVE  SoundFiles(s1', s2', s3', s4') /\ Files!Files!Next
    <2>1. SoundFiles(s1', s2', s3', s4') /\ Files!Files!Provide(n, d, w)
      BY <1>1, <1>5, FilesProvide
    <2> QED
      BY <2>1 DEF Files!Files!Next
  <1>6. ASSUME NEW fd \in Fds \ Files!StdFds, s3[fd] # Files!NONE,
               \/ Files!Close(fd) \/ Files!SetAppend(fd)
               \/ \E arg \in Fds : Files!Dup(fd, arg)
               \/ \E off \in Offsets, from \in {"set", "cur", "end"} : Files!Seek(fd, off, from)
               \/ \E n, m \in Lengths : Files!Read(fd, n, m)
               \/ \E d \in Data : \E cut \in 0 .. Len(d) : Files!Write(fd, d, cut)
        PROVE  SoundFiles(s1', s2', s3', s4') /\ Files!Files!Next
    <2> DEFINE does == \/ Files!Files!Close(fd) \/ Files!Files!SetAppend(fd)
                       \/ \E e \in Fds : Files!Files!Dup(fd, e)
                       \/ \E off \in Offsets, from \in {"set", "cur", "end"} : Files!Files!Seek(fd, off, from)
                       \/ \E n \in {a + b : a, b \in Lengths} : Files!Files!Read(fd, n)
                       \/ \E data \in Data : Files!Files!Write(fd, data)
    <2>1. ASSUME Files!Close(fd) PROVE SoundFiles(s1', s2', s3', s4') /\ does
      <3>1. SoundFiles(s1', s2', s3', s4') /\ Files!Files!Close(fd)
        BY <1>1, <1>6, <2>1, FilesClose
      <3> QED
        BY <3>1
    <2>2. ASSUME Files!SetAppend(fd) PROVE SoundFiles(s1', s2', s3', s4') /\ does
      <3>1. SoundFiles(s1', s2', s3', s4') /\ Files!Files!SetAppend(fd)
        BY <1>1, <1>6, <2>2, FilesSetAppend
      <3> QED
        BY <3>1
    <2>3. ASSUME NEW arg \in Fds, Files!Dup(fd, arg) PROVE SoundFiles(s1', s2', s3', s4') /\ does
      <3>1. SoundFiles(s1', s2', s3', s4') /\ Files!Files!Dup(fd, arg)
        BY <1>1, <1>6, <2>3, FilesDup
      <3> QED
        BY <3>1
    <2>4. ASSUME NEW off \in Offsets, NEW from \in {"set", "cur", "end"},
                 Files!Seek(fd, off, from)
          PROVE  SoundFiles(s1', s2', s3', s4') /\ does
      <3>1. SoundFiles(s1', s2', s3', s4') /\ Files!Files!Seek(fd, off, from)
        BY <1>1, <1>6, <2>4, FilesSeek
      <3> QED
        BY <3>1
    <2>5. ASSUME NEW n \in Lengths, NEW m \in Lengths, Files!Read(fd, n, m)
          PROVE  SoundFiles(s1', s2', s3', s4') /\ does
      <3>1. SoundFiles(s1', s2', s3', s4') /\ Files!Files!Read(fd, n + m)
        BY <1>1, <1>6, <2>5, FilesRead
      <3> QED
        BY <3>1
    <2>6. ASSUME NEW d \in Data, NEW cut \in 0 .. Len(d), Files!Write(fd, d, cut)
          PROVE  SoundFiles(s1', s2', s3', s4') /\ does
      <3>1. SoundFiles(s1', s2', s3', s4') /\ Files!Files!Write(fd, d)
        BY <1>1, <1>6, <2>6, FilesWrite
      <3> QED
        BY <3>1
    <2>7. SoundFiles(s1', s2', s3', s4') /\ does
      <3> HIDE DEF does
      <3> QED
        BY <1>6, <2>1, <2>2, <2>3, <2>4, <2>5, <2>6
    <2>8. FdsSeen[fd] # SeenClosed
      BY <1>2, <1>6
    <2>9. Files!Files!Next
      <3>1. does
        BY <2>7
      <3> QED
        BY <2>8, <3>1 DEF Files!Files!Next, FdsSeen, SeenClosed
    <2> QED
      BY <2>7, <2>9
  <1>7. SoundFiles(s1', s2', s3', s4') /\ Files!Files!Next
    BY <1>3, <1>4, <1>5, <1>6 DEF Files!Next
  <1>8. Files!Inv'
    BY <1>7, FilesKept
  <1>9. Files!StepIsAbstract
    BY <1>7 DEF Files!StepIsAbstract
  <1> QED
    BY <1>8, <1>9

(* No step, no change.                                                      *)
LEMMA FilesStays ==
  ASSUME Files!Inv, UNCHANGED vars
  PROVE  Files!Inv'
  <1>1. SoundFiles(s1, s2, s3, s4)
    BY FilesSound
  <1>2. s1' = s1 /\ s2' = s2 /\ s3' = s3 /\ s4' = s4
    BY DEF vars
  <1>3. SoundFiles(s1', s2', s3', s4')
    BY <1>1, <1>2
  <1> QED
    BY <1>3, FilesKept

-----------------------------------------------------------------------------
(* All the pages.  The part that runs never changes, and keeps what its own *)
(* component keeps.                                                         *)

(* What every component keeps, of the one that runs.                        *)
HostInv ==
    /\ part = "loop" => Loop!Inv
    /\ part = "score" => Score!Inv
    /\ part = "scene" => Scene!Inv
    /\ part = "view" => View!Inv
    /\ part = "mission" => Mission!Inv
    /\ part = "patrol" => Patrol!Inv
    /\ part = "live" => Live!Inv
    /\ part = "boot" => Boot!Inv
    /\ part = "canvas" => Canvas!Inv
    /\ part = "traffic" => Traffic!Inv
    /\ part = "linda" => Linda!Inv
    /\ part = "boxes" => Explorer!Inv
    /\ part = "shop" => Shop!Inv
    /\ part = "counter" => Counter!Inv
    /\ part = "runtime" => Runtime!Inv
    /\ part = "memory" => Memory!Inv
    /\ part = "ghosts" => Ghosts!Inv
    /\ part = "files" => Files!Inv

(* The component that runs begins in one of its own initial states.         *)
LEMMA HostStarts == Init => HostInv
  <1> SUFFICES ASSUME Init PROVE HostInv
    OBVIOUS
  <1>1. ASSUME part = "loop" PROVE Loop!Inv
    <2>1. Loop!Init
      BY <1>1 DEF Init
    <2> QED
      BY <2>1, LoopStarts
  <1>2. ASSUME part = "score" PROVE Score!Inv
    <2>1. Score!Init
      BY <1>2 DEF Init
    <2> QED
      BY <2>1, ScoreStarts
  <1>3. ASSUME part = "scene" PROVE Scene!Inv
    <2>1. Scene!Init
      BY <1>3 DEF Init
    <2> QED
      BY <2>1, SceneStarts
  <1>4. ASSUME part = "view" PROVE View!Inv
    <2>1. View!Init
      BY <1>4 DEF Init
    <2> QED
      BY <2>1, ViewStarts
  <1>5. ASSUME part = "mission" PROVE Mission!Inv
    <2>1. Mission!Init
      BY <1>5 DEF Init
    <2> QED
      BY <2>1, MissionStarts
  <1>6. ASSUME part = "patrol" PROVE Patrol!Inv
    <2>1. Patrol!Init
      BY <1>6 DEF Init
    <2> QED
      BY <2>1, PatrolStarts
  <1>7. ASSUME part = "live" PROVE Live!Inv
    <2>1. Live!Init
      BY <1>7 DEF Init
    <2> QED
      BY <2>1, LiveStarts
  <1>8. ASSUME part = "boot" PROVE Boot!Inv
    <2>1. Boot!Init
      BY <1>8 DEF Init
    <2> QED
      BY <2>1, BootStarts
  <1>9. ASSUME part = "canvas" PROVE Canvas!Inv
    <2>1. Canvas!Init
      BY <1>9 DEF Init
    <2> QED
      BY <2>1, CanvasStarts
  <1>10. ASSUME part = "traffic" PROVE Traffic!Inv
    <2>1. Traffic!Init
      BY <1>10 DEF Init
    <2> QED
      BY <2>1, TrafficStarts
  <1>11. ASSUME part = "linda" PROVE Linda!Inv
    <2>1. Linda!Init
      BY <1>11 DEF Init
    <2> QED
      BY <2>1, LindaStarts
  <1>12. ASSUME part = "boxes" PROVE Explorer!Inv
    <2>1. Explorer!Init
      BY <1>12 DEF Init
    <2> QED
      BY <2>1, BoxesStarts
  <1>13. ASSUME part = "shop" PROVE Shop!Inv
    <2>1. Shop!Init
      BY <1>13 DEF Init
    <2> QED
      BY <2>1, ShopStarts
  <1>14. ASSUME part = "counter" PROVE Counter!Inv
    <2>1. Counter!Init
      BY <1>14 DEF Init
    <2> QED
      BY <2>1, CounterStarts
  <1>15. ASSUME part = "runtime" PROVE Runtime!Inv
    <2>1. Runtime!Init
      BY <1>15 DEF Init
    <2> QED
      BY <2>1, RuntimeStarts
  <1>16. ASSUME part = "memory" PROVE Memory!Inv
    <2>1. Memory!Init
      BY <1>16 DEF Init
    <2> QED
      BY <2>1, MemoryStarts
  <1>17. ASSUME part = "ghosts" PROVE Ghosts!Inv
    <2>1. Ghosts!Init
      BY <1>17 DEF Init
    <2> QED
      BY <2>1, GhostsStarts
  <1>18. ASSUME part = "files" PROVE Files!Inv
    <2>1. Files!Init
      BY <1>18 DEF Init
    <2> QED
      BY <2>1, FilesStarts
  <1> QED
    BY <1>1, <1>2, <1>3, <1>4, <1>5, <1>6, <1>7, <1>8, <1>9,
       <1>10, <1>11, <1>12, <1>13, <1>14, <1>15, <1>16, <1>17, <1>18 DEF HostInv

(* A step of all the pages is one of the part that runs.                    *)
LEMMA HostRuns ==
  ASSUME Next
  PROVE  /\ part' = part
         /\ part = "loop" => Loop!Next
         /\ part = "score" => Score!Next
         /\ part = "scene" => Scene!Next
         /\ part = "view" => View!Next
         /\ part = "mission" => Mission!Next
         /\ part = "patrol" => Patrol!Next
         /\ part = "live" => Live!Next
         /\ part = "boot" => Boot!Next
         /\ part = "canvas" => Canvas!Next
         /\ part = "traffic" => Traffic!Next
         /\ part = "linda" => Linda!Next
         /\ part = "boxes" => Explorer!Next
         /\ part = "shop" => Shop!Next
         /\ part = "counter" => Counter!Next
         /\ part = "runtime" => Runtime!Next
         /\ part = "memory" => Memory!Next
         /\ part = "ghosts" => Ghosts!Next
         /\ part = "files" => Files!Next
  <1>0. part' = part /\ Run
    BY DEF Next
  <1>1. ASSUME part = "loop" PROVE Loop!Next
    BY <1>0, <1>1 DEF Run
  <1>2. ASSUME part = "score" PROVE Score!Next
    BY <1>0, <1>2 DEF Run
  <1>3. ASSUME part = "scene" PROVE Scene!Next
    BY <1>0, <1>3 DEF Run
  <1>4. ASSUME part = "view" PROVE View!Next
    BY <1>0, <1>4 DEF Run
  <1>5. ASSUME part = "mission" PROVE Mission!Next
    BY <1>0, <1>5 DEF Run
  <1>6. ASSUME part = "patrol" PROVE Patrol!Next
    BY <1>0, <1>6 DEF Run
  <1>7. ASSUME part = "live" PROVE Live!Next
    BY <1>0, <1>7 DEF Run
  <1>8. ASSUME part = "boot" PROVE Boot!Next
    BY <1>0, <1>8 DEF Run
  <1>9. ASSUME part = "canvas" PROVE Canvas!Next
    BY <1>0, <1>9 DEF Run
  <1>10. ASSUME part = "traffic" PROVE Traffic!Next
    BY <1>0, <1>10 DEF Run
  <1>11. ASSUME part = "linda" PROVE Linda!Next
    BY <1>0, <1>11 DEF Run
  <1>12. ASSUME part = "boxes" PROVE Explorer!Next
    BY <1>0, <1>12 DEF Run
  <1>13. ASSUME part = "shop" PROVE Shop!Next
    BY <1>0, <1>13 DEF Run
  <1>14. ASSUME part = "counter" PROVE Counter!Next
    BY <1>0, <1>14 DEF Run
  <1>15. ASSUME part = "runtime" PROVE Runtime!Next
    BY <1>0, <1>15 DEF Run
  <1>16. ASSUME part = "memory" PROVE Memory!Next
    BY <1>0, <1>16 DEF Run
  <1>17. ASSUME part = "ghosts" PROVE Ghosts!Next
    BY <1>0, <1>17 DEF Run
  <1>18. ASSUME part = "files" PROVE Files!Next
    BY <1>0, <1>18 DEF Run
  <1> QED
    BY <1>0, <1>1, <1>2, <1>3, <1>4, <1>5, <1>6, <1>7, <1>8, <1>9,
       <1>10, <1>11, <1>12, <1>13, <1>14, <1>15, <1>16, <1>17, <1>18

(* Which keeps its invariant; and so does no step.                          *)
LEMMA HostKeeps ==
  ASSUME HostInv, [Next]_vars
  PROVE  HostInv'
  <1>0. part' = part
    BY HostRuns DEF vars
  <1>1. ASSUME part = "loop" PROVE Loop!Inv'
    <2>1. Loop!Inv
      BY <1>1 DEF HostInv
    <2>2. CASE Next
      BY <1>1, <2>1, <2>2, HostRuns, LoopKeeps
    <2>3. CASE UNCHANGED vars
      <3>1. /\ UNCHANGED <<s1, s3, s4, s5, s6, s10, s11, s12, s13>>
            /\ s2' \in {"focused", s2} /\ s7' \in BOOLEAN /\ s8' \in {0, s8}
            /\ s9' \in BOOLEAN
        BY <2>1, <2>3 DEF Loop!Inv, Loop!TypeOK, vars
      <3> QED
        BY <2>1, <3>1, LoopStays
    <2> QED
      BY <2>2, <2>3
  <1>2. ASSUME part = "score" PROVE Score!Inv'
    <2>1. Score!Inv
      BY <1>2 DEF HostInv
    <2>2. CASE Next
      BY <1>2, <2>1, <2>2, HostRuns, ScoreKeeps
    <2>3. CASE UNCHANGED vars
      BY <2>1, <2>3, ScoreStays
    <2> QED
      BY <2>2, <2>3
  <1>3. ASSUME part = "scene" PROVE Scene!Inv'
    <2>1. Scene!Inv
      BY <1>3 DEF HostInv
    <2>2. CASE Next
      BY <1>3, <2>1, <2>2, HostRuns, SceneKeeps
    <2>3. CASE UNCHANGED vars
      BY <2>1, <2>3, SceneStays
    <2> QED
      BY <2>2, <2>3
  <1>4. ASSUME part = "view" PROVE View!Inv'
    <2>1. View!Inv
      BY <1>4 DEF HostInv
    <2>2. CASE Next
      BY <1>4, <2>1, <2>2, HostRuns, ViewKeeps
    <2>3. CASE UNCHANGED vars
      BY <2>1, <2>3, ViewStays
    <2> QED
      BY <2>2, <2>3
  <1>5. ASSUME part = "mission" PROVE Mission!Inv'
    <2>1. Mission!Inv
      BY <1>5 DEF HostInv
    <2>2. CASE Next
      BY <1>5, <2>1, <2>2, HostRuns, MissionKeeps
    <2>3. CASE UNCHANGED vars
      BY <2>1, <2>3, MissionStays
    <2> QED
      BY <2>2, <2>3
  <1>6. ASSUME part = "patrol" PROVE Patrol!Inv'
    <2>1. Patrol!Inv
      BY <1>6 DEF HostInv
    <2>2. CASE Next
      BY <1>6, <2>1, <2>2, HostRuns, PatrolKeeps
    <2>3. CASE UNCHANGED vars
      BY <2>1, <2>3, PatrolStays
    <2> QED
      BY <2>2, <2>3
  <1>7. ASSUME part = "live" PROVE Live!Inv'
    <2>1. Live!Inv
      BY <1>7 DEF HostInv
    <2>2. CASE Next
      BY <1>7, <2>1, <2>2, HostRuns, LiveKeeps
    <2>3. CASE UNCHANGED vars
      BY <2>1, <2>3, LiveStays
    <2> QED
      BY <2>2, <2>3
  <1>8. ASSUME part = "boot" PROVE Boot!Inv'
    <2>1. Boot!Inv
      BY <1>8 DEF HostInv
    <2>2. CASE Next
      BY <1>8, <2>1, <2>2, HostRuns, BootKeeps
    <2>3. CASE UNCHANGED vars
      BY <2>1, <2>3, BootStays
    <2> QED
      BY <2>2, <2>3
  <1>9. ASSUME part = "canvas" PROVE Canvas!Inv'
    <2>1. Canvas!Inv
      BY <1>9 DEF HostInv
    <2>2. CASE Next
      BY <1>9, <2>1, <2>2, HostRuns, CanvasKeeps
    <2>3. CASE UNCHANGED vars
      BY <2>1, <2>3, CanvasStays
    <2> QED
      BY <2>2, <2>3
  <1>10. ASSUME part = "traffic" PROVE Traffic!Inv'
    <2>1. Traffic!Inv
      BY <1>10 DEF HostInv
    <2>2. CASE Next
      BY <1>10, <2>1, <2>2, HostRuns, TrafficKeeps
    <2>3. CASE UNCHANGED vars
      BY <2>1, <2>3, TrafficStays
    <2> QED
      BY <2>2, <2>3
  <1>11. ASSUME part = "linda" PROVE Linda!Inv'
    <2>1. Linda!Inv
      BY <1>11 DEF HostInv
    <2>2. CASE Next
      BY <1>11, <2>1, <2>2, HostRuns, LindaKeeps
    <2>3. CASE UNCHANGED vars
      BY <2>1, <2>3, LindaStays
    <2> QED
      BY <2>2, <2>3
  <1>12. ASSUME part = "boxes" PROVE Explorer!Inv'
    <2>1. Explorer!Inv
      BY <1>12 DEF HostInv
    <2>2. CASE Next
      BY <1>12, <2>1, <2>2, HostRuns, BoxesKeeps
    <2>3. CASE UNCHANGED vars
      BY <2>1, <2>3, BoxesStays
    <2> QED
      BY <2>2, <2>3
  <1>13. ASSUME part = "shop" PROVE Shop!Inv'
    <2>1. Shop!Inv
      BY <1>13 DEF HostInv
    <2>2. CASE Next
      BY <1>13, <2>1, <2>2, HostRuns, ShopKeeps
    <2>3. CASE UNCHANGED vars
      BY <2>1, <2>3, ShopStays
    <2> QED
      BY <2>2, <2>3
  <1>14. ASSUME part = "counter" PROVE Counter!Inv'
    <2>1. Counter!Inv
      BY <1>14 DEF HostInv
    <2>2. CASE Next
      BY <1>14, <2>1, <2>2, HostRuns, CounterKeeps
    <2>3. CASE UNCHANGED vars
      BY <2>1, <2>3, CounterStays
    <2> QED
      BY <2>2, <2>3
  <1>15. ASSUME part = "runtime" PROVE Runtime!Inv'
    <2>1. Runtime!Inv
      BY <1>15 DEF HostInv
    <2>2. CASE Next
      BY <1>15, <2>1, <2>2, HostRuns, RuntimeKeeps
    <2>3. CASE UNCHANGED vars
      BY <2>1, <2>3, RuntimeStays
    <2> QED
      BY <2>2, <2>3
  <1>16. ASSUME part = "memory" PROVE Memory!Inv'
    <2>1. Memory!Inv
      BY <1>16 DEF HostInv
    <2>2. CASE Next
      BY <1>16, <2>1, <2>2, HostRuns, MemoryKeeps
    <2>3. CASE UNCHANGED vars
      BY <2>1, <2>3, MemoryStays
    <2> QED
      BY <2>2, <2>3
  <1>17. ASSUME part = "ghosts" PROVE Ghosts!Inv'
    <2>1. Ghosts!Inv
      BY <1>17 DEF HostInv
    <2>2. CASE Next
      BY <1>17, <2>1, <2>2, HostRuns, GhostsKeeps
    <2>3. CASE UNCHANGED vars
      BY <2>1, <2>3, GhostsStays
    <2> QED
      BY <2>2, <2>3
  <1>18. ASSUME part = "files" PROVE Files!Inv'
    <2>1. Files!Inv
      BY <1>18 DEF HostInv
    <2>2. CASE Next
      BY <1>18, <2>1, <2>2, HostRuns, FilesKeeps
    <2>3. CASE UNCHANGED vars
      BY <2>1, <2>3, FilesStays
    <2> QED
      BY <2>2, <2>3
  <1> QED
    BY <1>0, <1>1, <1>2, <1>3, <1>4, <1>5, <1>6, <1>7, <1>8, <1>9,
       <1>10, <1>11, <1>12, <1>13, <1>14, <1>15, <1>16, <1>17, <1>18 DEF HostInv

(* Every component keeps its inductive invariant, whichever of them runs.   *)
THEOREM HostInvariant == Spec => []HostInv
  <1>1. Init => HostInv
    BY HostStarts
  <1>2. HostInv /\ [Next]_vars => HostInv'
    BY HostKeeps
  <1> QED
    BY <1>1, <1>2, PTL DEF Spec

(* No key sticks in Glon Patrol nor in Kaka, whose controls are down only   *)
(* while the player holds or taps them, for every rhythm of frames.         *)
THEOREM KeysFollowInputHolds == Spec => []KeysFollowInput
  <1>1. HostInv => KeysFollowInput
    BY DEF HostInv, KeysFollowInput, Patrol!Inv, Loop!Inv
  <1> QED
    BY <1>1, HostInvariant, PTL

(* A tap counts for one tick and fires once, for every rhythm of frames.    *)
THEOREM InputCountsOnceHolds == Spec => []InputCountsOnce
  <1>1. HostInv => InputCountsOnce
    BY DEF HostInv, InputCountsOnce, Loop!Inv, View!Inv
  <1> QED
    BY <1>1, HostInvariant, PTL

(* The picture and the simulation agree on the size, for every display.     *)
THEOREM ViewIsSharedHolds == Spec => []ViewIsShared
  <1>1. HostInv => ViewIsShared
    BY DEF HostInv, ViewIsShared, View!Inv
  <1> QED
    BY <1>1, HostInvariant, PTL

(* No page registers its handlers twice or shows what it has not loaded,    *)
(* for every set of demos.                                                  *)
THEOREM PagesComeUpHolds == Spec => []PagesComeUp
  <1>1. HostInv => PagesComeUp
    BY DEF HostInv, PagesComeUp, Boot!Inv, Shop!Inv
  <1> QED
    BY <1>1, HostInvariant, PTL

(* A debrief tells what ended the mission, however long its phases are.     *)
THEOREM DebriefTellsTheEndHolds == Spec => []DebriefTellsTheEnd
  <1>1. HostInv => DebriefTellsTheEnd
    BY DEF HostInv, DebriefTellsTheEnd, Mission!Inv
  <1> QED
    BY <1>1, HostInvariant, PTL

(* The status, the timer, the Run buttons and, as far as ControlsAgree goes, *)
(* the button and the selectors of four pages say what goes on behind them,  *)
(* for every number of sessions, models and boxes.                           *)
THEOREM ControlsAgreeHolds == Spec => []ControlsAgree
  <1>1. HostInv => ControlsAgree
    BY DEF HostInv, ControlsAgree, Live!Inv, Traffic!Inv, Linda!Inv, Explorer!Inv
  <1> QED
    BY <1>1, HostInvariant, PTL

(* The packets hold the sound of the microphone, for every frame of samples *)
(* and every rate.                                                          *)
THEOREM AudioIsFaithfulHolds == Spec => []AudioIsFaithful
  <1>1. HostInv => AudioIsFaithful
    BY DEF HostInv, AudioIsFaithful, Live!Inv
  <1> QED
    BY <1>1, HostInvariant, PTL

(* The two counter pages show their counter, for every size of heap and     *)
(* every factor between handle and value.                                   *)
THEOREM CounterIsShownHolds == Spec => []CounterIsShown
  <1>1. HostInv => CounterIsShown
    BY DEF HostInv, CounterIsShown, Runtime!Inv, Counter!Inv
  <1> QED
    BY <1>1, HostInvariant, PTL

(* Memory grows as far as it is asked to, for every request and limit.      *)
THEOREM GrowthSufficesHolds == Spec => []GrowthSuffices
  <1>1. HostInv => GrowthSuffices
    BY DEF HostInv, GrowthSuffices, Memory!Inv
  <1> QED
    BY <1>1, HostInvariant, PTL

(* What the player sees and hears of an event comes once, for every number  *)
(* of pests that the list of the seen can hold.                             *)
THEOREM EventsAreShownOnceHolds == Spec => []EventsAreShownOnce
  <1>1. HostInv => EventsAreShownOnce
    BY DEF HostInv, EventsAreShownOnce, Ghosts!Inv, Scene!Inv
  <1> QED
    BY <1>1, HostInvariant, PTL

(* The variables of every component have the types the code gives them.     *)
THEOREM HostsTypes == Spec => []TypeOK
  <1>1. HostInv => TypeOK
    BY DEF HostInv, TypeOK, Loop!Inv, Score!Inv, Scene!Inv, View!Inv, Mission!Inv, Patrol!Inv, Live!Inv, Boot!Inv, Canvas!Inv, Traffic!Inv, Linda!Inv, Explorer!Inv, Shop!Inv, Counter!Inv, Runtime!Inv, Memory!Inv, Ghosts!Inv, Files!Inv
  <1> QED
    BY <1>1, HostInvariant, PTL

(* The high score is never lowered and the cues of a mission come before    *)
(* what they announce, for every number of tabs and length of a mission.    *)
THEOREM StepsTellTheStateHolds == Spec => StepsTellTheState
  <1>1. ASSUME HostInv, Next
        PROVE  /\ part = "score" => Score!KeepsHighScore
               /\ part = "mission" => Mission!LeavesRested /\ Mission!CueLeads
    <2>1. ASSUME part = "score" PROVE Score!KeepsHighScore
      <3>1. Score!Inv /\ Score!Next
        BY <1>1, <2>1, HostRuns DEF HostInv
      <3> QED
        BY <3>1, ScoreKeeps
    <2>2. ASSUME part = "mission" PROVE Mission!LeavesRested /\ Mission!CueLeads
      <3>1. Mission!Inv /\ Mission!Next
        BY <1>1, <2>2, HostRuns DEF HostInv
      <3> QED
        BY <3>1, MissionKeeps
    <2> QED
      BY <2>1, <2>2
  <1>2. HostInv /\ [Next]_vars
        => [/\ part = "score" => Score!KeepsHighScore
            /\ part = "mission" => Mission!LeavesRested /\ Mission!CueLeads]_vars
    BY <1>1
  <1> QED
    BY <1>2, HostInvariant, PTL DEF Spec, StepsTellTheState

(* Tokens move in order, the traffic never runs late or backwards and an    *)
(* error stays, for every trace, set of frames and number of sessions.      *)
THEOREM StepsAreSteadyHolds == Spec => StepsAreSteady
  <1>1. ASSUME HostInv, Next
        PROVE  /\ part = "canvas" => Canvas!HopIsSequential
               /\ part = "traffic" => Traffic!SteadyStep
               /\ part = "live" => Live!KeepsError
    <2>1. ASSUME part = "canvas" PROVE Canvas!HopIsSequential
      <3>1. Canvas!Inv /\ Canvas!Next
        BY <1>1, <2>1, HostRuns DEF HostInv
      <3> QED
        BY <3>1, CanvasKeeps
    <2>2. ASSUME part = "traffic" PROVE Traffic!SteadyStep
      <3>1. Traffic!Inv /\ Traffic!Next
        BY <1>1, <2>2, HostRuns DEF HostInv
      <3> QED
        BY <3>1, TrafficKeeps
    <2>3. ASSUME part = "live" PROVE Live!KeepsError
      <3>1. Live!Inv /\ Live!Next
        BY <1>1, <2>3, HostRuns DEF HostInv
      <3> QED
        BY <3>1, LiveKeeps
    <2> QED
      BY <2>1, <2>2, <2>3
  <1>2. HostInv /\ [Next]_vars
        => [/\ part = "canvas" => Canvas!HopIsSequential
            /\ part = "traffic" => Traffic!SteadyStep
            /\ part = "live" => Live!KeepsError]_vars
    BY <1>1
  <1> QED
    BY <1>2, HostInvariant, PTL DEF Spec, StepsAreSteady

(* Files are what a program expects of them, for every file, name and       *)
(* number of descriptors: every call does what the abstract one may.        *)
THEOREM FilesImplementAbstract == Spec => ImplementsAbstractFiles
  <1>1. Init => (part = "files" => Files!StartsAbstract)
    <2> SUFFICES ASSUME Init, part = "files" PROVE Files!StartsAbstract
      OBVIOUS
    <2>1. Files!Init
      BY DEF Init
    <2> QED
      BY <2>1, FilesBegin
  <1>2. HostInv => (part = "files" => Files!SlackIsZero)
    BY DEF HostInv, Files!Inv
  <1>3. HostInv /\ [Next]_vars => [part = "files" => Files!StepIsAbstract]_vars
    <2> SUFFICES ASSUME HostInv, Next, part = "files" PROVE Files!StepIsAbstract
      OBVIOUS
    <2>1. Files!Inv /\ Files!Next
      BY HostRuns DEF HostInv
    <2> QED
      BY <2>1, FilesKeeps
  <1> QED
    BY <1>1, <1>2, <1>3, HostInvariant, PTL DEF Spec, ImplementsAbstractFiles
=============================================================================
