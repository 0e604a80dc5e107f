----------------------------- MODULE CanvasTrace -----------------------------
(***************************************************************************)
(* The animated picture of the launcher (docs/shop/host.js): the visual    *)
(* script Glon emits is a trace of moves, which playCanvasScript groups    *)
(* into the path of each token, starts one after another and plays on the  *)
(* browser's animation frames.                                             *)
(***************************************************************************)
EXTENDS Integers, Sequences, FiniteSets

CONSTANTS Ids,     \* the tokens (the D commands of the script)
          Traces,  \* the sequences of moves to play, each move its token's id
          Steps    \* milliseconds from one frame to the next

STEP == 130
DUR == 430

VARIABLES moves,    \* the M commands, in order
          elapsed,  \* time since the first frame, -1 before it
          at,       \* what is drawn of each token: <<hop, time within it>>
          moving    \* is another frame requested?

vars == <<moves, elapsed, at, moving>>

path(id) == {i \in DOMAIN moves : moves[i] = id}
claimStep(id) == CHOOSE i \in path(id) : \A k \in path(id) : i <= k
hops(id) == Cardinality(path(id))
Horizon == (STEP + DUR) * Len(moves)

TypeOK ==
    /\ moves \in Traces /\ moving \in BOOLEAN
    /\ elapsed \in -1 .. Horizon
    /\ at \in [Ids -> (0 .. Len(moves)) \X (0 .. DUR - 1)]

\* parseCanvasScript, and the first request of a frame.  Hop 0 is the place
\* of the D command.
Init ==
    /\ moves \in Traces
    /\ elapsed = -1 /\ moving = TRUE
    /\ at = [id \in Ids |-> <<0, 0>>]

\* mutant: the token claimed last starts first
LocalFromTheLast(id, t) == t - (Len(moves) - claimStep(id)) * STEP

Local(id, t) == t - (claimStep(id) - 1) * STEP

Waiting(id, t) == Local(id, t) < 0

\* mutant: the end of a path is missed
ArrivedNever(id, t) == Local(id, t) \div DUR > 8

Arrived(id, t) == Local(id, t) \div DUR >= hops(id)

Travels(id, t) == path(id) # {} /\ ~Waiting(id, t) /\ ~Arrived(id, t)

Place(id, t) == <<1 + Local(id, t) \div DUR, Local(id, t) % DUR>>

\* One call of frame: a token that travels is moved, every other one is left
\* where it was drawn last.
Frame(dt) ==
    /\ moving
    /\ LET t == IF elapsed = -1 THEN 0 ELSE elapsed + dt IN
        /\ elapsed' = IF t > Horizon THEN Horizon ELSE t
        /\ at' = [id \in Ids |->
                    IF Travels(id, t) THEN Place(id, t) ELSE at[id]]
        /\ moving' = \E id \in Ids : path(id) # {} /\ ~Arrived(id, t)
    /\ UNCHANGED moves

Next == \E dt \in Steps : Frame(dt)

Spec == Init /\ [][Next]_vars /\ WF_vars(Next)

-----------------------------------------------------------------------------
(* Properties.                                                              *)

Before(p, q) == p[1] < q[1] \/ (p[1] = q[1] /\ p[2] <= q[2])

\* "every Jaffa's hops stay sequential": no frame takes a token back, however
\* late it comes, and none moves before the tokens claimed ahead of it,
\* unless those had arrived by the time of the frame.
HopIsSequential ==
    \A id \in Ids :
       /\ Before(at[id], at'[id])
       /\ at'[id] # at[id] =>
            \A other \in Ids :
               (path(other) # {} /\ claimStep(other) < claimStep(id)) =>
                   \/ at'[other] # <<0, 0>>
                   \/ Arrived(other, elapsed')
HopsStaySequential == [][HopIsSequential]_vars

\* The loop of frames ends.
AtRest == ~moving
AnimationEnds == <>[]AtRest

(* What every step keeps: a token is where it was placed at some time of its  *)
(* travel, or has not begun it.                                               *)
Inv == /\ TypeOK
       /\ \A id \in Ids : at[id] = <<0, 0>> \/ \E t \in 0 .. elapsed : Travels(id, t) /\ at[id] = Place(id, t)
=============================================================================
