----------------------------- MODULE KakaGhosts -----------------------------
(***************************************************************************)
(* The ghosts of the game in docs/demos/kaka/kaka-host.js.  Glon emits a   *)
(* death event in every render while a dead pest still holds its tuple;    *)
(* the host turns the first one of each pest into a ghost, by its id.      *)
(* Glon's side is the tuple space of kaka.glon and kaka-wave.glon: ids are *)
(* counted from 0 in every game, and dead pests are freed by ticks.        *)
(***************************************************************************)
EXTENDS Integers, FiniteSets, Sequences

CONSTANTS GHOST_CAP,   \* as in the source, 32
          GHOST_SEEN,  \* as in the source, 192: more than the pests at one time
          Slots,       \* bound on the pests, dead or alive, at one time
          MaxId        \* bound on the ids of a game

VARIABLES idc,        \* Glon's id counter
          alive,      \* the ids of live pests
          corpses,    \* dead pests: id -> ticks left
          ghosts,     \* the ids of the ghosts on screen, oldest first
          ghostSeen,  \* as in the source
          died,       \* history: the pests killed in this game
          risen,      \* history: those of this game that have had a ghost
          twice       \* history: has one had two?

glon == <<idc, alive, corpses>>
vars == <<glon, ghosts, ghostSeen, died, risen, twice>>

Ids == 1 .. MaxId
Members(s) == {s[i] : i \in DOMAIN s}

TypeOK ==
    /\ idc \in 0 .. MaxId /\ alive \subseteq Ids
    /\ DOMAIN corpses \subseteq Ids /\ \A i \in DOMAIN corpses : corpses[i] \in 1 .. 2
    /\ ghosts \in Seq(Ids) /\ Len(ghosts) <= GHOST_CAP
    /\ ghostSeen \in Seq(Ids) /\ Len(ghostSeen) <= GHOST_SEEN
    /\ died \subseteq Ids /\ risen \subseteq Ids /\ twice \in BOOLEAN

Init ==
    /\ idc = 0 /\ alive = {} /\ corpses = << >>
    /\ ghosts = << >> /\ ghostSeen = << >>
    /\ died = {} /\ risen = {} /\ twice = FALSE

-----------------------------------------------------------------------------
\* mutant: nothing is dropped
NewestAll(s, n) == s

\* A full list loses its oldest entry.
Newest(s, n) == IF Len(s) > n THEN Tail(s) ELSE s

Rise(h, id) == [ghosts |-> Newest(Append(h.ghosts, id), GHOST_CAP),
                seen |-> Newest(Append(h.seen, id), GHOST_SEEN),
                risen |-> h.risen \cup {id}, twice |-> h.twice \/ id \in h.risen]

\* mutant: a ghost for every death event
addGhostAlways(h, id) == Rise(h, id)

addGhost(h, id) == IF id \in Members(h.seen) THEN h ELSE Rise(h, id)

\* The death events of a render come in the order of the tuples, which is any;
\* each is applied to what the ones before have left of h.
Orders(dead) ==
    LET D == 1 .. Cardinality(dead)
    IN  {order \in [D -> dead] : \A i, j \in D : order[i] = order[j] => i = j}

After(h, order, n) ==
    LET after[k \in 0 .. n] == IF k = 0 THEN h ELSE addGhost(after[k - 1], order[k])
    IN  after[n]

Render(h, dead) ==
    \E order \in Orders(dead) :
        LET after == After(h, order, Cardinality(dead))
        IN  /\ ghosts' = after.ghosts /\ ghostSeen' = after.seen
            /\ risen' = after.risen /\ twice' = after.twice

Host == [ghosts |-> ghosts, seen |-> ghostSeen, risen |-> risen, twice |-> twice]

-----------------------------------------------------------------------------
\* ts-claim: a tuple for a pest, or for something else.
Claim(pest) ==
    /\ idc < MaxId /\ idc' = idc + 1
    /\ pest => Cardinality(alive \cup DOMAIN corpses) < Slots
    /\ alive' = IF pest THEN alive \cup {idc + 1} ELSE alive
    /\ UNCHANGED <<corpses, ghosts, ghostSeen, died, risen, twice>>

\* kaka-tick: corpses run out, the pests of K are killed, and Glon renders.
\* kill-pest gives a corpse two ticks, of which this one may be the first.
Tick(K, first) ==
    LET left == [i \in {j \in DOMAIN corpses : corpses[j] > 1} \cup K |->
                   IF i \in K THEN first ELSE corpses[i] - 1]
    IN  /\ corpses' = left
        /\ alive' = alive \ K /\ died' = died \cup K
        /\ Render(Host, DOMAIN left)
        /\ UNCHANGED idc

\* Any other event that renders: a key, a resize, a loss of focus.
Event == Render(Host, DOMAIN corpses) /\ UNCHANGED <<glon, died>>

\* drawGhosts: a ghost at the end of its time leaves the list.
Expire(k) ==
    /\ ghosts' = SubSeq(ghosts, 1, k - 1) \o SubSeq(ghosts, k + 1, Len(ghosts))
    /\ UNCHANGED <<glon, ghostSeen, died, risen, twice>>

\* clearGhosts(), then resetInput(), whose event makes Glon render the old
\* game once more, then kaka-restart, after which there is no corpse.
Restart ==
    /\ \E order \in Orders(DOMAIN corpses) :
         LET cleared == [ghosts |-> << >>, seen |-> << >>, risen |-> {}, twice |-> twice]
             after == After(cleared, order, Cardinality(DOMAIN corpses))
         IN ghosts' = after.ghosts /\ ghostSeen' = after.seen
    /\ idc' = 0 /\ alive' = {} /\ corpses' = << >>
    /\ died' = {} /\ risen' = {} /\ UNCHANGED twice

Next ==
    \/ \E pest \in BOOLEAN : Claim(pest)
    \/ \E K \in SUBSET alive, first \in {1, 2} : Tick(K, first)
    \/ Event
    \/ \E k \in 1 .. Len(ghosts) : Expire(k)
    \/ Restart

Spec == Init /\ [][Next]_vars

-----------------------------------------------------------------------------
(* Properties.                                                              *)

\* However many renders show a corpse, and whatever ghosts have come and gone
\* since, a pest gets at most one ghost in a game.
RisesOnce == ~twice

\* "The victim always becomes the same rising ghost": every pest killed in this
\* game has had its ghost.  Refuted: a restart begins the ids again after it has
\* shown the corpses of the game before (README, Limits of the code).
EveryVictimRises == died \subseteq risen

\* The ids that were put in a list with or after an entry j of it.
Since(seen, j) ==
    {seen[k] : k \in {k \in DOMAIN seen : \E i \in DOMAIN seen : i <= k /\ seen[i] = j}}

\* What every step keeps: a corpse that has had its ghost is in the list, and
\* what came after it were pests of the same time, which are few enough that it
\* is not dropped while it can still be shown.
Inv == /\ TypeOK /\ RisesOnce
       /\ \A a, b \in DOMAIN ghostSeen : ghostSeen[a] = ghostSeen[b] => a = b
       /\ alive \cup DOMAIN corpses \cup risen \subseteq 1 .. idc
       /\ alive \cap (DOMAIN corpses \cup risen) = {}
       /\ Cardinality(alive \cup DOMAIN corpses) <= Slots
       /\ \A j \in DOMAIN corpses \cap risen :
             /\ j \in Members(ghostSeen)
             /\ Cardinality(DOMAIN corpses \cup Since(ghostSeen, j)) <= Slots
             /\ corpses[j] = 2 => Since(ghostSeen, j) \subseteq DOMAIN corpses
=============================================================================
