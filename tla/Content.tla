------------------------------ MODULE Content ------------------------------
(***************************************************************************)
(* What is computed for the user to see and read: the pictures of the Kaka *)
(* game, the formulas of the LaTeX explorer, the names of the runtime's    *)
(* file system and the text of its terminal, for TLC.  As in Hosts one of  *)
(* them runs at a time, and the registers are its variables.               *)
(***************************************************************************)
EXTENDS Integers, Sequences

VARIABLES part,  \* the component that runs
          s1, s2, s3, s4, s5, s6, s7, s8, s9

vars == <<part, s1, s2, s3, s4, s5, s6, s7, s8, s9>>

\* Stretches of the canyon with each of the five gates, and ways to fly them.
Starts == {130, 304, 504, 704, 904, 1104}
Flights == {<<0, -1, FALSE>>, <<0, -1, TRUE>>, <<1, 0, TRUE>>, <<-1, 1, FALSE>>}

Tokens == {"2", "2.5", "x", "=", ",", "+", "-", "*", "^", "(", ")", "_"}
Openings == {<< >>, <<"2", "-", "x">>, <<"root", "(">>,
             <<"sum", "(", "x", ",", "_", ",">>, <<"lim_left", "(", "x", ",">>,
             <<"[", "x">>}

\* Names that collide in the table.
Hash(n) == CASE n \in {"/", "tmp", "a", "tty"} -> 0
             [] n \in {"b", "dev", "stdin", "home"} -> 1
             [] OTHER -> 2
Paths == {<<"a">>, <<"tmp">>, <<"tmp", "a">>, <<"tmp", "a", "b">>,
          <<"tmp", "..", "a", "b">>}
Moves == {<<<<"tmp">>, <<"a">>>>, <<<<"a">>, <<"tmp", "..", "a", "b">>>>,
          <<<<"tmp", "a">>, <<"tmp", "..", "a", "b">>>>, <<<<"tmp", "a", "b">>, <<"tmp", "a">>>>}
Links == {[abs |-> TRUE, parts |-> <<"tmp", "a">>], [abs |-> FALSE, parts |-> <<"b">>],
          [abs |-> FALSE, parts |-> <<"..", "a">>]}

\* "A", an accent and a line end, a sign of three bytes and a NUL, a pair.
Texts == {<<65>>, <<233, 10>>, <<8364, 0>>, <<55357, 56832>>}

Trench == INSTANCE KakaTrench WITH
    fprog <- s1, x <- s2, y <- s3, boost <- s4, reason <- s5,
    fWallSide <- s6, keys <- s7, ticks <- s8, turns <- s9, Starts <- Starts,
    Controls <- Flights, MaxTicks <- 16, MaxTurns <- 1

Scenery == INSTANCE KakaScenery WITH
    images <- s1, scene <- s2, cam <- s3, W <- s4, signsDue <- s5,
    painted <- s6, Cams <- {0, 1080, 1560, 3420}, Views <- {640, 1600},
    Strides <- {21, 35}, Far <- 3600

Formula == INSTANCE Infix WITH
    text <- s1, typed <- s2, Tokens <- Tokens, Openings <- Openings,
    MaxTyped <- 3, MAX_VALUES <- 6

Tree == INSTANCE DemoTree WITH
    fs <- s1, last <- s2, TABLE <- 4, SYMLOOP_MAX <- 3, HashOf <- Hash,
    MaxNodes <- 21, Paths <- Paths, Links <- Links, Moves <- Moves,
    Dotted <- {}

Terminal == INSTANCE DemoTerminal WITH
    output <- s1, streams <- s2, lines <- s3, input <- s4, printed <- s5,
    typed <- s6, taken <- s7, Texts <- Texts, MaxText <- 4, Fds <- 0 .. 3

-----------------------------------------------------------------------------
\* Registers a component does not use stay at 0.
Off7 == s8 = 0 /\ s9 = 0
Off6 == s7 = 0 /\ Off7
Off2 == s3 = 0 /\ s4 = 0 /\ s5 = 0 /\ s6 = 0 /\ Off6

Still7 == UNCHANGED <<s8, s9>>
Still6 == UNCHANGED s7 /\ Still7
Still2 == UNCHANGED <<s3, s4, s5, s6>> /\ Still6

Init ==
    \/ part = "trench" /\ Trench!Init
    \/ part = "scenery" /\ Scenery!Init /\ Off6
    \/ part = "infix" /\ Formula!Init /\ Off2
    \/ part = "tree" /\ Tree!Init /\ Off2
    \/ part = "terminal" /\ Terminal!Init /\ Off7

Run ==
    \/ part = "trench" /\ Trench!Next
    \/ part = "scenery" /\ Scenery!Next /\ Still6
    \/ part = "infix" /\ Formula!Next /\ Still2
    \/ part = "tree" /\ Tree!Next /\ Still2
    \/ part = "terminal" /\ Terminal!Next /\ Still7

Next == part' = part /\ Run

Spec == Init /\ [][Next]_vars

-----------------------------------------------------------------------------
(* Properties: those of the components, each of its own part.               *)

TypeOK ==
    /\ part = "trench" => Trench!TypeOK
    /\ part = "scenery" => Scenery!TypeOK
    /\ part = "infix" => Formula!TypeOK
    /\ part = "tree" => Tree!TypeOK
    /\ part = "terminal" => Terminal!TypeOK

\* The picture shows the world of the rules.  In the trench nothing is painted
\* twice or out of order, a gate blocks where it is painted, the canyon can be
\* flown, and a tick that scrapes a wall lights that wall; on the patrol the
\* scenery covers the view wherever the camera is, no clump of trees is cut at
\* the border, a sign is behind every sprite that passes it, and the cave is
\* furnished with and without its picture.
PictureShowsTheWorld ==
    /\ [](part = "trench" => /\ Trench!PaintedOnceFarToNear
                             /\ Trench!GatesAreWhatTheySeem
                             /\ Trench!CanyonIsSmooth)
    /\ [](part = "scenery" => /\ Scenery!LayersCoverView
                              /\ Scenery!ClumpsAreWhole
                              /\ Scenery!SignsBehindSprites
                              /\ Scenery!CaveIsFurnished)
    /\ [][part = "trench" => Trench!ShowsScrape]_vars

\* A formula is accepted exactly when the grammar derives it, as the tree that
\* the grammar gives it, and what the explorer emits for it reads back as it.
FormulasAreRead ==
    part = "infix" => Formula!ParsesAsGrammar /\ Formula!ReadsBack

\* The tables of the file system agree with its tree, and every path leads
\* where the tree says.
NamesLeadToNodes ==
    part = "tree" => Tree!NamesAgree /\ Tree!PathsResolve /\ Tree!MadeIsFound /\ Tree!NothingIsLost

\* Text written to a stream comes out line by line, and what the user types is
\* what a program reads.
TextGetsThrough ==
    part = "terminal" => Terminal!LinesAreWhatWasPrinted /\ Terminal!ReadsWhatWasTyped
=============================================================================
