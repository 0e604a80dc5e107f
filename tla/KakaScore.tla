------------------------------ MODULE KakaScore ------------------------------
(***************************************************************************)
(* The high score of the game: one number in the browser's local storage,  *)
(* handed to Glon when a page boots and mirrored back from what Glon       *)
(* renders (docs/demos/kaka/kaka-host.js with the score of kaka.glon).     *)
(* Pages may be opened in several tabs and reloaded at any time.           *)
(***************************************************************************)
EXTENDS Integers

CONSTANTS Tabs,     \* the tabs of the browser
          MaxScore  \* bound on the score of a game

VARIABLES stored,     \* what local storage holds
          denied,     \* the tabs whose access to it throws
          booted,     \* the tabs whose page has come up
          lastSaved,  \* as in the source, per tab
          score, hv   \* Glon's score and high score, per tab

vars == <<stored, denied, booted, lastSaved, score, hv>>
Scores == 0 .. MaxScore

TypeOK ==
    /\ stored \in Scores /\ denied \subseteq Tabs /\ booted \subseteq Tabs
    /\ {lastSaved, score, hv} \subseteq [Tabs -> Scores]

\* The pages are loaded but not booted: Glon's high score is seeded with 0.
Init ==
    /\ stored \in Scores /\ denied \in SUBSET Tabs /\ booted = {}
    /\ lastSaved = [t \in Tabs |-> IF t \in denied THEN 0 ELSE stored]
    /\ score = [t \in Tabs |-> 0] /\ hv = [t \in Tabs |-> 0]

readStoredHigh(t) == IF t \in denied THEN 0 ELSE stored

\* The page is loaded again.
Reload(t) ==
    /\ booted' = booted \ {t}
    /\ lastSaved' = [lastSaved EXCEPT ![t] = readStoredHigh(t)]
    /\ score' = [score EXCEPT ![t] = 0]
    /\ hv' = [hv EXCEPT ![t] = 0]
    /\ UNCHANGED <<stored, denied>>

\* persistHighFromHtml, at the end of every render of Glon.
Mirror(t, v) ==
    /\ hv' = [hv EXCEPT ![t] = v]
    /\ lastSaved' = [lastSaved EXCEPT ![t] = v]
    /\ stored' = IF v # lastSaved[t] /\ t \notin denied THEN v ELSE stored

Higher(a, b) == IF a > b THEN a ELSE b

\* mutant: the first render comes before the number is handed over
BootRendersFirst(t) ==
    /\ t \notin booted /\ booted' = booted \cup {t}
    /\ Mirror(t, hv[t])
    /\ UNCHANGED <<denied, score>>

\* The end of boot: on-highscore, and then the first renders.
Boot(t) ==
    /\ t \notin booted /\ booted' = booted \cup {t}
    /\ Mirror(t, Higher(hv[t], readStoredHigh(t)))
    /\ UNCHANGED <<denied, score>>

\* A tick scores, and tally raises the high score before the render.
Play(t) ==
    /\ t \in booted /\ score[t] < MaxScore
    /\ score' = [score EXCEPT ![t] = @ + 1]
    /\ Mirror(t, Higher(hv[t], score[t] + 1))
    /\ UNCHANGED <<denied, booted>>

\* reset, tally and render: the high score outlives the game.
Restart(t) ==
    /\ t \in booted
    /\ score' = [score EXCEPT ![t] = 0]
    /\ Mirror(t, hv[t])
    /\ UNCHANGED <<denied, booted>>

Next == \E t \in Tabs : Reload(t) \/ Boot(t) \/ Play(t) \/ Restart(t)

Spec == Init /\ [][Next]_vars

-----------------------------------------------------------------------------
(* Properties.                                                              *)

\* "Lower junk can never overwrite a better one": the number in storage only
\* changes to a score that is better than any its writer knew, so a single tab
\* never lowers it; and no boot mirrors a stale 0.
KeepsHighScore ==
    stored' # stored =>
        \E t \in booted : stored' = hv'[t] /\ score'[t] = stored' /\ stored' > lastSaved[t]
HighScoreKept == [][KeepsHighScore]_vars

(* What every step keeps: Glon's high score starts at 0, and from the boot on *)
(* it is what the host saved last.                                            *)
Inv == /\ TypeOK
       /\ \A t \in Tabs : hv[t] = IF t \in booted THEN lastSaved[t] ELSE 0
=============================================================================
