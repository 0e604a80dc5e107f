------------------------------ MODULE RunBoxes ------------------------------
(***************************************************************************)
(* The editable examples of the primer and of the LaTeX page               *)
(* (docs/shop/primer-host.js, docs/latex/latex-host.js).  Every run has a  *)
(* fresh WebAssembly instance, so runs share nothing but the page: the     *)
(* button of their box, its output, and on the LaTeX page the counter of   *)
(* running boxes and the sequence that draws every figure once.            *)
(***************************************************************************)
EXTENDS Integers, Sequences, FiniteSets

CONSTANTS Boxes,  \* the boxes of a page, 1 .. n; on the LaTeX page the last
                  \* one takes infix text
          Texts   \* what a box may hold: "default", "edited" and "invalid",
                  \* which only the translation from infix refuses

VARIABLES page,     \* "primer" or "latex"
          ready,    \* "loading", "running", "ready" or "failed"
          text,     \* the text of each box
          out,      \* its output: "", "running", "error", or the text it is of
          disabled, \* is its Run button disabled?
          runs,     \* the programs in flight: their texts, per box
          pending,  \* the counter shown as data-busy
          seq,      \* boxes the opening sequence has started
          awaited   \* the box whose run the sequence waits for, or 0

vars == <<page, ready, text, out, disabled, runs, pending, seq, awaited>>

Last == CHOOSE b \in Boxes : \A c \in Boxes : c <= b
IsInfix(b) == page = "latex" /\ b = Last
Outputs == {"", "running", "error"} \cup Texts

TypeOK ==
    /\ page \in {"primer", "latex"}
    /\ ready \in {"loading", "running", "ready", "failed"}
    /\ text \in [Boxes -> Texts] /\ out \in [Boxes -> Outputs]
    /\ disabled \in [Boxes -> BOOLEAN]
    /\ runs \in [Boxes -> Seq(Texts)]
    /\ pending \in Int /\ seq \in 0 .. Last /\ awaited \in Boxes \cup {0}

\* The page before its module and libraries are there: no box is wired.
Init ==
    /\ page \in {"primer", "latex"}
    /\ ready = "loading"
    /\ text = [b \in Boxes |-> "default"]
    /\ out = [b \in Boxes |-> ""]
    /\ disabled = [b \in Boxes |-> TRUE]
    /\ runs = [b \in Boxes |-> <<>>]
    /\ pending = 0 /\ seq = 0 /\ awaited = 0

\* wire enables every box of the LaTeX page, whose figures are then drawn.
Wire ==
    /\ page = "latex" /\ ready = "loading"
    /\ disabled' = [b \in Boxes |-> FALSE]
    /\ ready' = "running"
    /\ UNCHANGED <<page, text, out, runs, pending, seq, awaited>>

\* The primer is ready as soon as its boxes are.
WirePrimer ==
    /\ page = "primer" /\ ready = "loading"
    /\ disabled' = [b \in Boxes |-> FALSE]
    /\ ready' = "ready"
    /\ UNCHANGED <<page, text, out, runs, pending, seq, awaited>>

\* The module, a library or KaTeX is missing, or the module is too old.
LoadFails ==
    /\ ready = "loading"
    /\ ready' = "failed"
    /\ UNCHANGED <<page, text, out, disabled, runs, pending, seq, awaited>>

busy(delta) == pending' = IF page = "latex" THEN pending + delta ELSE pending

\* mutant: the disabled button is not tested
RefusedNever(b) == FALSE

\* go() on box b with text t: refused while the button is disabled, stopped
\* by the translation of infix text, or the start of one run.
Refused(b) == disabled[b]

Begin(b, t) ==
    \/ Refused(b) /\ UNCHANGED <<out, disabled, runs, pending>>
    \/ /\ ~Refused(b) /\ IsInfix(b) /\ t = "invalid"
       /\ out' = [out EXCEPT ![b] = ""]
       /\ UNCHANGED <<disabled, runs, pending>>
    \/ /\ ~Refused(b) /\ ~(IsInfix(b) /\ t = "invalid")
       /\ disabled' = [disabled EXCEPT ![b] = TRUE]
       /\ out' = [out EXCEPT ![b] = "running"]
       /\ runs' = [runs EXCEPT ![b] = Append(@, t)]
       /\ busy(1)

Wired == ready \in {"running", "ready"}

\* Run, or Ctrl+Enter in the text, which is not disabled with the button.
Go(b) ==
    /\ Wired /\ Len(runs[b]) < 2
    /\ Begin(b, text[b])
    /\ UNCHANGED <<page, ready, text, seq, awaited>>

\* Reset runs the default text on the LaTeX page, and clears the output on
\* the primer.
Reset(b) ==
    /\ Wired /\ Len(runs[b]) < 2
    /\ text' = [text EXCEPT ![b] = "default"]
    /\ IF page = "latex" THEN Begin(b, "default")
       ELSE out' = [out EXCEPT ![b] = ""] /\ UNCHANGED <<disabled, runs, pending>>
    /\ UNCHANGED <<page, ready, seq, awaited>>

Edit(b, t) ==
    /\ text' = [text EXCEPT ![b] = t]
    /\ UNCHANGED <<page, ready, out, disabled, runs, pending, seq, awaited>>

\* A chip of the infix box: its text, and go.
Chip(t) ==
    /\ Wired /\ page = "latex" /\ Len(runs[Last]) < 2
    /\ text' = [text EXCEPT ![Last] = t]
    /\ Begin(Last, t)
    /\ UNCHANGED <<page, ready, seq, awaited>>

\* runProgram: what a program in a fresh instance comes to, its own output or
\* the error of a trap, of an error code or of a missing canvas.
Result(b, result) == runs[b] # <<>> /\ result \in {Head(runs[b]), "error"}

\* A program ends, with a result or with an error of the host: the output is
\* shown, then the button comes back.
Finish(b, result) ==
    /\ Result(b, result)
    /\ out' = [out EXCEPT ![b] = result]
    /\ runs' = [runs EXCEPT ![b] = Tail(@)]
    /\ disabled' = [disabled EXCEPT ![b] = FALSE]
    /\ busy(-1)
    /\ awaited' = IF awaited = b THEN 0 ELSE awaited
    /\ UNCHANGED <<page, ready, text, seq>>

\* mutant: a sequence that counts on the promise of every box
SequenceWaitsForReader ==
    /\ page = "latex" /\ ready = "running" /\ awaited = 0 /\ pending = 0
    /\ seq < Last /\ seq' = seq + 1
    /\ Begin(seq + 1, text[seq + 1])
    /\ awaited' = seq + 1
    /\ UNCHANGED <<page, text, ready>>

\* runs.reduce: the next box once the promise of the last is resolved, which
\* it is at once for a box that go() refused or whose text was invalid.
Sequence ==
    /\ page = "latex" /\ ready = "running" /\ awaited = 0
    /\ IF seq = Last
       THEN ready' = "ready" /\ UNCHANGED <<out, disabled, runs, pending, seq, awaited>>
       ELSE /\ seq' = seq + 1
            /\ Begin(seq + 1, text[seq + 1])
            /\ awaited' = IF runs'[seq + 1] # runs[seq + 1] THEN seq + 1 ELSE 0
            /\ UNCHANGED ready
    /\ UNCHANGED <<page, text>>

Next ==
    \/ Wire \/ WirePrimer \/ LoadFails \/ Sequence
    \/ \E b \in Boxes :
         \/ Go(b) \/ Reset(b)
         \/ \E t \in Texts : Edit(b, t)
         \/ \E r \in Texts \cup {"error"} : Finish(b, r)
    \/ \E t \in Texts : Chip(t)

\* The browser runs its promises, and the programs are assumed to end (one that
\* does not would hang the tab), so a page does not stay where only they can
\* take it on.
Progress == Wire \/ WirePrimer \/ LoadFails \/ Sequence
Ends(b) == \E r \in Texts \cup {"error"} : Finish(b, r)

Spec == /\ Init /\ [][Next]_vars
        /\ WF_vars(Progress)
        /\ \A b \in Boxes : WF_vars(Ends(b))

-----------------------------------------------------------------------------
(* Properties.                                                              *)

\* A box has one program in flight exactly while its button is disabled, and
\* data-busy counts them: no reset, chip or key starts a second one whose
\* output would land in the same box.
BusyCountsRuns ==
    Wired => /\ \A b \in Boxes : Len(runs[b]) = (IF disabled[b] THEN 1 ELSE 0)
             /\ page = "latex" => pending = Cardinality({b \in Boxes : disabled[b]})

\* The page opens: the sequence of figures comes to its end whatever the reader
\* does with the boxes meanwhile.
Opened == ready \in {"ready", "failed"}
PageOpens == <>Opened

\* What every step keeps: nothing runs before the boxes are wired.
Inv == /\ TypeOK /\ BusyCountsRuns
       /\ ~Wired => pending = 0 /\ \A b \in Boxes : runs[b] = <<>>
=============================================================================
