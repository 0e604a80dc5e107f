-------------------------------- MODULE Infix --------------------------------
(***************************************************************************)
(* The front end of the LaTeX page, docs/latex/infix.js: a recursive       *)
(* descent parser for infix mathematics and the emitter of Glon's prefix   *)
(* words.  A text is a sequence of tokens, typed one after the other.  The *)
(* parser is compared with a grammar that says where an expression may be  *)
(* split, and the words with what a reader of fixed arities makes of them. *)
(*                                                                         *)
(* Token "2" stands for the integers, "2.5" for the decimals, "x" for the  *)
(* names written directly before what follows, "pi" for the symbols; the   *)
(* function names stand for themselves.                                    *)
(***************************************************************************)
EXTENDS Integers, Sequences, FiniteSets, TLC
LOCAL INSTANCE SequencesExt

CONSTANTS Tokens,     \* what may be typed
          Openings,   \* the texts typing starts from
          MaxTyped,   \* bound on the tokens typed
          MAX_VALUES  \* the values that fit one Glon block

VARIABLES text, typed

\* name -> [Glon word, number of arguments, arguments that may be "_"]
FUNCS == [sqrt     |-> [word |-> "l/sqrt", arity |-> 1, optional |-> {}],
          root     |-> [word |-> "l/root", arity |-> 2, optional |-> {1}],
          sum      |-> [word |-> "l/sum",  arity |-> 3, optional |-> {1, 2}],
          lim_left |-> [word |-> "l/lim",  arity |-> 3, optional |-> {}]]

Functions == DOMAIN FUNCS
Numbers == {"2", "2.5"}
Relations == {"=", "~="}
Additives == {"+", "-"}
Multiplicatives == {"*", "/"}
Operands == Numbers \cup {"x", "pi", "(", "["} \cup Functions

Node(op, args) == [op |-> op, args |-> args]
Leaf(v) == Node(v, <<>>)
Bin(op, a, b) == Node(op, <<a, b>>)

-----------------------------------------------------------------------------
(* The parser: each operator parses from token p and gives the tree and the *)
(* next token, or the token of the error.                                   *)

Tok(s, p) == IF p <= Len(s) THEN s[p] ELSE "end"
Ok(t, p) == [ok |-> TRUE, tree |-> t, p |-> p]
Fail(p) == [ok |-> FALSE, tree |-> Leaf("error"), p |-> p]

RECURSIVE list(_, _), relation(_, _), additiveRest(_, _), multiplicativeRest(_, _),
          unary(_, _), juxtapositionRest(_, _, _), power(_, _), exponent(_, _),
          primary(_, _), arguments(_, _, _, _)

\* Apply Op to the result of a parse that succeeded.
Then(r, Op(_)) == IF r.ok THEN Op(r) ELSE r
Negated(r) == Then(r, LAMBDA a : Ok(Node("neg", <<a.tree>>), a.p))

list(s, p) ==
    Then(relation(s, p), LAMBDA a :
        IF Tok(s, a.p) # "," THEN a
        ELSE Then(list(s, a.p + 1), LAMBDA b : Ok(Bin(",", a.tree, b.tree), b.p)))

additive(s, p) == Then(Then(unary(s, p), LAMBDA a : multiplicativeRest(s, a)),
                       LAMBDA a : additiveRest(s, a))

additiveRest(s, a) ==
    IF Tok(s, a.p) \notin Additives THEN a
    ELSE Then(Then(unary(s, a.p + 1), LAMBDA b : multiplicativeRest(s, b)),
              LAMBDA b : additiveRest(s, Ok(Bin(Tok(s, a.p), a.tree, b.tree), b.p)))

multiplicativeRest(s, a) ==
    IF Tok(s, a.p) \notin Multiplicatives THEN a
    ELSE Then(unary(s, a.p + 1), LAMBDA b :
              multiplicativeRest(s, Ok(Bin(Tok(s, a.p), a.tree, b.tree), b.p)))

relation(s, p) ==
    Then(additive(s, p), LAMBDA a :
        IF Tok(s, a.p) \notin Relations THEN a
        ELSE Then(additive(s, a.p + 1), LAMBDA b :
                  IF Tok(s, b.p) \in Relations THEN Fail(b.p)
                  ELSE Ok(Bin(Tok(s, a.p), a.tree, b.tree), b.p)))

unary(s, p) ==
    CASE Tok(s, p) = "-" -> Negated(unary(s, p + 1))
      [] Tok(s, p) = "+" -> Fail(p)
      [] OTHER -> Then(power(s, p), LAMBDA a :
                       juxtapositionRest(s, a, a.tree = Leaf(Tok(s, p)) /\ Tok(s, p) \in Numbers))

juxtapositionRest(s, a, lastNum) ==
    IF Tok(s, a.p) \notin Operands THEN a
    ELSE IF lastNum /\ Tok(s, a.p) \in Numbers THEN Fail(a.p)
    ELSE Then(power(s, a.p), LAMBDA b :
              juxtapositionRest(s, Ok(Bin("jux", a.tree, b.tree), b.p), FALSE))

\* mutant: the exponent is a primary, so powers group to the left
powerOfPrimary(s, p) ==
    Then(primary(s, p), LAMBDA a :
        IF Tok(s, a.p) # "^" THEN a
        ELSE Then(primary(s, a.p + 1), LAMBDA b : Ok(Bin("^", a.tree, b.tree), b.p)))

power(s, p) ==
    Then(primary(s, p), LAMBDA a :
        IF Tok(s, a.p) # "^" THEN a
        ELSE Then(exponent(s, a.p + 1), LAMBDA b : Ok(Bin("^", a.tree, b.tree), b.p)))

exponent(s, p) ==
    IF Tok(s, p) = "-" THEN Negated(exponent(s, p + 1)) ELSE power(s, p)

\* A bracketed list from token p on; the error is where it was opened.
Enclosed(s, p, close, Wrap(_)) ==
    IF Tok(s, p + 1) = close THEN Fail(p + 1)
    ELSE Then(list(s, p + 1), LAMBDA e :
              IF Tok(s, e.p) = close THEN Ok(Wrap(e.tree), e.p + 1) ELSE Fail(p))

primary(s, p) ==
    LET t == Tok(s, p) IN
    CASE t \in Numbers \cup {"pi"} -> Ok(Leaf(t), p + 1)
      [] t = "x" -> IF Tok(s, p + 1) = "(" THEN Fail(p) ELSE Ok(Leaf(t), p + 1)
      [] t \in Functions -> IF Tok(s, p + 1) # "(" THEN Fail(p + 1)
                            ELSE arguments(s, p, p + 2, <<>>)
      [] t = "(" -> Enclosed(s, p, ")", LAMBDA e : e)
      [] t = "[" -> Enclosed(s, p, "]", LAMBDA e : Node("bracket", <<e>>))
      [] OTHER -> Fail(p)

\* The loop of call: function token f, the argument at p, the arguments read.
arguments(s, f, p, args) ==
    LET F == FUNCS[s[f]]
        After(r, read) ==
            CASE Tok(s, r.p) = "," -> arguments(s, f, r.p + 1, read)
              [] Tok(s, r.p) # ")" -> Fail(r.p)
              [] Len(read) # F.arity -> Fail(f)
              [] OTHER -> Ok(Node(s[f], read), r.p + 1)
    IN CASE args = <<>> /\ Tok(s, p) = ")" -> Fail(f)
         [] Tok(s, p) = "_" /\ Tok(s, p + 1) \in {",", ")"} ->
               IF Len(args) + 1 \in F.optional
               THEN After(Ok(Leaf("none"), p + 1), Append(args, Leaf("none")))
               ELSE Fail(p)
         [] OTHER -> Then(relation(s, p), LAMBDA a : After(a, Append(args, a.tree)))

parse(s) ==
    Then(list(s, 1), LAMBDA a : IF a.p = Len(s) + 1 THEN a ELSE Fail(a.p))

-----------------------------------------------------------------------------
(* The emitter.                                                             *)

BINARY == "," :> "l/seq" @@ "=" :> "l/=" @@ "~=" :> "l/approx" @@ "+" :> "l/+"
          @@ "-" :> "l/-" @@ "*" :> "l/*" @@ "/" :> "l/frac" @@ "^" :> "l/^" @@ "jux" :> "l/."

\* mutant: the limits are sent in the order they are typed
ArgumentsAsTyped(n) ==
    CASE n.op = "root" /\ n.args[1] = Leaf("none") -> <<n.args[2]>>
      [] n.op = "lim_left" -> <<n.args[1], Node("from-left", <<n.args[2]>>), n.args[3]>>
      [] OTHER -> n.args

\* The arguments in the order of the Glon word: the upper limit comes first.
Arguments(n) ==
    LET a == n.args IN
    CASE n.op = "root" /\ a[1] = Leaf("none") -> <<a[2]>>
      [] n.op = "sum" -> <<a[2], a[1], a[3]>>
      [] n.op = "lim_left" -> <<a[1], Node("from-left", <<a[2]>>), a[3]>>
      [] OTHER -> a

Word(n) ==
    CASE n.args = <<>> -> n.op
      [] n.op = "lim_left" -> "l/lim"
      [] n.op = "root" /\ n.args[1] = Leaf("none") -> "l/sqrt"
      [] n.op \in DOMAIN BINARY -> BINARY[n.op]
      [] OTHER -> "l/" \o n.op

RECURSIVE emit(_)
emit(n) == <<Word(n)>> \o FlattenSeq([i \in DOMAIN Arguments(n) |-> emit(Arguments(n)[i])])

\* Names and decimals are string literals, of two values in a block.
Values(words) == Len(words) + Cardinality({i \in 1 .. Len(words) : words[i] \in {"x", "2.5"}})

\* The words of a text, or the token its error points at.
translate(s) ==
    IF s = <<>> THEN [words |-> <<>>, pos |-> 1, ok |-> FALSE]
    ELSE LET r == parse(s)
             words == IF r.ok THEN emit(r.tree) ELSE <<>>
         IN [words |-> words, pos |-> IF r.ok THEN 1 ELSE r.p,
             ok |-> r.ok /\ Values(words) <= MAX_VALUES]

-----------------------------------------------------------------------------
vars == <<text, typed>>

Init == text \in Openings /\ typed = 0

Type == /\ typed < MaxTyped
        /\ typed' = typed + 1
        /\ \E t \in Tokens : text' = Append(text, t)

Next == Type

Spec == Init /\ [][Next]_vars

\* The text is made of known tokens.
TypeOK == /\ text \in Seq(Operands \cup Relations \cup Additives \cup Multiplicatives
                          \cup {",", "^", ")", "]", "_"})
          /\ typed \in 0 .. MaxTyped

-----------------------------------------------------------------------------
(* The grammar: the trees of a whole sequence of tokens, with the table of  *)
(* precedences of the file's header and nothing of the order of parsing.    *)

Before(s, i) == SubSeq(s, 1, i - 1)
From(s, i) == SubSeq(s, i, Len(s))
At(s, ops) == {i \in 2 .. Len(s) - 1 : s[i] \in ops}
Starts(s, t) == Len(s) > 1 /\ s[1] = t
Negs(args) == {Node("neg", <<a>>) : a \in args}

RECURSIVE List(_), Rel(_), Add(_), Mul(_), Un(_), Jux(_), Pow(_), Exp(_), Prim(_), Args(_, _)

Splits(s, ops, L(_), R(_)) ==
    UNION {{Bin(s[i], a, b) : a \in L(Before(s, i)), b \in R(From(s, i + 1))} : i \in At(s, ops)}

List(s) == Rel(s) \cup Splits(s, {","}, Rel, List)
Rel(s) == Add(s) \cup Splits(s, Relations, Add, Add)
Add(s) == Mul(s) \cup Splits(s, Additives, Add, Mul)
Mul(s) == Un(s) \cup Splits(s, Multiplicatives, Mul, Un)
Un(s) == Jux(s) \cup (IF Starts(s, "-") THEN Negs(Un(Tail(s))) ELSE {})
Pow(s) == Prim(s) \cup Splits(s, {"^"}, Prim, Exp)
Exp(s) == Pow(s) \cup (IF Starts(s, "-") THEN Negs(Exp(Tail(s))) ELSE {})

\* Factors side by side, but not two numbers that begin a product, and not a
\* name that would read as a function.
Jux(s) ==
    Pow(s) \cup
    UNION {{Bin("jux", a, b) : a \in Jux(Before(s, i)), b \in Pow(From(s, i))} :
           i \in {j \in 2 .. Len(s) : /\ s[j] \in Operands
                                      /\ ~(j = 2 /\ s[1] \in Numbers /\ s[2] \in Numbers)
                                      /\ ~(s[j - 1] = "x" /\ s[j] = "(")}}

Prim(s) ==
    LET n == Len(s)
        Inside(i) == SubSeq(s, i, n - 1)
    IN CASE n = 0 -> {}
         [] n = 1 -> IF s[1] \in Numbers \cup {"x", "pi"} THEN {Leaf(s[1])} ELSE {}
         [] s[1] = "(" /\ s[n] = ")" -> List(Inside(2))
         [] s[1] = "[" /\ s[n] = "]" -> {Node("bracket", <<a>>) : a \in List(Inside(2))}
         [] s[1] \in Functions /\ s[2] = "(" /\ s[n] = ")" ->
               {Node(s[1], a) : a \in {b \in Args(s[1], Inside(3)) : Len(b) = FUNCS[s[1]].arity}}
         [] OTHER -> {}

\* Arguments of f: the last one, after those before the last comma outside it.
Args(f, s) ==
    LET One(k, t) == IF t = <<"_">> THEN (IF k \in FUNCS[f].optional THEN {Leaf("none")} ELSE {})
                     ELSE Rel(t)
    IN {<<a>> : a \in One(1, s)} \cup
       UNION {UNION {{Append(b, a) : a \in One(Len(b) + 1, From(s, i + 1))} : b \in Args(f, Before(s, i))} :
              i \in At(s, {","})}

-----------------------------------------------------------------------------
(* What the words of docs/latex read: each takes its fixed number of words. *)

Arity(w) == CASE w \in {"l/neg", "l/bracket", "l/sqrt", "l/from-left"} -> 1
              [] w \in {"l/sum", "l/lim"} -> 3
              [] w \in {BINARY[op] : op \in DOMAIN BINARY} \cup {"l/root"} -> 2
              [] OTHER -> 0

\* <<value, rest>> of the words from the left.
RECURSIVE Read(_), ReadMany(_, _)
Read(w) == IF w = <<>> THEN <<Leaf("missing"), <<>>>>
           ELSE LET m == ReadMany(Arity(w[1]), Tail(w)) IN <<Node(w[1], m[1]), m[2]>>
ReadMany(k, w) ==
    IF k = 0 THEN <<<<>>, w>>
    ELSE LET a == Read(w)
             m == ReadMany(k - 1, a[2])
         IN <<<<a[1]>> \o m[1], m[2]>>

\* What a tree of the grammar means in those words.
RECURSIVE Meaning(_)
Meaning(n) ==
    LET M(i) == Meaning(n.args[i])
        None(i) == n.args[i] = Leaf("none")
    IN CASE n.args = <<>> -> n
         [] n.op \in {"neg", "bracket", "sqrt"} -> Node("l/" \o n.op, <<M(1)>>)
         [] n.op = "root" -> IF None(1) THEN Node("l/sqrt", <<M(2)>>) ELSE Bin("l/root", M(1), M(2))
         [] n.op = "sum" -> Node("l/sum", <<M(2), M(1), M(3)>>)
         [] n.op = "lim_left" -> Node("l/lim", <<M(1), Node("l/from-left", <<M(2)>>), M(3)>>)
         [] OTHER -> Bin(BINARY[n.op], M(1), M(2))

\* The parser accepts what the table of precedences of the header allows, with
\* the one tree the table gives it; of any other text it points at a place.
ParsesAsGrammar ==
    text # <<>> =>
        \A r \in {parse(text)} :
            /\ List(text) = IF r.ok THEN {r.tree} ELSE {}
            /\ r.p \in 1 .. Len(text) + 1

\* The words of an accepted text, which have no brackets, are read as one whole
\* expression by words of fixed arity, and as what the text means.
ReadsBack ==
    text # <<>> =>
        \A r \in {parse(text)}, out \in {translate(text)} :
            out.ok => Read(out.words) = <<Meaning(r.tree), <<>>>>
=============================================================================
