---------------------------- MODULE DemoTerminal ----------------------------
(***************************************************************************)
(* The terminals of web/demo.js: what the program writes to stdout and     *)
(* stderr and how it gets to Module.print by lines, what it reads from     *)
(* stdin and how that is prompted for.  Bytes that come from linear memory *)
(* are signed (HEAP8); strings are sequences of UTF-16 code units.         *)
(***************************************************************************)
EXTENDS Integers, Sequences
LOCAL INSTANCE SequencesExt

CONSTANTS Texts,   \* what is printed or typed: sequences of code units
          MaxText, \* bound on the text printed and typed
          Fds      \* descriptors, the standard ones and room for copies

VARIABLES output,  \* the unfinished line of each terminal, bytes
          streams, \* descriptor |-> terminal, or "none"
          lines,   \* lines handed to out and err: [tty, text, ended]
          input,   \* FS_stdin_getChar_buffer, bytes
          printed, \* history: code units written to each terminal
          typed,   \* history: code units of the answers to prompts
          taken    \* history: bytes the program has read

vars == <<output, streams, lines, input, printed, typed, taken>>

Ttys == {"tty", "tty1"}
NEWLINE == 10

\* mutant: memory is read as unsigned bytes
SignedNot(b) == b

\* A byte as HEAP8 has it.
Signed(b) == IF b < 128 THEN b ELSE b - 256

IsSurrogate(u) == 55296 <= u /\ u <= 57343

-----------------------------------------------------------------------------
(* Text and bytes.                                                          *)

\* lengthBytesUTF8: the bytes of the code unit at i, and how many units it and
\* what belongs to it are.
UnitBytes(u) == CASE u <= 127 -> 1 [] 127 < u /\ u <= 2047 -> 2
                  [] IsSurrogate(u) -> 4 [] OTHER -> 3
Step(u) == IF IsSurrogate(u) THEN 2 ELSE 1

lengthBytesUTF8(str) ==
    LET len[i \in 1 .. Len(str) + 2] ==
          IF i > Len(str) THEN 0 ELSE UnitBytes(str[i]) + len[i + Step(str[i])]
    IN  len[1]

\* The code point at i: a surrogate takes the unit after it, if there is one.
CodePoint(str, i) ==
    IF IsSurrogate(str[i])
    THEN 65536 + ((str[i] % 1024) * 1024) + (IF i < Len(str) THEN str[i + 1] % 1024 ELSE 0)
    ELSE str[i]

\* Six bits of a character, from the right, as a byte of its encoding.
More(u, n) == 128 + ((u \div n) % 64)

\* mutant: the continuation bytes of a character in the wrong order
EncodedSwapped(u) ==
    CASE u <= 127 -> <<u>>
      [] 127 < u /\ u <= 2047 -> <<192 + (u \div 64), More(u, 1)>>
      [] 2047 < u /\ u <= 65535 -> <<224 + (u \div 4096), More(u, 1), More(u, 64)>>
      [] OTHER -> <<240 + (u \div 262144), More(u, 4096), More(u, 64), More(u, 1)>>

Encoded(u) ==
    CASE u <= 127 -> <<u>>
      [] 127 < u /\ u <= 2047 -> <<192 + (u \div 64), More(u, 1)>>
      [] 2047 < u /\ u <= 65535 -> <<224 + (u \div 4096), More(u, 64), More(u, 1)>>
      [] OTHER -> <<240 + (u \div 262144), More(u, 4096), More(u, 64), More(u, 1)>>

\* stringToUTF8Array: characters for as long as they fit, with room for the
\* terminating zero.
RECURSIVE Fill(_, _, _)
Fill(str, i, room) ==
    IF i > Len(str) \/ Len(Encoded(CodePoint(str, i))) > room THEN <<>>
    ELSE Encoded(CodePoint(str, i))
         \o Fill(str, i + Step(str[i]), room - Len(Encoded(CodePoint(str, i))))

stringToUTF8Array(str, maxBytes) == Fill(str, 1, maxBytes - 1)

\* intArrayFromString without the zero: the array is made as long as needed.
intArrayFromString(str) == stringToUTF8Array(str, lengthBytesUTF8(str) + 1)

\* UTF8ArrayToString: up to a zero or the end; what is missing of a character
\* at the end of the array counts as zero bits.
UTF8ArrayToString(array) ==
    LET byte(i) == IF i \in DOMAIN array THEN array[i] % 256 ELSE 0
        more(i) == byte(i) % 64
        zeros == {i \in DOMAIN array : array[i] = 0}
        end == IF zeros = {} THEN Len(array) ELSE (CHOOSE z \in zeros : \A y \in zeros : z <= y) - 1
        Width(b) == CASE b < 128 -> 1 [] b \div 32 = 6 -> 2 [] b \div 16 = 14 -> 3 [] OTHER -> 4
        point(i, w) == CASE w = 1 -> byte(i)
                         [] w = 2 -> (byte(i) % 32) * 64 + more(i + 1)
                         [] w = 3 -> (byte(i) % 16) * 4096 + more(i + 1) * 64 + more(i + 2)
                         [] w = 4 -> (byte(i) % 8) * 262144 + more(i + 1) * 4096
                                     + more(i + 2) * 64 + more(i + 3)
        Units(u) == IF u < 65536 THEN <<u>>
                    ELSE <<55296 + ((u - 65536) \div 1024), 56320 + ((u - 65536) % 1024)>>
        str[i \in 1 .. Len(array) + 4] ==
          IF i > end THEN <<>>
          ELSE Units(point(i, Width(byte(i)))) \o str[i + Width(byte(i))]
    IN  str[1]

-----------------------------------------------------------------------------
TypeOK ==
    /\ \A t \in Ttys : \A i \in DOMAIN output[t] : output[t][i] \in -128 .. 127
    /\ streams \in [Fds -> Ttys \cup {"none"}]
    /\ \A i \in DOMAIN input : input[i] \in 0 .. 255

\* createStandardStreams: stdin and stdout are links to one terminal, stderr to
\* another.
Init ==
    /\ output = [t \in Ttys |-> <<>>]
    /\ streams = [fd \in Fds |-> CASE fd \in {0, 1} -> "tty" [] fd = 2 -> "tty1" [] OTHER -> "none"]
    /\ lines = <<>> /\ input = <<>>
    /\ printed = [t \in Ttys |-> <<>>] /\ typed = <<>> /\ taken = <<>>

Line(t, bytes, ended) == [tty |-> t, text |-> UTF8ArrayToString(bytes), ended |-> ended]

\* mutant: a line keeps what the last one left
put_charKeeping(s, t, b) ==
    CASE b = NEWLINE -> [s EXCEPT !.lines = Append(@, Line(t, s.output, TRUE))]
      [] b # NEWLINE /\ b # 0 -> [s EXCEPT !.output = Append(@, b)]
      [] b = 0 -> s

\* put_char of both terminals: a newline ends the line, a zero is left out.
put_char(s, t, b) ==
    CASE b = NEWLINE -> [lines |-> Append(s.lines, Line(t, s.output, TRUE)), output |-> <<>>]
      [] b # NEWLINE /\ b # 0 -> [s EXCEPT !.output = Append(@, b)]
      [] b = 0 -> s

Room(text) ==
    Len(printed["tty"]) + Len(printed["tty1"]) + Len(typed) + Len(text) <= MaxText

\* UTF-8 by its table, for the characters of Texts; a pair of surrogates is one
\* character of four bytes.
Utf8(u) ==
    CASE u < 128 -> <<u>> [] u = 233 -> <<195, 169>> [] u = 8364 -> <<226, 130, 172>>
      [] u = 55357 -> <<240, 159, 152>> [] u = 56832 -> <<128>>

BytesOf(text) == FlattenSeq([i \in DOMAIN text |-> Utf8(text[i])])

\* fd_write of the bytes of a text to stdout, stderr or a copy of them.  (Only
\* stdin is not open for writing.)
Write(fd, text) ==
    /\ fd # 0 /\ streams[fd] # "none"
    /\ Room(text)
    /\ LET t == streams[fd]
       IN  \E s \in {FoldLeft(LAMBDA a, b : put_char(a, t, b),
                              [lines |-> lines, output |-> output[t]],
                              [i \in DOMAIN BytesOf(text) |-> Signed(BytesOf(text)[i])])} :
             /\ output' = [output EXCEPT ![t] = s.output] /\ lines' = s.lines
             /\ printed' = [printed EXCEPT ![t] = @ \o text]
    /\ UNCHANGED <<streams, input, typed, taken>>

\* Closing any stream of a terminal flushes its line.
Close(fd) ==
    /\ streams[fd] # "none"
    /\ LET t == streams[fd]
       IN  /\ lines' = IF output[t] = <<>> THEN lines ELSE Append(lines, Line(t, output[t], FALSE))
           /\ output' = [output EXCEPT ![t] = <<>>]
    /\ streams' = [streams EXCEPT ![fd] = "none"]
    /\ UNCHANGED <<input, printed, typed, taken>>

Dup(fd) ==
    /\ fd # 0 /\ streams[fd] # "none"
    /\ \E new \in Fds : /\ new > 2 /\ streams[new] = "none"
                        /\ \A e \in Fds : e > 2 /\ streams[e] = "none" => new <= e
                        /\ streams' = [streams EXCEPT ![new] = streams[fd]]
    /\ UNCHANGED <<output, lines, input, printed, typed, taken>>

\* FS_stdin_getChar on a page: an empty buffer asks, and an answer, which is
\* never empty, fills it with its bytes and a newline.
Prompt(text) == Append(text, NEWLINE)

\* fd_read of n bytes from stdin.  A read asks again as often as the buffer is
\* empty before it has its n bytes, and ends short only when that is refused;
\* `answers` are those given before the refusal, or all it needed.
RECURSIVE Got(_, _, _)
Got(n, buffer, answers) ==
    CASE n = 0 -> [bytes |-> <<>>, buffer |-> buffer, used |-> 0]
      [] n > 0 /\ buffer = <<>> /\ answers = <<>> -> [bytes |-> <<>>, buffer |-> <<>>, used |-> 0]
      [] n > 0 /\ buffer = <<>> /\ answers # <<>> ->
           LET g == Got(n, intArrayFromString(Prompt(Head(answers))), Tail(answers))
           IN  [g EXCEPT !.used = @ + 1]
      [] n > 0 /\ buffer # <<>> ->
           LET g == Got(n - 1, Tail(buffer), answers)
           IN  [g EXCEPT !.bytes = <<Head(buffer)>> \o @]

Read(n, answers) ==
    /\ streams[0] # "none"
    /\ \E g \in {Got(n, input, answers)} :
         /\ g.used = Len(answers)
         /\ input' = g.buffer
         /\ taken' = taken \o g.bytes
    /\ typed' = typed \o FlattenSeq([i \in DOMAIN answers |-> Prompt(answers[i])])
    /\ Room(FlattenSeq(answers))
    /\ UNCHANGED <<output, streams, lines, printed>>

Next ==
    \/ \E fd \in Fds : Close(fd) \/ Dup(fd) \/ \E t \in Texts : Write(fd, t)
    \/ \E n \in {1, 4} : \/ Read(n, <<>>)
                         \/ \E t \in Texts : Read(n, <<t>>)
                         \/ \E t, u \in Texts : Read(n, <<t, u>>)

Spec == Init /\ [][Next]_vars

-----------------------------------------------------------------------------
(* Properties.                                                              *)

\* Nothing printed is lost, repeated or reordered: a terminal's lines, each with
\* the newline that ended it, and its unfinished line are the text printed to it
\* without zeros, whichever stream or copy of a stream it came by and whatever
\* was closed in between.
LinesAreWhatWasPrinted ==
    \A t \in Ttys :
      LET Shown(l) == IF l.ended THEN Append(l.text, NEWLINE) ELSE l.text
          own == SelectSeq(lines, LAMBDA l : l.tty = t)
      IN  FlattenSeq([i \in DOMAIN own |-> Shown(own[i])]) \o UTF8ArrayToString(output[t])
          = SelectSeq(printed[t], LAMBDA u : u # 0)

\* The program reads the UTF-8 of what was typed, in order and without gaps: what
\* it has taken and what is buffered are the answers.
ReadsWhatWasTyped ==
    taken \o input = BytesOf(typed)
=============================================================================
