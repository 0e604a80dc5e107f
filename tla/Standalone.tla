----------------------------- MODULE Standalone -----------------------------
(***************************************************************************)
(* The standalone counter page: standalone/glon.js calls the four exports  *)
(* of standalone/glon.c, whose C half has two stores that only grow.  The  *)
(* byte heap behind malloc gives room to every string the page passes in,  *)
(* and the loader heap gives room to every block that is parsed, which     *)
(* includes the block  [ do increment ]  of each click.                    *)
(***************************************************************************)
EXTENDS Integers

CONSTANTS HEAP,        \* bytes of the heap behind malloc
          HEAP_LIMIT,  \* first cell after the loader heap
          StartBytes,  \* bytes used when the page's program has run
          StartCells,  \* GC_LOADER_HP at that time
          MaxClicks    \* bound on the clicks

BASE == 1000000        \* the factor between a handle and a value
NULL == 0

VARIABLES page,      \* "new", "up", or why the program is not loaded
          source,    \* the text of the page's program: its length and fault
          heap_used, \* bytes given out by malloc
          loader_hp, \* GC_LOADER_HP
          clicks,    \* clicks the page has passed on
          counter,   \* R0: the word counter
          text       \* the text of the element with data-glon-id 1

vars == <<page, source, heap_used, loader_hp, clicks, counter, text>>

\* A program text is the page's own, one that does not fit srcbuf, or one
\* whose brackets do not close.
Sources == {[len |-> 923, closes |-> TRUE], [len |-> 4096, closes |-> TRUE],
            [len |-> 923, closes |-> FALSE]}

TypeOK ==
    /\ page \in {"new", "up", "toolong", "unparsed"} /\ source \in Sources
    /\ heap_used \in 0 .. HEAP /\ loader_hp \in 0 .. HEAP_LIMIT
    /\ clicks \in 0 .. MaxClicks /\ counter \in 0 .. clicks /\ text \in 0 .. BASE - 1

RoundUp(n, unit) == ((n + unit - 1) \div unit) * unit

\* malloc, as the bytes in use afterwards and the address; the heap begins at
\* some address after 0, so NULL is none of its bytes.
malloc(used, n) ==
    LET a == RoundUp(used, 8)
    IN  IF a + n > HEAP THEN [used |-> used, ptr |-> NULL]
        ELSE [used |-> a + n, ptr |-> 1 + a]

\* mutant: the block comes right after the one before
lallocPacked(hp, n) ==
    IF hp + n > HEAP_LIMIT THEN [hp |-> hp, at |-> -1]
    ELSE [hp |-> hp + n, at |-> hp]

\* lalloc of the loader: -1 is its way to say that the heap is exhausted.
lalloc(hp, n) ==
    LET a == RoundUp(hp, 16)
    IN  IF a + n > HEAP_LIMIT THEN [hp |-> hp, at |-> -1]
        ELSE [hp |-> a + n, at |-> a]

\* glon_alloc of glon.js's alloc: the string and one byte more.  The bytes are
\* written where the answer says, at address 0 too, and the export reads them
\* from there, so that an exhausted heap goes unnoticed.
alloc(len) == malloc(heap_used, len + 1).used

\* printf, for the numbers of HOST_PRINT: a large one is a handle and a value
\* and goes to host_set_text, where a handle no element has is dropped; a small
\* one is a line of the console.
printf(v) == text' = IF v >= BASE /\ v \div BASE = 1 THEN v % BASE ELSE text

Init ==
    /\ page = "new" /\ source \in Sources /\ heap_used = 0 /\ loader_hp = 0
    /\ clicks = 0 /\ counter = 0 /\ text = 0

\* boot: glon_init, and glon_load of the text.  The listeners come last, so a
\* page whose program is not loaded passes no click on and uses its stores no
\* more.
Load ==
    /\ page = "new"
    /\ page' = IF source.len >= 4096 THEN "toolong"
               ELSE IF source.closes THEN "up" ELSE "unparsed"
    /\ IF page' = "up" THEN heap_used' = StartBytes /\ loader_hp' = StartCells
       ELSE UNCHANGED <<heap_used, loader_hp>>
    /\ UNCHANGED <<source, clicks, counter, text>>

\* A run of [ do increment ] adds one and has web-set-int print the sum under
\* handle 1.  A block at -1 lies over the machine's registers, which the start
\* of the run sets: what is evaluated are two numbers, and no word.
Run(block) ==
    IF block = -1 THEN UNCHANGED <<counter, text>>
    ELSE counter' = counter + 1 /\ printf(BASE + counter')

\* A click: glon_alloc of the word, and glon_call, whose block has a header of
\* two cells and the elements  do  and  increment .
Click ==
    /\ page = "up" /\ clicks < MaxClicks
    /\ clicks' = clicks + 1
    /\ heap_used' = alloc(9)
    /\ \E b \in {lalloc(loader_hp, 4)} : loader_hp' = b.hp /\ Run(b.at)
    /\ UNCHANGED <<page, source>>

Next == Load \/ Click

Spec == Init /\ [][Next]_vars

-----------------------------------------------------------------------------
\* The blocks of a click that fit behind the program, each in a row of sixteen.
Room == (HEAP_LIMIT - 4 - RoundUp(StartCells, 16)) \div 16 + 1

\* The page counts every click as long as the loader heap has room for its
\* block, and shows what the program counts also after that; the other heap is
\* long not full by then.
CountsWhileItFits ==
    page = "up" => counter = (IF clicks < Room THEN clicks ELSE Room) /\ text = counter

\* Every click is counted, as the page's documentation says.
EveryClickCounts == page = "up" => counter = clicks

\* What every step keeps: the blocks of the clicks that were counted lie one
\* after the other behind the program.
Inv == /\ TypeOK /\ CountsWhileItFits
       /\ page # "up" => clicks = 0 /\ counter = 0 /\ text = 0
       /\ page = "up" => loader_hp = IF counter = 0 THEN StartCells
                                     ELSE RoundUp(StartCells, 16) + 16 * counter - 12
=============================================================================
