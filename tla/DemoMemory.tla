----------------------------- MODULE DemoMemory -----------------------------
(***************************************************************************)
(* emscripten_resize_heap of web/demo.js: how the linear memory grows when *)
(* malloc asks for more, and the typed arrays over it.  Sizes are in KiB.  *)
(***************************************************************************)
EXTENDS Integers

CONSTANTS Starts,   \* sizes of the memory when growth is first asked for
          Requests, \* sizes asked for
          Limits    \* what the browser can provide

VARIABLES size,    \* of wasmMemory
          views,   \* length of HEAPU8 and the other views
          limit,   \* what this browser can provide
          answers  \* the last request and its result

vars == <<size, views, limit, answers>>

PAGE == 64
getHeapMax == 2097152
OVERGROWTH == 98304

Lesser(a, b) == IF a < b THEN a ELSE b
Greater(a, b) == IF a > b THEN a ELSE b

\* Rounded up to pages: of p parts of which q make a KiB.
alignMemory(p, q) == ((p + q * PAGE - 1) \div (q * PAGE)) * PAGE

\* mutant: as much as geometric growth wants, whatever was requested
newSizeGeometric(requested, cutDown) ==
    Lesser(getHeapMax, alignMemory(Lesser(size * (5 * cutDown + 1),
                                          (requested + OVERGROWTH) * 5 * cutDown), 5 * cutDown))

\* A fifth more than now, or the part of a fifth that cutDown leaves, but no
\* more than OVERGROWTH over the request.
newSize(requested, cutDown) ==
    Lesser(getHeapMax,
           alignMemory(Greater(requested * 5 * cutDown,
                               Lesser(size * (5 * cutDown + 1),
                                      (requested + OVERGROWTH) * 5 * cutDown)),
                       5 * cutDown))

Fits(s) == s <= limit

\* The attempts that the browser can satisfy.
Attempts(requested) == {c \in {1, 2, 4} : Fits(newSize(requested, c))}

First(S) == CHOOSE c \in S : \A d \in S : c <= d

TypeOK ==
    /\ size \in 1 .. getHeapMax /\ size % PAGE = 0 /\ limit \in Limits
    /\ answers.granted \in BOOLEAN

Init ==
    /\ size \in Starts /\ views = size /\ limit \in {l \in Limits : l >= size}
    /\ answers = [requested |-> size, granted |-> TRUE]

\* mutant: the views stay with the buffer that was detached
growMemoryDetached(s) == size' = s /\ UNCHANGED views

\* growMemory: the memory by whole pages, and updateMemoryViews.
growMemory(s) == size' = s /\ views' = s

\* malloc's sbrk asks for an end beyond the current one.
resize_heap(requested) ==
    /\ requested > size
    /\ IF requested > getHeapMax \/ Attempts(requested) = {}
       THEN /\ answers' = [requested |-> requested, granted |-> FALSE]
            /\ UNCHANGED <<size, views>>
       ELSE /\ growMemory(newSize(requested, First(Attempts(requested))))
            /\ answers' = [requested |-> requested, granted |-> TRUE]
    /\ UNCHANGED limit

Next == \E r \in Requests : resize_heap(r)

Spec == Init /\ [][Next]_vars

-----------------------------------------------------------------------------
(* Properties.                                                              *)

\* A granted request has its memory, in views that are not of a buffer that was
\* detached, and no more than the cap on over-reserving beyond it (one page for
\* rounding); the memory never exceeds what the browser has or the build allows.
GrowthSuffices ==
    /\ views = size /\ size <= Lesser(limit, getHeapMax)
    /\ answers.granted =>
         answers.requested <= size /\ size < answers.requested + OVERGROWTH + PAGE

\* A refusal says that the browser is within a twentieth of its limit, or that
\* the request is beyond the largest heap.
RefusedOnlyNearLimit ==
    answers.granted \/ answers.requested > getHeapMax
    \/ 20 * limit < 21 * answers.requested + 20 * PAGE

\* What every step keeps; requests are sizes.
Inv == TypeOK /\ GrowthSuffices /\ RefusedOnlyNearLimit /\ answers.requested \in Nat
=============================================================================
