-------------------------- MODULE AbstractContexts --------------------------
(***************************************************************************)
(* What a chain of contexts promises: each binds words to values, the      *)
(* innermost shadows the ones it was entered from, and setting a word      *)
(* changes the nearest binding or else makes one in the innermost.         *)
(***************************************************************************)
EXTENDS Integers, Sequences

CONSTANTS
    Word, Value,
    Unbound        \* what an unbound word looks up to, no member of Value

VARIABLES
    chain,         \* environments, the global one first: word -> value or Unbound
    found          \* the answer of the last lookup

absVars == <<chain, found>>

Env == [Word -> Value \cup {Unbound}]

Binding(w) == {i \in 1 .. Len(chain) : chain[i][w] # Unbound}
Nearest(w) == CHOOSE i \in Binding(w) : \A j \in Binding(w) : j <= i

AbsInit == Len(chain) = 1 /\ chain[1] \in Env /\ found = Unbound

(* An environment of any contents is put before the chain. *)
Enter ==
    /\ Len(chain') = Len(chain) + 1
    /\ chain'[Len(chain) + 1] \in Env
    /\ SubSeq(chain', 1, Len(chain)) = chain
    /\ found' = Unbound

Leave ==
    /\ Len(chain) > 1
    /\ chain' = SubSeq(chain, 1, Len(chain) - 1)
    /\ found' = Unbound

Set(w, v) ==
    LET i == IF Binding(w) = {} THEN Len(chain) ELSE Nearest(w)
    IN  chain' = [chain EXCEPT ![i][w] = v] /\ found' = Unbound

Lookup(w) ==
    /\ found' = IF Binding(w) = {} THEN Unbound ELSE chain[Nearest(w)][w]
    /\ UNCHANGED chain

Forget == found' = Unbound /\ UNCHANGED chain

AbsNext ==
    \/ Enter \/ Leave \/ Forget
    \/ \E w \in Word, v \in Value : Set(w, v)
    \/ \E w \in Word : Lookup(w)

AbsSpec == AbsInit /\ [][AbsNext]_absVars
=============================================================================
