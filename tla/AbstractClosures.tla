-------------------------- MODULE AbstractClosures --------------------------
(***************************************************************************)
(* What closures, contexts and activations mean in R0, with no return      *)
(* stack memory, no promotion and no collector: every invocation gets one  *)
(* environment, a closure holds the environment it was made in, and an     *)
(* environment is there for as long as something can still name it.        *)
(***************************************************************************)
EXTENDS Integers, Sequences, FiniteSets

CONSTANTS
    Word,        \* words a program binds
    Params,      \* parameter lists of its functions
    EnvId        \* identities of environments; 0 is the global one

VARIABLES
    env,         \* the environments there are: [id, parent, vals]
    cur,         \* the current environment
    stk,         \* invocations: arguments being evaluated, or body entered
    ds           \* the data stack

absVars == <<env, cur, stk, ds>>

Unbound == <<"unbound", 0>>
Scalar  == <<"scalar", 0>>
NoEnv   == <<"none", 0>>

-----------------------------------------------------------------------------
(* Graphs of environments *)

Ids(e)   == {n.id : n \in e}
At(e, i) == CHOOSE n \in e : n.id = i

(* The environment a value or a parent link names *)
Named(v) == IF v[1] \in {"env", "clo"} THEN {v[2]} ELSE {}

NamedBy(n) == Named(n.parent) \cup (UNION {Named(n.vals[w]) : w \in DOMAIN n.vals})

(* Nothing in e, and no root, names an environment that e does not have.   *)
Closed(e, roots) == roots \cup (UNION {NamedBy(n) : n \in e}) \subseteq Ids(e)

-----------------------------------------------------------------------------
Base == IF stk = <<>> THEN 0 ELSE stk[Len(stk)].sp

Roots(c, k, d) ==
    {0, c} \cup (UNION {Named(d[i]) : i \in 1 .. Len(d)})
           \cup {k[i].env : i \in 1 .. Len(k)}

(* The environments become e, or those of e that are left when some that   *)
(* nothing leads to any more are forgotten.                                *)
Becomes(e, c, k, d) ==
    /\ stk' = k /\ ds' = d /\ cur' = c
    /\ \E left \in {env'} : left \subseteq e /\ Closed(left, Roots(c, k, d))

AbsInit ==
    /\ env = {[id |-> 0, parent |-> NoEnv, vals |-> [w \in Word |-> Unbound]]}
    /\ cur = 0 /\ stk = <<>> /\ ds = <<>>

(* The environment word w is bound in for the current one: the nearest on  *)
(* the chain of parents, NoEnv if none                                     *)
Home(w) ==
    LET e == env
        at[n \in Nat] == IF n = 0 THEN <<"env", cur>>
                         ELSE LET i == at[n - 1]
                              IN  IF i = NoEnv \/ At(e, i[2]).vals[w] # Unbound THEN i
                                  ELSE At(e, i[2]).parent
    IN  at[Cardinality(e)]

ValueOf(w) == At(env, Home(w)[2]).vals[w]

Forget == Becomes(env, cur, stk, ds)

PushScalar == Becomes(env, cur, stk, Append(ds, Scalar))

Fetch(w) ==
    /\ Home(w) # NoEnv
    /\ Becomes(env, cur, stk, Append(ds, ValueOf(w)))

Drop ==
    /\ Len(ds) > Base
    /\ Becomes(env, cur, stk, SubSeq(ds, 1, Len(ds) - 1))

(* A word is set where it is bound, else it is bound in the current one. *)
Set(w) ==
    LET h == IF Home(w) = NoEnv THEN cur ELSE Home(w)[2]
    IN  /\ Len(ds) > Base
        /\ Becomes({IF n.id = h THEN [n EXCEPT !.vals[w] = ds[Len(ds)]] ELSE n : n \in env},
                   cur, stk, ds)

MakeClosure == Becomes(env, cur, stk, Append(ds, <<"clo", cur>>))

Call(w) ==
    /\ Home(w) # NoEnv
    /\ ValueOf(w)[1] = "clo"
    /\ Becomes(env, cur, Append(stk, [body |-> FALSE, env |-> ValueOf(w)[2], sp |-> Len(ds)]), ds)

(* The arguments become the values of a new environment whose parent is    *)
(* the captured one; the caller's environment waits on the stack.          *)
Bound(ps, args) ==
    [w \in Word |-> IF \E k \in 1 .. Len(ps) : ps[k] = w
                    THEN args[CHOOSE k \in 1 .. Len(ps) : ps[k] = w]
                    ELSE Unbound]

Enter(id, ps) ==
    LET top == stk[Len(stk)]
        new == [id |-> id, parent |-> <<"env", top.env>>,
                vals |-> Bound(ps, SubSeq(ds, top.sp + 1, Len(ds)))]
    IN  /\ stk # <<>> /\ ~top.body
        /\ Len(ds) - top.sp = Len(ps)
        /\ id \notin Ids(env)
        /\ Becomes(env \cup {new}, id,
                   [stk EXCEPT ![Len(stk)] = [body |-> TRUE, env |-> cur, sp |-> top.sp]],
                   SubSeq(ds, 1, top.sp))

(* Leaving body i, and every invocation above it, with one value *)
LeaveBody(i) ==
    /\ stk[i].body
    /\ Len(ds) > Base
    /\ Becomes(env, stk[i].env, SubSeq(stk, 1, i - 1),
               Append(SubSeq(ds, 1, stk[i].sp), ds[Len(ds)]))

AbsNext ==
    \/ Forget \/ PushScalar \/ Drop \/ MakeClosure
    \/ \E w \in Word : Fetch(w) \/ Set(w) \/ Call(w)
    \/ \E id \in EnvId, ps \in Params : Enter(id, ps)
    \/ \E i \in 1 .. Len(stk) : LeaveBody(i)

AbsSpec == AbsInit /\ [][AbsNext]_absVars
=============================================================================
