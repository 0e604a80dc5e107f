------------------------------ MODULE PageBoot ------------------------------
(***************************************************************************)
(* How the pages bring up their WebAssembly instance.                      *)
(*                                                                         *)
(* The hosts share one shape: instantiate the module (by streaming, with a *)
(* second attempt from fetched bytes behind catch, or from bytes only),    *)
(* then a fixed sequence of steps: glon_init, glon_load of each source,    *)
(* the listeners, a first event, the animation loop.  A page is that       *)
(* sequence.  An error code stops it where the host returns; an exception  *)
(* ends in the catch of the promise the step runs under, which on the      *)
(* streaming pages means that the whole boot runs a second time.           *)
(***************************************************************************)
EXTENDS Integers, Sequences

VARIABLES page,      \* the page that is loaded
          fault,     \* where its machine fails: <<step, "rc" or "trap">>, or <<0, "none">>
          attempt,   \* "streaming", "bytes", or the outcome: "up", "dead"
          pc,        \* steps done in this attempt
          loads,     \* sources loaded into the current instance
          listeners, \* how many times the handlers were registered
          early      \* has an event reached an instance not fully loaded?

vars == <<page, fault, attempt, pc, loads, listeners, early>>

Sync(steps) == [streams |-> TRUE, retries |-> TRUE, steps |-> steps]

\* standalone/glon.js: the counter page.
GlonJs == Sync(<<"init", "load", "wire">>)

\* docs/shop/host.js: the demo launcher, which ends by routing to "home".
ShopBoot == Sync(<<"init", "load", "wire", "event">>)

\* docs/shop/traffic-host.js: reset() for the first picture, then the loop.
TrafficBoot == Sync(<<"init", "load", "wire", "event", "loop">>)

\* docs/shop/linda-host.js: the three buttons, then the first rendering.
LindaBoot == Sync(<<"init", "load", "wire", "event">>)

\* docs/shop/live-host.js: every block of the page, here three of them.
LiveBoot == Sync(<<"init", "load", "load", "load", "wire", "event">>)

\* mutant: the listeners come before the sources
PatrolBootWiresFirst ==
    [streams |-> FALSE, retries |-> FALSE,
     steps |-> <<"init", "wire", "fetch", "load", "fetch", "load", "fetch",
                 "load", "event", "loop">>]

\* docs/demos/patrol/patrol-host.js: bytes only; the sources are fetched one
\* after the other, and the chain of promises has its own catch.
PatrolBoot == [streams |-> FALSE, retries |-> FALSE,
               steps |-> <<"init", "fetch", "load", "fetch", "load", "fetch",
                           "load", "wire", "event", "loop">>]

\* docs/demos/kaka/kaka-host.js: likewise, with the pictures of the scenery
\* between the sources and the listeners; a picture that fails is left out.
KakaBoot == [streams |-> FALSE, retries |-> FALSE,
             steps |-> <<"init", "fetch", "load", "fetch", "load", "fetch", "load",
                         "fetch", "load", "fetch", "load", "fetch", "load", "fetch",
                         "load", "fetch", "load", "pictures", "wire", "event", "loop">>]

Plans == [glon |-> GlonJs, shop |-> ShopBoot, traffic |-> TrafficBoot,
          linda |-> LindaBoot, live |-> LiveBoot, patrol |-> PatrolBoot,
          kaka |-> KakaBoot]

steps == Plans[page].steps
Sources == {i \in DOMAIN steps : steps[i] = "load"}
WiredAt == CHOOSE i \in DOMAIN steps : steps[i] = "wire"

Failing(p) ==
    {<<0, "none">>}
    \cup {<<i, "trap">> : i \in {j \in DOMAIN Plans[p].steps :
                                   Plans[p].steps[j] \in {"init", "load", "event"}}}
    \cup {<<i, "rc">> : i \in {j \in DOMAIN Plans[p].steps :
                                   Plans[p].steps[j] \in {"init", "load", "fetch"}}}

TypeOK ==
    /\ page \in DOMAIN Plans /\ fault \in Failing(page)
    /\ attempt \in {"streaming", "bytes", "up", "dead"}
    /\ pc \in 0 .. Len(steps) /\ loads \in 0 .. Len(steps)
    /\ listeners \in 0 .. 2 /\ early \in BOOLEAN

Init ==
    /\ page \in DOMAIN Plans /\ fault \in Failing(page)
    /\ attempt = IF Plans[page].streams THEN "streaming" ELSE "bytes"
    /\ pc = 0 /\ loads = 0 /\ listeners = 0 /\ early = FALSE

NotLoaded == \E i \in Sources : i > pc
Booting == attempt \in {"streaming", "bytes"}
Here == pc + 1

\* A rejected promise: the catch of instantiateStreaming starts over from the
\* fetched bytes, with a new instance; every other catch reports and stops.
Rejected ==
    /\ attempt' = IF attempt = "streaming" THEN "bytes" ELSE "dead"
    /\ IF attempt = "streaming" THEN pc' = 0 /\ loads' = 0 ELSE UNCHANGED <<pc, loads>>
    /\ UNCHANGED <<page, fault, listeners, early>>

\* The bytes did not arrive, have the wrong type or do not compile.
Instantiation ==
    /\ Booting /\ pc = 0
    /\ Rejected

\* An error code: the host logs it and returns (patrol throws instead, under
\* a catch that also only logs).
ErrorCode ==
    /\ Booting /\ fault = <<Here, "rc">>
    /\ attempt' = "dead"
    /\ UNCHANGED <<page, fault, pc, loads, listeners, early>>

Trap ==
    /\ Booting /\ fault = <<Here, "trap">>
    /\ Rejected

Step ==
    /\ Booting /\ Here \in DOMAIN steps /\ fault[1] # Here
    /\ pc' = Here
    /\ loads' = IF steps[Here] = "load" THEN loads + 1 ELSE loads
    /\ listeners' = IF steps[Here] = "wire" THEN listeners + 1 ELSE listeners
    /\ early' = (early \/ (steps[Here] = "event" /\ NotLoaded))
    /\ attempt' = IF Here = Len(steps) THEN "up" ELSE attempt
    /\ UNCHANGED <<page, fault>>

\* A click while a chain of promises is between two of its steps, or later:
\* each registered handler hands its event to the current instance.
Click ==
    /\ listeners > 0
    /\ \/ attempt \in {"up", "dead"}
       \/ ~Plans[page].retries
       \/ attempt = "bytes" /\ pc = 0
    /\ early' = (early \/ (pc > 0 /\ NotLoaded))
    /\ UNCHANGED <<page, fault, attempt, pc, loads, listeners>>

Next == Instantiation \/ ErrorCode \/ Trap \/ Step \/ Click

Spec == Init /\ [][Next]_vars

-----------------------------------------------------------------------------
(* Properties.                                                              *)

\* No handler is registered twice, although a boot may run twice, unless the
\* machine trapped after the handlers were in place; a page that is up has
\* its handlers, and no event reaches a machine whose sources are not loaded.
HandlersOnce ==
    /\ listeners > 1 => fault[2] = "trap" /\ fault[1] > WiredAt
    /\ attempt = "up" => listeners >= 1 /\ \A i \in Sources : i <= pc
    /\ ~early

(* What every step keeps: the handlers are registered once, and a second     *)
(* time only by an attempt after one that trapped behind them, which cannot  *)
(* fail before them.                                                         *)
Wired == IF pc >= WiredAt THEN 1 ELSE 0

Inv == /\ TypeOK /\ HandlersOnce
       /\ listeners # Wired =>
            /\ listeners = Wired + 1 /\ fault[2] = "trap" /\ fault[1] > WiredAt
            /\ Plans[page].streams /\ attempt # "streaming"
            /\ attempt = "dead" => pc = 0 \/ pc >= WiredAt
       /\ attempt = "up" => pc = Len(steps)
       /\ attempt = "streaming" => Plans[page].streams
       /\ loads <= pc
=============================================================================
