------------------------------ MODULE ShopHost ------------------------------
(***************************************************************************)
(* The demo launcher (docs/shop/host.js with the route table of            *)
(* docs/shop/index.html): a demo is fetched when its link is clicked for   *)
(* the first time, and its route is dispatched again when the source has   *)
(* come.  Fetches overlap with clicks on a page that was rendered before.  *)
(***************************************************************************)
EXTENDS Integers, FiniteSets

CONSTANTS Demos,      \* the demos with a source of their own
          MaxFetches  \* bound on the fetches of one demo in flight

VARIABLES shown,    \* the view: a demo, "home", "loading" or "error"
          route,    \* Glon's current-route
          links,    \* the demos the rendered home page links without loading
          flags,    \* the demos whose loaded flag Glon has set
          fetches,  \* requests in flight, per demo
          asked     \* the demos the reader has clicked since the page opened

vars == <<shown, route, links, flags, fetches, asked>>

TypeOK ==
    /\ shown \in Demos \cup {"home", "loading", "error"}
    /\ route \in Demos \cup {"home"}
    /\ links \subseteq Demos /\ flags \subseteq Demos /\ asked \subseteq Demos
    /\ fetches \in [Demos -> 0 .. MaxFetches]

\* initialToken: the launcher always opens at home.
Init ==
    /\ shown = "home" /\ route = "home" /\ links = {}
    /\ flags = {} /\ asked = {} /\ fetches = [d \in Demos |-> 0]

\* render-current, with the flags as they are.
Rendered(r, loaded) == IF r = "home" \/ r \in loaded THEN r ELSE "loading"

\* Glon's answer to glon_route: home is rendered with the flags of the moment.
Dispatch(r, loaded) ==
    /\ route' = r
    /\ shown' = Rendered(r, loaded)
    /\ links' = IF r = "home" THEN loaded ELSE links

glonEvent ==
    /\ shown' = "error"
    /\ UNCHANGED <<route, links>>

Click(d) == shown = "home" /\ asked' = asked \cup {d}

\* A link with data-glon-load.
Load(d) ==
    /\ Click(d) /\ d \notin links
    /\ fetches[d] < MaxFetches
    /\ fetches' = [fetches EXCEPT ![d] = @ + 1]
    /\ UNCHANGED <<shown, route, links, flags>>

\* A link without, to a demo loaded before the page was rendered.
Open(d) ==
    /\ Click(d) /\ d \in links
    /\ Dispatch(d, flags)
    /\ UNCHANGED <<flags, fetches>>

Back ==
    /\ shown # "home"
    /\ Dispatch("home", flags)
    /\ UNCHANGED <<flags, fetches, asked>>

\* An event of a demo's own buttons draws its page again.
DemoEvent ==
    /\ shown \in Demos
    /\ shown' = Rendered(route, flags)
    /\ UNCHANGED <<route, links, flags, fetches, asked>>

\* mutant: the route is dispatched first, to show that something happens
ArrivesRoutesFirst(d) == flags' = flags \cup {d} /\ Dispatch(d, flags)

\* The source arrives, and glon_load runs it: its first line sets the flag.
Arrives(d) == flags' = flags \cup {d} /\ Dispatch(d, flags')

\* It is not accepted, before that line or after it.
Unloadable(d) == flags' \in {flags, flags \cup {d}} /\ glonEvent

\* The request fails, or its answer is not a source.
Failed == glonEvent /\ UNCHANGED flags

loadResource(d) ==
    /\ fetches[d] > 0
    /\ fetches' = [fetches EXCEPT ![d] = @ - 1]
    /\ Arrives(d) \/ Unloadable(d) \/ Failed
    /\ UNCHANGED asked

Next == \/ \E d \in Demos : Load(d) \/ Open(d) \/ loadResource(d)
        \/ Back \/ DemoEvent

Spec == Init /\ [][Next]_vars

-----------------------------------------------------------------------------
(* Properties.                                                              *)

\* No click and no late answer asks Glon for a page it does not have: the
\* "Loading" page of the route table is never seen, a demo's page is only
\* shown when its source was run, and after the reader asked for it.
RoutesFollowLoads ==
    /\ shown # "loading"
    /\ shown \in Demos => shown \in flags \cap asked
    /\ links \subseteq flags

(* What every step keeps: only what the reader asked for is fetched and       *)
(* loaded, and Glon's route leads to what is loaded.                          *)
Inv == /\ TypeOK /\ RoutesFollowLoads
       /\ flags \subseteq asked
       /\ \A d \in Demos : fetches[d] > 0 => d \in asked
       /\ route \in flags \cup {"home"}
=============================================================================
