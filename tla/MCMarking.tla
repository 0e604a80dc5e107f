------------------------------ MODULE MCMarking ------------------------------
(***************************************************************************)
(* Three managed objects, one stack context, the global context, a chain   *)
(* of two frames (2 and 3) and a frame of a task (5), with many            *)
(* arrangements of their fields.                                           *)
(***************************************************************************)
EXTENDS Marking

CONSTANTS o1, o2, o3, s1, int, corrupt

UpTo2(S) == {<<>>} \cup {<<a>> : a \in S} \cup {<<a, b>> : a, b \in S}

MCGraphs ==
    {[n \in Node |-> CASE n = o1     -> f1
                       [] n = o2     -> f2
                       [] n = o3     -> f3
                       [] n = s1     -> fs
                       [] n = 2      -> <<3, o2>>
                       [] n = 3      -> <<s1>>
                       [] n = 5      -> <<o3>>
                       [] n = Global -> fg
                       [] n = Root   -> fr] :
        f1 \in UpTo2({o1, o2, o3, Global}),
        f2 \in {<<>>, <<o1>>, <<o3, Global>>, <<corrupt>>},
        f3 \in {<<>>, <<o1>>},
        fs \in {<<o1>>, <<Global, o2>>, <<Global, int>>},
        fg \in {<<int>>, <<o3>>, <<int, o2, corrupt>>},
        fr \in {<<Global, s1>>, <<Global, o1, o2, o3>>, <<Global, 2, 5>>}}
=============================================================================
