------------------------------- MODULE Router -------------------------------
(***************************************************************************)
(* The router of src/spido/src/server/router.cpp: a table of literal paths *)
(* and a trie of the paths that have parameters, for each method.          *)
(*                                                                         *)
(* A path is [segs |-> its segments, slash |-> whether a slash follows     *)
(* them].  A route is [path, method, id]; the segments in Params stand for *)
(* ":name".  A node of a trie is the sequence of edges that leads to it,   *)
(* a literal segment or Wild.                                              *)
(***************************************************************************)
EXTENDS Naturals, Sequences, FiniteSets

CONSTANTS Params,   \* the segments that are ":name"
          Wild,     \* the edge to a node's wildcard child
          NoRoute

\* A router without routes: literal paths, the nodes of the trie but for the
\* root, and the nodes that end a route, with the routes.
NoRoutes == [table |-> {}, nodes |-> {}, ends |-> {}]

HasPattern(path) == \E i \in DOMAIN path.segs : path.segs[i] \in Params

\* for_each_segment() sees no difference between "/a" and "/a/".
EdgeOf(seg) == IF seg \in Params THEN Wild ELSE seg
NodeOf(segs, n) == [i \in 1 .. n |-> EdgeOf(segs[i])]

\* insert_trie(): a route that is added again replaces the one before.
InsertTrie(r, route) ==
    LET segs == route.path.segs
        node == <<route.method, NodeOf(segs, Len(segs))>>
    IN  [r EXCEPT !.nodes = @ \cup {<<route.method, NodeOf(segs, n)>> : n \in 1 .. Len(segs)},
                  !.ends = {e \in @ : e.node # node} \cup {[node |-> node, route |-> route]}]

Add(r, route) ==
    IF HasPattern(route.path) THEN InsertTrie(r, route)
    ELSE [r EXCEPT !.table = {e \in @ : e.path # route.path \/ e.method # route.method} \cup {route}]

\* A bug: at every node the wildcard is tried first.
StepWildFirst(r, m, node, seg) ==
    IF <<m, Append(node, Wild)>> \in r.nodes THEN Append(node, Wild) ELSE Append(node, seg)

\* From a node along a segment: the literal child, or else the wildcard.
Step(r, m, node, seg) ==
    IF <<m, Append(node, seg)>> \in r.nodes THEN Append(node, seg) ELSE Append(node, Wild)

\* match_trie() and the parameters it has captured.
RECURSIVE MatchTrie(_, _, _, _, _)
MatchTrie(r, m, node, segs, params) ==
    LET to == Step(r, m, node, Head(segs))
        got == IF to[Len(to)] = Wild THEN Append(params, Head(segs)) ELSE params
        ends == {e \in r.ends : e.node = <<m, node>>}
    IN  IF segs = << >>
        THEN IF ends = {} THEN [route |-> NoRoute, params |-> << >>]
             ELSE [route |-> (CHOOSE e \in ends : TRUE).route, params |-> params]
        ELSE IF <<m, to>> \in r.nodes THEN MatchTrie(r, m, to, Tail(segs), got)
        ELSE [route |-> NoRoute, params |-> << >>]

\* The table first, then the trie.
Find(r, m, path) ==
    LET exact == {e \in r.table : e.path = path /\ e.method = m}
    IN  IF exact # {} THEN [route |-> CHOOSE e \in exact : TRUE, params |-> << >>]
        ELSE MatchTrie(r, m, << >>, path.segs, << >>)

-----------------------------------------------------------------------------
(* What a router is asked to do, for comparison *)

\* The route is one for the path.
Matches(route, m, path) ==
    /\ route.method = m
    /\ IF ~HasPattern(route.path) THEN route.path = path
       ELSE /\ Len(route.path.segs) = Len(path.segs)
            /\ \A i \in DOMAIN path.segs : route.path.segs[i] \in Params \cup {path.segs[i]}

\* Of two routes for a path, the first has the literal where they part.
Before(a, b) ==
    \/ ~HasPattern(a.path) /\ HasPattern(b.path)
    \/ \E i \in DOMAIN a.path.segs :
           /\ a.path.segs[i] \notin Params /\ b.path.segs[i] \in Params
           /\ \A j \in 1 .. i - 1 : EdgeOf(a.path.segs[j]) = EdgeOf(b.path.segs[j])

\* A route for the path that another pattern hides, because it has a literal
\* of the path where this one has a parameter.
Hidden(routes, route, path) ==
    \E other \in routes :
        /\ other.method = route.method /\ HasPattern(other.path)
        /\ \E i \in DOMAIN path.segs \cap DOMAIN other.path.segs :
               /\ route.path.segs[i] \in Params /\ other.path.segs[i] = path.segs[i]
               /\ \A j \in 1 .. i - 1 : EdgeOf(other.path.segs[j]) = EdgeOf(route.path.segs[j])
=============================================================================
