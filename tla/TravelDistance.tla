---------------------------- MODULE TravelDistance ----------------------------
(* Graph.Distance of internal/domain/travel: Dijkstra's search over a travel  *)
(* graph with a heap from which outdated entries are not removed but skipped  *)
(* when they surface, and the walk back along prev that makes the route.      *)
EXTENDS TravelGraph, Sequences

VARIABLES
    search,     \* where the search is, and what it answered
    graph,      \* the graph it was given
    source,     \* from
    target,     \* to
    dist,       \* the length of the best walk found to a waypoint, if any was
    estimated,  \* whether a leg of that walk is estimated
    prev,       \* the waypoint before the last of that walk
    visited,    \* waypoints whose edges were relaxed
    heap,       \* entries not popped yet
    route       \* the end of the route, as far as it is traced

searchVars == <<search, graph, source, target, dist, estimated, prev, visited, heap, route>>

Answers == {"routed", "no route", "unknown waypoint"}

(* No search yet.                                                             *)
NoGraph == Build(<<>>, {}, 0)

Unasked ==
    /\ search = "idle"
    /\ graph = NoGraph /\ source = <<>> /\ target = <<>>
    /\ dist = <<>> /\ estimated = <<>> /\ prev = <<>>
    /\ visited = {} /\ heap = {} /\ route = <<>>

(* The search is given a graph and two waypoints.                             *)
Ask(g, from, to) ==
    /\ search = "idle"
    /\ graph' = g /\ source' = from /\ target' = to
    /\ search' = CASE {from, to} \subseteq g.nodes /\ from # to -> "search"
                   [] {from, to} \subseteq g.nodes /\ from = to -> "routed"
                   [] OTHER -> "unknown waypoint"
    /\ dist' = [n \in {from} |-> 0]
    /\ estimated' = [n \in {from} |-> FALSE]
    /\ prev' = <<>>
    /\ visited' = {}
    /\ heap' = {[node |-> from, dist |-> 0]}
    /\ route' = <<to>>

(* The entry the heap yields: a least one, whichever of several.              *)
Least(entry) == entry \in heap /\ \A other \in heap : entry.dist <= other.dist

(* Mutants: definitions whose names end in "Slip" are plausible mistakes in    *)
(* the code the definition after them models.  No specification uses them.    *)

(* The least entry is looked at and not popped.                               *)
SkipSlip(entry) ==
    /\ search = "search"
    /\ Least(entry)
    /\ entry.node \in visited
    /\ UNCHANGED searchVars

(* An entry of a waypoint that was reached on a shorter way before.           *)
Skip(entry) ==
    /\ search = "search"
    /\ Least(entry)
    /\ entry.node \in visited
    /\ heap' = heap \ {entry}
    /\ UNCHANGED <<search, graph, source, target, dist, estimated, prev, visited, route>>

Via(n, m) == dist[n] + graph.metres[<<n, m>>]

(* A waypoint is labelled once, by the first that reaches it.                 *)
ImprovedSlip(n) == {m \in graph.nodes : <<n, m>> \in graph.edges /\ m \notin DOMAIN dist}

(* The waypoints that are better reached through n.                           *)
Improved(n) ==
    {m \in graph.nodes : <<n, m>> \in graph.edges /\ (m \in DOMAIN dist => Via(n, m) < dist[m])}

(* The next waypoint to settle: its edges are relaxed.                        *)
Settle(entry) ==
    LET n == entry.node
        better == Improved(n)
        reached == DOMAIN dist \cup better
    IN  /\ search = "search"
        /\ Least(entry)
        /\ n \notin visited
        /\ n # target
        /\ visited' = visited \cup {n}
        /\ dist' = [m \in reached |-> IF m \in better THEN Via(n, m) ELSE dist[m]]
        /\ estimated' = [m \in reached |->
                            IF m \in better THEN estimated[n] \/ <<n, m>> \in graph.estimated
                            ELSE estimated[m]]
        /\ prev' = [m \in DOMAIN prev \cup better |-> IF m \in better THEN n ELSE prev[m]]
        /\ heap' = (heap \ {entry}) \cup {[node |-> m, dist |-> Via(n, m)] : m \in better}
        /\ UNCHANGED <<search, graph, source, target, route>>

(* The loop ends when the target surfaces ...                                 *)
Finish ==
    /\ search = "search"
    /\ \E entry \in heap : Least(entry) /\ entry.node = target /\ target \notin visited
    /\ search' = "trace"
    /\ UNCHANGED <<graph, source, target, dist, estimated, prev, visited, heap, route>>

(* ... or the heap is empty, and then the target was never reached.           *)
Exhaust ==
    /\ search = "search"
    /\ heap = {}
    /\ search' = IF target \in DOMAIN dist THEN "trace" ELSE "no route"
    /\ UNCHANGED <<graph, source, target, dist, estimated, prev, visited, heap, route>>

(* The route is traced back from the target to the source.                    *)
Trace ==
    /\ search = "trace"
    /\ Head(route) # source
    /\ Head(route) \in DOMAIN prev
    /\ route' = <<prev[Head(route)]>> \o route
    /\ UNCHANGED <<search, graph, source, target, dist, estimated, prev, visited, heap>>

Return ==
    /\ search = "trace"
    /\ Head(route) = source
    /\ search' = "routed"
    /\ UNCHANGED <<graph, source, target, dist, estimated, prev, visited, heap, route>>

SearchStep ==
    \/ \E entry \in heap : Skip(entry) \/ Settle(entry)
    \/ Finish \/ Exhaust \/ Trace \/ Return
-----------------------------------------------------------------------------
Legs == {<<route[i], route[i + 1]>> : i \in 1..(Len(route) - 1)}

LengthOfRoute ==
    LET upTo[i \in 1..Len(route)] ==
          IF i = 1 THEN 0 ELSE upTo[i - 1] + graph.metres[<<route[i - 1], route[i]>>]
    IN upTo[Len(route)]

(* The waypoints of the answer are joined by edges of the graph, the length   *)
(* it gives is theirs, it is flagged as an estimate exactly if one of them is *)
(* one, and no walk is shorter; and there is no walk if it says so.           *)
RouteIsShortest ==
    /\ search = "routed" =>
          /\ route[1] = source /\ route[Len(route)] = target
          /\ Legs \subseteq graph.edges
          /\ dist[target] = LengthOfRoute
          /\ estimated[target] = (Legs \cap graph.estimated # {})
          /\ \A d \in WalkLengths(graph, source)[target] : dist[target] <= d
    /\ search = "no route" => WalkLengths(graph, source)[target] = {}
=============================================================================
