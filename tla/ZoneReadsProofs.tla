---------------------------- MODULE ZoneReadsProofs ----------------------------
(* Proofs about ZoneReads, for every map, every loading, all entries that the *)
(* writers may make and every query: the types, that only what the client     *)
(* named is ever not found, that the distance it is given is certified and    *)
(* the shortest, that what was there when a read began is shown, and that a   *)
(* route can be walked.                                                       *)
EXTENDS ZoneReads, FacilityUseCasesProofs, SequenceTheorems, FiniteSetTheorems,
        WellFoundedInduction, TLAPS

-----------------------------------------------------------------------------
(* Dijkstra's search with outdated heap entries is correct for every graph:   *)
(* whatever it answers is certified (RouteIsCertified).                       *)

(* How far a waypoint is, as far as the search went.                          *)
Reached(n) == IF n \in DOMAIN dist /\ dist[n] < dist[target] THEN dist[n] ELSE dist[target]

(* The certificate of an answer: RouteIsShortest is concluded from it.  The   *)
(* lengths the search gives to the waypoints of the route grow by its legs,   *)
(* and by no more than its length along any edge, so no walk gains on them;   *)
(* and what was reached without reaching the target has no edge that leads    *)
(* out of it.                                                                 *)
RouteIsCertified ==
    /\ search = "routed" =>
          /\ route[1] = source /\ route[Len(route)] = target
          /\ dist[source] = 0
          /\ \A i \in 1..(Len(route) - 1) :
                /\ <<route[i], route[i + 1]>> \in graph.edges
                /\ dist[route[i + 1]] = Via(route[i], route[i + 1])
          /\ \A m, n \in graph.nodes :
                <<m, n>> \in graph.edges => Reached(n) <= Reached(m) + graph.metres[<<m, n>>]
    /\ search = "no route" =>
          /\ source \in DOMAIN dist /\ target \notin DOMAIN dist
          /\ \A m, n \in graph.nodes :
                <<m, n>> \in graph.edges /\ m \in DOMAIN dist => n \in DOMAIN dist

(* Every reached waypoint that is not settled has its distance in the heap.   *)
Entry(n, d) == [node |-> n, dist |-> d]

Types ==
    /\ IsGraph(graph)
    /\ search \in {"idle", "search", "trace"} \cup Answers
    /\ DOMAIN dist \subseteq graph.nodes
    /\ dist \in [DOMAIN dist -> Nat]
    /\ visited \subseteq DOMAIN dist
    /\ heap \subseteq [node : DOMAIN dist, dist : Nat]

(* What dist, prev and visited say of each other, from the first step on.     *)
Tree ==
    /\ source \in DOMAIN dist /\ dist[source] = 0
    /\ DOMAIN prev = DOMAIN dist \ {source}
    /\ \A m \in DOMAIN prev :
          /\ prev[m] \in visited
          /\ <<prev[m], m>> \in graph.edges
          /\ dist[m] = Via(prev[m], m)

(* The edges of settled waypoints are relaxed.                                *)
Relaxed ==
    \A m \in visited, n \in graph.nodes :
        <<m, n>> \in graph.edges => n \in DOMAIN dist /\ dist[n] <= Via(m, n)

(* What the heap says of the frontier.                                        *)
Frontier ==
    /\ \A n \in DOMAIN dist \ visited : Entry(n, dist[n]) \in heap
    /\ \A entry \in heap : dist[entry.node] <= entry.dist
    /\ \A m \in visited, entry \in heap : dist[m] <= entry.dist

(* While the loop runs.                                                       *)
Searching ==
    /\ source \in graph.nodes /\ target \in graph.nodes /\ source # target
    /\ target \notin visited
    /\ Tree /\ Relaxed /\ Frontier

(* What is known of the lengths when the target has surfaced.                 *)
Feasible ==
    /\ target \in DOMAIN dist
    /\ \A m, n \in graph.nodes :
          <<m, n>> \in graph.edges => Reached(n) <= Reached(m) + graph.metres[<<m, n>>]

(* The end of the route that is traced already.                               *)
Traced ==
    /\ route \in Seq(graph.nodes) /\ route # << >>
    /\ route[1] \in DOMAIN dist
    /\ route[Len(route)] = target
    /\ \A i \in 1..(Len(route) - 1) :
          /\ <<route[i], route[i + 1]>> \in graph.edges
          /\ dist[route[i + 1]] = Via(route[i], route[i + 1])

SearchInv ==
    /\ Types
    /\ search = "search" => Searching /\ route = <<target>>
    /\ search = "trace" => Tree /\ Feasible /\ Traced
    /\ RouteIsCertified
-----------------------------------------------------------------------------
(* Routes.                                                                    *)
LEMMA RouteOfOne ==
    ASSUME NEW S, NEW n \in S
    PROVE  <<n>> \in Seq(S) /\ Len(<<n>>) = 1 /\ <<n>>[1] = n
  OBVIOUS

LEMMA LongerRoute ==
    ASSUME NEW S, NEW n \in S, NEW r \in Seq(S)
    PROVE  /\ <<n>> \o r \in Seq(S) /\ <<n>> \o r # << >>
           /\ Len(<<n>> \o r) = Len(r) + 1
           /\ (<<n>> \o r)[1] = n
           /\ \A i \in 1..Len(r) : (<<n>> \o r)[i + 1] = r[i]
<1>1. <<n>> \in Seq(S) /\ Len(<<n>>) = 1 /\ <<n>>[1] = n
  BY RouteOfOne
<1>2. Len(r) \in Nat
  OBVIOUS
<1>3. <<n>> \o r \in Seq(S) /\ Len(<<n>> \o r) = 1 + Len(r)
  BY <1>1, <1>2, ConcatProperties
<1>4. \A i \in 1..(1 + Len(r)) : (<<n>> \o r)[i] = IF i <= 1 THEN <<n>>[i] ELSE r[i - 1]
  BY <1>1, <1>2, ConcatProperties
<1>5. (<<n>> \o r)[1] = n
  BY <1>1, <1>2, <1>4
<1>6. ASSUME NEW i \in 1..Len(r) PROVE (<<n>> \o r)[i + 1] = r[i]
  <2>1. i + 1 \in 1..(1 + Len(r)) /\ ~(i + 1 <= 1) /\ (i + 1) - 1 = i
    BY <1>2
  <2> QED
    BY <1>4, <2>1
<1>7. <<n>> \o r # << >>
  BY <1>2, <1>3
<1> QED
  BY <1>2, <1>3, <1>5, <1>6, <1>7

(* The heap yields a waypoint with its distance; those settled before are no  *)
(* farther, those that are not are no nearer.                                 *)
LEMMA Yield ==
    ASSUME Types, Searching, NEW entry \in heap, Least(entry), entry.node \notin visited
    PROVE  /\ entry.node \in DOMAIN dist
           /\ dist[entry.node] = entry.dist
           /\ \A n \in DOMAIN dist \ visited : entry.dist <= dist[n]
           /\ \A m \in visited : dist[m] <= entry.dist
<1>1. entry.node \in DOMAIN dist /\ entry.dist \in Nat
  BY DEF Types
<1>2. \A n \in DOMAIN dist \ visited : entry.dist <= dist[n]
  <2> SUFFICES ASSUME NEW n \in DOMAIN dist, n \notin visited PROVE entry.dist <= dist[n]
    OBVIOUS
  <2>1. Entry(n, dist[n]) \in heap
    BY DEF Searching, Frontier
  <2>2. entry.dist <= Entry(n, dist[n]).dist
    BY <2>1 DEF Least
  <2> QED
    BY <2>2 DEF Entry
<1>3. dist[entry.node] <= entry.dist
  BY DEF Searching, Frontier
<1>4. entry.dist <= dist[entry.node]
  BY <1>1, <1>2
<1>5. dist[entry.node] \in Nat
  BY <1>1 DEF Types
<1>6. \A m \in visited : dist[m] <= entry.dist
  BY DEF Searching, Frontier
<1> QED
  BY <1>1, <1>2, <1>3, <1>4, <1>5, <1>6

(* Relaxing the edges of the next waypoint touches no settled one.            *)
LEMMA SettledStays ==
    ASSUME Types, Searching, NEW entry \in heap, Least(entry), entry.node \notin visited,
           NEW m \in visited \cup {entry.node, source}
    PROVE  m \notin Improved(entry.node)
<1> DEFINE n == entry.node
<1>1. n \in DOMAIN dist /\ dist[n] = entry.dist /\ (\A v \in visited : dist[v] <= entry.dist)
  BY Yield
<1>2. ASSUME <<n, m>> \in graph.edges PROVE graph.metres[<<n, m>>] \in Nat
  BY <1>2 DEF Types, IsGraph
<1>3. m \in DOMAIN dist /\ dist[m] <= dist[n] /\ dist[m] \in Nat /\ dist[n] \in Nat
  <2>1. CASE m \in visited \cup {n}
    BY <1>1, <2>1 DEF Types
  <2>2. CASE m = source
    BY <1>1, <2>2 DEF Types, Searching, Tree
  <2> QED
    BY <2>1, <2>2
<1> QED
  BY <1>2, <1>3 DEF Improved, Via

(* What the step that settles the next waypoint does, waypoint by waypoint.   *)
LEMMA Relaxing ==
    ASSUME Types, Searching, NEW entry \in heap, Settle(entry)
    PROVE  LET n == entry.node
               better == Improved(n)
           IN /\ n \in DOMAIN dist /\ n \notin visited /\ n # target
              /\ dist[n] = entry.dist
              /\ better \subseteq graph.nodes
              /\ DOMAIN dist' = DOMAIN dist \cup better
              /\ DOMAIN prev' = DOMAIN prev \cup better
              /\ \A m \in better : /\ <<n, m>> \in graph.edges
                                   /\ dist'[m] = Via(n, m)
                                   /\ Via(n, m) \in Nat
                                   /\ dist[n] <= Via(n, m)
                                   /\ m \in DOMAIN dist => Via(n, m) <= dist[m]
                                   /\ prev'[m] = n
              /\ \A m \in DOMAIN dist \ better : dist'[m] = dist[m]
              /\ \A m \in DOMAIN prev \ better : prev'[m] = prev[m]
              /\ \A m \in visited \cup {n, source} : m \notin better
              /\ \A m \in DOMAIN dist : dist[m] \in Nat
              /\ \A m \in visited : dist[m] <= dist[n]
<1> DEFINE n == entry.node
           better == Improved(n)
<1>1. Least(entry) /\ n \notin visited /\ n # target
  BY DEF Settle
<1>2. n \in DOMAIN dist /\ dist[n] = entry.dist /\ \A m \in visited : dist[m] <= dist[n]
  BY <1>1, Yield
<1>3. \A m \in visited \cup {n, source} : m \notin better
  BY <1>1, SettledStays
<1>4. dist' = [m \in DOMAIN dist \cup better |-> IF m \in better THEN Via(n, m) ELSE dist[m]]
  BY DEF Settle
<1>5. prev' = [m \in DOMAIN prev \cup better |-> IF m \in better THEN n ELSE prev[m]]
  BY DEF Settle
<1>6. \A m \in DOMAIN dist : dist[m] \in Nat
  BY DEF Types
<1>7. better \subseteq graph.nodes
  BY DEF Improved
<1>8. \A m \in better : /\ <<n, m>> \in graph.edges
                        /\ Via(n, m) \in Nat
                        /\ dist[n] <= Via(n, m)
                        /\ m \in DOMAIN dist => Via(n, m) <= dist[m]
  <2> SUFFICES ASSUME NEW m \in better
               PROVE  /\ <<n, m>> \in graph.edges
                      /\ Via(n, m) \in Nat
                      /\ dist[n] <= Via(n, m)
                      /\ m \in DOMAIN dist => Via(n, m) <= dist[m]
    OBVIOUS
  <2>1. <<n, m>> \in graph.edges /\ (m \in DOMAIN dist => Via(n, m) < dist[m])
    BY DEF Improved
  <2>2. graph.metres[<<n, m>>] \in Nat
    BY <2>1 DEF Types, IsGraph
  <2>3. dist[n] \in Nat
    BY <1>2, <1>6
  <2>4. Via(n, m) \in Nat /\ dist[n] <= Via(n, m)
    BY <2>2, <2>3 DEF Via
  <2> QED
    BY <2>1, <2>4, <1>6
<1>9. DOMAIN dist' = DOMAIN dist \cup better /\ DOMAIN prev' = DOMAIN prev \cup better
  BY <1>4, <1>5
<1>10. /\ \A m \in better : dist'[m] = Via(n, m) /\ prev'[m] = n
       /\ \A m \in DOMAIN dist \ better : dist'[m] = dist[m]
       /\ \A m \in DOMAIN prev \ better : prev'[m] = prev[m]
  BY <1>4, <1>5
<1> QED
  BY <1>1, <1>2, <1>3, <1>6, <1>7, <1>8, <1>9, <1>10

LEMMA SettleKeeps ==
    ASSUME SearchInv, NEW entry \in heap, Settle(entry)
    PROVE  SearchInv'
<1> DEFINE n == entry.node
           better == Improved(n)
<1>1. search = "search" /\ search' = search /\ graph' = graph /\ source' = source
      /\ target' = target /\ route' = route /\ visited' = visited \cup {n}
      /\ heap' = (heap \ {entry}) \cup {Entry(m, Via(n, m)) : m \in better}
  BY DEF Settle, Entry
<1>2. Types /\ Searching
  BY <1>1 DEF SearchInv
<1>3. /\ n \in DOMAIN dist /\ n \notin visited /\ n # target
      /\ dist[n] = entry.dist
      /\ better \subseteq graph.nodes
      /\ DOMAIN dist' = DOMAIN dist \cup better
      /\ DOMAIN prev' = DOMAIN prev \cup better
  BY <1>2, Relaxing
<1>4. /\ \A m \in better : /\ <<n, m>> \in graph.edges
                           /\ dist'[m] = Via(n, m)
                           /\ Via(n, m) \in Nat
                           /\ dist[n] <= Via(n, m)
                           /\ m \in DOMAIN dist => Via(n, m) <= dist[m]
                           /\ prev'[m] = n
  BY <1>2, Relaxing
<1>5. /\ \A m \in DOMAIN dist \ better : dist'[m] = dist[m]
      /\ \A m \in DOMAIN prev \ better : prev'[m] = prev[m]
      /\ \A m \in visited \cup {n, source} : m \notin better
      /\ \A m \in DOMAIN dist : dist[m] \in Nat
      /\ \A m \in visited : dist[m] <= dist[n]
  BY <1>2, Relaxing
<1>6. \A m \in DOMAIN dist' : dist'[m] \in Nat
  BY <1>3, <1>4, <1>5
<1>7. \A m \in DOMAIN dist : dist'[m] <= dist[m]
  <2> SUFFICES ASSUME NEW m \in DOMAIN dist PROVE dist'[m] <= dist[m]
    OBVIOUS
  <2>1. CASE m \in better
    BY <1>4, <2>1
  <2>2. CASE m \notin better
    <3>1. dist'[m] = dist[m] /\ dist[m] \in Nat
      BY <1>5, <2>2
    <3> QED
      BY <3>1
  <2> QED
    BY <2>1, <2>2
<1>8. \A m \in visited \cup {n} : m \in DOMAIN dist /\ dist'[m] = dist[m]
  BY <1>2, <1>3, <1>5 DEF Types
<1>9. \A m \in visited \cup {n} : \A k : Via(m, k)' = Via(m, k)
  BY <1>1, <1>8 DEF Via
<1> HIDE DEF n, better
<1>10. Types'
  <2>1. IsGraph(graph)' /\ DOMAIN dist' \subseteq graph'.nodes
    BY <1>1, <1>2, <1>3 DEF Types
  <2>2. dist' \in [DOMAIN dist' -> Nat]
    <3>1. dist' = [m \in DOMAIN dist' |-> dist'[m]]
      BY DEF Settle
    <3> QED
      BY <3>1, <1>6
  <2>3. visited' \subseteq DOMAIN dist'
    BY <1>1, <1>2, <1>3 DEF Types
  <2>4. heap' \subseteq [node : DOMAIN dist', dist : Nat]
    <3>1. heap \subseteq [node : DOMAIN dist', dist : Nat]
      BY <1>2, <1>3 DEF Types
    <3>2. \A m \in better : Entry(m, Via(n, m)) \in [node : DOMAIN dist', dist : Nat]
      BY <1>3, <1>4 DEF Entry
    <3> QED
      BY <1>1, <3>1, <3>2
  <2>5. search' \in {"idle", "search", "trace"} \cup Answers
    BY <1>1, <1>2 DEF Types
  <2> QED
    BY <2>1, <2>2, <2>3, <2>4, <2>5 DEF Types
<1>11. Tree'
  <2>1. source \in DOMAIN dist /\ dist[source] = 0 /\ DOMAIN prev = DOMAIN dist \ {source}
    BY <1>2 DEF Searching, Tree
  <2>2. source' \in DOMAIN dist' /\ dist'[source'] = 0
    BY <1>1, <1>3, <1>5, <2>1
  <2>3. DOMAIN prev' = DOMAIN dist' \ {source'}
    BY <1>1, <1>3, <1>5, <2>1
  <2>4. ASSUME NEW m \in DOMAIN prev'
        PROVE  /\ prev'[m] \in visited'
               /\ <<prev'[m], m>> \in graph'.edges
               /\ dist'[m] = dist'[prev'[m]] + graph'.metres[<<prev'[m], m>>]
    <3>1. CASE m \in better
      <4>1. prev'[m] = n /\ <<n, m>> \in graph.edges /\ dist'[m] = Via(n, m)
        BY <1>4, <3>1
      <4>2. Via(n, m)' = Via(n, m)
        BY <1>9
      <4> QED
        BY <1>1, <4>1, <4>2 DEF Via
    <3>2. CASE m \notin better
      <4>1. m \in DOMAIN prev /\ prev'[m] = prev[m]
        BY <1>3, <1>5, <3>2
      <4>2. prev[m] \in visited /\ <<prev[m], m>> \in graph.edges /\ dist[m] = Via(prev[m], m)
        BY <1>2, <4>1 DEF Searching, Tree
      <4>3. dist'[m] = dist[m]
        BY <1>5, <2>1, <3>2, <4>1
      <4>4. dist'[prev[m]] = dist[prev[m]]
        BY <1>8, <4>2
      <4> QED
        BY <1>1, <4>1, <4>2, <4>3, <4>4 DEF Via
    <3> QED
      BY <3>1, <3>2
  <2> QED
    BY <2>2, <2>3, <2>4 DEF Tree, Via
<1>12. Relaxed'
  <2> SUFFICES ASSUME NEW m \in visited', NEW k \in graph'.nodes, <<m, k>> \in graph'.edges
               PROVE  k \in DOMAIN dist' /\ dist'[k] <= Via(m, k)'
    BY DEF Relaxed
  <2>1. Via(m, k)' = Via(m, k)
    BY <1>1, <1>9
  <2>2. graph.metres[<<m, k>>] \in Nat
    BY <1>1, <1>2 DEF Types, IsGraph
  <2>3. k \in DOMAIN dist' /\ dist'[k] <= Via(m, k)
    <3>1. CASE m = n
      <4>1. dist[n] \in Nat /\ Via(n, k) \in Nat
        BY <1>3, <1>5, <2>2, <3>1 DEF Via
      <4>2. CASE k \in better
        BY <1>3, <1>4, <3>1, <4>1, <4>2
      <4>3. CASE k \notin better
        <5>1. k \in DOMAIN dist /\ ~(Via(n, k) < dist[k])
          BY <1>1, <3>1, <4>3 DEF better, Improved
        <5> QED
          BY <1>3, <1>5, <3>1, <4>1, <4>3, <5>1
      <4> QED
        BY <4>2, <4>3
    <3>2. CASE m \in visited
      <4>1. k \in DOMAIN dist /\ dist[k] <= Via(m, k)
        BY <1>1, <1>2, <3>2 DEF Searching, Relaxed
      <4>2. Via(m, k) \in Nat
        BY <1>2, <1>5, <2>2, <3>2 DEF Via, Types
      <4> QED
        BY <1>3, <1>5, <1>6, <1>7, <4>1, <4>2
    <3> QED
      BY <1>1, <3>1, <3>2
  <2> QED
    BY <2>1, <2>3 DEF Via
<1>13. Frontier'
  <2>1. ASSUME NEW m \in DOMAIN dist' \ visited' PROVE Entry(m, dist'[m]) \in heap'
    <3>1. CASE m \in better
      BY <1>1, <1>4, <3>1
    <3>2. CASE m \notin better
      <4>1. m \in DOMAIN dist \ visited /\ m # n /\ dist'[m] = dist[m]
        BY <1>1, <1>3, <1>5, <3>2
      <4>2. Entry(m, dist[m]) \in heap
        BY <1>2, <4>1 DEF Searching, Frontier
      <4>3. Entry(m, dist[m]) # entry
        BY <4>1 DEF Entry, n
      <4> QED
        BY <1>1, <4>1, <4>2, <4>3
    <3> QED
      BY <3>1, <3>2
  <2>2. ASSUME NEW e \in heap'
        PROVE  /\ dist'[e.node] <= e.dist
               /\ \A m \in visited' : dist'[m] <= e.dist
    <3>1. CASE e \in heap
      <4>1. e.node \in DOMAIN dist /\ e.dist \in Nat /\ dist[e.node] <= e.dist
        BY <1>2, <3>1 DEF Types, Searching, Frontier
      <4>2. dist'[e.node] <= e.dist
        BY <1>3, <1>5, <1>6, <1>7, <4>1
      <4>3. \A m \in visited : dist[m] <= e.dist
        BY <1>2, <3>1 DEF Searching, Frontier
      <4>4. dist[n] <= e.dist
        BY <1>3, <3>1 DEF Settle, Least
      <4> QED
        BY <1>1, <1>8, <4>2, <4>3, <4>4
    <3>2. CASE \E k \in better : e = Entry(k, Via(n, k))
      <4> PICK k \in better : e = Entry(k, Via(n, k))
        BY <3>2
      <4>1. e.node = k /\ e.dist = Via(n, k)
        BY DEF Entry
      <4>2. dist'[k] = Via(n, k) /\ Via(n, k) \in Nat /\ dist[n] <= Via(n, k)
        BY <1>4
      <4>3. \A m \in visited' : dist'[m] = dist[m] /\ dist[m] \in Nat /\ dist[m] <= dist[n]
        BY <1>1, <1>5, <1>8
      <4>4. \A m \in visited' : dist'[m] <= Via(n, k)
        <5>1. dist[n] \in Nat
          BY <1>3, <1>5
        <5> QED
          BY <4>2, <4>3, <5>1
      <4> QED
        BY <4>1, <4>2, <4>4
    <3> QED
      BY <1>1, <3>1, <3>2
  <2> QED
    BY <2>1, <2>2 DEF Frontier
<1>14. Searching' /\ route' = <<target>>'
  BY <1>1, <1>2, <1>3, <1>11, <1>12, <1>13 DEF Searching, SearchInv
<1>15. RouteIsCertified'
  BY <1>1 DEF RouteIsCertified
<1> QED
  BY <1>1, <1>10, <1>14, <1>15 DEF SearchInv

(* An outdated entry tells nothing.                                           *)
LEMMA SkipKeeps ==
    ASSUME SearchInv, NEW entry \in heap, Skip(entry)
    PROVE  SearchInv'
<1>1. search = "search" /\ entry.node \in visited /\ heap' = heap \ {entry}
      /\ UNCHANGED <<search, graph, source, target, dist, estimated, prev, visited, route>>
  BY DEF Skip
<1>2. Types' /\ Tree' /\ Relaxed'
  BY <1>1 DEF SearchInv, Searching, Types, Tree, Relaxed, Via
<1>3. Frontier'
  <2>1. ASSUME NEW n \in DOMAIN dist \ visited PROVE Entry(n, dist[n]) \in heap'
    <3>1. Entry(n, dist[n]) \in heap
      BY <1>1 DEF SearchInv, Searching, Frontier
    <3>2. Entry(n, dist[n]).node = n
      BY DEF Entry
    <3> QED
      BY <1>1, <3>1, <3>2
  <2>2. \A e \in heap' : dist[e.node] <= e.dist /\ \A m \in visited : dist[m] <= e.dist
    BY <1>1 DEF SearchInv, Searching, Frontier
  <2> QED
    BY <1>1, <2>1, <2>2 DEF Frontier
<1>4. Searching' /\ route' = <<target>>'
  BY <1>1, <1>2, <1>3 DEF Searching, SearchInv
<1>5. RouteIsCertified'
  BY <1>1 DEF RouteIsCertified
<1> QED
  BY <1>1, <1>2, <1>4, <1>5 DEF SearchInv

(* When the target surfaces no waypoint is left from which it is nearer.      *)
LEMMA FinishKeeps ==
    ASSUME SearchInv, Finish
    PROVE  SearchInv'
<1>1. search = "search" /\ search' = "trace"
      /\ UNCHANGED <<graph, source, target, dist, estimated, prev, visited, heap, route>>
  BY DEF Finish
<1>2. Types /\ Searching /\ route = <<target>>
  BY <1>1 DEF SearchInv
<1> PICK entry \in heap : Least(entry) /\ entry.node = target /\ target \notin visited
  BY DEF Finish
<1>3. /\ target \in DOMAIN dist
      /\ dist[target] \in Nat
      /\ \A n \in DOMAIN dist \ visited : dist[target] <= dist[n]
  BY <1>2, Yield DEF Types
<1>4. \A n : n \in DOMAIN dist => dist[n] \in Nat
  BY <1>2 DEF Types
<1>5. Feasible
  <2> SUFFICES ASSUME NEW m \in graph.nodes, NEW n \in graph.nodes, <<m, n>> \in graph.edges
               PROVE  Reached(n) <= Reached(m) + graph.metres[<<m, n>>]
    BY <1>3 DEF Feasible
  <2>1. graph.metres[<<m, n>>] \in Nat
    BY <1>2 DEF Types, IsGraph
  <2>2. Reached(n) \in Nat /\ Reached(n) <= dist[target]
    BY <1>3, <1>4 DEF Reached
  <2>3. CASE m \in DOMAIN dist /\ dist[m] < dist[target]
    <3>1. m \in visited /\ Reached(m) = dist[m]
      BY <1>3, <1>4, <2>3 DEF Reached
    <3>2. n \in DOMAIN dist /\ dist[n] <= Via(m, n)
      BY <1>2, <3>1 DEF Searching, Relaxed
    <3>3. Reached(n) <= dist[n]
      BY <1>3, <1>4, <3>2 DEF Reached
    <3> QED
      BY <1>3, <1>4, <2>1, <2>2, <2>3, <3>1, <3>2, <3>3 DEF Via
  <2>4. CASE ~(m \in DOMAIN dist /\ dist[m] < dist[target])
    <3>1. Reached(m) = dist[target]
      BY <2>4 DEF Reached
    <3> QED
      BY <1>3, <2>1, <2>2, <3>1
  <2> QED
    BY <2>3, <2>4
<1>6. Traced
  <2>1. target \in graph.nodes
    BY <1>2 DEF Searching
  <2>2. route \in Seq(graph.nodes) /\ Len(route) = 1 /\ route[1] = target
    BY <1>2, <2>1, RouteOfOne, Zenon
  <2>3. route # << >>
    BY <2>2
  <2> QED
    BY <1>3, <2>2, <2>3 DEF Traced
<1>7. Types' /\ Tree' /\ Feasible' /\ Traced'
  BY <1>1, <1>2, <1>5, <1>6 DEF Types, Tree, Feasible, Traced, Searching, Via, Reached
<1>8. RouteIsCertified'
  BY <1>1 DEF RouteIsCertified
<1> QED
  BY <1>1, <1>7, <1>8 DEF SearchInv

(* When the heap is empty every reached waypoint is settled, the target not.  *)
LEMMA ExhaustKeeps ==
    ASSUME SearchInv, Exhaust
    PROVE  SearchInv'
<1>1. search = "search" /\ heap = {}
      /\ UNCHANGED <<graph, source, target, dist, estimated, prev, visited, heap, route>>
  BY DEF Exhaust
<1>2. Types /\ Searching
  BY <1>1 DEF SearchInv
<1>3. DOMAIN dist \subseteq visited
  BY <1>1, <1>2 DEF Searching, Frontier
<1>4. target \notin DOMAIN dist
  BY <1>2, <1>3 DEF Searching
<1>5. search' = "no route"
  BY <1>4 DEF Exhaust
<1>6. Types'
  BY <1>1, <1>2, <1>5 DEF Types, Answers
<1>7. RouteIsCertified'
  BY <1>1, <1>2, <1>3, <1>4, <1>5 DEF RouteIsCertified, Searching, Tree, Relaxed
<1> QED
  BY <1>5, <1>6, <1>7 DEF SearchInv

(* The route grows by a leg of the tree.                                      *)
LEMMA TraceKeeps ==
    ASSUME SearchInv, Trace
    PROVE  SearchInv'
<1> DEFINE p == prev[route[1]]
<1>1. search = "trace" /\ route' = <<prev[Head(route)]>> \o route
      /\ UNCHANGED <<search, graph, source, target, dist, estimated, prev, visited, heap>>
      /\ Head(route) \in DOMAIN prev
  BY DEF Trace
<1>2. Types /\ Tree /\ Feasible /\ Traced
  BY <1>1 DEF SearchInv
<1>3. route \in Seq(graph.nodes) /\ route # << >> /\ Head(route) = route[1] /\ Len(route) \in Nat \ {0}
  BY <1>2 DEF Traced
<1>4. /\ p \in DOMAIN dist /\ p \in graph.nodes
      /\ <<p, route[1]>> \in graph.edges
      /\ dist[route[1]] = Via(p, route[1])
  BY <1>1, <1>2, <1>3 DEF Tree, Types
<1> HIDE DEF p
<1>5. route' = <<p>> \o route
  BY <1>1, <1>3 DEF p
<1>6. /\ route' \in Seq(graph.nodes) /\ route' # << >>
      /\ Len(route') = Len(route) + 1
      /\ route'[1] = p
      /\ \A i \in 1..Len(route) : route'[i + 1] = route[i]
  <2>1. p \in graph.nodes /\ route \in Seq(graph.nodes)
    BY <1>3, <1>4
  <2>2. /\ <<p>> \o route \in Seq(graph.nodes) /\ <<p>> \o route # << >>
        /\ Len(<<p>> \o route) = Len(route) + 1
        /\ (<<p>> \o route)[1] = p
    <3> DEFINE nodes == graph.nodes
    <3>1. p \in nodes /\ route \in Seq(nodes)
      BY <2>1
    <3> HIDE DEF nodes
    <3>2. <<p>> \o route \in Seq(nodes) /\ <<p>> \o route # << >>
      BY <3>1, LongerRoute, Zenon
    <3>3. Len(<<p>> \o route) = Len(route) + 1
      BY <3>1, LongerRoute, Zenon
    <3>4. (<<p>> \o route)[1] = p
      BY <3>1, LongerRoute, Zenon
    <3> QED BY <3>2, <3>3, <3>4 DEF nodes
  <2>3. \A i \in 1..Len(route) : (<<p>> \o route)[i + 1] = route[i]
    BY <2>1, LongerRoute
  <2> QED
    BY <1>5, <2>2, <2>3
<1>7. route'[Len(route')] = target
  BY <1>2, <1>3, <1>6 DEF Traced
<1>8. ASSUME NEW i \in 1..(Len(route') - 1)
      PROVE  /\ <<route'[i], route'[i + 1]>> \in graph.edges
             /\ dist[route'[i + 1]] = Via(route'[i], route'[i + 1])
  <2>1. i \in 1..Len(route) /\ route'[i + 1] = route[i]
    BY <1>3, <1>6
  <2>2. CASE i = 1
    BY <1>4, <1>6, <2>1, <2>2
  <2>3. CASE i # 1
    <3>1. i - 1 \in 1..(Len(route) - 1) /\ route'[i] = route[i - 1] /\ (i - 1) + 1 = i
      BY <1>3, <1>6, <2>1, <2>3
    <3>2. /\ <<route[i - 1], route[i]>> \in graph.edges
          /\ dist[route[i]] = Via(route[i - 1], route[i])
      BY <1>2, <3>1 DEF Traced
    <3> QED
      BY <2>1, <3>1, <3>2
  <2> QED
    BY <2>2, <2>3
<1>9. Traced'
  BY <1>1, <1>4, <1>6, <1>7, <1>8 DEF Traced, Via
<1>10. Types' /\ Tree' /\ Feasible' /\ RouteIsCertified'
  BY <1>1, <1>2 DEF Types, Tree, Feasible, Via, Reached, RouteIsCertified
<1> QED
  BY <1>1, <1>9, <1>10 DEF SearchInv

LEMMA ReturnKeeps ==
    ASSUME SearchInv, Return
    PROVE  SearchInv'
<1>1. search = "trace" /\ search' = "routed" /\ Head(route) = source
      /\ UNCHANGED <<graph, source, target, dist, estimated, prev, visited, heap, route>>
  BY DEF Return
<1>2. Types /\ Tree /\ Feasible /\ Traced
  BY <1>1 DEF SearchInv
<1>3. route[1] = source
  BY <1>1, <1>2 DEF Traced
<1>4. Types'
  BY <1>1, <1>2 DEF Types, Answers
<1>5. RouteIsCertified'
  BY <1>1, <1>2, <1>3 DEF RouteIsCertified, Tree, Feasible, Traced, Via, Reached
<1> QED
  BY <1>1, <1>4, <1>5 DEF SearchInv

(* No step of the search disturbs it.                                         *)
THEOREM SearchStepKeeps ==
    ASSUME SearchInv, SearchStep
    PROVE  SearchInv'
  BY SkipKeeps, SettleKeeps, FinishKeeps, ExhaustKeeps, TraceKeeps, ReturnKeeps DEF SearchStep

THEOREM RestKeeps ==
    ASSUME SearchInv, UNCHANGED searchVars
    PROVE  SearchInv'
<1>1. UNCHANGED <<search, graph, source, target, dist, estimated, prev, visited, heap, route>>
  BY DEF searchVars
<1>2. Types => Types'
  BY <1>1 DEF Types
<1>3. Searching => Searching'
  BY <1>1 DEF Searching, Tree, Relaxed, Frontier, Via
<1>4. Tree /\ Feasible /\ Traced => Tree' /\ Feasible' /\ Traced'
  BY <1>1 DEF Tree, Feasible, Traced, Via, Reached
<1>5. RouteIsCertified => RouteIsCertified'
  BY <1>1 DEF RouteIsCertified, Via, Reached
<1> QED BY <1>1, <1>2, <1>3, <1>4, <1>5 DEF SearchInv

(* A search begins with it.                                                   *)
THEOREM AskEstablishes ==
    ASSUME NEW g, NEW from, NEW to, IsGraph(g), Ask(g, from, to), from \in g.nodes
    PROVE  SearchInv'
<1>1. graph' = g /\ source' = from /\ target' = to /\ prev' = << >> /\ visited' = {}
      /\ heap' = {Entry(from, 0)} /\ route' = <<to>>
  BY DEF Ask, Entry
<1>2. DOMAIN dist' = {from} /\ dist'[from] = 0 /\ dist' = [n \in {from} |-> 0]
  BY DEF Ask
<1>3. search' = CASE {from, to} \subseteq g.nodes /\ from # to -> "search"
                  [] {from, to} \subseteq g.nodes /\ from = to -> "routed"
                  [] OTHER -> "unknown waypoint"
  BY DEF Ask
<1>4. search' \in {"search", "routed", "unknown waypoint"}
  BY <1>3
<1>5. Types'
  <2>1. IsGraph(graph)' /\ DOMAIN dist' \subseteq graph'.nodes
    BY <1>1, <1>2
  <2>2. dist' \in [DOMAIN dist' -> Nat]
    BY <1>2
  <2>3. visited' \subseteq DOMAIN dist'
    BY <1>1
  <2>4. heap' \subseteq [node : DOMAIN dist', dist : Nat]
    BY <1>1, <1>2 DEF Entry
  <2>5. search' \in {"idle", "search", "trace"} \cup Answers
    BY <1>4 DEF Answers
  <2> QED
    BY <2>1, <2>2, <2>3, <2>4, <2>5 DEF Types
<1>6. ASSUME search' = "search" PROVE Searching'
  <2>1. {from, to} \subseteq g.nodes /\ from # to
    BY <1>3, <1>6
  <2>2. DOMAIN prev' = {}
    BY <1>1
  <2>3. Tree' /\ Relaxed'
    BY <1>1, <1>2, <2>2 DEF Tree, Relaxed
  <2>4. Frontier'
    BY <1>1, <1>2 DEF Frontier, Entry
  <2> QED
    BY <1>1, <2>1, <2>3, <2>4 DEF Searching
<1>7. ASSUME search' = "routed" PROVE RouteIsCertified'
  <2>1. from = to
    BY <1>3, <1>7
  <2>2. \A n : Reached(n)' = 0
    BY <1>1, <1>2, <2>1 DEF Reached
  <2>3. \A m, n \in g.nodes : <<m, n>> \in g.edges => g.metres[<<m, n>>] \in Nat
    BY DEF IsGraph
  <2> QED
    BY <1>1, <1>2, <1>7, <2>1, <2>2, <2>3 DEF RouteIsCertified
<1>8. search' # "routed" => RouteIsCertified'
  BY <1>4 DEF RouteIsCertified
<1> QED
  BY <1>1, <1>4, <1>5, <1>6, <1>7, <1>8 DEF SearchInv
-----------------------------------------------------------------------------
(* What a certified answer is worth: it is a shortest route, and it is flagged *)
(* as an estimate exactly if it has a leg that is one.                        *)

(* A label is flagged exactly if a leg of its walk along prev is an estimate. *)
TreeFlags ==
    /\ ~estimated[source]
    /\ \A m \in DOMAIN prev :
          estimated[m] <=> estimated[prev[m]] \/ <<prev[m], m>> \in graph.estimated

(* So it is along the legs of the route.                                      *)
RouteFlags ==
    \A i \in 1..(Len(route) - 1) :
        estimated[route[i + 1]] <=>
            estimated[route[i]] \/ <<route[i], route[i + 1]>> \in graph.estimated

Flagged ==
    /\ search # "idle" => IsFiniteSet(graph.nodes) /\ estimated \in [DOMAIN dist -> BOOLEAN]
    /\ search \in {"search", "trace"} => TreeFlags
    /\ search \in {"search", "trace", "routed", "no route"} => target \in graph.nodes
    /\ search \in {"search", "trace", "routed"} =>
          route \in Seq(graph.nodes) /\ route # << >> /\ RouteFlags
    /\ search = "routed" => ~estimated[source] /\ {source, target} \subseteq DOMAIN dist
-----------------------------------------------------------------------------
(* Numbers have a least one: what replaces induction here.                    *)
LEMMA LeastOf ==
    ASSUME NEW T \in SUBSET Nat, T # {}
    PROVE  \E x \in T : \A y \in T : x <= y
<1>1. PICK x \in T : \A y \in T : <<y, x>> \notin OpToRel(<, Nat)
  BY NatLessThanWellFounded, WFMin, Zenon
<1>2. \A y \in T : ~(y < x)
  BY <1>1 DEF OpToRel
<1> QED BY <1>2

(* A set of numbers that has the first and with every one the next has all.   *)
LEMMA Climb ==
    ASSUME NEW from \in Nat, NEW upTo \in Nat, NEW S, from \in S,
           \A i \in from..upTo : i \in S /\ i < upTo => i + 1 \in S
    PROVE  from..upTo \subseteq S
<1> SUFFICES ASSUME (from..upTo) \ S # {} PROVE FALSE
  OBVIOUS
<1>1. (from..upTo) \ S \in SUBSET Nat
  OBVIOUS
<1> PICK x \in (from..upTo) \ S : \A y \in (from..upTo) \ S : x <= y
  BY <1>1, LeastOf, Zenon
<1>2. x \in from..upTo /\ x \notin S /\ x # from /\ x \in Nat
  OBVIOUS
<1>3. x - 1 \in from..upTo /\ ~(x <= x - 1) /\ x - 1 < upTo /\ (x - 1) + 1 = x
  BY <1>2
<1>4. x - 1 \in S
  BY <1>3
<1> QED BY <1>2, <1>3, <1>4

(* The recursion that defines the lengths of the walks has a solution.        *)
SolvesTo(k, f, g, from) ==
    f = [legs \in 0..k |-> IF legs = 0 THEN WithoutLegs(g, from) ELSE OneLegMore(g, f[legs - 1])]

LEMMA OneStepFurther ==
    ASSUME NEW k \in Nat, NEW g, NEW from, NEW f, SolvesTo(k, f, g, from)
    PROVE  \E h : SolvesTo(k + 1, h, g, from)
<1> DEFINE last == OneLegMore(g, f[k])
           h == [legs \in 0..(k + 1) |-> IF legs = k + 1 THEN last ELSE f[legs]]
<1>1. \A legs \in 0..k : f[legs] = IF legs = 0 THEN WithoutLegs(g, from) ELSE OneLegMore(g, f[legs - 1])
  <2>1. f = [legs \in 0..k |-> IF legs = 0 THEN WithoutLegs(g, from) ELSE OneLegMore(g, f[legs - 1])]
    BY Zenon DEF SolvesTo
  <2> QED BY <2>1, Zenon
<1>2. \A legs \in 0..(k + 1) : h[legs] = IF legs = k + 1 THEN last ELSE f[legs]
  BY Zenon
<1> HIDE DEF h, last
<1>3. ASSUME NEW legs \in 0..(k + 1)
      PROVE  h[legs] = IF legs = 0 THEN WithoutLegs(g, from) ELSE OneLegMore(g, h[legs - 1])
  <2>1. CASE legs = k + 1
    <3>1. h[legs] = last /\ legs # 0 /\ legs - 1 = k /\ k \in 0..(k + 1) /\ k # k + 1
      BY <1>2, <2>1
    <3>2. h[legs - 1] = f[k]
      BY <1>2, <3>1, Zenon
    <3> QED BY <3>1, <3>2, Zenon DEF last
  <2>2. CASE legs # k + 1
    <3>1. legs \in 0..k /\ (legs # 0 => legs - 1 \in 0..(k + 1) /\ legs - 1 # k + 1)
      BY <2>2
    <3>2. h[legs] = f[legs] /\ (legs # 0 => h[legs - 1] = f[legs - 1])
      BY <1>2, <2>2, <3>1, Zenon
    <3> QED BY <1>1, <3>1, <3>2, Zenon
  <2> QED BY <2>1, <2>2
<1>4. h = [legs \in 0..(k + 1) |-> h[legs]]
  BY Zenon DEF h
<1>5. SolvesTo(k + 1, h, g, from)
  BY <1>3, <1>4, Zenon DEF SolvesTo
<1> QED BY <1>5

LEMMA WalksSolve ==
    ASSUME NEW k \in Nat, NEW g, NEW from
    PROVE  \E f : SolvesTo(k, f, g, from)
<1> DEFINE S == {i \in Nat : \E f : SolvesTo(i, f, g, from)}
<1>1. 0 \in S
  <2> DEFINE f == [legs \in 0..0 |-> WithoutLegs(g, from)]
  <2>1. \A legs \in 0..0 : legs = 0
    OBVIOUS
  <2>2. f = [legs \in 0..0 |-> IF legs = 0 THEN WithoutLegs(g, from) ELSE OneLegMore(g, f[legs - 1])]
    BY <2>1, Zenon
  <2>3. SolvesTo(0, f, g, from)
    BY <2>2, Zenon DEF SolvesTo
  <2>4. 0 \in Nat
    OBVIOUS
  <2> QED BY <2>3, <2>4, Zenon
<1>2. \A i \in 0..k : i \in S /\ i < k => i + 1 \in S
  <2> SUFFICES ASSUME NEW i \in 0..k, i \in S PROVE i + 1 \in S
    BY Zenon
  <2>1. i \in Nat /\ i + 1 \in Nat
    OBVIOUS
  <2>2. PICK f : SolvesTo(i, f, g, from)
    BY Zenon
  <2>3. \E h : SolvesTo(i + 1, h, g, from)
    BY <2>1, <2>2, OneStepFurther, Zenon
  <2> QED BY <2>1, <2>3, Zenon
<1> HIDE DEF S
<1>3. 0..k \subseteq S
  BY <1>1, <1>2, Climb, 0 \in Nat, Zenon
<1>4. k \in S
  BY <1>3
<1> QED BY <1>4 DEF S

(* So the lengths of the walks are what the recursion says.                   *)
LEMMA WalksAreSolved ==
    ASSUME NEW g, NEW from, IsFiniteSet(g.nodes)
    PROVE  \E f : /\ SolvesTo(Cardinality(g.nodes), f, g, from)
                  /\ WalkLengths(g, from) = f[Cardinality(g.nodes)]
<1> DEFINE k == Cardinality(g.nodes)
           f == CHOOSE h : SolvesTo(k, h, g, from)
<1>1. k \in Nat
  BY FS_CardinalityType
<1>2. SolvesTo(k, f, g, from)
  BY <1>1, WalksSolve, Zenon
<1>3. WalkLengths(g, from) = f[k]
  BY Zenon DEF WalkLengths, SolvesTo
<1> QED BY <1>2, <1>3, Zenon

(* Whatever holds of the source at 0 and, with a waypoint at a distance, of   *)
(* those its edges lead to holds of every walk.                               *)
LEMMA WalksStayIn ==
    ASSUME NEW g, IsGraph(g), IsFiniteSet(g.nodes), NEW from,
           NEW Good, Good \subseteq g.nodes \X Nat, from \in g.nodes => <<from, 0>> \in Good,
           \A m, n \in g.nodes : \A d \in Nat :
              <<m, n>> \in g.edges /\ <<m, d>> \in Good => <<n, d + g.metres[<<m, n>>]>> \in Good,
           NEW n \in g.nodes, NEW d \in WalkLengths(g, from)[n]
    PROVE  <<n, d>> \in Good
<1> DEFINE k == Cardinality(g.nodes)
<1>1. k \in Nat
  BY FS_CardinalityType
<1> PICK f : SolvesTo(k, f, g, from) /\ WalkLengths(g, from) = f[k]
  BY WalksAreSolved, Zenon
<1> HIDE DEF k
<1>2. \A legs \in 0..k : f[legs] = IF legs = 0 THEN WithoutLegs(g, from) ELSE OneLegMore(g, f[legs - 1])
  <2>1. f = [legs \in 0..k |-> IF legs = 0 THEN WithoutLegs(g, from) ELSE OneLegMore(g, f[legs - 1])]
    BY Zenon DEF SolvesTo
  <2> QED BY <2>1, Zenon
<1> DEFINE S == {legs \in Nat : \A x \in g.nodes : \A e \in f[legs][x] : <<x, e>> \in Good}
<1>3. 0 \in S
  <2>1. 0 \in 0..k /\ 0 \in Nat
    BY <1>1
  <2>2. f[0] = WithoutLegs(g, from)
    BY <1>2, <2>1, Zenon
  <2>3. ASSUME NEW x \in g.nodes, NEW e \in f[0][x] PROVE <<x, e>> \in Good
    <3>1. f[0][x] = IF x = from THEN {0} ELSE {}
      BY <2>2, Zenon DEF WithoutLegs
    <3>2. x = from /\ e = 0
      BY <3>1
    <3> QED BY <3>2
  <2> QED BY <2>1, <2>3, Zenon
<1>4. \A i \in 0..k : i \in S /\ i < k => i + 1 \in S
  <2> SUFFICES ASSUME NEW i \in 0..k, i \in S, i < k PROVE i + 1 \in S
    BY Zenon
  <2>1. i \in Nat /\ i + 1 \in Nat /\ i + 1 \in 0..k /\ i + 1 # 0 /\ (i + 1) - 1 = i
    BY <1>1
  <2>2. f[i + 1] = OneLegMore(g, f[i])
    BY <1>2, <2>1, Zenon
  <2>3. \A x \in g.nodes : \A e \in f[i][x] : <<x, e>> \in Good
    BY Zenon
  <2>4. ASSUME NEW x \in g.nodes, NEW e \in f[i + 1][x] PROVE <<x, e>> \in Good
    <3>1. f[i + 1][x] = f[i][x] \cup
              UNION {{c + g.metres[<<m, x>>] : c \in f[i][m]} :
                        m \in {y \in g.nodes : <<y, x>> \in g.edges}}
      BY <2>2, Zenon DEF OneLegMore
    <3>2. CASE e \in f[i][x]
      BY <2>3, <3>2, Zenon
    <3>3. CASE e \notin f[i][x]
      <4>1. e \in UNION {{c + g.metres[<<m, x>>] : c \in f[i][m]} :
                            m \in {y \in g.nodes : <<y, x>> \in g.edges}}
        BY <3>1, <3>3, Zenon
      <4>2. PICK m \in {y \in g.nodes : <<y, x>> \in g.edges} :
                e \in {c + g.metres[<<m, x>>] : c \in f[i][m]}
        BY <4>1, Zenon
      <4>3. PICK c \in f[i][m] : e = c + g.metres[<<m, x>>]
        BY <4>2, Zenon
      <4>4. m \in g.nodes /\ <<m, x>> \in g.edges
        BY <4>2, Zenon
      <4>5. <<m, c>> \in Good
        BY <2>3, <4>3, <4>4, Zenon
      <4>6. c \in Nat
        BY <4>5
      <4> QED BY <4>3, <4>4, <4>5, <4>6, Zenon
    <3> QED BY <3>2, <3>3
  <2> QED BY <2>1, <2>4, Zenon
<1>5. k \in S
  <2> HIDE DEF S
  <2>1. 0..k \subseteq S
    BY <1>1, <1>3, <1>4, Climb, 0 \in Nat, Zenon
  <2>2. k \in 0..k
    BY <1>1
  <2> QED BY <2>1, <2>2
<1> QED BY <1>5, Zenon

(* No walk is shorter than certified labels say of its end.                   *)
LEMMA NoWalkIsShorter ==
    ASSUME SearchInv, Flagged, search = "routed"
    PROVE  \A d \in WalkLengths(graph, source)[target] : dist[target] <= d
<1> DEFINE Good == {p \in graph.nodes \X Nat : Reached(p[1]) <= p[2]}
<1>1. IsGraph(graph) /\ \A n : n \in DOMAIN dist => dist[n] \in Nat
  BY DEF SearchInv, Types
<1>2. /\ IsFiniteSet(graph.nodes)
      /\ source \in DOMAIN dist /\ target \in DOMAIN dist /\ target \in graph.nodes
  BY DEF Flagged
<1>3. \A n : Reached(n) \in Nat
  BY <1>1, <1>2 DEF Reached
<1>4. Good \subseteq graph.nodes \X Nat
  OBVIOUS
<1>5. source \in graph.nodes => <<source, 0>> \in Good
  <2>1. dist[source] = 0
    BY DEF SearchInv, RouteIsCertified
  <2>2. Reached(source) = 0
    BY <1>1, <1>2, <2>1 DEF Reached
  <2> QED BY <2>2
<1>6. ASSUME NEW m \in graph.nodes, NEW n \in graph.nodes, NEW c \in Nat,
             <<m, n>> \in graph.edges, <<m, c>> \in Good
      PROVE  <<n, c + graph.metres[<<m, n>>]>> \in Good
  <2> DEFINE leg == graph.metres[<<m, n>>]
  <2>1. leg \in Nat
    BY <1>1, <1>6 DEF IsGraph
  <2>2. Reached(n) <= Reached(m) + leg
    BY <1>6 DEF SearchInv, RouteIsCertified
  <2>3. Reached(m) <= c
    BY <1>6
  <2> HIDE DEF leg
  <2>4. c + leg \in Nat /\ Reached(n) <= c + leg
    BY <1>3, <2>1, <2>2, <2>3
  <2>5. <<n, c + leg>> \in Good
    BY <2>4
  <2> QED BY <2>5 DEF leg
<1>7. ASSUME NEW d \in WalkLengths(graph, source)[target] PROVE dist[target] <= d
  <2>1. <<target, d>> \in Good
    <3> HIDE DEF Good
    <3> QED BY <1>1, <1>2, <1>4, <1>5, <1>6, <1>7, WalksStayIn, Zenon
  <2>2. Reached(target) = dist[target]
    BY DEF Reached
  <2> QED BY <2>1, <2>2
<1> QED BY <1>7

(* Nor does a walk lead out of what was reached.                              *)
LEMMA NoWayOut ==
    ASSUME NEW g, IsGraph(g), IsFiniteSet(g.nodes), NEW from, NEW to \in g.nodes,
           NEW R \in SUBSET g.nodes, from \in R, to \notin R,
           \A m, n \in g.nodes : <<m, n>> \in g.edges /\ m \in R => n \in R
    PROVE  WalkLengths(g, from)[to] = {}
<1> DEFINE Good == R \X Nat
<1>1. Good \subseteq g.nodes \X Nat /\ <<from, 0>> \in Good
  OBVIOUS
<1>2. ASSUME NEW m \in g.nodes, NEW n \in g.nodes, NEW c \in Nat,
             <<m, n>> \in g.edges, <<m, c>> \in Good
      PROVE  <<n, c + g.metres[<<m, n>>]>> \in Good
  <2>1. g.metres[<<m, n>>] \in Nat
    BY <1>2 DEF IsGraph
  <2> QED BY <1>2, <2>1
<1>3. ASSUME NEW d \in WalkLengths(g, from)[to] PROVE FALSE
  <2>1. <<to, d>> \in Good
    <3> HIDE DEF Good
    <3> QED BY <1>1, <1>2, <1>3, WalksStayIn, Zenon
  <2> QED BY <2>1
<1> QED BY <1>3

LEMMA NoWalkIsThere ==
    ASSUME SearchInv, Flagged
    PROVE  search = "no route" => WalkLengths(graph, source)[target] = {}
<1>1. ASSUME search = "no route"
      PROVE  /\ IsGraph(graph) /\ IsFiniteSet(graph.nodes) /\ target \in graph.nodes
             /\ DOMAIN dist \in SUBSET graph.nodes
             /\ source \in DOMAIN dist /\ target \notin DOMAIN dist
             /\ \A m, n \in graph.nodes :
                   <<m, n>> \in graph.edges /\ m \in DOMAIN dist => n \in DOMAIN dist
  BY <1>1 DEF SearchInv, Types, Flagged, RouteIsCertified
<1> QED BY <1>1, NoWayOut, Zenon

(* The length of the route is what its labels add up to.                      *)
LEMMA RouteAddsUp ==
    ASSUME SearchInv, Flagged, search = "routed"
    PROVE  dist[target] = LengthOfRoute
<1> DEFINE last == Len(route)
           upTo(f) == [i \in 1..last |->
                          IF i = 1 THEN 0 ELSE f[i - 1] + graph.metres[<<route[i - 1], route[i]>>]]
           labels == [i \in 1..last |-> dist[route[i]]]
           sums == CHOOSE f : f = upTo(f)
<1>1. last \in Nat /\ last # 0 /\ route[1] = source /\ route[last] = target
  <2>1. route \in Seq(graph.nodes) /\ route # << >>
    BY DEF Flagged
  <2> QED BY <2>1 DEF SearchInv, RouteIsCertified
<1>2. /\ dist[source] = 0
      /\ \A i \in 1..(last - 1) :
            dist[route[i + 1]] = dist[route[i]] + graph.metres[<<route[i], route[i + 1]>>]
  BY DEF SearchInv, RouteIsCertified, Via
<1>3. LengthOfRoute = sums[last]
  BY Zenon DEF LengthOfRoute
<1> HIDE DEF last
<1>4. \A i \in 1..last : labels[i] = dist[route[i]]
  BY Zenon
<1> HIDE DEF labels
<1>5. ASSUME NEW i \in 1..last
      PROVE  labels[i] = IF i = 1 THEN 0
                         ELSE labels[i - 1] + graph.metres[<<route[i - 1], route[i]>>]
  <2>1. CASE i = 1
    BY <1>1, <1>2, <1>4, <2>1
  <2>2. CASE i # 1
    <3>1. i - 1 \in 1..(last - 1) /\ (i - 1) + 1 = i /\ i - 1 \in 1..last
      BY <1>1, <2>2
    <3>2. dist[route[i]] = dist[route[i - 1]] + graph.metres[<<route[i - 1], route[i]>>]
      BY <1>2, <3>1, Zenon
    <3> QED BY <1>4, <2>2, <3>1, <3>2, Zenon
  <2> QED BY <2>1, <2>2
<1>6. labels = upTo(labels)
  <2>1. labels = [i \in 1..last |-> labels[i]]
    BY Zenon DEF labels
  <2> QED BY <1>5, <2>1, Zenon
<1>7. sums = upTo(sums)
  <2> HIDE DEF upTo
  <2> QED BY <1>6, Zenon
<1>8. \A i \in 1..last :
          sums[i] = IF i = 1 THEN 0 ELSE sums[i - 1] + graph.metres[<<route[i - 1], route[i]>>]
  <2> HIDE DEF sums
  <2> QED BY <1>7, Zenon
<1> HIDE DEF sums, upTo
<1> DEFINE Same == {i \in Nat : sums[i] = labels[i]}
<1>9. 1 \in 1..last /\ 1 \in Nat
  BY <1>1
<1>10. 1 \in Same
  BY <1>5, <1>8, <1>9, Zenon
<1>11. \A i \in 1..last : i \in Same /\ i < last => i + 1 \in Same
  <2> SUFFICES ASSUME NEW i \in 1..last, i \in Same, i < last PROVE i + 1 \in Same
    BY Zenon
  <2>1. i + 1 \in 1..last /\ i + 1 # 1 /\ (i + 1) - 1 = i /\ i + 1 \in Nat
    BY <1>1
  <2>2. sums[i] = labels[i]
    BY Zenon
  <2>3. sums[i + 1] = sums[i] + graph.metres[<<route[i], route[i + 1]>>]
    <3>1. sums[i + 1] = sums[(i + 1) - 1] + graph.metres[<<route[(i + 1) - 1], route[i + 1]>>]
      BY <1>8, <2>1, Zenon
    <3> QED BY <2>1, <3>1, Zenon
  <2>4. labels[i + 1] = labels[i] + graph.metres[<<route[i], route[i + 1]>>]
    <3>1. labels[i + 1] =
              labels[(i + 1) - 1] + graph.metres[<<route[(i + 1) - 1], route[i + 1]>>]
      BY <1>5, <2>1, Zenon
    <3> QED BY <2>1, <3>1, Zenon
  <2>5. sums[i + 1] = labels[i + 1]
    BY <2>2, <2>3, <2>4, Zenon
  <2> QED BY <2>1, <2>5, Zenon
<1>12. last \in Same
  <2> HIDE DEF Same
  <2>1. 1..last \subseteq Same
    BY <1>1, <1>9, <1>10, <1>11, Climb, Zenon
  <2>2. last \in 1..last
    BY <1>1
  <2> QED BY <2>1, <2>2
<1>13. last \in 1..last
  BY <1>1
<1> QED BY <1>1, <1>3, <1>4, <1>12, <1>13, Zenon

(* The answer is flagged exactly if a leg of the route is an estimate.        *)
LEMMA RouteIsFlagged ==
    ASSUME SearchInv, Flagged, search = "routed"
    PROVE  estimated[target] = (Legs \cap graph.estimated # {})
<1> DEFINE last == Len(route)
           Guessed == {i \in 1..last : estimated[route[i]]}
           leg(i) == <<route[i], route[i + 1]>>
<1>1. last \in Nat /\ last # 0 /\ route[1] = source /\ route[last] = target
  <2>1. route \in Seq(graph.nodes) /\ route # << >>
    BY DEF Flagged
  <2> QED BY <2>1 DEF SearchInv, RouteIsCertified
<1>2. Legs = {leg(i) : i \in 1..(last - 1)}
  BY DEF Legs
<1>3. /\ \A i \in 1..(last - 1) :
            estimated[route[i + 1]] <=> estimated[route[i]] \/ leg(i) \in graph.estimated
      /\ ~estimated[source]
  BY Zenon DEF Flagged, RouteFlags
<1>4. estimated[target] \in BOOLEAN
  BY DEF Flagged
<1> HIDE DEF last, leg
<1>5. 1 \in 1..last /\ last \in 1..last
  BY <1>1
<1>6. 1 \notin Guessed /\ (last \in Guessed <=> estimated[target])
  BY <1>1, <1>3, <1>5, Zenon
<1>7. ASSUME NEW i \in 1..(last - 1)
      PROVE  /\ i \in 1..last /\ i + 1 \in 1..last
             /\ i + 1 \in Guessed <=> i \in Guessed \/ leg(i) \in graph.estimated
  <2>1. i \in 1..last /\ i + 1 \in 1..last
    BY <1>1
  <2> QED BY <1>3, <2>1, Zenon
<1> HIDE DEF Guessed
<1>8. ASSUME NEW i \in 1..(last - 1), leg(i) \in graph.estimated
      PROVE  last \in Guessed
  <2>1. i + 1 \in Guessed /\ i + 1 \in Nat
    BY <1>7, <1>8
  <2>2. \A j \in (i + 1)..last : j \in Guessed /\ j < last => j + 1 \in Guessed
    <3> SUFFICES ASSUME NEW j \in (i + 1)..last, j \in Guessed, j < last
                 PROVE  j + 1 \in Guessed
      BY Zenon
    <3>1. j \in 1..(last - 1)
      BY <1>1
    <3> QED BY <1>7, <3>1, Zenon
  <2>3. (i + 1)..last \subseteq Guessed
    BY <1>1, <2>1, <2>2, Climb, Zenon
  <2>4. last \in (i + 1)..last
    BY <1>1
  <2> QED BY <2>3, <2>4
<1>9. ASSUME last \in Guessed, \A i \in 1..(last - 1) : leg(i) \notin graph.estimated
      PROVE  FALSE
  <2> DEFINE Sure == {i \in Nat : i \notin Guessed}
  <2>1. 1 \in Sure /\ 1 \in Nat
    BY <1>6
  <2>2. \A j \in 1..last : j \in Sure /\ j < last => j + 1 \in Sure
    <3> SUFFICES ASSUME NEW j \in 1..last, j \in Sure, j < last PROVE j + 1 \in Sure
      BY Zenon
    <3>1. j \in 1..(last - 1) /\ j + 1 \in Nat
      BY <1>1
    <3>2. j + 1 \notin Guessed
      BY <1>7, <1>9, <3>1, Zenon
    <3> QED BY <3>1, <3>2
  <2> HIDE DEF Sure
  <2>3. 1..last \subseteq Sure
    BY <1>1, <2>1, <2>2, Climb, Zenon
  <2>4. last \in Sure
    BY <1>5, <2>3
  <2> QED BY <1>9, <2>4 DEF Sure
<1>10. last \in Guessed <=> Legs \cap graph.estimated # {}
  <2>1. Legs \cap graph.estimated # {} <=> \E i \in 1..(last - 1) : leg(i) \in graph.estimated
    BY <1>2
  <2> QED BY <1>8, <1>9, <2>1, Zenon
<1> QED BY <1>4, <1>6, <1>10, Zenon

(* So what the search answers is a shortest route.                            *)
LEMMA CertifiedIsShortest ==
    ASSUME SearchInv, Flagged
    PROVE  RouteIsShortest
<1>1. ASSUME search = "routed"
      PROVE  /\ route[1] = source /\ route[Len(route)] = target
             /\ Legs \subseteq graph.edges
  BY <1>1 DEF SearchInv, RouteIsCertified, Legs
<1> QED
  BY <1>1, NoWalkIsShorter, NoWalkIsThere, RouteAddsUp, RouteIsFlagged, Zenon
     DEF RouteIsShortest

(* The steps keep the flags.                                                  *)
LEMMA AskFlags ==
    ASSUME NEW g, NEW from, NEW to, IsFiniteSet(g.nodes), Ask(g, from, to)
    PROVE  Flagged'
<1>1. /\ graph' = g /\ source' = from /\ target' = to /\ prev' = << >> /\ route' = <<to>>
      /\ dist' = [n \in {from} |-> 0] /\ estimated' = [n \in {from} |-> FALSE]
  BY DEF Ask
<1>2. search' = CASE {from, to} \subseteq g.nodes /\ from # to -> "search"
                  [] {from, to} \subseteq g.nodes /\ from = to -> "routed"
                  [] OTHER -> "unknown waypoint"
  BY DEF Ask
<1>3. /\ search' \in {"search", "routed", "unknown waypoint"}
      /\ search' # "unknown waypoint" => to \in g.nodes
      /\ search' = "routed" => from = to
  BY <1>2
<1>4. DOMAIN dist' = {from} /\ DOMAIN prev' = {} /\ ~estimated'[from]
  <2>1. DOMAIN dist' = {from}
    BY <1>1
  <2>2. DOMAIN prev' = {}
    BY <1>1
  <2>3. from \in {from}
    OBVIOUS
  <2>4. ~estimated'[from]
    BY <1>1, <2>3, Zenon
  <2> QED BY <2>1, <2>2, <2>4
<1>5. estimated' \in [DOMAIN dist' -> BOOLEAN]
  <2>1. [n \in {from} |-> FALSE] \in [{from} -> BOOLEAN]
    OBVIOUS
  <2> QED BY <1>1, <1>4, <2>1, Zenon
<1>6. TreeFlags'
  BY <1>1, <1>4, Zenon DEF TreeFlags
<1>7. RouteFlags'
  <2>1. Len(<<to>>) = 1
    OBVIOUS
  <2>2. 1..(Len(route') - 1) = {}
    BY <1>1, <2>1
  <2> QED BY <2>2, Zenon DEF RouteFlags
<1>8. search' # "unknown waypoint" => route' \in Seq(g.nodes) /\ route' # << >>
  <2>1. ASSUME NEW N, to \in N PROVE <<to>> \in Seq(N) /\ <<to>> # << >>
    BY <2>1
  <2> QED BY <1>1, <1>3, <2>1, Zenon
<1> QED BY <1>1, <1>3, <1>4, <1>5, <1>6, <1>7, <1>8, Zenon DEF Flagged

LEMMA SettleFlags ==
    ASSUME SearchInv, Flagged, NEW entry \in heap, Settle(entry)
    PROVE  Flagged'
<1> DEFINE n == entry.node
           better == Improved(n)
           flag(m) == estimated[n] \/ <<n, m>> \in graph.estimated
<1>1. search = "search" /\ UNCHANGED <<search, graph, source, target, route>>
  BY DEF Settle
<1>2. Types /\ Searching
  BY <1>1 DEF SearchInv
<1>3. /\ n \in DOMAIN dist
      /\ DOMAIN dist' = DOMAIN dist \cup better
      /\ DOMAIN prev' = DOMAIN prev \cup better
      /\ \A m \in better : prev'[m] = n
      /\ \A m \in DOMAIN prev \ better : prev'[m] = prev[m]
      /\ \A m \in visited \cup {n, source} : m \notin better
  BY <1>2, Relaxing
<1>4. estimated' = [m \in DOMAIN dist \cup better |-> IF m \in better THEN flag(m) ELSE estimated[m]]
  BY DEF Settle
<1>5. estimated \in [DOMAIN dist -> BOOLEAN] /\ TreeFlags /\ route = <<target>>
  BY <1>1 DEF Flagged, SearchInv
<1>6. source \in DOMAIN dist /\ DOMAIN prev = DOMAIN dist \ {source} /\ visited \subseteq DOMAIN dist
      /\ \A m \in DOMAIN prev : prev[m] \in visited
  BY <1>2 DEF Searching, Tree, Types
<1> HIDE DEF n, better
<1>7. /\ \A m \in better : estimated'[m] = flag(m)
      /\ \A m \in DOMAIN dist \ better : estimated'[m] = estimated[m]
  BY <1>4, Zenon
<1>8. estimated' \in [DOMAIN dist' -> BOOLEAN]
  <2>1. \A m \in DOMAIN dist \cup better :
            (IF m \in better THEN flag(m) ELSE estimated[m]) \in BOOLEAN
    <3> SUFFICES ASSUME NEW m \in DOMAIN dist \cup better
                 PROVE  (IF m \in better THEN flag(m) ELSE estimated[m]) \in BOOLEAN
      OBVIOUS
    <3>1. CASE m \in better
      <4>1. flag(m) \in BOOLEAN
        OBVIOUS
      <4> QED BY <3>1, <4>1, Zenon
    <3>2. CASE m \notin better
      <4>1. m \in DOMAIN dist /\ estimated[m] \in BOOLEAN
        BY <1>5, <3>2
      <4> QED BY <3>2, <4>1, Zenon
    <3> QED BY <3>1, <3>2
  <2> QED BY <1>3, <1>4, <2>1, Zenon
<1>9. TreeFlags'
  <2>1. ~estimated'[source']
    <3>1. source \in DOMAIN dist \ better
      BY <1>3, <1>6
    <3>2. estimated'[source] = estimated[source]
      BY <1>7, <3>1, Zenon
    <3> QED BY <1>1, <1>5, <3>2, Zenon DEF TreeFlags
  <2>2. ASSUME NEW m \in DOMAIN prev'
        PROVE  estimated'[m] <=> estimated'[prev'[m]] \/ <<prev'[m], m>> \in graph'.estimated
    <3>1. CASE m \in better
      <4>1. prev'[m] = n /\ n \in DOMAIN dist \ better
        BY <1>3, <3>1
      <4>2. estimated'[n] = estimated[n] /\ estimated'[m] = flag(m)
        BY <1>7, <3>1, <4>1, Zenon
      <4> QED BY <1>1, <4>1, <4>2, Zenon
    <3>2. CASE m \notin better
      <4>1. m \in DOMAIN prev /\ prev'[m] = prev[m] /\ m \in DOMAIN dist \ better
        BY <1>3, <1>6, <3>2
      <4>2. prev[m] \in DOMAIN dist \ better
        BY <1>3, <1>6, <4>1
      <4>3. estimated'[m] = estimated[m] /\ estimated'[prev[m]] = estimated[prev[m]]
        BY <1>7, <4>1, <4>2, Zenon
      <4>4. estimated[m] <=> estimated[prev[m]] \/ <<prev[m], m>> \in graph.estimated
        BY <1>5, <4>1, Zenon DEF TreeFlags
      <4> QED BY <1>1, <4>1, <4>3, <4>4, Zenon
    <3> QED BY <3>1, <3>2
  <2> QED BY <2>1, <2>2, Zenon DEF TreeFlags
<1>10. RouteFlags'
  <2>1. Len(<<target>>) = 1
    OBVIOUS
  <2>2. 1..(Len(route') - 1) = {}
    BY <1>1, <1>5, <2>1
  <2> QED BY <2>2, Zenon DEF RouteFlags
<1>11. /\ IsFiniteSet(graph.nodes) /\ target \in graph.nodes
       /\ route \in Seq(graph.nodes) /\ route # << >>
  BY <1>1 DEF Flagged
<1> QED BY <1>1, <1>8, <1>9, <1>10, <1>11 DEF Flagged

(* A leg that is traced is flagged as the tree says.                          *)
LEMMA TraceFlags ==
    ASSUME SearchInv, SearchInv', Flagged, Trace
    PROVE  Flagged'
<1> DEFINE p == prev[route[1]]
<1>1. search = "trace" /\ route' = <<prev[Head(route)]>> \o route
      /\ UNCHANGED <<search, graph, source, target, dist, estimated, prev>>
      /\ Head(route) \in DOMAIN prev
  BY DEF Trace
<1>2. /\ route \in Seq(graph.nodes) /\ route # << >> /\ Head(route) = route[1]
      /\ Len(route) \in Nat \ {0}
  <2>1. route \in Seq(graph.nodes) /\ route # << >>
    BY <1>1 DEF Flagged
  <2>2. ASSUME NEW N, route \in Seq(N), route # << >>
        PROVE  Head(route) = route[1] /\ Len(route) \in Nat \ {0}
    BY <2>2
  <2> QED BY <2>1, <2>2, Zenon
<1>3. Types /\ Tree /\ TreeFlags /\ RouteFlags
  BY <1>1 DEF SearchInv, Flagged
<1>4. route[1] \in DOMAIN prev
  BY <1>1, <1>2
<1>5. p \in graph.nodes
  <2>1. p \in visited
    BY <1>3, <1>4, Zenon DEF Tree
  <2> QED BY <1>3, <2>1 DEF Types
<1>6. estimated[route[1]] <=> estimated[p] \/ <<p, route[1]>> \in graph.estimated
  BY <1>3, <1>4, Zenon DEF TreeFlags
<1> HIDE DEF p
<1>7. route' = <<p>> \o route
  BY <1>1, <1>2 DEF p
<1> DEFINE nodes == graph.nodes
           longer == <<p>> \o route
<1>8. p \in nodes /\ route \in Seq(nodes)
  BY <1>2, <1>5, Zenon
<1> HIDE DEF nodes
<1>9. /\ longer \in Seq(nodes) /\ longer # << >>
      /\ Len(longer) = Len(route) + 1
      /\ longer[1] = p
  <2>1. longer \in Seq(nodes) /\ longer # << >>
    BY <1>8, LongerRoute, Zenon
  <2>2. Len(longer) = Len(route) + 1
    BY <1>8, LongerRoute, Zenon
  <2>3. longer[1] = p
    BY <1>8, LongerRoute, Zenon
  <2> QED BY <2>1, <2>2, <2>3, Zenon
<1>10. \A i \in 1..Len(route) : longer[i + 1] = route[i]
  BY <1>8, LongerRoute
<1> HIDE DEF longer
<1>11. ASSUME NEW i \in 1..(Len(longer) - 1)
      PROVE  estimated[longer[i + 1]] <=>
                estimated[longer[i]] \/ <<longer[i], longer[i + 1]>> \in graph.estimated
  <2>1. i \in 1..Len(route)
    BY <1>2, <1>9
  <2>2. longer[i + 1] = route[i]
    BY <1>10, <2>1, Zenon
  <2>3. CASE i = 1
    <3>1. longer[i] = p /\ route[i] = route[1]
      BY <1>9, <2>3, Zenon
    <3> QED BY <1>6, <2>2, <3>1, Zenon
  <2>4. CASE i # 1
    <3>1. i - 1 \in 1..(Len(route) - 1) /\ i - 1 \in 1..Len(route) /\ (i - 1) + 1 = i
      BY <1>2, <2>1, <2>4
    <3>2. longer[(i - 1) + 1] = route[i - 1]
      BY <1>10, <3>1, Zenon
    <3>3. longer[i] = route[i - 1]
      BY <3>1, <3>2, Zenon
    <3>4. estimated[route[(i - 1) + 1]] <=>
             estimated[route[i - 1]] \/ <<route[i - 1], route[(i - 1) + 1]>> \in graph.estimated
      BY <1>3, <3>1, Zenon DEF RouteFlags
    <3> QED BY <2>2, <3>1, <3>3, <3>4, Zenon
  <2> QED BY <2>3, <2>4
<1>12. RouteFlags'
  <2>1. route' = longer
    BY <1>7 DEF longer
  <2> QED BY <1>1, <1>11, <2>1, Zenon DEF RouteFlags
<1>13. route' \in Seq(graph.nodes) /\ route' # << >>
  BY <1>7, <1>9, Zenon DEF longer, nodes
<1>14. TreeFlags'
  BY <1>1, <1>3 DEF TreeFlags
<1> QED BY <1>1, <1>12, <1>13, <1>14, Zenon DEF Flagged

(* The other steps touch neither labels nor route.                            *)
LEMMA OthersFlag ==
    ASSUME SearchInv, Flagged,
           UNCHANGED <<graph, source, target, dist, estimated, prev, route>>,
           \/ search' = search
           \/ Finish
           \/ Exhaust
           \/ Return
    PROVE  Flagged'
<1>1. /\ TreeFlags => TreeFlags'
      /\ RouteFlags => RouteFlags'
  BY Zenon DEF TreeFlags, RouteFlags
<1>2. CASE search' = search
  <2>1. /\ graph' = graph /\ source' = source /\ target' = target /\ dist' = dist
        /\ estimated' = estimated /\ route' = route
    OBVIOUS
  <2> QED BY <1>1, <1>2, <2>1, Zenon DEF Flagged
<1>3. CASE Finish
  <2>1. search = "search" /\ search' = "trace"
    BY <1>3 DEF Finish
  <2> QED BY <1>1, <2>1 DEF Flagged
<1>4. CASE Exhaust
  <2>1. search = "search" /\ search' \in {"trace", "no route"}
    BY <1>4 DEF Exhaust
  <2> QED BY <1>1, <2>1 DEF Flagged
<1>5. CASE Return
  <2>1. search = "trace" /\ search' = "routed"
    BY <1>5 DEF Return
  <2>2. source \in DOMAIN dist /\ target \in DOMAIN dist
    BY <2>1 DEF SearchInv, Tree, Feasible
  <2>3. ~estimated[source]
    BY <2>1, Zenon DEF Flagged, TreeFlags
  <2>4. /\ IsFiniteSet(graph.nodes) /\ estimated \in [DOMAIN dist -> BOOLEAN]
        /\ target \in graph.nodes /\ route \in Seq(graph.nodes) /\ route # << >> /\ RouteFlags
    BY <2>1 DEF Flagged
  <2>5. {source, target} \subseteq DOMAIN dist
    BY <2>2
  <2>6. /\ graph' = graph /\ source' = source /\ target' = target /\ dist' = dist
        /\ estimated' = estimated /\ route' = route
    OBVIOUS
  <2>7. search' \notin {"idle", "search", "trace", "no route"}
    BY <2>1
  <2> QED BY <1>1, <2>1, <2>3, <2>4, <2>5, <2>6, <2>7, Zenon DEF Flagged
<1> QED BY <1>2, <1>3, <1>4, <1>5

LEMMA SearchStepFlags ==
    ASSUME SearchInv, SearchInv', Flagged, SearchStep
    PROVE  Flagged'
<1>1. ASSUME NEW entry \in heap, Skip(entry)
      PROVE  /\ search' = search
             /\ UNCHANGED <<graph, source, target, dist, estimated, prev, route>>
  BY <1>1 DEF Skip
<1>2. Finish \/ Exhaust \/ Return =>
          UNCHANGED <<graph, source, target, dist, estimated, prev, route>>
  BY DEF Finish, Exhaust, Return
<1> QED
  BY <1>1, <1>2, SettleFlags, TraceFlags, OthersFlag, Zenon DEF SearchStep
-----------------------------------------------------------------------------
(* What writers do to the catalogue.                                          *)

(* The rows are typed and hang from rows that are there.                      *)
StoreInv == store \in [Aggregates -> Row] /\ Custodial(store)

(* A write keeps that, and removes nothing.                                   *)
LEMMA WriteKeepsStore ==
    ASSUME StoreInv, NEW w \in Writers, Write(w)
    PROVE  /\ StoreInv'
           /\ \A b \in Aggregates : Present(store[b]) => Present(store'[b])
<1> PICK e \in Entries :
        LET row == [e.row EXCEPT !.by = w]
        IN /\ Legal(store, e.about, row, e.event)
           /\ store' = [store EXCEPT ![e.about] = row]
  BY DEF Write
<1> DEFINE row == [e.row EXCEPT !.by = w]
<1>1. e.about \in Aggregates /\ e.row \in Row /\ Present(e.row)
  BY LayoutAssumption
<1>3. row \in Row /\ Present(row)
  BY <1>1 DEF Row, Present
<1> HIDE DEF row
<1>4. Legal(store, e.about, row, e.event) /\ store' = [store EXCEPT ![e.about] = row]
  BY DEF row
<1>6. \A b \in Parents(e.about, row) : b \in Aggregates /\ Present(store[b])
  BY <1>4 DEF Legal
<1>7. store \in [Aggregates -> Row] /\ Custodial(store)
  BY DEF StoreInv
<1> DEFINE after == [store EXCEPT ![e.about] = row]
<1>8. /\ after \in [Aggregates -> Row]
      /\ \A b \in Aggregates : Present(store[b]) => Present(after[b])
      /\ Custodial(after)
  BY <1>1, <1>3, <1>6, <1>7, LegalKeepsCustody, Zenon
<1> HIDE DEF after
<1>9. store' = after
  BY <1>4 DEF after
<1> QED BY <1>8, <1>9 DEF StoreInv

(* A slot that is there has its aisle and its zone.                           *)
LEMMA SlotIsRooted ==
    ASSUME NEW rows, Custodial(rows), NEW s \in LocationSlots, Present(rows[s])
    PROVE  /\ AisleOf[s] \in Aisles /\ Present(rows[AisleOf[s]])
           /\ ZoneOfSlot(s) \in Zones /\ Present(rows[ZoneOfSlot(s)])
<1>1. s \in Aggregates /\ KindOf[s] = "slot"
  BY KindFacts
<1>2. AisleOf[s] \in Parents(s, rows[s]) /\ ZoneOfSlot(s) \in Parents(s, rows[s])
  BY <1>1 DEF Parents, Custody
<1>3. Present(rows[AisleOf[s]]) /\ Present(rows[ZoneOfSlot(s)])
  BY <1>1, <1>2 DEF Custodial
<1> QED BY <1>3, ChainFacts
-----------------------------------------------------------------------------
(* The graph that is built from rows that were read.                          *)

(* Finitely many slots stand at finitely many bays.                           *)
LEMMA BaysAreFinite ==
    ASSUME NEW aisle
    PROVE  BaysSeen(aisle) \subseteq Nat /\ IsFiniteSet(BaysSeen(aisle))
<1> DEFINE here == {x \in SlotsSeen : AisleOf[x] = aisle}
           bay == [s \in here |-> BayOf[s]]
<1>1. here \subseteq LocationSlots
  BY DEF SlotsSeen
<1>2. here \in SUBSET Aggregates
  BY <1>1, KindFacts
<1>3. IsFiniteSet(here)
  <2> HIDE DEF here
  <2> QED BY <1>2, LayoutAssumption, FS_Subset, Zenon
<1>4. BaysSeen(aisle) = {BayOf[s] : s \in here}
  BY DEF BaysSeen
<1>5. bay \in Surjection(here, BaysSeen(aisle))
  BY <1>4 DEF Surjection
<1>6. IsFiniteSet(BaysSeen(aisle))
  <2> HIDE DEF here, bay
  <2> QED BY <1>3, <1>5, FS_Surjection, Zenon
<1>7. BaysSeen(aisle) \subseteq Nat
  BY <1>1, <1>4, LayoutAssumption
<1> QED BY <1>6, <1>7

(* A graph that is built of such aisles is a graph.                           *)
LEMMA BuildIsGraph ==
    ASSUME NEW aisles, NEW crossAisles, NEW pitch \in Nat,
           \A a \in DOMAIN aisles : /\ IsFiniteSet(aisles[a].bays)
                                    /\ aisles[a].centreline \in Nat
    PROVE  IsGraph(Build(aisles, crossAisles, pitch))
<1> DEFINE nodes  == Waypoints(aisles)
           along  == UNION {Along(aisles, a) : a \in DOMAIN aisles}
           across == Across(crossAisles, nodes)
           metres == [e \in along \cup across |->
                        IF e \in along THEN BayDistance(aisles[e[1][1]], pitch) ELSE pitch]
           estimates == across \cup {e \in along : ~Measured(aisles[e[1][1]])}
<1>1. ASSUME NEW a \in DOMAIN aisles PROVE BayDistance(aisles[a], pitch) \in Nat
  <2>1. Cardinality(aisles[a].bays) \in Nat
    BY <1>1, FS_CardinalityType
  <2>2. aisles[a].centreline \in Nat
    BY <1>1
  <2> QED BY <2>1, <2>2 DEF BayDistance, Measured
<1>2. ASSUME NEW a \in DOMAIN aisles, NEW e \in Along(aisles, a)
      PROVE  e \in nodes \X nodes /\ e[1][1] = a
  <2>1. PICK p \in Consecutive(aisles[a].bays) :
            e = << <<a, p[1]>>, <<a, p[2]>> >> \/ e = << <<a, p[2]>>, <<a, p[1]>> >>
    BY <1>2 DEF Along
  <2>2. p[1] \in aisles[a].bays /\ p[2] \in aisles[a].bays
    BY DEF Consecutive
  <2>3. <<a, p[1]>> \in {a} \X aisles[a].bays /\ <<a, p[2]>> \in {a} \X aisles[a].bays
    BY <2>2
  <2>4. <<a, p[1]>> \in nodes /\ <<a, p[2]>> \in nodes
    BY <2>3 DEF Waypoints
  <2> QED BY <2>1, <2>4
<1>3. along \subseteq nodes \X nodes /\ across \subseteq nodes \X nodes
  BY <1>2 DEF Across
<1>4. \A e \in along : BayDistance(aisles[e[1][1]], pitch) \in Nat
  BY <1>1, <1>2
<1>5. metres \in [along \cup across -> Nat]
  BY <1>4
<1>6. estimates \subseteq along \cup across
  OBVIOUS
<1> HIDE DEF nodes, along, across, metres, estimates
<1>7. Build(aisles, crossAisles, pitch) =
          [nodes |-> nodes, edges |-> along \cup across, metres |-> metres,
           estimated |-> estimates]
  BY DEF Build, nodes, along, across, metres, estimates
<1> QED BY <1>3, <1>5, <1>6, <1>7 DEF IsGraph

(* So is the graph of a zone, and the bays of the slots of the aisles that    *)
(* were read are its waypoints.                                               *)
LEMMA ZoneGraphFacts ==
    ASSUME TypeOK, NEW zone \in Zones
    PROVE  /\ IsGraph(ZoneGraph(zone))
           /\ \A s \in SlotsSeen : AisleOf[s] \in AislesSeen => Waypoint(s) \in ZoneGraph(zone).nodes
<1>1. DOMAIN AisleGeoms = AislesSeen
  BY DEF AisleGeoms
<1>2. ASSUME NEW a \in AislesSeen
      PROVE  /\ AisleGeoms[a].bays = BaysSeen(a)
             /\ AisleGeoms[a].centreline \in Nat
  <2>1. a \in Aggregates
    BY KindFacts DEF AislesSeen
  <2>2. seen[a].geometry \in Geometries \cup {None}
    BY <2>1 DEF TypeOK, Row
  <2>3. \A g \in Geometries : LengthOf[g] \in Nat
    BY LayoutAssumption
  <2> QED BY <2>2, <2>3 DEF AisleGeoms
<1>3. PitchOf[zone] \in Nat
  BY LayoutAssumption
<1>4. IsGraph(ZoneGraph(zone))
  <2>1. \A a \in DOMAIN AisleGeoms : /\ IsFiniteSet(AisleGeoms[a].bays)
                                     /\ AisleGeoms[a].centreline \in Nat
    BY <1>1, <1>2, BaysAreFinite
  <2> QED BY <1>3, <2>1, BuildIsGraph, Zenon DEF ZoneGraph
<1>5. ZoneGraph(zone).nodes = Waypoints(AisleGeoms)
  BY DEF ZoneGraph, Build
<1>6. ASSUME NEW s \in SlotsSeen, AisleOf[s] \in AislesSeen
      PROVE  Waypoint(s) \in Waypoints(AisleGeoms)
  <2>1. BayOf[s] \in BaysSeen(AisleOf[s])
    BY DEF BaysSeen
  <2>2. Waypoint(s) \in {AisleOf[s]} \X AisleGeoms[AisleOf[s]].bays
    BY <1>2, <1>6, <2>1 DEF Waypoint
  <2> QED BY <1>1, <1>6, <2>2 DEF Waypoints
<1> QED BY <1>4, <1>5, <1>6
-----------------------------------------------------------------------------
(* What a read has yet to run.                                                *)

Statement == [op : {"find", "list"}, kind : Kinds, of : Aggregates \cup {None}]

Lists(s) == s \in Seq(Statement) /\ \A i \in 1..Len(s) : s[i].op = "list"

(* What there is to ask of a query.                                           *)
LEMMA QueryFacts ==
    ASSUME NEW q \in Queries
    PROVE  /\ q.read \in {"Get", "ListSites", "ListLocationTypes", "ListPlacementRules",
                          "ListZones", "ListAisles", "ListFixedStructures",
                          "ListLocationsByRole", "GetLocationClassification",
                          "GetSiteLayout", "GetZoneGrid", "GetZoneTravelGraph",
                          "EstimateTravelDistance"}
           /\ q.read \notin {"ListSites", "ListLocationTypes", "ListPlacementRules"} =>
                  q.of \in Aggregates
           /\ q.read \in {"EstimateTravelDistance", "GetLocationClassification"} =>
                  q.of \in LocationSlots
           /\ q.read = "EstimateTravelDistance" => q.to \in LocationSlots
<1>1. q \in ReadQueries
  BY QueriesAssumption
<1>2. \/ q \in GetSiteQueries \cup GetZoneQueries \cup GetAisleQueries
               \cup GetLocationTypeQueries \cup GetRuleQueries \cup GetSlotQueries
      \/ q \in ListSitesQueries \cup ListLocationTypesQueries \cup ListRulesQueries
      \/ q \in ListZonesQueries \cup ListAislesQueries \cup ListFixedStructuresQueries
      \/ q \in ListLocationsByRoleQueries
      \/ q \in GetClassificationQueries
      \/ q \in GetSiteLayoutQueries \cup GetZoneGridQueries \cup GetZoneTravelGraphQueries
      \/ q \in EstimateTravelDistanceQueries
  BY <1>1 DEF ReadQueries, ToolQueries
<1>3. CASE q \in GetSiteQueries \cup GetZoneQueries \cup GetAisleQueries
               \cup GetLocationTypeQueries \cup GetRuleQueries \cup GetSlotQueries
  BY <1>3, KindFacts DEF GetSiteQueries, GetZoneQueries, GetAisleQueries,
                         GetLocationTypeQueries, GetRuleQueries, GetSlotQueries, Asks
<1>4. CASE q \in ListSitesQueries \cup ListLocationTypesQueries \cup ListRulesQueries
  BY <1>4 DEF ListSitesQueries, ListLocationTypesQueries, ListRulesQueries, Asks
<1>5. CASE q \in ListZonesQueries \cup ListAislesQueries \cup ListFixedStructuresQueries
  BY <1>5, KindFacts DEF ListZonesQueries, ListAislesQueries, ListFixedStructuresQueries, Asks
<1>6. CASE q \in ListLocationsByRoleQueries
  BY <1>6, KindFacts DEF ListLocationsByRoleQueries
<1>7. CASE q \in GetClassificationQueries
  BY <1>7, KindFacts DEF GetClassificationQueries, Asks
<1>8. CASE q \in GetSiteLayoutQueries \cup GetZoneGridQueries \cup GetZoneTravelGraphQueries
  BY <1>8, KindFacts DEF GetSiteLayoutQueries, GetZoneGridQueries, GetZoneTravelGraphQueries, Asks
<1>9. CASE q \in EstimateTravelDistanceQueries
  BY <1>9, KindFacts DEF EstimateTravelDistanceQueries
<1> QED BY <1>2, <1>3, <1>4, <1>5, <1>6, <1>7, <1>8, <1>9

(* Statements are statements.                                                 *)
LEMMA StatementFacts ==
    /\ \A a \in Aggregates : One(a) \in Statement /\ One(a).op = "find" /\ One(a).of = a
    /\ \A kind \in Kinds, parent \in Aggregates \cup {None} :
          LET all == All(kind, parent)
          IN /\ all \in Statement /\ all.op = "list" /\ all.kind = kind /\ all.of = parent
BY KindAssumption DEF One, All, Statement

(* Short lists of statements.                                                 *)
LEMMA OneListed ==
    ASSUME NEW a \in Statement, a.op = "list"
    PROVE  Lists(<<a>>)
BY DEF Lists

LEMMA TwoListed ==
    ASSUME NEW a \in Statement, a.op = "list", NEW b \in Statement, b.op = "list"
    PROVE  Lists(<<a, b>>)
<1>1. <<a, b>> \in Seq(Statement) /\ Len(<<a, b>>) = 2 /\ <<a, b>>[1] = a /\ <<a, b>>[2] = b
  OBVIOUS
<1> QED BY <1>1 DEF Lists

LEMMA ThreeListed ==
    ASSUME NEW a \in Statement, a.op = "list", NEW b \in Statement, b.op = "list",
           NEW c \in Statement, c.op = "list"
    PROVE  Lists(<<a, b, c>>)
<1>1. /\ <<a, b, c>> \in Seq(Statement) /\ Len(<<a, b, c>>) = 3
      /\ <<a, b, c>>[1] = a /\ <<a, b, c>>[2] = b /\ <<a, b, c>>[3] = c
  OBVIOUS
<1> QED BY <1>1 DEF Lists

(* What is left of a list of statements.                                      *)
LEMMA RestOfLists ==
    ASSUME NEW s, Lists(s), s # << >>
    PROVE  Head(s) \in Statement /\ Head(s).op = "list" /\ Lists(Tail(s))
<1>1. s \in Seq(Statement) /\ Head(s) = s[1] /\ 1 \in 1..Len(s)
  BY DEF Lists
<1>2. /\ Tail(s) \in Seq(Statement)
      /\ Len(Tail(s)) = Len(s) - 1
      /\ \A i \in 1..Len(Tail(s)) : Tail(s)[i] = s[i + 1]
  BY <1>1, HeadTailProperties
<1>3. \A i \in 1..Len(Tail(s)) : i + 1 \in 1..Len(s)
  BY <1>1, <1>2
<1> QED BY <1>1, <1>2, <1>3 DEF Lists

(* Lists put before a list.                                                   *)
LEMMA ListsBefore ==
    ASSUME NEW s, NEW t, Lists(s), Lists(t)
    PROVE  Lists(s \o t)
<1>1. s \in Seq(Statement) /\ t \in Seq(Statement)
  BY DEF Lists
<1>2. /\ s \o t \in Seq(Statement) /\ Len(s \o t) = Len(s) + Len(t)
      /\ \A i \in 1..Len(s) + Len(t) :
            (s \o t)[i] = IF i <= Len(s) THEN s[i] ELSE t[i - Len(s)]
  BY <1>1, ConcatProperties
<1>3. Len(s) \in Nat /\ Len(t) \in Nat
  BY <1>1
<1>4. ASSUME NEW i \in 1..Len(s \o t) PROVE (s \o t)[i].op = "list"
  <2>1. CASE i <= Len(s)
    <3>1. (s \o t)[i] = s[i] /\ i \in 1..Len(s)
      BY <1>2, <1>3, <2>1
    <3> QED BY <3>1 DEF Lists
  <2>2. CASE ~(i <= Len(s))
    <3>1. (s \o t)[i] = t[i - Len(s)] /\ i - Len(s) \in 1..Len(t)
      BY <1>2, <1>3, <2>2
    <3> QED BY <3>1 DEF Lists
  <2> QED BY <2>1, <2>2
<1> QED BY <1>2, <1>4 DEF Lists

(* What a loop over rows runs is a list of lists; and nothing unless the read *)
(* is of a site's layout or by role.                                          *)
LEMMA LoopFacts ==
    ASSUME NEW q, NEW kind, NEW rows \in SUBSET Aggregates, NEW loop \in Loops(q, kind, rows)
    PROVE  /\ Lists(loop)
           /\ q.read \notin {"GetSiteLayout", "ListLocationsByRole"} => loop = << >>
<1>0. Lists(<< >>)
  BY DEF Lists
<1>1. CASE Nested(q, kind) = {}
  BY <1>0, <1>1 DEF Loops
<1>2. CASE Nested(q, kind) # {}
  <2> DEFINE k == CHOOSE x \in Nested(q, kind) : TRUE
  <2>1. k \in Nested(q, kind)
    BY <1>2
  <2>2. k \in Kinds /\ q.read \in {"GetSiteLayout", "ListLocationsByRole"}
    <3> DEFINE zones == q.read = "GetSiteLayout" /\ kind = "zone"
               aisles == q.read = "GetSiteLayout" /\ kind = "aisle"
               roles == q.read = "ListLocationsByRole" /\ kind = "zone"
    <3>1. zones \/ aisles \/ roles
      BY <1>2, Zenon DEF Nested
    <3>2. zones \/ roles \/ aisles => Nested(q, kind) \subseteq {"aisle", "slot"}
      BY DEF Nested
    <3> QED BY <2>1, <3>1, <3>2 DEF Kinds
  <2>3. Cardinality(rows) \in Nat
    BY LayoutAssumption, FS_Subset, FS_CardinalityType, Zenon
  <2>4. PICK order \in Orders(rows) : loop = [i \in DOMAIN order |-> All(k, order[i])]
    BY <1>2 DEF Loops
  <2>5. order \in [1..Cardinality(rows) -> Aggregates]
    BY DEF Orders
  <2> HIDE DEF k
  <2>6. loop = [i \in 1..Cardinality(rows) |-> All(k, order[i])]
    BY <2>4, <2>5
  <2>7. \A i \in 1..Cardinality(rows) : All(k, order[i]) \in Statement /\ All(k, order[i]).op = "list"
    BY <2>2, <2>5, StatementFacts
  <2>8. loop \in Seq(Statement) /\ Len(loop) = Cardinality(rows)
    BY <2>3, <2>6, <2>7
  <2> QED BY <2>2, <2>6, <2>7, <2>8 DEF Lists
<1> QED BY <1>1, <1>2
-----------------------------------------------------------------------------
(* The plan of a read: what it has yet to run, given what it found so far.    *)

(* The ends of the list of statements a distance runs within one zone.        *)
LastOne(q)   == << All("crossAisle", ZoneOfSlot(q.of)) >>
LastTwo(q)   == << All("slot", ZoneOfSlot(q.of)), All("crossAisle", ZoneOfSlot(q.of)) >>
LastThree(q) == << All("aisle", ZoneOfSlot(q.of)), All("slot", ZoneOfSlot(q.of)),
                   All("crossAisle", ZoneOfSlot(q.of)) >>
LastFour(q)  == << One(ZoneOfSlot(q.of)), All("aisle", ZoneOfSlot(q.of)),
                   All("slot", ZoneOfSlot(q.of)), All("crossAisle", ZoneOfSlot(q.of)) >>
LastFive(q)  == << One(q.to), One(ZoneOfSlot(q.of)), All("aisle", ZoneOfSlot(q.of)),
                   All("slot", ZoneOfSlot(q.of)), All("crossAisle", ZoneOfSlot(q.of)) >>
AllSix(q)    == << One(q.of), One(q.to), One(ZoneOfSlot(q.of)), All("aisle", ZoneOfSlot(q.of)),
                   All("slot", ZoneOfSlot(q.of)), All("crossAisle", ZoneOfSlot(q.of)) >>

InOneZone(q) == ZoneOfSlot(q.of) = ZoneOfSlot(q.to)

BothThere(q, rows) == Present(rows[q.of]) /\ Present(rows[q.to])
AislesShown(q, shown) == AisleOf[q.of] \in shown /\ AisleOf[q.to] \in shown
SlotsShown(q, shown) == q.of \in shown /\ q.to \in shown

DistancePlan(q, rows, shown, s) ==
    \/ s = AllSix(q)
    \/ s = LastFive(q) /\ Present(rows[q.of])
    \/ s = LastFour(q) /\ BothThere(q, rows)
    \/ s = LastThree(q) /\ BothThere(q, rows)
    \/ s = LastTwo(q) /\ BothThere(q, rows) /\ AislesShown(q, shown)
    \/ s = LastOne(q) /\ AislesShown(q, shown) /\ SlotsShown(q, shown)
    \/ s = << >> /\ AislesShown(q, shown) /\ SlotsShown(q, shown)

(* Between two zones only the slots are looked up.                            *)
TwoZonesPlan(q, s) == s = << One(q.of), One(q.to) >> \/ s = << One(q.to) >> \/ s = << >>

ClassificationPlan(q, rows, s) ==
    \/ s = << One(q.of), One(ZoneOfSlot(q.of)) >>
    \/ s = << One(ZoneOfSlot(q.of)) >> /\ Present(rows[q.of])
    \/ s = << >>

(* Other reads look up what the client named and then only list.              *)
ListsPlan(q, s) ==
    \/ Lists(s)
    \/ /\ s \in Seq(Statement) /\ s # << >>
       /\ Head(s) = One(q.of) /\ q.of \in Aggregates
       /\ Lists(Tail(s))

Plan(q, rows, shown, s) ==
    /\ q.read = "EstimateTravelDistance" /\ InOneZone(q) => DistancePlan(q, rows, shown, s)
    /\ q.read = "EstimateTravelDistance" /\ ~InOneZone(q) => TwoZonesPlan(q, s)
    /\ q.read = "GetLocationClassification" => ClassificationPlan(q, rows, s)
    /\ q.read \notin {"EstimateTravelDistance", "GetLocationClassification"} => ListsPlan(q, s)

(* Heads and tails of short lists.                                            *)
LEMMA HeadOfOne ==
    ASSUME NEW a
    PROVE  <<a>> # << >> /\ Head(<<a>>) = a
  OBVIOUS

LEMMA TailOfOne ==
    ASSUME NEW a
    PROVE  Tail(<<a>>) = << >>
  OBVIOUS

LEMMA HeadOfTwo ==
    ASSUME NEW a, NEW b
    PROVE  <<a, b>> # << >> /\ Head(<<a, b>>) = a
  OBVIOUS

LEMMA TailOfTwo ==
    ASSUME NEW a, NEW b
    PROVE  Tail(<<a, b>>) = <<b>>
  OBVIOUS

LEMMA HeadOfThree ==
    ASSUME NEW a, NEW b, NEW c
    PROVE  <<a, b, c>> # << >> /\ Head(<<a, b, c>>) = a
  OBVIOUS

LEMMA TailOfThree ==
    ASSUME NEW a, NEW b, NEW c
    PROVE  Tail(<<a, b, c>>) = <<b, c>>
  OBVIOUS

LEMMA HeadOfFour ==
    ASSUME NEW a, NEW b, NEW c, NEW d
    PROVE  <<a, b, c, d>> # << >> /\ Head(<<a, b, c, d>>) = a
  OBVIOUS

LEMMA TailOfFour ==
    ASSUME NEW a, NEW b, NEW c, NEW d
    PROVE  Tail(<<a, b, c, d>>) = <<b, c, d>>
  OBVIOUS

LEMMA HeadOfFive ==
    ASSUME NEW a, NEW b, NEW c, NEW d, NEW e
    PROVE  <<a, b, c, d, e>> # << >> /\ Head(<<a, b, c, d, e>>) = a
  OBVIOUS

LEMMA TailOfFive ==
    ASSUME NEW a, NEW b, NEW c, NEW d, NEW e
    PROVE  Tail(<<a, b, c, d, e>>) = <<b, c, d, e>>
  OBVIOUS

LEMMA HeadOfSix ==
    ASSUME NEW a, NEW b, NEW c, NEW d, NEW e, NEW f
    PROVE  <<a, b, c, d, e, f>> # << >> /\ Head(<<a, b, c, d, e, f>>) = a
  OBVIOUS

LEMMA TailOfSix ==
    ASSUME NEW a, NEW b, NEW c, NEW d, NEW e, NEW f
    PROVE  Tail(<<a, b, c, d, e, f>>) = <<b, c, d, e, f>>
  OBVIOUS

LEMMA SeqOfOne ==
    ASSUME NEW S, NEW a \in S
    PROVE  <<a>> \in Seq(S)
  OBVIOUS

LEMMA SeqOfThree ==
    ASSUME NEW S, NEW a \in S, NEW b \in S, NEW c \in S
    PROVE  <<a, b, c>> \in Seq(S)
  OBVIOUS

LEMMA SeqOfFive ==
    ASSUME NEW S, NEW a \in S, NEW b \in S, NEW c \in S, NEW d \in S, NEW e \in S
    PROVE  <<a, b, c, d, e>> \in Seq(S)
  OBVIOUS

LEMMA SeqOfSix ==
    ASSUME NEW S, NEW a \in S, NEW b \in S, NEW c \in S, NEW d \in S, NEW e \in S, NEW f \in S
    PROVE  <<a, b, c, d, e, f>> \in Seq(S)
  OBVIOUS

LEMMA SeqOfTwo ==
    ASSUME NEW S, NEW a \in S, NEW b \in S
    PROVE  <<a, b>> \in Seq(S) /\ Len(<<a, b>>) = 2 /\ <<a, b>>[1] = a /\ <<a, b>>[2] = b
  OBVIOUS

LEMMA SeqOfFour ==
    ASSUME NEW S, NEW a \in S, NEW b \in S, NEW c \in S, NEW d \in S
    PROVE  /\ <<a, b, c, d>> \in Seq(S) /\ Len(<<a, b, c, d>>) = 4
           /\ <<a, b, c, d>>[1] = a /\ <<a, b, c, d>>[2] = b
           /\ <<a, b, c, d>>[3] = c /\ <<a, b, c, d>>[4] = d
  OBVIOUS

(* Two statements and the four of a graph.                                    *)
LEMMA TwoAndFour ==
    ASSUME NEW a, NEW b, NEW c, NEW d, NEW e, NEW f
    PROVE  <<a, b>> \o <<c, d, e, f>> = <<a, b, c, d, e, f>>
<1> DEFINE S == {a, b, c, d, e, f}
           s == <<a, b>>
           t == <<c, d, e, f>>
           both == s \o t
<1>0. a \in S /\ b \in S /\ c \in S /\ d \in S /\ e \in S /\ f \in S
  OBVIOUS
<1> HIDE DEF S
<1>1. s \in Seq(S) /\ Len(s) = 2 /\ s[1] = a /\ s[2] = b
  BY <1>0, SeqOfTwo
<1>2. /\ t \in Seq(S) /\ Len(t) = 4 /\ t[1] = c /\ t[2] = d /\ t[3] = e /\ t[4] = f
  BY <1>0, SeqOfFour
<1> HIDE DEF s, t
<1>3. /\ both \in Seq(S) /\ Len(both) = 6
      /\ \A i \in 1..6 : both[i] = IF i <= 2 THEN s[i] ELSE t[i - 2]
  <2>1. both \in Seq(S) /\ Len(both) = Len(s) + Len(t)
    BY <1>1, <1>2, ConcatProperties, Zenon
  <2>2. \A i \in 1..Len(s) + Len(t) : both[i] = IF i <= Len(s) THEN s[i] ELSE t[i - Len(s)]
    BY <1>1, <1>2, ConcatProperties, Zenon
  <2> HIDE DEF both
  <2> QED BY <1>1, <1>2, <2>1, <2>2
<1>4. /\ both[1] = a /\ both[2] = b /\ both[3] = c /\ both[4] = d /\ both[5] = e /\ both[6] = f
  BY <1>1, <1>2, <1>3
<1> HIDE DEF both
<1>5. both = <<a, b, c, d, e, f>>
  <2>1. both = [i \in 1..6 |-> both[i]]
    BY <1>3
  <2> QED BY <1>4, <2>1
<1> QED BY <1>5 DEF both, s, t

LEMMA TwoAndNone ==
    ASSUME NEW a, NEW b
    PROVE  <<a, b>> \o << >> = <<a, b>>
  OBVIOUS

(* The ends of the list of a distance follow one another.                     *)
LEMMA DistanceTails ==
    ASSUME NEW q
    PROVE  /\ AllSix(q) # << >> /\ Head(AllSix(q)) = One(q.of) /\ Tail(AllSix(q)) = LastFive(q)
           /\ LastFive(q) # << >> /\ Head(LastFive(q)) = One(q.to)
           /\ Tail(LastFive(q)) = LastFour(q)
           /\ LastFour(q) # << >> /\ Head(LastFour(q)) = One(ZoneOfSlot(q.of))
           /\ Tail(LastFour(q)) = LastThree(q)
           /\ LastThree(q) # << >> /\ Head(LastThree(q)) = All("aisle", ZoneOfSlot(q.of))
           /\ Tail(LastThree(q)) = LastTwo(q)
           /\ LastTwo(q) # << >> /\ Head(LastTwo(q)) = All("slot", ZoneOfSlot(q.of))
           /\ Tail(LastTwo(q)) = LastOne(q)
           /\ LastOne(q) # << >> /\ Head(LastOne(q)) = All("crossAisle", ZoneOfSlot(q.of))
           /\ Tail(LastOne(q)) = << >>
<1> DEFINE a == One(q.of)
           b == One(q.to)
           c == One(ZoneOfSlot(q.of))
           d == All("aisle", ZoneOfSlot(q.of))
           e == All("slot", ZoneOfSlot(q.of))
           f == All("crossAisle", ZoneOfSlot(q.of))
<1>1. /\ AllSix(q) = <<a, b, c, d, e, f>>
      /\ LastFive(q) = <<b, c, d, e, f>>
      /\ LastFour(q) = <<c, d, e, f>>
      /\ LastThree(q) = <<d, e, f>>
      /\ LastTwo(q) = <<e, f>>
      /\ LastOne(q) = <<f>>
  BY DEF AllSix, LastFive, LastFour, LastThree, LastTwo, LastOne
<1> HIDE DEF a, b, c, d, e, f
<1>2. AllSix(q) # << >> /\ Head(AllSix(q)) = a /\ Tail(AllSix(q)) = LastFive(q)
  BY <1>1, HeadOfSix, TailOfSix
<1>3. LastFive(q) # << >> /\ Head(LastFive(q)) = b /\ Tail(LastFive(q)) = LastFour(q)
  BY <1>1, HeadOfFive, TailOfFive
<1>4. LastFour(q) # << >> /\ Head(LastFour(q)) = c /\ Tail(LastFour(q)) = LastThree(q)
  BY <1>1, HeadOfFour, TailOfFour
<1>5. LastThree(q) # << >> /\ Head(LastThree(q)) = d /\ Tail(LastThree(q)) = LastTwo(q)
  BY <1>1, HeadOfThree, TailOfThree
<1>6. LastTwo(q) # << >> /\ Head(LastTwo(q)) = e /\ Tail(LastTwo(q)) = LastOne(q)
  BY <1>1, HeadOfTwo, TailOfTwo
<1>7. LastOne(q) # << >> /\ Head(LastOne(q)) = f /\ Tail(LastOne(q)) = << >>
  BY <1>1, HeadOfOne, TailOfOne
<1> QED
  BY <1>2, <1>3, <1>4, <1>5, <1>6, <1>7
     DEF a, b, c, d, e, f

(* A distance within one zone begins with the whole list.                     *)
LEMMA DistanceBegins ==
    ASSUME NEW q, q.read = "EstimateTravelDistance", InOneZone(q)
    PROVE  Statements(q) = AllSix(q)
<1> DEFINE a == One(q.of)
           b == One(q.to)
           c == One(ZoneOfSlot(q.of))
           d == All("aisle", ZoneOfSlot(q.of))
           e == All("slot", ZoneOfSlot(q.of))
           f == All("crossAisle", ZoneOfSlot(q.of))
<1>1. Statements(q) = DistanceStatements(q)
  BY Zenon DEF Statements
<1>2. DistanceStatements(q) = << One(q.of), One(q.to) >> \o GraphStatements(ZoneOfSlot(q.of))
  BY DEF DistanceStatements, InOneZone
<1>3. GraphStatements(ZoneOfSlot(q.of)) = <<c, d, e, f>> /\ AllSix(q) = <<a, b, c, d, e, f>>
  BY DEF GraphStatements, AllSix
<1> HIDE DEF a, b, c, d, e, f
<1>4. <<a, b>> \o <<c, d, e, f>> = <<a, b, c, d, e, f>>
  BY TwoAndFour
<1> QED BY <1>1, <1>2, <1>3, <1>4 DEF a, b

(* A read begins with its plan.                                               *)
LEMMA PlanBegins ==
    ASSUME NEW q \in Queries, NEW rows, NEW shown
    PROVE  Plan(q, rows, shown, Statements(q))
<1> DEFINE zone == ZoneOfSlot(q.of)
<1>1. CASE q.read = "EstimateTravelDistance"
  <2>1. Statements(q) = DistanceStatements(q)
    BY <1>1, Zenon DEF Statements
  <2>2. CASE InOneZone(q)
    BY <1>1, <2>2, DistanceBegins DEF Plan, DistancePlan
  <2>3. CASE ~InOneZone(q)
    <3>1. DistanceStatements(q) = << One(q.of), One(q.to) >> \o << >>
      BY <2>3 DEF DistanceStatements, InOneZone
    <3>2. DistanceStatements(q) = << One(q.of), One(q.to) >>
      BY <3>1, TwoAndNone, Zenon
    <3> QED BY <1>1, <2>1, <2>3, <3>2 DEF Plan, TwoZonesPlan
  <2> QED BY <2>2, <2>3
<1>2. CASE q.read = "GetLocationClassification"
  <2>1. Statements(q) = << One(q.of), One(zone) >>
    BY <1>2, Zenon DEF Statements, ClassificationStatements
  <2> QED BY <1>2, <2>1 DEF Plan, ClassificationPlan
<1>3. ASSUME q.read \notin {"EstimateTravelDistance", "GetLocationClassification"}
      PROVE  ListsPlan(q, Statements(q))
  <2>1. CASE q.read \in {"ListSites", "ListLocationTypes", "ListPlacementRules"}
    <3>1. \E kind \in Kinds : Statements(q) = << All(kind, None) >>
      BY <2>1, Zenon DEF Statements, ListSitesStatements, ListLocationTypesStatements,
                         ListRulesStatements, Kinds
    <3>2. Lists(Statements(q))
      BY <3>1, StatementFacts, OneListed
    <3> QED BY <3>2 DEF ListsPlan
  <2>2. CASE q.read \notin {"ListSites", "ListLocationTypes", "ListPlacementRules"}
    <3>1. q.of \in Aggregates
      BY <2>2, QueryFacts
    <3>2. \/ Statements(q) = << One(q.of) >>
          \/ \E k \in Kinds : Statements(q) = << One(q.of), All(k, q.of) >>
          \/ \E k, l \in Kinds : Statements(q) = << One(q.of), All(k, q.of), All(l, q.of) >>
          \/ \E k, l, m \in Kinds :
                Statements(q) = << One(q.of), All(k, q.of), All(l, q.of), All(m, q.of) >>
      <4>1. CASE q.read = "Get"
        BY <4>1, Zenon DEF Statements, GetStatements
      <4>2. CASE q.read = "ListZones"
        BY <4>2, Zenon DEF Statements, ListZonesStatements, Kinds
      <4>3. CASE q.read = "ListAisles"
        BY <4>3, Zenon DEF Statements, ListAislesStatements, Kinds
      <4>4. CASE q.read = "ListFixedStructures"
        BY <4>4, Zenon DEF Statements, ListStructuresStatements, Kinds
      <4>5. CASE q.read = "ListLocationsByRole"
        BY <4>5, Zenon DEF Statements, ByRoleStatements, Kinds
      <4>6. CASE q.read = "GetSiteLayout"
        BY <4>6, Zenon DEF Statements, SiteLayoutStatements, Kinds
      <4>7. CASE q.read = "GetZoneGrid"
        BY <4>7, Zenon DEF Statements, ZoneGridStatements, Kinds
      <4>8. CASE q.read = "GetZoneTravelGraph"
        BY <4>8, Zenon DEF Statements, GraphStatements, Kinds
      <4> QED BY <1>3, <2>2, <4>1, <4>2, <4>3, <4>4, <4>5, <4>6, <4>7, <4>8, QueryFacts
    <3>3. /\ \A k \in Kinds : All(k, q.of) \in Statement /\ All(k, q.of).op = "list"
          /\ One(q.of) \in Statement
      BY <3>1, StatementFacts
    <3>4. CASE Statements(q) = << One(q.of) >>
      <4>1. Lists(<< >>)
        BY DEF Lists
      <4> QED BY <3>1, <3>3, <3>4, <4>1, HeadOfOne, TailOfOne, SeqOfOne DEF ListsPlan
    <3>5. ASSUME NEW k \in Kinds, Statements(q) = << One(q.of), All(k, q.of) >>
          PROVE  ListsPlan(q, Statements(q))
      <4>1. Lists(<< All(k, q.of) >>)
        BY <3>3, OneListed
      <4> QED BY <3>1, <3>3, <3>5, <4>1, HeadOfTwo, TailOfTwo, SeqOfTwo DEF ListsPlan
    <3>6. ASSUME NEW k \in Kinds, NEW l \in Kinds,
                 Statements(q) = << One(q.of), All(k, q.of), All(l, q.of) >>
          PROVE  ListsPlan(q, Statements(q))
      <4>1. Lists(<< All(k, q.of), All(l, q.of) >>)
        BY <3>3, TwoListed
      <4> QED BY <3>1, <3>3, <3>6, <4>1, HeadOfThree, TailOfThree, SeqOfThree DEF ListsPlan
    <3>7. ASSUME NEW k \in Kinds, NEW l \in Kinds, NEW m \in Kinds,
                 Statements(q) = << One(q.of), All(k, q.of), All(l, q.of), All(m, q.of) >>
          PROVE  ListsPlan(q, Statements(q))
      <4>1. Lists(<< All(k, q.of), All(l, q.of), All(m, q.of) >>)
        BY <3>3, ThreeListed
      <4> QED BY <3>1, <3>3, <3>7, <4>1, HeadOfFour, TailOfFour, SeqOfFour DEF ListsPlan
    <3> QED BY <3>2, <3>4, <3>5, <3>6, <3>7
  <2> QED BY <2>1, <2>2
<1> QED BY <1>1, <1>2, <1>3 DEF Plan

(* What a plan holds are statements.                                          *)
LEMMA PlanIsTyped ==
    ASSUME NEW q \in Queries, NEW rows, NEW shown, NEW s, Plan(q, rows, shown, s)
    PROVE  s \in Seq(Statement)
<1>1. CASE q.read = "EstimateTravelDistance"
  <2>1. q.of \in LocationSlots /\ q.to \in LocationSlots
    BY <1>1, QueryFacts
  <2>2. q.of \in Aggregates /\ q.to \in Aggregates /\ ZoneOfSlot(q.of) \in Aggregates
    BY <2>1, KindFacts, ChainFacts
  <2>3. One(q.of) \in Statement /\ One(q.to) \in Statement /\ One(ZoneOfSlot(q.of)) \in Statement
    BY <2>2, StatementFacts
  <2>4. /\ All("aisle", ZoneOfSlot(q.of)) \in Statement
        /\ All("slot", ZoneOfSlot(q.of)) \in Statement
        /\ All("crossAisle", ZoneOfSlot(q.of)) \in Statement
    BY <2>2, StatementFacts DEF Kinds
  <2>5. CASE InOneZone(q)
    <3>1. s \in {AllSix(q), LastFive(q), LastFour(q), LastThree(q), LastTwo(q), LastOne(q), << >>}
      BY <1>1, <2>5 DEF Plan, DistancePlan
    <3>2. AllSix(q) \in Seq(Statement)
      BY <2>3, <2>4, SeqOfSix, Zenon DEF AllSix
    <3>3. LastFive(q) \in Seq(Statement)
      BY <2>3, <2>4, SeqOfFive, Zenon DEF LastFive
    <3>4. LastFour(q) \in Seq(Statement)
      <4> DEFINE Z == One(ZoneOfSlot(q.of))
                 A == All("aisle", ZoneOfSlot(q.of))
                 S == All("slot", ZoneOfSlot(q.of))
                 X == All("crossAisle", ZoneOfSlot(q.of))
      <4>1. Z \in Statement /\ A \in Statement /\ S \in Statement /\ X \in Statement
        BY <2>3, <2>4
      <4>2. LastFour(q) = << Z, A, S, X >>
        BY DEF LastFour
      <4> HIDE DEF Z, A, S, X
      <4>3. << Z, A, S, X >> \in Seq(Statement)
        BY <4>1, SeqOfFour, Zenon
      <4> QED BY <4>2, <4>3
    <3>5. LastThree(q) \in Seq(Statement)
      BY <2>3, <2>4, SeqOfThree, Zenon DEF LastThree
    <3>6. LastTwo(q) \in Seq(Statement)
      BY <2>3, <2>4, SeqOfTwo, Zenon DEF LastTwo
    <3>7. LastOne(q) \in Seq(Statement)
      BY <2>4, SeqOfOne, Zenon DEF LastOne
    <3>8. << >> \in Seq(Statement)
      OBVIOUS
    <3> QED BY <3>1, <3>2, <3>3, <3>4, <3>5, <3>6, <3>7, <3>8
  <2>6. CASE ~InOneZone(q)
    <3>1. s \in {<< One(q.of), One(q.to) >>, << One(q.to) >>, << >>}
      BY <1>1, <2>6 DEF Plan, TwoZonesPlan
    <3>2. << One(q.of), One(q.to) >> \in Seq(Statement)
      BY <2>3, SeqOfTwo, Zenon
    <3>3. << One(q.to) >> \in Seq(Statement)
      BY <2>3, SeqOfOne, Zenon
    <3>4. << >> \in Seq(Statement)
      OBVIOUS
    <3> QED BY <3>1, <3>2, <3>3, <3>4, Zenon
  <2> QED BY <2>5, <2>6
<1>2. CASE q.read = "GetLocationClassification"
  <2>1. q.of \in Aggregates /\ ZoneOfSlot(q.of) \in Aggregates
    BY <1>2, QueryFacts, KindFacts, ChainFacts
  <2>2. One(q.of) \in Statement /\ One(ZoneOfSlot(q.of)) \in Statement
    BY <2>1, StatementFacts
  <2>3. s \in {<< One(q.of), One(ZoneOfSlot(q.of)) >>, << One(ZoneOfSlot(q.of)) >>, << >>}
    BY <1>2 DEF Plan, ClassificationPlan
  <2>4. << One(q.of), One(ZoneOfSlot(q.of)) >> \in Seq(Statement)
    BY <2>2, SeqOfTwo, Zenon
  <2>5. << One(ZoneOfSlot(q.of)) >> \in Seq(Statement)
    BY <2>2, SeqOfOne, Zenon
  <2>6. << >> \in Seq(Statement)
    OBVIOUS
  <2> QED BY <2>3, <2>4, <2>5, <2>6, Zenon
<1>3. CASE q.read \notin {"EstimateTravelDistance", "GetLocationClassification"}
  BY <1>3 DEF Plan, ListsPlan, Lists
<1> QED BY <1>1, <1>2, <1>3

(* What the client named.                                                     *)
NamedBy(q) == {q.of} \cup (IF q.read = "EstimateTravelDistance" THEN {q.to} ELSE {})

(* A row that is looked up is one the client named, or is there because of    *)
(* one that was found; when it is found the plan goes on.                     *)
LEMMA PlanFinds ==
    ASSUME NEW q \in Queries, NEW rows, Custodial(rows), NEW shown, NEW s,
           Plan(q, rows, shown, s), s # << >>, Head(s).op = "find"
    PROVE  /\ Head(s).of \in Aggregates
           /\ Present(rows[Head(s).of]) => Plan(q, rows, shown, Tail(s))
           /\ ~Present(rows[Head(s).of]) => Head(s).of \in NamedBy(q)
<1> DEFINE zone == ZoneOfSlot(q.of)
<1>1. CASE q.read = "EstimateTravelDistance"
  <2>1. q.of \in LocationSlots /\ q.to \in LocationSlots
    BY <1>1, QueryFacts
  <2>2. q.of \in Aggregates /\ q.to \in Aggregates /\ zone \in Aggregates
    BY <2>1, KindFacts, ChainFacts
  <2>3. /\ One(q.of).of = q.of /\ One(q.to).of = q.to /\ One(zone).of = zone
        /\ All("aisle", zone).op = "list" /\ All("slot", zone).op = "list"
        /\ All("crossAisle", zone).op = "list"
    BY <2>2, StatementFacts DEF Kinds
  <2>4. q.of \in NamedBy(q) /\ q.to \in NamedBy(q)
    BY <1>1 DEF NamedBy
  <2>5. CASE InOneZone(q)
    <3>1. ASSUME NEW t, DistancePlan(q, rows, shown, t) PROVE Plan(q, rows, shown, t)
      BY <1>1, <2>5, <3>1 DEF Plan
    <3>2. DistancePlan(q, rows, shown, s)
      BY <1>1, <2>5 DEF Plan
    <3>3. CASE s = AllSix(q)
      <4>1. Head(s).of = q.of /\ Tail(s) = LastFive(q)
        BY <2>3, <3>3, DistanceTails
      <4>2. Present(rows[q.of]) => DistancePlan(q, rows, shown, LastFive(q))
        BY DEF DistancePlan
      <4> QED BY <2>2, <2>4, <3>1, <4>1, <4>2
    <3>4. CASE s = LastFive(q) /\ Present(rows[q.of])
      <4>1. Head(s).of = q.to /\ Tail(s) = LastFour(q)
        BY <2>3, <3>4, DistanceTails
      <4>2. Present(rows[q.to]) => DistancePlan(q, rows, shown, LastFour(q))
        BY <3>4 DEF DistancePlan, BothThere
      <4> QED BY <2>2, <2>4, <3>1, <4>1, <4>2
    <3>5. CASE s = LastFour(q) /\ BothThere(q, rows)
      <4>1. Head(s).of = zone /\ Tail(s) = LastThree(q)
        BY <2>3, <3>5, DistanceTails
      <4>2. DistancePlan(q, rows, shown, LastThree(q))
        BY <3>5 DEF DistancePlan
      <4>3. Present(rows[zone])
        BY <2>1, <3>5, SlotIsRooted DEF BothThere
      <4> QED BY <2>2, <3>1, <4>1, <4>2, <4>3
    <3>6. CASE s \in {LastThree(q), LastTwo(q), LastOne(q)}
      BY <2>3, <3>6, DistanceTails
    <3> QED BY <3>2, <3>3, <3>4, <3>5, <3>6 DEF DistancePlan
  <2>6. CASE ~InOneZone(q)
    <3>1. ASSUME NEW t, TwoZonesPlan(q, t) PROVE Plan(q, rows, shown, t)
      BY <1>1, <2>6, <3>1 DEF Plan
    <3>2. CASE s = << One(q.of), One(q.to) >>
      <4>1. Head(s) = One(q.of) /\ Tail(s) = << One(q.to) >>
        BY <3>2, HeadOfTwo, TailOfTwo, Zenon
      <4>2. TwoZonesPlan(q, << One(q.to) >>)
        BY DEF TwoZonesPlan
      <4> QED BY <2>2, <2>3, <2>4, <3>1, <4>1, <4>2
    <3>3. CASE s = << One(q.to) >>
      <4>1. Head(s) = One(q.to) /\ Tail(s) = << >>
        BY <3>3, HeadOfOne, TailOfOne, Zenon
      <4>2. TwoZonesPlan(q, << >>)
        BY DEF TwoZonesPlan
      <4> QED BY <2>2, <2>3, <2>4, <3>1, <4>1, <4>2
    <3> QED BY <1>1, <2>6, <3>2, <3>3 DEF Plan, TwoZonesPlan
  <2> QED BY <2>5, <2>6
<1>2. CASE q.read = "GetLocationClassification"
  <2>1. q.of \in LocationSlots /\ q.of \in Aggregates /\ zone \in Aggregates
    BY <1>2, QueryFacts, KindFacts, ChainFacts
  <2>2. One(q.of).of = q.of /\ One(zone).of = zone
    BY <2>1, StatementFacts
  <2>3. ASSUME NEW t, ClassificationPlan(q, rows, t) PROVE Plan(q, rows, shown, t)
    BY <1>2, <2>3 DEF Plan
  <2>4. CASE s = << One(q.of), One(zone) >>
    <3>1. Head(s) = One(q.of) /\ Tail(s) = << One(zone) >>
      BY <2>4, HeadOfTwo, TailOfTwo, Zenon
    <3>2. Present(rows[q.of]) => ClassificationPlan(q, rows, << One(zone) >>)
      BY DEF ClassificationPlan
    <3>3. q.of \in NamedBy(q)
      BY DEF NamedBy
    <3> QED BY <2>1, <2>2, <2>3, <3>1, <3>2, <3>3
  <2>5. CASE s = << One(zone) >> /\ Present(rows[q.of])
    <3>1. Head(s) = One(zone) /\ Tail(s) = << >>
      BY <2>5, HeadOfOne, TailOfOne, Zenon
    <3>2. ClassificationPlan(q, rows, << >>)
      BY DEF ClassificationPlan
    <3>3. Present(rows[zone])
      BY <2>1, <2>5, SlotIsRooted
    <3> QED BY <2>1, <2>2, <2>3, <3>1, <3>2, <3>3
  <2> QED BY <1>2, <2>4, <2>5 DEF Plan, ClassificationPlan
<1>3. CASE q.read \notin {"EstimateTravelDistance", "GetLocationClassification"}
  <2>1. ListsPlan(q, s)
    BY <1>3 DEF Plan
  <2>2. ~Lists(s)
    BY RestOfLists
  <2>3. Head(s) = One(q.of) /\ q.of \in Aggregates /\ Lists(Tail(s))
    BY <2>1, <2>2 DEF ListsPlan
  <2>4. One(q.of).of = q.of
    BY <2>3, StatementFacts
  <2>5. Plan(q, rows, shown, Tail(s))
    BY <1>3, <2>3 DEF Plan, ListsPlan
  <2> QED BY <2>3, <2>4, <2>5 DEF NamedBy
<1> QED BY <1>1, <1>2, <1>3

(* The rows of a list are rows of the map.                                    *)
LEMMA UnderFacts ==
    ASSUME NEW rows, NEW kind \in Kinds, NEW parent
    PROVE  Under(rows, kind, parent) \subseteq Aggregates
<1>1. \A k : OfKind(k) \subseteq Aggregates
  BY DEF OfKind
<1>2. /\ Zones \subseteq Aggregates /\ FixedStructures \subseteq Aggregates
      /\ Aisles \subseteq Aggregates /\ CrossAisles \subseteq Aggregates
      /\ LocationSlots \subseteq Aggregates
  BY KindFacts
<1>3. CASE kind \in {"site", "locationType", "rule"}
  <2>1. Under(rows, kind, parent) = OfKind(kind)
    BY <1>3, Zenon DEF Under
  <2> QED BY <1>1, <2>1
<1>4. CASE kind = "zone"
  <2>1. Under(rows, kind, parent) = {z \in Zones : SiteOf[z] = parent}
    BY <1>4, Zenon DEF Under
  <2> QED BY <1>2, <2>1
<1>5. CASE kind = "structure"
  <2>1. Under(rows, kind, parent) = {x \in FixedStructures : rows[x].attr = parent}
    BY <1>5, Zenon DEF Under
  <2> QED BY <1>2, <2>1
<1>6. CASE kind = "aisle"
  <2>1. Under(rows, kind, parent) = {a \in Aisles : ZoneOf[a] = parent}
    BY <1>6, Zenon DEF Under
  <2> QED BY <1>2, <2>1
<1>7. CASE kind = "crossAisle"
  <2>1. Under(rows, kind, parent) = {x \in CrossAisles : ZoneOf[x] = parent}
    BY <1>7, Zenon DEF Under
  <2> QED BY <1>2, <2>1
<1>8. CASE kind = "slot"
  <2>1. Under(rows, kind, parent) = {x \in LocationSlots : parent \in {AisleOf[x], ZoneOfSlot(x)}}
    BY <1>8, Zenon DEF Under
  <2> QED BY <1>2, <2>1
<1> QED BY <1>3, <1>4, <1>5, <1>6, <1>7, <1>8 DEF Kinds

(* Rows that are listed are shown, and the plan goes on.                      *)
LEMMA PlanLists ==
    ASSUME NEW q \in Queries, NEW rows, Custodial(rows), NEW shown, NEW s,
           Plan(q, rows, shown, s), s # << >>, Head(s).op = "list", NEW found,
           found = {a \in Under(rows, Head(s).kind, Head(s).of) : Present(rows[a])},
           NEW loop \in Loops(q, Head(s).kind, found)
    PROVE  /\ found \subseteq Aggregates
           /\ Plan(q, rows, shown \cup found, loop \o Tail(s))
<1> DEFINE zone == ZoneOfSlot(q.of)
           more == shown \cup found
<1>1. Head(s) \in Statement /\ Tail(s) \in Seq(Statement)
  BY PlanIsTyped, HeadTailProperties
<1>2. Head(s).kind \in Kinds
  BY <1>1 DEF Statement
<1>3. found \in SUBSET Aggregates
  BY <1>2, UnderFacts
<1>4. /\ Lists(loop)
      /\ q.read \notin {"GetSiteLayout", "ListLocationsByRole"} => loop = << >>
  BY <1>3, LoopFacts
<1>5. << >> \o Tail(s) = Tail(s)
  BY <1>1, ConcatEmptySeq
<1>6. CASE q.read = "EstimateTravelDistance"
  <2>1. q.of \in LocationSlots /\ q.to \in LocationSlots
    BY <1>6, QueryFacts
  <2>2. q.of \in Aggregates /\ q.to \in Aggregates /\ zone \in Aggregates
    BY <2>1, KindFacts, ChainFacts
  <2>3. /\ One(q.of).op = "find" /\ One(q.to).op = "find" /\ One(zone).op = "find"
        /\ All("aisle", zone).kind = "aisle" /\ All("aisle", zone).of = zone
        /\ All("slot", zone).kind = "slot" /\ All("slot", zone).of = zone
    BY <2>2, StatementFacts DEF Kinds
  <2>4. loop \o Tail(s) = Tail(s)
    BY <1>4, <1>5, <1>6
  <2>5. CASE InOneZone(q)
    <3>1. ASSUME NEW t, DistancePlan(q, rows, more, t) PROVE Plan(q, rows, more, t)
      BY <1>6, <2>5, <3>1 DEF Plan
    <3>2. DistancePlan(q, rows, shown, s)
      BY <1>6, <2>5 DEF Plan
    <3>3. CASE s \in {AllSix(q), LastFive(q), LastFour(q)}
      BY <2>3, <3>3, DistanceTails
    <3>4. CASE s = LastThree(q) /\ BothThere(q, rows)
      <4>1. Head(s).kind = "aisle" /\ Head(s).of = zone /\ Tail(s) = LastTwo(q)
        BY <2>3, <3>4, DistanceTails
      <4>2. Under(rows, "aisle", zone) = {a \in Aisles : ZoneOf[a] = zone}
        BY Zenon DEF Under
      <4>3. /\ AisleOf[q.of] \in Aisles /\ Present(rows[AisleOf[q.of]])
            /\ AisleOf[q.to] \in Aisles /\ Present(rows[AisleOf[q.to]])
        BY <2>1, <3>4, SlotIsRooted DEF BothThere
      <4>4. ZoneOf[AisleOf[q.of]] = zone /\ ZoneOf[AisleOf[q.to]] = zone
        BY <2>5 DEF InOneZone, ZoneOfSlot
      <4>5. AislesShown(q, more)
        BY <4>1, <4>2, <4>3, <4>4 DEF AislesShown
      <4>6. DistancePlan(q, rows, more, LastTwo(q))
        BY <3>4, <4>5 DEF DistancePlan
      <4> QED BY <1>3, <2>4, <3>1, <4>1, <4>6
    <3>5. CASE s = LastTwo(q) /\ BothThere(q, rows) /\ AislesShown(q, shown)
      <4>1. Head(s).kind = "slot" /\ Head(s).of = zone /\ Tail(s) = LastOne(q)
        BY <2>3, <3>5, DistanceTails
      <4>2. Under(rows, "slot", zone) = {x \in LocationSlots : zone \in {AisleOf[x], ZoneOfSlot(x)}}
        BY Zenon DEF Under
      <4>3. zone = ZoneOfSlot(q.to)
        BY <2>5 DEF InOneZone
      <4>4. SlotsShown(q, more)
        BY <2>1, <3>5, <4>1, <4>2, <4>3 DEF SlotsShown, BothThere
      <4>5. AislesShown(q, more)
        BY <3>5 DEF AislesShown
      <4>6. DistancePlan(q, rows, more, LastOne(q))
        BY <4>4, <4>5 DEF DistancePlan
      <4> QED BY <1>3, <2>4, <3>1, <4>1, <4>6
    <3>6. CASE s = LastOne(q) /\ AislesShown(q, shown) /\ SlotsShown(q, shown)
      <4>1. Tail(s) = << >>
        BY <3>6, DistanceTails
      <4>2. DistancePlan(q, rows, more, << >>)
        BY <3>6 DEF DistancePlan, AislesShown, SlotsShown
      <4> QED BY <1>3, <2>4, <3>1, <4>1, <4>2
    <3> QED BY <3>2, <3>3, <3>4, <3>5, <3>6 DEF DistancePlan
  <2>6. CASE ~InOneZone(q)
    <3>1. s \in {<< One(q.of), One(q.to) >>, << One(q.to) >>}
      BY <1>6, <2>6 DEF Plan, TwoZonesPlan
    <3>2. Head(s) = One(q.of) \/ Head(s) = One(q.to)
      BY <3>1, HeadOfTwo, HeadOfOne, Zenon
    <3> QED BY <2>3, <3>2
  <2> QED BY <2>5, <2>6
<1>7. CASE q.read = "GetLocationClassification"
  <2>1. q.of \in Aggregates /\ zone \in Aggregates
    BY <1>7, QueryFacts, KindFacts, ChainFacts
  <2>2. One(q.of).op = "find" /\ One(zone).op = "find"
    BY <2>1, StatementFacts
  <2>3. s \in {<< One(q.of), One(zone) >>, << One(zone) >>}
    BY <1>7 DEF Plan, ClassificationPlan
  <2>4. Head(s) = One(q.of) \/ Head(s) = One(zone)
    BY <2>3, HeadOfTwo, HeadOfOne, Zenon
  <2> QED BY <2>2, <2>4
<1>8. CASE q.read \notin {"EstimateTravelDistance", "GetLocationClassification"}
  <2>1. ListsPlan(q, s)
    BY <1>8 DEF Plan
  <2>2. ~(Head(s) = One(q.of) /\ q.of \in Aggregates)
    BY StatementFacts
  <2>3. Lists(Tail(s))
    BY <2>1, <2>2, RestOfLists DEF ListsPlan
  <2>4. Lists(loop \o Tail(s))
    BY <1>4, <2>3, ListsBefore
  <2> QED BY <1>3, <1>8, <2>4 DEF Plan, ListsPlan
<1> QED BY <1>6, <1>7, <1>8

(* Writers do not upset a plan: they remove nothing.                          *)
LEMMA PlanOutlastsWrites ==
    ASSUME NEW q \in Queries, NEW rows, NEW more, NEW shown, NEW s,
           \A a \in Aggregates : Present(rows[a]) => Present(more[a]),
           Plan(q, rows, shown, s)
    PROVE  Plan(q, more, shown, s)
<1>1. q.read \in {"EstimateTravelDistance", "GetLocationClassification"} =>
          (Present(rows[q.of]) => Present(more[q.of]))
  BY QueryFacts, KindFacts
<1>2. q.read = "EstimateTravelDistance" => (Present(rows[q.to]) => Present(more[q.to]))
  BY QueryFacts, KindFacts
<1>3. q.read = "EstimateTravelDistance" => (BothThere(q, rows) => BothThere(q, more))
  BY <1>1, <1>2 DEF BothThere
<1>4. q.read = "EstimateTravelDistance" /\ DistancePlan(q, rows, shown, s) =>
          DistancePlan(q, more, shown, s)
  BY <1>1, <1>3 DEF DistancePlan
<1>5. q.read = "GetLocationClassification" /\ ClassificationPlan(q, rows, s) =>
          ClassificationPlan(q, more, s)
  BY <1>1 DEF ClassificationPlan
<1> QED BY <1>4, <1>5 DEF Plan

(* When the plan of a distance is carried out, both slots and their aisles    *)
(* were shown.                                                                *)
LEMMA PlanIsDone ==
    ASSUME NEW q \in Queries, NEW rows, NEW shown, Plan(q, rows, shown, << >>),
           q.read = "EstimateTravelDistance", InOneZone(q)
    PROVE  AislesShown(q, shown) /\ SlotsShown(q, shown)
<1>1. DistancePlan(q, rows, shown, << >>)
  BY DEF Plan
<1> QED BY <1>1, DistanceTails DEF DistancePlan
-----------------------------------------------------------------------------
(* The inductive invariant.  FoundIsRooted is not inductive: that the row     *)
(* that is looked up next is there was found by statements that ran before    *)
(* writers wrote.  What carries it over is the plan: what was found or listed *)
(* for what is still to run, and that writers remove nothing.                 *)
IndInv ==
    /\ TypeOK
    /\ Custodial(store)
    /\ SearchInv
    /\ reader = "reading" => Plan(query, store, listed, agenda)
    /\ reader # "searching" => search = "idle"
    /\ FoundIsRooted

(* Statements have the type the agenda has.                                   *)
LEMMA AgendaFacts ==
    ASSUME NEW s \in Seq(Statement)
    PROVE  \A i \in DOMAIN s : s[i].op \in {"find", "list"} /\ s[i].of \in Aggregates \cup {None}
<1>1. \A i \in DOMAIN s : s[i] \in Statement
  OBVIOUS
<1>2. \A t \in Statement : t.op \in {"find", "list"} /\ t.of \in Aggregates \cup {None}
  BY DEF Statement
<1> QED BY <1>1, <1>2

(* It holds when a read begins.                                               *)
LEMMA InitEstablishes == Init => IndInv
<1> SUFFICES ASSUME Init PROVE IndInv
  OBVIOUS
<1>1. store \in [Aggregates -> Row] /\ Custodial(store)
  BY LoadingsAssumption DEF Init
<1>2. query \in Queries /\ reader = "reading" /\ agenda = Statements(query) /\ search = "idle"
  BY DEF Init, Unasked
<1>3. Plan(query, store, listed, agenda)
  BY <1>2, PlanBegins
<1>4. \A i \in DOMAIN agenda : /\ agenda[i].op \in {"find", "list"}
                               /\ agenda[i].of \in Aggregates \cup {None}
  BY <1>2, <1>3, PlanIsTyped, AgendaFacts
<1>5. NoRow \in Row
  BY DEF NoRow, Row, Status, Attributes, Absent
<1>6. TypeOK
  BY <1>1, <1>2, <1>4, <1>5 DEF Init, TypeOK, BothWays
<1>7. SearchInv
  <2>1. IsGraph(NoGraph)
    BY BuildIsGraph DEF NoGraph
  <2>2. Types
    BY <2>1 DEF Init, Unasked, Types
  <2> QED BY <1>2, <2>2 DEF SearchInv, RouteIsCertified
<1> QED BY <1>1, <1>2, <1>3, <1>6, <1>7 DEF IndInv, FoundIsRooted

(* What readers do not touch when writers write, and the other way round.     *)
LEMMA WriteKeeps ==
    ASSUME IndInv, NEW w \in Writers, Write(w)
    PROVE  IndInv'
<1>1. UNCHANGED <<query, reader, agenda, seen, listed, searchVars>> /\ written' = written \cup {w}
      /\ bothWays' = bothWays \cup BothWays(store')
  BY DEF Write, readerVars
<1>2. StoreInv' /\ \A b \in Aggregates : Present(store[b]) => Present(store'[b])
  BY WriteKeepsStore DEF IndInv, TypeOK, StoreInv
<1>3. UNCHANGED <<search, graph>>
  BY <1>1 DEF searchVars
<1>4. TypeOK'
  BY <1>1, <1>2, <1>3 DEF IndInv, TypeOK, StoreInv, BothWays
<1>5. SearchInv'
  BY <1>1, RestKeeps DEF IndInv
<1>6. ASSUME reader' = "reading" PROVE Plan(query', store', listed', agenda')
  <2>1. query \in Queries /\ Plan(query, store, listed, agenda)
    BY <1>1, <1>6 DEF IndInv, TypeOK
  <2>2. Plan(query, store', listed, agenda)
    BY <1>2, <2>1, PlanOutlastsWrites
  <2> QED BY <1>1, <2>2
<1>7. FoundIsRooted'
  BY <1>1, <1>3 DEF IndInv, FoundIsRooted
<1>8. (reader # "searching" => search = "idle")'
  BY <1>1, <1>3 DEF IndInv
<1> QED BY <1>2, <1>4, <1>5, <1>6, <1>7, <1>8 DEF IndInv, StoreInv

(* A row is found ...                                                         *)
LEMMA FindRowKeeps ==
    ASSUME IndInv, FindRow
    PROVE  IndInv'
<1> DEFINE a == Head(agenda).of
<1>1. /\ reader = "reading" /\ agenda # << >> /\ Head(agenda).op = "find" /\ Present(store[a])
      /\ seen' = [seen EXCEPT ![a] = store[a]] /\ agenda' = Tail(agenda)
      /\ UNCHANGED <<store, written, bothWays, query, reader, listed, searchVars>>
  BY DEF FindRow
<1>2. query \in Queries /\ Custodial(store) /\ Plan(query, store, listed, agenda)
  BY <1>1 DEF IndInv, TypeOK
<1>3. a \in Aggregates /\ Plan(query, store, listed, Tail(agenda))
  BY <1>1, <1>2, PlanFinds
<1>4. UNCHANGED <<search, graph>>
  BY <1>1 DEF searchVars
<1>5. TypeOK'
  <2>1. Tail(agenda) \in Seq(Statement)
    BY <1>2, <1>3, PlanIsTyped
  <2>2. \A i \in DOMAIN agenda' : /\ agenda'[i].op \in {"find", "list"}
                                  /\ agenda'[i].of \in Aggregates \cup {None}
    BY <1>1, <2>1, AgendaFacts
  <2>3. seen' \in [Aggregates -> Row]
    <3> HIDE DEF a
    <3> QED BY <1>1, <1>3 DEF IndInv, TypeOK
  <2> QED BY <1>1, <1>4, <2>2, <2>3 DEF IndInv, TypeOK
<1>6. SearchInv'
  BY <1>1, RestKeeps DEF IndInv
<1>7. Plan(query', store', listed', agenda')
  BY <1>1, <1>3
<1>8. FoundIsRooted'
  BY <1>1, <1>4 DEF IndInv, FoundIsRooted
<1> QED BY <1>1, <1>4, <1>5, <1>6, <1>7, <1>8 DEF IndInv

(* ... or it is not there, and then the client named it ...                   *)
LEMMA MissRowKeeps ==
    ASSUME IndInv, MissRow
    PROVE  IndInv'
<1>1. /\ reader = "reading" /\ agenda # << >> /\ Head(agenda).op = "find"
      /\ ~Present(store[Head(agenda).of])
      /\ reader' = "not found"
      /\ UNCHANGED <<store, written, bothWays, query, agenda, seen, listed, searchVars>>
  BY DEF MissRow
<1>2. query \in Queries /\ Custodial(store) /\ Plan(query, store, listed, agenda)
  BY <1>1 DEF IndInv, TypeOK
<1>3. Head(agenda).of \in NamedBy(query)
  BY <1>1, <1>2, PlanFinds
<1>4. UNCHANGED <<search, graph>>
  BY <1>1 DEF searchVars
<1>5. TypeOK'
  BY <1>1, <1>4 DEF IndInv, TypeOK
<1>6. SearchInv'
  BY <1>1, RestKeeps DEF IndInv
<1>7. FoundIsRooted'
  BY <1>1, <1>3, <1>4 DEF IndInv, FoundIsRooted, NamedBy
<1> QED BY <1>1, <1>4, <1>5, <1>6, <1>7 DEF IndInv

(* ... or rows are listed ...                                                 *)
LEMMA ListRowsKeeps ==
    ASSUME IndInv, ListRows
    PROVE  IndInv'
<1> DEFINE rows == Listed(Head(agenda).kind, Head(agenda).of)
<1>1. /\ reader = "reading" /\ agenda # << >> /\ Head(agenda).op = "list"
      /\ listed' = listed \cup rows
      /\ seen' = [a \in Aggregates |-> IF a \in rows THEN store[a] ELSE seen[a]]
      /\ \E loop \in Loops(query, Head(agenda).kind, rows) : agenda' = loop \o Tail(agenda)
      /\ UNCHANGED <<store, written, bothWays, query, reader, searchVars>>
  BY DEF ListRows
<1>2. query \in Queries /\ Custodial(store) /\ Plan(query, store, listed, agenda)
  BY <1>1 DEF IndInv, TypeOK
<1>3. rows = {a \in Under(store, Head(agenda).kind, Head(agenda).of) : Present(store[a])}
  BY DEF Listed
<1> HIDE DEF rows
<1> PICK loop \in Loops(query, Head(agenda).kind, rows) : agenda' = loop \o Tail(agenda)
  BY <1>1
<1>4. rows \subseteq Aggregates /\ Plan(query, store, listed \cup rows, loop \o Tail(agenda))
  BY <1>1, <1>2, <1>3, PlanLists
<1>5. UNCHANGED <<search, graph>>
  BY <1>1 DEF searchVars
<1>6. TypeOK'
  <2>1. agenda' \in Seq(Statement)
    BY <1>2, <1>4, PlanIsTyped
  <2>2. \A i \in DOMAIN agenda' : /\ agenda'[i].op \in {"find", "list"}
                                  /\ agenda'[i].of \in Aggregates \cup {None}
    BY <2>1, AgendaFacts
  <2>3. seen' \in [Aggregates -> Row]
    BY <1>1 DEF IndInv, TypeOK
  <2>4. listed' \subseteq Aggregates
    BY <1>1, <1>4 DEF IndInv, TypeOK
  <2> QED BY <1>1, <1>5, <2>2, <2>3, <2>4 DEF IndInv, TypeOK
<1>7. SearchInv'
  BY <1>1, RestKeeps DEF IndInv
<1>8. Plan(query', store', listed', agenda')
  BY <1>1, <1>4
<1>9. FoundIsRooted'
  BY <1>1, <1>5 DEF IndInv, FoundIsRooted
<1> QED BY <1>1, <1>5, <1>6, <1>7, <1>8, <1>9 DEF IndInv

(* ... or a statement fails, or the answer needs no search ...                *)
LEMMA AnswerKeeps ==
    ASSUME IndInv, Fail \/ Answer \/ RefuseOtherZone
    PROVE  IndInv'
<1>1. /\ reader = "reading" /\ reader' \in {"failed", "answered", "no route between zones"}
      /\ UNCHANGED <<store, written, bothWays, query, agenda, seen, listed, searchVars>>
  BY DEF Fail, Answer, RefuseOtherZone
<1>2. UNCHANGED <<search, graph>>
  BY <1>1 DEF searchVars
<1>3. TypeOK'
  BY <1>1, <1>2 DEF IndInv, TypeOK
<1>4. SearchInv'
  BY <1>1, RestKeeps DEF IndInv
<1>5. FoundIsRooted'
  BY <1>1, <1>2 DEF IndInv, FoundIsRooted
<1> QED BY <1>1, <1>2, <1>3, <1>4, <1>5 DEF IndInv

(* ... or it does, and then both slots stand at waypoints of the graph ...    *)
LEMMA SearchRouteKeeps ==
    ASSUME IndInv, SearchRoute
    PROVE  IndInv'
<1> DEFINE zone == ZoneOfSlot(query.of)
           g == ZoneGraph(zone)
           from == Waypoint(query.of)
           to == Waypoint(query.to)
<1>1. /\ reader = "reading" /\ agenda = << >> /\ query.read = "EstimateTravelDistance"
      /\ InOneZone(query) /\ reader' = "searching" /\ Ask(g, from, to)
      /\ UNCHANGED <<store, written, bothWays, query, agenda, seen, listed>>
  BY DEF SearchRoute, SameZone, InOneZone
<1>2. query \in Queries /\ Plan(query, store, listed, << >>)
  BY <1>1 DEF IndInv, TypeOK
<1>3. AislesShown(query, listed) /\ SlotsShown(query, listed)
  BY <1>1, <1>2, PlanIsDone
<1>4. query.of \in LocationSlots /\ query.to \in LocationSlots
  BY <1>1, <1>2, QueryFacts
<1>5. /\ query.of \in SlotsSeen /\ AisleOf[query.of] \in AislesSeen
      /\ query.to \in SlotsSeen /\ AisleOf[query.to] \in AislesSeen
  BY <1>3, <1>4, ChainFacts DEF SlotsSeen, AislesSeen, AislesShown, SlotsShown
<1>6. IsGraph(g) /\ from \in g.nodes /\ to \in g.nodes
  BY <1>4, <1>5, ChainFacts, ZoneGraphFacts DEF IndInv
<1> HIDE DEF g, from, to
<1>7. SearchInv'
  BY <1>1, <1>6, AskEstablishes
<1>8. search' # "unknown waypoint"
  BY <1>1, <1>6 DEF Ask
<1>9. TypeOK'
  <2>1. graph' = g
    BY <1>1 DEF Ask
  <2> QED BY <1>1, <1>6, <2>1 DEF IndInv, TypeOK
<1>10. FoundIsRooted'
  BY <1>1, <1>8 DEF FoundIsRooted
<1> QED BY <1>1, <1>7, <1>9, <1>10 DEF IndInv

(* ... and the search goes on.                                                *)
LEMMA SearchKeeps ==
    ASSUME IndInv, Search
    PROVE  IndInv'
<1>1. SearchStep /\ UNCHANGED <<store, written, bothWays, query, reader, agenda, seen, listed>>
  BY DEF Search
<1>2. SearchInv'
  BY <1>1, SearchStepKeeps DEF IndInv
<1>3. graph' = graph /\ search # "idle"
  BY <1>1 DEF SearchStep, Skip, Settle, Finish, Exhaust, Trace, Return
<1>4. search' # "unknown waypoint"
  BY <1>1 DEF SearchStep, Skip, Settle, Finish, Exhaust, Trace, Return
<1>5. reader = "searching"
  BY <1>3 DEF IndInv
<1>6. TypeOK'
  BY <1>1, <1>3 DEF IndInv, TypeOK
<1>7. FoundIsRooted'
  BY <1>1, <1>4, <1>5 DEF FoundIsRooted
<1> QED BY <1>1, <1>2, <1>5, <1>6, <1>7 DEF IndInv

(* A step of a read, of a writer, or nothing.                                 *)
THEOREM StepKeeps == IndInv /\ [Next]_vars => IndInv'
<1> SUFFICES ASSUME IndInv, [Next]_vars PROVE IndInv'
  OBVIOUS
<1>1. CASE \E w \in Writers : Write(w)
  BY <1>1, WriteKeeps
<1>2. CASE FindRow
  BY <1>2, FindRowKeeps
<1>3. CASE MissRow
  BY <1>3, MissRowKeeps
<1>4. CASE ListRows
  BY <1>4, ListRowsKeeps
<1>5. CASE Fail \/ Answer \/ RefuseOtherZone
  BY <1>5, AnswerKeeps
<1>6. CASE SearchRoute
  BY <1>6, SearchRouteKeeps
<1>7. CASE Search
  BY <1>7, SearchKeeps
<1>8. CASE UNCHANGED vars
  <2>1. UNCHANGED <<store, written, bothWays, query, reader, agenda, seen, listed, searchVars>>
    BY <1>8 DEF vars, readerVars
  <2>2. UNCHANGED <<search, graph>>
    BY <2>1 DEF searchVars
  <2>3. TypeOK'
    BY <2>1, <2>2 DEF IndInv, TypeOK
  <2>4. SearchInv'
    BY <2>1, RestKeeps DEF IndInv
  <2>5. FoundIsRooted'
    BY <2>1, <2>2 DEF IndInv, FoundIsRooted
  <2> QED BY <2>1, <2>2, <2>3, <2>4, <2>5 DEF IndInv
<1> QED
  BY <1>1, <1>2, <1>3, <1>4, <1>5, <1>6, <1>7, <1>8 DEF Next, ReadStep, Rest

(* The invariant holds in every state of every read.                          *)
THEOREM ReadsKeepIndInv == Spec => []IndInv
<1>1. Init => IndInv
  BY InitEstablishes
<1>2. IndInv /\ [Next]_vars => IndInv'
  BY StepKeeps
<1> QED BY <1>1, <1>2, PTL DEF Spec

(* The rows a read has seen, what it has still to run and the graph it        *)
(* searches are of their types.                                               *)
THEOREM ReadsAreTyped == Spec => []TypeOK
<1>1. IndInv => TypeOK
  BY DEF IndInv
<1> QED BY <1>1, ReadsKeepIndInv, PTL

(* Only what the client named is ever not found, whatever writers commit      *)
(* between the statements of the read; no waypoint of a distance is unknown.  *)
THEOREM OnlyNamedIsMissed == Spec => []FoundIsRooted
<1>1. IndInv => FoundIsRooted
  BY DEF IndInv
<1> QED BY <1>1, ReadsKeepIndInv, PTL

(* The distance a client is given is the length of a walk in the graph that   *)
(* was read, no walk is shorter, and where there is no route there is none.   *)
THEOREM DistanceIsCertified == Spec => []RouteIsCertified
<1>1. IndInv => RouteIsCertified
  BY DEF IndInv, SearchInv
<1> QED BY <1>1, ReadsKeepIndInv, PTL
-----------------------------------------------------------------------------
(* What a read is sure to show: what it is asked of, as it was when the read  *)
(* began.                                                                     *)

(* The reads of one zone, and the zone.                                       *)
OfOneZone(q) ==
    \/ q.read \in {"GetZoneGrid", "GetZoneTravelGraph"}
    \/ q.read = "EstimateTravelDistance" /\ InOneZone(q)

ZoneAsked(q) == IF q.read = "EstimateTravelDistance" THEN ZoneOfSlot(q.of) ELSE q.of

Owed(q, past) ==
    {b \in Aggregates :
        \/ /\ OfOneZone(q)
           /\ \/ b \in Aisles /\ ZoneOf[b] = ZoneAsked(q)
              \/ b \in LocationSlots /\ ZoneOfSlot(b) = ZoneAsked(q)
        \/ /\ q.read = "GetSiteLayout"
           /\ \/ b \in Zones /\ SiteOf[b] = q.of
              \/ b \in FixedStructures /\ past[b].attr = q.of
              \/ b \in Aisles /\ SiteOf[ZoneOf[b]] = q.of
              \/ b \in LocationSlots /\ SiteOfSlot(b) = q.of
        \/ /\ q.read = "ListLocationsByRole"
           /\ b \in LocationSlots /\ SiteOfSlot(b) = q.of}

(* A statement lists a row, or the rows of a loop that goes on to it.         *)
Brings(q, past, s, b) ==
    /\ s.op = "list"
    /\ \/ b \in Under(past, s.kind, s.of)
       \/ /\ q.read = "GetSiteLayout" /\ s.kind = "zone"
          /\ \/ b \in Aisles /\ SiteOf[ZoneOf[b]] = s.of
             \/ b \in LocationSlots /\ SiteOfSlot(b) = s.of
       \/ /\ q.read = "GetSiteLayout" /\ s.kind = "aisle"
          /\ b \in LocationSlots /\ ZoneOfSlot(b) = s.of
       \/ /\ q.read = "ListLocationsByRole" /\ s.kind = "zone"
          /\ b \in LocationSlots /\ SiteOfSlot(b) = s.of

Pending(q, past, list, b) == \E i \in 1..Len(list) : Brings(q, past, list[i], b)

(* What was there when the read began is there, under the same row or one of  *)
(* a writer's, a structure at the site it was at; what was listed is there,   *)
(* and was read as it began or a writer has been at it.                       *)
Past ==
    /\ atStart \in Loadings
    /\ \A a \in Aggregates :
          /\ Present(atStart[a]) =>
                /\ Present(store[a])
                /\ a \in FixedStructures => store[a].attr = atStart[a].attr
          /\ store[a] = atStart[a] \/ store[a].by \in Writers
    /\ \A a \in listed :
          /\ Present(store[a])
          /\ seen[a] = atStart[a] \/ store[a].by \in Writers

(* What is known of an aisle's direction is no older than the read.           *)
Directed ==
    /\ BothWays(store) \subseteq bothWays
    /\ \A a \in listed \cap Aisles : seen[a].attr # OneWay => a \in bothWays

(* What is owed is shown, or is still to be listed.                           *)
Promise ==
    /\ reader = "reading" =>
          \A b \in Owed(query, atStart) :
              Present(atStart[b]) => b \in listed \/ Pending(query, atStart, agenda, b)
    /\ reader \in {"answered", "searching"} =>
          \A b \in Owed(query, atStart) : Present(atStart[b]) => b \in listed

(* A distance lists nothing but its zone, is searched for in the graph of     *)
(* what it listed, and its route is one of waypoints.                         *)
Charted ==
    /\ query.read = "EstimateTravelDistance" =>
          \A a \in listed \cap Aisles : ZoneOf[a] = ZoneOfSlot(query.of)
    /\ reader = "searching" =>
          /\ query.read = "EstimateTravelDistance" /\ InOneZone(query)
          /\ graph = ZoneGraph(ZoneOfSlot(query.of))
    /\ search = "routed" => route \in Seq(graph.nodes)

ShownInv == IndInv /\ Past /\ Directed /\ Promise /\ Charted

(* What a list statement may return of rows, kind by kind.                    *)
LEMMA UnderIs ==
    ASSUME NEW past, NEW parent
    PROVE  /\ Under(past, "zone", parent) = {z \in Zones : SiteOf[z] = parent}
           /\ Under(past, "structure", parent) = {x \in FixedStructures : past[x].attr = parent}
           /\ Under(past, "aisle", parent) = {a \in Aisles : ZoneOf[a] = parent}
           /\ Under(past, "slot", parent) =
                  {s \in LocationSlots : parent \in {AisleOf[s], ZoneOfSlot(s)}}
BY Zenon DEF Under

(* The kinds exclude each other.                                              *)
LEMMA KindsApart ==
    /\ \A a \in Aisles : a \notin Zones /\ a \notin LocationSlots /\ a \notin CrossAisles
    /\ \A z \in Zones : z \notin LocationSlots
BY KindFacts

(* The slots under a zone are those whose code names it, and under an aisle   *)
(* those whose code names that.                                               *)
LEMMA SlotsUnder ==
    ASSUME NEW past
    PROVE  /\ \A z \in Zones :
                 Under(past, "slot", z) = {s \in LocationSlots : ZoneOfSlot(s) = z}
           /\ \A a \in Aisles :
                 Under(past, "slot", a) = {s \in LocationSlots : AisleOf[s] = a}
<1>1. \A s \in LocationSlots : AisleOf[s] \in Aisles /\ ZoneOfSlot(s) \in Zones
  BY ChainFacts
<1> QED BY <1>1, UnderIs, KindsApart

(* It returns a row of these rows and later ones alike, if a structure keeps  *)
(* its site.                                                                  *)
LEMMA UnderLasts ==
    ASSUME NEW past, NEW rows, NEW kind \in Kinds, NEW parent, NEW b \in Under(past, kind, parent),
           b \in FixedStructures => rows[b].attr = past[b].attr
    PROVE  b \in Under(rows, kind, parent)
<1>1. CASE kind = "structure"
  BY <1>1, UnderIs
<1>2. CASE kind \in {"site", "locationType", "rule"}
  <2>1. Under(past, kind, parent) = OfKind(kind) /\ Under(rows, kind, parent) = OfKind(kind)
    BY <1>2, Zenon DEF Under
  <2> QED BY <2>1
<1>3. CASE kind \in {"zone", "aisle", "slot"}
  BY <1>3, UnderIs
<1>4. CASE kind = "crossAisle"
  <2>1. /\ Under(past, kind, parent) = {x \in CrossAisles : ZoneOf[x] = parent}
        /\ Under(rows, kind, parent) = {x \in CrossAisles : ZoneOf[x] = parent}
    BY <1>4, Zenon DEF Under
  <2> QED BY <2>1
<1> QED BY <1>1, <1>2, <1>3, <1>4 DEF Kinds

(* A loop over rows runs its statement for each of them: sorting leaves none  *)
(* out.                                                                       *)
LEMMA LoopReachesAll ==
    ASSUME NEW q, NEW kind, NEW k \in Kinds, Nested(q, kind) = {k},
           NEW rows \in SUBSET Aggregates, NEW loop \in Loops(q, kind, rows), NEW r \in rows
    PROVE  \E i \in 1..Len(loop) : loop[i] = All(k, r)
<1> DEFINE n == Cardinality(rows)
<1>1. IsFiniteSet(rows) /\ n \in Nat
  BY LayoutAssumption, FS_Subset, FS_CardinalityType, Zenon
<1>2. (CHOOSE x \in Nested(q, kind) : TRUE) = k
  OBVIOUS
<1>3. PICK order \in Orders(rows) : loop = [i \in DOMAIN order |-> All(k, order[i])]
  BY <1>2 DEF Loops
<1>4. /\ order \in [1..n -> rows]
      /\ \A i, j \in 1..n : order[i] = order[j] => i = j
  BY <1>3 DEF Orders
<1>5. Cardinality(1..n) = n
  BY <1>1, FS_Interval
<1> HIDE DEF n
<1>6. order \in Injection(1..n, rows)
  BY <1>4 DEF Injection, IsInjective
<1>7. n = Cardinality(rows)
  BY DEF n
<1>8. order \in Surjection(1..n, rows)
  BY <1>1, <1>5, <1>6, <1>7, FS_Injection
<1>9. PICK i \in 1..n : order[i] = r
  BY <1>8 DEF Surjection
<1>10. loop = [j \in 1..n |-> All(k, order[j])]
  BY <1>3, <1>4
<1>11. Len(loop) = n
  BY <1>1, <1>10
<1> QED BY <1>9, <1>10, <1>11

(* What hangs from a zone or an aisle was there with it.                      *)
LEMMA RootsOf ==
    ASSUME NEW rows, Custodial(rows)
    PROVE  /\ \A a \in Aisles : Present(rows[a]) =>
                  ZoneOf[a] \in Zones /\ Present(rows[ZoneOf[a]])
           /\ \A s \in LocationSlots : Present(rows[s]) =>
                  /\ AisleOf[s] \in Aisles /\ Present(rows[AisleOf[s]])
                  /\ ZoneOfSlot(s) \in Zones /\ Present(rows[ZoneOfSlot(s)])
<1>1. ASSUME NEW a \in Aisles, Present(rows[a])
      PROVE  ZoneOf[a] \in Zones /\ Present(rows[ZoneOf[a]])
  <2>1. a \in Aggregates /\ KindOf[a] = "aisle"
    BY KindFacts
  <2>2. ZoneOf[a] \in Parents(a, rows[a])
    BY <2>1 DEF Parents, Custody
  <2> QED BY <1>1, <2>1, <2>2, CodeAssumption DEF Custodial
<1> QED BY <1>1, SlotIsRooted

(* A statement that runs lists what it brings, or runs into the loop what     *)
(* brings it: nothing between them was missing when the read began.           *)
LEMMA BroughtOn ==
    ASSUME NEW past, Custodial(past),
           NEW q, NEW s \in Statement, NEW b, Brings(q, past, s, b), Present(past[b]),
           NEW rows, \A a \in Aggregates : Present(past[a]) => Present(rows[a]),
           b \in FixedStructures => rows[b].attr = past[b].attr,
           NEW found, found = {a \in Under(rows, s.kind, s.of) : Present(rows[a])},
           NEW loop \in Loops(q, s.kind, found)
    PROVE  b \in found \/ Pending(q, past, loop, b)
<1>1. s.kind \in Kinds /\ s.op = "list"
  BY DEF Statement, Brings
<1>2. Under(rows, s.kind, s.of) \subseteq Aggregates
  BY <1>1, UnderFacts
<1>3. found \in SUBSET Aggregates
  BY <1>2
<1>4. ASSUME NEW k \in {"aisle", "slot"}, Nested(q, s.kind) = {k}, NEW r \in found,
             Brings(q, past, All(k, r), b)
      PROVE  Pending(q, past, loop, b)
  <2>1. k \in Kinds
    BY DEF Kinds
  <2>2. PICK i \in 1..Len(loop) : loop[i] = All(k, r)
    BY <1>3, <1>4, <2>1, LoopReachesAll
  <2> QED BY <1>4, <2>2 DEF Pending
<1>5. CASE b \in Under(past, s.kind, s.of)
  <2>1. b \in Under(rows, s.kind, s.of)
    BY <1>1, <1>5, UnderLasts
  <2> QED BY <1>2, <2>1
<1>6. CASE q.read = "GetSiteLayout" /\ s.kind = "zone" /\ b \in Aisles
           /\ SiteOf[ZoneOf[b]] = s.of
  <2>1. ZoneOf[b] \in Zones /\ Present(past[ZoneOf[b]]) /\ ZoneOf[b] \in Aggregates
    BY <1>6, RootsOf, KindFacts
  <2>2. ZoneOf[b] \in found
    BY <1>6, <2>1, UnderIs
  <2>3. Nested(q, s.kind) = {"aisle"}
    BY <1>6, Zenon DEF Nested
  <2>4. b \in Under(past, "aisle", ZoneOf[b])
    BY <1>6, UnderIs
  <2>5. Brings(q, past, All("aisle", ZoneOf[b]), b)
    BY <2>1, <2>4, StatementFacts DEF Brings, Kinds
  <2> QED BY <1>4, <2>2, <2>3, <2>5
<1>7. CASE q.read = "GetSiteLayout" /\ s.kind = "zone" /\ b \in LocationSlots
           /\ SiteOfSlot(b) = s.of
  <2> DEFINE z == ZoneOfSlot(b)
  <2>1. z \in Zones /\ Present(past[z]) /\ z \in Aggregates
    BY <1>7, RootsOf, KindFacts
  <2>2. z \in found
    BY <1>7, <2>1, UnderIs DEF SiteOfSlot
  <2>3. Nested(q, s.kind) = {"aisle"}
    BY <1>7, Zenon DEF Nested
  <2>4. All("aisle", z).op = "list" /\ All("aisle", z).kind = "aisle" /\ All("aisle", z).of = z
    BY <2>1, StatementFacts DEF Kinds
  <2>5. Brings(q, past, All("aisle", z), b)
    BY <1>7, <2>4 DEF Brings
  <2> QED BY <1>4, <2>2, <2>3, <2>5
<1>8. CASE q.read = "GetSiteLayout" /\ s.kind = "aisle" /\ b \in LocationSlots
           /\ ZoneOfSlot(b) = s.of
  <2> DEFINE a == AisleOf[b]
  <2>1. a \in Aisles /\ Present(past[a]) /\ a \in Aggregates /\ ZoneOf[a] = s.of
    BY <1>8, RootsOf, KindFacts DEF ZoneOfSlot
  <2>2. a \in found
    BY <1>8, <2>1, UnderIs
  <2>3. Nested(q, s.kind) = {"slot"}
    BY <1>8, Zenon DEF Nested
  <2>4. All("slot", a).op = "list" /\ All("slot", a).kind = "slot" /\ All("slot", a).of = a
    BY <2>1, StatementFacts DEF Kinds
  <2>5. b \in Under(past, "slot", a)
    BY <1>8, UnderIs
  <2>6. Brings(q, past, All("slot", a), b)
    BY <2>4, <2>5 DEF Brings
  <2> QED BY <1>4, <2>2, <2>3, <2>6
<1>9. CASE q.read = "ListLocationsByRole" /\ s.kind = "zone" /\ b \in LocationSlots
           /\ SiteOfSlot(b) = s.of
  <2> DEFINE z == ZoneOfSlot(b)
  <2>1. z \in Zones /\ Present(past[z]) /\ z \in Aggregates
    BY <1>9, RootsOf, KindFacts
  <2>2. z \in found
    BY <1>9, <2>1, UnderIs DEF SiteOfSlot
  <2>3. Nested(q, s.kind) = {"slot"}
    BY <1>9, Zenon DEF Nested
  <2>4. All("slot", z).op = "list" /\ All("slot", z).kind = "slot" /\ All("slot", z).of = z
    BY <2>1, StatementFacts DEF Kinds
  <2>5. b \in Under(past, "slot", z)
    BY <1>9, UnderIs
  <2>6. Brings(q, past, All("slot", z), b)
    BY <2>4, <2>5 DEF Brings
  <2> QED BY <1>4, <2>2, <2>3, <2>6
<1> QED BY <1>5, <1>6, <1>7, <1>8, <1>9 DEF Brings

(* What is pending is at the head of the list or behind it.                   *)
LEMMA PendingSplits ==
    ASSUME NEW past, NEW q, NEW list \in Seq(Statement), list # << >>, NEW b,
           Pending(q, past, list, b)
    PROVE  Brings(q, past, Head(list), b) \/ Pending(q, past, Tail(list), b)
<1>1. PICK i \in 1..Len(list) : Brings(q, past, list[i], b)
  BY DEF Pending
<1>2. CASE i = 1
  BY <1>1, <1>2
<1>3. CASE i # 1
  <2>1. i - 1 \in 1..Len(Tail(list)) /\ Tail(list)[i - 1] = list[i]
    BY <1>3
  <2> QED BY <1>1, <2>1 DEF Pending
<1> QED BY <1>2, <1>3

LEMMA PendingJoins ==
    ASSUME NEW past, NEW q, NEW s \in Seq(Statement), NEW t \in Seq(Statement), NEW b,
           Pending(q, past, s, b) \/ Pending(q, past, t, b)
    PROVE  Pending(q, past, s \o t, b)
<1>1. CASE Pending(q, past, s, b)
  <2>1. PICK i \in 1..Len(s) : Brings(q, past, s[i], b)
    BY <1>1 DEF Pending
  <2>2. i \in 1..Len(s \o t) /\ (s \o t)[i] = s[i]
    OBVIOUS
  <2> QED BY <2>1, <2>2 DEF Pending
<1>2. CASE Pending(q, past, t, b)
  <2>1. PICK i \in 1..Len(t) : Brings(q, past, t[i], b)
    BY <1>2 DEF Pending
  <2>2. Len(s) + i \in 1..Len(s \o t) /\ (s \o t)[Len(s) + i] = t[i]
    OBVIOUS
  <2> QED BY <2>1, <2>2 DEF Pending
<1> QED BY <1>1, <1>2

(* Which zone or site a read may be of.                                       *)
LEMMA ResourceFacts ==
    ASSUME NEW q \in Queries
    PROVE  /\ q.read \in {"GetZoneGrid", "GetZoneTravelGraph"} => q.of \in Zones
           /\ q.read \in {"GetSiteLayout", "ListLocationsByRole"} => q.of \in Sites
<1>1. q \in ReadQueries
  BY QueriesAssumption
<1>2. q.read \in {"GetZoneGrid", "GetZoneTravelGraph"} => q.of \in Zones
  BY <1>1 DEF ReadQueries, ToolQueries, Asks, GetSiteQueries, GetZoneQueries, GetAisleQueries,
              GetLocationTypeQueries, GetRuleQueries, GetSlotQueries, ListSitesQueries,
              ListLocationTypesQueries, ListRulesQueries, ListZonesQueries, ListAislesQueries,
              ListFixedStructuresQueries, ListLocationsByRoleQueries, GetClassificationQueries,
              GetSiteLayoutQueries, GetZoneGridQueries, GetZoneTravelGraphQueries,
              EstimateTravelDistanceQueries
<1>3. q.read \in {"GetSiteLayout", "ListLocationsByRole"} => q.of \in Sites
  BY <1>1 DEF ReadQueries, ToolQueries, Asks, GetSiteQueries, GetZoneQueries, GetAisleQueries,
              GetLocationTypeQueries, GetRuleQueries, GetSlotQueries, ListSitesQueries,
              ListLocationTypesQueries, ListRulesQueries, ListZonesQueries, ListAislesQueries,
              ListFixedStructuresQueries, ListLocationsByRoleQueries, GetClassificationQueries,
              GetSiteLayoutQueries, GetZoneGridQueries, GetZoneTravelGraphQueries,
              EstimateTravelDistanceQueries
<1> QED BY <1>2, <1>3

(* What one of a few statements brings is pending.                            *)
LEMMA PendingOfTwo ==
    ASSUME NEW past, NEW q, NEW s, NEW t, NEW b, Brings(q, past, t, b)
    PROVE  Pending(q, past, <<s, t>>, b)
<1>1. 2 \in 1..Len(<<s, t>>) /\ <<s, t>>[2] = t
  OBVIOUS
<1> QED BY <1>1 DEF Pending

LEMMA PendingOfThree ==
    ASSUME NEW past, NEW q, NEW s, NEW t, NEW u, NEW b,
           Brings(q, past, t, b) \/ Brings(q, past, u, b)
    PROVE  Pending(q, past, <<s, t, u>>, b)
<1>1. /\ 2 \in 1..Len(<<s, t, u>>) /\ <<s, t, u>>[2] = t
      /\ 3 \in 1..Len(<<s, t, u>>) /\ <<s, t, u>>[3] = u
  OBVIOUS
<1> QED BY <1>1 DEF Pending

LEMMA PendingOfFour ==
    ASSUME NEW past, NEW q, NEW s, NEW t, NEW u, NEW v, NEW b,
           Brings(q, past, t, b) \/ Brings(q, past, u, b)
    PROVE  Pending(q, past, <<s, t, u, v>>, b)
<1>1. /\ 2 \in 1..Len(<<s, t, u, v>>) /\ <<s, t, u, v>>[2] = t
      /\ 3 \in 1..Len(<<s, t, u, v>>) /\ <<s, t, u, v>>[3] = u
  OBVIOUS
<1> QED BY <1>1 DEF Pending

LEMMA PendingOfSix ==
    ASSUME NEW past, NEW q, NEW r, NEW s, NEW t, NEW u, NEW v, NEW w, NEW b,
           Brings(q, past, u, b) \/ Brings(q, past, v, b)
    PROVE  Pending(q, past, <<r, s, t, u, v, w>>, b)
<1>1. /\ 4 \in 1..Len(<<r, s, t, u, v, w>>) /\ <<r, s, t, u, v, w>>[4] = u
      /\ 5 \in 1..Len(<<r, s, t, u, v, w>>) /\ <<r, s, t, u, v, w>>[5] = v
  OBVIOUS
<1> QED BY <1>1 DEF Pending

(* A read begins with all it owes before it.                                  *)
LEMMA OwedIsPending ==
    ASSUME NEW past, NEW q \in Queries, NEW b \in Owed(q, past)
    PROVE  Pending(q, past, Statements(q), b)
<1>1. CASE OfOneZone(q)
  <2> DEFINE zone == ZoneAsked(q)
             aisles == All("aisle", zone)
             slots == All("slot", zone)
  <2>1. zone \in Zones /\ zone \in Aggregates
    BY <1>1, ResourceFacts, QueryFacts, ChainFacts, KindFacts DEF OfOneZone, ZoneAsked
  <2>2. /\ aisles.op = "list" /\ aisles.kind = "aisle" /\ aisles.of = zone
        /\ slots.op = "list" /\ slots.kind = "slot" /\ slots.of = zone
    BY <2>1, StatementFacts DEF Kinds
  <2>3. b \in Under(past, "aisle", zone) \/ b \in Under(past, "slot", zone)
    BY <1>1, UnderIs DEF Owed, OfOneZone
  <2>4. Brings(q, past, aisles, b) \/ Brings(q, past, slots, b)
    BY <2>2, <2>3 DEF Brings
  <2>5. CASE q.read = "GetZoneGrid"
    <3>1. Statements(q) = << One(q.of), All("aisle", q.of), All("slot", q.of) >>
      BY <2>5, Zenon DEF Statements, ZoneGridStatements
    <3>2. zone = q.of
      BY <2>5 DEF ZoneAsked
    <3> QED BY <2>4, <3>1, <3>2, PendingOfThree
  <2>6. CASE q.read = "GetZoneTravelGraph"
    <3>1. Statements(q) = << One(q.of), All("aisle", q.of), All("slot", q.of),
                             All("crossAisle", q.of) >>
      BY <2>6, Zenon DEF Statements, GraphStatements
    <3>2. zone = q.of
      BY <2>6 DEF ZoneAsked
    <3> QED BY <2>4, <3>1, <3>2, PendingOfFour
  <2>7. CASE q.read = "EstimateTravelDistance" /\ InOneZone(q)
    <3>1. Statements(q) = AllSix(q)
      BY <2>7, DistanceBegins
    <3>2. zone = ZoneOfSlot(q.of)
      BY <2>7 DEF ZoneAsked
    <3> QED BY <2>4, <3>1, <3>2, PendingOfSix DEF AllSix
  <2> QED BY <1>1, <2>5, <2>6, <2>7 DEF OfOneZone
<1>2. CASE q.read = "GetSiteLayout"
  <2> DEFINE zones == All("zone", q.of)
             structures == All("structure", q.of)
  <2>1. q.of \in Aggregates
    BY <1>2, ResourceFacts, KindFacts
  <2>2. /\ zones.op = "list" /\ zones.kind = "zone" /\ zones.of = q.of
        /\ structures.op = "list" /\ structures.kind = "structure" /\ structures.of = q.of
    BY <2>1, StatementFacts DEF Kinds
  <2>3. \/ b \in Zones /\ SiteOf[b] = q.of
        \/ b \in FixedStructures /\ past[b].attr = q.of
        \/ b \in Aisles /\ SiteOf[ZoneOf[b]] = q.of
        \/ b \in LocationSlots /\ SiteOfSlot(b) = q.of
    BY <1>2 DEF Owed, OfOneZone
  <2>4. Brings(q, past, zones, b) \/ Brings(q, past, structures, b)
    <3>1. CASE b \in Zones /\ SiteOf[b] = q.of
      <4>1. b \in Under(past, "zone", q.of)
        BY <3>1, UnderIs
      <4> QED BY <2>2, <4>1 DEF Brings
    <3>2. CASE b \in FixedStructures /\ past[b].attr = q.of
      <4>1. b \in Under(past, "structure", q.of)
        BY <3>2, UnderIs
      <4> QED BY <2>2, <4>1 DEF Brings
    <3>3. CASE b \in Aisles /\ SiteOf[ZoneOf[b]] = q.of
      BY <1>2, <2>2, <3>3 DEF Brings
    <3>4. CASE b \in LocationSlots /\ SiteOfSlot(b) = q.of
      BY <1>2, <2>2, <3>4 DEF Brings
    <3> QED BY <2>3, <3>1, <3>2, <3>3, <3>4
  <2>5. Statements(q) = << One(q.of), All("zone", q.of), All("structure", q.of) >>
    BY <1>2, Zenon DEF Statements, SiteLayoutStatements
  <2> QED BY <2>4, <2>5, PendingOfThree
<1>3. CASE q.read = "ListLocationsByRole"
  <2>1. q.of \in Aggregates
    BY <1>3, ResourceFacts, KindFacts
  <2>2. b \in LocationSlots /\ SiteOfSlot(b) = q.of
    BY <1>3 DEF Owed, OfOneZone
  <2>3. Brings(q, past, All("zone", q.of), b)
    BY <1>3, <2>1, <2>2, StatementFacts DEF Brings, Kinds
  <2>4. Statements(q) = << One(q.of), All("zone", q.of) >>
    BY <1>3, Zenon DEF Statements, ByRoleStatements
  <2> QED BY <2>3, <2>4, PendingOfTwo
<1> QED BY <1>1, <1>2, <1>3 DEF Owed

(* A distance lists the aisles, the slots and the cross-aisles of its zone.   *)
LEMMA DistanceLists ==
    ASSUME NEW q \in Queries, q.read = "EstimateTravelDistance", NEW rows, NEW shown, NEW s,
           Plan(q, rows, shown, s), s # << >>, Head(s).op = "list"
    PROVE  \E kind \in {"aisle", "slot", "crossAisle"} : Head(s) = All(kind, ZoneOfSlot(q.of))
<1> DEFINE zone == ZoneOfSlot(q.of)
<1>1. q.of \in Aggregates /\ q.to \in Aggregates /\ zone \in Aggregates
  BY QueryFacts, KindFacts, ChainFacts
<1>2. One(q.of).op = "find" /\ One(q.to).op = "find" /\ One(zone).op = "find"
  BY <1>1, StatementFacts
<1>3. CASE InOneZone(q)
  <2>1. s \in {AllSix(q), LastFive(q), LastFour(q), LastThree(q), LastTwo(q), LastOne(q)}
    BY <1>3 DEF Plan, DistancePlan
  <2> QED BY <1>2, <2>1, DistanceTails
<1>4. CASE ~InOneZone(q)
  <2>1. s \in {<< One(q.of), One(q.to) >>, << One(q.to) >>}
    BY <1>4 DEF Plan, TwoZonesPlan
  <2>2. Head(s) = One(q.of) \/ Head(s) = One(q.to)
    BY <2>1, HeadOfTwo, HeadOfOne, Zenon
  <2> QED BY <1>2, <2>2
<1> QED BY <1>3, <1>4

(* What a read began with.                                                    *)
LEMMA StartFacts ==
    ASSUME Past
    PROVE  /\ atStart \in [Aggregates -> Row]
           /\ \A a \in Aggregates : atStart[a].by = None
           /\ Custodial(atStart)
BY LoadingsAssumption DEF Past

(* The graph is one of what was read.                                         *)
LEMMA SameGraph ==
    ASSUME NEW zone, UNCHANGED <<seen, listed>>
    PROVE  ZoneGraph(zone)' = ZoneGraph(zone)
<1>1. AislesSeen' = AislesSeen /\ SlotsSeen' = SlotsSeen
  BY DEF AislesSeen, SlotsSeen
<1>2. \A a : BaysSeen(a)' = BaysSeen(a)
  BY <1>1 DEF BaysSeen
<1>3. AisleGeoms' = AisleGeoms
  BY <1>1, <1>2 DEF AisleGeoms
<1>4. CrossRefs' = CrossRefs
  BY DEF CrossRefs
<1> QED BY <1>3, <1>4 DEF ZoneGraph

(* Nothing is owed when a read begins that is not before it.                  *)
LEMMA InitShows == Init => ShownInv
<1> SUFFICES ASSUME Init PROVE ShownInv
  OBVIOUS
<1>1. /\ store \in Loadings /\ atStart = store /\ listed = {}
      /\ query \in Queries /\ reader = "reading" /\ agenda = Statements(query)
      /\ search = "idle" /\ bothWays = BothWays(store)
  BY DEF Init, Unasked
<1>2. IndInv
  BY InitEstablishes
<1>3. Past /\ Directed
  BY <1>1 DEF Past, Directed
<1>4. Promise
  BY <1>1, OwedIsPending DEF Promise
<1>5. Charted
  BY <1>1 DEF Charted
<1> QED BY <1>2, <1>3, <1>4, <1>5 DEF ShownInv

(* A writer leaves its name on the row it writes, and removes none.           *)
LEMMA WriteShows ==
    ASSUME ShownInv, NEW w \in Writers, Write(w)
    PROVE  Past' /\ Promise' /\ Charted'
<1>1. UNCHANGED <<query, reader, agenda, seen, listed, atStart, search, graph, route>>
  BY DEF Write, readerVars, searchVars
<1>2. StoreInv /\ Past /\ Promise /\ Charted
  BY DEF ShownInv, IndInv, TypeOK, StoreInv
<1>3. \A a \in Aggregates : Present(store[a]) => Present(store'[a])
  BY <1>2, WriteKeepsStore
<1>4. /\ \A a \in Aggregates : store'[a] = store[a] \/ store'[a].by \in Writers
      /\ \A a \in FixedStructures : Present(store[a]) => store'[a].attr = store[a].attr
  <2> PICK e \in Entries :
          LET row == [e.row EXCEPT !.by = w]
          IN /\ Legal(store, e.about, row, e.event)
             /\ store' = [store EXCEPT ![e.about] = row]
    BY DEF Write
  <2> DEFINE row == [e.row EXCEPT !.by = w]
  <2>1. e.about \in Aggregates /\ e.row \in Row
    BY LayoutAssumption
  <2>2. row.by = w
    BY <2>1 DEF Row
  <2> HIDE DEF row
  <2>3. Keeps(e.about, store[e.about], row) /\ store' = [store EXCEPT ![e.about] = row]
    BY DEF row, Legal
  <2>4. \A a \in Aggregates : store'[a] = IF a = e.about THEN row ELSE store[a]
    BY <1>2, <2>1, <2>3 DEF StoreInv
  <2> QED BY <2>2, <2>3, <2>4, KindFacts DEF Keeps
<1>5. listed \subseteq Aggregates
  BY DEF ShownInv, IndInv, TypeOK
<1>6. Past'
  <2>1. \A a \in Aggregates : store[a].by \in Writers => store'[a].by \in Writers
    BY <1>4
  <2>2. \A a \in Aggregates : store'[a] = atStart[a] \/ store'[a].by \in Writers
    BY <1>2, <1>4, <2>1 DEF Past
  <2>3. \A a \in listed : seen[a] = atStart[a] \/ store'[a].by \in Writers
    BY <1>2, <1>5, <2>1 DEF Past
  <2>4. /\ \A a \in Aggregates : Present(atStart[a]) => Present(store'[a])
        /\ \A a \in listed : Present(store'[a])
    BY <1>2, <1>3, <1>5 DEF Past
  <2>5. \A a \in FixedStructures : Present(atStart[a]) => store'[a].attr = atStart[a].attr
    BY <1>2, <1>4, KindFacts DEF Past
  <2> QED BY <1>1, <1>2, <2>2, <2>3, <2>4, <2>5 DEF Past
<1>7. Promise'
  BY <1>1, <1>2 DEF Promise
<1>8. Charted'
  BY <1>1, <1>2, SameGraph DEF Charted
<1> QED BY <1>6, <1>7, <1>8

(* A row that is found is none of those that are owed.                        *)
LEMMA FindRowShows ==
    ASSUME ShownInv, FindRow
    PROVE  Past' /\ Promise' /\ Charted'
<1> DEFINE a == Head(agenda).of
<1>1. /\ reader = "reading" /\ agenda # << >> /\ Head(agenda).op = "find"
      /\ seen' = [seen EXCEPT ![a] = store[a]] /\ agenda' = Tail(agenda)
      /\ UNCHANGED <<store, query, reader, listed, atStart, search, graph, route>>
  BY DEF FindRow, searchVars
<1>2. query \in Queries /\ Plan(query, store, listed, agenda) /\ seen \in [Aggregates -> Row]
      /\ listed \subseteq Aggregates
  BY <1>1 DEF ShownInv, IndInv, TypeOK
<1>3. agenda \in Seq(Statement)
  BY <1>2, PlanIsTyped
<1>4. Past'
  <2>1. \A b \in listed : seen'[b] = seen[b] \/ seen'[b] = store[b]
    <3> HIDE DEF a
    <3> QED BY <1>1, <1>2
  <2>2. \A b \in listed : seen'[b] = atStart[b] \/ store[b].by \in Writers
    BY <1>2, <2>1 DEF ShownInv, Past
  <2> QED BY <1>1, <2>2 DEF ShownInv, Past
<1>5. Promise'
  <2>1. ASSUME NEW b \in Owed(query, atStart), Present(atStart[b])
        PROVE  b \in listed \/ Pending(query, atStart, Tail(agenda), b)
    <3>1. b \in listed \/ Pending(query, atStart, agenda, b)
      BY <1>1, <2>1 DEF ShownInv, Promise
    <3>2. ~Brings(query, atStart, Head(agenda), b)
      BY <1>1 DEF Brings
    <3> QED BY <1>1, <1>3, <3>1, <3>2, PendingSplits
  <2> QED BY <1>1, <2>1 DEF Promise
<1>6. Charted'
  BY <1>1 DEF ShownInv, Charted, IndInv
<1> QED BY <1>4, <1>5, <1>6

(* A list shows all that was there, and runs on to what hangs from it.        *)
LEMMA ListRowsShows ==
    ASSUME ShownInv, ListRows
    PROVE  Past' /\ Promise' /\ Charted'
<1> DEFINE s == Head(agenda)
           rows == Listed(s.kind, s.of)
<1>1. /\ reader = "reading" /\ agenda # << >> /\ s.op = "list"
      /\ listed' = listed \cup rows
      /\ seen' = [a \in Aggregates |-> IF a \in rows THEN store[a] ELSE seen[a]]
      /\ \E loop \in Loops(query, s.kind, rows) : agenda' = loop \o Tail(agenda)
      /\ UNCHANGED <<store, query, reader, atStart, search, graph, route>>
  BY DEF ListRows, searchVars
<1>2. query \in Queries /\ Plan(query, store, listed, agenda) /\ listed \subseteq Aggregates
      /\ Custodial(store)
  BY <1>1 DEF ShownInv, IndInv, TypeOK
<1>3. agenda \in Seq(Statement)
  BY <1>2, PlanIsTyped
<1>4. s \in Statement /\ Tail(agenda) \in Seq(Statement)
  BY <1>1, <1>3, HeadTailProperties
<1>5. rows = {a \in Under(store, s.kind, s.of) : Present(store[a])}
  BY DEF Listed
<1> HIDE DEF rows
<1>6. PICK loop \in Loops(query, s.kind, rows) : agenda' = loop \o Tail(agenda)
  BY <1>1
<1>7. rows \subseteq Aggregates
  BY <1>4, <1>5, UnderFacts DEF Statement
<1>8. loop \in Seq(Statement)
  BY <1>7, LoopFacts DEF Lists
<1>9. Past'
  <2>1. /\ \A a \in rows : seen'[a] = store[a]
        /\ \A a \in listed : seen'[a] = seen[a] \/ seen'[a] = store[a]
    BY <1>1, <1>2, <1>7
  <2>2. \A a \in listed \cup rows : seen'[a] = atStart[a] \/ store[a].by \in Writers
    BY <1>2, <1>7, <2>1 DEF ShownInv, Past
  <2>3. \A a \in listed \cup rows : Present(store[a])
    BY <1>5 DEF ShownInv, Past
  <2> QED BY <1>1, <2>2, <2>3 DEF ShownInv, Past
<1>10. Promise'
  <2>1. ASSUME NEW b \in Owed(query, atStart), Present(atStart[b])
        PROVE  b \in listed \cup rows \/ Pending(query, atStart, loop \o Tail(agenda), b)
    <3>1. b \in listed \/ Brings(query, atStart, s, b) \/ Pending(query, atStart, Tail(agenda), b)
      BY <1>1, <1>3, <2>1, PendingSplits DEF ShownInv, Promise
    <3>2. ASSUME Brings(query, atStart, s, b)
          PROVE  b \in rows \/ Pending(query, atStart, loop, b)
      <4>1. /\ Custodial(atStart)
            /\ \A a \in Aggregates : Present(atStart[a]) => Present(store[a])
            /\ b \in FixedStructures => store[b].attr = atStart[b].attr
        BY <2>1, KindFacts, StartFacts DEF ShownInv, Past
      <4> HIDE DEF s
      <4> QED BY <1>4, <1>5, <1>6, <2>1, <3>2, <4>1, BroughtOn
    <3> QED BY <1>4, <1>8, <3>1, <3>2, PendingJoins
  <2> QED BY <1>1, <1>6, <2>1 DEF Promise
<1>11. Charted'
  <2>1. ASSUME query.read = "EstimateTravelDistance", NEW a \in rows, a \in Aisles
        PROVE  ZoneOf[a] = ZoneOfSlot(query.of)
    <3> DEFINE zone == ZoneOfSlot(query.of)
    <3>1. s = All("aisle", zone) \/ s = All("slot", zone) \/ s = All("crossAisle", zone)
      BY <1>1, <1>2, <2>1, DistanceLists
    <3>2. zone \in Aggregates
      BY <1>2, <2>1, QueryFacts, ChainFacts, KindFacts
    <3>3. s.of = zone /\ s.kind \in {"aisle", "slot", "crossAisle"}
      BY <3>1, <3>2, StatementFacts DEF Kinds
    <3>4. a \in Under(store, s.kind, zone)
      BY <1>5, <2>1, <3>3
    <3>5. s.kind = "slot" => a \in LocationSlots
      BY <3>4, UnderIs
    <3>6. s.kind = "crossAisle" => a \in CrossAisles
      <4>1. Under(store, "crossAisle", zone) = {x \in CrossAisles : ZoneOf[x] = zone}
        BY Zenon DEF Under
      <4> QED BY <3>4, <4>1
    <3> QED BY <2>1, <3>3, <3>4, <3>5, <3>6, UnderIs, KindsApart
  <2>2. query.read = "EstimateTravelDistance" =>
            \A a \in (listed \cup rows) \cap Aisles : ZoneOf[a] = ZoneOfSlot(query.of)
    BY <2>1 DEF ShownInv, Charted
  <2> QED BY <1>1, <2>2 DEF Charted, ShownInv, IndInv
<1> QED BY <1>9, <1>10, <1>11

(* A read is answered when nothing is left to be listed.                      *)
LEMMA EndShows ==
    ASSUME ShownInv, MissRow \/ Fail \/ Answer \/ RefuseOtherZone
    PROVE  Past' /\ Promise' /\ Charted'
<1>1. /\ reader = "reading" /\ reader' # "reading" /\ reader' # "searching"
      /\ reader' = "answered" => agenda = << >>
      /\ UNCHANGED <<store, query, agenda, seen, listed, atStart, search, graph, route>>
  BY DEF MissRow, Fail, Answer, RefuseOtherZone, searchVars
<1>2. Past'
  BY <1>1 DEF ShownInv, Past
<1>3. \A b : ~Pending(query, atStart, << >>, b)
  BY DEF Pending
<1>4. Promise'
  BY <1>1, <1>3 DEF ShownInv, Promise
<1>5. Charted'
  BY <1>1 DEF ShownInv, Charted, IndInv
<1> QED BY <1>2, <1>4, <1>5

(* A route is searched for in the graph of what was listed.                   *)
LEMMA SearchRouteShows ==
    ASSUME ShownInv, SearchRoute
    PROVE  Past' /\ Promise' /\ Charted'
<1> DEFINE g == ZoneGraph(ZoneOfSlot(query.of))
           from == Waypoint(query.of)
           to == Waypoint(query.to)
<1>1. /\ reader = "reading" /\ agenda = << >> /\ query.read = "EstimateTravelDistance"
      /\ InOneZone(query) /\ reader' = "searching" /\ Ask(g, from, to)
      /\ UNCHANGED <<store, query, agenda, seen, listed, atStart>>
  BY DEF SearchRoute, SameZone, InOneZone
<1>2. Past'
  BY <1>1 DEF ShownInv, Past
<1>3. \A b : ~Pending(query, atStart, << >>, b)
  BY DEF Pending
<1>4. Promise'
  BY <1>1, <1>3 DEF ShownInv, Promise
<1>5. ZoneGraph(ZoneOfSlot(query.of))' = g
  BY <1>1, SameGraph
<1> HIDE DEF g, from, to
<1>6. /\ graph' = g /\ route' = <<to>>
      /\ search' = CASE {from, to} \subseteq g.nodes /\ from # to -> "search"
                     [] {from, to} \subseteq g.nodes /\ from = to -> "routed"
                     [] OTHER -> "unknown waypoint"
  BY <1>1 DEF Ask
<1>7. search' = "routed" => to \in g.nodes
  BY <1>6
<1>8. search' = "routed" => route' \in Seq(g.nodes)
  <2>1. ASSUME NEW N, to \in N PROVE <<to>> \in Seq(N)
    BY <2>1
  <2> QED BY <1>6, <1>7, <2>1, Zenon
<1>9. Charted'
  <2>1. (query.read = "EstimateTravelDistance" =>
            \A a \in listed \cap Aisles : ZoneOf[a] = ZoneOfSlot(query.of))'
    BY <1>1 DEF ShownInv, Charted
  <2>2. InOneZone(query') /\ graph' = ZoneGraph(ZoneOfSlot(query.of))'
    BY <1>1, <1>5, <1>6
  <2> QED BY <1>1, <1>6, <1>8, <2>1, <2>2 DEF Charted
<1> QED BY <1>2, <1>4, <1>9

(* What the search answers was traced through waypoints.                      *)
LEMMA SearchShows ==
    ASSUME ShownInv, Search
    PROVE  Past' /\ Promise' /\ Charted'
<1>1. SearchStep /\ UNCHANGED <<store, query, reader, agenda, seen, listed, atStart>>
  BY DEF Search
<1>2. graph' = graph
  BY <1>1 DEF SearchStep, Skip, Settle, Finish, Exhaust, Trace, Return
<1>3. search' = "routed" => Return
  BY <1>1 DEF SearchStep, Skip, Settle, Finish, Exhaust, Trace
<1>4. search' = "routed" => route' \in Seq(graph.nodes)
  <2>1. Return => search = "trace" /\ route' = route
    BY DEF Return
  <2>2. search = "trace" => route \in Seq(graph.nodes)
    BY DEF ShownInv, IndInv, SearchInv, Traced
  <2> QED BY <1>3, <2>1, <2>2
<1>5. Past'
  BY <1>1 DEF ShownInv, Past
<1>6. Promise'
  BY <1>1 DEF ShownInv, Promise
<1>7. Charted'
  BY <1>1, <1>2, <1>4, SameGraph DEF ShownInv, Charted
<1> QED BY <1>5, <1>6, <1>7

(* An aisle that is read as walked both ways is so at that moment, and what   *)
(* writers make of it is recorded.                                            *)
LEMMA DirectionsAreKnown ==
    ASSUME ShownInv, [Next]_vars
    PROVE  Directed'
<1> USE DEF BothWays
<1>1. Directed /\ listed \subseteq Aggregates /\ seen \in [Aggregates -> Row]
  BY DEF ShownInv, IndInv, TypeOK
<1>2. CASE \E w \in Writers : Write(w)
  <2>1. UNCHANGED <<seen, listed>> /\ bothWays' = bothWays \cup BothWays(store')
    BY <1>2 DEF Write, readerVars
  <2> QED BY <1>1, <2>1 DEF Directed
<1>3. CASE FindRow
  <2> DEFINE a == Head(agenda).of
  <2>1. /\ Present(store[a]) /\ seen' = [seen EXCEPT ![a] = store[a]]
        /\ UNCHANGED <<store, listed, bothWays>>
    BY <1>3 DEF FindRow
  <2> HIDE DEF a
  <2>2. \A b \in Aggregates : seen'[b] = seen[b] \/ (b = a /\ seen'[b] = store[b])
    BY <1>1, <2>1
  <2> QED BY <1>1, <2>1, <2>2 DEF Directed
<1>4. CASE ListRows
  <2> DEFINE rows == Listed(Head(agenda).kind, Head(agenda).of)
  <2>1. /\ listed' = listed \cup rows
        /\ seen' = [a \in Aggregates |-> IF a \in rows THEN store[a] ELSE seen[a]]
        /\ UNCHANGED <<store, bothWays>>
    BY <1>4 DEF ListRows
  <2>2. \A a \in rows : Present(store[a])
    BY DEF Listed
  <2> HIDE DEF rows
  <2>3. ASSUME NEW a \in listed' \cap Aisles, seen'[a].attr # OneWay
        PROVE  a \in bothWays
    <3>1. a \in Aggregates
      BY KindFacts
    <3>2. CASE a \in rows
      BY <1>1, <2>1, <2>2, <2>3, <3>1, <3>2 DEF Directed
    <3>3. CASE a \notin rows
      BY <1>1, <2>1, <2>3, <3>1, <3>3 DEF Directed
    <3> QED BY <3>2, <3>3
  <2> QED BY <1>1, <2>1, <2>3 DEF Directed
<1>5. CASE UNCHANGED <<store, bothWays, seen, listed>>
  BY <1>1, <1>5 DEF Directed
<1>6. MissRow \/ Fail \/ Answer \/ RefuseOtherZone \/ SearchRoute \/ Search
          => UNCHANGED <<store, bothWays, seen, listed>>
  BY DEF MissRow, Fail, Answer, RefuseOtherZone, SearchRoute, Search
<1>7. UNCHANGED vars => UNCHANGED <<store, bothWays, seen, listed>>
  BY DEF vars, readerVars
<1> QED BY <1>2, <1>3, <1>4, <1>5, <1>6, <1>7, Zenon DEF Next, ReadStep, Rest

(* Every step of a writer, of the read and of the search keeps the promise: a *)
(* list statement brings the rows it is owed for, the loops of the handler are *)
(* put on the agenda with it, and only an answered read has nothing pending.   *)
THEOREM StepShows == ShownInv /\ [Next]_vars => ShownInv'
<1> SUFFICES ASSUME ShownInv, [Next]_vars PROVE ShownInv'
  OBVIOUS
<1>1. IndInv' /\ Directed'
  BY StepKeeps, DirectionsAreKnown DEF ShownInv
<1>2. CASE \E w \in Writers : Write(w)
  BY <1>1, <1>2, WriteShows DEF ShownInv
<1>3. CASE FindRow
  BY <1>1, <1>3, FindRowShows DEF ShownInv
<1>4. CASE ListRows
  BY <1>1, <1>4, ListRowsShows DEF ShownInv
<1>5. CASE MissRow \/ Fail \/ Answer \/ RefuseOtherZone
  BY <1>1, <1>5, EndShows DEF ShownInv
<1>6. CASE SearchRoute
  BY <1>1, <1>6, SearchRouteShows DEF ShownInv
<1>7. CASE Search
  BY <1>1, <1>7, SearchShows DEF ShownInv
<1>8. CASE UNCHANGED vars
  <2>1. UNCHANGED <<store, query, reader, agenda, seen, listed, atStart, search, graph, route>>
    BY <1>8 DEF vars, readerVars, searchVars
  <2>2. Past' /\ Promise'
    BY <2>1 DEF ShownInv, Past, Promise
  <2>3. Charted'
    BY <2>1, SameGraph DEF ShownInv, Charted
  <2> QED BY <1>1, <2>2, <2>3 DEF ShownInv
<1> QED
  BY <1>2, <1>3, <1>4, <1>5, <1>6, <1>7, <1>8 DEF Next, ReadStep, Rest

(* So at every moment, what was there when the read began is listed already   *)
(* or is still brought by a statement the handler has ahead of it.            *)
THEOREM ReadsKeepShownInv == Spec => []ShownInv
<1>1. Init => ShownInv
  BY InitShows
<1>2. ShownInv /\ [Next]_vars => ShownInv'
  BY StepShows
<1> QED BY <1>1, <1>2, PTL DEF Spec
-----------------------------------------------------------------------------
(* A slot whose aisle was listed too is in one cell of the grid.              *)
LEMMA OneCell ==
    ASSUME NEW s \in SlotsSeen, AisleOf[s] \in AislesSeen
    PROVE  Cardinality({at \in DOMAIN Grid : s \in Grid[at]}) = 1
<1> DEFINE here == << <<AisleOf[s], BayOf[s]>>, LevelOf[s] >>
<1>1. DOMAIN Grid = Columns \X Levels
  BY DEF Grid
<1>2. ASSUME NEW at \in Columns \X Levels
      PROVE  s \in Grid[at] <=> at = here
  <2>1. Grid[at] = Cell(at[1][1], at[1][2], at[2])
    BY DEF Grid
  <2>2. s \in Grid[at] <=> AisleOf[s] = at[1][1] /\ BayOf[s] = at[1][2] /\ LevelOf[s] = at[2]
    BY <2>1 DEF Cell
  <2>3. PICK a \in AislesSeen : at[1] \in {a} \X BaysSeen(a)
    BY DEF Columns
  <2>4. at = << <<at[1][1], at[1][2]>>, at[2] >>
    BY <2>3
  <2> QED BY <2>2, <2>4
<1>3. here \in Columns \X Levels
  <2>1. BayOf[s] \in BaysSeen(AisleOf[s])
    BY DEF BaysSeen
  <2>2. <<AisleOf[s], BayOf[s]>> \in Columns
    BY <2>1 DEF Columns
  <2>3. LevelOf[s] \in Levels
    BY DEF Levels
  <2> QED BY <2>2, <2>3
<1> HIDE DEF here
<1>4. {at \in DOMAIN Grid : s \in Grid[at]} = {here}
  BY <1>1, <1>2, <1>3
<1>5. Cardinality({here}) = 1
  BY FS_Singleton
<1> QED BY <1>4, <1>5

(* What was there when a read began is in its answer.                         *)
THEOREM WhatWasThereIsShown == Spec => []SettledIsShown
<1>1. ASSUME ShownInv, reader = "answered"
      PROVE  /\ query.read = "GetZoneGrid" =>
                    \A s \in Settled("slot", query.of) :
                        Cardinality({at \in DOMAIN Grid : s \in Grid[at]}) = 1
             /\ query.read = "GetSiteLayout" =>
                    /\ Settled("zone", query.of) \cup Settled("structure", query.of)
                           \subseteq listed
                    /\ \A z \in Settled("zone", query.of) :
                           Settled("aisle", z) \cup Settled("slot", z) \subseteq listed
             /\ query.read = "ListLocationsByRole" =>
                    \A z \in Settled("zone", query.of) : \A s \in Settled("slot", z) :
                        Untouched(s) => (s \in WithRole <=> RoleOf[store[s].attr] = query.role)
             /\ query.read = "GetZoneTravelGraph" =>
                    {Waypoint(s) : s \in Settled("slot", query.of)}
                        \subseteq ZoneGraph(query.of).nodes
  <2>1. query \in Queries /\ TypeOK
    BY <1>1 DEF ShownInv, IndInv, TypeOK
  <2>2. \A b \in Owed(query, atStart) : Present(atStart[b]) => b \in listed
    BY <1>1 DEF ShownInv, Promise
  <2>3. Past /\ Custodial(atStart) /\ \A a \in Aggregates : atStart[a].by = None
    BY <1>1, StartFacts DEF ShownInv
  <2>4. ASSUME query.read \in {"GetZoneGrid", "GetZoneTravelGraph"},
               NEW s \in Settled("slot", query.of)
        PROVE  s \in SlotsSeen /\ AisleOf[s] \in AislesSeen
    <3>1. query.of \in Zones
      BY <2>1, <2>4, ResourceFacts
    <3>2. s \in LocationSlots /\ ZoneOfSlot(s) = query.of /\ Present(atStart[s])
      BY <2>4, <3>1, SlotsUnder DEF Settled
    <3>3. AisleOf[s] \in Aisles /\ Present(atStart[AisleOf[s]]) /\ ZoneOf[AisleOf[s]] = query.of
      BY <2>3, <3>2, RootsOf DEF ZoneOfSlot
    <3>4. s \in Owed(query, atStart) /\ AisleOf[s] \in Owed(query, atStart)
      BY <2>4, <3>2, <3>3, KindFacts DEF Owed, OfOneZone, ZoneAsked
    <3> QED BY <2>2, <3>2, <3>3, <3>4 DEF SlotsSeen, AislesSeen
  <2>5. query.read = "GetZoneGrid" =>
            \A s \in Settled("slot", query.of) :
                Cardinality({at \in DOMAIN Grid : s \in Grid[at]}) = 1
    BY <2>4, OneCell
  <2>6. ASSUME query.read = "GetSiteLayout"
        PROVE  /\ Settled("zone", query.of) \cup Settled("structure", query.of) \subseteq listed
               /\ \A z \in Settled("zone", query.of) :
                      Settled("aisle", z) \cup Settled("slot", z) \subseteq listed
    <3>1. ASSUME NEW b \in Settled("zone", query.of) \cup Settled("structure", query.of)
          PROVE  b \in listed
      <4>1. /\ \/ b \in Zones /\ SiteOf[b] = query.of
               \/ b \in FixedStructures /\ atStart[b].attr = query.of
            /\ Present(atStart[b])
        BY <3>1, UnderIs DEF Settled
      <4>2. b \in Owed(query, atStart)
        BY <2>6, <4>1, KindFacts DEF Owed
      <4> QED BY <2>2, <4>1, <4>2
    <3>2. ASSUME NEW z \in Settled("zone", query.of),
                 NEW b \in Settled("aisle", z) \cup Settled("slot", z)
          PROVE  b \in listed
      <4>1. z \in Zones /\ SiteOf[z] = query.of /\ Present(atStart[b])
        BY <3>2, UnderIs DEF Settled
      <4>2. \/ b \in Aisles /\ ZoneOf[b] = z
            \/ b \in LocationSlots /\ ZoneOfSlot(b) = z
        BY <3>2, <4>1, UnderIs, SlotsUnder DEF Settled
      <4>3. b \in Owed(query, atStart)
        BY <2>6, <4>1, <4>2, KindFacts DEF Owed, SiteOfSlot
      <4> QED BY <2>2, <4>1, <4>3
    <3> QED BY <3>1, <3>2
  <2>7. ASSUME query.read = "ListLocationsByRole", NEW z \in Settled("zone", query.of),
               NEW s \in Settled("slot", z), Untouched(s)
        PROVE  s \in WithRole <=> RoleOf[store[s].attr] = query.role
    <3>1. z \in Zones /\ SiteOf[z] = query.of
      BY <2>7, UnderIs DEF Settled
    <3>2. s \in LocationSlots /\ ZoneOfSlot(s) = z /\ Present(atStart[s]) /\ s \in Aggregates
      BY <2>7, <3>1, SlotsUnder, KindFacts DEF Settled
    <3>3. s \in Owed(query, atStart)
      BY <2>7, <3>1, <3>2 DEF Owed, SiteOfSlot
    <3>4. s \in listed /\ s \in SlotsSeen
      BY <2>2, <3>2, <3>3 DEF SlotsSeen
    <3>5. store[s].by \notin Writers
      BY <2>3, <2>7, <3>2, NoneAssumption DEF Untouched
    <3>6. seen[s] = store[s]
      BY <2>3, <2>7, <3>4, <3>5 DEF Past, Untouched
    <3> QED BY <3>4, <3>6 DEF WithRole
  <2>8. query.read = "GetZoneTravelGraph" =>
            {Waypoint(s) : s \in Settled("slot", query.of)} \subseteq ZoneGraph(query.of).nodes
    <3> SUFFICES ASSUME query.read = "GetZoneTravelGraph", NEW s \in Settled("slot", query.of)
                 PROVE  Waypoint(s) \in ZoneGraph(query.of).nodes
      OBVIOUS
    <3>1. query.of \in Zones
      BY <2>1, ResourceFacts
    <3> QED BY <2>1, <2>4, <3>1, ZoneGraphFacts
  <2> QED BY <2>5, <2>6, <2>7, <2>8
<1>2. ShownInv => SettledIsShown
  BY <1>1 DEF SettledIsShown
<1> QED BY <1>2, ReadsKeepShownInv, PTL
-----------------------------------------------------------------------------
(* A waypoint of the graph is the bay of a slot that was listed.              *)
LEMMA NodesAreBays ==
    ASSUME NEW zone, NEW n \in ZoneGraph(zone).nodes
    PROVE  \E s \in SlotsSeen : Waypoint(s) = n
<1>1. ZoneGraph(zone).nodes = Waypoints(AisleGeoms)
  BY DEF ZoneGraph, Build
<1>2. PICK a \in AislesSeen : n \in {a} \X AisleGeoms[a].bays
  BY <1>1 DEF Waypoints, AisleGeoms
<1>3. AisleGeoms[a].bays = BaysSeen(a)
  BY DEF AisleGeoms
<1>4. PICK s \in SlotsSeen : AisleOf[s] = a /\ BayOf[s] = n[2]
  BY <1>2, <1>3 DEF BaysSeen
<1>5. n = <<a, n[2]>>
  BY <1>2
<1> QED BY <1>4, <1>5 DEF Waypoint

(* An edge along an aisle joins two of its bays with none of the listed       *)
(* between them, and is not backward where the aisle was read as one-way.     *)
LEMMA AlongFacts ==
    ASSUME NEW a \in AislesSeen, NEW m, NEW n, <<m, n>> \in Along(AisleGeoms, a)
    PROVE  /\ m[1] = a /\ n[1] = a /\ m[2] \in BaysSeen(a) /\ n[2] \in BaysSeen(a)
           /\ seen[a].attr = OneWay => m[2] < n[2]
           /\ \A bay \in BaysSeen(a) :
                 ~(m[2] < bay /\ bay < n[2]) /\ ~(n[2] < bay /\ bay < m[2])
<1>1. AisleGeoms[a].bays = BaysSeen(a) /\ AisleGeoms[a].oneWay = (seen[a].attr = OneWay)
  BY DEF AisleGeoms
<1>2. BaysSeen(a) \subseteq Nat
  BY BaysAreFinite
<1>3. PICK p \in Consecutive(BaysSeen(a)) :
          \/ <<m, n>> = << <<a, p[1]>>, <<a, p[2]>> >>
          \/ seen[a].attr # OneWay /\ <<m, n>> = << <<a, p[2]>>, <<a, p[1]>> >>
  BY <1>1 DEF Along
<1>4. /\ p[1] \in BaysSeen(a) /\ p[2] \in BaysSeen(a) /\ p[1] < p[2]
      /\ \A b \in BaysSeen(a) : ~(p[1] < b /\ b < p[2])
  BY DEF Consecutive
<1>5. CASE m = <<a, p[1]>> /\ n = <<a, p[2]>>
  <2>1. m[1] = a /\ n[1] = a /\ m[2] = p[1] /\ n[2] = p[2]
    BY <1>5
  <2> QED BY <1>2, <1>4, <2>1
<1>6. CASE seen[a].attr # OneWay /\ m = <<a, p[2]>> /\ n = <<a, p[1]>>
  <2>1. m[1] = a /\ n[1] = a /\ m[2] = p[2] /\ n[2] = p[1]
    BY <1>6
  <2> QED BY <1>2, <1>4, <1>6, <2>1
<1> QED BY <1>3, <1>5, <1>6

(* Every edge of the graph can be walked in the warehouse as it is: the bays  *)
(* that were there are in the graph, and a cross-aisle that was read is there.*)
LEMMA EdgesAreWalkable ==
    ASSUME ShownInv, reader = "searching", NEW m, NEW n,
           <<m, n>> \in ZoneGraph(ZoneOfSlot(query.of)).edges
    PROVE  Walkable(m, n)
<1> DEFINE zone == ZoneOfSlot(query.of)
           nodes == Waypoints(AisleGeoms)
<1>1. query \in Queries /\ query.read = "EstimateTravelDistance" /\ InOneZone(query)
  BY DEF ShownInv, Charted, IndInv, TypeOK
<1>2. Past /\ Custodial(atStart)
  BY StartFacts DEF ShownInv
<1>3. \A b \in Owed(query, atStart) : Present(atStart[b]) => b \in listed
  BY DEF ShownInv, Promise
<1>4. \A a \in AislesSeen : a \in Aisles /\ ZoneOf[a] = zone
  BY <1>1 DEF AislesSeen, ShownInv, Charted
<1>5. \/ \E a \in AislesSeen : <<m, n>> \in Along(AisleGeoms, a)
      \/ <<m, n>> \in Across(CrossRefs, nodes)
  BY DEF ZoneGraph, Build, AisleGeoms
<1>6. ASSUME NEW a \in AislesSeen, <<m, n>> \in Along(AisleGeoms, a)
      PROVE  Walkable(m, n)
  <2>1. /\ m[1] = a /\ n[1] = a
        /\ seen[a].attr = OneWay => m[2] < n[2]
        /\ \A bay \in BaysSeen(a) :
              ~(m[2] < bay /\ bay < n[2]) /\ ~(n[2] < bay /\ bay < m[2])
    BY <1>6, AlongFacts
  <2>2. ASSUME NEW s \in Settled("slot", a) PROVE BayOf[s] \in BaysSeen(a)
    <3>1. s \in LocationSlots /\ AisleOf[s] = a /\ Present(atStart[s])
      BY <1>4, <2>2, SlotsUnder DEF Settled
    <3>2. s \in Owed(query, atStart)
      BY <1>1, <1>4, <3>1, KindFacts DEF Owed, OfOneZone, ZoneAsked, ZoneOfSlot
    <3>3. s \in SlotsSeen
      BY <1>3, <3>1, <3>2 DEF SlotsSeen
    <3> QED BY <3>1, <3>3 DEF BaysSeen
  <2>3. m[1] \notin bothWays => m[2] < n[2]
    BY <1>4, <1>6, <2>1 DEF ShownInv, Directed, AislesSeen
  <2> QED BY <2>1, <2>2, <2>3 DEF Walkable
<1>7. ASSUME <<m, n>> \in Across(CrossRefs, nodes)
      PROVE  Walkable(m, n)
  <2>1. PICK c \in CrossRefs : m[2] = c.atBay /\ n[2] = c.atBay /\ {m[1], n[1]} = c.ends
    BY <1>7 DEF Across
  <2>2. PICK x \in CrossAisles \cap listed : c = [ends |-> EndsOf[x], atBay |-> BayOf[x]]
    BY DEF CrossRefs
  <2>3. Present(store[x])
    BY <1>2 DEF Past
  <2>4. c.ends = EndsOf[x] /\ c.atBay = BayOf[x]
    BY <2>2
  <2> QED BY <2>1, <2>3, <2>4 DEF Walkable
<1> QED BY <1>5, <1>6, <1>7

(* A route a client is given can be walked in the warehouse as it is when the *)
(* answer is given, although what it was read from is of several moments.     *)
THEOREM RoutesCanBeWalked == Spec => []RouteIsOfTheMap
<1>1. ASSUME ShownInv, search = "routed"
      PROVE  /\ \A i \in DOMAIN route :
                    \E s \in LocationSlots : Present(store[s]) /\ Waypoint(s) = route[i]
             /\ \A leg \in Legs : Walkable(leg[1], leg[2])
  <2>1. reader = "searching" /\ RouteIsCertified
    BY <1>1 DEF ShownInv, IndInv, SearchInv
  <2>2. graph = ZoneGraph(ZoneOfSlot(query.of)) /\ route \in Seq(graph.nodes)
    BY <1>1, <2>1 DEF ShownInv, Charted
  <2>3. ASSUME NEW i \in DOMAIN route
        PROVE  \E s \in LocationSlots : Present(store[s]) /\ Waypoint(s) = route[i]
    <3>1. route[i] \in graph.nodes
      BY <2>2, <2>3
    <3>2. PICK s \in SlotsSeen : Waypoint(s) = route[i]
      BY <2>2, <3>1, NodesAreBays
    <3>3. s \in LocationSlots /\ Present(store[s])
      BY <1>1 DEF SlotsSeen, ShownInv, Past
    <3> QED BY <3>2, <3>3
  <2>4. ASSUME NEW leg \in Legs PROVE Walkable(leg[1], leg[2])
    <3>1. PICK i \in 1..(Len(route) - 1) : leg = <<route[i], route[i + 1]>>
      BY DEF Legs
    <3>2. <<route[i], route[i + 1]>> \in graph.edges
      BY <1>1, <2>1 DEF RouteIsCertified
    <3>3. Walkable(route[i], route[i + 1])
      BY <1>1, <2>1, <2>2, <3>2, EdgesAreWalkable
    <3>4. leg[1] = route[i] /\ leg[2] = route[i + 1]
      BY <3>1
    <3> QED BY <3>3, <3>4
  <2> QED BY <2>3, <2>4
<1>2. ShownInv => RouteIsOfTheMap
  BY <1>1 DEF RouteIsOfTheMap
<1> QED BY <1>2, ReadsKeepShownInv, PTL
-----------------------------------------------------------------------------
(* A zone has finitely many waypoints: each is where a slot stands.           *)
LEMMA WaypointsAreFinite ==
    ASSUME NEW zone
    PROVE  IsFiniteSet(ZoneGraph(zone).nodes)
<1> DEFINE at == [s \in SlotsSeen |-> Waypoint(s)]
           stood == {Waypoint(s) : s \in SlotsSeen}
<1>1. at \in Surjection(SlotsSeen, stood)
  BY DEF Surjection
<1>2. IsFiniteSet(SlotsSeen)
  <2>1. SlotsSeen \in SUBSET Aggregates
    BY KindFacts DEF SlotsSeen
  <2> QED BY <2>1, LayoutAssumption, FS_Subset, Zenon
<1>3. IsFiniteSet(stood)
  <2> HIDE DEF at, stood
  <2> QED BY <1>1, <1>2, FS_Surjection, Zenon
<1>4. ZoneGraph(zone).nodes \in SUBSET stood
  BY NodesAreBays
<1> QED BY <1>3, <1>4, FS_Subset, Zenon

(* What is known of a search at every moment of a read.                       *)
FlaggedInv == IndInv /\ Flagged

LEMMA ReadsKeepFlags == Spec => []FlaggedInv
<1>1. ASSUME Init PROVE FlaggedInv
  <2>1. search = "idle"
    BY <1>1 DEF Init, Unasked
  <2> QED BY <1>1, <2>1, InitEstablishes DEF FlaggedInv, Flagged
<1>2. ASSUME FlaggedInv, [Next]_vars PROVE FlaggedInv'
  <2>1. IndInv'
    BY <1>2, StepKeeps DEF FlaggedInv
  <2>2. SearchInv /\ SearchInv'
    BY <1>2, <2>1 DEF FlaggedInv, IndInv
  <2>3. CASE UNCHANGED searchVars
    <3>1. search' = search /\ UNCHANGED <<graph, source, target, dist, estimated, prev, route>>
      BY <2>3 DEF searchVars
    <3> QED BY <1>2, <2>1, <2>2, <3>1, OthersFlag, Zenon DEF FlaggedInv
  <2>4. CASE SearchRoute
    <3>1. \E g, from, to : IsFiniteSet(g.nodes) /\ Ask(g, from, to)
      BY <2>4, WaypointsAreFinite, Zenon DEF SearchRoute
    <3> QED BY <2>1, <3>1, AskFlags, Zenon DEF FlaggedInv
  <2>5. CASE Search
    <3>1. SearchStep
      BY <2>5 DEF Search
    <3> QED BY <1>2, <2>1, <2>2, <3>1, SearchStepFlags, Zenon DEF FlaggedInv
  <2>6. (\E w \in Writers : Write(w)) => UNCHANGED searchVars
    BY DEF Write, readerVars
  <2>7. FindRow \/ ListRows \/ MissRow \/ Fail \/ Answer \/ RefuseOtherZone => UNCHANGED searchVars
    BY DEF FindRow, ListRows, MissRow, Fail, Answer, RefuseOtherZone
  <2>8. UNCHANGED vars => UNCHANGED searchVars
    BY DEF vars, readerVars
  <2> QED BY <1>2, <2>3, <2>4, <2>5, <2>6, <2>7, <2>8, Zenon DEF Next, ReadStep, Rest
<1> QED BY <1>1, <1>2, PTL DEF Spec

(* The distance a read answers is the length of the route it answers, which   *)
(* leads from the one slot's bay to the other's along edges of the graph; no  *)
(* walk between them is shorter; it is flagged as an estimate exactly if a    *)
(* leg of it is one; and if the answer is that there is no route, no walk     *)
(* leads from the one bay to the other.                                       *)
THEOREM RoutesAreShortest == Spec => []RouteIsShortest
<1>1. FlaggedInv => RouteIsShortest
  BY CertifiedIsShortest DEF FlaggedInv, IndInv
<1> QED BY <1>1, ReadsKeepFlags, PTL
=============================================================================
