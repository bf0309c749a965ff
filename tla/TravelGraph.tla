----------------------------- MODULE TravelGraph -----------------------------
(* The travel graph of one zone, as internal/domain/travel builds it from a   *)
(* plain description of aisles and cross-aisles.  A waypoint is an aisle and  *)
(* a bay of it; bays are ordinals, walked in ascending order; lengths are     *)
(* natural numbers of a unit small enough to divide a centreline evenly.      *)
EXTENDS Naturals, FiniteSets

(* Mutants: definitions whose names end in "Slip" are plausible mistakes in    *)
(* the code the definition after them models.  No specification uses them.    *)

(* One aisle: its bays, whether it is walked forward only, and how long its   *)
(* centreline is, 0 when it has none.                                         *)
AisleGeom == [bays : SUBSET Nat, oneWay : BOOLEAN, centreline : Nat]

(* A cross-aisle joins two aisles at a bay.                                   *)
CrossAisleRef(ids) == [ends : SUBSET ids, atBay : Nat]

Waypoints(aisles) == UNION {{a} \X aisles[a].bays : a \in DOMAIN aisles}

(* Bays with no other bay between them.                                       *)
Consecutive(bays) ==
    {p \in bays \X bays : p[1] < p[2] /\ \A b \in bays : ~(p[1] < b /\ b < p[2])}

(* Every aisle is walked both ways.                                           *)
AlongSlip(aisles, a) ==
    UNION {{<< <<a, p[1]>>, <<a, p[2]>> >>, << <<a, p[2]>>, <<a, p[1]>> >>} :
              p \in Consecutive(aisles[a].bays)}

(* The edges of one aisle: forward, and backward unless it is one-way.        *)
Along(aisles, a) ==
    {<< <<a, p[1]>>, <<a, p[2]>> >> : p \in Consecutive(aisles[a].bays)}
        \cup IF aisles[a].oneWay THEN {}
             ELSE {<< <<a, p[2]>>, <<a, p[1]>> >> : p \in Consecutive(aisles[a].bays)}

(* Whether the bay it ends at is one of the aisle's is not checked.           *)
AcrossSlip(crossAisles, nodes) ==
    UNION {{<< <<a, c.atBay>>, <<b, c.atBay>> >> : a, b \in c.ends} : c \in crossAisles}

(* The edges of the cross-aisles, both ways; one that ends at a bay without a *)
(* waypoint is left out.                                                      *)
Across(crossAisles, nodes) ==
    {e \in nodes \X nodes : \E c \in crossAisles :
        /\ e[1][2] = c.atBay
        /\ e[2][2] = c.atBay
        /\ e[1][1] # e[2][1]
        /\ {e[1][1], e[2][1]} = c.ends}

(* Whether the distance between bays of an aisle is measured, not estimated.  *)
Measured(aisle) == aisle.centreline > 0 /\ Cardinality(aisle.bays) > 1

BayDistance(aisle, pitch) ==
    IF Measured(aisle) THEN aisle.centreline \div (Cardinality(aisle.bays) - 1) ELSE pitch

Build(aisles, crossAisles, pitch) ==
    LET nodes  == Waypoints(aisles)
        along  == UNION {Along(aisles, a) : a \in DOMAIN aisles}
        across == Across(crossAisles, nodes)
    IN [nodes     |-> nodes,
        edges     |-> along \cup across,
        metres    |-> [e \in along \cup across |->
                          IF e \in along THEN BayDistance(aisles[e[1][1]], pitch) ELSE pitch],
        estimated |-> across \cup {e \in along : ~Measured(aisles[e[1][1]])}]

IsGraph(g) ==
    /\ g.edges \subseteq g.nodes \X g.nodes
    /\ g.metres \in [g.edges -> Nat]
    /\ g.estimated \subseteq g.edges
-----------------------------------------------------------------------------
(* The lengths of the walks from a waypoint to every waypoint: of those       *)
(* without a leg, and of those of one leg more.                               *)
WithoutLegs(g, from) == [n \in g.nodes |-> IF n = from THEN {0} ELSE {}]

OneLegMore(g, lengths) ==
    [n \in g.nodes |->
        lengths[n] \cup
        UNION {{d + g.metres[<<m, n>>] : d \in lengths[m]} :
                  m \in {x \in g.nodes : <<x, n>> \in g.edges}}]

(* What a shortest route is: the least length of all walks.  No walk of more  *)
(* legs than there are waypoints is shorter than one of fewer.                *)
WalkLengths(g, from) ==
    LET lengths[legs \in 0..Cardinality(g.nodes)] ==
          IF legs = 0 THEN WithoutLegs(g, from) ELSE OneLegMore(g, lengths[legs - 1])
    IN lengths[Cardinality(g.nodes)]
=============================================================================
