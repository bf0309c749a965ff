------------------------------ MODULE ZoneReads ------------------------------
(* The read models of the warehouse map, while the catalogue is written.  A   *)
(* read is a list of statements, each of which sees what is committed when it *)
(* runs (READ COMMITTED, no snapshot), and an answer built from what they     *)
(* found; a distance is searched for in the travel graph of what they found.  *)
(* The writers are what FacilityLedger promises of them: one legal row at a   *)
(* time.  Readers write nothing and share nothing, so one of them is enough.  *)
EXTENDS FacilityMap, TravelDistance

CONSTANTS
    Loadings,     \* the catalogues a read may begin with
    Entries,      \* what writers may enter: events, and the rows they leave
    Queries,      \* the reads that are asked for
    BayOf,        \* the bay of a location code; the bay a cross-aisle is at
    LevelOf,      \* the level of a location code
    LengthOf,     \* the length of a centreline
    PitchOf,      \* the bay pitch of a zone
    RoleOf        \* the role a slot was given with its location type

ASSUME LayoutAssumption ==
    /\ Entries \subseteq [event : Events, about : Aggregates, row : Row]
    /\ \A e \in Entries : Present(e.row)
    /\ BayOf \in [LocationSlots \cup CrossAisles -> Nat]
    /\ LengthOf \in [Geometries -> Nat \ {0}]
    /\ PitchOf \in [Zones -> Nat \ {0}]
    /\ IsFiniteSet(Aggregates)

ASSUME LoadingsAssumption ==
    \A loading \in Loadings :
        /\ loading \in [Aggregates -> Row]
        /\ \A a \in Aggregates : loading[a].by = None
        /\ Custodial(loading)

VARIABLES
    store,     \* the committed rows
    written,   \* the writers that have written
    query,     \* what is read
    reader,    \* where the read is, or how it was answered
    agenda,    \* the statements it has yet to run
    seen,      \* the rows it has read
    listed,    \* the aggregates its list statements returned
    atStart,   \* history: the rows committed when it began
    bothWays   \* history: the aisles walked both ways at some moment since then

readerVars == <<query, reader, agenda, seen, listed, atStart, searchVars>>
vars == <<store, written, bothWays, readerVars>>
-----------------------------------------------------------------------------
(* What may be asked: a read, of which resource, and for the distance also to *)
(* which slot, for the list by role which role.                               *)
Roles == {RoleOf[type] : type \in LocationTypes}

Asks(read, resources) == [read : {read}, of : resources, to : {None}, role : {None}]

GetSiteQueries         == Asks("Get", Sites)
GetZoneQueries         == Asks("Get", Zones)
GetAisleQueries        == Asks("Get", Aisles)
GetLocationTypeQueries == Asks("Get", LocationTypes)
GetRuleQueries         == Asks("Get", RuleIds)
GetSlotQueries         == Asks("Get", LocationSlots)

ListSitesQueries           == Asks("ListSites", {None})
ListLocationTypesQueries   == Asks("ListLocationTypes", {None})
ListRulesQueries           == Asks("ListPlacementRules", {None})
ListZonesQueries           == Asks("ListZones", Sites)
ListAislesQueries          == Asks("ListAisles", Zones)
ListFixedStructuresQueries == Asks("ListFixedStructures", Sites)

ListLocationsByRoleQueries ==
    [read : {"ListLocationsByRole"}, of : Sites, to : {None}, role : Roles]

GetClassificationQueries  == Asks("GetLocationClassification", LocationSlots)
GetSiteLayoutQueries      == Asks("GetSiteLayout", Sites)
GetZoneGridQueries        == Asks("GetZoneGrid", Zones)
GetZoneTravelGraphQueries == Asks("GetZoneTravelGraph", Zones)

EstimateTravelDistanceQueries ==
    [read : {"EstimateTravelDistance"}, of : LocationSlots, to : LocationSlots, role : {None}]

(* The tools of the MCP server ask these; none of them writes.                *)
ToolQueries ==
    ListSitesQueries \cup GetSiteLayoutQueries \cup GetZoneGridQueries
    \cup ListLocationsByRoleQueries \cup GetZoneTravelGraphQueries
    \cup EstimateTravelDistanceQueries

ReadQueries ==
    GetSiteQueries \cup GetZoneQueries \cup GetAisleQueries \cup GetLocationTypeQueries
    \cup GetRuleQueries \cup GetSlotQueries \cup ListLocationTypesQueries
    \cup ListRulesQueries \cup ListZonesQueries \cup ListAislesQueries
    \cup ListFixedStructuresQueries \cup GetClassificationQueries \cup ToolQueries

ASSUME QueriesAssumption == Queries \subseteq ReadQueries

(* A statement finds one row, or lists the rows of a kind, under a parent if  *)
(* the kind has one: the parent the id names, or the site a structure's row   *)
(* does.                                                                      *)
One(a) == [op |-> "find", kind |-> KindOf[a], of |-> a]
All(kind, parent) == [op |-> "list", kind |-> kind, of |-> parent]

Under(rows, kind, parent) ==
    CASE kind \in {"site", "locationType", "rule"} -> OfKind(kind)
      [] kind = "zone"       -> {z \in Zones : SiteOf[z] = parent}
      [] kind = "structure"  -> {s \in FixedStructures : rows[s].attr = parent}
      [] kind = "aisle"      -> {a \in Aisles : ZoneOf[a] = parent}
      [] kind = "crossAisle" -> {x \in CrossAisles : ZoneOf[x] = parent}
      [] kind = "slot"       -> {s \in LocationSlots : parent \in {AisleOf[s], ZoneOfSlot(s)}}

(* buildZoneGraph: the zone, its aisles, its slots, its cross-aisles.         *)
GraphStatements(zone) ==
    << One(zone), All("aisle", zone), All("slot", zone), All("crossAisle", zone) >>

(* Both slots, and the graph only if they are in one zone.                    *)
DistanceStatements(q) ==
    << One(q.of), One(q.to) >> \o
        IF ZoneOfSlot(q.of) = ZoneOfSlot(q.to) THEN GraphStatements(ZoneOfSlot(q.of)) ELSE << >>

(* Mutants: definitions whose names end in "Slip" are plausible mistakes in    *)
(* the code the definition after them models.  No specification uses them.    *)

(* The zone is resolved first.                                                *)
ClassificationSlip(q) == << One(ZoneOfSlot(q.of)), One(q.of) >>

ClassificationStatements(q) == << One(q.of), One(ZoneOfSlot(q.of)) >>

GetStatements(q)               == << One(q.of) >>
ListSitesStatements(q)         == << All("site", None) >>
ListLocationTypesStatements(q) == << All("locationType", None) >>
ListRulesStatements(q)         == << All("rule", None) >>
ListZonesStatements(q)         == << One(q.of), All("zone", q.of) >>
ListAislesStatements(q)        == << One(q.of), All("aisle", q.of) >>
ListStructuresStatements(q)    == << One(q.of), All("structure", q.of) >>
ByRoleStatements(q)            == << One(q.of), All("zone", q.of) >>
SiteLayoutStatements(q)        == << One(q.of), All("zone", q.of), All("structure", q.of) >>
ZoneGridStatements(q)          == << One(q.of), All("aisle", q.of), All("slot", q.of) >>

Statements(q) ==
    CASE q.read = "Get"                       -> GetStatements(q)
      [] q.read = "ListSites"                 -> ListSitesStatements(q)
      [] q.read = "ListLocationTypes"         -> ListLocationTypesStatements(q)
      [] q.read = "ListPlacementRules"        -> ListRulesStatements(q)
      [] q.read = "ListZones"                 -> ListZonesStatements(q)
      [] q.read = "ListAisles"                -> ListAislesStatements(q)
      [] q.read = "ListFixedStructures"       -> ListStructuresStatements(q)
      [] q.read = "ListLocationsByRole"       -> ByRoleStatements(q)
      [] q.read = "GetLocationClassification" -> ClassificationStatements(q)
      [] q.read = "GetSiteLayout"             -> SiteLayoutStatements(q)
      [] q.read = "GetZoneGrid"               -> ZoneGridStatements(q)
      [] q.read = "GetZoneTravelGraph"        -> GraphStatements(q.of)
      [] q.read = "EstimateTravelDistance"    -> DistanceStatements(q)

(* What the loop over the rows of a list runs for each of them.               *)
Nested(q, kind) ==
    CASE q.read = "GetSiteLayout" /\ kind = "zone"       -> {"aisle"}
      [] q.read = "GetSiteLayout" /\ kind = "aisle"      -> {"slot"}
      [] q.read = "ListLocationsByRole" /\ kind = "zone" -> {"slot"}
      [] OTHER                                           -> {}

(* Sorting by id or by walk order makes one of the orders of the rows.        *)
Orders(rows) ==
    {order \in [1..Cardinality(rows) -> rows] :
        \A i, j \in DOMAIN order : order[i] = order[j] => i = j}

Loops(q, kind, rows) ==
    IF Nested(q, kind) = {} THEN { << >> }
    ELSE {[i \in DOMAIN order |-> All(CHOOSE k \in Nested(q, kind) : TRUE, order[i])] :
             order \in Orders(rows)}
-----------------------------------------------------------------------------
(* The aisles that are walked both ways, by their rows.                       *)
BothWays(rows) == {a \in Aisles : Present(rows[a]) /\ rows[a].attr # OneWay}

(* A handler has called the use case of a read.                               *)
Init ==
    /\ store \in Loadings
    /\ written = {}
    /\ query \in Queries
    /\ reader = "reading"
    /\ agenda = Statements(query)
    /\ seen = [a \in Aggregates |-> NoRow]
    /\ listed = {}
    /\ atStart = store
    /\ bothWays = BothWays(store)
    /\ Unasked

(* A use case of the write side commits what it has prepared: any entry that  *)
(* is legal in the ledger, a row built from one that is no more included.     *)
Write(w) ==
    /\ w \notin written
    /\ written' = written \cup {w}
    /\ \E e \in Entries :
          LET row == [e.row EXCEPT !.by = w]
          IN /\ Legal(store, e.about, row, e.event)
             /\ store' = [store EXCEPT ![e.about] = row]
    /\ bothWays' = bothWays \cup BothWays(store')
    /\ UNCHANGED readerVars

(* FindByID or FindByCode returns the row, whatever its status ...            *)
FindRow ==
    /\ reader = "reading"
    /\ agenda # << >>
    /\ Head(agenda).op = "find"
    /\ Present(store[Head(agenda).of])
    /\ seen' = [seen EXCEPT ![Head(agenda).of] = store[Head(agenda).of]]
    /\ agenda' = Tail(agenda)
    /\ UNCHANGED <<store, written, bothWays, query, reader, listed, atStart, searchVars>>

(* ... or nil, and then the use case returns the not-found error of its kind. *)
MissRow ==
    /\ reader = "reading"
    /\ agenda # << >>
    /\ Head(agenda).op = "find"
    /\ ~Present(store[Head(agenda).of])
    /\ reader' = "not found"
    /\ UNCHANGED <<store, written, bothWays, query, agenda, seen, listed, atStart, searchVars>>

(* What ListBySite, ListByZone and ListByAisle return.                        *)
Listed(kind, parent) == {a \in Under(store, kind, parent) : Present(store[a])}

ListRows ==
    /\ reader = "reading"
    /\ agenda # << >>
    /\ Head(agenda).op = "list"
    /\ \E rows \in {Listed(Head(agenda).kind, Head(agenda).of)} :
          /\ listed' = listed \cup rows
          /\ seen' = [a \in Aggregates |-> IF a \in rows THEN store[a] ELSE seen[a]]
          /\ \E loop \in Loops(query, Head(agenda).kind, rows) : agenda' = loop \o Tail(agenda)
    /\ UNCHANGED <<store, written, bothWays, query, reader, atStart, searchVars>>

(* A statement fails, or the caller is gone.                                  *)
Fail ==
    /\ reader = "reading"
    /\ agenda # << >>
    /\ reader' = "failed"
    /\ UNCHANGED <<store, written, bothWays, query, agenda, seen, listed, atStart, searchVars>>
-----------------------------------------------------------------------------
(* What the read makes of the rows it has read.                               *)
SlotsSeen == LocationSlots \cap listed
AislesSeen == Aisles \cap listed

(* The cell key leaves the level out.                                         *)
CellSlip(aisle, bay, level) == {s \in SlotsSeen : AisleOf[s] = aisle /\ BayOf[s] = bay}

(* The slots at one coordinate of the grid.                                   *)
Cell(aisle, bay, level) ==
    {s \in SlotsSeen : AisleOf[s] = aisle /\ BayOf[s] = bay /\ LevelOf[s] = level}

BaysSeen(aisle) == {BayOf[s] : s \in {x \in SlotsSeen : AisleOf[x] = aisle}}
Columns == UNION {{aisle} \X BaysSeen(aisle) : aisle \in AislesSeen}
Levels == {LevelOf[s] : s \in SlotsSeen}

Grid == [at \in Columns \X Levels |-> Cell(at[1][1], at[1][2], at[2])]

(* The slots with the role asked for.                                         *)
WithRole == {s \in SlotsSeen : RoleOf[seen[s].attr] = query.role}

(* The description of the zone that the graph is built from.                  *)
AisleGeoms ==
    [aisle \in AislesSeen |->
        [bays       |-> BaysSeen(aisle),
         oneWay     |-> seen[aisle].attr = OneWay,
         centreline |-> IF seen[aisle].geometry = None THEN 0 ELSE LengthOf[seen[aisle].geometry]]]

CrossRefs ==
    {[ends |-> EndsOf[x], atBay |-> BayOf[x]] :
        x \in {y \in CrossAisles \cap listed : seen[y].status = "Active"}}

ZoneGraph(zone) == Build(AisleGeoms, CrossRefs, PitchOf[zone])

Waypoint(slot) == <<AisleOf[slot], BayOf[slot]>>

SameZone == ZoneOfSlot(query.of) = ZoneOfSlot(query.to)

(* The last statement has run: the answer is built and returned ...           *)
Answer ==
    /\ reader = "reading"
    /\ agenda = << >>
    /\ query.read # "EstimateTravelDistance"
    /\ reader' = "answered"
    /\ UNCHANGED <<store, written, bothWays, query, agenda, seen, listed, atStart, searchVars>>

(* ... or there is no route, because zones are not connected ...              *)
RefuseOtherZone ==
    /\ reader = "reading"
    /\ agenda = << >>
    /\ query.read = "EstimateTravelDistance"
    /\ ~SameZone
    /\ reader' = "no route between zones"
    /\ UNCHANGED <<store, written, bothWays, query, agenda, seen, listed, atStart, searchVars>>

(* ... or it is searched for, and the search answers.                         *)
SearchRoute ==
    /\ reader = "reading"
    /\ agenda = << >>
    /\ query.read = "EstimateTravelDistance"
    /\ SameZone
    /\ reader' = "searching"
    /\ Ask(ZoneGraph(ZoneOfSlot(query.of)), Waypoint(query.of), Waypoint(query.to))
    /\ UNCHANGED <<store, written, bothWays, query, agenda, seen, listed, atStart>>

Search ==
    /\ SearchStep
    /\ UNCHANGED <<store, written, bothWays, query, reader, agenda, seen, listed, atStart>>

ReadStep == \/ FindRow \/ MissRow \/ ListRows \/ Answer \/ RefuseOtherZone \/ SearchRoute
            \/ Search

Done == \/ reader \in {"not found", "failed", "answered", "no route between zones"}
        \/ reader = "searching" /\ search \in Answers

(* Nothing is left to do.                                                     *)
Rest == Done /\ UNCHANGED vars

Next == \/ \E w \in Writers : Write(w)
        \/ ReadStep \/ Fail \/ Rest

(* A handler runs until it answers; the writers need not write.               *)
Spec == Init /\ [][Next]_vars /\ WF_vars(ReadStep)
-----------------------------------------------------------------------------
TypeOK ==
    /\ store \in [Aggregates -> Row]
    /\ written \subseteq Writers
    /\ query \in Queries
    /\ reader \in {"reading", "searching", "not found", "failed", "answered",
                   "no route between zones"}
    /\ \A i \in DOMAIN agenda :
          agenda[i].op \in {"find", "list"} /\ agenda[i].of \in Aggregates \cup {None}
    /\ seen \in [Aggregates -> Row]
    /\ listed \subseteq Aggregates
    /\ bothWays \subseteq Aisles
    /\ reader = "searching" => IsGraph(graph)

(* Only what the client named is ever not found: a slot that was found hangs  *)
(* from a zone that is found later, and its bay is a waypoint of the graph    *)
(* that is read later.  The comment on GetLocationClassification calls the    *)
(* contrary a state that should be unreachable; errors.go has an answer (422) *)
(* for ErrUnknownNode, which is never given.                                  *)
FoundIsRooted ==
    /\ reader = "not found" => Head(agenda).of \in {query.of} \cup
                                  (IF query.read = "EstimateTravelDistance" THEN {query.to} ELSE {})
    /\ search # "unknown waypoint"

(* What a read answers about.                                                 *)
Settled(kind, parent) == {a \in Under(atStart, kind, parent) : Present(atStart[a])}
Untouched(s) == store[s] = atStart[s]

(* What was committed when a read began is in its answer, once, although its  *)
(* statements see different states: a slot is in one cell of the grid, in the *)
(* layout of its site, and in the list of its role unless it was rewritten.   *)
SettledIsShown ==
    reader = "answered" =>
        /\ query.read = "GetZoneGrid" =>
              \A s \in Settled("slot", query.of) :
                  Cardinality({at \in DOMAIN Grid : s \in Grid[at]}) = 1
        /\ query.read = "GetSiteLayout" =>
              /\ Settled("zone", query.of) \cup Settled("structure", query.of) \subseteq listed
              /\ \A z \in Settled("zone", query.of) :
                     Settled("aisle", z) \cup Settled("slot", z) \subseteq listed
        /\ query.read = "ListLocationsByRole" =>
              \A z \in Settled("zone", query.of) : \A s \in Settled("slot", z) :
                  Untouched(s) => (s \in WithRole <=> RoleOf[store[s].attr] = query.role)
        /\ query.read = "GetZoneTravelGraph" =>
              {Waypoint(s) : s \in Settled("slot", query.of)}
                  \subseteq ZoneGraph(query.of).nodes

(* A route can be walked in the warehouse as it is: every waypoint is the bay *)
(* of a slot, a leg along an aisle passes no bay that was there when the read *)
(* began and goes backward only in an aisle that was walked both ways at some *)
(* moment of the read, and a leg across is a cross-aisle.                     *)
Walkable(m, n) ==
    \/ /\ m[1] = n[1]
       /\ m[1] \notin bothWays => m[2] < n[2]
       /\ \A s \in Settled("slot", m[1]) :
             ~(m[2] < BayOf[s] /\ BayOf[s] < n[2]) /\ ~(n[2] < BayOf[s] /\ BayOf[s] < m[2])
    \/ \E x \in CrossAisles :
          /\ Present(store[x])
          /\ EndsOf[x] = {m[1], n[1]}
          /\ BayOf[x] = m[2] /\ BayOf[x] = n[2]

RouteIsOfTheMap ==
    search = "routed" =>
        /\ \A i \in DOMAIN route :
              \E s \in LocationSlots : Present(store[s]) /\ Waypoint(s) = route[i]
        /\ \A leg \in Legs : Walkable(leg[1], leg[2])

(* Every read is answered, the search for a route included.                   *)
ReadAnswered == <>Done
=============================================================================
