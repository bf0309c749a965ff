----------------------------- MODULE FacilityMap -----------------------------
(* The identities of the warehouse map, the chain of custody between them and *)
(* the rows that record them.  What an aggregate's own code names (a zone id  *)
(* is its site, area and zone segments; a location code carries every         *)
(* segment) is a constant of the model.  What only its row says is state: the *)
(* rule or the structure under an id its caller chose, a slot's type.         *)
EXTENDS PlacementRules

CONSTANTS
    Aggregates,   \* every identity a row of the catalogue may have
    KindOf,       \* the table an identity belongs to
    SiteOf,       \* the site segment of a zone id
    ZoneOf,       \* the zone an aisle or a cross-aisle is scoped to
    AisleOf,      \* the aisle a location code names
    EndsOf,       \* the two aisles a cross-aisle connects
    ReverseOf,    \* the same cross-aisle written from its other end
    OneWay,       \* the directions of travel along an aisle: forward only,
    TwoWay,       \* or both
    Geometries,   \* positions with footprints, and centrelines
    Writers,      \* who writes rows: the requests
    None          \* nothing recorded; also the writer of rows loaded before

Kinds == {"site", "zone", "aisle", "locationType", "rule", "slot",
          "structure", "crossAisle"}

OfKind(k) == {a \in Aggregates : KindOf[a] = k}

Sites           == OfKind("site")
Zones           == OfKind("zone")
Aisles          == OfKind("aisle")
RuleIds         == OfKind("rule")
LocationSlots   == OfKind("slot")
FixedStructures == OfKind("structure")
CrossAisles     == OfKind("crossAisle")

ASSUME KindAssumption == /\ KindOf \in [Aggregates -> Kinds]
                         /\ LocationTypes = OfKind("locationType")

ASSUME CodeAssumption ==
    /\ SiteOf \in [Zones -> Sites]
    /\ ZoneOf \in [Aisles \cup CrossAisles -> Zones]
    /\ AisleOf \in [LocationSlots -> Aisles]
    /\ EndsOf \in [CrossAisles -> SUBSET Aisles]
    /\ ReverseOf \in [CrossAisles -> CrossAisles]
    /\ \A x \in CrossAisles : ReverseOf[ReverseOf[x]] = x

ASSUME DirectionAssumption == OneWay # TwoWay

ASSUME NoneAssumption == None \notin Writers
-----------------------------------------------------------------------------
(* The chain a location code declares: LocationCode.AisleID, ZoneID, Site.    *)
ZoneOfSlot(s) == ZoneOf[AisleOf[s]]
SiteOfSlot(s) == SiteOf[ZoneOfSlot(s)]

(* What must exist before an aggregate may, by its code.                      *)
Custody(a) ==
    CASE KindOf[a] = "zone"       -> {SiteOf[a]}
      [] KindOf[a] = "aisle"      -> {ZoneOf[a]}
      [] KindOf[a] = "crossAisle" -> {ZoneOf[a]} \cup EndsOf[a]
      [] KindOf[a] = "slot"       -> {AisleOf[a], ZoneOfSlot(a), SiteOfSlot(a)}
      [] OTHER                    -> {}

(* The links of the chain that must besides be Active when it is registered.  *)
ActiveCustody(a) == IF KindOf[a] \in {"zone", "aisle", "slot"} THEN Custody(a) ELSE {}
-----------------------------------------------------------------------------
(* Rows.  attr is what the properties tell apart of what a row says: the      *)
(* attributes of a zone that rules match on, the direction of an aisle, all   *)
(* of a rule, the location type of a slot, the site of a structure.           *)
Status == {"Active", "UnderMaintenance", "Decommissioned"}

Absent == "Absent"

Directions == {OneWay, TwoWay}

Attributes ==
    ZoneAttributes \cup Directions \cup PlacementRule \cup LocationTypes \cup Sites \cup {None}

Row == [status   : Status \cup {Absent},
        attr     : Attributes,
        geometry : Geometries \cup {None},
        by       : Writers \cup {None}]

NoRow == [status |-> Absent, attr |-> None, geometry |-> None, by |-> None]

Present(row) == row.status # Absent

(* What else must exist, because the row says so.                             *)
Named(a, attr) ==
    CASE KindOf[a] \in {"slot", "structure"} -> {attr}
      [] KindOf[a] = "rule"                  -> {attr.locationType}
      [] OTHER                               -> {}

Parents(a, row) == Custody(a) \cup Named(a, row.attr)

(* Every row hangs from rows that are there.                                  *)
Custodial(rows) ==
    \A a \in Aggregates : Present(rows[a]) =>
        \A b \in Parents(a, rows[a]) : b \in Aggregates /\ Present(rows[b])
-----------------------------------------------------------------------------
(* What the use cases announce, on which topics.                              *)
Topics == {"integration", "analytics"}

EventOf == [RegisterSite             |-> "SiteRegistered",
            RegisterZone             |-> "ZoneRegistered",
            RegisterAisle            |-> "AisleRegistered",
            RegisterLocationType     |-> "LocationTypeRegistered",
            DefinePlacementRule      |-> "PlacementRuleDefined",
            RegisterFixedStructure   |-> "FixedStructureRegistered",
            RegisterCrossAisle       |-> "CrossAisleRegistered",
            RegisterLocationSlot     |-> "LocationSlotRegistered",
            DecommissionLocationSlot |-> "LocationSlotDecommissioned",
            SetLocationGeometry      |-> "LocationGeometryUpdated",
            SetAisleGeometry         |-> "AisleGeometryUpdated"]

UseCases == DOMAIN EventOf
Updates == {"DecommissionLocationSlot", "SetLocationGeometry", "SetAisleGeometry"}
Registrations == UseCases \ Updates

RegistrationEvents == {EventOf[u] : u \in Registrations}
Events == {EventOf[u] : u \in UseCases}

(* The one column that is no part of the id and that an upsert leaves as it   *)
(* finds it: the site of a structure.                                         *)
Keeps(a, before, row) ==
    KindOf[a] = "structure" /\ Present(before) => row.attr = before.attr

(* What may be written where the rows are such: what hangs from rows that are *)
(* there; a registration hangs from Active links, and what is updated exists. *)
Legal(rows, a, row, event) ==
    /\ Keeps(a, rows[a], row)
    /\ \A b \in Parents(a, row) : b \in Aggregates /\ Present(rows[b])
    /\ IF event \in RegistrationEvents
       THEN \A b \in ActiveCustody(a) : rows[b].status = "Active"
       ELSE Present(rows[a])
=============================================================================
