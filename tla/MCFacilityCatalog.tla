-------------------------- MODULE MCFacilityCatalog --------------------------
(* A small warehouse: a site with a zone of two aisles, a slot that may be in *)
(* one of them, two location types, the id of a rule that may deny or allow,  *)
(* and a second site, for a structure whose id two requests may choose.       *)
EXTENDS FacilityCatalog, TLC

CONSTANTS
    R1, R2, R3, R4,                     \* requests
    WH1, STOR, A1, A2, S1,              \* a site, a zone, its aisles, a slot
    WH2, Pillar,                        \* another site, a structure in one of them
    COLD, C1,                           \* a zone under maintenance, an aisle of it
    X12, X21,                           \* the cross-aisle from either end
    PalletRack, Shelf,                  \* location types
    RackRule,                           \* the id of a rule
    G1                                  \* a geometry

Symmetric == Permutations(Writers)

MCZoneCodes == {"AMB"}
MCTemperatureClasses == {"Ambient", "Frozen"}
MCLocationTypes == {PalletRack, Shelf}
MCGeometries == {G1}

AmbientZone == [zoneCode |-> "AMB", temperatureClass |-> "Ambient", hazmat |-> FALSE]

MCKindOf == WH1 :> "site" @@ WH2 :> "site" @@ STOR :> "zone" @@ COLD :> "zone"
            @@ A1 :> "aisle" @@ A2 :> "aisle" @@ C1 :> "aisle"
            @@ PalletRack :> "locationType" @@ Shelf :> "locationType"
            @@ RackRule :> "rule"
            @@ S1 :> "slot" @@ Pillar :> "structure"
            @@ X12 :> "crossAisle" @@ X21 :> "crossAisle"
MCAggregates == DOMAIN MCKindOf
MCSiteOf == [a \in {STOR, COLD} |-> WH1]
MCZoneOf == [a \in {A1, A2, C1, X12, X21} |-> IF a = C1 THEN COLD ELSE STOR]
MCAisleOf == [a \in {S1} |-> A1]
MCEndsOf == [a \in {X12, X21} |-> {A1, A2}]
MCReverseOf == X12 :> X21 @@ X21 :> X12

AmbientZones == [zoneCode |-> Unset, temperatureClass |-> "Ambient", hazmat |-> Unset]
InAmbientZones(effect) ==
    [locationType |-> PalletRack, effect |-> effect, predicate |-> AmbientZones]

(* A database as the service finds it; what another system put under          *)
(* maintenance is read back like any other row.                               *)
LoadedWith(rows, underMaintenance) ==
    [a \in MCAggregates |->
        IF a \notin rows THEN NoRow
        ELSE [status   |-> IF a \in underMaintenance THEN "UnderMaintenance" ELSE "Active",
              attr     |-> CASE KindOf[a] = "zone" -> AmbientZone
                             [] KindOf[a] = "aisle" -> TwoWay
                             [] OTHER -> None,
              geometry |-> None,
              by       |-> None]]

Registering(targets) ==
    {c \in Commands :
        /\ c.target \in targets
        /\ c.use \in Registrations
        /\ KindOf[c.target] = "aisle" => c.arg = TwoWay
        /\ KindOf[c.target] = "rule" => c.arg \in {InAmbientZones("Deny"), InAmbientZones("Allow")}}

(* Racing requests register the whole chain of one slot, of the one type      *)
(* there is, and another type.                                                *)
LoadedType == LoadedWith({Shelf}, {})
ChainWorkload ==
    {c \in Registering({WH1, STOR, A1, PalletRack, S1}) :
        c.arg \in {None, AmbientZone, TwoWay, Shelf}}

(* What hangs from a building with a zone under maintenance: aisles, the      *)
(* cross-aisle from both ends, a rule that is given either effect, a          *)
(* structure that is given either site; and a slot that is registered,        *)
(* retired and moved.                                                         *)
LoadedBuilding == LoadedWith({WH1, WH2, STOR, COLD, A1, PalletRack}, {COLD})
BuildingWorkload ==
    {c \in Registering({A2, C1, X12, X21, Pillar, RackRule, S1}) : c.arg # Shelf}
        \cup {c \in Commands : c.use \in Updates /\ c.target \in {A2, S1}}

(* One slot is registered, retired and moved.                                 *)
LoadedAisle == LoadedWith({WH1, STOR, A1, PalletRack}, {})
SlotWorkload == {c \in Commands : c.target = S1 /\ c.arg # Shelf}
=============================================================================
