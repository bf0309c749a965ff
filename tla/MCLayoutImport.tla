--------------------------- MODULE MCLayoutImport ---------------------------
(* A warehouse to be loaded: one site, a zone with an aisle of two slots, and *)
(* a zone under maintenance with a slot.                                      *)
EXTENDS LayoutImport, TLC

CONSTANTS
    I1, I2, Caller,               \* two imports and another caller
    WH1, STOR, A1, S1, S2,        \* the site, the zone, its aisle, two slots of it
    COLD, C1, S3,                 \* a zone under maintenance, its aisle, its slot
    PalletRack, Shelf, Mezzanine, \* location types, the last one not registered
    DenyRack,                     \* the id of a rule
    G1                            \* a geometry

Symmetric == Permutations(Imports)

MCZoneCodes == {"AMB"}
MCTemperatureClasses == {"Ambient", "Frozen"}
MCLocationTypes == {PalletRack, Shelf, Mezzanine}
MCGeometries == {G1}
MCImports == {I1, I2}
MCWriters == {I1, I2, Caller}

Ambient == [zoneCode |-> "AMB", temperatureClass |-> "Ambient", hazmat |-> FALSE]
Frozen == [zoneCode |-> "AMB", temperatureClass |-> "Frozen", hazmat |-> FALSE]

MCKindOf == WH1 :> "site" @@ STOR :> "zone" @@ COLD :> "zone"
            @@ A1 :> "aisle" @@ C1 :> "aisle"
            @@ PalletRack :> "locationType" @@ Shelf :> "locationType"
            @@ Mezzanine :> "locationType"
            @@ DenyRack :> "rule"
            @@ S1 :> "slot" @@ S2 :> "slot" @@ S3 :> "slot"
MCAggregates == DOMAIN MCKindOf
MCSiteOf == [a \in {STOR, COLD} |-> WH1]
MCZoneOf == A1 :> STOR @@ C1 :> COLD
MCAisleOf == S1 :> A1 @@ S2 :> A1 @@ S3 :> C1
MCNothing == [a \in {} |-> a]

RackRule == [locationType |-> PalletRack, effect |-> "Deny",
             predicate |-> [zoneCode         |-> Unset,
                            temperatureClass |-> "Frozen",
                            hazmat           |-> Unset]]

Entry(slot, zone, type, geometry, refused) ==
    [slot |-> slot, zone |-> zone, direction |-> TwoWay, type |-> type,
     geometry |-> geometry, refused |-> refused]

(* The same building twice, under another climate; rows that fail at each     *)
(* point where a row may fail, before rows that do not; a slot repeated.      *)
MCBatches ==
    { <<>>,
      << Entry(S2, Ambient, PalletRack, None, {"NewLocationCode"}),
         Entry(S1, Ambient, Shelf, G1, {}) >>,
      << Entry(S1, Frozen, PalletRack, None, {}),
         Entry(S1, Frozen, PalletRack, G1, {"NewDimensions"}) >>,
      << Entry(S3, Ambient, PalletRack, None, {}),
         Entry(S2, Ambient, Mezzanine, None, {"NewZone"}) >>,
      << Entry(S2, Ambient, Shelf, None, {"NewAisle", "NewCapacity"}) >> }

Already == {WH1, COLD, C1, PalletRack, Shelf, DenyRack}
MCLoaded ==
    [a \in MCAggregates |->
        IF a \notin Already THEN NoRow
        ELSE [status   |-> IF a = COLD THEN "UnderMaintenance" ELSE "Active",
              attr     |-> CASE a = COLD     -> Frozen
                             [] a = C1       -> TwoWay
                             [] a = DenyRack -> RackRule
                             [] OTHER        -> None,
              geometry |-> None,
              by       |-> None]]

(* Racks are denied in frozen zones.  Meanwhile the first slot is retired, or *)
(* somebody else registers the zone.                                          *)
MCWorkload ==
    {[use |-> "DecommissionLocationSlot", target |-> S1, arg |-> None],
     [use |-> "RegisterZone", target |-> STOR, arg |-> Ambient]}
=============================================================================
