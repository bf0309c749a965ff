------------------------------ MODULE MCZoneReads ------------------------------
(* A site of two zones: one with a two-way aisle A and an aisle B, loaded as  *)
(* one-way, of up to three bays each, joined by cross-aisles at the first and *)
(* the last bay, and an aisle D joined to none; one with an aisle C of one    *)
(* slot.                                                                      *)
EXTENDS ZoneReads, FacilityUseCases, TLC

CONSTANTS
    R1, R2,                             \* requests that write
    WH1, STOR, COLD, A, B, C, D,        \* a site, its zones, their aisles
    A1, A1up, A2, A3, B1, B2, B3, C1, D1, \* slots
    X1, X3,                             \* cross-aisles
    Pillar, Rack, Dock,                 \* a structure, location types
    G1                                  \* a centreline

MCZoneCodes == {"AMB"}
MCTemperatureClasses == {"Ambient"}
MCLocationTypes == {Rack, Dock}
MCGeometries == {G1}

MCSlots == {A1, A1up, A2, A3, B1, B2, B3, C1, D1}

MCKindOf ==
    [a \in {WH1, STOR, COLD, A, B, C, D, X1, X3, Pillar, Rack, Dock} \cup MCSlots |->
        CASE a = WH1 -> "site"
          [] a \in {STOR, COLD} -> "zone"
          [] a \in {A, B, C, D} -> "aisle"
          [] a \in {X1, X3} -> "crossAisle"
          [] a = Pillar -> "structure"
          [] a \in {Rack, Dock} -> "locationType"
          [] a \in MCSlots -> "slot"]
MCAggregates == DOMAIN MCKindOf
MCSiteOf == [a \in {STOR, COLD} |-> WH1]
MCZoneOf == [a \in {A, B, C, D, X1, X3} |-> IF a = C THEN COLD ELSE STOR]
MCAisleOf == [s \in MCSlots |->
                CASE s = C1 -> C [] s = D1 -> D [] s \in {B1, B2, B3} -> B [] OTHER -> A]
MCEndsOf == [x \in {X1, X3} |-> {A, B}]
MCReverseOf == [x \in {X1, X3} |-> x]

MCBayOf == [a \in MCSlots \cup {X1, X3} |->
               IF a \in {A1, A1up, B1, C1, D1, X1} THEN 1 ELSE IF a \in {A2, B2} THEN 2 ELSE 3]
MCLevelOf == [s \in MCSlots |-> IF s = A1up THEN 2 ELSE 1]
MCLengthOf == [g \in {G1} |-> 6]
MCPitchOf == [z \in {STOR, COLD} |-> 1]
MCRoleOf == Rack :> "Storage" @@ Dock :> "Dock"

AmbientZone == [zoneCode |-> "AMB", temperatureClass |-> "Ambient", hazmat |-> FALSE]

LoadedWith(rows, measured) ==
    [a \in MCAggregates |->
        IF a \notin rows THEN NoRow
        ELSE [status   |-> "Active",
              attr     |-> CASE a \in {STOR, COLD} -> AmbientZone
                             [] a \in {A, C, D}    -> TwoWay
                             [] a = B              -> OneWay
                             [] a \in MCSlots      -> Rack
                             [] a = Pillar         -> WH1
                             [] OTHER              -> None,
              geometry |-> IF a \in measured THEN G1 ELSE None,
              by       |-> None]]

Built == {WH1, STOR, A, A1, A3, Rack, Dock}

(* An aisle with its ends; two zones without the aisles of one of them, with  *)
(* a gap in the one-way aisle, and without a cross-aisle; nothing but a site.  *)
MCLoadings == {LoadedWith({WH1, Rack, Dock}, {}),
               LoadedWith(Built, {A}),
               LoadedWith(MCAggregates \ {Pillar, C, C1}, {A}),
               LoadedWith(MCAggregates \ {B2, A2, A1up, D, D1}, {B}),
               LoadedWith(MCAggregates \ {X1, A2, D, D1}, {A})}

(* The rows that writers may have read before they update them.               *)
Before(a) ==
    CASE a = A1 -> {RegisteredRow(Rack, None)}
      [] a = B  -> {RegisteredRow(OneWay, None), RegisteredRow(TwoWay, None)}

(* Racing registrations may say the same thing again, or turn an aisle round. *)
MCWorkload ==
    {c \in Commands :
        \/ c.use \in {"RegisterZone", "RegisterAisle", "RegisterFixedStructure",
                      "RegisterCrossAisle"}
               /\ c.target \in {STOR, B, X1, Pillar}
               /\ (c.arg = OneWay => c.target = B)
        \/ c.use = "RegisterLocationSlot" /\ c.target = A2 /\ c.arg = Rack
        \/ c.use = "RegisterLocationSlot" /\ c.target = A3 /\ c.arg = Dock
        \/ c.use = "DecommissionLocationSlot" /\ c.target = A1
        \/ c.use = "SetAisleGeometry" /\ c.target = B}

EntriesOf(c) ==
    {[event |-> EventOf[c.use], about |-> c.target, row |-> RowWritten(c, old, None)] :
        old \in IF c.use \in Updates THEN Before(c.target) ELSE {NoRow}}

MCEntries == UNION {EntriesOf(c) : c \in MCWorkload}

Ask1(read, of) == [read |-> read, of |-> of, to |-> None, role |-> None]
Distance(from, to) == [Ask1("EstimateTravelDistance", from) EXCEPT !.to = to]
ByRole(role) == [Ask1("ListLocationsByRole", WH1) EXCEPT !.role = role]
MCQueries ==
    {Ask1("ListSites", None), Ask1("ListLocationTypes", None), Ask1("ListPlacementRules", None),
     Ask1("Get", A2), Ask1("ListZones", WH1), Ask1("ListAisles", STOR),
     Ask1("ListFixedStructures", WH1), Ask1("GetLocationClassification", A1),
     Ask1("GetSiteLayout", WH1), Ask1("GetZoneGrid", STOR), Ask1("GetZoneTravelGraph", STOR),
     ByRole("Storage"), ByRole("Dock"),
     Distance(A1, A3), Distance(A2, B2), Distance(B3, A2), Distance(A1, C1),
     Distance(A1, A1up), Distance(A1, D1)}
=============================================================================
