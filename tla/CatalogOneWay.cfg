\* A retired slot stays retired, as the README and ADR 0005 have it: refuted.
SPECIFICATION Spec
CONSTANTS
    R1 = R1
    R2 = R2
    R3 = R3
    R4 = R4
    None = None
    Unset = Unset
    OneWay = OneWay
    TwoWay = TwoWay
    WH1 = WH1
    WH2 = WH2
    STOR = STOR
    COLD = COLD
    A1 = A1
    A2 = A2
    C1 = C1
    S1 = S1
    Pillar = Pillar
    X12 = X12
    X21 = X21
    PalletRack = PalletRack
    Shelf = Shelf
    RackRule = RackRule
    G1 = G1
    Writers = {R1, R2, R3}
    ZoneCodes <- MCZoneCodes
    TemperatureClasses <- MCTemperatureClasses
    LocationTypes <- MCLocationTypes
    Aggregates <- MCAggregates
    KindOf <- MCKindOf
    SiteOf <- MCSiteOf
    ZoneOf <- MCZoneOf
    AisleOf <- MCAisleOf
    EndsOf <- MCEndsOf
    ReverseOf <- MCReverseOf
    Geometries <- MCGeometries
    Loaded <- LoadedAisle
    Workload <- SlotWorkload
PROPERTIES
    DecommissionIsOneWay
