\* Two imports of one building at once, while another caller changes it.
SPECIFICATION Spec
CONSTANTS
    I1 = I1
    I2 = I2
    Caller = Caller
    WH1 = WH1
    STOR = STOR
    A1 = A1
    S1 = S1
    S2 = S2
    COLD = COLD
    C1 = C1
    S3 = S3
    PalletRack = PalletRack
    Shelf = Shelf
    Mezzanine = Mezzanine
    DenyRack = DenyRack
    G1 = G1
    MaxFailures = 1
    Unset = Unset
    OneWay = OneWay
    TwoWay = TwoWay
    None = None
    ZoneCodes <- MCZoneCodes
    TemperatureClasses <- MCTemperatureClasses
    LocationTypes <- MCLocationTypes
    Aggregates <- MCAggregates
    KindOf <- MCKindOf
    SiteOf <- MCSiteOf
    ZoneOf <- MCZoneOf
    AisleOf <- MCAisleOf
    EndsOf <- MCNothing
    ReverseOf <- MCNothing
    Geometries <- MCGeometries
    Writers <- MCWriters
    Imports <- MCImports
    Batches <- MCBatches
    Loaded <- MCLoaded
    Workload <- MCWorkload
SYMMETRY Symmetric
INVARIANTS
    TypeOK
    ChainOfCustody
    SucceededIsImported
    RefusedForCause
    SummaryCountsSlots
PROPERTIES
    SettledIsNotRedefined
