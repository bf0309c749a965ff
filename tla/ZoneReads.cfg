\* One read of each kind while writers register, move and retire rows.
SPECIFICATION Spec
CONSTANTS
    R1 = R1
    R2 = R2
    None = None
    Unset = Unset
    OneWay = OneWay
    TwoWay = TwoWay
    WH1 = WH1
    STOR = STOR
    COLD = COLD
    A = A
    B = B
    C = C
    D = D
    A1 = A1
    A1up = A1up
    A2 = A2
    A3 = A3
    B1 = B1
    B2 = B2
    B3 = B3
    C1 = C1
    D1 = D1
    X1 = X1
    X3 = X3
    Pillar = Pillar
    Rack = Rack
    Dock = Dock
    G1 = G1
    Writers = {R1, R2}
    ZoneCodes <- MCZoneCodes
    TemperatureClasses <- MCTemperatureClasses
    LocationTypes <- MCLocationTypes
    Aggregates <- MCAggregates
    KindOf <- MCKindOf
    SiteOf <- MCSiteOf
    ZoneOf <- MCZoneOf
    AisleOf <- MCAisleOf
    EndsOf <- MCEndsOf
    ReverseOf <- MCReverseOf
    Geometries <- MCGeometries
    Loadings <- MCLoadings
    Entries <- MCEntries
    Queries <- MCQueries
    BayOf <- MCBayOf
    LevelOf <- MCLevelOf
    LengthOf <- MCLengthOf
    PitchOf <- MCPitchOf
    RoleOf <- MCRoleOf
INVARIANTS
    TypeOK
    FoundIsRooted
    SettledIsShown
    RouteIsShortest
    RouteIsOfTheMap
PROPERTIES
    ReadAnswered
