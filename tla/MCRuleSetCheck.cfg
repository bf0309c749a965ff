\* Every list of up to three rules, both types, every zone.
SPECIFICATION Spec
CONSTANTS
    Unset = Unset
    ZoneCodes <- MCZoneCodes
    TemperatureClasses <- MCTemperatureClasses
    LocationTypes <- MCLocationTypes
    RuleSets <- MCRuleSets
    MaxRules = 3
INVARIANTS
    VerdictIsPermits
