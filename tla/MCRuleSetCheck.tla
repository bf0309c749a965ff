--------------------------- MODULE MCRuleSetCheck ---------------------------
(* RuleSetCheck over every list of at most MaxRules rules from a pool that    *)
(* has both effects, both types, wildcards and predicates that do not match.  *)
EXTENDS RuleSetCheck

CONSTANT MaxRules

Pin(zoneCode, temperatureClass, hazmat) ==
    [zoneCode |-> zoneCode, temperatureClass |-> temperatureClass, hazmat |-> hazmat]

MCZoneCodes == {"AMB", "FRZ"}
MCTemperatureClasses == {"Ambient", "Frozen"}
MCLocationTypes == {"PalletRack", "Shelf"}

RulePool ==
    [locationType : LocationTypes,
     effect       : Effects,
     predicate    : {Pin("AMB", Unset, Unset), Pin(Unset, "Frozen", Unset), Pin("FRZ", Unset, TRUE)}]

MCRuleSets == UNION {[1..n -> RulePool] : n \in 0..MaxRules}

=============================================================================
