--------------------------- MODULE PlacementRules ---------------------------
(* The vocabulary of placement rules: which zones a rule's predicate selects  *)
(* and what a set of rules says of one location type in one zone.  Permits is *)
(* the reference meaning the comment on RuleSet.Check gives; the loop that    *)
(* computes it is in RuleSetCheck.                                            *)

CONSTANTS
    ZoneCodes,          \* zone segments of a location code
    TemperatureClasses, \* Ambient, Chilled, Frozen in the code
    LocationTypes,      \* names of location types
    Unset                 \* the wildcard: an unset field of a predicate

ASSUME WildcardAssumption ==
    Unset \notin ZoneCodes /\ Unset \notin TemperatureClasses /\ Unset \notin BOOLEAN

(* What a rule looks at in a zone.                                            *)
ZoneAttributes == [zoneCode         : ZoneCodes,
                   temperatureClass : TemperatureClasses,
                   hazmat           : BOOLEAN]

PredicateFields == {"zoneCode", "temperatureClass", "hazmat"}

(* A predicate pins at least one field: NewZonePredicate refuses the empty    *)
(* one, which would select every zone of the building.                        *)
ZonePredicate ==
    {p \in [zoneCode         : ZoneCodes \cup {Unset},
            temperatureClass : TemperatureClasses \cup {Unset},
            hazmat           : BOOLEAN \cup {Unset}] :
        \E f \in PredicateFields : p[f] # Unset}

Effects == {"Allow", "Deny"}

PlacementRule == [locationType : LocationTypes,
                  effect       : Effects,
                  predicate    : ZonePredicate]

(* ZonePredicate.Matches: every pinned field agrees with the zone.            *)
Matches(predicate, zone) ==
    \A f \in PredicateFields : predicate[f] \in {Unset, zone[f]}

(* The promise of RuleSet.Check, as a statement about the SET of rules: Deny  *)
(* wins, and the matching Allow rules, if there are any, are an allow-list.   *)
Denied(rules, locationType, zone) ==
    \E r \in rules : /\ Matches(r.predicate, zone)
                     /\ r.effect = "Deny"
                     /\ r.locationType = locationType

AllowRulesFor(rules, zone) ==
    {r \in rules : Matches(r.predicate, zone) /\ r.effect = "Allow"}

Permits(rules, locationType, zone) ==
    /\ ~Denied(rules, locationType, zone)
    /\ \/ AllowRulesFor(rules, zone) = {}
       \/ \E r \in AllowRulesFor(rules, zone) : r.locationType = locationType
=============================================================================
