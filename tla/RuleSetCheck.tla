---------------------------- MODULE RuleSetCheck ----------------------------
(* RuleSet.Check as the loop it is: one step per rule of the list, in the     *)
(* order PlacementRuleRepo.List returns them, an early return on a Deny that  *)
(* names the type, the allow-list decided after the loop.                     *)
EXTENDS PlacementRules, Integers, Sequences

CONSTANT RuleSets   \* the lists of rules a check may be given

ASSUME RuleSetsAssumption == RuleSets \subseteq Seq(PlacementRule)

VARIABLES
    rules,        \* the receiver: the rules loaded by the use case
    locationType, \* the type to be placed
    attrs,        \* the attributes of the zone
    i,            \* index of the rule the loop looks at next
    allowListed, allowed,
    verdict       \* "none" while the loop runs, then "permitted" or "violated"

arguments == <<rules, locationType, attrs>>
vars == <<rules, locationType, attrs, i, allowListed, allowed, verdict>>

TypeOK == /\ rules \in RuleSets
          /\ locationType \in LocationTypes
          /\ attrs \in ZoneAttributes
          /\ i \in 1..(Len(rules) + 1)
          /\ allowListed \in BOOLEAN
          /\ allowed \in BOOLEAN
          /\ verdict \in {"none", "permitted", "violated"}

Init == /\ rules \in RuleSets
        /\ locationType \in LocationTypes
        /\ attrs \in ZoneAttributes
        /\ i = 1
        /\ allowListed = FALSE
        /\ allowed = FALSE
        /\ verdict = "none"

Looping == verdict = "none" /\ i <= Len(rules)

(* Mutants: the definitions whose names end in "Slip" are plausible mistakes   *)
(* in the code the definition after them models.                              *)

(* A rule whose predicate does not select the zone is passed over.            *)
Skip == /\ Looping
        /\ ~Matches(rules[i].predicate, attrs)
        /\ i' = i + 1
        /\ UNCHANGED <<arguments, allowListed, allowed, verdict>>

(* A matching Deny that names the type returns at once ...                    *)
DenyNames(rule) == rule.effect = "Deny" /\ rule.locationType = locationType

DenyRejects == /\ Looping
               /\ Matches(rules[i].predicate, attrs)
               /\ DenyNames(rules[i])
               /\ verdict' = "violated"
               /\ UNCHANGED <<arguments, i, allowListed, allowed>>

(* ... one that names another type says nothing of this one.                  *)
DenyOfAnother == /\ Looping
                 /\ Matches(rules[i].predicate, attrs)
                 /\ rules[i].effect = "Deny"
                 /\ ~DenyNames(rules[i])
                 /\ i' = i + 1
                 /\ UNCHANGED <<arguments, allowListed, allowed, verdict>>

(* Only an Allow that names the type makes the zone an allow-list.            *)
AllowSlip == /\ Looping
             /\ Matches(rules[i].predicate, attrs)
             /\ rules[i].effect = "Allow"
             /\ i' = i + 1
             /\ allowListed' = (allowListed \/ rules[i].locationType = locationType)
             /\ allowed' = (allowed \/ rules[i].locationType = locationType)
             /\ UNCHANGED <<arguments, verdict>>

(* A matching Allow makes the zone an allow-list, and may put the type on it. *)
Allow == /\ Looping
         /\ Matches(rules[i].predicate, attrs)
         /\ rules[i].effect = "Allow"
         /\ i' = i + 1
         /\ allowListed' = TRUE
         /\ allowed' = (allowed \/ rules[i].locationType = locationType)
         /\ UNCHANGED <<arguments, verdict>>

(* After the loop.                                                            *)
Conclude == /\ verdict = "none"
            /\ i > Len(rules)
            /\ verdict' = IF allowListed /\ ~allowed THEN "violated" ELSE "permitted"
            /\ UNCHANGED <<arguments, i, allowListed, allowed>>

(* The check has returned.                                                    *)
Returned == verdict # "none" /\ UNCHANGED vars

Next == Skip \/ DenyRejects \/ DenyOfAnother \/ Allow \/ Conclude \/ Returned

Spec == Init /\ [][Next]_vars
-----------------------------------------------------------------------------
RulesUpTo(n) == {rules[k] : k \in 1..n}

(* The verdict depends on the set of rules alone, never on the order the      *)
(* repository lists them in, and it is the one the comment on Check promises: *)
(* Deny wins wherever it stands, and any Allow makes the zone an allow-list.  *)
VerdictIsPermits ==
    verdict # "none" =>
        (verdict = "permitted" <=> Permits(RulesUpTo(Len(rules)), locationType, attrs))
=============================================================================
