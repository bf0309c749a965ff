-------------------------- MODULE RuleSetCheckProofs --------------------------
(* The loop of RuleSet.Check computes Permits, for every list of rules.       *)
EXTENDS RuleSetCheck, TLAPS

(* The loop invariant: what the rules looked at so far say.                   *)
LoopInv ==
    /\ ~Denied(RulesUpTo(i - 1), locationType, attrs)
    /\ allowListed <=> AllowRulesFor(RulesUpTo(i - 1), attrs) # {}
    /\ allowed <=> \E r \in AllowRulesFor(RulesUpTo(i - 1), attrs) :
                       r.locationType = locationType

IndInv == TypeOK /\ (verdict = "none" => LoopInv) /\ VerdictIsPermits

-----------------------------------------------------------------------------
(* One more rule looked at.                                                   *)
LEMMA OneMoreRule ==
    ASSUME NEW n \in Nat, n >= 1
    PROVE  RulesUpTo(n) = RulesUpTo(n - 1) \cup {rules[n]}
<1>1. 1..n = (1..(n - 1)) \cup {n}
  OBVIOUS
<1> QED BY <1>1 DEF RulesUpTo

(* Every rule of a list is a placement rule.                                  *)
LEMMA RulesType ==
    ASSUME TypeOK
    PROVE  /\ rules \in Seq(PlacementRule)
           /\ Len(rules) \in Nat
           /\ i \in Nat /\ i >= 1
           /\ \A k \in 1..Len(rules) : rules[k].effect \in Effects
<1>1. rules \in Seq(PlacementRule)
  BY RuleSetsAssumption DEF TypeOK
<1>2. Len(rules) \in Nat
  BY <1>1
<1>3. i \in Nat /\ i >= 1
  BY <1>2 DEF TypeOK
<1>4. \A k \in 1..Len(rules) : rules[k] \in PlacementRule
  BY <1>1
<1> QED BY <1>1, <1>2, <1>3, <1>4 DEF PlacementRule

(* What one more rule adds to what a set of rules denies and allows.          *)
LEMMA DeniedByOneMore ==
    ASSUME NEW R, NEW r, NEW t, NEW z
    PROVE  Denied(R \cup {r}, t, z) <=>
               \/ Denied(R, t, z)
               \/ Matches(r.predicate, z) /\ r.effect = "Deny" /\ r.locationType = t
BY DEF Denied

(* ... and to the allow-list they make.                                       *)
LEMMA AllowedByOneMore ==
    ASSUME NEW R, NEW r, NEW z
    PROVE  AllowRulesFor(R \cup {r}, z) =
               AllowRulesFor(R, z) \cup
                   (IF Matches(r.predicate, z) /\ r.effect = "Allow" THEN {r} ELSE {})
BY DEF AllowRulesFor
-----------------------------------------------------------------------------
(* Before the loop nothing was looked at.                                     *)
LEMMA InitInv == Init => IndInv
<1> SUFFICES ASSUME Init PROVE IndInv
  OBVIOUS
<1>1. TypeOK
  <2>1. rules \in Seq(PlacementRule)
    BY RuleSetsAssumption DEF Init
  <2>2. Len(rules) \in Nat
    BY <2>1
  <2>3. i \in 1..(Len(rules) + 1)
    BY <2>2 DEF Init
  <2>4. rules \in RuleSets /\ locationType \in LocationTypes /\ attrs \in ZoneAttributes
    BY DEF Init
  <2>5. allowListed \in BOOLEAN /\ allowed \in BOOLEAN
    BY DEF Init
  <2>6. verdict \in {"none", "permitted", "violated"}
    BY DEF Init
  <2> QED BY <2>3, <2>4, <2>5, <2>6 DEF TypeOK
<1>2. RulesUpTo(i - 1) = {}
  BY DEF Init, RulesUpTo
<1>3. LoopInv
  BY <1>2 DEF Init, LoopInv, Denied, AllowRulesFor
<1>4. VerdictIsPermits
  BY DEF Init, VerdictIsPermits
<1> QED BY <1>1, <1>3, <1>4 DEF IndInv

(* A step of the loop that goes on to the next rule.                          *)
LEMMA LoopStep ==
    ASSUME IndInv, Looping, i' = i + 1, UNCHANGED <<rules, locationType, attrs, verdict>>,
           ~(Matches(rules[i].predicate, attrs) /\ DenyNames(rules[i])),
           allowListed' \in BOOLEAN, allowed' \in BOOLEAN,
           allowListed' <=> \/ allowListed
                            \/ Matches(rules[i].predicate, attrs) /\ rules[i].effect = "Allow",
           allowed' <=> \/ allowed
                        \/ /\ Matches(rules[i].predicate, attrs)
                           /\ rules[i].effect = "Allow"
                           /\ rules[i].locationType = locationType
    PROVE  IndInv'
<1>1. /\ TypeOK /\ LoopInv /\ verdict = "none" /\ i <= Len(rules)
      /\ i \in Nat /\ i >= 1 /\ Len(rules) \in Nat
  BY RulesType DEF IndInv, Looping
<1>2. TypeOK'
  BY <1>1 DEF TypeOK
<1> DEFINE R == RulesUpTo(i - 1)
           r == rules[i]
<1>3. /\ i' - 1 = i
      /\ RulesUpTo(i) = R \cup {r}
  BY <1>1, OneMoreRule
<1>4. RulesUpTo(i - 1)' = R \cup {r}
  BY <1>1, <1>3 DEF RulesUpTo
<1> HIDE DEF R, r
<1>5. ~Denied(R \cup {r}, locationType, attrs)
  BY <1>1, DeniedByOneMore DEF LoopInv, R, r, DenyNames
<1> DEFINE W == AllowRulesFor(R, attrs)
           taken == Matches(r.predicate, attrs) /\ r.effect = "Allow"
<1>a. /\ allowListed <=> W # {}
      /\ allowed <=> \E x \in W : x.locationType = locationType
  BY <1>1 DEF LoopInv, R
<1>b. /\ allowListed' <=> allowListed \/ taken
      /\ allowed' <=> allowed \/ (taken /\ r.locationType = locationType)
  BY DEF r
<1>c. AllowRulesFor(R \cup {r}, attrs) = W \cup (IF taken THEN {r} ELSE {})
  BY AllowedByOneMore
<1>6. /\ allowListed' <=> AllowRulesFor(R \cup {r}, attrs) # {}
      /\ allowed' <=> \E x \in AllowRulesFor(R \cup {r}, attrs) : x.locationType = locationType
  <2> HIDE DEF W, taken
  <2>1. CASE taken
    <3>1. AllowRulesFor(R \cup {r}, attrs) = W \cup {r}
      BY <1>c, <2>1
    <3> QED BY <1>a, <1>b, <2>1, <3>1, Zenon
  <2>2. CASE ~taken
    <3>1. AllowRulesFor(R \cup {r}, attrs) = W
      BY <1>c, <2>2
    <3> QED BY <1>a, <1>b, <2>2, <3>1, Zenon
  <2> QED BY <2>1, <2>2
<1>7. LoopInv'
  BY <1>4, <1>5, <1>6 DEF LoopInv
<1>8. VerdictIsPermits'
  BY <1>1 DEF VerdictIsPermits
<1> QED BY <1>2, <1>7, <1>8 DEF IndInv

(* Every step of the loop, its end and the stutter after it.                  *)
LEMMA NextInv == IndInv /\ [Next]_vars => IndInv'
<1> SUFFICES ASSUME IndInv, [Next]_vars PROVE IndInv'
  OBVIOUS
<1> USE DEF arguments
<1>0. TypeOK /\ i \in Nat /\ i >= 1 /\ Len(rules) \in Nat
  BY RulesType DEF IndInv
<1>1. CASE Skip
  BY <1>0, <1>1, LoopStep DEF Skip, Looping, TypeOK
<1>2. CASE DenyRejects
  <2>1. /\ Looping /\ Matches(rules[i].predicate, attrs) /\ DenyNames(rules[i])
        /\ verdict' = "violated"
        /\ UNCHANGED <<rules, locationType, attrs, i, allowListed, allowed>>
    BY <1>2 DEF DenyRejects
  <2>2. rules[i] \in RulesUpTo(Len(rules))
    BY <1>0, <2>1 DEF RulesUpTo, Looping
  <2>3. Denied(RulesUpTo(Len(rules)), locationType, attrs)
    BY <2>1, <2>2 DEF Denied, DenyNames
  <2>4. ~Permits(RulesUpTo(Len(rules)), locationType, attrs)
    BY <2>3 DEF Permits
  <2>5. VerdictIsPermits'
    BY <2>1, <2>4 DEF VerdictIsPermits, RulesUpTo
  <2>6. TypeOK'
    BY <1>0, <2>1 DEF TypeOK
  <2> QED BY <2>1, <2>5, <2>6 DEF IndInv
<1>3. CASE DenyOfAnother
  BY <1>0, <1>3, LoopStep DEF DenyOfAnother, Looping, TypeOK
<1>4. CASE Allow
  BY <1>0, <1>4, LoopStep DEF Allow, Looping, DenyNames, TypeOK
<1>5. CASE Conclude
  <2>1. /\ verdict = "none" /\ i > Len(rules) /\ verdict' \in {"violated", "permitted"}
        /\ verdict' = "violated" <=> allowListed /\ ~allowed
        /\ UNCHANGED <<rules, locationType, attrs, i, allowListed, allowed>>
    BY <1>5 DEF Conclude
  <2>2. i - 1 = Len(rules)
    BY <1>0, <2>1 DEF TypeOK
  <2>3. LoopInv
    BY <2>1 DEF IndInv
  <2>4. Permits(RulesUpTo(Len(rules)), locationType, attrs) <=> ~(allowListed /\ ~allowed)
    BY <2>2, <2>3 DEF LoopInv, Permits
  <2>5. VerdictIsPermits'
    BY <2>1, <2>4 DEF VerdictIsPermits, RulesUpTo
  <2>6. TypeOK'
    BY <1>0, <2>1 DEF TypeOK
  <2> QED BY <2>1, <2>5, <2>6 DEF IndInv
<1>6. CASE Returned \/ UNCHANGED vars
  <2>1. /\ rules' = rules /\ locationType' = locationType /\ attrs' = attrs /\ i' = i
        /\ allowListed' = allowListed /\ allowed' = allowed /\ verdict' = verdict
    BY <1>6 DEF Returned, vars
  <2>2. TypeOK'
    BY <2>1, Zenon DEF IndInv, TypeOK
  <2>3. (verdict = "none" => LoopInv)'
    BY <2>1, Zenon DEF IndInv, LoopInv, RulesUpTo
  <2>4. VerdictIsPermits'
    BY <2>1, Zenon DEF IndInv, VerdictIsPermits, RulesUpTo
  <2> QED BY <2>2, <2>3, <2>4 DEF IndInv
<1> QED BY <1>1, <1>2, <1>3, <1>4, <1>5, <1>6, Zenon DEF Next

(* For every list of rules, every type and every zone, whatever the order the *)
(* repository lists the rules in, Check returns what the set of rules says.   *)
THEOREM CheckIsPermits == Spec => []VerdictIsPermits
<1>1. Init => IndInv
  BY InitInv
<1>2. IndInv /\ [Next]_vars => IndInv'
  BY NextInv
<1>3. IndInv => VerdictIsPermits
  BY DEF IndInv
<1> QED BY <1>1, <1>2, <1>3, PTL DEF Spec
=============================================================================
