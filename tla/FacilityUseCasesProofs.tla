------------------------ MODULE FacilityUseCasesProofs ------------------------
(* Lemmas about commands and the rows they write, for every map.              *)
EXTENDS FacilityUseCases, Naturals, TLAPS

(* The aggregates of a kind are aggregates, of that kind.                     *)
LEMMA KindFacts ==
    /\ \A a \in Sites           : a \in Aggregates /\ KindOf[a] = "site"
    /\ \A a \in Zones           : a \in Aggregates /\ KindOf[a] = "zone"
    /\ \A a \in Aisles          : a \in Aggregates /\ KindOf[a] = "aisle"
    /\ \A a \in LocationTypes   : a \in Aggregates /\ KindOf[a] = "locationType"
    /\ \A a \in RuleIds         : a \in Aggregates /\ KindOf[a] = "rule"
    /\ \A a \in LocationSlots   : a \in Aggregates /\ KindOf[a] = "slot"
    /\ \A a \in FixedStructures : a \in Aggregates /\ KindOf[a] = "structure"
    /\ \A a \in CrossAisles     : a \in Aggregates /\ KindOf[a] = "crossAisle"
BY KindAssumption DEF Sites, Zones, Aisles, RuleIds, LocationSlots, FixedStructures,
                      CrossAisles, OfKind

(* A command names a use case, its target is of the kind the use case writes, *)
(* and its argument is what that use case takes.                              *)
LEMMA CommandFacts ==
    ASSUME NEW c \in Commands
    PROVE  /\ c.use \in UseCases
           /\ c.use = "RegisterSite"             => c.target \in Sites
           /\ c.use = "RegisterZone"             => c.target \in Zones
           /\ c.use = "RegisterAisle"            => c.target \in Aisles
           /\ c.use = "RegisterLocationType"     => c.target \in LocationTypes
           /\ c.use = "DefinePlacementRule"      => c.target \in RuleIds
           /\ c.use = "RegisterFixedStructure"   => c.target \in FixedStructures
           /\ c.use = "RegisterCrossAisle"       => c.target \in CrossAisles
           /\ c.use = "RegisterLocationSlot"     => c.target \in LocationSlots
           /\ c.use = "DecommissionLocationSlot" => c.target \in LocationSlots
           /\ c.use = "SetLocationGeometry"      => c.target \in LocationSlots
           /\ c.use = "SetAisleGeometry"         => c.target \in Aisles
           /\ c.use = "RegisterLocationSlot"     => c.arg \in LocationTypes
           /\ c.use = "DefinePlacementRule"      => c.arg \in PlacementRule
           /\ c.use = "RegisterFixedStructure"   => c.arg \in Sites
           /\ c.use \in {"SetLocationGeometry", "SetAisleGeometry"} => c.arg \in Geometries
           /\ c.use \in Registrations            => c.arg \in Attributes
           /\ c.target \in Aggregates
<1>c. \/ c \in [use : {"RegisterSite"}, target : Sites, arg : {None}]
      \/ c \in [use : {"RegisterZone"}, target : Zones, arg : ZoneAttributes]
      \/ c \in [use : {"RegisterAisle"}, target : Aisles, arg : Directions]
      \/ c \in [use : {"RegisterLocationType"}, target : LocationTypes, arg : {None}]
      \/ c \in [use : {"DefinePlacementRule"}, target : RuleIds, arg : PlacementRule]
      \/ c \in [use : {"RegisterFixedStructure"}, target : FixedStructures, arg : Sites]
      \/ c \in [use : {"RegisterCrossAisle"}, target : CrossAisles, arg : {None}]
      \/ c \in [use : {"RegisterLocationSlot"}, target : LocationSlots, arg : LocationTypes]
      \/ c \in [use : {"DecommissionLocationSlot"}, target : LocationSlots, arg : {None}]
      \/ c \in [use : {"SetLocationGeometry"}, target : LocationSlots, arg : Geometries]
      \/ c \in [use : {"SetAisleGeometry"}, target : Aisles, arg : Geometries]
  BY Zenon DEF Commands, RegisterSiteCommands, RegisterZoneCommands,
               RegisterAisleCommands, RegisterLocationTypeCommands,
               DefinePlacementRuleCommands, RegisterFixedStructureCommands,
               RegisterCrossAisleCommands, RegisterLocationSlotCommands,
               DecommissionLocationSlotCommands, SetLocationGeometryCommands,
               SetAisleGeometryCommands
<1>1. c.use \in UseCases
  BY <1>c DEF UseCases, EventOf
<1>2. /\ c.use = "RegisterSite"             => c.target \in Sites
      /\ c.use = "RegisterZone"             => c.target \in Zones
      /\ c.use = "RegisterAisle"            => c.target \in Aisles
      /\ c.use = "RegisterLocationType"     => c.target \in LocationTypes
      /\ c.use = "DefinePlacementRule"      => c.target \in RuleIds
      /\ c.use = "RegisterFixedStructure"   => c.target \in FixedStructures
      /\ c.use = "RegisterCrossAisle"       => c.target \in CrossAisles
      /\ c.use = "RegisterLocationSlot"     => c.target \in LocationSlots
      /\ c.use = "DecommissionLocationSlot" => c.target \in LocationSlots
      /\ c.use = "SetLocationGeometry"      => c.target \in LocationSlots
      /\ c.use = "SetAisleGeometry"         => c.target \in Aisles
  BY <1>c
<1>3. /\ c.use = "RegisterLocationSlot"     => c.arg \in LocationTypes
      /\ c.use = "DefinePlacementRule"      => c.arg \in PlacementRule
      /\ c.use = "RegisterFixedStructure"   => c.arg \in Sites
      /\ c.use \in {"SetLocationGeometry", "SetAisleGeometry"} => c.arg \in Geometries
  BY <1>c
<1>4. c.use \in Registrations => c.arg \in Attributes
  BY <1>c DEF Registrations, Updates, UseCases, EventOf, Attributes
<1>5. c.target \in Aggregates
  BY <1>c, KindFacts
<1> QED BY <1>1, <1>2, <1>3, <1>4, <1>5

(* What a use case announces says whether it registered something, and        *)
(* whether that is a slot.                                                    *)
LEMMA EventFacts ==
    ASSUME NEW u \in UseCases
    PROVE  /\ EventOf[u] \in Events
           /\ EventOf[u] \in RegistrationEvents <=> u \in Registrations
           /\ EventOf[u] = "LocationSlotRegistered" <=> u = "RegisterLocationSlot"
<1>1. EventOf[u] \in Events
  BY DEF Events
<1>2. EventOf[u] = "LocationSlotRegistered" <=> u = "RegisterLocationSlot"
  BY DEF EventOf, UseCases
<1>3. \A v \in UseCases : EventOf[u] = EventOf[v] => u = v
  BY DEF EventOf, UseCases
<1>4. Registrations \subseteq UseCases
  BY DEF Registrations
<1>5. EventOf[u] \in RegistrationEvents <=> u \in Registrations
  BY <1>3, <1>4 DEF RegistrationEvents
<1> QED BY <1>1, <1>2, <1>5

(* Nothing hangs from a slot: the links that must be Active are sites, zones  *)
(* and aisles, and they are among what an aggregate hangs from.               *)
LEMMA ActiveCustodyFacts ==
    ASSUME NEW a \in Aggregates, NEW b \in ActiveCustody(a)
    PROVE  b \in Custody(a) /\ b \in Aggregates /\ KindOf[b] # "slot"
<1>1. a \in OfKind(KindOf[a])
  BY DEF OfKind
<1>2. CASE KindOf[a] = "zone"
  <2>1. Custody(a) = {SiteOf[a]} /\ a \in Zones
    BY <1>1, <1>2 DEF Custody, Zones
  <2>2. SiteOf[a] \in Sites
    BY <2>1, CodeAssumption
  <2> QED BY <2>1, <2>2, KindFacts DEF ActiveCustody
<1>3. CASE KindOf[a] = "aisle"
  <2>1. Custody(a) = {ZoneOf[a]} /\ a \in Aisles
    BY <1>1, <1>3 DEF Custody, Aisles
  <2>2. ZoneOf[a] \in Zones
    BY <2>1, CodeAssumption
  <2> QED BY <2>1, <2>2, KindFacts DEF ActiveCustody
<1>4. CASE KindOf[a] = "slot"
  <2>1. Custody(a) = {AisleOf[a], ZoneOfSlot(a), SiteOfSlot(a)} /\ a \in LocationSlots
    BY <1>1, <1>4 DEF Custody, LocationSlots
  <2>2. AisleOf[a] \in Aisles /\ ZoneOfSlot(a) \in Zones /\ SiteOfSlot(a) \in Sites
    BY <2>1, CodeAssumption DEF ZoneOfSlot, SiteOfSlot
  <2> QED BY <2>1, <2>2, KindFacts DEF ActiveCustody
<1> QED BY <1>2, <1>3, <1>4 DEF ActiveCustody

(* The chain a location code declares consists of identities of the map.      *)
LEMMA ChainFacts ==
    ASSUME NEW s \in LocationSlots
    PROVE  /\ AisleOf[s] \in Aisles
           /\ ZoneOfSlot(s) \in Zones
           /\ SiteOfSlot(s) \in Sites
BY CodeAssumption DEF ZoneOfSlot, SiteOfSlot

(* The row a use case saves is a row, in service if it is a registration's,   *)
(* and otherwise the row it read but for what it updates; it names its        *)
(* writer.                                                                    *)
LEMMA RowWrittenFacts ==
    ASSUME NEW c \in Commands, NEW old \in Row, NEW w \in Writers
    PROVE  LET row == RowWritten(c, old, w)
           IN /\ row \in Row
              /\ row.by = w
              /\ c.use \in Registrations =>
                    Present(row) /\ row.status = "Active" /\ row.attr = c.arg
              /\ c.use = "SetAisleGeometry" => row.status = old.status
              /\ c.use \in Updates => row.attr = old.attr /\ (Present(old) => Present(row))
<1> DEFINE row == RowWritten(c, old, w)
<1>1. /\ c.use \in UseCases /\ c.target \in Aggregates
      /\ c.use \in Registrations => c.arg \in Attributes
      /\ c.use \in {"SetLocationGeometry", "SetAisleGeometry"} => c.arg \in Geometries
  BY CommandFacts
<1>3. CASE c.use \in Registrations
  <2>1. row = RegisteredRow(c.arg, w)
    BY <1>3 DEF RowWritten, Registrations, Updates
  <2>2. c.use \notin Updates
    BY <1>3 DEF Registrations
  <2>3. /\ RegisteredRow(c.arg, w) \in Row
        /\ RegisteredRow(c.arg, w).status = "Active"
        /\ RegisteredRow(c.arg, w).attr = c.arg
        /\ RegisteredRow(c.arg, w).by = w
    BY <1>1, <1>3 DEF RegisteredRow, Row, Status
  <2>4. c.use # "SetAisleGeometry"
    BY <1>3 DEF Registrations, Updates
  <2> QED BY <1>3, <2>1, <2>2, <2>3, <2>4 DEF Present, Absent
<1>4. CASE c.use = "DecommissionLocationSlot"
  <2>1. row = RetiredRow(old, w)
    BY <1>4 DEF RowWritten, Registrations, Updates
  <2>2. c.use \notin Registrations
    BY <1>4 DEF Registrations, Updates
  <2>3. /\ RetiredRow(old, w) \in Row
        /\ RetiredRow(old, w).status = "Decommissioned"
        /\ RetiredRow(old, w).attr = old.attr
        /\ RetiredRow(old, w).by = w
    BY DEF RetiredRow, Row, Status
  <2> QED BY <1>4, <2>1, <2>2, <2>3 DEF Present, Absent
<1>5. CASE c.use \in {"SetLocationGeometry", "SetAisleGeometry"}
  <2>1. row = PositionedRow(old, c.arg, w)
    BY <1>5 DEF RowWritten, Registrations, Updates
  <2>2. c.use \notin Registrations
    BY <1>5 DEF Registrations, Updates
  <2>3. /\ PositionedRow(old, c.arg, w) \in Row
        /\ PositionedRow(old, c.arg, w).status = old.status
        /\ PositionedRow(old, c.arg, w).attr = old.attr
        /\ PositionedRow(old, c.arg, w).by = w
    BY <1>1, <1>5 DEF PositionedRow, Row
  <2> QED BY <2>1, <2>2, <2>3 DEF Present
<1> QED BY <1>1, <1>3, <1>4, <1>5 DEF UseCases, Registrations, Updates

(* An upsert writes the row it is given, but for the column it keeps.         *)
LEMMA UpsertFacts ==
    ASSUME NEW a \in Aggregates, NEW before \in Row, NEW row \in Row
    PROVE  LET after == Upsert(a, before, row)
           IN /\ after \in Row
              /\ after.status = row.status /\ after.by = row.by
              /\ Present(after) <=> Present(row)
              /\ Keeps(a, before, after)
              /\ \/ after.attr = row.attr
                 \/ KindOf[a] = "structure" /\ Present(before) /\ after.attr = before.attr
              /\ KindOf[a] # "structure" => after = row
<1>1. CASE KindOf[a] = "structure" /\ Present(before)
  <2>1. Upsert(a, before, row) = [row EXCEPT !.attr = before.attr]
    BY <1>1 DEF Upsert
  <2>2. /\ [row EXCEPT !.attr = before.attr] \in Row
        /\ [row EXCEPT !.attr = before.attr].status = row.status
        /\ [row EXCEPT !.attr = before.attr].by = row.by
        /\ [row EXCEPT !.attr = before.attr].attr = before.attr
    BY DEF Row
  <2> QED BY <1>1, <2>1, <2>2 DEF Keeps, Present
<1>2. CASE ~(KindOf[a] = "structure" /\ Present(before))
  <2>1. Upsert(a, before, row) = row
    BY <1>2 DEF Upsert
  <2> QED BY <1>2, <2>1 DEF Keeps
<1> QED BY <1>1, <1>2

(* A row that is written where it may be keeps the chain of custody: what it  *)
(* hangs from is there, and no row that was there is gone.                    *)
LEMMA LegalKeepsCustody ==
    ASSUME NEW rows \in [Aggregates -> Row], Custodial(rows), NEW a \in Aggregates,
           NEW row \in Row, Present(row),
           \A b \in Parents(a, row) : b \in Aggregates /\ Present(rows[b])
    PROVE  /\ [rows EXCEPT ![a] = row] \in [Aggregates -> Row]
           /\ \A b \in Aggregates : Present(rows[b]) => Present([rows EXCEPT ![a] = row][b])
           /\ Custodial([rows EXCEPT ![a] = row])
<1> DEFINE after == [rows EXCEPT ![a] = row]
<1>1. after \in [Aggregates -> Row] /\ after[a] = row /\ \A b \in Aggregates : b # a => after[b] = rows[b]
  OBVIOUS
<1>2. \A b \in Aggregates : Present(rows[b]) => Present(after[b])
  BY <1>1
<1> HIDE DEF after
<1>3. ASSUME NEW x \in Aggregates, Present(after[x]), NEW b \in Parents(x, after[x])
      PROVE  b \in Aggregates /\ Present(after[b])
  <2>1. CASE x = a
    BY <1>1, <1>2, <1>3, <2>1, Zenon
  <2>2. CASE x # a
    <3>1. after[x] = rows[x]
      BY <1>1, <2>2
    <3>2. b \in Parents(x, rows[x]) /\ Present(rows[x])
      BY <1>3, <3>1, Zenon
    <3>3. b \in Aggregates /\ Present(rows[b])
      BY <3>2 DEF Custodial
    <3> QED BY <1>2, <3>3
  <2> QED BY <2>1, <2>2
<1>4. Custodial(after)
  BY <1>3 DEF Custodial
<1> QED BY <1>1, <1>2, <1>4 DEF after
-----------------------------------------------------------------------------
(* Facts about what commands look up.                                         *)

(* A lookup of one identity is a lookup.                                      *)
LEMMA FindFacts ==
    ASSUME NEW a \in Aggregates, NEW must \in Demands
    PROVE  /\ Find(a, must) \in Lookup
           /\ a \in Find(a, must).rows
           /\ Find(a, must).must = must
BY DEF Find, Lookup

(* Each use case is looked up by its own list of statements.                  *)
LEMMA LookupsOf ==
    ASSUME NEW c
    PROVE  /\ c.use = "RegisterSite"             => Lookups(c) = RegisterSiteLookups(c)
           /\ c.use = "RegisterZone"             => Lookups(c) = RegisterZoneLookups(c)
           /\ c.use = "RegisterAisle"            => Lookups(c) = RegisterAisleLookups(c)
           /\ c.use = "RegisterLocationType"     => Lookups(c) = RegisterLocationTypeLookups(c)
           /\ c.use = "DefinePlacementRule"      => Lookups(c) = DefinePlacementRuleLookups(c)
           /\ c.use = "RegisterFixedStructure"   => Lookups(c) = RegisterFixedStructureLookups(c)
           /\ c.use = "RegisterCrossAisle"       => Lookups(c) = RegisterCrossAisleLookups(c)
           /\ c.use = "RegisterLocationSlot"     => Lookups(c) = RegisterLocationSlotLookups(c)
           /\ c.use = "DecommissionLocationSlot" => Lookups(c) = DecommissionLocationSlotLookups(c)
           /\ c.use = "SetLocationGeometry"      => Lookups(c) = SetLocationGeometryLookups(c)
           /\ c.use = "SetAisleGeometry"         => Lookups(c) = SetAisleGeometryLookups(c)
BY DEF Lookups

(* What a lookup may demand that only a row that is there meets.              *)
Presence == {"present", "active", "not decommissioned"}

(* They are demands, and so are the other two.                                *)
LEMMA PresenceFacts ==
    /\ Presence \subseteq Demands
    /\ "present" \in Presence
    /\ "active" \in Presence
    /\ "not decommissioned" \in Presence
    /\ "absent" \in Demands
    /\ "permits" \in Demands
BY DEF Presence, Demands

(* Some lookup of the command demands this of the aggregate ...               *)
DemandedAs(c, b, must) ==
    \E k \in 1..Len(Lookups(c)) : b \in Lookups(c)[k].rows /\ Lookups(c)[k].must = must

(* ... or that it be there.                                                   *)
Demanded(c, b) ==
    \E k \in 1..Len(Lookups(c)) : b \in Lookups(c)[k].rows /\ Lookups(c)[k].must \in Presence

LEMMA DemandedToBeThere ==
    ASSUME NEW c, NEW b, NEW must \in Presence, DemandedAs(c, b, must)
    PROVE  Demanded(c, b)
BY DEF DemandedAs, Demanded

(* What a registration hangs from when it is announced.                       *)
NeededBy(c) == Custody(c.target) \cup Named(c.target, c.arg)

(* Lists of one, two, three and six lookups, and what those demand.           *)
LEMMA OneLookup ==
    ASSUME NEW c, NEW A \in Lookup, Lookups(c) = <<A>>
    PROVE  /\ Lookups(c) \in Seq(Lookup) /\ Len(Lookups(c)) >= 1
           /\ \A b \in A.rows : DemandedAs(c, b, A.must)
<1>1. Lookups(c) \in Seq(Lookup) /\ Len(Lookups(c)) = 1 /\ Lookups(c)[1] = A
  OBVIOUS
<1>2. 1 \in 1..Len(Lookups(c))
  BY <1>1
<1> QED BY <1>1, <1>2 DEF DemandedAs

(* ... of two statements ...                                                  *)
LEMMA TwoLookups ==
    ASSUME NEW c, NEW A \in Lookup, NEW B \in Lookup, Lookups(c) = <<A, B>>
    PROVE  /\ Lookups(c) \in Seq(Lookup) /\ Len(Lookups(c)) >= 1
           /\ \A b \in A.rows : DemandedAs(c, b, A.must)
           /\ \A b \in B.rows : DemandedAs(c, b, B.must)
<1>1. /\ Lookups(c) \in Seq(Lookup) /\ Len(Lookups(c)) = 2
      /\ Lookups(c)[1] = A /\ Lookups(c)[2] = B
  OBVIOUS
<1>2. 1 \in 1..Len(Lookups(c)) /\ 2 \in 1..Len(Lookups(c))
  BY <1>1
<1> QED BY <1>1, <1>2 DEF DemandedAs

(* ... of three ...                                                           *)
LEMMA ThreeLookups ==
    ASSUME NEW c, NEW A \in Lookup, NEW B \in Lookup, NEW C \in Lookup,
           Lookups(c) = <<A, B, C>>
    PROVE  /\ Lookups(c) \in Seq(Lookup) /\ Len(Lookups(c)) >= 1
           /\ \A b \in A.rows : DemandedAs(c, b, A.must)
           /\ \A b \in B.rows : DemandedAs(c, b, B.must)
           /\ \A b \in C.rows : DemandedAs(c, b, C.must)
<1>1. /\ Lookups(c) \in Seq(Lookup) /\ Len(Lookups(c)) = 3
      /\ Lookups(c)[1] = A /\ Lookups(c)[2] = B /\ Lookups(c)[3] = C
  OBVIOUS
<1>2. /\ 1 \in 1..Len(Lookups(c)) /\ 2 \in 1..Len(Lookups(c))
      /\ 3 \in 1..Len(Lookups(c))
  BY <1>1
<1> QED BY <1>1, <1>2 DEF DemandedAs

(* ... of six.                                                                *)
LEMMA SixLookups ==
    ASSUME NEW c, NEW A \in Lookup, NEW B \in Lookup, NEW C \in Lookup,
           NEW D \in Lookup, NEW E \in Lookup, NEW F \in Lookup,
           Lookups(c) = <<A, B, C, D, E, F>>
    PROVE  /\ Lookups(c) \in Seq(Lookup) /\ Len(Lookups(c)) >= 1
           /\ \A b \in A.rows : DemandedAs(c, b, A.must)
           /\ \A b \in B.rows : DemandedAs(c, b, B.must)
           /\ \A b \in C.rows : DemandedAs(c, b, C.must)
           /\ \A b \in D.rows : DemandedAs(c, b, D.must)
           /\ \A b \in E.rows : DemandedAs(c, b, E.must)
<1>1. /\ Lookups(c) \in Seq(Lookup) /\ Len(Lookups(c)) = 6
      /\ Lookups(c)[1] = A /\ Lookups(c)[2] = B /\ Lookups(c)[3] = C
      /\ Lookups(c)[4] = D /\ Lookups(c)[5] = E
  OBVIOUS
<1>2. /\ 1 \in 1..Len(Lookups(c)) /\ 2 \in 1..Len(Lookups(c))
      /\ 3 \in 1..Len(Lookups(c)) /\ 4 \in 1..Len(Lookups(c))
      /\ 5 \in 1..Len(Lookups(c))
  BY <1>1
<1> QED BY <1>1, <1>2 DEF DemandedAs

(* The same lists, made of Finds.                                             *)
LEMMA OnlyFind ==
    ASSUME NEW c, NEW a \in Aggregates, NEW must \in Demands,
           Lookups(c) = << Find(a, must) >>
    PROVE  /\ Lookups(c) \in Seq(Lookup) /\ Len(Lookups(c)) >= 1
           /\ DemandedAs(c, a, must)
<1>1. Find(a, must) \in Lookup /\ a \in Find(a, must).rows /\ Find(a, must).must = must
  BY FindFacts
<1> QED BY <1>1, OneLookup, Zenon

(* ... of two Finds.                                                          *)
LEMMA FindTwice ==
    ASSUME NEW c, NEW a \in Aggregates, NEW b \in Aggregates, NEW must \in Presence,
           Lookups(c) = << Find(a, must), Find(b, "absent") >>
    PROVE  /\ Lookups(c) \in Seq(Lookup) /\ Len(Lookups(c)) >= 1
           /\ DemandedAs(c, a, must) /\ DemandedAs(c, b, "absent") /\ Demanded(c, a)
<1>1. Find(a, must) \in Lookup /\ a \in Find(a, must).rows /\ Find(a, must).must = must
  BY FindFacts, PresenceFacts
<1>2. /\ Find(b, "absent") \in Lookup /\ b \in Find(b, "absent").rows
      /\ Find(b, "absent").must = "absent"
  BY FindFacts, PresenceFacts
<1>3. /\ Lookups(c) \in Seq(Lookup) /\ Len(Lookups(c)) >= 1
      /\ DemandedAs(c, a, must) /\ DemandedAs(c, b, "absent")
  BY <1>1, <1>2, TwoLookups, Zenon
<1> QED BY <1>3, DemandedToBeThere

(* Every use case makes at least one lookup and each reads rows of the map; a *)
(* registration demands that its identity be free, that all it hangs from be  *)
(* there and the links that must be Active be so; an update that its target   *)
(* be there.                                                                  *)
LookedUp(c) ==
    /\ Lookups(c) \in Seq(Lookup)
    /\ Len(Lookups(c)) >= 1
    /\ c.use \in Registrations =>
          /\ \A b \in NeededBy(c) : Demanded(c, b)
          /\ \A b \in ActiveCustody(c.target) : DemandedAs(c, b, "active")
          /\ DemandedAs(c, c.target, "absent")
    /\ c.use \in Updates => Demanded(c, c.target)

(* The lookups of every command are so.                                       *)
LEMMA LookupFacts ==
    ASSUME NEW c \in Commands
    PROVE  LookedUp(c)
<1>t. c.target \in Aggregates
  BY CommandFacts
<1>1. CASE c.use = "RegisterSite"
  <2>1. Lookups(c) = << Find(c.target, "absent") >>
    BY <1>1, LookupsOf DEF RegisterSiteLookups
  <2>2. NeededBy(c) = {} /\ ActiveCustody(c.target) = {} /\ c.use \notin Updates
    BY <1>1, KindFacts, CommandFacts DEF NeededBy, Custody, Named, ActiveCustody, Updates
  <2>3. /\ Lookups(c) \in Seq(Lookup) /\ Len(Lookups(c)) >= 1
        /\ DemandedAs(c, c.target, "absent")
    BY <1>t, <2>1, OnlyFind, PresenceFacts, Zenon
  <2> QED BY <2>2, <2>3 DEF LookedUp
<1>2. CASE c.use = "RegisterZone"
  <2>1. Lookups(c) = << Find(SiteOf[c.target], "active"), Find(c.target, "absent") >>
    BY <1>2, LookupsOf DEF RegisterZoneLookups
  <2>2. /\ \A b \in NeededBy(c) : b = SiteOf[c.target]
        /\ \A b \in ActiveCustody(c.target) : b = SiteOf[c.target]
        /\ c.use \notin Updates
    BY <1>2, KindFacts, CommandFacts DEF NeededBy, Custody, Named, ActiveCustody, Updates
  <2>3. SiteOf[c.target] \in Aggregates
    BY <1>2, KindFacts, CodeAssumption, CommandFacts
  <2>4. /\ Lookups(c) \in Seq(Lookup) /\ Len(Lookups(c)) >= 1
        /\ Demanded(c, SiteOf[c.target]) /\ DemandedAs(c, SiteOf[c.target], "active")
        /\ DemandedAs(c, c.target, "absent")
    BY <1>t, <2>1, <2>3, FindTwice, PresenceFacts, Zenon
  <2> QED BY <2>2, <2>4 DEF LookedUp
<1>3. CASE c.use = "RegisterAisle"
  <2>1. Lookups(c) = << Find(ZoneOf[c.target], "active"), Find(c.target, "absent") >>
    BY <1>3, LookupsOf DEF RegisterAisleLookups
  <2>2. /\ \A b \in NeededBy(c) : b = ZoneOf[c.target]
        /\ \A b \in ActiveCustody(c.target) : b = ZoneOf[c.target]
        /\ c.use \notin Updates
    BY <1>3, KindFacts, CommandFacts DEF NeededBy, Custody, Named, ActiveCustody, Updates
  <2>3. ZoneOf[c.target] \in Aggregates
    BY <1>3, KindFacts, CodeAssumption, CommandFacts
  <2>4. /\ Lookups(c) \in Seq(Lookup) /\ Len(Lookups(c)) >= 1
        /\ Demanded(c, ZoneOf[c.target]) /\ DemandedAs(c, ZoneOf[c.target], "active")
        /\ DemandedAs(c, c.target, "absent")
    BY <1>t, <2>1, <2>3, FindTwice, PresenceFacts, Zenon
  <2> QED BY <2>2, <2>4 DEF LookedUp
<1>4. CASE c.use = "RegisterLocationType"
  <2>1. Lookups(c) = << Find(c.target, "absent") >>
    BY <1>4, LookupsOf DEF RegisterLocationTypeLookups
  <2>2. NeededBy(c) = {} /\ ActiveCustody(c.target) = {} /\ c.use \notin Updates
    BY <1>4, KindFacts, CommandFacts DEF NeededBy, Custody, Named, ActiveCustody, Updates
  <2>3. /\ Lookups(c) \in Seq(Lookup) /\ Len(Lookups(c)) >= 1
        /\ DemandedAs(c, c.target, "absent")
    BY <1>t, <2>1, OnlyFind, PresenceFacts, Zenon
  <2> QED BY <2>2, <2>3 DEF LookedUp
<1>5. CASE c.use = "DefinePlacementRule"
  <2>1. Lookups(c) = << Find(c.arg.locationType, "present"), Find(c.target, "absent") >>
    BY <1>5, LookupsOf DEF DefinePlacementRuleLookups
  <2>2. /\ \A b \in NeededBy(c) : b = c.arg.locationType
        /\ ActiveCustody(c.target) = {}
        /\ c.use \notin Updates
    BY <1>5, KindFacts, CommandFacts DEF NeededBy, Custody, Named, ActiveCustody, Updates
  <2>3. c.arg.locationType \in Aggregates
    BY <1>5, KindFacts, CommandFacts DEF PlacementRule
  <2>4. /\ Lookups(c) \in Seq(Lookup) /\ Len(Lookups(c)) >= 1
        /\ Demanded(c, c.arg.locationType) /\ DemandedAs(c, c.arg.locationType, "present")
        /\ DemandedAs(c, c.target, "absent")
    BY <1>t, <2>1, <2>3, FindTwice, PresenceFacts, Zenon
  <2> QED BY <2>2, <2>4 DEF LookedUp
<1>6. CASE c.use = "RegisterFixedStructure"
  <2>1. Lookups(c) = << Find(c.arg, "present"), Find(c.target, "absent") >>
    BY <1>6, LookupsOf DEF RegisterFixedStructureLookups
  <2>2. /\ \A b \in NeededBy(c) : b = c.arg
        /\ ActiveCustody(c.target) = {}
        /\ c.use \notin Updates
    BY <1>6, KindFacts, CommandFacts DEF NeededBy, Custody, Named, ActiveCustody, Updates
  <2>3. c.arg \in Aggregates
    BY <1>6, KindFacts, CommandFacts
  <2>4. /\ Lookups(c) \in Seq(Lookup) /\ Len(Lookups(c)) >= 1
        /\ Demanded(c, c.arg) /\ DemandedAs(c, c.arg, "present")
        /\ DemandedAs(c, c.target, "absent")
    BY <1>t, <2>1, <2>3, FindTwice, PresenceFacts, Zenon
  <2> QED BY <2>2, <2>4 DEF LookedUp
<1>7. CASE c.use = "RegisterCrossAisle"
  <2> DEFINE zone == Find(ZoneOf[c.target], "present")
             ends == [rows |-> EndsOf[c.target], must |-> "present"]
             same == [rows |-> {c.target, ReverseOf[c.target]}, must |-> "absent"]
  <2>1. Lookups(c) = <<zone, ends, same>>
    BY <1>7, LookupsOf DEF RegisterCrossAisleLookups
  <2>2. /\ \A b \in NeededBy(c) : b = ZoneOf[c.target] \/ b \in EndsOf[c.target]
        /\ ActiveCustody(c.target) = {}
        /\ c.use \notin Updates
    BY <1>7, KindFacts, CommandFacts DEF NeededBy, Custody, Named, ActiveCustody, Updates
  <2>3. /\ ZoneOf[c.target] \in Aggregates
        /\ EndsOf[c.target] \in SUBSET Aggregates
        /\ ReverseOf[c.target] \in Aggregates
    BY <1>7, KindFacts, CodeAssumption, CommandFacts
  <2>4. zone \in Lookup /\ ZoneOf[c.target] \in zone.rows /\ zone.must = "present"
    BY <2>3, FindFacts, PresenceFacts
  <2>5. ends \in Lookup /\ same \in Lookup
    BY <1>t, <2>3, PresenceFacts DEF Lookup
  <2>6. /\ ends.rows = EndsOf[c.target] /\ ends.must = "present"
        /\ c.target \in same.rows /\ same.must = "absent"
    OBVIOUS
  <2>7. /\ Lookups(c) \in Seq(Lookup) /\ Len(Lookups(c)) >= 1
        /\ DemandedAs(c, ZoneOf[c.target], "present")
        /\ \A b \in EndsOf[c.target] : DemandedAs(c, b, "present")
        /\ DemandedAs(c, c.target, "absent")
    <3> HIDE DEF zone, ends, same
    <3>1. /\ Lookups(c) \in Seq(Lookup) /\ Len(Lookups(c)) >= 1
          /\ \A b \in zone.rows : DemandedAs(c, b, zone.must)
          /\ \A b \in ends.rows : DemandedAs(c, b, ends.must)
          /\ \A b \in same.rows : DemandedAs(c, b, same.must)
      BY <2>1, <2>4, <2>5, ThreeLookups, Zenon
    <3> QED BY <2>4, <2>6, <3>1, Zenon
  <2>8. \A b \in NeededBy(c) : Demanded(c, b)
    BY <2>2, <2>7, DemandedToBeThere, PresenceFacts
  <2> QED BY <2>2, <2>7, <2>8 DEF LookedUp
<1>8. CASE c.use = "RegisterLocationSlot"
  <2> DEFINE S == c.target
             free == Find(S, "absent")
             site == Find(SiteOfSlot(S), "active")
             zone == Find(ZoneOfSlot(S), "active")
             aisle == Find(AisleOf[S], "active")
             type == Find(c.arg, "present")
             rules == [rows |-> RuleIds, must |-> "permits"]
  <2>1. Lookups(c) = << free, site, zone, aisle, type, rules >>
    BY <1>8, LookupsOf DEF RegisterLocationSlotLookups
  <2>2. /\ \A b \in NeededBy(c) : b \in {AisleOf[S], ZoneOfSlot(S), SiteOfSlot(S), c.arg}
        /\ \A b \in ActiveCustody(S) : b \in {AisleOf[S], ZoneOfSlot(S), SiteOfSlot(S)}
        /\ c.use \notin Updates
    BY <1>8, KindFacts, CommandFacts DEF NeededBy, Custody, Named, ActiveCustody, Updates
  <2>3. /\ AisleOf[S] \in Aggregates /\ ZoneOfSlot(S) \in Aggregates
        /\ SiteOfSlot(S) \in Aggregates /\ c.arg \in Aggregates
    BY <1>8, KindFacts, ChainFacts, CommandFacts
  <2>4. /\ site \in Lookup /\ SiteOfSlot(S) \in site.rows /\ site.must = "active"
        /\ zone \in Lookup /\ ZoneOfSlot(S) \in zone.rows /\ zone.must = "active"
        /\ aisle \in Lookup /\ AisleOf[S] \in aisle.rows /\ aisle.must = "active"
        /\ type \in Lookup /\ c.arg \in type.rows /\ type.must = "present"
    BY <2>3, FindFacts, PresenceFacts
  <2>5. free \in Lookup /\ S \in free.rows /\ free.must = "absent"
    BY <1>t, FindFacts, PresenceFacts
  <2>6. rules \in Lookup
    BY KindFacts, PresenceFacts DEF Lookup
  <2>7. /\ Lookups(c) \in Seq(Lookup) /\ Len(Lookups(c)) >= 1
        /\ DemandedAs(c, S, "absent")
        /\ DemandedAs(c, SiteOfSlot(S), "active") /\ DemandedAs(c, ZoneOfSlot(S), "active")
        /\ DemandedAs(c, AisleOf[S], "active") /\ DemandedAs(c, c.arg, "present")
    <3> HIDE DEF free, site, zone, aisle, type, rules
    <3>1. /\ Lookups(c) \in Seq(Lookup) /\ Len(Lookups(c)) >= 1
          /\ \A b \in free.rows : DemandedAs(c, b, free.must)
          /\ \A b \in site.rows : DemandedAs(c, b, site.must)
          /\ \A b \in zone.rows : DemandedAs(c, b, zone.must)
          /\ \A b \in aisle.rows : DemandedAs(c, b, aisle.must)
          /\ \A b \in type.rows : DemandedAs(c, b, type.must)
      BY <2>1, <2>4, <2>5, <2>6, SixLookups, Zenon
    <3> QED BY <2>4, <2>5, <3>1, Zenon
  <2>8. \A b \in NeededBy(c) : Demanded(c, b)
    BY <2>2, <2>7, DemandedToBeThere, PresenceFacts
  <2> QED BY <2>2, <2>7, <2>8 DEF LookedUp
<1>9. CASE c.use = "DecommissionLocationSlot"
  <2>1. Lookups(c) = << Find(c.target, "not decommissioned") >>
    BY <1>9, LookupsOf DEF DecommissionLocationSlotLookups
  <2>2. c.use \notin Registrations
    BY <1>9 DEF Registrations, Updates
  <2>3. /\ Lookups(c) \in Seq(Lookup) /\ Len(Lookups(c)) >= 1
        /\ DemandedAs(c, c.target, "not decommissioned")
    BY <1>t, <2>1, OnlyFind, PresenceFacts, Zenon
  <2> QED BY <2>2, <2>3, DemandedToBeThere, PresenceFacts DEF LookedUp
<1>10. CASE c.use = "SetLocationGeometry"
  <2>1. Lookups(c) = << Find(c.target, "not decommissioned") >>
    BY <1>10, LookupsOf DEF SetLocationGeometryLookups
  <2>2. c.use \notin Registrations
    BY <1>10 DEF Registrations, Updates
  <2>3. /\ Lookups(c) \in Seq(Lookup) /\ Len(Lookups(c)) >= 1
        /\ DemandedAs(c, c.target, "not decommissioned")
    BY <1>t, <2>1, OnlyFind, PresenceFacts, Zenon
  <2> QED BY <2>2, <2>3, DemandedToBeThere, PresenceFacts DEF LookedUp
<1>11. CASE c.use = "SetAisleGeometry"
  <2>1. Lookups(c) = << Find(c.target, "not decommissioned") >>
    BY <1>11, LookupsOf DEF SetAisleGeometryLookups
  <2>2. c.use \notin Registrations
    BY <1>11 DEF Registrations, Updates
  <2>3. /\ Lookups(c) \in Seq(Lookup) /\ Len(Lookups(c)) >= 1
        /\ DemandedAs(c, c.target, "not decommissioned")
    BY <1>t, <2>1, OnlyFind, PresenceFacts, Zenon
  <2> QED BY <2>2, <2>3, DemandedToBeThere, PresenceFacts DEF LookedUp
<1> QED
  BY <1>1, <1>2, <1>3, <1>4, <1>5, <1>6, <1>7, <1>8, <1>9, <1>10, <1>11, CommandFacts
     DEF UseCases, EventOf

(* The rows a lookup names are aggregates.                                    *)
LEMMA LookupRows ==
    ASSUME NEW c \in Commands, NEW k \in 1..Len(Lookups(c))
    PROVE  Lookups(c)[k] \in Lookup /\ Lookups(c)[k].rows \subseteq Aggregates
<1>1. Lookups(c) \in Seq(Lookup)
  BY LookupFacts DEF LookedUp
<1>2. Lookups(c)[k] \in Lookup
  BY <1>1
<1> QED BY <1>2 DEF Lookup

(* A lookup that demands presence and is met has found all its rows.          *)
LEMMA MetIsPresent ==
    ASSUME NEW c, NEW lookup, NEW seen, lookup.must \in Presence, Meets(c, lookup, seen)
    PROVE  \A a \in lookup.rows : Present(seen[a])
<1>1. CASE lookup.must = "present"
  BY <1>1 DEF Meets
<1>2. CASE lookup.must = "active"
  BY <1>2 DEF Meets, Present, Absent
<1>3. CASE lookup.must = "not decommissioned"
  BY <1>3 DEF Meets
<1> QED BY <1>1, <1>2, <1>3 DEF Presence
=============================================================================
