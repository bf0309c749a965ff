-------------------------- MODULE FacilityUseCases --------------------------
(* The use cases that write the catalogue: the commands they take, what each  *)
(* of them looks up first, statement by statement, and the row it saves.      *)
EXTENDS FacilityMap, Sequences

(* Mutants: definitions whose names end in "Slip" are plausible mistakes in    *)
(* the code the definition after them models.  No specification uses them.    *)

(* A command as the handler hands it to its use case, the arguments parsed:   *)
(* what it writes, and the one argument the properties tell apart.            *)
RegisterSiteCommands ==
    [use : {"RegisterSite"}, target : Sites, arg : {None}]
RegisterZoneCommands ==
    [use : {"RegisterZone"}, target : Zones, arg : ZoneAttributes]
RegisterAisleCommands ==
    [use : {"RegisterAisle"}, target : Aisles, arg : Directions]
RegisterLocationTypeCommands ==
    [use : {"RegisterLocationType"}, target : LocationTypes, arg : {None}]
DefinePlacementRuleCommands ==
    [use : {"DefinePlacementRule"}, target : RuleIds, arg : PlacementRule]
RegisterFixedStructureCommands ==
    [use : {"RegisterFixedStructure"}, target : FixedStructures, arg : Sites]
RegisterCrossAisleCommands ==
    [use : {"RegisterCrossAisle"}, target : CrossAisles, arg : {None}]
RegisterLocationSlotCommands ==
    [use : {"RegisterLocationSlot"}, target : LocationSlots, arg : LocationTypes]
DecommissionLocationSlotCommands ==
    [use : {"DecommissionLocationSlot"}, target : LocationSlots, arg : {None}]
SetLocationGeometryCommands ==
    [use : {"SetLocationGeometry"}, target : LocationSlots, arg : Geometries]
SetAisleGeometryCommands ==
    [use : {"SetAisleGeometry"}, target : Aisles, arg : Geometries]

Commands ==
    RegisterSiteCommands \cup RegisterZoneCommands \cup RegisterAisleCommands
    \cup RegisterLocationTypeCommands \cup DefinePlacementRuleCommands
    \cup RegisterFixedStructureCommands \cup RegisterCrossAisleCommands
    \cup RegisterLocationSlotCommands \cup DecommissionLocationSlotCommands
    \cup SetLocationGeometryCommands \cup SetAisleGeometryCommands

-----------------------------------------------------------------------------
(* What each use case looks up, statement by statement, and what it demands   *)
(* of the rows it finds.                                                      *)
Demands == {"absent", "present", "active", "not decommissioned", "permits"}

Lookup == [rows : SUBSET Aggregates, must : Demands]

Find(a, must) == [rows |-> {a}, must |-> must]

RegisterSiteLookups(c) == << Find(c.target, "absent") >>

RegisterZoneLookups(c) == << Find(SiteOf[c.target], "active"),
                             Find(c.target, "absent") >>

(* Existence without IsActive.                                                *)
RegisterAisleLookupsSlip(c) == << Find(ZoneOf[c.target], "present"),
                                  Find(c.target, "absent") >>

RegisterAisleLookups(c) == << Find(ZoneOf[c.target], "active"),
                              Find(c.target, "absent") >>

RegisterLocationTypeLookups(c) == << Find(c.target, "absent") >>

DefinePlacementRuleLookups(c) == << Find(c.arg.locationType, "present"),
                                    Find(c.target, "absent") >>

RegisterFixedStructureLookups(c) == << Find(c.arg, "present"),
                                       Find(c.target, "absent") >>

(* The duplicate is looked for as the command writes it.                      *)
RegisterCrossAisleLookupsSlip(c) ==
    << Find(ZoneOf[c.target], "present"),
       [rows |-> EndsOf[c.target], must |-> "present"],
       Find(c.target, "absent") >>

(* The zone's aisles are listed by one statement, and the duplicate is looked *)
(* for in both orientations by one.                                           *)
RegisterCrossAisleLookups(c) ==
    << Find(ZoneOf[c.target], "present"),
       [rows |-> EndsOf[c.target], must |-> "present"],
       [rows |-> {c.target, ReverseOf[c.target]}, must |-> "absent"] >>

(* The aisle of the chain is not resolved.                                    *)
AisleSlip(c) ==
    << Find(c.target, "absent"),
       Find(SiteOfSlot(c.target), "active"),
       Find(ZoneOfSlot(c.target), "active"),
       Find(c.arg, "present"),
       [rows |-> RuleIds, must |-> "permits"] >>

(* The placement rules are not loaded.                                        *)
RulesSlip(c) ==
    << Find(c.target, "absent"),
       Find(SiteOfSlot(c.target), "active"),
       Find(ZoneOfSlot(c.target), "active"),
       Find(AisleOf[c.target], "active"),
       Find(c.arg, "present") >>

(* The chain of custody, then the type, then the placement rules, all listed  *)
(* by one statement and checked by the slot's constructor.                    *)
RegisterLocationSlotLookups(c) ==
    << Find(c.target, "absent"),
       Find(SiteOfSlot(c.target), "active"),
       Find(ZoneOfSlot(c.target), "active"),
       Find(AisleOf[c.target], "active"),
       Find(c.arg, "present"),
       [rows |-> RuleIds, must |-> "permits"] >>

DecommissionLocationSlotLookups(c) == << Find(c.target, "not decommissioned") >>

SetLocationGeometryLookups(c) == << Find(c.target, "not decommissioned") >>

SetAisleGeometryLookups(c) == << Find(c.target, "not decommissioned") >>

Lookups(c) ==
    CASE c.use = "RegisterSite"             -> RegisterSiteLookups(c)
      [] c.use = "RegisterZone"             -> RegisterZoneLookups(c)
      [] c.use = "RegisterAisle"            -> RegisterAisleLookups(c)
      [] c.use = "RegisterLocationType"     -> RegisterLocationTypeLookups(c)
      [] c.use = "DefinePlacementRule"      -> DefinePlacementRuleLookups(c)
      [] c.use = "RegisterFixedStructure"   -> RegisterFixedStructureLookups(c)
      [] c.use = "RegisterCrossAisle"       -> RegisterCrossAisleLookups(c)
      [] c.use = "RegisterLocationSlot"     -> RegisterLocationSlotLookups(c)
      [] c.use = "DecommissionLocationSlot" -> DecommissionLocationSlotLookups(c)
      [] c.use = "SetLocationGeometry"      -> SetLocationGeometryLookups(c)
      [] c.use = "SetAisleGeometry"         -> SetAisleGeometryLookups(c)

(* Whether the rows read are what the use case demands of them.               *)
Meets(c, lookup, seen) ==
    CASE lookup.must = "absent"  -> \A a \in lookup.rows : ~Present(seen[a])
      [] lookup.must = "present" -> \A a \in lookup.rows : Present(seen[a])
      [] lookup.must = "active"  -> \A a \in lookup.rows : seen[a].status = "Active"
      [] lookup.must = "not decommissioned" ->
             \A a \in lookup.rows : Present(seen[a]) /\ seen[a].status # "Decommissioned"
      [] lookup.must = "permits" ->
             Permits({seen[r].attr : r \in {x \in lookup.rows : Present(seen[x])}},
                     c.arg, seen[ZoneOfSlot(c.target)].attr)

-----------------------------------------------------------------------------
(* A status the schema and ParseStatus do not know.                           *)
RegisteredRowSlip(arg, w) ==
    [status |-> "active", attr |-> arg, geometry |-> None, by |-> w]

(* What a use case saves: always the WHOLE row, built from what it read.      *)
RegisteredRow(arg, w) ==
    [status |-> "Active", attr |-> arg, geometry |-> None, by |-> w]

RetiredRow(old, w) ==
    [status |-> "Decommissioned", attr |-> old.attr, geometry |-> old.geometry, by |-> w]

PositionedRow(old, geometry, w) ==
    [status |-> old.status, attr |-> old.attr, geometry |-> geometry, by |-> w]

RowWritten(c, old, w) ==
    CASE c.use \in Registrations            -> RegisteredRow(c.arg, w)
      [] c.use = "DecommissionLocationSlot" -> RetiredRow(old, w)
      [] c.use \in {"SetLocationGeometry", "SetAisleGeometry"} ->
             PositionedRow(old, c.arg, w)

(* INSERT ... ON CONFLICT DO UPDATE, where the table has the row before.      *)
Upsert(a, before, row) ==
    IF KindOf[a] = "structure" /\ Present(before)
    THEN [row EXCEPT !.attr = before.attr]
    ELSE row
=============================================================================
