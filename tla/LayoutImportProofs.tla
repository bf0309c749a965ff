-------------------------- MODULE LayoutImportProofs --------------------------
(* Proofs about LayoutImport, for every map, every set of imports that run at *)
(* the same time, every batch and every workload of the other callers, and    *)
(* however often statements fail, answers get lost and imports die.           *)
EXTENDS LayoutImport, FacilityUseCasesProofs, SequenceTheorems, FiniteSetTheorems, TLAPS

-----------------------------------------------------------------------------
(* The inductive invariant.                                                   *)

(* What is committed: rows that were there stay, those that are not slots     *)
(* keep their status, and what was not there before has been announced.       *)
Grown == \A a \in Aggregates : Present(Loaded[a]) => Present(store[a])

StatusFor(a) == IF Present(Loaded[a]) THEN Loaded[a].status ELSE "Active"

StatusesLast ==
    \A a \in Aggregates :
        Present(store[a]) /\ KindOf[a] # "slot" => store[a].status = StatusFor(a)

Accounted ==
    \A a \in Aggregates :
        Present(store[a]) => Present(Loaded[a]) \/ \E e \in announced : e.about = a

RetiredByOthers ==
    \A a \in LocationSlots :
        store[a].status = "Decommissioned" =>
            Present(Loaded[a]) \/ \E e \in announced : e.about = a /\ e.by \notin Imports

StoreInv == ChainOfCustody /\ Grown /\ StatusesLast /\ Accounted /\ RetiredByOthers

(* Where an import is: nothing is behind it before it is called, a row of its *)
(* batch is at hand while it is in one ...                                    *)
AtARow(p) ==
    /\ pc[p] = "idle" => batch[p] = <<>> /\ results[p] = <<>>
    /\ pc[p] \in InRow => Len(results[p]) < Len(batch[p])
    /\ pc[p] \in {"find", "create"} => step[p] \in 1..3

(* ... what the row needs is there when it is its turn ...                    *)
Ensured(p) ==
    /\ pc[p] \in {"find", "create"} =>
          \A k \in 1..3 : k < step[p] => Present(store[Structure(CurrentRow(p))[k]])
    /\ pc[p] \in {"lookup", "register", "geometry", "position"} =>
          \A k \in 1..3 : Present(store[Structure(CurrentRow(p))[k]])
    /\ pc[p] = "register" \/ (pc[p] = "lookup" /\ step[p] > 5) =>
          Present(store[CurrentRow(p).type])

(* ... structure it creates was not there to begin with ...                   *)
SoughtIsNew(p) == pc[p] = "create" => ~Present(Loaded[Sought(p)])

(* ... a slot it goes on with is not one it has imported before ...           *)
SlotIsNew(p) ==
    pc[p] \in {"register", "geometry", "position"} \/ (pc[p] = "lookup" /\ step[p] > 1) =>
        \A i \in Rows(p, {"succeeded"}) : batch[p][i].slot # CurrentRow(p).slot

(* ... one it positions has been registered ...                               *)
SlotIsRegistered(p) ==
    pc[p] \in {"geometry", "position"} =>
        /\ Present(store[CurrentRow(p).slot])
        /\ AnnouncedBy(p, Index(p), "LocationSlotRegistered", CurrentRow(p).slot)

(* ... and the row it read of it may be saved again.                          *)
ViewIsGood(p) ==
    pc[p] = "position" =>
        LET seen == view[p][CurrentRow(p).slot]
        IN /\ Present(seen) /\ seen.status # "Decommissioned"
           /\ \A b \in Parents(CurrentRow(p).slot, seen) :
                 b \in Aggregates /\ Present(store[b])

ControlInv(p) ==
    /\ AtARow(p) /\ Ensured(p) /\ SoughtIsNew(p)
    /\ SlotIsNew(p) /\ SlotIsRegistered(p) /\ ViewIsGood(p)

(* What is behind it.                                                         *)
Imported(p, i) ==
    LET row == batch[p][i]
    IN /\ Present(store[row.slot])
       /\ AnnouncedBy(p, i, "LocationSlotRegistered", row.slot)
       /\ row.geometry # None => AnnouncedBy(p, i, "LocationGeometryUpdated", row.slot)

OneSlotEach(p) ==
    \A i, j \in Rows(p, {"succeeded"}) : batch[p][i].slot = batch[p][j].slot => i = j

(* Nothing was announced for a row ahead, and nothing about its slot by a row *)
(* that has not come to register it.                                          *)
Numbered(p) ==
    \A e \in announced : e.by = p =>
        /\ e.row <= Index(p)
        /\ e.row = Index(p) /\ KindOf[e.about] = "slot" =>
              pc[p] \in {"geometry", "position", "failed"}

SummaryIsOfAll(p) ==
    \A s \in summaries[p] :
        /\ pc[p] \in {"reported", "failed"}
        /\ summaries[p] = {s}
        /\ s = Counts(p)
        /\ Len(results[p]) = Len(batch[p])

OutcomeInv(p) ==
    /\ \A i \in Rows(p, {"succeeded"}) : Imported(p, i)
    /\ \A i \in Rows(p, {"refused"}) : Cause(p, i)
    /\ OneSlotEach(p) /\ Numbered(p) /\ SummaryIsOfAll(p)

(* The requests of other callers: what a lookup found is there still, and     *)
(* what it found free was not there to begin with ...                         *)
Found(w) ==
    \A k \in Passed(w) : \A b \in Lookups(caller[w].cmd)[k].rows :
        /\ Lookups(caller[w].cmd)[k].must \in Presence => Present(store[b])
        /\ Lookups(caller[w].cmd)[k].must = "absent" => ~Present(Loaded[b])

(* ... and the row an update read may be saved again.                         *)
Resavable(w) ==
    caller[w].at = "saving" /\ caller[w].cmd.use \in Updates =>
        LET a   == caller[w].cmd.target
            old == caller[w].view[a]
        IN /\ Present(old)
           /\ \A b \in Parents(a, old) : b \in Aggregates /\ Present(store[b])
           /\ KindOf[a] # "slot" => old.status = StatusFor(a)

AtALookup(w) ==
    caller[w].at = "asking" => caller[w].step \in 1..Len(Lookups(caller[w].cmd))

Prepared(w) == AtALookup(w) /\ Found(w) /\ Resavable(w)

(* A rule that is there was there to begin with, or a request defined it.     *)
RulesAreDefined == \A r \in RuleIds : Present(store[r]) => store[r].attr \in EverDefined

RequestInv == RulesAreDefined /\ \A w \in Callers : Prepared(w)

ImportInv ==
    /\ TypeOK
    /\ StoreInv
    /\ RequestInv
    /\ \A p \in Imports : ControlInv(p) /\ OutcomeInv(p)
-----------------------------------------------------------------------------
(* Facts about a row of a batch.                                              *)

(* What it names is of the kind it is named as.                               *)
LEMMA RowFacts ==
    ASSUME NEW row \in ImportRow
    PROVE  /\ row.slot \in LocationSlots /\ row.slot \in Aggregates
           /\ KindOf[row.slot] = "slot"
           /\ row.type \in LocationTypes /\ row.type \in Aggregates
           /\ KindOf[row.type] = "locationType"
           /\ row.zone \in ZoneAttributes
           /\ row.geometry \in Geometries \cup {None}
<1>1. /\ row.slot \in LocationSlots /\ row.type \in LocationTypes
      /\ row.zone \in ZoneAttributes /\ row.geometry \in Geometries \cup {None}
  BY DEF ImportRow
<1> QED BY <1>1, KindFacts

(* Its structure is a site, a zone of it and an aisle of that: what comes     *)
(* next hangs from what came before.                                          *)
LEMMA StructureFacts ==
    ASSUME NEW row \in ImportRow
    PROVE  LET s == Structure(row)
           IN /\ Len(s) = 3
              /\ s[1] = SiteOfSlot(row.slot) /\ s[2] = ZoneOfSlot(row.slot)
              /\ s[3] = AisleOf[row.slot]
              /\ s[1] \in Sites /\ s[2] \in Zones /\ s[3] \in Aisles
              /\ Custody(s[1]) = {} /\ Custody(s[2]) = {s[1]} /\ Custody(s[3]) = {s[2]}
              /\ Custody(row.slot) = {s[1], s[2], s[3]}
<1> DEFINE a == SiteOfSlot(row.slot)
           b == ZoneOfSlot(row.slot)
           c == AisleOf[row.slot]
           s == Structure(row)
<1>1. row.slot \in LocationSlots /\ KindOf[row.slot] = "slot"
  BY RowFacts
<1>2. a \in Sites /\ b \in Zones /\ c \in Aisles
  BY <1>1, ChainFacts
<1>3. SiteOf[b] = a /\ ZoneOf[c] = b
  BY DEF SiteOfSlot, ZoneOfSlot
<1>4. KindOf[a] = "site" /\ KindOf[b] = "zone" /\ KindOf[c] = "aisle"
  BY <1>2, KindFacts
<1>5. Custody(row.slot) = {a, b, c}
  BY <1>1 DEF Custody
<1> HIDE DEF a, b, c
<1>6. Custody(a) = {} /\ Custody(b) = {a} /\ Custody(c) = {b}
  BY <1>3, <1>4 DEF Custody
<1>7. s = <<a, b, c>>
  BY DEF Structure, a, b, c
<1> HIDE DEF s
<1>8. Len(s) = 3 /\ s[1] = a /\ s[2] = b /\ s[3] = c
  BY <1>7
<1>9. /\ Len(s) = 3 /\ s[1] = a /\ s[2] = b /\ s[3] = c
      /\ s[1] \in Sites /\ s[2] \in Zones /\ s[3] \in Aisles
      /\ Custody(s[1]) = {} /\ Custody(s[2]) = {s[1]} /\ Custody(s[3]) = {s[2]}
      /\ Custody(row.slot) = {s[1], s[2], s[3]}
  BY <1>2, <1>5, <1>6, <1>8
<1> QED BY <1>9 DEF s, a, b, c

(* So each is an aggregate of a kind that may be created, and no slot.        *)
LEMMA StructureKinds ==
    ASSUME NEW row \in ImportRow, NEW k \in 1..3
    PROVE  /\ Structure(row)[k] \in Sites \cup Zones \cup Aisles
           /\ Structure(row)[k] \in Aggregates
           /\ KindOf[Structure(row)[k]] \in {"site", "zone", "aisle"}
           /\ \A b \in Custody(Structure(row)[k]) : \E j \in 1..3 :
                 j < k /\ b = Structure(row)[j]
<1>1. k = 1 \/ k = 2 \/ k = 3
  OBVIOUS
<1>2. Structure(row)[k] \in Sites \cup Zones \cup Aisles
  BY <1>1, StructureFacts
<1>3. \A b \in Custody(Structure(row)[k]) : \E j \in 1..3 : j < k /\ b = Structure(row)[j]
  BY <1>1, StructureFacts
<1> QED BY <1>2, <1>3, KindFacts

(* The command it registers its slot with, and what that looks up.            *)
LEMMA RegistrationFacts ==
    ASSUME NEW row \in ImportRow
    PROVE  LET c == Registration(row)
           IN /\ c \in Commands
              /\ c.use = "RegisterLocationSlot" /\ c.target = row.slot /\ c.arg = row.type
              /\ Len(Lookups(c)) = 6
              /\ Lookups(c)[1] = Find(row.slot, "absent")
              /\ Lookups(c)[2] = Find(Structure(row)[1], "active")
              /\ Lookups(c)[3] = Find(Structure(row)[2], "active")
              /\ Lookups(c)[4] = Find(Structure(row)[3], "active")
              /\ Lookups(c)[5] = Find(row.type, "present")
              /\ Lookups(c)[6] = [rows |-> RuleIds, must |-> "permits"]
<1> DEFINE c == Registration(row)
<1>1. c.use = "RegisterLocationSlot" /\ c.target = row.slot /\ c.arg = row.type
  BY DEF Registration
<1>2. row.slot \in LocationSlots /\ row.type \in LocationTypes
  BY RowFacts
<1>3. c \in RegisterLocationSlotCommands
  BY <1>2 DEF Registration, RegisterLocationSlotCommands
<1>4. c \in Commands
  BY <1>3, Zenon DEF Commands
<1> HIDE DEF c
<1>5. Lookups(c) = << Find(row.slot, "absent"), Find(SiteOfSlot(row.slot), "active"),
                      Find(ZoneOfSlot(row.slot), "active"), Find(AisleOf[row.slot], "active"),
                      Find(row.type, "present"), [rows |-> RuleIds, must |-> "permits"] >>
  BY <1>1, LookupsOf DEF RegisterLocationSlotLookups
<1>6. /\ Structure(row)[1] = SiteOfSlot(row.slot) /\ Structure(row)[2] = ZoneOfSlot(row.slot)
      /\ Structure(row)[3] = AisleOf[row.slot]
  BY StructureFacts
<1>7. /\ Len(Lookups(c)) = 6
      /\ Lookups(c)[1] = Find(row.slot, "absent")
      /\ Lookups(c)[2] = Find(SiteOfSlot(row.slot), "active")
      /\ Lookups(c)[3] = Find(ZoneOfSlot(row.slot), "active")
      /\ Lookups(c)[4] = Find(AisleOf[row.slot], "active")
      /\ Lookups(c)[5] = Find(row.type, "present")
      /\ Lookups(c)[6] = [rows |-> RuleIds, must |-> "permits"]
  BY <1>5
<1> QED BY <1>1, <1>4, <1>6, <1>7 DEF c

(* What creating and registering is announced as are events.                  *)
LEMMA EventNames ==
    /\ \A k \in {"site", "zone", "aisle"} : CreationOf[k] \in Events
    /\ "LocationSlotRegistered" \in Events
    /\ "LocationGeometryUpdated" \in Events
    /\ "LocationGeometryUpdated" \notin RegistrationEvents
<1>1. {"RegisterSite", "RegisterZone", "RegisterAisle", "RegisterLocationSlot",
       "SetLocationGeometry"} \subseteq UseCases
  BY DEF UseCases, EventOf
<1>2. /\ EventOf["RegisterSite"] = "SiteRegistered"
      /\ EventOf["RegisterZone"] = "ZoneRegistered"
      /\ EventOf["RegisterAisle"] = "AisleRegistered"
      /\ EventOf["RegisterLocationSlot"] = "LocationSlotRegistered"
      /\ EventOf["SetLocationGeometry"] = "LocationGeometryUpdated"
  BY DEF EventOf
<1>3. {"SiteRegistered", "ZoneRegistered", "AisleRegistered", "LocationSlotRegistered",
       "LocationGeometryUpdated"} \subseteq Events
  BY <1>1, <1>2 DEF Events
<1>4. "SetLocationGeometry" \notin Registrations
  BY DEF Registrations, Updates
<1>5. "LocationGeometryUpdated" \notin RegistrationEvents
  BY <1>1, <1>2, <1>4, EventFacts
<1>6. \A k \in {"site", "zone", "aisle"} :
          CreationOf[k] \in {"SiteRegistered", "ZoneRegistered", "AisleRegistered"}
  BY DEF CreationOf
<1> QED BY <1>3, <1>5, <1>6

(* What is not permitted is held against by a rule.                           *)
LEMMA RefusedByRule ==
    ASSUME NEW rules, NEW t, NEW z, ~Permits(rules, t, z)
    PROVE  \E r \in rules : HoldsAgainst(r, t)
<1>1. CASE Denied(rules, t, z)
  BY <1>1 DEF Denied, HoldsAgainst
<1>2. CASE ~Denied(rules, t, z)
  <2>1. PICK r \in AllowRulesFor(rules, z) : r.locationType # t
    BY <1>2 DEF Permits
  <2>2. r \in rules /\ r.effect = "Allow"
    BY DEF AllowRulesFor
  <2> QED BY <2>1, <2>2 DEF HoldsAgainst
<1> QED BY <1>1, <1>2
-----------------------------------------------------------------------------
(* What a step does to what is committed.                                     *)

(* No step undoes a row or takes back an announcement.                        *)
Grows ==
    /\ \A a \in Aggregates : Present(store[a]) => Present(store'[a])
    /\ announced \subseteq announced'
    /\ EverDefined \subseteq EverDefined'

(* A unit of work saves a row where it may be, and announces it.              *)
Writes(a, row, e) ==
    /\ a \in Aggregates /\ row \in Row /\ Present(row)
    /\ \A b \in Parents(a, row) : b \in Aggregates /\ Present(store[b])
    /\ KindOf[a] # "slot" => row.status = StatusFor(a)
    /\ KindOf[a] = "slot" /\ row.status = "Decommissioned" => e.by \notin Imports
    /\ e.about = a
    /\ store' = [store EXCEPT ![a] = row]
    /\ announced' = announced \cup {e}

LEMMA WritesKeepsStore ==
    ASSUME TypeOK, StoreInv, NEW a, NEW row, NEW e, Writes(a, row, e),
           EverDefined \subseteq EverDefined'
    PROVE  /\ StoreInv' /\ Grows
           /\ store' \in [Aggregates -> Row]
           /\ store'[a] = row
           /\ \A b \in Aggregates \ {a} : store'[b] = store[b]
<1>1. /\ a \in Aggregates /\ row \in Row /\ Present(row)
      /\ \A b \in Parents(a, row) : b \in Aggregates /\ Present(store[b])
      /\ KindOf[a] # "slot" => row.status = StatusFor(a)
      /\ KindOf[a] = "slot" /\ row.status = "Decommissioned" => e.by \notin Imports
      /\ e.about = a
      /\ store' = [store EXCEPT ![a] = row]
      /\ announced' = announced \cup {e}
  BY DEF Writes
<1>2. store \in [Aggregates -> Row]
  BY DEF TypeOK
<1>3. /\ store' \in [Aggregates -> Row]
      /\ store'[a] = row
      /\ \A b \in Aggregates \ {a} : store'[b] = store[b]
  BY <1>1, <1>2
<1>4. Custodial(store') /\ \A b \in Aggregates : Present(store[b]) => Present(store'[b])
  BY <1>1, <1>2, LegalKeepsCustody, Zenon DEF StoreInv, ChainOfCustody
<1>5. ChainOfCustody'
  BY <1>4 DEF ChainOfCustody
<1>6. Grown'
  BY <1>4 DEF Grown, StoreInv
<1>7. StatusesLast'
  BY <1>1, <1>3 DEF StatusesLast, StoreInv, StatusFor
<1>8. Accounted'
  BY <1>1, <1>3 DEF Accounted, StoreInv
<1>9. RetiredByOthers'
  <2> SUFFICES ASSUME NEW s \in LocationSlots, store'[s].status = "Decommissioned"
               PROVE  Present(Loaded[s]) \/ \E x \in announced' : x.about = s /\ x.by \notin Imports
    BY DEF RetiredByOthers
  <2>1. s \in Aggregates /\ KindOf[s] = "slot"
    BY KindFacts
  <2>2. CASE s = a
    BY <1>1, <1>3, <2>1, <2>2
  <2>3. CASE s # a
    BY <1>1, <1>3, <2>1, <2>3 DEF RetiredByOthers, StoreInv
  <2> QED BY <2>2, <2>3
<1>10. Grows
  BY <1>1, <1>4 DEF Grows
<1> QED BY <1>3, <1>5, <1>6, <1>7, <1>8, <1>9, <1>10 DEF StoreInv

(* A step that writes nothing disturbs none of it.                            *)
LEMMA QuietKeepsStore ==
    ASSUME StoreInv, UNCHANGED <<store, announced>>, EverDefined \subseteq EverDefined'
    PROVE  StoreInv' /\ Grows
<1>1. ChainOfCustody'
  BY DEF StoreInv, ChainOfCustody
<1>2. Grown' /\ StatusesLast'
  BY DEF StoreInv, Grown, StatusesLast, StatusFor
<1>3. Accounted' /\ RetiredByOthers'
  BY DEF StoreInv, Accounted, RetiredByOthers
<1> QED BY <1>1, <1>2, <1>3 DEF StoreInv, Grows

(* A step of an import takes no request anywhere, and writes no rule.         *)
LEMMA SameRules ==
    ASSUME UNCHANGED caller
    PROVE  EverDefined' = EverDefined
BY DEF EverDefined

LEMMA PreparedLasts ==
    ASSUME TypeOK, Grows, NEW w \in Callers, caller'[w] = caller[w], Prepared(w)
    PROVE  Prepared(w)'
<1>1. caller[w].cmd \in Commands
  BY ImportAssumption DEF TypeOK, Request
<1>2. Passed(w)' = Passed(w)
  BY DEF Passed
<1>3. AtALookup(w)'
  BY DEF Prepared, AtALookup
<1>4. Found(w)'
  <2> SUFFICES ASSUME NEW k \in Passed(w), NEW b \in Lookups(caller[w].cmd)[k].rows
               PROVE  /\ Lookups(caller[w].cmd)[k].must \in Presence => Present(store'[b])
                      /\ Lookups(caller[w].cmd)[k].must = "absent" => ~Present(Loaded[b])
    BY <1>2 DEF Found
  <2>1. b \in Aggregates
    BY <1>1, LookupRows DEF Passed
  <2>2. /\ Lookups(caller[w].cmd)[k].must \in Presence => Present(store[b])
        /\ Lookups(caller[w].cmd)[k].must = "absent" => ~Present(Loaded[b])
    BY DEF Prepared, Found
  <2> QED BY <2>1, <2>2 DEF Grows
<1>5. Resavable(w)'
  BY DEF Prepared, Resavable, Grows, StatusFor
<1> QED BY <1>3, <1>4, <1>5 DEF Prepared

LEMMA RequestsLast ==
    ASSUME TypeOK, RequestInv, Grows, UNCHANGED caller,
           \A r \in RuleIds : store'[r] = store[r]
    PROVE  RequestInv'
<1>1. RulesAreDefined'
  BY DEF RequestInv, RulesAreDefined, Grows
<1>2. \A w \in Callers : Prepared(w)'
  BY PreparedLasts DEF RequestInv
<1> QED BY <1>1, <1>2 DEF RequestInv

LEMMA ImportWrites ==
    ASSUME ImportInv, NEW a, NEW row, NEW e, Writes(a, row, e), UNCHANGED caller,
           KindOf[a] # "rule"
    PROVE  /\ StoreInv' /\ Grows /\ RequestInv'
           /\ store' \in [Aggregates -> Row]
           /\ store'[a] = row
<1>1. TypeOK /\ StoreInv /\ RequestInv
  BY DEF ImportInv
<1>2. /\ StoreInv' /\ Grows
      /\ store' \in [Aggregates -> Row]
      /\ store'[a] = row
      /\ \A b \in Aggregates \ {a} : store'[b] = store[b]
  BY <1>1, SameRules, WritesKeepsStore
<1>3. \A r \in RuleIds : r \in Aggregates \ {a}
  BY KindFacts
<1>4. RequestInv'
  BY <1>1, <1>2, <1>3, RequestsLast
<1> QED BY <1>2, <1>4
-----------------------------------------------------------------------------
(* What an import has behind it and at hand.                                  *)
LEMMA BatchFacts ==
    ASSUME TypeOK, NEW p \in Imports
    PROVE  /\ batch[p] \in Seq(ImportRow) /\ Len(batch[p]) \in Nat
           /\ results[p] \in Seq(Outcomes) /\ Len(results[p]) \in Nat
           /\ Len(results[p]) <= Len(batch[p])
           /\ Index(p) = Len(results[p]) + 1 /\ Index(p) \in Nat
           /\ \A i \in 1..Len(batch[p]) : batch[p][i] \in ImportRow
           /\ Len(results[p]) < Len(batch[p]) =>
                 Index(p) \in 1..Len(batch[p]) /\ CurrentRow(p) \in ImportRow
<1>1. batch[p] \in Batches \cup {<<>>}
  BY DEF TypeOK
<1>2. batch[p] \in Seq(ImportRow)
  <2>1. Batches \subseteq Seq(ImportRow)
    BY ImportAssumption
  <2>2. <<>> \in Seq(ImportRow)
    OBVIOUS
  <2> QED BY <1>1, <2>1, <2>2, Zenon
<1>3. results[p] \in Seq(Outcomes) /\ Len(results[p]) <= Len(batch[p])
  BY DEF TypeOK
<1>4. Len(batch[p]) \in Nat /\ Len(results[p]) \in Nat
  BY <1>2, <1>3
<1>5. \A i \in 1..Len(batch[p]) : batch[p][i] \in ImportRow
  BY <1>2
<1> QED BY <1>2, <1>3, <1>4, <1>5 DEF Index, CurrentRow

LEMMA RowsFacts ==
    ASSUME TypeOK, NEW p \in Imports, NEW S
    PROVE  /\ Rows(p, S) \subseteq 1..Len(results[p])
           /\ Rows(p, S) \subseteq 1..Len(batch[p])
           /\ Index(p) \notin Rows(p, S)
           /\ \A i \in Rows(p, S) : batch[p][i] \in ImportRow
<1>1. Rows(p, S) \subseteq 1..Len(results[p])
  BY DEF Rows
<1>2. 1..Len(results[p]) \subseteq 1..Len(batch[p])
  BY BatchFacts
<1>3. Index(p) \notin 1..Len(results[p])
  BY BatchFacts
<1> QED BY <1>1, <1>2, <1>3, BatchFacts

(* A cause stays a cause, and what is imported stays imported.                *)
LEMMA CauseLasts ==
    ASSUME TypeOK, Grows, NEW p \in Imports, NEW i \in 1..Len(batch[p]),
           batch'[p] = batch[p], Cause(p, i)
    PROVE  Cause(p, i)'
<1>1. announced \subseteq announced' /\ EverDefined \subseteq EverDefined'
  BY DEF Grows
<1>2. batch'[p][i] = batch[p][i]
  OBVIOUS
<1> QED BY <1>1, <1>2 DEF Cause

LEMMA ImportedLasts ==
    ASSUME TypeOK, Grows, NEW p \in Imports, NEW i \in 1..Len(batch[p]),
           batch'[p] = batch[p], Imported(p, i)
    PROVE  Imported(p, i)'
<1>1. batch[p][i].slot \in Aggregates
  BY BatchFacts, RowFacts
<1>2. Present(store[batch[p][i].slot]) => Present(store'[batch[p][i].slot])
  BY <1>1 DEF Grows
<1>3. announced \subseteq announced'
  BY DEF Grows
<1>4. batch'[p][i] = batch[p][i]
  OBVIOUS
<1> QED BY <1>2, <1>3, <1>4 DEF Imported, AnnouncedBy
-----------------------------------------------------------------------------
(* What a step does to the imports.                                           *)

(* An import goes to a place, with a step, a view and results.                *)
Moved(p, x, k, v, r) ==
    /\ pc' = [pc EXCEPT ![p] = x]
    /\ step' = [step EXCEPT ![p] = k]
    /\ view' = [view EXCEPT ![p] = v]
    /\ results' = [results EXCEPT ![p] = r]
    /\ UNCHANGED <<batch, summaries>>

SameAsBefore(q) ==
    /\ pc'[q] = pc[q] /\ step'[q] = step[q] /\ view'[q] = view[q]
    /\ results'[q] = results[q] /\ batch'[q] = batch[q] /\ summaries'[q] = summaries[q]

(* What it commits, if anything, is committed soundly and under the import's  *)
(* own name and row.                                                          *)
Commits(p) ==
    /\ StoreInv' /\ Grows
    /\ RequestInv' /\ UNCHANGED caller
    /\ store' \in [Aggregates -> Row]
    /\ announced' \in SUBSET Announcement
    /\ failures' \in 0..MaxFailures
    /\ \A e \in announced' \ announced :
          e.by \in Imports => e.by = p /\ e.row = Index(p)

Places == {"idle"} \cup InFlight \cup Answered

LEMMA MovedFacts ==
    ASSUME TypeOK, NEW p \in Imports, Commits(p), NEW x \in Places, NEW k \in 1..6,
           NEW v \in [Aggregates -> Row], NEW r \in Seq(Outcomes), Len(r) <= Len(batch[p]),
           Moved(p, x, k, v, r)
    PROVE  /\ TypeOK'
           /\ pc'[p] = x /\ step'[p] = k /\ view'[p] = v /\ results'[p] = r
           /\ batch'[p] = batch[p] /\ summaries'[p] = summaries[p]
           /\ \A q \in Imports \ {p} : SameAsBefore(q)
<1>1. /\ pc' = [pc EXCEPT ![p] = x]
      /\ step' = [step EXCEPT ![p] = k]
      /\ view' = [view EXCEPT ![p] = v]
      /\ results' = [results EXCEPT ![p] = r]
      /\ batch' = batch /\ summaries' = summaries
  BY DEF Moved
<1>2. /\ pc \in [Imports -> Places] /\ step \in [Imports -> 1..6]
      /\ view \in [Imports -> [Aggregates -> Row]]
      /\ results \in [Imports -> Seq(Outcomes)]
      /\ \A q \in Imports : Len(results[q]) <= Len(batch[q])
  BY DEF TypeOK, Places
<1>3. /\ pc'[p] = x /\ step'[p] = k /\ view'[p] = v /\ results'[p] = r
      /\ batch'[p] = batch[p] /\ summaries'[p] = summaries[p]
  BY <1>1, <1>2
<1>4. \A q \in Imports \ {p} : SameAsBefore(q)
  BY <1>1, <1>2 DEF SameAsBefore
<1>5. pc' \in [Imports -> Places] /\ step' \in [Imports -> 1..6]
  BY <1>1, <1>2
<1>6. view' \in [Imports -> [Aggregates -> Row]]
  BY <1>1, <1>2
<1>7. results' \in [Imports -> Seq(Outcomes)]
  BY <1>1, <1>2
<1>8. \A q \in Imports : Len(results'[q]) <= Len(batch'[q])
  BY <1>1, <1>2
<1>9. TypeOK'
  BY <1>1, <1>5, <1>6, <1>7, <1>8 DEF TypeOK, Commits, Places
<1> QED BY <1>3, <1>4, <1>9

(* Who stays where it was stays sound, whatever others commit ...             *)
LEMMA SameControl ==
    ASSUME TypeOK, Grows, NEW q \in Imports, SameAsBefore(q), ControlInv(q)
    PROVE  ControlInv(q)'
<1>1. /\ pc'[q] = pc[q] /\ step'[q] = step[q] /\ view'[q] = view[q]
      /\ results'[q] = results[q] /\ batch'[q] = batch[q]
  BY DEF SameAsBefore
<1>2. Index(q)' = Index(q) /\ CurrentRow(q)' = CurrentRow(q) /\ Sought(q)' = Sought(q)
  BY <1>1 DEF Index, CurrentRow, Sought
<1>3. /\ AtARow(q) /\ Ensured(q) /\ SoughtIsNew(q) /\ SlotIsNew(q)
      /\ SlotIsRegistered(q) /\ ViewIsGood(q)
  BY DEF ControlInv
<1>4. AtARow(q)' /\ SoughtIsNew(q)'
  BY <1>1, <1>2, <1>3 DEF AtARow, SoughtIsNew
<1>5. pc[q] \in InRow => CurrentRow(q) \in ImportRow
  BY <1>3, BatchFacts DEF AtARow
<1>6. Ensured(q)'
  <2>1. CASE pc[q] \in InRow
    <3>1. /\ CurrentRow(q).type \in Aggregates
          /\ \A k \in 1..3 : Structure(CurrentRow(q))[k] \in Aggregates
      BY <1>5, <2>1, RowFacts, StructureKinds
    <3> DEFINE row == CurrentRow(q)
    <3>2. CurrentRow(q)' = row
      BY <1>2
    <3>3. row.type \in Aggregates /\ \A k \in 1..3 : Structure(row)[k] \in Aggregates
      BY <3>1
    <3>4. /\ pc[q] \in {"find", "create"} =>
                \A k \in 1..3 : k < step[q] => Present(store[Structure(row)[k]])
          /\ pc[q] \in {"lookup", "register", "geometry", "position"} =>
                \A k \in 1..3 : Present(store[Structure(row)[k]])
          /\ pc[q] = "register" \/ (pc[q] = "lookup" /\ step[q] > 5) =>
                Present(store[row.type])
      BY <1>3 DEF Ensured
    <3> HIDE DEF row
    <3>5. /\ pc[q] \in {"find", "create"} =>
                \A k \in 1..3 : k < step[q] => Present(store'[Structure(row)[k]])
          /\ pc[q] \in {"lookup", "register", "geometry", "position"} =>
                \A k \in 1..3 : Present(store'[Structure(row)[k]])
          /\ pc[q] = "register" \/ (pc[q] = "lookup" /\ step[q] > 5) =>
                Present(store'[row.type])
      BY <3>3, <3>4 DEF Grows
    <3> QED BY <1>1, <3>2, <3>5 DEF Ensured
  <2>2. CASE pc[q] \notin InRow
    BY <1>1, <2>2 DEF Ensured, InRow
  <2> QED BY <2>1, <2>2
<1>7. SlotIsNew(q)'
  <2>1. Rows(q, {"succeeded"})' = Rows(q, {"succeeded"})
    BY <1>1 DEF Rows
  <2> QED BY <1>1, <1>2, <1>3, <2>1 DEF SlotIsNew
<1>8. SlotIsRegistered(q)'
  <2> SUFFICES ASSUME pc[q] \in {"geometry", "position"}
               PROVE  SlotIsRegistered(q)'
    BY <1>1 DEF SlotIsRegistered
  <2>1. CurrentRow(q).slot \in Aggregates
    BY <1>5, RowFacts DEF InRow
  <2>2. /\ Present(store[CurrentRow(q).slot])
        /\ AnnouncedBy(q, Index(q), "LocationSlotRegistered", CurrentRow(q).slot)
    BY <1>3 DEF SlotIsRegistered
  <2>3. Present(store'[CurrentRow(q).slot])
    BY <2>1, <2>2 DEF Grows
  <2>4. AnnouncedBy(q, Index(q), "LocationSlotRegistered", CurrentRow(q).slot)'
    BY <1>2, <2>2 DEF Grows, AnnouncedBy
  <2> QED BY <1>2, <2>3, <2>4 DEF SlotIsRegistered
<1>9. ViewIsGood(q)'
  BY <1>1, <1>2, <1>3 DEF ViewIsGood, Grows
<1> QED BY <1>4, <1>6, <1>7, <1>8, <1>9 DEF ControlInv

(* ... and so does what is behind an import that concludes no row: what it    *)
(* announces, it announces for the row it is at, and about that row's slot    *)
(* only to go on to its geometry.                                             *)
LEMMA OutcomeKept ==
    ASSUME TypeOK, Grows, NEW p \in Imports, OutcomeInv(p),
           batch'[p] = batch[p], results'[p] = results[p], summaries'[p] = summaries[p],
           \A e \in announced' \ announced : e.by = p =>
               /\ e.row = Index(p)
               /\ KindOf[e.about] = "slot" => pc'[p] \in {"geometry", "position", "failed"},
           pc[p] \in {"geometry", "position", "failed"} =>
               pc'[p] \in {"geometry", "position", "failed"},
           summaries[p] # {} => pc'[p] \in {"reported", "failed"}
    PROVE  OutcomeInv(p)'
<1>1. /\ \A i \in Rows(p, {"succeeded"}) : Imported(p, i)
      /\ \A i \in Rows(p, {"refused"}) : Cause(p, i)
      /\ OneSlotEach(p) /\ Numbered(p) /\ SummaryIsOfAll(p)
  BY DEF OutcomeInv
<1>2. \A S : Rows(p, S)' = Rows(p, S)
  BY DEF Rows
<1>3. \A i \in Rows(p, {"succeeded"})' : Imported(p, i)'
  BY <1>1, <1>2, RowsFacts, ImportedLasts
<1>4. \A i \in Rows(p, {"refused"})' : Cause(p, i)'
  BY <1>1, <1>2, RowsFacts, CauseLasts
<1>5. OneSlotEach(p)'
  BY <1>1, <1>2 DEF OneSlotEach
<1>6. Index(p)' = Index(p)
  BY DEF Index
<1>7. Numbered(p)'
  BY <1>1, <1>6, BatchFacts DEF Numbered
<1>8. Counts(p)' = Counts(p)
  BY <1>2 DEF Counts
<1>9. SummaryIsOfAll(p)'
  BY <1>1, <1>8 DEF SummaryIsOfAll
<1> QED BY <1>3, <1>4, <1>5, <1>7, <1>9 DEF OutcomeInv

(* An import that does not take part in the step.                             *)
LEMMA OthersKept ==
    ASSUME ImportInv, Grows, NEW q \in Imports, SameAsBefore(q),
           \A e \in announced' \ announced : e.by # q
    PROVE  ControlInv(q)' /\ OutcomeInv(q)'
<1>1. TypeOK /\ ControlInv(q) /\ OutcomeInv(q)
  BY DEF ImportInv
<1>2. ControlInv(q)'
  BY <1>1, SameControl
<1>3. /\ batch'[q] = batch[q] /\ results'[q] = results[q] /\ summaries'[q] = summaries[q]
      /\ pc'[q] = pc[q]
  BY DEF SameAsBefore
<1>4. summaries[q] # {} => pc[q] \in {"reported", "failed"}
  BY <1>1 DEF OutcomeInv, SummaryIsOfAll
<1>5. OutcomeInv(q)'
  BY <1>1, <1>3, <1>4, OutcomeKept
<1> QED BY <1>2, <1>5

(* An import goes on within its row.                                          *)
LEMMA MovedInv ==
    ASSUME ImportInv, NEW p \in Imports, Commits(p), NEW x \in InRow, NEW k \in 1..6,
           NEW v \in [Aggregates -> Row], Moved(p, x, k, v, results[p]),
           pc[p] \in {"row"} \cup InRow,
           pc[p] \in {"geometry", "position"} => x \in {"geometry", "position"},
           \A e \in announced' \ announced :
               KindOf[e.about] = "slot" => x \in {"geometry", "position"},
           ControlInv(p)'
    PROVE  ImportInv'
<1>1. TypeOK /\ OutcomeInv(p)
  BY DEF ImportInv
<1>2. results[p] \in Seq(Outcomes) /\ Len(results[p]) <= Len(batch[p])
  BY <1>1, BatchFacts
<1>3. x \in Places
  BY DEF Places, InFlight
<1>4. /\ TypeOK'
      /\ pc'[p] = x /\ results'[p] = results[p]
      /\ batch'[p] = batch[p] /\ summaries'[p] = summaries[p]
      /\ \A q \in Imports \ {p} : SameAsBefore(q)
  BY <1>1, <1>2, <1>3, MovedFacts
<1>5. /\ Grows /\ StoreInv'
      /\ \A e \in announced' \ announced : e.by \in Imports => e.by = p /\ e.row = Index(p)
  BY DEF Commits
<1>6. summaries[p] = {} /\ pc[p] # "failed"
  BY <1>1 DEF OutcomeInv, SummaryIsOfAll, InRow
<1>7. OutcomeInv(p)'
  BY <1>1, <1>4, <1>5, <1>6, OutcomeKept
<1>8. \A q \in Imports \ {p} : ControlInv(q)' /\ OutcomeInv(q)'
  BY <1>4, <1>5, OthersKept
<1> QED BY <1>4, <1>5, <1>7, <1>8 DEF ImportInv, Commits

(* An import is through with a row.                                           *)
LEMMA ConcludedOutcome ==
    ASSUME TypeOK, NEW p \in Imports, ControlInv(p), OutcomeInv(p), Commits(p),
           NEW o \in Outcomes, NEW n \in 1..Len(batch[p]), n = Index(p),
           batch'[p] = batch[p], summaries'[p] = summaries[p],
           results'[p] = Append(results[p], o), pc[p] \in {"row"} \cup InRow,
           o = "succeeded" =>
               /\ pc[p] \in {"geometry", "position"}
               /\ batch[p][n].geometry # None =>
                     AnnouncedBy(p, n, "LocationGeometryUpdated", batch[p][n].slot)',
           o = "refused" => Cause(p, n)
    PROVE  OutcomeInv(p)'
<1>1. /\ \A i \in Rows(p, {"succeeded"}) : Imported(p, i)
      /\ \A i \in Rows(p, {"refused"}) : Cause(p, i)
      /\ OneSlotEach(p) /\ Numbered(p) /\ SummaryIsOfAll(p)
  BY DEF OutcomeInv
<1>2. /\ Grows
      /\ announced' \in SUBSET Announcement
      /\ \A e \in announced' \ announced : e.by \in Imports => e.by = p /\ e.row = Index(p)
  BY DEF Commits
<1>3. /\ results[p] \in Seq(Outcomes) /\ Len(results[p]) \in Nat /\ n = Len(results[p]) + 1
      /\ batch[p][n] \in ImportRow
  BY BatchFacts
<1>4. /\ Len(results'[p]) = n
      /\ \A i \in 1..Len(results[p]) : results'[p][i] = results[p][i]
      /\ results'[p][n] = o
  BY <1>3, AppendProperties
<1>5. \A S : \A i \in Rows(p, S)' : i \in Rows(p, S) \/ (i = n /\ o \in S)
  BY <1>3, <1>4 DEF Rows
<1>6. CurrentRow(p) = batch[p][n]
  BY DEF CurrentRow
<1>7. o = "succeeded" => Imported(p, n)'
  <2> SUFFICES ASSUME o = "succeeded"
               PROVE  Imported(p, n)'
    OBVIOUS
  <2>1. /\ Present(store[batch[p][n].slot])
        /\ AnnouncedBy(p, n, "LocationSlotRegistered", batch[p][n].slot)
    BY <1>6 DEF ControlInv, SlotIsRegistered
  <2>2. batch[p][n].slot \in Aggregates
    BY <1>3, RowFacts
  <2>3. Present(store'[batch[p][n].slot])
    BY <1>2, <2>1, <2>2 DEF Grows
  <2>4. AnnouncedBy(p, n, "LocationSlotRegistered", batch[p][n].slot)'
    BY <1>2, <2>1 DEF Grows, AnnouncedBy
  <2>5. batch'[p][n] = batch[p][n]
    OBVIOUS
  <2> QED BY <2>3, <2>4, <2>5 DEF Imported
<1>8. \A i \in Rows(p, {"succeeded"})' : Imported(p, i)'
  BY <1>1, <1>2, <1>5, <1>7, RowsFacts, ImportedLasts
<1>9. o = "refused" => Cause(p, n)'
  BY <1>2, CauseLasts
<1>10. \A i \in Rows(p, {"refused"})' : Cause(p, i)'
  BY <1>1, <1>2, <1>5, <1>9, RowsFacts, CauseLasts
<1>11. OneSlotEach(p)'
  <2>1. o = "succeeded" =>
            \A i \in Rows(p, {"succeeded"}) : batch[p][i].slot # batch[p][n].slot
    BY <1>6 DEF ControlInv, SlotIsNew
  <2>2. \A i, j \in Rows(p, {"succeeded"})' :
            batch[p][i].slot = batch[p][j].slot => i = j
    BY <1>1, <1>5, <2>1 DEF OneSlotEach
  <2> QED BY <2>2 DEF OneSlotEach
<1>12. Numbered(p)'
  <2>1. Index(p)' = n + 1
    BY <1>4 DEF Index
  <2>2. \A e \in announced' : e.by = p => e.row \in Nat /\ e.row <= n
    BY <1>1, <1>2 DEF Numbered, Announcement
  <2> QED BY <1>3, <2>1, <2>2 DEF Numbered
<1>13. SummaryIsOfAll(p)'
  <2>1. summaries[p] = {}
    BY <1>1 DEF SummaryIsOfAll, InRow
  <2> QED BY <2>1 DEF SummaryIsOfAll
<1> QED BY <1>8, <1>10, <1>11, <1>12, <1>13 DEF OutcomeInv

LEMMA ConcludedInv ==
    ASSUME ImportInv, NEW p \in Imports, Commits(p), NEW o \in Outcomes,
           Conclude(p, o), UNCHANGED <<batch, summaries>>,
           pc[p] \in {"row"} \cup InRow, Len(results[p]) < Len(batch[p]),
           o = "succeeded" =>
               /\ pc[p] \in {"geometry", "position"}
               /\ CurrentRow(p).geometry # None =>
                     [event |-> "LocationGeometryUpdated", about |-> CurrentRow(p).slot,
                      by |-> p, row |-> Index(p)] \in announced',
           o = "refused" => Cause(p, Index(p))
    PROVE  ImportInv'
<1>1. TypeOK /\ ControlInv(p) /\ OutcomeInv(p)
  BY DEF ImportInv
<1>2. /\ results[p] \in Seq(Outcomes) /\ Len(results[p]) \in Nat
      /\ Index(p) \in 1..Len(batch[p])
  BY <1>1, BatchFacts
<1>3. /\ Append(results[p], o) \in Seq(Outcomes)
      /\ Len(Append(results[p], o)) <= Len(batch[p])
  <2>1. Len(Append(results[p], o)) = Len(results[p]) + 1
    BY <1>2, AppendProperties
  <2>2. Append(results[p], o) \in Seq(Outcomes)
    BY <1>2, AppendProperties
  <2> QED BY <1>1, <1>2, <2>1, <2>2, BatchFacts
<1>4. Moved(p, "row", 1, NoView, Append(results[p], o))
  BY <1>1 DEF Conclude, Moved, TypeOK
<1>5. NoView \in [Aggregates -> Row]
  BY DEF NoView, NoRow, Row, Attributes
<1>6. /\ TypeOK'
      /\ pc'[p] = "row" /\ results'[p] = Append(results[p], o)
      /\ batch'[p] = batch[p] /\ summaries'[p] = summaries[p]
      /\ \A q \in Imports \ {p} : SameAsBefore(q)
  <2>1. "row" \in Places /\ 1 \in 1..6
    BY DEF Places, InFlight
  <2> QED BY <1>1, <1>3, <1>4, <1>5, <2>1, MovedFacts
<1>7. /\ Grows /\ StoreInv'
      /\ \A e \in announced' \ announced : e.by \in Imports => e.by = p /\ e.row = Index(p)
  BY DEF Commits
<1>8. OutcomeInv(p)'
  <2> SUFFICES ASSUME NEW n \in 1..Len(batch[p]), n = Index(p)
               PROVE  OutcomeInv(p)'
    BY <1>2
  <2>1. CurrentRow(p) = batch[p][n]
    BY DEF CurrentRow
  <2>2. o = "succeeded" /\ batch[p][n].geometry # None =>
            AnnouncedBy(p, n, "LocationGeometryUpdated", batch[p][n].slot)'
    BY <1>6, <2>1 DEF AnnouncedBy
  <2> QED BY <1>1, <1>6, <2>2, ConcludedOutcome
<1>9. ControlInv(p)'
  BY <1>6 DEF ControlInv, AtARow, Ensured, SoughtIsNew, SlotIsNew, SlotIsRegistered,
              ViewIsGood, InRow
<1>10. \A q \in Imports \ {p} : ControlInv(q)' /\ OutcomeInv(q)'
  BY <1>6, <1>7, OthersKept
<1> QED BY <1>6, <1>7, <1>8, <1>9, <1>10 DEF ImportInv, Commits
-----------------------------------------------------------------------------
(* Facts the actions have in common.                                          *)
LEMMA QuietCommits ==
    ASSUME ImportInv, NEW p, UNCHANGED <<store, announced, caller>>,
           failures' \in 0..MaxFailures
    PROVE  Commits(p)
<1>1. TypeOK /\ RequestInv
  BY DEF ImportInv
<1>2. StoreInv' /\ Grows
  BY SameRules, QuietKeepsStore DEF ImportInv
<1>3. RequestInv'
  BY <1>1, <1>2, RequestsLast
<1> QED BY <1>1, <1>2, <1>3 DEF Commits, TypeOK

LEMMA FailureFacts ==
    ASSUME TypeOK
    PROVE  Failure \/ UNCHANGED failures => failures' \in 0..MaxFailures
BY ImportAssumption DEF Failure, TypeOK

LEMMA AtRowFacts ==
    ASSUME ImportInv, NEW p \in Imports,
           pc[p] \in InRow \/ Len(results[p]) < Len(batch[p])
    PROVE  /\ Len(results[p]) < Len(batch[p])
           /\ CurrentRow(p) \in ImportRow
           /\ Index(p) \in 1..Len(batch[p])
           /\ CurrentRow(p) = batch[p][Index(p)]
<1>1. Len(results[p]) < Len(batch[p])
  BY DEF ImportInv, ControlInv, AtARow
<1> QED BY <1>1, BatchFacts DEF ImportInv, CurrentRow

LEMMA MovedPlace ==
    ASSUME ImportInv, NEW p \in Imports, Commits(p), NEW x \in InRow, NEW k \in 1..6,
           NEW v \in [Aggregates -> Row], Moved(p, x, k, v, results[p])
    PROVE  /\ pc'[p] = x /\ step'[p] = k /\ view'[p] = v
           /\ results'[p] = results[p] /\ batch'[p] = batch[p]
           /\ CurrentRow(p)' = CurrentRow(p) /\ Index(p)' = Index(p)
           /\ Rows(p, {"succeeded"})' = Rows(p, {"succeeded"})
<1>1. TypeOK /\ results[p] \in Seq(Outcomes) /\ Len(results[p]) <= Len(batch[p])
  BY BatchFacts DEF ImportInv
<1>2. x \in Places
  BY DEF Places, InFlight
<1>3. /\ pc'[p] = x /\ step'[p] = k /\ view'[p] = v
      /\ results'[p] = results[p] /\ batch'[p] = batch[p]
  BY <1>1, <1>2, MovedFacts
<1> QED BY <1>3 DEF CurrentRow, Index, Rows

(* A refusal by a constructor has its cause in the row.                       *)
LEMMA RefusedByConstructor ==
    ASSUME NEW p, NEW x \in CurrentRow(p).refused
    PROVE  Cause(p, Index(p))
BY DEF Cause, CurrentRow

LEMMA NoViewFacts ==
    ASSUME TypeOK, NEW p \in Imports
    PROVE  NoView \in [Aggregates -> Row] /\ view[p] \in [Aggregates -> Row]
BY DEF NoView, NoRow, Row, Attributes, TypeOK

LEMMA MoveOnMoves ==
    ASSUME TypeOK, NEW p \in Imports, NEW x, MoveOn(p, x), UNCHANGED <<batch, summaries>>
    PROVE  Moved(p, x, 1, NoView, results[p])
BY DEF MoveOn, Moved, TypeOK
-----------------------------------------------------------------------------
(* One lemma per action.                                                      *)

(* A request that has looked nothing up claims nothing.                       *)
LEMMA SentIsPrepared ==
    ASSUME NEW w, caller[w].at = "asking", caller[w].step = 1, caller[w].cmd \in Commands
    PROVE  Prepared(w)
<1>1. Len(Lookups(caller[w].cmd)) \in Nat /\ Len(Lookups(caller[w].cmd)) >= 1
  BY LookupFacts DEF LookedUp
<1>2. Passed(w) = {}
  BY <1>1 DEF Passed
<1>3. AtALookup(w) /\ Found(w) /\ Resavable(w)
  BY <1>1, <1>2 DEF AtALookup, Found, Resavable
<1> QED BY <1>3 DEF Prepared

LEMMA InitInv == Init => ImportInv
<1> SUFFICES ASSUME Init PROVE ImportInv
  OBVIOUS
<1>1. /\ store = Loaded /\ announced = {}
      /\ summaries = [p \in Imports |-> {}]
      /\ pc = [p \in Imports |-> "idle"]
      /\ batch = [p \in Imports |-> <<>>]
      /\ step = [p \in Imports |-> 1]
      /\ view = [p \in Imports |-> NoView]
      /\ results = [p \in Imports |-> <<>>]
      /\ caller \in [Callers -> {Sent(c) : c \in Workload}]
      /\ failures = 0
  BY DEF Init
<1>2. TypeOK
  <2>1. NoView \in [Aggregates -> Row]
    BY DEF NoView, NoRow, Row, Attributes
  <2>2. store \in [Aggregates -> Row] /\ announced \in SUBSET Announcement
    BY <1>1, LoadedAssumption
  <2>3. summaries \in [Imports -> SUBSET Summary] /\ step \in [Imports -> 1..6]
        /\ view \in [Imports -> [Aggregates -> Row]]
    BY <1>1, <2>1
  <2>4. <<>> \in Seq(Outcomes)
    OBVIOUS
  <2>5. results \in [Imports -> Seq(Outcomes)] /\ batch \in [Imports -> Batches \cup {<<>>}]
    BY <1>1, <2>4
  <2>6. \A p \in Imports : Len(results[p]) <= Len(batch[p])
    BY <1>1
  <2>7. failures \in 0..MaxFailures
    BY <1>1, ImportAssumption
  <2>8. caller \in [Callers -> Request]
    <3>1. \A c \in Workload : Sent(c) \in Request
      BY <2>1 DEF Sent, Request
    <3> QED BY <1>1, <3>1
  <2> QED BY <1>1, <2>2, <2>3, <2>5, <2>6, <2>7, <2>8 DEF TypeOK
<1>3. StoreInv
  <2>1. ChainOfCustody
    BY <1>1, LoadedAssumption DEF ChainOfCustody
  <2>2. Grown /\ StatusesLast /\ Accounted
    BY <1>1 DEF Grown, StatusesLast, StatusFor, Accounted
  <2>3. RetiredByOthers
    BY <1>1 DEF RetiredByOthers, Present, Absent
  <2> QED BY <2>1, <2>2, <2>3 DEF StoreInv
<1>4. ASSUME NEW p \in Imports
      PROVE  ControlInv(p) /\ OutcomeInv(p)
  <2>1. pc[p] = "idle" /\ batch[p] = <<>> /\ results[p] = <<>> /\ summaries[p] = {}
    BY <1>1
  <2>2. \A S : Rows(p, S) = {}
    BY <2>1 DEF Rows
  <2>3. ControlInv(p)
    BY <2>1 DEF ControlInv, AtARow, Ensured, SoughtIsNew, SlotIsNew, SlotIsRegistered,
                ViewIsGood, InRow
  <2>4. OutcomeInv(p)
    BY <1>1, <2>1, <2>2 DEF OutcomeInv, OneSlotEach, Numbered, SummaryIsOfAll
  <2> QED BY <2>3, <2>4
<1>5. RequestInv
  <2>1. RulesAreDefined
    BY <1>1 DEF RulesAreDefined, EverDefined
  <2>2. ASSUME NEW w \in Callers
        PROVE  Prepared(w)
    <3>1. PICK c \in Workload : caller[w] = Sent(c)
      BY <1>1
    <3>2. caller[w].at = "asking" /\ caller[w].step = 1 /\ caller[w].cmd = c
      BY <3>1 DEF Sent
    <3> QED BY <3>2, SentIsPrepared, ImportAssumption
  <2> QED BY <2>1, <2>2 DEF RequestInv
<1> QED BY <1>2, <1>3, <1>4, <1>5 DEF ImportInv

LEMMA SubmitInv ==
    ASSUME ImportInv, NEW p \in Imports, Submit(p)
    PROVE  ImportInv'
<1>1. PICK rows \in Batches :
          /\ batch' = [batch EXCEPT ![p] = rows]
          /\ pc' = [pc EXCEPT ![p] = IF rows = <<>> THEN "refused" ELSE "row"]
  BY DEF Submit
<1>2. /\ pc[p] = "idle"
      /\ UNCHANGED <<store, announced, summaries, step, view, results, caller, failures>>
  BY DEF Submit
<1>3. TypeOK /\ StoreInv /\ ControlInv(p) /\ OutcomeInv(p)
  BY DEF ImportInv
<1>4. results[p] = <<>>
  BY <1>2, <1>3 DEF ControlInv, AtARow
<1>5. /\ batch'[p] = rows /\ pc'[p] \in {"refused", "row"}
      /\ \A q \in Imports \ {p} : batch'[q] = batch[q] /\ pc'[q] = pc[q]
  BY <1>1, <1>3 DEF TypeOK
<1>6. TypeOK'
  <2>1. batch' \in [Imports -> Batches \cup {<<>>}]
    BY <1>1, <1>3 DEF TypeOK
  <2>2. pc' \in [Imports -> {"idle"} \cup InFlight \cup Answered]
    BY <1>1, <1>3 DEF TypeOK, InFlight, Answered
  <2>3. Len(results'[p]) <= Len(batch'[p])
    <3>1. Len(rows) \in Nat
      BY ImportAssumption
    <3>2. Len(results'[p]) = 0 /\ batch'[p] = rows
      BY <1>2, <1>4, <1>5
    <3> QED BY <3>1, <3>2
  <2>4. \A q \in Imports : Len(results'[q]) <= Len(batch'[q])
    <3>1. \A q \in Imports \ {p} : Len(results'[q]) <= Len(batch'[q])
      BY <1>2, <1>3, <1>5 DEF TypeOK
    <3> QED BY <2>3, <3>1
  <2> QED BY <1>2, <1>3, <2>1, <2>2, <2>4 DEF TypeOK
<1>7. Commits(p)
  BY <1>2, <1>3, QuietCommits DEF TypeOK
<1>8. ControlInv(p)'
  BY <1>5 DEF ControlInv, AtARow, Ensured, SoughtIsNew, SlotIsNew, SlotIsRegistered,
              ViewIsGood, InRow
<1>9. OutcomeInv(p)'
  <2>1. \A S : Rows(p, S)' = {}
    BY <1>2, <1>4 DEF Rows
  <2>2. Numbered(p)'
    BY <1>2, <1>3 DEF OutcomeInv, Numbered, Index
  <2>3. summaries[p] = {}
    BY <1>2, <1>3 DEF OutcomeInv, SummaryIsOfAll
  <2> QED BY <1>2, <2>1, <2>2, <2>3 DEF OutcomeInv, OneSlotEach, SummaryIsOfAll
<1>10. \A q \in Imports \ {p} : ControlInv(q)' /\ OutcomeInv(q)'
  BY <1>2, <1>5, <1>7, OthersKept DEF SameAsBefore, Commits
<1> QED BY <1>6, <1>7, <1>8, <1>9, <1>10 DEF ImportInv, Commits

LEMMA BeginInv ==
    ASSUME ImportInv, NEW p \in Imports, Begin(p)
    PROVE  ImportInv'
<1>1. /\ pc[p] = "row" /\ Len(results[p]) < Len(batch[p])
      /\ UNCHANGED <<store, announced, summaries, batch, caller, failures>>
  BY DEF Begin
<1>2. TypeOK
  BY DEF ImportInv
<1>3. Commits(p)
  BY <1>1, <1>2, FailureFacts, QuietCommits
<1>4. CASE "NewLocationCode" \in CurrentRow(p).refused
  <2>1. Conclude(p, "refused")
    BY <1>4 DEF Begin
  <2>2. Cause(p, Index(p))
    BY <1>4, RefusedByConstructor
  <2> QED BY <1>1, <1>3, <2>1, <2>2, ConcludedInv DEF Outcomes
<1>5. CASE "NewLocationCode" \notin CurrentRow(p).refused
  <2>1. MoveOn(p, "find")
    BY <1>5 DEF Begin
  <2>2. Moved(p, "find", 1, NoView, results[p])
    BY <1>1, <1>2, <2>1, MoveOnMoves
  <2>3. "find" \in InRow /\ 1 \in 1..6 /\ NoView \in [Aggregates -> Row]
    BY <1>2, NoViewFacts DEF InRow
  <2>4. /\ pc'[p] = "find" /\ step'[p] = 1
        /\ results'[p] = results[p] /\ batch'[p] = batch[p]
    BY <1>3, <2>2, <2>3, MovedPlace
  <2>5. ControlInv(p)'
    BY <1>1, <2>4 DEF ControlInv, AtARow, Ensured, SoughtIsNew, SlotIsNew,
                      SlotIsRegistered, ViewIsGood, InRow
  <2> QED BY <1>1, <1>3, <2>2, <2>3, <2>5, MovedInv
<1> QED BY <1>4, <1>5

(* The structure a row is at.                                                 *)
LEMMA SoughtFacts ==
    ASSUME ImportInv, NEW p \in Imports, pc[p] \in {"find", "create"}
    PROVE  /\ step[p] \in 1..3
           /\ CurrentRow(p) \in ImportRow
           /\ Len(Structure(CurrentRow(p))) = 3
           /\ Sought(p) = Structure(CurrentRow(p))[step[p]]
           /\ Sought(p) \in Aggregates
           /\ Sought(p) \in Sites \cup Zones \cup Aisles
           /\ KindOf[Sought(p)] \in {"site", "zone", "aisle"}
           /\ \A b \in Custody(Sought(p)) : b \in Aggregates /\ Present(store[b])
<1>1. step[p] \in 1..3
  BY DEF ImportInv, ControlInv, AtARow
<1>2. CurrentRow(p) \in ImportRow
  BY AtRowFacts DEF InRow
<1>3. Sought(p) = Structure(CurrentRow(p))[step[p]]
  BY DEF Sought
<1>4. Len(Structure(CurrentRow(p))) = 3
  BY <1>2, StructureFacts
<1>5. /\ Sought(p) \in Aggregates /\ Sought(p) \in Sites \cup Zones \cup Aisles
      /\ KindOf[Sought(p)] \in {"site", "zone", "aisle"}
      /\ \A b \in Custody(Sought(p)) : \E j \in 1..3 :
            j < step[p] /\ b = Structure(CurrentRow(p))[j]
  BY <1>1, <1>2, <1>3, StructureKinds
<1>6. \A j \in 1..3 : j < step[p] =>
          /\ Structure(CurrentRow(p))[j] \in Aggregates
          /\ Present(store[Structure(CurrentRow(p))[j]])
  BY <1>2, StructureKinds DEF ImportInv, ControlInv, Ensured
<1> QED BY <1>1, <1>2, <1>3, <1>4, <1>5, <1>6

(* What the row sought is there now, and it goes on.                          *)
LEMMA NextStructureInv ==
    ASSUME ImportInv, NEW p \in Imports, pc[p] \in {"find", "create"}, Commits(p),
           NextStructure(p), UNCHANGED <<batch, summaries>>, Present(store'[Sought(p)]),
           \A e \in announced' \ announced : KindOf[e.about] # "slot"
    PROVE  ImportInv'
<1>1. /\ step[p] \in 1..3 /\ CurrentRow(p) \in ImportRow
      /\ Len(Structure(CurrentRow(p))) = 3
      /\ Sought(p) = Structure(CurrentRow(p))[step[p]]
  BY SoughtFacts
<1>2. TypeOK /\ Len(results[p]) < Len(batch[p]) /\ pc[p] \in InRow
  BY AtRowFacts DEF ImportInv, InRow
<1>3. \A k \in 1..3 : Structure(CurrentRow(p))[k] \in Aggregates
  BY <1>1, StructureKinds
<1>4. \A k \in 1..3 : k < step[p] => Present(store[Structure(CurrentRow(p))[k]])
  BY DEF ImportInv, ControlInv, Ensured
<1>5. \A k \in 1..3 : k <= step[p] => Present(store'[Structure(CurrentRow(p))[k]])
  BY <1>1, <1>3, <1>4 DEF Commits, Grows
<1>6. CASE step[p] < 3
  <2>1. /\ pc' = [pc EXCEPT ![p] = "find"] /\ step' = [step EXCEPT ![p] = @ + 1]
        /\ UNCHANGED <<view, results>>
    BY <1>1, <1>6 DEF NextStructure
  <2>2. Moved(p, "find", step[p] + 1, view[p], results[p])
    BY <1>2, <2>1 DEF Moved, TypeOK
  <2>3. /\ "find" \in InRow /\ step[p] + 1 \in 1..3 /\ step[p] + 1 \in 1..6
        /\ view[p] \in [Aggregates -> Row]
    BY <1>1, <1>2, <1>6, NoViewFacts DEF InRow
  <2>4. /\ pc'[p] = "find" /\ step'[p] = step[p] + 1
        /\ results'[p] = results[p] /\ batch'[p] = batch[p]
        /\ CurrentRow(p)' = CurrentRow(p)
    BY <2>2, <2>3, MovedPlace
  <2>5. \A k \in 1..3 : k < step'[p] => Present(store'[Structure(CurrentRow(p))[k]])
    BY <1>1, <1>5, <2>4
  <2>6. Ensured(p)'
    BY <2>4, <2>5 DEF Ensured
  <2>7. ControlInv(p)'
    BY <1>2, <2>3, <2>4, <2>6 DEF ControlInv, AtARow, SoughtIsNew, SlotIsNew,
                                 SlotIsRegistered, ViewIsGood, InRow
  <2> QED BY <1>2, <2>2, <2>3, <2>7, MovedInv
<1>7. CASE ~(step[p] < 3) /\ "NewCapacity" \in CurrentRow(p).refused
  <2>1. Conclude(p, "refused")
    BY <1>1, <1>7 DEF NextStructure
  <2>2. Cause(p, Index(p))
    BY <1>7, RefusedByConstructor
  <2> QED BY <1>2, <2>1, <2>2, ConcludedInv DEF Outcomes
<1>8. CASE ~(step[p] < 3) /\ "NewCapacity" \notin CurrentRow(p).refused
  <2>1. MoveOn(p, "lookup")
    BY <1>1, <1>8 DEF NextStructure
  <2>2. Moved(p, "lookup", 1, NoView, results[p])
    BY <1>2, <2>1, MoveOnMoves
  <2>3. "lookup" \in InRow /\ 1 \in 1..6 /\ NoView \in [Aggregates -> Row]
    BY <1>2, NoViewFacts DEF InRow
  <2>4. /\ pc'[p] = "lookup" /\ step'[p] = 1
        /\ results'[p] = results[p] /\ batch'[p] = batch[p]
        /\ CurrentRow(p)' = CurrentRow(p)
    BY <2>2, <2>3, MovedPlace
  <2>5. \A k \in 1..3 : Present(store'[Structure(CurrentRow(p))[k]])
    BY <1>1, <1>5, <1>8
  <2>6. Ensured(p)'
    BY <2>4, <2>5 DEF Ensured
  <2>7. ControlInv(p)'
    BY <1>2, <2>4, <2>6 DEF ControlInv, AtARow, SoughtIsNew, SlotIsNew,
                           SlotIsRegistered, ViewIsGood
  <2> QED BY <1>2, <2>2, <2>3, <2>7, MovedInv
<1> QED BY <1>6, <1>7, <1>8

LEMMA ReuseInv ==
    ASSUME ImportInv, NEW p \in Imports, Reuse(p)
    PROVE  ImportInv'
<1>1. /\ pc[p] = "find" /\ store[Sought(p)].status = "Active" /\ NextStructure(p)
      /\ UNCHANGED <<store, announced, summaries, batch, caller, failures>>
  BY DEF Reuse
<1>2. Commits(p)
  BY <1>1, FailureFacts, QuietCommits DEF ImportInv
<1>3. Present(store'[Sought(p)])
  BY <1>1 DEF Present, Absent
<1> QED BY <1>1, <1>2, <1>3, NextStructureInv

(* Structure keeps the status it had when the service started.                *)
LEMMA InactiveIsCause ==
    ASSUME ImportInv, NEW p \in Imports, NEW k \in 1..3, CurrentRow(p) \in ImportRow,
           Present(store[Structure(CurrentRow(p))[k]]),
           store[Structure(CurrentRow(p))[k]].status # "Active"
    PROVE  Cause(p, Index(p))
<1> DEFINE a == Structure(CurrentRow(p))[k]
<1>1. a \in Aggregates /\ KindOf[a] # "slot"
  BY StructureKinds
<1>2. store[a].status = StatusFor(a)
  BY <1>1 DEF ImportInv, StoreInv, StatusesLast
<1>3. Loaded[a].status \notin {"Active", Absent}
  BY <1>2 DEF StatusFor, Present
<1> QED BY <1>3 DEF Cause, CurrentRow

LEMMA FindInactiveInv ==
    ASSUME ImportInv, NEW p \in Imports, FindInactive(p)
    PROVE  ImportInv'
<1>1. /\ pc[p] = "find"
      /\ Present(store[Sought(p)]) /\ store[Sought(p)].status # "Active"
      /\ Conclude(p, "refused")
      /\ UNCHANGED <<store, announced, summaries, batch, caller, failures>>
  BY DEF FindInactive
<1>2. Commits(p)
  BY <1>1, FailureFacts, QuietCommits DEF ImportInv
<1>3. Cause(p, Index(p))
  BY <1>1, SoughtFacts, InactiveIsCause
<1> QED BY <1>1, <1>2, <1>3, ConcludedInv, AtRowFacts DEF Outcomes, InRow

LEMMA FindNothingInv ==
    ASSUME ImportInv, NEW p \in Imports, FindNothing(p)
    PROVE  ImportInv'
<1>1. /\ pc[p] = "find" /\ ~Present(store[Sought(p)])
      /\ UNCHANGED <<store, announced, summaries, batch, caller, failures>>
  BY DEF FindNothing
<1>2. TypeOK /\ Len(results[p]) < Len(batch[p]) /\ pc[p] \in InRow
  BY <1>1, AtRowFacts DEF ImportInv, InRow
<1>3. Commits(p)
  BY <1>1, <1>2, FailureFacts, QuietCommits
<1>4. CASE Constructor[KindOf[Sought(p)]] \in CurrentRow(p).refused
  <2>1. Conclude(p, "refused")
    BY <1>4 DEF FindNothing
  <2>2. Cause(p, Index(p))
    BY <1>4, RefusedByConstructor
  <2> QED BY <1>1, <1>2, <1>3, <2>1, <2>2, ConcludedInv DEF Outcomes
<1>5. CASE Constructor[KindOf[Sought(p)]] \notin CurrentRow(p).refused
  <2>1. pc' = [pc EXCEPT ![p] = "create"] /\ UNCHANGED <<step, view, results>>
    BY <1>5 DEF FindNothing
  <2>2. Moved(p, "create", step[p], view[p], results[p])
    BY <1>1, <1>2, <2>1 DEF Moved, TypeOK
  <2>3. /\ "create" \in InRow /\ step[p] \in 1..6 /\ view[p] \in [Aggregates -> Row]
    BY <1>2, NoViewFacts DEF InRow, TypeOK
  <2>4. /\ pc'[p] = "create" /\ step'[p] = step[p]
        /\ results'[p] = results[p] /\ batch'[p] = batch[p]
        /\ CurrentRow(p)' = CurrentRow(p)
    BY <1>3, <2>2, <2>3, MovedPlace
  <2>5. AtARow(p)'
    BY <1>1, <1>2, <2>4, SoughtFacts DEF AtARow
  <2>6. Ensured(p)'
    BY <1>1, <2>4 DEF ImportInv, ControlInv, Ensured
  <2>7. SoughtIsNew(p)'
    <3>1. Sought(p)' = Sought(p)
      BY <2>4 DEF Sought
    <3>2. ~Present(Loaded[Sought(p)])
      BY <1>1, SoughtFacts DEF ImportInv, StoreInv, Grown
    <3> QED BY <3>1, <3>2 DEF SoughtIsNew
  <2>8. ControlInv(p)'
    BY <2>4, <2>5, <2>6, <2>7 DEF ControlInv, SlotIsNew, SlotIsRegistered, ViewIsGood
  <2> QED BY <1>1, <1>2, <1>3, <2>2, <2>3, <2>8, MovedInv
<1> QED BY <1>4, <1>5

LEMMA CreateInv ==
    ASSUME ImportInv, NEW p \in Imports, Create(p)
    PROVE  ImportInv'
<1> DEFINE a == Sought(p)
           attr == Described(CurrentRow(p), a)
           row == RegisteredRow(attr, p)
           e == [event |-> CreationOf[KindOf[a]], about |-> a, by |-> p, row |-> Index(p)]
<1>1. /\ pc[p] = "create"
      /\ store' = [store EXCEPT ![a] = row]
      /\ announced' = announced \cup {e}
      /\ \/ NextStructure(p) /\ UNCHANGED failures
         \/ Conclude(p, "failed") /\ Failure
      /\ UNCHANGED <<summaries, batch, caller>>
  BY DEF Create, Announce
<1>2. /\ a \in Aggregates /\ KindOf[a] \in {"site", "zone", "aisle"}
      /\ CurrentRow(p) \in ImportRow
      /\ \A b \in Custody(a) : b \in Aggregates /\ Present(store[b])
  BY <1>1, SoughtFacts
<1>3. p \in Writers /\ Index(p) \in Nat /\ TypeOK /\ StoreInv
  BY ImportAssumption, BatchFacts DEF ImportInv
<1>4. row \in Row /\ row.status = "Active"
  <2>1. attr \in Attributes
    <3>1. /\ KindOf[a] = "zone" => attr = CurrentRow(p).zone
          /\ KindOf[a] = "aisle" => attr = CurrentRow(p).direction
          /\ KindOf[a] = "site" => attr = None
      BY DEF Described
    <3>2. CurrentRow(p).zone \in ZoneAttributes /\ CurrentRow(p).direction \in Directions
      BY <1>2 DEF ImportRow
    <3> HIDE DEF attr
    <3> QED BY <1>2, <3>1, <3>2 DEF Attributes
  <2> HIDE DEF attr
  <2> QED BY <1>3, <2>1 DEF RegisteredRow, Row, Status
<1>5. e \in Announcement /\ e.about = a /\ e.by = p /\ e.row = Index(p)
  BY <1>2, <1>3, EventNames DEF Announcement
<1>6. ~Present(Loaded[a])
  BY <1>1 DEF ImportInv, ControlInv, SoughtIsNew
<1> HIDE DEF a, row, e
<1>7. Parents(a, row) = Custody(a)
  BY <1>2 DEF Parents, Named
<1>8. Writes(a, row, e)
  BY <1>1, <1>2, <1>4, <1>5, <1>6, <1>7 DEF Writes, Present, Absent, StatusFor
<1>9. /\ StoreInv' /\ Grows /\ RequestInv'
      /\ store' \in [Aggregates -> Row] /\ store'[a] = row
  BY <1>1, <1>2, <1>8, ImportWrites
<1>10. Commits(p)
  <2>1. announced' \in SUBSET Announcement
    BY <1>1, <1>3, <1>5 DEF TypeOK
  <2>2. failures' \in 0..MaxFailures
    BY <1>1, <1>3, FailureFacts
  <2> QED BY <1>1, <1>5, <1>9, <2>1, <2>2 DEF Commits
<1>11. CASE NextStructure(p)
  <2>1. Present(store'[Sought(p)])
    BY <1>4, <1>9 DEF a, Present, Absent
  <2>2. \A x \in announced' \ announced : KindOf[x.about] # "slot"
    BY <1>1, <1>2, <1>5
  <2> QED BY <1>1, <1>10, <1>11, <2>1, <2>2, NextStructureInv
<1>12. CASE Conclude(p, "failed")
  BY <1>1, <1>10, <1>12, ConcludedInv, AtRowFacts DEF Outcomes, InRow
<1> QED BY <1>1, <1>11, <1>12

(* A lookup of the registration reads what is committed ...                   *)
LEMMA SeenFacts ==
    ASSUME ImportInv, NEW p \in Imports, pc[p] = "lookup"
    PROVE  LET lookup == Lookups(Registration(CurrentRow(p)))[step[p]]
           IN /\ step[p] \in 1..6
              /\ CurrentRow(p) \in ImportRow
              /\ Len(Lookups(Registration(CurrentRow(p)))) = 6
              /\ lookup.rows \subseteq Aggregates
              /\ Seen(p) \in [Aggregates -> Row]
              /\ \A a \in lookup.rows : Seen(p)[a] = store[a]
<1> DEFINE lookup == Lookups(Registration(CurrentRow(p)))[step[p]]
<1>1. TypeOK /\ step[p] \in 1..6
  BY DEF ImportInv, TypeOK
<1>2. CurrentRow(p) \in ImportRow
  BY AtRowFacts DEF InRow
<1>3. /\ Registration(CurrentRow(p)) \in Commands
      /\ Len(Lookups(Registration(CurrentRow(p)))) = 6
  BY <1>2, RegistrationFacts
<1>4. lookup.rows \subseteq Aggregates
  BY <1>1, <1>3, LookupRows
<1>5. Seen(p) = [a \in Aggregates |-> IF a \in lookup.rows THEN store[a] ELSE view[p][a]]
  BY DEF Seen
<1>6. store \in [Aggregates -> Row] /\ view[p] \in [Aggregates -> Row]
  BY <1>1 DEF TypeOK
<1> HIDE DEF lookup
<1>7. Seen(p) \in [Aggregates -> Row] /\ \A a \in lookup.rows : Seen(p)[a] = store[a]
  BY <1>4, <1>5, <1>6
<1> QED BY <1>1, <1>2, <1>3, <1>4, <1>7 DEF lookup

(* ... so that it is met by what is committed, the slot first, the type fifth *)
(* and the rules last.                                                        *)
LEMMA LookupMeets ==
    ASSUME ImportInv, NEW p \in Imports, pc[p] = "lookup"
    PROVE  /\ step[p] = 1 =>
                 (LookupMet(p) <=> ~Present(store[CurrentRow(p).slot]))
           /\ \A k \in 1..3 : step[p] = k + 1 =>
                 (LookupMet(p) <=> store[Structure(CurrentRow(p))[k]].status = "Active")
           /\ step[p] = 5 =>
                 (LookupMet(p) <=> Present(store[CurrentRow(p).type]))
           /\ step[p] = 6 /\ ~LookupMet(p) =>
                 \/ "NewFunctionalAttributes" \in CurrentRow(p).refused
                 \/ \E rule \in EverDefined : HoldsAgainst(rule, CurrentRow(p).type)
<1> DEFINE row == CurrentRow(p)
           c == Registration(row)
           lookup == Lookups(c)[step[p]]
           seen == Seen(p)
<1>1. /\ row \in ImportRow /\ step[p] \in 1..6
      /\ \A a \in lookup.rows : seen[a] = store[a]
  BY SeenFacts
<1>2. /\ c.use = "RegisterLocationSlot" /\ c.target = row.slot /\ c.arg = row.type
      /\ Lookups(c)[1] = Find(row.slot, "absent")
      /\ Lookups(c)[2] = Find(Structure(row)[1], "active")
      /\ Lookups(c)[3] = Find(Structure(row)[2], "active")
      /\ Lookups(c)[4] = Find(Structure(row)[3], "active")
      /\ Lookups(c)[5] = Find(row.type, "present")
      /\ Lookups(c)[6] = [rows |-> RuleIds, must |-> "permits"]
  BY <1>1, RegistrationFacts
<1>3. LookupMet(p) <=> /\ Meets(c, lookup, seen)
                       /\ lookup.must = "permits" => "NewFunctionalAttributes" \notin row.refused
  BY DEF LookupMet
<1> HIDE DEF row, c, seen
<1>4. ASSUME step[p] = 1
      PROVE  LookupMet(p) <=> ~Present(store[row.slot])
  <2>1. lookup.rows = {row.slot} /\ lookup.must = "absent"
    BY <1>2, <1>4 DEF Find
  <2>2. Meets(c, lookup, seen) <=> \A a \in lookup.rows : ~Present(seen[a])
    BY <2>1 DEF Meets
  <2> QED BY <1>1, <1>3, <2>1, <2>2
<1>5. ASSUME NEW k \in 1..3, step[p] = k + 1
      PROVE  LookupMet(p) <=> store[Structure(row)[k]].status = "Active"
  <2>1. lookup = Find(Structure(row)[k], "active")
    <3>1. k = 1 \/ k = 2 \/ k = 3
      OBVIOUS
    <3> QED BY <1>2, <1>5, <3>1
  <2>2. lookup.rows = {Structure(row)[k]} /\ lookup.must = "active"
    BY <2>1 DEF Find
  <2>3. Meets(c, lookup, seen) <=> \A a \in lookup.rows : seen[a].status = "Active"
    BY <2>2 DEF Meets
  <2> QED BY <1>1, <1>3, <2>2, <2>3
<1>6. ASSUME step[p] = 5
      PROVE  LookupMet(p) <=> Present(store[row.type])
  <2>1. lookup.rows = {row.type} /\ lookup.must = "present"
    BY <1>2, <1>6 DEF Find
  <2>2. Meets(c, lookup, seen) <=> \A a \in lookup.rows : Present(seen[a])
    BY <2>1 DEF Meets
  <2> QED BY <1>1, <1>3, <2>1, <2>2
<1>7. ASSUME step[p] = 6, ~LookupMet(p), "NewFunctionalAttributes" \notin row.refused
      PROVE  \E rule \in EverDefined : HoldsAgainst(rule, row.type)
  <2>1. lookup.rows = RuleIds /\ lookup.must = "permits"
    BY <1>2, <1>7
  <2> DEFINE rules == {seen[r].attr : r \in {x \in lookup.rows : Present(seen[x])}}
             z == seen[ZoneOfSlot(c.target)].attr
  <2>2. Meets(c, lookup, seen) <=> Permits(rules, c.arg, z)
    BY <2>1 DEF Meets
  <2>3. ~Permits(rules, row.type, z)
    BY <1>2, <1>3, <1>7, <2>2
  <2> HIDE DEF z
  <2>4. \E x \in rules : HoldsAgainst(x, row.type)
    <3> HIDE DEF rules
    <3> QED BY <2>3, RefusedByRule
  <2>5. PICK r \in lookup.rows : Present(seen[r]) /\ HoldsAgainst(seen[r].attr, row.type)
    BY <2>4
  <2>6. r \in RuleIds /\ Present(store[r]) /\ seen[r].attr = store[r].attr
    BY <1>1, <2>1, <2>5
  <2>7. seen[r].attr \in EverDefined
    BY <2>6 DEF ImportInv, RequestInv, RulesAreDefined
  <2> QED BY <2>5, <2>7
<1> QED BY <1>4, <1>5, <1>6, <1>7 DEF row

LEMMA LookupPassesInv ==
    ASSUME ImportInv, NEW p \in Imports, LookupPasses(p)
    PROVE  ImportInv'
<1>1. /\ pc[p] = "lookup" /\ LookupMet(p)
      /\ view' = [view EXCEPT ![p] = Seen(p)]
      /\ UNCHANGED <<store, announced, summaries, batch, results, caller, failures>>
  BY DEF LookupPasses
<1>2. /\ TypeOK /\ Len(results[p]) < Len(batch[p]) /\ pc[p] \in InRow
      /\ CurrentRow(p) = batch[p][Index(p)]
  BY <1>1, AtRowFacts DEF ImportInv, InRow
<1>3. Commits(p)
  BY <1>1, <1>2, FailureFacts, QuietCommits
<1>4. /\ step[p] \in 1..6 /\ CurrentRow(p) \in ImportRow
      /\ Len(Lookups(Registration(CurrentRow(p)))) = 6
      /\ Seen(p) \in [Aggregates -> Row]
  BY <1>1, SeenFacts
<1>5. \A k \in 1..3 : Present(store'[Structure(CurrentRow(p))[k]])
  BY <1>1 DEF ImportInv, ControlInv, Ensured
<1>6. step[p] >= 5 => Present(store'[CurrentRow(p).type])
  <2>1. step[p] = 5 => Present(store[CurrentRow(p).type])
    BY <1>1, LookupMeets
  <2>2. step[p] > 5 => Present(store[CurrentRow(p).type])
    BY <1>1 DEF ImportInv, ControlInv, Ensured
  <2> QED BY <1>1, <1>4, <2>1, <2>2
<1>7. \A i \in Rows(p, {"succeeded"}) : batch[p][i].slot # CurrentRow(p).slot
  <2>1. CASE step[p] = 1
    <3>1. ~Present(store[CurrentRow(p).slot])
      BY <1>1, <2>1, LookupMeets
    <3>2. \A i \in Rows(p, {"succeeded"}) : Present(store[batch[p][i].slot])
      BY DEF ImportInv, OutcomeInv, Imported
    <3> QED BY <3>1, <3>2
  <2>2. CASE step[p] # 1
    BY <1>1, <1>4, <2>2 DEF ImportInv, ControlInv, SlotIsNew
  <2> QED BY <2>1, <2>2
<1>8. ASSUME NEW x \in {"lookup", "register"}, NEW k \in 1..6,
             Moved(p, x, k, Seen(p), results[p]), k > 5 \/ x = "register" => step[p] >= 5
      PROVE  ImportInv'
  <2>1. x \in InRow
    BY DEF InRow
  <2>2. /\ pc'[p] = x /\ step'[p] = k
        /\ results'[p] = results[p] /\ batch'[p] = batch[p]
        /\ CurrentRow(p)' = CurrentRow(p)
        /\ Rows(p, {"succeeded"})' = Rows(p, {"succeeded"})
    BY <1>3, <1>4, <1>8, <2>1, MovedPlace
  <2>3. Ensured(p)'
    BY <1>5, <1>6, <1>8, <2>2 DEF Ensured
  <2>4. SlotIsNew(p)'
    BY <1>7, <2>2 DEF SlotIsNew
  <2>5. ControlInv(p)'
    BY <1>2, <2>2, <2>3, <2>4 DEF ControlInv, AtARow, SoughtIsNew, SlotIsRegistered, ViewIsGood
  <2> QED BY <1>1, <1>2, <1>3, <1>4, <1>8, <2>1, <2>5, MovedInv
<1>9. CASE step[p] < 6
  <2>1. step' = [step EXCEPT ![p] = step[p] + 1] /\ UNCHANGED pc
    BY <1>4, <1>9 DEF LookupPasses
  <2>2. Moved(p, "lookup", step[p] + 1, Seen(p), results[p])
    BY <1>1, <1>2, <2>1 DEF Moved, TypeOK
  <2>3. step[p] + 1 \in 1..6 /\ (step[p] + 1 > 5 => step[p] >= 5)
    BY <1>4, <1>9
  <2> QED BY <1>8, <2>2, <2>3
<1>10. CASE ~(step[p] < 6)
  <2>1. step' = [step EXCEPT ![p] = 1] /\ pc' = [pc EXCEPT ![p] = "register"]
    BY <1>4, <1>10 DEF LookupPasses
  <2>2. Moved(p, "register", 1, Seen(p), results[p])
    BY <1>1, <1>2, <2>1 DEF Moved, TypeOK
  <2> QED BY <1>4, <1>8, <1>10, <2>2
<1> QED BY <1>9, <1>10

(* An announcement about the slot of a row that has not come to register it   *)
(* is somebody else's, or another row's.                                      *)
LEMMA PresentIsCause ==
    ASSUME ImportInv, NEW p \in Imports, pc[p] = "lookup",
           Present(store[CurrentRow(p).slot])
    PROVE  Cause(p, Index(p))
<1>1. CurrentRow(p).slot \in Aggregates /\ KindOf[CurrentRow(p).slot] = "slot"
  BY AtRowFacts, RowFacts DEF InRow
<1>2. CASE Present(Loaded[CurrentRow(p).slot])
  BY <1>2 DEF Cause, CurrentRow
<1>3. CASE ~Present(Loaded[CurrentRow(p).slot])
  <2>1. PICK e \in announced : e.about = CurrentRow(p).slot
    BY <1>1, <1>3 DEF ImportInv, StoreInv, Accounted
  <2>2. ~(e.by = p /\ e.row = Index(p))
    BY <1>1, <2>1 DEF ImportInv, OutcomeInv, Numbered
  <2> QED BY <2>1, <2>2 DEF Cause, CurrentRow
<1> QED BY <1>2, <1>3

LEMMA LookupRefusesInv ==
    ASSUME ImportInv, NEW p \in Imports, LookupRefuses(p)
    PROVE  ImportInv'
<1>1. /\ pc[p] = "lookup" /\ ~LookupMet(p) /\ Conclude(p, "refused")
      /\ UNCHANGED <<store, announced, summaries, batch, caller, failures>>
  BY DEF LookupRefuses
<1>2. Commits(p)
  BY <1>1, FailureFacts, QuietCommits DEF ImportInv
<1>3. step[p] \in 1..6 /\ CurrentRow(p) \in ImportRow
  BY <1>1, SeenFacts
<1>4. Cause(p, Index(p))
  <2>1. CASE step[p] = 1
    BY <1>1, <2>1, LookupMeets, PresentIsCause
  <2>2. CASE step[p] \in 2..4
    <3>1. PICK k \in 1..3 : step[p] = k + 1
      <4>1. step[p] - 1 \in 1..3 /\ step[p] = (step[p] - 1) + 1
        BY <2>2
      <4> QED BY <4>1
    <3>2. store[Structure(CurrentRow(p))[k]].status # "Active"
      BY <1>1, <3>1, LookupMeets
    <3>3. Present(store[Structure(CurrentRow(p))[k]])
      BY <1>1 DEF ImportInv, ControlInv, Ensured
    <3> QED BY <1>3, <3>2, <3>3, InactiveIsCause
  <2>3. CASE step[p] = 5
    <3>1. ~Present(store[CurrentRow(p).type])
      BY <1>1, <2>3, LookupMeets
    <3>2. ~Present(Loaded[CurrentRow(p).type])
      BY <1>3, <3>1, RowFacts DEF ImportInv, StoreInv, Grown
    <3> QED BY <3>2 DEF Cause, CurrentRow
  <2>4. CASE step[p] = 6
    <3>1. \/ "NewFunctionalAttributes" \in CurrentRow(p).refused
          \/ \E rule \in EverDefined : HoldsAgainst(rule, CurrentRow(p).type)
      BY <1>1, <2>4, LookupMeets
    <3> QED BY <3>1, RefusedByConstructor DEF Cause, CurrentRow
  <2> QED BY <1>3, <2>1, <2>2, <2>3, <2>4
<1> QED BY <1>1, <1>2, <1>4, ConcludedInv, AtRowFacts DEF Outcomes, InRow

LEMMA RegisterInv ==
    ASSUME ImportInv, NEW p \in Imports, Register(p)
    PROVE  ImportInv'
<1> DEFINE slot == CurrentRow(p).slot
           type == CurrentRow(p).type
           row == RegisteredRow(type, p)
           e == [event |-> "LocationSlotRegistered", about |-> slot, by |-> p, row |-> Index(p)]
<1>1. /\ pc[p] = "register"
      /\ store' = [store EXCEPT ![slot] = row]
      /\ announced' = announced \cup {e}
      /\ \/ MoveOn(p, "geometry") /\ UNCHANGED failures
         \/ Conclude(p, "failed") /\ Failure
      /\ UNCHANGED <<summaries, batch, caller>>
  BY DEF Register, Announce
<1>2. /\ CurrentRow(p) \in ImportRow /\ Len(results[p]) < Len(batch[p])
      /\ pc[p] \in InRow
  BY <1>1, AtRowFacts DEF InRow
<1>3. /\ slot \in Aggregates /\ KindOf[slot] = "slot"
      /\ type \in LocationTypes /\ type \in Aggregates
      /\ \A k \in 1..3 : Structure(CurrentRow(p))[k] \in Aggregates
      /\ Custody(slot) = {Structure(CurrentRow(p))[1], Structure(CurrentRow(p))[2],
                          Structure(CurrentRow(p))[3]}
  BY <1>2, RowFacts, StructureFacts, StructureKinds
<1>4. /\ \A k \in 1..3 : Present(store[Structure(CurrentRow(p))[k]])
      /\ Present(store[type])
  BY <1>1 DEF ImportInv, ControlInv, Ensured
<1>5. p \in Writers /\ Index(p) \in Nat /\ TypeOK /\ StoreInv
  BY ImportAssumption, BatchFacts DEF ImportInv
<1> HIDE DEF slot, type
<1>6. row \in Row /\ row.status = "Active" /\ row.attr = type
  BY <1>3, <1>5 DEF RegisteredRow, Row, Status, Attributes
<1>7. /\ e \in Announcement /\ e.about = slot /\ e.by = p /\ e.row = Index(p)
  BY <1>3, <1>5, EventNames DEF Announcement
<1> HIDE DEF row
<1>8. \A b \in Parents(slot, row) : b \in Aggregates /\ Present(store[b])
  <2>1. Parents(slot, row) = Custody(slot) \cup {type}
    BY <1>3, <1>6 DEF Parents, Named
  <2>2. \A b \in Custody(slot) : b \in Aggregates /\ Present(store[b])
    BY <1>3, <1>4
  <2> QED BY <1>3, <1>4, <2>1, <2>2
<1> HIDE DEF e
<1>9. Writes(slot, row, e)
  BY <1>1, <1>3, <1>6, <1>7, <1>8 DEF Writes, Present, Absent
<1>10. /\ StoreInv' /\ Grows /\ RequestInv'
       /\ store' \in [Aggregates -> Row] /\ store'[slot] = row
  BY <1>1, <1>3, <1>9, ImportWrites
<1>11. Commits(p)
  <2>1. announced' \in SUBSET Announcement
    BY <1>1, <1>5, <1>7 DEF TypeOK
  <2>2. failures' \in 0..MaxFailures
    BY <1>1, <1>5, FailureFacts
  <2> QED BY <1>1, <1>7, <1>10, <2>1, <2>2 DEF Commits
<1>12. CASE MoveOn(p, "geometry")
  <2>1. Moved(p, "geometry", 1, NoView, results[p])
    BY <1>1, <1>5, <1>12, MoveOnMoves
  <2>2. "geometry" \in InRow /\ 1 \in 1..6 /\ NoView \in [Aggregates -> Row]
    BY <1>5, NoViewFacts DEF InRow
  <2>3. /\ pc'[p] = "geometry" /\ step'[p] = 1
        /\ results'[p] = results[p] /\ batch'[p] = batch[p]
        /\ CurrentRow(p)' = CurrentRow(p) /\ Index(p)' = Index(p)
        /\ Rows(p, {"succeeded"})' = Rows(p, {"succeeded"})
    BY <1>11, <2>1, <2>2, MovedPlace
  <2>4. \A k \in 1..3 : Present(store'[Structure(CurrentRow(p))[k]])
    BY <1>3, <1>4, <1>10 DEF Grows
  <2>5. Ensured(p)'
    BY <2>3, <2>4 DEF Ensured
  <2>6. SlotIsNew(p)'
    BY <1>1, <2>3 DEF ImportInv, ControlInv, SlotIsNew
  <2>7. SlotIsRegistered(p)'
    <3>1. Present(store'[slot])
      BY <1>6, <1>10 DEF Present, Absent
    <3>2. AnnouncedBy(p, Index(p), "LocationSlotRegistered", slot)'
      <4>1. slot' = slot
        BY <2>3 DEF slot
      <4> QED BY <1>1, <2>3, <4>1 DEF AnnouncedBy, e
    <3>3. slot' = slot /\ slot = CurrentRow(p).slot
      BY <2>3 DEF slot
    <3> QED BY <2>3, <3>1, <3>2, <3>3 DEF SlotIsRegistered, slot
  <2>8. ControlInv(p)'
    BY <1>2, <2>3, <2>5, <2>6, <2>7 DEF ControlInv, AtARow, SoughtIsNew, ViewIsGood
  <2> QED BY <1>2, <1>11, <2>1, <2>2, <2>8, MovedInv
<1>13. CASE Conclude(p, "failed")
  BY <1>1, <1>2, <1>11, <1>13, ConcludedInv DEF Outcomes
<1> QED BY <1>1, <1>12, <1>13

LEMMA NoGeometryInv ==
    ASSUME ImportInv, NEW p \in Imports, NoGeometry(p)
    PROVE  ImportInv'
<1>1. /\ pc[p] = "geometry" /\ CurrentRow(p).geometry = None /\ Conclude(p, "succeeded")
      /\ UNCHANGED <<store, announced, summaries, batch, caller, failures>>
  BY DEF NoGeometry
<1>2. Commits(p)
  BY <1>1, FailureFacts, QuietCommits DEF ImportInv
<1> QED BY <1>1, <1>2, ConcludedInv, AtRowFacts DEF Outcomes, InRow

LEMMA LocateInv ==
    ASSUME ImportInv, NEW p \in Imports, Locate(p)
    PROVE  ImportInv'
<1> DEFINE slot == CurrentRow(p).slot
<1>1. /\ pc[p] = "geometry"
      /\ UNCHANGED <<store, announced, summaries, batch, caller, failures>>
  BY DEF Locate
<1>2. /\ TypeOK /\ Len(results[p]) < Len(batch[p]) /\ pc[p] \in InRow
      /\ CurrentRow(p) \in ImportRow
  BY <1>1, AtRowFacts DEF ImportInv, InRow
<1>3. Commits(p)
  BY <1>1, <1>2, FailureFacts, QuietCommits
<1>4. slot \in LocationSlots /\ slot \in Aggregates /\ Present(store[slot])
  BY <1>1, <1>2, RowFacts DEF ImportInv, ControlInv, SlotIsRegistered
<1>5. CASE MayPosition(p)
  <2> DEFINE v == [view[p] EXCEPT ![slot] = store[slot]]
  <2>1. /\ pc' = [pc EXCEPT ![p] = "position"]
        /\ view' = [view EXCEPT ![p] = v]
        /\ UNCHANGED <<step, results>>
    BY <1>5 DEF Locate
  <2>2. v \in [Aggregates -> Row] /\ v[slot] = store[slot]
    BY <1>2, <1>4 DEF TypeOK
  <2> HIDE DEF v
  <2>3. Moved(p, "position", step[p], v, results[p])
    BY <1>1, <1>2, <2>1 DEF Moved, TypeOK
  <2>4. "position" \in InRow /\ step[p] \in 1..6
    BY <1>2 DEF InRow, TypeOK
  <2>5. /\ pc'[p] = "position" /\ view'[p] = v
        /\ results'[p] = results[p] /\ batch'[p] = batch[p]
        /\ CurrentRow(p)' = CurrentRow(p) /\ Index(p)' = Index(p)
        /\ Rows(p, {"succeeded"})' = Rows(p, {"succeeded"})
    BY <1>3, <2>2, <2>3, <2>4, MovedPlace
  <2>6. Ensured(p)'
    BY <1>1, <2>5 DEF ImportInv, ControlInv, Ensured
  <2>7. SlotIsNew(p)'
    BY <1>1, <2>5 DEF ImportInv, ControlInv, SlotIsNew
  <2>8. SlotIsRegistered(p)'
    BY <1>1, <2>5 DEF ImportInv, ControlInv, SlotIsRegistered, AnnouncedBy
  <2>9. ViewIsGood(p)'
    <3>1. view'[p][CurrentRow(p).slot] = store[CurrentRow(p).slot]
      BY <2>2, <2>5
    <3>2. store[CurrentRow(p).slot].status # "Decommissioned"
      BY <1>5 DEF MayPosition
    <3>3. \A b \in Parents(CurrentRow(p).slot, store[CurrentRow(p).slot]) :
              b \in Aggregates /\ Present(store[b])
      BY <1>4 DEF ImportInv, StoreInv, ChainOfCustody, Custodial
    <3> QED BY <1>1, <1>4, <2>5, <3>1, <3>2, <3>3 DEF ViewIsGood
  <2>10. ControlInv(p)'
    BY <1>2, <2>5, <2>6, <2>7, <2>8, <2>9 DEF ControlInv, AtARow, SoughtIsNew
  <2> QED BY <1>1, <1>2, <1>3, <2>2, <2>3, <2>4, <2>10, MovedInv
<1>6. CASE ~MayPosition(p)
  <2>1. Conclude(p, "refused")
    BY <1>6 DEF Locate
  <2>2. Cause(p, Index(p))
    <3>1. CASE "NewDimensions" \in CurrentRow(p).refused
      BY <3>1, RefusedByConstructor
    <3>2. CASE "NewDimensions" \notin CurrentRow(p).refused
      <4>1. store[slot].status = "Decommissioned"
        BY <1>4, <1>6, <3>2 DEF MayPosition
      <4>2. Present(Loaded[slot]) \/ \E e \in announced : e.about = slot /\ e.by \notin Imports
        BY <1>4, <4>1 DEF ImportInv, StoreInv, RetiredByOthers
      <4> QED BY <4>2 DEF Cause, CurrentRow
    <3> QED BY <3>1, <3>2
  <2> QED BY <1>1, <1>2, <1>3, <2>1, <2>2, ConcludedInv DEF Outcomes
<1> QED BY <1>5, <1>6

LEMMA PositionInv ==
    ASSUME ImportInv, NEW p \in Imports, Position(p)
    PROVE  ImportInv'
<1> DEFINE slot == CurrentRow(p).slot
           seen == view[p][slot]
           row == PositionedRow(seen, CurrentRow(p).geometry, p)
           e == [event |-> "LocationGeometryUpdated", about |-> slot, by |-> p, row |-> Index(p)]
<1>1. /\ pc[p] = "position"
      /\ store' = [store EXCEPT ![slot] = row]
      /\ announced' = announced \cup {e}
      /\ \/ Conclude(p, "succeeded") /\ UNCHANGED failures
         \/ Conclude(p, "failed") /\ Failure
      /\ UNCHANGED <<summaries, batch, caller>>
  BY DEF Position, Announce
<1>2. /\ CurrentRow(p) \in ImportRow /\ Len(results[p]) < Len(batch[p])
      /\ pc[p] \in InRow
  BY <1>1, AtRowFacts DEF InRow
<1>3. /\ slot \in Aggregates /\ KindOf[slot] = "slot"
      /\ CurrentRow(p).geometry \in Geometries \cup {None}
  BY <1>2, RowFacts
<1>4. /\ Present(seen) /\ seen.status # "Decommissioned"
      /\ \A b \in Parents(slot, seen) : b \in Aggregates /\ Present(store[b])
  BY <1>1 DEF ImportInv, ControlInv, ViewIsGood
<1>5. p \in Writers /\ Index(p) \in Nat /\ TypeOK /\ StoreInv /\ seen \in Row
  BY <1>3, ImportAssumption, BatchFacts DEF ImportInv, TypeOK
<1> HIDE DEF slot, seen
<1>6. row \in Row /\ row.status = seen.status /\ row.attr = seen.attr
  BY <1>3, <1>5 DEF PositionedRow, Row
<1>7. e \in Announcement /\ e.about = slot /\ e.by = p /\ e.row = Index(p)
  BY <1>3, <1>5, EventNames DEF Announcement
<1> HIDE DEF row
<1>8. Parents(slot, row) = Parents(slot, seen)
  BY <1>6 DEF Parents
<1>9. /\ e \in announced'
      /\ e = [event |-> "LocationGeometryUpdated", about |-> CurrentRow(p).slot,
              by |-> p, row |-> Index(p)]
  BY <1>1 DEF slot
<1> HIDE DEF e
<1>10. Writes(slot, row, e)
  BY <1>1, <1>3, <1>4, <1>6, <1>7, <1>8 DEF Writes, Present
<1>11. StoreInv' /\ Grows /\ RequestInv' /\ store' \in [Aggregates -> Row]
  BY <1>1, <1>3, <1>10, ImportWrites
<1>12. Commits(p)
  <2>1. announced' \in SUBSET Announcement
    BY <1>1, <1>5, <1>7 DEF TypeOK
  <2>2. failures' \in 0..MaxFailures
    BY <1>1, <1>5, FailureFacts
  <2> QED BY <1>1, <1>7, <1>11, <2>1, <2>2 DEF Commits
<1>13. CASE Conclude(p, "succeeded")
  BY <1>1, <1>2, <1>9, <1>12, <1>13, ConcludedInv DEF Outcomes
<1>14. CASE Conclude(p, "failed")
  BY <1>1, <1>2, <1>12, <1>14, ConcludedInv DEF Outcomes
<1> QED BY <1>1, <1>13, <1>14

LEMMA FalterInv ==
    ASSUME ImportInv, NEW p \in Imports, Falter(p)
    PROVE  ImportInv'
<1>1. /\ pc[p] \in InRow /\ Conclude(p, "failed") /\ Failure
      /\ UNCHANGED <<store, announced, summaries, batch, caller>>
  BY DEF Falter
<1>2. Commits(p)
  BY <1>1, FailureFacts, QuietCommits DEF ImportInv
<1> QED BY <1>1, <1>2, ConcludedInv, AtRowFacts DEF Outcomes

(* The rows behind an import are counted.                                     *)
LEMMA RowsAreFinite ==
    ASSUME TypeOK, NEW p \in Imports, NEW S
    PROVE  IsFiniteSet(Rows(p, S)) /\ Cardinality(Rows(p, S)) \in Nat
<1>1. IsFiniteSet(1..Len(results[p]))
  BY BatchFacts, FS_Interval
<1>2. Rows(p, S) \in SUBSET (1..Len(results[p]))
  BY RowsFacts
<1> QED BY <1>1, <1>2, FS_Subset, FS_CardinalityType

LEMMA SummariseInv ==
    ASSUME ImportInv, NEW p \in Imports, Summarise(p)
    PROVE  ImportInv'
<1>1. /\ pc[p] = "row" /\ Len(results[p]) = Len(batch[p])
      /\ summaries' = [summaries EXCEPT ![p] = @ \cup {Counts(p)}]
      /\ \/ pc' = [pc EXCEPT ![p] = "reported"] /\ UNCHANGED failures
         \/ pc' = [pc EXCEPT ![p] = "failed"] /\ Failure
      /\ UNCHANGED <<store, announced, batch, step, view, results, caller>>
  BY DEF Summarise
<1>2. TypeOK /\ StoreInv /\ OutcomeInv(p)
  BY DEF ImportInv
<1>3. summaries[p] = {}
  BY <1>1, <1>2 DEF OutcomeInv, SummaryIsOfAll
<1>4. /\ summaries'[p] = {Counts(p)} /\ pc'[p] \in {"reported", "failed"}
      /\ \A q \in Imports \ {p} : summaries'[q] = summaries[q] /\ pc'[q] = pc[q]
  BY <1>1, <1>2, <1>3 DEF TypeOK
<1>5. TypeOK'
  <2>1. Counts(p) \in Summary
    BY <1>2, RowsAreFinite, BatchFacts DEF Counts, Summary
  <2>2. summaries' \in [Imports -> SUBSET Summary]
    BY <1>1, <1>2, <2>1 DEF TypeOK
  <2>3. pc' \in [Imports -> {"idle"} \cup InFlight \cup Answered]
    BY <1>1, <1>2 DEF TypeOK, Answered
  <2>4. failures' \in 0..MaxFailures
    BY <1>1, <1>2, FailureFacts
  <2> QED BY <1>1, <1>2, <2>2, <2>3, <2>4 DEF TypeOK
<1>6. StoreInv' /\ Grows /\ RequestInv'
  BY <1>1, <1>2, FailureFacts, QuietCommits DEF Commits
<1>7. ControlInv(p)'
  BY <1>4 DEF ControlInv, AtARow, Ensured, SoughtIsNew, SlotIsNew, SlotIsRegistered,
              ViewIsGood, InRow
<1>8. OutcomeInv(p)'
  <2>1. /\ \A S : Rows(p, S)' = Rows(p, S)
        /\ Index(p)' = Index(p)
    BY <1>1 DEF Rows, Index
  <2>2. /\ \A i \in Rows(p, {"succeeded"})' : Imported(p, i)'
        /\ \A i \in Rows(p, {"refused"})' : Cause(p, i)'
    BY <1>1, <1>2, <1>6, <2>1, RowsFacts, ImportedLasts, CauseLasts DEF OutcomeInv
  <2>3. OneSlotEach(p)'
    BY <1>1, <1>2, <2>1 DEF OutcomeInv, OneSlotEach
  <2>4. Numbered(p)'
    BY <1>1, <1>2, <2>1 DEF OutcomeInv, Numbered
  <2>5. Counts(p)' = Counts(p)
    BY <1>1, <2>1 DEF Counts
  <2>6. SummaryIsOfAll(p)'
    BY <1>1, <1>4, <2>5 DEF SummaryIsOfAll
  <2> QED BY <2>2, <2>3, <2>4, <2>6 DEF OutcomeInv
<1>9. \A q \in Imports \ {p} : ControlInv(q)' /\ OutcomeInv(q)'
  BY <1>1, <1>4, <1>6, OthersKept DEF SameAsBefore
<1> QED BY <1>5, <1>6, <1>7, <1>8, <1>9 DEF ImportInv

LEMMA DieInv ==
    ASSUME ImportInv, NEW p \in Imports, Die(p)
    PROVE  ImportInv'
<1>1. /\ pc[p] \in InFlight
      /\ pc' = [pc EXCEPT ![p] = "failed"]
      /\ step' = [step EXCEPT ![p] = 1]
      /\ view' = [view EXCEPT ![p] = NoView]
      /\ Failure
      /\ UNCHANGED <<store, announced, summaries, batch, results, caller>>
  BY DEF Die
<1>2. TypeOK /\ OutcomeInv(p)
  BY DEF ImportInv
<1>3. Commits(p)
  BY <1>1, <1>2, FailureFacts, QuietCommits
<1>4. Moved(p, "failed", 1, NoView, results[p])
  BY <1>1, <1>2 DEF Moved, TypeOK
<1>5. /\ "failed" \in Places /\ 1 \in 1..6 /\ NoView \in [Aggregates -> Row]
      /\ results[p] \in Seq(Outcomes) /\ Len(results[p]) <= Len(batch[p])
  BY <1>2, NoViewFacts, BatchFacts DEF Places, Answered
<1>6. /\ TypeOK'
      /\ pc'[p] = "failed" /\ results'[p] = results[p]
      /\ batch'[p] = batch[p] /\ summaries'[p] = summaries[p]
      /\ \A q \in Imports \ {p} : SameAsBefore(q)
  BY <1>2, <1>3, <1>4, <1>5, MovedFacts
<1>7. StoreInv' /\ Grows /\ RequestInv'
  BY <1>3 DEF Commits
<1>8. ControlInv(p)'
  BY <1>6 DEF ControlInv, AtARow, Ensured, SoughtIsNew, SlotIsNew, SlotIsRegistered,
              ViewIsGood, InRow
<1>9. OutcomeInv(p)'
  BY <1>1, <1>2, <1>6, <1>7, OutcomeKept
<1>10. \A q \in Imports \ {p} : ControlInv(q)' /\ OutcomeInv(q)'
  BY <1>1, <1>6, <1>7, OthersKept
<1> QED BY <1>6, <1>7, <1>8, <1>9, <1>10 DEF ImportInv

(* An update looks its row up, once.                                          *)
LEMMA UpdateLooksOnce ==
    ASSUME NEW c \in Commands, c.use \in Updates
    PROVE  /\ Len(Lookups(c)) = 1
           /\ c.target \in Lookups(c)[1].rows
           /\ Lookups(c)[1].must = "not decommissioned"
<1> DEFINE used == Find(c.target, "not decommissioned")
<1>1. Lookups(c) = <<used>>
  BY LookupsOf DEF Updates, DecommissionLocationSlotLookups, SetLocationGeometryLookups,
                   SetAisleGeometryLookups
<1>2. c.target \in used.rows /\ used.must = "not decommissioned"
  BY DEF Find
<1> HIDE DEF used
<1>3. Len(Lookups(c)) = 1 /\ Lookups(c)[1] = used
  BY <1>1
<1> QED BY <1>2, <1>3

LEMMA CallerFacts ==
    ASSUME TypeOK, NEW w \in Callers
    PROVE  /\ caller[w] \in Request
           /\ caller[w].cmd \in Workload /\ caller[w].cmd \in Commands
           /\ caller[w].cmd.target \in Aggregates
           /\ caller[w].cmd.use \in UseCases
           /\ caller[w].view \in [Aggregates -> Row]
           /\ w \in Writers /\ w \notin Imports
<1>1. caller[w] \in Request
  BY DEF TypeOK
<1>2. caller[w].cmd \in Workload /\ caller[w].view \in [Aggregates -> Row]
  BY <1>1 DEF Request
<1>3. caller[w].cmd \in Commands
  BY <1>2, ImportAssumption
<1> QED BY <1>1, <1>2, <1>3, CommandFacts DEF Callers

(* A request that is not answered yet moves, and takes back no rule.          *)
LEMMA CallerMoves ==
    ASSUME TypeOK, NEW w \in Callers, NEW r \in Request, r.cmd = caller[w].cmd,
           caller[w].at # "answered", caller' = [caller EXCEPT ![w] = r]
    PROVE  /\ caller' \in [Callers -> Request]
           /\ caller'[w] = r
           /\ \A v \in Callers \ {w} : caller'[v] = caller[v]
           /\ EverDefined \subseteq EverDefined'
<1>1. caller \in [Callers -> Request]
  BY DEF TypeOK
<1>2. /\ caller' \in [Callers -> Request]
      /\ caller'[w] = r
      /\ \A v \in Callers \ {w} : caller'[v] = caller[v]
  BY <1>1
<1>3. \A x \in Callers : caller[x].at = "answered" => caller'[x] = caller[x]
  BY <1>2
<1>4. EverDefined \subseteq EverDefined'
  BY <1>3 DEF EverDefined
<1> QED BY <1>2, <1>4

LEMMA RequestKeeps ==
    ASSUME ImportInv, NEW w \in Callers, NEW r \in Request, r.cmd = caller[w].cmd,
           caller[w].at # "answered", caller' = [caller EXCEPT ![w] = r],
           UNCHANGED <<imports, failures>>, StoreInv', Grows,
           store' \in [Aggregates -> Row], announced' \in SUBSET Announcement,
           \A e \in announced' \ announced : e.by = w,
           RulesAreDefined', Prepared(w)'
    PROVE  ImportInv'
<1>1. TypeOK /\ UNCHANGED <<summaries, pc, batch, step, view, results, failures>>
  BY DEF ImportInv, imports
<1>2. /\ caller' \in [Callers -> Request]
      /\ \A v \in Callers \ {w} : caller'[v] = caller[v]
  BY <1>1, CallerMoves
<1>3. TypeOK'
  BY <1>1, <1>2 DEF TypeOK
<1>4. RequestInv'
  <2>1. \A v \in Callers \ {w} : Prepared(v)'
    BY <1>1, <1>2, PreparedLasts DEF ImportInv, RequestInv
  <2> QED BY <2>1 DEF RequestInv
<1>5. \A q \in Imports : ControlInv(q)' /\ OutcomeInv(q)'
  <2>1. \A q \in Imports : SameAsBefore(q)
    BY <1>1 DEF SameAsBefore
  <2>2. \A q \in Imports : \A x \in announced' \ announced : x.by # q
    BY DEF Callers
  <2> QED BY <2>1, <2>2, OthersKept
<1> QED BY <1>3, <1>4, <1>5 DEF ImportInv

(* A lookup that is passed shows what is there.                               *)
AskedOn(w) ==
    LET more == caller[w].step < Len(Lookups(caller[w].cmd))
    IN [at   |-> IF more THEN "asking" ELSE "saving",
        cmd  |-> caller[w].cmd,
        step |-> IF more THEN caller[w].step + 1 ELSE 1,
        view |-> Read(w)]

LEMMA AskFacts ==
    ASSUME ImportInv, NEW w \in Callers, Ask(w)
    PROVE  /\ UNCHANGED <<store, announced, imports, failures>>
           /\ caller[w].at = "asking"
           /\ caller[w].step \in 1..Len(Lookups(caller[w].cmd))
           /\ AskedOn(w) \in Request
           /\ caller' = [caller EXCEPT ![w] = AskedOn(w)]
           /\ caller'[w] = AskedOn(w)
           /\ \A k \in Passed(w)' : k \in Passed(w) \/ k = caller[w].step
           /\ LookupOf(w).rows \subseteq Aggregates
           /\ \A b \in LookupOf(w).rows : Read(w)[b] = store[b]
           /\ Meets(caller[w].cmd, LookupOf(w), Read(w))
<1> DEFINE c == caller[w].cmd
           n == caller[w].step
           len == Len(Lookups(c))
<1>1. TypeOK /\ caller[w] \in Request /\ c \in Commands /\ c \in Workload
      /\ caller[w].view \in [Aggregates -> Row]
  BY CallerFacts DEF ImportInv
<1>2. /\ caller[w].at = "asking"
      /\ Meets(c, LookupOf(w), Read(w))
      /\ UNCHANGED <<store, announced, imports, failures>>
      /\ caller' = [caller EXCEPT ![w] = AskedOn(w)]
  BY <1>1 DEF Ask, AskedOn, TypeOK
<1>3. n \in 1..len /\ len \in Nat
  <2>1. Lookups(c) \in Seq(Lookup)
    BY <1>1, LookupFacts DEF LookedUp
  <2> QED BY <1>2, <2>1 DEF ImportInv, RequestInv, Prepared, AtALookup
<1>4. LookupOf(w).rows \subseteq Aggregates
  BY <1>1, <1>3, LookupRows DEF LookupOf
<1>5. /\ Read(w) \in [Aggregates -> Row]
      /\ \A b \in LookupOf(w).rows : Read(w)[b] = store[b]
  BY <1>1, <1>4 DEF Read, TypeOK
<1>6. AskedOn(w) \in Request
  BY <1>1, <1>3, <1>5 DEF AskedOn, Request
<1>7. caller'[w] = AskedOn(w)
  BY <1>1, <1>2 DEF TypeOK
<1>8. /\ caller'[w].cmd = c
      /\ caller'[w].at = "asking" => caller'[w].step = n + 1
  BY <1>7 DEF AskedOn
<1>9. caller'[w].at = "saving" => n = len
  BY <1>3, <1>7 DEF AskedOn
<1>10. \A k \in Passed(w)' : k \in Passed(w) \/ k = n
  <2>1. SUFFICES ASSUME NEW k \in 1..len,
                        \/ caller'[w].at = "asking" /\ k < caller'[w].step
                        \/ caller'[w].at = "saving"
                 PROVE  k < n \/ k = n
    BY <1>2, <1>8 DEF Passed
  <2> QED BY <1>3, <1>8, <1>9, <2>1
<1> QED BY <1>2, <1>3, <1>4, <1>5, <1>6, <1>7, <1>10

LEMMA AskInv ==
    ASSUME ImportInv, NEW w \in Callers, Ask(w)
    PROVE  ImportInv'
<1> DEFINE c == caller[w].cmd
           a == c.target
           n == caller[w].step
<1>1. /\ UNCHANGED <<store, announced, imports, failures>>
      /\ caller[w].at = "asking" /\ n \in 1..Len(Lookups(c))
      /\ AskedOn(w) \in Request /\ AskedOn(w).cmd = c
      /\ caller' = [caller EXCEPT ![w] = AskedOn(w)] /\ caller'[w] = AskedOn(w)
      /\ \A k \in Passed(w)' : k \in Passed(w) \/ k = n
      /\ LookupOf(w).rows \subseteq Aggregates
      /\ \A b \in LookupOf(w).rows : Read(w)[b] = store[b]
      /\ Meets(c, LookupOf(w), Read(w))
  BY AskFacts DEF AskedOn
<1>2. /\ TypeOK /\ StoreInv /\ RequestInv /\ c \in Commands /\ a \in Aggregates
      /\ c.use \in UseCases
  BY CallerFacts DEF ImportInv
<1>3. EverDefined \subseteq EverDefined'
  BY <1>1, <1>2, CallerMoves
<1>4. StoreInv' /\ Grows
  BY <1>1, <1>2, <1>3, QuietKeepsStore
<1>5. RulesAreDefined'
  BY <1>1, <1>2, <1>3 DEF RequestInv, RulesAreDefined
<1>6. caller'[w].cmd = c
  BY <1>1
<1>7. AtALookup(w)'
  <2>1. Len(Lookups(c)) \in Nat
    BY <1>2, LookupFacts DEF LookedUp
  <2>2. caller'[w].at = "asking" => caller'[w].step = n + 1 /\ n < Len(Lookups(c))
    BY <1>1 DEF AskedOn
  <2>3. caller'[w].at = "asking" => caller'[w].step \in 1..Len(Lookups(c))
    BY <1>1, <2>1, <2>2
  <2> QED BY <1>6, <2>3 DEF AtALookup
<1>8. Found(w)'
  <2> SUFFICES ASSUME NEW k \in Passed(w)', NEW b \in Lookups(c)[k].rows
               PROVE  /\ Lookups(c)[k].must \in Presence => Present(store[b])
                      /\ Lookups(c)[k].must = "absent" => ~Present(Loaded[b])
    BY <1>1, <1>6 DEF Found
  <2>1. CASE k \in Passed(w)
    BY <1>2, <2>1 DEF RequestInv, Prepared, Found
  <2>2. CASE k = n
    <3>1. b \in LookupOf(w).rows /\ LookupOf(w) = Lookups(c)[k]
      BY <2>2 DEF LookupOf
    <3>2. LookupOf(w).must \in Presence => Present(Read(w)[b])
      BY <1>1, <3>1, MetIsPresent
    <3>3. LookupOf(w).must = "absent" => ~Present(Read(w)[b])
      BY <1>1, <3>1 DEF Meets
    <3>4. Read(w)[b] = store[b] /\ b \in Aggregates
      BY <1>1, <3>1
    <3> QED BY <1>2, <3>1, <3>2, <3>3, <3>4 DEF StoreInv, Grown
  <2> QED BY <1>1, <2>1, <2>2
<1>9. Resavable(w)'
  <2> SUFFICES ASSUME c.use \in Updates, caller'[w].at = "saving"
               PROVE  /\ Present(Read(w)[a])
                      /\ \A b \in Parents(a, Read(w)[a]) : b \in Aggregates /\ Present(store[b])
                      /\ KindOf[a] # "slot" => Read(w)[a].status = StatusFor(a)
    <3>1. caller'[w].view = Read(w) /\ store' = store
      BY <1>1 DEF AskedOn
    <3> HIDE DEF c
    <3> QED BY <1>6, <3>1 DEF Resavable, StatusFor
  <2>1. Len(Lookups(c)) = 1 /\ a \in Lookups(c)[1].rows
        /\ Lookups(c)[1].must = "not decommissioned"
    BY <1>2, UpdateLooksOnce
  <2>2. n = 1
    <3>1. n \in 1..Len(Lookups(c))
      BY <1>1
    <3>2. Len(Lookups(c)) = 1
      BY <2>1
    <3> HIDE DEF c, n
    <3> QED BY <3>1, <3>2
  <2>3. a \in LookupOf(w).rows /\ LookupOf(w).must = "not decommissioned"
    BY <2>1, <2>2 DEF LookupOf
  <2>4. Read(w)[a] = store[a] /\ Present(store[a])
    BY <1>1, <2>3 DEF Meets
  <2> QED BY <1>2, <2>4 DEF StoreInv, ChainOfCustody, Custodial, StatusesLast
<1>10. Prepared(w)'
  BY <1>7, <1>8, <1>9 DEF Prepared
<1>11. store' \in [Aggregates -> Row] /\ announced' \in SUBSET Announcement
  BY <1>1, <1>2 DEF TypeOK
<1> QED BY <1>1, <1>4, <1>5, <1>10, <1>11, RequestKeeps

(* A request gives up.                                                        *)
LEMMA GiveUpFacts ==
    ASSUME ImportInv, NEW w \in Callers, GiveUp(w)
    PROVE  /\ UNCHANGED <<store, announced, imports, failures>>
           /\ caller[w].at # "answered"
           /\ Sent(caller[w].cmd) \in Request
           /\ caller' = [caller EXCEPT ![w] = Sent(caller[w].cmd)]
           /\ caller'[w].at = "asking" /\ caller'[w].step = 1
           /\ caller'[w].cmd = caller[w].cmd
           /\ Passed(w)' = {}
<1>1. TypeOK /\ caller[w].cmd \in Workload /\ caller[w].cmd \in Commands
  BY CallerFacts DEF ImportInv
<1>2. /\ caller[w].at # "answered"
      /\ UNCHANGED <<store, announced, imports, failures>>
      /\ caller' = [caller EXCEPT ![w] = Sent(caller[w].cmd)]
  BY <1>1 DEF GiveUp, TypeOK
<1>3. Sent(caller[w].cmd) \in Request
  BY <1>1 DEF Sent, Request, NoView, NoRow, Row, Attributes
<1>4. caller'[w] = Sent(caller[w].cmd)
  BY <1>1, <1>2 DEF TypeOK
<1>5. /\ caller'[w].at = "asking" /\ caller'[w].step = 1
      /\ caller'[w].cmd = caller[w].cmd
  BY <1>4 DEF Sent
<1>6. Passed(w)' = {}
  <2>1. Len(Lookups(caller[w].cmd)) \in Nat
    BY <1>1, LookupFacts DEF LookedUp
  <2> QED BY <1>5, <2>1 DEF Passed
<1> QED BY <1>2, <1>3, <1>5, <1>6

LEMMA GiveUpInv ==
    ASSUME ImportInv, NEW w \in Callers, GiveUp(w)
    PROVE  ImportInv'
<1>1. /\ UNCHANGED <<store, announced, imports, failures>>
      /\ caller[w].at # "answered"
      /\ Sent(caller[w].cmd) \in Request /\ Sent(caller[w].cmd).cmd = caller[w].cmd
      /\ caller' = [caller EXCEPT ![w] = Sent(caller[w].cmd)]
      /\ caller'[w].at = "asking" /\ caller'[w].step = 1
      /\ caller'[w].cmd = caller[w].cmd
      /\ Passed(w)' = {}
  BY GiveUpFacts DEF Sent
<1>2. TypeOK /\ StoreInv /\ RequestInv /\ caller[w].cmd \in Commands
  BY CallerFacts DEF ImportInv
<1>3. EverDefined \subseteq EverDefined'
  BY <1>1, <1>2, CallerMoves
<1>4. StoreInv' /\ Grows
  BY <1>1, <1>2, <1>3, QuietKeepsStore
<1>5. RulesAreDefined'
  BY <1>1, <1>2, <1>3 DEF RequestInv, RulesAreDefined
<1>6. Prepared(w)'
  <2>1. Len(Lookups(caller[w].cmd)) \in Nat /\ Len(Lookups(caller[w].cmd)) >= 1
    BY <1>2, LookupFacts DEF LookedUp
  <2>2. AtALookup(w)'
    BY <1>1, <2>1 DEF AtALookup
  <2>3. Found(w)'
    BY <1>1 DEF Found
  <2>4. Resavable(w)'
    BY <1>1 DEF Resavable
  <2> QED BY <2>2, <2>3, <2>4 DEF Prepared
<1>7. store' \in [Aggregates -> Row] /\ announced' \in SUBSET Announcement
  BY <1>1, <1>2 DEF TypeOK
<1> QED BY <1>1, <1>4, <1>5, <1>6, <1>7, RequestKeeps

(* What a request was shown is enough for what it saves.                      *)
Saved(w) ==
    LET c == caller[w].cmd
    IN Upsert(c.target, store[c.target], RowWritten(c, caller[w].view[c.target], w))

LEMMA SavedFacts ==
    ASSUME ImportInv, NEW w \in Callers, caller[w].at = "saving"
    PROVE  LET c == caller[w].cmd
               a == c.target
           IN /\ Saved(w) \in Row /\ Present(Saved(w))
              /\ c.use \in Registrations => /\ ~Present(Loaded[a])
                                            /\ DemandedAs(c, a, "absent")
                                            /\ Saved(w).status = "Active"
              /\ KindOf[a] = "rule" => Saved(w).attr = c.arg
              /\ c.use \in Updates => Saved(w).attr = caller[w].view[a].attr
              /\ \A b \in Parents(a, Saved(w)) : b \in Aggregates /\ Present(store[b])
              /\ KindOf[a] # "slot" => Saved(w).status = StatusFor(a)
<1> DEFINE c == caller[w].cmd
           a == c.target
           old == caller[w].view[a]
           row == RowWritten(c, old, w)
           after == Saved(w)
<1>1. /\ TypeOK /\ StoreInv /\ Prepared(w) /\ c \in Commands /\ a \in Aggregates
      /\ c.use \in UseCases /\ w \in Writers /\ old \in Row /\ store[a] \in Row
  BY CallerFacts DEF ImportInv, RequestInv, TypeOK
<1>2. /\ row \in Row
      /\ c.use \in Registrations => Present(row) /\ row.status = "Active" /\ row.attr = c.arg
      /\ c.use = "SetAisleGeometry" => row.status = old.status
      /\ c.use \in Updates => row.attr = old.attr /\ (Present(old) => Present(row))
  BY <1>1, RowWrittenFacts
<1>3. /\ after \in Row /\ after.status = row.status
      /\ Present(after) <=> Present(row)
      /\ \/ after.attr = row.attr
         \/ KindOf[a] = "structure" /\ Present(store[a]) /\ after.attr = store[a].attr
      /\ KindOf[a] # "structure" => after = row
  BY <1>1, <1>2, UpsertFacts DEF Saved
<1>4. c.use \in Registrations \/ c.use \in Updates
  BY <1>1 DEF Registrations
<1>5. c.use \in Updates => KindOf[a] \in {"slot", "aisle"}
  BY <1>1, CommandFacts, KindFacts DEF Updates
<1>6. Passed(w) = 1..Len(Lookups(c))
  BY DEF Passed
<1>7. /\ \A b : Demanded(c, b) => b \in Aggregates /\ Present(store[b])
      /\ \A b : DemandedAs(c, b, "absent") => ~Present(Loaded[b])
  BY <1>1, <1>6, LookupRows DEF Prepared, Found, Demanded, DemandedAs
<1>8. c.use \in Updates =>
         /\ Present(old)
         /\ \A b \in Parents(a, old) : b \in Aggregates /\ Present(store[b])
         /\ KindOf[a] # "slot" => old.status = StatusFor(a)
  BY <1>1 DEF Prepared, Resavable
<1> HIDE DEF c, a, old, row, after
<1>9. Present(after)
  BY <1>2, <1>3, <1>4, <1>8
<1>10. c.use \in Registrations =>
          /\ ~Present(Loaded[a]) /\ DemandedAs(c, a, "absent") /\ after.status = "Active"
          /\ \A b \in NeededBy(c) : b \in Aggregates /\ Present(store[b])
  BY <1>1, <1>2, <1>3, <1>7, LookupFacts DEF LookedUp, a
<1>11. KindOf[a] = "rule" => after.attr = c.arg
  BY <1>2, <1>3, <1>4, <1>5
<1>12. c.use \in Updates => after.attr = old.attr
  BY <1>2, <1>3, <1>5
<1>13. \A b \in Parents(a, after) : b \in Aggregates /\ Present(store[b])
  <2>1. CASE after.attr = store[a].attr /\ Present(store[a])
    <3>1. Parents(a, after) = Parents(a, store[a])
      BY <2>1 DEF Parents
    <3> QED BY <1>1, <2>1, <3>1 DEF StoreInv, ChainOfCustody, Custodial
  <2>2. CASE after.attr = row.attr /\ c.use \in Registrations
    <3>1. Parents(a, after) = NeededBy(c)
      BY <1>2, <2>2 DEF Parents, NeededBy, a
    <3> QED BY <1>10, <2>2, <3>1
  <2>3. CASE c.use \in Updates
    <3>1. Parents(a, after) = Parents(a, old)
      BY <1>12, <2>3 DEF Parents
    <3> QED BY <1>8, <2>3, <3>1
  <2> QED BY <1>3, <1>4, <2>1, <2>2, <2>3
<1>14. KindOf[a] # "slot" => after.status = StatusFor(a)
  <2>1. CASE c.use \in Registrations
    BY <1>10, <2>1 DEF StatusFor
  <2>2. CASE c.use \in Updates
    <3>1. KindOf[a] # "slot" => c.use = "SetAisleGeometry"
      BY <1>1, <2>2, CommandFacts, KindFacts DEF Updates, a
    <3> QED BY <1>2, <1>3, <1>8, <2>2, <3>1
  <2> QED BY <1>4, <2>1, <2>2
<1> QED BY <1>3, <1>9, <1>10, <1>11, <1>12, <1>13, <1>14 DEF c, a, old, after

LEMMA CommitFacts ==
    ASSUME ImportInv, NEW w \in Callers, Commit(w)
    PROVE  LET c == caller[w].cmd
               a == c.target
               e == [event |-> EventOf[c.use], about |-> a, by |-> w, row |-> 0]
               r == [at |-> "answered", cmd |-> c, step |-> 1, view |-> NoView]
           IN /\ caller[w].at = "saving" /\ UNCHANGED <<imports, failures>>
              /\ store' = [store EXCEPT ![a] = Saved(w)]
              /\ announced' = announced \cup {e}
              /\ e \in Announcement
              /\ r \in Request
              /\ caller' = [caller EXCEPT ![w] = r]
              /\ caller'[w] = r
              /\ Passed(w)' = {}
              /\ a \in Aggregates /\ c \in Commands /\ c.use \in UseCases
<1> DEFINE c == caller[w].cmd
           a == c.target
           e == [event |-> EventOf[c.use], about |-> a, by |-> w, row |-> 0]
           r == [at |-> "answered", cmd |-> c, step |-> 1, view |-> NoView]
<1>1. /\ TypeOK /\ c \in Workload /\ c \in Commands /\ a \in Aggregates
      /\ c.use \in UseCases /\ w \in Writers
  BY CallerFacts DEF ImportInv
<1>2. /\ caller[w].at = "saving" /\ UNCHANGED <<imports, failures>>
      /\ store' = [store EXCEPT ![a] = Saved(w)]
      /\ announced' = announced \cup {e}
      /\ caller' = [caller EXCEPT ![w] = r]
  BY <1>1 DEF Commit, Saved, TypeOK
<1>3. e \in Announcement
  BY <1>1 DEF Announcement, Events
<1>4. r \in Request
  BY <1>1 DEF Request, NoView, NoRow, Row, Attributes
<1>5. caller'[w] = r
  BY <1>1, <1>2 DEF TypeOK
<1>6. Passed(w)' = {}
  BY <1>5 DEF Passed
<1> QED BY <1>1, <1>2, <1>3, <1>4, <1>5, <1>6

LEMMA CommitInv ==
    ASSUME ImportInv, NEW w \in Callers, Commit(w)
    PROVE  ImportInv'
<1> DEFINE c == caller[w].cmd
           a == c.target
           e == [event |-> EventOf[c.use], about |-> a, by |-> w, row |-> 0]
           r == [at |-> "answered", cmd |-> c, step |-> 1, view |-> NoView]
<1>1. /\ caller[w].at = "saving" /\ UNCHANGED <<imports, failures>>
      /\ store' = [store EXCEPT ![a] = Saved(w)]
      /\ announced' = announced \cup {e}
      /\ e \in Announcement /\ r \in Request
      /\ caller' = [caller EXCEPT ![w] = r] /\ caller'[w] = r
      /\ Passed(w)' = {}
      /\ a \in Aggregates /\ c \in Commands
  BY CommitFacts
<1>2. /\ TypeOK /\ StoreInv /\ RequestInv /\ w \notin Imports
  BY CallerFacts DEF ImportInv
<1>3. /\ Saved(w) \in Row /\ Present(Saved(w))
      /\ KindOf[a] = "rule" => Saved(w).attr = c.arg
      /\ \A b \in Parents(a, Saved(w)) : b \in Aggregates /\ Present(store[b])
      /\ KindOf[a] # "slot" => Saved(w).status = StatusFor(a)
  BY <1>1, SavedFacts
<1>4. e.about = a /\ e.by = w /\ r.cmd = c /\ r.at = "answered"
  OBVIOUS
<1> HIDE DEF c, a, e, r
<1>5. Writes(a, Saved(w), e)
  BY <1>1, <1>2, <1>3, <1>4 DEF Writes
<1>6. EverDefined \subseteq EverDefined'
  BY <1>1, <1>2, <1>4, CallerMoves DEF c
<1>7. /\ StoreInv' /\ Grows
      /\ store' \in [Aggregates -> Row]
      /\ store'[a] = Saved(w)
      /\ \A b \in Aggregates \ {a} : store'[b] = store[b]
  BY <1>2, <1>5, <1>6, WritesKeepsStore
<1>8. RulesAreDefined'
  <2> SUFFICES ASSUME NEW x \in RuleIds, Present(store'[x])
               PROVE  store'[x].attr \in EverDefined'
    BY DEF RulesAreDefined
  <2>1. x \in Aggregates /\ KindOf[x] = "rule"
    BY KindFacts
  <2>2. CASE x = a
    <3>1. store'[x].attr = c.arg
      BY <1>3, <1>7, <2>1, <2>2
    <3>2. caller'[w].at = "answered" /\ caller'[w].cmd = c /\ c.target \in RuleIds
      BY <1>1, <1>4, <2>2 DEF a
    <3> QED BY <3>1, <3>2 DEF EverDefined
  <2>3. CASE x # a
    BY <1>2, <1>6, <1>7, <2>1, <2>3 DEF RequestInv, RulesAreDefined
  <2> QED BY <2>2, <2>3
<1>9. Prepared(w)'
  <2>1. caller'[w].at = "answered"
    BY <1>1, <1>4
  <2>2. AtALookup(w)' /\ Resavable(w)'
    BY <2>1 DEF AtALookup, Resavable
  <2>3. Found(w)'
    BY <1>1 DEF Found
  <2> QED BY <2>2, <2>3 DEF Prepared
<1>10. announced' \in SUBSET Announcement /\ \A x \in announced' \ announced : x.by = w
  BY <1>1, <1>2, <1>4 DEF TypeOK
<1>11. r.cmd = caller[w].cmd /\ caller[w].at # "answered"
  BY <1>1, <1>4 DEF c
<1> QED BY <1>1, <1>7, <1>8, <1>9, <1>10, <1>11, RequestKeeps

LEMMA StutterInv ==
    ASSUME ImportInv, UNCHANGED vars
    PROVE  ImportInv'
<1>1. UNCHANGED <<store, announced, summaries, pc, batch, step, view, results, caller,
                  failures>>
  BY DEF vars, imports
<1>2. TypeOK'
  BY <1>1 DEF ImportInv, TypeOK
<1>3. StoreInv' /\ Grows /\ RequestInv'
  BY <1>1, QuietCommits DEF Commits, ImportInv, TypeOK
<1>4. \A q \in Imports : ControlInv(q)' /\ OutcomeInv(q)'
  BY <1>1, <1>3, OthersKept DEF SameAsBefore
<1> QED BY <1>2, <1>3, <1>4 DEF ImportInv

LEMMA NextInv == ImportInv /\ [Next]_vars => ImportInv'
<1> SUFFICES ASSUME ImportInv, [Next]_vars
             PROVE  ImportInv'
  OBVIOUS
<1>1. ASSUME NEW p \in Imports, Submit(p) PROVE ImportInv'
  BY <1>1, SubmitInv
<1>2. ASSUME NEW p \in Imports, Advance(p) PROVE ImportInv'
  BY <1>2, BeginInv, ReuseInv, FindInactiveInv, FindNothingInv, CreateInv,
     LookupPassesInv, LookupRefusesInv, RegisterInv, NoGeometryInv, LocateInv,
     PositionInv, SummariseInv DEF Advance
<1>3. ASSUME NEW p \in Imports, Falter(p) \/ Die(p) PROVE ImportInv'
  BY <1>3, FalterInv, DieInv
<1>4. ASSUME NEW w \in Callers, Ask(w) \/ GiveUp(w) \/ Commit(w) PROVE ImportInv'
  BY <1>4, AskInv, GiveUpInv, CommitInv
<1>5. ASSUME UNCHANGED vars PROVE ImportInv'
  BY <1>5, StutterInv
<1> QED BY <1>1, <1>2, <1>3, <1>4, <1>5 DEF Next, AllAnswered
-----------------------------------------------------------------------------
(* The theorems.                                                              *)

(* In every behaviour of the import and of the requests beside it, what is    *)
(* committed, where each import is and what it has behind it agree.           *)
THEOREM Invariant == Spec => []ImportInv
<1> QED BY InitInv, NextInv, PTL DEF Spec

(* The state has its types: no import has more outcomes than rows.            *)
THEOREM TypeCorrect == Spec => []TypeOK
<1>1. ImportInv => TypeOK
  BY DEF ImportInv
<1> QED BY <1>1, Invariant, PTL

(* However imports of one building interleave, and wherever one of them stops *)
(* or fails, every committed row hangs from committed rows.                   *)
THEOREM CustodyHolds == Spec => []ChainOfCustody
<1>1. ImportInv => ChainOfCustody
  BY DEF ImportInv, StoreInv
<1> QED BY <1>1, Invariant, PTL

(* What the report says was imported is there, was registered by this very    *)
(* row and no other, and was positioned if the row has a position.            *)
THEOREM ImportedIsThere == Spec => []SucceededIsImported
<1>1. ImportInv => SucceededIsImported
  BY DEF ImportInv, OutcomeInv, Imported, SucceededIsImported
<1> QED BY <1>1, Invariant, PTL

(* A row the report says was refused had a cause of its own.                  *)
THEOREM RefusalsHaveCauses == Spec => []RefusedForCause
<1>1. ImportInv => RefusedForCause
  BY DEF ImportInv, OutcomeInv, RefusedForCause
<1> QED BY <1>1, Invariant, PTL

(* Two rows that succeeded are of two slots, so the slots are as many.        *)
LEMMA SlotsAreRows ==
    ASSUME ImportInv, NEW p \in Imports
    PROVE  Cardinality({batch[p][i].slot : i \in Rows(p, {"succeeded"})})
           = Cardinality(Rows(p, {"succeeded"}))
<1> DEFINE S == Rows(p, {"succeeded"})
           T == {batch[p][i].slot : i \in S}
           f == [i \in S |-> batch[p][i].slot]
<1>1. \A i, j \in S : batch[p][i].slot = batch[p][j].slot => i = j
  BY DEF ImportInv, OutcomeInv, OneSlotEach
<1>2. IsFiniteSet(S)
  BY RowsAreFinite DEF ImportInv
<1>3. f \in [S -> T] /\ \A i \in S : f[i] = batch[p][i].slot
  OBVIOUS
<1>4. \A i, j \in S : f[i] = f[j] => i = j
  BY <1>1, <1>3
<1>5. \A t \in T : \E i \in S : f[i] = t
  BY <1>3
<1> HIDE DEF S, T, f
<1>6. f \in Injection(S, T) /\ f \in Surjection(S, T)
  BY <1>3, <1>4, <1>5 DEF Injection, Surjection, IsInjective
<1>7. Cardinality(T) = Cardinality(S)
  BY <1>2, <1>6, FS_Surjection
<1> QED BY <1>7 DEF S, T

(* Every row behind an import either succeeded or did not.                    *)
LEMMA RowsAddUp ==
    ASSUME TypeOK, NEW p \in Imports
    PROVE  Cardinality(Rows(p, {"succeeded"})) + Cardinality(Rows(p, {"refused", "failed"}))
           = Len(results[p])
<1> DEFINE S == Rows(p, {"succeeded"})
           T == Rows(p, {"refused", "failed"})
           n == Len(results[p])
<1>1. S \cup T = 1..n
  <2>1. \A i \in 1..n : results[p][i] \in Outcomes
    BY BatchFacts
  <2> QED BY <2>1 DEF Rows, Outcomes
<1>2. S \cap T = {}
  BY DEF Rows
<1>3. /\ IsFiniteSet(S) /\ IsFiniteSet(T)
      /\ Cardinality(S) \in Nat /\ Cardinality(T) \in Nat
  BY RowsAreFinite
<1>4. n \in Nat
  BY BatchFacts
<1> HIDE DEF S, T, n
<1>5. Cardinality(1..n) = n
  BY <1>4, FS_Interval
<1>6. Cardinality(S \cap T) = 0
  BY <1>2, FS_EmptySet
<1>7. Cardinality(S \cup T) = Cardinality(S) + Cardinality(T) - Cardinality(S \cap T)
  BY <1>3, FS_Union
<1>8. Cardinality(S) + Cardinality(T) = n
  <2>1. Cardinality(S \cup T) = n
    BY <1>1, <1>5, Zenon
  <2>2. n = Cardinality(S) + Cardinality(T) - 0
    BY <1>6, <1>7, <2>1, Zenon
  <2> QED BY <1>3, <2>2
<1> QED BY <1>8 DEF S, T, n

(* The one summary an import announces counts slots: as many as it registered *)
(* to the end, no slot twice and no row left out.                             *)
THEOREM SummariesAreTrue == Spec => []SummaryCountsSlots
<1>1. ImportInv => SummaryCountsSlots
  <2> SUFFICES ASSUME ImportInv, NEW p \in Imports, NEW s \in summaries[p]
               PROVE  /\ summaries[p] = {s}
                      /\ s.imported = Cardinality({batch[p][i].slot : i \in Rows(p, {"succeeded"})})
                      /\ s.imported + s.rejected = s.submitted
    BY DEF SummaryCountsSlots
  <2>1. /\ summaries[p] = {s} /\ s = Counts(p) /\ Len(results[p]) = Len(batch[p])
    BY DEF ImportInv, OutcomeInv, SummaryIsOfAll
  <2>2. /\ s.submitted = Len(batch[p])
        /\ s.imported = Cardinality(Rows(p, {"succeeded"}))
        /\ s.rejected = Cardinality(Rows(p, {"refused", "failed"}))
    BY <2>1 DEF Counts
  <2>3. s.imported = Cardinality({batch[p][i].slot : i \in Rows(p, {"succeeded"})})
    BY <2>2, SlotsAreRows
  <2>4. s.imported + s.rejected = s.submitted
    BY <2>1, <2>2, RowsAddUp DEF ImportInv
  <2> QED BY <2>1, <2>3, <2>4
<1> QED BY <1>1, Invariant, PTL
-----------------------------------------------------------------------------
(* What is settled stays settled.                                             *)
(* A step leaves a row as it is for the map, and does not register it again.  *)
LeavesAlone(a) ==
    /\ Present(store'[a])
    /\ store'[a].attr = store[a].attr
    /\ \A e \in announced' \ announced :
          ~(e.about = a /\ e.event \in RegistrationEvents)

(* A step of an import is a step of no other.                                 *)
LEMMA ConcludeFacts ==
    ASSUME TypeOK, NEW p \in Imports, NEW o, Conclude(p, o)
    PROVE  /\ pc'[p] = "row"
           /\ \A q \in Imports \ {p} :
                 /\ pc'[q] = pc[q] /\ step'[q] = step[q] /\ view'[q] = view[q]
                 /\ results'[q] = results[q]
BY DEF Conclude, TypeOK

LEMMA MoveOnFacts ==
    ASSUME TypeOK, NEW p \in Imports, NEW x, MoveOn(p, x)
    PROVE  /\ pc'[p] = x /\ step'[p] = 1
           /\ \A q \in Imports \ {p} :
                 /\ pc'[q] = pc[q] /\ step'[q] = step[q] /\ view'[q] = view[q]
                 /\ results'[q] = results[q]
BY DEF MoveOn, TypeOK

LEMMA NextStructureFacts ==
    ASSUME TypeOK, NEW p \in Imports, NextStructure(p)
    PROVE  /\ pc'[p] \in {"find", "row"} \/ (pc'[p] = "lookup" /\ step'[p] = 1)
           /\ \A q \in Imports \ {p} :
                 /\ pc'[q] = pc[q] /\ step'[q] = step[q] /\ view'[q] = view[q]
                 /\ results'[q] = results[q]
<1>1. CASE /\ pc' = [pc EXCEPT ![p] = "find"]
           /\ step' = [step EXCEPT ![p] = @ + 1]
           /\ UNCHANGED <<view, results>>
  BY <1>1 DEF TypeOK
<1>2. CASE Conclude(p, "refused")
  BY <1>2, ConcludeFacts
<1>3. CASE MoveOn(p, "lookup")
  BY <1>3, MoveOnFacts
<1> QED BY <1>1, <1>2, <1>3 DEF NextStructure

(* An import that saves nothing it has not just looked for redefines nothing. *)
LEMMA Harmless ==
    ASSUME NEW p, NEW a,
           \/ pc'[p] \notin {"create", "lookup", "register", "position"}
           \/ pc'[p] = "lookup" /\ step'[p] = 1
    PROVE  ~MayRedefine(p, a)'
BY DEF MayRedefine

LEMMA SettledKept ==
    ASSUME ImportInv, NEW a \in Aggregates, Settled(a), LeavesAlone(a), UNCHANGED caller,
           NEW p \in Imports, ~MayRedefine(p, a)',
           \A q \in Imports \ {p} : SameAsBefore(q)
    PROVE  Settled(a)'
<1>1. ASSUME NEW q \in Imports \ {p}
      PROVE  ~MayRedefine(q, a)'
  <2>1. /\ pc'[q] = pc[q] /\ step'[q] = step[q] /\ view'[q] = view[q]
        /\ results'[q] = results[q] /\ batch'[q] = batch[q]
    BY DEF SameAsBefore
  <2>2. CurrentRow(q)' = CurrentRow(q) /\ Sought(q)' = Sought(q)
    BY <2>1 DEF CurrentRow, Sought, Index
  <2>3. ~MayRedefine(q, a)
    BY DEF Settled
  <2> QED BY <2>1, <2>2, <2>3 DEF MayRedefine, LeavesAlone
<1>2. \A q \in Imports : ~MayRedefine(q, a)'
  BY <1>1
<1>3. \A w \in Callers : ~RequestMayRedefine(w, a)'
  BY DEF Settled, RequestMayRedefine, Passed, LeavesAlone
<1> QED BY <1>2, <1>3 DEF Settled, LeavesAlone

LEMMA QuietLeaves ==
    ASSUME NEW a, Settled(a), UNCHANGED <<store, announced>>
    PROVE  LeavesAlone(a)
BY DEF Settled, LeavesAlone

(* What an import saves, other than a position, is none of what is settled.   *)
LEMMA WriteLeaves ==
    ASSUME TypeOK, NEW a \in Aggregates, Settled(a), NEW b, b # a, NEW row, NEW e,
           e.about = b, store' = [store EXCEPT ![b] = row], announced' = announced \cup {e}
    PROVE  LeavesAlone(a)
<1>1. store'[a] = store[a]
  BY DEF TypeOK
<1> QED BY <1>1 DEF LeavesAlone, Settled

(* The steps that save nothing.                                               *)
LEMMA QuietSettles ==
    ASSUME ImportInv, NEW p \in Imports, NEW a \in Aggregates, Settled(a),
           Submit(p) \/ Begin(p) \/ Reuse(p) \/ FindInactive(p) \/ FindNothing(p)
           \/ LookupRefuses(p) \/ NoGeometry(p) \/ Falter(p) \/ Summarise(p) \/ Die(p)
    PROVE  Settled(a)' /\ LeavesAlone(a)
<1>1. TypeOK
  BY DEF ImportInv
<1>2. UNCHANGED <<store, announced, caller>>
  BY DEF Submit, Begin, Reuse, FindInactive, FindNothing, LookupRefuses, NoGeometry,
         Falter, Summarise, Die
<1>3. LeavesAlone(a) /\ UNCHANGED caller
  BY <1>2, QuietLeaves
<1>4. ASSUME NEW o, Conclude(p, o), UNCHANGED <<batch, summaries>>
      PROVE  Settled(a)'
  BY <1>1, <1>3, <1>4, ConcludeFacts, Harmless, SettledKept DEF SameAsBefore
<1>5. CASE Submit(p)
  <2>1. /\ pc'[p] \in {"refused", "row"}
        /\ \A q \in Imports \ {p} : SameAsBefore(q)
    BY <1>1, <1>5 DEF Submit, SameAsBefore, TypeOK
  <2> QED BY <1>3, <2>1, Harmless, SettledKept
<1>6. CASE Begin(p)
  <2>1. CASE Conclude(p, "refused")
    BY <1>3, <1>4, <1>6, <2>1 DEF Begin
  <2>2. CASE MoveOn(p, "find")
    BY <1>1, <1>3, <1>6, <2>2, MoveOnFacts, Harmless, SettledKept DEF SameAsBefore, Begin
  <2> QED BY <1>6, <2>1, <2>2 DEF Begin
<1>7. CASE Reuse(p)
  <2>1. NextStructure(p) /\ batch' = batch /\ summaries' = summaries
    BY <1>7 DEF Reuse
  <2>2. \A q \in Imports \ {p} : SameAsBefore(q)
    BY <1>1, <2>1, NextStructureFacts DEF SameAsBefore
  <2>3. ~MayRedefine(p, a)'
    BY <1>1, <2>1, NextStructureFacts, Harmless
  <2> QED BY <1>3, <2>2, <2>3, SettledKept
<1>8. CASE FindInactive(p)
  BY <1>3, <1>4, <1>8 DEF FindInactive
<1>9. CASE FindNothing(p)
  <2>1. CASE Conclude(p, "refused")
    BY <1>3, <1>4, <1>9, <2>1 DEF FindNothing
  <2>2. CASE pc' = [pc EXCEPT ![p] = "create"] /\ UNCHANGED <<step, view, results>>
    <3>1. /\ pc'[p] = "create" /\ \A q \in Imports \ {p} : SameAsBefore(q)
      BY <1>1, <1>9, <2>2 DEF FindNothing, SameAsBefore, TypeOK
    <3>2. Sought(p)' = Sought(p)
      BY <1>9, <2>2 DEF FindNothing, Sought, CurrentRow, Index
    <3>3. Sought(p) # a
      BY <1>9 DEF FindNothing, Settled
    <3>4. ~MayRedefine(p, a)'
      BY <3>1, <3>2, <3>3 DEF MayRedefine
    <3> QED BY <1>3, <3>1, <3>4, SettledKept
  <2> QED BY <1>9, <2>1, <2>2 DEF FindNothing
<1>10. CASE LookupRefuses(p)
  BY <1>3, <1>4, <1>10 DEF LookupRefuses
<1>11. CASE NoGeometry(p)
  BY <1>3, <1>4, <1>11 DEF NoGeometry
<1>12. CASE Falter(p)
  BY <1>3, <1>4, <1>12 DEF Falter
<1>13. CASE Summarise(p)
  <2>1. /\ pc'[p] \in {"reported", "failed"}
        /\ \A q \in Imports \ {p} : SameAsBefore(q)
    BY <1>1, <1>13 DEF Summarise, SameAsBefore, TypeOK
  <2> QED BY <1>3, <2>1, Harmless, SettledKept
<1>14. CASE Die(p)
  <2>1. /\ pc'[p] = "failed"
        /\ \A q \in Imports \ {p} : SameAsBefore(q)
    BY <1>1, <1>14 DEF Die, SameAsBefore, TypeOK
  <2> QED BY <1>3, <2>1, Harmless, SettledKept
<1> QED BY <1>3, <1>5, <1>6, <1>7, <1>8, <1>9, <1>10, <1>11, <1>12, <1>13, <1>14

(* A lookup of a slot that is settled is not passed.                          *)
LEMMA LookupPassesSettles ==
    ASSUME ImportInv, NEW p \in Imports, NEW a \in Aggregates, Settled(a), LookupPasses(p)
    PROVE  Settled(a)' /\ LeavesAlone(a)
<1>1. /\ pc[p] = "lookup" /\ LookupMet(p)
      /\ view' = [view EXCEPT ![p] = Seen(p)]
      /\ UNCHANGED <<store, announced, summaries, batch, results, caller, failures>>
  BY DEF LookupPasses
<1>2. TypeOK /\ step[p] \in 1..6
  BY <1>1, SeenFacts DEF ImportInv
<1>3. LeavesAlone(a) /\ UNCHANGED caller
  BY <1>1, QuietLeaves
<1>4. /\ pc'[p] \in {"lookup", "register"}
      /\ \A q \in Imports \ {p} : SameAsBefore(q)
  BY <1>1, <1>2 DEF LookupPasses, SameAsBefore, TypeOK
<1>5. CurrentRow(p).slot # a
  <2>1. CASE step[p] = 1
    BY <1>1, <2>1, LookupMeets DEF Settled
  <2>2. CASE step[p] > 1
    BY <1>1, <2>2 DEF Settled, MayRedefine
  <2> QED BY <1>2, <2>1, <2>2
<1>6. CurrentRow(p)' = CurrentRow(p)
  BY <1>1 DEF CurrentRow, Index
<1>7. ~MayRedefine(p, a)'
  BY <1>4, <1>5, <1>6 DEF MayRedefine
<1> QED BY <1>3, <1>4, <1>7, SettledKept

(* Structure is created and slots are registered where nothing is settled.    *)
LEMMA CreateSettles ==
    ASSUME ImportInv, NEW p \in Imports, NEW a \in Aggregates, Settled(a), Create(p)
    PROVE  Settled(a)' /\ LeavesAlone(a)
<1> DEFINE row == RegisteredRow(Described(CurrentRow(p), Sought(p)), p)
           e == [event |-> CreationOf[KindOf[Sought(p)]], about |-> Sought(p), by |-> p,
                 row |-> Index(p)]
<1>1. /\ pc[p] = "create"
      /\ store' = [store EXCEPT ![Sought(p)] = row]
      /\ announced' = announced \cup {e}
      /\ NextStructure(p) \/ Conclude(p, "failed")
      /\ UNCHANGED <<summaries, batch, caller>>
  BY DEF Create, Announce
<1>2. Sought(p) # a
  BY <1>1 DEF Settled, MayRedefine
<1>3. e.about = Sought(p)
  OBVIOUS
<1> HIDE DEF row, e
<1>4. TypeOK
  BY DEF ImportInv
<1>5. LeavesAlone(a)
  BY <1>1, <1>2, <1>3, <1>4, WriteLeaves
<1>6. CASE NextStructure(p)
  BY <1>1, <1>4, <1>5, <1>6, NextStructureFacts, Harmless, SettledKept DEF SameAsBefore
<1>7. CASE Conclude(p, "failed")
  BY <1>1, <1>4, <1>5, <1>7, ConcludeFacts, Harmless, SettledKept DEF SameAsBefore
<1> QED BY <1>1, <1>5, <1>6, <1>7

LEMMA RegisterSettles ==
    ASSUME ImportInv, NEW p \in Imports, NEW a \in Aggregates, Settled(a), Register(p)
    PROVE  Settled(a)' /\ LeavesAlone(a)
<1> DEFINE slot == CurrentRow(p).slot
           row == RegisteredRow(CurrentRow(p).type, p)
           e == [event |-> "LocationSlotRegistered", about |-> slot, by |-> p, row |-> Index(p)]
<1>1. /\ pc[p] = "register"
      /\ store' = [store EXCEPT ![slot] = row]
      /\ announced' = announced \cup {e}
      /\ MoveOn(p, "geometry") \/ Conclude(p, "failed")
      /\ UNCHANGED <<summaries, batch, caller>>
  BY DEF Register, Announce
<1>2. slot # a
  BY <1>1 DEF Settled, MayRedefine
<1>3. e.about = slot
  OBVIOUS
<1> HIDE DEF row, e, slot
<1>4. TypeOK
  BY DEF ImportInv
<1>5. LeavesAlone(a)
  BY <1>1, <1>2, <1>3, <1>4, WriteLeaves
<1>6. CASE MoveOn(p, "geometry")
  BY <1>1, <1>4, <1>5, <1>6, MoveOnFacts, Harmless, SettledKept DEF SameAsBefore
<1>7. CASE Conclude(p, "failed")
  BY <1>1, <1>4, <1>5, <1>7, ConcludeFacts, Harmless, SettledKept DEF SameAsBefore
<1> QED BY <1>1, <1>5, <1>6, <1>7

(* A slot that is settled is read as it is, and saved as it was read.         *)
LEMMA LocateSettles ==
    ASSUME ImportInv, NEW p \in Imports, NEW a \in Aggregates, Settled(a), Locate(p)
    PROVE  Settled(a)' /\ LeavesAlone(a)
<1> DEFINE slot == CurrentRow(p).slot
           v == [view[p] EXCEPT ![slot] = store[slot]]
<1>1. /\ pc[p] = "geometry"
      /\ UNCHANGED <<store, announced, summaries, batch, caller, failures>>
      /\ \/ /\ pc' = [pc EXCEPT ![p] = "position"]
            /\ view' = [view EXCEPT ![p] = v]
            /\ UNCHANGED <<step, results>>
         \/ Conclude(p, "refused")
  BY DEF Locate
<1>2. TypeOK /\ slot \in Aggregates
  BY <1>1, AtRowFacts, RowFacts DEF ImportInv, InRow
<1>3. v[slot] = store[slot]
  BY <1>2 DEF TypeOK
<1>4. LeavesAlone(a) /\ UNCHANGED caller
  BY <1>1, QuietLeaves
<1> HIDE DEF v
<1>5. CASE Conclude(p, "refused")
  BY <1>1, <1>2, <1>4, <1>5, ConcludeFacts, Harmless, SettledKept DEF SameAsBefore
<1>6. CASE /\ pc' = [pc EXCEPT ![p] = "position"]
           /\ view' = [view EXCEPT ![p] = v]
           /\ UNCHANGED <<step, results>>
  <2>1. /\ pc'[p] = "position" /\ view'[p] = v
        /\ \A q \in Imports \ {p} : SameAsBefore(q)
    BY <1>1, <1>2, <1>6 DEF SameAsBefore, TypeOK
  <2>2. CurrentRow(p)' = CurrentRow(p)
    BY <1>1, <1>6 DEF CurrentRow, Index
  <2>3. ~MayRedefine(p, a)'
    BY <1>1, <1>3, <2>1, <2>2 DEF MayRedefine
  <2> QED BY <1>4, <2>1, <2>3, SettledKept
<1> QED BY <1>1, <1>4, <1>5, <1>6

LEMMA PositionSettles ==
    ASSUME ImportInv, NEW p \in Imports, NEW a \in Aggregates, Settled(a), Position(p)
    PROVE  Settled(a)' /\ LeavesAlone(a)
<1> DEFINE slot == CurrentRow(p).slot
           row == PositionedRow(view[p][slot], CurrentRow(p).geometry, p)
           e == [event |-> "LocationGeometryUpdated", about |-> slot, by |-> p, row |-> Index(p)]
<1>1. /\ pc[p] = "position"
      /\ store' = [store EXCEPT ![slot] = row]
      /\ announced' = announced \cup {e}
      /\ Conclude(p, "succeeded") \/ Conclude(p, "failed")
      /\ UNCHANGED <<summaries, batch, caller>>
  BY DEF Position, Announce
<1>2. /\ row.attr = view[p][slot].attr /\ row.status = view[p][slot].status
      /\ Present(view[p][slot])
      /\ e.about = slot /\ e.event = "LocationGeometryUpdated"
  BY <1>1 DEF PositionedRow, ImportInv, ControlInv, ViewIsGood
<1>3. TypeOK /\ slot \in Aggregates
  BY <1>1, AtRowFacts, RowFacts DEF ImportInv, InRow
<1>4. slot = a => view[p][slot].attr = store[slot].attr
  BY <1>1 DEF Settled, MayRedefine
<1> HIDE DEF row, e, slot
<1>5. LeavesAlone(a)
  <2>1. CASE slot # a
    BY <1>1, <1>2, <1>3, <2>1, WriteLeaves
  <2>2. CASE slot = a
    <3>1. store'[a] = row
      BY <1>1, <1>3, <2>2 DEF TypeOK
    <3>2. e.event \notin RegistrationEvents
      BY <1>2, EventNames
    <3> QED BY <1>1, <1>2, <1>4, <2>2, <3>1, <3>2 DEF LeavesAlone, Present
  <2> QED BY <2>1, <2>2
<1> QED BY <1>1, <1>3, <1>5, ConcludeFacts, Harmless, SettledKept DEF SameAsBefore

(* Of other callers' requests, those that move leave what is settled ...      *)
LEMMA CallersKept ==
    ASSUME TypeOK, NEW a \in Aggregates, Settled(a), LeavesAlone(a), NEW w \in Callers,
           UNCHANGED imports, \A v \in Callers \ {w} : caller'[v] = caller[v],
           ~RequestMayRedefine(w, a)'
    PROVE  Settled(a)'
<1>1. UNCHANGED <<pc, batch, step, view, results>>
  BY DEF imports
<1>2. \A q \in Imports : ~MayRedefine(q, a)'
  <2> SUFFICES ASSUME NEW q \in Imports
               PROVE  ~MayRedefine(q, a)'
    OBVIOUS
  <2>1. CurrentRow(q)' = CurrentRow(q) /\ Sought(q)' = Sought(q)
    BY <1>1 DEF CurrentRow, Sought, Index
  <2> QED BY <1>1, <2>1 DEF Settled, MayRedefine, LeavesAlone
<1>3. \A v \in Callers \ {w} : ~RequestMayRedefine(v, a)'
  BY DEF Settled, RequestMayRedefine, Passed, LeavesAlone
<1> QED BY <1>2, <1>3 DEF Settled, LeavesAlone

(* ... a registration does not find free what is settled ...                  *)
LEMMA AskSettles ==
    ASSUME ImportInv, NEW w \in Callers, NEW a \in Aggregates, Settled(a), Ask(w)
    PROVE  Settled(a)' /\ LeavesAlone(a)
<1> DEFINE c == caller[w].cmd
           n == caller[w].step
<1>1. /\ UNCHANGED <<store, announced, imports>>
      /\ caller[w].at = "asking" /\ n \in 1..Len(Lookups(c))
      /\ AskedOn(w) \in Request
      /\ caller' = [caller EXCEPT ![w] = AskedOn(w)] /\ caller'[w] = AskedOn(w)
      /\ \A k \in Passed(w)' : k \in Passed(w) \/ k = n
      /\ \A b \in LookupOf(w).rows : Read(w)[b] = store[b]
      /\ Meets(c, LookupOf(w), Read(w))
  BY AskFacts
<1>2. TypeOK /\ c \in Commands /\ c.use \in UseCases
  BY CallerFacts DEF ImportInv
<1>3. LeavesAlone(a)
  BY <1>1, QuietLeaves
<1>4. caller'[w].cmd = c /\ caller'[w].view = Read(w)
  BY <1>1 DEF AskedOn
<1>5. \A v \in Callers \ {w} : caller'[v] = caller[v]
  BY <1>1, <1>2 DEF TypeOK
<1>6. ~RequestMayRedefine(w, a)'
  <2> SUFFICES ASSUME RequestMayRedefine(w, a)'
               PROVE  FALSE
    OBVIOUS
  <2>1. c.target = a
    BY <1>4 DEF RequestMayRedefine
  <2>2. CASE c.use \in Registrations
    <3>1. PICK k \in Passed(w)' : a \in Lookups(c)[k].rows /\ Lookups(c)[k].must = "absent"
      BY <1>4, <2>2 DEF RequestMayRedefine
    <3>2. k \notin Passed(w)
      BY <2>1, <2>2, <3>1 DEF Settled, RequestMayRedefine
    <3>3. LookupOf(w) = Lookups(c)[k]
      BY <1>1, <3>2 DEF LookupOf
    <3>4. ~Present(Read(w)[a]) /\ Read(w)[a] = store[a]
      BY <1>1, <3>1, <3>3 DEF Meets
    <3> QED BY <3>4 DEF Settled
  <2>3. CASE c.use \notin Registrations
    <3>1. c.use \in Updates
      BY <1>2, <2>3 DEF Registrations
    <3>2. Len(Lookups(c)) = 1 /\ a \in Lookups(c)[1].rows
      BY <1>2, <2>1, <3>1, UpdateLooksOnce
    <3>3. a \in LookupOf(w).rows
      BY <1>1, <3>2 DEF LookupOf
    <3>4. Read(w)[a] = store'[a]
      BY <1>1, <3>3
    <3> QED BY <1>4, <2>3, <3>4 DEF RequestMayRedefine
  <2> QED BY <2>2, <2>3
<1> QED BY <1>1, <1>2, <1>3, <1>5, <1>6, CallersKept

LEMMA GiveUpSettles ==
    ASSUME ImportInv, NEW w \in Callers, NEW a \in Aggregates, Settled(a), GiveUp(w)
    PROVE  Settled(a)' /\ LeavesAlone(a)
<1>1. /\ UNCHANGED <<store, announced, imports>>
      /\ caller' = [caller EXCEPT ![w] = Sent(caller[w].cmd)]
      /\ caller'[w].at = "asking" /\ Passed(w)' = {}
  BY GiveUpFacts
<1>2. TypeOK
  BY DEF ImportInv
<1>3. LeavesAlone(a)
  BY <1>1, QuietLeaves
<1>4. \A v \in Callers \ {w} : caller'[v] = caller[v]
  BY <1>1, <1>2 DEF TypeOK
<1>5. ~RequestMayRedefine(w, a)'
  BY <1>1 DEF RequestMayRedefine
<1> QED BY <1>1, <1>2, <1>3, <1>4, <1>5, CallersKept

(* ... and the ones that commit something else do, or an update as it read.   *)
LEMMA CommitSettles ==
    ASSUME ImportInv, NEW w \in Callers, NEW a \in Aggregates, Settled(a), Commit(w)
    PROVE  Settled(a)' /\ LeavesAlone(a)
<1> DEFINE c == caller[w].cmd
           b == c.target
           e == [event |-> EventOf[c.use], about |-> b, by |-> w, row |-> 0]
           r == [at |-> "answered", cmd |-> c, step |-> 1, view |-> NoView]
<1>1. /\ caller[w].at = "saving" /\ UNCHANGED imports
      /\ store' = [store EXCEPT ![b] = Saved(w)]
      /\ announced' = announced \cup {e}
      /\ caller' = [caller EXCEPT ![w] = r] /\ caller'[w] = r
      /\ Passed(w)' = {}
      /\ b \in Aggregates /\ c \in Commands /\ c.use \in UseCases
  BY CommitFacts
<1>2. TypeOK
  BY DEF ImportInv
<1>3. /\ Present(Saved(w))
      /\ c.use \in Registrations => DemandedAs(c, b, "absent")
      /\ c.use \in Updates => Saved(w).attr = caller[w].view[b].attr
  BY <1>1, SavedFacts
<1>4. e.about = b /\ e.event = EventOf[c.use] /\ r.at = "answered"
  OBVIOUS
<1> HIDE DEF e, r
<1>5. LeavesAlone(a)
  <2>1. CASE b # a
    BY <1>1, <1>2, <1>4, <2>1, WriteLeaves
  <2>2. CASE b = a
    <3>1. Passed(w) = 1..Len(Lookups(c))
      BY <1>1 DEF Passed
    <3>2. c.use \notin Registrations
      BY <1>3, <2>2, <3>1 DEF Settled, RequestMayRedefine, DemandedAs
    <3>3. c.use \in Updates /\ EventOf[c.use] \notin RegistrationEvents
      BY <1>1, <3>2, EventFacts DEF Registrations
    <3>4. caller[w].view[a].attr = store[a].attr
      BY <1>1, <2>2, <3>2 DEF Settled, RequestMayRedefine
    <3>5. store'[a] = Saved(w)
      BY <1>1, <1>2, <2>2 DEF TypeOK
    <3>6. \A x \in announced' \ announced : x.event \notin RegistrationEvents
      BY <1>1, <1>4, <3>3
    <3> QED BY <1>3, <2>2, <3>3, <3>4, <3>5, <3>6 DEF LeavesAlone
  <2> QED BY <2>1, <2>2
<1>6. \A v \in Callers \ {w} : caller'[v] = caller[v]
  BY <1>1, <1>2 DEF TypeOK
<1>7. ~RequestMayRedefine(w, a)'
  BY <1>1, <1>4 DEF RequestMayRedefine
<1> QED BY <1>1, <1>2, <1>5, <1>6, <1>7, CallersKept

(* Once a row is there and nobody is at work who looked for it before, no     *)
(* import and no request of another caller, whatever it registers and however *)
(* late it saves, redefines it or registers it again, so that an import that  *)
(* is sent a second time adds nothing.                                        *)
THEOREM SettledStays == Spec => SettledIsNotRedefined
<1>1. ImportInv /\ [Next]_vars =>
          [\A a \in Aggregates : Settled(a) =>
              /\ Settled(a)'
              /\ store'[a].attr = store[a].attr
              /\ \A e \in announced' \ announced :
                    ~(e.about = a /\ e.event \in RegistrationEvents)]_vars
  <2> SUFFICES ASSUME ImportInv, Next, NEW a \in Aggregates, Settled(a)
               PROVE  Settled(a)' /\ LeavesAlone(a)
    BY DEF LeavesAlone
  <2>1. ASSUME NEW p \in Imports, Submit(p) \/ Advance(p) \/ Falter(p) \/ Die(p)
        PROVE  Settled(a)' /\ LeavesAlone(a)
    BY <2>1, QuietSettles, CreateSettles, LookupPassesSettles, RegisterSettles,
       LocateSettles, PositionSettles DEF Advance
  <2>2. ASSUME NEW w \in Callers, Ask(w) \/ GiveUp(w) \/ Commit(w)
        PROVE  Settled(a)' /\ LeavesAlone(a)
    BY <2>2, AskSettles, GiveUpSettles, CommitSettles
  <2>3. CASE UNCHANGED vars
    <3>1. UNCHANGED <<store, announced, pc, batch, step, view, results, caller>>
      BY <2>3 DEF vars, imports
    <3>2. LeavesAlone(a)
      BY <3>1, QuietLeaves
    <3>3. Settled(a)'
      BY <3>1 DEF Settled, MayRedefine, RequestMayRedefine, Passed, CurrentRow, Sought,
                  Index
    <3> QED BY <3>2, <3>3
  <2> QED BY <2>1, <2>2, <2>3 DEF Next, AllAnswered
<1> QED BY <1>1, Invariant, PTL DEF Spec, SettledIsNotRedefined
=============================================================================
