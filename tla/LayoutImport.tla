---------------------------- MODULE LayoutImport ----------------------------
(* POST /locations/import: a process that takes rows one after another,       *)
(* creates the structure a row names on first sight, registers its slot with  *)
(* the lookups of the use case and records its geometry, each in a unit of    *)
(* work of its own, and reports what became of every row.  A unit of work is  *)
(* one step here: FacilityCatalog shows that it takes effect as one entry of  *)
(* the ledger.  Imports run at the same time as each other and as requests of *)
(* other callers, which look things up and then save what they looked up.     *)
EXTENDS FacilityUseCases, Naturals, FiniteSets

CONSTANTS
    Imports,    \* the calls of the endpoint
    Batches,    \* the arrays of rows they may submit
    Workload,   \* the commands other requests may carry
    Loaded,     \* the rows of the database when the service starts
    MaxFailures \* a bound of the model: failed statements, lost answers, deaths

(* The constructors of the domain that may refuse what a row says.  A site's  *)
(* only refuses what NewLocationCode has refused before.                      *)
Constructors == {"NewLocationCode", "NewZone", "NewAisle", "NewCapacity",
                 "NewFunctionalAttributes", "NewDimensions"}

ImportRow == [slot      : LocationSlots,
              zone      : ZoneAttributes,
              direction : Directions,
              type      : LocationTypes,
              geometry  : Geometries \cup {None},
              refused   : SUBSET Constructors]

Callers == Writers \ Imports

ASSUME ImportAssumption ==
    /\ Imports \subseteq Writers
    /\ Batches \subseteq Seq(ImportRow)
    /\ Workload \subseteq Commands
    /\ MaxFailures \in Nat

ASSUME LoadedAssumption ==
    /\ Loaded \in [Aggregates -> Row]
    /\ \A a \in Aggregates : Loaded[a].by = None
    /\ Custodial(Loaded)

(* The structure is ensured from the aisle up.                                *)
StructureSlip(row) == <<AisleOf[row.slot], ZoneOfSlot(row.slot), SiteOfSlot(row.slot)>>

(* What a row makes sure of before its slot, in this order.                   *)
Structure(row) == <<SiteOfSlot(row.slot), ZoneOfSlot(row.slot), AisleOf[row.slot]>>

(* The command the row's slot is registered with.                             *)
Registration(row) ==
    [use |-> "RegisterLocationSlot", target |-> row.slot, arg |-> row.type]

(* How a unit of work that creates structure announces it.                    *)
CreationOf == [site |-> "SiteRegistered", zone |-> "ZoneRegistered", aisle |-> "AisleRegistered"]

Constructor == [site |-> "NewSite", zone |-> "NewZone", aisle |-> "NewAisle"]

(* What a row says of the structure it creates.                               *)
Described(row, a) ==
    CASE KindOf[a] = "zone"  -> row.zone
      [] KindOf[a] = "aisle" -> row.direction
      [] OTHER               -> None
-----------------------------------------------------------------------------
VARIABLES
    store,       \* the committed rows
    announced,   \* the events committed, with the import and the index of its row
    summaries,   \* per import, the FacilityLayoutImported it announced
    pc,          \* where an import is
    batch,       \* the rows it was given
    step,        \* its next structure, or its next lookup
    view,        \* what it has read for the row it is at
    results,     \* what became of the rows behind it
    caller,      \* per other caller, its command and how far it is with it
    failures     \* how many failures there were

imports == <<summaries, pc, batch, step, view, results>>

vars == <<store, announced, imports, caller, failures>>

InRow == {"find", "create", "lookup", "register", "geometry", "position"}
InFlight == {"row"} \cup InRow
Answered == {"refused", "reported", "failed"}

(* The error text of a row tells a refusal of the domain from a failure.      *)
Outcomes == {"succeeded", "refused", "failed"}

NoView == [a \in Aggregates |-> NoRow]

Announcement == [event : Events, about : Aggregates, by : Writers, row : Nat]

Summary == [submitted : Nat, imported : Nat, rejected : Nat]

Request == [at   : {"asking", "saving", "answered"},
            cmd  : Workload,
            step : Nat,
            view : [Aggregates -> Row]]

(* A request before its first lookup.                                         *)
Sent(c) == [at |-> "asking", cmd |-> c, step |-> 1, view |-> NoView]

TypeOK ==
    /\ store \in [Aggregates -> Row]
    /\ announced \in SUBSET Announcement
    /\ summaries \in [Imports -> SUBSET Summary]
    /\ pc \in [Imports -> {"idle"} \cup InFlight \cup Answered]
    /\ batch \in [Imports -> Batches \cup {<<>>}]
    /\ step \in [Imports -> 1..6]
    /\ view \in [Imports -> [Aggregates -> Row]]
    /\ results \in [Imports -> Seq(Outcomes)]
    /\ caller \in [Callers -> Request]
    /\ failures \in 0..MaxFailures
    /\ \A p \in Imports : Len(results[p]) <= Len(batch[p])

Init ==
    /\ store = Loaded
    /\ announced = {}
    /\ summaries = [p \in Imports |-> {}]
    /\ pc = [p \in Imports |-> "idle"]
    /\ batch = [p \in Imports |-> <<>>]
    /\ step = [p \in Imports |-> 1]
    /\ view = [p \in Imports |-> NoView]
    /\ results = [p \in Imports |-> <<>>]
    /\ caller \in [Callers -> {Sent(c) : c \in Workload}]
    /\ failures = 0

Index(p) == Len(results[p]) + 1
CurrentRow(p) == batch[p][Index(p)]

Failure == failures < MaxFailures /\ failures' = failures + 1

Announce(p, event, a) ==
    announced' = announced \cup {[event |-> event, about |-> a, by |-> p, row |-> Index(p)]}
-----------------------------------------------------------------------------
(* The handler calls the use case; an empty array is refused outright.        *)
Submit(p) ==
    /\ pc[p] = "idle"
    /\ \E rows \in Batches :
          /\ batch' = [batch EXCEPT ![p] = rows]
          /\ pc' = [pc EXCEPT ![p] = IF rows = <<>> THEN "refused" ELSE "row"]
    /\ UNCHANGED <<store, announced, summaries, step, view, results, caller, failures>>

(* The row is done with; its outcome goes into the report.                    *)
Conclude(p, outcome) ==
    /\ results' = [results EXCEPT ![p] = Append(@, outcome)]
    /\ pc' = [pc EXCEPT ![p] = "row"]
    /\ step' = [step EXCEPT ![p] = 1]
    /\ view' = [view EXCEPT ![p] = NoView]

MoveOn(p, place) ==
    /\ pc' = [pc EXCEPT ![p] = place]
    /\ step' = [step EXCEPT ![p] = 1]
    /\ view' = [view EXCEPT ![p] = NoView]
    /\ UNCHANGED results

(* The error of the row before is still there.                                *)
BeginSlip(p) ==
    /\ pc[p] = "row"
    /\ Len(results[p]) < Len(batch[p])
    /\ IF \/ "NewLocationCode" \in CurrentRow(p).refused
          \/ Len(results[p]) > 0 /\ results[p][Len(results[p])] # "succeeded"
       THEN Conclude(p, "refused")
       ELSE MoveOn(p, "find")
    /\ UNCHANGED <<store, announced, summaries, batch, caller, failures>>

(* The next row: its location code comes first.                               *)
Begin(p) ==
    /\ pc[p] = "row"
    /\ Len(results[p]) < Len(batch[p])
    /\ IF "NewLocationCode" \in CurrentRow(p).refused
       THEN Conclude(p, "refused")
       ELSE MoveOn(p, "find")
    /\ UNCHANGED <<store, announced, summaries, batch, caller, failures>>

Sought(p) == Structure(CurrentRow(p))[step[p]]

(* After the structure the capacity override is parsed, and the slot's turn   *)
(* comes.                                                                     *)
NextStructure(p) ==
    IF step[p] < Len(Structure(CurrentRow(p)))
    THEN /\ pc' = [pc EXCEPT ![p] = "find"]
         /\ step' = [step EXCEPT ![p] = @ + 1]
         /\ UNCHANGED <<view, results>>
    ELSE IF "NewCapacity" \in CurrentRow(p).refused
    THEN Conclude(p, "refused")
    ELSE MoveOn(p, "lookup")

(* Structure that is there is saved again with what the row says.             *)
ReuseSlip(p) ==
    /\ pc[p] = "find"
    /\ store[Sought(p)].status = "Active"
    /\ pc' = [pc EXCEPT ![p] = "create"]
    /\ UNCHANGED <<store, announced, summaries, batch, step, view, results, caller, failures>>

(* ensureSite, ensureZone, ensureAisle.  What exists is reused, whatever the  *)
(* row says of it ...                                                         *)
Reuse(p) ==
    /\ pc[p] = "find"
    /\ store[Sought(p)].status = "Active"
    /\ NextStructure(p)
    /\ UNCHANGED <<store, announced, summaries, batch, caller, failures>>

(* ... unless it is not Active ...                                            *)
FindInactive(p) ==
    /\ pc[p] = "find"
    /\ Present(store[Sought(p)]) /\ store[Sought(p)].status # "Active"
    /\ Conclude(p, "refused")
    /\ UNCHANGED <<store, announced, summaries, batch, caller, failures>>

(* ... and what does not exist is constructed from the row ...                *)
FindNothing(p) ==
    /\ pc[p] = "find"
    /\ ~Present(store[Sought(p)])
    /\ IF Constructor[KindOf[Sought(p)]] \in CurrentRow(p).refused
       THEN Conclude(p, "refused")
       ELSE /\ pc' = [pc EXCEPT ![p] = "create"]
            /\ UNCHANGED <<step, view, results>>
    /\ UNCHANGED <<store, announced, summaries, batch, caller, failures>>

(* ... and saved and announced in one unit of work: an upsert, whoever has    *)
(* created it in between.  Its commit may be acknowledged or not.             *)
Create(p) ==
    LET a == Sought(p)
    IN /\ pc[p] = "create"
       /\ store' = [store EXCEPT ![a] = RegisteredRow(Described(CurrentRow(p), a), p)]
       /\ Announce(p, CreationOf[KindOf[a]], a)
       /\ \/ NextStructure(p) /\ UNCHANGED failures
          \/ Conclude(p, "failed") /\ Failure
       /\ UNCHANGED <<summaries, batch, caller>>

(* RegisterLocationSlot.Execute: its lookups, each a statement that sees what *)
(* is committed.  The functional attributes are parsed between the type and   *)
(* the rules.                                                                 *)
Seen(p) ==
    LET lookup == Lookups(Registration(CurrentRow(p)))[step[p]]
    IN [a \in Aggregates |-> IF a \in lookup.rows THEN store[a] ELSE view[p][a]]

LookupMet(p) ==
    LET c == Registration(CurrentRow(p))
        lookup == Lookups(c)[step[p]]
    IN /\ Meets(c, lookup, Seen(p))
       /\ lookup.must = "permits" => "NewFunctionalAttributes" \notin CurrentRow(p).refused

LookupPasses(p) ==
    /\ pc[p] = "lookup"
    /\ LookupMet(p)
    /\ view' = [view EXCEPT ![p] = Seen(p)]
    /\ IF step[p] < Len(Lookups(Registration(CurrentRow(p))))
       THEN /\ step' = [step EXCEPT ![p] = @ + 1]
            /\ UNCHANGED pc
       ELSE /\ step' = [step EXCEPT ![p] = 1]
            /\ pc' = [pc EXCEPT ![p] = "register"]
    /\ UNCHANGED <<store, announced, summaries, batch, results, caller, failures>>

(* A slot that exists is taken for imported.                                  *)
LookupRefusesSlip(p) ==
    /\ pc[p] = "lookup"
    /\ ~LookupMet(p)
    /\ Conclude(p, IF step[p] = 1 THEN "succeeded" ELSE "refused")
    /\ UNCHANGED <<store, announced, summaries, batch, caller, failures>>

LookupRefuses(p) ==
    /\ pc[p] = "lookup"
    /\ ~LookupMet(p)
    /\ Conclude(p, "refused")
    /\ UNCHANGED <<store, announced, summaries, batch, caller, failures>>

Register(p) ==
    LET row == CurrentRow(p)
    IN /\ pc[p] = "register"
       /\ store' = [store EXCEPT ![row.slot] = RegisteredRow(row.type, p)]
       /\ Announce(p, "LocationSlotRegistered", row.slot)
       /\ \/ MoveOn(p, "geometry") /\ UNCHANGED failures
          \/ Conclude(p, "failed") /\ Failure
       /\ UNCHANGED <<summaries, batch, caller>>

(* Only now are the geometry columns parsed.  A row without them is done.     *)
NoGeometry(p) ==
    /\ pc[p] = "geometry"
    /\ CurrentRow(p).geometry = None
    /\ Conclude(p, "succeeded")
    /\ UNCHANGED <<store, announced, summaries, batch, caller, failures>>

(* SetLocationGeometry.Execute reads the slot again.                          *)
MayPosition(p) ==
    LET slot == store[CurrentRow(p).slot]
    IN /\ "NewDimensions" \notin CurrentRow(p).refused
       /\ Present(slot) /\ slot.status # "Decommissioned"

Locate(p) ==
    /\ pc[p] = "geometry"
    /\ CurrentRow(p).geometry # None
    /\ IF MayPosition(p)
       THEN /\ pc' = [pc EXCEPT ![p] = "position"]
            /\ view' = [view EXCEPT ![p] =
                           [@ EXCEPT ![CurrentRow(p).slot] = store[CurrentRow(p).slot]]]
            /\ UNCHANGED <<step, results>>
       ELSE Conclude(p, "refused")
    /\ UNCHANGED <<store, announced, summaries, batch, caller, failures>>

Position(p) ==
    LET row == CurrentRow(p)
    IN /\ pc[p] = "position"
       /\ store' = [store EXCEPT ![row.slot] = PositionedRow(view[p][row.slot], row.geometry, p)]
       /\ Announce(p, "LocationGeometryUpdated", row.slot)
       /\ \/ Conclude(p, "succeeded") /\ UNCHANGED failures
          \/ Conclude(p, "failed") /\ Failure
       /\ UNCHANGED <<summaries, batch, caller>>

(* A statement or a unit of work fails, having left nothing: an error of this *)
(* row only.                                                                  *)
Falter(p) ==
    /\ pc[p] \in InRow
    /\ pc[p] = "geometry" => CurrentRow(p).geometry # None
    /\ Conclude(p, "failed") /\ Failure
    /\ UNCHANGED <<store, announced, summaries, batch, caller>>

Rows(p, outcomes) == {i \in 1..Len(results[p]) : results[p][i] \in outcomes}

(* The rows that failed for want of the database are not counted.             *)
CountsSlip(p) == [submitted |-> Len(batch[p]),
                  imported  |-> Cardinality(Rows(p, {"succeeded"})),
                  rejected  |-> Cardinality(Rows(p, {"refused"}))]

Counts(p) == [submitted |-> Len(batch[p]),
              imported  |-> Cardinality(Rows(p, {"succeeded"})),
              rejected  |-> Cardinality(Rows(p, {"refused", "failed"}))]

(* All rows are behind: the one FacilityLayoutImported is announced.  If its  *)
(* unit of work reports an error the caller is told so, and gets no report.   *)
Summarise(p) ==
    /\ pc[p] = "row"
    /\ Len(results[p]) = Len(batch[p])
    /\ summaries' = [summaries EXCEPT ![p] = @ \cup {Counts(p)}]
    /\ \/ pc' = [pc EXCEPT ![p] = "reported"] /\ UNCHANGED failures
       \/ pc' = [pc EXCEPT ![p] = "failed"] /\ Failure
    /\ UNCHANGED <<store, announced, batch, step, view, results, caller>>

(* The process dies, the caller goes away or the summary cannot be written:   *)
(* what was committed stays, and nobody gets a report.                        *)
Die(p) ==
    /\ pc[p] \in InFlight
    /\ pc' = [pc EXCEPT ![p] = "failed"]
    /\ step' = [step EXCEPT ![p] = 1]
    /\ view' = [view EXCEPT ![p] = NoView]
    /\ Failure
    /\ UNCHANGED <<store, announced, summaries, batch, results, caller>>

(* The requests of other callers.  A lookup is a statement of its own, and    *)
(* what it finds may have changed by the time the request saves.              *)
LookupOf(w) == Lookups(caller[w].cmd)[caller[w].step]

Read(w) ==
    [a \in Aggregates |-> IF a \in LookupOf(w).rows THEN store[a] ELSE caller[w].view[a]]

Ask(w) ==
    /\ caller[w].at = "asking"
    /\ Meets(caller[w].cmd, LookupOf(w), Read(w))
    /\ caller' = [caller EXCEPT ![w] =
                     [at   |-> IF @.step < Len(Lookups(@.cmd)) THEN "asking" ELSE "saving",
                      cmd  |-> @.cmd,
                      step |-> IF @.step < Len(Lookups(@.cmd)) THEN @.step + 1 ELSE 1,
                      view |-> Read(w)]]
    /\ UNCHANGED <<store, announced, imports, failures>>

(* It is refused, fails or dies, having written nothing; it may be sent again.*)
GiveUp(w) ==
    /\ caller[w].at # "answered"
    /\ caller' = [caller EXCEPT ![w] = Sent(@.cmd)]
    /\ UNCHANGED <<store, announced, imports, failures>>

(* Its unit of work commits, whether the caller hears of it or not.           *)
Commit(w) ==
    LET c == caller[w].cmd
        a == c.target
    IN /\ caller[w].at = "saving"
       /\ store' = [store EXCEPT ![a] =
                       Upsert(a, @, RowWritten(c, caller[w].view[a], w))]
       /\ announced' = announced \cup
             {[event |-> EventOf[c.use], about |-> a, by |-> w, row |-> 0]}
       /\ caller' = [caller EXCEPT ![w] =
                        [at |-> "answered", cmd |-> c, step |-> 1, view |-> NoView]]
       /\ UNCHANGED <<imports, failures>>

Advance(p) ==
    \/ Begin(p)
    \/ Reuse(p) \/ FindInactive(p) \/ FindNothing(p) \/ Create(p)
    \/ LookupPasses(p) \/ LookupRefuses(p) \/ Register(p)
    \/ NoGeometry(p) \/ Locate(p) \/ Position(p)
    \/ Summarise(p)

AllAnswered ==
    /\ \A p \in Imports : pc[p] \in Answered
    /\ UNCHANGED vars

Next == \/ \E p \in Imports : Submit(p) \/ Advance(p) \/ Falter(p) \/ Die(p)
        \/ \E w \in Callers : Ask(w) \/ GiveUp(w) \/ Commit(w)
        \/ AllAnswered

Spec == Init /\ [][Next]_vars
-----------------------------------------------------------------------------
(* Whatever imports and requests do to each other, and whatever a row that    *)
(* fails leaves behind, every committed row hangs from committed rows.        *)
ChainOfCustody == Custodial(store)

AnnouncedBy(p, i, event, a) == [event |-> event, about |-> a, by |-> p, row |-> i] \in announced

(* What the report says was imported is there, was registered by this very    *)
(* row and no other, and was positioned if the row has a position.            *)
SucceededIsImported ==
    \A p \in Imports : \A i \in Rows(p, {"succeeded"}) :
        LET row == batch[p][i]
        IN /\ Present(store[row.slot])
           /\ AnnouncedBy(p, i, "LocationSlotRegistered", row.slot)
           /\ row.geometry # None => AnnouncedBy(p, i, "LocationGeometryUpdated", row.slot)

(* The domain may hold against a row, for good, whatever else goes on: what   *)
(* its own columns say, a link that is not Active, a type that was not there, *)
(* a rule that denies its type or allows another, or that something else was  *)
(* done to its slot.                                                          *)
EverDefined ==
    {Loaded[r].attr : r \in {x \in RuleIds : Present(Loaded[x])}}
    \cup {caller[w].cmd.arg : w \in {x \in Callers : /\ caller[x].at = "answered"
                                                     /\ caller[x].cmd.target \in RuleIds}}

HoldsAgainst(rule, type) ==
    IF rule.effect = "Deny" THEN rule.locationType = type ELSE rule.locationType # type

Cause(p, i) ==
    LET row == batch[p][i]
    IN \/ row.refused # {}
       \/ \E k \in 1..3 : Loaded[Structure(row)[k]].status \notin {"Active", Absent}
       \/ ~Present(Loaded[row.type])
       \/ \E rule \in EverDefined : HoldsAgainst(rule, row.type)
       \/ Present(Loaded[row.slot])
       \/ \E e \in announced : e.about = row.slot /\ ~(e.by = p /\ e.row = i)

(* A bad row takes no other row down: each row the report says was refused    *)
(* was refused for a cause of its own.                                        *)
RefusedForCause ==
    \A p \in Imports : \A i \in Rows(p, {"refused"}) : Cause(p, i)

(* The summary counts slots: as many as the import registered to the end, no  *)
(* slot twice, and no row left out; and there is one at most.                 *)
SummaryCountsSlots ==
    \A p \in Imports : \A s \in summaries[p] :
        /\ summaries[p] = {s}
        /\ s.imported = Cardinality({batch[p][i].slot : i \in Rows(p, {"succeeded"})})
        /\ s.imported + s.rejected = s.submitted

(* An import that found no row there, or read a row that was redefined since, *)
(* and is going to save its own ...                                           *)
MayRedefine(p, a) ==
    \/ pc[p] = "create" /\ Sought(p) = a
    \/ /\ \/ pc[p] = "lookup" /\ step[p] > 1
          \/ pc[p] = "register"
          \/ pc[p] = "position" /\ view[p][a].attr # store[a].attr
       /\ CurrentRow(p).slot = a

(* ... and a request that did: it is past the lookup for a duplicate, or it   *)
(* updates a row that is no longer what it read.                              *)
Passed(w) == {k \in 1..Len(Lookups(caller[w].cmd)) :
                 \/ caller[w].at = "asking" /\ k < caller[w].step
                 \/ caller[w].at = "saving"}

RequestMayRedefine(w, a) ==
    /\ caller[w].cmd.target = a
    /\ IF caller[w].cmd.use \in Registrations
       THEN \E k \in Passed(w) : /\ a \in Lookups(caller[w].cmd)[k].rows
                                 /\ Lookups(caller[w].cmd)[k].must = "absent"
       ELSE caller[w].at = "saving" /\ caller[w].view[a].attr # store[a].attr

Settled(a) ==
    /\ Present(store[a])
    /\ \A p \in Imports : ~MayRedefine(p, a)
    /\ \A w \in Callers : ~RequestMayRedefine(w, a)

(* Once a row is there and nobody is at work who looked for it before, no     *)
(* import and no request redefines it or registers it again, so that an       *)
(* import that is sent a second time adds nothing.                            *)
SettledIsNotRedefined ==
    [][\A a \in Aggregates : Settled(a) =>
          /\ Settled(a)'
          /\ store'[a].attr = store[a].attr
          /\ \A e \in announced' \ announced :
                ~(e.about = a /\ e.event \in RegistrationEvents)]_vars

(* What ADR 0006 and the API reference say: one LocationSlotRegistered per    *)
(* successful row.  So a row refused by the domain registered no slot.        *)
RefusedRegistersNothing ==
    \A p \in Imports : \A i \in Rows(p, {"refused"}) :
        ~AnnouncedBy(p, i, "LocationSlotRegistered", batch[p][i].slot)
=============================================================================
