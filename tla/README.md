# facility-layout, specified

TLA+ models of the `facility-layout` service, the TLC configurations that check
them on small instances, and proofs that TLAPS checks for every instance.

`facility-layout` is the system of record of a warehouse's physical map. HTTP
requests register sites, zones, aisles, location types, placement rules, location
slots, structures and cross-aisles, and decommission or move some of them; every
change is announced on two Kafka topics, and a projector folds one of them into a
growth report. Paths below are relative to the repository (`src/`).

## 1. Inventory

| Component | State | Operations | Interacts by |
|---|---|---|---|
| Use cases (`internal/application/usecases`) | none of their own | 11 registrations and updates, bulk import, reads | calls repositories, then one unit of work: save, publish |
| Aggregates (`internal/domain/{site,zone,aisle,slot,structure}`) | status, attributes, geometry | constructors, `Decommission`, `SetGeometry` | built from the rows a use case read |
| Placement rules (`internal/domain/placement`) | the rule list | `RuleSet.Check` | called by the slot's constructor |
| Repositories, unit of work (`outbound/postgres`, `internal/pgtx`) | the tables | whole-row upserts, finds; one transaction, or joining the one in the context | READ COMMITTED statements, row locks |
| Idempotency middleware (`inbound/http/idempotency.go`) | `idempotency_keys` | begin, insert key, run handler, record, commit, answer; or replay | its transaction is joined by the unit of work |
| Outbox publisher and relay (`outbound/postgres/outbox_*.go`) | `outbox_events` | one row per topic with the aggregate; claim, send, mark, commit | `FOR UPDATE SKIP LOCKED`, Kafka |
| Envelopes (`outbound/kafka`) | none | CloudEvent, partition key, topic | encoders of the publisher, sink of the relay |
| Projector (`inbound/kafka`, `outbound/analyticsstore`, `cmd/facility-projector`) | offset, two gates, the rollup, dead letters | fetch, check, apply, mark, retry, dead-letter, commit offset | Kafka consumer group, analytical database |
| Read models (`internal/application/usecases/{get_*,reads,travel_*,estimate_*}.go`) | none | 18 reads: finds and lists, the grid, the layout, the list by role, the travel graph, a distance | one statement after another, without a snapshot |
| Travel graph (`internal/domain/travel`) | heap, labels of a search | build, Dijkstra with outdated heap entries | asked by `GetZoneTravelGraph`, `EstimateTravelDistance` |
| MCP server (`inbound/mcp`) | none | tools | a second door to six of the reads; writes nothing |
| Process (`cmd/facility/main.go`) | readiness, contexts | wiring, graceful shutdown | stops HTTP, relay, pool |
| Reports, SVG, telemetry, web | none | projections of the above | HTTP |

What is hard:

* **Lookups outside the transaction.** A use case resolves its parents and checks
  for duplicates by statements of their own; the transaction that follows only
  saves and publishes. Everything between two statements may have changed.
* **Whole-row upserts.** `Save` is `INSERT ... ON CONFLICT DO UPDATE` of every
  column: whoever saves last wins all of it.
* **Failure anywhere.** A statement, a commit, its acknowledgement, the process.
* **Ids before commits.** Outbox ids come from a sequence and are taken when a row
  is inserted, not when it becomes visible.
* **Two relays, two projectors.** A rolling deploy or a scaled deployment overlaps.
* **At least once.** Relay, consumer group and clients all repeat themselves.
* **Reads of several statements.** Each sees what is committed when it runs, so an
  answer may be put together from several states of the map.
* **A search that keeps what it no longer needs.** Dijkstra's heap holds outdated
  entries, and edges are directed where an aisle is one-way.

What makes each part correct: no row is ever an orphan, and consumers never meet
one; the store and its topics agree; the report of one key is one outcome; every
committed event is published and counted exactly once, in the order its aggregate
changed, or can be found on the dead-letter topic; a read shows what was there and
the distance it gives is that of a shortest route; nobody waits for ever. Where
the code promises less than its documents say, section 5 shows by how much.
`PROJECT.json` lists the hazards line by line with the properties that watch them.

## 2. Modules

```
PlacementRules          vocabulary of rules; Permits, the reference meaning
  RuleSetCheck          RuleSet.Check, one step per rule        <- MCRuleSetCheck, RuleSetCheckProofs
  FacilityMap           identities, chain of custody, rows, events
    FacilityLedger      abstract: one atomic, legal, announced entry per request
    FacilityUseCases    commands, their lookups, the rows they save <- FacilityUseCasesProofs
      FacilityCatalog   the use cases over Postgres              <- MCFacilityCatalog, FacilityCatalogProofs
                          Ledger == INSTANCE FacilityLedger WITH rows <- store, journal <- outbox
      LayoutImport      bulk import, row by row                  <- MCLayoutImport, LayoutImportProofs
      ZoneReads         the reads, while writers write           <- MCZoneReads, ZoneReadsProofs
TravelGraph             travel.Build; lengths of walks, the reference meaning
  TravelDistance        Graph.Distance, step by step             <- ZoneReadsProofs
    ZoneReads           (extends both)
IdempotencyKey          RequireIdempotencyKey around a handler   <- MCIdempotencyKey, IdempotencyKeyProofs
OutboxRelay             relays draining outbox_events            <- MCOutboxRelay, OutboxRelayProofs
AnalyticsProjector      the consume loop and its report          <- MCAnalyticsProjector, AnalyticsProjectorProofs
```

**FacilityUseCases, FacilityCatalog.** A request (`pc`, `cmd`, `step`, `view`,
`pending`) runs one use case. `Lookups(c)` is the list of statements the use case makes, each naming
the rows it reads and what it demands of them; `LookupPasses` and `LookupRefuses`
take one. `Save` is the upsert, which waits while another open transaction holds
the row (`Holds`) and writes the whole row built from `view`. `Publish` inserts one
outbox row per encoder, taking the next id. `Commit` makes row and events visible
together, and may still answer with an error. `Fail` is every error before that,
and the death of the process. `store` and `outbox` hold what is committed. What a
row says is cut down to its status, one attribute, its geometry and who wrote it. The
attribute is what the properties tell apart: a zone's attributes, an aisle's direction,
everything a placement rule says, a slot's location type, a structure's site. Ids of
rules and structures are their callers' choice, so two racing requests may give one id
different content; the upsert overwrites all of it, except the site of a structure
(`Upsert`). What is a constant of the model is what an id spells out (a zone id its
site, a location code its whole chain). `UnderMaintenance` rows are loaded,
never written, as in the code. `Decommission` of a site, zone or aisle is in the
domain and is called by no use case, so nothing here does it.

**LayoutImport.** An import (`pc`, `batch`, `step`, `view`, `results`) takes its rows
in order: `Begin` parses the location code; `Reuse`, `FindInactive` or `FindNothing`
is the read of `ensureSite`, `ensureZone`, `ensureAisle`, and `Create` their unit of
work; `LookupPasses`, `LookupRefuses` are the statements of `RegisterLocationSlot`,
the same list as in the catalogue; then `Register`, `Locate`, `Position`. Whatever
happens to a row, `Conclude` writes it into the report and the next row begins.
`Summarise` announces the counts. A unit of work is one step, which is what
`ImplementsLedger` says of it; its commit may still answer with an error. `Falter`
is any other failure of a row, `Die` the end of the process or of the caller. A row
carries the constructors that refuse it (`refused`) in place of malformed columns;
a negative pick sequence counts as a refused geometry, since both come after the
slot. Other callers send requests too: `Ask` is one lookup, `Commit` the unit of work
that saves what was built from the rows as they were read, whatever has happened since,
`GiveUp` a refusal, an error or a death, after which the request may be sent again.

**IdempotencyKey.** `Arrive`, `Begin`, `InsertFresh` or `InsertConflicts`, then
`Handle`, `Record`, `Commit`, `Respond`, or `Replay`. The INSERT waits for an
uncommitted insert of the same key; `Begin` and `Replay` wait for a connection.
The handler's answer is any of created, refused, broken; its writes are committed
with the key's row. `HoldingKey`, `Connected` say what a call holds where. The
model compares key and body, as the code does, and not the path.

**OutboxRelay.** `CommitRow` is the environment: rows of different aggregates
commit in any order, rows of one aggregate in the order of their ids, which is what
`LastEventIsOfLastWriter` of FacilityCatalog establishes. A pass is `Claim`,
`Send`, `Mark`, `Commit`; `SendFails` ends it early and still commits, `Abort`
rolls the marks back. The broker may have taken what a failed send sent.

**AnalyticsProjector.** `Fetch`, `Check`, `Apply`, `Mark`, `CommitOffset`, or
`DeadLetter` after `MaxAttempts` failures. `LoopStops` is the return of `Run` with an
error: of a fetch, of a dead-letter publish, of an offset commit.
`Restart` and `Rebalance` resume from the committed offset, and a projector that
lost the partition may still hold a message. A failing statement may have had its
effect (`LostAcknowledgement`).

**TravelGraph, TravelDistance.** `Build` is a function of what the reads found: the
bays of each aisle in the order of their codes, its direction and centreline, and the
active cross-aisles; an edge carries its length and whether it is an estimate. The
search is `Ask`, then `Settle` (pop, relax every edge), `Skip` (pop an entry of a
waypoint that is settled), `Finish` or `Exhaust`, then `Trace` along `prev` until
`Return`. Which of several equal entries the heap yields is left open. Lengths are
natural numbers in place of floats, bays are ranks in place of codes, and the pitch
of a zone is one length, a constant: it is data of the zone's row, but no use case sets
it (`Zone.SetPitch` has no caller outside the tests).

**ZoneReads.** A read is a `query` and its `agenda`, the statements it has yet to
run: `FindRow`, `MissRow`, `ListRows`, in the order of the use case, a loop over a
list adding its statements for each row in any order. `seen` and `listed` are what it
has found. `Answer` builds the answer (the operators `Grid`, `WithRole`, `ZoneGraph`
are what it is built of), `RefuseOtherZone` and `SearchRoute` are the two ends of
`EstimateTravelDistance`, and `Search` is a step of TravelDistance. `Write` is one
legal entry of the ledger, which is what the catalogue was shown to implement; which
entries, the constant `Entries` says: any event and any row, so also a registration
that lost a race and overwrites what is there, or an update built from a row that is
no more. An aisle's direction is that of the row the read has seen.
Readers write nothing and share nothing, so one of them at a time is every number of
them. `atStart` and `bothWays` are history variables: what was committed when the read
began, and the aisles that were walked both ways at some moment since. The role of a
slot is in the code a column of the slot's own row, copied from its type when it is
registered (`register_location_slot.go:112`); here it is looked up by the type of the
row (`RoleOf`), which is the same as long as nobody registers one type with two roles.

Operators whose names end in `Slip` are plausible mistakes in the definition that
follows them. No specification uses them; replacing the definition by its slip must
break the property it is listed with in `PROJECT.json`, which shows that the
property can see such a mistake.

## 3. Runs

| Run | Bounds | Shows |
|---|---|---|
| `CatalogChain` | 4 requests; the chain site, zone, aisle, slot, one type loaded | `ChainOfCustody`, `ParentAnnouncedFirst`, `StoreAndTopicsAgree` |
| `CatalogBuilding` | 3 requests; two zones (one under maintenance), aisles, both orientations of a cross-aisle, a structure given either of two sites, a rule id given a Deny or an Allow, a slot that is registered, retired and moved | `ImplementsLedger`: the write side refines the ledger; `RegisteredUnderActive`, `LastEventIsOfLastWriter`, `SettledDenyRuleBinds`, `SettledStaysDecommissioned`, `SettledIsTaken` |
| `CatalogOneWay` | 3 requests | violated: section 5 |
| `LayoutImport` | 2 imports, each of one of 5 batches of up to 2 rows; each constructor refuses some row; a slot repeated, an inactive zone, an unknown type, a type denied in frozen zones; 1 failure; one request of another caller, lookup by lookup, who retires a slot or registers the zone | `ChainOfCustody`, `SucceededIsImported`, `RefusedForCause`, `SummaryCountsSlots`, `SettledIsNotRedefined` |
| `LayoutImportRefused` | the same | violated: section 5 |
| `ZoneReads` | 1 read of 19 queries, one or more of every kind that differs in its statements; 2 writers; 5 loadings of a site with two zones, four aisles (one one-way, and registered again either way; one joined to none), 9 slots, 2 cross-aisles | `FoundIsRooted`, `SettledIsShown`, `RouteIsShortest`, `RouteIsOfTheMap`, `ReadAnswered` |
| `RuleSetCheck` | every list of up to 3 rules, 2 types, all zones | `VerdictIsPermits` |
| `IdempotencyKey` | 3 calls, 2 connections, 2 keys, 2 bodies, and a call without a key | `AppliedOncePerKey`, `NoHalfWrittenRow`, `HeardIsTheOutcome`, `EveryCallAnswered` |
| `OutboxRelay` | 1 or 2 relays, 4 rows of 2 aggregates, passes of 2, 2 failures | `PublishedWasSent`, `DuplicatesOnlyFromFailures`, `OrderedWithOneRelay`, `NewestHeardLast`, `EveryRowPublished` |
| `OutboxRelayOrder` | 2 relays | violated: section 5 |
| `AnalyticsProjector` | 2 projectors, 5 messages (an event twice, a poison value, an event of another type, a second event), 3 attempts, 6 failures | `CountedOnce`, `NothingSkipped`, `ConsumedWasCounted`, `SettledUnlessStopped` |
| `AnalyticsProjectorFlow` | a poison message and an event behind it, 1 failure | violated: section 5 |

Why the bounds are enough to be interesting. Four requests are the shortest chain
from a site to a slot, so each link can be registered by a request of its own, or
two can race for one link. Three requests are a writer, a second writer and one who
looks in between. Three calls and two connections let one call hold a key, one wait
for it and one wait for a connection. Two rows of each aggregate on either side of
the batch limit let a pass end between them. Six failures are two messages given
up, or one given up through restarts and rebalances. Two imports are enough to race
for every piece of structure and for a slot; the batches agree on the zone and the
slot and disagree on the climate and the type, so that who wrote last shows and a denied
type is denied or not by who created the zone, and one
failure is spent on whichever statement, commit or death TLC picks. Two writers
between the statements of a read can register an aisle and a slot of it, or a
slot's type and the slot, or turn the one-way aisle round and back; two aisles of three bays joined at both ends are the least
map in which the shorter of two routes is not the one of fewer legs, a waypoint is
reached a second time by a shorter walk and leaves an outdated entry in the heap, and
a one-way aisle forces a detour. Requests, and imports, are interchangeable and no property names one, so the runs of the catalogue
and of the import use symmetry; no liveness is checked in them.

## 4. Fairness

`FacilityCatalog` and `LayoutImport` state safety only: a transaction there locks a
single row, so no cycle of waiters can form, and that nobody is stuck is the deadlock
check of their runs. Liveness is asked of `IdempotencyKey`, `OutboxRelay` and
`AnalyticsProjector`, which have loops, queues and retries, and of `ZoneReads`, whose
search is a loop: there a handler runs until it answers. Every fairness condition is weak and on the steps of one actor: a goroutine that
can take its next statement takes it, the database grants a lock or a connection
that stays free, a loop that can go on goes on. Nothing makes a request arrive, a
call fail, a pod restart or a partition move, and what goes wrong is finite
(`MaxFailures`), which is the assumption that brokers and databases come back.
Deadlock is checked in every passing run: the only states without a step are the
ones named `AllAnswered`, `Drained`, `Waiting`, `Returned` and `Rest`.

## 5. Where the code and its documents disagree

* `CatalogOneWay`: a geometry update that read an Active slot may save it, status
  and all, after a decommission committed; the slot is Active again.
  `SettledStaysDecommissioned` (holds) is what is true: once nobody who read the
  slot before is still in flight, it stays retired.
* `LayoutImportRefused`: a row of an import whose position or dimensions are refused
  is reported as rejected, but its slot was registered and announced before they were
  looked at. `RefusedForCause` and `SucceededIsImported` (hold) are what is true: rows
  do not harm each other, and what is reported as imported was imported.
* `OutboxRelayOrder`: with two relays a newer event of an aggregate may be sent
  before an older one that the other relay has locked. `OrderedWithOneRelay` and
  `NewestHeardLast` (hold) are what is true of one.
* `AnalyticsProjectorFlow`: once a poison message is to be dead-lettered, a publish or
  an offset commit that fails ends the consume loop for good, in a process whose probes
  stay green, and the group stays in front of the message. (So does a failed fetch, but
  that is no poison message's doing, and the property does not count it.)
  `SettledUnlessStopped` and `NothingSkipped` (hold) are what is true: messages
  wait behind it, and none is lost.

Each of those is a run that TLC finds violated. Others came up while modelling; what
the models keep is the code.

* Two requests that both found a code free are both accepted, the upsert reports no
  conflict, the second registration overwrites the first and both are announced.
  `docs/docs/ddd/invariants.md:112` and `errors.go:54-60` speak of an error (409) for
  the second. `SettledIsTaken` is what is true: once no request that found the
  identity free is in flight, it is never registered again.
* So two definitions of one rule id that both found it free turn a Deny into an Allow,
  after slots were refused by it. `SettledDenyRuleBinds` therefore asks that no such
  definition be in flight; without that TLC refutes it. Two registrations of one aisle
  may turn it round under a reader: a route may then go backward in an aisle that is
  one-way when the answer is given, and `RouteIsOfTheMap` says that it was walked both
  ways at some moment of the read.
* Two racing registrations of one structure id under different sites: the upsert leaves
  `site_code` out (`fixed_structure_repo.go:31-39`), so the row keeps the first site
  while the second announcement names the other.
* Two requests that race to register one zone may leave it with another climate than
  the one a slot was checked against in between. `SettledDenyRuleBinds` therefore
  speaks of the zone as the slot's registration read it; said of the zone as it is,
  TLC refutes it with four requests.
* `ListLocationsByRole` is documented (`reads.go:134-135`) as ordered by zone, aisle,
  bay, level, position; it sorts by bay, level, position only.
* `GetZoneGrid` lists the aisles before the slots, so a slot of an aisle that was
  registered in between is in no cell. `SettledIsShown` claims only what was there
  when the read began.
* Bays are sorted as text, `graph.go:44-46` says in physical walk order. A cross-aisle
  at a bay without a waypoint is left out of the graph without a word. Its length is
  the bay pitch (`graph.go:145-151`), not derived from the centrelines as
  `aisle/cross_aisle.go:44-47` says. A measured aisle divides its length by its bays,
  so a new bay changes distances that ADR 0017 (lines 90-92, 136-137) calls exact.
* `ErrUnknownNode` has an answer in `errors.go:106`; `FoundIsRooted`, which is proved,
  says it never occurs.
* The relay's context is derived from the signal's, so it stops at SIGTERM, before
  HTTP has drained, and not in the order the comments above `gracefulShutdown`
  (`main.go`) describe; a listener that fails returns at once (`main.go:129`), without
  the shutdown sequence.

## 6. Proofs

`FacilityCatalogProofs` (with the lemmas of `FacilityUseCasesProofs`) proves, for
every map, workload, number of requests and loaded database that satisfies the named
assumptions of the constants (the chain functions are functions into the right kinds,
the reverse of a cross-aisle's reverse is itself, `None` is not a request, the
workload is of commands, the loaded rows have their parents), every property of the
catalogue that its passing runs check:

* `TypeCorrect`, `NoOrphans` (`ChainOfCustody`), from `IndInv`;
* `TopicsAgree` (`StoreAndTopicsAgree`), `ParentsFirst` (`ParentAnnouncedFirst`),
  `LastWriterIsHeardLast` (`LastEventIsOfLastWriter`), `LinksStayActive`
  (`RegisteredUnderActive`), from `CatalogInv`;
* `Refinement`: `Spec => ImplementsLedger`;
* the action properties `RetiredStays` (`SettledStaysDecommissioned`), `TakenStays`
  (`SettledIsTaken`) and `DenyRulesBind` (`SettledDenyRuleBinds`).

`ChainOfCustody` is not inductive: that a commit keeps it depends on what the
request saw earlier. The invariant `IndInv` adds `StepOK` (where the program counter
of a request stands among its lookups), `ReadRowsHang` (a row in a request's view is
in the store, and so are its parents, for rows never vanish) and `Checked` (a request
past a lookup that demanded presence has every row of it in its view), so that at its
commit the view covers everything its row hangs from. The lemma of each action shows
which conjuncts it disturbs; `CommandFacts` and the lemmas on lookups take the eleven
use cases one by one, and `CommittedHangs` is where the pieces meet.

What is said of topics needs three more layers. `StatusInv`: only slots ever change
their status, so a link that was found Active still is. `TransactionInv`: what an open
transaction has pending is announced by its own command, ids are taken once, and two
open transactions hold different rows. `JournalInv`: what a request read was committed,
hence announced under an id that is taken before any of its own, and since a row's lock
is held from the save to the commit, the ids of one row's events follow the order of
its writers. `Refinement` then has one interesting step: `Commit` is `Ledger!Enter`,
because the row it makes visible is legal (`CommittedHangs`, `CommittedStatus`) and its
events enter the journal (`CommitEnters`); every other step leaves `store` and `outbox`
alone. The three action properties are inductive as they are told ("settled" names who
is still in flight): `Unwritten`, whoever may write a retired slot has found it free or
in use before; `Taken`, `Asks`, `AskedBefore`, a registration has asked for its identity
before it may write; `RulesMet`, the rules are the last lookup of a slot's registration
and are read in one statement.

`LayoutImportProofs` (with the same lemmas of `FacilityUseCasesProofs`) proves every
property of the import's run, for every map, set of imports, batches, workload of
others (any number of callers, any commands), loaded database and number of failures: `TypeCorrect`, `CustodyHolds`
(`ChainOfCustody`), `ImportedIsThere` (`SucceededIsImported`), `RefusalsHaveCauses`
(`RefusedForCause`), `SummariesAreTrue` (`SummaryCountsSlots`) and, as an action
property, `SettledStays` (`SettledIsNotRedefined`). Its `ImportInv` has three parts.
`StoreInv` speaks of what is committed: custody, that nothing vanishes, that only slots
change status, and that what was not loaded was announced, a retired slot by somebody
else. `ControlInv` speaks of an import at its place in a row: what the row needs is in
the store when it is its turn (`Ensured`), structure it creates was not loaded
(`SoughtIsNew`), the slot it goes on with is not one it imported before (`SlotIsNew`).
`OutcomeInv` speaks of the rows behind it: `Imported`, `Cause`, one slot for each row
that succeeded, and that announcements carry the number of their row (`Numbered`),
from which the counts of the summary follow. `RequestInv` is about the other callers:
what their lookups found is there still, what they found free was not loaded, the row
an update read may be saved again (`Prepared`), and every rule in the store was loaded
or defined by one of them. A step is described once for all of them,
as what it commits (`Grows`, `Writes`, `Commits`) and where it takes its import
(`Moved`), and each part is shown to outlast any step of anybody else. The proof
corrected the property: an earlier `Cause` had only Deny rules among the rules that
hold against a row, and could not be shown to outlast an Allow rule for another type,
which makes an allow-list that the row is not on.

`ZoneReadsProofs` proves every invariant of the reads' run, assuming of the constants
also that there are finitely many aggregates and that what was loaded has no writer
among the requests. It begins with the search, for every graph: `SearchInv` is
established by `Ask` and kept by every step, and holds the certificate of an answer,
`RouteIsCertified`: the labels grow by the legs of the route and by no more than its
length along any edge. Its parts
are `Types`, `Tree` (each label is the label of `prev` plus an edge), `Relaxed` (edges
out of a settled waypoint), `Frontier` (a label that is not settled is in the heap, and
the heap holds nothing shorter than what is settled), `Feasible` and `Traced`. The
certificate says without recursion what `RouteIsShortest` says with it, and
`RoutesAreShortest` closes that gap. No induction theorem of the library can be used
(they take an operator), so what would be an induction is an argument by the least
counterexample: `LeastOf`, from the well-foundedness of the naturals, and `Climb`, a
set of numbers that has the first and with each the next has all. With them the
recursions of `WalkLengths` and `LengthOfRoute` are shown to have solutions
(`WalksSolve`, `RouteAddsUp`), and `WalksStayIn` is what a walk may be used for:
whatever holds of the source at 0 and is carried along by every edge holds of the end
and the length of every walk. `Flagged` adds what `estimated` says of the tree and of
the route, so that the answer is an estimate exactly if a leg of its route is one.

Of the reads, `ReadsAreTyped`, `OnlyNamedIsMissed` (`FoundIsRooted`) and
`DistanceIsCertified` (`RouteIsCertified`) rest on `IndInv`, which holds a `Plan`:
whatever a read has yet to find is what the client named, or is present because
something that hangs from it was found or listed; writers remove nothing, so it stays
present. Of `EstimateTravelDistance` it says that both slots were found before the
lists are read, whence their bays are waypoints of the graph. `WhatWasThereIsShown`
(`SettledIsShown`) and `RoutesCanBeWalked` (`RouteIsOfTheMap`) need to know what an
answer that is not finished will hold, so `ShownInv` adds a `Promise`: what is `Owed` to
a query and was there when it began is listed, or a statement that is `Pending` brings
it, be it on the agenda or put there by the loop of a list that is. `Past` ties what was
seen to what is there: rows only come, and a row that has the writer it had is the row
it was, because a writer writes once and what was loaded has none. `Directed`
says that the aisles a read has seen both ways are in `bothWays`, and `Charted` that
the aisles listed for a distance are of its zone, which is why two aisles that a
cross-aisle joins are joined on the map.

`RuleSetCheckProofs` proves `CheckIsPermits == Spec => []VerdictIsPermits` for every
list of rules. Its invariant says what `allowListed`, `allowed` and the missing Deny
mean of the rules passed so far, one lemma per way in which a set of rules grows by
one.

`IdempotencyKeyProofs` proves `TypeCorrect`, `OncePerKey`, `RowsAreWhole` and `OneOutcome` for every
set of calls and requests and every size of the pool, assuming that `None` is neither
an answer nor a row. `AppliedOncePerKey` alone is not inductive: a second call could
be about to commit. `KeyHeldAlone` is the unique index (no two open transactions hold
a key, and none holds a committed one), `RecordedBeforeHeard` ties what a client heard
to the row of its key, and `AppliedHasRow` ties every created resource to a row that
says so, so that the commit of a call finds its key without one.

`OutboxRelayProofs` proves `TypeCorrect`, `NothingLost`, `Duplicates`, `InOrder`
(`OrderedWithOneRelay`) and `NewestLast` (`NewestHeardLast`) for every finite number of
relays, rows and failures and every batch size. `LocksOK` says that passes exclude each other
and claim nothing published; `BatchOK`, that a batch holds no row twice; `Spent`, that
a row is published, marked or sent and about to be marked. A send that needs no
failure spends a row that was not spent, which is why `Cardinality(Copies(id))` never
exceeds the failures by more than one. For the order, `Ordered` and `ClosedBehind` say
of a run with one relay that nothing is published or sent before an older row of its
aggregate, `BatchFollows` that its batch continues where the topic ends, and
`HeardInOrder`, `HeardLast` what that makes of a consumer that takes the copies in
turn, the duplicates of a failed pass included.

`AnalyticsProjectorProofs` proves `TypeCorrect`, `CountsOnce`, `GateLetsNothingBy` and `SkipsNothing`
for every partition, number of projectors and number of failures. `CountedIfClaimed`
says that the report counts an event once if the projection's gate has it and not at
all otherwise; `HandlesChanges`, what a projector knows at each place of its loop; and
`SettledBehind`, that nobody's position, and not only the committed offset, is past an
unsettled message, for any position may become the committed offset.

Only model-checked: all liveness (`EveryCallAnswered`, `EveryRowPublished`,
`SettledUnlessStopped`, `ReadAnswered`), which is out of the prover's reach under
fairness, and with it that no run deadlocks, which speaks of ENABLED. Every invariant
and every action property of a passing run is a theorem. Proved or checked, a property
is one of the model: what Postgres, Kafka and the analytical database do is assumed.

## 7. What is left

Planned, in order: more of what the components promise together, as refinements of
abstract specifications (the import as entries of the ledger, the middleware as one
atomic call, the reads' search as a choice of a shortest route); partition keys, that is
which events of one aggregate share a partition; the shutdown sequence of
`cmd/facility`.

Not modelled: functional attributes (one record validated against its role, a table of
cases and no state); the in-memory and direct-publish modes (they make none of these
promises); the reports service, the drawing of layouts (SVG), telemetry and the web
viewer (projections without state); routing, decoding, the wording of problems, and
JSON. Postgres, Kafka and the analytical database are external: their locks, atomic
commits and partitions are taken as documented.
