--------------------------- MODULE FacilityCatalog ---------------------------
(* The write side of the facility catalogue over Postgres.  A request runs    *)
(* one use case: its lookups, each a statement of its own that sees what is   *)
(* committed (READ COMMITTED), then one unit of work that saves one row and   *)
(* writes one outbox row per topic, then commits.  Requests interleave at     *)
(* every statement, and any of them may fail or die before its commit.        *)
EXTENDS FacilityUseCases, Naturals

CONSTANTS
    Workload,   \* the commands requests may carry
    Loaded      \* the rows of the database when the service starts

Requests == Writers

(* Mutants: definitions whose names end in "Slip" are plausible mistakes in    *)
(* the code the definition after them models.  No specification uses them.    *)

(* One topic, as when no encoder is passed.                                   *)
EncodersSlip == <<"integration">>

(* The encoders the composition root hands the outbox publisher, in order.    *)
Encoders == <<"integration", "analytics">>

ASSUME WorkloadAssumption == Workload \subseteq Commands

ASSUME LoadedAssumption ==
    /\ Loaded \in [Aggregates -> Row]
    /\ \A a \in Aggregates : Loaded[a].by = None
    /\ Custodial(Loaded)
-----------------------------------------------------------------------------
VARIABLES
    store,    \* the committed rows
    outbox,   \* the committed rows of outbox_events
    nextId,   \* the BIGSERIAL of outbox_events: ids are taken at INSERT, before commit
    pc,       \* where a request is
    cmd,      \* its command
    step,     \* its next lookup, or the next encoder of its Publish
    view,     \* the rows it has read
    pending   \* the outbox rows of its open transaction

vars == <<store, outbox, nextId, pc, cmd, step, view, pending>>

InTransaction == {"publish", "commit"}
InFlight == {"lookup", "save"} \cup InTransaction
Answered == {"accepted", "rejected", "failed"}

OutboxRow == [id    : Nat,
              topic : Topics,
              event : Events,
              about : Aggregates,
              by    : Requests]

NoView == [a \in Aggregates |-> NoRow]

TypeOK ==
    /\ store \in [Aggregates -> Row]
    /\ outbox \in SUBSET OutboxRow
    /\ nextId \in Nat
    /\ pc \in [Requests -> {"idle"} \cup InFlight \cup Answered]
    /\ cmd \in [Requests -> Commands \cup {None}]
    /\ \A p \in Requests : pc[p] # "idle" => cmd[p] \in Commands
    /\ step \in [Requests -> Nat]
    /\ view \in [Requests -> [Aggregates -> Row]]
    /\ pending \in [Requests -> SUBSET OutboxRow]

Init ==
    /\ store = Loaded
    /\ outbox = {}
    /\ nextId = 1
    /\ pc = [p \in Requests |-> "idle"]
    /\ cmd = [p \in Requests |-> None]
    /\ step = [p \in Requests |-> 1]
    /\ view = [p \in Requests |-> NoView]
    /\ pending = [p \in Requests |-> {}]
-----------------------------------------------------------------------------
(* A handler calls a use case.                                                *)
Arrive(p) ==
    /\ pc[p] = "idle"
    /\ \E c \in Workload : cmd' = [cmd EXCEPT ![p] = c]
    /\ pc' = [pc EXCEPT ![p] = "lookup"]
    /\ UNCHANGED <<store, outbox, nextId, step, view, pending>>

(* Retired slots are filtered out of what the repository returns.             *)
ReadSlip(p, rows) ==
    [a \in Aggregates |->
        IF a \notin rows THEN view[p][a]
        ELSE IF store[a].status = "Decommissioned" THEN NoRow
        ELSE store[a]]

(* What a repository returns outside of, or before, the request's own writes: *)
(* the committed rows.                                                        *)
Read(p, rows) == [a \in Aggregates |-> IF a \in rows THEN store[a] ELSE view[p][a]]

(* One statement of the use case, satisfied: it goes on to the next one, or   *)
(* to its unit of work.                                                       *)
LookupPasses(p) ==
    LET lookups == Lookups(cmd[p])
        seen    == Read(p, lookups[step[p]].rows)
    IN /\ pc[p] = "lookup"
       /\ Meets(cmd[p], lookups[step[p]], seen)
       /\ view' = [view EXCEPT ![p] = seen]
       /\ IF step[p] < Len(lookups)
          THEN /\ step' = [step EXCEPT ![p] = @ + 1]
               /\ UNCHANGED pc
          ELSE /\ step' = [step EXCEPT ![p] = 1]
               /\ pc' = [pc EXCEPT ![p] = "save"]
       /\ UNCHANGED <<store, outbox, nextId, cmd, pending>>

(* ... or not: the use case returns its domain error, having written nothing. *)
LookupRefuses(p) ==
    LET lookup == Lookups(cmd[p])[step[p]]
    IN /\ pc[p] = "lookup"
       /\ ~Meets(cmd[p], lookup, Read(p, lookup.rows))
       /\ pc' = [pc EXCEPT ![p] = "rejected"]
       /\ UNCHANGED <<store, outbox, nextId, cmd, step, view, pending>>

(* The row a request saves, over the one it finds, which nobody else writes    *)
(* from then to the end of the transaction.                                   *)
SavedRow(p) ==
    LET a == cmd[p].target
    IN Upsert(a, store[a], RowWritten(cmd[p], view[p][a], p))

(* Postgres holds a row's lock, or the unique-index entry of an uncommitted   *)
(* insert, from the Save to the end of the transaction.                       *)
Holds(q, a) == pc[q] \in InTransaction /\ cmd[q].target = a

(* The events are written before the row is locked.                           *)
LockSlip(p) ==
    /\ pc[p] = "save"
    /\ pc' = [pc EXCEPT ![p] = "publish"]
    /\ UNCHANGED <<store, outbox, nextId, cmd, step, view, pending>>

(* The repository saves through its pool and not through the transaction.     *)
SaveSlip(p) ==
    /\ pc[p] = "save"
    /\ pc' = [pc EXCEPT ![p] = "publish"]
    /\ store' = [store EXCEPT ![cmd[p].target] = SavedRow(p)]
    /\ UNCHANGED <<outbox, nextId, cmd, step, view, pending>>

(* Begin and Save: INSERT ... ON CONFLICT DO UPDATE waits for the row, then   *)
(* writes it whoever has committed it in between.                             *)
Save(p) ==
    /\ pc[p] = "save"
    /\ \A q \in Requests \ {p} : ~Holds(q, cmd[p].target)
    /\ pc' = [pc EXCEPT ![p] = "publish"]
    /\ UNCHANGED <<store, outbox, nextId, cmd, step, view, pending>>

(* The publisher inserts through its pool and not through the transaction.    *)
PublishSlip(p) ==
    /\ pc[p] = "publish"
    /\ outbox' = outbox \cup {[id    |-> nextId,
                                topic |-> Encoders[step[p]],
                                event |-> EventOf[cmd[p].use],
                                about |-> cmd[p].target,
                                by    |-> p]}
    /\ nextId' = nextId + 1
    /\ IF step[p] < Len(Encoders)
       THEN /\ step' = [step EXCEPT ![p] = @ + 1]
            /\ UNCHANGED pc
       ELSE /\ pc' = [pc EXCEPT ![p] = "commit"]
            /\ UNCHANGED step
    /\ UNCHANGED <<store, cmd, view, pending>>

(* OutboxPublisher.Publish: one INSERT per encoder, in the same transaction.  *)
Publish(p) ==
    /\ pc[p] = "publish"
    /\ pending' = [pending EXCEPT ![p] = @ \cup
                     {[id    |-> nextId,
                       topic |-> Encoders[step[p]],
                       event |-> EventOf[cmd[p].use],
                       about |-> cmd[p].target,
                       by    |-> p]}]
    /\ nextId' = nextId + 1
    /\ IF step[p] < Len(Encoders)
       THEN /\ step' = [step EXCEPT ![p] = @ + 1]
            /\ UNCHANGED pc
       ELSE /\ pc' = [pc EXCEPT ![p] = "commit"]
            /\ UNCHANGED step
    /\ UNCHANGED <<store, outbox, cmd, view>>

(* The transaction commits: the row and its events become visible together.   *)
(* Commit may still return an error, its acknowledgement lost on the way: the *)
(* request answers failed, and what it wrote stays.                           *)
Commit(p) ==
    /\ pc[p] = "commit"
    /\ store' = [store EXCEPT ![cmd[p].target] = SavedRow(p)]
    /\ outbox' = outbox \cup pending[p]
    /\ pending' = [pending EXCEPT ![p] = {}]
    /\ \E answer \in {"accepted", "failed"} : pc' = [pc EXCEPT ![p] = answer]
    /\ UNCHANGED <<nextId, cmd, step, view>>

(* Any error before the commit (an invalid argument, a failed statement, a    *)
(* cancelled context, the death of the process): nothing of the request       *)
(* stays.  A crash of the service is this step for every request in flight.   *)
Fail(p) ==
    /\ pc[p] \in InFlight
    /\ pending' = [pending EXCEPT ![p] = {}]
    /\ pc' = [pc EXCEPT ![p] = "failed"]
    /\ UNCHANGED <<store, outbox, nextId, cmd, step, view>>

Advance(p) == LookupPasses(p) \/ LookupRefuses(p) \/ Save(p) \/ Publish(p) \/ Commit(p)

AllAnswered ==
    /\ \A p \in Requests : pc[p] \in Answered
    /\ UNCHANGED vars

Next == \/ \E p \in Requests : Arrive(p) \/ Advance(p) \/ Fail(p)
        \/ AllAnswered

Spec == Init /\ [][Next]_vars
-----------------------------------------------------------------------------
(* Safety.                                                                    *)

(* No orphans, ever: every committed row hangs from committed rows, although  *)
(* each link was checked by a statement of its own, before and outside the    *)
(* transaction that wrote the row.  It is why no foreign key can ever fire.   *)
ChainOfCustody == Custodial(store)

Announces(e, a) == e.about = a /\ e.event \in RegistrationEvents

(* What the use case that wrote an event needed: its target's custody, and    *)
(* what the command names besides.                                            *)
Needed(e) == Custody(e.about) \cup Named(e.about, cmd[e.by].arg)

(* A consumer that reads a topic in the order of its ids meets every parent   *)
(* before its children, although ids are taken before commits and requests    *)
(* commit in any order.                                                       *)
ParentAnnouncedFirst ==
    \A e \in outbox : Announces(e, e.about) =>
        \A b \in Needed(e) :
            \/ Present(Loaded[b])
            \/ \E f \in outbox : f.topic = e.topic /\ Announces(f, b) /\ f.id < e.id

(* The store and each topic never diverge: a row is in the catalogue exactly  *)
(* if it was loaded or its registration is announced, in both topics.         *)
StoreAndTopicsAgree ==
    \A a \in Aggregates, t \in Topics :
        Present(store[a]) <=>
            \/ Present(Loaded[a])
            \/ \E e \in outbox : e.topic = t /\ Announces(e, a)

(* The event of an aggregate with the highest id was written by the request   *)
(* that wrote its row: of two requests that update one aggregate, the one     *)
(* whose row survives is the one a consumer hears last.                       *)
LastEventIsOfLastWriter ==
    \A e \in outbox :
        (\A f \in outbox : f.about = e.about /\ f.topic = e.topic => f.id <= e.id)
            => store[e.about].by = e.by

(* A zone, an aisle or a slot is registered under Active links only, and they *)
(* still are: no request takes a link away under a registration.              *)
RegisteredUnderActive ==
    \A e \in outbox : Announces(e, e.about) =>
        \A b \in ActiveCustody(e.about) : store[b].status = "Active"

(* A request that read the slot and may still write it.                       *)
MayStillWrite(p, s) ==
    /\ \/ pc[p] = "lookup" /\ step[p] > 1
       \/ pc[p] \in {"save"} \cup InTransaction
    /\ cmd[p].target = s

SettledDecommissioned(s) ==
    /\ store[s].status = "Decommissioned"
    /\ \A p \in Requests : ~MayStillWrite(p, s)

(* Once a slot is retired and no request that read it before is in flight, it *)
(* stays retired whatever requests arrive.                                    *)
SettledStaysDecommissioned ==
    [][\A s \in LocationSlots :
          SettledDecommissioned(s) => SettledDecommissioned(s)']_vars

SameIdentity(a) == {a} \cup IF KindOf[a] = "crossAisle" THEN {ReverseOf[a]} ELSE {}

(* A registration of an identity that may still commit: it is past its        *)
(* duplicate check.                                                           *)
MayStillRegister(p, a) ==
    /\ pc[p] \in InFlight
    /\ cmd[p].target \in SameIdentity(a)
    /\ cmd[p].use \in Registrations
    /\ pc[p] = "lookup" => \E i \in 1..(step[p] - 1) : Lookups(cmd[p])[i].must = "absent"

SettledIdentity(a) == Present(store[a]) /\ \A p \in Requests : ~MayStillRegister(p, a)

(* Once an identity is committed and no registration that found it free is in *)
(* flight, none ever passes for it again, whatever becomes of its row: not    *)
(* for a retired slot, nor for a cross-aisle written from its other end.      *)
(* (Two that both found it free may both be accepted.)                        *)
SettledIsTaken ==
    [][\A a \in Aggregates : SettledIdentity(a) => SettledIdentity(a)']_vars

(* A registration that listed the rules, but not this one as it is.           *)
Unaware(p, r) ==
    /\ pc[p] \in {"save"} \cup InTransaction
    /\ cmd[p].use = "RegisterLocationSlot"
    /\ view[p][r] # store[r]

SettledRule(r) == SettledIdentity(r) /\ \A p \in Requests : ~Unaware(p, r)

(* The slots a step registers.                                                *)
NewlyRegistered ==
    {e.about : e \in {x \in outbox' \ outbox : x.event = "LocationSlotRegistered"}}

(* Once a rule is committed, no other definition of its id is in flight (two  *)
(* that both found the id free overwrite each other), and no registration     *)
(* that listed the rules without it is, it says what it says for good, and if *)
(* it denies, no slot it forbids is registered any more, in its zone as the   *)
(* registration read it.  (Not as it is: two racing registrations of a zone   *)
(* may change its attributes after that.  And a slot that was there before    *)
(* may still be moved and retired: an update does not ask the rules.)         *)
SettledDenyRuleBinds ==
    [][\A r \in RuleIds : SettledRule(r) =>
          /\ SettledRule(r)'
          /\ store'[r] = store[r]
          /\ \A s \in NewlyRegistered :
                ~Denied({store[r].attr}, store'[s].attr,
                        view[store'[s].by][ZoneOfSlot(s)].attr)]_vars

(* What ADR 0005 and the README say: retiring is one-way.                     *)
DecommissionIsOneWay ==
    [][\A s \in LocationSlots :
          store[s].status = "Decommissioned" => store'[s].status = "Decommissioned"]_vars

(* The promise of the whole catalogue: each accepted request is ONE atomic    *)
(* entry of a ledger, legal in the catalogue as it is at that moment.         *)
Ledger == INSTANCE FacilityLedger WITH
    rows    <- store,
    journal <- [t \in Topics |-> {[event |-> e.event, about |-> e.about, by |-> e.by] :
                                     e \in {x \in outbox : x.topic = t}}]

ImplementsLedger == Ledger!Spec
=============================================================================
