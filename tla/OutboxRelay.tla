----------------------------- MODULE OutboxRelay -----------------------------
(* The relays that drain outbox_events onto Kafka, one per pod.  A pass is    *)
(* one transaction: it claims the oldest unpublished rows no other pass has   *)
(* locked, sends each in order, marks it, and commits the marks at the end.   *)
(* The broker is not in the transaction: what was sent stays sent.            *)
EXTENDS Naturals, Sequences, FiniteSets, SequencesExt

CONSTANTS
    Relays,       \* the pods that may run a relay
    MaxId,        \* rows 1 .. MaxId of the table, by id
    AggregateOf,  \* the aggregate a row's event is about
    BatchSize,    \* rows a pass claims: 100 in the code
    MaxFailures   \* bound on failed statements, failed sends and deaths

Ids == 1..MaxId

ASSUME RelayAssumption ==
    /\ IsFiniteSet(Relays)
    /\ MaxId \in Nat
    /\ DOMAIN AggregateOf = Ids
    /\ BatchSize \in Nat \ {0}
    /\ MaxFailures \in Nat

VARIABLES
    running,    \* the relays this deployment runs
    committed,  \* rows whose transaction has committed
    published,  \* rows whose published_at is committed
    topic,      \* what the broker has, oldest first
    pc,         \* where a relay is
    batch,      \* the rows its pass has locked and not marked yet, in order
    marked,     \* the rows its pass has marked, not committed yet
    failures    \* what has failed so far

vars == <<running, committed, published, topic, pc, batch, marked, failures>>

TypeOK ==
    /\ running \subseteq Relays
    /\ committed \subseteq Ids
    /\ published \subseteq committed
    /\ topic \in Seq(Ids)
    /\ pc \in [Relays -> {"idle", "send", "mark", "commit"}]
    /\ batch \in [Relays -> Seq(Ids)]
    /\ marked \in [Relays -> SUBSET Ids]
    /\ failures \in 0..MaxFailures
    /\ \A r \in Relays : pc[r] = "idle" => batch[r] = << >> /\ marked[r] = {}

Init ==
    /\ running \in SUBSET Relays \ {{}}
    /\ committed = {}
    /\ published = {}
    /\ topic = << >>
    /\ pc = [r \in Relays |-> "idle"]
    /\ batch = [r \in Relays |-> << >>]
    /\ marked = [r \in Relays |-> {}]
    /\ failures = 0
-----------------------------------------------------------------------------
(* Mutants: definitions whose names end in "Slip" are plausible mistakes in    *)
(* the code the definition after them models.  No specification uses them.    *)

(* A use case commits an outbox row.  Ids are taken before commits, so rows   *)
(* of different aggregates appear in any order and some never do; those of    *)
(* one aggregate appear in the order of their ids, because its row is locked  *)
(* when they are taken.                                                       *)
CommitRow(id) ==
    /\ id \notin committed
    /\ \A other \in committed : AggregateOf[other] = AggregateOf[id] => other < id
    /\ committed' = committed \cup {id}
    /\ UNCHANGED <<running, published, topic, pc, batch, marked, failures>>

(* The SELECT takes no locks.                                                 *)
LockedSlip(r) == {}

(* FOR UPDATE holds the rows of a pass until its transaction ends ...         *)
Locked(r) == ToSet(batch[r]) \cup marked[r]

(* The relay remembers how far it came instead of asking what is unpublished. *)
ClaimableSlip(r) ==
    {id \in committed \ UNION {Locked(s) : s \in Relays \ {r}} :
        \A other \in published : other < id}

(* ... and SKIP LOCKED passes over those of the others.                       *)
Claimable(r) == (committed \ published) \ UNION {Locked(s) : s \in Relays \ {r}}

(* LIMIT: so many of them.                                                    *)
Limited(ids) == IF Cardinality(ids) < BatchSize THEN Cardinality(ids) ELSE BatchSize

(* Newest first.                                                              *)
OldestFirstSlip(ids) ==
    {rows \in [1..Limited(ids) -> ids] :
        /\ \A m, n \in DOMAIN rows : m < n => rows[m] > rows[n]
        /\ \A id \in ids \ ToSet(rows), n \in DOMAIN rows : rows[n] > id}

(* The result of the SELECT (there is one): the oldest rows, in the order of  *)
(* their ids.                                                                 *)
OldestFirst(ids) ==
    {rows \in [1..Limited(ids) -> ids] :
        /\ \A m, n \in DOMAIN rows : m < n => rows[m] < rows[n]
        /\ \A id \in ids \ ToSet(rows), n \in DOMAIN rows : rows[n] < id}

Claim(r) ==
    /\ r \in running
    /\ pc[r] = "idle"
    /\ Claimable(r) # {}
    /\ \E rows \in OldestFirst(Claimable(r)) : batch' = [batch EXCEPT ![r] = rows]
    /\ pc' = [pc EXCEPT ![r] = "send"]
    /\ UNCHANGED <<running, committed, published, topic, marked, failures>>

(* The broker takes the message and acknowledges it.                          *)
Send(r) ==
    /\ pc[r] = "send"
    /\ topic' = Append(topic, Head(batch[r]))
    /\ pc' = [pc EXCEPT ![r] = "mark"]
    /\ UNCHANGED <<running, committed, published, batch, marked, failures>>

(* The row is marked published, in the transaction of the pass.               *)
Mark(r) ==
    /\ pc[r] = "mark"
    /\ marked' = [marked EXCEPT ![r] = @ \cup {Head(batch[r])}]
    /\ batch' = [batch EXCEPT ![r] = Tail(@)]
    /\ pc' = [pc EXCEPT ![r] = IF Len(batch[r]) = 1 THEN "commit" ELSE "send"]
    /\ UNCHANGED <<running, committed, published, topic, failures>>

(* A failed send does not stop the pass: it marks what it has tried.          *)
MarkAllSlip(r) ==
    /\ pc[r] = "send"
    /\ failures < MaxFailures
    /\ failures' = failures + 1
    /\ topic' \in {topic, Append(topic, Head(batch[r]))}
    /\ pc' = [pc EXCEPT ![r] = "mark"]
    /\ UNCHANGED <<running, committed, published, batch, marked>>

(* A failed send does not stop the pass: the rest of the batch is sent.       *)
GoOnSlip(r) ==
    /\ pc[r] = "send"
    /\ failures < MaxFailures
    /\ failures' = failures + 1
    /\ topic' \in {topic, Append(topic, Head(batch[r]))}
    /\ batch' = [batch EXCEPT ![r] = Tail(@)]
    /\ pc' = [pc EXCEPT ![r] = IF Len(batch[r]) = 1 THEN "commit" ELSE "send"]
    /\ UNCHANGED <<running, committed, published, marked>>

(* The send fails, with the message taken by the broker or not: the pass      *)
(* stops at this row, and goes on to commit the marks it has.                 *)
SendFails(r) ==
    /\ pc[r] = "send"
    /\ failures < MaxFailures
    /\ failures' = failures + 1
    /\ topic' \in {topic, Append(topic, Head(batch[r]))}
    /\ pc' = [pc EXCEPT ![r] = "commit"]
    /\ UNCHANGED <<running, committed, published, batch, marked>>

(* The pass commits: its marks are visible, its locks are gone.               *)
Commit(r) ==
    /\ pc[r] = "commit"
    /\ published' = published \cup marked[r]
    /\ marked' = [marked EXCEPT ![r] = {}]
    /\ batch' = [batch EXCEPT ![r] = << >>]
    /\ pc' = [pc EXCEPT ![r] = "idle"]
    /\ UNCHANGED <<running, committed, topic, failures>>

(* No deferred rollback.                                                      *)
AbortSlip(r) ==
    /\ pc[r] # "idle"
    /\ failures < MaxFailures
    /\ failures' = failures + 1
    /\ pc' = [pc EXCEPT ![r] = "idle"]
    /\ UNCHANGED <<running, committed, published, topic, batch, marked>>

(* A statement or the commit of the pass fails, or the pod dies and another   *)
(* takes its place: the marks are rolled back.                                *)
Abort(r) ==
    /\ pc[r] # "idle"
    /\ failures < MaxFailures
    /\ failures' = failures + 1
    /\ batch' = [batch EXCEPT ![r] = << >>]
    /\ marked' = [marked EXCEPT ![r] = {}]
    /\ pc' = [pc EXCEPT ![r] = "idle"]
    /\ UNCHANGED <<running, committed, published, topic>>

Pass(r) == Claim(r) \/ Send(r) \/ Mark(r) \/ Commit(r)

(* Nothing is left to publish.                                                *)
Drained ==
    /\ committed = published
    /\ \A r \in Relays : pc[r] = "idle"
    /\ UNCHANGED vars

Next == \/ \E id \in Ids : CommitRow(id)
        \/ \E r \in Relays : Pass(r) \/ SendFails(r) \/ Abort(r)
        \/ Drained

(* Run goes on for as long as the pod lives: a pass that can take its next    *)
(* step takes it, and the next pass follows.                                  *)
Spec == Init /\ [][Next]_vars /\ \A r \in Relays : WF_vars(Pass(r))
-----------------------------------------------------------------------------
Sent == ToSet(topic)

(* Nothing is lost: what the table calls published is on the topic, whatever  *)
(* fails or dies in between.                                                  *)
PublishedWasSent == published \subseteq Sent

(* A row is sent again only after something failed: two relays at work on one *)
(* table never both send a row.                                               *)
DuplicatesOnlyFromFailures ==
    \A id \in Ids :
        Cardinality({n \in DOMAIN topic : topic[n] = id}) <= 1 + failures

(* Earlier rows of the same aggregate.                                        *)
Before(id) == {other \in committed : other < id /\ AggregateOf[other] = AggregateOf[id]}

FirstSent(id) == CHOOSE n \in DOMAIN topic :
                    topic[n] = id /\ \A m \in 1..(n - 1) : topic[m] # id

(* What the comment on OutboxRelay says: the events of one aggregate reach    *)
(* the topic in the order of their rows (redeliveries aside).                 *)
OrderedPerAggregate ==
    \A id \in Sent : \A other \in Before(id) :
        other \in Sent /\ FirstSent(other) < FirstSent(id)

(* It holds for as long as one relay runs.                                    *)
OrderedWithOneRelay == Cardinality(running) = 1 => OrderedPerAggregate

(* Redelivery after a crash sends a stretch of the topic again; with one      *)
(* relay the last event a consumer hears of an aggregate is all the same the  *)
(* newest of those published, once the passes are over.                       *)
LastSent(id) == CHOOSE n \in DOMAIN topic :
                    topic[n] = id /\ \A m \in (n + 1)..Len(topic) : topic[m] # id

NewestHeardLast ==
    Cardinality(running) = 1 /\ committed = published =>
        \A id \in committed : \A other \in Before(id) : LastSent(other) < LastSent(id)

(* Every committed row is published in the end: no crash, no failed send and  *)
(* no lock of another relay's pass strands one.                               *)
EveryRowPublished == \A id \in Ids : id \in committed ~> id \in published
=============================================================================
