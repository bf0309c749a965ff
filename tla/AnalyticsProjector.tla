-------------------------- MODULE AnalyticsProjector --------------------------
(* The projectors that fold the analytics topic into the catalogue-growth     *)
(* report: fetch a message, skip it if its event is consumed already, apply   *)
(* it, mark it consumed, commit the offset; after MaxAttempts failures send   *)
(* it to the dead-letter topic instead.  One partition of the topic; its      *)
(* messages repeat events, for the relay redelivers.                          *)
EXTENDS Naturals, Sequences, FiniteSets

CONSTANTS
    Projectors,   \* the pods of the consumer group
    Partition,    \* the messages of the partition, oldest first
    MaxAttempts,  \* maxHandlerAttempts: 3 in the code
    MaxFailures   \* bound on failed calls, deaths and rebalances

Offsets == 1..Len(Partition)

(* What a message is to the consumer: a catalogue change of the report, an    *)
(* event of another type, or no CloudEvent at all.                            *)
MessageKinds == {"change", "other", "poison"}

EventIds == {Partition[n].id : n \in Offsets}

ASSUME PartitionAssumption ==
    /\ Len(Partition) \in Nat
    /\ \A n \in Offsets :
          DOMAIN Partition[n] = {"id", "kind"} /\ Partition[n].kind \in MessageKinds

ASSUME BoundsAssumption == MaxAttempts \in Nat \ {0} /\ MaxFailures \in Nat

VARIABLES
    owner,     \* the projector the partition is assigned to
    offset,    \* the committed offset: the next message of a new assignment
    position,  \* the next message a projector fetches
    pc,        \* where a projector's loop is
    attempts,  \* the failed attempts at the message in hand
    consumed,  \* analytics_consumed_events: the consumer's gate
    counted,   \* how often the report counts an event
    claimed,   \* analytics_processed_events: the projection's own gate
    dlq,       \* the messages the dead-letter topic has
    failures   \* what has failed so far

vars == <<owner, offset, position, pc, attempts, consumed, counted, claimed, dlq, failures>>

Handling == {"check", "apply", "mark"}
Loop == {"idle", "dead-letter", "commit"} \cup Handling

TypeOK ==
    /\ owner \in Projectors
    /\ offset \in 1..(Len(Partition) + 1)
    /\ position \in [Projectors -> 1..(Len(Partition) + 1)]
    /\ pc \in [Projectors -> Loop \cup {"stopped"}]
    /\ \A p \in Projectors : pc[p] \in Loop \ {"idle"} => position[p] \in Offsets
    /\ attempts \in [Projectors -> 0..(MaxAttempts - 1)]
    /\ consumed \subseteq EventIds
    /\ counted \in [EventIds -> Nat]
    /\ claimed \subseteq EventIds
    /\ dlq \subseteq Offsets
    /\ failures \in 0..MaxFailures

Init ==
    /\ owner \in Projectors
    /\ offset = 1
    /\ position = [p \in Projectors |-> 1]
    /\ pc = [p \in Projectors |-> "idle"]
    /\ attempts = [p \in Projectors |-> 0]
    /\ consumed = {}
    /\ counted = [id \in EventIds |-> 0]
    /\ claimed = {}
    /\ dlq = {}
    /\ failures = 0
-----------------------------------------------------------------------------
(* The message a projector has in hand.                                       *)
Message(p) == Partition[position[p]]

(* One of the MaxFailures things that go wrong.                               *)
GoesWrong == failures < MaxFailures /\ failures' = failures + 1

(* Mutants: definitions whose names end in "Slip" are plausible mistakes in    *)
(* the code the definition after them models.  No specification uses them.    *)

(* FetchMessage and Decode: a value that is no CloudEvent is dead-lettered at *)
(* once, a type the report does not derive from is only committed.            *)
Fetch(p) ==
    /\ pc[p] = "idle"
    /\ owner = p
    /\ position[p] \in Offsets
    /\ pc' = [pc EXCEPT ![p] = CASE Message(p).kind = "change" -> "check"
                                 [] Message(p).kind = "other"  -> "commit"
                                 [] Message(p).kind = "poison" -> "dead-letter"]
    /\ attempts' = [attempts EXCEPT ![p] = 0]
    /\ UNCHANGED <<owner, offset, position, consumed, counted, claimed, dlq, failures>>

(* The event is marked consumed when it is checked: claim, then apply.        *)
CheckSlip(p) ==
    /\ pc[p] = "check"
    /\ pc' = [pc EXCEPT ![p] = IF Message(p).id \in consumed THEN "commit" ELSE "apply"]
    /\ consumed' = consumed \cup {Message(p).id}
    /\ UNCHANGED <<owner, offset, position, attempts, counted, claimed, dlq, failures>>

(* IsProcessed, a read of the consumer's gate.                                *)
Check(p) ==
    /\ pc[p] = "check"
    /\ pc' = [pc EXCEPT ![p] = IF Message(p).id \in consumed THEN "commit" ELSE "apply"]
    /\ UNCHANGED <<owner, offset, position, attempts, consumed, counted, claimed, dlq, failures>>

(* The projection trusts the consumer's gate.                                 *)
CountedSlip(id) ==
    /\ claimed' = claimed \cup {id}
    /\ counted' = [counted EXCEPT ![id] = @ + 1]

(* One transaction of the analytical database claims the event and, if the    *)
(* claim is new, adds it to the report.                                       *)
Counted(id) ==
    /\ claimed' = claimed \cup {id}
    /\ counted' = IF id \in claimed THEN counted ELSE [counted EXCEPT ![id] = @ + 1]

Apply(p) ==
    /\ pc[p] = "apply"
    /\ Counted(Message(p).id)
    /\ pc' = [pc EXCEPT ![p] = "mark"]
    /\ UNCHANGED <<owner, offset, position, attempts, consumed, dlq, failures>>

(* MarkProcessed, a statement of its own.                                     *)
Mark(p) ==
    /\ pc[p] = "mark"
    /\ consumed' = consumed \cup {Message(p).id}
    /\ pc' = [pc EXCEPT ![p] = "commit"]
    /\ UNCHANGED <<owner, offset, position, attempts, counted, claimed, dlq, failures>>

(* What a statement that reports an error may all the same have done.         *)
LostAcknowledgement(p) ==
    \/ UNCHANGED <<consumed, counted, claimed>>
    \/ pc[p] = "apply" /\ Counted(Message(p).id) /\ UNCHANGED consumed
    \/ pc[p] = "mark" /\ consumed' = consumed \cup {Message(p).id} /\ UNCHANGED <<counted, claimed>>

(* A failure that is retried one time too many.                               *)
HandlerFailsSlip(p) ==
    /\ pc[p] \in Handling
    /\ GoesWrong
    /\ LostAcknowledgement(p)
    /\ IF attempts[p] < MaxAttempts
       THEN /\ attempts' = [attempts EXCEPT ![p] = @ + 1]
            /\ pc' = [pc EXCEPT ![p] = "check"]
       ELSE /\ pc' = [pc EXCEPT ![p] = "dead-letter"]
            /\ UNCHANGED attempts
    /\ UNCHANGED <<owner, offset, position, dlq>>

(* The message is given up and committed without a dead letter.               *)
NoLetterSlip(p) ==
    /\ pc[p] = "dead-letter"
    /\ pc' = [pc EXCEPT ![p] = "commit"]
    /\ UNCHANGED <<owner, offset, position, attempts, consumed, counted, claimed, dlq, failures>>

(* A statement of the handler fails: it is retried from the start, or the     *)
(* message is given up.                                                       *)
HandlerFails(p) ==
    /\ pc[p] \in Handling
    /\ GoesWrong
    /\ LostAcknowledgement(p)
    /\ IF attempts[p] + 1 < MaxAttempts
       THEN /\ attempts' = [attempts EXCEPT ![p] = @ + 1]
            /\ pc' = [pc EXCEPT ![p] = "check"]
       ELSE /\ pc' = [pc EXCEPT ![p] = "dead-letter"]
            /\ UNCHANGED attempts
    /\ UNCHANGED <<owner, offset, position, dlq>>

DeadLetter(p) ==
    /\ pc[p] = "dead-letter"
    /\ dlq' = dlq \cup {position[p]}
    /\ pc' = [pc EXCEPT ![p] = "commit"]
    /\ UNCHANGED <<owner, offset, position, attempts, consumed, counted, claimed, failures>>

(* A message that was dead-lettered is not committed, and fetched again.      *)
NoCommitSlip(p) ==
    /\ pc[p] = "commit"
    /\ offset' = IF position[p] \in dlq THEN offset ELSE position[p] + 1
    /\ position' = [position EXCEPT ![p] = IF position[p] \in dlq THEN @ ELSE @ + 1]
    /\ pc' = [pc EXCEPT ![p] = "idle"]
    /\ UNCHANGED <<owner, attempts, consumed, counted, claimed, dlq, failures>>

(* CommitMessages: the offset after this message, also when the partition has *)
(* moved on to another projector meanwhile.                                   *)
CommitOffset(p) ==
    /\ pc[p] = "commit"
    /\ offset' = position[p] + 1
    /\ position' = [position EXCEPT ![p] = @ + 1]
    /\ pc' = [pc EXCEPT ![p] = "idle"]
    /\ UNCHANGED <<owner, attempts, consumed, counted, claimed, dlq, failures>>

(* A fetch fails, or a dead-letter publish or a commit does, its effect there *)
(* or not: Run returns, and the process goes on without its loop, a live and  *)
(* ready member of the group.                                                 *)
LoopStops(p) ==
    /\ GoesWrong
    /\ \/ pc[p] = "idle" /\ UNCHANGED <<dlq, offset>>
       \/ pc[p] = "dead-letter" /\ dlq' \in {dlq, dlq \cup {position[p]}} /\ UNCHANGED offset
       \/ pc[p] = "commit" /\ offset' \in {offset, position[p] + 1} /\ UNCHANGED dlq
    /\ pc' = [pc EXCEPT ![p] = "stopped"]
    /\ UNCHANGED <<owner, position, attempts, consumed, counted, claimed>>

(* The pod dies, or is told to stop, wherever its loop is, and comes back.    *)
Restart(p) ==
    /\ GoesWrong
    /\ pc' = [pc EXCEPT ![p] = "idle"]
    /\ position' = [position EXCEPT ![p] = offset]
    /\ UNCHANGED <<owner, offset, attempts, consumed, counted, claimed, dlq>>

(* The partition goes to another projector, from the committed offset on,     *)
(* while the one that had it may still have a message in hand.                *)
Rebalance(p) ==
    /\ owner # p
    /\ pc[p] \in {"idle", "stopped"}
    /\ GoesWrong
    /\ owner' = p
    /\ position' = [position EXCEPT ![p] = offset]
    /\ UNCHANGED <<offset, pc, attempts, consumed, counted, claimed, dlq>>

Advance(p) == Fetch(p) \/ Check(p) \/ Apply(p) \/ Mark(p) \/ DeadLetter(p) \/ CommitOffset(p)

(* The loop waits for messages, or there is none any more.                    *)
Waiting ==
    /\ \A p \in Projectors :
          \/ pc[p] = "stopped"
          \/ pc[p] = "idle" /\ (owner = p => position[p] \notin Offsets)
    /\ UNCHANGED vars

Next == \/ \E p \in Projectors : Advance(p) \/ HandlerFails(p) \/ LoopStops(p)
                                     \/ Restart(p) \/ Rebalance(p)
        \/ Waiting

(* A loop that can take its next step takes it; nothing makes a call fail, a  *)
(* pod restart or a partition move.                                           *)
Spec == Init /\ [][Next]_vars /\ \A p \in Projectors : WF_vars(Advance(p))
-----------------------------------------------------------------------------
(* Exactly once: no redelivery, retry, restart or second projector makes the  *)
(* report count an event twice.                                               *)
CountedOnce == \A id \in EventIds : counted[id] <= 1

(* A message is settled when its event is counted, when it has none to count, *)
(* or when an operator can find it on the dead-letter topic.                  *)
Settled(n) ==
    \/ Partition[n].kind = "other"
    \/ Partition[n].kind = "change" /\ counted[Partition[n].id] >= 1
    \/ n \in dlq

(* No message is skipped: everything before the committed offset is settled.  *)
NothingSkipped == \A n \in Offsets : n < offset => Settled(n)

(* The gate never lets an event through uncounted: it is marked only when it  *)
(* was applied (the bug of the claim-then-apply order ADR 0020 tells of).     *)
ConsumedWasCounted == \A id \in consumed : counted[id] >= 1

(* Every message is settled, or the loop of the projector in charge stopped.  *)
SettledUnlessStopped ==
    \A n \in Offsets : <>(Settled(n) \/ pc[owner] = "stopped")

(* What ADR 0020 says: a poison message cannot wedge the consumer, what is    *)
(* behind it keeps flowing: once a projector is to dead-letter a message, the *)
(* group goes on behind it.                                                   *)
NoMessageBlocksTheNext ==
    \A p \in Projectors, n \in Offsets :
        (pc[p] = "dead-letter" /\ position[p] = n) ~> offset > n
=============================================================================
