---------------------- MODULE AnalyticsProjectorProofs ----------------------
(* Proofs about AnalyticsProjector, for every partition, every number of      *)
(* projectors and every number of failures.                                   *)
EXTENDS AnalyticsProjector, TLAPS

-----------------------------------------------------------------------------
(* The inductive invariant.                                                   *)

(* The projection's own gate and the report change in one transaction.        *)
CountedIfClaimed == \A id \in EventIds : counted[id] = IF id \in claimed THEN 1 ELSE 0

(* What a projector that handles a message knows of it.                       *)
HandlesChanges ==
    \A p \in Projectors :
        /\ pc[p] \in Handling => Message(p).kind = "change"
        /\ pc[p] = "mark" => Message(p).id \in claimed
        /\ pc[p] = "commit" => Settled(position[p])

(* Nobody reads ahead of a message that is not settled.                       *)
SettledBehind ==
    \A n \in Offsets :
        /\ n < offset => Settled(n)
        /\ \A p \in Projectors : n < position[p] => Settled(n)

IndInv ==
    /\ TypeOK
    /\ CountedIfClaimed
    /\ consumed \subseteq claimed
    /\ HandlesChanges
    /\ SettledBehind
-----------------------------------------------------------------------------
(* Offsets are numbers, and a message's event is an event.                    *)
LEMMA OffsetFacts ==
    /\ Offsets \subseteq Nat /\ Len(Partition) \in Nat
    /\ \A n \in Offsets : Partition[n].id \in EventIds /\ n + 1 \in 1..(Len(Partition) + 1)
BY PartitionAssumption DEF Offsets, EventIds

LEMMA InitInv == Init => IndInv
<1> SUFFICES ASSUME Init PROVE IndInv
  OBVIOUS
<1>1. TypeOK
  BY PartitionAssumption, BoundsAssumption DEF Init, TypeOK, Loop
<1>2. CountedIfClaimed /\ consumed \subseteq claimed
  BY DEF Init, CountedIfClaimed
<1>3. HandlesChanges
  BY DEF Init, HandlesChanges, Handling
<1>4. SettledBehind
  BY OffsetFacts DEF Init, SettledBehind, Offsets
<1> QED BY <1>1, <1>2, <1>3, <1>4 DEF IndInv

(* What is settled stays settled.                                             *)
LEMMA SettledStays ==
    ASSUME CountedIfClaimed, CountedIfClaimed', claimed \subseteq claimed', dlq \subseteq dlq',
           NEW n \in Offsets, Settled(n)
    PROVE  Settled(n)'
<1> DEFINE id == Partition[n].id
<1>1. id \in EventIds
  BY OffsetFacts
<1>2. counted[id] >= 1 => counted'[id] >= 1
  BY <1>1 DEF CountedIfClaimed
<1> QED BY <1>2 DEF Settled

(* The transaction of the projection: the event is claimed, and counted once. *)
LEMMA CountedFacts ==
    ASSUME TypeOK, CountedIfClaimed, NEW id \in EventIds, Counted(id)
    PROVE  /\ CountedIfClaimed'
           /\ counted' \in [EventIds -> Nat]
           /\ claimed' \subseteq EventIds /\ claimed \subseteq claimed' /\ id \in claimed'
<1>1. claimed' = claimed \cup {id}
  BY DEF Counted
<1>2. CASE id \in claimed
  BY <1>1, <1>2 DEF Counted, CountedIfClaimed, TypeOK
<1>3. CASE id \notin claimed
  <2>1. counted' = [counted EXCEPT ![id] = counted[id] + 1] /\ counted[id] = 0
    BY <1>3 DEF Counted, CountedIfClaimed
  <2> QED BY <1>1, <2>1 DEF CountedIfClaimed, TypeOK
<1> QED BY <1>2, <1>3

(* A projector that has a message in hand.                                    *)
LEMMA InHand ==
    ASSUME TypeOK, NEW p \in Projectors, pc[p] \in Loop \ {"idle"}
    PROVE  /\ position[p] \in Offsets /\ position[p] \in Nat
           /\ position[p] + 1 \in 1..(Len(Partition) + 1)
           /\ Message(p).id \in EventIds
BY OffsetFacts DEF TypeOK, Message

(* A step of the loop that stays with its message, and takes the offset       *)
(* nowhere.                                                                   *)
LEMMA StayInv ==
    ASSUME IndInv, NEW p \in Projectors,
           TypeOK', CountedIfClaimed', consumed' \subseteq claimed',
           claimed \subseteq claimed', dlq \subseteq dlq',
           UNCHANGED <<offset, position>>,
           \A q \in Projectors \ {p} : pc'[q] = pc[q],
           pc'[p] \in Handling => Message(p).kind = "change",
           pc'[p] = "mark" => Message(p).id \in claimed',
           pc'[p] = "commit" => Settled(position[p])'
    PROVE  IndInv'
<1> USE DEF IndInv
<1>1. SettledBehind'
  BY SettledStays DEF SettledBehind
<1>2. HandlesChanges'
  <2> SUFFICES ASSUME NEW q \in Projectors
               PROVE  /\ pc'[q] \in Handling => Message(q)'.kind = "change"
                      /\ pc'[q] = "mark" => Message(q)'.id \in claimed'
                      /\ pc'[q] = "commit" => Settled(position[q])'
    BY DEF HandlesChanges
  <2>1. Message(q)' = Message(q)
    BY DEF Message
  <2>2. CASE q = p
    BY <2>1, <2>2
  <2>3. CASE q # p
    <3>1. pc'[q] = "commit" => position[q] \in Offsets
      BY <2>3, InHand DEF Loop
    <3> QED BY <2>1, <2>3, <3>1, SettledStays DEF HandlesChanges
  <2> QED BY <2>2, <2>3
<1> QED BY <1>1, <1>2

LEMMA FetchInv ==
    ASSUME IndInv, NEW p \in Projectors, Fetch(p)
    PROVE  IndInv'
<1> USE DEF IndInv
<1>1. /\ pc[p] = "idle" /\ position[p] \in Offsets
      /\ attempts' = [attempts EXCEPT ![p] = 0]
      /\ UNCHANGED <<owner, offset, position, consumed, counted, claimed, dlq, failures>>
  BY DEF Fetch
<1>2. Message(p).kind \in {"change", "other", "poison"}
  BY <1>1, PartitionAssumption DEF Message, MessageKinds
<1>3. \/ Message(p).kind = "change" /\ pc' = [pc EXCEPT ![p] = "check"]
      \/ Message(p).kind = "other"  /\ pc' = [pc EXCEPT ![p] = "commit"]
      \/ Message(p).kind = "poison" /\ pc' = [pc EXCEPT ![p] = "dead-letter"]
  BY <1>2, Zenon DEF Fetch
<1>4. /\ \/ Message(p).kind = "change" /\ pc'[p] = "check"
         \/ Message(p).kind = "other"  /\ pc'[p] = "commit"
         \/ Message(p).kind = "poison" /\ pc'[p] = "dead-letter"
      /\ \A q \in Projectors \ {p} : pc'[q] = pc[q]
      /\ pc' \in [Projectors -> Loop \cup {"stopped"}]
  BY <1>3 DEF TypeOK, Loop, Handling
<1>5. TypeOK'
  <2>1. attempts' \in [Projectors -> 0..(MaxAttempts - 1)]
    BY <1>1, BoundsAssumption DEF TypeOK
  <2>2. \A q \in Projectors : pc'[q] \in Loop \ {"idle"} => position[q] \in Offsets
    BY <1>1, <1>4 DEF TypeOK
  <2> QED BY <1>1, <1>4, <2>1, <2>2 DEF TypeOK
<1>6. CountedIfClaimed'
  BY <1>1 DEF CountedIfClaimed
<1>7. pc'[p] = "commit" => Settled(position[p])'
  BY <1>1, <1>4 DEF Settled, Message
<1> QED BY <1>1, <1>4, <1>5, <1>6, <1>7, StayInv DEF Handling

LEMMA CheckInv ==
    ASSUME IndInv, NEW p \in Projectors, Check(p)
    PROVE  IndInv'
<1> USE DEF IndInv
<1>1. /\ pc[p] = "check"
      /\ pc' = [pc EXCEPT ![p] = IF Message(p).id \in consumed THEN "commit" ELSE "apply"]
      /\ UNCHANGED <<owner, offset, position, attempts, consumed, counted, claimed, dlq, failures>>
  BY DEF Check
<1>2. /\ pc'[p] = IF Message(p).id \in consumed THEN "commit" ELSE "apply"
      /\ \A q \in Projectors \ {p} : pc'[q] = pc[q]
      /\ pc' \in [Projectors -> Loop \cup {"stopped"}]
  BY <1>1 DEF TypeOK, Loop, Handling
<1>3. /\ position[p] \in Offsets /\ Message(p).id \in EventIds
      /\ Message(p).kind = "change"
  BY <1>1, InHand DEF Loop, Handling, HandlesChanges
<1>4. TypeOK'
  BY <1>1, <1>2, <1>3 DEF TypeOK
<1>5. CountedIfClaimed'
  BY <1>1 DEF CountedIfClaimed
<1>6. pc'[p] = "commit" => Settled(position[p])'
  <2>1. Message(p).id \in consumed => counted[Message(p).id] = 1
    BY <1>3 DEF CountedIfClaimed
  <2> QED BY <1>1, <1>2, <1>3, <2>1 DEF Settled, Message
<1> QED BY <1>1, <1>2, <1>3, <1>4, <1>5, <1>6, StayInv

LEMMA ApplyInv ==
    ASSUME IndInv, NEW p \in Projectors, Apply(p)
    PROVE  IndInv'
<1> USE DEF IndInv
<1>1. /\ pc[p] = "apply" /\ pc' = [pc EXCEPT ![p] = "mark"] /\ Counted(Message(p).id)
      /\ UNCHANGED <<owner, offset, position, attempts, consumed, dlq, failures>>
  BY DEF Apply
<1>2. /\ pc'[p] = "mark"
      /\ \A q \in Projectors \ {p} : pc'[q] = pc[q]
      /\ pc' \in [Projectors -> Loop \cup {"stopped"}]
  BY <1>1 DEF TypeOK, Loop, Handling
<1>3. /\ position[p] \in Offsets /\ Message(p).id \in EventIds
      /\ Message(p).kind = "change"
  BY <1>1, InHand DEF Loop, Handling, HandlesChanges
<1>4. /\ CountedIfClaimed' /\ counted' \in [EventIds -> Nat]
      /\ claimed' \subseteq EventIds /\ claimed \subseteq claimed' /\ Message(p).id \in claimed'
  BY <1>1, <1>3, CountedFacts
<1>5. TypeOK'
  BY <1>1, <1>2, <1>3, <1>4 DEF TypeOK
<1> QED BY <1>1, <1>2, <1>3, <1>4, <1>5, StayInv

LEMMA MarkInv ==
    ASSUME IndInv, NEW p \in Projectors, Mark(p)
    PROVE  IndInv'
<1> USE DEF IndInv
<1>1. /\ pc[p] = "mark" /\ pc' = [pc EXCEPT ![p] = "commit"]
      /\ consumed' = consumed \cup {Message(p).id}
      /\ UNCHANGED <<owner, offset, position, attempts, counted, claimed, dlq, failures>>
  BY DEF Mark
<1>2. /\ pc'[p] = "commit"
      /\ \A q \in Projectors \ {p} : pc'[q] = pc[q]
      /\ pc' \in [Projectors -> Loop \cup {"stopped"}]
  BY <1>1 DEF TypeOK, Loop
<1>3. /\ position[p] \in Offsets /\ Message(p).id \in EventIds
      /\ Message(p).kind = "change" /\ Message(p).id \in claimed
  BY <1>1, InHand DEF Loop, Handling, HandlesChanges
<1>4. TypeOK'
  BY <1>1, <1>2, <1>3 DEF TypeOK
<1>5. CountedIfClaimed'
  BY <1>1 DEF CountedIfClaimed
<1>6. Settled(position[p])'
  <2>1. counted[Message(p).id] = 1
    BY <1>3 DEF CountedIfClaimed
  <2> QED BY <1>1, <1>3, <2>1 DEF Settled, Message
<1> QED BY <1>1, <1>2, <1>3, <1>4, <1>5, <1>6, StayInv DEF Handling

(* A failed attempt, its statement's effect there or not.                     *)
LEMMA HandlerFailsInv ==
    ASSUME IndInv, NEW p \in Projectors, HandlerFails(p)
    PROVE  IndInv'
<1> USE DEF IndInv
<1>1. /\ pc[p] \in Handling /\ GoesWrong /\ LostAcknowledgement(p)
      /\ UNCHANGED <<owner, offset, position, dlq>>
  BY DEF HandlerFails
<1>2. \/ /\ attempts[p] + 1 < MaxAttempts
         /\ attempts' = [attempts EXCEPT ![p] = attempts[p] + 1]
         /\ pc' = [pc EXCEPT ![p] = "check"]
      \/ pc' = [pc EXCEPT ![p] = "dead-letter"] /\ attempts' = attempts
  BY DEF HandlerFails
<1>3. /\ pc'[p] \in {"check", "dead-letter"}
      /\ \A q \in Projectors \ {p} : pc'[q] = pc[q]
      /\ pc' \in [Projectors -> Loop \cup {"stopped"}]
  BY <1>2 DEF TypeOK, Loop, Handling
<1>4. /\ position[p] \in Offsets /\ Message(p).id \in EventIds
      /\ Message(p).kind = "change"
  BY <1>1, InHand DEF Loop, Handling, HandlesChanges
<1>5. /\ CountedIfClaimed' /\ counted' \in [EventIds -> Nat]
      /\ claimed' \subseteq EventIds /\ claimed \subseteq claimed'
      /\ consumed' \subseteq claimed'
  <2>1. CASE UNCHANGED <<consumed, counted, claimed>>
    BY <2>1 DEF CountedIfClaimed, TypeOK
  <2>2. CASE Counted(Message(p).id) /\ UNCHANGED consumed
    BY <2>2, <1>4, CountedFacts
  <2>3. CASE /\ pc[p] = "mark" /\ consumed' = consumed \cup {Message(p).id}
             /\ UNCHANGED <<counted, claimed>>
    BY <2>3 DEF HandlesChanges, CountedIfClaimed, TypeOK
  <2> QED BY <1>1, <2>1, <2>2, <2>3 DEF LostAcknowledgement
<1>6. TypeOK'
  <2>1. attempts' \in [Projectors -> 0..(MaxAttempts - 1)]
    <3>1. attempts[p] \in Nat /\ attempts[p] + 1 \in Nat
      BY BoundsAssumption DEF TypeOK
    <3>2. attempts[p] + 1 < MaxAttempts => attempts[p] + 1 \in 0..(MaxAttempts - 1)
      BY <3>1, BoundsAssumption
    <3> QED BY <1>2, <3>2 DEF TypeOK
  <2>2. failures' \in 0..MaxFailures
    BY <1>1, BoundsAssumption DEF GoesWrong, TypeOK
  <2>3. \A q \in Projectors : pc'[q] \in Loop \ {"idle"} => position[q] \in Offsets
    BY <1>3, <1>4 DEF TypeOK
  <2> QED BY <1>1, <1>3, <1>5, <2>1, <2>2, <2>3 DEF TypeOK
<1> QED BY <1>1, <1>3, <1>4, <1>5, <1>6, StayInv

LEMMA DeadLetterInv ==
    ASSUME IndInv, NEW p \in Projectors, DeadLetter(p)
    PROVE  IndInv'
<1> USE DEF IndInv
<1>1. /\ pc[p] = "dead-letter" /\ pc' = [pc EXCEPT ![p] = "commit"]
      /\ dlq' = dlq \cup {position[p]}
      /\ UNCHANGED <<owner, offset, position, attempts, consumed, counted, claimed, failures>>
  BY DEF DeadLetter
<1>2. /\ pc'[p] = "commit"
      /\ \A q \in Projectors \ {p} : pc'[q] = pc[q]
      /\ pc' \in [Projectors -> Loop \cup {"stopped"}]
  BY <1>1 DEF TypeOK, Loop
<1>3. position[p] \in Offsets
  BY <1>1, InHand DEF Loop
<1>4. TypeOK'
  BY <1>1, <1>2, <1>3 DEF TypeOK
<1>5. CountedIfClaimed'
  BY <1>1 DEF CountedIfClaimed
<1>6. Settled(position[p])'
  BY <1>1 DEF Settled
<1> QED BY <1>1, <1>2, <1>4, <1>5, <1>6, StayInv DEF Handling

(* A step of the loop that moves the committed offset, or resumes from it:    *)
(* everything behind where it goes is settled.                                *)
LEMMA MoveInv ==
    ASSUME IndInv, NEW p \in Projectors, TypeOK',
           UNCHANGED <<consumed, counted, claimed>>, dlq \subseteq dlq',
           \A q \in Projectors \ {p} : pc'[q] = pc[q] /\ position'[q] = position[q],
           pc'[p] \in {"idle", "stopped"},
           offset' = offset \/ (offset' = position[p] + 1 /\ pc[p] = "commit"),
           \/ position'[p] \in {position[p], offset}
           \/ position'[p] = position[p] + 1 /\ pc[p] = "commit"
    PROVE  IndInv'
<1> USE DEF IndInv
<1>1. CountedIfClaimed'
  BY DEF CountedIfClaimed
<1>2. HandlesChanges'
  <2> SUFFICES ASSUME NEW q \in Projectors
               PROVE  /\ pc'[q] \in Handling => Message(q)'.kind = "change"
                      /\ pc'[q] = "mark" => Message(q)'.id \in claimed'
                      /\ pc'[q] = "commit" => Settled(position[q])'
    BY DEF HandlesChanges
  <2>1. CASE q = p
    BY <2>1 DEF Handling
  <2>2. CASE q # p
    <3>1. pc'[q] = pc[q] /\ position'[q] = position[q] /\ Message(q)' = Message(q)
      BY <2>2 DEF Message
    <3>2. pc[q] = "commit" => position[q] \in Offsets /\ Settled(position[q])
      BY InHand DEF Loop, HandlesChanges
    <3>3. pc[q] = "commit" => Settled(position[q])'
      BY <1>1, <3>1, <3>2, SettledStays DEF Settled
    <3> QED BY <3>1, <3>3 DEF HandlesChanges
  <2> QED BY <2>1, <2>2
<1>3. SettledBehind'
  <2>1. pc[p] = "commit" => \A n \in Offsets : n < position[p] + 1 => Settled(n)
    <3> SUFFICES ASSUME pc[p] = "commit", NEW n \in Offsets, n < position[p] + 1
                 PROVE  Settled(n)
      OBVIOUS
    <3>1. position[p] \in Nat /\ n \in Nat
      BY InHand, OffsetFacts DEF Loop
    <3>2. n < position[p] \/ n = position[p]
      BY <3>1
    <3> QED BY <3>2 DEF SettledBehind, HandlesChanges
  <2>2. \A n \in Offsets : n < offset' => Settled(n)
    BY <2>1 DEF SettledBehind
  <2>3. \A n \in Offsets, q \in Projectors : n < position'[q] => Settled(n)
    BY <2>1 DEF SettledBehind
  <2> QED BY <1>1, <2>2, <2>3, SettledStays DEF SettledBehind
<1> QED BY <1>1, <1>2, <1>3

LEMMA CommitOffsetInv ==
    ASSUME IndInv, NEW p \in Projectors, CommitOffset(p)
    PROVE  IndInv'
<1> USE DEF IndInv
<1>1. /\ pc[p] = "commit" /\ pc' = [pc EXCEPT ![p] = "idle"]
      /\ offset' = position[p] + 1
      /\ position' = [position EXCEPT ![p] = position[p] + 1]
      /\ UNCHANGED <<owner, attempts, consumed, counted, claimed, dlq, failures>>
  BY DEF CommitOffset
<1>2. position[p] + 1 \in 1..(Len(Partition) + 1)
  BY <1>1, InHand DEF Loop
<1>3. /\ pc'[p] = "idle" /\ position'[p] = position[p] + 1
      /\ \A q \in Projectors \ {p} : pc'[q] = pc[q] /\ position'[q] = position[q]
      /\ pc' \in [Projectors -> Loop \cup {"stopped"}]
      /\ position' \in [Projectors -> 1..(Len(Partition) + 1)]
  BY <1>1, <1>2 DEF TypeOK, Loop
<1>4. TypeOK'
  BY <1>1, <1>2, <1>3 DEF TypeOK
<1> QED BY <1>1, <1>3, <1>4, MoveInv

(* The loop ends, and leaves the committed offset no further than it was, or  *)
(* just behind the message in hand.                                           *)
LEMMA LoopStopsInv ==
    ASSUME IndInv, NEW p \in Projectors, LoopStops(p)
    PROVE  IndInv'
<1> USE DEF IndInv
<1>1. /\ GoesWrong /\ pc' = [pc EXCEPT ![p] = "stopped"]
      /\ UNCHANGED <<owner, position, attempts, consumed, counted, claimed>>
  BY DEF LoopStops
<1>2. \/ pc[p] = "idle" /\ UNCHANGED <<dlq, offset>>
      \/ /\ pc[p] = "dead-letter" /\ offset' = offset
         /\ dlq' = dlq \/ dlq' = dlq \cup {position[p]}
      \/ /\ pc[p] = "commit" /\ dlq' = dlq
         /\ offset' = offset \/ offset' = position[p] + 1
  BY DEF LoopStops
<1>3. pc[p] # "idle" => /\ position[p] \in Offsets
                        /\ position[p] + 1 \in 1..(Len(Partition) + 1)
  BY <1>2, InHand DEF Loop
<1>4. /\ pc'[p] = "stopped"
      /\ \A q \in Projectors \ {p} : pc'[q] = pc[q]
      /\ pc' \in [Projectors -> Loop \cup {"stopped"}]
  BY <1>1 DEF TypeOK
<1>5. TypeOK'
  <2>1. failures' \in 0..MaxFailures
    BY <1>1, BoundsAssumption DEF GoesWrong, TypeOK
  <2>2. \A q \in Projectors : pc'[q] \in Loop \ {"idle"} => position[q] \in Offsets
    BY <1>4 DEF TypeOK, Loop, Handling
  <2>3. dlq' \subseteq Offsets /\ offset' \in 1..(Len(Partition) + 1)
    BY <1>2, <1>3 DEF TypeOK
  <2> QED BY <1>1, <1>4, <2>1, <2>2, <2>3 DEF TypeOK
<1>6. CASE pc[p] = "commit"
  BY <1>1, <1>2, <1>4, <1>5, <1>6, MoveInv
<1>7. CASE pc[p] \in {"idle", "dead-letter"}
  <2>1. /\ CountedIfClaimed' /\ consumed' \subseteq claimed' /\ claimed \subseteq claimed'
        /\ dlq \subseteq dlq' /\ UNCHANGED <<offset, position>>
    BY <1>1, <1>2, <1>7 DEF CountedIfClaimed
  <2> QED BY <1>4, <1>5, <2>1, StayInv DEF Handling
<1> QED BY <1>2, <1>6, <1>7

LEMMA RestartInv ==
    ASSUME IndInv, NEW p \in Projectors, Restart(p)
    PROVE  IndInv'
<1> USE DEF IndInv
<1>1. /\ GoesWrong /\ pc' = [pc EXCEPT ![p] = "idle"]
      /\ position' = [position EXCEPT ![p] = offset]
      /\ UNCHANGED <<owner, offset, attempts, consumed, counted, claimed, dlq>>
  BY DEF Restart
<1>2. /\ pc'[p] = "idle" /\ position'[p] = offset
      /\ \A q \in Projectors \ {p} : pc'[q] = pc[q] /\ position'[q] = position[q]
      /\ pc' \in [Projectors -> Loop \cup {"stopped"}]
      /\ position' \in [Projectors -> 1..(Len(Partition) + 1)]
  BY <1>1 DEF TypeOK, Loop
<1>3. TypeOK'
  <2>1. failures' \in 0..MaxFailures
    BY <1>1, BoundsAssumption DEF GoesWrong, TypeOK
  <2> QED BY <1>1, <1>2, <2>1 DEF TypeOK
<1> QED BY <1>1, <1>2, <1>3, MoveInv

(* A projector that has lost the partition, or stopped, gets it again, and    *)
(* resumes from the committed offset.                                         *)
LEMMA RebalanceInv ==
    ASSUME IndInv, NEW p \in Projectors, Rebalance(p)
    PROVE  IndInv'
<1> USE DEF IndInv
<1>1. /\ pc[p] \in {"idle", "stopped"} /\ GoesWrong /\ owner' = p
      /\ position' = [position EXCEPT ![p] = offset]
      /\ UNCHANGED <<offset, pc, attempts, consumed, counted, claimed, dlq>>
  BY DEF Rebalance
<1>2. /\ position'[p] = offset
      /\ \A q \in Projectors \ {p} : position'[q] = position[q]
      /\ position' \in [Projectors -> 1..(Len(Partition) + 1)]
  BY <1>1 DEF TypeOK
<1>3. TypeOK'
  <2>1. failures' \in 0..MaxFailures
    BY <1>1, BoundsAssumption DEF GoesWrong, TypeOK
  <2>2. \A q \in Projectors : pc'[q] \in Loop \ {"idle"} => position'[q] \in Offsets
    BY <1>1, <1>2 DEF TypeOK, Loop, Handling
  <2> QED BY <1>1, <1>2, <2>1, <2>2 DEF TypeOK
<1> QED BY <1>1, <1>2, <1>3, MoveInv

LEMMA StutterInv ==
    ASSUME IndInv, UNCHANGED vars
    PROVE  IndInv'
BY DEF IndInv, vars, TypeOK, CountedIfClaimed, HandlesChanges, SettledBehind, Settled, Message

(* Every step of the projectors.                                              *)
LEMMA NextInv == IndInv /\ [Next]_vars => IndInv'
<1> SUFFICES ASSUME IndInv, [Next]_vars PROVE IndInv'
  OBVIOUS
<1>1. ASSUME NEW p \in Projectors, Advance(p) PROVE IndInv'
  BY <1>1, FetchInv, CheckInv, ApplyInv, MarkInv, DeadLetterInv, CommitOffsetInv DEF Advance
<1>2. ASSUME NEW p \in Projectors, HandlerFails(p) PROVE IndInv'
  BY <1>2, HandlerFailsInv
<1>3. ASSUME NEW p \in Projectors, LoopStops(p) PROVE IndInv'
  BY <1>3, LoopStopsInv
<1>4. ASSUME NEW p \in Projectors, Restart(p) PROVE IndInv'
  BY <1>4, RestartInv
<1>5. ASSUME NEW p \in Projectors, Rebalance(p) PROVE IndInv'
  BY <1>5, RebalanceInv
<1>6. CASE Waiting \/ UNCHANGED vars
  BY <1>6, StutterInv DEF Waiting
<1> QED BY <1>1, <1>2, <1>3, <1>4, <1>5, <1>6 DEF Next

(* The invariant holds in every behaviour.                                    *)
THEOREM Invariant == Spec => []IndInv
<1>1. Init => IndInv
  BY InitInv
<1>2. IndInv /\ [Next]_vars => IndInv'
  BY NextInv
<1> QED BY <1>1, <1>2, PTL DEF Spec

(* No event is counted twice, whatever is redelivered, retried, restarted or  *)
(* rebalanced, and however often.                                             *)
THEOREM CountsOnce == Spec => []CountedOnce
<1>1. IndInv => CountedOnce
  BY DEF IndInv, CountedIfClaimed, CountedOnce
<1> QED BY <1>1, Invariant, PTL

(* An event the consumer's gate turns away is in the report.                  *)
THEOREM GateLetsNothingBy == Spec => []ConsumedWasCounted
<1>1. IndInv => ConsumedWasCounted
  BY DEF IndInv, TypeOK, CountedIfClaimed, ConsumedWasCounted
<1> QED BY <1>1, Invariant, PTL

(* Every message before the committed offset is counted, of no concern to the *)
(* report, or dead-lettered.                                                  *)
THEOREM SkipsNothing == Spec => []NothingSkipped
<1>1. IndInv => NothingSkipped
  BY DEF IndInv, SettledBehind, NothingSkipped
<1> QED BY <1>1, Invariant, PTL

(* Every variable of the projector keeps its type, whatever is redelivered.   *)
THEOREM TypeCorrect == Spec => []TypeOK
<1>1. IndInv => TypeOK
  BY DEF IndInv
<1> QED BY <1>1, Invariant, PTL
=============================================================================
