-------------------------- MODULE OutboxRelayProofs --------------------------
(* Proofs about OutboxRelay, for every number of relays, rows, aggregates and *)
(* failures, and every batch size.                                            *)
EXTENDS OutboxRelay, FiniteSetTheorems, SequenceTheorems, WellFoundedInduction, TLAPS

-----------------------------------------------------------------------------
(* The inductive invariant.                                                   *)

(* A batch is a sequence of different rows, and there is one to send or mark  *)
(* as long as a pass sends or marks.                                          *)
BatchOK ==
    \A r \in Relays :
        /\ \A m, n \in DOMAIN batch[r] : batch[r][m] = batch[r][n] => m = n
        /\ pc[r] \in {"send", "mark"} => batch[r] # << >>

(* Two passes never lock the same row, and a pass neither claims a row that   *)
(* is published nor keeps one it has marked in its batch.                     *)
LocksOK ==
    /\ \A r, s \in Relays : r # s => Locked(r) \cap Locked(s) = {}
    /\ \A r \in Relays : /\ Locked(r) \subseteq committed \ published
                         /\ ToSet(batch[r]) \cap marked[r] = {}

(* What a pass has marked, or is about to, is on the topic.                   *)
SentOK ==
    /\ PublishedWasSent
    /\ \A r \in Relays : /\ marked[r] \subseteq Sent
                         /\ pc[r] = "mark" => Head(batch[r]) \in Sent

(* A row whose one send that needs no failure is over.                        *)
Spent(id) ==
    \/ id \in published
    \/ \E r \in Relays : id \in marked[r] \/ (pc[r] = "mark" /\ id = Head(batch[r]))

(* The times a row is on the topic.                                           *)
Copies(id) == {n \in DOMAIN topic : topic[n] = id}

CopiesOK ==
    \A id \in Ids :
        /\ IsFiniteSet(Copies(id))
        /\ Cardinality(Copies(id)) <= failures + (IF Spent(id) THEN 1 ELSE 0)

IndInv ==
    /\ TypeOK
    /\ BatchOK
    /\ LocksOK
    /\ SentOK
    /\ CopiesOK
-----------------------------------------------------------------------------
(* Rows are numbers, and there are finitely many.                             *)
LEMMA IdFacts ==
    /\ Ids \subseteq Nat
    /\ IsFiniteSet(Ids)
BY RelayAssumption, FS_Interval DEF Ids

(* Taking the first of different elements away.                               *)
LEMMA TailFacts ==
    ASSUME NEW S, NEW s \in Seq(S), s # << >>,
           \A m, n \in DOMAIN s : s[m] = s[n] => m = n
    PROVE  /\ Head(s) \in S /\ Head(s) \in ToSet(s)
           /\ Tail(s) \in Seq(S)
           /\ \A m, n \in DOMAIN Tail(s) : Tail(s)[m] = Tail(s)[n] => m = n
           /\ ToSet(Tail(s)) = ToSet(s) \ {Head(s)}
           /\ Len(s) # 1 => Tail(s) # << >>
<1>1. /\ Len(s) \in Nat /\ Len(s) >= 1 /\ DOMAIN s = 1..Len(s)
      /\ 1 \in DOMAIN s /\ Head(s) = s[1]
  OBVIOUS
<1>2. /\ Tail(s) \in Seq(S) /\ Len(Tail(s)) = Len(s) - 1 /\ DOMAIN Tail(s) = 1..(Len(s) - 1)
      /\ \A n \in 1..(Len(s) - 1) : Tail(s)[n] = s[n + 1]
  BY <1>1
<1>3. \A m, n \in DOMAIN Tail(s) : Tail(s)[m] = Tail(s)[n] => m = n
  <2> SUFFICES ASSUME NEW m \in 1..(Len(s) - 1), NEW n \in 1..(Len(s) - 1),
                      s[m + 1] = s[n + 1]
               PROVE  m = n
    BY <1>2
  <2>1. m + 1 \in DOMAIN s /\ n + 1 \in DOMAIN s
    BY <1>1
  <2>2. m + 1 = n + 1
    BY <2>1
  <2> QED BY <2>2, <1>1
<1>4. ToSet(Tail(s)) \subseteq ToSet(s) \ {Head(s)}
  <2> SUFFICES ASSUME NEW n \in 1..(Len(s) - 1)
               PROVE  s[n + 1] \in ToSet(s) /\ s[n + 1] # s[1]
    BY <1>1, <1>2 DEF ToSet
  <2>1. n + 1 \in DOMAIN s /\ n + 1 # 1
    BY <1>1
  <2> QED BY <2>1, <1>1 DEF ToSet
<1>5. ToSet(s) \ {Head(s)} \subseteq ToSet(Tail(s))
  <2> SUFFICES ASSUME NEW n \in DOMAIN s, s[n] # s[1]
               PROVE  s[n] \in ToSet(Tail(s))
    BY <1>1 DEF ToSet
  <2>1. n - 1 \in 1..(Len(s) - 1) /\ (n - 1) + 1 = n
    BY <1>1
  <2> QED BY <2>1, <1>2 DEF ToSet
<1> QED BY <1>1, <1>2, <1>3, <1>4, <1>5 DEF ToSet

(* A function on the first n numbers is a sequence.                           *)
LEMMA FunctionIsSeq ==
    ASSUME NEW S, NEW n \in Nat, n >= 1, NEW f \in [1..n -> S]
    PROVE  /\ f \in Seq(S) /\ f # << >> /\ DOMAIN f = 1..n /\ DOMAIN f \subseteq Nat
           /\ \A m \in DOMAIN f : f[m] \in S
           /\ ToSet(f) \subseteq S
<1>1. f \in Seq(S) /\ Len(f) = n
  BY SeqDef
<1> QED BY <1>1 DEF ToSet

(* Adding a message to the topic.                                             *)
LEMMA AppendFacts ==
    ASSUME NEW S, NEW s \in Seq(S), NEW x \in S
    PROVE  /\ Append(s, x) \in Seq(S)
           /\ ToSet(Append(s, x)) = ToSet(s) \cup {x}
           /\ \A id \in S : LET old == {n \in DOMAIN s : s[n] = id}
                                new == {n \in DOMAIN Append(s, x) : Append(s, x)[n] = id}
                            IN /\ id # x => new = old
                               /\ id = x => new = old \cup {Len(s) + 1}
<1>1. /\ Append(s, x) \in Seq(S) /\ DOMAIN s = 1..Len(s) /\ Len(s) \in Nat
      /\ DOMAIN Append(s, x) = 1..(Len(s) + 1)
      /\ \A n \in 1..Len(s) : Append(s, x)[n] = s[n]
      /\ Append(s, x)[Len(s) + 1] = x
  OBVIOUS
<1>2. 1..(Len(s) + 1) = 1..Len(s) \cup {Len(s) + 1}
  BY <1>1
<1>3. ToSet(Append(s, x)) = ToSet(s) \cup {x}
  BY <1>1, <1>2 DEF ToSet
<1> QED BY <1>1, <1>2, <1>3

LEMMA InitInv == Init => IndInv
<1> SUFFICES ASSUME Init PROVE IndInv
  OBVIOUS
<1>1. TypeOK
  BY RelayAssumption DEF Init, TypeOK
<1>2. BatchOK
  BY DEF Init, BatchOK
<1>3. LocksOK
  BY DEF Init, LocksOK, Locked, ToSet
<1>4. SentOK
  BY DEF Init, SentOK, PublishedWasSent
<1>5. CopiesOK
  <2>1. \A id \in Ids : Copies(id) = {}
    BY DEF Init, Copies
  <2>2. failures = 0
    BY DEF Init
  <2> QED BY <2>1, <2>2, FS_EmptySet DEF CopiesOK
<1> QED BY <1>1, <1>2, <1>3, <1>4, <1>5 DEF IndInv

(* A step that sends nothing leaves the copies alone: it must not forget what *)
(* is spent, unless it is a failure.                                          *)
LEMMA NothingSent ==
    ASSUME TypeOK, CopiesOK, UNCHANGED topic,
           \/ failures' = failures /\ \A id \in Ids : Spent(id) => Spent(id)'
           \/ failures' = failures + 1
    PROVE  CopiesOK'
<1> SUFFICES ASSUME NEW id \in Ids
             PROVE  /\ IsFiniteSet(Copies(id)')
                    /\ Cardinality(Copies(id)') <= failures' + (IF Spent(id)' THEN 1 ELSE 0)
  BY DEF CopiesOK
<1>1. Copies(id)' = Copies(id)
  BY DEF Copies
<1>2. IsFiniteSet(Copies(id)) /\ Cardinality(Copies(id)) \in Nat /\ failures \in Nat
  BY FS_CardinalityType DEF CopiesOK, TypeOK
<1>3. Cardinality(Copies(id)) <= failures + (IF Spent(id) THEN 1 ELSE 0)
  BY DEF CopiesOK
<1>4. Cardinality(Copies(id)) <= failures' + (IF Spent(id)' THEN 1 ELSE 0)
  BY <1>2, <1>3
<1> QED BY <1>1, <1>2, <1>4

(* A step of one pass that locks nothing new.                                 *)
LEMMA NothingLocked ==
    ASSUME LocksOK, NEW r \in Relays, UNCHANGED <<committed, published>>,
           \A q \in Relays \ {r} : batch'[q] = batch[q] /\ marked'[q] = marked[q],
           Locked(r)' \subseteq Locked(r),
           ToSet(batch'[r]) \cap marked'[r] = {}
    PROVE  LocksOK'
<1>1. \A q \in Relays \ {r} : Locked(q)' = Locked(q)
  BY DEF Locked
<1> QED BY <1>1 DEF LocksOK

(* The row at the head of a batch.                                            *)
LEMMA HeadFacts ==
    ASSUME IndInv, NEW r \in Relays, pc[r] \in {"send", "mark"}
    PROVE  /\ batch[r] \in Seq(Ids) /\ batch[r] # << >>
           /\ \A m, n \in DOMAIN batch[r] : batch[r][m] = batch[r][n] => m = n
           /\ Head(batch[r]) \in Ids /\ Head(batch[r]) \in ToSet(batch[r])
           /\ Head(batch[r]) \in Locked(r) /\ Head(batch[r]) \notin marked[r]
           /\ Head(batch[r]) \notin published
<1>1. /\ batch[r] \in Seq(Ids) /\ batch[r] # << >>
      /\ \A m, n \in DOMAIN batch[r] : batch[r][m] = batch[r][n] => m = n
  BY DEF IndInv, TypeOK, BatchOK
<1>2. Head(batch[r]) \in Ids /\ Head(batch[r]) \in ToSet(batch[r])
  BY <1>1, TailFacts
<1> QED BY <1>1, <1>2 DEF IndInv, LocksOK, Locked

(* A use case's row appears: nobody has locked or sent it.                    *)
LEMMA CommitRowInv ==
    ASSUME IndInv, NEW id \in Ids, CommitRow(id)
    PROVE  IndInv'
<1> USE DEF IndInv
<1>1. /\ committed' = committed \cup {id}
      /\ UNCHANGED <<running, published, topic, pc, batch, marked, failures>>
  BY DEF CommitRow
<1>2. TypeOK'
  BY <1>1 DEF TypeOK
<1>3. BatchOK'
  BY <1>1 DEF BatchOK
<1>4. LocksOK'
  BY <1>1 DEF LocksOK, Locked
<1>5. SentOK'
  BY <1>1 DEF SentOK, PublishedWasSent, Sent
<1>6. CopiesOK'
  BY <1>1, NothingSent DEF Spent
<1> QED BY <1>2, <1>3, <1>4, <1>5, <1>6

(* A pass locks rows no other pass has.                                       *)
LEMMA ClaimInv ==
    ASSUME IndInv, NEW r \in Relays, Claim(r)
    PROVE  IndInv'
<1> USE DEF IndInv
<1>1. PICK rows \in OldestFirst(Claimable(r)) : batch' = [batch EXCEPT ![r] = rows]
  BY DEF Claim
<1>2. /\ pc[r] = "idle" /\ Claimable(r) # {} /\ pc' = [pc EXCEPT ![r] = "send"]
      /\ UNCHANGED <<running, committed, published, topic, marked, failures>>
  BY DEF Claim
<1>3. Claimable(r) \subseteq Ids
  BY DEF Claimable, TypeOK
<1>4. Limited(Claimable(r)) \in Nat /\ Limited(Claimable(r)) >= 1
  <2>1. IsFiniteSet(Claimable(r))
    BY <1>3, IdFacts, FS_Subset
  <2>2. Cardinality(Claimable(r)) \in Nat /\ Cardinality(Claimable(r)) # 0
    BY <1>2, <2>1, FS_CardinalityType, FS_EmptySet
  <2> QED BY <2>2, RelayAssumption DEF Limited
<1>5. /\ rows \in [1..Limited(Claimable(r)) -> Claimable(r)]
      /\ \A m, n \in DOMAIN rows : m < n => rows[m] < rows[n]
  BY DEF OldestFirst
<1>6. /\ rows \in Seq(Ids) /\ rows # << >> /\ ToSet(rows) \subseteq Claimable(r)
      /\ DOMAIN rows \subseteq Nat /\ \A m \in DOMAIN rows : rows[m] \in Nat
  <2>1. rows \in [1..Limited(Claimable(r)) -> Ids]
    BY <1>3, <1>5
  <2> QED BY <1>4, <1>5, <2>1, FunctionIsSeq, IdFacts
<1>7. \A m, n \in DOMAIN rows : rows[m] = rows[n] => m = n
  <2> SUFFICES ASSUME NEW m \in DOMAIN rows, NEW n \in DOMAIN rows, rows[m] = rows[n], m # n
               PROVE  FALSE
    OBVIOUS
  <2>1. m \in Nat /\ n \in Nat /\ rows[m] \in Nat /\ rows[n] \in Nat
    BY <1>6
  <2>2. m < n \/ n < m
    BY <2>1
  <2> QED BY <1>5, <2>1, <2>2
<1>8. /\ pc'[r] = "send" /\ batch'[r] = rows /\ marked[r] = {}
      /\ \A q \in Relays \ {r} : pc'[q] = pc[q] /\ batch'[q] = batch[q]
      /\ pc' \in [Relays -> {"idle", "send", "mark", "commit"}]
      /\ batch' \in [Relays -> Seq(Ids)]
  BY <1>1, <1>2, <1>6 DEF TypeOK
<1>9. TypeOK'
  BY <1>2, <1>8 DEF TypeOK
<1>10. BatchOK'
  <2> SUFFICES ASSUME NEW q \in Relays
               PROVE  /\ \A m, n \in DOMAIN batch'[q] : batch'[q][m] = batch'[q][n] => m = n
                      /\ pc'[q] \in {"send", "mark"} => batch'[q] # << >>
    BY DEF BatchOK
  <2>1. CASE q = r
    BY <2>1, <1>6, <1>7, <1>8
  <2>2. CASE q # r
    BY <2>2, <1>8 DEF BatchOK
  <2> QED BY <2>1, <2>2
<1>11. LocksOK'
  <2>1. \A q \in Relays \ {r} : Locked(q)' = Locked(q)
    BY <1>2, <1>8 DEF Locked
  <2>2. Locked(r)' \subseteq Claimable(r)
    BY <1>2, <1>6, <1>8 DEF Locked
  <2>3. /\ Claimable(r) \subseteq committed \ published
        /\ \A q \in Relays \ {r} : Claimable(r) \cap Locked(q) = {}
    BY DEF Claimable
  <2>4. ToSet(batch'[r]) \cap marked'[r] = {}
    BY <1>2, <1>8
  <2>5. \A q \in Relays \ {r} : Locked(r)' \cap Locked(q)' = {}
    BY <2>1, <2>2, <2>3
  <2>6. Locked(r)' \subseteq committed' \ published'
    BY <1>2, <2>2, <2>3
  <2>7. \A q \in Relays \ {r} : /\ Locked(q)' \subseteq committed' \ published'
                               /\ ToSet(batch'[q]) \cap marked'[q] = {}
    BY <1>2, <1>8, <2>1 DEF LocksOK
  <2>8. \A p, q \in Relays \ {r} : p # q => Locked(p)' \cap Locked(q)' = {}
    BY <2>1 DEF LocksOK
  <2> QED BY <2>4, <2>5, <2>6, <2>7, <2>8 DEF LocksOK
<1>12. SentOK'
  BY <1>2, <1>8 DEF SentOK, PublishedWasSent, Sent
<1>13. CopiesOK'
  <2>1. \A id \in Ids : Spent(id) => Spent(id)'
    BY <1>2, <1>8 DEF Spent
  <2> QED BY <1>2, <2>1, NothingSent
<1> QED BY <1>9, <1>10, <1>11, <1>12, <1>13

(* A pass that sends, or fails to, keeps its locks and its batch.             *)
LEMMA SendingFacts ==
    ASSUME IndInv, NEW r \in Relays, pc[r] = "send",
           pc'[r] \in {"mark", "commit"},
           pc' \in [Relays -> {"idle", "send", "mark", "commit"}],
           \A q \in Relays \ {r} : pc'[q] = pc[q],
           topic' = topic \/ topic' = Append(topic, Head(batch[r])),
           pc'[r] = "mark" => topic' # topic,
           failures' \in 0..MaxFailures,
           UNCHANGED <<running, committed, published, batch, marked>>
    PROVE  TypeOK' /\ BatchOK' /\ LocksOK' /\ SentOK'
<1> USE DEF IndInv
<1>1. Head(batch[r]) \in Ids /\ topic \in Seq(Ids)
  BY HeadFacts DEF TypeOK
<1>2. topic' \in Seq(Ids) /\ Sent \subseteq Sent'
  <2>1. CASE topic' = topic
    BY <1>1, <2>1 DEF Sent
  <2>2. CASE topic' = Append(topic, Head(batch[r]))
    <3>1. topic' \in Seq(Ids) /\ ToSet(topic') = ToSet(topic) \cup {Head(batch[r])}
      BY <1>1, <2>2, AppendFacts
    <3> QED BY <3>1 DEF Sent
  <2> QED BY <2>1, <2>2
<1>3. pc'[r] = "mark" => Head(batch[r]) \in Sent'
  <2> SUFFICES ASSUME topic' = Append(topic, Head(batch[r]))
               PROVE  Head(batch[r]) \in Sent'
    OBVIOUS
  <2>1. ToSet(topic') = ToSet(topic) \cup {Head(batch[r])}
    BY <1>1, AppendFacts
  <2> QED BY <2>1 DEF Sent
<1>4. TypeOK'
  BY <1>2 DEF TypeOK
<1>5. BatchOK'
  BY DEF BatchOK
<1>6. LocksOK'
  BY DEF LocksOK, Locked
<1>7. SentOK'
  BY <1>2, <1>3 DEF SentOK, PublishedWasSent
<1> QED BY <1>4, <1>5, <1>6, <1>7

(* How often a row is on the topic after a send.                              *)
LEMMA CopiesAfterSend ==
    ASSUME IndInv, NEW h \in Ids, topic' = Append(topic, h), NEW id \in Ids
    PROVE  /\ Cardinality(Copies(id)) \in Nat
           /\ IsFiniteSet(Copies(id)')
           /\ Cardinality(Copies(id)') \in Nat
           /\ Cardinality(Copies(id)') <= Cardinality(Copies(id)) + 1
           /\ id # h => Cardinality(Copies(id)') = Cardinality(Copies(id))
<1>1. IsFiniteSet(Copies(id)) /\ Cardinality(Copies(id)) \in Nat
  BY FS_CardinalityType DEF IndInv, CopiesOK
<1>2. topic \in Seq(Ids)
  BY DEF IndInv, TypeOK
<1>3. /\ id # h => Copies(id)' = Copies(id)
      /\ id = h => Copies(id)' = Copies(id) \cup {Len(topic) + 1}
  BY <1>2, AppendFacts DEF Copies
<1>4. CASE id # h
  BY <1>1, <1>3, <1>4
<1>5. CASE id = h
  <2>1. /\ IsFiniteSet(Copies(id)')
        /\ \/ Cardinality(Copies(id)') = Cardinality(Copies(id))
           \/ Cardinality(Copies(id)') = Cardinality(Copies(id)) + 1
    <3> DEFINE C == Copies(id)
               x == Len(topic) + 1
    <3>1. /\ IsFiniteSet(C \cup {x})
          /\ Cardinality(C \cup {x}) = IF x \in C THEN Cardinality(C) ELSE Cardinality(C) + 1
      BY <1>1, FS_AddElement, Zenon
    <3> HIDE DEF x
    <3>2. Copies(id)' = C \cup {x}
      BY <1>3, <1>5 DEF x
    <3> QED BY <3>1, <3>2
  <2> QED BY <1>1, <1>5, <2>1
<1> QED BY <1>4, <1>5

(* The one send of a row that needs no failure.                               *)
LEMMA SendInv ==
    ASSUME IndInv, NEW r \in Relays, Send(r)
    PROVE  IndInv'
<1> USE DEF IndInv
<1> DEFINE h == Head(batch[r])
<1>1. /\ pc[r] = "send" /\ topic' = Append(topic, h)
      /\ pc' = [pc EXCEPT ![r] = "mark"]
      /\ UNCHANGED <<running, committed, published, batch, marked, failures>>
  BY DEF Send
<1>2. /\ pc'[r] = "mark" /\ \A q \in Relays \ {r} : pc'[q] = pc[q]
      /\ pc' \in [Relays -> {"idle", "send", "mark", "commit"}]
      /\ failures' \in 0..MaxFailures
  BY <1>1 DEF TypeOK
<1>3. topic' # topic
  <2>1. topic \in Seq(Ids) /\ h \in Ids
    BY <1>1, HeadFacts DEF TypeOK
  <2>2. Len(topic') = Len(topic) + 1 /\ Len(topic) \in Nat
    BY <1>1, <2>1
  <2> QED BY <2>2
<1>4. TypeOK' /\ BatchOK' /\ LocksOK' /\ SentOK'
  BY <1>1, <1>2, <1>3, SendingFacts
<1>5. /\ h \in Ids /\ h \in Locked(r) /\ h \notin marked[r] /\ h \notin published
  BY <1>1, HeadFacts
<1>6. ~Spent(h)
  <2> SUFFICES ASSUME NEW q \in Relays,
                      h \in marked[q] \/ (pc[q] = "mark" /\ h = Head(batch[q]))
               PROVE  FALSE
    BY <1>5 DEF Spent
  <2>1. q # r
    BY <1>1, <1>5
  <2>2. h \in Locked(q)
    BY HeadFacts DEF Locked
  <2> QED BY <1>5, <2>1, <2>2 DEF LocksOK
<1>7. \A id \in Ids : Spent(id) => Spent(id)'
  BY <1>1, <1>2 DEF Spent
<1> HIDE DEF h
<1>8. CopiesOK'
  <2> SUFFICES ASSUME NEW id \in Ids
               PROVE  /\ IsFiniteSet(Copies(id)')
                      /\ Cardinality(Copies(id)') <= failures' + (IF Spent(id)' THEN 1 ELSE 0)
    BY DEF CopiesOK
  <2>1. /\ Cardinality(Copies(id)) \in Nat /\ IsFiniteSet(Copies(id)')
        /\ Cardinality(Copies(id)') \in Nat
        /\ Cardinality(Copies(id)') <= Cardinality(Copies(id)) + 1
        /\ id # h => Cardinality(Copies(id)') = Cardinality(Copies(id))
    BY <1>1, <1>5, CopiesAfterSend
  <2>2. Cardinality(Copies(id)) <= failures + (IF Spent(id) THEN 1 ELSE 0)
    BY DEF CopiesOK
  <2>3. failures \in Nat /\ failures' = failures
    BY <1>1 DEF TypeOK
  <2>4. CASE id = h
    <3>1. ~Spent(id)
      BY <2>4, <1>6 DEF Spent
    <3>2. Spent(id)'
      BY <2>4, <1>1, <1>2 DEF Spent, h
    <3> QED BY <2>1, <2>2, <2>3, <3>1, <3>2
  <2>5. CASE id # h
    BY <2>1, <2>2, <2>3, <2>5, <1>7
  <2> QED BY <2>1, <2>4, <2>5
<1> QED BY <1>4, <1>8

(* A send that fails, its message on the topic or not, has the failure to     *)
(* show for it.                                                               *)
LEMMA SendFailsInv ==
    ASSUME IndInv, NEW r \in Relays, SendFails(r)
    PROVE  IndInv'
<1> USE DEF IndInv
<1> DEFINE h == Head(batch[r])
<1>1. /\ pc[r] = "send" /\ failures < MaxFailures /\ failures' = failures + 1
      /\ pc' = [pc EXCEPT ![r] = "commit"]
      /\ UNCHANGED <<running, committed, published, batch, marked>>
  BY DEF SendFails
<1>2. topic' = topic \/ topic' = Append(topic, h)
  BY DEF SendFails
<1>3. /\ pc'[r] = "commit" /\ \A q \in Relays \ {r} : pc'[q] = pc[q]
      /\ pc' \in [Relays -> {"idle", "send", "mark", "commit"}]
      /\ failures' \in 0..MaxFailures /\ failures \in Nat
  BY <1>1, RelayAssumption DEF TypeOK
<1>4. TypeOK' /\ BatchOK' /\ LocksOK' /\ SentOK'
  BY <1>1, <1>2, <1>3, SendingFacts
<1>5. \A id \in Ids : Spent(id) => Spent(id)'
  BY <1>1, <1>3 DEF Spent
<1>6. h \in Ids
  BY <1>1, HeadFacts
<1> HIDE DEF h
<1>7. CASE topic' = topic
  BY <1>1, <1>4, <1>7, NothingSent
<1>8. CASE topic' = Append(topic, h)
  <2>1. CopiesOK'
    <3> SUFFICES ASSUME NEW id \in Ids
                 PROVE  /\ IsFiniteSet(Copies(id)')
                        /\ Cardinality(Copies(id)') <= failures' + (IF Spent(id)' THEN 1 ELSE 0)
      BY DEF CopiesOK
    <3>1. /\ Cardinality(Copies(id)) \in Nat /\ IsFiniteSet(Copies(id)')
          /\ Cardinality(Copies(id)') \in Nat
          /\ Cardinality(Copies(id)') <= Cardinality(Copies(id)) + 1
      BY <1>6, <1>8, CopiesAfterSend
    <3>2. Cardinality(Copies(id)) <= failures + (IF Spent(id) THEN 1 ELSE 0)
      BY DEF CopiesOK
    <3> QED BY <3>1, <3>2, <1>1, <1>3, <1>5
  <2> QED BY <1>4, <2>1
<1> QED BY <1>2, <1>7, <1>8

(* The row that was sent is marked, and the batch goes on without it.         *)
LEMMA MarkInv ==
    ASSUME IndInv, NEW r \in Relays, Mark(r)
    PROVE  IndInv'
<1> USE DEF IndInv
<1> DEFINE h == Head(batch[r])
<1>1. /\ pc[r] = "mark"
      /\ marked' = [marked EXCEPT ![r] = marked[r] \cup {h}]
      /\ batch' = [batch EXCEPT ![r] = Tail(batch[r])]
      /\ pc' = [pc EXCEPT ![r] = IF Len(batch[r]) = 1 THEN "commit" ELSE "send"]
      /\ UNCHANGED <<running, committed, published, topic, failures>>
  BY DEF Mark
<1>2. /\ h \in Ids /\ h \in ToSet(batch[r]) /\ h \in Sent
      /\ Tail(batch[r]) \in Seq(Ids)
      /\ \A m, n \in DOMAIN Tail(batch[r]) : Tail(batch[r])[m] = Tail(batch[r])[n] => m = n
      /\ ToSet(Tail(batch[r])) = ToSet(batch[r]) \ {h}
      /\ Len(batch[r]) # 1 => Tail(batch[r]) # << >>
  BY <1>1, HeadFacts, TailFacts DEF SentOK
<1>3. /\ marked'[r] = marked[r] \cup {h} /\ batch'[r] = Tail(batch[r])
      /\ pc'[r] = IF Len(batch[r]) = 1 THEN "commit" ELSE "send"
      /\ \A q \in Relays \ {r} : /\ pc'[q] = pc[q] /\ batch'[q] = batch[q]
                                  /\ marked'[q] = marked[q]
      /\ pc' \in [Relays -> {"idle", "send", "mark", "commit"}]
      /\ batch' \in [Relays -> Seq(Ids)]
      /\ marked' \in [Relays -> SUBSET Ids]
  BY <1>1, <1>2 DEF TypeOK
<1>4. TypeOK'
  BY <1>1, <1>3 DEF TypeOK
<1>5. BatchOK'
  <2> SUFFICES ASSUME NEW q \in Relays
               PROVE  /\ \A m, n \in DOMAIN batch'[q] : batch'[q][m] = batch'[q][n] => m = n
                      /\ pc'[q] \in {"send", "mark"} => batch'[q] # << >>
    BY DEF BatchOK
  <2>1. CASE q = r
    BY <2>1, <1>2, <1>3
  <2>2. CASE q # r
    BY <2>2, <1>3 DEF BatchOK
  <2> QED BY <2>1, <2>2
<1>6. LocksOK'
  <2>1. Locked(r)' \subseteq Locked(r)
    BY <1>2, <1>3 DEF Locked
  <2>2. ToSet(batch'[r]) \cap marked'[r] = {}
    BY <1>2, <1>3 DEF LocksOK
  <2> QED BY <1>1, <1>3, <2>1, <2>2, NothingLocked
<1>7. SentOK'
  BY <1>1, <1>2, <1>3 DEF SentOK, PublishedWasSent, Sent
<1>8. CopiesOK'
  <2>1. \A id \in Ids : Spent(id) => Spent(id)'
    BY <1>1, <1>3 DEF Spent
  <2> QED BY <1>1, <2>1, NothingSent
<1> QED BY <1>4, <1>5, <1>6, <1>7, <1>8

(* A pass that is over, with its marks or without them.                       *)
LEMMA PassEnds ==
    ASSUME IndInv, NEW r \in Relays,
           batch' = [batch EXCEPT ![r] = << >>],
           marked' = [marked EXCEPT ![r] = {}],
           pc' = [pc EXCEPT ![r] = "idle"],
           UNCHANGED <<running, committed, topic>>,
           \/ published' = published \cup marked[r] /\ failures' = failures /\ pc[r] = "commit"
           \/ published' = published /\ failures' = failures + 1 /\ failures < MaxFailures
    PROVE  IndInv'
<1> USE DEF IndInv
<1>1. /\ marked'[r] = {} /\ batch'[r] = << >> /\ pc'[r] = "idle"
      /\ \A q \in Relays \ {r} : /\ pc'[q] = pc[q] /\ batch'[q] = batch[q]
                                  /\ marked'[q] = marked[q]
      /\ pc' \in [Relays -> {"idle", "send", "mark", "commit"}]
      /\ batch' \in [Relays -> Seq(Ids)]
      /\ marked' \in [Relays -> SUBSET Ids]
  BY DEF TypeOK
<1>2. published \subseteq published' /\ published' \subseteq published \cup marked[r]
  OBVIOUS
<1>3. marked[r] \subseteq Locked(r) /\ Locked(r) \subseteq committed
  BY DEF Locked, LocksOK
<1>4. TypeOK'
  <2>1. failures' \in 0..MaxFailures
    BY RelayAssumption DEF TypeOK
  <2>2. published' \subseteq committed'
    BY <1>2, <1>3 DEF TypeOK
  <2> QED BY <1>1, <2>1, <2>2 DEF TypeOK
<1>5. BatchOK'
  BY <1>1 DEF BatchOK
<1>6. LocksOK'
  <2>1. Locked(r)' = {}
    BY <1>1 DEF Locked, ToSet
  <2>2. \A q \in Relays \ {r} : /\ Locked(q)' = Locked(q) /\ Locked(q) \cap marked[r] = {}
                                /\ ToSet(batch'[q]) \cap marked'[q] = {}
    BY <1>1, <1>3 DEF Locked, LocksOK
  <2>3. \A q \in Relays \ {r} : Locked(q)' \subseteq committed' \ published'
    BY <1>2, <2>2 DEF LocksOK
  <2>4. \A q \in Relays : /\ Locked(q)' \subseteq committed' \ published'
                         /\ ToSet(batch'[q]) \cap marked'[q] = {}
    BY <1>1, <2>1, <2>2, <2>3
  <2>5. \A p, q \in Relays : p # q => Locked(p)' \cap Locked(q)' = {}
    BY <2>1, <2>2 DEF LocksOK
  <2> QED BY <2>4, <2>5 DEF LocksOK
<1>7. SentOK'
  BY <1>1, <1>2 DEF SentOK, PublishedWasSent, Sent
<1>8. CopiesOK'
  <2>1. failures' = failures => \A id \in Ids : Spent(id) => Spent(id)'
    <3> SUFFICES ASSUME failures' = failures, NEW id \in Ids, Spent(id)
                 PROVE  Spent(id)'
      OBVIOUS
    <3>1. failures \in Nat
      BY DEF TypeOK
    <3>2. published' = published \cup marked[r] /\ pc[r] = "commit"
      BY <3>1
    <3> QED BY <1>1, <3>2 DEF Spent
  <2> QED BY <2>1, NothingSent
<1> QED BY <1>4, <1>5, <1>6, <1>7, <1>8

LEMMA StutterInv ==
    ASSUME IndInv, UNCHANGED vars
    PROVE  IndInv'
BY DEF IndInv, vars, TypeOK, BatchOK, LocksOK, SentOK, CopiesOK, Locked, PublishedWasSent,
       Sent, Spent, Copies

(* Every step of the relays and of the use cases.                             *)
LEMMA NextInv == IndInv /\ [Next]_vars => IndInv'
<1> SUFFICES ASSUME IndInv, [Next]_vars PROVE IndInv'
  OBVIOUS
<1>1. ASSUME NEW id \in Ids, CommitRow(id) PROVE IndInv'
  BY <1>1, CommitRowInv
<1>2. ASSUME NEW r \in Relays, Commit(r) PROVE IndInv'
  BY <1>2, PassEnds DEF Commit
<1>3. ASSUME NEW r \in Relays, Pass(r) PROVE IndInv'
  BY <1>2, <1>3, ClaimInv, SendInv, MarkInv DEF Pass
<1>4. ASSUME NEW r \in Relays, SendFails(r) PROVE IndInv'
  BY <1>4, SendFailsInv
<1>5. ASSUME NEW r \in Relays, Abort(r) PROVE IndInv'
  BY <1>5, PassEnds DEF Abort
<1>6. CASE Drained \/ UNCHANGED vars
  BY <1>6, StutterInv DEF Drained
<1> QED BY <1>1, <1>3, <1>4, <1>5, <1>6 DEF Next

(* The invariant holds in every behaviour.                                    *)
THEOREM Invariant == Spec => []IndInv
<1>1. Init => IndInv
  BY InitInv
<1>2. IndInv /\ [Next]_vars => IndInv'
  BY NextInv
<1> QED BY <1>1, <1>2, PTL DEF Spec

(* Nothing the table calls published is missing from the topic, whatever      *)
(* fails, and however many relays there are.                                  *)
THEOREM NothingLost == Spec => []PublishedWasSent
<1>1. IndInv => PublishedWasSent
  BY DEF IndInv, SentOK
<1> QED BY <1>1, Invariant, PTL

(* A row is on the topic once, and once more for each failure at most.        *)
THEOREM Duplicates == Spec => []DuplicatesOnlyFromFailures
<1>1. IndInv => DuplicatesOnlyFromFailures
  <2> SUFFICES ASSUME IndInv, NEW id \in Ids
               PROVE  Cardinality(Copies(id)) <= 1 + failures
    BY DEF DuplicatesOnlyFromFailures, Copies
  <2>1. Cardinality(Copies(id)) \in Nat /\ failures \in Nat
    BY FS_CardinalityType DEF IndInv, CopiesOK, TypeOK
  <2>2. Cardinality(Copies(id)) <= failures + (IF Spent(id) THEN 1 ELSE 0)
    BY DEF IndInv, CopiesOK
  <2> QED BY <2>1, <2>2
<1> QED BY <1>1, Invariant, PTL

(* Every variable keeps its type.                                             *)
THEOREM TypeCorrect == Spec => []TypeOK
<1>1. IndInv => TypeOK
  BY DEF IndInv
<1> QED BY <1>1, Invariant, PTL
-----------------------------------------------------------------------------
(* The order of one relay's messages.                                         *)

(* A message is preceded by the earlier rows of its aggregate.                *)
Ordered ==
    \A n \in DOMAIN topic : \A other \in Before(topic[n]) :
        \E m \in 1..(n - 1) : topic[m] = other

(* What the passes of relay r have done with, committed or not.               *)
Behind(r) == published \cup marked[r]

(* Nothing is done with before the earlier rows of its aggregate are.         *)
ClosedBehind(r) ==
    /\ \A id \in published : Before(id) \subseteq published
    /\ \A id \in marked[r] : Before(id) \subseteq Behind(r)

(* The batch takes an aggregate up where the relay left it.                   *)
BatchFollows(r) ==
    \A n \in DOMAIN batch[r] : \A other \in Before(batch[r][n]) :
        other \in Behind(r) \/ \E m \in 1..(n - 1) : batch[r][m] = other

(* A row the relay is done with, or has just sent, is on the topic after      *)
(* every message of an earlier row of its aggregate.                          *)
HeardLast(id) ==
    \A n \in DOMAIN topic : topic[n] \in Before(id) =>
        \E m \in (n + 1)..Len(topic) : topic[m] = id

HeardInOrder(r) ==
    /\ \A id \in Behind(r) : HeardLast(id)
    /\ pc[r] = "mark" => HeardLast(Head(batch[r]))

OneRelayOrder(r) ==
    /\ Ordered
    /\ ClosedBehind(r)
    /\ BatchFollows(r)
    /\ HeardInOrder(r)

OrderInv ==
    /\ \A r \in Relays : r \notin running => pc[r] = "idle"
    /\ Sent \subseteq committed
    /\ \A r \in Relays : running = {r} => OneRelayOrder(r)
-----------------------------------------------------------------------------
(* Sets of numbers have a least element, and finite ones a greatest.          *)
LEMMA Smallest ==
    ASSUME NEW T \in SUBSET Nat, T # {}
    PROVE  \E x \in T : \A y \in T : x <= y
<1> DEFINE R == {ss \in Nat \X Nat : ss[1] < ss[2]}
<1>0. R = OpToRel(<, Nat)
  BY Zenon DEF OpToRel
<1>1. \A x, y \in Nat : y < x => <<y, x>> \in R
  OBVIOUS
<1> HIDE DEF R
<1>2. IsWellFoundedOn(R, Nat)
  BY <1>0, NatLessThanWellFounded, Zenon
<1>3. T \subseteq Nat
  OBVIOUS
<1>4. PICK x \in T : \A y \in T : ~ (<<y, x>> \in R)
  BY <1>2, <1>3, WFMin, Zenon
<1>5. \A y \in T : ~ (y < x)
  BY <1>1, <1>3, <1>4, Zenon
<1>6. \A y \in T : y \in Nat /\ x \in Nat
  BY <1>3
<1>7. \A y \in T : x <= y
  BY <1>5, <1>6
<1> QED BY <1>7

LEMMA Largest ==
    ASSUME NEW k \in Nat, NEW T \in SUBSET (1..k), T # {}
    PROVE  \E x \in T : \A y \in T : y <= x
<1> DEFINE U == {k - y : y \in T}
<1>1. \A y \in T : y \in Nat /\ k - y \in Nat
  OBVIOUS
<1>2. U \subseteq Nat /\ U # {}
  BY <1>1
<1> HIDE DEF U
<1>3. PICK u \in U : \A v \in U : u <= v
  BY <1>2, Smallest
<1>4. PICK x \in T : u = k - x
  BY <1>3 DEF U
<1>5. \A y \in T : k - x <= k - y
  BY <1>3, <1>4 DEF U
<1>6. \A y \in T : y <= x
  BY <1>1, <1>5
<1> QED BY <1>6

(* The first and the last time a row is sent.                                 *)
LEMMA SentAt ==
    ASSUME TypeOK, NEW id \in Sent
    PROVE  /\ FirstSent(id) \in DOMAIN topic /\ topic[FirstSent(id)] = id
           /\ \A m \in DOMAIN topic : topic[m] = id => FirstSent(id) <= m
           /\ LastSent(id) \in DOMAIN topic /\ topic[LastSent(id)] = id
           /\ \A m \in DOMAIN topic : topic[m] = id => m <= LastSent(id)
<1> DEFINE T == {n \in DOMAIN topic : topic[n] = id}
<1>1. Len(topic) \in Nat /\ DOMAIN topic = 1..Len(topic)
  BY DEF TypeOK
<1>2. T \in SUBSET (1..Len(topic)) /\ T # {} /\ T \in SUBSET Nat
  BY <1>1 DEF Sent, ToSet
<1>3. PICK first \in T : \A m \in T : first <= m
  BY <1>2, Smallest, Zenon
<1>4. PICK last \in T : \A m \in T : m <= last
  BY <1>1, <1>2, Largest, Zenon
<1>5. \A m \in 1..(first - 1) : topic[m] # id
  BY <1>1, <1>3
<1>6. \A m \in (last + 1)..Len(topic) : topic[m] # id
  BY <1>1, <1>4
<1>7. /\ FirstSent(id) \in DOMAIN topic /\ topic[FirstSent(id)] = id
      /\ \A m \in 1..(FirstSent(id) - 1) : topic[m] # id
  BY <1>3, <1>5 DEF FirstSent
<1>8. /\ LastSent(id) \in DOMAIN topic /\ topic[LastSent(id)] = id
      /\ \A m \in (LastSent(id) + 1)..Len(topic) : topic[m] # id
  BY <1>4, <1>6 DEF LastSent
<1>9. \A m \in DOMAIN topic : topic[m] = id => FirstSent(id) <= m /\ m <= LastSent(id)
  BY <1>1, <1>7, <1>8
<1> QED BY <1>7, <1>8, <1>9
-----------------------------------------------------------------------------
LEMMA InitOrder == Init => OrderInv
<1> SUFFICES ASSUME Init PROVE OrderInv
  OBVIOUS
<1>1. topic = << >> /\ published = {} /\ Sent = {}
  BY DEF Init, Sent, ToSet
<1>2. \A r \in Relays : pc[r] = "idle" /\ batch[r] = << >> /\ marked[r] = {}
  BY DEF Init
<1>3. \A r \in Relays : OneRelayOrder(r)
  BY <1>1, <1>2 DEF OneRelayOrder, Ordered, ClosedBehind, BatchFollows, HeardInOrder, HeardLast, Behind
<1> QED BY <1>1, <1>2, <1>3 DEF OrderInv

(* What the rows a relay has done with, or will, have in common.              *)
LEMMA RowsAreCommitted ==
    ASSUME IndInv, NEW r \in Relays
    PROVE  /\ Behind(r) \subseteq committed /\ Behind(r) \subseteq Sent
           /\ batch[r] \in Seq(Ids) /\ \A n \in DOMAIN batch[r] : batch[r][n] \in committed
           /\ committed \subseteq Nat
           /\ pc[r] \in {"send", "mark"} =>
                 /\ 1 \in DOMAIN batch[r] /\ Head(batch[r]) = batch[r][1]
                 /\ Head(batch[r]) \in committed /\ Head(batch[r]) \notin Behind(r)
<1>1. /\ batch[r] \in Seq(Ids) /\ marked[r] \subseteq Locked(r) /\ ToSet(batch[r]) \subseteq Locked(r)
      /\ Locked(r) \subseteq committed /\ published \subseteq committed
  BY DEF IndInv, TypeOK, LocksOK, Locked
<1>2. committed \subseteq Nat
  BY IdFacts DEF IndInv, TypeOK
<1>3. Behind(r) \subseteq committed /\ Behind(r) \subseteq Sent
  BY <1>1 DEF Behind, IndInv, SentOK, PublishedWasSent
<1>4. \A n \in DOMAIN batch[r] : batch[r][n] \in committed
  BY <1>1 DEF ToSet
<1>5. ASSUME pc[r] \in {"send", "mark"}
      PROVE  /\ 1 \in DOMAIN batch[r] /\ Head(batch[r]) = batch[r][1]
             /\ Head(batch[r]) \in committed /\ Head(batch[r]) \notin Behind(r)
  <2>1. /\ batch[r] # << >> /\ Head(batch[r]) \in Locked(r)
        /\ Head(batch[r]) \notin marked[r] /\ Head(batch[r]) \notin published
    BY <1>5, HeadFacts
  <2>2. 1 \in DOMAIN batch[r] /\ Head(batch[r]) = batch[r][1]
    BY <1>1, <2>1
  <2> QED BY <1>1, <2>1, <2>2 DEF Behind
<1> QED BY <1>1, <1>2, <1>3, <1>4, <1>5

(* Nothing earlier of an aggregate is committed after one of its rows.        *)
LEMMA CommitRowOrder ==
    ASSUME IndInv, OrderInv, NEW id \in Ids, CommitRow(id)
    PROVE  OrderInv'
<1>1. /\ committed' = committed \cup {id}
      /\ UNCHANGED <<running, published, topic, pc, batch, marked, failures>>
      /\ \A other \in committed : AggregateOf[other] = AggregateOf[id] => other < id
      /\ committed \subseteq Nat /\ id \in Nat
  BY IdFacts DEF CommitRow, IndInv, TypeOK
<1>2. \A row \in committed : Before(row)' = Before(row)
  BY <1>1 DEF Before
<1>3. \A n \in DOMAIN topic : topic[n] \in committed
  BY DEF OrderInv, Sent, ToSet
<1>4. ASSUME NEW r \in Relays, OneRelayOrder(r) PROVE OneRelayOrder(r)'
  <2>1. Behind(r)' = Behind(r) /\ Behind(r) \subseteq committed /\ published \subseteq committed
    BY <1>1, RowsAreCommitted DEF Behind
  <2>2. Ordered'
    BY <1>1, <1>2, <1>3, <1>4 DEF OneRelayOrder, Ordered
  <2>3. ClosedBehind(r)'
    BY <1>1, <1>2, <1>4, <2>1 DEF OneRelayOrder, ClosedBehind, Behind
  <2>4. BatchFollows(r)'
    <3>1. \A n \in DOMAIN batch[r] : batch[r][n] \in committed
      BY RowsAreCommitted
    <3>2. \A n \in DOMAIN batch[r] : Before(batch[r][n])' = Before(batch[r][n])
      BY <1>1, <1>2, <3>1
    <3> QED BY <1>1, <1>4, <2>1, <3>2 DEF OneRelayOrder, BatchFollows
  <2>5. \A row \in committed : HeardLast(row) => HeardLast(row)'
    BY <1>1, <1>2 DEF HeardLast
  <2>6. HeardInOrder(r)'
    BY <1>1, <1>4, <2>1, <2>5, RowsAreCommitted DEF OneRelayOrder, HeardInOrder
  <2> QED BY <2>2, <2>3, <2>4, <2>6 DEF OneRelayOrder
<1>5. Sent' \subseteq committed'
  BY <1>1 DEF OrderInv, Sent
<1> QED BY <1>1, <1>4, <1>5 DEF OrderInv

(* The one relay that runs is the one that takes a step.                      *)
LEMMA OneRuns ==
    ASSUME OrderInv, NEW r \in Relays, pc[r] # "idle" \/ r \in running,
           running' = running, NEW s \in Relays, running' = {s}
    PROVE  s = r /\ OneRelayOrder(r)
BY DEF OrderInv

(* A step of a pass keeps the rest if it keeps the order of the relay alone.  *)
LEMMA OrderStep ==
    ASSUME OrderInv, NEW r \in Relays, pc[r] # "idle" \/ r \in running,
           UNCHANGED <<running, committed>>,
           \A q \in Relays \ {r} : pc'[q] = pc[q],
           Sent' \subseteq committed,
           running = {r} /\ OneRelayOrder(r) => OneRelayOrder(r)'
    PROVE  OrderInv'
<1>1. r \in running
  BY DEF OrderInv
<1>2. \A q \in Relays : q \notin running' => pc'[q] = "idle"
  BY <1>1 DEF OrderInv
<1>3. \A s \in Relays : running' = {s} => OneRelayOrder(s)'
  <2> SUFFICES ASSUME NEW s \in Relays, running' = {s} PROVE OneRelayOrder(s)'
    OBVIOUS
  <2>1. s = r /\ OneRelayOrder(r)
    BY OneRuns
  <2>2. OneRelayOrder(r)'
    BY <2>1
  <2> QED BY <2>1, <2>2
<1> QED BY <1>2, <1>3 DEF OrderInv

(* The SELECT leaves out no earlier row of an aggregate: one relay waits for  *)
(* no other's locks.                                                          *)
LEMMA ClaimOrder ==
    ASSUME IndInv, OrderInv, NEW r \in Relays, Claim(r)
    PROVE  OrderInv'
<1>1. PICK rows \in OldestFirst(Claimable(r)) : batch' = [batch EXCEPT ![r] = rows]
  BY DEF Claim
<1>2. /\ r \in running /\ pc[r] = "idle" /\ pc' = [pc EXCEPT ![r] = "send"]
      /\ UNCHANGED <<running, committed, published, topic, marked, failures>>
  BY DEF Claim
<1>3. /\ batch'[r] = rows /\ pc'[r] = "send" /\ \A q \in Relays \ {r} : pc'[q] = pc[q]
  BY <1>1, <1>2 DEF IndInv, TypeOK
<1>4. /\ \A m \in DOMAIN rows : m \in Nat /\ m >= 1 /\ rows[m] \in committed
      /\ \A m, n \in DOMAIN rows : m < n => rows[m] < rows[n]
      /\ \A id \in Claimable(r) \ ToSet(rows), n \in DOMAIN rows : rows[n] < id
      /\ committed \subseteq Nat
  <2>1. IsFiniteSet(Claimable(r)) /\ Claimable(r) \subseteq committed /\ committed \subseteq Nat
    <3>1. Claimable(r) \subseteq committed /\ committed \subseteq Ids
      BY DEF Claimable, IndInv, TypeOK
    <3> QED BY <3>1, IdFacts, FS_Subset
  <2>2. Limited(Claimable(r)) \in Nat
    BY <2>1, FS_CardinalityType, RelayAssumption DEF Limited
  <2> QED BY <2>1, <2>2 DEF OldestFirst
<1>5. ASSUME running = {r}, OneRelayOrder(r) PROVE OneRelayOrder(r)'
  <2>1. Behind(r)' = Behind(r) /\ Behind(r) = published
    BY <1>2 DEF Behind, IndInv, TypeOK
  <2>2. \A id : Before(id)' = Before(id)
    BY <1>2 DEF Before
  <2>3. Ordered' /\ ClosedBehind(r)'
    BY <1>2, <1>5, <2>1, <2>2 DEF OneRelayOrder, Ordered, ClosedBehind
  <2>4. HeardInOrder(r)'
    BY <1>2, <1>3, <1>5, <2>1, <2>2 DEF OneRelayOrder, HeardInOrder, HeardLast
  <2>5. Claimable(r) = committed \ published
    <3>1. \A s \in Relays \ {r} : Locked(s) = {}
      BY <1>5 DEF OrderInv, IndInv, TypeOK, Locked, ToSet
    <3> QED BY <3>1 DEF Claimable
  <2>6. BatchFollows(r)'
    <3> SUFFICES ASSUME NEW n \in DOMAIN rows, NEW other \in Before(rows[n]),
                        other \notin published
                 PROVE  \E m \in 1..(n - 1) : rows[m] = other
      BY <1>3, <2>1, <2>2 DEF BatchFollows
    <3>1. other \in committed /\ other < rows[n] /\ other \in Claimable(r)
      BY <2>5 DEF Before
    <3>2. other \in Nat /\ rows[n] \in Nat
      BY <3>1, <1>4
    <3>3. other \in ToSet(rows)
      BY <3>1, <3>2, <1>4
    <3>4. PICK m \in DOMAIN rows : rows[m] = other
      BY <3>3 DEF ToSet
    <3>5. m \in Nat /\ n \in Nat /\ m >= 1
      BY <1>4
    <3>6. m # n /\ ~ (n < m)
      <4>1. n < m => rows[n] < other
        BY <3>4, <1>4
      <4> QED BY <3>1, <3>2, <3>4, <4>1
    <3>7. m \in 1..(n - 1)
      BY <3>5, <3>6
    <3> QED BY <3>4, <3>7
  <2> QED BY <2>3, <2>4, <2>6 DEF OneRelayOrder
<1>6. Sent' \subseteq committed
  BY <1>2 DEF OrderInv, Sent
<1> QED BY <1>2, <1>3, <1>5, <1>6, OrderStep

(* The head of a batch is sent: what is earlier is on the topic, and nothing  *)
(* the relay is done with comes after it.                                     *)
LEMMA SendOrder ==
    ASSUME IndInv, OrderInv, NEW r \in Relays, OneRelayOrder(r), pc[r] = "send",
           topic' = Append(topic, Head(batch[r])),
           UNCHANGED <<running, committed, published, batch, marked>>
    PROVE  OneRelayOrder(r)'
<1> DEFINE h == Head(batch[r])
<1>1. /\ h \in committed /\ h \notin Behind(r) /\ Behind(r) \subseteq Sent
      /\ committed \subseteq Nat
      /\ 1 \in DOMAIN batch[r] /\ h = batch[r][1]
  BY RowsAreCommitted
<1>2. /\ Len(topic) \in Nat /\ DOMAIN topic = 1..Len(topic)
      /\ Len(topic') = Len(topic) + 1 /\ DOMAIN topic' = 1..(Len(topic) + 1)
      /\ \A n \in 1..Len(topic) : topic'[n] = topic[n]
      /\ topic'[Len(topic) + 1] = h
  BY <1>1 DEF IndInv, TypeOK
<1>3. Before(h) \subseteq Behind(r)
  BY <1>1 DEF OneRelayOrder, BatchFollows
<1>4. \A id : Before(id)' = Before(id)
  BY DEF Before
<1>5. Behind(r)' = Behind(r)
  BY DEF Behind
<1> HIDE DEF h
<1>6. h \notin Before(h) /\ \A id \in Behind(r) : h \notin Before(id)
  <2>1. h \notin Before(h)
    <3>1. h \in Nat
      BY <1>1
    <3> QED BY <3>1 DEF Before
  <2>2. \A id \in Behind(r) : Before(id) \subseteq Behind(r)
    BY DEF OneRelayOrder, ClosedBehind, Behind
  <2> QED BY <1>1, <2>1, <2>2
<1>7. Ordered'
  <2> SUFFICES ASSUME NEW n \in 1..(Len(topic) + 1), NEW other \in Before(topic'[n])
               PROVE  \E m \in 1..(n - 1) : topic'[m] = other
    BY <1>2, <1>4 DEF Ordered
  <2>1. CASE n \in 1..Len(topic)
    <3>1. PICK m \in 1..(n - 1) : topic[m] = other
      BY <1>2, <2>1 DEF OneRelayOrder, Ordered
    <3>2. m \in 1..Len(topic)
      BY <1>2, <2>1
    <3> QED BY <1>2, <3>1, <3>2
  <2>2. CASE n = Len(topic) + 1
    <3>1. other \in Sent
      BY <1>1, <1>2, <1>3, <2>2
    <3>2. PICK m \in 1..Len(topic) : topic[m] = other
      BY <1>2, <3>1 DEF Sent, ToSet
    <3> QED BY <1>2, <2>2, <3>2
  <2> QED BY <1>2, <2>1, <2>2
<1>8. ASSUME NEW id \in Behind(r) PROVE HeardLast(id)'
  <2> SUFFICES ASSUME NEW n \in 1..(Len(topic) + 1), topic'[n] \in Before(id)
               PROVE  \E m \in (n + 1)..(Len(topic) + 1) : topic'[m] = id
    BY <1>2, <1>4 DEF HeardLast
  <2>1. n # Len(topic) + 1
    BY <1>2, <1>6, <1>8
  <2>2. n \in 1..Len(topic) /\ topic[n] \in Before(id)
    BY <1>2, <2>1
  <2>3. PICK m \in (n + 1)..Len(topic) : topic[m] = id
    BY <1>2, <1>8, <2>2 DEF OneRelayOrder, HeardInOrder, HeardLast
  <2>4. m \in 1..Len(topic) /\ m \in (n + 1)..(Len(topic) + 1)
    BY <1>2, <2>2
  <2> QED BY <1>2, <2>3, <2>4
<1>9. HeardLast(h)'
  <2> SUFFICES ASSUME NEW n \in 1..(Len(topic) + 1), topic'[n] \in Before(h)
               PROVE  \E m \in (n + 1)..(Len(topic) + 1) : topic'[m] = h
    BY <1>2, <1>4 DEF HeardLast, h
  <2>1. n # Len(topic) + 1
    BY <1>2, <1>6
  <2>2. Len(topic) + 1 \in (n + 1)..(Len(topic) + 1)
    BY <1>2, <2>1
  <2> QED BY <1>2, <2>2
<1>10. ClosedBehind(r)' /\ BatchFollows(r)'
  BY <1>4, <1>5 DEF OneRelayOrder, ClosedBehind, BatchFollows
<1>11. HeardInOrder(r)'
  BY <1>5, <1>8, <1>9 DEF HeardInOrder, h
<1> QED BY <1>7, <1>10, <1>11 DEF OneRelayOrder

(* The head of a batch is marked: it was sent, and all that is earlier is     *)
(* done with.                                                                 *)
LEMMA MarkOrder ==
    ASSUME IndInv, OrderInv, NEW r \in Relays, OneRelayOrder(r), Mark(r)
    PROVE  OneRelayOrder(r)'
<1> DEFINE h == Head(batch[r])
<1>1. /\ pc[r] = "mark" /\ marked'[r] = marked[r] \cup {h} /\ batch'[r] = Tail(batch[r])
      /\ pc'[r] # "mark"
      /\ UNCHANGED <<running, committed, published, topic, failures>>
  BY DEF Mark, IndInv, TypeOK
<1>2. 1 \in DOMAIN batch[r] /\ h = batch[r][1] /\ batch[r] \in Seq(Ids) /\ batch[r] # << >>
  BY <1>1, RowsAreCommitted, HeadFacts
<1>3. \A id : Before(id)' = Before(id)
  BY <1>1 DEF Before
<1>4. Behind(r)' = Behind(r) \cup {h}
  BY <1>1 DEF Behind
<1>5. Before(h) \subseteq Behind(r)
  BY <1>2 DEF OneRelayOrder, BatchFollows
<1>6. Ordered'
  BY <1>1, <1>3 DEF OneRelayOrder, Ordered
<1>7. ClosedBehind(r)'
  BY <1>1, <1>3, <1>4, <1>5 DEF OneRelayOrder, ClosedBehind
<1>8. HeardInOrder(r)'
  BY <1>1, <1>3, <1>4 DEF OneRelayOrder, HeardInOrder, HeardLast
<1>9. BatchFollows(r)'
  <2>1. /\ Len(batch[r]) \in Nat /\ DOMAIN batch[r] = 1..Len(batch[r])
        /\ DOMAIN Tail(batch[r]) = 1..(Len(batch[r]) - 1)
        /\ \A n \in 1..(Len(batch[r]) - 1) : Tail(batch[r])[n] = batch[r][n + 1]
    BY <1>2
  <2>2. /\ batch'[r] = Tail(batch[r])
        /\ \A n \in DOMAIN batch'[r] : n \in 1..(Len(batch[r]) - 1)
                                     /\ batch'[r][n] = batch[r][n + 1]
    BY <1>1, <2>1
  <2> SUFFICES ASSUME NEW n \in DOMAIN batch'[r], NEW other \in committed',
                      other < batch'[r][n], AggregateOf[other] = AggregateOf[batch'[r][n]],
                      other \notin Behind(r)'
               PROVE  \E m \in 1..(n - 1) : batch'[r][m] = other
    BY DEF BatchFollows, Before
  <2>3. /\ n \in 1..(Len(batch[r]) - 1) /\ other \in Before(batch[r][n + 1])
        /\ other \notin Behind(r) \cup {h}
    BY <2>2, <1>1, <1>4 DEF Before
  <2>4. n + 1 \in DOMAIN batch[r] /\ (n + 1) - 1 = n
    BY <2>1, <2>3
  <2>5. PICK m \in 1..n : batch[r][m] = other
    BY <2>4, <2>3 DEF OneRelayOrder, BatchFollows
  <2>6. m # 1
    BY <1>2, <2>5, <2>3
  <2>7. m - 1 \in 1..(n - 1) /\ m - 1 \in 1..(Len(batch[r]) - 1) /\ (m - 1) + 1 = m
    BY <2>1, <2>6, <2>3
  <2> QED BY <2>2, <2>1, <2>5, <2>7
<1> QED BY <1>6, <1>7, <1>8, <1>9 DEF OneRelayOrder

(* A pass that is over has sent what it marked in order.                      *)
LEMMA EndOrder ==
    ASSUME NEW r \in Relays, OneRelayOrder(r),
           pc'[r] = "idle", batch'[r] = << >>, marked'[r] = {},
           published' = Behind(r) \/ published' = published,
           UNCHANGED <<committed, topic>>
    PROVE  OneRelayOrder(r)'
<1>1. \A id : Before(id)' = Before(id)
  BY DEF Before
<1>2. Behind(r)' = published' /\ Behind(r)' \subseteq Behind(r)
  BY DEF Behind
<1>3. Ordered' /\ BatchFollows(r)'
  BY <1>1 DEF OneRelayOrder, Ordered, BatchFollows
<1>4. HeardInOrder(r)'
  BY <1>1, <1>2 DEF OneRelayOrder, HeardInOrder, HeardLast
<1>5. ClosedBehind(r)'
  BY <1>1, <1>2 DEF OneRelayOrder, ClosedBehind, Behind
<1> QED BY <1>3, <1>4, <1>5 DEF OneRelayOrder

(* A send, one that fails with the message taken or one that fails without.   *)
LEMMA SendingOrder ==
    ASSUME IndInv, OrderInv, NEW r \in Relays, Send(r) \/ SendFails(r)
    PROVE  OrderInv'
<1>1. /\ pc[r] = "send"
      /\ pc'[r] # "mark" \/ topic' = Append(topic, Head(batch[r]))
      /\ topic' = topic \/ topic' = Append(topic, Head(batch[r]))
      /\ UNCHANGED <<running, committed, published, batch, marked>>
      /\ \A q \in Relays \ {r} : pc'[q] = pc[q]
  BY DEF Send, SendFails, IndInv, TypeOK
<1>2. pc[r] = "send"
  BY DEF Send, SendFails
<1>3. Sent' \subseteq committed
  <2>1. topic \in Seq(Ids) /\ Head(batch[r]) \in Ids /\ Head(batch[r]) \in committed
    BY <1>2, HeadFacts, RowsAreCommitted DEF IndInv, TypeOK
  <2>2. topic' = Append(topic, Head(batch[r])) => ToSet(topic') = ToSet(topic) \cup {Head(batch[r])}
    BY <2>1, AppendFacts
  <2> QED BY <1>1, <2>1, <2>2 DEF OrderInv, Sent
<1>4. ASSUME OneRelayOrder(r) PROVE OneRelayOrder(r)'
  <2>1. CASE topic' = Append(topic, Head(batch[r]))
    BY <1>1, <1>2, <1>4, <2>1, SendOrder
  <2>2. CASE topic' = topic /\ pc'[r] # "mark"
    <3>1. \A id : Before(id)' = Before(id)
      BY <1>1 DEF Before
    <3>2. Behind(r)' = Behind(r)
      BY <1>1 DEF Behind
    <3>3. Ordered' /\ ClosedBehind(r)' /\ BatchFollows(r)'
      BY <1>1, <1>4, <2>2, <3>1, <3>2 DEF OneRelayOrder, Ordered, ClosedBehind, BatchFollows
    <3>4. HeardInOrder(r)'
      BY <1>1, <1>4, <2>2, <3>1, <3>2 DEF OneRelayOrder, HeardInOrder, HeardLast
    <3> QED BY <3>3, <3>4 DEF OneRelayOrder
  <2> QED BY <1>1, <2>1, <2>2
<1> QED BY <1>1, <1>2, <1>3, <1>4, OrderStep

LEMMA OrderNext == IndInv /\ OrderInv /\ [Next]_vars => OrderInv'
<1> SUFFICES ASSUME IndInv, OrderInv, [Next]_vars PROVE OrderInv'
  OBVIOUS
<1>1. ASSUME NEW id \in Ids, CommitRow(id) PROVE OrderInv'
  BY <1>1, CommitRowOrder
<1>2. ASSUME NEW r \in Relays, Claim(r) PROVE OrderInv'
  BY <1>2, ClaimOrder
<1>3. ASSUME NEW r \in Relays, Send(r) \/ SendFails(r) PROVE OrderInv'
  BY <1>3, SendingOrder
<1>4. ASSUME NEW r \in Relays, Mark(r) PROVE OrderInv'
  <2>1. /\ pc[r] = "mark" /\ UNCHANGED <<running, committed, topic>>
        /\ \A q \in Relays \ {r} : pc'[q] = pc[q]
    BY <1>4 DEF Mark, IndInv, TypeOK
  <2>2. Sent' \subseteq committed
    BY <2>1 DEF OrderInv, Sent
  <2> QED BY <1>4, <2>1, <2>2, MarkOrder, OrderStep
<1>5. ASSUME NEW r \in Relays, Commit(r) \/ Abort(r) PROVE OrderInv'
  <2>1. /\ pc[r] # "idle" /\ UNCHANGED <<running, committed, topic>>
        /\ \A q \in Relays \ {r} : pc'[q] = pc[q]
        /\ pc'[r] = "idle" /\ batch'[r] = << >> /\ marked'[r] = {}
        /\ published' = published \cup marked[r] \/ published' = published
    BY <1>5 DEF Commit, Abort, IndInv, TypeOK
  <2>2. Sent' \subseteq committed
    BY <2>1 DEF OrderInv, Sent
  <2>3. ASSUME OneRelayOrder(r) PROVE OneRelayOrder(r)'
    BY <2>1, <2>3, EndOrder DEF Behind
  <2> QED BY <2>1, <2>2, <2>3, OrderStep
<1>6. CASE Drained \/ UNCHANGED vars
  <2>1. UNCHANGED vars
    BY <1>6 DEF Drained
  <2>2. \A id : Before(id)' = Before(id)
    BY <2>1 DEF vars, Before
  <2>3. ASSUME NEW r \in Relays, OneRelayOrder(r) PROVE OneRelayOrder(r)'
    <3>1. Ordered' /\ ClosedBehind(r)' /\ BatchFollows(r)'
      BY <2>1, <2>2, <2>3 DEF vars, OneRelayOrder, Ordered, ClosedBehind, BatchFollows, Behind
    <3>2. HeardInOrder(r)'
      BY <2>1, <2>2, <2>3 DEF vars, OneRelayOrder, HeardInOrder, HeardLast, Behind
    <3> QED BY <3>1, <3>2 DEF OneRelayOrder
  <2> QED BY <2>1, <2>3 DEF vars, OrderInv, Sent
<1> QED BY <1>1, <1>2, <1>3, <1>4, <1>5, <1>6 DEF Next, Pass

LEMMA OrderInvariant == Spec => [](IndInv /\ OrderInv)
<1>1. Init => IndInv /\ OrderInv
  BY InitInv, InitOrder
<1>2. IndInv /\ OrderInv /\ [Next]_vars => IndInv' /\ OrderInv'
  BY NextInv, OrderNext
<1> QED BY <1>1, <1>2, PTL DEF Spec

(* The relay that runs alone.                                                 *)
LEMMA TheOneRelay ==
    ASSUME IndInv, OrderInv, Cardinality(running) = 1
    PROVE  \E r \in Relays : OneRelayOrder(r)
<1>1. running \subseteq Relays /\ IsFiniteSet(running)
  BY RelayAssumption, FS_Subset DEF IndInv, TypeOK
<1>2. PICK r : running = {r}
  BY <1>1, FS_Singleton
<1> QED BY <1>1, <1>2 DEF OrderInv

(* With one relay the messages of an aggregate are first on the topic in the  *)
(* order of its rows, whatever fails and whatever is sent again.              *)
THEOREM InOrder == Spec => []OrderedWithOneRelay
<1>1. IndInv /\ OrderInv => OrderedWithOneRelay
  <2> SUFFICES ASSUME IndInv, OrderInv, Cardinality(running) = 1,
                      NEW id \in Sent, NEW other \in Before(id)
               PROVE  other \in Sent /\ FirstSent(other) < FirstSent(id)
    BY DEF OrderedWithOneRelay, OrderedPerAggregate
  <2>1. Ordered
    BY TheOneRelay DEF OneRelayOrder
  <2>2. Len(topic) \in Nat /\ DOMAIN topic = 1..Len(topic) /\ TypeOK
    BY DEF IndInv, TypeOK
  <2>3. FirstSent(id) \in DOMAIN topic /\ topic[FirstSent(id)] = id
    BY <2>2, SentAt
  <2>4. PICK m \in 1..(FirstSent(id) - 1) : topic[m] = other
    BY <2>1, <2>3 DEF Ordered
  <2>5. m \in DOMAIN topic
    BY <2>2, <2>3
  <2>6. other \in Sent
    BY <2>4, <2>5 DEF Sent, ToSet
  <2>7. FirstSent(other) \in DOMAIN topic /\ FirstSent(other) <= m
    BY <2>2, <2>4, <2>5, <2>6, SentAt
  <2> QED BY <2>2, <2>3, <2>5, <2>6, <2>7
<1> QED BY <1>1, OrderInvariant, PTL

(* With one relay, when all is published, a consumer has heard the newest     *)
(* event of an aggregate after every other.                                   *)
THEOREM NewestLast == Spec => []NewestHeardLast
<1>1. IndInv /\ OrderInv => NewestHeardLast
  <2> SUFFICES ASSUME IndInv, OrderInv, Cardinality(running) = 1, committed = published,
                      NEW id \in committed, NEW other \in Before(id)
               PROVE  LastSent(other) < LastSent(id)
    BY DEF NewestHeardLast
  <2>1. HeardLast(id)
    BY TheOneRelay DEF OneRelayOrder, HeardInOrder, Behind
  <2>2. Len(topic) \in Nat /\ DOMAIN topic = 1..Len(topic) /\ TypeOK
    BY DEF IndInv, TypeOK
  <2>3. id \in Sent /\ other \in Sent
    BY DEF Before, IndInv, SentOK, PublishedWasSent
  <2>4. LastSent(other) \in DOMAIN topic /\ topic[LastSent(other)] = other
    BY <2>2, <2>3, SentAt
  <2>5. PICK m \in (LastSent(other) + 1)..Len(topic) : topic[m] = id
    BY <2>1, <2>4 DEF HeardLast
  <2>6. m \in DOMAIN topic
    BY <2>2, <2>4
  <2>7. LastSent(id) \in DOMAIN topic /\ m <= LastSent(id)
    BY <2>2, <2>3, <2>5, <2>6, SentAt
  <2> QED BY <2>2, <2>4, <2>5, <2>6, <2>7
<1> QED BY <1>1, OrderInvariant, PTL
=============================================================================
