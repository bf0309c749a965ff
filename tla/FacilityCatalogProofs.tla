------------------------ MODULE FacilityCatalogProofs ------------------------
(* Proofs about FacilityCatalog, for every set of requests, every map and     *)
(* every workload.                                                            *)
EXTENDS FacilityCatalog, FacilityUseCasesProofs, TLAPS

-----------------------------------------------------------------------------
(* The inductive invariant.  ChainOfCustody is not inductive: a row is saved  *)
(* on the word of lookups that were made in earlier steps.  What carries it   *)
(* over is that the catalogue only grows, so a row once read is still there.  *)

(* Where the lookups and the encoders of a request stand.                     *)
StepOK ==
    \A p \in Requests :
        /\ pc[p] \in {"idle", "save"} => step[p] = 1
        /\ pc[p] = "lookup" => step[p] \in 1..Len(Lookups(cmd[p]))
        /\ pc[p] = "publish" => step[p] \in 1..Len(Encoders)

(* The k-th lookup of the request is behind it, and met its demand.           *)
Passed(p, k) ==
    \/ pc[p] = "lookup" /\ k < step[p]
    \/ pc[p] \in {"save", "publish", "commit"}

(* A row that was read hangs from rows that are in the catalogue.             *)
ReadRowsHang ==
    \A p \in Requests : \A a \in Aggregates :
        Present(view[p][a]) =>
            /\ Present(store[a])
            /\ \A b \in Parents(a, view[p][a]) : b \in Aggregates /\ Present(store[b])

(* What a lookup found to be there is among the rows read.                    *)
Checked ==
    \A p \in Requests : \A k \in 1..Len(Lookups(cmd[p])) :
        Passed(p, k) /\ Lookups(cmd[p])[k].must \in Presence =>
            \A a \in Lookups(cmd[p])[k].rows : Present(view[p][a])

IndInv == TypeOK /\ StepOK /\ ReadRowsHang /\ Checked /\ ChainOfCustody

(* What that says of the row a request saves.                                 *)
LEMMA SavedRowFacts ==
    ASSUME TypeOK, NEW p \in Requests, cmd[p] \in Commands
    PROVE  /\ SavedRow(p) \in Row
           /\ SavedRow(p).by = p
           /\ Keeps(cmd[p].target, store[cmd[p].target], SavedRow(p))
           /\ cmd[p].use \in Registrations =>
                  /\ Present(SavedRow(p)) /\ SavedRow(p).status = "Active"
                  /\ \/ SavedRow(p).attr = cmd[p].arg
                     \/ /\ KindOf[cmd[p].target] = "structure"
                        /\ Present(store[cmd[p].target])
                        /\ SavedRow(p).attr = store[cmd[p].target].attr
           /\ cmd[p].use = "SetAisleGeometry" =>
                  SavedRow(p).status = view[p][cmd[p].target].status
           /\ cmd[p].use \in Updates =>
                  /\ SavedRow(p).attr = view[p][cmd[p].target].attr
                  /\ Present(view[p][cmd[p].target]) => Present(SavedRow(p))
<1>a. PICK a : a = cmd[p].target
  OBVIOUS
<1>w. PICK written : written = RowWritten(cmd[p], view[p][a], p)
  OBVIOUS
<1>1. a \in Aggregates
  BY <1>a, CommandFacts
<1>2. view[p][a] \in Row /\ store[a] \in Row /\ p \in Writers
  BY <1>1 DEF TypeOK, Requests
<1>3. /\ written \in Row /\ written.by = p
      /\ cmd[p].use \in Registrations =>
            Present(written) /\ written.status = "Active" /\ written.attr = cmd[p].arg
      /\ cmd[p].use = "SetAisleGeometry" => written.status = view[p][a].status
      /\ cmd[p].use \in Updates =>
            written.attr = view[p][a].attr /\ (Present(view[p][a]) => Present(written))
  BY <1>w, <1>2, RowWrittenFacts
<1>4. SavedRow(p) = Upsert(a, store[a], written)
  BY <1>a, <1>w DEF SavedRow
<1>5. /\ SavedRow(p) \in Row
      /\ SavedRow(p).status = written.status /\ SavedRow(p).by = written.by
      /\ Present(SavedRow(p)) <=> Present(written)
      /\ Keeps(a, store[a], SavedRow(p))
      /\ \/ SavedRow(p).attr = written.attr
         \/ KindOf[a] = "structure" /\ Present(store[a]) /\ SavedRow(p).attr = store[a].attr
      /\ KindOf[a] # "structure" => SavedRow(p) = written
  BY <1>1, <1>2, <1>3, <1>4, UpsertFacts
<1>6. cmd[p].use \in Updates => KindOf[a] # "structure"
  BY <1>a, CommandFacts, KindFacts DEF Updates
<1> QED BY <1>a, <1>3, <1>5, <1>6
-----------------------------------------------------------------------------
(* The invariant holds initially.                                             *)
LEMMA InitInv == Init => IndInv
<1> SUFFICES ASSUME Init PROVE IndInv
  OBVIOUS
<1>1. NoRow \in Row /\ ~Present(NoRow)
  BY DEF NoRow, Row, Status, Attributes, Present, Absent
<1>2. \A p \in Requests : \A a \in Aggregates : view[p][a] = NoRow
  BY DEF Init, NoView
<1>3. TypeOK
  <2>1. NoView \in [Aggregates -> Row]
    BY <1>1 DEF NoView
  <2>2. store \in [Aggregates -> Row]
    BY LoadedAssumption DEF Init
  <2>3. /\ outbox \in SUBSET OutboxRow /\ nextId \in Nat
        /\ pc \in [Requests -> {"idle"} \cup InFlight \cup Answered]
        /\ cmd \in [Requests -> Commands \cup {None}]
        /\ \A p \in Requests : pc[p] # "idle" => cmd[p] \in Commands
        /\ step \in [Requests -> Nat]
        /\ pending \in [Requests -> SUBSET OutboxRow]
    BY DEF Init
  <2>4. view \in [Requests -> [Aggregates -> Row]]
    BY <2>1 DEF Init
  <2> QED BY <2>2, <2>3, <2>4 DEF TypeOK
<1>4. StepOK
  BY DEF Init, StepOK
<1>5. ReadRowsHang
  BY <1>1, <1>2 DEF ReadRowsHang
<1>6. Checked
  BY DEF Init, Checked, Passed
<1>7. ChainOfCustody
  BY LoadedAssumption DEF Init, ChainOfCustody
<1> QED BY <1>3, <1>4, <1>5, <1>6, <1>7 DEF IndInv

(* What a request reads are rows of the catalogue: seen keeps what it had     *)
(* read and takes the rest from the store.                                    *)
LEMMA ReadFacts ==
    ASSUME TypeOK, NEW p \in Requests, NEW R \in SUBSET Aggregates
    PROVE  /\ Read(p, R) \in [Aggregates -> Row]
           /\ \A a \in Aggregates : Read(p, R)[a] = IF a \in R THEN store[a] ELSE view[p][a]
BY DEF Read, TypeOK

(* The rows behind a passed lookup are still among the rows read.             *)
LEMMA ReadKeeps ==
    ASSUME TypeOK, ReadRowsHang, NEW p \in Requests, NEW R \in SUBSET Aggregates,
           NEW a \in Aggregates, Present(view[p][a])
    PROVE  Present(Read(p, R)[a])
BY ReadFacts DEF ReadRowsHang

(* ... and a row just read hangs from the catalogue, as every row of it does. *)
LEMMA ReadHangs ==
    ASSUME TypeOK, ReadRowsHang, ChainOfCustody, NEW p \in Requests,
           NEW R \in SUBSET Aggregates, NEW a \in Aggregates, Present(Read(p, R)[a])
    PROVE  /\ Present(store[a])
           /\ \A b \in Parents(a, Read(p, R)[a]) : b \in Aggregates /\ Present(store[b])
<1>1. CASE a \in R
  BY <1>1, ReadFacts DEF ChainOfCustody, Custodial
<1>2. CASE a \notin R
  BY <1>2, ReadFacts DEF ReadRowsHang
<1> QED BY <1>1, <1>2
-----------------------------------------------------------------------------
(* One lemma per action.                                                      *)
LEMMA ArriveInv ==
    ASSUME IndInv, NEW p \in Requests, Arrive(p)
    PROVE  IndInv'
<1> USE DEF IndInv
<1>1. PICK c \in Workload : cmd' = [cmd EXCEPT ![p] = c]
  BY DEF Arrive
<1>2. c \in Commands
  BY <1>1, WorkloadAssumption
<1>3. /\ pc[p] = "idle" /\ pc' = [pc EXCEPT ![p] = "lookup"]
      /\ UNCHANGED <<store, outbox, nextId, step, view, pending>>
  BY DEF Arrive
<1>4. /\ cmd'[p] = c /\ pc'[p] = "lookup"
      /\ \A q \in Requests \ {p} : cmd'[q] = cmd[q] /\ pc'[q] = pc[q]
  BY <1>1, <1>3 DEF TypeOK
<1>5. TypeOK'
  BY <1>1, <1>2, <1>3, <1>4 DEF TypeOK, InFlight
<1>6. StepOK'
  <2>1. Len(Lookups(c)) >= 1 /\ Lookups(c) \in Seq(Lookup)
    BY <1>2, LookupFacts DEF LookedUp
  <2>2. 1 \in 1..Len(Lookups(c))
    BY <2>1
  <2>3. step[p] = 1
    BY <1>3 DEF StepOK
  <2> QED BY <1>3, <1>4, <2>2, <2>3 DEF StepOK
<1>7. ReadRowsHang'
  BY <1>3 DEF ReadRowsHang
<1>8. Checked'
  <2> SUFFICES ASSUME NEW q \in Requests, NEW k \in 1..Len(Lookups(cmd'[q])),
                      Passed(q, k)', Lookups(cmd'[q])[k].must \in Presence
               PROVE  \A a \in Lookups(cmd'[q])[k].rows : Present(view'[q][a])
    BY DEF Checked
  <2>1. q # p
    <3>1. step'[p] = 1
      BY <1>3 DEF StepOK
    <3>2. k \in Nat /\ k >= 1
      OBVIOUS
    <3> QED BY <3>1, <3>2, <1>4 DEF Passed
  <2>2. Passed(q, k)
    BY <2>1, <1>3, <1>4 DEF Passed
  <2> QED BY <2>1, <2>2, <1>3, <1>4 DEF Checked
<1>9. ChainOfCustody'
  BY <1>3 DEF ChainOfCustody
<1> QED BY <1>5, <1>6, <1>7, <1>8, <1>9

(* A satisfied lookup: the rows it demanded are among the rows read.          *)
LEMMA LookupPassesInv ==
    ASSUME IndInv, NEW p \in Requests, LookupPasses(p)
    PROVE  IndInv'
<1> USE DEF IndInv
<1> DEFINE c == cmd[p]
           n == step[p]
           R == Lookups(c)[n].rows
           seen == Read(p, R)
<1>1. /\ pc[p] = "lookup"
      /\ Meets(c, Lookups(c)[n], seen)
      /\ view' = [view EXCEPT ![p] = seen]
      /\ UNCHANGED <<store, outbox, nextId, cmd, pending>>
  BY DEF LookupPasses
<1>2. \/ n < Len(Lookups(c)) /\ step' = [step EXCEPT ![p] = n + 1] /\ pc' = pc
      \/ /\ ~(n < Len(Lookups(c)))
         /\ step' = [step EXCEPT ![p] = 1] /\ pc' = [pc EXCEPT ![p] = "save"]
  BY DEF LookupPasses
<1>3. /\ c \in Commands /\ Lookups(c) \in Seq(Lookup) /\ n \in 1..Len(Lookups(c))
      /\ n \in Nat
  BY <1>1, LookupFacts DEF LookedUp, TypeOK, StepOK
<1>4. R \in SUBSET Aggregates
  <2>1. Lookups(c)[n] \in Lookup
    BY <1>3
  <2> QED BY <2>1 DEF Lookup
<1> HIDE DEF n, seen
<1>5. /\ view'[p] = seen /\ seen \in [Aggregates -> Row]
      /\ \A q \in Requests \ {p} : view'[q] = view[q] /\ pc'[q] = pc[q] /\ step'[q] = step[q]
  BY <1>1, <1>2, <1>4, ReadFacts DEF TypeOK, seen
<1>a. /\ \/ n < Len(Lookups(c)) /\ step'[p] = n + 1 /\ pc'[p] = "lookup"
         \/ ~(n < Len(Lookups(c))) /\ step'[p] = 1 /\ pc'[p] = "save"
      /\ pc' \in [Requests -> {"idle"} \cup InFlight \cup Answered]
      /\ step' \in [Requests -> Nat]
  <2>1. n + 1 \in Nat /\ 1 \in Nat
    BY <1>3
  <2>2. "save" \in InFlight
    BY DEF InFlight
  <2> QED BY <1>1, <1>2, <2>1, <2>2 DEF TypeOK
<1>6. TypeOK'
  <2>1. \A q \in Requests : pc'[q] # "idle" => cmd'[q] \in Commands
    BY <1>1, <1>3, <1>5 DEF TypeOK
  <2>2. view' \in [Requests -> [Aggregates -> Row]]
    BY <1>1, <1>5 DEF TypeOK
  <2> QED BY <1>1, <1>a, <2>1, <2>2 DEF TypeOK
<1>7. StepOK'
  <2>1. Len(Lookups(c)) \in Nat /\ n < Len(Lookups(c)) => n + 1 \in 1..Len(Lookups(c))
    BY <1>3
  <2> QED BY <1>1, <1>3, <1>5, <1>a, <2>1 DEF StepOK
<1>8. ReadRowsHang'
  BY <1>1, <1>4, <1>5, ReadHangs DEF ReadRowsHang, seen
<1>9. Checked'
  <2> SUFFICES ASSUME NEW q \in Requests, NEW k \in 1..Len(Lookups(cmd[q])),
                      Passed(q, k)', Lookups(cmd[q])[k].must \in Presence,
                      NEW a \in Lookups(cmd[q])[k].rows
               PROVE  Present(view'[q][a])
    BY <1>1 DEF Checked
  <2>1. CASE q # p
    <3>1. Passed(q, k)
      BY <2>1, <1>5 DEF Passed
    <3> QED BY <2>1, <3>1, <1>5 DEF Checked
  <2>2. CASE q = p /\ k = n
    BY <2>2, <1>1, <1>5, MetIsPresent
  <2>3. CASE q = p /\ k # n
    <3>1. Passed(p, k)
      <4>1. /\ k < n + 1 => k < n
            /\ ~(n < Len(Lookups(c))) => k < n
        BY <2>3, <1>3
      <4>2. step[p] = n
        BY DEF n
      <4> QED BY <2>3, <4>1, <4>2, <1>1, <1>a DEF Passed
    <3>2. Lookups(c)[k] \in Lookup
      BY <2>3, <1>3
    <3>3. a \in Aggregates
      BY <2>3, <3>2 DEF Lookup
    <3>4. Present(view[p][a])
      BY <2>3, <3>1 DEF Checked
    <3> QED BY <2>3, <1>4, <1>5, <3>3, <3>4, ReadKeeps DEF seen
  <2> QED BY <2>1, <2>2, <2>3
<1>10. ChainOfCustody'
  BY <1>1 DEF ChainOfCustody
<1> QED BY <1>6, <1>7, <1>8, <1>9, <1>10

(* A step that leaves the catalogue, the commands and what was read alone,    *)
(* and takes requests no further than past a lookup they had passed.          *)
LEMMA QuietInv ==
    ASSUME IndInv, UNCHANGED <<store, cmd, view>>,
           \A q \in Requests : \A k \in 1..Len(Lookups(cmd[q])) :
               Passed(q, k)' => Passed(q, k)
    PROVE  ReadRowsHang' /\ Checked' /\ ChainOfCustody'
<1> USE DEF IndInv
<1>1. ReadRowsHang'
  BY DEF ReadRowsHang
<1>2. Checked'
  BY DEF Checked
<1>3. ChainOfCustody'
  BY DEF ChainOfCustody
<1> QED BY <1>1, <1>2, <1>3

(* A refusal.                                                                 *)
LEMMA LookupRefusesInv ==
    ASSUME IndInv, NEW p \in Requests, LookupRefuses(p)
    PROVE  IndInv'
<1> USE DEF IndInv
<1>1. /\ pc[p] = "lookup" /\ pc' = [pc EXCEPT ![p] = "rejected"]
      /\ UNCHANGED <<store, outbox, nextId, cmd, step, view, pending>>
  BY DEF LookupRefuses
<1>2. /\ pc'[p] = "rejected"
      /\ \A q \in Requests \ {p} : pc'[q] = pc[q]
  BY <1>1 DEF TypeOK
<1>3. TypeOK'
  BY <1>1, <1>2 DEF TypeOK, Answered
<1>4. StepOK'
  BY <1>1, <1>2 DEF StepOK
<1>5. \A q \in Requests : \A k \in 1..Len(Lookups(cmd[q])) : Passed(q, k)' => Passed(q, k)
  BY <1>1, <1>2 DEF Passed
<1> QED BY <1>1, <1>3, <1>4, <1>5, QuietInv

(* The save: the request holds its row and has written nothing yet.           *)
LEMMA SaveInv ==
    ASSUME IndInv, NEW p \in Requests, Save(p)
    PROVE  IndInv'
<1> USE DEF IndInv
<1>1. /\ pc[p] = "save" /\ pc' = [pc EXCEPT ![p] = "publish"]
      /\ UNCHANGED <<store, outbox, nextId, cmd, step, view, pending>>
  BY DEF Save
<1>2. /\ pc'[p] = "publish"
      /\ \A q \in Requests \ {p} : pc'[q] = pc[q]
  BY <1>1 DEF TypeOK
<1>3. TypeOK'
  BY <1>1, <1>2 DEF TypeOK, InFlight, InTransaction
<1>4. StepOK'
  <2>1. step'[p] = 1 /\ 1 \in 1..Len(Encoders)
    BY <1>1 DEF StepOK, Encoders
  <2> QED BY <1>1, <1>2, <2>1 DEF StepOK
<1>5. \A q \in Requests : \A k \in 1..Len(Lookups(cmd[q])) : Passed(q, k)' => Passed(q, k)
  BY <1>1, <1>2 DEF Passed
<1> QED BY <1>1, <1>3, <1>4, <1>5, QuietInv

(* One encoder's row: a row of outbox_events, in the open transaction.        *)
LEMMA PublishInv ==
    ASSUME IndInv, NEW p \in Requests, Publish(p)
    PROVE  IndInv'
<1> USE DEF IndInv
<1> DEFINE n == step[p]
           row == [id    |-> nextId,
                   topic |-> Encoders[n],
                   event |-> EventOf[cmd[p].use],
                   about |-> cmd[p].target,
                   by    |-> p]
<1>1. /\ pc[p] = "publish" /\ nextId' = nextId + 1
      /\ pending' = [pending EXCEPT ![p] = pending[p] \cup {row}]
      /\ UNCHANGED <<store, outbox, cmd, view>>
  BY DEF Publish
<1>2. \/ n < Len(Encoders) /\ step' = [step EXCEPT ![p] = n + 1] /\ pc' = pc
      \/ step' = step /\ pc' = [pc EXCEPT ![p] = "commit"]
  BY DEF Publish
<1>3. cmd[p] \in Commands /\ n \in 1..2 /\ Len(Encoders) = 2
  BY <1>1 DEF TypeOK, StepOK, Encoders
<1>4. row \in OutboxRow
  <2>1. Encoders[n] \in Topics
    BY <1>3 DEF Encoders, Topics
  <2>2. cmd[p].use \in UseCases /\ cmd[p].target \in Aggregates
    BY <1>3, CommandFacts
  <2>3. EventOf[cmd[p].use] \in Events
    BY <2>2 DEF Events
  <2>4. nextId \in Nat
    BY DEF TypeOK
  <2> QED BY <2>1, <2>2, <2>3, <2>4 DEF OutboxRow
<1> HIDE DEF row, n
<1>5. /\ \/ n < Len(Encoders) /\ step'[p] = n + 1 /\ pc'[p] = "publish"
         \/ step'[p] = n /\ pc'[p] = "commit"
      /\ pc' \in [Requests -> {"idle"} \cup InFlight \cup Answered]
      /\ step' \in [Requests -> Nat]
      /\ \A q \in Requests \ {p} : pc'[q] = pc[q] /\ step'[q] = step[q]
  <2>1. n + 1 \in Nat /\ n = step[p]
    BY <1>3 DEF n
  <2>2. "commit" \in InFlight
    BY DEF InFlight, InTransaction
  <2> QED BY <1>1, <1>2, <2>1, <2>2 DEF TypeOK
<1>6. TypeOK'
  <2>1. \A q \in Requests : pc'[q] # "idle" => cmd'[q] \in Commands
    BY <1>1, <1>3, <1>5 DEF TypeOK
  <2>2. pending' \in [Requests -> SUBSET OutboxRow] /\ nextId' \in Nat
    BY <1>1, <1>4 DEF TypeOK
  <2> QED BY <1>1, <1>5, <2>1, <2>2 DEF TypeOK
<1>7. StepOK'
  <2>1. n < Len(Encoders) => n + 1 \in 1..Len(Encoders)
    BY <1>3
  <2> QED BY <1>1, <1>5, <2>1 DEF StepOK
<1>8. \A q \in Requests : \A k \in 1..Len(Lookups(cmd[q])) : Passed(q, k)' => Passed(q, k)
  BY <1>1, <1>5 DEF Passed
<1> QED BY <1>1, <1>6, <1>7, <1>8, QuietInv

(* An error or a death before the commit.                                     *)
LEMMA FailInv ==
    ASSUME IndInv, NEW p \in Requests, Fail(p)
    PROVE  IndInv'
<1> USE DEF IndInv
<1>1. /\ pc[p] \in InFlight /\ pc' = [pc EXCEPT ![p] = "failed"]
      /\ pending' = [pending EXCEPT ![p] = {}]
      /\ UNCHANGED <<store, outbox, nextId, cmd, step, view>>
  BY DEF Fail
<1>2. /\ pc[p] # "idle" /\ pc'[p] = "failed"
      /\ \A q \in Requests \ {p} : pc'[q] = pc[q]
  BY <1>1 DEF TypeOK, InFlight, InTransaction
<1>3. TypeOK'
  BY <1>1, <1>2 DEF TypeOK, Answered
<1>4. StepOK'
  BY <1>1, <1>2 DEF StepOK
<1>5. \A q \in Requests : \A k \in 1..Len(Lookups(cmd[q])) : Passed(q, k)' => Passed(q, k)
  BY <1>1, <1>2 DEF Passed
<1> QED BY <1>1, <1>3, <1>4, <1>5, QuietInv

(* What some lookup of a request past its lookups demanded is in the          *)
(* catalogue now, whoever has committed since.                                *)
LEMMA DemandedIsPresent ==
    ASSUME IndInv, NEW p \in Requests, pc[p] \in {"save", "publish", "commit"},
           NEW b, Demanded(cmd[p], b)
    PROVE  b \in Aggregates /\ Present(view[p][b]) /\ Present(store[b])
<1> USE DEF IndInv
<1>1. PICK k \in 1..Len(Lookups(cmd[p])) :
          b \in Lookups(cmd[p])[k].rows /\ Lookups(cmd[p])[k].must \in Presence
  BY DEF Demanded
<1>2. Present(view[p][b])
  BY <1>1 DEF Checked, Passed
<1>3. cmd[p] \in Commands
  BY DEF TypeOK
<1>4. Lookups(cmd[p]) \in Seq(Lookup)
  BY <1>3, LookupFacts DEF LookedUp
<1>5. Lookups(cmd[p])[k] \in Lookup
  BY <1>4
<1>6. b \in Aggregates
  BY <1>1, <1>5 DEF Lookup
<1> QED BY <1>2, <1>6 DEF ReadRowsHang

(* The row a request commits hangs from the catalogue it is committed to.     *)
LEMMA CommittedHangs ==
    ASSUME IndInv, NEW p \in Requests, pc[p] = "commit"
    PROVE  /\ Present(SavedRow(p))
           /\ \A b \in Parents(cmd[p].target, SavedRow(p)) :
                  b \in Aggregates /\ Present(store[b])
<1> USE DEF IndInv
<1> DEFINE c == cmd[p]
           a == c.target
<1>1. c \in Commands
  BY DEF TypeOK
<1>2. LookedUp(c) /\ c.use \in UseCases /\ a \in Aggregates
  BY <1>1, LookupFacts, CommandFacts
<1>3. CASE c.use \in Registrations
  <2>1. /\ Present(SavedRow(p))
        /\ \/ SavedRow(p).attr = c.arg
           \/ Present(store[a]) /\ SavedRow(p).attr = store[a].attr
    BY <1>1, <1>3, SavedRowFacts
  <2>2. CASE SavedRow(p).attr = c.arg
    <3>1. Parents(a, SavedRow(p)) = NeededBy(c)
      BY <2>2 DEF Parents, NeededBy
    <3>2. \A b \in NeededBy(c) : Demanded(c, b)
      BY <1>2, <1>3 DEF LookedUp
    <3> QED BY <2>1, <3>1, <3>2, DemandedIsPresent
  <2>3. CASE Present(store[a]) /\ SavedRow(p).attr = store[a].attr
    <3>1. Parents(a, SavedRow(p)) = Parents(a, store[a])
      BY <2>3 DEF Parents
    <3> QED BY <1>2, <2>1, <2>3, <3>1 DEF ChainOfCustody, Custodial
  <2> QED BY <2>1, <2>2, <2>3
<1>4. CASE c.use \in Updates
  <2>1. Demanded(c, a)
    BY <1>2, <1>4 DEF LookedUp
  <2>2. Present(view[p][a])
    BY <2>1, DemandedIsPresent
  <2>3. Present(SavedRow(p)) /\ SavedRow(p).attr = view[p][a].attr
    BY <1>1, <1>4, <2>2, SavedRowFacts
  <2>4. Parents(a, SavedRow(p)) = Parents(a, view[p][a])
    BY <2>3 DEF Parents
  <2>5. \A b \in Parents(a, view[p][a]) : b \in Aggregates /\ Present(store[b])
    BY <1>2, <2>2 DEF ReadRowsHang
  <2> QED BY <2>3, <2>4, <2>5
<1> QED BY <1>2, <1>3, <1>4 DEF Registrations

(* The commit: the one step that changes the catalogue.                       *)
LEMMA CommitInv ==
    ASSUME IndInv, NEW p \in Requests, Commit(p)
    PROVE  IndInv'
<1> USE DEF IndInv
<1> DEFINE a == cmd[p].target
           row == SavedRow(p)
<1>1. /\ pc[p] = "commit"
      /\ store' = [store EXCEPT ![a] = row]
      /\ outbox' = outbox \cup pending[p]
      /\ pending' = [pending EXCEPT ![p] = {}]
      /\ UNCHANGED <<nextId, cmd, step, view>>
  BY DEF Commit
<1>2. PICK answer \in {"accepted", "failed"} : pc' = [pc EXCEPT ![p] = answer]
  BY DEF Commit
<1>3. cmd[p] \in Commands
  BY <1>1 DEF TypeOK
<1>4. row \in Row /\ a \in Aggregates
  BY <1>3, SavedRowFacts, CommandFacts
<1>5. Present(row) /\ \A b \in Parents(a, row) : b \in Aggregates /\ Present(store[b])
  BY <1>1, CommittedHangs
<1> HIDE DEF a, row
<1>6. /\ pc'[p] \in Answered
      /\ \A q \in Requests \ {p} : pc'[q] = pc[q]
      /\ pc' \in [Requests -> {"idle"} \cup InFlight \cup Answered]
  BY <1>2 DEF TypeOK, Answered
<1>7. /\ store'[a] = row
      /\ \A b \in Aggregates \ {a} : store'[b] = store[b]
      /\ store' \in [Aggregates -> Row]
  BY <1>1, <1>4 DEF TypeOK
<1>8. \A b \in Aggregates : Present(store[b]) => Present(store'[b])
  BY <1>5, <1>7
<1>9. TypeOK'
  <2>1. \A q \in Requests : pc'[q] # "idle" => cmd'[q] \in Commands
    BY <1>1, <1>3, <1>6 DEF TypeOK
  <2>2. outbox' \in SUBSET OutboxRow /\ pending' \in [Requests -> SUBSET OutboxRow]
    BY <1>1 DEF TypeOK
  <2> QED BY <1>1, <1>6, <1>7, <2>1, <2>2 DEF TypeOK
<1>10. StepOK'
  BY <1>1, <1>6 DEF StepOK, Answered
<1>11. ReadRowsHang'
  BY <1>1, <1>8 DEF ReadRowsHang
<1>12. Checked'
  <2>1. \A q \in Requests : \A k \in 1..Len(Lookups(cmd[q])) : Passed(q, k)' => Passed(q, k)
    BY <1>1, <1>6 DEF Passed, Answered
  <2> QED BY <1>1, <2>1 DEF Checked
<1>13. ChainOfCustody'
  <2> SUFFICES ASSUME NEW x \in Aggregates, Present(store'[x]),
                      NEW b \in Parents(x, store'[x])
               PROVE  b \in Aggregates /\ Present(store'[b])
    BY DEF ChainOfCustody, Custodial
  <2>1. CASE x = a
    BY <2>1, <1>5, <1>7, <1>8
  <2>2. CASE x # a
    <3>1. store'[x] = store[x]
      BY <2>2, <1>7
    <3>2. b \in Aggregates /\ Present(store[b])
      BY <3>1 DEF ChainOfCustody, Custodial
    <3> QED BY <3>2, <1>8
  <2> QED BY <2>1, <2>2
<1> QED BY <1>9, <1>10, <1>11, <1>12, <1>13

(* A step that changes nothing, as when all requests are answered.            *)
LEMMA StutterInv ==
    ASSUME IndInv, UNCHANGED vars
    PROVE  IndInv'
BY DEF IndInv, vars, TypeOK, StepOK, ReadRowsHang, Checked, Passed, ChainOfCustody

(* Every step of the catalogue.                                               *)
LEMMA NextInv == IndInv /\ [Next]_vars => IndInv'
<1> SUFFICES ASSUME IndInv, [Next]_vars PROVE IndInv'
  OBVIOUS
<1>1. ASSUME NEW p \in Requests, Arrive(p) PROVE IndInv'
  BY <1>1, ArriveInv
<1>2. ASSUME NEW p \in Requests, LookupPasses(p) PROVE IndInv'
  BY <1>2, LookupPassesInv
<1>3. ASSUME NEW p \in Requests, LookupRefuses(p) PROVE IndInv'
  BY <1>3, LookupRefusesInv
<1>4. ASSUME NEW p \in Requests, Save(p) PROVE IndInv'
  BY <1>4, SaveInv
<1>5. ASSUME NEW p \in Requests, Publish(p) PROVE IndInv'
  BY <1>5, PublishInv
<1>6. ASSUME NEW p \in Requests, Commit(p) PROVE IndInv'
  BY <1>6, CommitInv
<1>7. ASSUME NEW p \in Requests, Fail(p) PROVE IndInv'
  BY <1>7, FailInv
<1>8. CASE AllAnswered \/ UNCHANGED vars
  BY <1>8, StutterInv DEF AllAnswered
<1> QED BY <1>1, <1>2, <1>3, <1>4, <1>5, <1>6, <1>7, <1>8 DEF Next, Advance

(* The invariant holds in every behaviour.                                    *)
THEOREM Invariant == Spec => []IndInv
<1>1. Init => IndInv
  BY InitInv
<1>2. IndInv /\ [Next]_vars => IndInv'
  BY NextInv
<1> QED BY <1>1, <1>2, PTL DEF Spec

(* Every variable keeps its type, whatever the map, the workload and the      *)
(* number of requests.                                                        *)
THEOREM TypeCorrect == Spec => []TypeOK
<1>1. IndInv => TypeOK
  BY DEF IndInv
<1> QED BY <1>1, Invariant, PTL

(* No request, and no interleaving of any number of them, leaves an orphan:   *)
(* the lookups the use cases make outside the transaction are enough, because *)
(* nothing is ever deleted.                                                   *)
THEOREM NoOrphans == Spec => []ChainOfCustody
<1>1. IndInv => ChainOfCustody
  BY DEF IndInv
<1> QED BY <1>1, Invariant, PTL
-----------------------------------------------------------------------------
(* Statuses.  Only slots change theirs: a row of another table keeps the one  *)
(* it was loaded with, or the Active one it was registered with.              *)
Lasting(a) == KindOf[a] # "slot"

StatusFor(a) == IF Present(Loaded[a]) THEN Loaded[a].status ELSE "Active"

StatusesLast ==
    \A a \in Aggregates :
        /\ Present(Loaded[a]) => Present(store[a])
        /\ Lasting(a) /\ Present(store[a]) => store[a].status = StatusFor(a)
        /\ \A p \in Requests :
              Lasting(a) /\ Present(view[p][a]) => view[p][a].status = StatusFor(a)

(* What a passed lookup found still holds: an identity that was free was not  *)
(* loaded, a link that was Active is of a table whose statuses last.          *)
Found ==
    \A p \in Requests : \A k \in 1..Len(Lookups(cmd[p])) :
        Passed(p, k) => \A a \in Lookups(cmd[p])[k].rows :
            /\ Lookups(cmd[p])[k].must = "absent" => ~Present(Loaded[a])
            /\ Lookups(cmd[p])[k].must = "active" /\ Lasting(a) => StatusFor(a) = "Active"

StatusInv == StatusesLast /\ Found

LEMMA InitStatus == Init => StatusInv
<1> SUFFICES ASSUME Init PROVE StatusInv
  OBVIOUS
<1>1. \A p \in Requests : \A a \in Aggregates : ~Present(view[p][a])
  BY DEF Init, NoView, NoRow, Present, Absent
<1>2. StatusesLast
  BY <1>1 DEF Init, StatusesLast, StatusFor
<1>3. Found
  BY DEF Init, Found, Passed
<1> QED BY <1>2, <1>3 DEF StatusInv

(* What was found by requests that keep their command and go no further.      *)
LEMMA QuietStatus ==
    ASSUME StatusInv, UNCHANGED <<store, view>>,
           \A q \in Requests : cmd'[q] = cmd[q] \/ \A k \in Nat \ {0} : ~Passed(q, k)',
           \A q \in Requests : \A k \in Nat \ {0} : Passed(q, k)' => Passed(q, k)
    PROVE  StatusInv'
<1>1. StatusesLast'
  BY DEF StatusInv, StatusesLast
<1>2. Found'
  <2> SUFFICES ASSUME NEW q \in Requests, NEW k \in 1..Len(Lookups(cmd'[q])), Passed(q, k)'
               PROVE  \A a \in Lookups(cmd'[q])[k].rows :
                         /\ Lookups(cmd'[q])[k].must = "absent" => ~Present(Loaded[a])
                         /\ Lookups(cmd'[q])[k].must = "active" /\ Lasting(a) => StatusFor(a) = "Active"
    BY DEF Found
  <2>1. k \in Nat \ {0}
    OBVIOUS
  <2>2. cmd'[q] = cmd[q] /\ Passed(q, k)
    BY <2>1
  <2> QED BY <2>2 DEF StatusInv, Found
<1> QED BY <1>1, <1>2 DEF StatusInv

(* A lookup: what it read has the status it keeps.                            *)
LEMMA LookupPassesStatus ==
    ASSUME IndInv, StatusInv, NEW p \in Requests, LookupPasses(p)
    PROVE  StatusInv'
<1> DEFINE c == cmd[p]
           n == step[p]
           R == Lookups(c)[n].rows
           seen == Read(p, R)
<1>1. /\ pc[p] = "lookup"
      /\ Meets(c, Lookups(c)[n], seen)
      /\ view' = [view EXCEPT ![p] = seen]
      /\ UNCHANGED <<store, outbox, nextId, cmd, pending>>
  BY DEF LookupPasses
<1>2. \/ n < Len(Lookups(c)) /\ step' = [step EXCEPT ![p] = n + 1] /\ pc' = pc
      \/ /\ ~(n < Len(Lookups(c)))
         /\ step' = [step EXCEPT ![p] = 1] /\ pc' = [pc EXCEPT ![p] = "save"]
  BY DEF LookupPasses
<1>3. c \in Commands /\ n \in 1..Len(Lookups(c)) /\ n \in Nat
  BY <1>1 DEF IndInv, TypeOK, StepOK
<1>4. R \in SUBSET Aggregates
  BY <1>3, LookupRows
<1>5. /\ \A a \in Aggregates : seen[a] = IF a \in R THEN store[a] ELSE view[p][a]
      /\ seen \in [Aggregates -> Row]
  BY <1>4, ReadFacts DEF IndInv
<1>6. /\ Lookups(c)[n].must = "absent" => \A a \in R : ~Present(store[a])
      /\ Lookups(c)[n].must = "active" => \A a \in R : store[a].status = "Active"
  <2>1. \A a \in R : seen[a] = store[a]
    BY <1>4, <1>5
  <2>2. Lookups(c)[n].must = "absent" => \A a \in R : ~Present(seen[a])
    BY <1>1 DEF Meets
  <2>3. Lookups(c)[n].must = "active" => \A a \in R : seen[a].status = "Active"
    BY <1>1 DEF Meets
  <2> QED BY <2>1, <2>2, <2>3
<1> HIDE DEF n, seen, R
<1>7. /\ view'[p] = seen
      /\ \A q \in Requests \ {p} : view'[q] = view[q] /\ pc'[q] = pc[q] /\ step'[q] = step[q]
      /\ \/ n < Len(Lookups(c)) /\ step'[p] = n + 1 /\ pc'[p] = "lookup"
         \/ ~(n < Len(Lookups(c))) /\ step'[p] = 1 /\ pc'[p] = "save"
  BY <1>1, <1>2 DEF IndInv, TypeOK
<1>8. StatusesLast'
  <2>1. \A a \in Aggregates : Lasting(a) /\ Present(seen[a]) => seen[a].status = StatusFor(a)
    BY <1>5 DEF StatusInv, StatusesLast
  <2> QED BY <1>1, <1>7, <2>1 DEF StatusInv, StatusesLast
<1>9. Found'
  <2> SUFFICES ASSUME NEW q \in Requests, NEW k \in 1..Len(Lookups(cmd[q])), Passed(q, k)',
                      NEW a \in Lookups(cmd[q])[k].rows
               PROVE  /\ Lookups(cmd[q])[k].must = "absent" => ~Present(Loaded[a])
                      /\ Lookups(cmd[q])[k].must = "active" /\ Lasting(a) => StatusFor(a) = "Active"
    BY <1>1 DEF Found
  <2>1. CASE q # p
    <3>1. Passed(q, k)
      BY <2>1, <1>7 DEF Passed
    <3> QED BY <3>1 DEF StatusInv, Found
  <2>2. CASE q = p /\ k = n
    <3>1. a \in R /\ a \in Aggregates
      BY <2>2, <1>4 DEF R
    <3>2. Lookups(c)[n].must = "absent" => ~Present(Loaded[a])
      <4>1. Present(Loaded[a]) => Present(store[a])
        BY <3>1 DEF StatusInv, StatusesLast
      <4>2. Lookups(c)[n].must = "absent" => ~Present(store[a])
        BY <3>1, <1>6, Zenon
      <4> QED BY <4>1, <4>2, Zenon
    <3>3. Lookups(c)[n].must = "active" /\ Lasting(a) => StatusFor(a) = "Active"
      BY <3>1, <1>6 DEF StatusInv, StatusesLast, Present, Absent
    <3> QED BY <2>2, <3>2, <3>3
  <2>3. CASE q = p /\ k # n
    <3>1. k < n + 1 => k < n
      BY <2>3, <1>3
    <3>2. ~(n < Len(Lookups(c))) => k < n
      BY <2>3, <1>3
    <3>3. step[p] = n
      BY DEF n
    <3>4. Passed(p, k)
      BY <2>3, <3>1, <3>2, <3>3, <1>1, <1>7 DEF Passed
    <3> QED BY <2>3, <3>4 DEF StatusInv, Found
  <2> QED BY <2>1, <2>2, <2>3
<1> QED BY <1>8, <1>9 DEF StatusInv

(* What a request past its lookups has found to be free or Active.            *)
LEMMA DemandedWasFound ==
    ASSUME IndInv, StatusInv, NEW p \in Requests, pc[p] \in {"save", "publish", "commit"}, NEW b
    PROVE  /\ DemandedAs(cmd[p], b, "absent") => ~Present(Loaded[b])
           /\ DemandedAs(cmd[p], b, "active") /\ Lasting(b) => StatusFor(b) = "Active"
BY DEF StatusInv, Found, Passed, DemandedAs

(* The row a request commits has the status its aggregate keeps, and the rows *)
(* its registration needs Active are.                                         *)
LEMMA CommittedStatus ==
    ASSUME IndInv, StatusInv, NEW p \in Requests, pc[p] = "commit"
    PROVE  /\ Lasting(cmd[p].target) => SavedRow(p).status = StatusFor(cmd[p].target)
           /\ cmd[p].use \in Registrations =>
                 \A b \in ActiveCustody(cmd[p].target) :
                     b \in Aggregates /\ store[b].status = "Active"
<1> DEFINE c == cmd[p]
           a == c.target
<1>1. c \in Commands /\ c.use \in UseCases /\ a \in Aggregates /\ LookedUp(c)
  BY LookupFacts, CommandFacts DEF IndInv, TypeOK
<1>2. CASE c.use \in Registrations
  <2>1. SavedRow(p).status = "Active"
    BY <1>1, <1>2, SavedRowFacts DEF IndInv
  <2>2. ~Present(Loaded[a])
    BY <1>1, <1>2, DemandedWasFound DEF LookedUp
  <2>3. ASSUME NEW b \in ActiveCustody(a)
        PROVE  b \in Aggregates /\ store[b].status = "Active"
    <3>1. b \in Custody(a) /\ b \in Aggregates /\ Lasting(b)
      BY <1>1, <2>3, ActiveCustodyFacts DEF Lasting
    <3>2. StatusFor(b) = "Active"
      BY <1>1, <1>2, <2>3, <3>1, DemandedWasFound DEF LookedUp
    <3>3. Demanded(c, b)
      BY <1>1, <1>2, <3>1 DEF LookedUp, NeededBy
    <3>4. Present(store[b])
      BY <3>3, DemandedIsPresent
    <3> QED BY <3>1, <3>2, <3>4 DEF StatusInv, StatusesLast
  <2> QED BY <2>1, <2>2, <2>3 DEF StatusFor
<1>3. CASE c.use \in Updates
  <2>1. Present(view[p][a])
    BY <1>1, <1>3, DemandedIsPresent DEF LookedUp
  <2>2. Lasting(a) => c.use = "SetAisleGeometry"
    BY <1>1, <1>3, CommandFacts, KindFacts DEF Updates, Lasting
  <2>3. c.use = "SetAisleGeometry" => SavedRow(p).status = view[p][a].status
    BY <1>1, SavedRowFacts DEF IndInv
  <2>4. c.use \notin Registrations
    BY <1>3 DEF Registrations
  <2> QED BY <1>1, <2>1, <2>2, <2>3, <2>4 DEF StatusInv, StatusesLast
<1> QED BY <1>1, <1>2, <1>3 DEF Registrations

(* What a commit does to the catalogue.                                       *)
LEMMA CommitFacts ==
    ASSUME IndInv, NEW p \in Requests, Commit(p)
    PROVE  /\ pc[p] = "commit" /\ cmd[p] \in Commands /\ cmd[p].target \in Aggregates
           /\ store'[cmd[p].target] = SavedRow(p) /\ Present(SavedRow(p))
           /\ SavedRow(p) \in Row /\ SavedRow(p).by = p
           /\ Keeps(cmd[p].target, store[cmd[p].target], SavedRow(p))
           /\ \A b \in Aggregates \ {cmd[p].target} : store'[b] = store[b]
           /\ \A b \in Aggregates : Present(store[b]) => Present(store'[b])
           /\ outbox' = outbox \cup pending[p]
           /\ pending'[p] = {} /\ \A q \in Requests \ {p} : pending'[q] = pending[q]
           /\ pc'[p] \in Answered /\ \A q \in Requests \ {p} : pc'[q] = pc[q]
           /\ UNCHANGED <<nextId, cmd, step, view>>
<1>1. pc[p] = "commit" /\ cmd[p] \in Commands
  BY DEF Commit, IndInv, TypeOK
<1>2. /\ cmd[p].target \in Aggregates /\ SavedRow(p) \in Row /\ SavedRow(p).by = p
      /\ Keeps(cmd[p].target, store[cmd[p].target], SavedRow(p))
  BY <1>1, SavedRowFacts, CommandFacts DEF IndInv
<1>3. Present(SavedRow(p))
  BY <1>1, CommittedHangs
<1>4. store' = [store EXCEPT ![cmd[p].target] = SavedRow(p)] /\ store \in [Aggregates -> Row]
  BY DEF Commit, IndInv, TypeOK
<1>5. /\ store'[cmd[p].target] = SavedRow(p)
      /\ \A b \in Aggregates \ {cmd[p].target} : store'[b] = store[b]
  BY <1>2, <1>4
<1>6. \A b \in Aggregates : Present(store[b]) => Present(store'[b])
  BY <1>3, <1>5
<1>7. /\ outbox' = outbox \cup pending[p]
      /\ pending'[p] = {} /\ \A q \in Requests \ {p} : pending'[q] = pending[q]
      /\ UNCHANGED <<nextId, cmd, step, view>>
  BY DEF Commit, IndInv, TypeOK
<1>8. pc'[p] \in Answered /\ \A q \in Requests \ {p} : pc'[q] = pc[q]
  BY DEF Commit, Answered, IndInv, TypeOK
<1> QED BY <1>1, <1>2, <1>3, <1>5, <1>6, <1>7, <1>8

LEMMA CommitStatus ==
    ASSUME IndInv, StatusInv, NEW p \in Requests, Commit(p)
    PROVE  StatusInv'
<1> DEFINE a == cmd[p].target
           row == SavedRow(p)
<1>1. /\ pc[p] = "commit" /\ a \in Aggregates
      /\ store'[a] = row /\ Present(row) /\ \A b \in Aggregates \ {a} : store'[b] = store[b]
      /\ \A b \in Aggregates : Present(store[b]) => Present(store'[b])
      /\ pc'[p] \in Answered /\ \A q \in Requests \ {p} : pc'[q] = pc[q]
      /\ UNCHANGED <<nextId, cmd, step, view>>
  BY CommitFacts
<1>2. Lasting(a) => row.status = StatusFor(a)
  BY <1>1, CommittedStatus
<1> HIDE DEF a, row
<1>3. StatusesLast'
  BY <1>1, <1>2 DEF StatusInv, StatusesLast
<1>4. Found'
  <2>1. \A q \in Requests : \A k \in 1..Len(Lookups(cmd[q])) : Passed(q, k)' => Passed(q, k)
    BY <1>1 DEF Passed, Answered
  <2> QED BY <1>1, <2>1 DEF StatusInv, Found
<1> QED BY <1>3, <1>4 DEF StatusInv

(* The other steps.                                                           *)
LEMMA OtherStatus ==
    ASSUME IndInv, StatusInv, NEW p \in Requests,
           \/ Arrive(p) \/ LookupRefuses(p) \/ Save(p) \/ Publish(p) \/ Fail(p)
    PROVE  StatusInv'
<1>1. CASE Arrive(p)
  <2>1. /\ pc[p] = "idle" /\ pc'[p] = "lookup" /\ step'[p] = 1
        /\ UNCHANGED <<store, view, step>>
        /\ \A q \in Requests \ {p} : cmd'[q] = cmd[q] /\ pc'[q] = pc[q]
    BY <1>1 DEF Arrive, IndInv, TypeOK, StepOK
  <2>2. \A k \in Nat \ {0} : ~Passed(p, k)'
    BY <2>1 DEF Passed
  <2>3. \A q \in Requests : \A k \in Nat \ {0} : Passed(q, k)' => Passed(q, k)
    BY <2>1, <2>2 DEF Passed
  <2> QED BY <2>1, <2>2, <2>3, QuietStatus
<1>2. CASE LookupRefuses(p) \/ Save(p) \/ Publish(p) \/ Fail(p)
  <2>1. /\ UNCHANGED <<store, cmd, view>>
        /\ \A q \in Requests \ {p} : pc'[q] = pc[q] /\ step'[q] = step[q]
        /\ pc'[p] \notin {"lookup", "save"}
        /\ pc'[p] \in {"publish", "commit"} => pc[p] \in {"save", "publish"}
    <3>1. CASE LookupRefuses(p)
      BY <3>1 DEF LookupRefuses, IndInv, TypeOK
    <3>2. CASE Save(p)
      BY <3>2 DEF Save, IndInv, TypeOK
    <3>3. CASE Publish(p)
      BY <3>3 DEF Publish, IndInv, TypeOK
    <3>4. CASE Fail(p)
      BY <3>4 DEF Fail, IndInv, TypeOK
    <3> QED BY <1>2, <3>1, <3>2, <3>3, <3>4
  <2>2. \A q \in Requests : \A k \in Nat \ {0} : Passed(q, k)' => Passed(q, k)
    BY <2>1 DEF Passed
  <2> QED BY <2>1, <2>2, QuietStatus
<1> QED BY <1>1, <1>2
-----------------------------------------------------------------------------
(* Transactions and their events.  An event is of the command of the request  *)
(* that wrote it, and its id is taken.                                        *)
AnnouncedBy(p, e) ==
    /\ e.by = p
    /\ e.about = cmd[p].target
    /\ e.event = EventOf[cmd[p].use]
    /\ e.id < nextId

(* An open transaction has written an event for each encoder it is past.      *)
PendingOK ==
    \A p \in Requests :
        /\ \A e \in pending[p] : pc[p] \in InTransaction /\ AnnouncedBy(p, e)
        /\ pc[p] = "publish" =>
              \A i \in 1..(step[p] - 1) : \E e \in pending[p] : e.topic = Encoders[i]
        /\ pc[p] = "commit" =>
              \A t \in Topics : \E e \in pending[p] : e.topic = t

(* What is in the outbox was committed with its request.                      *)
OutboxOK == \A e \in outbox : pc[e.by] \in Answered /\ AnnouncedBy(e.by, e)

(* Two open transactions hold different rows.                                 *)
LocksOK ==
    \A p, q \in Requests :
        p # q /\ pc[p] \in InTransaction /\ pc[q] \in InTransaction
            => cmd[p].target # cmd[q].target

TransactionInv == PendingOK /\ OutboxOK /\ LocksOK

LEMMA InitTransaction == Init => TransactionInv
BY DEF Init, TransactionInv, PendingOK, OutboxOK, LocksOK, InTransaction

(* A step of a request that writes no event: the others keep theirs.          *)
LEMMA SilentTransaction ==
    ASSUME IndInv, TransactionInv, NEW p \in Requests, pc[p] \notin Answered,
           UNCHANGED <<outbox, nextId>>,
           \A q \in Requests \ {p} : /\ pc'[q] = pc[q] /\ cmd'[q] = cmd[q]
                                     /\ step'[q] = step[q] /\ pending'[q] = pending[q],
           pending'[p] = {},
           pc'[p] \notin InTransaction
    PROVE  TransactionInv'
<1>1. \A q \in Requests \ {p} : \A e : AnnouncedBy(q, e) => AnnouncedBy(q, e)'
  BY DEF AnnouncedBy
<1>2. PendingOK'
  BY <1>1 DEF TransactionInv, PendingOK, InTransaction
<1>3. OutboxOK'
  <2> SUFFICES ASSUME NEW e \in outbox PROVE pc'[e.by] \in Answered /\ AnnouncedBy(e.by, e)'
    BY DEF OutboxOK
  <2>1. pc[e.by] \in Answered /\ AnnouncedBy(e.by, e)
    BY DEF TransactionInv, OutboxOK
  <2>2. e.by \in Requests
    BY DEF IndInv, TypeOK, OutboxRow
  <2>3. e.by \in Requests \ {p}
    BY <2>1, <2>2
  <2> QED BY <2>1, <2>3 DEF AnnouncedBy
<1>4. LocksOK'
  BY DEF TransactionInv, LocksOK
<1> QED BY <1>2, <1>3, <1>4 DEF TransactionInv

LEMMA SaveTransaction ==
    ASSUME IndInv, TransactionInv, NEW p \in Requests, Save(p)
    PROVE  TransactionInv'
<1>1. /\ pc[p] = "save" /\ pc'[p] = "publish" /\ step[p] = 1
      /\ \A q \in Requests \ {p} : pc'[q] = pc[q] /\ ~Holds(q, cmd[p].target)
      /\ UNCHANGED <<store, outbox, nextId, cmd, step, view, pending>>
  BY DEF Save, IndInv, TypeOK, StepOK
<1>2. \A q \in Requests : \A e : AnnouncedBy(q, e) => AnnouncedBy(q, e)'
  BY <1>1 DEF AnnouncedBy
<1>3. PendingOK'
  <2>1. pending[p] = {} /\ 1..(step[p] - 1) = {}
    BY <1>1 DEF TransactionInv, PendingOK, InTransaction
  <2> QED BY <1>1, <1>2, <2>1 DEF TransactionInv, PendingOK
<1>4. OutboxOK'
  <2> SUFFICES ASSUME NEW e \in outbox PROVE pc'[e.by] \in Answered /\ AnnouncedBy(e.by, e)'
    BY <1>1 DEF OutboxOK
  <2>1. pc[e.by] \in Answered /\ AnnouncedBy(e.by, e)
    BY DEF TransactionInv, OutboxOK
  <2>2. e.by \in Requests
    BY DEF IndInv, TypeOK, OutboxRow
  <2>3. e.by # p
    BY <1>1, <2>1 DEF Answered
  <2> QED BY <1>1, <2>1, <2>2, <2>3 DEF AnnouncedBy
<1>5. LocksOK'
  BY <1>1 DEF TransactionInv, LocksOK, Holds
<1> QED BY <1>3, <1>4, <1>5 DEF TransactionInv

(* The event a Publish writes.                                                *)
NewEvent(p) == [id    |-> nextId,
                topic |-> Encoders[step[p]],
                event |-> EventOf[cmd[p].use],
                about |-> cmd[p].target,
                by    |-> p]

LEMMA PublishFacts ==
    ASSUME IndInv, NEW p \in Requests, Publish(p)
    PROVE  /\ pc[p] = "publish" /\ step[p] \in 1..2 /\ cmd[p] \in Commands
           /\ pending'[p] = pending[p] \cup {NewEvent(p)}
           /\ \A q \in Requests \ {p} : /\ pending'[q] = pending[q] /\ pc'[q] = pc[q]
                                        /\ step'[q] = step[q]
           /\ \/ step[p] = 1 /\ step'[p] = 2 /\ pc'[p] = "publish"
              \/ step[p] = 2 /\ pc'[p] = "commit"
           /\ nextId' = nextId + 1 /\ nextId \in Nat
           /\ UNCHANGED <<store, outbox, cmd, view>>
           /\ NewEvent(p).by = p /\ NewEvent(p).about = cmd[p].target
           /\ NewEvent(p).event = EventOf[cmd[p].use] /\ NewEvent(p).id = nextId
           /\ NewEvent(p).topic = Encoders[step[p]] /\ Encoders[step[p]] \in Topics
<1>1. pc[p] = "publish" /\ step[p] \in 1..2 /\ Len(Encoders) = 2 /\ cmd[p] \in Commands
  BY DEF Publish, IndInv, TypeOK, StepOK, Encoders
<1>2. /\ pending' = [pending EXCEPT ![p] = pending[p] \cup {NewEvent(p)}]
      /\ nextId' = nextId + 1 /\ nextId \in Nat
      /\ UNCHANGED <<store, outbox, cmd, view>>
  BY DEF Publish, NewEvent, IndInv, TypeOK
<1>3. \/ step[p] < 2 /\ step' = [step EXCEPT ![p] = step[p] + 1] /\ pc' = pc
      \/ ~(step[p] < 2) /\ step' = step /\ pc' = [pc EXCEPT ![p] = "commit"]
  BY <1>1 DEF Publish
<1>4. /\ NewEvent(p).by = p /\ NewEvent(p).about = cmd[p].target
      /\ NewEvent(p).event = EventOf[cmd[p].use] /\ NewEvent(p).id = nextId
      /\ NewEvent(p).topic = Encoders[step[p]]
  BY DEF NewEvent
<1>5. Encoders[step[p]] \in Topics
  BY <1>1 DEF Encoders, Topics
<1>6. /\ pending'[p] = pending[p] \cup {NewEvent(p)}
      /\ \A q \in Requests \ {p} : pending'[q] = pending[q]
  BY <1>2 DEF IndInv, TypeOK
<1>7. /\ \A q \in Requests \ {p} : pc'[q] = pc[q] /\ step'[q] = step[q]
      /\ \/ step[p] = 1 /\ step'[p] = 2 /\ pc'[p] = "publish"
         \/ step[p] = 2 /\ pc'[p] = "commit"
  BY <1>1, <1>3 DEF IndInv, TypeOK
<1> QED BY <1>1, <1>2, <1>4, <1>5, <1>6, <1>7

LEMMA PublishTransaction ==
    ASSUME IndInv, TransactionInv, NEW p \in Requests, Publish(p)
    PROVE  TransactionInv'
<1>0. PICK new : new = NewEvent(p)
  OBVIOUS
<1>1. /\ pc[p] = "publish" /\ step[p] \in 1..2
      /\ pending'[p] = pending[p] \cup {new}
      /\ \A q \in Requests \ {p} : /\ pending'[q] = pending[q] /\ pc'[q] = pc[q]
                                   /\ step'[q] = step[q]
      /\ \/ step[p] = 1 /\ step'[p] = 2 /\ pc'[p] = "publish"
         \/ step[p] = 2 /\ pc'[p] = "commit"
      /\ nextId' = nextId + 1 /\ nextId \in Nat
      /\ UNCHANGED <<store, outbox, cmd, view>>
      /\ new.by = p /\ new.about = cmd[p].target
      /\ new.event = EventOf[cmd[p].use] /\ new.id = nextId
      /\ new.topic = Encoders[step[p]]
  BY <1>0, PublishFacts
<1>2. ASSUME NEW q \in Requests, NEW e \in OutboxRow, AnnouncedBy(q, e)
      PROVE  AnnouncedBy(q, e)'
  <2>1. e.id \in Nat
    BY DEF OutboxRow
  <2>2. e.id < nextId + 1
    BY <1>1, <1>2, <2>1 DEF AnnouncedBy
  <2> QED BY <1>1, <1>2, <2>2 DEF AnnouncedBy
<1>3. AnnouncedBy(p, new)'
  <2>1. new.id < nextId + 1
    BY <1>1
  <2> QED BY <1>1, <2>1 DEF AnnouncedBy
<1>4. \A q \in Requests : pending[q] \subseteq OutboxRow
  BY DEF IndInv, TypeOK
<1>5. ASSUME NEW q \in Requests
      PROVE  /\ \A e \in pending'[q] : pc'[q] \in InTransaction /\ AnnouncedBy(q, e)'
             /\ pc'[q] = "publish" =>
                   \A i \in 1..(step'[q] - 1) : \E e \in pending'[q] : e.topic = Encoders[i]
             /\ pc'[q] = "commit" =>
                   \A t \in Topics : \E e \in pending'[q] : e.topic = t
  <2>1. CASE q # p
    <3>1. /\ \A e \in pending[q] : pc[q] \in InTransaction /\ AnnouncedBy(q, e)
          /\ pc[q] = "publish" =>
                \A i \in 1..(step[q] - 1) : \E e \in pending[q] : e.topic = Encoders[i]
          /\ pc[q] = "commit" => \A t \in Topics : \E e \in pending[q] : e.topic = t
      BY DEF TransactionInv, PendingOK
    <3>2. pending'[q] = pending[q] /\ pc'[q] = pc[q] /\ step'[q] = step[q]
      BY <1>1, <2>1
    <3> QED BY <3>1, <3>2, <1>2, <1>4
  <2>2. CASE q = p
    <3>1. /\ \A e \in pending[p] : AnnouncedBy(p, e)
          /\ \A i \in 1..(step[p] - 1) : \E e \in pending[p] : e.topic = Encoders[i]
      BY <1>1 DEF TransactionInv, PendingOK
    <3>2. pc'[p] \in InTransaction
      BY <1>1 DEF InTransaction
    <3>3. \A e \in pending'[p] : pc'[p] \in InTransaction /\ AnnouncedBy(p, e)'
      BY <1>1, <1>2, <1>3, <1>4, <3>1, <3>2
    <3>4. \A i \in 1..step[p] : \E e \in pending'[p] : e.topic = Encoders[i]
      <4> SUFFICES ASSUME NEW i \in 1..step[p]
                   PROVE  \E e \in pending'[p] : e.topic = Encoders[i]
        OBVIOUS
      <4>1. CASE i = step[p]
        BY <1>1, <4>1
      <4>2. CASE i # step[p]
        <5>1. i \in 1..(step[p] - 1)
          BY <1>1, <4>2
        <5> QED BY <1>1, <3>1, <5>1
      <4> QED BY <4>1, <4>2
    <3>5. pc'[p] = "publish" => step'[p] - 1 = step[p]
      BY <1>1
    <3>6. pc'[p] = "commit" => \A t \in Topics : \E e \in pending'[p] : e.topic = t
      <4> SUFFICES ASSUME pc'[p] = "commit", NEW t \in Topics
                   PROVE  \E e \in pending'[p] : e.topic = t
        OBVIOUS
      <4>1. 1 \in 1..step[p] /\ 2 \in 1..step[p]
        BY <1>1
      <4>2. t = Encoders[1] \/ t = Encoders[2]
        BY DEF Topics, Encoders
      <4> QED BY <3>4, <4>1, <4>2
    <3> QED BY <2>2, <3>3, <3>4, <3>5, <3>6
  <2> QED BY <2>1, <2>2
<1>6. PendingOK'
  BY <1>5 DEF PendingOK
<1>7. OutboxOK'
  <2> SUFFICES ASSUME NEW e \in outbox PROVE pc'[e.by] \in Answered /\ AnnouncedBy(e.by, e)'
    BY <1>1 DEF OutboxOK
  <2>1. pc[e.by] \in Answered /\ AnnouncedBy(e.by, e)
    BY DEF TransactionInv, OutboxOK
  <2>2. e.by \in Requests /\ e \in OutboxRow
    BY DEF IndInv, TypeOK, OutboxRow
  <2>3. e.by # p
    BY <1>1, <2>1 DEF Answered
  <2>4. pc'[e.by] = pc[e.by]
    BY <1>1, <2>2, <2>3
  <2> QED BY <1>2, <2>1, <2>2, <2>4
<1>8. LocksOK'
  <2>1. pc[p] \in InTransaction
    BY <1>1 DEF InTransaction
  <2> QED BY <1>1, <2>1 DEF TransactionInv, LocksOK
<1> QED BY <1>6, <1>7, <1>8 DEF TransactionInv

LEMMA CommitTransaction ==
    ASSUME IndInv, TransactionInv, NEW p \in Requests, Commit(p)
    PROVE  TransactionInv'
<1>1. /\ pc[p] = "commit"
      /\ outbox' = outbox \cup pending[p]
      /\ pending'[p] = {} /\ \A q \in Requests \ {p} : pending'[q] = pending[q]
      /\ pc'[p] \in Answered /\ \A q \in Requests \ {p} : pc'[q] = pc[q]
      /\ UNCHANGED <<nextId, cmd, step, view>>
  BY CommitFacts
<1>2. \A q \in Requests : \A e : AnnouncedBy(q, e) => AnnouncedBy(q, e)'
  BY <1>1 DEF AnnouncedBy
<1>3. pc'[p] \notin InTransaction
  BY <1>1 DEF Answered, InTransaction
<1>4. PendingOK'
  BY <1>1, <1>2, <1>3 DEF TransactionInv, PendingOK, InTransaction
<1>5. OutboxOK'
  <2> SUFFICES ASSUME NEW e \in outbox'
               PROVE  pc'[e.by] \in Answered /\ AnnouncedBy(e.by, e)'
    BY DEF OutboxOK
  <2>1. CASE e \in outbox
    <3>1. pc[e.by] \in Answered /\ AnnouncedBy(e.by, e)
      BY <2>1 DEF TransactionInv, OutboxOK
    <3>2. e.by \in Requests
      BY <2>1 DEF IndInv, TypeOK, OutboxRow
    <3>3. e.by # p
      BY <1>1, <3>1 DEF Answered
    <3> QED BY <1>1, <3>1, <3>2, <3>3 DEF AnnouncedBy
  <2>2. CASE e \in pending[p]
    <3>1. AnnouncedBy(p, e) /\ e.by = p
      BY <2>2 DEF TransactionInv, PendingOK, AnnouncedBy
    <3> QED BY <1>1, <3>1 DEF AnnouncedBy
  <2> QED BY <1>1, <2>1, <2>2
<1>6. LocksOK'
  BY <1>1, <1>3 DEF TransactionInv, LocksOK
<1> QED BY <1>4, <1>5, <1>6 DEF TransactionInv

(* The other steps.                                                           *)
LEMMA OtherTransaction ==
    ASSUME IndInv, TransactionInv, NEW p \in Requests,
           Arrive(p) \/ LookupPasses(p) \/ LookupRefuses(p) \/ Fail(p)
    PROVE  TransactionInv'
<1>1. CASE Arrive(p)
  <2>1. /\ pc[p] = "idle" /\ pc'[p] = "lookup" /\ UNCHANGED <<outbox, nextId, step, pending>>
        /\ \A q \in Requests \ {p} : cmd'[q] = cmd[q] /\ pc'[q] = pc[q]
    BY <1>1 DEF Arrive, IndInv, TypeOK
  <2>2. pending[p] = {}
    BY <2>1 DEF TransactionInv, PendingOK, InTransaction
  <2> QED BY <2>1, <2>2, SilentTransaction DEF Answered, InTransaction
<1>2. CASE LookupPasses(p)
  <2>1. /\ pc[p] = "lookup" /\ pc'[p] \in {"lookup", "save"}
        /\ UNCHANGED <<outbox, nextId, cmd, pending>>
        /\ \A q \in Requests \ {p} : step'[q] = step[q] /\ pc'[q] = pc[q]
    BY <1>2 DEF LookupPasses, IndInv, TypeOK
  <2>2. pending[p] = {}
    BY <2>1 DEF TransactionInv, PendingOK, InTransaction
  <2> QED BY <2>1, <2>2, SilentTransaction DEF Answered, InTransaction
<1>3. CASE LookupRefuses(p)
  <2>1. /\ pc[p] = "lookup" /\ pc'[p] = "rejected"
        /\ UNCHANGED <<outbox, nextId, cmd, step, pending>>
        /\ \A q \in Requests \ {p} : pc'[q] = pc[q]
    BY <1>3 DEF LookupRefuses, IndInv, TypeOK
  <2>2. pending[p] = {}
    BY <2>1 DEF TransactionInv, PendingOK, InTransaction
  <2> QED BY <2>1, <2>2, SilentTransaction DEF Answered, InTransaction
<1>4. CASE Fail(p)
  <2>1. /\ pc[p] \in InFlight /\ pc'[p] = "failed" /\ pending'[p] = {}
        /\ UNCHANGED <<outbox, nextId, cmd, step>>
        /\ \A q \in Requests \ {p} : pc'[q] = pc[q] /\ pending'[q] = pending[q]
    BY <1>4 DEF Fail, IndInv, TypeOK
  <2>2. pc[p] \notin Answered
    BY <2>1 DEF InFlight, InTransaction, Answered
  <2> QED BY <2>1, <2>2, SilentTransaction DEF InTransaction
<1> QED BY <1>1, <1>2, <1>3, <1>4
-----------------------------------------------------------------------------
(* The catalogue and what is announced of it.                                 *)

(* An aggregate is announced on the topic before the id, or was loaded.       *)
AnnouncedBefore(b, t, id) ==
    \/ Present(Loaded[b])
    \/ \E f \in outbox : f.topic = t /\ Announces(f, b) /\ f.id < id

(* What an open registration hangs from is announced before it.               *)
PendingParents ==
    \A p \in Requests : \A e \in pending[p] :
        cmd[p].use \in Registrations =>
            \A b \in NeededBy(cmd[p]) : AnnouncedBefore(b, e.topic, e.id)

(* What an open transaction announces comes after all that is announced of    *)
(* the row it holds.                                                          *)
PendingIsLast ==
    \A p \in Requests : \A e \in pending[p], f \in outbox :
        f.about = cmd[p].target => f.id < e.id

JournalInv ==
    /\ StoreAndTopicsAgree
    /\ RegisteredUnderActive
    /\ PendingParents
    /\ ParentAnnouncedFirst
    /\ PendingIsLast
    /\ LastEventIsOfLastWriter

(* What an event says is what its request's command says.                     *)
LEMMA EventsOf ==
    ASSUME NEW p \in Requests, cmd[p] \in Commands, NEW e, AnnouncedBy(p, e)
    PROVE  /\ \A a : Announces(e, a) <=> a = cmd[p].target /\ cmd[p].use \in Registrations
           /\ Needed(e) = NeededBy(cmd[p])
           /\ e.about = cmd[p].target /\ e.by = p
<1>1. /\ e.by = p /\ e.about = cmd[p].target /\ e.event = EventOf[cmd[p].use]
      /\ cmd[p].use \in UseCases
  BY CommandFacts DEF AnnouncedBy
<1>2. e.event \in RegistrationEvents <=> cmd[p].use \in Registrations
  BY <1>1, EventFacts
<1>3. \A a : Announces(e, a) <=> a = cmd[p].target /\ cmd[p].use \in Registrations
  BY <1>1, <1>2 DEF Announces
<1>4. Needed(e) = NeededBy(cmd[p])
  BY <1>1 DEF Needed, NeededBy
<1> QED BY <1>1, <1>3, <1>4

(* The rows of the outbox and of open transactions.                           *)
LEMMA OutboxFacts ==
    ASSUME IndInv, TransactionInv
    PROVE  /\ \A e \in outbox : /\ e \in OutboxRow /\ e.by \in Requests /\ e.id \in Nat
                                /\ e.about \in Aggregates /\ e.topic \in Topics
                                /\ pc[e.by] \in Answered /\ cmd[e.by] \in Commands
                                /\ AnnouncedBy(e.by, e)
           /\ \A p \in Requests : \A e \in pending[p] :
                 /\ e \in OutboxRow /\ e.id \in Nat /\ e.about \in Aggregates /\ e.topic \in Topics
                 /\ pc[p] \in InTransaction /\ cmd[p] \in Commands /\ AnnouncedBy(p, e)
           /\ nextId \in Nat
<1>1. /\ outbox \subseteq OutboxRow /\ \A p \in Requests : pending[p] \subseteq OutboxRow
      /\ \A p \in Requests : pc[p] # "idle" => cmd[p] \in Commands
      /\ nextId \in Nat
  BY DEF IndInv, TypeOK
<1>2. \A e \in OutboxRow : /\ e.by \in Requests /\ e.id \in Nat
                           /\ e.about \in Aggregates /\ e.topic \in Topics
  BY DEF OutboxRow
<1>3. "idle" \notin InTransaction /\ "idle" \notin Answered
  BY DEF InTransaction, Answered
<1>4. \A e \in outbox : pc[e.by] \in Answered /\ AnnouncedBy(e.by, e)
  BY DEF TransactionInv, OutboxOK
<1>5. \A p \in Requests : \A e \in pending[p] : pc[p] \in InTransaction /\ AnnouncedBy(p, e)
  BY DEF TransactionInv, PendingOK
<1>6. ASSUME NEW e \in outbox
      PROVE  /\ e \in OutboxRow /\ e.by \in Requests /\ e.id \in Nat
             /\ e.about \in Aggregates /\ e.topic \in Topics
             /\ pc[e.by] \in Answered /\ cmd[e.by] \in Commands /\ AnnouncedBy(e.by, e)
  <2>1. e \in OutboxRow /\ e.by \in Requests
    BY <1>1, <1>2
  <2>2. pc[e.by] \in Answered /\ pc[e.by] # "idle" /\ AnnouncedBy(e.by, e)
    BY <1>3, <1>4
  <2>3. cmd[e.by] \in Commands
    BY <1>1, <2>1, <2>2
  <2> QED BY <1>2, <2>1, <2>2, <2>3
<1>7. ASSUME NEW p \in Requests, NEW e \in pending[p]
      PROVE  /\ e \in OutboxRow /\ e.id \in Nat /\ e.about \in Aggregates /\ e.topic \in Topics
             /\ pc[p] \in InTransaction /\ cmd[p] \in Commands /\ AnnouncedBy(p, e)
  <2>1. e \in OutboxRow
    BY <1>1
  <2>2. pc[p] \in InTransaction /\ pc[p] # "idle" /\ AnnouncedBy(p, e)
    BY <1>3, <1>5
  <2>3. cmd[p] \in Commands
    BY <1>1, <2>2
  <2> QED BY <1>2, <2>1, <2>2, <2>3
<1> QED BY <1>1, <1>6, <1>7

LEMMA InitJournal == Init => JournalInv
<1> SUFFICES ASSUME Init PROVE JournalInv
  OBVIOUS
<1>1. outbox = {} /\ store = Loaded /\ \A p \in Requests : pending[p] = {}
  BY DEF Init
<1> QED BY <1>1 DEF JournalInv, StoreAndTopicsAgree, RegisteredUnderActive, PendingParents,
                    ParentAnnouncedFirst, PendingIsLast, LastEventIsOfLastWriter

(* Steps that change neither the catalogue nor the outbox and write no event. *)
LEMMA QuietJournal ==
    ASSUME IndInv, TransactionInv, JournalInv,
           UNCHANGED <<store, outbox>>,
           \A q \in Requests : pending'[q] \subseteq pending[q],
           \A q \in Requests : pc[q] # "idle" => cmd'[q] = cmd[q]
    PROVE  JournalInv'
<1>1. "idle" \notin InTransaction /\ "idle" \notin Answered
  BY DEF InTransaction, Answered
<1>2. ASSUME NEW e \in outbox PROVE Needed(e)' = Needed(e)
  <2>1. cmd'[e.by] = cmd[e.by]
    BY <1>1, OutboxFacts
  <2> QED BY <2>1 DEF Needed
<1>3. ASSUME NEW q \in Requests, NEW e \in pending'[q]
      PROVE  e \in pending[q] /\ cmd'[q] = cmd[q]
  BY <1>1, <1>3, OutboxFacts
<1>4. \A b, t, id : AnnouncedBefore(b, t, id) => AnnouncedBefore(b, t, id)'
  BY DEF AnnouncedBefore, Announces
<1>5. StoreAndTopicsAgree' /\ RegisteredUnderActive' /\ LastEventIsOfLastWriter'
  BY DEF JournalInv, StoreAndTopicsAgree, RegisteredUnderActive, LastEventIsOfLastWriter, Announces
<1>6. PendingParents'
  BY <1>3, <1>4 DEF JournalInv, PendingParents
<1>7. ParentAnnouncedFirst'
  BY <1>2 DEF JournalInv, ParentAnnouncedFirst, Announces
<1>8. PendingIsLast'
  BY <1>3 DEF JournalInv, PendingIsLast
<1> QED BY <1>5, <1>6, <1>7, <1>8 DEF JournalInv

(* An event is written: what it hangs from was read, so it was committed, so  *)
(* it was announced, under an id that was taken before.                       *)
LEMMA PublishJournal ==
    ASSUME IndInv, TransactionInv, JournalInv, NEW p \in Requests, Publish(p)
    PROVE  JournalInv'
<1>0. PICK new : new = NewEvent(p)
  OBVIOUS
<1>1. /\ pc[p] = "publish" /\ cmd[p] \in Commands
      /\ pending'[p] = pending[p] \cup {new}
      /\ \A q \in Requests \ {p} : pending'[q] = pending[q]
      /\ UNCHANGED <<store, outbox, cmd, view>>
      /\ new.id = nextId /\ new.topic \in Topics
  BY <1>0, PublishFacts
<1>2. \A b, t, id : AnnouncedBefore(b, t, id) => AnnouncedBefore(b, t, id)'
  BY <1>1 DEF AnnouncedBefore, Announces
<1>3. ASSUME cmd[p].use \in Registrations, NEW b \in NeededBy(cmd[p])
      PROVE  AnnouncedBefore(b, new.topic, new.id)
  <2>1. Demanded(cmd[p], b)
    BY <1>1, <1>3, LookupFacts DEF LookedUp
  <2>2. b \in Aggregates /\ Present(store[b])
    BY <1>1, <2>1, DemandedIsPresent
  <2>3. Present(Loaded[b]) \/ \E f \in outbox : f.topic = new.topic /\ Announces(f, b)
    BY <1>1, <2>2 DEF JournalInv, StoreAndTopicsAgree
  <2>4. \A f \in outbox : f.id < nextId
    BY OutboxFacts DEF AnnouncedBy
  <2> QED BY <1>1, <2>3, <2>4 DEF AnnouncedBefore
<1>4. PendingParents'
  <2> SUFFICES ASSUME NEW q \in Requests, NEW e \in pending'[q], cmd[q].use \in Registrations,
                      NEW b \in NeededBy(cmd[q])
               PROVE  AnnouncedBefore(b, e.topic, e.id)'
    BY <1>1 DEF PendingParents
  <2>1. CASE e \in pending[q]
    BY <1>2, <2>1 DEF JournalInv, PendingParents
  <2>2. CASE q = p /\ e = new
    BY <1>2, <1>3, <2>2
  <2> QED BY <1>1, <2>1, <2>2
<1>5. PendingIsLast'
  <2> SUFFICES ASSUME NEW q \in Requests, NEW e \in pending'[q], NEW f \in outbox,
                      f.about = cmd[q].target
               PROVE  f.id < e.id
    BY <1>1 DEF PendingIsLast
  <2>1. CASE e \in pending[q]
    BY <2>1 DEF JournalInv, PendingIsLast
  <2>2. CASE q = p /\ e = new
    <3>1. f.id < nextId
      BY OutboxFacts DEF AnnouncedBy
    <3> QED BY <1>1, <2>2, <3>1
  <2> QED BY <1>1, <2>1, <2>2
<1>6. \A e : Needed(e)' = Needed(e)
  BY <1>1 DEF Needed
<1>7. StoreAndTopicsAgree' /\ RegisteredUnderActive' /\ LastEventIsOfLastWriter'
  BY <1>1 DEF JournalInv, StoreAndTopicsAgree, RegisteredUnderActive, LastEventIsOfLastWriter, Announces
<1>8. ParentAnnouncedFirst'
  BY <1>1, <1>6 DEF JournalInv, ParentAnnouncedFirst, Announces
<1> QED BY <1>4, <1>5, <1>7, <1>8 DEF JournalInv

(* A commit: the row and its events appear together.                          *)
LEMMA CommitJournal ==
    ASSUME IndInv, StatusInv, TransactionInv, JournalInv, NEW p \in Requests, Commit(p)
    PROVE  JournalInv'
<1> DEFINE a == cmd[p].target
           row == SavedRow(p)
<1>1. /\ pc[p] = "commit" /\ cmd[p] \in Commands /\ a \in Aggregates
      /\ store'[a] = row /\ Present(row) /\ row.by = p
      /\ \A b \in Aggregates \ {a} : store'[b] = store[b]
      /\ \A b \in Aggregates : Present(store[b]) => Present(store'[b])
      /\ outbox' = outbox \cup pending[p]
      /\ pending'[p] = {} /\ \A q \in Requests \ {p} : pending'[q] = pending[q]
      /\ UNCHANGED <<nextId, cmd, step, view>>
  BY CommitFacts
<1>2. /\ \A e \in pending[p] : /\ e.id \in Nat /\ e.about = a /\ e.by = p
                               /\ \A b : Announces(e, b) <=> b = a /\ cmd[p].use \in Registrations
                               /\ Needed(e) = NeededBy(cmd[p])
      /\ \A t \in Topics : \E e \in pending[p] : e.topic = t
      /\ \A e \in pending[p], f \in outbox : f.about = a => f.id < e.id
  <2>1. \A t \in Topics : \E e \in pending[p] : e.topic = t
    BY <1>1 DEF TransactionInv, PendingOK
  <2>2. \A e \in pending[p], f \in outbox : f.about = a => f.id < e.id
    BY DEF JournalInv, PendingIsLast
  <2>3. ASSUME NEW e \in pending[p]
        PROVE  /\ e.id \in Nat /\ e.about = a /\ e.by = p
               /\ \A b : Announces(e, b) <=> b = a /\ cmd[p].use \in Registrations
               /\ Needed(e) = NeededBy(cmd[p])
    <3>1. e.id \in Nat /\ AnnouncedBy(p, e)
      BY OutboxFacts
    <3> QED BY <1>1, <3>1, EventsOf
  <2> QED BY <2>1, <2>2, <2>3
<1>3. /\ cmd[p].use \in Registrations \/ Present(store[a])
      /\ cmd[p].use \in Registrations =>
            \A b \in ActiveCustody(a) : b \in Aggregates /\ store[b].status = "Active"
  <2>1. cmd[p].use \in Registrations \/ cmd[p].use \in Updates
    BY <1>1, CommandFacts DEF Registrations
  <2>2. cmd[p].use \in Updates => Demanded(cmd[p], a)
    BY <1>1, LookupFacts DEF LookedUp
  <2>3. cmd[p].use \in Updates => Present(store[a])
    BY <1>1, <2>2, DemandedIsPresent
  <2>4. cmd[p].use \in Registrations =>
            \A b \in ActiveCustody(a) : b \in Aggregates /\ store[b].status = "Active"
    BY <1>1, CommittedStatus
  <2> QED BY <2>1, <2>3, <2>4
<1>4. StatusInv'
  BY CommitStatus
<1> HIDE DEF a, row
<1>5. StoreAndTopicsAgree'
  <2> SUFFICES ASSUME NEW b \in Aggregates, NEW t \in Topics
               PROVE  Present(store'[b]) <=>
                         \/ Present(Loaded[b])
                         \/ \E e \in outbox' : e.topic = t /\ Announces(e, b)
    BY DEF StoreAndTopicsAgree, Announces
  <2>1. Present(store[b]) <=>
            \/ Present(Loaded[b])
            \/ \E e \in outbox : e.topic = t /\ Announces(e, b)
    BY DEF JournalInv, StoreAndTopicsAgree
  <2>2. PICK new \in pending[p] : new.topic = t
    BY <1>2
  <2>3. CASE b = a
    BY <1>1, <1>2, <1>3, <2>1, <2>2, <2>3
  <2>4. CASE b # a
    BY <1>1, <1>2, <2>1, <2>4
  <2> QED BY <2>3, <2>4
<1>6. RegisteredUnderActive'
  <2>1. ASSUME NEW b \in Aggregates, Lasting(b), store[b].status = "Active"
        PROVE  store'[b].status = "Active"
    <3>1. Present(store[b]) /\ StatusFor(b) = "Active"
      BY <2>1 DEF Present, Absent, StatusInv, StatusesLast
    <3>2. Present(store'[b])
      BY <1>1, <2>1, <3>1
    <3> QED BY <1>4, <2>1, <3>1, <3>2 DEF StatusInv, StatusesLast
  <2> SUFFICES ASSUME NEW e \in outbox', Announces(e, e.about),
                      NEW b \in ActiveCustody(e.about)
               PROVE  store'[b].status = "Active"
    BY DEF RegisteredUnderActive, Announces
  <2>2. e.about \in Aggregates
    BY <1>1, <1>2, OutboxFacts
  <2>3. b \in Aggregates /\ Lasting(b)
    BY <2>2, ActiveCustodyFacts DEF Lasting
  <2>4. CASE e \in outbox
    <3>1. store[b].status = "Active"
      BY <2>4 DEF JournalInv, RegisteredUnderActive
    <3> QED BY <2>1, <2>3, <3>1
  <2>5. CASE e \in pending[p]
    <3>1. store[b].status = "Active"
      BY <1>2, <1>3, <2>5
    <3> QED BY <2>1, <2>3, <3>1
  <2> QED BY <1>1, <2>4, <2>5
<1>7. \A b, t, id : AnnouncedBefore(b, t, id) => AnnouncedBefore(b, t, id)'
  BY <1>1 DEF AnnouncedBefore, Announces
<1>8. PendingParents'
  <2> SUFFICES ASSUME NEW q \in Requests, NEW e \in pending'[q], cmd[q].use \in Registrations,
                      NEW b \in NeededBy(cmd[q])
               PROVE  AnnouncedBefore(b, e.topic, e.id)'
    BY <1>1 DEF PendingParents
  <2>1. e \in pending[q]
    BY <1>1
  <2> QED BY <1>7, <2>1 DEF JournalInv, PendingParents
<1>9. ParentAnnouncedFirst'
  <2> SUFFICES ASSUME NEW e \in outbox', Announces(e, e.about), NEW b \in Needed(e)
               PROVE  AnnouncedBefore(b, e.topic, e.id)'
    BY <1>1 DEF ParentAnnouncedFirst, AnnouncedBefore, Announces, Needed
  <2>1. CASE e \in outbox
    <3>1. AnnouncedBefore(b, e.topic, e.id)
      BY <2>1 DEF JournalInv, ParentAnnouncedFirst, AnnouncedBefore
    <3> QED BY <1>7, <3>1
  <2>2. CASE e \in pending[p]
    <3>1. b \in NeededBy(cmd[p]) /\ cmd[p].use \in Registrations
      BY <1>2, <2>2
    <3>2. AnnouncedBefore(b, e.topic, e.id)
      BY <2>2, <3>1 DEF JournalInv, PendingParents
    <3> QED BY <1>7, <3>2
  <2> QED BY <1>1, <2>1, <2>2
<1>10. PendingIsLast'
  <2> SUFFICES ASSUME NEW q \in Requests \ {p}, NEW e \in pending[q], NEW f \in outbox',
                      f.about = cmd[q].target
               PROVE  f.id < e.id
    BY <1>1 DEF PendingIsLast
  <2>1. CASE f \in outbox
    BY <2>1 DEF JournalInv, PendingIsLast
  <2>2. CASE f \in pending[p]
    <3>1. pc[p] \in InTransaction /\ pc[q] \in InTransaction
      BY <1>1, OutboxFacts DEF InTransaction
    <3>2. cmd[p].target # cmd[q].target
      BY <3>1 DEF TransactionInv, LocksOK
    <3> QED BY <1>2, <2>2, <3>2 DEF a
  <2> QED BY <1>1, <2>1, <2>2
<1>11. LastEventIsOfLastWriter'
  <2> SUFFICES ASSUME NEW e \in outbox',
                      \A f \in outbox' : f.about = e.about /\ f.topic = e.topic => f.id <= e.id
               PROVE  store'[e.about].by = e.by
    BY DEF LastEventIsOfLastWriter
  <2>1. CASE e \in pending[p]
    BY <1>1, <1>2, <2>1
  <2>2. CASE e \in outbox /\ e.about # a
    <3>1. e.about \in Aggregates /\ store'[e.about] = store[e.about]
      BY <1>1, <2>2, OutboxFacts
    <3>2. store[e.about].by = e.by
      BY <1>1, <2>2 DEF JournalInv, LastEventIsOfLastWriter
    <3> QED BY <3>1, <3>2
  <2>3. CASE e \in outbox /\ e.about = a
    <3>1. e.id \in Nat /\ e.topic \in Topics
      BY <2>3, OutboxFacts
    <3>2. PICK new \in pending[p] : new.topic = e.topic
      BY <1>2, <3>1
    <3>3. new.id \in Nat /\ e.id < new.id /\ new.id <= e.id
      BY <1>1, <1>2, <2>3, <3>2
    <3> QED BY <3>1, <3>3
  <2> QED BY <1>1, <2>1, <2>2, <2>3
<1> QED BY <1>5, <1>6, <1>8, <1>9, <1>10, <1>11 DEF JournalInv

(* The other steps.                                                           *)
LEMMA OtherJournal ==
    ASSUME IndInv, TransactionInv, JournalInv, NEW p \in Requests,
           Arrive(p) \/ LookupPasses(p) \/ LookupRefuses(p) \/ Save(p) \/ Fail(p)
    PROVE  JournalInv'
<1>1. CASE Arrive(p)
  BY <1>1, QuietJournal DEF Arrive, IndInv, TypeOK
<1>2. CASE LookupPasses(p)
  BY <1>2, QuietJournal DEF LookupPasses
<1>3. CASE LookupRefuses(p)
  BY <1>3, QuietJournal DEF LookupRefuses
<1>4. CASE Save(p)
  BY <1>4, QuietJournal DEF Save
<1>5. CASE Fail(p)
  <2>1. \A q \in Requests : pending'[q] \subseteq pending[q]
    BY <1>5 DEF Fail, IndInv, TypeOK
  <2>2. UNCHANGED <<store, outbox, cmd>>
    BY <1>5 DEF Fail
  <2> QED BY <2>1, <2>2, QuietJournal
<1> QED BY <1>1, <1>2, <1>3, <1>4, <1>5

(* The whole of it.                                                           *)
CatalogInv == IndInv /\ StatusInv /\ TransactionInv /\ JournalInv

LEMMA CatalogStutter ==
    ASSUME CatalogInv, UNCHANGED vars
    PROVE  CatalogInv'
<1> USE DEF CatalogInv, vars
<1>1. IndInv'
  BY StutterInv
<1>2. StatusInv'
  BY QuietStatus DEF Passed
<1>3. TransactionInv'
  BY DEF TransactionInv, PendingOK, OutboxOK, LocksOK, AnnouncedBy
<1>4. JournalInv'
  BY QuietJournal
<1> QED BY <1>1, <1>2, <1>3, <1>4

LEMMA CatalogNext == CatalogInv /\ [Next]_vars => CatalogInv'
<1> SUFFICES ASSUME CatalogInv, [Next]_vars PROVE CatalogInv'
  OBVIOUS
<1>1. IndInv'
  BY NextInv DEF CatalogInv
<1>2. ASSUME NEW p \in Requests, Arrive(p) \/ Advance(p) \/ Fail(p) PROVE CatalogInv'
  <2>1. /\ StatusInv'
        /\ TransactionInv'
        /\ JournalInv'
    <3>1. CASE LookupPasses(p)
      BY <3>1, LookupPassesStatus, OtherTransaction, OtherJournal DEF CatalogInv
    <3>2. CASE Publish(p)
      BY <3>2, OtherStatus, PublishTransaction, PublishJournal DEF CatalogInv
    <3>3. CASE Commit(p)
      BY <3>3, CommitStatus, CommitTransaction, CommitJournal DEF CatalogInv
    <3>4. CASE Save(p)
      BY <3>4, OtherStatus, SaveTransaction, OtherJournal DEF CatalogInv
    <3>5. CASE Arrive(p) \/ LookupRefuses(p) \/ Fail(p)
      BY <3>5, OtherStatus, OtherTransaction, OtherJournal DEF CatalogInv
    <3> QED BY <1>2, <3>1, <3>2, <3>3, <3>4, <3>5 DEF Advance
  <2> QED BY <1>1, <2>1 DEF CatalogInv
<1>3. CASE AllAnswered \/ UNCHANGED vars
  BY <1>3, CatalogStutter DEF AllAnswered
<1> QED BY <1>2, <1>3 DEF Next

LEMMA CatalogInvariant == Spec => []CatalogInv
<1>1. Init => CatalogInv
  BY InitInv, InitStatus, InitTransaction, InitJournal DEF CatalogInv
<1>2. CatalogInv /\ [Next]_vars => CatalogInv'
  BY CatalogNext
<1> QED BY <1>1, <1>2, PTL DEF Spec

(* The store and each of the two topics never diverge, whatever fails and     *)
(* whoever commits in between.                                                *)
THEOREM TopicsAgree == Spec => []StoreAndTopicsAgree
<1>1. CatalogInv => StoreAndTopicsAgree
  BY DEF CatalogInv, JournalInv
<1> QED BY <1>1, CatalogInvariant, PTL

(* In the order of the ids of a topic every parent comes before its children. *)
THEOREM ParentsFirst == Spec => []ParentAnnouncedFirst
<1>1. CatalogInv => ParentAnnouncedFirst
  BY DEF CatalogInv, JournalInv
<1> QED BY <1>1, CatalogInvariant, PTL

(* Of the requests that race for one row, the one whose row survives is the   *)
(* one that is announced last.                                                *)
THEOREM LastWriterIsHeardLast == Spec => []LastEventIsOfLastWriter
<1>1. CatalogInv => LastEventIsOfLastWriter
  BY DEF CatalogInv, JournalInv
<1> QED BY <1>1, CatalogInvariant, PTL

(* What was registered under Active links still hangs from Active links.      *)
THEOREM LinksStayActive == Spec => []RegisteredUnderActive
<1>1. CatalogInv => RegisteredUnderActive
  BY DEF CatalogInv, JournalInv
<1> QED BY <1>1, CatalogInvariant, PTL
-----------------------------------------------------------------------------
(* The catalogue implements the ledger.                                       *)
EntryOf(e) == [event |-> e.event, about |-> e.about, by |-> e.by]

(* The ledger's journal of a topic, and the operators it shares with the      *)
(* catalogue.                                                                 *)
Journal == [t \in Topics |-> {EntryOf(e) : e \in {x \in outbox : x.topic = t}}]

LEMMA LedgerOperators ==
    /\ Ledger!Topics = Topics
    /\ Ledger!Row = Row
    /\ Ledger!Events = Events
    /\ Ledger!RegistrationEvents = RegistrationEvents
    /\ \A row : Ledger!Present(row) <=> Present(row)
    /\ \A a, row : Ledger!Parents(a, row) = Parents(a, row)
    /\ \A a, before, row : Ledger!Keeps(a, before, row) <=> Keeps(a, before, row)
    /\ \A a : Ledger!ActiveCustody(a) = ActiveCustody(a)
<1>1. Ledger!Topics = Topics
  BY DEF Ledger!Topics, Topics
<1>2. Ledger!Row = Row
  BY DEF Ledger!Row, Row, Ledger!Status, Status, Ledger!Absent, Absent,
         Ledger!Attributes, Attributes, Ledger!ZoneAttributes, ZoneAttributes,
         Ledger!Directions, Directions, Ledger!PlacementRule, PlacementRule,
         Ledger!Effects, Effects, Ledger!ZonePredicate, ZonePredicate,
         Ledger!PredicateFields, PredicateFields, Ledger!Sites, Sites,
         Ledger!OfKind, OfKind
<1>3. Ledger!EventOf = EventOf
  BY DEF Ledger!EventOf, EventOf
<1>4. Ledger!Updates = Updates
  BY DEF Ledger!Updates, Updates
<1>5. Ledger!UseCases = UseCases
  BY <1>3 DEF Ledger!UseCases, UseCases
<1>6. Ledger!Registrations = Registrations
  BY <1>4, <1>5 DEF Ledger!Registrations, Registrations
<1>7. Ledger!Events = Events /\ Ledger!RegistrationEvents = RegistrationEvents
  BY <1>3, <1>5, <1>6 DEF Ledger!Events, Events, Ledger!RegistrationEvents, RegistrationEvents
<1>8. \A row : Ledger!Present(row) <=> Present(row)
  BY DEF Ledger!Present, Present, Ledger!Absent, Absent
<1>9. \A a : Ledger!Custody(a) = Custody(a)
  BY Zenon DEF Ledger!Custody, Custody, Ledger!ZoneOfSlot, ZoneOfSlot, Ledger!SiteOfSlot, SiteOfSlot
<1>a. \A a, attr : Ledger!Named(a, attr) = Named(a, attr)
  BY Zenon DEF Ledger!Named, Named
<1>10. \A a, row : Ledger!Parents(a, row) = Parents(a, row)
  BY <1>9, <1>a, Zenon DEF Ledger!Parents, Parents
<1>b. \A a, before, row : Ledger!Keeps(a, before, row) <=> Keeps(a, before, row)
  BY <1>8 DEF Ledger!Keeps, Keeps
<1>11. \A a : Ledger!ActiveCustody(a) = ActiveCustody(a)
  BY <1>9, Zenon DEF Ledger!ActiveCustody, ActiveCustody
<1> QED BY <1>1, <1>2, <1>7, <1>8, <1>10, <1>11, <1>b

(* It opens with the rows that were loaded.                                   *)
LEMMA LedgerInit == Init => Ledger!Init
<1> SUFFICES ASSUME Init PROVE Ledger!Init
  OBVIOUS
<1>1. store = Loaded /\ outbox = {}
  BY DEF Init
<1>2. \A t \in Topics : {EntryOf(e) : e \in {x \in outbox : x.topic = t}} = {}
  BY <1>1
<1> QED BY <1>1, <1>2, LedgerOperators DEF Ledger!Init, EntryOf


(* The update use cases demand that their row be there.                       *)
LEMMA UpdatesWhatIsThere ==
    ASSUME IndInv, NEW p \in Requests, pc[p] = "commit", cmd[p].use \in Updates
    PROVE  Present(store[cmd[p].target])
<1>1. LookedUp(cmd[p])
  BY LookupFacts DEF IndInv, TypeOK
<1>2. Demanded(cmd[p], cmd[p].target)
  BY <1>1 DEF LookedUp
<1> QED BY <1>2, DemandedIsPresent

(* A commit enters one entry into the journal of each topic: the events of    *)
(* its transaction all are that one.                                          *)
LEMMA CommitEnters ==
    ASSUME CatalogInv, NEW p \in Requests, Commit(p), NEW entry,
           entry = [event |-> EventOf[cmd[p].use], about |-> cmd[p].target, by |-> p]
    PROVE  /\ \A e \in pending[p] : EntryOf(e) = entry
           /\ Journal' = [t \in Topics |-> Journal[t] \cup {entry}]
<1>1. pc[p] = "commit" /\ outbox' = outbox \cup pending[p]
  BY CommitFacts DEF CatalogInv
<1>2. /\ \A e \in pending[p] : AnnouncedBy(p, e)
      /\ \A t \in Topics : \E e \in pending[p] : e.topic = t
  BY <1>1 DEF CatalogInv, TransactionInv, PendingOK
<1>3. \A e \in pending[p] : EntryOf(e) = entry
  BY <1>2 DEF AnnouncedBy, EntryOf
<1>4. ASSUME NEW t \in Topics
      PROVE  {EntryOf(e) : e \in {x \in outbox' : x.topic = t}}
                 = {EntryOf(e) : e \in {x \in outbox : x.topic = t}} \cup {entry}
  <2> DEFINE before == {EntryOf(e) : e \in {x \in outbox : x.topic = t}}
             after  == {EntryOf(e) : e \in {x \in outbox' : x.topic = t}}
  <2>1. ASSUME NEW j \in after PROVE j \in before \cup {entry}
    BY <1>1, <1>3, Zenon
  <2>2. before \subseteq after
    BY <1>1, Zenon
  <2>3. entry \in after
    <3>1. PICK e \in pending[p] : e.topic = t
      BY <1>2
    <3>2. e \in {x \in outbox' : x.topic = t} /\ EntryOf(e) = entry
      BY <1>1, <1>3, <3>1
    <3> QED BY <3>2, Zenon
  <2> HIDE DEF before, after
  <2>4. after = before \cup {entry}
    BY <2>1, <2>2, <2>3
  <2> QED BY <2>4 DEF before, after
<1> HIDE DEF EntryOf
<1>5. Journal' = [t \in Topics |-> {EntryOf(e) : e \in {x \in outbox' : x.topic = t}}]
  BY DEF Journal
<1>6. \A t \in Topics : Journal[t] = {EntryOf(e) : e \in {x \in outbox : x.topic = t}}
  BY DEF Journal
<1>7. Journal' = [t \in Topics |-> Journal[t] \cup {entry}]
  BY <1>4, <1>5, <1>6, Zenon
<1> QED BY <1>3, <1>7

(* A request whose commit is yet to come has entered nothing.                 *)
LEMMA NotEntered ==
    ASSUME CatalogInv, NEW p \in Requests, pc[p] = "commit"
    PROVE  \A t \in Topics : \A j \in Journal[t] : j.by # p
<1>1. \A e \in outbox : e.by # p
  BY DEF CatalogInv, TransactionInv, OutboxOK, Answered
<1>2. \A e : EntryOf(e).by = e.by
  BY DEF EntryOf
<1>3. \A t \in Topics : Journal[t] = {EntryOf(e) : e \in {x \in outbox : x.topic = t}}
  BY DEF Journal
<1> HIDE DEF EntryOf
<1>4. ASSUME NEW t \in Topics, NEW j \in Journal[t] PROVE j.by # p
  <2>1. j \in {EntryOf(e) : e \in {x \in outbox : x.topic = t}}
    BY <1>3, <1>4, Zenon
  <2>2. PICK e \in {x \in outbox : x.topic = t} : j = EntryOf(e)
    BY <2>1, Zenon
  <2> QED BY <1>1, <1>2, <2>2, Zenon
<1> QED BY <1>4

(* A commit is an entry of the ledger.                                        *)
LEMMA CommitIsEntry ==
    ASSUME CatalogInv, NEW p \in Requests, Commit(p)
    PROVE  Ledger!Next
<1>a. PICK a : a = cmd[p].target
  OBVIOUS
<1>e. PICK event : event = EventOf[cmd[p].use]
  OBVIOUS
<1>1. /\ pc[p] = "commit" /\ cmd[p] \in Commands /\ a \in Aggregates
      /\ store'[a] = SavedRow(p) /\ Present(SavedRow(p)) /\ SavedRow(p).by = p
      /\ Keeps(a, store[a], store'[a])
      /\ \A b \in Aggregates \ {a} : store'[b] = store[b]
  BY <1>a, CommitFacts DEF CatalogInv
<1>2. \A b \in Parents(a, store'[a]) : b \in Aggregates /\ Present(store[b])
  BY <1>a, <1>1, CommittedHangs DEF CatalogInv
<1>3. cmd[p].use \in UseCases
  BY <1>1, CommandFacts
<1>4. event \in Events /\ (event \in RegistrationEvents <=> cmd[p].use \in Registrations)
  BY <1>e, <1>3, EventFacts
<1>5. event \in RegistrationEvents => \A b \in ActiveCustody(a) : store[b].status = "Active"
  BY <1>a, <1>1, <1>4, CommittedStatus DEF CatalogInv
<1>6. event \notin RegistrationEvents => Present(store[a])
  BY <1>a, <1>1, <1>3, <1>4, UpdatesWhatIsThere DEF CatalogInv, Registrations
<1>7. store' \in [Aggregates -> Row]
  BY CommitInv DEF CatalogInv, IndInv, TypeOK
<1>8. Journal' = [t \in Topics |-> Journal[t] \cup {[event |-> event, about |-> a, by |-> p]}]
  BY <1>a, <1>e, CommitEnters
<1>9. \A t \in Topics : \A j \in Journal[t] : j.by # p
  BY <1>1, NotEntered
<1>10. Ledger!Legal(store, a, store'[a], event)
  BY <1>1, <1>2, <1>5, <1>6, LedgerOperators DEF Ledger!Legal
<1>11. ~Ledger!Entered(p)
  BY <1>9, LedgerOperators, Zenon DEF Ledger!Entered, Journal, EntryOf
<1>12. Ledger!Enter(p, a)
  BY <1>1, <1>4, <1>7, <1>8, <1>10, <1>11, LedgerOperators, Zenon DEF Ledger!Enter, Journal, EntryOf
<1> QED BY <1>1, <1>12, LedgerOperators, Zenon DEF Ledger!Next, Requests

(* Every request that commits is ONE entry of the ledger, legal in the        *)
(* catalogue as it is at that moment, whatever it read before; every other    *)
(* step of it is none.                                                        *)
THEOREM Refinement == Spec => ImplementsLedger
<1>1. Init => Ledger!Init
  BY LedgerInit
<1>2. CatalogInv /\ [Next]_vars => [Ledger!Next]_(Ledger!vars)
  <2> SUFFICES ASSUME CatalogInv, [Next]_vars PROVE [Ledger!Next]_(Ledger!vars)
    OBVIOUS
  <2>1. ASSUME NEW p \in Requests, Commit(p) PROVE Ledger!Next
    BY <2>1, CommitIsEntry
  <2>2. UNCHANGED <<store, outbox>> => UNCHANGED Ledger!vars
    BY DEF Ledger!vars
  <2>3. ASSUME NEW p \in Requests, Arrive(p) \/ Advance(p) \/ Fail(p), ~Commit(p)
        PROVE  UNCHANGED <<store, outbox>>
    BY <2>3 DEF Arrive, Advance, LookupPasses, LookupRefuses, Save, Publish, Fail
  <2>4. ASSUME AllAnswered \/ UNCHANGED vars PROVE UNCHANGED <<store, outbox>>
    BY <2>4 DEF AllAnswered, vars
  <2>5. \/ \E p \in Requests : Arrive(p) \/ Advance(p) \/ Fail(p)
        \/ AllAnswered \/ UNCHANGED vars
    BY Zenon DEF Next
  <2> QED BY <2>1, <2>2, <2>3, <2>4, <2>5, Zenon
<1> QED BY <1>1, <1>2, CatalogInvariant, PTL DEF Spec, ImplementsLedger, Ledger!Spec

-----------------------------------------------------------------------------
(* What is settled stays settled.                                             *)

(* What steps do to where requests stand.                                     *)
PastLookups == {"save", "publish", "commit"}

LEMMA LookupPassesFacts ==
    ASSUME IndInv, NEW p \in Requests, LookupPasses(p), NEW n, n = step[p]
    PROVE  /\ pc[p] = "lookup" /\ n \in 1..Len(Lookups(cmd[p])) /\ cmd[p] \in Commands
           /\ Lookups(cmd[p])[n].rows \subseteq Aggregates
           /\ Meets(cmd[p], Lookups(cmd[p])[n], view'[p])
           /\ \A a \in Lookups(cmd[p])[n].rows : view'[p][a] = store[a]
           /\ \/ n < Len(Lookups(cmd[p])) /\ step'[p] = n + 1 /\ pc'[p] = "lookup"
              \/ n = Len(Lookups(cmd[p])) /\ step'[p] = 1 /\ pc'[p] = "save"
           /\ \A q \in Requests \ {p} : /\ view'[q] = view[q] /\ pc'[q] = pc[q]
                                        /\ step'[q] = step[q]
           /\ UNCHANGED <<store, outbox, cmd>>
<1> DEFINE c == cmd[p]
           R == Lookups(c)[n].rows
           seen == Read(p, R)
<1>1. /\ pc[p] = "lookup"
      /\ Meets(c, Lookups(c)[n], seen)
      /\ view' = [view EXCEPT ![p] = seen]
      /\ UNCHANGED <<store, outbox, nextId, cmd, pending>>
  BY DEF LookupPasses
<1>2. \/ n < Len(Lookups(c)) /\ step' = [step EXCEPT ![p] = n + 1] /\ pc' = pc
      \/ ~(n < Len(Lookups(c))) /\ step' = [step EXCEPT ![p] = 1] /\ pc' = [pc EXCEPT ![p] = "save"]
  BY DEF LookupPasses
<1>3. c \in Commands /\ n \in 1..Len(Lookups(c)) /\ Len(Lookups(c)) \in Nat
  <2>1. c \in Commands /\ n \in 1..Len(Lookups(c))
    BY <1>1 DEF IndInv, TypeOK, StepOK
  <2>2. Lookups(c) \in Seq(Lookup)
    BY <2>1, LookupFacts DEF LookedUp
  <2> QED BY <2>1, <2>2
<1>4. R \in SUBSET Aggregates
  BY <1>3, LookupRows
<1>5. \A a \in R : seen[a] = store[a]
  BY <1>4, ReadFacts DEF IndInv
<1> HIDE DEF seen, R, c
<1>6. /\ view'[p] = seen
      /\ \A q \in Requests \ {p} : view'[q] = view[q] /\ pc'[q] = pc[q] /\ step'[q] = step[q]
      /\ \/ n < Len(Lookups(c)) /\ step'[p] = n + 1 /\ pc'[p] = "lookup"
         \/ n = Len(Lookups(c)) /\ step'[p] = 1 /\ pc'[p] = "save"
  BY <1>1, <1>2, <1>3 DEF IndInv, TypeOK
<1> QED BY <1>1, <1>3, <1>4, <1>5, <1>6, Zenon DEF R, c

(* A request that arrives is at its first lookup.                             *)
LEMMA ArriveFacts ==
    ASSUME IndInv, NEW p \in Requests, Arrive(p)
    PROVE  /\ pc'[p] = "lookup" /\ step'[p] = 1
           /\ \A q \in Requests \ {p} : cmd'[q] = cmd[q] /\ pc'[q] = pc[q]
           /\ UNCHANGED <<store, outbox, view, step>>
BY DEF Arrive, IndInv, TypeOK, StepOK

(* No other step takes a request to a lookup, or past its lookups.            *)
LEMMA OtherFacts ==
    ASSUME IndInv, NEW p \in Requests,
           LookupRefuses(p) \/ Save(p) \/ Publish(p) \/ Commit(p) \/ Fail(p)
    PROVE  /\ UNCHANGED <<cmd, view>>
           /\ \A q \in Requests :
                 /\ pc'[q] = "lookup" => pc[q] = "lookup" /\ step'[q] = step[q]
                 /\ pc'[q] \in PastLookups => pc[q] \in PastLookups
           /\ UNCHANGED <<store, outbox>> \/ Commit(p)
<1>1. CASE LookupRefuses(p)
  BY <1>1 DEF LookupRefuses, IndInv, TypeOK, PastLookups
<1>2. CASE Save(p)
  BY <1>2 DEF Save, IndInv, TypeOK, PastLookups
<1>3. CASE Publish(p)
  BY <1>3, PublishFacts DEF PastLookups
<1>4. CASE Commit(p)
  BY <1>4, CommitFacts DEF Answered, PastLookups
<1>5. CASE Fail(p)
  BY <1>5 DEF Fail, IndInv, TypeOK, PastLookups
<1> QED BY <1>1, <1>2, <1>3, <1>4, <1>5

(* A step is of one of these kinds.                                           *)
LEMMA StepKinds ==
    ASSUME [Next]_vars
    PROVE  \/ UNCHANGED vars
           \/ \E p \in Requests :
                 \/ Arrive(p) \/ LookupPasses(p)
                 \/ LookupRefuses(p) \/ Save(p) \/ Publish(p) \/ Commit(p) \/ Fail(p)
BY Zenon DEF Next, Advance, AllAnswered


(* The first thing a command about a slot asks is whether its code is free,   *)
(* or whether it is in use.                                                   *)
LEMMA SlotIsAskedFirst ==
    ASSUME NEW c \in Commands, c.target \in LocationSlots
    PROVE  /\ c.target \in Lookups(c)[1].rows
           /\ Lookups(c)[1].must \in {"absent", "not decommissioned"}
<1>1. c.use \in {"RegisterLocationSlot", "DecommissionLocationSlot", "SetLocationGeometry"}
  BY CommandFacts, KindFacts DEF UseCases, EventOf
<1>2. Lookups(c)[1] = Find(c.target, "absent") \/ Lookups(c)[1] = Find(c.target, "not decommissioned")
  <2>1. CASE c.use = "RegisterLocationSlot"
    <3> DEFINE S == c.target
               free  == Find(S, "absent")
               site  == Find(SiteOfSlot(S), "active")
               zone  == Find(ZoneOfSlot(S), "active")
               aisle == Find(AisleOf[S], "active")
               type  == Find(c.arg, "present")
               rules == [rows |-> RuleIds, must |-> "permits"]
    <3>1. Lookups(c) = << free, site, zone, aisle, type, rules >>
      BY <2>1, LookupsOf DEF RegisterLocationSlotLookups
    <3> HIDE DEF free, site, zone, aisle, type, rules
    <3>2. Lookups(c)[1] = free
      BY <3>1
    <3> QED BY <3>2 DEF free
  <2>2. CASE c.use = "DecommissionLocationSlot"
    <3> DEFINE used == Find(c.target, "not decommissioned")
    <3>1. Lookups(c) = <<used>>
      BY <2>2, LookupsOf DEF DecommissionLocationSlotLookups
    <3> HIDE DEF used
    <3>2. Lookups(c)[1] = used
      BY <3>1
    <3> QED BY <3>2 DEF used
  <2>3. CASE c.use = "SetLocationGeometry"
    <3> DEFINE used == Find(c.target, "not decommissioned")
    <3>1. Lookups(c) = <<used>>
      BY <2>3, LookupsOf DEF SetLocationGeometryLookups
    <3> HIDE DEF used
    <3>2. Lookups(c)[1] = used
      BY <3>1
    <3> QED BY <3>2 DEF used
  <2> QED BY <1>1, <2>1, <2>2, <2>3
<1>3. c.target \in Aggregates /\ "absent" \in Demands /\ "not decommissioned" \in Demands
  BY KindFacts DEF Demands
<1>4. CASE Lookups(c)[1] = Find(c.target, "absent")
  BY <1>3, <1>4, FindFacts, Zenon
<1>5. CASE Lookups(c)[1] = Find(c.target, "not decommissioned")
  BY <1>3, <1>5, FindFacts, Zenon
<1> QED BY <1>2, <1>4, <1>5

(* The slot is retired and nobody may still write it, spelled out.            *)
Unwritten(s) ==
    /\ store[s].status = "Decommissioned"
    /\ \A q \in Requests : cmd[q].target = s =>
          /\ pc[q] \notin PastLookups
          /\ pc[q] = "lookup" => ~(step[q] > 1)

(* A retired slot that nobody may still write stays that: only who found it   *)
(* free or in use may write it, and nobody finds it so any more.              *)
LEMMA RetiredStep ==
    ASSUME IndInv, [Next]_vars, NEW s \in LocationSlots, SettledDecommissioned(s)
    PROVE  SettledDecommissioned(s)'
<1>s. s \in Aggregates /\ PastLookups = {"save"} \cup InTransaction
  BY KindFacts DEF PastLookups, InTransaction
<1>1. Unwritten(s)
  BY <1>s DEF SettledDecommissioned, MayStillWrite, Unwritten
<1>2. SUFFICES Unwritten(s)'
  BY <1>s DEF SettledDecommissioned, MayStillWrite, Unwritten
<1> USE DEF Unwritten
<1>3. CASE UNCHANGED vars
  BY <1>1, <1>3 DEF vars
<1>4. ASSUME NEW p \in Requests, Arrive(p) PROVE Unwritten(s)'
  BY <1>1, <1>4, ArriveFacts DEF PastLookups
<1>5. ASSUME NEW p \in Requests, LookupPasses(p) PROVE Unwritten(s)'
  <2>n. PICK n : n = step[p]
    OBVIOUS
  <2>1. /\ pc[p] = "lookup" /\ n \in 1..Len(Lookups(cmd[p])) /\ cmd[p] \in Commands
        /\ Meets(cmd[p], Lookups(cmd[p])[n], view'[p])
        /\ \A a \in Lookups(cmd[p])[n].rows : view'[p][a] = store[a]
        /\ \A q \in Requests \ {p} : pc'[q] = pc[q] /\ step'[q] = step[q]
        /\ UNCHANGED <<store, cmd>>
    BY <1>5, <2>n, LookupPassesFacts
  <2>2. cmd[p].target # s
    <3> SUFFICES ASSUME cmd[p].target = s PROVE FALSE
      OBVIOUS
    <3>1. n = 1
      BY <1>1, <2>n, <2>1
    <3>2. /\ s \in Lookups(cmd[p])[n].rows
          /\ Lookups(cmd[p])[n].must \in {"absent", "not decommissioned"}
      BY <2>1, <3>1, SlotIsAskedFirst
    <3>3. view'[p][s] = store[s] /\ Present(view'[p][s])
      BY <1>1, <2>1, <3>2 DEF Present, Absent
    <3>4. CASE Lookups(cmd[p])[n].must = "absent"
      BY <2>1, <3>2, <3>3, <3>4 DEF Meets
    <3>5. CASE Lookups(cmd[p])[n].must = "not decommissioned"
      BY <1>1, <2>1, <3>2, <3>3, <3>5 DEF Meets
    <3> QED BY <3>2, <3>4, <3>5
  <2> QED BY <1>1, <2>1, <2>2
<1>6. ASSUME NEW p \in Requests,
             LookupRefuses(p) \/ Save(p) \/ Publish(p) \/ Commit(p) \/ Fail(p)
      PROVE  Unwritten(s)'
  <2>1. /\ UNCHANGED cmd
        /\ \A q \in Requests :
              /\ pc'[q] = "lookup" => pc[q] = "lookup" /\ step'[q] = step[q]
              /\ pc'[q] \in PastLookups => pc[q] \in PastLookups
        /\ UNCHANGED <<store, outbox>> \/ Commit(p)
    BY <1>6, OtherFacts
  <2>2. Commit(p) => store'[s] = store[s]
    BY <1>s, <1>1, CommitFacts DEF PastLookups
  <2> QED BY <1>1, <2>1, <2>2
<1> QED BY <1>3, <1>4, <1>5, <1>6, StepKinds

(* Once retired and read by nobody, a slot stays retired, whatever requests   *)
(* come.                                                                      *)
THEOREM RetiredStays == Spec => SettledStaysDecommissioned
<1>1. IndInv /\ [Next]_vars =>
          [\A s \in LocationSlots : SettledDecommissioned(s) => SettledDecommissioned(s)']_vars
  BY RetiredStep
<1> QED BY <1>1, Invariant, PTL DEF Spec, SettledStaysDecommissioned


(* A lookup that asks whether an identity is free asks for the target, and    *)
(* for a cross-aisle also for the way it is written from its other end.       *)
Asks(c, lookup) ==
    lookup.must = "absent" =>
        /\ c.target \in lookup.rows
        /\ c.use = "RegisterCrossAisle" => ReverseOf[c.target] \in lookup.rows

LEMMA OneAsks ==
    ASSUME NEW c, NEW A, Lookups(c) = <<A>>,
           Asks(c, A)
    PROVE  \A k \in 1..Len(Lookups(c)) : Asks(c, Lookups(c)[k])
<1>1. /\ Len(Lookups(c)) = 1
      /\ Lookups(c)[1] = A
  OBVIOUS
<1> QED BY <1>1

LEMMA TwoAsk ==
    ASSUME NEW c, NEW A, NEW B, Lookups(c) = <<A, B>>,
           Asks(c, A), Asks(c, B)
    PROVE  \A k \in 1..Len(Lookups(c)) : Asks(c, Lookups(c)[k])
<1>1. /\ Len(Lookups(c)) = 2
      /\ Lookups(c)[1] = A /\ Lookups(c)[2] = B
  OBVIOUS
<1> QED BY <1>1

LEMMA ThreeAsk ==
    ASSUME NEW c, NEW A, NEW B, NEW C, Lookups(c) = <<A, B, C>>,
           Asks(c, A), Asks(c, B), Asks(c, C)
    PROVE  \A k \in 1..Len(Lookups(c)) : Asks(c, Lookups(c)[k])
<1>1. /\ Len(Lookups(c)) = 3
      /\ Lookups(c)[1] = A /\ Lookups(c)[2] = B /\ Lookups(c)[3] = C
  OBVIOUS
<1> QED BY <1>1

LEMMA SixAsk ==
    ASSUME NEW c, NEW A, NEW B, NEW C, NEW D, NEW E, NEW F, Lookups(c) = <<A, B, C, D, E, F>>,
           Asks(c, A), Asks(c, B), Asks(c, C), Asks(c, D), Asks(c, E), Asks(c, F)
    PROVE  \A k \in 1..Len(Lookups(c)) : Asks(c, Lookups(c)[k])
<1>1. /\ Len(Lookups(c)) = 6
      /\ Lookups(c)[1] = A /\ Lookups(c)[2] = B /\ Lookups(c)[3] = C /\ Lookups(c)[4] = D /\ Lookups(c)[5] = E /\ Lookups(c)[6] = F
  OBVIOUS
<1> QED BY <1>1

(* Every registration asks so.                                                *)
LEMMA RegistrationsAsk ==
    ASSUME NEW c \in Commands, c.use \in Registrations
    PROVE  \A k \in 1..Len(Lookups(c)) : Asks(c, Lookups(c)[k])
<1>1. CASE c.use = "RegisterSite"
  <2> DEFINE free == Find(c.target, "absent")
  <2>1. Lookups(c) = <<free>>
    BY <1>1, LookupsOf DEF RegisterSiteLookups
  <2>2. Asks(c, free)
    BY <1>1 DEF Asks, Find
  <2> HIDE DEF free
  <2> QED BY <2>1, <2>2, OneAsks
<1>2. CASE c.use = "RegisterZone"
  <2> DEFINE parent == Find(SiteOf[c.target], "active")
             free   == Find(c.target, "absent")
  <2>1. Lookups(c) = <<parent, free>>
    BY <1>2, LookupsOf DEF RegisterZoneLookups
  <2>2. Asks(c, parent) /\ Asks(c, free)
    BY <1>2 DEF Asks, Find
  <2> HIDE DEF parent, free
  <2> QED BY <2>1, <2>2, TwoAsk
<1>3. CASE c.use = "RegisterAisle"
  <2> DEFINE parent == Find(ZoneOf[c.target], "active")
             free   == Find(c.target, "absent")
  <2>1. Lookups(c) = <<parent, free>>
    BY <1>3, LookupsOf DEF RegisterAisleLookups
  <2>2. Asks(c, parent) /\ Asks(c, free)
    BY <1>3 DEF Asks, Find
  <2> HIDE DEF parent, free
  <2> QED BY <2>1, <2>2, TwoAsk
<1>4. CASE c.use = "RegisterLocationType"
  <2> DEFINE free == Find(c.target, "absent")
  <2>1. Lookups(c) = <<free>>
    BY <1>4, LookupsOf DEF RegisterLocationTypeLookups
  <2>2. Asks(c, free)
    BY <1>4 DEF Asks, Find
  <2> HIDE DEF free
  <2> QED BY <2>1, <2>2, OneAsks
<1>5. CASE c.use = "DefinePlacementRule"
  <2> DEFINE parent == Find(c.arg.locationType, "present")
             free   == Find(c.target, "absent")
  <2>1. Lookups(c) = <<parent, free>>
    BY <1>5, LookupsOf DEF DefinePlacementRuleLookups
  <2>2. Asks(c, parent) /\ Asks(c, free)
    BY <1>5 DEF Asks, Find
  <2> HIDE DEF parent, free
  <2> QED BY <2>1, <2>2, TwoAsk
<1>6. CASE c.use = "RegisterFixedStructure"
  <2> DEFINE parent == Find(c.arg, "present")
             free   == Find(c.target, "absent")
  <2>1. Lookups(c) = <<parent, free>>
    BY <1>6, LookupsOf DEF RegisterFixedStructureLookups
  <2>2. Asks(c, parent) /\ Asks(c, free)
    BY <1>6 DEF Asks, Find
  <2> HIDE DEF parent, free
  <2> QED BY <2>1, <2>2, TwoAsk
<1>7. CASE c.use = "RegisterCrossAisle"
  <2> DEFINE zone == Find(ZoneOf[c.target], "present")
             ends == [rows |-> EndsOf[c.target], must |-> "present"]
             same == [rows |-> {c.target, ReverseOf[c.target]}, must |-> "absent"]
  <2>1. Lookups(c) = <<zone, ends, same>>
    BY <1>7, LookupsOf DEF RegisterCrossAisleLookups
  <2>2. Asks(c, zone) /\ Asks(c, ends) /\ Asks(c, same)
    BY <1>7 DEF Asks, Find
  <2> HIDE DEF zone, ends, same
  <2> QED BY <2>1, <2>2, ThreeAsk
<1>8. CASE c.use = "RegisterLocationSlot"
  <2> DEFINE S == c.target
             free  == Find(S, "absent")
             site  == Find(SiteOfSlot(S), "active")
             zone  == Find(ZoneOfSlot(S), "active")
             aisle == Find(AisleOf[S], "active")
             type  == Find(c.arg, "present")
             rules == [rows |-> RuleIds, must |-> "permits"]
  <2>1. Lookups(c) = << free, site, zone, aisle, type, rules >>
    BY <1>8, LookupsOf DEF RegisterLocationSlotLookups
  <2>2. /\ Asks(c, free) /\ Asks(c, site) /\ Asks(c, zone)
        /\ Asks(c, aisle) /\ Asks(c, type) /\ Asks(c, rules)
    BY <1>8 DEF Asks, Find
  <2> HIDE DEF free, site, zone, aisle, type, rules
  <2> QED BY <2>1, <2>2, SixAsk
<1>9. c.use \in {"RegisterSite", "RegisterZone", "RegisterAisle", "RegisterLocationType",
                "DefinePlacementRule", "RegisterFixedStructure", "RegisterCrossAisle",
                "RegisterLocationSlot"}
  BY DEF Registrations, UseCases, Updates, EventOf
<1> QED BY <1>1, <1>2, <1>3, <1>4, <1>5, <1>6, <1>7, <1>8, <1>9

(* The identity is taken and nobody who may have found it free is left,       *)
(* spelled out.                                                               *)
AskedBefore(p, n) == \E k \in 1..(n - 1) : Lookups(cmd[p])[k].must = "absent"

Taken(a) ==
    /\ Present(store[a])
    /\ \A q \in Requests :
          cmd[q].target \in SameIdentity(a) /\ cmd[q].use \in Registrations =>
              /\ pc[q] \notin PastLookups
              /\ pc[q] = "lookup" => ~AskedBefore(q, step[q])

(* A taken identity stays taken: who may still register it has asked whether  *)
(* it is free, in one orientation or the other, and it was not.               *)
LEMMA TakenStep ==
    ASSUME IndInv, [Next]_vars, NEW a \in Aggregates, Taken(a)
    PROVE  Taken(a)'
<1> USE DEF Taken
<1>1. CASE UNCHANGED vars
  BY <1>1 DEF vars, AskedBefore
<1>2. ASSUME NEW p \in Requests, Arrive(p) PROVE Taken(a)'
  <2>1. /\ pc'[p] = "lookup" /\ step'[p] = 1
        /\ \A q \in Requests \ {p} : cmd'[q] = cmd[q] /\ pc'[q] = pc[q]
        /\ UNCHANGED <<store, step>>
    BY <1>2, ArriveFacts
  <2>2. ~AskedBefore(p, step[p])'
    BY <2>1 DEF AskedBefore
  <2>3. \A q \in Requests \ {p} : AskedBefore(q, step[q])' <=> AskedBefore(q, step[q])
    BY <2>1 DEF AskedBefore
  <2> QED BY <2>1, <2>2, <2>3 DEF PastLookups
<1>3. ASSUME NEW p \in Requests, LookupPasses(p) PROVE Taken(a)'
  <2>n. PICK n : n = step[p]
    OBVIOUS
  <2>1. /\ pc[p] = "lookup" /\ n \in 1..Len(Lookups(cmd[p])) /\ cmd[p] \in Commands
        /\ Meets(cmd[p], Lookups(cmd[p])[n], view'[p])
        /\ \A b \in Lookups(cmd[p])[n].rows : view'[p][b] = store[b]
        /\ \/ n < Len(Lookups(cmd[p])) /\ step'[p] = n + 1 /\ pc'[p] = "lookup"
           \/ n = Len(Lookups(cmd[p])) /\ step'[p] = 1 /\ pc'[p] = "save"
        /\ \A q \in Requests \ {p} : pc'[q] = pc[q] /\ step'[q] = step[q]
        /\ UNCHANGED <<store, cmd>>
    BY <1>3, <2>n, LookupPassesFacts
  <2>2. ASSUME cmd[p].target \in SameIdentity(a), cmd[p].use \in Registrations
        PROVE  pc'[p] = "lookup" /\ ~AskedBefore(p, n + 1)
    <3>1. ~AskedBefore(p, n)
      BY <2>n, <2>1, <2>2
    <3>2. Asks(cmd[p], Lookups(cmd[p])[n]) /\ LookedUp(cmd[p])
      BY <2>1, <2>2, RegistrationsAsk, LookupFacts
    <3>3. Lookups(cmd[p])[n].must = "absent" => a \in Lookups(cmd[p])[n].rows
      <4>1. CASE cmd[p].target = a
        BY <3>2, <4>1 DEF Asks
      <4>2. CASE cmd[p].target # a
        <5>1. KindOf[a] = "crossAisle" /\ cmd[p].target = ReverseOf[a]
          BY <2>2, <4>2 DEF SameIdentity
        <5>2. a \in CrossAisles
          BY <5>1 DEF CrossAisles, OfKind
        <5>3. cmd[p].target \in CrossAisles /\ ReverseOf[cmd[p].target] = a
          BY <5>1, <5>2, CodeAssumption
        <5>4. cmd[p].use = "RegisterCrossAisle"
          BY <2>1, <2>2, <5>3, CommandFacts, KindFacts DEF UseCases, EventOf
        <5> QED BY <3>2, <5>3, <5>4 DEF Asks
      <4> QED BY <4>1, <4>2
    <3>4. Lookups(cmd[p])[n].must # "absent"
      <4> SUFFICES ASSUME Lookups(cmd[p])[n].must = "absent" PROVE FALSE
        OBVIOUS
      <4>1. view'[p][a] = store[a]
        BY <2>1, <3>3
      <4>2. ~Present(view'[p][a])
        BY <2>1, <3>3 DEF Meets
      <4> QED BY <4>1, <4>2
    <3>5. ~AskedBefore(p, n + 1)
      <4>1. \A k \in 1..((n + 1) - 1) : k = n \/ k \in 1..(n - 1)
        BY <2>1
      <4> QED BY <3>1, <3>4, <4>1 DEF AskedBefore
    <3>6. n # Len(Lookups(cmd[p]))
      <4>1. PICK k \in 1..Len(Lookups(cmd[p])) : Lookups(cmd[p])[k].must = "absent"
        BY <2>2, <3>2 DEF LookedUp, DemandedAs
      <4>2. n = Len(Lookups(cmd[p])) => k \in 1..((n + 1) - 1)
        BY <2>1
      <4> QED BY <3>5, <4>1, <4>2 DEF AskedBefore
    <3> QED BY <2>1, <3>5, <3>6
  <2>3. \A q \in Requests \ {p} : AskedBefore(q, step[q])' <=> AskedBefore(q, step[q])
    BY <2>1 DEF AskedBefore
  <2>4. AskedBefore(p, step[p])' /\ pc'[p] = "lookup" => AskedBefore(p, n + 1)
    BY <2>1 DEF AskedBefore
  <2> QED BY <2>1, <2>2, <2>3, <2>4 DEF PastLookups
<1>4. ASSUME NEW p \in Requests,
             LookupRefuses(p) \/ Save(p) \/ Publish(p) \/ Commit(p) \/ Fail(p)
      PROVE  Taken(a)'
  <2>1. /\ UNCHANGED cmd
        /\ \A q \in Requests :
              /\ pc'[q] = "lookup" => pc[q] = "lookup" /\ step'[q] = step[q]
              /\ pc'[q] \in PastLookups => pc[q] \in PastLookups
        /\ UNCHANGED <<store, outbox>> \/ Commit(p)
    BY <1>4, OtherFacts
  <2>2. Present(store'[a])
    BY <2>1, CommitFacts
  <2>3. \A q \in Requests :
            pc'[q] = "lookup" => (AskedBefore(q, step[q])' <=> AskedBefore(q, step[q]))
    BY <2>1 DEF AskedBefore
  <2> QED BY <2>1, <2>2, <2>3
<1> QED BY <1>1, <1>2, <1>3, <1>4, StepKinds

(* It is what being settled says.                                             *)
LEMMA SettledIsTakenNow ==
    /\ \A a \in Aggregates : SettledIdentity(a) <=> Taken(a)
    /\ \A a \in Aggregates : SettledIdentity(a)' <=> Taken(a)'
<1>1. InFlight = {"lookup"} \cup PastLookups
  BY DEF InFlight, InTransaction, PastLookups
<1>2. \A a \in Aggregates : SettledIdentity(a) <=> Taken(a)
  BY <1>1 DEF SettledIdentity, MayStillRegister, Taken, AskedBefore, PastLookups
<1>3. \A a \in Aggregates : SettledIdentity(a)' <=> Taken(a)'
  BY <1>1 DEF SettledIdentity, MayStillRegister, Taken, AskedBefore, PastLookups
<1> QED BY <1>2, <1>3

(* Once an identity is settled no registration of it is ever accepted again.  *)
THEOREM TakenStays == Spec => SettledIsTaken
<1>4. IndInv /\ [Next]_vars =>
          [\A a \in Aggregates : SettledIdentity(a) => SettledIdentity(a)']_vars
  BY TakenStep, SettledIsTakenNow
<1> QED BY <1>4, Invariant, PTL DEF Spec, SettledIsTaken


(* The placement rules are the last thing a registration of a slot looks up,  *)
(* all of them at once.                                                       *)
LEMMA RulesAreAskedLast ==
    ASSUME NEW c \in Commands, c.use = "RegisterLocationSlot"
    PROVE  /\ Lookups(c)[Len(Lookups(c))].rows = RuleIds
           /\ Lookups(c)[Len(Lookups(c))].must = "permits"
<1> DEFINE S == c.target
           free  == Find(S, "absent")
           site  == Find(SiteOfSlot(S), "active")
           zone  == Find(ZoneOfSlot(S), "active")
           aisle == Find(AisleOf[S], "active")
           type  == Find(c.arg, "present")
           rules == [rows |-> RuleIds, must |-> "permits"]
<1>1. Lookups(c) = << free, site, zone, aisle, type, rules >>
  BY LookupsOf DEF RegisterLocationSlotLookups
<1>2. rules.rows = RuleIds /\ rules.must = "permits"
  OBVIOUS
<1> HIDE DEF free, site, zone, aisle, type, rules
<1>3. Lookups(c)[Len(Lookups(c))] = rules
  BY <1>1
<1> QED BY <1>2, <1>3

(* A registration past its lookups is forbidden by no rule it has read, in    *)
(* the zone as it has read it.                                                *)
RulesMet ==
    \A p \in Requests : \A r \in RuleIds :
        pc[p] \in PastLookups /\ cmd[p].use = "RegisterLocationSlot" /\ Present(view[p][r]) =>
            ~Denied({view[p][r].attr}, cmd[p].arg,
                    view[p][ZoneOfSlot(cmd[p].target)].attr)

LEMMA RulesMetStep == IndInv /\ RulesMet /\ [Next]_vars => RulesMet'
<1> SUFFICES ASSUME IndInv, RulesMet, [Next]_vars PROVE RulesMet'
  OBVIOUS
<1>1. CASE UNCHANGED vars
  BY <1>1 DEF vars, RulesMet
<1>2. ASSUME NEW p \in Requests, Arrive(p) PROVE RulesMet'
  BY <1>2, ArriveFacts DEF RulesMet, PastLookups
<1>3. ASSUME NEW p \in Requests, LookupPasses(p) PROVE RulesMet'
  <2>n. PICK n : n = step[p]
    OBVIOUS
  <2>c. PICK c : c = cmd[p]
    OBVIOUS
  <2>v. PICK seen : seen = view'[p]
    OBVIOUS
  <2>1. /\ pc[p] = "lookup" /\ c \in Commands /\ Meets(c, Lookups(c)[n], seen)
        /\ pc'[p] = "lookup" \/ (n = Len(Lookups(c)) /\ pc'[p] = "save")
        /\ \A q \in Requests \ {p} : view'[q] = view[q] /\ pc'[q] = pc[q]
        /\ UNCHANGED cmd
    BY <1>3, <2>n, <2>c, <2>v, LookupPassesFacts
  <2>2. ASSUME pc'[p] \in PastLookups, c.use = "RegisterLocationSlot",
               NEW r \in RuleIds, Present(seen[r])
        PROVE  ~Denied({seen[r].attr}, c.arg, seen[ZoneOfSlot(c.target)].attr)
    <3> DEFINE zone == seen[ZoneOfSlot(c.target)].attr
    <3>1. Lookups(c)[n].rows = RuleIds /\ Lookups(c)[n].must = "permits"
      BY <2>1, <2>2, RulesAreAskedLast DEF PastLookups
    <3>2. Permits({seen[x].attr : x \in {y \in RuleIds : Present(seen[y])}}, c.arg, zone)
      BY <2>1, <3>1 DEF Meets
    <3> HIDE DEF zone
    <3>3. ~Denied({seen[x].attr : x \in {y \in RuleIds : Present(seen[y])}}, c.arg, zone)
      BY <3>2 DEF Permits
    <3>4. seen[r].attr \in {seen[x].attr : x \in {y \in RuleIds : Present(seen[y])}}
      BY <2>2
    <3>5. ~Denied({seen[r].attr}, c.arg, zone)
      BY <3>3, <3>4, Zenon DEF Denied
    <3> QED BY <3>5 DEF zone
  <2>3. ASSUME NEW q \in Requests, NEW r \in RuleIds, pc'[q] \in PastLookups,
               cmd'[q].use = "RegisterLocationSlot", Present(view'[q][r])
        PROVE  ~Denied({view'[q][r].attr}, cmd'[q].arg, view'[q][ZoneOfSlot(cmd'[q].target)].attr)
    <3>1. CASE q = p
      BY <2>c, <2>v, <2>1, <2>2, <2>3, <3>1
    <3>2. CASE q # p
      BY <2>1, <2>3, <3>2 DEF RulesMet
    <3> QED BY <3>1, <3>2
  <2> QED BY <2>3 DEF RulesMet
<1>4. ASSUME NEW p \in Requests,
             LookupRefuses(p) \/ Save(p) \/ Publish(p) \/ Commit(p) \/ Fail(p)
      PROVE  RulesMet'
  BY <1>4, OtherFacts DEF RulesMet
<1> QED BY <1>1, <1>2, <1>3, <1>4, StepKinds

(* ... in every behaviour.                                                    *)
LEMMA RulesAreMet == Spec => []RulesMet
<1>1. Init => RulesMet
  BY DEF Init, RulesMet, PastLookups
<1> QED BY <1>1, RulesMetStep, Invariant, PTL DEF Spec

(* What every registration that is past its lookups has read of a rule.       *)
HasRead(q, r) == pc[q] \in PastLookups /\ cmd[q].use = "RegisterLocationSlot" =>
                     view[q][r] = store[r]

(* A settled rule stays settled and says what it says: who might define it    *)
(* again has found its id taken, and each registration to come reads it, with *)
(* the others, as it is.                                                      *)
LEMMA SettledRuleStep ==
    ASSUME IndInv, [Next]_vars, NEW r \in RuleIds, SettledRule(r)
    PROVE  SettledRule(r)' /\ store'[r] = store[r]
<1>p. PastLookups = {"save"} \cup InTransaction /\ r \in Aggregates
  BY KindFacts DEF PastLookups, InTransaction
<1>1. Taken(r) /\ \A q \in Requests : HasRead(q, r)
  BY <1>p, SettledIsTakenNow DEF SettledRule, Unaware, HasRead
<1>2. Taken(r)'
  BY <1>p, <1>1, TakenStep
<1>3. SUFFICES (\A q \in Requests : HasRead(q, r)') /\ store'[r] = store[r]
  <2>1. \A q \in Requests : ~Unaware(q, r)' <=> HasRead(q, r)'
    BY <1>p DEF Unaware, HasRead
  <2> QED BY <1>p, <1>2, <2>1, SettledIsTakenNow DEF SettledRule
<1>4. CASE UNCHANGED vars
  BY <1>1, <1>4 DEF vars, HasRead
<1>5. CASE \E p \in Requests : Arrive(p)
  BY <1>1, <1>5, ArriveFacts DEF HasRead, PastLookups
<1>6. CASE \E p \in Requests : LookupPasses(p)
  <2>p. PICK p \in Requests : LookupPasses(p)
    BY <1>6
  <2>n. PICK n : n = step[p]
    OBVIOUS
  <2>1. /\ cmd[p] \in Commands
        /\ \A a \in Lookups(cmd[p])[n].rows : view'[p][a] = store[a]
        /\ pc'[p] = "lookup" \/ (n = Len(Lookups(cmd[p])) /\ pc'[p] = "save")
        /\ \A q \in Requests \ {p} : view'[q] = view[q] /\ pc'[q] = pc[q]
        /\ UNCHANGED <<store, cmd>>
    BY <2>p, <2>n, LookupPassesFacts
  <2>2. HasRead(p, r)'
    BY <2>1, RulesAreAskedLast DEF HasRead, PastLookups
  <2> QED BY <1>1, <2>1, <2>2 DEF HasRead
<1>7. ASSUME NEW p \in Requests,
             LookupRefuses(p) \/ Save(p) \/ Publish(p) \/ Commit(p) \/ Fail(p)
      PROVE  (\A q \in Requests : HasRead(q, r)') /\ store'[r] = store[r]
  <2>1. /\ UNCHANGED <<cmd, view>>
        /\ \A q \in Requests : pc'[q] \in PastLookups => pc[q] \in PastLookups
        /\ UNCHANGED <<store, outbox>> \/ Commit(p)
    BY <1>7, OtherFacts
  <2>2. ASSUME Commit(p), cmd[p].target = r PROVE FALSE
    <3>1. pc[p] \in PastLookups /\ cmd[p] \in Commands
      BY <2>2, CommitFacts DEF PastLookups
    <3>2. cmd[p].use = "DefinePlacementRule"
      BY <2>2, <3>1, CommandFacts, KindFacts DEF UseCases, EventOf
    <3>3. cmd[p].use \in Registrations
      BY <3>2 DEF Registrations, UseCases, Updates, EventOf
    <3> QED BY <1>1, <2>2, <3>1, <3>3 DEF Taken, SameIdentity
  <2>3. store'[r] = store[r]
    BY <1>p, <2>1, <2>2, CommitFacts
  <2> QED BY <1>1, <2>1, <2>3 DEF HasRead
<1> QED BY <1>4, <1>5, <1>6, <1>7, StepKinds

(* A slot is registered by the commit of a request that the rules it had read *)
(* did not forbid it.                                                         *)
LEMMA RegistrationIsPermitted ==
    ASSUME CatalogInv, RulesMet, [Next]_vars, NEW r \in RuleIds, SettledRule(r),
           NEW s \in NewlyRegistered
    PROVE  ~Denied({store[r].attr}, store'[s].attr, view[store'[s].by][ZoneOfSlot(s)].attr)
<1>1. PICK e \in outbox' \ outbox : e.event = "LocationSlotRegistered" /\ e.about = s
  BY Zenon DEF NewlyRegistered
<1>2. ~UNCHANGED outbox
  BY <1>1
<1>3. PICK p \in Requests : Commit(p)
  <2>1. ~UNCHANGED vars
    BY <1>2 DEF vars
  <2>2. \A p \in Requests : ~Arrive(p) /\ ~LookupPasses(p)
    BY <1>2 DEF Arrive, LookupPasses
  <2>3. PICK p \in Requests :
            LookupRefuses(p) \/ Save(p) \/ Publish(p) \/ Commit(p) \/ Fail(p)
    BY <2>1, <2>2, StepKinds
  <2> QED BY <1>2, <2>3, OtherFacts DEF CatalogInv
<1>4. /\ pc[p] = "commit" /\ cmd[p] \in Commands
      /\ store'[cmd[p].target] = SavedRow(p) /\ SavedRow(p).by = p
      /\ outbox' = outbox \cup pending[p]
  BY <1>3, CommitFacts DEF CatalogInv
<1>5. e \in pending[p] /\ e.about = cmd[p].target /\ e.event = EventOf[cmd[p].use]
  BY <1>1, <1>4 DEF CatalogInv, TransactionInv, PendingOK, AnnouncedBy
<1>6. cmd[p].use = "RegisterLocationSlot" /\ s = cmd[p].target
  BY <1>1, <1>4, <1>5, CommandFacts, EventFacts
<1>7. cmd[p].use \in Registrations
  BY <1>6 DEF Registrations, UseCases, Updates, EventOf
<1>8. SavedRow(p).attr = cmd[p].arg
  <2>1. KindOf[cmd[p].target] # "structure"
    BY <1>4, <1>6, CommandFacts, KindFacts
  <2> QED BY <1>4, <1>7, <2>1, SavedRowFacts DEF CatalogInv, IndInv
<1>9. view[p][r] = store[r] /\ Present(store[r])
  BY <1>4, <1>6, KindFacts DEF SettledRule, SettledIdentity, Unaware, InTransaction
<1>10. ~Denied({store[r].attr}, cmd[p].arg, view[p][ZoneOfSlot(s)].attr)
  BY <1>4, <1>6, <1>9 DEF RulesMet, PastLookups
<1> QED BY <1>4, <1>6, <1>8, <1>10

(* A rule that nobody in flight defines again or has missed says the same for *)
(* good, and if it denies, it binds every registration.                       *)
THEOREM DenyRulesBind == Spec => SettledDenyRuleBinds
<1>1. CatalogInv /\ RulesMet /\ [Next]_vars =>
          [\A r \in RuleIds : SettledRule(r) =>
              /\ SettledRule(r)'
              /\ store'[r] = store[r]
              /\ \A s \in NewlyRegistered :
                    ~Denied({store[r].attr}, store'[s].attr,
                            view[store'[s].by][ZoneOfSlot(s)].attr)]_vars
  <2> SUFFICES ASSUME CatalogInv, RulesMet, [Next]_vars, NEW r \in RuleIds, SettledRule(r)
               PROVE  /\ SettledRule(r)'
                      /\ store'[r] = store[r]
                      /\ \A s \in NewlyRegistered :
                            ~Denied({store[r].attr}, store'[s].attr,
                                    view[store'[s].by][ZoneOfSlot(s)].attr)
    OBVIOUS
  <2>1. SettledRule(r)' /\ store'[r] = store[r]
    BY SettledRuleStep DEF CatalogInv
  <2>2. \A s \in NewlyRegistered :
            ~Denied({store[r].attr}, store'[s].attr, view[store'[s].by][ZoneOfSlot(s)].attr)
    BY RegistrationIsPermitted
  <2> QED BY <2>1, <2>2
<1> QED BY <1>1, CatalogInvariant, RulesAreMet, PTL DEF Spec, SettledDenyRuleBinds

=============================================================================
