------------------------ MODULE IdempotencyKeyProofs ------------------------
(* Proofs about IdempotencyKey, for every set of calls, every set of requests *)
(* and every size of the pool.                                                *)
EXTENDS IdempotencyKey, TLAPS

-----------------------------------------------------------------------------
(* The inductive invariant.                                                   *)

(* The committed row of a call's key says that this call's body had answer a. *)
Outcome(c, a) == keyRow[KeyOf(c)] = [hash |-> request[c].body, answer |-> a]

(* The unique index: of the calls that have inserted a key, and not ended     *)
(* their transaction, no two inserted the same, and none inserted a committed *)
(* one.                                                                       *)
KeyHeldAlone ==
    /\ \A c, d \in Calls :
          pc[c] \in HoldingKey /\ pc[d] \in HoldingKey /\ KeyOf(c) = KeyOf(d) => c = d
    /\ \A c \in Calls : pc[c] \in HoldingKey => keyRow[KeyOf(c)] = None

(* An answer is captured before it is recorded, and recorded before the       *)
(* client is told.                                                            *)
RecordedBeforeHeard ==
    \A c \in Calls :
        /\ pc[c] \in {"record", "commit", "respond"} => recorded[c] \in Answers
        /\ pc[c] = "respond" => Outcome(c, recorded[c])
        /\ reply[c] \in Answers => /\ pc[c] = "answered"
                                   /\ KeyOf(c) \in Keys
                                   /\ Outcome(c, reply[c])

(* A call created its resource exactly if its key's row says so.              *)
AppliedHasRow ==
    /\ \A c \in applied : /\ pc[c] \in {"respond", "answered"}
                          /\ KeyOf(c) \in Keys
                          /\ Outcome(c, "created")
    /\ \A k \in Keys : keyRow[k] # None /\ keyRow[k].answer = "created" =>
                          \E c \in applied : KeyOf(c) = k

IndInv ==
    /\ TypeOK
    /\ KeyHeldAlone
    /\ RecordedBeforeHeard
    /\ AppliedHasRow
    /\ NoHalfWrittenRow
    /\ AppliedOncePerKey
-----------------------------------------------------------------------------
LEMMA InitInv == Init => IndInv
BY NoneAssumption
   DEF Init, IndInv, TypeOK, KeyHeldAlone, RecordedBeforeHeard, AppliedHasRow,
       NoHalfWrittenRow, AppliedOncePerKey, Steps, Connected, HoldingKey, Answers, Replies

(* Where a call may go when it ends.                                          *)
LEMMA AnswerFacts ==
    ASSUME TypeOK, NEW c \in Calls, NEW heard \in Replies, Answer(c, heard)
    PROVE  /\ pc'[c] = "answered" /\ reply'[c] = heard
           /\ \A d \in Calls \ {c} : pc'[d] = pc[d] /\ reply'[d] = reply[d]
           /\ pc' \in [Calls -> {"idle", "answered"} \cup Steps]
           /\ reply' \in [Calls -> Replies \cup {None}]
BY DEF TypeOK, Answer

(* A call that goes on, or ends, and moves nothing but itself.                *)
LEMMA QuietInv ==
    ASSUME IndInv, NEW c \in Calls,
           pc' \in [Calls -> {"idle", "answered"} \cup Steps],
           reply' \in [Calls -> Replies \cup {None}],
           \A d \in Calls \ {c} : pc'[d] = pc[d] /\ reply'[d] = reply[d],
           pc[c] \in Steps,
           pc[c] # "respond" \/ pc'[c] = "answered",
           pc'[c] \in {"insert", "replay", "answered", "commit"},
           pc'[c] = "commit" => pc[c] = "record",
           reply'[c] \in Answers => pc'[c] = "answered" /\ Outcome(c, reply'[c]),
           UNCHANGED <<keyRow, applied, request, recorded>>
    PROVE  IndInv'
<1> USE DEF IndInv
<1>1. TypeOK'
  BY DEF TypeOK, Steps, Connected, HoldingKey
<1>2. KeyHeldAlone'
  BY DEF KeyHeldAlone, KeyOf, HoldingKey
<1>3. RecordedBeforeHeard'
  BY DEF RecordedBeforeHeard, KeyOf, Outcome, TypeOK
<1>4. AppliedHasRow'
  <2>1. \A d \in applied : pc'[d] \in {"respond", "answered"}
    BY DEF AppliedHasRow, TypeOK, Steps, Connected, HoldingKey
  <2> QED BY <2>1 DEF AppliedHasRow, KeyOf, Outcome
<1>5. NoHalfWrittenRow' /\ AppliedOncePerKey'
  BY DEF NoHalfWrittenRow, AppliedOncePerKey, KeyOf
<1> QED BY <1>1, <1>2, <1>3, <1>4, <1>5

(* A call arrives, with a key or at the door without one.                     *)
LEMMA ArriveInv ==
    ASSUME IndInv, NEW c \in Calls, Arrive(c)
    PROVE  IndInv'
<1> USE DEF IndInv
<1>1. PICK r \in Requests :
          /\ request' = [request EXCEPT ![c] = r]
          /\ IF r.key = None
             THEN Answer(c, "required")
             ELSE pc' = [pc EXCEPT ![c] = "begin"] /\ UNCHANGED reply
  BY DEF Arrive
<1>2. pc[c] = "idle" /\ UNCHANGED <<keyRow, applied, recorded>>
  BY DEF Arrive
<1>3. /\ request'[c] = r
      /\ \A d \in Calls \ {c} : request'[d] = request[d]
      /\ request' \in [Calls -> Requests \cup {None}]
  BY <1>1 DEF TypeOK
<1>4. /\ \/ r.key = None /\ pc'[c] = "answered" /\ reply'[c] = "required"
         \/ r.key \in Keys /\ pc'[c] = "begin" /\ reply'[c] = reply[c]
      /\ \A d \in Calls \ {c} : pc'[d] = pc[d] /\ reply'[d] = reply[d]
      /\ pc' \in [Calls -> {"idle", "answered"} \cup Steps]
      /\ reply' \in [Calls -> Replies \cup {None}]
  BY <1>1, AnswerFacts DEF TypeOK, Replies, Keys, Steps
<1>5. TypeOK'
  BY <1>2, <1>3, <1>4 DEF TypeOK, Steps, Connected, HoldingKey
<1>6. c \notin applied
  BY <1>2 DEF AppliedHasRow
<1>7. KeyHeldAlone'
  BY <1>2, <1>3, <1>4 DEF KeyHeldAlone, KeyOf, HoldingKey
<1>8. RecordedBeforeHeard'
  BY <1>2, <1>3, <1>4 DEF RecordedBeforeHeard, KeyOf, Outcome, Answers
<1>9. AppliedHasRow'
  BY <1>2, <1>3, <1>4, <1>6 DEF AppliedHasRow, KeyOf, Outcome, TypeOK
<1>10. NoHalfWrittenRow' /\ AppliedOncePerKey'
  BY <1>2, <1>3, <1>6 DEF NoHalfWrittenRow, AppliedOncePerKey, KeyOf, TypeOK
<1> QED BY <1>5, <1>7, <1>8, <1>9, <1>10

(* A call gets its connection.                                                *)
LEMMA BeginInv ==
    ASSUME IndInv, NEW c \in Calls, Begin(c)
    PROVE  IndInv'
<1>1. /\ pc' = [pc EXCEPT ![c] = "insert"] /\ pc[c] = "begin"
      /\ UNCHANGED <<keyRow, applied, request, recorded, reply>>
  BY DEF Begin
<1>2. /\ pc'[c] = "insert" /\ pc' \in [Calls -> {"idle", "answered"} \cup Steps]
      /\ \A d \in Calls \ {c} : pc'[d] = pc[d]
      /\ reply' \in [Calls -> Replies \cup {None}] /\ reply'[c] \notin Answers
  BY <1>1 DEF IndInv, TypeOK, Steps, Connected, RecordedBeforeHeard
<1> QED BY <1>1, <1>2, QuietInv DEF Steps

(* A call that finds the committed row gives its transaction up.              *)
LEMMA InsertConflictsInv ==
    ASSUME IndInv, NEW c \in Calls, InsertConflicts(c)
    PROVE  IndInv'
<1>1. /\ pc' = [pc EXCEPT ![c] = "replay"] /\ pc[c] = "insert"
      /\ UNCHANGED <<keyRow, applied, request, recorded, reply>>
  BY DEF InsertConflicts
<1>2. /\ pc'[c] = "replay" /\ pc' \in [Calls -> {"idle", "answered"} \cup Steps]
      /\ \A d \in Calls \ {c} : pc'[d] = pc[d]
      /\ reply' \in [Calls -> Replies \cup {None}] /\ reply'[c] \notin Answers
  BY <1>1 DEF IndInv, TypeOK, Steps, RecordedBeforeHeard
<1> QED BY <1>1, <1>2, QuietInv DEF Steps, Connected

(* The row is updated in the transaction: nobody sees it yet.                 *)
LEMMA RecordInv ==
    ASSUME IndInv, NEW c \in Calls, Record(c)
    PROVE  IndInv'
<1>1. /\ pc' = [pc EXCEPT ![c] = "commit"] /\ pc[c] = "record"
      /\ UNCHANGED <<keyRow, applied, request, recorded, reply>>
  BY DEF Record
<1>2. /\ pc'[c] = "commit" /\ pc' \in [Calls -> {"idle", "answered"} \cup Steps]
      /\ \A d \in Calls \ {c} : pc'[d] = pc[d]
      /\ reply' \in [Calls -> Replies \cup {None}] /\ reply'[c] \notin Answers
  BY <1>1 DEF IndInv, TypeOK, Steps, Connected, HoldingKey, RecordedBeforeHeard
<1> QED BY <1>1, <1>2, QuietInv DEF Steps, Connected, HoldingKey

(* The captured answer is the row's, and the client hears it or nothing.      *)
LEMMA RespondInv ==
    ASSUME IndInv, NEW c \in Calls, Respond(c)
    PROVE  IndInv'
<1>1. PICK heard \in {recorded[c], "failed"} : Answer(c, heard)
  BY DEF Respond
<1>2. pc[c] = "respond" /\ UNCHANGED <<keyRow, applied, request, recorded>>
  BY DEF Respond
<1>3. heard \in Replies /\ (heard \in Answers => Outcome(c, heard))
  BY <1>2 DEF IndInv, RecordedBeforeHeard, Replies, Answers
<1> QED BY <1>1, <1>2, <1>3, AnswerFacts, QuietInv DEF IndInv, Steps

(* A replay answers what the committed row says, to the body it says it of.   *)
LEMMA ReplayInv ==
    ASSUME IndInv, NEW c \in Calls, Replay(c)
    PROVE  IndInv'
<1> DEFINE row == keyRow[KeyOf(c)]
           heard == IF row = None \/ row.answer = None THEN "failed"
                    ELSE IF row.hash # request[c].body THEN "reused"
                    ELSE row.answer
<1>1. /\ pc[c] = "replay" /\ Answer(c, heard)
      /\ UNCHANGED <<keyRow, applied, request, recorded>>
  BY DEF Replay
<1>2. row \in KeyRow \cup {None}
  BY <1>1 DEF IndInv, TypeOK, Steps, KeyOf
<1>3. heard \in Replies /\ (heard \in Answers => Outcome(c, heard))
  BY <1>2 DEF KeyRow, Replies, Answers, Outcome
<1> HIDE DEF heard
<1> QED BY <1>1, <1>3, AnswerFacts, QuietInv DEF IndInv, Steps

(* A call that fails has recorded nothing anyone can read.                    *)
LEMMA FailInv ==
    ASSUME IndInv, NEW c \in Calls, Fail(c)
    PROVE  IndInv'
<1>1. pc[c] \in Steps /\ Answer(c, "failed") /\ UNCHANGED <<keyRow, applied, request, recorded>>
  BY DEF Fail
<1>2. "failed" \in Replies /\ "failed" \notin Answers
  BY DEF Replies, Answers
<1> QED BY <1>1, <1>2, AnswerFacts, QuietInv DEF IndInv

(* The key is inserted, by the one call that can.                             *)
LEMMA InsertFreshInv ==
    ASSUME IndInv, NEW c \in Calls, InsertFresh(c)
    PROVE  IndInv'
<1> USE DEF IndInv
<1>1. /\ pc[c] = "insert" /\ KeyFree(c) /\ keyRow[KeyOf(c)] = None
      /\ pc' = [pc EXCEPT ![c] = "handle"]
      /\ UNCHANGED <<keyRow, applied, request, recorded, reply>>
  BY DEF InsertFresh
<1>2. /\ pc'[c] = "handle" /\ pc' \in [Calls -> {"idle", "answered"} \cup Steps]
      /\ \A d \in Calls \ {c} : pc'[d] = pc[d]
  BY <1>1 DEF TypeOK, Steps, Connected, HoldingKey
<1>3. TypeOK'
  BY <1>1, <1>2 DEF TypeOK, Steps, Connected
<1>4. KeyHeldAlone'
  BY <1>1, <1>2 DEF KeyHeldAlone, KeyFree, KeyOf
<1>5. RecordedBeforeHeard'
  BY <1>1, <1>2 DEF RecordedBeforeHeard, KeyOf, Outcome
<1>6. AppliedHasRow'
  <2>1. \A d \in applied : pc'[d] \in {"respond", "answered"}
    BY <1>1, <1>2 DEF AppliedHasRow, TypeOK
  <2> QED BY <1>1, <2>1 DEF AppliedHasRow, KeyOf, Outcome
<1>7. NoHalfWrittenRow' /\ AppliedOncePerKey'
  BY <1>1 DEF NoHalfWrittenRow, AppliedOncePerKey, KeyOf
<1> QED BY <1>3, <1>4, <1>5, <1>6, <1>7

(* The handler runs, its answer captured.                                     *)
LEMMA HandleInv ==
    ASSUME IndInv, NEW c \in Calls, Handle(c)
    PROVE  IndInv'
<1> USE DEF IndInv
<1>1. PICK a \in Answers : recorded' = [recorded EXCEPT ![c] = a]
  BY DEF Handle
<1>2. /\ pc[c] = "handle" /\ pc' = [pc EXCEPT ![c] = "record"]
      /\ UNCHANGED <<keyRow, applied, request, reply>>
  BY DEF Handle
<1>3. /\ pc'[c] = "record" /\ pc' \in [Calls -> {"idle", "answered"} \cup Steps]
      /\ recorded'[c] = a /\ recorded' \in [Calls -> Answers \cup {None}]
      /\ \A d \in Calls \ {c} : pc'[d] = pc[d] /\ recorded'[d] = recorded[d]
  BY <1>1, <1>2 DEF TypeOK, Steps, Connected, HoldingKey
<1>4. TypeOK'
  BY <1>2, <1>3 DEF TypeOK, Steps, Connected, HoldingKey
<1>5. KeyHeldAlone'
  BY <1>2, <1>3 DEF KeyHeldAlone, HoldingKey, KeyOf
<1>6. RecordedBeforeHeard'
  BY <1>2, <1>3 DEF RecordedBeforeHeard, KeyOf, Outcome
<1>7. AppliedHasRow'
  <2>1. \A d \in applied : pc'[d] \in {"respond", "answered"}
    BY <1>2, <1>3 DEF AppliedHasRow, TypeOK
  <2> QED BY <1>2, <2>1 DEF AppliedHasRow, KeyOf, Outcome
<1>8. NoHalfWrittenRow' /\ AppliedOncePerKey'
  BY <1>2 DEF NoHalfWrittenRow, AppliedOncePerKey, KeyOf
<1> QED BY <1>4, <1>5, <1>6, <1>7, <1>8

(* The commit: the one step that others see.                                  *)
LEMMA CommitInv ==
    ASSUME IndInv, NEW c \in Calls, Commit(c)
    PROVE  IndInv'
<1> USE DEF IndInv
<1> DEFINE k == KeyOf(c)
           row == [hash |-> request[c].body, answer |-> recorded[c]]
<1>1. /\ pc[c] = "commit" /\ keyRow' = [keyRow EXCEPT ![k] = row]
      /\ applied' = IF recorded[c] = "created" THEN applied \cup {c} ELSE applied
      /\ UNCHANGED <<request, recorded>>
  BY DEF Commit
<1>2. /\ pc'[c] \in {"respond", "answered"} /\ reply'[c] \notin Answers
      /\ \A d \in Calls \ {c} : pc'[d] = pc[d] /\ reply'[d] = reply[d]
      /\ pc' \in [Calls -> {"idle", "answered"} \cup Steps]
      /\ reply' \in [Calls -> Replies \cup {None}]
  <2>1. CASE pc' = [pc EXCEPT ![c] = "respond"] /\ UNCHANGED reply
    BY <1>1, <2>1 DEF TypeOK, Steps, RecordedBeforeHeard
  <2>2. CASE Answer(c, "failed")
    BY <2>2, AnswerFacts DEF Replies, Answers
  <2> QED BY <2>1, <2>2 DEF Commit
<1>3. /\ request[c] \in Requests /\ k \in Keys /\ recorded[c] \in Answers
      /\ keyRow[k] = None
  BY <1>1 DEF TypeOK, Steps, Connected, HoldingKey, KeyOf, RecordedBeforeHeard, KeyHeldAlone
<1>4. row \in KeyRow /\ row # None /\ row.answer = recorded[c] /\ row.answer # None
  <2>1. request[c].body \in Body
    BY <1>3 DEF Body
  <2> QED BY <1>3, <2>1, NoneAssumption, NoRowAssumption DEF KeyRow
<1>5. /\ keyRow'[k] = row
      /\ \A other \in Keys \ {k} : keyRow'[other] = keyRow[other]
      /\ keyRow' \in [Keys -> KeyRow \cup {None}]
  BY <1>1, <1>3, <1>4 DEF TypeOK
<1>6. Outcome(c, recorded[c])'
  BY <1>1, <1>5 DEF Outcome, KeyOf
<1> HIDE DEF row, k
<1>7. TypeOK'
  BY <1>1, <1>2, <1>3, <1>5 DEF TypeOK
(* The row of any other call that has one is another row: the key had none.   *)
<1>8. \A d \in Calls, a \in Answers :
          KeyOf(d) \in Keys /\ pc[d] # "idle" /\ Outcome(d, a) =>
              KeyOf(d) # k /\ Outcome(d, a)'
  <2> SUFFICES ASSUME NEW d \in Calls, NEW a \in Answers,
                      KeyOf(d) \in Keys, pc[d] # "idle", Outcome(d, a)
               PROVE  KeyOf(d) # k /\ Outcome(d, a)'
    OBVIOUS
  <2>1. request[d].body \in Body
    BY DEF TypeOK, Body
  <2>2. [hash |-> request[d].body, answer |-> a] # None
    BY <2>1, NoRowAssumption DEF KeyRow
  <2>3. KeyOf(d) # k
    BY <1>3, <2>2 DEF Outcome
  <2> QED BY <1>1, <1>5, <2>3 DEF Outcome, KeyOf
<1>9. KeyHeldAlone'
  <2>1. \A d \in Calls : pc'[d] \in HoldingKey => d # c /\ pc[d] \in HoldingKey /\ KeyOf(d) # k
    BY <1>1, <1>2 DEF KeyHeldAlone, HoldingKey, k
  <2>2. \A d \in Calls : pc[d] \in HoldingKey => KeyOf(d) \in Keys
    BY DEF TypeOK, Steps, Connected, KeyOf
  <2> QED BY <1>1, <1>5, <2>1, <2>2 DEF KeyHeldAlone, KeyOf
<1>10. RecordedBeforeHeard'
  <2>1. \A d \in Calls : pc[d] = "respond" => KeyOf(d) \in Keys
    BY DEF TypeOK, Steps, KeyOf
  <2> QED BY <1>1, <1>2, <1>3, <1>6, <1>8, <2>1 DEF RecordedBeforeHeard, KeyOf
<1>11. "created" \in Answers
  BY DEF Answers
<1>12. AppliedHasRow'
  <2>1. ASSUME NEW d \in applied'
        PROVE  pc'[d] \in {"respond", "answered"} /\ KeyOf(d)' \in Keys /\ Outcome(d, "created")'
    <3>1. CASE d = c
      <4>1. recorded[c] = "created"
        BY <3>1, <1>1 DEF AppliedHasRow
      <4> QED BY <3>1, <4>1, <1>1, <1>2, <1>3, <1>6 DEF KeyOf, k
    <3>2. CASE d # c
      <4>1. d \in applied /\ d \in Calls
        BY <3>2, <1>1 DEF TypeOK
      <4>2. pc[d] \in {"respond", "answered"} /\ KeyOf(d) \in Keys /\ Outcome(d, "created")
        BY <4>1 DEF AppliedHasRow
      <4> QED BY <3>2, <4>1, <4>2, <1>1, <1>2, <1>8, <1>11 DEF KeyOf
    <3> QED BY <3>1, <3>2
  <2>2. ASSUME NEW j \in Keys, keyRow'[j] # None, keyRow'[j].answer = "created"
        PROVE  \E d \in applied' : KeyOf(d)' = j
    <3>1. CASE j = k
      <4>1. recorded[c] = "created"
        BY <3>1, <2>2, <1>4, <1>5
      <4> QED BY <3>1, <4>1, <1>1 DEF KeyOf, k
    <3>2. CASE j # k
      <4>1. PICK d \in applied : KeyOf(d) = j
        BY <3>2, <2>2, <1>5 DEF AppliedHasRow
      <4> QED BY <4>1, <1>1 DEF KeyOf
    <3> QED BY <3>1, <3>2
  <2> QED BY <2>1, <2>2 DEF AppliedHasRow
<1>13. NoHalfWrittenRow'
  BY <1>4, <1>5 DEF NoHalfWrittenRow
<1>14. AppliedOncePerKey'
  <2>1. \A d \in applied : KeyOf(d) # k
    BY <1>8, <1>11 DEF AppliedHasRow, TypeOK
  <2> QED BY <1>1, <2>1 DEF AppliedOncePerKey, KeyOf, k
<1> QED BY <1>7, <1>9, <1>10, <1>12, <1>13, <1>14

LEMMA StutterInv ==
    ASSUME IndInv, UNCHANGED vars
    PROVE  IndInv'
BY DEF IndInv, vars, TypeOK, KeyHeldAlone, RecordedBeforeHeard, AppliedHasRow,
       NoHalfWrittenRow, AppliedOncePerKey, Outcome, KeyOf

(* Every step of the middleware.                                              *)
LEMMA NextInv == IndInv /\ [Next]_vars => IndInv'
<1> SUFFICES ASSUME IndInv, [Next]_vars PROVE IndInv'
  OBVIOUS
<1>1. ASSUME NEW c \in Calls, Arrive(c) PROVE IndInv'
  BY <1>1, ArriveInv
<1>2. ASSUME NEW c \in Calls, Advance(c) PROVE IndInv'
  BY <1>2, BeginInv, InsertFreshInv, InsertConflictsInv, HandleInv, RecordInv, CommitInv,
     RespondInv, ReplayInv DEF Advance
<1>3. ASSUME NEW c \in Calls, Fail(c) PROVE IndInv'
  BY <1>3, FailInv
<1>4. CASE AllAnswered \/ UNCHANGED vars
  BY <1>4, StutterInv DEF AllAnswered
<1> QED BY <1>1, <1>2, <1>3, <1>4 DEF Next

(* The invariant holds in every behaviour.                                    *)
THEOREM Invariant == Spec => []IndInv
<1>1. Init => IndInv
  BY InitInv
<1>2. IndInv /\ [Next]_vars => IndInv'
  BY NextInv
<1> QED BY <1>1, <1>2, PTL DEF Spec

(* The resource behind a key is created at most once, by whatever number of   *)
(* racing, failing and repeated calls of whatever size of pool.               *)
THEOREM OncePerKey == Spec => []AppliedOncePerKey
<1>1. IndInv => AppliedOncePerKey
  BY DEF IndInv
<1> QED BY <1>1, Invariant, PTL

(* No committed row is without its answer, so a replay is never asked what    *)
(* is not known yet.                                                          *)
THEOREM RowsAreWhole == Spec => []NoHalfWrittenRow
<1>1. IndInv => NoHalfWrittenRow
  BY DEF IndInv
<1> QED BY <1>1, Invariant, PTL

(* No two clients of one key hear different outcomes, and 201 is heard        *)
(* exactly of what was created.                                               *)
THEOREM OneOutcome == Spec => []HeardIsTheOutcome
<1>1. IndInv => HeardIsTheOutcome
  <2> SUFFICES ASSUME IndInv, NEW c \in Calls, reply[c] \in Answers
               PROVE  /\ Outcome(c, reply[c])
                      /\ reply[c] = "created" <=> \E d \in applied : KeyOf(d) = KeyOf(c)
    BY DEF HeardIsTheOutcome, Outcome
  <2>1. /\ KeyOf(c) \in Keys /\ Outcome(c, reply[c]) /\ pc[c] = "answered"
    BY DEF IndInv, RecordedBeforeHeard
  <2>2. request[c].body \in Body
    BY <2>1 DEF IndInv, TypeOK, Body
  <2>3. keyRow[KeyOf(c)] # None /\ keyRow[KeyOf(c)].answer = reply[c]
    BY <2>1, <2>2, NoRowAssumption DEF Outcome, KeyRow
  <2>4. \A d \in applied : KeyOf(d) = KeyOf(c) => keyRow[KeyOf(c)].answer = "created"
    <3> SUFFICES ASSUME NEW d \in applied, KeyOf(d) = KeyOf(c)
                 PROVE  keyRow[KeyOf(c)].answer = "created"
      OBVIOUS
    <3>1. keyRow[KeyOf(d)] = [hash |-> request[d].body, answer |-> "created"]
      BY DEF IndInv, AppliedHasRow, Outcome
    <3> QED BY <3>1
  <2>5. keyRow[KeyOf(c)].answer = "created" => \E d \in applied : KeyOf(d) = KeyOf(c)
    BY <2>1, <2>3 DEF IndInv, AppliedHasRow
  <2> QED BY <2>1, <2>3, <2>4, <2>5
<1> QED BY <1>1, Invariant, PTL

(* Every variable of the middleware keeps its type, whatever crashes come     *)
(* between its statements.                                                    *)
THEOREM TypeCorrect == Spec => []TypeOK
<1>1. IndInv => TypeOK
  BY DEF IndInv
<1> QED BY <1>1, Invariant, PTL
=============================================================================
