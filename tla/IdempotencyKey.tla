--------------------------- MODULE IdempotencyKey ---------------------------
(* RequireIdempotencyKey, the middleware in front of every POST that creates  *)
(* a resource: it begins the transaction the use case joins, inserts the key, *)
(* lets the handler run against a recorder, records its answer in the key's   *)
(* row, commits, and only then answers the client.  Calls interleave at every *)
(* statement, any of them may fail or die, and a client that hears nothing    *)
(* tries again.                                                               *)
EXTENDS Naturals, FiniteSets

CONSTANTS
    Calls,      \* HTTP requests, first attempts and retries
    Requests,   \* what they may ask for
    MaxConns,   \* connections of the pool: 10 in the code
    None        \* no header, no row, no answer

(* What the middleware looks at: the Idempotency-Key header and the hash of   *)
(* the body.  The URL path is stored with the key and compared by nobody.     *)
ASSUME RequestsAssumption == \A r \in Requests : DOMAIN r = {"key", "body"}
ASSUME PoolAssumption == MaxConns \in Nat \ {0}

Keys == {r.key : r \in Requests} \ {None}

(* What the wrapped handler may answer: 201, a 4xx, a 500 of its own.         *)
Answers == {"created", "refused", "broken"}

(* What a client may hear: that, 422 for a key used with another body, 400    *)
(* for no key; a 500 of the middleware or of Recoverer, or nothing at all.    *)
Replies == Answers \cup {"reused", "required", "failed"}

ASSUME NoneAssumption == None \notin Answers \cup Replies

VARIABLES
    keyRow,     \* the committed rows of idempotency_keys
    applied,    \* the calls whose resource, and its events, are committed
    pc,         \* where a call is
    request,    \* what it asks for
    recorded,   \* the answer its recorder captured
    reply       \* what its client heard

vars == <<keyRow, applied, pc, request, recorded, reply>>

Body == {r.body : r \in Requests}

KeyRow == [hash : Body, answer : Answers \cup {None}]

ASSUME NoRowAssumption == None \notin KeyRow

(* A call that has inserted its key, and not ended its transaction.           *)
HoldingKey == {"handle", "record", "commit"}

(* Mutants: definitions whose names end in "Slip" are plausible mistakes in    *)
(* the code the definition after them models.  No specification uses them.    *)

(* The transaction of a call that lost the race is kept open while it reads.  *)
ConnectedSlip == {"insert", "replay"} \cup HoldingKey

(* A call that has a connection of the pool: from Begin to Commit or Rollback.*)
Connected == {"insert"} \cup HoldingKey

Steps == {"begin", "replay", "respond"} \cup Connected

TypeOK ==
    /\ keyRow \in [Keys -> KeyRow \cup {None}]
    /\ applied \subseteq Calls
    /\ pc \in [Calls -> {"idle", "answered"} \cup Steps]
    /\ request \in [Calls -> Requests \cup {None}]
    /\ \A c \in Calls : pc[c] # "idle" => request[c] \in Requests
    /\ \A c \in Calls : pc[c] \in Steps => request[c].key \in Keys
    /\ recorded \in [Calls -> Answers \cup {None}]
    /\ reply \in [Calls -> Replies \cup {None}]

Init ==
    /\ keyRow = [k \in Keys |-> None]
    /\ applied = {}
    /\ pc = [c \in Calls |-> "idle"]
    /\ request = [c \in Calls |-> None]
    /\ recorded = [c \in Calls |-> None]
    /\ reply = [c \in Calls |-> None]
-----------------------------------------------------------------------------
InUse == {c \in Calls : pc[c] \in Connected}
ConnectionFree == Cardinality(InUse) < MaxConns

KeyOf(c) == request[c].key

(* The end of a call, in what its client hears or does not.                   *)
Answer(c, heard) ==
    /\ reply' = [reply EXCEPT ![c] = heard]
    /\ pc' = [pc EXCEPT ![c] = "answered"]

(* The header is not required.                                                *)
ArriveSlip(c) ==
    /\ pc[c] = "idle"
    /\ \E r \in Requests : request' = [request EXCEPT ![c] = r]
    /\ pc' = [pc EXCEPT ![c] = "begin"]
    /\ UNCHANGED <<keyRow, applied, recorded, reply>>

(* A call arrives; without a key it is refused at the door.                   *)
Arrive(c) ==
    /\ pc[c] = "idle"
    /\ \E r \in Requests :
          /\ request' = [request EXCEPT ![c] = r]
          /\ IF r.key = None
             THEN Answer(c, "required")
             ELSE pc' = [pc EXCEPT ![c] = "begin"] /\ UNCHANGED reply
    /\ UNCHANGED <<keyRow, applied, recorded>>

(* pool.Begin waits for a connection.                                         *)
Begin(c) ==
    /\ pc[c] = "begin"
    /\ ConnectionFree
    /\ pc' = [pc EXCEPT ![c] = "insert"]
    /\ UNCHANGED <<keyRow, applied, request, recorded, reply>>

(* The key has no unique index: nobody waits.                                 *)
KeyFreeSlip(c) == pc[c] = "insert"

(* The INSERT waits for another call's uncommitted insert of the same key ... *)
KeyFree(c) ==
    \A d \in Calls \ {c} : ~(pc[d] \in HoldingKey /\ KeyOf(d) = KeyOf(c))

(* The key is inserted through the pool and not through the transaction.      *)
InsertFreshSlip(c) ==
    /\ pc[c] = "insert"
    /\ KeyFree(c)
    /\ keyRow[KeyOf(c)] = None
    /\ keyRow' = [keyRow EXCEPT ![KeyOf(c)] = [hash |-> request[c].body, answer |-> None]]
    /\ pc' = [pc EXCEPT ![c] = "handle"]
    /\ UNCHANGED <<applied, request, recorded, reply>>

(* ... and inserts the row if there is none: the handler may run.             *)
InsertFresh(c) ==
    /\ pc[c] = "insert"
    /\ KeyFree(c)
    /\ keyRow[KeyOf(c)] = None
    /\ pc' = [pc EXCEPT ![c] = "handle"]
    /\ UNCHANGED <<keyRow, applied, request, recorded, reply>>

(* A row is there: ON CONFLICT DO NOTHING, and the empty transaction is       *)
(* rolled back, its connection with it.                                       *)
InsertConflicts(c) ==
    /\ pc[c] = "insert"
    /\ KeyFree(c)
    /\ keyRow[KeyOf(c)] # None
    /\ pc' = [pc EXCEPT ![c] = "replay"]
    /\ UNCHANGED <<keyRow, applied, request, recorded, reply>>

(* The use case commits a transaction of its own.                             *)
HandleSlip(c) ==
    /\ pc[c] = "handle"
    /\ \E a \in Answers :
          /\ recorded' = [recorded EXCEPT ![c] = a]
          /\ applied' = IF a = "created" THEN applied \cup {c} ELSE applied
    /\ pc' = [pc EXCEPT ![c] = "record"]
    /\ UNCHANGED <<keyRow, request, reply>>

(* The handler and its use case, on the transaction of the call; whatever it  *)
(* answers short of a panic is captured.                                      *)
Handle(c) ==
    /\ pc[c] = "handle"
    /\ \E a \in Answers : recorded' = [recorded EXCEPT ![c] = a]
    /\ pc' = [pc EXCEPT ![c] = "record"]
    /\ UNCHANGED <<keyRow, applied, request, reply>>

(* The UPDATE of the key's row, still in the transaction.                     *)
Record(c) ==
    /\ pc[c] = "record"
    /\ pc' = [pc EXCEPT ![c] = "commit"]
    /\ UNCHANGED <<keyRow, applied, request, recorded, reply>>

(* The commit makes the row, the resource and its events visible together.    *)
(* An error of Commit answers 500 whether or not it was only the              *)
(* acknowledgement that was lost.                                             *)
Commit(c) ==
    /\ pc[c] = "commit"
    /\ keyRow' = [keyRow EXCEPT ![KeyOf(c)] =
                    [hash |-> request[c].body, answer |-> recorded[c]]]
    /\ applied' = IF recorded[c] = "created" THEN applied \cup {c} ELSE applied
    /\ \/ pc' = [pc EXCEPT ![c] = "respond"] /\ UNCHANGED reply
       \/ Answer(c, "failed")
    /\ UNCHANGED <<request, recorded>>

(* The captured answer is copied to the client, who may be gone.              *)
Respond(c) ==
    /\ pc[c] = "respond"
    /\ \E heard \in {recorded[c], "failed"} : Answer(c, heard)
    /\ UNCHANGED <<keyRow, applied, request, recorded>>

(* The plain read of the committed row, on a connection of its own: another   *)
(* body is refused, the same body gets the recorded answer.                   *)
Replay(c) ==
    LET row == keyRow[KeyOf(c)]
    IN /\ pc[c] = "replay"
       /\ ConnectionFree
       /\ Answer(c, IF row = None \/ row.answer = None THEN "failed"
                    ELSE IF row.hash # request[c].body THEN "reused"
                    ELSE row.answer)
       /\ UNCHANGED <<keyRow, applied, request, recorded>>

(* An error before the commit (no connection, the statement timeout of a      *)
(* blocked INSERT, an aborted transaction), a panic of the handler, or the    *)
(* death of the process: the transaction is rolled back, nothing is recorded. *)
Fail(c) ==
    /\ pc[c] \in Steps
    /\ Answer(c, "failed")
    /\ UNCHANGED <<keyRow, applied, request, recorded>>

Advance(c) ==
    \/ Begin(c) \/ InsertFresh(c) \/ InsertConflicts(c) \/ Handle(c)
    \/ Record(c) \/ Commit(c) \/ Respond(c) \/ Replay(c)

AllAnswered == (\A c \in Calls : pc[c] = "answered") /\ UNCHANGED vars

Next == (\E c \in Calls : Arrive(c) \/ Advance(c) \/ Fail(c)) \/ AllAnswered

(* A call that can take its next step takes it; the pool and the unique index *)
(* serve whoever waits when they can.                                         *)
Spec == Init /\ [][Next]_vars /\ \A c \in Calls : WF_vars(Advance(c))
-----------------------------------------------------------------------------
(* The resource behind a key is created at most once, however many calls      *)
(* carry the key, race, fail or are tried again.                              *)
AppliedOncePerKey ==
    \A c, d \in applied : KeyOf(c) = KeyOf(d) => c = d

(* The invariant the comment on RequireIdempotencyKey argues for: no one ever *)
(* reads a committed row that has no answer yet.                              *)
NoHalfWrittenRow ==
    \A k \in Keys : keyRow[k] # None => keyRow[k].answer # None

(* Whatever a client hears from a handler, first or replayed, is the one      *)
(* outcome of its key, and it hears 201 exactly if the resource was created:  *)
(* a lost answer, a lost acknowledgement of the commit or a death in between  *)
(* never makes two calls of one key disagree.                                 *)
HeardIsTheOutcome ==
    \A c \in Calls : reply[c] \in Answers =>
        /\ keyRow[KeyOf(c)] = [hash |-> request[c].body, answer |-> reply[c]]
        /\ reply[c] = "created" <=> \E d \in applied : KeyOf(d) = KeyOf(c)

(* Every call is answered: no set of calls holds every connection of the pool *)
(* and the key that another one of them waits for.                            *)
EveryCallAnswered == \A c \in Calls : pc[c] \in Steps ~> pc[c] = "answered"
=============================================================================
