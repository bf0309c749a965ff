--------------------------- MODULE FacilityLedger ---------------------------
(* What the write side of the catalogue promises, with no transactions, locks *)
(* or lookups: a ledger of rows in which every entry is one atomic step that  *)
(* writes one row, legal in the rows as they are, and announces it on every   *)
(* topic.                                                                     *)
EXTENDS FacilityMap

CONSTANT Loaded   \* the rows the ledger is opened with

VARIABLES
    rows,     \* the row of every aggregate
    journal   \* per topic, what has been announced

vars == <<rows, journal>>

Init == /\ rows = Loaded
        /\ journal = [t \in Topics |-> {}]

Entered(w) == \E t \in Topics : \E e \in journal[t] : e.by = w

(* A writer enters at most once, and changes the one row it announces.        *)
Enter(w, a) ==
    /\ rows'[a].by = w
    /\ ~Entered(w)
    /\ Present(rows'[a])
    /\ \A b \in Aggregates \ {a} : rows'[b] = rows[b]
    /\ rows' \in [Aggregates -> Row]
    /\ \E event \in Events :
          /\ Legal(rows, a, rows'[a], event)
          /\ journal' = [t \in Topics |->
                           journal[t] \cup {[event |-> event, about |-> a, by |-> w]}]

Next == \E w \in Writers, a \in Aggregates : Enter(w, a)

Spec == Init /\ [][Next]_vars
=============================================================================
