---------------------------- MODULE MCOutboxRelay ----------------------------
(* Two pods; four rows, two of one aggregate on either side of two of         *)
(* another; passes of two rows.                                               *)
EXTENDS OutboxRelay

CONSTANTS S1, S2   \* two slots

MCAggregateOf == <<S1, S2, S1, S2>>
=============================================================================
