------------------------- MODULE MCAnalyticsProjector -------------------------
(* Two projectors and a partition with a redelivered event, a value that is   *)
(* no CloudEvent, an event of another type and a second event.                *)
EXTENDS AnalyticsProjector

CONSTANTS E1, E2, E3, Junk

Of(id, kind) == [id |-> id, kind |-> kind]

MCPartition == << Of(E1, "change"), Of(Junk, "poison"), Of(E1, "change"),
                  Of(E3, "other"), Of(E2, "change") >>

(* A poison message with an event behind it.                                  *)
FlowPartition == << Of(Junk, "poison"), Of(E1, "change") >>
=============================================================================
