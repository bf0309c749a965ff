--------------------------- MODULE MCIdempotencyKey ---------------------------
(* Three calls and two connections: one key asked for with two bodies,        *)
(* another key, and a call without one.                                       *)
EXTENDS IdempotencyKey

CONSTANTS K1, K2, B1, B2

Ask(key, body) == [key |-> key, body |-> body]

MCRequests == {Ask(K1, B1), Ask(K1, B2), Ask(K2, B1), Ask(None, B1)}
=============================================================================
