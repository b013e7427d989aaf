--------------------------- MODULE MCIdempotencyKeys ---------------------------
(* IdempotencyKeys for TLC.                                                *)
EXTENDS IdempotencyKeys
=============================================================================
