--------------------------- MODULE MCShadowLedger ---------------------------
(* A small shadow account: two code versions, two reasons to halt, orders  *)
(* of two sizes that fill in part or in full.                              *)
EXTENDS ShadowLedger

\* One unit of fee on anything but a single unit.
MCFee(quote) == IF quote >= 2 THEN 1 ELSE 0

=============================================================================
