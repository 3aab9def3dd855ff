--------------------------- MODULE MCShadowService ---------------------------
(* Two runs of the service, each over two connections. *)
EXTENDS ShadowService

MCFee(quote) == IF quote >= 2 THEN 1 ELSE 0

=============================================================================
