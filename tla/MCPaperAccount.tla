--------------------------- MODULE MCPaperAccount ---------------------------
(* Two processes on one account.  A candle lasts two units and a signal is  *)
(* good for one; the price falls through the stop or it does not.           *)
EXTENDS PaperAccount

MCPrice == {80, 100}
MCAge == {0, 1}

=============================================================================
