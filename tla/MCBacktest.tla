----------------------------- MODULE MCBacktest -----------------------------
(* The two evaluations of recorded data, one of them in a behaviour.           *)
(*                                                                            *)
(* Backtest: nine rows out of at most twelve slots.  Bars: flat, through the   *)
(* stop during the bar, through it at the open, down without a stop, up.       *)
(*                                                                            *)
(* DepthReplay: four records, two books, orders in both units that end inside  *)
(* a level, within the rounding error of one, at the depth and beyond it.      *)
EXTENDS Backtest, DepthReplay

VARIABLE command

Candle(o, h, l, c) == [open |-> o, high |-> h, low |-> l, close |-> c]

MCBar == {Candle(100, 100, 100, 100), Candle(100, 100, 80, 100),
          Candle(80, 80, 80, 80), Candle(100, 100, 92, 92),
          Candle(100, 120, 100, 120)}
MCStop == {10, 50}
MCSkew == {-1, 0, 2}

Level(p, s) == [price |-> p, size |-> s]

MCDepth == {[buy |-> <<Level(2, 5), Level(3, 4)>>, sell |-> <<Level(1, 9)>>],
            [buy |-> <<Level(3, 9)>>, sell |-> <<Level(2, 3), Level(1, 4)>>]}
MCOrder == {[side |-> "buy", unit |-> "quote", amount |-> 11, latency |-> 0],
            [side |-> "buy", unit |-> "quote", amount |-> 25, latency |-> 2],
            [side |-> "sell", unit |-> "base", amount |-> 9, latency |-> 1]}

OfflineInit ==
  /\ Init /\ ReplayInit
  /\ \/ command = "research"
     \/ command = "replay" /\ market = Slots

OfflineNext ==
  \/ command = "research" /\ Next /\ UNCHANGED <<replayVars, command>>
  \/ command = "replay" /\ ReplayNext /\ UNCHANGED <<vars, command>>

OfflineSpec == OfflineInit /\ [][OfflineNext]_<<vars, replayVars, command>>

=============================================================================
