----------------------------- MODULE BarEngine -----------------------------
(***************************************************************************)
(* One bar of the next-open execution engine: process_bar and liquidate    *)
(* (engine.py), the simulated broker (broker.py) and the sizing of an      *)
(* entry (risk.py), as operators on the account they read and leave.       *)
(*                                                                         *)
(* Prices, fees and slippage are whole numbers, the latter two per lot; a  *)
(* position is a whole number of lots, the most the three caps of          *)
(* size_entry allow.  A signal is what the engine makes of the prediction  *)
(* of a bar: whether it would enter or exit, and the raw stop distance its *)
(* ATR gives, 0 for an ATR that is missing.                                *)
(***************************************************************************)
EXTENDS Integers, FiniteSetsExt

CONSTANTS
  InitialCash, Fee, Slip, MinLots,
  RiskPct,          \* risk.risk_per_trade
  AllocationPct,    \* risk.max_position_fraction
  MinStop, MaxStop, \* risk.minimum_stop_pct, risk.maximum_stop_pct
  TrailingPct, DrawdownPct, CooldownBars,
  HoldBars          \* model.horizon_bars, for the exit of a position

ASSUME BarEngineAssumption ==
  /\ {InitialCash, MinLots, HoldBars} \subseteq Nat \ {0}
  /\ {Fee, Slip, CooldownBars} \subseteq Nat
  /\ {RiskPct, AllocationPct, MinStop, MaxStop, TrailingPct, DrawdownPct}
       \subseteq 1..100
  /\ MinStop <= MaxStop

NoBar == -1
NoSignal == [does |-> "none", stop |-> 0, row |-> 0]

\* PortfolioState.initial
NewAccount ==
  [cash |-> InitialCash, top |-> InitialCash, halt |-> "ACTIVE", cooldown |-> 0,
   bar |-> NoBar, pending |-> NoSignal,
   lots |-> 0, entry |-> 0, stop |-> 0, peak |-> 0, exitAt |-> 0,
   entered |-> 0, signal |-> 0, staked |-> 0]

Open(a) == a.lots > 0

Frozen(a) == IF Open(a) THEN "HALT_PENDING" ELSE "HALTED"

-----------------------------------------------------------------------------
(* The broker.  cost is 1 at base cost and 2 under stress. *)

\* Faulty variant: the round trip's own cost is not part of the risk.
LotsWithoutCosts(cash, price, stop, cost) ==
  Min({(cash * RiskPct) \div (price * stop),
       (cash * AllocationPct) \div (price * 100),
       cash \div (price + cost * (Slip + Fee))})

\* risk_cap, allocation_cap and cash_cap of size_entry, in lots.
LotsAllowed(cash, price, stop, cost) ==
  Min({(cash * RiskPct) \div (price * stop + 200 * cost * (Fee + Slip)),
       (cash * AllocationPct) \div (price * 100),
       cash \div (price + cost * (Slip + Fee))})

StopDistance(raw) == IF raw >= MinStop THEN raw ELSE MinStop

SizeEntry(cash, price, raw, cost) ==
  IF raw = 0 \/ raw > MaxStop THEN 0
  ELSE LET lots == LotsAllowed(cash, price, StopDistance(raw), cost)
       IN IF lots >= MinLots THEN lots ELSE 0

Buy(a, row, price, lots, stop, exitAt, cost) ==
  [a EXCEPT !.cash = @ - lots * (price + cost * (Slip + Fee)),
            !.lots = lots, !.entry = price + cost * Slip, !.stop = stop,
            !.peak = price + cost * Slip, !.exitAt = exitAt,
            !.entered = row, !.signal = a.pending.row, !.staked = a.cash]

SellAll(a, price, cost) ==
  [a EXCEPT !.cash = @ + a.lots * (price - cost * (Slip + Fee)),
            !.lots = 0, !.entry = 0, !.stop = 0, !.peak = 0, !.exitAt = 0,
            !.entered = 0, !.signal = 0, !.staked = 0]

TradeOf(a, row, price, reason, cost) ==
  [signal |-> a.signal, entered |-> a.entered, exited |-> row,
   reason |-> reason, staked |-> a.staked,
   pnl |-> a.lots * (price - cost * (Slip + Fee) - a.entry - cost * Fee)]

-----------------------------------------------------------------------------
(* process_bar, in the order of the code.  A step is a record of the account *)
(* so far, the trades closed on this bar and what the later rules ask.       *)

MissesBar(a, slot) == a.bar # NoBar /\ slot # a.bar + 1

\* A gap drops the pending signal, and halts or leaves the exit to SellReason.
AfterGap(a, slot, haltOnGap) ==
  IF ~MissesBar(a, slot) THEN a
  ELSE [a EXCEPT !.pending = NoSignal,
                 !.halt = IF haltOnGap THEN Frozen(a) ELSE @]

\* The first rule that sells at the open; gap is gap_requires_exit.
SellReason(a, slot, gap, mode) ==
  IF ~Open(a) THEN "none"
  ELSE IF gap THEN "market_data_gap"
  ELSE IF a.halt # "ACTIVE" THEN "risk_halt"
  ELSE IF mode = "expected_return" /\ slot >= a.exitAt THEN "horizon_exit"
  ELSE IF mode = "probability" /\ a.pending.does = "exit" THEN "model_exit"
  ELSE "none"

Sold(a, row, price, reason, cost) ==
  LET sold == SellAll(a, price, cost)
      \* both sale branches write HALTED over a halt that was pending
      halted == IF sold.halt = "HALT_PENDING" \/ reason = "risk_halt"
                THEN [sold EXCEPT !.halt = "HALTED"] ELSE sold
  IN [acct |-> IF reason \in {"market_data_gap", "risk_halt", "end_of_run"}
               THEN halted ELSE sold,
      trades |-> {TradeOf(a, row, price, reason, cost)}]

SoldAtOpen(a, row, slot, gap, mode, open, cost) ==
  LET reason == SellReason(a, slot, gap, mode)
  IN IF reason = "none" THEN [acct |-> a, trades |-> {}]
     ELSE Sold(a, row, open, reason, cost)

\* Faulty variant: the cooldown is not asked.
EntersDuringCooldown(a, sold) ==
  ~Open(a) /\ a.halt = "ACTIVE" /\ ~sold /\ a.pending.does = "enter"

MayEnter(a, sold) ==
  /\ ~Open(a) /\ a.halt = "ACTIVE" /\ ~sold
  /\ a.cooldown = 0
  /\ a.pending.does = "enter"

\* Faulty variant: the horizon starts at the signal's bar.
EnteredFromSignal(a, sold, row, slot, mode, open, cost) ==
  LET lots == SizeEntry(a.cash, open, a.pending.stop, cost)
  IN IF ~MayEnter(a, sold) \/ lots = 0 THEN a
     ELSE Buy(a, row, open, lots, StopDistance(a.pending.stop),
              IF mode = "expected_return" THEN slot - 1 + HoldBars ELSE 0, cost)

\* The entry at the open on the signal of the bar before.
Entered(a, sold, row, slot, mode, open, cost) ==
  LET lots == SizeEntry(a.cash, open, a.pending.stop, cost)
  IN IF ~MayEnter(a, sold) \/ lots = 0 THEN a
     ELSE Buy(a, row, open, lots, StopDistance(a.pending.stop),
              IF mode = "expected_return" THEN slot + HoldBars ELSE 0, cost)

\* The higher of the fixed and the trailing stop, rounded down to a price.
StopLevel(a) ==
  Max({a.entry * (100 - a.stop), a.peak * (100 - TrailingPct)}) \div 100

Stopped(a, row, c, cost) ==
  IF ~Open(a) THEN [acct |-> a, trades |-> {}]
  ELSE IF c.low <= StopLevel(a)
  THEN LET price == Min({c.open, StopLevel(a)})
           sold == SellAll(a, price, cost)
       IN [acct |-> [sold EXCEPT !.cooldown = CooldownBars],
           trades |-> {TradeOf(a, row, price,
                               IF c.open > StopLevel(a) THEN "stop" ELSE "stop_gap",
                               cost)}]
  ELSE [acct |-> [a EXCEPT !.peak = Max({@, c.high})], trades |-> {}]

Equity(a, close, cost) ==
  IF Open(a) THEN a.cash + a.lots * (close - cost * (Slip + Fee)) ELSE a.cash

\* Faulty variant: a breach with an open position does not halt.
MarkedWhenFlat(a, close, cost) ==
  LET equity == Equity(a, close, cost)
      top == Max({a.top, equity})
      breached == a.halt = "ACTIVE" /\ ~Open(a) /\ (top - equity) * 100 >= top * DrawdownPct
  IN [a EXCEPT !.top = top, !.halt = IF breached THEN Frozen(a) ELSE @]

\* The drawdown from the highest equity so far, at the close.
Marked(a, close, cost) ==
  LET equity == Equity(a, close, cost)
      top == Max({a.top, equity})
      breached == a.halt = "ACTIVE" /\ (top - equity) * 100 >= top * DrawdownPct
  IN [a EXCEPT !.top = top, !.halt = IF breached THEN Frozen(a) ELSE @]

\* Faulty variant: the bar of the stop counts.
CooledOnStopBar(a, before, stopped) ==
  IF before > 0 \/ stopped THEN [a EXCEPT !.cooldown = Max({0, @ - 1})] ELSE a

CooledDown(a, before, stopped) ==
  IF before > 0 /\ ~stopped THEN [a EXCEPT !.cooldown = before - 1] ELSE a

\* The signal for the next open; a halted account keeps none.
Pended(a, slot, signal) ==
  [a EXCEPT !.bar = slot,
            !.pending = IF a.halt = "ACTIVE" THEN signal ELSE NoSignal]

\* The account after one bar and the trades closed on it.
Processed(a, row, slot, c, signal, mode, haltOnGap, cost) ==
  LET gap == MissesBar(a, slot) /\ ~haltOnGap
      ready == AfterGap(a, slot, haltOnGap)
      opened == SoldAtOpen(ready, row, slot, gap, mode, c.open, cost)
      entered == Entered(opened.acct, opened.trades # {}, row, slot, mode, c.open, cost)
      stopped == Stopped(entered, row, c, cost)
      marked == Marked(stopped.acct, c.close, cost)
      cooled == CooledDown(marked, a.cooldown, stopped.trades # {})
  IN [acct |-> Pended(cooled, slot, signal),
      trades |-> opened.trades \cup stopped.trades]

\* liquidate, at the close of the last bar.
Liquidated(a, row, close, cost) ==
  IF ~Open(a) THEN [acct |-> a, trades |-> {}]
  ELSE Sold(a, row + 1, close, "end_of_run", cost)

=============================================================================
