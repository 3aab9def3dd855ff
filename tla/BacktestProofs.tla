--------------------------- MODULE BacktestProofs ---------------------------
(***************************************************************************)
(* Proofs about a backtest: the frame the table gives, what the bars may *)
(* do to the account, what a stop may cost and what a model may know, for  *)
(* any frame, any predictions, any bars and any costs.                     *)
(***************************************************************************)
EXTENDS Backtest, SetFacts

SignalType == [does : {"none", "hold", "exit", "enter"}, stop : Nat, row : Nat]
Halt == {"ACTIVE", "HALT_PENDING", "HALTED"}

AccountType ==
  [cash : Int, top : Int, halt : Halt, cooldown : Nat, bar : {NoBar} \cup Nat,
   pending : SignalType, lots : Nat, entry : Int, stop : Nat, peak : Int,
   exitAt : Int, entered : Nat, signal : Nat, staked : Int]

-----------------------------------------------------------------------------
(* The rules of a bar, one by one *)

\* The position, apart from its highest price.
Same(a, b) ==
  /\ b.lots = a.lots /\ b.entry = a.entry /\ b.stop = a.stop
  /\ b.exitAt = a.exitAt /\ b.entered = a.entered /\ b.signal = a.signal
  /\ b.staked = a.staked

\* A halt is pending as long as there is something to sell.
HaltFits(a) ==
  /\ a.halt = "HALT_PENDING" => Open(a)
  /\ a.halt = "HALTED" => ~Open(a)

LEMMA MaxOfTwo ==
  ASSUME NEW x \in Int, NEW y \in Int
  PROVE  Max({x, y}) = IF x >= y THEN x ELSE y
BY DEF Max

LEMMA MinOfTwo ==
  ASSUME NEW x \in Int, NEW y \in Int
  PROVE  Min({x, y}) = IF x <= y THEN x ELSE y
BY DEF Min

LEMMA MinOfThree ==
  ASSUME NEW x \in Int, NEW y \in Int, NEW z \in Int
  PROVE  LET m == Min({x, y, z}) IN m \in Int /\ m <= x /\ m <= y /\ m <= z
BY DEF Min

\* The sizes are numbers.
LEMMA Sizes ==
  /\ {InitialCash, MinLots, HoldBars, Interval, PageSize, Wanted} \subseteq Nat \ {0}
  /\ {Fee, Slip, CooldownBars} \subseteq Nat
  /\ {RiskPct, AllocationPct, MinStop, MaxStop, TrailingPct, DrawdownPct} \subseteq 1..100
BY BarEngineAssumption, BacktestAssumption

LEMMA BarSizes ==
  ASSUME NEW c \in Bar
  PROVE  {c.open, c.high, c.low, c.close} \subseteq Nat \ {0}
BY BacktestAssumption

\* A gap touches the pending signal, and the halt where gaps halt.
LEMMA GapFields ==
  ASSUME NEW a \in AccountType, NEW slot, NEW haltOnGap \in BOOLEAN
  PROVE  LET b == AfterGap(a, slot, haltOnGap)
         IN /\ b \in AccountType /\ Same(a, b)
            /\ b.cash = a.cash /\ b.top = a.top /\ b.cooldown = a.cooldown /\ b.bar = a.bar
            /\ ~MissesBar(a, slot) => b = a
            /\ MissesBar(a, slot) => b.pending = NoSignal
            /\ a.halt # "ACTIVE" => b.halt # "ACTIVE"
            /\ MissesBar(a, slot) /\ haltOnGap => b.halt # "ACTIVE"
            /\ MissesBar(a, slot) /\ ~haltOnGap => b.halt = a.halt
            /\ HaltFits(a) => HaltFits(b)
<1>1. NoSignal \in SignalType
  BY DEF NoSignal, SignalType
<1>2. CASE MissesBar(a, slot)
  <2>1. Frozen(a) \in Halt
    BY DEF Frozen, Halt
  <2>2. AfterGap(a, slot, haltOnGap) =
          [a EXCEPT !.pending = NoSignal, !.halt = IF haltOnGap THEN Frozen(a) ELSE @]
    BY <1>2 DEF AfterGap
  <2> DEFINE b == AfterGap(a, slot, haltOnGap)
  <2>3. /\ b \in AccountType /\ Same(a, b)
        /\ b.cash = a.cash /\ b.top = a.top /\ b.cooldown = a.cooldown /\ b.bar = a.bar
        /\ b.pending = NoSignal /\ b.halt = IF haltOnGap THEN Frozen(a) ELSE a.halt
    BY <1>1, <2>1, <2>2 DEF AccountType, Same
  <2> HIDE DEF b
  <2>4. Open(b) <=> Open(a)
    BY <2>3 DEF Same, Open
  <2>5. /\ a.halt # "ACTIVE" => b.halt # "ACTIVE"
        /\ HaltFits(a) => HaltFits(b)
    BY <2>3, <2>4 DEF HaltFits, Frozen
  <2>6. /\ haltOnGap => b.halt # "ACTIVE"
        /\ ~haltOnGap => b.halt = a.halt
    BY <2>3 DEF Frozen
  <2> QED
    BY <1>2, <2>3, <2>5, <2>6 DEF b
<1>3. CASE ~MissesBar(a, slot)
  BY <1>3 DEF AfterGap, Same
<1> QED
  BY <1>2, <1>3

\* A sale empties the position and leaves the rest but the cash.
LEMMA SellFields ==
  ASSUME NEW a \in AccountType, NEW price \in Int, NEW cost \in Nat
  PROVE  LET b == SellAll(a, price, cost)
         IN /\ b \in AccountType /\ ~Open(b)
            /\ b.top = a.top /\ b.halt = a.halt /\ b.cooldown = a.cooldown
            /\ b.bar = a.bar /\ b.pending = a.pending
<1>0. 0 \in Int /\ 0 \in Nat
  OBVIOUS
<1>1. a.cash + a.lots * (price - cost * (Slip + Fee)) \in Int
  BY Sizes DEF AccountType
<1> DEFINE b == SellAll(a, price, cost)
           b1 == [a EXCEPT !.cash = @ + a.lots * (price - cost * (Slip + Fee)), !.lots = 0]
           b2 == [b1 EXCEPT !.entry = 0, !.stop = 0]
           b3 == [b2 EXCEPT !.peak = 0, !.exitAt = 0]
           b4 == [b3 EXCEPT !.entered = 0, !.signal = 0]
           b5 == [b4 EXCEPT !.staked = 0]
<1>2. b \in AccountType
  <2>1. b1 \in AccountType
    BY <1>1 DEF AccountType
  <2>2. b2 \in AccountType
    <3> HIDE DEF b1
    <3> QED  BY <2>1, <1>0 DEF AccountType
  <2>3. b3 \in AccountType
    <3> HIDE DEF b2
    <3> QED  BY <2>2, <1>0 DEF AccountType
  <2>4. b4 \in AccountType
    <3> HIDE DEF b3
    <3> QED  BY <2>3 DEF AccountType
  <2>5. b5 \in AccountType
    <3> HIDE DEF b4
    <3> QED  BY <2>4 DEF AccountType
  <2>6. b = b5
    BY DEF SellAll
  <2> HIDE DEF b, b5
  <2> QED
    BY <2>5, <2>6
<1>3. /\ b.lots = 0 /\ b.top = a.top /\ b.halt = a.halt /\ b.cooldown = a.cooldown
      /\ b.bar = a.bar /\ b.pending = a.pending
  BY DEF SellAll, AccountType
<1> HIDE DEF b
<1>4. ~Open(b)
  BY <1>3 DEF Open
<1> QED
  BY <1>2, <1>3, <1>4 DEF b

LEMMA SoldFields ==
  ASSUME NEW a \in AccountType, NEW price \in Int, NEW cost \in Nat, NEW reason, NEW now
  PROVE  LET s == Sold(a, now, price, reason, cost)
         IN /\ s.acct \in AccountType /\ ~Open(s.acct)
            /\ s.acct.top = a.top /\ s.acct.cooldown = a.cooldown
            /\ s.acct.bar = a.bar /\ s.acct.pending = a.pending
            /\ s.trades = {TradeOf(a, now, price, reason, cost)}
            /\ (a.halt = "ACTIVE" /\ reason # "risk_halt") => s.acct.halt = "ACTIVE"
            /\ (a.halt # "ACTIVE" /\ reason \in {"market_data_gap", "risk_halt", "end_of_run"})
                 => s.acct.halt = "HALTED"
<1> DEFINE sold == SellAll(a, price, cost)
           halted == IF sold.halt = "HALT_PENDING" \/ reason = "risk_halt"
                     THEN [sold EXCEPT !.halt = "HALTED"] ELSE sold
<1>1. /\ sold \in AccountType /\ ~Open(sold)
      /\ sold.top = a.top /\ sold.halt = a.halt /\ sold.cooldown = a.cooldown
      /\ sold.bar = a.bar /\ sold.pending = a.pending
  BY SellFields
<1> HIDE DEF sold
<1>2. /\ halted \in AccountType /\ ~Open(halted)
      /\ halted.top = a.top /\ halted.cooldown = a.cooldown
      /\ halted.bar = a.bar /\ halted.pending = a.pending
      /\ (a.halt = "ACTIVE" /\ reason # "risk_halt") => halted.halt = "ACTIVE"
      /\ a.halt # "ACTIVE" => halted.halt = "HALTED"
  BY <1>1 DEF AccountType, Halt, Open
<1> DEFINE left == IF reason \in {"market_data_gap", "risk_halt", "end_of_run"}
                   THEN halted ELSE sold
<1>3. Sold(a, now, price, reason, cost) =
        [acct |-> left, trades |-> {TradeOf(a, now, price, reason, cost)}]
  BY DEF Sold, sold
<1> HIDE DEF halted
<1> QED
  BY <1>1, <1>2, <1>3

\* What is left of a quotient.
LEMMA DivTimes ==
  ASSUME NEW x \in Int, NEW d \in Nat \ {0}, NEW q \in Nat, q <= x \div d
  PROVE  q * d <= x
<1>1. (x \div d) \in Int /\ (x \div d) * d <= x
  <2>1. ASSUME NEW z \in Int PROVE (z \div d) \in Int /\ d * (z \div d) <= z
    BY SMTT(30)
  <2> QED
    BY <2>1
<1>2. ASSUME NEW y \in Int, q <= y PROVE q * d <= y * d
  BY <1>2
<1> QED
  BY <1>1, <1>2

\* What an entry buys: the position of p is bought at the open of this row, on
\* the pending signal of a, with no more at risk than the budget.
Bought(p, a, now, slot, mode, open, cost) ==
  /\ Open(p) /\ p.entered = now /\ p.signal = a.pending.row
  /\ mode = "expected_return" => p.exitAt = slot + HoldBars
  /\ p.entry = open + cost * Slip
  /\ p.stop \in 1..100 /\ p.stop <= MaxStop
  /\ p.lots \in Nat /\ p.staked \in Int
  /\ p.lots * (open * p.stop + 200 * cost * (Fee + Slip)) <= p.staked * RiskPct

LEMMA SizeFits ==
  ASSUME NEW cash \in Int, NEW price \in Nat \ {0}, NEW raw \in Nat, NEW cost \in Nat,
         SizeEntry(cash, price, raw, cost) # 0
  PROVE  LET lots == SizeEntry(cash, price, raw, cost)
             stop == StopDistance(raw)
         IN /\ lots \in Nat /\ lots > 0
            /\ stop \in 1..100 /\ stop <= MaxStop
            /\ lots * (price * stop + 200 * cost * (Fee + Slip)) <= cash * RiskPct
<1> DEFINE stop == StopDistance(raw)
           d == price * stop + 200 * cost * (Fee + Slip)
           lots == SizeEntry(cash, price, raw, cost)
<1>1. raw # 0 /\ raw <= MaxStop
  BY Sizes DEF SizeEntry
<1>2. stop \in 1..100 /\ stop <= MaxStop
  BY <1>1, Sizes, BarEngineAssumption DEF StopDistance
<1> HIDE DEF stop
<1>3. lots = LotsAllowed(cash, price, stop, cost) /\ lots >= MinLots
  BY <1>1 DEF SizeEntry, stop
<1>4. d \in Nat \ {0} /\ price * 100 \in Nat \ {0}
      /\ price + cost * (Slip + Fee) \in Nat \ {0}
  <2>1. price * stop \in Nat \ {0}
    BY <1>2
  <2>2. 200 * cost * (Fee + Slip) \in Nat /\ cost * (Slip + Fee) \in Nat
    BY Sizes
  <2> QED
    BY <2>1, <2>2
<1> HIDE DEF d
<1>5. cash * RiskPct \in Int /\ cash * AllocationPct \in Int
  BY Sizes
<1> DEFINE risk == (cash * RiskPct) \div d
           allocation == (cash * AllocationPct) \div (price * 100)
           whole == cash \div (price + cost * (Slip + Fee))
<1>6. risk \in Int /\ allocation \in Int /\ whole \in Int
  BY <1>4, <1>5
<1>7. lots \in Int /\ lots <= (cash * RiskPct) \div d
  <2>1. lots = Min({risk, allocation, whole})
    BY <1>3 DEF LotsAllowed, d
  <2> HIDE DEF risk, allocation, whole, lots
  <2>2. lots \in Int /\ lots <= risk
    BY <2>1, <1>6, MinOfThree
  <2> QED
    BY <2>2 DEF risk
<1>8. lots \in Nat /\ lots > 0
  BY <1>3, <1>7, Sizes
<1>9. lots * d <= cash * RiskPct
  BY <1>4, <1>5, <1>7, <1>8, DivTimes
<1> QED
  BY <1>2, <1>8, <1>9 DEF stop, d

\* An entry follows the pending signal of an account that may trade, or it
\* leaves the account as it is.
Enters(a, e, sold, now, slot, mode, open, cost) ==
  /\ MayEnter(a, sold) /\ Bought(e, a, now, slot, mode, open, cost)
  /\ e \in AccountType
  /\ e.top = a.top /\ e.halt = a.halt /\ e.cooldown = a.cooldown
  /\ e.bar = a.bar /\ e.pending = a.pending

LEMMA EnteredFields ==
  ASSUME NEW a \in AccountType, NEW sold \in BOOLEAN, NEW now \in Nat, NEW slot \in Nat,
         NEW mode, NEW open \in Nat \ {0}, NEW cost \in Nat,
         NEW e, e = Entered(a, sold, now, slot, mode, open, cost)
  PROVE  e = a \/ Enters(a, e, sold, now, slot, mode, open, cost)
<1> DEFINE raw == a.pending.stop
           lots == SizeEntry(a.cash, open, raw, cost)
           stop == StopDistance(raw)
           exitAt == IF mode = "expected_return" THEN slot + HoldBars ELSE 0
<1>1. CASE ~MayEnter(a, sold) \/ lots = 0
  BY <1>1 DEF Entered
<1>2. CASE MayEnter(a, sold) /\ lots # 0
  <2> DEFINE b == Buy(a, now, open, lots, stop, exitAt, cost)
  <2>1. Entered(a, sold, now, slot, mode, open, cost) = b
    BY <1>2 DEF Entered
  <2>2. raw \in Nat /\ a.cash \in Int /\ a.pending.row \in Nat
    BY DEF AccountType, SignalType
  <2>3. /\ lots \in Nat /\ lots > 0
        /\ stop \in 1..100 /\ stop <= MaxStop
        /\ lots * (open * stop + 200 * cost * (Fee + Slip)) <= a.cash * RiskPct
    BY <1>2, <2>2, SizeFits, SMTT(20)
  <2>4. exitAt \in Int
    BY Sizes
  <2> HIDE DEF lots, stop, exitAt
  <2>5. /\ open + cost * Slip \in Int /\ stop \in Nat
        /\ a.cash - lots * (open + cost * (Slip + Fee)) \in Int
    BY <2>2, <2>3, Sizes
  <2> DEFINE b1 == [a EXCEPT !.cash = @ - lots * (open + cost * (Slip + Fee)), !.lots = lots]
             b2 == [b1 EXCEPT !.entry = open + cost * Slip, !.stop = stop]
             b3 == [b2 EXCEPT !.peak = open + cost * Slip, !.exitAt = exitAt]
             b4 == [b3 EXCEPT !.entered = now, !.signal = a.pending.row]
             b5 == [b4 EXCEPT !.staked = a.cash]
  <2>6. b \in AccountType
    <3>1. b1 \in AccountType
      BY <2>3, <2>5 DEF AccountType
    <3>2. b2 \in AccountType
      <4> HIDE DEF b1
      <4> QED  BY <2>3, <2>5, <3>1 DEF AccountType
    <3>3. b3 \in AccountType
      <4> HIDE DEF b2
      <4> QED  BY <2>4, <2>5, <3>2 DEF AccountType
    <3>4. b4 \in AccountType
      <4> HIDE DEF b3
      <4> QED  BY <2>2, <3>3 DEF AccountType
    <3>5. b5 \in AccountType
      <4> HIDE DEF b4
      <4> QED  BY <2>2, <3>4 DEF AccountType
    <3>6. b = b5
      BY DEF Buy
    <3> HIDE DEF b, b5
    <3> QED
      BY <3>5, <3>6
  <2>7. /\ b.lots = lots /\ b.entry = open + cost * Slip /\ b.stop = stop
        /\ b.exitAt = exitAt /\ b.entered = now /\ b.signal = a.pending.row
        /\ b.staked = a.cash
        /\ b.top = a.top /\ b.halt = a.halt /\ b.cooldown = a.cooldown
        /\ b.bar = a.bar /\ b.pending = a.pending
    BY DEF Buy, AccountType
  <2> HIDE DEF b
  <2>8. Bought(b, a, now, slot, mode, open, cost)
    BY <2>2, <2>3, <2>7 DEF Bought, Open, exitAt
  <2> QED
    BY <1>2, <2>1, <2>6, <2>7, <2>8 DEF Enters
<1> QED
  BY <1>1, <1>2

\* A trade of the position of p, which loses no more than the fixed stop allows
\* where its stop closes it during the bar.
TradeFrom(t, p, now, cost) ==
  /\ t.signal = p.signal /\ t.entered = p.entered /\ t.exited = now
  /\ t.staked = p.staked
  /\ t.reason = "stop" =>
       /\ t.pnl \in Int
       /\ t.pnl >= p.lots * ((p.entry * (100 - p.stop)) \div 100
                             - cost * (Slip + Fee) - p.entry - cost * Fee)

LEMMA LevelAboveFixed ==
  ASSUME NEW a \in AccountType
  PROVE  StopLevel(a) \in Int /\ StopLevel(a) >= (a.entry * (100 - a.stop)) \div 100
<1> DEFINE x == a.entry * (100 - a.stop)
           y == a.peak * (100 - TrailingPct)
<1>1. x \in Int /\ y \in Int
  BY Sizes DEF AccountType
<1>2. StopLevel(a) = Max({x, y}) \div 100
  BY DEF StopLevel
<1> HIDE DEF x, y
<1>3. Max({x, y}) \in Int /\ Max({x, y}) >= x
  BY <1>1, MaxOfTwo
<1>4. ASSUME NEW u \in Int, NEW v \in Int, u >= v
      PROVE  (u \div 100) \in Int /\ u \div 100 >= v \div 100
  BY <1>4
<1>5. StopLevel(a) \in Int /\ StopLevel(a) >= x \div 100
  BY <1>1, <1>2, <1>3, <1>4
<1> QED
  BY <1>5 DEF x

\* The stop of a bar: nothing without a position, a sale, or a new highest
\* price.
StopOf(a, s, now, cost) ==
  \/ ~Open(a) /\ s.acct = a /\ s.trades = {}
  \/ /\ Open(a) /\ Open(s.acct) /\ Same(a, s.acct) /\ s.trades = {}
     /\ s.acct.cooldown = a.cooldown
  \/ /\ Open(a) /\ ~Open(s.acct) /\ s.acct.cooldown = CooldownBars
     /\ \E t : /\ s.trades = {t} /\ t.reason \in {"stop", "stop_gap"}
               /\ TradeFrom(t, a, now, cost)

LEMMA StoppedFields ==
  ASSUME NEW a \in AccountType, NEW now \in Nat, NEW c \in Bar, NEW cost \in Nat,
         NEW s, s = Stopped(a, now, c, cost)
  PROVE  /\ s.acct \in AccountType
         /\ s.acct.top = a.top /\ s.acct.halt = a.halt
         /\ s.acct.bar = a.bar /\ s.acct.pending = a.pending
         /\ StopOf(a, s, now, cost)
<1> DEFINE level == StopLevel(a)
<1>0. level \in Int /\ level >= (a.entry * (100 - a.stop)) \div 100
  BY LevelAboveFixed
<1>1. c.open \in Int /\ c.high \in Int /\ c.low \in Int
  BY BarSizes
<1>2. CASE ~Open(a)
  BY <1>2 DEF Stopped, StopOf
<1>3. CASE Open(a) /\ c.low > level
  <2> DEFINE peak == Max({a.peak, c.high})
             b == [a EXCEPT !.peak = peak]
  <2>1. s = [acct |-> b, trades |-> {}]
    BY <1>0, <1>1, <1>3 DEF Stopped
  <2>2. peak \in Int
    BY <1>1, MaxOfTwo DEF AccountType
  <2> HIDE DEF peak
  <2>3. /\ b \in AccountType /\ Same(a, b)
        /\ b.top = a.top /\ b.halt = a.halt /\ b.cooldown = a.cooldown
        /\ b.bar = a.bar /\ b.pending = a.pending
    BY <2>2 DEF AccountType, Same
  <2> HIDE DEF b
  <2>4. Open(b)
    BY <1>3, <2>3 DEF Open, Same
  <2>5. s.acct = b /\ s.trades = {}
    BY <2>1
  <2>6. /\ s.acct \in AccountType
        /\ s.acct.top = a.top /\ s.acct.halt = a.halt
        /\ s.acct.bar = a.bar /\ s.acct.pending = a.pending
        /\ Open(a) /\ Open(s.acct) /\ Same(a, s.acct) /\ s.trades = {}
        /\ s.acct.cooldown = a.cooldown
    BY <1>3, <2>3, <2>4, <2>5
  <2> QED
    BY <2>6 DEF StopOf
<1>4. CASE Open(a) /\ ~(c.low > level)
  <2> DEFINE price == Min({c.open, level})
             sold == SellAll(a, price, cost)
             b == [sold EXCEPT !.cooldown = CooldownBars]
             reason == IF c.open > level THEN "stop" ELSE "stop_gap"
             t == TradeOf(a, now, price, reason, cost)
  <2>1. s = [acct |-> b, trades |-> {t}]
    BY <1>0, <1>1, <1>4 DEF Stopped
  <2>2. price \in Int /\ (c.open > level => price = level)
    BY <1>0, <1>1, MinOfTwo
  <2>3. /\ sold \in AccountType /\ ~Open(sold)
        /\ sold.top = a.top /\ sold.halt = a.halt /\ sold.cooldown = a.cooldown
        /\ sold.bar = a.bar /\ sold.pending = a.pending
    BY <2>2, SellFields
  <2> HIDE DEF sold
  <2>4. /\ b \in AccountType /\ b.lots = sold.lots
        /\ b.top = a.top /\ b.halt = a.halt /\ b.cooldown = CooldownBars
        /\ b.bar = a.bar /\ b.pending = a.pending
    BY <2>3, Sizes DEF AccountType
  <2> HIDE DEF b
  <2>5. ~Open(b)
    BY <2>3, <2>4 DEF Open
  <2>6. /\ t.signal = a.signal /\ t.entered = a.entered /\ t.exited = now
        /\ t.staked = a.staked /\ t.reason = reason
        /\ t.pnl = a.lots * (price - cost * (Slip + Fee) - a.entry - cost * Fee)
    BY DEF TradeOf
  <2>7. t.reason = "stop" =>
          /\ t.pnl \in Int
          /\ t.pnl >= a.lots * ((a.entry * (100 - a.stop)) \div 100
                                - cost * (Slip + Fee) - a.entry - cost * Fee)
    <3> DEFINE fixed == (a.entry * (100 - a.stop)) \div 100
               rest == cost * (Slip + Fee) + a.entry + cost * Fee
    <3>1. fixed \in Int /\ rest \in Int /\ a.lots \in Nat
      BY Sizes DEF AccountType
    <3>2. fixed - cost * (Slip + Fee) - a.entry - cost * Fee = fixed - rest
          /\ price - cost * (Slip + Fee) - a.entry - cost * Fee = price - rest
      BY <2>2, Sizes DEF AccountType
    <3>3. t.reason = "stop" => price = level /\ level >= fixed
      BY <1>0, <2>2, <2>6
    <3> HIDE DEF fixed, rest, t, price, reason, level
    <3>4. ASSUME NEW l \in Nat, NEW x \in Int, NEW y \in Int, x >= y PROVE l * x >= l * y
      BY <3>4
    <3>5. price - rest \in Int /\ fixed - rest \in Int
      BY <2>2, <3>1
    <3>6. t.reason = "stop" => a.lots * (price - rest) >= a.lots * (fixed - rest)
      BY <1>0, <2>2, <3>1, <3>3, <3>4, <3>5
    <3>7. t.pnl = a.lots * (price - rest) /\ t.pnl \in Int
      BY <2>6, <3>1, <3>2, <3>5
    <3>8. t.reason = "stop" =>
            t.pnl \in Int /\ t.pnl >= a.lots * (fixed - cost * (Slip + Fee) - a.entry - cost * Fee)
      BY <3>2, <3>6, <3>7
    <3> QED
      BY <3>8 DEF fixed
  <2>8. TradeFrom(t, a, now, cost) /\ t.reason \in {"stop", "stop_gap"}
    <3> HIDE DEF t
    <3> QED  BY <2>6, <2>7 DEF TradeFrom
  <2> HIDE DEF t
  <2>9. s.acct = b /\ s.trades = {t}
    BY <2>1
  <2>10. /\ s.acct \in AccountType
         /\ s.acct.top = a.top /\ s.acct.halt = a.halt
         /\ s.acct.bar = a.bar /\ s.acct.pending = a.pending
         /\ ~Open(s.acct) /\ s.acct.cooldown = CooldownBars
    BY <2>4, <2>5, <2>9
  <2> QED
    BY <1>4, <2>8, <2>9, <2>10 DEF StopOf
<1> QED
  BY <1>2, <1>3, <1>4

\* The close of a bar: the highest equity is kept, and a breach of the drawdown
\* limit halts.
LEMMA MarkedFields ==
  ASSUME NEW a \in AccountType, NEW close \in Int, NEW cost \in Nat,
         a.halt # "ACTIVE" => ~Open(a), HaltFits(a)
  PROVE  LET b == Marked(a, close, cost)
         IN /\ b \in AccountType /\ Same(a, b) /\ HaltFits(b)
            /\ b.cash = a.cash /\ b.cooldown = a.cooldown /\ b.bar = a.bar
            /\ b.pending = a.pending
            /\ a.halt # "ACTIVE" => b.halt # "ACTIVE"
            /\ (b.top - Equity(b, close, cost)) * 100 >= b.top * DrawdownPct
                 => b.halt # "ACTIVE"
<1> DEFINE equity == Equity(a, close, cost)
           top == Max({a.top, equity})
           breached == a.halt = "ACTIVE" /\ (top - equity) * 100 >= top * DrawdownPct
           halt == IF breached THEN Frozen(a) ELSE a.halt
           b == Marked(a, close, cost)
<1>1. equity \in Int
  BY Sizes DEF Equity, AccountType
<1>2. top \in Int
  BY <1>1, MaxOfTwo DEF AccountType
<1>3. halt \in Halt /\ (breached => halt # "ACTIVE") /\ (a.halt # "ACTIVE" => halt = a.halt)
  BY DEF Frozen, Halt, AccountType
<1>4. b = [a EXCEPT !.top = top, !.halt = halt]
  BY DEF Marked
<1>5. ~breached => halt = a.halt
  OBVIOUS
<1>6. breached => halt = Frozen(a)
  OBVIOUS
<1> HIDE DEF top, halt, b
<1>7. /\ b \in AccountType /\ Same(a, b)
      /\ b.cash = a.cash /\ b.cooldown = a.cooldown /\ b.bar = a.bar
      /\ b.pending = a.pending /\ b.top = top /\ b.halt = halt
  BY <1>2, <1>3, <1>4 DEF AccountType, Same
<1>8. (Open(b) <=> Open(a)) /\ Equity(b, close, cost) = equity
  BY <1>7 DEF Open, Same, Equity
<1> HIDE DEF equity
<1>9. (b.top - Equity(b, close, cost)) * 100 >= b.top * DrawdownPct => b.halt # "ACTIVE"
  BY <1>3, <1>5, <1>7, <1>8
<1>10. HaltFits(b)
  BY <1>5, <1>6, <1>7, <1>8 DEF HaltFits, Frozen
<1> QED
  BY <1>3, <1>7, <1>9, <1>10 DEF b

\* A trade of the position of a at the open.
SoldAs(t, a, now, slot, gap, mode, cost) ==
  /\ TradeFrom(t, a, now, cost)
  /\ t.reason \notin {"stop", "stop_gap"}
  /\ t.reason = "horizon_exit" =>
       ~gap /\ a.halt = "ACTIVE" /\ mode = "expected_return" /\ slot >= a.exitAt
  /\ gap \/ a.halt # "ACTIVE" => t.reason \in {"market_data_gap", "risk_halt"}

\* What the open leaves and closes: the account as it is, or without position.
OpenSale(a, o, now, slot, gap, mode, cost) ==
  \/ /\ o.acct = a /\ o.trades = {}
     /\ Open(a) => /\ ~gap /\ a.halt = "ACTIVE"
                   /\ mode = "expected_return" => slot < a.exitAt
  \/ /\ Open(a) /\ ~Open(o.acct) /\ o.acct \in AccountType /\ HaltFits(o.acct)
     /\ o.acct.top = a.top /\ o.acct.cooldown = a.cooldown
     /\ o.acct.bar = a.bar /\ o.acct.pending = a.pending
     /\ (a.halt # "ACTIVE" => o.acct.halt # "ACTIVE")
     /\ \E t : o.trades = {t} /\ SoldAs(t, a, now, slot, gap, mode, cost)

LEMMA SoldAtOpenFields ==
  ASSUME NEW a \in AccountType, HaltFits(a), NEW now \in Nat, NEW slot \in Nat,
         NEW gap \in BOOLEAN, NEW mode, NEW open \in Int, NEW cost \in Nat,
         NEW o, o = SoldAtOpen(a, now, slot, gap, mode, open, cost)
  PROVE  OpenSale(a, o, now, slot, gap, mode, cost)
<1> DEFINE reason == SellReason(a, slot, gap, mode)
           t == TradeOf(a, now, open, reason, cost)
<1>0. a.exitAt \in Int
  BY DEF AccountType
<1>1. CASE reason = "none"
  <2>1. o.acct = a /\ o.trades = {}
    BY <1>1 DEF SoldAtOpen
  <2>2. Open(a) => /\ ~gap /\ a.halt = "ACTIVE"
                   /\ mode = "expected_return" => ~(slot >= a.exitAt)
    BY <1>1 DEF SellReason
  <2>3. slot < a.exitAt \/ slot >= a.exitAt
    BY <1>0
  <2> QED
    BY <2>1, <2>2, <2>3 DEF OpenSale
<1>2. CASE reason # "none"
  <2>1. /\ Open(a)
        /\ reason \in {"market_data_gap", "risk_halt", "horizon_exit", "model_exit"}
        /\ reason = "horizon_exit" =>
             ~gap /\ a.halt = "ACTIVE" /\ mode = "expected_return" /\ slot >= a.exitAt
        /\ gap \/ a.halt # "ACTIVE" => reason \in {"market_data_gap", "risk_halt"}
        /\ reason = "risk_halt" => a.halt # "ACTIVE"
    BY <1>2 DEF SellReason
  <2>2. o = Sold(a, now, open, reason, cost)
    BY <1>2 DEF SoldAtOpen
  <2> HIDE DEF reason
  <2>3. /\ o.acct \in AccountType /\ ~Open(o.acct)
        /\ o.acct.top = a.top /\ o.acct.cooldown = a.cooldown
        /\ o.acct.bar = a.bar /\ o.acct.pending = a.pending
        /\ o.trades = {t}
        /\ (a.halt = "ACTIVE" /\ reason # "risk_halt") => o.acct.halt = "ACTIVE"
        /\ (a.halt # "ACTIVE" /\ reason \in {"market_data_gap", "risk_halt", "end_of_run"})
             => o.acct.halt = "HALTED"
    BY <2>2, SoldFields
  <2>4. /\ t.signal = a.signal /\ t.entered = a.entered /\ t.exited = now
        /\ t.staked = a.staked /\ t.reason = reason
    BY DEF TradeOf
  <2> HIDE DEF t
  <2>5. SoldAs(t, a, now, slot, gap, mode, cost)
    BY <2>1, <2>4 DEF TradeFrom, SoldAs
  <2>6. o.acct.halt \in {"ACTIVE", "HALTED"} /\ (a.halt # "ACTIVE" => o.acct.halt # "ACTIVE")
    BY <2>1, <2>3
  <2>7. HaltFits(o.acct)
    BY <2>3, <2>6 DEF HaltFits
  <2> QED
    BY <2>1, <2>3, <2>5, <2>6, <2>7 DEF OpenSale
<1> QED
  BY <1>1, <1>2

-----------------------------------------------------------------------------
(* A whole bar *)

\* An account that enters at the open of this slot, if the size allows it.
Fresh(a, slot) ==
  /\ ~Open(a) /\ a.halt = "ACTIVE" /\ a.cooldown = 0
  /\ a.pending.does = "enter" /\ ~MissesBar(a, slot)

\* An account that keeps its position at the open.
Holds(a, slot, mode) ==
  /\ Open(a) /\ a.halt = "ACTIVE" /\ ~MissesBar(a, slot)
  /\ mode = "expected_return" => slot < a.exitAt

\* How the open of a bar may go that leaves e and closes the trades.
Opening(a, e, closed, now, slot, mode, open, cost) ==
  \/ ~Open(a) /\ ~Open(e) /\ closed = {}
  \/ /\ Fresh(a, slot) /\ Bought(e, a, now, slot, mode, open, cost) /\ closed = {}
  \/ Holds(a, slot, mode) /\ Open(e) /\ Same(a, e) /\ closed = {}
  \/ /\ Open(a) /\ ~Open(e)
     /\ \E t : closed = {t} /\ SoldAs(t, a, now, slot, MissesBar(a, slot), mode, cost)

\* The account e as the stop of the bar finds it.
AtStop(a, e, closed, now, slot, mode, open, cost) ==
  /\ e \in AccountType /\ HaltFits(e) /\ (e.halt # "ACTIVE" => ~Open(e))
  /\ e.cooldown = a.cooldown
  /\ a.halt # "ACTIVE" => e.halt # "ACTIVE"
  /\ Opening(a, e, closed, now, slot, mode, open, cost)

\* How a whole bar may go that leaves b.
Outcome(a, b, closed, now, slot, mode, open, cost) ==
  \/ ~Open(a) /\ ~Open(b) /\ closed = {}
  \/ /\ Fresh(a, slot) /\ Bought(b, a, now, slot, mode, open, cost) /\ closed = {}
  \/ /\ Fresh(a, slot) /\ ~Open(b) /\ b.cooldown = CooldownBars
     /\ \E p, t : /\ Bought(p, a, now, slot, mode, open, cost)
                  /\ closed = {t} /\ TradeFrom(t, p, now, cost)
                  /\ t.reason \in {"stop", "stop_gap"}
  \/ Holds(a, slot, mode) /\ Open(b) /\ Same(a, b) /\ closed = {}
  \/ /\ Holds(a, slot, mode) /\ ~Open(b) /\ b.cooldown = CooldownBars
     /\ \E t : /\ closed = {t} /\ TradeFrom(t, a, now, cost)
               /\ t.reason \in {"stop", "stop_gap"}
  \/ /\ Open(a) /\ ~Open(b)
     /\ \E t : closed = {t} /\ SoldAs(t, a, now, slot, MissesBar(a, slot), mode, cost)

LEMMA SameBought ==
  ASSUME NEW p, NEW b, Same(p, b), NEW a, NEW now, NEW slot, NEW mode, NEW open, NEW cost,
         Bought(p, a, now, slot, mode, open, cost)
  PROVE  Bought(b, a, now, slot, mode, open, cost)
BY DEF Same, Bought, Open

\* The first half of a bar: the account as the stop finds it.
LEMMA BarOpened ==
  ASSUME NEW a \in AccountType, HaltFits(a), NEW now \in Nat, NEW slot \in Nat,
         NEW c \in Bar, NEW mode, NEW haltOnGap \in BOOLEAN, NEW cost \in Nat,
         NEW gap \in BOOLEAN, gap = (MissesBar(a, slot) /\ ~haltOnGap),
         NEW ready, ready = AfterGap(a, slot, haltOnGap),
         NEW opened, opened = SoldAtOpen(ready, now, slot, gap, mode, c.open, cost),
         NEW sold \in BOOLEAN, sold = (opened.trades # {}),
         NEW e, e = Entered(opened.acct, sold, now, slot, mode, c.open, cost)
  PROVE  AtStop(a, e, opened.trades, now, slot, mode, c.open, cost)
<1> SUFFICES
      /\ e \in AccountType /\ HaltFits(e) /\ (e.halt # "ACTIVE" => ~Open(e))
      /\ e.cooldown = a.cooldown
      /\ a.halt # "ACTIVE" => e.halt # "ACTIVE"
      /\ Opening(a, e, opened.trades, now, slot, mode, c.open, cost)
  BY DEF AtStop
<1>1. /\ ready \in AccountType /\ Same(a, ready) /\ HaltFits(ready)
      /\ ready.cooldown = a.cooldown /\ ready.bar = a.bar
      /\ ~MissesBar(a, slot) => ready = a
      /\ MissesBar(a, slot) => ready.pending = NoSignal
      /\ a.halt # "ACTIVE" => ready.halt # "ACTIVE"
      /\ MissesBar(a, slot) /\ haltOnGap => ready.halt # "ACTIVE"
  BY GapFields
<1>2. c.open \in Nat \ {0} /\ c.open \in Int
  BY BarSizes
<1>3. (Open(ready) <=> Open(a)) /\ ready.exitAt = a.exitAt
  BY <1>1 DEF Same, Open
<1>4. OpenSale(ready, opened, now, slot, gap, mode, cost)
  BY <1>1, <1>2, SoldAtOpenFields
<1> DEFINE Kept == /\ opened.acct = ready /\ opened.trades = {}
                   /\ Open(ready) => /\ ~gap /\ ready.halt = "ACTIVE"
                                     /\ mode = "expected_return" => slot < ready.exitAt
<1>5. opened.acct \in AccountType
  BY <1>1, <1>4 DEF OpenSale
<1> DEFINE o == opened.acct
<1>6. e = o \/ Enters(o, e, sold, now, slot, mode, c.open, cost)
  BY <1>2, <1>5, EnteredFields
<1>7. CASE Kept /\ e = o
  <2>1. e = ready /\ opened.trades = {}
    BY <1>7
  <2>2. CASE ~Open(a)
    <3>1. ~Open(e) /\ e \in AccountType /\ HaltFits(e) /\ e.cooldown = a.cooldown
          /\ (a.halt # "ACTIVE" => e.halt # "ACTIVE")
      BY <1>1, <1>3, <2>1, <2>2
    <3> QED
      BY <2>1, <2>2, <3>1 DEF Opening
  <2>3. CASE Open(a)
    <3>1. ready.halt = "ACTIVE" /\ ~gap /\ (mode = "expected_return" => slot < a.exitAt)
      BY <1>3, <1>7, <2>3
    <3>2. ~MissesBar(a, slot) /\ e = a
      BY <1>1, <2>1, <3>1
    <3>3. Holds(a, slot, mode) /\ Same(a, e)
      BY <1>1, <2>1, <2>3, <3>1, <3>2 DEF Holds
    <3>4. Opening(a, e, opened.trades, now, slot, mode, c.open, cost)
      BY <2>1, <2>3, <3>2, <3>3 DEF Opening
    <3> QED
      BY <1>1, <2>1, <3>1, <3>2, <3>4
  <2> QED
    BY <2>2, <2>3
<1>8. CASE Kept /\ e # o
  <2>1. MayEnter(o, sold) /\ o = ready /\ opened.trades = {}
    BY <1>6, <1>8 DEF Enters
  <2>2. ~MissesBar(a, slot) /\ o = a
    BY <1>1, <2>1 DEF MayEnter, NoSignal
  <2>3. Fresh(a, slot)
    BY <2>1, <2>2 DEF MayEnter, Fresh
  <2>4. /\ Bought(e, a, now, slot, mode, c.open, cost) /\ e \in AccountType
        /\ e.halt = a.halt /\ e.cooldown = a.cooldown
    BY <1>6, <1>8, <2>2 DEF Enters
  <2>5. a.halt = "ACTIVE"
    BY <2>3 DEF Fresh
  <2>6. HaltFits(e)
    BY <2>4, <2>5 DEF HaltFits
  <2>7. Opening(a, e, opened.trades, now, slot, mode, c.open, cost)
    BY <2>1, <2>3, <2>4 DEF Opening
  <2> QED
    BY <2>4, <2>5, <2>6, <2>7
<1>9. CASE ~Kept
  <2>1. /\ Open(ready) /\ ~Open(o) /\ HaltFits(o) /\ o.cooldown = ready.cooldown
        /\ (ready.halt # "ACTIVE" => o.halt # "ACTIVE")
    BY <1>4, <1>9 DEF OpenSale
  <2>2. PICK t : opened.trades = {t} /\ SoldAs(t, ready, now, slot, gap, mode, cost)
    BY <1>4, <1>9 DEF OpenSale
  <2>3. e = o
    BY <1>6, <2>2 DEF MayEnter, Enters
  <2>4. TradeFrom(t, a, now, cost)
    BY <1>1, <2>2 DEF TradeFrom, Same, SoldAs
  <2>5. t.reason = "horizon_exit" =>
          /\ ~MissesBar(a, slot) /\ a.halt = "ACTIVE"
          /\ mode = "expected_return" /\ slot >= a.exitAt
    BY <1>1, <1>3, <2>2 DEF SoldAs
  <2>6. MissesBar(a, slot) \/ a.halt # "ACTIVE" => t.reason \in {"market_data_gap", "risk_halt"}
    BY <1>1, <2>2 DEF SoldAs
  <2>7. SoldAs(t, a, now, slot, MissesBar(a, slot), mode, cost)
    BY <2>2, <2>4, <2>5, <2>6 DEF SoldAs
  <2>8. Opening(a, e, opened.trades, now, slot, mode, c.open, cost)
    BY <1>3, <2>1, <2>2, <2>3, <2>7 DEF Opening
  <2> QED
    BY <1>1, <1>5, <2>1, <2>3, <2>8
<1> QED
  BY <1>7, <1>8, <1>9

\* What a bar makes of a.
AfterBar(a, s, now, slot, c, signal, mode, cost) ==
  LET b == s.acct
  IN /\ b \in AccountType /\ HaltFits(b) /\ b.bar = slot
     /\ b.pending = IF b.halt = "ACTIVE" THEN signal ELSE NoSignal
     /\ a.halt # "ACTIVE" => b.halt # "ACTIVE"
     /\ (b.top - Equity(b, c.close, cost)) * 100 >= b.top * DrawdownPct
          => b.halt # "ACTIVE"
     /\ b.cooldown = CooldownBars \/ b.cooldown >= a.cooldown - 1
     /\ Outcome(a, b, s.trades, now, slot, mode, c.open, cost)

LEMMA BarSummary ==
  ASSUME NEW a \in AccountType, HaltFits(a), NEW now \in Nat, NEW slot \in Nat,
         NEW c \in Bar, NEW signal \in SignalType, NEW mode, NEW haltOnGap \in BOOLEAN,
         NEW cost \in Nat,
         NEW s, s = Processed(a, now, slot, c, signal, mode, haltOnGap, cost)
  PROVE  AfterBar(a, s, now, slot, c, signal, mode, cost)
<1> DEFINE gap == MissesBar(a, slot) /\ ~haltOnGap
           ready == AfterGap(a, slot, haltOnGap)
           opened == SoldAtOpen(ready, now, slot, gap, mode, c.open, cost)
           sold == opened.trades # {}
           e == Entered(opened.acct, sold, now, slot, mode, c.open, cost)
           stopped == Stopped(e, now, c, cost)
           marked == Marked(stopped.acct, c.close, cost)
           cooled == CooledDown(marked, a.cooldown, stopped.trades # {})
           b == Pended(cooled, slot, signal)
           closed == opened.trades \cup stopped.trades
<1>1. s = [acct |-> b, trades |-> closed]
  BY DEF Processed
<1>2. /\ e \in AccountType /\ HaltFits(e) /\ (e.halt # "ACTIVE" => ~Open(e))
      /\ e.cooldown = a.cooldown
      /\ a.halt # "ACTIVE" => e.halt # "ACTIVE"
      /\ Opening(a, e, opened.trades, now, slot, mode, c.open, cost)
  <2>1. gap \in BOOLEAN /\ gap = (MissesBar(a, slot) /\ ~haltOnGap)
    OBVIOUS
  <2>2. ready = AfterGap(a, slot, haltOnGap)
    OBVIOUS
  <2> HIDE DEF ready
  <2>3. opened = SoldAtOpen(ready, now, slot, gap, mode, c.open, cost)
    OBVIOUS
  <2> HIDE DEF opened
  <2>4. sold \in BOOLEAN /\ sold = (opened.trades # {})
    OBVIOUS
  <2>5. e = Entered(opened.acct, sold, now, slot, mode, c.open, cost)
    OBVIOUS
  <2> HIDE DEF e
  <2>6. AtStop(a, e, opened.trades, now, slot, mode, c.open, cost)
    BY <2>1, <2>2, <2>3, <2>4, <2>5, BarOpened
  <2> QED
    BY <2>6 DEF AtStop
<1> HIDE DEF opened, e
<1> DEFINE st == stopped.acct
           Rests == ~Open(e) /\ st = e /\ stopped.trades = {}
           Stays == /\ Open(e) /\ Open(st) /\ Same(e, st) /\ stopped.trades = {}
                    /\ st.cooldown = e.cooldown
           Stops == /\ Open(e) /\ ~Open(st) /\ st.cooldown = CooldownBars
                    /\ \E t : /\ stopped.trades = {t} /\ t.reason \in {"stop", "stop_gap"}
                              /\ TradeFrom(t, e, now, cost)
<1>3. /\ st \in AccountType /\ st.top = e.top /\ st.halt = e.halt
      /\ st.bar = e.bar /\ st.pending = e.pending
      /\ Rests \/ Stays \/ Stops
  <2>1. stopped = Stopped(e, now, c, cost)
    OBVIOUS
  <2> HIDE DEF stopped
  <2>2. /\ st \in AccountType /\ st.top = e.top /\ st.halt = e.halt
        /\ st.bar = e.bar /\ st.pending = e.pending /\ StopOf(e, stopped, now, cost)
    BY <1>2, <2>1, StoppedFields
  <2> QED
    BY <2>2 DEF StopOf
<1>4. (st.halt # "ACTIVE" => ~Open(st)) /\ HaltFits(st)
  <2> HIDE DEF stopped
  <2> QED
    BY <1>2, <1>3 DEF HaltFits
<1>5. c.close \in Int
  BY BarSizes
<1> HIDE DEF stopped
<1>6. /\ marked \in AccountType /\ Same(st, marked) /\ HaltFits(marked)
      /\ marked.cash = st.cash /\ marked.cooldown = st.cooldown
      /\ st.halt # "ACTIVE" => marked.halt # "ACTIVE"
      /\ (marked.top - Equity(marked, c.close, cost)) * 100 >= marked.top * DrawdownPct
           => marked.halt # "ACTIVE"
  BY <1>3, <1>4, <1>5, MarkedFields
<1> HIDE DEF marked
<1>7. /\ cooled \in AccountType /\ Same(marked, cooled) /\ cooled.halt = marked.halt
      /\ cooled.top = marked.top /\ cooled.cash = marked.cash
      /\ cooled.cooldown = IF a.cooldown > 0 /\ stopped.trades = {}
                           THEN a.cooldown - 1 ELSE marked.cooldown
  <2>1. CASE a.cooldown > 0 /\ stopped.trades = {}
    <3>1. a.cooldown - 1 \in Nat
      BY <2>1 DEF AccountType
    <3>2. cooled = [marked EXCEPT !.cooldown = a.cooldown - 1]
      BY <2>1 DEF CooledDown
    <3> HIDE DEF cooled
    <3> QED
      BY <1>6, <2>1, <3>1, <3>2 DEF AccountType, Same
  <2>2. CASE ~(a.cooldown > 0 /\ stopped.trades = {})
    <3>1. cooled = marked
      BY <2>2 DEF CooledDown
    <3> HIDE DEF cooled
    <3> QED
      BY <1>6, <2>2, <3>1 DEF Same
  <2> QED
    BY <2>1, <2>2
<1> HIDE DEF cooled
<1>8. /\ b \in AccountType /\ Same(cooled, b) /\ b.halt = cooled.halt
      /\ b.top = cooled.top /\ b.cash = cooled.cash /\ b.cooldown = cooled.cooldown
      /\ b.bar = slot
      /\ b.pending = IF b.halt = "ACTIVE" THEN signal ELSE NoSignal
  <2> DEFINE next == IF cooled.halt = "ACTIVE" THEN signal ELSE NoSignal
  <2>1. next \in SignalType
    BY DEF NoSignal, SignalType
  <2>2. b = [cooled EXCEPT !.bar = slot, !.pending = next]
    BY DEF Pended
  <2> HIDE DEF next, b
  <2>3. /\ b \in AccountType /\ Same(cooled, b) /\ b.halt = cooled.halt
        /\ b.top = cooled.top /\ b.cash = cooled.cash /\ b.cooldown = cooled.cooldown
        /\ b.bar = slot /\ b.pending = next
    BY <1>7, <2>1, <2>2 DEF AccountType, Same
  <2> QED
    BY <2>3 DEF next
<1> HIDE DEF b
<1>9. /\ Same(st, b) /\ (Open(b) <=> Open(st)) /\ HaltFits(b) /\ b.halt = marked.halt
      /\ (b.top - Equity(b, c.close, cost)) * 100 >= b.top * DrawdownPct
           => b.halt # "ACTIVE"
  <2>1. Same(st, b) /\ b.lots = marked.lots
    BY <1>6, <1>7, <1>8 DEF Same
  <2>2. (Open(b) <=> Open(st)) /\ (Open(b) <=> Open(marked))
    BY <1>6, <2>1 DEF Same, Open
  <2>3. b.halt = marked.halt /\ b.top = marked.top /\ b.cash = marked.cash
    BY <1>7, <1>8
  <2>4. HaltFits(b)
    BY <1>6, <2>2, <2>3 DEF HaltFits
  <2>5. Equity(b, c.close, cost) = Equity(marked, c.close, cost)
    BY <2>1, <2>2, <2>3 DEF Equity
  <2> QED
    BY <1>6, <2>1, <2>2, <2>3, <2>4, <2>5
<1>10. a.halt # "ACTIVE" => b.halt # "ACTIVE"
  BY <1>2, <1>3, <1>6, <1>9
<1>11. b.cooldown = CooldownBars \/ b.cooldown >= a.cooldown - 1
  <2>1. a.cooldown \in Nat /\ marked.cooldown = st.cooldown
    BY <1>6 DEF AccountType
  <2>2. st.cooldown = CooldownBars \/ st.cooldown = a.cooldown
    BY <1>2, <1>3
  <2> QED
    BY <1>7, <1>8, <2>1, <2>2
<1>12. Stops => b.cooldown = CooldownBars
  <2>1. Stops => stopped.trades # {}
    OBVIOUS
  <2> QED
    BY <1>6, <1>7, <1>8, <2>1
<1>13. Outcome(a, b, closed, now, slot, mode, c.open, cost)
  <2>1. CASE ~Open(a) /\ ~Open(e) /\ opened.trades = {}
    BY <1>3, <1>9, <2>1 DEF Outcome
  <2>2. CASE /\ Fresh(a, slot) /\ Bought(e, a, now, slot, mode, c.open, cost)
             /\ opened.trades = {}
    <3>1. Open(e)
      BY <2>2 DEF Bought
    <3>2. CASE Stays
      <4>1. Same(e, b)
        BY <1>9, <3>2 DEF Same
      <4>2. Bought(b, a, now, slot, mode, c.open, cost)
        BY <2>2, <4>1, SameBought
      <4>3. closed = {}
        BY <2>2, <3>2
      <4> QED
        BY <2>2, <4>2, <4>3 DEF Outcome
    <3>3. CASE Stops
      <4>1. PICK t : /\ stopped.trades = {t} /\ t.reason \in {"stop", "stop_gap"}
                     /\ TradeFrom(t, e, now, cost)
        BY <3>3
      <4>2. closed = {t} /\ ~Open(b)
        BY <1>9, <2>2, <3>3, <4>1
      <4> HIDE DEF closed
      <4> QED
        BY <1>12, <2>2, <3>3, <4>1, <4>2 DEF Outcome
    <3> QED
      BY <1>3, <3>1, <3>2, <3>3
  <2>3. CASE Holds(a, slot, mode) /\ Open(e) /\ Same(a, e) /\ opened.trades = {}
    <3>1. CASE Stays
      <4>1. Same(a, b) /\ Open(b)
        BY <1>9, <2>3, <3>1 DEF Same
      <4>2. closed = {}
        BY <2>3, <3>1
      <4> QED
        BY <2>3, <4>1, <4>2 DEF Outcome
    <3>2. CASE Stops
      <4>1. PICK t : /\ stopped.trades = {t} /\ t.reason \in {"stop", "stop_gap"}
                     /\ TradeFrom(t, e, now, cost)
        BY <3>2
      <4>2. closed = {t} /\ ~Open(b)
        BY <1>9, <2>3, <3>2, <4>1
      <4>3. TradeFrom(t, a, now, cost)
        BY <2>3, <4>1 DEF TradeFrom, Same
      <4> HIDE DEF closed
      <4> QED
        BY <1>12, <2>3, <3>2, <4>1, <4>2, <4>3 DEF Outcome
    <3> QED
      BY <1>3, <2>3, <3>1, <3>2
  <2>4. CASE /\ Open(a) /\ ~Open(e)
             /\ \E t : /\ opened.trades = {t}
                       /\ SoldAs(t, a, now, slot, MissesBar(a, slot), mode, cost)
    <3>1. closed = opened.trades /\ ~Open(b)
      BY <1>3, <1>9, <2>4
    <3> HIDE DEF closed
    <3> QED
      BY <2>4, <3>1 DEF Outcome
  <2> QED
    BY <1>2, <2>1, <2>2, <2>3, <2>4 DEF Opening
<1> HIDE DEF closed
<1> QED
  BY <1>1, <1>8, <1>9, <1>10, <1>11, <1>13 DEF AfterBar

\* The end of a run sells what is open.
LEMMA LiquidatedFields ==
  ASSUME NEW a \in AccountType, HaltFits(a), NEW now \in Nat, NEW close \in Int, NEW cost \in Nat,
         NEW e, e = Liquidated(a, now, close, cost)
  PROVE  \/ ~Open(a) /\ e.acct = a /\ e.trades = {}
         \/ /\ Open(a) /\ ~Open(e.acct) /\ e.acct \in AccountType /\ HaltFits(e.acct)
            /\ e.acct.cooldown = a.cooldown /\ e.acct.bar = a.bar
            /\ e.acct.pending = a.pending
            /\ a.halt # "ACTIVE" => e.acct.halt = "HALTED"
            /\ \E t : /\ e.trades = {t} /\ TradeFrom(t, a, now + 1, cost)
                      /\ t.reason = "end_of_run"
<1>1. CASE ~Open(a)
  BY <1>1 DEF Liquidated
<1>2. CASE Open(a)
  <2> DEFINE t == TradeOf(a, now + 1, close, "end_of_run", cost)
  <2>1. e = Sold(a, now + 1, close, "end_of_run", cost)
    BY <1>2 DEF Liquidated
  <2>2. /\ e.acct \in AccountType /\ ~Open(e.acct)
        /\ e.acct.cooldown = a.cooldown
        /\ e.acct.bar = a.bar /\ e.acct.pending = a.pending
        /\ e.trades = {t}
        /\ (a.halt = "ACTIVE" /\ "end_of_run" # "risk_halt") => e.acct.halt = "ACTIVE"
        /\ (a.halt # "ACTIVE" /\ "end_of_run" \in {"market_data_gap", "risk_halt", "end_of_run"})
             => e.acct.halt = "HALTED"
    <3>1. now + 1 \in Nat
      OBVIOUS
    <3> QED
      BY <2>1, <3>1, SoldFields
  <2>3. TradeFrom(t, a, now + 1, cost) /\ t.reason = "end_of_run"
    BY DEF TradeOf, TradeFrom
  <2> HIDE DEF t
  <2>4. HaltFits(e.acct)
    BY <2>2 DEF HaltFits
  <2> QED
    BY <1>2, <2>2, <2>3, <2>4
<1> QED
  BY <1>1, <1>2

-----------------------------------------------------------------------------
(* The invariant of a run, of an account a, the closed trades, the row of a   *)
(* breach and the row n executed next                                        *)

\* What is known of this run, whatever bars it meets.
SetupType ==
  /\ frame \in Seq(Nat)
  /\ setup.gapHalts \in BOOLEAN /\ setup.cost \in {1, 2}
  /\ setup.first \in Nat \ {0}

\* The account has seen the bar before.
Placed(a, n) ==
  /\ a \in AccountType /\ HaltFits(a)
  /\ n \in Nat /\ n >= setup.first
  /\ n = setup.first => a = NewAccount
  /\ n > setup.first => a.bar = frame[n - 1]

\* A signal to enter is that of a prediction on the row before.
Signalled(a, n) ==
  a.pending.does = "enter" => a.pending.row = n - 1 /\ models[n - 1] # NoFit

\* The position p was entered on the row after its signal, no candle is missing
\* since, and its horizon is not reached on row n.
Grounded(p, n) ==
  /\ p.signal \in Nat \ {0} /\ p.entered = p.signal + 1 /\ p.entered <= n
  /\ models[p.signal] # NoFit
  /\ \A i \in p.signal..n : frame[i] = frame[p.signal] + (i - p.signal)
  /\ setup.mode = "expected_return" =>
       p.exitAt = frame[p.entered] + Horizon /\ frame[n] < p.exitAt

Positioned(a, n) == Open(a) => Grounded(a, n - 1)

\* What TradesFollowLabels says of a trade.
Follows(t) ==
  /\ t.entered = t.signal + 1 /\ SameSegment(frame, t.signal, t.entered)
  /\ models[t.signal] # NoFit
  /\ setup.mode = "expected_return" /\ t.exited <= Len(frame) =>
       /\ frame[t.exited] > frame[t.entered] + Horizon
            => /\ t.reason \in {"market_data_gap", "risk_halt"}
               /\ ~SameSegment(frame, t.exited - 1, t.exited)
       /\ t.reason = "horizon_exit"
            => HasLabel(frame, t.signal) /\ t.exited = LabelRow(t.signal)

IsStop(t) == t.reason \in {"stop", "stop_gap"}

\* How far a trade is from its stop, and where the next entry may come.
Dated(t, n) ==
  /\ t.entered \in Nat /\ t.exited \in Nat /\ t.entered < n /\ t.exited <= n
  /\ IsStop(t) => t.exited < n

Rested(a, t, n) == IsStop(t) => a.cooldown + (n - 1 - t.exited) >= CooldownBars

Spaced(entered, t) ==
  IsStop(t) /\ entered > t.exited => entered > t.exited + CooldownBars

\* After a breach an open position is sold on the next row.
Ended(a, closed, br, n) ==
  br # 0 =>
    /\ br \in Nat /\ br < n /\ a.halt # "ACTIVE"
    /\ \A t \in closed : t.entered <= br /\ t.exited <= br + 1
    /\ Open(a) => a.entered <= br /\ n = br + 1

Ran(a, closed, br, n) ==
  /\ Placed(a, n) /\ Signalled(a, n) /\ Positioned(a, n)
  /\ \A t \in closed : Follows(t) /\ Dated(t, n) /\ Rested(a, t, n)
  /\ \A t, u \in closed : Spaced(u.entered, t)
  /\ \A t \in closed : Open(a) => Spaced(a.entered, t)
  /\ Ended(a, closed, br, n)

LEMMA Numbers ==
  /\ Horizon \in Nat \ {0} /\ HoldBars = Horizon /\ CooldownBars \in Nat
BY WalkForwardAssumption, BacktestAssumption, BarEngineAssumption

\* Sums of three, for slots and rows.
LEMMA Slide ==
  ASSUME NEW x \in Int, NEW y \in Int, NEW z \in Int, NEW m \in Int, NEW k \in Int,
         x = y + 1, y = z + ((m - 1) - k)
  PROVE  x = z + (m - k)
OBVIOUS

\* A position that is bought or kept on row n.
LEMMA BoughtGrounded ==
  ASSUME SetupType, NEW a, NEW n, Placed(a, n), n <= Len(frame), Signalled(a, n),
         Fresh(a, frame[n]), NEW p, NEW open, NEW cost,
         Bought(p, a, n, frame[n], setup.mode, open, cost)
  PROVE  Grounded(p, n)
<1>1. n > setup.first
  <2>1. setup.first \in Nat /\ n \in Nat /\ n >= setup.first /\ a.pending.does = "enter"
    BY DEF SetupType, Placed, Fresh
  <2>2. n # setup.first
    BY <2>1 DEF Placed, NewAccount, NoSignal
  <2> QED
    BY <2>1, <2>2
<1>2. a.bar = frame[n - 1] /\ n \in Nat /\ n >= 2 /\ n - 1 \in Nat /\ n - 1 \in 1..Len(frame)
  BY <1>1 DEF Placed, SetupType
<1>3. frame[n] \in Nat /\ frame[n - 1] \in Nat
  BY <1>2 DEF SetupType
<1>4. frame[n] = frame[n - 1] + 1
  BY <1>2, <1>3 DEF Fresh, MissesBar, NoBar
<1>5. p.signal = n - 1 /\ p.entered = n /\ models[n - 1] # NoFit
  BY DEF Bought, Fresh, Signalled
<1>6. ASSUME NEW i \in (n - 1)..n PROVE frame[i] = frame[n - 1] + (i - (n - 1))
  <2>1. i = n - 1 \/ i = n
    BY <1>2
  <2> QED
    BY <1>2, <1>3, <1>4, <2>1
<1>7. setup.mode = "expected_return" =>
        p.exitAt = frame[n] + Horizon /\ frame[n] < p.exitAt
  BY <1>3, Numbers DEF Bought
<1> QED
  BY <1>2, <1>5, <1>6, <1>7 DEF Grounded

LEMMA HeldGrounded ==
  ASSUME SetupType, NEW a, NEW n, Placed(a, n), n <= Len(frame), Positioned(a, n),
         Holds(a, frame[n], setup.mode)
  PROVE  Grounded(a, n)
<1>1. Grounded(a, n - 1) /\ Open(a)
  BY DEF Positioned, Holds
<1>2. n > setup.first
  <2>1. setup.first \in Nat /\ n \in Nat /\ n >= setup.first
    BY DEF SetupType, Placed
  <2>2. n # setup.first
    BY <1>1 DEF Placed, Open, NewAccount
  <2> QED
    BY <2>1, <2>2
<1>3. a.bar = frame[n - 1] /\ n \in Nat /\ n - 1 \in 1..Len(frame)
  BY <1>2 DEF Placed, SetupType
<1>4. frame[n] \in Nat /\ frame[n - 1] \in Nat
  BY <1>3 DEF SetupType
<1>5. frame[n] = frame[n - 1] + 1
  BY <1>3, <1>4 DEF Holds, MissesBar, NoBar
<1>6. a.signal \in Nat \ {0} /\ a.entered = a.signal + 1 /\ a.entered <= n - 1
  BY <1>1 DEF Grounded
<1>7. ASSUME NEW i \in a.signal..n PROVE frame[i] = frame[a.signal] + (i - a.signal)
  <2>1. a.signal \in 1..Len(frame) /\ frame[a.signal] \in Nat
    <3>1. frame \in Seq(Nat) /\ Len(frame) \in Nat
      BY DEF SetupType
    <3>2. a.signal \in 1..Len(frame)
      BY <1>3, <1>6, <3>1
    <3> QED
      BY <3>1, <3>2
  <2>2. i \in a.signal..(n - 1) \/ i = n
    BY <1>3, <1>6
  <2>3. CASE i \in a.signal..(n - 1)
    BY <1>1, <2>3 DEF Grounded
  <2>4. CASE i = n
    <3>1. n - 1 \in a.signal..(n - 1)
      BY <1>3, <1>6
    <3>2. frame[n - 1] = frame[a.signal] + ((n - 1) - a.signal)
      BY <1>1, <3>1 DEF Grounded
    <3>3. frame[n] = frame[a.signal] + (n - a.signal)
      <4>2. /\ frame[n] \in Int /\ frame[n - 1] \in Int /\ frame[a.signal] \in Int
            /\ n \in Int /\ a.signal \in Int
        BY <1>3, <1>4, <1>6, <2>1
      <4> DEFINE x == frame[n]
                 y == frame[n - 1]
                 z == frame[a.signal]
                 k == a.signal
      <4>3. x \in Int /\ y \in Int /\ z \in Int /\ n \in Int /\ k \in Int
        BY <4>2
      <4>4. x = y + 1 /\ y = z + ((n - 1) - k)
        BY <1>5, <3>2
      <4> HIDE DEF x, y, z, k
      <4>5. x = z + (n - k)
        BY <4>3, <4>4, Slide
      <4> QED
        BY <4>5 DEF x, z, k
    <3> QED
      BY <2>4, <3>3
  <2> QED
    BY <2>2, <2>3, <2>4
<1>8. setup.mode = "expected_return" =>
        a.exitAt = frame[a.entered] + Horizon /\ frame[n] < a.exitAt
  BY <1>1 DEF Grounded, Holds
<1> QED
  BY <1>1, <1>3, <1>6, <1>7, <1>8 DEF Grounded

LEMMA GroundedRows ==
  ASSUME SetupType, NEW p, NEW m \in 1..Len(frame), Grounded(p, m)
  PROVE  /\ p.signal \in 1..Len(frame) /\ p.entered \in 1..Len(frame)
         /\ frame[p.signal] \in Nat /\ frame[p.entered] \in Nat /\ frame[m] \in Nat
         /\ frame[p.entered] = frame[p.signal] + 1
         /\ frame[m] = frame[p.signal] + (m - p.signal)
         /\ SameSegment(frame, p.signal, p.entered)
<1>1. p.signal \in Nat \ {0} /\ p.entered = p.signal + 1 /\ p.entered <= m
  BY DEF Grounded
<1>2. frame \in Seq(Nat) /\ Len(frame) \in Nat
  BY DEF SetupType
<1>3. p.signal \in 1..Len(frame) /\ p.entered \in 1..Len(frame)
  BY <1>1, <1>2
<1>4. frame[p.signal] \in Nat /\ frame[p.entered] \in Nat /\ frame[m] \in Nat
  BY <1>2, <1>3, SMTT(20)
<1>5. p.entered \in p.signal..m /\ m \in p.signal..m
  BY <1>1
<1>6. /\ frame[p.entered] = frame[p.signal] + (p.entered - p.signal)
      /\ frame[m] = frame[p.signal] + (m - p.signal)
  BY <1>5 DEF Grounded
<1>7. p.entered - p.signal = 1
  BY <1>1
<1>8. frame[p.entered] = frame[p.signal] + 1
  BY <1>6, <1>7
<1>9. frame[p.entered] - frame[p.signal] = p.entered - p.signal
  BY <1>4, <1>7, <1>8
<1> QED
  BY <1>3, <1>4, <1>6, <1>8, <1>9 DEF SameSegment

\* A stop or the end of the run closes a position before its horizon is over.
LEMMA StopFollows ==
  ASSUME SetupType, NEW p, NEW m \in 1..Len(frame), Grounded(p, m), NEW t, NEW n, NEW cost,
         TradeFrom(t, p, n, cost), t.reason # "horizon_exit", n = m \/ n > Len(frame), n \in Nat
  PROVE  Follows(t)
<1>1. /\ p.signal \in 1..Len(frame) /\ p.entered \in 1..Len(frame)
      /\ frame[p.entered] \in Nat /\ frame[m] \in Nat
      /\ SameSegment(frame, p.signal, p.entered)
  BY GroundedRows
<1>2. /\ t.signal = p.signal /\ t.entered = p.entered /\ t.exited = n
      /\ p.entered = p.signal + 1 /\ models[p.signal] # NoFit
  BY DEF TradeFrom, Grounded
<1>3. setup.mode = "expected_return" /\ t.exited <= Len(frame) =>
        ~(frame[t.exited] > frame[t.entered] + Horizon)
  <2> SUFFICES ASSUME setup.mode = "expected_return", t.exited <= Len(frame)
               PROVE  ~(frame[t.exited] > frame[t.entered] + Horizon)
    OBVIOUS
  <2>1. Len(frame) \in Nat
    BY DEF SetupType
  <2>2. t.exited = m
    BY <1>2, <2>1
  <2>3. frame[m] < frame[p.entered] + Horizon
    BY DEF Grounded
  <2> QED
    BY <1>1, <1>2, <2>2, <2>3, Numbers
<1> QED
  BY <1>1, <1>2, <1>3 DEF Follows

\* So does a sale at the open, unless a candle is missing or it is the horizon.
LEMMA SaleFollows ==
  ASSUME SetupType, NEW a, NEW n, Placed(a, n), n <= Len(frame), Positioned(a, n), Open(a),
         NEW t, NEW cost,
         SoldAs(t, a, n, frame[n], MissesBar(a, frame[n]), setup.mode, cost)
  PROVE  Follows(t)
<1>1. Grounded(a, n - 1)
  BY DEF Positioned
<1>2. n > setup.first
  <2>1. setup.first \in Nat /\ n \in Nat /\ n >= setup.first
    BY DEF SetupType, Placed
  <2>2. n # setup.first
    BY DEF Placed, Open, NewAccount
  <2> QED
    BY <2>1, <2>2
<1>3. /\ n \in Nat /\ Len(frame) \in Nat /\ n \in 1..Len(frame) /\ n - 1 \in 1..Len(frame)
      /\ a.bar = frame[n - 1] /\ frame[n] \in Nat /\ frame[n - 1] \in Nat
  <2>1. setup.first \in Nat \ {0} /\ n \in Nat /\ Len(frame) \in Nat /\ frame \in Seq(Nat)
    BY DEF SetupType, Placed
  <2>2. n \in 1..Len(frame) /\ n - 1 \in 1..Len(frame)
    BY <1>2, <2>1
  <2> QED
    BY <1>2, <2>1, <2>2 DEF Placed
<1>4. /\ a.signal \in 1..Len(frame) /\ a.entered \in 1..Len(frame)
      /\ frame[a.signal] \in Nat /\ frame[a.entered] \in Nat
      /\ frame[a.entered] = frame[a.signal] + 1
      /\ frame[n - 1] = frame[a.signal] + ((n - 1) - a.signal)
      /\ SameSegment(frame, a.signal, a.entered)
  BY <1>1, <1>3, GroundedRows
<1>5. /\ t.signal = a.signal /\ t.entered = a.entered /\ t.exited = n
      /\ a.entered = a.signal + 1 /\ models[a.signal] # NoFit
  BY <1>1 DEF SoldAs, TradeFrom, Grounded
<1>6. ~MissesBar(a, frame[n]) <=> frame[n] = frame[n - 1] + 1
  BY <1>3 DEF MissesBar, NoBar
<1>7. ~MissesBar(a, frame[n]) <=> SameSegment(frame, n - 1, n)
  <2>1. n - (n - 1) = 1
    BY <1>3
  <2>2. SameSegment(frame, n - 1, n) <=> frame[n] - frame[n - 1] = 1
    BY <2>1 DEF SameSegment
  <2> QED
    BY <1>3, <1>6, <2>2
<1>8. ASSUME setup.mode = "expected_return", frame[n] > frame[a.entered] + Horizon
      PROVE  /\ t.reason \in {"market_data_gap", "risk_halt"}
             /\ ~SameSegment(frame, n - 1, n)
  <2>1. a.exitAt = frame[a.entered] + Horizon /\ frame[n - 1] < a.exitAt
    BY <1>1, <1>8 DEF Grounded
  <2>2. frame[n] # frame[n - 1] + 1
    BY <1>3, <1>4, <1>8, <2>1, Numbers, SMTT(20)
  <2>3. MissesBar(a, frame[n])
    BY <1>6, <2>2
  <2> QED
    BY <1>7, <2>3 DEF SoldAs
<1>9. ASSUME setup.mode = "expected_return", t.reason = "horizon_exit"
      PROVE  HasLabel(frame, a.signal) /\ n = LabelRow(a.signal)
  <2>1. /\ a.exitAt = frame[a.entered] + Horizon /\ frame[n - 1] < a.exitAt
        /\ ~MissesBar(a, frame[n]) /\ frame[n] >= a.exitAt
    BY <1>1, <1>9 DEF Grounded, SoldAs
  <2>2. frame[n] = frame[n - 1] + 1
    BY <1>6, <2>1
  <2>3. frame[n] = frame[a.entered] + Horizon
    <3>1. ASSUME NEW x \in Int, NEW y \in Int, NEW w \in Int, x = y + 1, y < w, x >= w
          PROVE  x = w
      BY <3>1
    <3>2. a.exitAt \in Int
      BY <1>4, <2>1, Numbers
    <3>3. frame[n] = a.exitAt
      BY <1>3, <2>1, <2>2, <3>1, <3>2
    <3> QED
      BY <2>1, <3>3
  <2> DEFINE x == frame[n]
             y == frame[n - 1]
             z == frame[a.signal]
             k == a.signal
  <2>4. x \in Int /\ y \in Int /\ z \in Int /\ n \in Int /\ k \in Int
    BY <1>3, <1>4
  <2>5. x = y + 1 /\ y = z + ((n - 1) - k)
    BY <1>4, <2>2
  <2>6. x = z + 1 + Horizon
    BY <1>4, <2>3
  <2> HIDE DEF x, y, z, k
  <2>7. x = z + (n - k)
    BY <2>4, <2>5, Slide
  <2>8. n = k + Horizon + 1 /\ x - z = n - k
    BY <2>4, <2>6, <2>7, Numbers
  <2>9. n = a.signal + Horizon + 1 /\ frame[n] - frame[a.signal] = n - a.signal
    BY <2>8 DEF x, z, k
  <2> QED
    BY <1>3, <2>9 DEF LabelRow, HasLabel, SameSegment
<1> QED
  BY <1>4, <1>5, <1>8, <1>9 DEF Follows

\* A signal is typed, and one to enter has a model behind it.
LEMMA SignalFits ==
  ASSUME NEW n \in Nat, NEW signal \in Signals(n)
  PROVE  /\ signal \in SignalType
         /\ signal.does = "enter" => signal.row = n /\ models[n] # NoFit
<1>1. CASE models[n] = NoFit
  <2>1. signal = NoSignal
    BY <1>1 DEF Signals
  <2> QED
    BY <2>1 DEF NoSignal, SignalType
<1>2. CASE models[n] # NoFit
  <2>1. \/ signal \in [does : {"hold"} \cup (IF setup.mode = "probability" THEN {"exit"} ELSE {}),
                       stop : {0}, row : {n}]
        \/ signal \in [does : {"enter"}, stop : Stop, row : {n}]
    BY <1>2 DEF Signals
  <2>2. Stop \subseteq Nat
    BY BacktestAssumption
  <2>3. CASE signal \in [does : {"hold"} \cup (IF setup.mode = "probability" THEN {"exit"} ELSE {}),
                         stop : {0}, row : {n}]
    <3>1. signal \in [does : {"hold", "exit"}, stop : {0}, row : {n}]
      BY <2>3
    <3>2. signal \in SignalType /\ signal.does # "enter"
      BY <3>1 DEF SignalType
    <3> QED
      BY <3>2
  <2>4. CASE signal \in [does : {"enter"}, stop : Stop, row : {n}]
    <3>1. signal \in SignalType /\ signal.row = n
      BY <2>2, <2>4 DEF SignalType
    <3> QED
      BY <1>2, <3>1
  <2> QED
    BY <2>1, <2>3, <2>4
<1> QED
  BY <1>1, <1>2

\* A position that is open after row n, or closed on it, was open before or is
\* entered on row n.
Origin(a, entered, n) ==
  \/ Open(a) /\ entered = a.entered
  \/ Fresh(a, frame[n]) /\ entered = n

\* The trades of a bar and the position it leaves.
BarTrades(a, b, closed, n) ==
  /\ \A t \in closed :
       /\ Follows(t) /\ Origin(a, t.entered, n) /\ t.exited = n
       /\ IsStop(t) => b.cooldown = CooldownBars
       /\ ~Open(b)
  /\ \A t, u \in closed : t = u
  /\ Open(b) => Grounded(b, n) /\ Origin(a, b.entered, n)
  /\ a.halt # "ACTIVE" => ~Open(b)

LEMMA OutcomeTrades ==
  ASSUME SetupType, NEW a, NEW n, Placed(a, n), n <= Len(frame), Signalled(a, n),
         Positioned(a, n), NEW b, NEW closed, NEW open, NEW cost,
         Outcome(a, b, closed, n, frame[n], setup.mode, open, cost)
  PROVE  BarTrades(a, b, closed, n)
<1>1. n \in Nat /\ n \in 1..Len(frame)
  BY DEF Placed, SetupType
<1>2. CASE ~Open(a) /\ ~Open(b) /\ closed = {}
  BY <1>2 DEF BarTrades
<1>3. CASE /\ Fresh(a, frame[n]) /\ Bought(b, a, n, frame[n], setup.mode, open, cost)
           /\ closed = {}
  <2>1. Grounded(b, n)
    BY <1>3, BoughtGrounded
  <2>2. Origin(a, b.entered, n) /\ a.halt = "ACTIVE"
    BY <1>3 DEF Origin, Bought, Fresh
  <2> QED
    BY <1>3, <2>1, <2>2 DEF BarTrades
<1>4. CASE /\ Fresh(a, frame[n]) /\ ~Open(b) /\ b.cooldown = CooldownBars
           /\ \E p, t : /\ Bought(p, a, n, frame[n], setup.mode, open, cost)
                        /\ closed = {t} /\ TradeFrom(t, p, n, cost)
                        /\ t.reason \in {"stop", "stop_gap"}
  <2>1. PICK p, t : /\ Bought(p, a, n, frame[n], setup.mode, open, cost)
                    /\ closed = {t} /\ TradeFrom(t, p, n, cost)
                    /\ t.reason \in {"stop", "stop_gap"}
    BY <1>4
  <2>2. Grounded(p, n)
    BY <1>4, <2>1, BoughtGrounded
  <2>3. t.reason # "horizon_exit"
    BY <2>1
  <2>4. Follows(t)
    BY <1>1, <2>1, <2>2, <2>3, StopFollows
  <2>5. Origin(a, t.entered, n) /\ t.exited = n
    BY <1>4, <2>1 DEF Origin, Bought, TradeFrom
  <2> QED
    BY <1>4, <2>1, <2>4, <2>5 DEF BarTrades
<1>5. CASE Holds(a, frame[n], setup.mode) /\ Open(b) /\ Same(a, b) /\ closed = {}
  <2>1. Grounded(a, n)
    BY <1>5, HeldGrounded
  <2>2. Grounded(b, n)
    BY <1>5, <2>1 DEF Grounded, Same
  <2>3. Origin(a, b.entered, n) /\ a.halt = "ACTIVE"
    BY <1>5 DEF Origin, Same, Holds
  <2> QED
    BY <1>5, <2>2, <2>3 DEF BarTrades
<1>6. CASE /\ Holds(a, frame[n], setup.mode) /\ ~Open(b) /\ b.cooldown = CooldownBars
           /\ \E t : /\ closed = {t} /\ TradeFrom(t, a, n, cost)
                     /\ t.reason \in {"stop", "stop_gap"}
  <2>1. PICK t : /\ closed = {t} /\ TradeFrom(t, a, n, cost)
                 /\ t.reason \in {"stop", "stop_gap"}
    BY <1>6
  <2>2. Grounded(a, n)
    BY <1>6, HeldGrounded
  <2>3. t.reason # "horizon_exit"
    BY <2>1
  <2>4. Follows(t)
    BY <1>1, <2>1, <2>2, <2>3, StopFollows
  <2>5. Origin(a, t.entered, n) /\ t.exited = n
    BY <1>6, <2>1 DEF Origin, TradeFrom, Holds
  <2> QED
    BY <1>6, <2>1, <2>4, <2>5 DEF BarTrades
<1>7. CASE /\ Open(a) /\ ~Open(b)
           /\ \E t : /\ closed = {t}
                     /\ SoldAs(t, a, n, frame[n], MissesBar(a, frame[n]), setup.mode, cost)
  <2>1. PICK t : /\ closed = {t}
                 /\ SoldAs(t, a, n, frame[n], MissesBar(a, frame[n]), setup.mode, cost)
    BY <1>7
  <2>2. Follows(t)
    BY <1>7, <2>1, SaleFollows
  <2>3. Origin(a, t.entered, n) /\ t.exited = n /\ ~IsStop(t)
    BY <1>7, <2>1 DEF Origin, SoldAs, TradeFrom, IsStop
  <2> QED
    BY <1>7, <2>1, <2>2, <2>3 DEF BarTrades
<1> QED
  BY <1>2, <1>3, <1>4, <1>5, <1>6, <1>7 DEF Outcome

\* One bar keeps the invariant of a run.
LEMMA RanBar ==
  ASSUME SetupType, NEW a, NEW T, NEW br, NEW n, Ran(a, T, br, n), n <= Len(frame),
         NEW c \in Bar, NEW signal \in Signals(n), NEW cost \in Nat, NEW s,
         AfterBar(a, s, n, frame[n], c, signal, setup.mode, cost),
         NEW after,
         after = IF br = 0 /\ (s.acct.top - Equity(s.acct, c.close, cost)) * 100
                                >= s.acct.top * DrawdownPct
                 THEN n ELSE br
  PROVE  Ran(s.acct, T \cup s.trades, after, n + 1)
<1> DEFINE b == s.acct
           closed == s.trades
<1>1. /\ Placed(a, n) /\ Signalled(a, n) /\ Positioned(a, n)
      /\ \A t \in T : Follows(t) /\ Dated(t, n) /\ Rested(a, t, n)
      /\ \A t, u \in T : Spaced(u.entered, t)
      /\ \A t \in T : Open(a) => Spaced(a.entered, t)
      /\ Ended(a, T, br, n)
  BY DEF Ran
<1>2. /\ b \in AccountType /\ HaltFits(b) /\ b.bar = frame[n]
      /\ b.pending = IF b.halt = "ACTIVE" THEN signal ELSE NoSignal
      /\ a.halt # "ACTIVE" => b.halt # "ACTIVE"
      /\ (b.top - Equity(b, c.close, cost)) * 100 >= b.top * DrawdownPct
           => b.halt # "ACTIVE"
      /\ b.cooldown = CooldownBars \/ b.cooldown >= a.cooldown - 1
      /\ Outcome(a, b, closed, n, frame[n], setup.mode, c.open, cost)
  BY DEF AfterBar
<1>3. (after = n /\ br = 0 /\ b.halt # "ACTIVE") \/ after = br
  <2> DEFINE beyond == (b.top - Equity(b, c.close, cost)) * 100 >= b.top * DrawdownPct
  <2>1. beyond => b.halt # "ACTIVE"
    BY <1>2
  <2>2. after = IF br = 0 /\ beyond THEN n ELSE br
    OBVIOUS
  <2> HIDE DEF beyond
  <2> QED
    BY <2>1, <2>2
<1> HIDE DEF b, closed
<1>4. BarTrades(a, b, closed, n)
  BY <1>1, <1>2, OutcomeTrades
<1>5. /\ n \in Nat /\ n + 1 \in Nat /\ n + 1 > setup.first /\ n + 1 # setup.first
      /\ (n + 1) - 1 = n /\ a.cooldown \in Nat /\ b.cooldown \in Nat
  <2>1. n \in Nat /\ setup.first \in Nat /\ n >= setup.first
    BY <1>1 DEF Placed, SetupType
  <2>2. a.cooldown \in Nat /\ b.cooldown \in Nat
    BY <1>1, <1>2 DEF Placed, AccountType
  <2> QED
    BY <2>1, <2>2
<1>6. Placed(b, n + 1)
  <2>1. b.bar = frame[(n + 1) - 1]
    BY <1>2, <1>5
  <2>2. n + 1 >= setup.first
    BY <1>5 DEF SetupType
  <2> QED
    BY <1>2, <1>5, <2>1, <2>2 DEF Placed
<1>7. Signalled(b, n + 1)
  <2>1. signal.does = "enter" => signal.row = n /\ models[n] # NoFit
    BY <1>5, SignalFits
  <2>2. NoSignal.does # "enter"
    BY DEF NoSignal
  <2> QED
    BY <1>2, <1>5, <2>1, <2>2 DEF Signalled
<1>8. Positioned(b, n + 1)
  BY <1>4, <1>5 DEF BarTrades, Positioned
\* What was open before row n was entered before it.
<1>9. Open(a) => a.entered \in Nat /\ a.entered < n
  <2>1. Open(a) => a.signal \in Nat /\ a.entered = a.signal + 1 /\ a.entered <= n - 1
    BY <1>1 DEF Positioned, Grounded
  <2> QED
    BY <1>5, <2>1
<1>10. ASSUME NEW x, Origin(a, x, n)
       PROVE  /\ x \in Nat /\ x <= n
              /\ \A t \in T : Spaced(x, t)
              /\ a.halt # "ACTIVE" => Open(a) /\ x = a.entered
  <2>1. CASE Open(a) /\ x = a.entered
    BY <1>1, <1>5, <1>9, <2>1
  <2>2. CASE Fresh(a, frame[n]) /\ x = n
    <3>1. a.cooldown = 0 /\ a.halt = "ACTIVE"
      BY <2>2 DEF Fresh
    <3>2. ASSUME NEW t \in T, IsStop(t) PROVE n > t.exited + CooldownBars
      <4>1. a.cooldown + (n - 1 - t.exited) >= CooldownBars /\ t.exited \in Nat
        BY <1>1, <3>2 DEF Rested, Dated
      <4> QED
        BY <1>5, <3>1, <4>1, Numbers
    <3> QED
      BY <1>5, <2>2, <3>1, <3>2 DEF Spaced
  <2> QED
    BY <1>10, <2>1, <2>2 DEF Origin
<1>11. ASSUME NEW t \in T
       PROVE  Follows(t) /\ Dated(t, n + 1) /\ Rested(b, t, n + 1)
  <2>1. /\ Follows(t) /\ t.entered \in Nat /\ t.exited \in Nat /\ t.entered < n
        /\ t.exited <= n /\ (IsStop(t) => t.exited < n)
        /\ (IsStop(t) => a.cooldown + (n - 1 - t.exited) >= CooldownBars)
    BY <1>1, <1>11 DEF Dated, Rested
  <2>2. Dated(t, n + 1)
    BY <1>5, <2>1 DEF Dated
  <2>3. IsStop(t) => b.cooldown + ((n + 1) - 1 - t.exited) >= CooldownBars
    BY <1>2, <1>5, <2>1, Numbers, SMTT(20)
  <2> QED
    BY <2>1, <2>2, <2>3 DEF Rested
<1>12. ASSUME NEW t \in closed
       PROVE  /\ Follows(t) /\ Dated(t, n + 1) /\ Rested(b, t, n + 1)
              /\ Origin(a, t.entered, n) /\ t.exited = n /\ ~Open(b)
              /\ t.entered \in Nat /\ t.entered <= n
  <2>1. /\ Follows(t) /\ Origin(a, t.entered, n) /\ t.exited = n /\ ~Open(b)
        /\ IsStop(t) => b.cooldown = CooldownBars
    BY <1>4, <1>12 DEF BarTrades
  <2>2. t.entered \in Nat /\ t.entered <= n
    BY <1>10, <2>1
  <2>3. Dated(t, n + 1)
    BY <1>5, <2>1, <2>2 DEF Dated
  <2>4. IsStop(t) => b.cooldown + ((n + 1) - 1 - t.exited) >= CooldownBars
    BY <1>5, <2>1, Numbers
  <2> QED
    BY <2>1, <2>2, <2>3, <2>4 DEF Rested
<1>13. ASSUME NEW t \in T \cup closed, NEW u \in T \cup closed PROVE Spaced(u.entered, t)
  <2>1. CASE t \in T /\ u \in T
    BY <1>1, <2>1
  <2>2. CASE t \in T /\ u \in closed
    BY <1>10, <1>12, <2>2
  <2>3. CASE t \in closed
    <3>1. t.exited = n
      BY <1>12, <2>3
    <3>2. u.entered \in Nat /\ u.entered <= n
      <4>1. CASE u \in T
        BY <1>1, <1>5, <4>1 DEF Dated
      <4>2. CASE u \in closed
        BY <1>12, <4>2
      <4> QED
        BY <4>1, <4>2
    <3>3. ~(u.entered > t.exited)
      BY <1>5, <3>1, <3>2
    <3> QED
      BY <3>3 DEF Spaced
  <2> QED
    BY <2>1, <2>2, <2>3
<1>14. ASSUME NEW t \in T \cup closed, Open(b) PROVE Spaced(b.entered, t)
  <2>1. t \in T
    BY <1>12, <1>14
  <2>2. Origin(a, b.entered, n)
    BY <1>4, <1>14 DEF BarTrades
  <2> QED
    BY <1>10, <2>1, <2>2
<1>15. Ended(b, T \cup closed, after, n + 1)
  <2>1. CASE after = n /\ br = 0 /\ b.halt # "ACTIVE"
    <3>1. \A t \in T : t.entered <= n /\ t.exited <= n + 1
      BY <1>1, <1>5 DEF Dated
    <3>2. \A t \in closed : t.entered <= n /\ t.exited <= n + 1
      BY <1>5, <1>12
    <3>3. Open(b) => b.entered <= n
      BY <1>4, <1>10 DEF BarTrades
    <3> QED
      BY <1>5, <2>1, <3>1, <3>2, <3>3 DEF Ended
  <2>2. CASE after = br
    <3> SUFFICES ASSUME br # 0
                 PROVE  /\ br \in Nat /\ br < n + 1 /\ b.halt # "ACTIVE"
                        /\ \A t \in T \cup closed : t.entered <= br /\ t.exited <= br + 1
                        /\ ~Open(b)
      BY <2>2 DEF Ended
    <3>1. /\ br \in Nat /\ br < n /\ a.halt # "ACTIVE"
          /\ \A t \in T : t.entered <= br /\ t.exited <= br + 1
          /\ Open(a) => a.entered <= br /\ n = br + 1
      BY <1>1 DEF Ended
    <3>2. br < n + 1 /\ b.halt # "ACTIVE" /\ ~Open(b)
      BY <1>2, <1>4, <1>5, <3>1 DEF BarTrades
    <3>3. ASSUME NEW t \in closed PROVE t.entered <= br /\ t.exited <= br + 1
      <4>1. Open(a) /\ t.entered = a.entered /\ t.exited = n
        BY <1>10, <1>12, <3>1
      <4> QED
        BY <1>5, <3>1, <4>1
    <3> QED
      BY <3>1, <3>2, <3>3
  <2> QED
    BY <1>3, <2>1, <2>2
<1>16. Ran(b, T \cup closed, after, n + 1)
  BY <1>6, <1>7, <1>8, <1>11, <1>12, <1>13, <1>14, <1>15 DEF Ran
<1> QED
  BY <1>16 DEF b, closed

\* So does the end of a run.
LEMMA RanEnd ==
  ASSUME SetupType, NEW a, NEW T, NEW br, NEW m, Ran(a, T, br, m + 1), m = Len(frame),
         NEW close \in Int, NEW cost \in Nat,
         NEW e, e = Liquidated(a, m, close, cost)
  PROVE  Ran(e.acct, T \cup e.trades, br, m + 1)
<1> DEFINE b == e.acct
           closed == e.trades
           n == m + 1
<1>1. /\ Placed(a, n) /\ Signalled(a, n) /\ Positioned(a, n)
      /\ \A t \in T : Follows(t) /\ Dated(t, n) /\ Rested(a, t, n)
      /\ \A t, u \in T : Spaced(u.entered, t)
      /\ \A t \in T : Open(a) => Spaced(a.entered, t)
      /\ Ended(a, T, br, n)
  BY DEF Ran
<1>2. m \in Nat /\ n \in Nat /\ n > Len(frame) /\ n - 1 = m
  BY DEF SetupType
<1>3. \/ ~Open(a) /\ b = a /\ closed = {}
      \/ /\ Open(a) /\ ~Open(b) /\ b \in AccountType /\ HaltFits(b)
         /\ b.cooldown = a.cooldown /\ b.bar = a.bar /\ b.pending = a.pending
         /\ a.halt # "ACTIVE" => b.halt = "HALTED"
         /\ \E t : /\ closed = {t} /\ TradeFrom(t, a, m + 1, cost)
                   /\ t.reason = "end_of_run"
  <2>1. a \in AccountType /\ HaltFits(a)
    BY <1>1 DEF Placed
  <2> QED
    BY <1>2, <2>1, LiquidatedFields
<1> HIDE DEF b, closed
<1>4. CASE ~Open(a) /\ b = a /\ closed = {}
  BY <1>4 DEF b, closed
<1>5. CASE /\ Open(a) /\ ~Open(b) /\ b \in AccountType /\ HaltFits(b)
           /\ b.cooldown = a.cooldown /\ b.bar = a.bar /\ b.pending = a.pending
           /\ a.halt # "ACTIVE" => b.halt = "HALTED"
           /\ \E t : /\ closed = {t} /\ TradeFrom(t, a, m + 1, cost)
                     /\ t.reason = "end_of_run"
  <2>1. PICK t : closed = {t} /\ TradeFrom(t, a, n, cost) /\ t.reason = "end_of_run"
    BY <1>5
  <2>2. Grounded(a, m)
    BY <1>1, <1>2, <1>5 DEF Positioned
  <2>3. /\ a.entered \in Nat /\ a.entered <= m /\ m \in 1..Len(frame)
        /\ t.entered = a.entered /\ t.exited = n /\ ~IsStop(t) /\ t.reason # "horizon_exit"
    <3>1. a.signal \in Nat \ {0} /\ a.entered = a.signal + 1 /\ a.entered <= m
      BY <2>2 DEF Grounded
    <3>2. m \in 1..Len(frame)
      BY <1>2, <3>1
    <3> QED
      BY <2>1, <3>1, <3>2 DEF TradeFrom, IsStop
  <2>4. Follows(t)
    BY <1>2, <2>1, <2>2, <2>3, StopFollows
  <2>5. n # setup.first
    BY <1>5, <1>1 DEF Placed, Open, NewAccount
  <2>6. Placed(b, n)
    BY <1>1, <1>5, <2>5 DEF Placed
  <2>7. Signalled(b, n) /\ Positioned(b, n)
    BY <1>1, <1>5 DEF Signalled, Positioned
  <2>8. ASSUME NEW u \in T PROVE Follows(u) /\ Dated(u, n) /\ Rested(b, u, n)
    BY <1>1, <1>5, <2>8 DEF Rested
  <2>9. Dated(t, n) /\ Rested(b, t, n)
    BY <1>2, <2>3 DEF Dated, Rested
  <2>10. ASSUME NEW u \in T \cup closed, NEW v \in T \cup closed PROVE Spaced(v.entered, u)
    <3>1. CASE u \in T /\ v \in T
      BY <1>1, <3>1
    <3>2. CASE u \in T /\ v \in closed
      BY <1>1, <1>5, <2>1, <2>3, <3>2
    <3>3. CASE u \in closed
      BY <2>1, <2>3, <3>3 DEF Spaced
    <3> QED
      BY <3>1, <3>2, <3>3
  <2>11. Ended(b, T \cup closed, br, n)
    <3> SUFFICES ASSUME br # 0
                 PROVE  /\ br \in Nat /\ br < n /\ b.halt # "ACTIVE"
                        /\ \A u \in T \cup closed : u.entered <= br /\ u.exited <= br + 1
      BY <1>5 DEF Ended
    <3>1. /\ br \in Nat /\ br < n /\ a.halt # "ACTIVE"
          /\ \A u \in T : u.entered <= br /\ u.exited <= br + 1
          /\ a.entered <= br /\ n = br + 1
      BY <1>1, <1>5 DEF Ended
    <3>2. \A u \in closed : u.entered <= br /\ u.exited <= br + 1
      BY <1>2, <2>1, <2>3, <3>1
    <3> QED
      BY <1>5, <3>1, <3>2
  <2> HIDE DEF n
  <2>12. Ran(b, T \cup closed, br, n)
    BY <1>5, <2>1, <2>4, <2>6, <2>7, <2>8, <2>9, <2>10, <2>11 DEF Ran
  <2> QED
    BY <2>12 DEF b, closed, n
<1> QED
  BY <1>3, <1>4, <1>5

-----------------------------------------------------------------------------
(* The frame *)

Ordered(f) == \A i, j \in 1..Len(f) : i < j => f[i] < f[j]

\* A set of slots in ascending order.
LEMMA AscendingFacts ==
  ASSUME NEW S, S \subseteq Nat, IsFiniteSet(S)
  PROVE  /\ Ascending(S) \in Seq(Nat) /\ Len(Ascending(S)) = Cardinality(S)
         /\ Ordered(Ascending(S))
         /\ \A i \in 1..Len(Ascending(S)) : Ascending(S)[i] \in S
         /\ \A s \in S : \E i \in 1..Len(Ascending(S)) : Ascending(S)[i] = s
<1> DEFINE n == Cardinality(S)
           A == Ascending(S)
           rank(s) == Cardinality(Lower(S, s))
<1>0. S \subseteq Int
  OBVIOUS
<1>1. /\ n \in Nat
      /\ \A s \in S : rank(s) \in 1..n
      /\ \A s, u \in S : s < u => rank(s) < rank(u)
      /\ \A i \in 1..n : \E s \in S : rank(s) = i
  BY <1>0, Ranks
<1>2. A = [i \in 1..n |-> CHOOSE s \in S : rank(s) = i]
  BY DEF Ascending, Lower
<1> HIDE DEF rank, n, A
<1>3. ASSUME NEW i \in 1..n PROVE A[i] \in S /\ rank(A[i]) = i
  <2>1. \E s \in S : rank(s) = i
    BY <1>1
  <2>2. A[i] = CHOOSE s \in S : rank(s) = i
    BY <1>2
  <2> QED
    BY <2>1, <2>2
<1>4. A \in [1..n -> Nat]
  BY <1>2, <1>3
<1>5. A \in Seq(Nat) /\ Len(A) = n
  BY <1>1, <1>4
<1>6. ASSUME NEW s \in S, NEW u \in S, rank(s) = rank(u) PROVE s = u
  <2>1. ~(s < u) /\ ~(u < s)
    BY <1>1, <1>6
  <2> QED
    BY <2>1
<1>7. ASSUME NEW s \in S PROVE \E i \in 1..n : A[i] = s
  <2>1. rank(s) \in 1..n
    BY <1>1
  <2>2. A[rank(s)] = s
    BY <1>3, <1>6, <2>1
  <2> QED
    BY <2>1, <2>2
<1>8. ASSUME NEW i \in 1..n, NEW j \in 1..n, i < j PROVE A[i] < A[j]
  <2>1. /\ A[i] \in S /\ A[j] \in S /\ rank(A[i]) = i /\ rank(A[j]) = j
        /\ A[i] \in Int /\ A[j] \in Int
    BY <1>0, <1>3
  <2>2. A[i] # A[j]
    BY <1>8, <2>1
  <2>3. ~(A[j] < A[i])
    BY <1>1, <1>8, <2>1
  <2> QED
    BY <2>1, <2>2, <2>3
<1>9. Ordered(A)
  BY <1>5, <1>8 DEF Ordered
<1> QED
  BY <1>3, <1>5, <1>7, <1>9 DEF A, n

LEMMA PrefixFacts ==
  ASSUME frame \in Seq(Nat), Ordered(frame), NEW rows \in 0..Len(frame)
  PROVE  /\ Prefix(rows) \in Seq(Nat) /\ Len(Prefix(rows)) = rows
         /\ Ordered(Prefix(rows))
         /\ \A i \in 1..rows : Prefix(rows)[i] = frame[i]
<1>1. Len(frame) \in Nat
  OBVIOUS
<1>2. Prefix(rows) \in Seq(Nat) /\ Len(Prefix(rows)) = rows
      /\ \A i \in 1..rows : Prefix(rows)[i] = frame[i]
  BY <1>1 DEF Prefix
<1>3. Ordered(Prefix(rows))
  <2> SUFFICES ASSUME NEW i \in 1..rows, NEW j \in 1..rows, i < j
               PROVE  Prefix(rows)[i] < Prefix(rows)[j]
    BY <1>2 DEF Ordered
  <2>1. i \in 1..Len(frame) /\ j \in 1..Len(frame)
    BY <1>1
  <2> QED
    BY <1>2, <2>1 DEF Ordered
<1> QED
  BY <1>2, <1>3

LEMMA SlotsFinite ==
  /\ Slots \subseteq Nat /\ IsFiniteSet(Slots)
  /\ Max(Slots) \in Nat /\ \A s \in Slots : s <= Max(Slots)
<1>1. FirstSlot \in Nat /\ FirstSlot + Wanted + MaxGaps \in Nat
      /\ FirstSlot <= FirstSlot + Wanted + MaxGaps
  BY BacktestAssumption
<1> DEFINE last == FirstSlot + Wanted + MaxGaps
<1>2. Slots = FirstSlot..last
  BY DEF Slots
<1> HIDE DEF last
<1>3. last \in Slots /\ \A s \in Slots : last >= s
  BY <1>1, <1>2 DEF last
<1>4. Max(Slots) \in Slots /\ \A s \in Slots : Max(Slots) >= s
  BY <1>3 DEF Max
<1>5. Slots \subseteq Nat
  BY <1>1, <1>2 DEF last
<1>6. IsFiniteSet(Slots)
  BY <1>1, <1>2, FS_Interval DEF last
<1>7. ASSUME NEW s \in Slots PROVE s <= Max(Slots)
  BY <1>4, <1>5
<1> QED
  BY <1>4, <1>5, <1>6, <1>7

-----------------------------------------------------------------------------
(* The invariant of a backtest *)

\* The slots from the cursor on up to any that is fetched are fetched, and the
\* pages were served after the cutoff.
Downloaded ==
  /\ server \in Nat /\ skew \in Skew /\ cutoff \in Int /\ cursor \in Int /\ wanted \in Nat
  /\ IsFiniteSet(pages)
  /\ cutoff # Unset => cutoff <= server
  /\ \A p \in pages :
       /\ p.slot \in market /\ p.slot >= cursor /\ p.slot * Interval <= server
       /\ p.served \in Nat /\ cutoff # Unset /\ cutoff <= p.served
  /\ \A s \in market, p \in pages : s >= cursor /\ s <= p.slot => s \in Fetched

\* What the table holds is final, and it has every candle of the exchange where
\* a download reached.
Cached ==
  /\ table \subseteq Nat /\ IsFiniteSet(table) /\ early = {}
  /\ \A s \in market : s \in covered => s \in table

Before == {"idle", "fetch", "store", "load", "failed"}
Phases == Before \cup {"predict", "run", "done"}

BInv ==
  /\ phase \in Phases /\ market \subseteq Slots
  /\ frame \in Seq(Nat) /\ Ordered(frame)
  /\ phase \in Before => frame = <<>>
  /\ phase \in {"fetch", "store"} => Downloaded
  /\ Cached
  /\ FrameIsFinal
  /\ phase = "predict" => Len(frame) = Wanted
  /\ phase \notin {"run", "done"} => acct = NewAccount /\ trades = {} /\ breach = 0
  /\ phase \in {"run", "done"} => SetupType /\ Ran(acct, trades, breach, row)

LEMMA NewAccountFits == NewAccount \in AccountType /\ HaltFits(NewAccount) /\ ~Open(NewAccount)
<1>1. NewAccount \in AccountType
  BY Sizes DEF NewAccount, AccountType, Halt, NoSignal, SignalType
<1> QED
  BY <1>1 DEF NewAccount, HaltFits, Open

\* A run begins.
LEMMA RanInit ==
  ASSUME NEW n \in Nat, n = setup.first
  PROVE  Ran(NewAccount, {}, 0, n)
<1>1. Placed(NewAccount, n)
  BY NewAccountFits DEF Placed
<1>2. Signalled(NewAccount, n) /\ Positioned(NewAccount, n)
  BY NewAccountFits DEF Signalled, Positioned, NewAccount, NoSignal
<1>3. Ended(NewAccount, {}, 0, n)
  BY DEF Ended
<1> QED
  BY <1>1, <1>2, <1>3 DEF Ran

LEMMA InitInv == Init => BInv
<1> SUFFICES ASSUME Init PROVE BInv
  OBVIOUS
<1>1. /\ phase = "idle" /\ frame = <<>> /\ table = {} /\ early = {} /\ covered = {}
      /\ acct = NewAccount /\ trades = {} /\ breach = 0 /\ market \subseteq Slots
  BY DEF Init
<1>2. Cached
  BY <1>1, FS_EmptySet DEF Cached
<1>3. frame \in Seq(Nat) /\ Ordered(frame) /\ FrameIsFinal
  BY <1>1 DEF Ordered, FrameIsFinal
<1> QED
  BY <1>1, <1>2, <1>3 DEF BInv, Phases, Before

\* The time a frame is closed at is no later than an answer that fixes it.
LEMMA CutoffEarly ==
  ASSUME NEW asked \in Nat, NEW at \in Nat, asked <= at, NEW dated \in BOOLEAN,
         skew \in Skew, dated \/ skew <= SkewReserve
  PROVE  /\ Cutoff(asked, at, dated) \in Int /\ Cutoff(asked, at, dated) # Unset
         /\ Cutoff(asked, at, dated) <= at
<1>1. skew \in Int /\ skew - SkewReserve > Unset /\ SkewReserve \in Nat /\ Unset \in Int /\ Unset < 0
  BY BacktestAssumption DEF Unset
<1>2. CASE dated
  <2>1. Cutoff(asked, at, dated) = IF asked + skew <= at THEN asked + skew ELSE at
    BY <1>1, <1>2, MinOfTwo DEF Cutoff
  <2> QED
    BY <1>1, <2>1
<1>3. CASE ~dated
  <2>1. Cutoff(asked, at, dated) = asked + skew - SkewReserve
    BY <1>3 DEF Cutoff
  <2> QED
    BY <1>1, <1>3, <2>1
<1> QED
  BY <1>2, <1>3

\* Whatever is larger than one of the largest is one of them.
LEMMA LargestUp ==
  ASSUME NEW S, S \subseteq Int, IsFiniteSet(S), NEW n \in Int,
         NEW x \in Largest(S, n), NEW y \in S, y >= x
  PROVE  y \in Largest(S, n)
<1> DEFINE above(z) == {u \in S : u > z}
<1>1. x \in S /\ Cardinality(above(x)) < n
  BY DEF Largest
<1>2. above(x) \in SUBSET S /\ above(y) \in SUBSET above(x)
  <2>1. ASSUME NEW u \in S, u > y PROVE u > x
    <3>1. u \in Int /\ y \in Int /\ x \in Int
      BY <1>1
    <3> QED
      BY <2>1, <3>1
  <2> QED
    BY <2>1
<1>3. IsFiniteSet(above(x)) /\ Cardinality(above(y)) <= Cardinality(above(x)) /\ IsFiniteSet(above(y))
  <2> HIDE DEF above
  <2>1. IsFiniteSet(above(x))
    BY <1>2, FS_Subset
  <2> QED
    BY <1>2, <2>1, FS_Subset
<1>4. Cardinality(above(y)) < n
  <2>1. Cardinality(above(x)) \in Nat /\ Cardinality(above(y)) \in Nat
    BY <1>3, FS_CardinalityType
  <2> HIDE DEF above
  <2> QED
    BY <1>1, <1>3, <2>1
<1> QED
  BY <1>4 DEF Largest

\* The slots of one page: the newest before the cursor.
LEMMA PageFacts ==
  ASSUME market \subseteq Slots, cursor \in Int, IsFiniteSet(pages), wanted \in Nat, NEW at \in Nat
  PROVE  /\ IsFiniteSet(Page(at))
         /\ \A p \in Page(at) : /\ p.slot \in market /\ p.slot < cursor
                                /\ p.slot * Interval <= at /\ p.served = at
         /\ \A p \in Page(at), s \in market :
              s >= p.slot /\ s < cursor /\ s * Interval <= at =>
                \E q \in Page(at) : q.slot = s
<1> DEFINE have == {s \in market : s < cursor /\ s * Interval <= at}
           k == Min({PageSize, Missing})
           page == Largest(have, k)
<1>1. Page(at) = {[slot |-> s, served |-> at] : s \in page}
  BY DEF Page
<1>2. have \subseteq Int /\ IsFiniteSet(have) /\ page \subseteq have
  <2>1. have \in SUBSET Slots
    OBVIOUS
  <2>2. page \subseteq have
    BY DEF Largest
  <2> HIDE DEF have, page
  <2>3. IsFiniteSet(have)
    BY <2>1, SlotsFinite, FS_Subset
  <2>4. have \subseteq Int
    BY <2>1, SlotsFinite
  <2> QED
    BY <2>2, <2>3, <2>4
<1>3. k \in Int
  <2>1. PageSize \in Int /\ Missing \in Int
    BY Sizes, FS_CardinalityType DEF Missing
  <2>2. Min({PageSize, Missing}) = IF PageSize <= Missing THEN PageSize ELSE Missing
    BY <2>1, MinOfTwo
  <2> QED
    BY <2>1, <2>2
<1>4. \A s \in have : s \in market /\ s < cursor /\ s * Interval <= at
  OBVIOUS
<1>5. \A s \in market : s < cursor /\ s * Interval <= at => s \in have
  OBVIOUS
<1> HIDE DEF have, k
<1>6. \A x \in page, y \in have : y >= x => y \in page
  BY <1>2, <1>3, LargestUp
<1> HIDE DEF page
<1>7. IsFiniteSet(Page(at))
  <2> DEFINE f == [s \in page |-> [slot |-> s, served |-> at]]
  <2>1. IsFiniteSet(page)
    BY <1>2, FS_Subset
  <2>2. f \in Surjection(page, Page(at))
    BY <1>1 DEF Surjection
  <2> HIDE DEF f
  <2> QED
    BY <2>1, <2>2, FS_Surjection
<1>8. ASSUME NEW p \in Page(at)
      PROVE  p.slot \in page /\ p.served = at /\ p.slot \in have
  BY <1>1, <1>2
<1>9. ASSUME NEW p \in Page(at), NEW s \in market, s >= p.slot, s < cursor, s * Interval <= at
      PROVE  \E q \in Page(at) : q.slot = s
  <2>1. s \in page
    BY <1>5, <1>6, <1>8, <1>9
  <2>2. [slot |-> s, served |-> at] \in Page(at)
    BY <1>1, <2>1
  <2>3. [slot |-> s, served |-> at].slot = s
    OBVIOUS
  <2> QED
    BY <2>2, <2>3
<1> QED
  BY <1>4, <1>7, <1>8, <1>9


-----------------------------------------------------------------------------
(* The steps of a backtest *)

\* What the cursor of a page says, where its slots are numbers.
LEMMA CursorFacts ==
  ASSUME NEW P, IsFiniteSet(P), P # {}, \A p \in P : p.slot \in Nat
  PROVE  LET m == Min({p.slot : p \in P})
         IN /\ \E p \in P : p.slot = m
            /\ \A p \in P : m <= p.slot
<1> DEFINE S == {p.slot : p \in P}
           f == [p \in P |-> p.slot]
<1>1. S \subseteq Int /\ S # {}
  OBVIOUS
<1>2. IsFiniteSet(S)
  <2>1. f \in Surjection(P, S)
    BY DEF Surjection
  <2> HIDE DEF f, S
  <2> QED
    BY <2>1, FS_Surjection
<1>3. \A s \in S : \E p \in P : p.slot = s
  OBVIOUS
<1>4. \A p \in P : p.slot \in S
  OBVIOUS
<1> HIDE DEF S
<1>5. PICK s \in S : \A t \in S : s <= t
  BY <1>1, <1>2, LeastExists
<1>6. Min(S) \in S /\ \A t \in S : Min(S) <= t
  BY <1>5 DEF Min
<1>7. Min(S) = Min({p.slot : p \in P})
  BY DEF S
<1> HIDE DEF S
<1> QED
  BY <1>3, <1>4, <1>6, <1>7

\* The first account is a constant.
LEMMA NewSame == NewAccount' = NewAccount
BY DEF NewAccount, NoSignal, NoBar

LEMMA CommandInv == BInv /\ (SyncCommand \/ BacktestCommand \/ OfflineBacktest) => BInv'
<1> SUFFICES ASSUME BInv, SyncCommand \/ BacktestCommand \/ OfflineBacktest PROVE BInv'
  OBVIOUS
<1>1. /\ Begin /\ phase' \in {"fetch", "load"} /\ wanted' \in SyncCounts \cup {Wanted + 1, 0}
  BY DEF SyncCommand, BacktestCommand, OfflineBacktest
<1>2. /\ phase \in {"idle", "failed"} /\ server' \in Nat /\ skew' \in Skew
      /\ pages' = {} /\ cursor' = FirstSlot + Wanted + MaxGaps + 1 /\ cutoff' = Unset
      /\ UNCHANGED <<market, table, covered, early, frame, acct, trades, breach>>
  BY <1>1, BacktestAssumption DEF Begin, store, execution
<1>3. market \subseteq Slots /\ frame = <<>> /\ Cached
      /\ acct = NewAccount /\ trades = {} /\ breach = 0
  BY <1>2 DEF BInv, Before
<1>4. Downloaded'
  <2>1. wanted' \in Nat /\ cursor' \in Int
    BY <1>1, <1>2, BacktestAssumption
  <2> QED
    BY <1>2, <2>1, FS_EmptySet DEF Downloaded, Unset
<1>5. Cached'
  BY <1>2, <1>3 DEF Cached
<1>6. frame' = <<>> /\ Ordered(frame') /\ FrameIsFinal' /\ frame' \in Seq(Nat)
  BY <1>1, <1>2, <1>3 DEF Ordered, FrameIsFinal
<1> QED
  BY <1>1, <1>2, <1>3, <1>4, <1>5, <1>6, NewSame DEF BInv, Phases, Before

LEMMA FetchPageInv == BInv /\ FetchPage => BInv'
<1> SUFFICES ASSUME BInv, FetchPage PROVE BInv'
  OBVIOUS
<1>1. /\ phase = "fetch" /\ market \subseteq Slots /\ frame = <<>> /\ Downloaded /\ Cached
      /\ acct = NewAccount /\ trades = {} /\ breach = 0
  BY DEF BInv, FetchPage, Before
<1>2. PICK delay \in 0..MaxDelay, dated \in BOOLEAN :
        /\ dated \/ skew <= SkewReserve
        /\ server' = server + delay
        /\ cutoff' = IF cutoff = Unset THEN Cutoff(server, server + delay, dated) ELSE cutoff
        /\ pages' = pages \cup Page(server + delay)
        /\ cursor' = IF Page(server + delay) = {} THEN cursor
                     ELSE Min({p.slot : p \in Page(server + delay)})
        /\ phase' \in {"fetch", "store"}
  <2>1. {"fetch", "store"} = {"store", phase}
    BY <1>1
  <2> QED
    BY <2>1 DEF FetchPage
<1>3. UNCHANGED <<market, skew, wanted, table, covered, early, frame, acct, trades, breach>>
  BY DEF FetchPage, execution, issued, store
<1> DEFINE at == server + delay
           new == Page(at)
<1>4. server \in Nat /\ at \in Nat /\ server <= at /\ skew \in Skew /\ cutoff \in Int
      /\ cursor \in Int /\ IsFiniteSet(pages) /\ Interval \in Nat \ {0} /\ wanted \in Nat
  BY <1>1, BacktestAssumption DEF Downloaded
<1>5. \A s \in market : s \in Nat
  BY <1>1, SlotsFinite
<1> HIDE DEF at
<1>6. /\ IsFiniteSet(new)
      /\ \A p \in new : /\ p.slot \in market /\ p.slot < cursor
                        /\ p.slot * Interval <= at /\ p.served = at
      /\ \A p \in new, s \in market :
           s >= p.slot /\ s < cursor /\ s * Interval <= at => \E q \in new : q.slot = s
  BY <1>1, <1>4, PageFacts
<1>7. /\ cutoff' \in Int /\ cutoff' # Unset
      /\ cutoff' <= at
      /\ cutoff # Unset => cutoff' = cutoff
  <2>1. dated \/ skew <= SkewReserve
    BY <1>2
  <2>2. /\ Cutoff(server, at, dated) \in Int /\ Cutoff(server, at, dated) # Unset
        /\ Cutoff(server, at, dated) <= at
    BY <1>4, <2>1, CutoffEarly
  <2>3. cutoff' = IF cutoff = Unset THEN Cutoff(server, at, dated) ELSE cutoff
    BY <1>2 DEF at
  <2>4. cutoff # Unset => cutoff <= server
    BY <1>1 DEF Downloaded
  <2> QED
    BY <1>4, <2>2, <2>3, <2>4
<1>8. /\ server' = at /\ pages' = pages \cup new
      /\ cursor' = IF new = {} THEN cursor ELSE Min({p.slot : p \in new})
  BY <1>2 DEF at
<1> HIDE DEF new
<1>9. /\ cursor' \in Int /\ cursor' <= cursor
      /\ \A p \in new : cursor' <= p.slot
      /\ cursor' # cursor => \E p \in new : p.slot = cursor'
  <2>1. CASE new = {}
    BY <1>4, <1>8, <2>1
  <2>2. CASE new # {}
    <3>1. \A p \in new : p.slot \in Nat
      BY <1>5, <1>6
    <3>2. /\ \E p \in new : p.slot = cursor'
          /\ \A p \in new : cursor' <= p.slot
      BY <1>6, <1>8, <2>2, <3>1, CursorFacts
    <3>3. cursor' \in Int /\ cursor' <= cursor
      BY <1>4, <1>6, <3>1, <3>2
    <3> QED
      BY <3>2, <3>3
  <2> QED
    BY <2>1, <2>2
<1>10. IsFiniteSet(pages')
  BY <1>4, <1>6, <1>8, FS_Union
<1>11. ASSUME NEW p \in pages'
       PROVE  /\ p.slot \in market /\ p.slot >= cursor' /\ p.slot * Interval <= at
              /\ p.served \in Nat /\ cutoff' <= p.served
  <2>1. CASE p \in pages
    <3>1. /\ p.slot \in market /\ p.slot >= cursor /\ p.slot * Interval <= server
          /\ p.served \in Nat /\ cutoff # Unset /\ cutoff <= p.served
      BY <1>1, <2>1 DEF Downloaded
    <3>2. p.slot * Interval \in Int /\ p.slot \in Int
      BY <1>4, <1>5, <3>1
    <3>3. p.slot >= cursor' /\ p.slot * Interval <= at
      BY <1>4, <1>9, <3>1, <3>2
    <3> QED
      BY <1>7, <3>1, <3>3
  <2>2. CASE p \in new
    <3>1. p.slot \in market /\ p.slot * Interval <= at /\ p.served = at
      BY <1>6, <2>2
    <3>2. p.slot >= cursor'
      BY <1>5, <1>9, <2>2, <3>1
    <3> QED
      BY <1>4, <1>7, <3>1, <3>2
  <2> QED
    BY <1>8, <2>1, <2>2
<1>12. ASSUME NEW s \in market, NEW p \in pages', s >= cursor', s <= p.slot
       PROVE  \E q \in pages' : q.slot = s
  <2>1. s \in Nat /\ p.slot \in Nat /\ p.slot \in market /\ p.slot * Interval <= at
    BY <1>5, <1>11
  <2>2. CASE s >= cursor
    <3>1. p \in pages
      <4>1. p.slot >= cursor
        BY <1>4, <1>12, <2>1, <2>2
      <4>2. p \notin new
        BY <1>4, <1>6, <2>1, <4>1
      <4> QED
        BY <1>8, <4>2
    <3>2. s \in Fetched
      BY <1>1, <1>12, <2>2, <3>1 DEF Downloaded
    <3> QED
      BY <1>8, <3>2 DEF Fetched
  <2>3. CASE ~(s >= cursor)
    <3>1. cursor' # cursor /\ s < cursor
      BY <1>4, <1>12, <2>1, <2>3
    <3>2. PICK q \in new : q.slot = cursor'
      BY <1>9, <3>1
    <3>3. s * Interval <= at
      BY <1>4, <1>12, <2>1
    <3>4. \E r \in new : r.slot = s
      BY <1>6, <1>12, <3>1, <3>2, <3>3
    <3> QED
      BY <1>8, <3>4
  <2> QED
    BY <2>2, <2>3
<1>13. Downloaded'
  <2>1. \A s \in market', p \in pages' : s >= cursor' /\ s <= p.slot => s \in Fetched'
    BY <1>3, <1>12 DEF Fetched
  <2>2. skew' \in Skew /\ server' \in Nat /\ wanted' \in Nat
    BY <1>3, <1>4, <1>8
  <2>3. \A p \in pages' : /\ p.slot \in market' /\ p.slot >= cursor' /\ p.slot * Interval <= server'
                          /\ p.served \in Nat /\ cutoff' # Unset /\ cutoff' <= p.served
    BY <1>3, <1>7, <1>8, <1>11
  <2> QED
    BY <1>7, <1>8, <1>9, <1>10, <2>1, <2>2, <2>3 DEF Downloaded
<1>14. frame' = <<>> /\ Ordered(frame') /\ FrameIsFinal' /\ frame' \in Seq(Nat)
  BY <1>1, <1>2, <1>3 DEF Ordered, FrameIsFinal
<1>15. Cached'
  BY <1>1, <1>3 DEF Cached
<1>16. phase' \in {"fetch", "store"}
  BY <1>2
<1> QED
  BY <1>1, <1>3, <1>13, <1>14, <1>15, <1>16, NewSame DEF BInv, Phases, Before


LEMMA RequestFailsInv == BInv /\ RequestFails => BInv'
<1> SUFFICES ASSUME BInv, RequestFails PROVE BInv'
  OBVIOUS
<1>1. /\ phase = "fetch" /\ phase' \in {"fetch", "failed"}
      /\ UNCHANGED <<market, skew, server, pages, cursor, cutoff, wanted, frame>>
      /\ UNCHANGED <<table, covered, early, acct, trades, breach>>
  BY DEF RequestFails, execution, issued, store
<1>2. market \subseteq Slots /\ frame = <<>> /\ Downloaded /\ Cached
      /\ acct = NewAccount /\ trades = {} /\ breach = 0
  BY <1>1 DEF BInv, Before
<1>3. Downloaded'
  BY <1>1, <1>2 DEF Downloaded, Fetched
<1>4. frame' = <<>> /\ Ordered(frame') /\ FrameIsFinal' /\ frame' \in Seq(Nat)
  BY <1>1, <1>2 DEF Ordered, FrameIsFinal
<1>5. Cached'
  BY <1>1, <1>2 DEF Cached
<1> QED
  BY <1>1, <1>2, <1>3, <1>4, <1>5, NewSame DEF BInv, Phases, Before

\* A finite set of numbers has a largest one.
LEMMA GreatestExists ==
  ASSUME NEW S, S \subseteq Int, IsFiniteSet(S), S # {}
  PROVE  Max(S) \in S /\ \A t \in S : t <= Max(S)
<1> DEFINE top == {x \in S : Cardinality({y \in S : y > x}) < 1}
<1>1. 1 <= Cardinality(S)
  BY FS_CardinalityType, FS_EmptySet
<1>2. IsFiniteSet(top) /\ Cardinality(top) = 1
  BY <1>1, TopSize
<1>3. top # {}
  <2> HIDE DEF top
  <2> QED
    BY <1>2, FS_EmptySet
<1>4. PICK x : x \in S /\ Cardinality({y \in S : y > x}) < 1
  <2>1. PICK x : x \in top
    BY <1>3
  <2> QED
    BY <2>1
<1> HIDE DEF top
<1>5. ASSUME NEW t \in S, t > x PROVE FALSE
  <2> DEFINE above == {y \in S : y > x}
  <2>1. above \in SUBSET S /\ t \in above
    BY <1>5
  <2>2. Cardinality(above) < 1
    BY <1>4
  <2> HIDE DEF above
  <2>3. IsFiniteSet(above) /\ Cardinality(above) \in Nat
    BY <2>1, FS_Subset, FS_CardinalityType
  <2>4. above = {}
    BY <2>2, <2>3, FS_EmptySet
  <2> QED
    BY <2>1, <2>4
<1>6. x \in S /\ \A t \in S : x >= t
  <2>1. x \in Int /\ \A t \in S : t \in Int /\ ~(t > x)
    BY <1>4, <1>5
  <2> QED
    BY <1>4, <2>1
<1>7. Max(S) \in S /\ \A t \in S : Max(S) >= t
  BY <1>6 DEF Max
<1> QED
  BY <1>7

\* The closed rows of a download have no hole, and each was served once its
\* candle had closed.
LEMMA StoredRows ==
  ASSUME Downloaded, market \subseteq Slots, Closed # {},
         NEW stored, stored = {p.slot : p \in Closed}
  PROVE  /\ stored \subseteq Nat /\ IsFiniteSet(stored)
         /\ \A p \in Closed : ~(p.served < Closes(p.slot))
         /\ \A s \in market : s \in Min(stored)..Max(stored) => s \in stored
<1>1. /\ IsFiniteSet(pages) /\ cutoff \in Int /\ cursor \in Int
      /\ \A p \in pages : p.slot \in market /\ p.slot >= cursor /\ p.served \in Nat
                          /\ cutoff <= p.served
      /\ \A s \in market, p \in pages : s >= cursor /\ s <= p.slot => s \in Fetched
  BY DEF Downloaded
<1>2. \A s \in market : s \in Nat
  BY SlotsFinite
<1>3. Interval \in Nat \ {0} /\ Grace \in Nat
  BY BacktestAssumption
<1>4. Closed \in SUBSET pages
  BY DEF Closed
<1>5. stored \subseteq Nat /\ stored # {}
  BY <1>1, <1>2, <1>4
<1>6. IsFiniteSet(stored)
  <2> DEFINE g == [p \in Closed |-> p.slot]
  <2>1. g \in Surjection(Closed, stored)
    BY DEF Surjection
  <2> HIDE DEF g
  <2>2. IsFiniteSet(Closed)
    BY <1>1, <1>4, FS_Subset
  <2> QED
    BY <2>1, <2>2, FS_Surjection
<1>7. ASSUME NEW p \in Closed PROVE ~(p.served < Closes(p.slot))
  <2>1. Closes(p.slot) + Grace <= cutoff
    BY DEF Closed
  <2>2. Closes(p.slot) \in Int
    BY <1>1, <1>2, <1>3, <1>4 DEF Closes
  <2> QED
    BY <1>1, <1>3, <1>4, <2>1, <2>2
<1>8. ASSUME NEW s \in market, s \in Min(stored)..Max(stored)
      PROVE  s \in stored
  <2>1. stored \subseteq Int /\ Max(stored) \in stored
    <3>1. stored \subseteq Int /\ stored # {}
      BY <1>5
    <3> QED
      BY <1>6, <3>1, GreatestExists
  <2>2. Min(stored) \in stored
    <3>1. \E m \in stored : \A t \in stored : m <= t
      BY <1>5, <1>6, <2>1, LeastExists
    <3> QED
      BY <3>1 DEF Min
  <2>3. PICK q \in Closed : q.slot = Max(stored)
    BY <2>1
  <2>4. PICK r \in Closed : r.slot = Min(stored)
    BY <2>2
  <2>5. /\ s \in Nat /\ r.slot \in Nat /\ q.slot \in Nat /\ r.slot <= s /\ s <= q.slot
        /\ r.slot >= cursor
    BY <1>1, <1>2, <1>4, <1>5, <1>8, <2>3, <2>4
  <2>6. s \in Fetched
    BY <1>1, <1>4, <2>5
  <2>7. PICK p \in pages : p.slot = s
    BY <2>6 DEF Fetched
  <2>8. Closes(s) <= Closes(q.slot) /\ Closes(s) \in Int /\ Closes(q.slot) \in Int
    <3> DEFINE x == s + 1
               y == q.slot + 1
    <3>1. x \in Nat /\ y \in Nat /\ x <= y
      BY <2>5
    <3>2. Closes(s) = x * Interval /\ Closes(q.slot) = y * Interval
      BY DEF Closes
    <3> HIDE DEF x, y
    <3>3. x * Interval <= y * Interval /\ x * Interval \in Int /\ y * Interval \in Int
      BY <1>3, <3>1
    <3> QED
      BY <3>2, <3>3
  <2>9. p \in Closed
    <3>1. Closes(q.slot) + Grace <= cutoff
      BY DEF Closed
    <3>2. Closes(s) + Grace <= cutoff
      BY <1>1, <1>3, <2>8, <3>1
    <3> QED
      BY <2>7, <3>2 DEF Closed
  <2> QED
    BY <2>7, <2>9
<1> QED
  BY <1>5, <1>6, <1>7, <1>8

LEMMA StoreInv == BInv /\ Store => BInv'
<1> SUFFICES ASSUME BInv, Store PROVE BInv'
  OBVIOUS
<1>1. /\ phase \in {"fetch", "store"} /\ phase' \in {"idle", "load", "failed"}
      /\ UNCHANGED <<market, frame, acct, trades, breach>>
  BY DEF Store, execution
<1>2. market \subseteq Slots /\ frame = <<>> /\ Downloaded /\ Cached
      /\ acct = NewAccount /\ trades = {} /\ breach = 0
  BY <1>1 DEF BInv, Before
<1>3. Cached'
  <2>1. CASE Closed = {}
    <3>1. UNCHANGED <<table, covered, early>>
      BY <2>1 DEF Store, store
    <3> QED
      BY <1>1, <1>2, <3>1 DEF Cached
  <2>2. CASE Closed # {}
    <3> DEFINE stored == {p.slot : p \in Closed}
    <3>1. Upsert(Closed)
      BY <2>2 DEF Store
    <3>2. /\ table' = table \cup stored
          /\ covered' = covered \cup Min(stored)..Max(stored)
          /\ early' = (early \ stored)
                      \cup {p.slot : p \in {q \in Closed : q.served < Closes(q.slot)}}
      BY <3>1 DEF Upsert
    <3>3. /\ stored \subseteq Nat /\ IsFiniteSet(stored)
          /\ \A p \in Closed : ~(p.served < Closes(p.slot))
          /\ \A s \in market : s \in Min(stored)..Max(stored) => s \in stored
      <4>1. stored = {p.slot : p \in Closed}
        OBVIOUS
      <4> HIDE DEF stored
      <4> QED
        BY <1>2, <2>2, <4>1, StoredRows
    <3>4. early' = {}
      BY <1>2, <3>2, <3>3 DEF Cached
    <3> HIDE DEF stored
    <3>5. table' \subseteq Nat /\ IsFiniteSet(table')
      BY <1>2, <3>2, <3>3, FS_Union DEF Cached
    <3> QED
      BY <1>1, <1>2, <3>2, <3>3, <3>4, <3>5 DEF Cached
  <2> QED
    BY <2>1, <2>2
<1>4. frame' = <<>> /\ Ordered(frame') /\ FrameIsFinal' /\ frame' \in Seq(Nat)
  BY <1>1, <1>2 DEF Ordered, FrameIsFinal
<1> QED
  BY <1>1, <1>2, <1>3, <1>4, NewSame DEF BInv, Phases, Before

\* A frame of the table: rows of it in order, with none left out in between.
TableFrame(f) ==
  /\ f \in Seq(Nat) /\ Ordered(f) /\ Len(f) = Wanted
  /\ \A s \in table : s \in f[1]..f[Len(f)] => \E i \in 1..Len(f) : f[i] = s

LEMMA LoadedFrame ==
  ASSUME Cached, ~(Cardinality(Finalized) < Wanted), NEW f, f = Ascending(Finalized)
  PROVE  TableFrame(f)
<1> DEFINE newest == Largest(table, Wanted)
<1>1. table \subseteq Nat /\ IsFiniteSet(table) /\ Wanted \in Nat \ {0}
  BY BacktestAssumption DEF Cached
<1>2. newest \in SUBSET table /\ Finalized \in SUBSET newest
  BY DEF Finalized, Largest
<1>3. newest = {x \in table : Cardinality({y \in table : y > x}) < Wanted}
  BY DEF Largest
<1>4. \A x \in newest, y \in table : y >= x => y \in newest
  <2>1. table \subseteq Int /\ Wanted \in Int
    BY <1>1
  <2> QED
    BY <1>1, <2>1, LargestUp
<1> HIDE DEF newest
<1>5. IsFiniteSet(newest) /\ IsFiniteSet(Finalized)
  <2>1. IsFiniteSet(newest)
    BY <1>1, <1>2, FS_Subset
  <2> QED
    BY <1>2, <2>1, FS_Subset
<1>6. Cardinality(newest) = Wanted
  <2>1. Cardinality(Finalized) <= Cardinality(newest) /\ Cardinality(newest) <= Cardinality(table)
    BY <1>1, <1>2, <1>5, FS_Subset
  <2>2. Cardinality(Finalized) \in Nat /\ Cardinality(newest) \in Nat /\ Cardinality(table) \in Nat
    BY <1>1, <1>5, FS_CardinalityType
  <2>3. Wanted \in Nat /\ Wanted <= Cardinality(table) /\ table \subseteq Int
    BY <1>1, <2>1, <2>2
  <2> QED
    BY <1>1, <1>3, <2>3, TopSize
<1>7. Finalized = newest
  <2>1. Cardinality(Finalized) <= Cardinality(newest)
    BY <1>2, <1>5, FS_Subset
  <2>2. Cardinality(Finalized) = Cardinality(newest)
    BY <1>1, <1>5, <1>6, <2>1, FS_CardinalityType
  <2> QED
    BY <1>2, <1>5, <2>2, FS_Subset
<1>8. newest \subseteq Nat /\ f = Ascending(newest)
  BY <1>1, <1>2, <1>7
<1>9. /\ f \in Seq(Nat) /\ Len(f) = Wanted /\ Ordered(f)
      /\ \A i \in 1..Len(f) : f[i] \in newest
      /\ \A s \in newest : \E i \in 1..Len(f) : f[i] = s
  <2>1. /\ Ascending(newest) \in Seq(Nat) /\ Len(Ascending(newest)) = Cardinality(newest)
        /\ Ordered(Ascending(newest))
        /\ \A i \in 1..Len(Ascending(newest)) : Ascending(newest)[i] \in newest
        /\ \A s \in newest : \E i \in 1..Len(Ascending(newest)) : Ascending(newest)[i] = s
    BY <1>5, <1>8, AscendingFacts
  <2> QED
    BY <1>6, <1>8, <2>1
<1>10. ASSUME NEW s \in table, s \in f[1]..f[Len(f)]
       PROVE  \E i \in 1..Len(f) : f[i] = s
  <2>1. 1 \in 1..Len(f)
    BY <1>1, <1>9
  <2>2. f[1] \in newest /\ f[1] \in Nat
    BY <1>8, <1>9, <2>1
  <2>3. s \in Nat /\ s >= f[1]
    BY <1>1, <1>10, <2>2
  <2>4. s \in newest
    BY <1>4, <2>2, <2>3
  <2> QED
    BY <1>9, <2>4
<1> QED
  BY <1>9, <1>10 DEF TableFrame

LEMMA LoadInv == BInv /\ Load => BInv'
<1> SUFFICES ASSUME BInv, Load PROVE BInv'
  OBVIOUS
<1>1. /\ phase = "load"
      /\ UNCHANGED <<market, table, covered, early, acct, trades, breach>>
  BY DEF Load, execution, store
<1>2. market \subseteq Slots /\ frame = <<>> /\ Cached
      /\ acct = NewAccount /\ trades = {} /\ breach = 0
  BY <1>1 DEF BInv, Before
<1>3. Cached'
  BY <1>1, <1>2 DEF Cached
<1>4. CASE Cardinality(Finalized) < Wanted
  <2>1. phase' = "failed" /\ frame' = frame
    BY <1>4 DEF Load
  <2>2. frame' = <<>> /\ Ordered(frame') /\ FrameIsFinal' /\ frame' \in Seq(Nat)
    BY <1>1, <1>2, <2>1 DEF Ordered, FrameIsFinal
  <2> QED
    BY <1>1, <1>2, <1>3, <2>1, <2>2, NewSame DEF BInv, Phases, Before
<1>5. CASE ~(Cardinality(Finalized) < Wanted)
  <2>1. phase' = "predict" /\ frame' = Ascending(Finalized)
    BY <1>5 DEF Load
  <2>2. PICK f : f = frame'
    OBVIOUS
  <2>3. f = Ascending(Finalized)
    BY <2>1, <2>2
  <2>4. TableFrame(f)
    BY <1>2, <1>5, <2>3, LoadedFrame
  <2>5. FrameIsFinal'
    <3>1. early' = {} /\ \A s \in market' \cap covered' : s \in table
      BY <1>1, <1>2 DEF Cached
    <3>2. \A s \in table : s \in f[1]..f[Len(f)] => \E i \in 1..Len(f) : f[i] = s
      BY <2>4 DEF TableFrame
    <3>3. \A i \in 1..Len(f) : f[i] \notin early'
      BY <3>1
    <3>4. \A s \in market' \cap covered' : s \in f[1]..f[Len(f)] =>
            \E i \in 1..Len(f) : f[i] = s
      BY <3>1, <3>2
    <3> QED
      BY <2>2, <3>3, <3>4 DEF FrameIsFinal
  <2>6. frame' \in Seq(Nat) /\ Ordered(frame') /\ Len(frame') = Wanted
    BY <2>2, <2>4 DEF TableFrame
  <2> QED
    BY <1>1, <1>2, <1>3, <2>1, <2>5, <2>6, NewSame DEF BInv, Phases, Before
<1> QED
  BY <1>4, <1>5

RunStarts ==
  row \in Nat /\ row = setup.first /\ acct = NewAccount /\ trades = {} /\ breach = 0
    => Ran(acct, trades, breach, row)

LEMMA RunStarted == RunStarts
BY RanInit DEF RunStarts

LEMMA PredictInv == BInv /\ Predict => BInv'
<1> SUFFICES ASSUME BInv, Predict PROVE BInv'
  OBVIOUS
<1>1. /\ phase = "predict" /\ phase' = "run"
      /\ market' = {} /\ table' = {} /\ covered' = {} /\ early' = {}
      /\ UNCHANGED <<acct, trades, breach>>
  BY DEF Predict, Forget
<1>2. /\ frame \in Seq(Nat) /\ Ordered(frame)
      /\ Len(frame) = Wanted
      /\ acct = NewAccount /\ trades = {} /\ breach = 0
  BY <1>1 DEF BInv
<1>3. PICK mode \in Mode, halts \in GapHalts, cost \in {1, 2}, rows \in {0} \cup Split,
           development \in BOOLEAN :
        /\ development => rows > 0
        /\ frame' = IF development THEN Prefix(rows) ELSE frame
        /\ row' = IF development THEN 1 ELSE rows + 1
        /\ setup' = [mode |-> mode, gapHalts |-> halts, first |-> row', cost |-> cost]
  BY DEF Predict
<1>4. rows \in 0..Len(frame)
  <2>1. Wanted \in Nat /\ \A r \in Split : r \in 2..(Wanted - 2)
    BY BacktestAssumption
  <2> QED
    BY <1>2, <2>1
<1>5. /\ Prefix(rows) \in Seq(Nat) /\ Len(Prefix(rows)) = rows
      /\ Ordered(Prefix(rows))
      /\ \A i \in 1..rows : Prefix(rows)[i] = frame[i]
  BY <1>2, <1>4, PrefixFacts
<1>6. frame' \in Seq(Nat) /\ Ordered(frame')
  BY <1>2, <1>3, <1>5
<1>7. FrameIsFinal' /\ Cached' /\ market' \subseteq Slots'
  BY <1>1, FS_EmptySet DEF FrameIsFinal, Cached
<1>8. SetupType'
  <2>1. halts \in BOOLEAN
    BY BacktestAssumption
  <2>2. row' \in Nat \ {0}
    BY <1>3, <1>4
  <2> QED
    BY <1>3, <1>6, <2>1, <2>2 DEF SetupType
<1>9. Ran(acct, trades, breach, row)'
  <2>1. row' \in Nat /\ row' = setup'.first
    BY <1>3, <1>4
  <2>2. (RunStarts)'
    BY RunStarted, PTL
  <2>3. acct' = NewAccount' /\ trades' = {} /\ breach' = 0
    BY <1>1, <1>2, NewSame
  <2> QED
    BY <2>1, <2>2, <2>3 DEF RunStarts
<1> QED
  BY <1>1, <1>2, <1>6, <1>7, <1>8, <1>9 DEF BInv, Phases, Before


LEMMA ProcessBarInv == BInv /\ ProcessBar => BInv'
<1> SUFFICES ASSUME BInv, ProcessBar PROVE BInv'
  OBVIOUS
<1>1. /\ phase = "run" /\ row <= Len(frame) /\ row' = row + 1
      /\ UNCHANGED <<market, table, covered, early, frame, setup, models>>
  BY DEF ProcessBar, store
<1>2. /\ market \subseteq Slots /\ frame \in Seq(Nat) /\ Ordered(frame) /\ FrameIsFinal
      /\ Cached /\ SetupType /\ Ran(acct, trades, breach, row)
  BY <1>1 DEF BInv
<1>3. PICK c \in Bar, signal \in Signals(row) :
        LET step == Processed(acct, row, frame[row], c, signal, setup.mode,
                              setup.gapHalts, setup.cost)
            last == row = Len(frame)
            end == IF last THEN Liquidated(step.acct, row, c.close, setup.cost)
                   ELSE [acct |-> step.acct, trades |-> {}]
            equity == Equity(step.acct, c.close, setup.cost)
        IN /\ acct' = end.acct
           /\ trades' = trades \cup step.trades \cup end.trades
           /\ breach' = IF breach = 0 /\ (step.acct.top - equity) * 100
                                           >= step.acct.top * DrawdownPct
                        THEN row ELSE breach
           /\ phase' = IF last THEN "done" ELSE phase
  BY DEF ProcessBar
<1> DEFINE s == Processed(acct, row, frame[row], c, signal, setup.mode,
                          setup.gapHalts, setup.cost)
           e == Liquidated(s.acct, row, c.close, setup.cost)
<1>4. /\ acct' = IF row = Len(frame) THEN e.acct ELSE s.acct
      /\ trades' = (trades \cup s.trades) \cup (IF row = Len(frame) THEN e.trades ELSE {})
      /\ breach' = IF breach = 0 /\ (s.acct.top - Equity(s.acct, c.close, setup.cost)) * 100
                                      >= s.acct.top * DrawdownPct
                   THEN row ELSE breach
      /\ phase' \in {"run", "done"}
  <2> HIDE DEF s, e
  <2>1. /\ s = Processed(acct, row, frame[row], c, signal, setup.mode,
                         setup.gapHalts, setup.cost)
        /\ e = Liquidated(s.acct, row, c.close, setup.cost)
    BY DEF s, e
  <2> QED
    BY <1>1, <1>3, <2>1
<1>5. /\ setup.cost \in Nat /\ setup.gapHalts \in BOOLEAN
      /\ acct \in AccountType /\ HaltFits(acct) /\ row \in Nat \ {0} /\ c.close \in Int
  <2>1. setup.first \in Nat \ {0} /\ setup.cost \in {1, 2} /\ setup.gapHalts \in BOOLEAN
    BY <1>2 DEF SetupType
  <2>2. acct \in AccountType /\ HaltFits(acct) /\ row \in Nat /\ row >= setup.first
    BY <1>2 DEF Ran, Placed
  <2>3. c.close \in Int
    BY BarSizes
  <2> QED
    BY <2>1, <2>2, <2>3
<1>6. frame[row] \in Nat /\ signal \in SignalType
  BY <1>1, <1>2, <1>5, SignalFits
<1>7. AfterBar(acct, s, row, frame[row], c, signal, setup.mode, setup.cost)
  <2>1. s = Processed(acct, row, frame[row], c, signal, setup.mode,
                      setup.gapHalts, setup.cost)
    OBVIOUS
  <2> HIDE DEF s
  <2> QED
    BY <1>5, <1>6, <2>1, BarSummary
<1> HIDE DEF s
<1>8. Ran(s.acct, trades \cup s.trades, breach', row + 1)
  BY <1>1, <1>2, <1>4, <1>5, <1>7, RanBar, ZenonT(30)
<1>9. Ran(acct', trades', breach', row + 1)
  <2>1. CASE row = Len(frame)
    <3>1. e = Liquidated(s.acct, row, c.close, setup.cost)
      OBVIOUS
    <3> HIDE DEF e
    <3>2. Ran(e.acct, (trades \cup s.trades) \cup e.trades, breach', row + 1)
      BY <1>2, <1>5, <1>8, <2>1, <3>1, RanEnd
    <3> QED
      BY <1>4, <2>1, <3>2
  <2>2. CASE row # Len(frame)
    <3>1. acct' = s.acct /\ trades' = trades \cup s.trades
      BY <1>4, <2>2
    <3> QED
      BY <1>8, <3>1
  <2> QED
    BY <2>1, <2>2
<1>10. Ran(acct, trades, breach, row)' /\ SetupType'
  <2>1. setup' = setup /\ frame' = frame /\ models' = models /\ row' = row + 1
    BY <1>1
  <2>2. SetupType'
    BY <1>2, <2>1 DEF SetupType
  <2>3. NewAccount' = NewAccount
    BY NewSame
  <2>4. Ran(acct, trades, breach, row)'
    BY <1>9, <2>1, <2>3 DEF Ran, Placed, Signalled, Positioned, Grounded, Follows, Dated,
       Rested, Spaced, Ended, IsStop, HasLabel, LabelRow, SameSegment, HaltFits, Open
  <2> QED
    BY <2>2, <2>4
<1>11. FrameIsFinal' /\ Ordered(frame') /\ Cached'
  BY <1>1, <1>2, <1>4 DEF FrameIsFinal, Ordered, Cached
<1> QED
  BY <1>1, <1>2, <1>4, <1>10, <1>11 DEF BInv, Phases, Before

LEMMA StepInv == BInv /\ [Next]_vars => BInv'
<1> SUFFICES ASSUME BInv, [Next]_vars PROVE BInv'
  OBVIOUS
<1>1. CASE UNCHANGED vars
  <2>1. /\ UNCHANGED <<market, server, skew, phase, pages, cursor, cutoff, wanted, frame>>
        /\ UNCHANGED <<table, covered, early>>
        /\ UNCHANGED <<setup, models, row, acct, trades, breach>>
    BY <1>1 DEF vars
  <2>2. Downloaded' = Downloaded /\ Cached' = Cached
    BY <2>1 DEF Downloaded, Fetched, Cached
  <2>3. SetupType' = SetupType /\ FrameIsFinal' = FrameIsFinal
    BY <2>1 DEF SetupType, FrameIsFinal
  <2>4. Ran(acct, trades, breach, row)' = Ran(acct, trades, breach, row)
    BY <2>1, NewSame DEF Ran, Placed, Signalled, Positioned, Grounded, Follows, Dated,
       Rested, Spaced, Ended, IsStop, HasLabel, LabelRow, SameSegment, HaltFits, Open
  <2> QED
    BY <2>1, <2>2, <2>3, <2>4, NewSame DEF BInv, Ordered
<1> QED
  BY <1>1, CommandInv, FetchPageInv, RequestFailsInv, StoreInv, LoadInv, PredictInv,
     ProcessBarInv DEF Next


\* BInv holds throughout: the frame is ascending and final, and a run keeps its
\* account, position, trades and breach as process_bar promises (engine.py).
THEOREM BacktestInvariant == Spec => []BInv
<1>1. Init => BInv
  BY InitInv
<1>2. BInv /\ [Next]_vars => BInv'
  BY StepInv
<1> QED
  BY <1>1, <1>2, PTL DEF Spec

\* FrameIsFinal, for every candle size, page size, clock skew, delay, number of
\* candles and history of the table: fetch_candles and closed_candles (data.py),
\* upsert_candles and load_candles (store.py) let no unfinished candle into the
\* frame, and leave out a candle of the exchange only where none of the
\* downloads reached.
THEOREM FramesAreFinal == Spec => []FrameIsFinal
<1>1. BInv => FrameIsFinal
  BY DEF BInv
<1> QED
  BY <1>1, BacktestInvariant, PTL

LEMMA IdleTrades == BInv => (phase \in {"run", "done"} => Ran(acct, trades, breach, row))
                         /\ (phase \notin {"run", "done"} => trades = {} /\ breach = 0)
BY DEF BInv

\* TradesFollowLabels, for every horizon and every sequence of candles: a trade
\* begins and ends where the label of its signal does (engine.py, features.py).
THEOREM TradesFollow == Spec => []TradesFollowLabels
<1>1. BInv => TradesFollowLabels
  <2> SUFFICES ASSUME BInv, NEW t \in trades PROVE Follows(t)
    BY DEF TradesFollowLabels, Follows
  <2> QED
    BY IdleTrades DEF Ran
<1> QED
  BY <1>1, BacktestInvariant, PTL

\* CooldownServed, for every length of the cooldown: no entry comes earlier than
\* that many whole bars after a stop (process_bar of engine.py).
THEOREM CooldownsServed == Spec => []CooldownServed
<1>1. BInv => CooldownServed
  <2> SUFFICES ASSUME BInv, NEW t \in trades, IsStop(t)
               PROVE  /\ \A u \in trades : u.entered > t.exited => u.entered > t.exited + CooldownBars
                      /\ Open(acct) /\ acct.entered > t.exited => acct.entered > t.exited + CooldownBars
    BY DEF CooldownServed, IsStop
  <2>1. Ran(acct, trades, breach, row)
    BY IdleTrades
  <2>2. \A u \in trades : Spaced(u.entered, t)
    BY <2>1 DEF Ran
  <2>3. Open(acct) => Spaced(acct.entered, t)
    BY <2>1 DEF Ran
  <2> QED
    BY <2>2, <2>3 DEF Spaced
<1> QED
  BY <1>1, BacktestInvariant, PTL

\* DrawdownEndsTrading, for every drawdown limit and size of account: after a
\* close beyond the limit the engine enters no more, sells at the next open or at
\* the end, and is HALTED (process_bar and liquidate of engine.py).
THEOREM DrawdownsEnd == Spec => []DrawdownEndsTrading
<1>1. BInv => DrawdownEndsTrading
  <2> SUFFICES ASSUME BInv, breach # 0
               PROVE  /\ \A t \in trades : t.entered <= breach /\ t.exited <= breach + 1
                      /\ Open(acct) => acct.entered <= breach /\ row = breach + 1
                      /\ ~Open(acct) => acct.halt = "HALTED"
    BY DEF DrawdownEndsTrading
  <2>1. Ran(acct, trades, breach, row)
    BY IdleTrades
  <2>2. /\ acct.halt # "ACTIVE" /\ acct.halt \in Halt /\ HaltFits(acct)
        /\ \A t \in trades : t.entered <= breach /\ t.exited <= breach + 1
        /\ Open(acct) => acct.entered <= breach /\ row = breach + 1
    BY <2>1 DEF Ran, Ended, Placed, AccountType
  <2> QED
    BY <2>2 DEF HaltFits, Halt
<1> QED
  BY <1>1, BacktestInvariant, PTL


-----------------------------------------------------------------------------
(* What a stop may cost *)

\* Prices are whole numbers here and a stop level is rounded down to one: the
\* slippage on the part of a price the widest stop leaves covers the rounding.
FinePrices == Slip * (100 - MaxStop) >= 99

\* The sizing rule of the position p (size_entry of risk.py).
InBudget(p, cost) ==
  /\ p.lots \in Nat /\ p.staked \in Int /\ p.stop \in 1..100 /\ p.stop <= MaxStop
  /\ \E open \in Nat \ {0} :
       /\ p.entry = open + cost * Slip
       /\ p.lots * (open * p.stop + 200 * cost * (Fee + Slip)) <= p.staked * RiskPct

Affordable(t) == t.reason = "stop" => -t.pnl * 100 <= t.staked * RiskPct

\* What one lot brings at the fixed stop, and a hundred times what it may lose.
AtFixedStop(entry, stop, cost) ==
  (entry * (100 - stop)) \div 100 - cost * (Slip + Fee) - entry - cost * Fee

LotBudget(open, stop, cost) == open * stop + 200 * cost * (Fee + Slip)

LEMMA LotLoss ==
  ASSUME FinePrices, NEW open \in Nat \ {0}, NEW stop \in 1..100, stop <= MaxStop,
         NEW cost \in {1, 2}, NEW entry, entry = open + cost * Slip,
         NEW x, x = AtFixedStop(entry, stop, cost)
  PROVE  x \in Int /\ -(100 * x) <= LotBudget(open, stop, cost)
<1>1. /\ Slip \in Nat /\ Fee \in Nat /\ MaxStop \in 1..100 /\ cost \in Nat /\ cost >= 1
      /\ stop \in Nat
  BY Sizes
<1> DEFINE cs == cost * Slip
           cf == cost * Fee
           left == 100 - stop
           q == entry * left
           f == q \div 100
           os == open * stop
           es == entry * stop
           css == cs * stop
<1>2. cs \in Nat /\ cf \in Nat /\ left \in Nat /\ entry \in Nat
  BY <1>1
<1>3. q \in Nat /\ os \in Nat /\ es \in Nat /\ css \in Nat
  BY <1>1, <1>2
<1>4. q = 100 * entry - es
  <2> HIDE DEF es
  <2>1. q = 100 * entry - entry * stop
    BY <1>1, <1>2
  <2> QED
    BY <2>1 DEF es
<1>5. es = os + css
  <2>1. entry = open + cs
    OBVIOUS
  <2> HIDE DEF cs
  <2>2. entry * stop = open * stop + cs * stop
    BY <1>1, <1>2, <2>1
  <2> QED
    BY <2>2
<1>6. 100 * cs - css >= 99
  <2> DEFINE d == 100 - MaxStop
             sl == Slip * left
             sd == Slip * d
  <2>1. d \in Nat /\ left >= d /\ sd >= 99 /\ sd \in Nat /\ sl \in Nat
    BY <1>1, <1>2 DEF FinePrices
  <2>2. sl >= sd
    <3> HIDE DEF d, left
    <3> QED
      BY <1>1, <1>2, <2>1
  <2>3. cost * sl >= sl
    <3> HIDE DEF sl
    <3> QED
      BY <1>1, <2>1
  <2>4. cs * left = cost * sl
    <3> HIDE DEF left
    <3> QED
      BY <1>1, <1>2
  <2>5. cs * left = 100 * cs - css
    <3> HIDE DEF cs
    <3> QED
      BY <1>1, <1>2
  <2> HIDE DEF sl, sd, css, cs, left, d
  <2> QED
    BY <1>2, <1>3, <2>1, <2>2, <2>3, <2>4, <2>5
<1>7. f \in Int /\ 100 * f >= q - 99
  <2> HIDE DEF q
  <2> QED
    BY <1>3
<1>8. x = f - (cs + cf) - entry - cf
  <2>1. cost * (Slip + Fee) = cs + cf
    BY <1>1
  <2> QED
    BY <2>1 DEF AtFixedStop
<1>9. 200 * cost * (Fee + Slip) = 200 * cf + 200 * cs
  BY <1>1
<1> HIDE DEF f, q, cs, cf, es, os, css
<1>10. x \in Int /\ -(100 * x) <= os + (200 * cf + 200 * cs)
  BY <1>2, <1>3, <1>4, <1>5, <1>6, <1>7, <1>8
<1> QED
  BY <1>9, <1>10 DEF os, LotBudget

\* A position in budget that its stop closes during a bar.
LEMMA StopAffordable ==
  ASSUME FinePrices, NEW cost \in {1, 2}, NEW p, InBudget(p, cost), NEW t, NEW n,
         TradeFrom(t, p, n, cost)
  PROVE  Affordable(t)
<1> SUFFICES ASSUME t.reason = "stop" PROVE -t.pnl * 100 <= t.staked * RiskPct
  BY DEF Affordable
<1>1. /\ p.lots \in Nat /\ p.staked \in Int /\ p.stop \in 1..100 /\ p.stop <= MaxStop
      /\ t.staked = p.staked
  BY DEF InBudget, TradeFrom
<1>2. PICK open \in Nat \ {0} :
        /\ p.entry = open + cost * Slip
        /\ p.lots * (open * p.stop + 200 * cost * (Fee + Slip)) <= p.staked * RiskPct
  BY DEF InBudget
<1> DEFINE x == (p.entry * (100 - p.stop)) \div 100 - cost * (Slip + Fee) - p.entry - cost * Fee
           budget == open * p.stop + 200 * cost * (Fee + Slip)
<1>3. t.pnl \in Int /\ t.pnl >= p.lots * x
  BY DEF TradeFrom
<1>4. x \in Int /\ -(100 * x) <= budget
  <2> DEFINE stop == p.stop
             entry == p.entry
  <2>1. /\ stop \in 1..100 /\ stop <= MaxStop /\ entry = open + cost * Slip
        /\ x = AtFixedStop(entry, stop, cost)
    BY <1>1, <1>2 DEF AtFixedStop
  <2>2. budget = LotBudget(open, stop, cost)
    BY DEF LotBudget
  <2> HIDE DEF stop, entry, x, budget
  <2>3. x \in Int /\ -(100 * x) <= LotBudget(open, stop, cost)
    BY <2>1, LotLoss
  <2> QED
    BY <2>2, <2>3
<1>5. budget \in Int /\ p.staked * RiskPct \in Int
  BY <1>1, Sizes
<1>6. p.lots * budget <= p.staked * RiskPct
  BY <1>2
<1> HIDE DEF x, budget
<1>7. p.lots * (-(100 * x)) <= p.lots * budget
  <2> DEFINE y == -(100 * x)
  <2>1. y \in Int /\ y <= budget
    BY <1>4
  <2> HIDE DEF y
  <2>2. p.lots * y <= p.lots * budget
    BY <1>1, <1>5, <2>1
  <2> QED
    BY <2>2 DEF y
<1>8. p.lots * (-(100 * x)) = -(100 * (p.lots * x)) /\ p.lots * x \in Int /\ p.lots * budget \in Int
  BY <1>1, <1>4, <1>5
<1> DEFINE lx == p.lots * x
           lb == p.lots * budget
           pr == p.staked * RiskPct
<1>9. /\ lx \in Int /\ lb \in Int /\ pr \in Int /\ -(100 * lx) <= lb /\ lb <= pr
      /\ t.pnl \in Int /\ t.pnl >= lx
  BY <1>3, <1>5, <1>6, <1>7, <1>8
<1> HIDE DEF lx, lb, pr
<1>10. -t.pnl * 100 <= pr
  BY <1>9
<1> QED
  BY <1>1, <1>10 DEF pr


\* One bar sells what its stop closes within the budget of its entry.
LEMMA OutcomeInBudget ==
  ASSUME FinePrices, NEW cost \in {1, 2}, NEW a, Open(a) => InBudget(a, cost),
         NEW b, NEW closed, NEW n, NEW slot, NEW mode, NEW open \in Nat \ {0},
         Outcome(a, b, closed, n, slot, mode, open, cost)
  PROVE  /\ Open(b) => InBudget(b, cost)
         /\ \A t \in closed : Affordable(t)
<1>1. ASSUME NEW p, Bought(p, a, n, slot, mode, open, cost) PROVE InBudget(p, cost)
  BY <1>1 DEF Bought, InBudget
<1>2. CASE ~Open(a) /\ ~Open(b) /\ closed = {}
  BY <1>2
<1>3. CASE Fresh(a, slot) /\ Bought(b, a, n, slot, mode, open, cost) /\ closed = {}
  BY <1>1, <1>3
<1>4. CASE /\ Fresh(a, slot) /\ ~Open(b) /\ b.cooldown = CooldownBars
           /\ \E p, t : /\ Bought(p, a, n, slot, mode, open, cost)
                        /\ closed = {t} /\ TradeFrom(t, p, n, cost)
                        /\ t.reason \in {"stop", "stop_gap"}
  <2>1. PICK p, t : /\ Bought(p, a, n, slot, mode, open, cost)
                    /\ closed = {t} /\ TradeFrom(t, p, n, cost)
    BY <1>4
  <2>2. Affordable(t)
    BY <1>1, <2>1, StopAffordable
  <2> QED
    BY <1>4, <2>1, <2>2
<1>5. CASE Holds(a, slot, mode) /\ Open(b) /\ Same(a, b) /\ closed = {}
  <2>1. InBudget(a, cost)
    BY <1>5 DEF Holds
  <2> QED
    BY <1>5, <2>1 DEF InBudget, Same
<1>6. CASE /\ Holds(a, slot, mode) /\ ~Open(b) /\ b.cooldown = CooldownBars
           /\ \E t : /\ closed = {t} /\ TradeFrom(t, a, n, cost)
                     /\ t.reason \in {"stop", "stop_gap"}
  <2>1. PICK t : closed = {t} /\ TradeFrom(t, a, n, cost)
    BY <1>6
  <2>2. InBudget(a, cost)
    BY <1>6 DEF Holds
  <2>3. Affordable(t)
    BY <2>1, <2>2, StopAffordable
  <2> QED
    BY <1>6, <2>1, <2>3
<1>7. CASE /\ Open(a) /\ ~Open(b)
           /\ \E t : closed = {t} /\ SoldAs(t, a, n, slot, MissesBar(a, slot), mode, cost)
  <2>1. PICK t : closed = {t} /\ SoldAs(t, a, n, slot, MissesBar(a, slot), mode, cost)
    BY <1>7
  <2>2. Affordable(t)
    BY <2>1 DEF SoldAs, Affordable
  <2> QED
    BY <1>7, <2>1, <2>2
<1> QED
  BY <1>2, <1>3, <1>4, <1>5, <1>6, <1>7 DEF Outcome

LInv ==
  /\ Open(acct) => InBudget(acct, setup.cost)
  /\ \A t \in trades : Affordable(t)


LEMMA ProcessBarBudget ==
  ASSUME FinePrices, BInv, LInv, ProcessBar
  PROVE  LInv'
<1>1. phase = "run" /\ row <= Len(frame) /\ UNCHANGED <<frame, setup>>
  BY DEF ProcessBar
<1>2. /\ SetupType /\ acct \in AccountType /\ HaltFits(acct) /\ row \in Nat /\ row >= setup.first
  BY <1>1 DEF BInv, Ran, Placed
<1>3. PICK c \in Bar, signal \in Signals(row) :
        LET step == Processed(acct, row, frame[row], c, signal, setup.mode,
                              setup.gapHalts, setup.cost)
            last == row = Len(frame)
            end == IF last THEN Liquidated(step.acct, row, c.close, setup.cost)
                   ELSE [acct |-> step.acct, trades |-> {}]
            equity == Equity(step.acct, c.close, setup.cost)
        IN /\ acct' = end.acct
           /\ trades' = trades \cup step.trades \cup end.trades
  BY DEF ProcessBar
<1> DEFINE s == Processed(acct, row, frame[row], c, signal, setup.mode,
                          setup.gapHalts, setup.cost)
           e == Liquidated(s.acct, row, c.close, setup.cost)
<1>4. /\ acct' = IF row = Len(frame) THEN e.acct ELSE s.acct
      /\ trades' = (trades \cup s.trades) \cup (IF row = Len(frame) THEN e.trades ELSE {})
  <2> HIDE DEF s, e
  <2>1. /\ s = Processed(acct, row, frame[row], c, signal, setup.mode,
                         setup.gapHalts, setup.cost)
        /\ e = Liquidated(s.acct, row, c.close, setup.cost)
    BY DEF s, e
  <2> QED
    BY <1>3, <2>1
<1>5. /\ setup.cost \in {1, 2} /\ setup.cost \in Nat /\ setup.gapHalts \in BOOLEAN
      /\ frame[row] \in Nat /\ signal \in SignalType
      /\ c.open \in Nat \ {0} /\ c.close \in Int
  <2>1. setup.first \in Nat \ {0} /\ setup.cost \in {1, 2} /\ setup.gapHalts \in BOOLEAN
        /\ frame \in Seq(Nat)
    BY <1>2 DEF SetupType
  <2>2. frame[row] \in Nat
    BY <1>1, <1>2, <2>1
  <2>3. signal \in SignalType
    BY <1>2, SignalFits
  <2>4. c.open \in Nat \ {0} /\ c.close \in Int
    BY BarSizes
  <2> QED
    BY <2>1, <2>2, <2>3, <2>4
<1>6. AfterBar(acct, s, row, frame[row], c, signal, setup.mode, setup.cost)
  <2>1. s = Processed(acct, row, frame[row], c, signal, setup.mode,
                      setup.gapHalts, setup.cost)
    OBVIOUS
  <2> HIDE DEF s
  <2> QED
    BY <1>2, <1>5, <2>1, BarSummary
<1>7. e = Liquidated(s.acct, row, c.close, setup.cost)
  OBVIOUS
<1> HIDE DEF s, e
<1>8. /\ Outcome(acct, s.acct, s.trades, row, frame[row], setup.mode, c.open, setup.cost)
      /\ s.acct \in AccountType /\ HaltFits(s.acct)
  BY <1>6 DEF AfterBar
<1>9. /\ Open(s.acct) => InBudget(s.acct, setup.cost)
      /\ \A t \in s.trades : Affordable(t)
  <2>1. Open(acct) => InBudget(acct, setup.cost)
    BY DEF LInv
  <2> QED
    BY <1>5, <1>8, <2>1, OutcomeInBudget
<1>10. \/ ~Open(s.acct) /\ e.acct = s.acct /\ e.trades = {}
       \/ ~Open(e.acct) /\ \E t : e.trades = {t} /\ t.reason = "end_of_run"
  BY <1>2, <1>5, <1>7, <1>8, LiquidatedFields
<1>11. /\ Open(e.acct) => InBudget(e.acct, setup.cost)
       /\ \A t \in e.trades : Affordable(t)
  BY <1>9, <1>10 DEF Affordable
<1>12. Open(acct') => InBudget(acct', setup.cost)
  BY <1>4, <1>9, <1>11
<1>13. \A t \in trades' : Affordable(t)
  <2>1. \A t \in trades : Affordable(t)
    BY DEF LInv
  <2> QED
    BY <1>4, <1>9, <1>11, <2>1
<1> QED
  BY <1>1, <1>12, <1>13 DEF LInv, InBudget, Affordable, Open

\* LossWithinBudget, for every fee, slippage, stop and allocation: a position its
\* stop closes during a bar loses no more than risk_per_trade of the cash at its
\* entry (size_entry of risk.py against process_bar of engine.py), where the
\* whole numbers that stand for prices are fine enough.
THEOREM LossesWithinBudget == ASSUME FinePrices PROVE Spec => []LossWithinBudget
<1>1. Init => LInv
  <2> SUFFICES ASSUME Init PROVE LInv
    OBVIOUS
  <2>1. acct = NewAccount /\ trades = {}
    BY DEF Init
  <2> QED
    BY <2>1, NewAccountFits DEF LInv
<1>2. BInv /\ LInv /\ [Next]_vars => LInv'
  <2> SUFFICES ASSUME BInv, LInv, [Next]_vars PROVE LInv'
    OBVIOUS
  <2>1. CASE ProcessBar
    BY <2>1, ProcessBarBudget
  <2>2. CASE \/ SyncCommand \/ BacktestCommand \/ OfflineBacktest
             \/ FetchPage \/ RequestFails \/ Store \/ Load \/ UNCHANGED vars
    <3>1. acct' = acct /\ setup' = setup /\ trades' = trades
      BY <2>2 DEF SyncCommand, BacktestCommand, OfflineBacktest, Begin, FetchPage,
                  RequestFails, Store, Load, vars, execution
    <3> QED
      BY <3>1 DEF LInv, InBudget, Affordable, Open
  <2>3. CASE Predict
    <3>1. acct' = NewAccount /\ trades' = {}
      BY <2>3 DEF Predict, BInv
    <3>2. ~Open(acct)'
      BY <3>1, NewAccountFits DEF Open
    <3> QED
      BY <3>1, <3>2 DEF LInv
  <2> QED
    BY <2>1, <2>2, <2>3 DEF Next
<1>3. LInv => LossWithinBudget
  BY DEF LInv, LossWithinBudget, Affordable
<1> QED
  BY <1>1, <1>2, <1>3, BacktestInvariant, PTL DEF Spec


-----------------------------------------------------------------------------
(* The models of a walk-forward *)

\* The function a carries NoFit, or the last fit of a row in D, through n rows.
Rolls(a, n, D, F) ==
  a = [i \in 0..n |-> IF i = 0 THEN NoFit ELSE IF i \in D THEN F[i] ELSE a[i - 1]]

LEMMA RollExists ==
  ASSUME NEW n \in Nat, NEW D, NEW F
  PROVE  \E a : Rolls(a, n, D, F)
<1> DEFINE S == {m \in Nat : \E a : Rolls(a, m, D, F)}
<1>1. 0 \in S
  <2> DEFINE a == [i \in 0..0 |-> NoFit]
  <2>1. a = [i \in 0..0 |-> IF i = 0 THEN NoFit ELSE IF i \in D THEN F[i] ELSE a[i - 1]]
    OBVIOUS
  <2>2. Rolls(a, 0, D, F)
    BY <2>1 DEF Rolls
  <2> HIDE DEF a
  <2> QED
    BY <2>2
<1>2. ASSUME NEW m \in Nat, m \in S PROVE m + 1 \in S
  <2>1. PICK a : Rolls(a, m, D, F)
    BY <1>2
  <2> DEFINE next == IF m + 1 \in D THEN F[m + 1] ELSE a[m]
             b == [i \in 0..(m + 1) |-> IF i <= m THEN a[i] ELSE next]
             c == [i \in 0..(m + 1) |->
                     IF i = 0 THEN NoFit ELSE IF i \in D THEN F[i] ELSE b[i - 1]]
  <2>2. a = [i \in 0..m |-> IF i = 0 THEN NoFit ELSE IF i \in D THEN F[i] ELSE a[i - 1]]
    BY <2>1 DEF Rolls
  <2>3. \A i \in 0..m : a[i] = IF i = 0 THEN NoFit ELSE IF i \in D THEN F[i] ELSE a[i - 1]
    BY <2>2
  <2>4. ASSUME NEW i \in 0..(m + 1) PROVE b[i] = c[i]
    <3>1. CASE i <= m
      <4>1. b[i] = a[i] /\ i \in 0..m
        BY <3>1
      <4>2. i # 0 => i - 1 \in 0..(m + 1) /\ i - 1 <= m
        BY <3>1
      <4>3. i # 0 => b[i - 1] = a[i - 1]
        BY <4>2
      <4>4. c[i] = IF i = 0 THEN NoFit ELSE IF i \in D THEN F[i] ELSE b[i - 1]
        OBVIOUS
      <4> HIDE DEF b, c
      <4> QED
        BY <2>3, <4>1, <4>3, <4>4
    <3>2. CASE i = m + 1
      <4>1. b[i] = next
        BY <3>2
      <4>2. i - 1 = m /\ m \in 0..(m + 1) /\ m <= m
        BY <3>2
      <4>3. b[m] = a[m]
        BY <4>2
      <4>4. c[i] = IF i = 0 THEN NoFit ELSE IF i \in D THEN F[i] ELSE b[i - 1]
        OBVIOUS
      <4>5. i # 0
        BY <3>2
      <4>6. next = IF i \in D THEN F[i] ELSE a[m]
        BY <3>2
      <4> HIDE DEF b, c, next
      <4> QED
        BY <4>1, <4>2, <4>3, <4>4, <4>5, <4>6
    <3> QED
      BY <3>1, <3>2
  <2>5. b = c
    <3>1. DOMAIN b = 0..(m + 1) /\ DOMAIN c = 0..(m + 1)
          /\ b = [i \in 0..(m + 1) |-> b[i]] /\ c = [i \in 0..(m + 1) |-> c[i]]
      OBVIOUS
    <3> HIDE DEF b, c
    <3> QED
      BY <2>4, <3>1
  <2>6. Rolls(b, m + 1, D, F)
    BY <2>5 DEF Rolls
  <2> HIDE DEF b
  <2> QED
    BY <2>6
<1> HIDE DEF S
<1>3. n \in S
  BY <1>1, <1>2, NatSetInduction
<1> QED
  BY <1>3 DEF S

LEMMA RollAt ==
  ASSUME NEW a, NEW n \in Nat, NEW D, NEW F, Rolls(a, n, D, F)
  PROVE  /\ a[0] = NoFit
         /\ \A i \in 1..n : a[i] = IF i \in D THEN F[i] ELSE a[i - 1]
<1>1. \A i \in 0..n : a[i] = IF i = 0 THEN NoFit ELSE IF i \in D THEN F[i] ELSE a[i - 1]
  <2> DEFINE r == [i \in 0..n |-> IF i = 0 THEN NoFit ELSE IF i \in D THEN F[i] ELSE a[i - 1]]
  <2>1. a = r
    BY DEF Rolls
  <2>2. \A i \in 0..n : r[i] = IF i = 0 THEN NoFit ELSE IF i \in D THEN F[i] ELSE a[i - 1]
    OBVIOUS
  <2> HIDE DEF r
  <2> QED
    BY <2>1, <2>2
<1>2. 0 \in 0..n /\ \A i \in 1..n : i \in 0..n /\ i # 0
  OBVIOUS
<1> QED
  BY <1>1, <1>2

\* The same fits on the same rows, up to row m.
Alike(D, F, E, G, m) ==
  \A i \in 1..m : (i \in D <=> i \in E) /\ (i \in D => F[i] = G[i])

\* Two that refit alike agree as far as the shorter goes.
LEMMA RollAgree ==
  ASSUME NEW n \in Nat, NEW m \in Nat, m <= n, NEW D, NEW F, NEW E, NEW G,
         NEW a, Rolls(a, n, D, F), NEW b, Rolls(b, m, E, G),
         Alike(D, F, E, G, m)
  PROVE  \A i \in 0..m : a[i] = b[i]
<1> DEFINE S == {i \in Nat : i <= m => a[i] = b[i]}
<1>1. 0 \in S
  BY RollAt
<1>2. ASSUME NEW i \in Nat, i \in S PROVE i + 1 \in S
  <2> SUFFICES ASSUME i + 1 <= m PROVE a[i + 1] = b[i + 1]
    OBVIOUS
  <2> DEFINE j == i + 1
  <2>1. j \in 1..m /\ j \in 1..n /\ j - 1 = i /\ a[i] = b[i]
    BY <1>2
  <2> HIDE DEF j
  <2>2. a[j] = IF j \in D THEN F[j] ELSE a[j - 1]
    BY <2>1, RollAt
  <2>3. b[j] = IF j \in E THEN G[j] ELSE b[j - 1]
    BY <2>1, RollAt
  <2>4. a[j] = b[j]
    BY <2>1, <2>2, <2>3 DEF Alike
  <2> QED
    BY <2>4 DEF j
<1> HIDE DEF S
<1>3. \A i \in Nat : i \in S
  BY <1>1, <1>2, NatSetInduction
<1> QED
  BY <1>3 DEF S

\* What is carried is NoFit or a fit.
LEMMA RollValues ==
  ASSUME NEW n \in Nat, NEW D, NEW F, NEW a, Rolls(a, n, D, F)
  PROVE  \A i \in 0..n : a[i] = NoFit \/ \E j \in 1..n : a[i] = F[j]
<1> DEFINE S == {i \in Nat : i <= n => a[i] = NoFit \/ \E j \in 1..n : a[i] = F[j]}
<1>1. 0 \in S
  BY RollAt
<1>2. ASSUME NEW i \in Nat, i \in S PROVE i + 1 \in S
  <2> SUFFICES ASSUME i + 1 <= n
               PROVE  a[i + 1] = NoFit \/ \E j \in 1..n : a[i + 1] = F[j]
    OBVIOUS
  <2> DEFINE k == i + 1
  <2>1. k \in 1..n /\ k - 1 = i /\ (a[i] = NoFit \/ \E j \in 1..n : a[i] = F[j])
    BY <1>2
  <2> HIDE DEF k
  <2>2. a[k] = IF k \in D THEN F[k] ELSE a[k - 1]
    BY <2>1, RollAt
  <2>3. a[k] = NoFit \/ \E j \in 1..n : a[k] = F[j]
    BY <2>1, <2>2
  <2> QED
    BY <2>3 DEF k
<1> HIDE DEF S
<1>3. \A i \in Nat : i \in S
  BY <1>1, <1>2, NatSetInduction
<1> QED
  BY <1>3 DEF S

Refits(f, mode) ==
  {i \in 1..Len(f) : ValidFeatures(f, i) /\ ScheduledRefit(f, i) /\ Fit(f, mode, i) # NoFit}

Fits(f, mode) == [i \in 1..Len(f) |-> Fit(f, mode, i)]

\* The models in use are carried so.
LEMMA ActiveRolls ==
  ASSUME NEW f, Len(f) \in Nat, NEW mode
  PROVE  Rolls(ActiveModels(f, mode), Len(f), Refits(f, mode), Fits(f, mode))
<1> DEFINE n == Len(f)
           Goes(a) == a = [i \in 0..n |->
             IF i = 0 THEN NoFit
             ELSE IF ValidFeatures(f, i) /\ ScheduledRefit(f, i) /\ Fit(f, mode, i) # NoFit
                  THEN Fit(f, mode, i)
                  ELSE a[i - 1]]
<1>1. ASSUME NEW a PROVE Goes(a) <=> Rolls(a, n, Refits(f, mode), Fits(f, mode))
  <2>1. ASSUME NEW i \in 0..n, i # 0
        PROVE  i \in 1..n
    BY <2>1
  <2>2. ASSUME NEW i \in 0..n
        PROVE  (IF i = 0 THEN NoFit
                ELSE IF ValidFeatures(f, i) /\ ScheduledRefit(f, i) /\ Fit(f, mode, i) # NoFit
                     THEN Fit(f, mode, i) ELSE a[i - 1])
               = (IF i = 0 THEN NoFit
                  ELSE IF i \in Refits(f, mode) THEN Fits(f, mode)[i] ELSE a[i - 1])
    BY <2>1 DEF Refits, Fits
  <2> QED
    BY <2>2 DEF Rolls
<1>2. PICK a : Rolls(a, n, Refits(f, mode), Fits(f, mode))
  BY RollExists
<1>3. Goes(a)
  BY <1>1, <1>2
<1>4. ActiveModels(f, mode) = CHOOSE b : Goes(b)
  BY DEF ActiveModels
<1>5. Goes(ActiveModels(f, mode))
  <2> HIDE DEF Goes
  <2> QED
    BY <1>3, <1>4
<1> QED
  BY <1>1, <1>5

-----------------------------------------------------------------------------
(* A frame and a longer one that begins with it *)

Begins(g, f) ==
  /\ f \in Seq(Nat) /\ g \in Seq(Nat) /\ Len(g) <= Len(f)
  /\ \A i \in 1..Len(g) : g[i] = f[i]

LEMMA WalkSizes ==
  /\ Horizon \in Nat \ {0} /\ Warmup \in Nat \ {0} /\ CalibrationWindow \in Nat \ {0}
BY WalkForwardAssumption

LEMMA SameRow ==
  ASSUME NEW f, NEW g, Begins(g, f), NEW i \in 1..Len(g)
  PROVE  /\ ValidFeatures(g, i) <=> ValidFeatures(f, i)
         /\ ScheduledRefit(g, i) <=> ScheduledRefit(f, i)
<1>1. g[i] = f[i]
  BY DEF Begins
<1>2. ASSUME i >= Warmup PROVE g[i - Warmup + 1] = f[i - Warmup + 1]
  <2>1. i - Warmup + 1 \in 1..Len(g)
    BY <1>2, WalkSizes DEF Begins
  <2> QED
    BY <2>1 DEF Begins
<1>3. ValidFeatures(g, i) <=> ValidFeatures(f, i)
  BY <1>1, <1>2 DEF ValidFeatures, SameSegment
<1> QED
  BY <1>1, <1>3 DEF ScheduledRefit

LEMMA SameCandidates ==
  ASSUME NEW f, NEW g, Begins(g, f), NEW i \in 1..Len(g)
  PROVE  /\ Candidates(g, i) = Candidates(f, i)
         /\ \A k \in Candidates(f, i) :
              k \in 1..i /\ LabelRow(k) \in 1..i /\ LabelEnd(g, k) = LabelEnd(f, k)
<1>1. ASSUME NEW k \in 1..(i - Horizon - 1)
      PROVE  /\ k \in 1..i /\ k \in 1..Len(g) /\ LabelRow(k) \in 1..i /\ LabelRow(k) \in 1..Len(g)
             /\ LabelRow(k) <= Len(f)
  <2>1. i \in Nat /\ i <= Len(g) /\ Len(g) <= Len(f) /\ Len(g) \in Nat /\ Len(f) \in Nat
    BY DEF Begins
  <2> QED
    BY <2>1, WalkSizes DEF LabelRow
<1>2. ASSUME NEW k \in 1..(i - Horizon - 1)
      PROVE  /\ g[k] = f[k] /\ g[LabelRow(k)] = f[LabelRow(k)] /\ g[i] = f[i]
             /\ ValidFeatures(g, k) <=> ValidFeatures(f, k)
  BY <1>1, SameRow DEF Begins
<1>3. ASSUME NEW k \in 1..(i - Horizon - 1)
      PROVE  /\ HasLabel(g, k) <=> HasLabel(f, k)
             /\ LabelEnd(g, k) = LabelEnd(f, k)
  <2>1. LabelRow(k) <= Len(g)
    BY <1>1
  <2> QED
    BY <1>1, <1>2, <2>1 DEF HasLabel, SameSegment, LabelEnd
<1>4. Candidates(g, i) = Candidates(f, i)
  BY <1>2, <1>3 DEF Candidates
<1>5. Candidates(f, i) \subseteq 1..(i - Horizon - 1)
  BY DEF Candidates
<1> QED
  BY <1>1, <1>3, <1>4, <1>5

\* The calibration rows of a set of rows have a first one, where there are rows.
LEMMA CalibrationFirst ==
  ASSUME NEW m \in Nat, NEW rows, rows \subseteq 1..m, rows # {}
  PROVE  LET calibration == Largest(rows, CalibrationWindow)
         IN /\ calibration \subseteq rows /\ Min(calibration) \in calibration
            /\ \A c \in calibration : Min(calibration) <= c
<1> DEFINE calibration == Largest(rows, CalibrationWindow)
           one == {x \in rows : Cardinality({y \in rows : y > x}) < 1}
<1>1. IsFiniteSet(rows) /\ rows \subseteq Int
  <2>1. IsFiniteSet(1..m)
    BY FS_Interval
  <2>2. IsFiniteSet(rows)
    BY <2>1, FS_Subset
  <2> QED
    BY <2>2
<1>2. Cardinality(rows) \in Nat /\ Cardinality(rows) # 0
  BY <1>1, FS_CardinalityType, FS_EmptySet
<1>3. IsFiniteSet(one) /\ Cardinality(one) = 1
  <2>1. 1 \in Nat /\ 1 <= Cardinality(rows)
    BY <1>2
  <2> QED
    BY <1>1, <2>1, TopSize
<1>4. PICK x : x \in one
  <2>1. one # {}
    <3> HIDE DEF one
    <3> QED
      BY <1>3, FS_EmptySet
  <2> QED
    BY <2>1
<1>5. x \in calibration
  <2>1. Cardinality({y \in rows : y > x}) < 1 /\ x \in rows
    BY <1>4
  <2>2. Cardinality({y \in rows : y > x}) \in Nat
    <3>1. {y \in rows : y > x} \in SUBSET rows
      OBVIOUS
    <3>2. IsFiniteSet({y \in rows : y > x})
      BY <1>1, <3>1, FS_Subset
    <3> QED
      BY <3>2, FS_CardinalityType
  <2>3. Cardinality({y \in rows : y > x}) < CalibrationWindow
    BY <2>1, <2>2, WalkSizes
  <2> QED
    BY <2>1, <2>3 DEF Largest
<1>6. calibration \in SUBSET rows
  BY DEF Largest
<1>7. IsFiniteSet(calibration) /\ calibration \subseteq Int /\ calibration # {}
  <2> HIDE DEF calibration
  <2>1. IsFiniteSet(calibration)
    BY <1>1, <1>6, FS_Subset
  <2> QED
    BY <1>1, <1>5, <1>6, <2>1
<1> HIDE DEF calibration
<1>8. PICK s \in calibration : \A t \in calibration : s <= t
  BY <1>7, LeastExists
<1>9. Min(calibration) \in calibration /\ \A c \in calibration : Min(calibration) <= c
  BY <1>8 DEF Min
<1> QED
  BY <1>6, <1>9 DEF calibration

\* A fit knows no row after its own.
LEMMA SameFit ==
  ASSUME NEW f, NEW g, Begins(g, f), NEW i \in 1..Len(g), NEW mode
  PROVE  Fit(g, mode, i) = Fit(f, mode, i)
<1>1. /\ Candidates(g, i) = Candidates(f, i)
      /\ \A k \in Candidates(f, i) :
           k \in 1..i /\ LabelRow(k) \in 1..i /\ LabelEnd(g, k) = LabelEnd(f, k)
  BY SameCandidates
<1>2. ProbabilityFit(g, i) = ProbabilityFit(f, i)
  BY <1>1 DEF ProbabilityFit
<1> DEFINE rows == Largest(Candidates(f, i), TrainWindow)
           calibration == Largest(rows, CalibrationWindow)
<1>3. rows \subseteq Candidates(f, i)
  BY DEF Largest
<1> HIDE DEF rows
<1>4. ASSUME NEW k \in rows \ calibration
      PROVE  /\ LabelEnd(g, k) = LabelEnd(f, k)
             /\ g[Min(calibration)] = f[Min(calibration)]
  <2>1. i \in Nat /\ rows \subseteq 1..i /\ rows # {}
    BY <1>1, <1>3
  <2>2. calibration \subseteq rows /\ Min(calibration) \in calibration
    BY <2>1, CalibrationFirst
  <2> HIDE DEF calibration
  <2>3. Min(calibration) \in 1..i
    BY <2>1, <2>2
  <2>4. Min(calibration) \in 1..Len(g)
    BY <2>3 DEF Begins
  <2>5. g[Min(calibration)] = f[Min(calibration)]
    BY <2>4 DEF Begins
  <2> QED
    BY <1>1, <1>3, <2>5
<1>5. PurgedBase(g, rows) = PurgedBase(f, rows)
  BY <1>4 DEF PurgedBase
<1>6. ExpectedReturnFit(g, i) = ExpectedReturnFit(f, i)
  <2>1. rows = Largest(Candidates(g, i), TrainWindow) /\ rows = Largest(Candidates(f, i), TrainWindow)
    BY <1>1 DEF rows
  <2> QED
    BY <1>5, <2>1 DEF ExpectedReturnFit
<1> QED
  BY <1>2, <1>6 DEF Fit

\* The predictions of a shorter frame are those of the longer one.
LEMMA SamePredictions ==
  ASSUME NEW f, NEW g, Begins(g, f), NEW mode
  PROVE  \A i \in 1..Len(g) : Predictions(g, mode)[i] = Predictions(f, mode)[i]
<1>1. Len(f) \in Nat /\ Len(g) \in Nat /\ Len(g) <= Len(f)
  BY DEF Begins
<1> DEFINE a == ActiveModels(f, mode)
           b == ActiveModels(g, mode)
<1>2. /\ Rolls(a, Len(f), Refits(f, mode), Fits(f, mode))
      /\ Rolls(b, Len(g), Refits(g, mode), Fits(g, mode))
  BY <1>1, ActiveRolls
<1>3. ASSUME NEW i \in 1..Len(g)
      PROVE  /\ ValidFeatures(g, i) <=> ValidFeatures(f, i)
             /\ ScheduledRefit(g, i) <=> ScheduledRefit(f, i)
             /\ Fit(g, mode, i) = Fit(f, mode, i) /\ i \in 1..Len(f)
             /\ i \in Refits(f, mode) <=> i \in Refits(g, mode)
             /\ Fits(f, mode)[i] = Fits(g, mode)[i]
  <2>1. /\ ValidFeatures(g, i) <=> ValidFeatures(f, i)
        /\ ScheduledRefit(g, i) <=> ScheduledRefit(f, i)
    BY SameRow
  <2>2. Fit(g, mode, i) = Fit(f, mode, i)
    BY SameFit
  <2>3. i \in 1..Len(f)
    BY <1>1
  <2> QED
    BY <2>1, <2>2, <2>3 DEF Refits, Fits
<1> HIDE DEF a, b
<1>4. \A i \in 0..Len(g) : a[i] = b[i]
  <2> DEFINE D == Refits(f, mode)
             F == Fits(f, mode)
             E == Refits(g, mode)
             G == Fits(g, mode)
  <2>1. Rolls(a, Len(f), D, F) /\ Rolls(b, Len(g), E, G)
    BY <1>2
  <2>2. Alike(D, F, E, G, Len(g))
    BY <1>3 DEF Alike
  <2> HIDE DEF D, E, F, G
  <2> QED
    BY <1>1, <2>1, <2>2, RollAgree
<1>5. ASSUME NEW i \in 1..Len(g)
      PROVE  Predictions(g, mode)[i] = Predictions(f, mode)[i]
  <2>1. a[i] = b[i] /\ i \in 1..Len(f)
    BY <1>3, <1>4
  <2>2. Predictions(g, mode)[i] =
          IF ~ValidFeatures(g, i) THEN NoFit
          ELSE IF mode = "probability" /\ ScheduledRefit(g, i) /\ Fit(g, mode, i) = NoFit
               THEN NoFit ELSE b[i]
    BY DEF Predictions, b
  <2>3. Predictions(f, mode)[i] =
          IF ~ValidFeatures(f, i) THEN NoFit
          ELSE IF mode = "probability" /\ ScheduledRefit(f, i) /\ Fit(f, mode, i) = NoFit
               THEN NoFit ELSE a[i]
    BY <2>1 DEF Predictions, a
  <2> QED
    BY <1>3, <2>1, <2>2, <2>3
<1> QED
  BY <1>5


\* What a prediction says of its own rows: the labels of a base model end when
\* the first calibration row can be traded.
LEMMA PredictedRows ==
  ASSUME NEW f, f \in Seq(Nat), \A i, j \in 1..Len(f) : i < j => f[i] < f[j],
         NEW mode, NEW i \in 1..Len(f),
         NEW m, m = Predictions(f, mode)[i],
         NEW k \in m.base, NEW c \in m.calibration
  PROVE  LabelEnd(f, k) <= f[c] + 1
<1>1. PICK j \in 1..Len(f) : m = Fit(f, mode, j)
  <2> DEFINE a == ActiveModels(f, mode)
  <2>1. m # NoFit
    BY DEF NoFit
  <2>2. m = NoFit \/ m = a[i]
    BY DEF Predictions
  <2>3. Rolls(a, Len(f), Refits(f, mode), Fits(f, mode)) /\ Len(f) \in Nat
    BY ActiveRolls
  <2> HIDE DEF a
  <2>4. a[i] = NoFit \/ \E j \in 1..Len(f) : a[i] = Fits(f, mode)[j]
    BY <2>3, RollValues
  <2> QED
    BY <2>1, <2>2, <2>4 DEF Fits
<1>2. m # NoFit
  BY DEF NoFit
<1>3. mode # "probability"
  <2> SUFFICES ASSUME mode = "probability" PROVE FALSE
    OBVIOUS
  <2>1. m = ProbabilityFit(f, j)
    BY <1>1 DEF Fit
  <2>2. m.calibration = {}
    BY <1>2, <2>1 DEF ProbabilityFit
  <2> QED
    BY <2>2
<1>4. m = ExpectedReturnFit(f, j)
  BY <1>1, <1>3 DEF Fit
<1> DEFINE rows == Largest(Candidates(f, j), TrainWindow)
           calibration == Largest(rows, CalibrationWindow)
<1>5. m.base = PurgedBase(f, rows) /\ m.calibration = calibration
  BY <1>2, <1>4 DEF ExpectedReturnFit
<1>6. Begins(f, f)
  BY DEF Begins
<1>7. rows \subseteq 1..j /\ rows \subseteq 1..Len(f)
  <2>1. rows \subseteq Candidates(f, j)
    BY DEF Largest
  <2>2. \A x \in Candidates(f, j) : x \in 1..j
    BY <1>6, SameCandidates
  <2> HIDE DEF rows
  <2>3. 1..j \subseteq 1..Len(f)
    OBVIOUS
  <2> QED
    BY <2>1, <2>2, <2>3
<1>8. c \in calibration /\ k \in rows /\ LabelEnd(f, k) <= f[Min(calibration)] + 1
  <2> HIDE DEF rows
  <2> QED
    BY <1>5 DEF PurgedBase
<1> HIDE DEF rows
<1>9. /\ calibration \subseteq rows /\ Min(calibration) \in calibration
      /\ \A x \in calibration : Min(calibration) <= x
  <2>1. j \in Nat /\ rows # {}
    BY <1>8
  <2> QED
    BY <1>7, <2>1, CalibrationFirst
<1> DEFINE first == Min(calibration)
<1>10. first \in 1..Len(f) /\ c \in 1..Len(f) /\ first <= c
  <2> HIDE DEF calibration
  <2> QED
    BY <1>7, <1>8, <1>9
<1>11. f[first] \in Nat /\ f[c] \in Nat /\ f[first] <= f[c]
  <2> HIDE DEF first
  <2>1. first = c \/ first < c
    BY <1>10
  <2> QED
    BY <1>10, <2>1
<1>12. LabelEnd(f, k) \in Nat
  <2>1. k \in Candidates(f, j)
    BY <1>8 DEF rows, Largest
  <2>2. LabelRow(k) \in 1..j
    BY <1>6, <2>1, SameCandidates
  <2>3. LabelRow(k) \in 1..Len(f)
    BY <2>2
  <2> QED
    BY <2>3 DEF LabelEnd
<1> HIDE DEF first
<1>13. LabelEnd(f, k) <= f[first] + 1
  BY <1>8 DEF first
<1> QED
  BY <1>11, <1>12, <1>13, SMTT(20)

-----------------------------------------------------------------------------
(* The predictions of a run *)

CInv == phase = "run" /\ row = setup.first => models = Predictions(frame, setup.mode)

LEMMA PredictionShape ==
  ASSUME NEW f, NEW mode
  PROVE  Predictions(f, mode) = [i \in 1..Len(f) |-> Predictions(f, mode)[i]]
<1> DEFINE a == ActiveModels(f, mode)
           value(i) == IF ~ValidFeatures(f, i) THEN NoFit
                       ELSE IF mode = "probability" /\ ScheduledRefit(f, i)
                               /\ Fit(f, mode, i) = NoFit
                            THEN NoFit ELSE a[i]
<1>1. Predictions(f, mode) = [i \in 1..Len(f) |-> value(i)]
  BY DEF Predictions
<1> HIDE DEF value
<1> QED
  BY <1>1

LEMMA CausalModels ==
  ASSUME frame \in Seq(Nat), Ordered(frame), models = Predictions(frame, setup.mode)
  PROVE  /\ \A rows \in 1..Len(frame) :
              Predictions(Prefix(rows), setup.mode) = SubSeq(models, 1, rows)
         /\ \A i \in 1..Len(frame) :
              \A k \in models[i].base, c \in models[i].calibration :
                LabelEnd(frame, k) <= frame[c] + 1
<1>1. ASSUME NEW rows \in 1..Len(frame)
      PROVE  Predictions(Prefix(rows), setup.mode) = SubSeq(models, 1, rows)
  <2> DEFINE g == Prefix(rows)
             p == Predictions(g, setup.mode)
             n == Len(frame)
             X == {models[i] : i \in 1..n}
             q == SubSeq(models, 1, rows)
  <2>1. rows \in 0..Len(frame) /\ n \in Nat /\ rows \in Nat
    OBVIOUS
  <2>2. /\ g \in Seq(Nat) /\ Len(g) = rows
        /\ \A i \in 1..rows : g[i] = frame[i]
    BY <2>1, PrefixFacts
  <2> HIDE DEF g
  <2>3. Begins(g, frame)
    BY <2>1, <2>2 DEF Begins
  <2>4. \A i \in 1..rows : p[i] = models[i]
    BY <2>2, <2>3, SamePredictions
  <2>5. p = [i \in 1..rows |-> p[i]]
    <3>1. Predictions(g, setup.mode)
            = [i \in 1..Len(g) |-> Predictions(g, setup.mode)[i]]
      BY PredictionShape
    <3> QED
      BY <2>2, <3>1
  <2>6. q = [i \in 1..rows |-> models[i]]
    <3>1. models = [i \in 1..n |-> models[i]]
      <4>1. Predictions(frame, setup.mode)
              = [i \in 1..Len(frame) |-> Predictions(frame, setup.mode)[i]]
        BY PredictionShape
      <4> QED
        BY <4>1
    <3>2. models \in Seq(X) /\ Len(models) = n
      BY <2>1, <3>1
    <3> QED
      BY <2>1, <3>2
  <2> HIDE DEF p, q
  <2>7. p = q
    BY <2>4, <2>5, <2>6
  <2> QED
    BY <2>7 DEF p, q, g
<1>2. ASSUME NEW i \in 1..Len(frame),
             NEW k \in models[i].base, NEW c \in models[i].calibration
      PROVE  LabelEnd(frame, k) <= frame[c] + 1
  <2>1. \A x, y \in 1..Len(frame) : x < y => frame[x] < frame[y]
    BY DEF Ordered
  <2> DEFINE m == models[i]
  <2>2. m = Predictions(frame, setup.mode)[i] /\ k \in m.base /\ c \in m.calibration
    OBVIOUS
  <2> HIDE DEF m
  <2> QED
    BY <2>1, <2>2, PredictedRows
<1> QED
  BY <1>1, <1>2

\* PredictionsAreCausal, for every window, warm-up and training size and every
\* pattern of missing candles: the walk-forward of both signal modes (strategy.py)
\* fits a row on what had settled when it opened.
THEOREM PredictionsCausal == Spec => []PredictionsAreCausal
<1>1. Init => CInv
  BY DEF Init, CInv
<1>2. BInv /\ CInv /\ [Next]_vars => CInv'
  <2> SUFFICES ASSUME BInv, CInv, [Next]_vars PROVE CInv'
    OBVIOUS
  <2>1. CASE \/ SyncCommand \/ BacktestCommand \/ OfflineBacktest
             \/ FetchPage \/ RequestFails \/ Store \/ Load
    <3>1. phase' # "run"
      BY <2>1 DEF SyncCommand, BacktestCommand, OfflineBacktest, FetchPage, RequestFails,
                  Store, Load
    <3> QED
      BY <3>1 DEF CInv
  <2>2. CASE Predict
    <3>1. models' = Predictions(frame', setup'.mode)
      BY <2>2 DEF Predict
    <3> QED
      BY <3>1 DEF CInv
  <2>3. CASE ProcessBar
    <3>1. /\ row' = row + 1 /\ setup' = setup
          /\ row \in Nat /\ row >= setup.first /\ setup.first \in Nat
      <4>1. phase = "run" /\ row' = row + 1 /\ setup' = setup
        BY <2>3 DEF ProcessBar
      <4>2. SetupType /\ Ran(acct, trades, breach, row)
        BY <4>1 DEF BInv
      <4> QED
        BY <4>1, <4>2 DEF Ran, Placed, SetupType
    <3>2. row' # setup'.first
      BY <3>1
    <3> QED
      BY <3>2 DEF CInv
  <2>4. CASE UNCHANGED vars
    BY <2>4 DEF vars, CInv
  <2> QED
    BY <2>1, <2>2, <2>3, <2>4 DEF Next
<1>3. BInv /\ CInv => PredictionsAreCausal
  <2> SUFFICES ASSUME BInv, CInv, phase = "run", row = setup.first
               PROVE  /\ \A rows \in 1..Len(frame) :
                           Predictions(Prefix(rows), setup.mode) = SubSeq(models, 1, rows)
                      /\ \A i \in 1..Len(frame) :
                           \A k \in models[i].base, c \in models[i].calibration :
                             LabelEnd(frame, k) <= frame[c] + 1
    BY DEF PredictionsAreCausal
  <2>1. frame \in Seq(Nat) /\ Ordered(frame)
    BY DEF BInv
  <2>2. models = Predictions(frame, setup.mode)
    BY DEF CInv
  <2> QED
    BY <2>1, <2>2, CausalModels
<1> QED
  BY <1>1, <1>2, <1>3, BacktestInvariant, PTL DEF Spec

=============================================================================
