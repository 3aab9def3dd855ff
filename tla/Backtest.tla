------------------------------ MODULE Backtest ------------------------------
(***************************************************************************)
(* A backtest from the exchange to the last trade: the commands that fill  *)
(* the candle table, one after the other (cli.py, store.py), the paged     *)
(* download and its retries (data.py), the choice of the closed candles    *)
(* (_load_backtest_data), the predictions (WalkForward), the bars executed *)
(* one by one (BarEngine), and the development, holdout and stressed runs  *)
(* of one research assessment (backtest.py, research.py).                  *)
(*                                                                         *)
(* A candle is the slot it opens at; slot s covers the time from           *)
(* s * Interval to (s + 1) * Interval and may be missing at the exchange.  *)
(* Whether a fetched row is final is the time it was served at.            *)
(***************************************************************************)
EXTENDS WalkForward, BarEngine

CONSTANTS
  Mode,          \* values of model.signal_mode
  GapHalts,      \* values of halt_on_data_gap; run_backtest passes FALSE
  Bar,           \* candles, as records of open, high, low and close
  Stop,          \* raw stop distances an ATR can give
  Interval, Grace, SkewReserve,
  Skew,          \* local clock minus server clock; it may be set anew between commands
  PageSize, MaxRetries, Wanted,
  Split,         \* rows before holdout_start
  SyncCounts,    \* rows `coinpilot sync` may be asked for
  (* Bounds. *)
  FirstSlot, MaxGaps, MaxDelay,
  Starts,        \* server times a command may start at
  MaxCommands

\* Before any time a clock shows.
Unset == -100

ASSUME BacktestAssumption ==
  /\ HoldBars = Horizon
  /\ Mode \subseteq {"probability", "expected_return"} /\ GapHalts \subseteq BOOLEAN
  /\ Bar \subseteq [open : Nat \ {0}, high : Nat \ {0}, low : Nat \ {0}, close : Nat \ {0}]
  /\ \A c \in Bar : c.low <= Min({c.open, c.close}) /\ c.high >= Max({c.open, c.close})
  /\ Stop \subseteq Nat /\ Split \subseteq 2..(Wanted - 2)
  /\ Skew \subseteq Int /\ \A k \in Skew : k - SkewReserve > Unset
  /\ {Interval, PageSize, Wanted} \subseteq Nat \ {0}
  /\ SyncCounts \subseteq Nat \ {0} /\ Starts \subseteq Nat
  /\ {Grace, SkewReserve, MaxRetries, FirstSlot, MaxGaps, MaxDelay, MaxCommands} \subseteq Nat

VARIABLES
  market,   \* slots the exchange has a candle for, ascending
  server,   \* time at the exchange
  skew,     \* of the local clock
  commands, \* started so far
  task,     \* "none", "sync" or "backtest"
  wanted,   \* rows this command asks the exchange for
  phase,    \* "idle", "fetch", "store", "load", "predict", "run", "done" or "failed"
  pages,    \* rows fetched: slot and server time they were served at
  cursor,   \* slot the next page ends before
  tries,    \* attempts of the request under way
  cutoff,   \* finalization_cutoff
  table,    \* slots in the table `candles`
  covered,  \* observer: slots from the first to the last row each download stored
  early,    \* observer: stored slots whose row was served before the candle closed
  frame,    \* slots of the closed candles the backtest works on
  setup,    \* signal mode, gap rule, rows executed and cost of this run
  models,   \* prediction made for each row
  row,      \* row executed next
  acct,     \* PortfolioState
  trades,   \* closed trades
  breach    \* observer: first row that closed beyond the drawdown limit, or 0

vars == <<market, server, skew, commands, task, wanted, phase, pages, cursor, tries,
          cutoff, table, covered, early, frame, setup, models, row, acct, trades, breach>>

download == <<server, skew, pages, cursor, tries, cutoff>>
store == <<table, covered, early>>
issued == <<commands, task, wanted>>
execution == <<setup, models, row, acct, trades, breach>>

Slots == FirstSlot..(FirstSlot + Wanted + MaxGaps)

\* Slots ascending, as a sequence.
Ascending(S) ==
  [i \in 1..Cardinality(S) |-> CHOOSE s \in S : Cardinality({t \in S : t <= s}) = i]

Closes(slot) == (slot + 1) * Interval

Init ==
  /\ \E gone \in {S \in SUBSET Slots : Cardinality(S) <= MaxGaps} : market = Slots \ gone
  /\ server = 0 /\ skew = 0
  /\ commands = 0 /\ task = "none" /\ wanted = 0 /\ phase = "idle"
  /\ pages = {} /\ cursor = FirstSlot /\ tries = 0 /\ cutoff = Unset
  /\ table = {} /\ covered = {} /\ early = {}
  /\ frame = <<>>
  /\ setup = [mode |-> "none", gapHalts |-> FALSE, first |-> 1, cost |-> 1]
  /\ models = <<>> /\ row = 1
  /\ acct = NewAccount /\ trades = {} /\ breach = 0

-----------------------------------------------------------------------------
(* The commands *)

\* A command starts, later than the last; its downloads are its own.
Begin ==
  /\ phase \in {"idle", "failed"} /\ commands < MaxCommands
  /\ commands' = commands + 1
  /\ \E at \in Starts : at >= server /\ server' = at
  /\ skew' \in Skew
  /\ pages' = {} /\ cursor' = FirstSlot + Wanted + MaxGaps + 1 /\ tries' = 0
  /\ cutoff' = Unset
  /\ UNCHANGED <<market, store, frame, execution>>

\* `coinpilot sync --count`.
SyncCommand ==
  /\ Begin
  /\ task' = "sync" /\ wanted' \in SyncCounts /\ phase' = "fetch"

\* A backtest asks for one row more than it needs: the newest is often open.
BacktestCommand ==
  /\ Begin
  /\ task' = "backtest" /\ wanted' = Wanted + 1 /\ phase' = "fetch"

\* With --offline it works on the table as it stands.
OfflineBacktest ==
  /\ Begin
  /\ task' = "backtest" /\ wanted' = 0 /\ phase' = "load"

-----------------------------------------------------------------------------
(* fetch_candles *)

Fetched == {p.slot : p \in pages}

\* Rows still missing.
Missing == wanted - Cardinality(pages)

\* The exchange answers with its newest candles before the cursor.
Page(at) ==
  LET have == {s \in market : s < cursor /\ s * Interval <= at}
  IN {[slot |-> s, served |-> at] : s \in Largest(have, Min({PageSize, Missing}))}

\* Faulty variant: the clock of the answer is the local one, read afterwards.
CutoffAtAnswer(asked, at, dated) == at + skew

\* The earlier of the local clock at the request and the Date of the answer; a
\* reserve for the skew where there is no Date.
Cutoff(asked, at, dated) ==
  IF dated THEN Min({asked + skew, at}) ELSE asked + skew - SkewReserve

\* One page.  Time passes between the request and the answer, and candles
\* appear meanwhile.  Without a Date header the local clock may be ahead of the
\* exchange by no more than the reserve.
FetchPage ==
  /\ phase = "fetch" /\ Missing > 0
  /\ \E delay \in 0..MaxDelay, dated \in BOOLEAN :
       LET at == server + delay
           page == Page(at)
       IN /\ dated \/ skew <= SkewReserve
          /\ server' = at
          /\ cutoff' = IF cutoff = Unset THEN Cutoff(server, at, dated) ELSE cutoff
          /\ pages' = pages \cup page
          /\ cursor' = IF page = {} THEN cursor ELSE Min({p.slot : p \in page})
          /\ phase' = IF Cardinality(page) < Min({PageSize, Missing}) THEN "store" ELSE phase
  /\ tries' = 0
  /\ UNCHANGED <<market, skew, issued, store, frame, execution>>

\* A request that fails is tried again after a pause, MaxRetries times; a
\* refusal or an answer that cannot be used ends the download at once.
RequestFails ==
  /\ phase = "fetch" /\ Missing > 0
  /\ tries' = tries + 1
  /\ \E final \in BOOLEAN :
       phase' = IF final \/ tries >= MaxRetries THEN "failed" ELSE phase
  /\ UNCHANGED <<market, skew, server, pages, cursor, cutoff, issued, store, frame,
                 execution>>

\* closed_candles on what was fetched.
Closed == {p \in pages : Closes(p.slot) + Grace <= cutoff}

\* Rows of one slot replace each other; those of other slots stay.
Upsert(rows) ==
  LET slots == {p.slot : p \in rows}
  IN /\ table' = table \cup slots
     /\ covered' = covered \cup Min(slots)..Max(slots)
     /\ early' = (early \ slots) \cup {p.slot : p \in {q \in rows : q.served < Closes(q.slot)}}

\* The closed candles of a complete download are stored; one without any raises.
\* A sync ends here, and a backtest that goes on and fails leaves its rows.
Store ==
  /\ phase = "store" \/ (phase = "fetch" /\ Missing <= 0)
  /\ IF Closed = {}
     THEN phase' = "failed" /\ UNCHANGED store
     ELSE /\ Upsert(Closed)
          /\ phase' = IF task = "sync" THEN "idle" ELSE "load"
  /\ UNCHANGED <<market, download, issued, frame, execution>>

-----------------------------------------------------------------------------
(* _load_backtest_data *)

\* The newest rows of the table that have closed by the local clock, which the
\* user may have set back since they were stored.
Finalized ==
  {s \in Largest(table, Wanted) : Closes(s) + Grace <= server + skew}

\* The newest Wanted rows of the table, whichever command stored them, are the
\* frame; fewer closed ones end the command.
Load ==
  /\ phase = "load"
  /\ IF Cardinality(Finalized) < Wanted
     THEN phase' = "failed" /\ UNCHANGED frame
     ELSE phase' = "predict" /\ frame' = Ascending(Finalized)
  /\ UNCHANGED <<market, download, issued, store, execution>>

-----------------------------------------------------------------------------
(* run_backtest, as run_research_assessment calls it *)

Prefix(rows) == SubSeq(frame, 1, rows)

\* What the command reads no more: the model drops the exchange, the table and
\* the download, so that runs on one frame are one run.
Forget ==
  /\ market' = {} /\ server' = 0 /\ skew' = 0
  /\ commands' = MaxCommands /\ task' = "none" /\ wanted' = 0
  /\ pages' = {} /\ cursor' = FirstSlot /\ tries' = 0 /\ cutoff' = Unset
  /\ table' = {} /\ covered' = {} /\ early' = {}

\* The whole frame, the rows before the holdout alone, or the predictions of
\* the whole frame executed from the holdout on.  Each run has an account of
\* its own; predictions are made at base cost.
Predict ==
  /\ phase = "predict"
  /\ \E mode \in Mode, halts \in GapHalts, cost \in {1, 2}, rows \in {0} \cup Split,
        development \in BOOLEAN :
       /\ development => rows > 0
       /\ cost = 2 => rows > 0 /\ ~development
       /\ frame' = IF development THEN Prefix(rows) ELSE frame
       /\ models' = Predictions(frame', mode)
       /\ row' = IF development THEN 1 ELSE rows + 1
       /\ setup' = [mode |-> mode, gapHalts |-> halts, first |-> row', cost |-> cost]
  /\ phase' = "run"
  /\ Forget
  /\ UNCHANGED <<acct, trades, breach>>

\* What a prediction can say; nothing where there is no model.
Signals(k) ==
  IF models[k] = NoFit THEN {NoSignal}
  ELSE [does : {"hold"} \cup (IF setup.mode = "probability" THEN {"exit"} ELSE {}),
        stop : {0}, row : {k}]
       \cup [does : {"enter"}, stop : Stop, row : {k}]

ProcessBar ==
  /\ phase = "run" /\ row <= Len(frame)
  /\ \E c \in Bar, signal \in Signals(row) :
       LET step == Processed(acct, row, frame[row], c, signal, setup.mode,
                             setup.gapHalts, setup.cost)
           last == row = Len(frame)
           end == IF last THEN Liquidated(step.acct, row, c.close, setup.cost)
                  ELSE [acct |-> step.acct, trades |-> {}]
           equity == Equity(step.acct, c.close, setup.cost)
       IN /\ acct' = end.acct
          /\ trades' = trades \cup step.trades \cup end.trades
          /\ breach' = IF breach = 0 /\ (step.acct.top - equity) * 100
                                          >= step.acct.top * DrawdownPct
                       THEN row ELSE breach
          /\ phase' = IF last THEN "done" ELSE phase
  /\ row' = row + 1
  /\ UNCHANGED <<market, download, issued, store, frame, setup, models>>

Next ==
  \/ SyncCommand \/ BacktestCommand \/ OfflineBacktest
  \/ FetchPage \/ RequestFails \/ Store \/ Load
  \/ Predict \/ ProcessBar

Spec == Init /\ [][Next]_vars

-----------------------------------------------------------------------------
(* Properties *)

\* Every candle of a frame had closed at the exchange when the row the table
\* holds was served, whichever command stored it, however the local clock stands
\* and however long an answer takes; and between its first and its last candle a
\* frame leaves out none the exchange had but where no download that stored
\* rows has reached: the page walk and the limits of sync and load_candles
\* make no hole of their own.
FrameIsFinal ==
  phase = "predict" =>
    /\ \A i \in 1..Len(frame) : frame[i] \notin early
    /\ \A s \in market \cap covered : s \in frame[1]..frame[Len(frame)] =>
         \E i \in 1..Len(frame) : frame[i] = s

\* No prediction knows the future: cutting the frame after any row leaves the
\* models of the rows before as they are, so a development run predicts what
\* the holdout's frame predicts there; and the labels a base model is fitted on
\* have ended when the first calibration row can be traded.
PredictionsAreCausal ==
  phase = "run" /\ row = setup.first =>
    /\ \A rows \in 1..Len(frame) :
         Predictions(Prefix(rows), setup.mode) = SubSeq(models, 1, rows)
    /\ \A i \in 1..Len(frame) :
         \A k \in models[i].base, c \in models[i].calibration :
           LabelEnd(frame, k) <= frame[c] + 1

\* A trade is the one its signal's label speaks of: in at the open of the slot
\* after the signal, and in mode "expected_return" out no later than the open
\* Horizon slots on unless candles are missing there, and exactly there when
\* the horizon is what closes it.
TradesFollowLabels ==
  \A t \in trades :
    /\ t.entered = t.signal + 1 /\ SameSegment(frame, t.signal, t.entered)
    /\ models[t.signal] # NoFit
    /\ setup.mode = "expected_return" /\ t.exited <= Len(frame) =>
         /\ frame[t.exited] > frame[t.entered] + Horizon
              => /\ t.reason \in {"market_data_gap", "risk_halt"}
                 /\ ~SameSegment(frame, t.exited - 1, t.exited)
         /\ t.reason = "horizon_exit"
              => HasLabel(frame, t.signal) /\ t.exited = LabelRow(t.signal)

\* After a stop the engine passes CooldownBars whole bars before it enters.
CooldownServed ==
  \A t \in trades : t.reason \in {"stop", "stop_gap"} =>
    /\ \A u \in trades : u.entered > t.exited => u.entered > t.exited + CooldownBars
    /\ Open(acct) /\ acct.entered > t.exited => acct.entered > t.exited + CooldownBars

\* A close beyond the drawdown limit ends trading: nothing is entered on a
\* later bar, what is open is sold at the next open or at the end of the run,
\* and the run is then reported as HALTED.
DrawdownEndsTrading ==
  breach # 0 =>
    /\ \A t \in trades : t.entered <= breach /\ t.exited <= breach + 1
    /\ Open(acct) => acct.entered <= breach /\ row = breach + 1
    /\ ~Open(acct) => acct.halt = "HALTED"

\* A position that its stop closes, between the open and the low of a bar,
\* loses no more of the cash at entry than risk_per_trade, costs included.
LossWithinBudget ==
  \A t \in trades : t.reason = "stop" => -t.pnl * 100 <= t.staked * RiskPct

=============================================================================
