---------------------------- MODULE PaperAccount ----------------------------
(***************************************************************************)
(* The persistent paper account: run_paper_once and PaperSnapshotEngine    *)
(* (paper.py), the simulated broker and the risk rules, the account row    *)
(* and event rows with their compare-and-set (store.py), and the loop that *)
(* calls them (_cmd_paper).                                                *)
(*                                                                         *)
(* One call of run_paper_once is several actions, one for each point where *)
(* another process, the clock or a crash can come between: load, ticker    *)
(* for the open position, its save, candles and prediction, ticker for the *)
(* new bar, its save.                                                      *)
(*                                                                         *)
(* Abstractions.  A candle is its number; it closes at Close(bar).  A      *)
(* prediction is what process_snapshot makes of it: a Signal.  A position  *)
(* is one lot, bought and sold at the ticker price with Cost for fee and   *)
(* slippage.  Revisions only grow, by one in each save, so a revision      *)
(* still equals the one loaded exactly when no other process has saved     *)
(* since; fresh[p] says so.  Events other than fills carry no state.       *)
(***************************************************************************)
EXTENDS Integers, FiniteSets, FiniteSetsExt

CONSTANTS
  Proc,            \* processes that may run the account
  NoProc,          \* nobody holds the file lock
  Mode,            \* values of model.signal_mode
  Caller,          \* "cli" takes the file lock, "direct" calls run_paper_once
  Price,           \* ticker prices
  Age,             \* observed_at - exchange_timestamp of a ticker
  InitialCash,
  Cost,            \* fee and slippage of one order
  Interval,        \* length of a candle
  MaxSignalDelay,  \* paper.max_signal_delay_seconds
  MaxTickerAge,    \* paper.max_ticker_age_seconds
  ClockSkew,       \* the 5 s a trade may lie ahead of the local clock
  StopPct, TrailingPct, DrawdownPct,
  CooldownBars,    \* risk.cooldown_bars
  HorizonBars,     \* model.horizon_bars
  (* Bounds. *)
  MaxTime,         \* the local clock stops here
  MaxRaceTime,     \* and here when processes may overlap
  MaxRewinds,      \* steps of the clock backwards
  LastRewind       \* latest time of one

ASSUME PaperAssumption ==
  /\ NoProc \notin Proc
  /\ Mode \subseteq {"probability", "expected_return"}
  /\ Caller \subseteq {"cli", "direct"}
  /\ Price \subseteq Nat \ {0} /\ Age \subseteq Int
  /\ {InitialCash, Interval, HorizonBars} \subseteq Nat \ {0}
  /\ {Cost, MaxSignalDelay, MaxTickerAge, ClockSkew, CooldownBars} \subseteq Nat
  /\ \A c \in Price : Cost <= c
  /\ {StopPct, TrailingPct, DrawdownPct} \subseteq 1..99
  /\ {MaxTime, MaxRaceTime, MaxRewinds, LastRewind} \subseteq Nat
  /\ Interval <= MaxTime /\ MaxRaceTime <= MaxTime

VARIABLES
  now,       \* local clock
  latest,    \* newest candle in the candle table
  account,   \* the row of paper_state; no row is NewAccount
  fills,     \* fill rows of paper_events
  lock,      \* holder of paper_account_lock
  pc,        \* where each process is in run_paper_once
  copy,      \* PortfolioState in its memory
  news,      \* fills it has yet to save
  fresh,     \* nobody has saved since it loaded
  found,     \* newest candle of its history and the signal on it
  mode, caller,
  rewinds,
  seen,      \* observer: bars the account has been saved at
  conflict   \* observer: a save found another revision

vars == <<now, latest, account, fills, lock, pc, copy, news, fresh, found,
          mode, caller, rewinds, seen, conflict>>

world == <<now, rewinds, mode, caller>>
ledger == <<account, fills, seen>>

NoBar == -1
Close(bar) == (bar + 1) * Interval
Bars == {b \in 0..MaxTime : Close(b) <= MaxTime}

\* What a prediction comes to: no model or history, no action, an entry that
\* size_entry accepts or rejects, an exit (signal_mode "probability" only).
Signal == {"unready", "hold", "enter", "rejected", "exit"}

NewAccount ==
  [bar |-> NoBar, updated |-> 0, traded |-> 0, halt |-> "ACTIVE",
   cash |-> InitialCash, entry |-> 0, entered |-> 0, peak |-> 0, exitAt |-> 0,
   top |-> InitialCash, cooldown |-> 0, pending |-> NoBar]

Open(a) == a.entry > 0
Fresh(a) == a.bar = NoBar

-----------------------------------------------------------------------------
(* process_snapshot *)

Tickers ==
  {[price |-> c, at |-> now, traded |-> now - age] : c \in Price, age \in Age}

\* The guards of process_snapshot; a ticker that fails one raises.
TickerReady(a, bar, t) ==
  /\ t.at >= Close(bar)
  /\ t.traded >= Close(bar)
  /\ t.at - t.traded \in (-ClockSkew)..MaxTickerAge
  /\ ~Fresh(a) => t.at >= a.updated /\ t.traded >= a.traded

\* Faulty variants: no limit on the signal's age; a gap of one bar passes.
VerdictNeverLate(a, bar, signal, t) ==
  IF Fresh(a) THEN "prime"
  ELSE IF bar = a.bar THEN "same"
  ELSE IF bar > a.bar + 1 THEN "gap"
  ELSE IF signal = "unready" THEN "unready"
  ELSE "trade"

VerdictSkipsOne(a, bar, signal, t) ==
  IF Fresh(a) THEN "prime"
  ELSE IF bar = a.bar THEN "same"
  ELSE IF bar > a.bar + 2 THEN "gap"
  ELSE IF signal = "unready" THEN "unready"
  ELSE IF t.at - Close(bar) > MaxSignalDelay THEN "late"
  ELSE "trade"

\* How the newest candle relates to the last one processed.
Verdict(a, bar, signal, t) ==
  IF Fresh(a) THEN "prime"
  ELSE IF bar = a.bar THEN "same"
  ELSE IF bar > a.bar + 1 THEN "gap"
  ELSE IF signal = "unready" THEN "unready"
  ELSE IF t.at - Close(bar) > MaxSignalDelay THEN "late"
  ELSE "trade"

Stopped(a) == IF Open(a) THEN "HALT_PENDING" ELSE "HALTED"

Judge(a, verdict) ==
  IF verdict \in {"gap", "unready", "late"}
  THEN [a EXCEPT !.halt = Stopped(a), !.pending = NoBar]
  ELSE a

StopLevel(a) ==
  LET fixed == a.entry * (100 - StopPct)
      trailing == a.peak * (100 - TrailingPct)
  IN IF trailing >= fixed THEN trailing ELSE fixed

\* The first rule that closes the position; at most one applies.
ExitReason(a, verdict, signal, t) ==
  IF ~Open(a) THEN "none"
  ELSE IF a.halt # "ACTIVE" THEN "risk_halt"
  ELSE IF mode = "expected_return" /\ t.at >= a.exitAt THEN "horizon_exit"
  ELSE IF t.price * 100 <= StopLevel(a) THEN "stop"
  ELSE IF verdict = "trade" /\ mode = "probability" /\ signal = "exit"
  THEN "model_exit"
  ELSE "none"

SellAll(a, reason, t) ==
  [a EXCEPT !.cash = @ + t.price - Cost,
            !.entry = 0, !.entered = 0, !.peak = 0, !.exitAt = 0,
            !.halt = IF reason = "risk_halt" THEN "HALTED" ELSE @,
            !.cooldown = IF reason = "stop" THEN CooldownBars ELSE @]

SellFill(a, bar, reason, t) ==
  [side |-> "sell", reason |-> reason, of |-> a.entered, bar |-> bar,
   at |-> t.at, traded |-> t.traded, price |-> t.price]

\* Faulty variant: the halt is not looked at.
EntersHalted(before, verdict, signal, t) ==
  /\ verdict = "trade" /\ signal = "enter"
  /\ ~Open(before)
  /\ before.cooldown = 0
  /\ before.cash >= t.price + Cost

\* before is the account as the exit rules found it.
Enters(before, verdict, signal, t) ==
  /\ verdict = "trade" /\ signal = "enter"
  /\ ~Open(before)
  /\ before.halt = "ACTIVE"
  /\ before.cooldown = 0
  /\ before.cash >= t.price + Cost

Buy(a, bar, t) ==
  [a EXCEPT !.cash = @ - (t.price + Cost),
            !.entry = t.price + Cost, !.entered = t.at, !.peak = t.price + Cost,
            !.exitAt = IF mode = "expected_return"
                       THEN Close(bar) + HorizonBars * Interval ELSE 0]

BuyFill(bar, t) ==
  [side |-> "buy", reason |-> "model_entry", of |-> Close(bar), bar |-> bar,
   at |-> t.at, traded |-> t.traded, price |-> t.price]

Greater(x, y) == IF x >= y THEN x ELSE y

Marked(a, t) ==
  LET equity == IF Open(a) THEN a.cash + t.price - Cost ELSE a.cash
      top == Greater(a.top, equity)
      breached == a.halt = "ACTIVE" /\ (top - equity) * 100 >= top * DrawdownPct
  IN [a EXCEPT !.top = top,
               !.peak = IF Open(a) THEN Greater(@, t.price) ELSE @,
               !.halt = IF breached THEN Stopped(a) ELSE @]

\* Faulty variants: every snapshot counts; no floor at zero.
CooledByPolling(a, before, verdict, stopped) ==
  IF before.cooldown > 0 /\ ~stopped
  THEN [a EXCEPT !.cooldown = before.cooldown - 1] ELSE a

CooledDown(a, before, verdict, stopped) ==
  IF verdict \in {"unready", "late", "trade"} /\ before.cooldown > 0 /\ ~stopped
  THEN [a EXCEPT !.cooldown = before.cooldown - 1] ELSE a

Stamped(a, bar, verdict, signal, t) ==
  [a EXCEPT !.bar = bar, !.updated = t.at, !.traded = t.traded,
            !.pending = IF a.halt # "ACTIVE" \/ signal = "unready" THEN NoBar
                        ELSE IF verdict = "same" THEN @ ELSE bar]

\* process_snapshot on a ticker that is ready: the state and the fills it leaves.
Processed(a, bar, signal, t) ==
  LET verdict == Verdict(a, bar, signal, t)
      before == Judge(a, verdict)
      reason == ExitReason(before, verdict, signal, t)
      enters == Enters(before, verdict, signal, t)
      dealt == IF reason # "none" THEN SellAll(before, reason, t)
               ELSE IF enters THEN Buy(before, bar, t) ELSE before
      cooled == CooledDown(Marked(dealt, t), before, verdict, reason = "stop")
  IN [state |-> Stamped(cooled, bar, verdict, signal, t),
      fills |-> IF reason # "none" THEN {SellFill(before, bar, reason, t)}
                ELSE IF enters THEN {BuyFill(bar, t)} ELSE {}]

-----------------------------------------------------------------------------
(* The calls of run_paper_once *)

Nothing == [bar |-> NoBar, signal |-> "hold"]

Init ==
  /\ now = Close(0) /\ latest = NoBar
  /\ account = NewAccount /\ fills = {} /\ seen = {}
  /\ lock = NoProc
  /\ pc = [p \in Proc |-> "off"]
  /\ copy = [p \in Proc |-> NewAccount]
  /\ news = [p \in Proc |-> {}]
  /\ fresh = [p \in Proc |-> TRUE]
  /\ found = [p \in Proc |-> Nothing]
  /\ mode \in Mode /\ caller \in Caller
  /\ rewinds = 0 /\ conflict = FALSE

\* What a process held in memory is gone; next is where it continues.
Forget(p, next) ==
  /\ pc' = [pc EXCEPT ![p] = next]
  /\ copy' = [copy EXCEPT ![p] = NewAccount]
  /\ news' = [news EXCEPT ![p] = {}]
  /\ found' = [found EXCEPT ![p] = Nothing]
  /\ lock' = IF next = "off" /\ lock = p THEN NoProc ELSE lock

\* The end of a call: the loop goes on, or a single call returns or raises.
EndCall(p) == \E next \in {"idle", "off"} : Forget(p, next)

\* Faulty variant: the lock is shared.
StartUnlocked(p) ==
  /\ pc[p] = "off"
  /\ pc' = [pc EXCEPT ![p] = "idle"]
  /\ UNCHANGED <<world, ledger, latest, lock, copy, news, fresh, found, conflict>>

\* The file lock refuses a second command at once.
Start(p) ==
  /\ pc[p] = "off"
  /\ IF caller = "cli" THEN lock = NoProc /\ lock' = p ELSE UNCHANGED lock
  /\ pc' = [pc EXCEPT ![p] = "idle"]
  /\ UNCHANGED <<world, ledger, latest, copy, news, fresh, found, conflict>>

\* Faulty variant: the stops are left to the snapshot on the next candle.
LoadCandlesFirst(p) ==
  /\ pc[p] = "idle"
  /\ copy' = [copy EXCEPT ![p] = account]
  /\ fresh' = [fresh EXCEPT ![p] = TRUE]
  /\ pc' = [pc EXCEPT ![p] = "candles"]
  /\ UNCHANGED <<world, ledger, latest, lock, news, found, conflict>>

Load(p) ==
  /\ pc[p] = "idle"
  /\ copy' = [copy EXCEPT ![p] = account]
  /\ fresh' = [fresh EXCEPT ![p] = TRUE]
  /\ pc' = [pc EXCEPT ![p] = IF Open(account) THEN "risk" ELSE "candles"]
  /\ UNCHANGED <<world, ledger, latest, lock, news, found, conflict>>

\* A ticker against the persisted stops, on the bar already processed; a
\* drawdown halt it causes is carried out on the same ticker.
RiskSnapshot(p) ==
  /\ pc[p] = "risk"
  /\ \E t \in Tickers :
       LET first == Processed(copy[p], copy[p].bar, "hold", t)
           halting == Open(first.state) /\ first.state.halt = "HALT_PENDING"
           second == Processed(first.state, copy[p].bar, "hold", t)
       IN /\ TickerReady(copy[p], copy[p].bar, t)
          /\ copy' = [copy EXCEPT ![p] = IF halting THEN second.state ELSE first.state]
          /\ news' = [news EXCEPT ![p] = IF halting THEN first.fills \cup second.fills
                                         ELSE first.fills]
  /\ pc' = [pc EXCEPT ![p] = "riskSave"]
  /\ UNCHANGED <<world, ledger, latest, lock, fresh, found, conflict>>

\* Any closed candle may be the newest the exchange has; the table keeps the
\* newer ones of earlier calls.  Only the bar after the last is predicted, and
\* the account is not opened without a prediction.
Fetch(p) ==
  /\ pc[p] = "candles"
  /\ \E b \in {x \in Bars : Close(x) <= now} :
       /\ latest' = Greater(latest, b)
       /\ LET bar == IF Fresh(copy[p]) THEN b ELSE latest'
              signals == IF bar = copy[p].bar + 1 /\ ~Fresh(copy[p])
                         THEN Signal ELSE {"hold"}
          IN \E s \in signals : found' = [found EXCEPT ![p] = [bar |-> bar, signal |-> s]]
  /\ pc' = [pc EXCEPT ![p] = "ticker"]
  /\ UNCHANGED <<world, ledger, lock, copy, news, fresh, conflict>>

BarSnapshot(p) ==
  /\ pc[p] = "ticker"
  /\ found[p].bar >= copy[p].bar
  /\ \E t \in Tickers :
       LET result == Processed(copy[p], found[p].bar, found[p].signal, t)
       IN /\ TickerReady(copy[p], found[p].bar, t)
          /\ copy' = [copy EXCEPT ![p] = result.state]
          /\ news' = [news EXCEPT ![p] = result.fills]
  /\ pc' = [pc EXCEPT ![p] = "save"]
  /\ UNCHANGED <<world, ledger, latest, lock, fresh, found, conflict>>

-----------------------------------------------------------------------------
(* save_paper_step *)

\* _event_id and the primary key: what names a fill of the account.
EventId(f) == <<f.side, f.at, f.reason, f.of>>

Collides(p) ==
  \E f \in news[p] : \E g \in fills : EventId(f) = EventId(g) /\ f # g

\* Faulty variant: the last writer wins.
AnyRevision(p) == TRUE

RevisionMatches(p) == fresh[p]

\* INSERT OR IGNORE keeps a row that is there already.
Commit(p) ==
  /\ RevisionMatches(p) /\ ~Collides(p)
  /\ account' = copy[p]
  /\ fills' = fills \cup news[p]
  /\ seen' = seen \cup {copy[p].bar}
  /\ fresh' = [q \in Proc |-> fresh[q] /\ (q = p \/ pc[q] \in {"off", "idle"})]

\* A call that sold ends here; otherwise it goes on to the candles.
RiskSave(p) ==
  /\ pc[p] = "riskSave"
  /\ Commit(p)
  /\ IF news[p] # {} \/ ~Open(copy[p])
     THEN EndCall(p)
     ELSE /\ pc' = [pc EXCEPT ![p] = "candles"]
          /\ UNCHANGED <<lock, copy, news, found>>
  /\ UNCHANGED <<world, latest, conflict>>

Save(p) ==
  /\ pc[p] = "save"
  /\ Commit(p)
  /\ EndCall(p)
  /\ UNCHANGED <<world, latest, conflict>>

\* ConcurrentPaperUpdate and an event collision roll back and end the process.
SaveRefused(p) ==
  /\ pc[p] \in {"riskSave", "save"}
  /\ ~RevisionMatches(p) \/ Collides(p)
  /\ Forget(p, "off")
  /\ fresh' = [fresh EXCEPT ![p] = TRUE]
  /\ conflict' = (conflict \/ ~RevisionMatches(p))
  /\ UNCHANGED <<world, ledger, latest>>

\* An API error, a ticker that is not ready, candles or a database that cannot
\* be used: retried by the loop, or the end of the process.  A process that is
\* killed ends here too; the kernel drops its lock.
Fail(p) ==
  /\ pc[p] \notin {"off", "idle"}
  /\ EndCall(p)
  /\ fresh' = [fresh EXCEPT ![p] = TRUE]
  /\ UNCHANGED <<world, ledger, latest, conflict>>

Tick ==
  /\ now < IF caller = "cli" THEN MaxTime ELSE MaxRaceTime
  /\ now' = now + 1
  /\ UNCHANGED <<ledger, latest, lock, pc, copy, news, fresh, found, mode,
                 caller, rewinds, conflict>>

\* The local clock is set back.
Rewind ==
  /\ rewinds < MaxRewinds /\ now \in 1..LastRewind
  /\ rewinds' = rewinds + 1 /\ now' = now - 1
  /\ UNCHANGED <<ledger, latest, lock, pc, copy, news, fresh, found, mode,
                 caller, conflict>>

Next ==
  \/ \E p \in Proc :
       \/ Start(p) \/ Load(p) \/ RiskSnapshot(p) \/ RiskSave(p)
       \/ Fetch(p) \/ BarSnapshot(p) \/ Save(p)
       \/ SaveRefused(p) \/ Fail(p)
  \/ Tick \/ Rewind

Spec == Init /\ [][Next]_vars

(* The operator starts a command when none runs, some process goes on with  *)
(* its call, the clock advances, and the ticker endpoint answers again and  *)
(* again.  Nothing is assumed of the candle endpoint or of the model.       *)
Fairness ==
  /\ WF_vars(\E p \in Proc : Start(p) \/ Load(p))
  /\ SF_vars(\E p \in Proc : RiskSnapshot(p))
  /\ SF_vars(\E p \in Proc : RiskSave(p) \/ SaveRefused(p))
  /\ WF_vars(Tick)

FairSpec == Spec /\ Fairness

-----------------------------------------------------------------------------
(* Properties *)

AccountType ==
  [bar : {NoBar} \cup Bars, updated : 0..MaxTime, traded : Int,
   halt : {"ACTIVE", "HALT_PENDING", "HALTED"},
   cash : Nat, entry : Nat, entered : 0..MaxTime, peak : Nat, exitAt : Nat,
   top : Nat, cooldown : 0..CooldownBars, pending : {NoBar} \cup Bars]

Reason == {"model_entry", "risk_halt", "horizon_exit", "stop", "model_exit"}

FillType ==
  [side : {"buy", "sell"}, reason : Reason, of : Nat, bar : Bars,
   at : 0..MaxTime, traded : Int, price : Price]

TypeOK ==
  /\ now \in 0..MaxTime
  /\ latest \in {NoBar} \cup Bars
  /\ account \in AccountType /\ fills \subseteq FillType
  /\ seen \subseteq Bars
  /\ lock \in Proc \cup {NoProc}
  /\ pc \in [Proc -> {"off", "idle", "risk", "riskSave", "candles", "ticker", "save"}]
  /\ copy \in [Proc -> AccountType]
  /\ news \in [Proc -> SUBSET FillType]
  /\ found \in [Proc -> [bar : {NoBar} \cup Bars, signal : Signal]]
  /\ fresh \in [Proc -> BOOLEAN]
  /\ mode \in Mode /\ caller \in Caller
  /\ rewinds \in 0..MaxRewinds
  /\ conflict \in BOOLEAN

Buys == {f \in fills : f.side = "buy"}
Sells == {f \in fills : f.side = "sell"}
Unsold == {f \in Buys : \A g \in Sells : g.of # f.at}

\* What a fill takes out of the account's cash.
Outlay(f) == IF f.side = "buy" THEN f.price + Cost ELSE Cost - f.price

\* The account is what its fill rows add up to: every order is paid for once,
\* every sale closes a position of its own, and the position held is the one
\* buy that no sale has closed.
AuditMatchesAccount ==
  /\ account.cash = InitialCash - MapThenSumSet(Outlay, fills)
  /\ \A f \in Sells : /\ Cardinality({g \in Buys : g.at = f.of}) = 1
                      /\ Cardinality({g \in Sells : g.of = f.of}) = 1
  /\ {<<f.at, f.price + Cost>> : f \in Unsold}
       = IF Open(account) THEN {<<account.entered, account.entry>>} ELSE {}

\* No fill at a historical price: an entry happens soon after its bar closed,
\* at a trade made after the close, and at most once for a bar, whatever
\* processes run, die and start again.
EntriesAreFresh ==
  \A f \in Buys :
    /\ f.at - Close(f.bar) \in 0..MaxSignalDelay
    /\ f.traded >= Close(f.bar)
    /\ \A g \in Buys : g.bar = f.bar => g = f

\* After a stop the account passes CooldownBars whole bars before it enters;
\* an entry on the stop's own bar is the one that was stopped.
CooldownServed ==
  \A f \in Sells, g \in Buys : f.reason = "stop" =>
    /\ g.bar > f.bar => g.bar > f.bar + CooldownBars
    /\ g.bar = f.bar => g.at = f.of

\* An account that may trade has been saved at every bar since its first:
\* neither a missed call nor a missing candle is passed over.
ActiveMeansContiguous ==
  account.halt = "ACTIVE" => \A b \in Bars :
    (b < account.bar /\ \E c \in seen : c < b) => b \in seen

\* A halt is for good: no later save of any process resumes the account or
\* adds an entry to it.
HaltIsFinal ==
  [][account.halt # "ACTIVE"
       => /\ account'.halt # "ACTIVE"
          /\ Buys' = Buys]_vars

\* The revision check is a second line of defence: commands that take the file
\* lock never meet it.
NoConflictUnderLock == caller = "cli" => ~conflict

\* A position that a halt has condemned is sold, with the candle endpoint and
\* the model out of order for ever if need be.
HaltedPositionIsSold == (Open(account) /\ account.halt # "ACTIVE") ~> ~Open(account)

=============================================================================
