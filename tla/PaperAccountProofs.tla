------------------------ MODULE PaperAccountProofs --------------------------
(***************************************************************************)
(* The inductive invariant of the paper account and the safety properties  *)
(* it yields, for any number of processes, with or without the file lock.  *)
(***************************************************************************)
EXTENDS PaperAccount, SetFacts, TLAPS

\* In the middle of a call.
Working(p) == pc[p] \notin {"off", "idle"}

TickerType == [price : Price, at : 0..MaxTime, traded : Int]

\* A halt outlasts every change of the account from a to b.
Keeps(a, b) == a.halt # "ACTIVE" => b.halt # "ACTIVE"

\* A position has a bar it was opened on, and each step of a call has what the
\* step before it left.
Prepared ==
  /\ Open(account) => account.bar \in Bars
  /\ \A p \in Proc :
       /\ Open(copy[p]) => copy[p].bar \in Bars
       /\ pc[p] = "risk" => Open(copy[p])
       /\ pc[p] = "ticker" => found[p].bar \in Bars
       /\ pc[p] \in {"riskSave", "save"} => copy[p].bar \in Bars
       /\ pc[p] \notin {"riskSave", "save"} => news[p] = {}

\* A process that nobody has overtaken works on the account as saved: it has
\* seen the halt, holds no entry after one, and is at most one bar ahead
\* while it may trade.
Current ==
  \A p \in Proc : (Working(p) /\ fresh[p]) =>
    /\ account.halt # "ACTIVE" =>
         copy[p].halt # "ACTIVE" /\ \A f \in news[p] : f.side # "buy"
    /\ copy[p].bar >= account.bar
    /\ pc[p] \in {"risk", "riskSave", "candles", "ticker"} => copy[p].bar = account.bar
    /\ (copy[p].halt = "ACTIVE" /\ ~Fresh(account)) => copy[p].bar <= account.bar + 1

\* The bars saved end at the account's.
SeenUpTo ==
  /\ \A b \in seen : b <= account.bar
  /\ account.bar # NoBar => account.bar \in seen

\* The lock is held by the one command that runs, and nobody overtakes it.
LockHeld ==
  caller = "cli" =>
    /\ \A p \in Proc : (pc[p] # "off" => lock = p) /\ fresh[p]
    /\ ~conflict

Inductive ==
  TypeOK /\ Prepared /\ Current /\ SeenUpTo /\ ActiveMeansContiguous /\ LockHeld

-----------------------------------------------------------------------------
(* What a snapshot does to an account *)

\* Candles close at natural times, and the first one can.
LEMMA CloseNat == ASSUME NEW bar \in Bars PROVE Close(bar) \in Nat /\ bar \in Nat
<1>1. bar \in Nat /\ Interval \in Nat
  BY PaperAssumption DEF Bars
<1> QED
  BY <1>1 DEF Close

\* The sizes are natural numbers.
LEMMA Sizes ==
  /\ Cost \in Nat /\ CooldownBars \in Nat /\ HorizonBars \in Nat
  /\ Interval \in Nat \ {0} /\ MaxTime \in Nat /\ InitialCash \in Nat \ {0}
  /\ \A c \in Price : c \in Nat \ {0} /\ Cost <= c
BY PaperAssumption

\* Halting keeps the account's type and position.
LEMMA JudgeType ==
  ASSUME NEW a \in AccountType, NEW verdict
  PROVE  LET b == Judge(a, verdict)
         IN /\ b \in AccountType /\ Keeps(a, b) /\ b.entry = a.entry
            /\ b.bar = a.bar /\ b.cooldown = a.cooldown
BY DEF Judge, AccountType, Keeps, Stopped, NoBar

\* A sale closes the position, keeps every halt and never costs more than it
\* brings.
LEMMA SellType ==
  ASSUME NEW a \in AccountType, NEW t \in TickerType, NEW reason
  PROVE  SellAll(a, reason, t) \in AccountType /\ Keeps(a, SellAll(a, reason, t))
<1>1. a.cash + t.price - Cost \in Nat
  <2>1. a.cash \in Nat /\ t.price \in Price
    BY DEF AccountType, TickerType
  <2> QED
    BY <2>1, Sizes
<1>2. 0 \in 0..MaxTime /\ CooldownBars \in 0..CooldownBars
  BY PaperAssumption
<1> QED
  BY <1>1, <1>2 DEF SellAll, AccountType, Keeps

\* A purchase within the cash opens a position.
LEMMA BuyType ==
  ASSUME NEW a \in AccountType, NEW t \in TickerType, NEW bar \in Bars,
         a.cash >= t.price + Cost
  PROVE  Buy(a, bar, t) \in AccountType /\ Buy(a, bar, t).halt = a.halt
<1>1. a.cash - (t.price + Cost) \in Nat /\ t.price + Cost \in Nat
  <2>1. a.cash \in Nat /\ t.price \in Price
    BY DEF AccountType, TickerType
  <2> QED
    BY <2>1, Sizes
<1>2. Close(bar) + HorizonBars * Interval \in Nat
  <2>1. HorizonBars \in Nat /\ Interval \in Nat /\ Close(bar) \in Nat
    BY PaperAssumption, CloseNat
  <2> QED
    BY <2>1
<1>3. t.at \in 0..MaxTime
  BY DEF TickerType
<1> QED
  BY <1>1, <1>2, <1>3 DEF Buy, AccountType

\* Marking moves peaks and may halt.
LEMMA MarkedType ==
  ASSUME NEW a \in AccountType, NEW t \in TickerType
  PROVE  Marked(a, t) \in AccountType /\ Keeps(a, Marked(a, t))
<1>1. a.cash + t.price - Cost \in Nat /\ t.price \in Nat
  <2>1. a.cash \in Nat /\ t.price \in Price
    BY DEF AccountType, TickerType
  <2> QED
    BY <2>1, Sizes
<1>2. \A x, y \in Nat : Greater(x, y) \in Nat
  BY DEF Greater
<1> DEFINE equity == IF Open(a) THEN a.cash + t.price - Cost ELSE a.cash
<1>3. equity \in Nat
  BY <1>1 DEF AccountType
<1>4. Greater(a.top, equity) \in Nat /\ Greater(a.peak, t.price) \in Nat
  BY <1>1, <1>2, <1>3 DEF AccountType
<1> HIDE DEF equity
<1> QED
  BY <1>4 DEF Marked, equity, AccountType, Keeps, Stopped

\* The cooldown stays within its range.
LEMMA CooledType ==
  ASSUME NEW a \in AccountType, NEW b \in AccountType, NEW verdict, NEW stopped
  PROVE  CooledDown(a, b, verdict, stopped) \in AccountType
         /\ CooledDown(a, b, verdict, stopped).halt = a.halt
<1>1. b.cooldown > 0 => b.cooldown - 1 \in 0..CooldownBars
  BY PaperAssumption DEF AccountType
<1> QED
  BY <1>1 DEF CooledDown, AccountType

\* The stamp moves the account to the bar.
LEMMA StampedType ==
  ASSUME NEW a \in AccountType, NEW t \in TickerType, NEW bar \in Bars,
         NEW verdict, NEW signal
  PROVE  LET b == Stamped(a, bar, verdict, signal, t)
         IN b \in AccountType /\ b.halt = a.halt /\ b.bar = bar
<1>1. t.at \in 0..MaxTime /\ t.traded \in Int
  BY DEF TickerType
<1> QED
  BY <1>1 DEF Stamped, AccountType, NoBar

\* A snapshot on a bar the account may know keeps types and halts, moves the
\* account to the bar, buys nothing for an account that is halted, and halts
\* one that is more than a bar behind.
LEMMA SnapshotKeeps ==
  ASSUME NEW a \in AccountType, NEW bar \in Bars, NEW signal, NEW t \in TickerType,
         mode \in Mode
  PROVE  LET r == Processed(a, bar, signal, t)
         IN /\ r.state \in AccountType /\ r.state.bar = bar
            /\ r.fills \subseteq FillType
            /\ Keeps(a, r.state)
            /\ a.halt # "ACTIVE" => \A f \in r.fills : f.side # "buy"
            /\ (~Fresh(a) /\ bar > a.bar + 1) => r.state.halt # "ACTIVE"
<1> DEFINE verdict == Verdict(a, bar, signal, t)
           before == Judge(a, verdict)
           reason == ExitReason(before, verdict, signal, t)
           enters == Enters(before, verdict, signal, t)
           dealt == IF reason # "none" THEN SellAll(before, reason, t)
                    ELSE IF enters THEN Buy(before, bar, t) ELSE before
           marked == Marked(dealt, t)
           cooled == CooledDown(marked, before, verdict, reason = "stop")
           r == Processed(a, bar, signal, t)
<1>1. before \in AccountType /\ Keeps(a, before)
  BY JudgeType
<1>2. reason \in Reason \cup {"none"}
  BY DEF ExitReason, Reason
<1>3. enters => before.halt = "ACTIVE" /\ before.cash >= t.price + Cost
  BY DEF Enters
<1>4. dealt \in AccountType /\ Keeps(before, dealt)
  <2>1. CASE reason # "none"
    BY <2>1, <1>1, SellType
  <2>2. CASE reason = "none" /\ enters
    <3> HIDE DEF before, reason, enters
    <3> QED
      BY <2>2, <1>1, <1>3, BuyType DEF Keeps
  <2>3. CASE reason = "none" /\ ~enters
    BY <2>3, <1>1 DEF Keeps
  <2> QED
    BY <2>1, <2>2, <2>3
<1> HIDE DEF dealt
<1>5. marked \in AccountType /\ Keeps(dealt, marked)
  BY <1>4, MarkedType
<1> HIDE DEF marked
<1>6. cooled \in AccountType /\ cooled.halt = marked.halt
  BY <1>1, <1>5, CooledType
<1> HIDE DEF cooled
<1>7. r.state = Stamped(cooled, bar, verdict, signal, t)
  BY DEF Processed, cooled, marked, dealt
<1>8. r.state \in AccountType /\ r.state.halt = cooled.halt /\ r.state.bar = bar
  BY <1>6, <1>7, StampedType
<1>9. r.fills = IF reason # "none" THEN {SellFill(before, bar, reason, t)}
                ELSE IF enters THEN {BuyFill(bar, t)} ELSE {}
  BY DEF Processed
<1>10. reason # "none" => /\ SellFill(before, bar, reason, t) \in FillType
                         /\ SellFill(before, bar, reason, t).side = "sell"
  BY <1>1, <1>2 DEF SellFill, FillType, AccountType, TickerType
<1>11. BuyFill(bar, t) \in FillType
  BY CloseNat DEF BuyFill, FillType, TickerType, Reason
<1>12. Keeps(a, r.state)
  BY <1>1, <1>4, <1>5, <1>6, <1>8 DEF Keeps
<1>13. (~Fresh(a) /\ bar > a.bar + 1) => r.state.halt # "ACTIVE"
  <2> SUFFICES ASSUME ~Fresh(a), bar > a.bar + 1 PROVE before.halt # "ACTIVE"
    BY <1>4, <1>5, <1>6, <1>8 DEF Keeps
  <2>1. bar \in Int /\ a.bar \in Int
    BY CloseNat DEF AccountType, NoBar, Bars
  <2>2. verdict = "gap"
    BY <2>1 DEF Verdict
  <2> QED
    BY <2>2 DEF Judge, Stopped, AccountType
<1>14. /\ r.fills \subseteq FillType
       /\ a.halt # "ACTIVE" => \A f \in r.fills : f.side # "buy"
  <2> HIDE DEF before, reason, enters, r
  <2>1. CASE reason # "none"
    BY <2>1, <1>9, <1>10
  <2>2. CASE reason = "none" /\ enters
    <3>1. a.halt = "ACTIVE"
      BY <2>2, <1>1, <1>3 DEF Keeps
    <3> QED
      BY <2>2, <3>1, <1>9, <1>11
  <2>3. CASE reason = "none" /\ ~enters
    BY <2>3, <1>9
  <2> QED
    BY <2>1, <2>2, <2>3
<1> QED
  BY <1>8, <1>12, <1>13, <1>14

-----------------------------------------------------------------------------
(* The inductive invariant *)

\* Tickers are taken at the local clock.
LEMMA TickersTyped == ASSUME now \in 0..MaxTime PROVE Tickers \subseteq TickerType
<1>1. \A age \in Age : now - age \in Int
  BY PaperAssumption
<1> QED
  BY <1>1 DEF Tickers, TickerType

\* An account that has not been opened.
LEMMA NewAccountType == NewAccount \in AccountType /\ ~Open(NewAccount)
<1>1. 0 \in 0..MaxTime /\ 0 \in 0..CooldownBars /\ InitialCash \in Nat
  BY Sizes
<1> QED
  BY <1>1 DEF NewAccount, AccountType, Open, NoBar

\* The first state: no account, no process, nothing in memory.
LEMMA InitInductive == Init => Inductive
<1> SUFFICES ASSUME Init PROVE Inductive
  OBVIOUS
<1>1. now \in 0..MaxTime
  BY PaperAssumption DEF Init, Close
<1>2. TypeOK
  <2>1. rewinds \in 0..MaxRewinds
    BY PaperAssumption DEF Init
  <2>2. /\ latest \in {NoBar} \cup Bars /\ fills \subseteq FillType
        /\ seen \subseteq Bars /\ lock \in Proc \cup {NoProc}
        /\ mode \in Mode /\ caller \in Caller /\ conflict \in BOOLEAN
    BY DEF Init
  <2>3. /\ found \in [Proc -> [bar : {NoBar} \cup Bars, signal : Signal]]
        /\ news \in [Proc -> SUBSET FillType]
        /\ copy \in [Proc -> AccountType] /\ fresh \in [Proc -> BOOLEAN]
        /\ pc \in [Proc -> {"off", "idle", "risk", "riskSave", "candles", "ticker", "save"}]
    BY NewAccountType DEF Init, Nothing, Signal
  <2>4. account \in AccountType
    BY NewAccountType DEF Init
  <2> QED
    BY <1>1, <2>1, <2>2, <2>3, <2>4 DEF TypeOK
<1>3. Prepared
  BY NewAccountType DEF Init, Prepared
<1>4. Current /\ SeenUpTo /\ LockHeld
  BY DEF Init, Current, Working, SeenUpTo, LockHeld, NewAccount, NoBar
<1>5. ActiveMeansContiguous
  BY DEF Init, ActiveMeansContiguous
<1> QED
  BY <1>2, <1>3, <1>4, <1>5 DEF Inductive

\* The end of a call that saved nothing.
LEMMA Abandon ==
  ASSUME Inductive, NEW p \in Proc, NEW next \in {"idle", "off"}, Forget(p, next),
         pc[p] # "off",
         fresh' = [fresh EXCEPT ![p] = TRUE],
         conflict' = conflict \/ conflict' = (conflict \/ ~RevisionMatches(p)),
         UNCHANGED <<world, ledger, latest>>
  PROVE  Inductive'
<1> USE DEF Inductive, TypeOK, world, ledger
<1>1. TypeOK'
  <2>1. {} \in SUBSET FillType /\ Nothing \in [bar : {NoBar} \cup Bars, signal : Signal]
    BY DEF Nothing, Signal
  <2>2. lock' \in Proc \cup {NoProc} /\ conflict' \in BOOLEAN
    BY DEF Forget, RevisionMatches
  <2> QED
    BY <2>1, <2>2, NewAccountType DEF Forget
<1>2. Prepared'
  BY NewAccountType DEF Forget, Prepared, Open
<1>3. Current'
  BY DEF Forget, Current, Working, Fresh
<1>4. SeenUpTo' /\ ActiveMeansContiguous'
  BY DEF SeenUpTo, ActiveMeansContiguous, NoBar
<1>5. LockHeld'
  BY PaperAssumption DEF Forget, LockHeld, RevisionMatches
<1> QED
  BY <1>1, <1>2, <1>3, <1>4, <1>5

\* A step within a call that leaves the account alone.
LEMMA Onwards ==
  ASSUME Inductive, NEW p \in Proc, Working(p),
         NEW next \in {"riskSave", "ticker", "save"}, pc' = [pc EXCEPT ![p] = next],
         NEW a \in AccountType, copy' = [copy EXCEPT ![p] = a],
         NEW fs \in SUBSET FillType, news' = [news EXCEPT ![p] = fs],
         NEW o \in [bar : {NoBar} \cup Bars, signal : Signal],
         found' = [found EXCEPT ![p] = o],
         next = "ticker" =>
           fs = {} /\ o.bar \in Bars /\ (Open(a) => a.bar \in Bars),
         next \in {"riskSave", "save"} => a.bar \in Bars,
         latest' \in {NoBar} \cup Bars,
         fresh[p] =>
           /\ account.halt # "ACTIVE" =>
                a.halt # "ACTIVE" /\ \A f \in fs : f.side # "buy"
           /\ a.bar >= account.bar
           /\ next \in {"riskSave", "ticker"} => a.bar = account.bar
           /\ (a.halt = "ACTIVE" /\ ~Fresh(account)) => a.bar <= account.bar + 1,
         UNCHANGED <<world, ledger, lock, fresh, conflict>>
  PROVE  Inductive'
<1> USE DEF Inductive, TypeOK, world, ledger
<1>1. TypeOK'
  OBVIOUS
<1>2. Prepared'
  BY DEF Prepared, Open
<1>3. Current'
  <2> SUFFICES ASSUME NEW q \in Proc, Working(q)', fresh'[q]
               PROVE  /\ account.halt # "ACTIVE" =>
                           copy'[q].halt # "ACTIVE" /\ \A f \in news'[q] : f.side # "buy"
                      /\ copy'[q].bar >= account.bar
                      /\ pc'[q] \in {"risk", "riskSave", "candles", "ticker"}
                           => copy'[q].bar = account.bar
                      /\ (copy'[q].halt = "ACTIVE" /\ ~Fresh(account))
                           => copy'[q].bar <= account.bar + 1
    BY DEF Current, Fresh
  <2>1. CASE q = p
    BY <2>1
  <2>2. CASE q # p
    BY <2>2 DEF Current, Working
  <2> QED
    BY <2>1, <2>2
<1>4. SeenUpTo' /\ ActiveMeansContiguous'
  BY DEF SeenUpTo, ActiveMeansContiguous, NoBar
<1>5. LockHeld'
  BY DEF LockHeld, Working
<1> QED
  BY <1>1, <1>2, <1>3, <1>4, <1>5

\* A save replaces the account by what was made of it.
LEMMA Committing ==
  ASSUME Inductive, NEW p \in Proc, pc[p] \in {"riskSave", "save"}, Commit(p)
  PROVE  /\ account' \in AccountType /\ fills' \subseteq FillType /\ seen' \subseteq Bars
         /\ account' = copy[p] /\ account'.bar \in Bars
         /\ SeenUpTo' /\ ActiveMeansContiguous'
         /\ account.halt # "ACTIVE" => account'.halt # "ACTIVE" /\ Buys' = Buys
<1> USE DEF Inductive, TypeOK
<1>1. /\ account' = copy[p] /\ fills' = fills \cup news[p]
      /\ seen' = seen \cup {copy[p].bar} /\ fresh[p]
  BY DEF Commit, RevisionMatches
<1>2. copy[p] \in AccountType /\ copy[p].bar \in Bars /\ news[p] \subseteq FillType
  BY DEF Prepared
<1>3. \A b \in Bars \cup {NoBar} : b \in Int /\ b >= -1
  BY DEF Bars, NoBar
<1>4. account.bar \in Int /\ account.bar \in {NoBar} \cup Bars
  BY <1>3 DEF AccountType
<1>5. /\ account.halt # "ACTIVE" =>
           copy[p].halt # "ACTIVE" /\ \A f \in news[p] : f.side # "buy"
      /\ copy[p].bar >= account.bar
      /\ (copy[p].halt = "ACTIVE" /\ ~Fresh(account)) => copy[p].bar <= account.bar + 1
  BY <1>1 DEF Current, Working
<1>6. SeenUpTo'
  BY <1>1, <1>2, <1>3, <1>4, <1>5 DEF SeenUpTo
<1>7. ActiveMeansContiguous'
  <2> SUFFICES ASSUME copy[p].halt = "ACTIVE", NEW b \in Bars, b < copy[p].bar,
                      NEW c \in seen', c < b
               PROVE  b \in seen'
    BY <1>1 DEF ActiveMeansContiguous
  <2>1. b \in Nat /\ c \in Int /\ copy[p].bar \in Int
    BY <1>1, <1>2, <1>3, CloseNat
  <2>2. c \in seen /\ c <= account.bar /\ c \in Bars
    BY <1>1, <2>1 DEF SeenUpTo
  <2>3. account.halt = "ACTIVE" /\ ~Fresh(account)
    BY <1>3, <1>5, <2>2, CloseNat DEF Fresh, NoBar
  <2>4. b <= account.bar
    BY <1>4, <1>5, <2>1, <2>3
  <2>5. CASE b = account.bar
    BY <1>1, <2>3, <2>5 DEF SeenUpTo, Fresh
  <2>6. CASE b < account.bar
    BY <1>1, <2>2, <2>3, <2>6 DEF ActiveMeansContiguous
  <2>7. account.bar \in Int /\ b \in Int
    BY <1>4, <2>1
  <2>8. b = account.bar \/ b < account.bar
    BY ONLY <2>4, <2>7
  <2> QED
    BY <2>5, <2>6, <2>8
<1>8. account.halt # "ACTIVE" => Buys' = Buys
  BY <1>1, <1>5 DEF Buys
<1> QED
  BY <1>1, <1>2, <1>5, <1>6, <1>7, <1>8

\* Both saves keep the invariant: whoever else is in a call is overtaken.
LEMMA SaveInductive ==
  ASSUME Inductive, NEW p \in Proc, RiskSave(p) \/ Save(p) PROVE Inductive'
<1> USE DEF Inductive
<1>1. pc[p] \in {"riskSave", "save"} /\ Commit(p) /\ UNCHANGED <<world, latest, conflict>>
  BY DEF RiskSave, Save
<1>2. PICK next \in {"idle", "off", "candles"} :
        /\ pc' = [pc EXCEPT ![p] = next]
        /\ next \in {"idle", "off"} => Forget(p, next)
        /\ next = "candles" => /\ UNCHANGED <<lock, copy, news, found>>
                               /\ news[p] = {}
  BY DEF RiskSave, Save, EndCall, Forget
<1>3. fresh' = [q \in Proc |-> fresh[q] /\ (q = p \/ pc[q] \in {"off", "idle"})]
  BY <1>1 DEF Commit
<1>4. /\ account' \in AccountType /\ fills' \subseteq FillType /\ seen' \subseteq Bars
      /\ account' = copy[p] /\ account'.bar \in Bars
      /\ SeenUpTo' /\ ActiveMeansContiguous'
  BY <1>1, Committing
<1>5. TypeOK'
  <2>1. {} \in SUBSET FillType /\ Nothing \in [bar : {NoBar} \cup Bars, signal : Signal]
    BY DEF Nothing, Signal
  <2>2. /\ lock' \in Proc \cup {NoProc} /\ copy' \in [Proc -> AccountType]
        /\ news' \in [Proc -> SUBSET FillType]
        /\ found' \in [Proc -> [bar : {NoBar} \cup Bars, signal : Signal]]
    <3> USE <1>2
    <3>1. CASE next = "candles"
      BY <3>1 DEF TypeOK
    <3>2. ASSUME next # "candles" PROVE Forget(p, next)
      BY <3>2
    <3>3. ASSUME next # "candles" PROVE lock' \in Proc \cup {NoProc}
      BY <3>2, <3>3 DEF TypeOK, Forget
    <3>4. ASSUME next # "candles" PROVE copy' \in [Proc -> AccountType]
      BY <3>2, <3>4, NewAccountType DEF TypeOK, Forget
    <3>5. ASSUME next # "candles" PROVE news' \in [Proc -> SUBSET FillType]
      BY <3>2, <3>5, <2>1 DEF TypeOK, Forget
    <3>6. ASSUME next # "candles"
          PROVE  found' \in [Proc -> [bar : {NoBar} \cup Bars, signal : Signal]]
      BY <3>2, <3>6, <2>1 DEF TypeOK, Forget
    <3> QED
      BY <3>1, <3>3, <3>4, <3>5, <3>6
  <2>3. /\ fresh' \in [Proc -> BOOLEAN]
        /\ pc' \in [Proc -> {"off", "idle", "risk", "riskSave", "candles", "ticker", "save"}]
    BY <1>2, <1>3 DEF TypeOK
  <2> QED
    BY <1>1, <1>4, <2>2, <2>3 DEF TypeOK, world
<1>6. Prepared'
  <2>1. Open(account)' => account'.bar \in Bars
    BY <1>4
  <2>2. ASSUME NEW q \in Proc
        PROVE  /\ Open(copy'[q]) => copy'[q].bar \in Bars
               /\ pc'[q] = "risk" => Open(copy'[q])
               /\ pc'[q] = "ticker" => found'[q].bar \in Bars
               /\ pc'[q] \in {"riskSave", "save"} => copy'[q].bar \in Bars
               /\ pc'[q] \notin {"riskSave", "save"} => news'[q] = {}
    <3>1. CASE q # p
      BY <1>2, <3>1 DEF Prepared, TypeOK, Forget
    <3>2. CASE q = p /\ next = "candles"
      BY <1>2, <3>2 DEF Prepared, TypeOK
    <3>3. CASE q = p /\ next # "candles"
      BY <1>2, <3>3, NewAccountType DEF TypeOK, Forget
    <3> QED
      BY <3>1, <3>2, <3>3
  <2> QED
    BY <2>1, <2>2 DEF Prepared
<1>7. Current'
  <2> SUFFICES ASSUME NEW q \in Proc, Working(q)', fresh'[q]
               PROVE  q = p /\ next = "candles"
    <3>1. ASSUME next = "candles"
          PROVE  /\ copy'[p] = account' /\ news'[p] = {} /\ account'.bar \in Int
      BY <1>2, <1>4, <3>1, CloseNat
    <3> QED
      BY <3>1 DEF Current
  <2>1. q = p
    BY <1>2, <1>3 DEF Working, TypeOK
  <2> QED
    BY <2>1, <1>2 DEF Working, TypeOK
<1>8. LockHeld'
  <2> SUFFICES ASSUME caller = "cli"
               PROVE  (\A q \in Proc : (pc'[q] # "off" => lock' = q) /\ fresh'[q]) /\ ~conflict'
    BY <1>1 DEF LockHeld, world
  <2>1. lock = p /\ \A q \in Proc : q # p => pc[q] = "off"
    BY <1>1 DEF LockHeld
  <2>2. \A q \in Proc : fresh'[q]
    BY <1>3, <2>1 DEF LockHeld
  <2>3. \A q \in Proc : pc'[q] # "off" => q = p /\ lock' = p
    BY <1>2, <2>1 DEF TypeOK, Forget
  <2> QED
    BY <1>1, <2>2, <2>3 DEF LockHeld
<1> QED
  BY <1>4, <1>5, <1>6, <1>7, <1>8

\* A command that takes the lock finds no other at work.
LEMMA StartInductive == ASSUME Inductive, NEW p \in Proc, Start(p) PROVE Inductive'
<1> USE DEF Inductive, TypeOK, world, ledger, Start
<1>1. TypeOK'
  OBVIOUS
<1>2. Prepared' /\ Current'
  BY DEF Prepared, Current, Working, Open, Fresh
<1>3. SeenUpTo' /\ ActiveMeansContiguous'
  BY DEF SeenUpTo, ActiveMeansContiguous, NoBar
<1>4. LockHeld'
  BY PaperAssumption DEF LockHeld
<1> QED
  BY <1>1, <1>2, <1>3, <1>4

\* The copy loaded is the account as saved.
LEMMA LoadInductive == ASSUME Inductive, NEW p \in Proc, Load(p) PROVE Inductive'
<1> USE DEF Inductive, TypeOK, world, ledger, Load
<1>1. TypeOK'
  OBVIOUS
<1>2. Prepared'
  BY DEF Prepared, Open
<1>3. Current'
  <2> SUFFICES ASSUME NEW q \in Proc, Working(q)', fresh'[q]
               PROVE  /\ account.halt # "ACTIVE" =>
                           copy'[q].halt # "ACTIVE" /\ \A f \in news'[q] : f.side # "buy"
                      /\ copy'[q].bar >= account.bar
                      /\ pc'[q] \in {"risk", "riskSave", "candles", "ticker"}
                           => copy'[q].bar = account.bar
                      /\ (copy'[q].halt = "ACTIVE" /\ ~Fresh(account))
                           => copy'[q].bar <= account.bar + 1
    BY DEF Current, Fresh
  <2>1. CASE q = p
    <3>1. copy'[p] = account /\ news'[p] = {}
      BY DEF Prepared
    <3>2. account.bar \in Int
      BY CloseNat DEF AccountType, NoBar
    <3> QED
      BY <2>1, <3>1, <3>2
  <2>2. CASE q # p
    BY <2>2 DEF Current, Working
  <2> QED
    BY <2>1, <2>2
<1>4. SeenUpTo' /\ ActiveMeansContiguous'
  BY DEF SeenUpTo, ActiveMeansContiguous, NoBar
<1>5. LockHeld'
  BY DEF LockHeld
<1> QED
  BY <1>1, <1>2, <1>3, <1>4, <1>5

\* The one or two snapshots against the stops stay on the account's bar.
LEMMA RiskSnapshotInductive ==
  ASSUME Inductive, NEW p \in Proc, RiskSnapshot(p) PROVE Inductive'
<1> USE DEF Inductive
<1>1. /\ pc[p] = "risk" /\ Working(p) /\ copy[p] \in AccountType
      /\ copy[p].bar \in Bars /\ mode \in Mode /\ found[p] \in [bar : {NoBar} \cup Bars, signal : Signal]
      /\ latest \in {NoBar} \cup Bars /\ found' = [found EXCEPT ![p] = found[p]]
  BY DEF RiskSnapshot, TypeOK, Prepared, Working
<1> DEFINE bar == copy[p].bar
           first(t) == Processed(copy[p], bar, "hold", t)
           second(t) == Processed(first(t).state, bar, "hold", t)
           halting(t) == Open(first(t).state) /\ first(t).state.halt = "HALT_PENDING"
<1>2. PICK t \in Tickers :
        /\ copy' = [copy EXCEPT ![p] = IF halting(t) THEN second(t).state ELSE first(t).state]
        /\ news' = [news EXCEPT ![p] = IF halting(t) THEN first(t).fills \cup second(t).fills
                                       ELSE first(t).fills]
  BY DEF RiskSnapshot
<1>3. t \in TickerType
  BY TickersTyped DEF TypeOK
<1>4. /\ first(t).state \in AccountType /\ first(t).state.bar = bar
      /\ first(t).fills \subseteq FillType /\ Keeps(copy[p], first(t).state)
      /\ copy[p].halt # "ACTIVE" => \A f \in first(t).fills : f.side # "buy"
  BY <1>1, <1>3, SnapshotKeeps
<1> HIDE DEF first
<1>5. /\ second(t).state \in AccountType /\ second(t).state.bar = bar
      /\ second(t).fills \subseteq FillType /\ Keeps(first(t).state, second(t).state)
      /\ first(t).state.halt # "ACTIVE" => \A f \in second(t).fills : f.side # "buy"
  BY <1>1, <1>3, <1>4, SnapshotKeeps
<1> HIDE DEF second
<1> DEFINE a == IF halting(t) THEN second(t).state ELSE first(t).state
           fs == IF halting(t) THEN first(t).fills \cup second(t).fills ELSE first(t).fills
<1>6. a \in AccountType /\ a.bar = bar /\ fs \in SUBSET FillType /\ Keeps(copy[p], a)
  BY <1>4, <1>5 DEF Keeps
<1>7. copy[p].halt # "ACTIVE" => \A f \in fs : f.side # "buy"
  BY <1>4, <1>5 DEF Keeps
<1>8. copy' = [copy EXCEPT ![p] = a] /\ news' = [news EXCEPT ![p] = fs]
  BY <1>2
<1> HIDE DEF a, fs
<1>9. fresh[p] =>
        /\ account.halt # "ACTIVE" =>
             a.halt # "ACTIVE" /\ \A f \in fs : f.side # "buy"
        /\ a.bar >= account.bar
        /\ a.bar = account.bar
        /\ (a.halt = "ACTIVE" /\ ~Fresh(account)) => a.bar <= account.bar + 1
  <2> SUFFICES ASSUME fresh[p]
               PROVE  /\ account.halt # "ACTIVE" => copy[p].halt # "ACTIVE"
                      /\ bar = account.bar /\ bar \in Int
    BY <1>6, <1>7 DEF Keeps
  <2> QED
    BY <1>1, CloseNat DEF Current
<1>10. pc' = [pc EXCEPT ![p] = "riskSave"]
       /\ UNCHANGED <<world, ledger, latest, lock, fresh, conflict>>
  BY DEF RiskSnapshot
<1>11. latest' \in {NoBar} \cup Bars /\ a.bar \in Bars
  BY <1>1, <1>6, <1>10
<1> QED
  BY <1>1, <1>6, <1>8, <1>9, <1>10, <1>11, Onwards

\* The candles of a call.
LEMMA FetchInductive == ASSUME Inductive, NEW p \in Proc, Fetch(p) PROVE Inductive'
<1> USE DEF Inductive
<1>1. /\ pc[p] = "candles" /\ Working(p) /\ copy[p] \in AccountType
      /\ news[p] \in SUBSET FillType
      /\ copy' = [copy EXCEPT ![p] = copy[p]] /\ news' = [news EXCEPT ![p] = news[p]]
      /\ pc' = [pc EXCEPT ![p] = "ticker"]
      /\ UNCHANGED <<world, ledger, lock, fresh, conflict>>
  BY DEF Fetch, TypeOK, Working
<1>2. PICK b \in Bars, s \in Signal :
        /\ latest' = Greater(latest, b)
        /\ found' = [found EXCEPT ![p] =
                       [bar |-> IF Fresh(copy[p]) THEN b ELSE latest', signal |-> s]]
  BY DEF Fetch, Signal
<1>3. latest' \in Bars
  BY <1>2, CloseNat DEF TypeOK, Greater, NoBar
<1> DEFINE o == [bar |-> IF Fresh(copy[p]) THEN b ELSE latest', signal |-> s]
<1>4. o \in [bar : {NoBar} \cup Bars, signal : Signal] /\ o.bar \in Bars
  BY <1>3
<1>5. found' = [found EXCEPT ![p] = o]
  BY <1>2
<1> HIDE DEF o
<1>6. (Open(copy[p]) => copy[p].bar \in Bars) /\ news[p] = {}
  BY <1>1 DEF Prepared
<1>7. fresh[p] =>
        /\ account.halt # "ACTIVE" =>
             copy[p].halt # "ACTIVE" /\ \A f \in news[p] : f.side # "buy"
        /\ copy[p].bar >= account.bar
        /\ copy[p].bar = account.bar
        /\ (copy[p].halt = "ACTIVE" /\ ~Fresh(account)) => copy[p].bar <= account.bar + 1
  BY <1>1 DEF Current
<1> QED
  BY <1>1, <1>3, <1>4, <1>5, <1>6, <1>7, Onwards

\* The snapshot on the newest candle moves at most one bar ahead unless it
\* halts.
LEMMA BarSnapshotInductive ==
  ASSUME Inductive, NEW p \in Proc, BarSnapshot(p) PROVE Inductive'
<1> USE DEF Inductive
<1> DEFINE bar == found[p].bar
           result(t) == Processed(copy[p], bar, found[p].signal, t)
<1>1. /\ pc[p] = "ticker" /\ Working(p) /\ copy[p] \in AccountType
      /\ bar \in Bars /\ mode \in Mode /\ found[p] \in [bar : {NoBar} \cup Bars, signal : Signal]
      /\ latest \in {NoBar} \cup Bars /\ found' = [found EXCEPT ![p] = found[p]]
      /\ bar >= copy[p].bar
  BY DEF BarSnapshot, TypeOK, Prepared, Working
<1>2. PICK t \in Tickers :
        /\ copy' = [copy EXCEPT ![p] = result(t).state]
        /\ news' = [news EXCEPT ![p] = result(t).fills]
  BY DEF BarSnapshot
<1>3. t \in TickerType
  BY TickersTyped DEF TypeOK
<1>4. /\ result(t).state \in AccountType /\ result(t).state.bar = bar
      /\ result(t).fills \subseteq FillType /\ Keeps(copy[p], result(t).state)
      /\ copy[p].halt # "ACTIVE" => \A f \in result(t).fills : f.side # "buy"
      /\ (~Fresh(copy[p]) /\ bar > copy[p].bar + 1) => result(t).state.halt # "ACTIVE"
  BY <1>1, <1>3, SnapshotKeeps
<1> HIDE DEF result
<1> DEFINE a == result(t).state
           fs == result(t).fills
<1>5. fresh[p] =>
        /\ account.halt # "ACTIVE" =>
             a.halt # "ACTIVE" /\ \A f \in fs : f.side # "buy"
        /\ a.bar >= account.bar
        /\ (a.halt = "ACTIVE" /\ ~Fresh(account)) => a.bar <= account.bar + 1
  <2> SUFFICES ASSUME fresh[p]
               PROVE  /\ account.halt # "ACTIVE" => copy[p].halt # "ACTIVE"
                      /\ bar >= account.bar
                      /\ (a.halt = "ACTIVE" /\ ~Fresh(account)) => bar <= account.bar + 1
    BY <1>4 DEF Keeps
  <2>1. /\ account.halt # "ACTIVE" => copy[p].halt # "ACTIVE"
        /\ copy[p].bar = account.bar
    BY <1>1 DEF Current
  <2>2. (a.halt = "ACTIVE" /\ ~Fresh(account)) => ~(bar > account.bar + 1)
    BY <1>4, <2>1 DEF Fresh
  <2>3. bar \in Int /\ account.bar \in Int
    BY <1>1, CloseNat DEF TypeOK, AccountType, NoBar
  <2> HIDE DEF bar, a
  <2> QED
    BY <1>1, <2>1, <2>2, <2>3
<1>6. pc' = [pc EXCEPT ![p] = "save"]
      /\ UNCHANGED <<world, ledger, latest, lock, fresh, conflict>>
  BY DEF BarSnapshot
<1>7. latest' \in {NoBar} \cup Bars /\ a.bar \in Bars /\ a \in AccountType
      /\ fs \in SUBSET FillType
  BY <1>1, <1>4, <1>6
<1>8. copy' = [copy EXCEPT ![p] = a] /\ news' = [news EXCEPT ![p] = fs]
  BY <1>2
<1> HIDE DEF a, fs, bar
<1> QED
  BY <1>1, <1>5, <1>6, <1>7, <1>8, Onwards

\* A call that fails or is refused.
LEMMA AbandonInductive ==
  ASSUME Inductive, NEW p \in Proc, SaveRefused(p) \/ Fail(p) PROVE Inductive'
<1>1. /\ pc[p] # "off" /\ fresh' = [fresh EXCEPT ![p] = TRUE]
      /\ UNCHANGED <<world, ledger, latest>>
      /\ conflict' = conflict \/ conflict' = (conflict \/ ~RevisionMatches(p))
  BY DEF SaveRefused, Fail
<1>2. \E next \in {"idle", "off"} : Forget(p, next)
  BY DEF SaveRefused, Fail, EndCall
<1> QED
  BY <1>1, <1>2, Abandon

\* The clock moves within its bounds; nothing else does.
LEMMA ClockInductive ==
  ASSUME Inductive, Tick \/ Rewind \/ UNCHANGED vars PROVE Inductive'
<1> USE DEF Inductive, world, ledger, vars, Tick, Rewind
<1>1. now' \in 0..MaxTime /\ rewinds' \in 0..MaxRewinds
  BY PaperAssumption DEF TypeOK
<1>2. UNCHANGED <<account, fills, seen, latest, lock, pc, copy, news, fresh,
                  found, mode, caller, conflict>>
  OBVIOUS
<1>3. TypeOK'
  BY <1>1, <1>2 DEF TypeOK
<1>4. Prepared' /\ Current'
  BY <1>2 DEF Prepared, Current, Working, Open, Fresh
<1>5. SeenUpTo' /\ ActiveMeansContiguous' /\ LockHeld'
  BY <1>2 DEF SeenUpTo, ActiveMeansContiguous, NoBar, LockHeld
<1> QED
  BY <1>3, <1>4, <1>5

\* Every step keeps the invariant.
LEMMA NextInductive == Inductive /\ [Next]_vars => Inductive'
BY StartInductive, LoadInductive, RiskSnapshotInductive, FetchInductive,
   BarSnapshotInductive, SaveInductive, AbandonInductive, ClockInductive DEF Next

\* The inductive invariant holds in every state of every run.
LEMMA InductiveInvariant == Spec => []Inductive
BY InitInductive, NextInductive, PTL DEF Spec

-----------------------------------------------------------------------------
(* The theorems *)

\* The account, the fills and what each process holds in memory keep their
\* types: cash and equity stay above zero however the prices move.
THEOREM TypeCorrect == Spec => []TypeOK
BY InductiveInvariant, PTL DEF Inductive

\* An account that may trade has been saved at every bar since its first.
THEOREM NoBarSkipped == Spec => []ActiveMeansContiguous
BY InductiveInvariant, PTL DEF Inductive

\* Commands that take the file lock never meet the revision check.
THEOREM LockExcludesConflict == Spec => []NoConflictUnderLock
<1>1. Inductive => NoConflictUnderLock
  BY DEF Inductive, LockHeld, NoConflictUnderLock
<1> QED
  BY <1>1, InductiveInvariant, PTL

\* No save of any process resumes a halted account or adds an entry to it.
THEOREM HaltsHold == Spec => HaltIsFinal
<1>1. ASSUME Inductive, [Next]_vars, account.halt # "ACTIVE"
      PROVE  account'.halt # "ACTIVE" /\ Buys' = Buys
  <2>1. CASE \E p \in Proc : RiskSave(p) \/ Save(p)
    BY <1>1, <2>1, Committing DEF RiskSave, Save
  <2>2. CASE UNCHANGED ledger
    BY <1>1, <2>2 DEF ledger, Buys
  <2>3. UNCHANGED ledger \/ \E p \in Proc : RiskSave(p) \/ Save(p)
    BY <1>1 DEF Next, Start, Load, RiskSnapshot, Fetch, BarSnapshot, SaveRefused,
                Fail, Tick, Rewind, ledger, vars
  <2> QED
    BY <2>1, <2>2, <2>3
<1>2. Inductive /\ [Next]_vars =>
        [account.halt # "ACTIVE" => account'.halt # "ACTIVE" /\ Buys' = Buys]_vars
  BY <1>1
<1> QED
  BY <1>2, InductiveInvariant, PTL DEF Spec, HaltIsFinal

-----------------------------------------------------------------------------
(* The fills: the age of an entry, one entry for a bar, the bars that must  *)
(* pass after a stop, and the account that the fills add up to.             *)

IsBuy(f) == f.side = "buy"
IsSale(f) == f.side = "sell"
IsStop(f) == f.side = "sell" /\ f.reason = "stop"

\* An entry made in time for its bar.
Timely(f) ==
  /\ f.at - Close(f.bar) \in 0..MaxSignalDelay
  /\ f.traded >= Close(f.bar)

\* An account that belongs to these fills: none lies ahead of its bar, its
\* cooldown makes up for the bars that have not passed since each stop, and
\* the position it holds is the one entry of its bar.
Behind(a, fs) == \A f \in fs : f.bar <= a.bar
Cooling(a, fs) == \A f \in fs : IsStop(f) => a.cooldown + (a.bar - f.bar) >= CooldownBars
Holding(a, fs) ==
  Open(a) => \A f \in fs : IsBuy(f) /\ f.bar = a.bar => f.at = a.entered

\* The two properties, of any set of fills.
Fresher(fs) ==
  \A f \in fs : IsBuy(f) =>
    Timely(f) /\ \A g \in fs : IsBuy(g) /\ g.bar = f.bar => g = f
Paused(fs) ==
  \A f, g \in fs : IsStop(f) /\ IsBuy(g) =>
    /\ g.bar > f.bar => g.bar > f.bar + CooldownBars
    /\ g.bar = f.bar => g.at = f.of

\* The account that these fills add up to: its cash is what they left of the
\* initial cash, a sale closes one entry and no other sale does, and the entry
\* that no sale has closed is its position.
Spent(fs) == MapThenSumSet(Outlay, fs)
Sold(f, fs) == \E g \in fs : IsSale(g) /\ g.of = f.at
Closing(fs) ==
  \A f \in fs : IsSale(f) =>
    /\ \E g \in fs : IsBuy(g) /\ g.at = f.of
    /\ \A g \in fs : IsSale(g) /\ g.of = f.of => g = f
Unclosed(a, fs) ==
  /\ \A f \in fs : IsBuy(f) /\ ~Sold(f, fs) => Open(a) /\ f.at = a.entered
  /\ Open(a) => \E f \in fs : /\ IsBuy(f) /\ ~Sold(f, fs)
                             /\ f.at = a.entered /\ Outlay(f) = a.entry

Audited(a, fs) ==
  /\ IsFiniteSet(fs) /\ a.cash = InitialCash - Spent(fs)
  /\ Closing(fs) /\ Unclosed(a, fs)

\* Entries on different bars happen at different times: a signal is no longer
\* good when the next bar closes.
Apart == MaxSignalDelay < Interval

Served(a, fs) ==
  /\ Behind(a, fs) /\ Cooling(a, fs) /\ Holding(a, fs) /\ Fresher(fs) /\ Paused(fs)
  /\ Apart => Audited(a, fs)

\* The account belongs to the fills saved, and so does what a process that
\* nobody has overtaken has made of it, with the fills it is about to save.
AccountsServed ==
  /\ Served(account, fills)
  /\ \A p \in Proc : (Working(p) /\ fresh[p]) => Served(copy[p], fills \cup news[p])

-----------------------------------------------------------------------------
(* What a snapshot adds *)

\* The cooldown stands still, or goes down by one with the bar.
Cools(a, b) ==
  \/ b.cooldown = a.cooldown
  \/ a.cooldown > 0 /\ b.cooldown = a.cooldown - 1 /\ b.bar = a.bar + 1

Sale(a, b, f) ==
  /\ IsSale(f) /\ f.bar = b.bar /\ f.of = a.entered
  /\ Open(a) /\ ~Open(b) /\ b.cash = a.cash - Outlay(f)

StopSale(a, b, f) == Sale(a, b, f) /\ IsStop(f) /\ b.cooldown = CooldownBars
OtherSale(a, b, f) == Sale(a, b, f) /\ ~IsStop(f) /\ Cools(a, b)

Entry(a, b, f) ==
  /\ IsBuy(f) /\ Timely(f)
  /\ f.bar = b.bar /\ b.bar = a.bar + 1 /\ f.at = b.entered
  /\ a.cooldown = 0 /\ b.cooldown = 0
  /\ ~Open(a) /\ b.entry = Outlay(f) /\ b.cash = a.cash - Outlay(f)

\* Neither: the position stays as it is.
Stays(a, b) == b.entry = a.entry /\ b.entered = a.entered /\ b.cash = a.cash

\* What one snapshot may do to an account.
Moves(a, b, fs) ==
  \/ fs = {} /\ Cools(a, b) /\ Stays(a, b)
  \/ \E f \in FillType :
       /\ fs = {f}
       /\ StopSale(a, b, f) \/ OtherSale(a, b, f) \/ Entry(a, b, f)

\* Marking touches neither position nor cash nor cooldown.
LEMMA MarkedFields ==
  ASSUME NEW a \in AccountType, NEW t
  PROVE  /\ Marked(a, t).entry = a.entry /\ Marked(a, t).entered = a.entered
         /\ Marked(a, t).cash = a.cash
         /\ Marked(a, t).cooldown = a.cooldown
BY DEF Marked, AccountType

LEMMA DealtFields ==
  ASSUME NEW a \in AccountType, NEW t \in TickerType, NEW reason, NEW bar
  PROVE  /\ SellAll(a, reason, t).entry = 0
         /\ SellAll(a, reason, t).cash = a.cash + t.price - Cost
         /\ SellAll(a, reason, t).cooldown =
              IF reason = "stop" THEN CooldownBars ELSE a.cooldown
         /\ Buy(a, bar, t).entered = t.at
         /\ Buy(a, bar, t).entry = t.price + Cost
         /\ Buy(a, bar, t).cash = a.cash - (t.price + Cost)
         /\ Buy(a, bar, t).cooldown = a.cooldown
BY DEF SellAll, Buy, AccountType

\* Judging touches neither position nor cash nor cooldown.
LEMMA JudgedFields ==
  ASSUME NEW a \in AccountType, NEW verdict
  PROVE  LET b == Judge(a, verdict)
         IN /\ b \in AccountType /\ b.entry = a.entry /\ b.entered = a.entered
            /\ b.cooldown = a.cooldown /\ b.cash = a.cash
BY JudgeType DEF Judge, AccountType

\* A snapshot on a ticker that is ready, on the account's bar or a later one,
\* sells, enters in time on the next bar, or leaves the position alone.
LEMMA SnapshotMoves ==
  ASSUME NEW a \in AccountType, NEW bar \in Bars, NEW signal, NEW t \in TickerType,
         mode \in Mode, bar >= a.bar,
         signal = "enter" => TickerReady(a, bar, t)
  PROVE  Moves(a, Processed(a, bar, signal, t).state, Processed(a, bar, signal, t).fills)
<1> DEFINE verdict == Verdict(a, bar, signal, t)
           before == Judge(a, verdict)
           reason == ExitReason(before, verdict, signal, t)
           enters == Enters(before, verdict, signal, t)
           dealt == IF reason # "none" THEN SellAll(before, reason, t)
                    ELSE IF enters THEN Buy(before, bar, t) ELSE before
           marked == Marked(dealt, t)
           cooled == CooledDown(marked, before, verdict, reason = "stop")
           r == Processed(a, bar, signal, t)
<1> SUFFICES Moves(a, r.state, r.fills)
  OBVIOUS
<1>1. /\ before \in AccountType /\ before.entry = a.entry /\ before.entered = a.entered
      /\ before.cooldown = a.cooldown /\ before.cash = a.cash
  BY JudgedFields
<1>2. /\ r.state \in AccountType /\ r.state.bar = bar /\ r.fills \subseteq FillType
  BY SnapshotKeeps
<1>3. /\ reason # "none" => Open(before)
      /\ enters => /\ verdict = "trade" /\ signal = "enter" /\ ~Open(before)
                   /\ before.cooldown = 0 /\ before.cash >= t.price + Cost
  BY DEF ExitReason, Enters
<1>4. /\ verdict \in {"unready", "late", "trade"} => bar = a.bar + 1
      /\ verdict = "trade" => ~(t.at - Close(bar) > MaxSignalDelay)
  <2>1. bar \in Int /\ a.bar \in Int
    BY CloseNat DEF AccountType, NoBar
  <2> QED
    BY <2>1 DEF Verdict
<1>5. r.fills = IF reason # "none" THEN {SellFill(before, bar, reason, t)}
                ELSE IF enters THEN {BuyFill(bar, t)} ELSE {}
  BY DEF Processed
<1>6. r.state = Stamped(cooled, bar, verdict, signal, t)
  BY DEF Processed
<1>7. dealt \in AccountType
  <2>1. CASE reason # "none"
    BY <2>1, <1>1, SellType
  <2>2. CASE reason = "none" /\ enters
    <3> HIDE DEF before, reason, enters
    <3> QED
      BY <2>2, <1>1, <1>3, BuyType
  <2>3. CASE reason = "none" /\ ~enters
    BY <2>3, <1>1
  <2> QED
    BY <2>1, <2>2, <2>3
<1> DEFINE counts == verdict \in {"unready", "late", "trade"} /\ before.cooldown > 0
                     /\ ~(reason = "stop")
<1>8. /\ r.state.entry = dealt.entry /\ r.state.entered = dealt.entered
      /\ r.state.cash = dealt.cash
      /\ r.state.cooldown = IF counts THEN before.cooldown - 1 ELSE dealt.cooldown
  <2> HIDE DEF dealt, before, reason
  <2>1. marked \in AccountType /\ marked.entry = dealt.entry
        /\ marked.entered = dealt.entered /\ marked.cooldown = dealt.cooldown
        /\ marked.cash = dealt.cash
    BY <1>7, MarkedType, MarkedFields
  <2> HIDE DEF marked, verdict
  <2>2. /\ cooled.entry = marked.entry /\ cooled.entered = marked.entered
        /\ cooled.cash = marked.cash
        /\ cooled.cooldown = IF counts THEN before.cooldown - 1 ELSE marked.cooldown
        /\ cooled \in AccountType
    BY <1>1, <2>1, CooledType DEF CooledDown, AccountType
  <2> HIDE DEF cooled, counts
  <2>3. r.state = Stamped(cooled, bar, verdict, signal, t)
    BY <1>6
  <2> HIDE DEF r
  <2>4. /\ r.state.entry = cooled.entry /\ r.state.entered = cooled.entered
        /\ r.state.cooldown = cooled.cooldown /\ r.state.cash = cooled.cash
    BY <2>2, <2>3 DEF Stamped, AccountType
  <2> QED
    BY <2>1, <2>2, <2>4
<1>13. counts => bar = a.bar + 1 /\ a.cooldown > 0 /\ reason # "stop"
  <2> HIDE DEF verdict, before, reason
  <2> QED
    BY <1>1, <1>4
<1>15. /\ before.cooldown \in Nat /\ before.cash \in Nat
       /\ t.price \in Nat \ {0} /\ Cost \in Nat
  BY <1>1, Sizes DEF AccountType, TickerType
<1>14. enters => ~counts
  <2> HIDE DEF verdict, before, reason, enters
  <2> QED
    BY <1>1, <1>3, <1>15
<1> HIDE DEF counts
<1>9. t.at \in Int /\ t.traded \in Int /\ Close(bar) \in Nat /\ MaxSignalDelay \in Nat
      /\ a.cooldown \in Nat
  BY CloseNat, PaperAssumption DEF TickerType, AccountType
<1>10. CASE reason # "none"
  <2> DEFINE f == SellFill(before, bar, reason, t)
  <2>1. /\ dealt.entry = 0 /\ dealt.cash = before.cash + t.price - Cost
        /\ dealt.cooldown = IF reason = "stop" THEN CooldownBars ELSE before.cooldown
    <3> HIDE DEF before, reason
    <3> QED
      BY <1>1, <1>10, DealtFields
  <2>2. /\ f.side = "sell" /\ f.reason = reason /\ f.bar = bar /\ f.of = a.entered
        /\ Outlay(f) = Cost - t.price
    BY <1>1 DEF SellFill, Outlay
  <2>3. r.fills = {f} /\ f \in FillType
    BY <1>2, <1>5, <1>10
  <2> HIDE DEF f, dealt, verdict, before, reason, r
  <2>4. ~Open(r.state) /\ Open(a)
    BY <1>1, <1>3, <1>8, <1>10, <2>1 DEF Open
  <2>7. r.state.cash = a.cash - Outlay(f)
    BY <1>1, <1>8, <1>15, <2>1, <2>2
  <2>8. Sale(a, r.state, f)
    BY <1>2, <2>2, <2>4, <2>7 DEF Sale, IsSale
  <2>5. CASE reason = "stop"
    <3>1. StopSale(a, r.state, f)
      BY <1>8, <1>13, <2>1, <2>2, <2>5, <2>8 DEF StopSale, IsStop
    <3> QED
      BY <3>1, <2>3 DEF Moves
  <2>6. CASE reason # "stop"
    <3>1. Cools(a, r.state)
      BY <1>1, <1>2, <1>8, <1>13, <2>1, <2>6 DEF Cools
    <3>2. OtherSale(a, r.state, f)
      BY <2>2, <2>6, <2>8, <3>1 DEF OtherSale, IsStop
    <3> QED
      BY <3>2, <2>3 DEF Moves
  <2> QED
    BY <2>5, <2>6
<1>11. CASE reason = "none" /\ enters
  <2> DEFINE f == BuyFill(bar, t)
  <2>1. /\ dealt.entered = t.at /\ dealt.cooldown = before.cooldown
        /\ dealt.entry = t.price + Cost /\ dealt.cash = before.cash - (t.price + Cost)
    <3> HIDE DEF before, reason, enters
    <3> QED
      BY <1>1, <1>11, DealtFields
  <2>2. /\ f.side = "buy" /\ f.bar = bar /\ f.at = t.at /\ f.traded = t.traded
        /\ Outlay(f) = t.price + Cost
    BY DEF BuyFill, Outlay
  <2>3. r.fills = {f} /\ f \in FillType
    BY <1>2, <1>5, <1>11
  <2>4. t.at >= Close(bar) /\ t.traded >= Close(bar)
    BY <1>3, <1>11 DEF TickerReady
  <2> HIDE DEF f, dealt, verdict, before, reason, enters, r
  <2>5. Timely(f)
    BY <1>3, <1>4, <1>9, <1>11, <2>2, <2>4 DEF Timely
  <2>6. a.cooldown = 0 /\ r.state.cooldown = 0 /\ r.state.entered = t.at
    BY <1>1, <1>3, <1>8, <1>11, <1>14, <2>1
  <2>8. ~Open(a) /\ r.state.entry = Outlay(f) /\ r.state.cash = a.cash - Outlay(f)
    BY <1>1, <1>3, <1>8, <1>11, <2>1, <2>2 DEF Open
  <2>7. Entry(a, r.state, f)
    BY <1>2, <1>3, <1>4, <1>11, <2>2, <2>5, <2>6, <2>8 DEF Entry, IsBuy
  <2> QED
    BY <2>3, <2>7 DEF Moves
<1>12. CASE reason = "none" /\ ~enters
  <2>1. dealt = before /\ r.fills = {}
    BY <1>5, <1>12
  <2> HIDE DEF dealt, verdict, before, reason, enters, r
  <2>2. Cools(a, r.state)
    BY <1>1, <1>2, <1>8, <1>13, <2>1 DEF Cools
  <2> QED
    BY <1>1, <1>8, <2>1, <2>2 DEF Moves, Stays
<1> QED
  BY <1>10, <1>11, <1>12

\* The sum is the one function that Sums describes.
LEMMA SpentSum ==
  ASSUME NEW S, IsFiniteSet(S), NEW G, \A f \in S : G[f] = Outlay(f),
         NEW h, Sums(h, G, S)
  PROVE  Spent(S) = h[S]
<1> DEFINE Body(g) == [s \in SUBSET S |->
                        IF s = {} THEN 0
                        ELSE LET x == CHOOSE x \in s : TRUE
                             IN Outlay(x) + g[s \ {x}]]
           iter == CHOOSE g : g = Body(g)
<1>1. Spent(S) = iter[S]
  BY DEF Spent, MapThenSumSet, MapThenFoldSet
<1>2. \A g : Folds(g, G, S) <=> g = Body(g)
  <2> TAKE g
  <2>1. \A s \in SUBSET S : s # {} => 
          G[CHOOSE x \in s : TRUE] = Outlay(CHOOSE x \in s : TRUE)
    <3> SUFFICES ASSUME NEW s \in SUBSET S, s # {}
                 PROVE  (CHOOSE x \in s : TRUE) \in S
      OBVIOUS
    <3> QED
      OBVIOUS
  <2> DEFINE FBody == [s \in SUBSET S |->
         IF s = {} THEN 0
         ELSE G[CHOOSE x \in s : TRUE] + g[s \ {CHOOSE x \in s : TRUE}]]
  <2>2. FBody = Body(g)
    BY <2>1
  <2> QED
    BY <2>2 DEF Folds
<1> HIDE DEF Body
<1>3. h = Body(h)
  BY <1>2, SumsFold
<1>4. iter = Body(iter)
  BY <1>3
<1> HIDE DEF iter
<1>5. iter = h
  BY <1>2, <1>4, FoldSums
<1> QED
  BY <1>1, <1>5

\* No fills cost nothing.
LEMMA SpentNone == Spent({}) = 0
<1> DEFINE h == [s \in {{}} |-> 0]
<1>1. Sums(h, h, {})
  BY DEF Sums
<1> HIDE DEF h
<1>2. Spent({}) = h[{}]
  BY <1>1, FS_EmptySet, SpentSum
<1> QED
  BY <1>1, <1>2 DEF Sums

\* Another element adds its outlay.
LEMMA SpentAdds ==
  ASSUME NEW S, IsFiniteSet(S), NEW x, x \notin S,
         \A f \in S \cup {x} : Outlay(f) \in Int
  PROVE  Spent(S) \in Int /\ Spent(S \cup {x}) = Spent(S) + Outlay(x)
<1> DEFINE T == S \cup {x}
           G == [f \in T |-> Outlay(f)]
<1>1. /\ \A f \in T : G[f] = Outlay(f) /\ G[f] \in Int
      /\ S \subseteq T /\ S \cup {x} = T
  OBVIOUS
<1>2. IsFiniteSet(T)
  BY FS_AddElement
<1> HIDE DEF G, T
<1>3. PICK h : Sums(h, G, T)
  BY <1>1, <1>2, SumsExist
<1>4. Spent(T) = h[T]
  BY <1>1, <1>2, <1>3, SpentSum
<1>5. \A s \in SUBSET T : IsFiniteSet(s) => Spent(s) = h[s]
  <2> SUFFICES ASSUME NEW s \in SUBSET T, IsFiniteSet(s) PROVE Spent(s) = h[s]
    OBVIOUS
  <2> DEFINE k == [r \in SUBSET s |-> h[r]]
  <2>1. Sums(k, G, s)
    BY <1>3 DEF Sums
  <2>2. \A f \in s : G[f] = Outlay(f)
    BY <1>1
  <2>3. Spent(s) = k[s]
    <3> HIDE DEF k
    <3> QED
      BY <2>1, <2>2, SpentSum
  <2> QED
    BY <2>3
<1>6. Spent(S) = h[S] /\ h[S] \in Int
  BY <1>1, <1>2, <1>3, <1>5 DEF Sums
<1>7. h[T] = G[x] + h[S] /\ G[x] = Outlay(x) /\ Outlay(x) \in Int
  <2>1. x \in T /\ T \ {x} = S
    BY <1>1
  <2> QED
    BY <1>1, <1>3, <2>1 DEF Sums
<1>8. h[T] = h[S] + G[x]
  BY <1>6, <1>7
<1> QED
  BY <1>1, <1>4, <1>6, <1>7, <1>8

\* Entries on different bars happen at different times.
LEMMA EntriesApart ==
  ASSUME Apart, NEW f \in FillType, NEW g \in FillType, Timely(f), Timely(g), f.bar < g.bar
  PROVE  f.at # g.at
<1>1. /\ f.bar \in Nat /\ g.bar \in Nat /\ f.at \in Nat /\ g.at \in Nat
      /\ Interval \in Nat /\ MaxSignalDelay \in Nat
  BY CloseNat, PaperAssumption DEF FillType
<1>2. PICK k \in Nat : g.bar = f.bar + 1 + k
  <2>1. g.bar - f.bar - 1 \in Nat /\ g.bar = f.bar + 1 + (g.bar - f.bar - 1)
    BY <1>1
  <2> QED
    BY <2>1
<1>3. Close(g.bar) = Close(f.bar) + Interval + k * Interval
  BY <1>1, <1>2 DEF Close
<1>4. k * Interval \in Nat /\ Close(f.bar) \in Nat /\ Close(g.bar) \in Nat
  BY <1>1, CloseNat DEF FillType
<1>5. Close(g.bar) >= Close(f.bar) + Interval
  BY <1>1, <1>3, <1>4
<1>6. f.at <= Close(f.bar) + MaxSignalDelay
  BY <1>1, <1>4 DEF Timely
<1>7. g.at >= Close(g.bar)
  BY <1>1, <1>4 DEF Timely
<1> QED
  BY <1>1, <1>4, <1>5, <1>6, <1>7 DEF Apart

\* A fill that is not among them changes what they add up to by its outlay.
LEMMA SpentMore ==
  ASSUME NEW fs \in SUBSET FillType, IsFiniteSet(fs), NEW f \in FillType, f \notin fs,
         NEW a, NEW b, a.cash = InitialCash - Spent(fs), b.cash = a.cash - Outlay(f)
  PROVE  IsFiniteSet(fs \cup {f}) /\ b.cash = InitialCash - Spent(fs \cup {f})
<1>1. \A g \in FillType : Outlay(g) \in Int
  BY Sizes DEF Outlay, FillType
<1>2. Spent(fs) \in Int /\ Spent(fs \cup {f}) = Spent(fs) + Outlay(f)
  BY <1>1, SpentAdds
<1>3. IsFiniteSet(fs \cup {f})
  BY FS_AddElement
<1> QED
  BY <1>1, <1>2, <1>3, Sizes

\* The account goes on adding up when its position is sold: the sale is a new
\* one, because the entry it closes was open.
LEMMA SaleAudits ==
  ASSUME NEW a \in AccountType, NEW b \in AccountType,
         NEW fs \in SUBSET FillType, NEW f \in FillType,
         Audited(a, fs), Sale(a, b, f)
  PROVE  Audited(b, fs \cup {f})
<1>1. PICK e \in fs : IsBuy(e) /\ ~Sold(e, fs) /\ e.at = a.entered
  BY DEF Audited, Unclosed, Sale
<1>2. f.of = e.at /\ IsSale(f) /\ ~IsBuy(f) /\ ~Open(b)
  BY <1>1 DEF Sale, IsSale, IsBuy
<1>3. \A g \in fs : IsSale(g) => g.of # f.of
  BY <1>1, <1>2 DEF Sold
<1>4. f \notin fs
  BY <1>2, <1>3
<1>5. IsFiniteSet(fs \cup {f}) /\ b.cash = InitialCash - Spent(fs \cup {f})
  <2>1. IsFiniteSet(fs) /\ a.cash = InitialCash - Spent(fs) /\ b.cash = a.cash - Outlay(f)
    BY DEF Audited, Sale
  <2> QED
    BY <1>4, <2>1, SpentMore
<1>6. Closing(fs \cup {f})
  BY <1>1, <1>2, <1>3 DEF Audited, Closing
<1>7. Unclosed(b, fs \cup {f})
  BY <1>2 DEF Audited, Unclosed, Sold, Sale
<1> QED
  BY <1>5, <1>6, <1>7 DEF Audited

\* And when a position is opened at a time no sale speaks of.
LEMMA EntryAudits ==
  ASSUME NEW a \in AccountType, NEW b \in AccountType,
         NEW fs \in SUBSET FillType, NEW f \in FillType,
         Audited(a, fs), Entry(a, b, f),
         \A g \in fs : IsBuy(g) => g.at # f.at
  PROVE  Audited(b, fs \cup {f})
<1>1. /\ IsBuy(f) /\ ~IsSale(f) /\ f \notin fs /\ ~Open(a) /\ Open(b)
      /\ b.entered = f.at /\ b.entry = Outlay(f)
  <2>1. Outlay(f) > 0
    BY Sizes DEF Entry, IsBuy, Outlay, FillType
  <2>2. /\ IsBuy(f) /\ ~Open(a)
        /\ b.entered = f.at /\ b.entry = Outlay(f)
    BY DEF Entry
  <2>3. Open(b) /\ ~IsSale(f) /\ f \notin fs
    BY <2>1, <2>2 DEF Open, IsBuy, IsSale
  <2> QED
    BY <2>2, <2>3
<1>2. \A g \in fs : IsSale(g) => g.of # f.at
  BY DEF Audited, Closing
<1>3. IsFiniteSet(fs \cup {f}) /\ b.cash = InitialCash - Spent(fs \cup {f})
  <2>1. IsFiniteSet(fs) /\ a.cash = InitialCash - Spent(fs) /\ b.cash = a.cash - Outlay(f)
    BY DEF Audited, Entry
  <2> QED
    BY <1>1, <2>1, SpentMore
<1>4. Closing(fs \cup {f})
  BY <1>1 DEF Audited, Closing
<1>5. \A g \in fs \cup {f} : IsBuy(g) => (Sold(g, fs \cup {f}) <=> g # f)
  BY <1>1, <1>2 DEF Audited, Unclosed, Sold
<1>6. Unclosed(b, fs \cup {f})
  BY <1>1, <1>5 DEF Unclosed
<1> QED
  BY <1>3, <1>4, <1>6 DEF Audited

\* And when neither happens.
LEMMA StayAudits ==
  ASSUME NEW a, NEW b, NEW fs, Audited(a, fs), Stays(a, b)
  PROVE  Audited(b, fs)
BY DEF Audited, Unclosed, Stays, Open

\* An account that belongs to its fills goes on doing so after a snapshot.
LEMMA MoveServes ==
  ASSUME NEW a \in AccountType, NEW b \in AccountType,
         NEW fs \in SUBSET FillType, NEW gs \in SUBSET FillType,
         Served(a, fs), Moves(a, b, gs), b.bar >= a.bar
  PROVE  Served(b, fs \cup gs)
<1> USE Sizes
<1>1. /\ a.bar \in Int /\ b.bar \in Int
      /\ a.cooldown \in 0..CooldownBars /\ b.cooldown \in 0..CooldownBars
  BY CloseNat DEF AccountType, NoBar
<1>2. \A f \in FillType : f.bar \in Int
  BY CloseNat DEF FillType
<1>3. \A f \in fs : f.bar \in Int /\ f.bar <= a.bar /\ f.bar <= b.bar
  BY <1>1, <1>2 DEF Served, Behind
<1>4. Cools(a, b) => Cooling(b, fs)
  <2> SUFFICES ASSUME Cools(a, b), NEW f \in fs, IsStop(f)
               PROVE  b.cooldown + (b.bar - f.bar) >= CooldownBars
    BY DEF Cooling
  <2>1. a.cooldown + (a.bar - f.bar) >= CooldownBars
    BY DEF Served, Cooling
  <2> QED
    BY <1>1, <1>3, <2>1 DEF Cools
<1>5. CASE gs = {} /\ Cools(a, b) /\ Stays(a, b)
  <2>1. Holding(b, fs)
    <3> SUFFICES ASSUME Open(b), NEW f \in fs, IsBuy(f), f.bar = b.bar
                 PROVE  f.at = b.entered
      BY DEF Holding
    <3>1. f.bar = a.bar
      BY <1>1, <1>3
    <3> QED
      BY <1>5, <3>1 DEF Served, Holding, Stays, Open
  <2>2. fs \cup gs = fs
    BY <1>5
  <2>3. Apart => Audited(b, fs)
    BY <1>5, StayAudits DEF Served
  <2> QED
    BY <1>3, <1>4, <1>5, <2>1, <2>2, <2>3 DEF Served, Behind
<1>6. ASSUME NEW f \in FillType, gs = {f},
             StopSale(a, b, f) \/ OtherSale(a, b, f) \/ Entry(a, b, f)
      PROVE  Served(b, fs \cup gs)
  <2>1. f.bar = b.bar /\ f.bar \in Int
    BY <1>1, <1>6 DEF StopSale, OtherSale, Sale, Entry
  <2>2. Behind(b, fs \cup gs)
    BY <1>1, <1>3, <1>6, <2>1 DEF Behind
  <2>6. (Apart /\ (StopSale(a, b, f) \/ OtherSale(a, b, f))) => Audited(b, fs \cup gs)
    BY <1>6, SaleAudits DEF Served, StopSale, OtherSale
  <2>3. CASE StopSale(a, b, f)
    <3>1. Cooling(b, fs \cup gs)
      BY <1>1, <1>3, <1>6, <2>1, <2>3 DEF Cooling, StopSale, Sale
    <3>2. Holding(b, fs \cup gs)
      BY <2>3 DEF Holding, StopSale, Sale
    <3>3. ~IsBuy(f)
      BY <2>3 DEF StopSale, IsStop, IsBuy
    <3>4. Fresher(fs \cup gs)
      BY <1>6, <3>3 DEF Served, Fresher
    <3>5. \A g \in fs : IsBuy(g) => ~(g.bar > f.bar) /\ (g.bar = f.bar => g.at = f.of)
      <4> SUFFICES ASSUME NEW g \in fs, IsBuy(g), g.bar >= f.bar PROVE g.bar = f.bar /\ g.at = f.of
        BY <1>3, <2>1
      <4>1. g.bar = a.bar /\ g.bar = f.bar
        BY <1>1, <1>3, <2>1
      <4> QED
        BY <2>3, <4>1 DEF Served, Holding, StopSale, Sale
    <3>6. Paused(fs \cup gs)
      <4> SUFFICES ASSUME NEW h \in fs \cup gs, NEW g \in fs \cup gs, IsStop(h), IsBuy(g)
                   PROVE  /\ g.bar > h.bar => g.bar > h.bar + CooldownBars
                          /\ g.bar = h.bar => g.at = h.of
        BY DEF Paused
      <4>1. g \in fs
        BY <1>6, <3>3
      <4>2. CASE h \in fs
        BY <4>1, <4>2 DEF Served, Paused
      <4>3. CASE h = f
        BY <3>5, <4>1, <4>3
      <4> QED
        BY <1>6, <4>2, <4>3
    <3> QED
      BY <2>2, <2>3, <2>6, <3>1, <3>2, <3>4, <3>6 DEF Served
  <2>4. CASE OtherSale(a, b, f)
    <3>1. ~IsStop(f) /\ ~IsBuy(f) /\ ~Open(b) /\ Cooling(b, fs)
      BY <1>4, <2>4 DEF OtherSale, Sale, IsSale, IsBuy
    <3>2. Cooling(b, fs \cup gs) /\ Holding(b, fs \cup gs)
      BY <1>6, <3>1 DEF Cooling, Holding
    <3>3. Fresher(fs \cup gs) /\ Paused(fs \cup gs)
      BY <1>6, <3>1 DEF Served, Fresher, Paused
    <3> QED
      BY <2>2, <2>4, <2>6, <3>2, <3>3 DEF Served
  <2>5. CASE Entry(a, b, f)
    <3>1. /\ IsBuy(f) /\ ~IsStop(f) /\ Timely(f) /\ b.bar = a.bar + 1 /\ f.at = b.entered
          /\ a.cooldown = 0 /\ b.cooldown = 0
      BY <2>5 DEF Entry, IsBuy, IsStop
    <3>2. \A g \in fs : g.bar # f.bar /\ ~(g.bar > f.bar)
      BY <1>1, <1>3, <2>1, <3>1
    <3>3. \A h \in fs : IsStop(h) => a.bar - h.bar >= CooldownBars
      BY <1>1, <1>3, <3>1 DEF Served, Cooling
    <3>4. Cooling(b, fs \cup gs)
      <4> SUFFICES ASSUME NEW h \in fs, IsStop(h)
                   PROVE  b.cooldown + (b.bar - h.bar) >= CooldownBars
        BY <1>6, <3>1 DEF Cooling
      <4> QED
        BY <1>1, <1>3, <3>1, <3>3
    <3>5. Holding(b, fs \cup gs)
      BY <1>6, <2>1, <3>1, <3>2 DEF Holding
    <3>6. Fresher(fs \cup gs)
      BY <1>6, <3>1, <3>2 DEF Served, Fresher
    <3>7. \A h \in fs : IsStop(h) => f.bar > h.bar + CooldownBars /\ f.bar # h.bar
      BY <1>1, <1>3, <2>1, <3>1, <3>2, <3>3
    <3>8. Paused(fs \cup gs)
      <4> SUFFICES ASSUME NEW h \in fs \cup gs, NEW g \in fs \cup gs, IsStop(h), IsBuy(g)
                   PROVE  /\ g.bar > h.bar => g.bar > h.bar + CooldownBars
                          /\ g.bar = h.bar => g.at = h.of
        BY DEF Paused
      <4>1. h \in fs
        BY <1>6, <3>1
      <4>2. CASE g \in fs
        BY <4>1, <4>2 DEF Served, Paused
      <4>3. CASE g = f
        BY <3>7, <4>1, <4>3
      <4> QED
        BY <1>6, <4>2, <4>3
    <3>9. Apart => Audited(b, fs \cup gs)
      <4> SUFFICES ASSUME Apart PROVE Audited(b, fs \cup gs)
        OBVIOUS
      <4>1. ASSUME NEW g \in fs, IsBuy(g) PROVE g.at # f.at
        <5>1. g.bar < f.bar /\ Timely(g)
          BY <1>1, <1>3, <2>1, <3>1, <4>1 DEF Served, Fresher
        <5> QED
          BY <3>1, <5>1, EntriesApart
      <4>2. Audited(a, fs)
        BY DEF Served
      <4> QED
        BY <1>6, <2>5, <4>1, <4>2, EntryAudits
    <3> QED
      BY <2>2, <3>4, <3>5, <3>6, <3>8, <3>9 DEF Served
  <2> QED
    BY <1>6, <2>3, <2>4, <2>5
<1> QED
  BY <1>5, <1>6 DEF Moves

-----------------------------------------------------------------------------
(* The invariant *)

\* No account, no fills, nobody at work.
LEMMA InitServed == Init => AccountsServed
<1> SUFFICES ASSUME Init PROVE AccountsServed
  OBVIOUS
<1>1. Served(account, fills)
  <2>1. IsFiniteSet({}) /\ Spent({}) = 0
    <3>1. Spent({}) = 0
      BY SpentNone
    <3> QED
      BY <3>1, FS_EmptySet
  <2>2. account = NewAccount /\ fills = {}
    BY DEF Init
  <2>3. account.cash = InitialCash - Spent({}) /\ ~Open(account)
    BY <2>1, <2>2, NewAccountType, Sizes DEF NewAccount
  <2>4. Audited(account, fills)
    BY <2>1, <2>2, <2>3 DEF Audited, Closing, Unclosed
  <2> QED
    BY <2>2, <2>4 DEF Served, Behind, Cooling, Holding, Fresher, Paused
<1>2. \A p \in Proc : ~Working(p)
  BY DEF Init, Working
<1> QED
  BY <1>1, <1>2 DEF AccountsServed

\* A step that saves nothing, and makes a served account of the one process it
\* belongs to, if that goes on working.
LEMMA OneServes ==
  ASSUME AccountsServed, NEW p \in Proc, UNCHANGED <<account, fills>>,
         \A q \in Proc \ {p} : /\ pc'[q] = pc[q] /\ fresh'[q] = fresh[q]
                               /\ copy'[q] = copy[q] /\ news'[q] = news[q],
         (Working(p)' /\ fresh'[p]) => Served(copy'[p], fills \cup news'[p])
  PROVE  AccountsServed'
<1>1. Served(account', fills')
  BY DEF AccountsServed
<1>2. ASSUME NEW q \in Proc, Working(q)', fresh'[q]
      PROVE  Served(copy'[q], fills' \cup news'[q])
  <2>1. CASE q = p
    BY <1>2, <2>1
  <2>2. CASE q # p
    <3>1. Working(q) /\ fresh[q] /\ copy'[q] = copy[q] /\ news'[q] = news[q]
      BY <1>2, <2>2 DEF Working
    <3> QED
      BY <3>1 DEF AccountsServed
  <2> QED
    BY <2>1, <2>2
<1> QED
  BY <1>1, <1>2 DEF AccountsServed, Served, Behind, Cooling, Holding, Open

\* The copy loaded is the account as saved, with nothing to add.
LEMMA LoadServes ==
  ASSUME Inductive, AccountsServed, NEW p \in Proc, Load(p) PROVE AccountsServed'
<1>1. /\ copy'[p] = account /\ news'[p] = {}
      /\ UNCHANGED <<account, fills>>
      /\ \A q \in Proc \ {p} : /\ pc'[q] = pc[q] /\ fresh'[q] = fresh[q]
                               /\ copy'[q] = copy[q] /\ news'[q] = news[q]
  BY DEF Inductive, TypeOK, Prepared, Load, ledger
<1>2. Served(copy'[p], fills \cup news'[p])
  BY <1>1 DEF AccountsServed
<1> QED
  BY <1>1, <1>2, OneServes

\* A snapshot against the stops, with or without the sale a new halt asks for.
LEMMA RiskServes ==
  ASSUME Inductive, AccountsServed, NEW p \in Proc, RiskSnapshot(p)
  PROVE  AccountsServed'
<1>1. /\ pc[p] = "risk" /\ Working(p) /\ copy[p] \in AccountType
      /\ copy[p].bar \in Bars /\ mode \in Mode /\ fills \in SUBSET FillType
  BY DEF Inductive, RiskSnapshot, TypeOK, Prepared, Working
<1>2. copy[p].bar \in Int
  BY <1>1, CloseNat
<1> DEFINE bar == copy[p].bar
           first(t) == Processed(copy[p], bar, "hold", t)
           second(t) == Processed(first(t).state, bar, "hold", t)
           halting(t) == Open(first(t).state) /\ first(t).state.halt = "HALT_PENDING"
<1>3. PICK t \in Tickers :
        /\ copy' = [copy EXCEPT ![p] = IF halting(t) THEN second(t).state ELSE first(t).state]
        /\ news' = [news EXCEPT ![p] = IF halting(t) THEN first(t).fills \cup second(t).fills
                                       ELSE first(t).fills]
  BY DEF RiskSnapshot
<1>4. t \in TickerType
  BY TickersTyped DEF Inductive, TypeOK
<1>5. /\ first(t).state \in AccountType /\ first(t).state.bar = bar
      /\ first(t).fills \in SUBSET FillType
  BY <1>1, <1>4, SnapshotKeeps
<1>6. Moves(copy[p], first(t).state, first(t).fills)
  BY <1>1, <1>2, <1>4, SnapshotMoves
<1> HIDE DEF first
<1>7. /\ second(t).state \in AccountType /\ second(t).state.bar = bar
      /\ second(t).fills \in SUBSET FillType
  BY <1>1, <1>4, <1>5, SnapshotKeeps
<1>8. Moves(first(t).state, second(t).state, second(t).fills)
  BY <1>1, <1>2, <1>4, <1>5, SnapshotMoves
<1> HIDE DEF second
<1>9. fresh[p] => Served(copy'[p], fills \cup news'[p])
  <2> SUFFICES ASSUME fresh[p] PROVE Served(copy'[p], fills \cup news'[p])
    OBVIOUS
  <2>1. Served(copy[p], fills)
    <3>1. fills \cup news[p] = fills
      BY <1>1 DEF Inductive, Prepared
    <3> QED
      BY <1>1, <3>1 DEF AccountsServed
  <2>2. Served(first(t).state, fills \cup first(t).fills)
    BY <1>1, <1>2, <1>5, <1>6, <2>1, MoveServes
  <2>3. fills \cup first(t).fills \in SUBSET FillType
    BY <1>1, <1>5
  <2>4. Served(second(t).state, (fills \cup first(t).fills) \cup second(t).fills)
    BY <1>2, <1>5, <1>7, <1>8, <2>2, <2>3, MoveServes
  <2>5. (fills \cup first(t).fills) \cup second(t).fills
          = fills \cup (first(t).fills \cup second(t).fills)
    OBVIOUS
  <2>6. /\ copy'[p] = IF halting(t) THEN second(t).state ELSE first(t).state
        /\ news'[p] = IF halting(t) THEN first(t).fills \cup second(t).fills
                      ELSE first(t).fills
    BY <1>3 DEF Inductive, TypeOK
  <2> HIDE DEF halting
  <2> QED
    BY <2>2, <2>4, <2>5, <2>6
<1>10. /\ UNCHANGED <<account, fills, fresh>>
       /\ \A q \in Proc \ {p} : /\ pc'[q] = pc[q] /\ fresh'[q] = fresh[q]
                                /\ copy'[q] = copy[q] /\ news'[q] = news[q]
  BY DEF Inductive, TypeOK, RiskSnapshot, ledger
<1> QED
  BY <1>9, <1>10, OneServes

\* A snapshot on the newest candle, which is the account's or a later one.
LEMMA BarServes ==
  ASSUME Inductive, AccountsServed, NEW p \in Proc, BarSnapshot(p)
  PROVE  AccountsServed'
<1> DEFINE bar == found[p].bar
           result(t) == Processed(copy[p], bar, found[p].signal, t)
<1>1. /\ pc[p] = "ticker" /\ Working(p) /\ copy[p] \in AccountType /\ bar \in Bars
      /\ mode \in Mode /\ fills \in SUBSET FillType /\ bar >= copy[p].bar
  BY DEF Inductive, BarSnapshot, TypeOK, Prepared, Working
<1>2. PICK t \in Tickers :
        /\ TickerReady(copy[p], bar, t)
        /\ copy' = [copy EXCEPT ![p] = result(t).state]
        /\ news' = [news EXCEPT ![p] = result(t).fills]
  BY DEF BarSnapshot
<1>3. t \in TickerType
  BY TickersTyped DEF Inductive, TypeOK
<1>4. /\ result(t).state \in AccountType /\ result(t).state.bar = bar
      /\ result(t).fills \in SUBSET FillType
  BY <1>1, <1>3, SnapshotKeeps
<1>5. Moves(copy[p], result(t).state, result(t).fills)
  BY <1>1, <1>2, <1>3, SnapshotMoves
<1> HIDE DEF result, bar
<1>6. fresh[p] => Served(copy'[p], fills \cup news'[p])
  <2> SUFFICES ASSUME fresh[p] PROVE Served(copy'[p], fills \cup news'[p])
    OBVIOUS
  <2>1. Served(copy[p], fills)
    <3>1. fills \cup news[p] = fills
      BY <1>1 DEF Inductive, Prepared
    <3> QED
      BY <1>1, <3>1 DEF AccountsServed
  <2>2. Served(result(t).state, fills \cup result(t).fills)
    BY <1>1, <1>4, <1>5, <2>1, MoveServes
  <2>3. copy'[p] = result(t).state /\ news'[p] = result(t).fills
    BY <1>2 DEF Inductive, TypeOK
  <2> QED
    BY <2>2, <2>3
<1>7. /\ UNCHANGED <<account, fills, fresh>>
      /\ \A q \in Proc \ {p} : /\ pc'[q] = pc[q] /\ fresh'[q] = fresh[q]
                               /\ copy'[q] = copy[q] /\ news'[q] = news[q]
  BY DEF Inductive, TypeOK, BarSnapshot, ledger
<1> QED
  BY <1>6, <1>7, OneServes

\* A save makes the account and the fills what the process made of them, and
\* leaves everybody else behind.
LEMMA SaveServes ==
  ASSUME Inductive, AccountsServed, NEW p \in Proc, RiskSave(p) \/ Save(p)
  PROVE  AccountsServed'
<1>1. /\ Working(p) /\ fresh[p] /\ account' = copy[p] /\ fills' = fills \cup news[p]
      /\ \A q \in Proc \ {p} : fresh'[q] => pc[q] \in {"off", "idle"}
  BY DEF Inductive, TypeOK, RiskSave, Save, Commit, RevisionMatches, Working
<1>2. Served(account', fills')
  BY <1>1 DEF AccountsServed
<1>3. ASSUME NEW q \in Proc, Working(q)', fresh'[q]
      PROVE  Served(copy'[q], fills' \cup news'[q])
  <2>1. q = p
    <3>1. pc'[q] \notin {"off", "idle"}
      BY <1>3 DEF Working
    <3>2. q # p => pc'[q] = pc[q]
      BY DEF Inductive, TypeOK, RiskSave, Save, EndCall, Forget
    <3> QED
      BY <1>1, <1>3, <3>1, <3>2
  <2>2. copy'[p] = copy[p] /\ news'[p] = news[p]
    <3>1. pc'[p] \notin {"off", "idle"}
      BY <1>3, <2>1 DEF Working
    <3>2. ~EndCall(p)
      BY <3>1 DEF Inductive, TypeOK, EndCall, Forget
    <3> QED
      BY <3>2 DEF RiskSave, Save
  <2>3. fills' \cup news'[p] = fills'
    BY <1>1, <2>2
  <2> QED
    BY <1>1, <1>2, <2>1, <2>2, <2>3
<1> QED
  BY <1>2, <1>3 DEF AccountsServed, Served, Behind, Cooling, Holding, Open

\* Steps after which nobody works on anything new.
LEMMA RestServes ==
  ASSUME Inductive, AccountsServed, NEW p \in Proc,
         Start(p) \/ Fetch(p) \/ SaveRefused(p) \/ Fail(p)
  PROVE  AccountsServed'
<1>1. /\ UNCHANGED <<account, fills>>
      /\ \A q \in Proc \ {p} : /\ pc'[q] = pc[q] /\ fresh'[q] = fresh[q]
                               /\ copy'[q] = copy[q] /\ news'[q] = news[q]
  BY DEF Inductive, TypeOK, Start, Fetch, SaveRefused, Fail, EndCall, Forget, ledger
<1>2. (Working(p)' /\ fresh'[p]) => Served(copy'[p], fills \cup news'[p])
  <2>1. CASE Start(p) \/ SaveRefused(p) \/ Fail(p)
    BY <2>1 DEF Inductive, TypeOK, Start, SaveRefused, Fail, EndCall, Forget, Working
  <2>2. CASE Fetch(p)
    BY <2>2 DEF Fetch, AccountsServed, Working
  <2> QED
    BY <2>1, <2>2
<1> QED
  BY <1>1, <1>2, OneServes

\* The clock touches nothing of it.
LEMMA ClockServes ==
  ASSUME AccountsServed, Tick \/ Rewind \/ UNCHANGED vars PROVE AccountsServed'
<1>1. UNCHANGED <<account, fills, pc, copy, news, fresh>>
  BY DEF Tick, Rewind, vars, ledger
<1> QED
  BY <1>1 DEF AccountsServed, Working, Served, Behind, Cooling, Holding, Open

\* The account always belongs to the fills saved.
LEMMA AccountsServedInvariant == Spec => []AccountsServed
<1>1. Inductive /\ AccountsServed /\ [Next]_vars => AccountsServed'
  BY LoadServes, RiskServes, BarServes, SaveServes, RestServes, ClockServes DEF Next
<1> QED
  BY <1>1, InitServed, InductiveInvariant, PTL DEF Spec

-----------------------------------------------------------------------------
(* The theorems *)

\* No fill at a historical price: whatever processes run, die and start again,
\* an entry happens soon after its bar closed, at a trade made after the close,
\* and at most once for a bar.
THEOREM EntriesInTime == Spec => []EntriesAreFresh
<1>1. AccountsServed => EntriesAreFresh
  BY DEF AccountsServed, Served, Fresher, Timely, IsBuy, EntriesAreFresh, Buys
<1> QED
  BY <1>1, AccountsServedInvariant, PTL

\* After a stop the account passes CooldownBars whole bars before it enters.
THEOREM CooldownKept == Spec => []CooldownServed
<1>1. AccountsServed => CooldownServed
  BY DEF AccountsServed, Served, Paused, IsStop, IsBuy, CooldownServed, Buys, Sells
<1> QED
  BY <1>1, AccountsServedInvariant, PTL

\* The account is what its fill rows add up to, whatever processes run, die and
\* start again, if a signal is stale before the next bar closes.
THEOREM AuditKept ==
  ASSUME MaxSignalDelay < Interval
  PROVE  Spec => []AuditMatchesAccount
<1>1. ASSUME MaxSignalDelay < Interval, Inductive, AccountsServed PROVE AuditMatchesAccount
  <2>1. Audited(account, fills) /\ Fresher(fills) /\ fills \in SUBSET FillType
    BY <1>1 DEF AccountsServed, Served, Apart, Inductive, TypeOK
  <2>2. ASSUME NEW f \in fills, NEW g \in fills, IsBuy(f), IsBuy(g), f.at = g.at
        PROVE  f = g
    <3>1. /\ Timely(f) /\ Timely(g) /\ f.bar \in Int /\ g.bar \in Int
          /\ f \in FillType /\ g \in FillType
      BY <2>1, <2>2, CloseNat DEF Fresher, FillType
    <3>2. ~(f.bar < g.bar) /\ ~(g.bar < f.bar)
      BY <1>1, <2>2, <3>1, EntriesApart DEF Apart
    <3>3. f.bar = g.bar
      BY <3>1, <3>2
    <3> QED
      BY <2>1, <2>2, <3>3 DEF Fresher
  <2>3. account.cash = InitialCash - MapThenSumSet(Outlay, fills)
    BY <2>1 DEF Audited, Spent
  <2>4. ASSUME NEW f \in Sells
        PROVE  /\ Cardinality({g \in Buys : g.at = f.of}) = 1
               /\ Cardinality({g \in Sells : g.of = f.of}) = 1
    <3>1. {g \in Sells : g.of = f.of} = {f}
      BY <2>1 DEF Audited, Closing, IsSale, Sells
    <3>2. PICK e \in fills : IsBuy(e) /\ e.at = f.of
      BY <2>1 DEF Audited, Closing, IsSale, Sells
    <3>3. {g \in Buys : g.at = f.of} = {e}
      BY <2>2, <3>2 DEF Buys, IsBuy
    <3> QED
      BY <3>1, <3>3, FS_Singleton
  <2>5. \A f \in fills : f \in Unsold <=> IsBuy(f) /\ ~Sold(f, fills)
    BY DEF Unsold, Buys, Sells, Sold, IsBuy, IsSale
  <2>6. Unsold \subseteq fills
    BY DEF Unsold, Buys
  <2>7. CASE Open(account)
    <3>1. PICK e \in fills : /\ IsBuy(e) /\ ~Sold(e, fills)
                            /\ e.at = account.entered /\ Outlay(e) = account.entry
      BY <2>1, <2>7 DEF Audited, Unclosed
    <3>2. Unsold = {e}
      BY <2>1, <2>2, <2>5, <2>6, <3>1 DEF Audited, Unclosed
    <3>3. e.price + Cost = account.entry
      BY <3>1 DEF Outlay, IsBuy
    <3> QED
      BY <2>3, <2>4, <2>7, <3>1, <3>2, <3>3 DEF AuditMatchesAccount
  <2>8. CASE ~Open(account)
    <3>1. Unsold = {}
      BY <2>1, <2>5, <2>6, <2>8 DEF Audited, Unclosed
    <3> QED
      BY <2>3, <2>4, <2>8, <3>1 DEF AuditMatchesAccount
  <2> QED
    BY <2>7, <2>8
<1> QED
  BY <1>1, AccountsServedInvariant, InductiveInvariant, PTL

=============================================================================
