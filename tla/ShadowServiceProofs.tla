------------------------- MODULE ShadowServiceProofs -------------------------
(***************************************************************************)
(* Proofs about the shadow account and the service that drives it.         *)
(*                                                                         *)
(* The account by itself: its inductive invariant, the safety properties   *)
(* it yields and what a step may do, for every value of the constants      *)
(* under which a start never reads an earlier wall clock than those        *)
(* before it.                                                              *)
(*                                                                         *)
(* The service: it uses the account only as ShadowLedger allows, so that   *)
(* the account's theorems hold under it, and its own safety properties.    *)
(* The invariant joins Inductive of the account with what the threads know *)
(* of it.                                                                  *)
(***************************************************************************)
EXTENDS ShadowService, FiniteSetTheorems, TLAPS

-----------------------------------------------------------------------------
(* The account: ShadowLedger *)

\* Every pending order belongs to the newest run, so expiring the newest
\* run's orders leaves none.
LEMMA ExpiringAll ==
  ASSUME PendingOnlyWhileTrading
  PROVE  pending \ PendingOf(newest) = {} /\ PendingOf(newest) = pending
BY DEF PendingOnlyWhileTrading, PendingOf

\* A row whose lifecycle is moved keeps its type and its account.
LEMMA MovedType ==
  ASSUME NEW row \in Row, NEW l \in Lifecycle, NEW h \in HaltReason \union EngineReason
  PROVE  /\ Moved(row, l, h) \in Row
         /\ Moved(row, l, h).status = l
         /\ Moved(row, l, h).lifecycle = l
         /\ Moved(row, l, h).halt = h
         /\ Moved(row, l, h).started = row.started
         /\ Moved(row, l, h).cash = row.cash
         /\ Moved(row, l, h).base = row.base
BY DEF Moved, Row, Lifecycle, RecoverableStatus, ActiveStatus

\* Starts on an empty ledger.
LEMMA InitInductive == Init => Inductive
<1> SUFFICES ASSUME Init PROVE Inductive
  OBVIOUS
<1>1. TypeOK
  <2>1. (CHOOSE fp \in Fingerprint : TRUE) \in Fingerprint
    BY InputAssumption
  <2>2. run \in [RunId -> Row]
    BY <2>1 DEF Init, Row, Lifecycle, RecoverableStatus, ActiveStatus, EngineReason
  <2> QED
    BY <2>2, InputAssumption DEF Init, TypeOK, NoBook, Book
<1>2. pending = {} /\ newest = 0 /\ phase = "down"
  BY DEF Init
<1> QED
  BY <1>1, <1>2 DEF Inductive, OnlyNewestActive, StartedInOrder, WarmupCounted,
     PendingOnlyWhileTrading, OrdersCovered, NoPyramiding

\* A transaction of the newest run that expires its orders and moves it out
\* of trading, or into a fresh warmup while flat, keeps the invariant.
LEMMA LeavingTrading ==
  ASSUME Inductive, newest > 0, UNCHANGED newest,
         alerted' \in SUBSET HaltReason,
         NEW l \in Lifecycle \ {"running"}, NEW h \in HaltReason \union EngineReason,
         run' = [run EXCEPT ![newest] = Moved(@, l, h)],
         pending' = pending \ PendingOf(newest),
         last' \in Book, streak' \in 0..WarmupBooks, warm' \in 0..WarmupBooks,
         phase' \in {"down", "open", "failing", "halt_failed", "closing"},
         l = "warmup" => warm' = 0 /\ streak' = 0 /\ run[newest].base = 0,
         h \in Automatic => l = "halted_recovery" /\ run[newest].base > 0
  PROVE  Inductive'
<1>1. newest \in RunId /\ run[newest] \in Row
  BY DEF Inductive, TypeOK, RunId
<1> DEFINE row == Moved(run[newest], l, h)
<1>2. /\ row \in Row /\ row.status = l /\ row.lifecycle = l /\ row.halt = h
      /\ row.started = run[newest].started
      /\ row.base = run[newest].base
  BY <1>1, MovedType
<1> HIDE DEF row
<1>3. run' = [run EXCEPT ![newest] = row] /\ run'[newest'] = row
  BY <1>1 DEF row, Inductive, TypeOK
<1>4. pending' = {}
  BY ExpiringAll DEF Inductive
<1>5. TypeOK'
  BY <1>2, <1>3, <1>4 DEF Inductive, TypeOK
<1>6. \A r \in 1..newest : r # newest => run'[r] = run[r]
  BY <1>3 DEF Inductive, TypeOK, RunId
<1>7. OnlyNewestActive'
  BY <1>2, <1>3, <1>6 DEF Inductive, OnlyNewestActive
<1>8. StartedInOrder'
  BY <1>2, <1>3, <1>6 DEF Inductive, StartedInOrder
<1>9. WarmupCounted'
  BY <1>1, <1>2, <1>3, InputAssumption
  DEF WarmupCounted, NeedsLiquidation, Inductive, TypeOK, Row
<1> QED
  BY <1>4, <1>5, <1>7, <1>8, <1>9
  DEF Inductive, PendingOnlyWhileTrading, OrdersCovered, NoPyramiding

\* A step that changes only the phase of the process keeps the invariant.
LEMMA PhaseOnly ==
  ASSUME Inductive, newest > 0,
         UNCHANGED <<newest, run, warm, last, pending, alerted, streak>>,
         phase' \in {"down", "open", "failing", "halt_failed", "closing"}
  PROVE  Inductive'
<1>1. TypeOK'
  BY DEF Inductive, TypeOK
<1>2. OnlyNewestActive' /\ StartedInOrder' /\ WarmupCounted'
  BY DEF Inductive, OnlyNewestActive, StartedInOrder, WarmupCounted
<1>3. PendingOnlyWhileTrading' /\ OrdersCovered' /\ NoPyramiding'
  BY DEF Inductive, PendingOnlyWhileTrading, OrdersCovered, NoPyramiding
<1> QED
  BY <1>1, <1>2, <1>3 DEF Inductive

\* Every step but a start is taken by a process that has a run.
LEMMA HasRun == ASSUME Inductive, phase # "down" PROVE newest > 0 /\ newest \in RunId
BY DEF Inductive, TypeOK, RunId

LEMMA NewRowType ==
  ASSUME NEW reason \in EngineReason \union HaltReason, NEW fp \in Fingerprint,
         NEW wall \in Wall, NEW cash \in Nat, NEW base \in Nat
  PROVE  LET row == NewRow(reason, fp, wall, cash, base)
         IN /\ row \in Row /\ row.started = wall /\ row.halt = reason
            /\ row.status = row.lifecycle
            /\ row.lifecycle # "running"
            /\ row.lifecycle = "warmup" <=> reason = "none"
            /\ row.lifecycle \in {"warmup", "halted_recovery"}
            /\ row.cash = cash /\ row.base = base
BY InputAssumption DEF NewRow, Row, Lifecycle, RecoverableStatus, ActiveStatus

LEMMA StartFirstStep ==
  ASSUME Inductive, NEW fp \in Fingerprint, NEW wall \in Wall, StartFirst(fp, wall)
  PROVE  Inductive'
<1> DEFINE row == NewRow("none", fp, wall, InitialCash, 0)
<1>1. /\ row \in Row /\ row.started = wall /\ row.halt = "none"
      /\ row.status = "warmup" /\ row.lifecycle = "warmup" /\ row.base = 0
  <2>1. InitialCash \in Nat /\ 0 \in Nat /\ "none" \in EngineReason
    BY InputAssumption DEF EngineReason
  <2> QED
    BY <2>1, NewRowType
<1>2. newest = 0
  BY DEF StartFirst, Inductive, TypeOK, OnlyNewestActive, Recoverable, Row,
         RecoverableStatus, Lifecycle, ActiveStatus, RunId
<1>3. pending = {} /\ pending' = {}
  BY <1>2 DEF Inductive, TypeOK, Order, RunId, StartFirst, PendingOnlyWhileTrading
<1>4. /\ newest' = 1 /\ newest' \in RunId
      /\ run' = [run EXCEPT ![1] = row] /\ run'[1] = row
      /\ warm' = 0 /\ streak' = 0 /\ last' = NoBook /\ alerted' = {} /\ phase' = "open"
  BY <1>2, InputAssumption DEF StartFirst, OpenEngine, Inductive, TypeOK, RunId
<1> HIDE DEF row
<1>5. TypeOK'
  BY <1>1, <1>3, <1>4, InputAssumption DEF Inductive, TypeOK, RunId, NoBook, Book
<1>6. OnlyNewestActive' /\ StartedInOrder'
  BY <1>1, <1>4 DEF OnlyNewestActive, StartedInOrder
<1>7. WarmupCounted'
  BY <1>1, <1>4, InputAssumption DEF WarmupCounted, NeedsLiquidation, Automatic
<1> QED
  BY <1>3, <1>4, <1>5, <1>6, <1>7
  DEF Inductive, PendingOnlyWhileTrading, OrdersCovered, NoPyramiding

\* Under an advancing clock the predecessor start_run selects is the newest
\* run, whatever state a crash or a stop left it in.
LEMMA PredecessorIsNewest ==
  ASSUME Inductive, newest > 0, NEW p \in 1..newest, IsPredecessor(p)
  PROVE  p = newest
<1>1. newest \in RunId /\ run \in [RunId -> Row] /\ newest \in Nat
  BY DEF Inductive, TypeOK, RunId
<1>2. run[newest].status \in RecoverableStatus
  BY <1>1 DEF Inductive, OnlyNewestActive, Row, Lifecycle, RecoverableStatus
<1>3. newest \in Recoverable
  BY <1>1, <1>2 DEF Recoverable
<1>4. run[newest].started <= run[p].started
  BY <1>3 DEF IsPredecessor
<1>5. p # newest => run[p].started < run[newest].started
  BY DEF Inductive, StartedInOrder
<1>6. p \in RunId /\ run[newest].started \in Nat /\ run[p].started \in Nat
  BY <1>1, InputAssumption DEF Row, RunId
<1> QED
  BY <1>4, <1>5, <1>6

LEMMA StartNextStep ==
  ASSUME ClockMayStepBack = FALSE, Inductive,
         NEW fp \in Fingerprint, NEW wall \in Wall, StartNext(fp, wall)
  PROVE  Inductive'
<1>1. PICK p \in 1..newest :
        /\ IsPredecessor(p)
        /\ pending' = pending \ PendingOf(p)
        /\ run' = [run EXCEPT
                     ![p] = Superseded(@),
                     ![newest + 1] = NewRow(InheritedHalt(run[p], fp), fp, wall,
                                            run[p].cash, run[p].base)]
  BY DEF StartNext
<1>2. newest > 0 /\ newest \in RunId /\ newest + 1 \in RunId /\ newest \in Nat
  BY InputAssumption DEF Inductive, TypeOK, StartNext, RunId
<1>3. p = newest
  BY <1>1, <1>2, PredecessorIsNewest
<1> DEFINE reason == InheritedHalt(run[newest], fp)
           row == NewRow(reason, fp, wall, run[newest].cash, run[newest].base)
           old == Superseded(run[newest])
<1>4. run[newest] \in Row
  BY <1>2 DEF Inductive, TypeOK
<1>5. /\ reason \in EngineReason \union HaltReason
      /\ reason = "none" => run[newest].base = 0
      /\ reason \in Automatic => reason = "restart_with_open_position" /\ run[newest].base > 0
  BY <1>4, ReasonAssumption DEF InheritedHalt, Row, EngineReason, Latched, Automatic
<1>6. /\ row \in Row /\ row.started = wall /\ row.halt = reason
      /\ row.status = row.lifecycle /\ row.lifecycle # "running"
      /\ row.lifecycle = "warmup" <=> reason = "none"
      /\ row.lifecycle \in {"warmup", "halted_recovery"}
      /\ row.base = run[newest].base
  <2>1. run[newest].cash \in Nat /\ run[newest].base \in Nat
    BY <1>4 DEF Row
  <2> HIDE DEF reason
  <2> QED
    BY <2>1, <1>5, NewRowType
<1>7. /\ old \in Row /\ old.status \notin ActiveStatus
      /\ old.started = run[newest].started
  BY <1>4 DEF Superseded, Row, ActiveStatus, RecoverableStatus, Lifecycle, EngineReason
<1>8. pending' = {}
  BY <1>1, <1>3, ExpiringAll DEF Inductive
<1>9. /\ newest' = newest + 1
      /\ run' = [run EXCEPT ![newest] = old, ![newest + 1] = row]
      /\ warm' = 0 /\ streak' = 0 /\ last' = NoBook /\ alerted' = {} /\ phase' = "open"
  BY <1>1, <1>3 DEF StartNext, OpenEngine
<1> HIDE DEF row, old, reason
<1>10. /\ run'[newest'] = row
       /\ run'[newest] = old
       /\ \A r \in 1..newest : r # newest => run'[r] = run[r]
  <2>1. DOMAIN run = RunId
    BY DEF Inductive, TypeOK
  <2>2. \A r \in 1..newest : r \in RunId /\ r # newest + 1
    BY <1>2, InputAssumption DEF RunId
  <2>3. newest # newest + 1
    BY <1>2
  <2> QED
    BY <2>1, <2>2, <2>3, <1>2, <1>9
<1>11. TypeOK'
  BY <1>2, <1>6, <1>7, <1>8, <1>9, InputAssumption
  DEF Inductive, TypeOK, RunId, NoBook, Book
<1>12. OnlyNewestActive'
  <2>1. \A r \in 1..newest' : r # newest' => run'[r].status \notin ActiveStatus
    <3> TAKE r \in 1..newest'
    <3>1. CASE r = newest
      BY <3>1, <1>7, <1>10
    <3>2. CASE r # newest /\ r # newest'
      <4>1. r \in 1..newest
        BY <3>2, <1>2, <1>9
      <4> QED
        BY <4>1, <3>2, <1>10 DEF Inductive, OnlyNewestActive
    <3> QED
      BY <3>1, <3>2
  <2> QED
    BY <2>1, <1>6, <1>10 DEF OnlyNewestActive
<1>13. StartedInOrder'
  <2>1. \A r \in 1..newest : run[r].started < wall
    BY DEF StartNext
  <2>2. \A r \in 1..newest' : r # newest' => r \in 1..newest
    BY <1>2, <1>9
  <2>3. \A r \in 1..newest : run'[r].started = run[r].started
    BY <1>7, <1>10
  <2> QED
    BY <2>1, <2>2, <2>3, <1>6, <1>10 DEF StartedInOrder
<1>14. WarmupCounted'
  BY <1>5, <1>6, <1>9, <1>10, InputAssumption
  DEF WarmupCounted, NeedsLiquidation, Automatic
<1> QED
  BY <1>2, <1>8, <1>9, <1>11, <1>12, <1>13, <1>14
  DEF Inductive, PendingOnlyWhileTrading, OrdersCovered, NoPyramiding

\* A delivered book is a book.
LEMMA BookType == ASSUME NEW b \in Books PROVE b \in Book
<1>1. Connection \subseteq Nat /\ 0..MaxAt \subseteq Nat
  BY InputAssumption
<1>2. b \in [connection: Connection, at: 0..MaxAt, gap: BOOLEAN]
  BY DEF Books
<1> QED
  BY <1>1, <1>2 DEF Book

LEMMA BookBreaksStep ==
  ASSUME Inductive, NEW b \in Books, BookBreaks(b)
  PROVE  Inductive'
<1>1. newest > 0 /\ newest \in RunId
  BY HasRun DEF BookBreaks
<1>2. /\ UNCHANGED newest /\ alerted' \in SUBSET HaltReason
      /\ last' \in Book /\ streak' = 0 /\ warm' = 0
      /\ streak' \in 0..WarmupBooks /\ warm' \in 0..WarmupBooks
      /\ phase' \in {"down", "open", "failing", "halt_failed", "closing"}
      /\ pending' = pending \ PendingOf(newest)
  <2>1. b \in Book
    BY BookType
  <2>2. 0 \in 0..WarmupBooks
    BY InputAssumption
  <2> QED
    BY <2>1, <2>2 DEF BookBreaks, Inductive, TypeOK
<1>3. CASE run[newest].base > 0
  <2>1. run' = [run EXCEPT ![newest] =
                  Moved(@, "halted_recovery", "continuity_with_open_position")]
    BY <1>1, <1>3 DEF BookBreaks
  <2> QED
    BY <1>1, <1>2, <1>3, <2>1, LeavingTrading
    DEF Lifecycle, ActiveStatus, EngineReason
<1>4. CASE ~(run[newest].base > 0)
  <2>1. run' = [run EXCEPT ![newest] = Moved(@, "warmup", "none")]
    BY <1>1, <1>4 DEF BookBreaks
  <2>2. run[newest].base = 0
    BY <1>1, <1>4 DEF Inductive, TypeOK, Row
  <2> QED
    BY <1>1, <1>2, <2>1, <2>2, LeavingTrading
    DEF Lifecycle, ActiveStatus, EngineReason, Automatic
<1> QED
  BY <1>3, <1>4

LEMMA HaltStep ==
  ASSUME Inductive, NEW reason \in HaltReason, Halt(reason)
  PROVE  Inductive'
<1>1. newest > 0 /\ newest \in RunId
  BY HasRun DEF Halt
<1>2. reason \notin Automatic
  BY ReasonAssumption DEF Automatic, EngineReason
<1>3. "halted_recovery" \in Lifecycle \ {"running"} /\ reason \in HaltReason \union EngineReason
  BY DEF Lifecycle, ActiveStatus
<1>4. /\ UNCHANGED newest /\ alerted' \in SUBSET HaltReason
      /\ last' \in Book /\ streak' \in 0..WarmupBooks /\ warm' \in 0..WarmupBooks
      /\ phase' \in {"down", "open", "failing", "halt_failed", "closing"}
      /\ pending' = pending \ PendingOf(newest)
      /\ run' = [run EXCEPT ![newest] = Moved(@, "halted_recovery", reason)]
  BY DEF Halt, Inductive, TypeOK
<1> QED
  BY <1>1, <1>2, <1>3, <1>4, LeavingTrading

LEMMA StopStep ==
  ASSUME Inductive, Stop
  PROVE  Inductive'
<1>1. newest > 0 /\ newest \in RunId
  BY HasRun DEF Stop
<1> DEFINE reason == IF Latched(run[newest].halt) THEN run[newest].halt ELSE "graceful"
<1>2. reason \in HaltReason \union EngineReason /\ reason \notin Automatic
  BY <1>1, ReasonAssumption DEF Inductive, TypeOK, Row, Latched, EngineReason, Automatic
<1>3. "stopped" \in Lifecycle \ {"running"} /\ "stopped" # "warmup"
  BY DEF Lifecycle
<1>4. /\ UNCHANGED newest /\ alerted' \in SUBSET HaltReason
      /\ last' \in Book /\ streak' \in 0..WarmupBooks /\ warm' \in 0..WarmupBooks
      /\ phase' \in {"down", "open", "failing", "halt_failed", "closing"}
      /\ pending' = pending \ PendingOf(newest)
      /\ run' = [run EXCEPT ![newest] = Moved(@, "stopped", reason)]
  BY <1>1 DEF Stop, Inductive, TypeOK
<1> HIDE DEF reason
<1> QED
  BY <1>1, <1>2, <1>3, <1>4, LeavingTrading

LEMMA BookLiquidatesStep ==
  ASSUME Inductive, NEW b \in Books, BookLiquidates(b)
  PROVE  Inductive'
<1>1. newest > 0 /\ newest \in RunId /\ run[newest] \in Row
  BY HasRun DEF BookLiquidates, Inductive, TypeOK
<1>2. PICK sold \in 1..run[newest].base, quote \in Proceeds :
        /\ run' = [run EXCEPT ![newest] = Liquidated(@, sold, quote)]
        /\ warm' = IF sold = run[newest].base THEN 0 ELSE warm
  BY DEF BookLiquidates
<1>3. /\ run[newest].lifecycle = "halted_recovery" /\ run[newest].base > 0
      /\ run[newest].halt \in Automatic
  BY DEF BookLiquidates, NeedsLiquidation
<1>4. pending = {} /\ pending' = {}
  BY <1>3 DEF Inductive, PendingOnlyWhileTrading, BookLiquidates
<1> DEFINE row == Liquidated(run[newest], sold, quote)
<1>5. /\ row \in Row /\ row.started = run[newest].started
      /\ row.status = row.lifecycle
      /\ \/ /\ row.lifecycle = "warmup" /\ row.halt = "none"
            /\ row.base = 0 /\ warm' = 0
         \/ /\ row.lifecycle = "halted_recovery" /\ row.base > 0
            /\ row.halt = run[newest].halt
  <2> DEFINE filled == Sold(run[newest], sold, quote)
  <2>1. Fee(quote) \in Nat /\ Fee(quote) <= quote /\ quote \in Nat
    BY InputAssumption, FeeAssumption
  <2>2. run[newest].cash + (quote - Fee(quote)) \in Nat /\ run[newest].base - sold \in Nat
    BY <2>1, <1>1 DEF Row
  <2>3. run[newest].status = run[newest].lifecycle
    BY <1>1 DEF Inductive, OnlyNewestActive
  <2>4. /\ filled \in Row /\ filled.started = run[newest].started
        /\ filled.status = filled.lifecycle /\ filled.lifecycle = "halted_recovery"
        /\ filled.halt = run[newest].halt /\ filled.base = run[newest].base - sold
    BY <2>2, <2>3, <1>1, <1>3 DEF Row, Sold
  <2>5. row = IF filled.base = 0 THEN Moved(filled, "warmup", "none") ELSE filled
    BY DEF Liquidated
  <2> HIDE DEF filled, row
  <2>6. CASE filled.base = 0
    <3>1. "warmup" \in Lifecycle /\ "none" \in HaltReason \union EngineReason
      BY DEF Lifecycle, ActiveStatus, EngineReason
    <3>2. warm' = 0
      BY <2>4, <2>6, <1>1, <1>2 DEF Row
    <3> QED
      BY <3>1, <3>2, <2>4, <2>5, <2>6, MovedType
  <2>7. CASE filled.base # 0
    BY <2>4, <2>5, <2>7 DEF Row
  <2> QED
    BY <2>6, <2>7
<1>6. run' = [run EXCEPT ![newest] = row]
  BY <1>2
<1> HIDE DEF row
<1>7. /\ newest' = newest /\ run'[newest'] = row
      /\ \A r \in 1..newest : r # newest => run'[r] = run[r]
  BY <1>1, <1>6, InputAssumption DEF BookLiquidates, Inductive, TypeOK, RunId
<1>8. TypeOK'
  <2>1. warm' \in 0..WarmupBooks /\ streak' \in 0..WarmupBooks
    BY <1>2, InputAssumption DEF BookLiquidates, Inductive, TypeOK
  <2>2. last' \in Book
    BY BookType DEF BookLiquidates
  <2>3. run' \in [RunId -> Row]
    BY <1>1, <1>5, <1>6 DEF Inductive, TypeOK
  <2> QED
    BY <2>1, <2>2, <2>3 DEF BookLiquidates, Inductive, TypeOK
<1>9. OnlyNewestActive' /\ StartedInOrder'
  BY <1>1, <1>5, <1>7 DEF Inductive, OnlyNewestActive, StartedInOrder
<1>10. WarmupCounted'
  BY <1>1, <1>3, <1>5, <1>7, InputAssumption
  DEF WarmupCounted, NeedsLiquidation, Automatic, BookLiquidates
<1> QED
  BY <1>1, <1>4, <1>7, <1>8, <1>9, <1>10
  DEF Inductive, PendingOnlyWhileTrading, OrdersCovered, NoPyramiding

\* A fill the account can cover leaves a well-typed account behind, and
\* touches nothing but cash and position.
LEMMA FillsType ==
  ASSUME NEW row \in Row, NEW o \in Order, NEW filled \in Fills(o, row),
         IF o.side = "buy" THEN o.quote + Fee(o.quote) <= row.cash
                           ELSE o.base <= row.base
  PROVE  /\ filled \in Row
         /\ filled.status = row.status /\ filled.lifecycle = row.lifecycle
         /\ filled.halt = row.halt /\ filled.started = row.started
<1>1. CASE o.side = "buy"
  <2>1. PICK spent \in 1..o.quote, lots \in Lots : filled = Bought(row, spent, lots)
    BY <1>1 DEF Fills
  <2>2. o.quote \in IntentQuote /\ o.quote \in Nat
    <3>1. o.quote \in IntentQuote \union {0}
      BY DEF Order
    <3>2. 1..0 = {} /\ spent \in 1..o.quote
      OBVIOUS
    <3> QED
      BY <3>1, <3>2, InputAssumption
  <2>3. spent \in 0..o.quote /\ o.quote \in 0..o.quote
    BY <2>2
  <2>4. /\ Fee(spent) \in Nat /\ Fee(spent) <= Fee(o.quote) /\ Fee(o.quote) \in Nat
    <3> DEFINE quote == o.quote
    <3>1. quote \in IntentQuote \union Proceeds /\ spent \in 0..quote /\ quote \in 0..quote
      BY <2>2, <2>3
    <3> HIDE DEF quote
    <3>2. /\ Fee(spent) \in Nat /\ Fee(spent) <= Fee(quote) /\ Fee(quote) \in Nat
      BY <3>1, FeeAssumption
    <3> QED
      BY <3>2 DEF quote
  <2>5. row.cash \in Nat /\ row.base \in Nat /\ lots \in Nat
    BY InputAssumption DEF Row
  <2>6. row.cash - (spent + Fee(spent)) \in Nat /\ row.base + lots \in Nat
    BY <1>1, <2>2, <2>3, <2>4, <2>5
  <2> QED
    BY <2>1, <2>6 DEF Row, Bought
<1>2. CASE o.side # "buy"
  <2>1. PICK quote \in Proceeds, sold \in 1..o.base : filled = Sold(row, sold, quote)
    BY <1>2 DEF Fills
  <2>2. Fee(quote) \in Nat /\ Fee(quote) <= quote /\ quote \in Nat
    BY InputAssumption, FeeAssumption
  <2>3. row.cash \in Nat /\ row.base \in Nat /\ o.base \in Nat
    BY DEF Row, Order
  <2>4. row.cash + (quote - Fee(quote)) \in Nat /\ row.base - sold \in Nat
    BY <1>2, <2>2, <2>3
  <2> QED
    BY <2>1, <2>4 DEF Row, Sold
<1> QED
  BY <1>1, <1>2

\* With at most one pending order, a book either leaves the account alone and
\* keeps no order of another connection, or fills the order, which is due and
\* of its own connection, and keeps none.
LEMMA ResolutionCases ==
  ASSUME NEW row, NEW orders, NEW b, NEW res \in Resolutions(row, orders, b),
         \A o1, o2 \in orders : o1 = o2
  PROVE  \/ /\ res.row = row /\ res.left \subseteq orders
            /\ \A o \in res.left : o.connection = b.connection
         \/ /\ res.left = {}
            /\ \E o \in orders : /\ res.row \in Fills(o, row)
                                 /\ o.connection = b.connection
                                 /\ Due(o, b) /\ ~TooLate(o, b)
<1> DEFINE waiting == {o \in orders : o.connection = b.connection /\ ~Due(o, b)}
           fillable == {o \in orders : /\ o.connection = b.connection
                                      /\ Due(o, b) /\ ~TooLate(o, b)}
<1>1. CASE fillable = {}
  <2>1. res = [row |-> row, left |-> waiting]
    BY <1>1 DEF Resolutions
  <2> QED
    BY <2>1
<1>2. CASE fillable # {}
  <2>1. PICK o \in fillable : \E filled \in Fills(o, row) :
          res = [row |-> filled, left |-> waiting]
    BY <1>2 DEF Resolutions
  <2>2. waiting = {}
    BY <2>1
  <2> QED
    BY <2>1, <2>2
<1> QED
  BY <1>1, <1>2

\* An accepted intent becomes a well-typed order, with nothing else pending.
LEMMA NewOrderType ==
  ASSUME NEW intent \in Intent, NEW b \in Book, NEW r \in RunId,
         NEW row \in Row, NEW orders, Accepts(row, orders, intent)
  PROVE  LET o == NewOrder(r, intent, b)
         IN /\ o \in Order /\ o.run = r /\ o.connection = b.connection
            /\ orders = {} /\ row.lifecycle = "running"
            /\ o.side = "buy" => row.base = 0 /\ o.quote + Fee(o.quote) <= row.cash
            /\ o.side # "buy" => o.base <= row.base
<1>1. b.at + Latency \in Nat
  BY InputAssumption DEF Book
<1>2. CASE intent.side = "buy"
  <2>1. intent.quote \in IntentQuote /\ intent.base = 0
    BY <1>2 DEF Intent
  <2> QED
    BY <1>1, <1>2, <2>1 DEF NewOrder, Order, Accepts, Book
<1>3. CASE intent.side = "sell"
  <2>1. intent.quote = 0 /\ intent.base \in Nat
    BY <1>3, InputAssumption DEF Intent
  <2> QED
    BY <1>1, <1>3, <2>1 DEF NewOrder, Order, Accepts, Book
<1> QED
  BY <1>2, <1>3 DEF Accepts

LEMMA BookTradesStep ==
  ASSUME Inductive, NEW b \in Books, NEW intent \in Intent, BookTrades(b, intent)
  PROVE  Inductive'
<1>1. newest > 0 /\ newest \in RunId /\ run[newest] \in Row
  BY HasRun DEF BookTrades, Inductive, TypeOK
<1>2. PendingOf(newest) = pending
  BY ExpiringAll DEF Inductive
<1>3. PICK res \in Resolutions(run[newest], pending, b) :
        LET row == Warmed(res.row)
            placed == IF Accepts(row, res.left, intent)
                      THEN {NewOrder(newest, intent, b)} ELSE {}
        IN /\ run' = [run EXCEPT ![newest] = row]
           /\ pending' = (pending \ pending) \union res.left \union placed
  BY <1>2 DEF BookTrades
<1> DEFINE row == Warmed(res.row)
           placed == IF Accepts(row, res.left, intent)
                     THEN {NewOrder(newest, intent, b)} ELSE {}
<1>4. \/ /\ res.row = run[newest] /\ res.left \subseteq pending
         /\ \A o \in res.left : o.connection = b.connection
      \/ res.left = {} /\ \E o \in pending : res.row \in Fills(o, run[newest])
  BY ResolutionCases DEF Inductive
<1>5. /\ res.row \in Row
      /\ res.row.status = run[newest].status /\ res.row.lifecycle = run[newest].lifecycle
      /\ res.row.halt = run[newest].halt /\ res.row.started = run[newest].started
  <2>1. CASE res.row = run[newest]
    BY <1>1, <2>1
  <2>2. CASE \E o \in pending : res.row \in Fills(o, run[newest])
    <3>1. PICK o \in pending : res.row \in Fills(o, run[newest])
      BY <2>2
    <3>2. o \in Order /\ o.run = newest
      BY DEF Inductive, TypeOK, PendingOnlyWhileTrading
    <3>3. IF o.side = "buy" THEN o.quote + Fee(o.quote) <= run[newest].cash
                            ELSE o.base <= run[newest].base
      BY <3>2 DEF Inductive, OrdersCovered
    <3> QED
      BY <1>1, <3>1, <3>2, <3>3, FillsType
  <2> QED
    BY <1>4, <2>1, <2>2
<1>6. pending # {} => run[newest].lifecycle = "running"
  BY DEF Inductive, PendingOnlyWhileTrading
<1>7. run[newest].lifecycle # "running" => res.row = run[newest] /\ res.left = {}
  BY <1>4, <1>6
<1>8. /\ row \in Row /\ row.started = run[newest].started /\ row.status = row.lifecycle
      /\ \/ /\ run[newest].lifecycle = "warmup" /\ warm + 1 >= WarmupBooks
            /\ row.lifecycle = "running" /\ row.halt = "none"
         \/ /\ run[newest].lifecycle = "warmup" => warm + 1 < WarmupBooks
            /\ row = res.row
  <2>1. run[newest].status = run[newest].lifecycle
    BY <1>1 DEF Inductive, OnlyNewestActive
  <2>2. CASE res.row.lifecycle = "warmup" /\ warm + 1 >= WarmupBooks
    <3>1. "running" \in Lifecycle /\ "none" \in HaltReason \union EngineReason
      BY DEF Lifecycle, ActiveStatus, EngineReason
    <3>2. row = Moved(res.row, "running", "none")
      BY <2>2 DEF Warmed
    <3> HIDE DEF row
    <3> QED
      BY <3>1, <3>2, <2>2, <1>5, MovedType
  <2>3. CASE ~(res.row.lifecycle = "warmup" /\ warm + 1 >= WarmupBooks)
    <3>1. row = res.row
      BY <2>3 DEF Warmed
    <3>2. warm \in Nat
      BY InputAssumption DEF Inductive, TypeOK
    <3> HIDE DEF row
    <3> QED
      BY <3>1, <3>2, <2>1, <2>3, <1>5, InputAssumption
  <2> QED
    BY <2>2, <2>3
<1>9. run' = [run EXCEPT ![newest] = row] /\ pending' = res.left \union placed
  BY <1>3
<1>10. /\ newest' = newest /\ run'[newest'] = row
       /\ \A r \in 1..newest : r # newest => run'[r] = run[r]
  <2> HIDE DEF row
  <2> QED
    BY <1>1, <1>9, InputAssumption DEF BookTrades, Inductive, TypeOK, RunId
<1>11. b \in Book
  BY BookType
<1>12. placed # {} =>
         LET o == NewOrder(newest, intent, b)
         IN /\ placed = {o} /\ o \in Order /\ o.run = newest
            /\ o.connection = b.connection
            /\ res.left = {} /\ row.lifecycle = "running"
            /\ o.side = "buy" => row.base = 0 /\ o.quote + Fee(o.quote) <= row.cash
            /\ o.side # "buy" => o.base <= row.base
  <2> SUFFICES ASSUME Accepts(row, res.left, intent)
               PROVE  LET o == NewOrder(newest, intent, b)
                      IN /\ o \in Order /\ o.run = newest
                         /\ o.connection = b.connection
                         /\ res.left = {} /\ row.lifecycle = "running"
                         /\ o.side = "buy" => row.base = 0 /\ o.quote + Fee(o.quote) <= row.cash
                         /\ o.side # "buy" => o.base <= row.base
    OBVIOUS
  <2> HIDE DEF row
  <2> QED
    BY <1>1, <1>8, <1>11, NewOrderType
<1>13. pending' = res.left \/ (res.left = {} /\ pending' = placed)
  BY <1>9, <1>12
<1> HIDE DEF row
<1>14. \A o \in res.left :
         /\ o \in pending /\ o.run = newest /\ o.connection = b.connection
         /\ row = run[newest] /\ row.lifecycle = "running"
  <2> TAKE o \in res.left
  <2>1. res.row = run[newest] /\ o \in pending /\ o.connection = b.connection
    BY <1>4
  <2>2. run[newest].lifecycle = "running"
    BY <2>1, <1>6
  <2> QED
    BY <2>1, <2>2, <1>8 DEF Inductive, PendingOnlyWhileTrading
<1>15. \A o \in pending' :
         /\ o \in Order /\ o.run = newest /\ o.connection = b.connection
         /\ row.lifecycle = "running"
         /\ IF o.side = "buy" THEN o.quote + Fee(o.quote) <= row.cash /\ row.base = 0
                              ELSE o.base <= row.base
  <2>1. \A o \in res.left :
          /\ o \in Order
          /\ IF o.side = "buy" THEN o.quote + Fee(o.quote) <= row.cash /\ row.base = 0
                               ELSE o.base <= row.base
    BY <1>14 DEF Inductive, TypeOK, OrdersCovered, NoPyramiding
  <2>2. \A o \in placed : /\ o \in Order /\ o.run = newest
                           /\ o.connection = b.connection
                           /\ row.lifecycle = "running"
                           /\ IF o.side = "buy"
                              THEN o.quote + Fee(o.quote) <= row.cash /\ row.base = 0
                              ELSE o.base <= row.base
    <3> HIDE DEF placed
    <3> QED
      BY <1>12
  <2> HIDE DEF placed
  <2> QED
    BY <2>1, <2>2, <1>13, <1>14
<1>16. \A o1, o2 \in pending' : o1 = o2
  <2> HIDE DEF placed
  <2> QED
    BY <1>12, <1>13, <1>14 DEF Inductive
<1> HIDE DEF placed
<1>17. TypeOK'
  <2>1. run' \in [RunId -> Row]
    BY <1>1, <1>8, <1>9 DEF Inductive, TypeOK
  <2>2. warm' \in 0..WarmupBooks /\ streak' \in 0..WarmupBooks
    BY <1>1, InputAssumption DEF BookTrades, Inductive, TypeOK, WarmupCounted
  <2> QED
    BY <2>1, <2>2, <1>11, <1>15 DEF BookTrades, Inductive, TypeOK
<1>18. OnlyNewestActive' /\ StartedInOrder'
  BY <1>1, <1>8, <1>10 DEF Inductive, OnlyNewestActive, StartedInOrder
<1>19. WarmupCounted'
  <2>1. /\ ~NeedsLiquidation(run[newest])
        /\ warm' = IF run[newest].lifecycle = "warmup" THEN warm + 1 ELSE warm
        /\ streak' = IF streak < WarmupBooks THEN streak + 1 ELSE streak
    BY DEF BookTrades
  <2>2. warm \in 0..WarmupBooks /\ streak \in 0..WarmupBooks
    BY DEF Inductive, TypeOK
  <2>3. CASE row = res.row /\ run[newest].lifecycle # "warmup"
    BY <2>1, <2>2, <2>3, <1>1, <1>5, <1>10, InputAssumption
    DEF Inductive, WarmupCounted
  <2>4. CASE run[newest].lifecycle = "warmup"
    BY <2>1, <2>2, <2>4, <1>1, <1>7, <1>8, <1>10, InputAssumption
    DEF Inductive, WarmupCounted, NeedsLiquidation, Automatic
  <2> QED
    BY <2>3, <2>4, <1>8
<1>20. PendingOnlyWhileTrading'
  <2>1. last' = b
    BY DEF BookTrades
  <2> QED
    BY <2>1, <1>8, <1>10, <1>15 DEF PendingOnlyWhileTrading
<1>21. OrdersCovered' /\ NoPyramiding'
  BY <1>10, <1>15 DEF OrdersCovered, NoPyramiding
<1> QED
  BY <1>1, <1>10, <1>16, <1>17, <1>18, <1>19, <1>20, <1>21 DEF Inductive

LEMMA StutterStep == ASSUME Inductive, UNCHANGED vars PROVE Inductive'
<1>1. UNCHANGED <<newest, run, warm, last, pending, alerted, phase, streak>>
  BY DEF vars
<1>2. CASE newest > 0
  BY <1>1, <1>2, PhaseOnly DEF Inductive, TypeOK
<1>3. CASE newest = 0
  <2>1. TypeOK' /\ newest' = 0 /\ phase' = "down" /\ pending' = {}
    <3>1. pending = {}
      BY <1>3 DEF Inductive, TypeOK, Order, RunId, PendingOnlyWhileTrading
    <3> QED
      BY <1>1, <1>3, <3>1 DEF Inductive, TypeOK
  <2> QED
    BY <2>1 DEF Inductive, OnlyNewestActive, StartedInOrder, WarmupCounted,
       PendingOnlyWhileTrading, OrdersCovered, NoPyramiding
<1> QED
  BY <1>2, <1>3 DEF Inductive, TypeOK

LEMMA NextStep ==
  ASSUME ClockMayStepBack = FALSE, Inductive, [Next]_vars
  PROVE  Inductive'
<1>1. ASSUME NEW fp \in Fingerprint, NEW wall \in Wall, StartFirst(fp, wall)
      PROVE  Inductive'
  BY <1>1, StartFirstStep
<1>2. ASSUME NEW fp \in Fingerprint, NEW wall \in Wall, StartNext(fp, wall)
      PROVE  Inductive'
  BY <1>2, StartNextStep
<1>3. ASSUME NEW b \in Books, BookBreaks(b) PROVE Inductive'
  BY <1>3, BookBreaksStep
<1>4. ASSUME NEW b \in Books, BookLiquidates(b) PROVE Inductive'
  BY <1>4, BookLiquidatesStep
<1>5. ASSUME NEW b \in Books, NEW intent \in Intent, BookTrades(b, intent)
      PROVE  Inductive'
  BY <1>5, BookTradesStep
<1>6. ASSUME NEW reason \in HaltReason, Halt(reason) PROVE Inductive'
  BY <1>6, HaltStep
<1>7. CASE Stop
  BY <1>7, StopStep
<1>8. ASSUME phase # "down",
             UNCHANGED <<newest, run, warm, last, pending, alerted, streak>>,
             phase' \in {"down", "open", "failing", "halt_failed", "closing"}
      PROVE  Inductive'
  BY <1>8, HasRun, PhaseOnly
<1>9. CASE Exit
  BY <1>8, <1>9 DEF Exit
<1>10. ASSUME NEW b \in Books, BookRaises(b) PROVE Inductive'
  BY <1>8, <1>10 DEF BookRaises
<1>11. ASSUME NEW b \in Books, NEW intent \in Intent, BookRepeats(b, intent)
       PROVE  Inductive'
  BY <1>8, <1>11 DEF BookRepeats
<1>12. ASSUME NEW reason \in HaltReason, HaltCollides(reason) PROVE Inductive'
  BY <1>8, <1>12 DEF HaltCollides
<1>13. CASE UNCHANGED vars
  BY <1>13, StutterStep
<1> QED
  BY <1>1, <1>2, <1>3, <1>4, <1>5, <1>6, <1>7, <1>9, <1>10, <1>11, <1>12, <1>13
  DEF Next

-----------------------------------------------------------------------------
(* Theorems *)

\* The inductive invariant holds in every reachable state of the account, with
\* any number of runs, books, crashes and halts.
THEOREM InductiveInvariant ==
  ASSUME ClockMayStepBack = FALSE PROVE Spec => []Inductive
BY InitInductive, NextStep, PTL DEF Spec

\* Cash and position never go negative and every row keeps its shape.
THEOREM TypeCorrect == ASSUME ClockMayStepBack = FALSE PROVE Spec => []TypeOK
<1>1. Inductive => TypeOK
  BY DEF Inductive
<1> QED
  BY <1>1, InductiveInvariant, PTL

\* No order outlives the trading phase, the connection or the run it was
\* placed in.
THEOREM NoStrayOrder ==
  ASSUME ClockMayStepBack = FALSE PROVE Spec => []PendingOnlyWhileTrading
<1>1. Inductive => PendingOnlyWhileTrading
  BY DEF Inductive
<1> QED
  BY <1>1, InductiveInvariant, PTL

\* One pending order in the whole database, across runs.
THEOREM AtMostOnePending ==
  ASSUME ClockMayStepBack = FALSE PROVE Spec => []OnePendingOrder
<1>1. ASSUME Inductive PROVE OnePendingOrder
  <2>1. CASE pending = {}
    BY <2>1, FS_EmptySet DEF OnePendingOrder
  <2>2. CASE pending # {}
    <3>1. PICK o : pending = {o}
      BY <1>1, <2>2 DEF Inductive
    <3>2. Cardinality({o}) = 1
      BY FS_Singleton
    <3> QED
      BY <3>1, <3>2 DEF OnePendingOrder
  <2> QED
    BY <2>1, <2>2
<1> QED
  BY <1>1, InductiveInvariant, PTL

\* The account still covers a waiting order when its book comes, so a fill
\* never overdraws it.
THEOREM FillsCovered == ASSUME ClockMayStepBack = FALSE PROVE Spec => []OrdersCovered
<1>1. Inductive => OrdersCovered
  BY DEF Inductive
<1> QED
  BY <1>1, InductiveInvariant, PTL

\* One position only: no buy waits on an account that holds one.
THEOREM OnePositionOnly == ASSUME ClockMayStepBack = FALSE PROVE Spec => []NoPyramiding
<1>1. Inductive => NoPyramiding
  BY DEF Inductive
<1> QED
  BY <1>1, InductiveInvariant, PTL

\* No order precedes a full, unbroken warmup.
THEOREM EntryAfterWarmup == ASSUME ClockMayStepBack = FALSE PROVE Spec => []WarmEntry
<1>1. ASSUME Inductive PROVE WarmEntry
  <2> SUFFICES ASSUME NEW o \in pending PROVE streak >= WarmupBooks
    BY DEF WarmEntry
  <2>1. run[newest].lifecycle = "running"
    BY <1>1 DEF Inductive, PendingOnlyWhileTrading
  <2>2. newest > 0
    BY <1>1 DEF Inductive, TypeOK, Order, RunId, PendingOnlyWhileTrading
  <2> QED
    BY <1>1, <2>1, <2>2, InputAssumption DEF Inductive, WarmupCounted
<1> QED
  BY <1>1, InductiveInvariant, PTL

\* A single live run: every other row is closed.
THEOREM SingleLiveRun ==
  ASSUME ClockMayStepBack = FALSE PROVE Spec => []OnlyNewestActive
<1>1. Inductive => OnlyNewestActive
  BY DEF Inductive
<1> QED
  BY <1>1, InductiveInvariant, PTL

\* Restarts move no money.
THEOREM RestartKeepsAccount ==
  ASSUME ClockMayStepBack = FALSE PROVE Spec => AccountCarriedOver
<1> DEFINE Carried == newest' # newest /\ newest > 0 =>
                        /\ run'[newest'].cash = run[newest].cash
                        /\ run'[newest'].base = run[newest].base
<1>1. ASSUME Inductive, [Next]_vars PROVE Carried
  <2> SUFFICES ASSUME newest' # newest, newest > 0 PROVE Carried
    OBVIOUS
  <2>1. PICK fp \in Fingerprint, wall \in Wall :
          StartFirst(fp, wall) \/ StartNext(fp, wall)
    BY <1>1 DEF Next, vars, BookBreaks, BookLiquidates, BookTrades, BookRepeats,
                BookRaises, Halt, HaltCollides, Stop, Exit
  <2>2. newest \in RunId /\ run \in [RunId -> Row] /\ newest + 1 \in RunId /\ newest \in Nat
    BY <1>1, <2>1, InputAssumption DEF Inductive, TypeOK, RunId, StartFirst, StartNext
  <2>3. ~StartFirst(fp, wall)
    BY <1>1, <2>2 DEF StartFirst, Inductive, OnlyNewestActive, Recoverable, Row,
                      RecoverableStatus, Lifecycle
  <2>4. PICK p \in 1..newest :
          /\ IsPredecessor(p)
          /\ run' = [run EXCEPT
                       ![p] = Superseded(@),
                       ![newest + 1] = NewRow(InheritedHalt(run[p], fp), fp, wall,
                                              run[p].cash, run[p].base)]
    BY <2>1, <2>3 DEF StartNext
  <2>5. p = newest
    BY <1>1, <2>4, PredecessorIsNewest
  <2>6. newest' = newest + 1
    BY <2>1, <2>3 DEF StartNext, OpenEngine
  <2>7. run'[newest + 1] = NewRow(InheritedHalt(run[newest], fp), fp, wall,
                                  run[newest].cash, run[newest].base)
    BY <2>2, <2>4, <2>5
  <2> QED
    BY <2>6, <2>7 DEF NewRow
<1> QED
  BY <1>1, InductiveInvariant, PTL DEF Spec, AccountCarriedOver

-----------------------------------------------------------------------------
(* What a step may do: when an order fills, what lifts a latched halt, and *)
(* that every step is one ShadowLifecycle allows. *)

\* What the invariant leaves open and the steps below need: a waiting order
\* is dated no later than the last book and falls due one latency after, and
\* a run that warms up carries no halt.
Dated ==
  /\ \A o \in pending : o.at <= last.at /\ o.due = o.at + Latency
  /\ newest > 0 /\ run[newest].lifecycle = "warmup" => run[newest].halt = "none"

\* A start by a successor writes this row and closes the predecessor's, whose
\* account stays.
LEMMA Succeeded ==
  ASSUME ClockMayStepBack = FALSE, Inductive,
         NEW fp \in Fingerprint, NEW wall \in Wall, StartNext(fp, wall)
  PROVE  /\ newest > 0 /\ newest' = newest + 1 /\ pending' = {}
         /\ run'[newest].base = run[newest].base
         /\ run'[newest'] = NewRow(InheritedHalt(run[newest], fp), fp, wall,
                                   run[newest].cash, run[newest].base)
         /\ run[newest] \in Row /\ phase' = "open" /\ phase = "down"
<1>1. PICK p \in 1..newest :
        /\ IsPredecessor(p)
        /\ pending' = pending \ PendingOf(p)
        /\ run' = [run EXCEPT
                     ![p] = Superseded(@),
                     ![newest + 1] = NewRow(InheritedHalt(run[p], fp), fp, wall,
                                            run[p].cash, run[p].base)]
  BY DEF StartNext
<1>2. /\ newest > 0 /\ newest \in RunId /\ newest + 1 \in RunId /\ newest \in Nat
      /\ run \in [RunId -> Row]
  BY InputAssumption DEF Inductive, TypeOK, StartNext, RunId
<1>3. p = newest
  BY <1>1, <1>2, PredecessorIsNewest
<1>4. newest' = newest + 1 /\ phase' = "open" /\ phase = "down"
  BY DEF StartNext, OpenEngine
<1> DEFINE row == NewRow(InheritedHalt(run[newest], fp), fp, wall,
                         run[newest].cash, run[newest].base)
           old == Superseded(run[newest])
<1>5. old.base = run[newest].base
  BY <1>2 DEF Superseded, Row
<1>6. run' = [run EXCEPT ![newest] = old, ![newest + 1] = row]
  BY <1>1, <1>3
<1> HIDE DEF row, old
<1>7. run'[newest] = old /\ run'[newest + 1] = row
  <2>1. newest # newest + 1
    BY <1>2
  <2> QED
    BY <2>1, <1>2, <1>6
<1>8. pending' = {}
  BY <1>1, <1>3, ExpiringAll DEF Inductive
<1> QED
  BY <1>2, <1>4, <1>5, <1>7, <1>8 DEF row

\* A start on an empty ledger finds nothing and opens flat.
LEMMA Opened ==
  ASSUME Inductive, NEW fp \in Fingerprint, NEW wall \in Wall, StartFirst(fp, wall)
  PROVE  /\ newest = 0 /\ newest' = 1 /\ pending = {} /\ pending' = {}
         /\ run'[newest'] = NewRow("none", fp, wall, InitialCash, 0)
         /\ phase' = "open" /\ phase = "down"
<1>1. newest = 0
  BY DEF StartFirst, Inductive, TypeOK, OnlyNewestActive, Recoverable, Row,
         RecoverableStatus, Lifecycle, ActiveStatus, RunId
<1>2. pending = {} /\ pending' = {}
  BY <1>1 DEF Inductive, TypeOK, Order, RunId, StartFirst, PendingOnlyWhileTrading
<1>3. newest' = 1 /\ phase' = "open" /\ phase = "down" /\ 1 \in RunId
  BY <1>1, InputAssumption DEF StartFirst, OpenEngine, RunId
<1> QED
  BY <1>1, <1>2, <1>3 DEF StartFirst, Inductive, TypeOK

\* A break expires every order and moves the run to recovery or to warmup.
LEMMA Broken ==
  ASSUME Inductive, NEW b \in Books, BookBreaks(b)
  PROVE  /\ newest > 0 /\ newest' = newest /\ pending' = {} /\ last' = b
         /\ run'[newest].base = run[newest].base /\ run[newest] \in Row
         /\ IF run[newest].base > 0
            THEN /\ run'[newest].lifecycle = "halted_recovery"
                 /\ run'[newest].halt = "continuity_with_open_position"
            ELSE run'[newest].lifecycle = "warmup" /\ run'[newest].halt = "none"
<1>1. newest > 0
  BY HasRun DEF BookBreaks
<1>2. /\ newest' = newest /\ last' = b /\ pending' = {}
  BY ExpiringAll DEF BookBreaks, Inductive
<1>3. "none" \in HaltReason \union EngineReason
  BY DEF EngineReason
<1>4. "continuity_with_open_position" \in HaltReason \union EngineReason
  BY DEF EngineReason
<1>5. "warmup" \in Lifecycle /\ "halted_recovery" \in Lifecycle
  BY DEF Lifecycle, ActiveStatus
<1> DEFINE row == IF run[newest].base > 0
                  THEN Moved(run[newest], "halted_recovery", "continuity_with_open_position")
                  ELSE Moved(run[newest], "warmup", "none")
<1>6. run' = [run EXCEPT ![newest] = row]
  BY DEF BookBreaks
<1>7. newest \in RunId /\ run[newest] \in Row
  BY HasRun DEF BookBreaks, Inductive, TypeOK
<1>8. run'[newest] = row
  BY <1>6, <1>7 DEF Inductive, TypeOK
<1>9. CASE run[newest].base > 0
  <2>1. run'[newest] = Moved(run[newest], "halted_recovery", "continuity_with_open_position")
    BY <1>8, <1>9
  <2> QED
    BY <2>1, <1>1, <1>2, <1>4, <1>5, <1>7, <1>9, MovedType
<1>10. CASE ~(run[newest].base > 0)
  <2>1. run'[newest] = Moved(run[newest], "warmup", "none")
    BY <1>8, <1>10
  <2> QED
    BY <2>1, <1>1, <1>2, <1>3, <1>5, <1>7, <1>10, MovedType
<1> QED
  BY <1>9, <1>10

\* A halt or a stop expires every order and keeps the account.
LEMMA Withdrawn ==
  ASSUME Inductive, newest > 0, NEW l \in Lifecycle, NEW h \in HaltReason \union EngineReason,
         run' = [run EXCEPT ![newest] = Moved(@, l, h)],
         pending' = pending \ PendingOf(newest)
  PROVE  /\ pending' = {} /\ run[newest] \in Row
         /\ run'[newest].lifecycle = l /\ run'[newest].halt = h
         /\ run'[newest].base = run[newest].base
<1>1. newest \in RunId /\ run[newest] \in Row /\ run'[newest] = Moved(run[newest], l, h)
  BY InputAssumption DEF Inductive, TypeOK, RunId
<1>2. pending' = {}
  BY ExpiringAll DEF Inductive
<1> QED
  BY <1>1, <1>2, MovedType

\* A recovery sale ends flat in a fresh warmup, or sells a part and changes
\* nothing else of the row but cash and position.
LEMMA SoldOff ==
  ASSUME Inductive, NEW b \in Books, BookLiquidates(b)
  PROVE  /\ newest > 0 /\ newest' = newest /\ phase' = phase /\ phase = "open"
         /\ pending = {} /\ pending' = {}
         /\ run[newest] \in Row /\ NeedsLiquidation(run[newest])
         /\ \/ /\ run'[newest].lifecycle = "warmup" /\ run'[newest].halt = "none"
               /\ run'[newest].base = 0
            \/ /\ run'[newest].lifecycle = run[newest].lifecycle
               /\ run'[newest].halt = run[newest].halt
               /\ run'[newest].base > 0
<1>1. newest > 0 /\ newest \in RunId /\ run[newest] \in Row
  BY HasRun DEF BookLiquidates, Inductive, TypeOK
<1>2. /\ newest' = newest /\ phase' = phase /\ phase = "open" /\ pending' = pending
      /\ NeedsLiquidation(run[newest])
  BY DEF BookLiquidates
<1>3. pending = {}
  BY <1>2 DEF Inductive, PendingOnlyWhileTrading, NeedsLiquidation
<1>4. PICK sold \in 1..run[newest].base, quote \in Proceeds :
        run' = [run EXCEPT ![newest] = Liquidated(@, sold, quote)]
  BY DEF BookLiquidates
<1> DEFINE filled == Sold(run[newest], sold, quote)
<1>5. run[newest].base - sold \in Nat
  BY <1>1 DEF Row
<1>6. run'[newest] = IF filled.base = 0 THEN Moved(filled, "warmup", "none") ELSE filled
  BY <1>1, <1>4 DEF Liquidated, Inductive, TypeOK
<1>7. /\ filled.lifecycle = run[newest].lifecycle /\ filled.halt = run[newest].halt
      /\ filled.base = run[newest].base - sold /\ filled \in Row
  <2>1. Fee(quote) \in Nat /\ Fee(quote) <= quote /\ quote \in Nat
    BY InputAssumption, FeeAssumption
  <2>2. run[newest].cash + (quote - Fee(quote)) \in Nat
    BY <2>1, <1>1 DEF Row
  <2> QED
    BY <2>2, <1>1, <1>5 DEF Sold, Row
<1> HIDE DEF filled
<1>8. CASE filled.base = 0
  <2>1. "warmup" \in Lifecycle /\ "none" \in HaltReason \union EngineReason
    BY DEF Lifecycle, ActiveStatus, EngineReason
  <2>2. run'[newest] = Moved(filled, "warmup", "none")
    BY <1>6, <1>8
  <2> QED
    BY <2>1, <2>2, <1>1, <1>2, <1>3, <1>7, <1>8, MovedType
<1>9. CASE filled.base # 0
  BY <1>1, <1>2, <1>3, <1>5, <1>6, <1>7, <1>9
<1> QED
  BY <1>8, <1>9

\* A continuous book leaves the account alone, or fills the waiting order,
\* which is due and of the book's connection; then it may end the warmup and
\* admit an order.
LEMMA Traded ==
  ASSUME Inductive, NEW b \in Books, NEW intent \in Intent, BookTrades(b, intent)
  PROVE  /\ newest > 0 /\ newest' = newest /\ phase' = phase /\ phase = "open"
         /\ last' = b /\ ~b.gap /\ ~IsRegressed(b)
         /\ run[newest] \in Row /\ run[newest].lifecycle # "stopped"
         /\ ~NeedsLiquidation(run[newest])
         /\ \E filled \in Row, left \in SUBSET pending :
              /\ filled.lifecycle = run[newest].lifecycle
              /\ filled.halt = run[newest].halt
              /\ run'[newest] = Warmed(filled)
              /\ pending' = left \union
                   (IF Accepts(Warmed(filled), left, intent)
                    THEN {NewOrder(newest, intent, b)} ELSE {})
              /\ \A o \in left : o.connection = b.connection
              /\ \/ filled = run[newest]
                 \/ /\ left = {}
                    /\ \E o \in pending : /\ o.connection = b.connection
                                          /\ Due(o, b) /\ ~TooLate(o, b)
<1>1. newest > 0 /\ newest \in RunId /\ run[newest] \in Row
  BY HasRun DEF BookTrades, Inductive, TypeOK
<1>2. PendingOf(newest) = pending
  BY ExpiringAll DEF Inductive
<1>3. PICK res \in Resolutions(run[newest], pending, b) :
        LET row == Warmed(res.row)
            placed == IF Accepts(row, res.left, intent)
                      THEN {NewOrder(newest, intent, b)} ELSE {}
        IN /\ run' = [run EXCEPT ![newest] = row]
           /\ pending' = (pending \ pending) \union res.left \union placed
  BY <1>2 DEF BookTrades
<1> DEFINE filled == res.row
           left == res.left
<1>4. \/ /\ filled = run[newest] /\ left \subseteq pending
         /\ \A o \in left : o.connection = b.connection
      \/ /\ left = {}
         /\ \E o \in pending : /\ filled \in Fills(o, run[newest])
                               /\ o.connection = b.connection
                               /\ Due(o, b) /\ ~TooLate(o, b)
  BY ResolutionCases DEF Inductive
<1>5. /\ run' = [run EXCEPT ![newest] = Warmed(filled)]
      /\ pending' = left \union (IF Accepts(Warmed(filled), left, intent)
                                 THEN {NewOrder(newest, intent, b)} ELSE {})
  BY <1>3
<1> HIDE DEF filled, left
<1>6. /\ filled \in Row /\ filled.lifecycle = run[newest].lifecycle
      /\ filled.halt = run[newest].halt
  <2>1. CASE filled = run[newest]
    BY <1>1, <2>1
  <2>2. CASE \E o \in pending : filled \in Fills(o, run[newest])
    <3>1. PICK o \in pending : filled \in Fills(o, run[newest])
      BY <2>2
    <3>2. o \in Order /\ o.run = newest
      BY DEF Inductive, TypeOK, PendingOnlyWhileTrading
    <3>3. IF o.side = "buy" THEN o.quote + Fee(o.quote) <= run[newest].cash
                            ELSE o.base <= run[newest].base
      BY <3>2 DEF Inductive, OrdersCovered
    <3> QED
      BY <1>1, <3>1, <3>2, <3>3, FillsType
  <2> QED
    BY <1>4, <2>1, <2>2
<1>7. run'[newest] = Warmed(filled)
  BY <1>1, <1>5 DEF Inductive, TypeOK
<1>8. left \in SUBSET pending /\ \A o \in left : o.connection = b.connection
  BY <1>4
<1>9. \/ filled = run[newest]
      \/ /\ left = {}
         /\ \E o \in pending : o.connection = b.connection /\ Due(o, b) /\ ~TooLate(o, b)
  BY <1>4
<1>10. /\ newest' = newest /\ phase' = phase /\ phase = "open"
       /\ last' = b /\ ~b.gap /\ ~IsRegressed(b)
       /\ run[newest].lifecycle # "stopped"
       /\ ~NeedsLiquidation(run[newest])
  BY DEF BookTrades, Breaks
<1> QED
  BY <1>1, <1>5, <1>6, <1>7, <1>8, <1>9, <1>10

\* The end of the warmup leaves the account alone.
LEMMA WarmedRow ==
  ASSUME NEW row \in Row
  PROVE  /\ Warmed(row).base = row.base
         /\ \/ Warmed(row) = row
            \/ /\ row.lifecycle = "warmup"
               /\ Warmed(row).lifecycle = "running" /\ Warmed(row).halt = "none"
<1>1. "running" \in Lifecycle /\ "none" \in HaltReason \union EngineReason
  BY DEF Lifecycle, ActiveStatus, EngineReason
<1>2. CASE row.lifecycle = "warmup" /\ warm + 1 >= WarmupBooks
  <2>1. Warmed(row) = Moved(row, "running", "none")
    BY <1>2 DEF Warmed
  <2> QED
    BY <2>1, <1>1, <1>2, MovedType
<1>3. CASE ~(row.lifecycle = "warmup" /\ warm + 1 >= WarmupBooks)
  BY <1>3 DEF Warmed
<1> QED
  BY <1>2, <1>3

\* Every step starts a run, breaks, liquidates, trades, halts or stops, or
\* leaves rows, orders and books alone.
LEMMA Kinds ==
  ASSUME Inductive, [Next]_vars
  PROVE  \/ \E fp \in Fingerprint, wall \in Wall : StartFirst(fp, wall) \/ StartNext(fp, wall)
         \/ \E b \in Books : BookBreaks(b) \/ BookLiquidates(b)
         \/ \E b \in Books, intent \in Intent : BookTrades(b, intent)
         \/ /\ phase # "down" /\ phase' # "down" /\ newest > 0 /\ newest' = newest
            /\ \E h \in HaltReason \union EngineReason, l \in {"halted_recovery", "stopped"} :
                 /\ run' = [run EXCEPT ![newest] = Moved(@, l, h)]
                 /\ pending' = pending \ PendingOf(newest)
                 /\ l = "halted_recovery" => h \in HaltReason
                 /\ l = "stopped" => Latched(h) \/ ~Latched(run[newest].halt)
         \/ /\ UNCHANGED <<newest, run, last, pending>>
            /\ phase' \in {"down", phase} \/ (phase # "down" /\ phase' # "down")
<1>1. ASSUME NEW reason \in HaltReason, Halt(reason)
      PROVE  /\ phase # "down" /\ phase' # "down" /\ newest > 0 /\ newest' = newest
             /\ run' = [run EXCEPT ![newest] = Moved(@, "halted_recovery", reason)]
             /\ pending' = pending \ PendingOf(newest)
  BY <1>1, HasRun DEF Halt
<1> DEFINE graceful == IF Latched(run[newest].halt) THEN run[newest].halt ELSE "graceful"
<1>2. CASE Stop
  <2>1. newest > 0 /\ run[newest] \in Row
    BY <1>2, HasRun DEF Stop, Inductive, TypeOK
  <2>2. /\ graceful \in HaltReason \union EngineReason
        /\ Latched(graceful) \/ ~Latched(run[newest].halt)
    BY <2>1 DEF Row, EngineReason
  <2>3. /\ phase # "down" /\ phase' # "down" /\ newest' = newest
        /\ run' = [run EXCEPT ![newest] = Moved(@, "stopped", graceful)]
        /\ pending' = pending \ PendingOf(newest)
    BY <1>2 DEF Stop
  <2> HIDE DEF graceful
  <2> QED
    BY <2>1, <2>2, <2>3
<1>3. ASSUME \/ \E b \in Books : BookRaises(b)
             \/ \E b \in Books, intent \in Intent : BookRepeats(b, intent)
             \/ \E reason \in HaltReason : HaltCollides(reason)
             \/ Exit
             \/ UNCHANGED vars
      PROVE  /\ UNCHANGED <<newest, run, last, pending>>
             /\ phase' \in {"down", phase} \/ (phase # "down" /\ phase' # "down")
  BY <1>3 DEF BookRaises, BookRepeats, HaltCollides, Exit, vars
<1>4. CASE \E reason \in HaltReason : Halt(reason)
  <2>1. PICK reason \in HaltReason : Halt(reason)
    BY <1>4
  <2>2. "halted_recovery" # "stopped" /\ reason \in HaltReason \union EngineReason
    OBVIOUS
  <2> QED
    BY <1>1, <2>1, <2>2
<1> HIDE DEF graceful
<1> QED
  BY <1>2, <1>3, <1>4 DEF Next

LEMMA DatedStep ==
  ASSUME ClockMayStepBack = FALSE, Inductive, Dated, [Next]_vars
  PROVE  Dated'
<1>1. ASSUME NEW fp \in Fingerprint, NEW wall \in Wall, StartFirst(fp, wall)
      PROVE  Dated'
  <2>1. 0 \in Nat /\ InitialCash \in Nat /\ "none" \in EngineReason
    BY InputAssumption DEF EngineReason
  <2> QED
    BY <1>1, <2>1, Opened, NewRowType DEF Dated
<1>2. ASSUME NEW fp \in Fingerprint, NEW wall \in Wall, StartNext(fp, wall)
      PROVE  Dated'
  <2>1. /\ InheritedHalt(run[newest], fp) \in HaltReason \union EngineReason
        /\ run[newest].cash \in Nat /\ run[newest].base \in Nat
    BY <1>2, Succeeded DEF InheritedHalt, Row, EngineReason
  <2> DEFINE reason == InheritedHalt(run[newest], fp)
             row == NewRow(reason, fp, wall, run[newest].cash, run[newest].base)
  <2>2. row.lifecycle = "warmup" => row.halt = "none"
    <3> HIDE DEF reason
    <3>1. reason \in HaltReason \union EngineReason
      BY <2>1 DEF reason
    <3> QED
      BY <2>1, <3>1, NewRowType
  <2>3. pending' = {} /\ run'[newest'] = row
    BY <1>2, Succeeded
  <2> QED
    BY <2>2, <2>3 DEF Dated
<1>3. ASSUME NEW b \in Books, BookBreaks(b) PROVE Dated'
  BY <1>3, Broken DEF Dated
<1>4. ASSUME NEW b \in Books, BookLiquidates(b) PROVE Dated'
  BY <1>4, SoldOff DEF Dated, NeedsLiquidation
<1>5. ASSUME NEW b \in Books, NEW intent \in Intent, BookTrades(b, intent)
      PROVE  Dated'
  <2>1. PICK filled \in Row, left \in SUBSET pending :
          /\ filled.lifecycle = run[newest].lifecycle
          /\ filled.halt = run[newest].halt
          /\ run'[newest] = Warmed(filled)
          /\ pending' = left \union
               (IF Accepts(Warmed(filled), left, intent)
                THEN {NewOrder(newest, intent, b)} ELSE {})
          /\ \A o \in left : o.connection = b.connection
    BY <1>5, Traded
  <2>2. newest' = newest /\ last' = b /\ ~IsRegressed(b) /\ newest > 0
    BY <1>5, Traded
  <2>3. b.at \in Nat /\ last.at \in Nat
    BY BookType DEF Book, Inductive, TypeOK
  <2>4. \A o \in left : o.at <= b.at /\ o.due = o.at + Latency
    <3> TAKE o \in left
    <3>1. o.connection = last.connection /\ o.at \in Nat
      BY DEF Inductive, PendingOnlyWhileTrading, TypeOK, Order
    <3>2. last.at < b.at
      BY <2>1, <2>2, <2>3, <3>1 DEF IsRegressed
    <3> QED
      BY <2>3, <3>1, <3>2 DEF Dated
  <2>5. NewOrder(newest, intent, b).at = b.at /\ NewOrder(newest, intent, b).due = b.at + Latency
    BY DEF NewOrder
  <2>6. \A o \in pending' : o.at <= last'.at /\ o.due = o.at + Latency
    BY <2>1, <2>2, <2>3, <2>4, <2>5
  <2>7. run'[newest].lifecycle = "warmup" => run'[newest].halt = "none"
    BY <2>1, <2>2, WarmedRow DEF Dated
  <2> QED
    BY <2>2, <2>6, <2>7 DEF Dated
<1>6. ASSUME newest > 0, newest' = newest,
             NEW h \in HaltReason \union EngineReason, NEW l \in {"halted_recovery", "stopped"},
             run' = [run EXCEPT ![newest] = Moved(@, l, h)],
             pending' = pending \ PendingOf(newest)
      PROVE  Dated'
  <2>1. l \in Lifecycle /\ l # "warmup"
    BY DEF Lifecycle, ActiveStatus
  <2> QED
    BY <1>6, <2>1, Withdrawn DEF Dated
<1>7. CASE UNCHANGED <<newest, run, last, pending>>
  BY <1>7 DEF Dated
<1> QED
  BY <1>1, <1>2, <1>3, <1>4, <1>5, <1>6, <1>7, Kinds

LEMMA DatedInvariant == ASSUME ClockMayStepBack = FALSE PROVE Spec => []Dated
<1>1. Init => Dated
  BY DEF Init, Dated
<1>2. Inductive /\ Dated /\ [Next]_vars => Dated'
  BY DatedStep
<1> QED
  BY <1>1, <1>2, InductiveInvariant, PTL DEF Spec

-----------------------------------------------------------------------------
(* Theorems *)

\* A fill happens on a gapless book of the order's own connection, later than
\* the book the order was placed on, after the latency and within the gap
\* limit.
THEOREM FillsAreCausal == ASSUME ClockMayStepBack = FALSE PROVE Spec => FillCausal
<1> DEFINE Causal == \A o \in pending :
                       o \notin pending' /\ run'[o.run].base # run[o.run].base =>
                         /\ ~last'.gap
                         /\ last'.connection = o.connection
                         /\ last'.at > o.at
                         /\ last'.at \in o.due..(o.due + MaxBookGap)
<1>1. ASSUME ClockMayStepBack = FALSE, Inductive, Dated, [Next]_vars PROVE Causal
  <2> SUFFICES ASSUME NEW o \in pending, run'[o.run].base # run[o.run].base
               PROVE  /\ ~last'.gap /\ last'.connection = o.connection
                      /\ last'.at > o.at /\ last'.at \in o.due..(o.due + MaxBookGap)
    OBVIOUS
  <2>1. o.run = newest /\ o.connection = last.connection /\ o \in Order
    BY <1>1 DEF Inductive, PendingOnlyWhileTrading, TypeOK
  <2>2. PICK b \in Books, intent \in Intent : BookTrades(b, intent)
    <3>1. ~\E fp \in Fingerprint, wall \in Wall : StartFirst(fp, wall) \/ StartNext(fp, wall)
      BY <1>1, <2>1, Opened, Succeeded
    <3>2. ~\E b \in Books : BookBreaks(b) \/ BookLiquidates(b)
      BY <1>1, <2>1, Broken, SoldOff
    <3>3. ~\E h \in HaltReason \union EngineReason, l \in {"halted_recovery", "stopped"} :
             /\ newest > 0
             /\ run' = [run EXCEPT ![newest] = Moved(@, l, h)]
             /\ pending' = pending \ PendingOf(newest)
      <4>1. {"halted_recovery", "stopped"} \subseteq Lifecycle
        BY DEF Lifecycle, ActiveStatus
      <4> QED
        BY <4>1, <1>1, <2>1, Withdrawn
    <3> QED
      BY <1>1, <3>1, <3>2, <3>3, Kinds
  <2>3. last' = b /\ ~b.gap /\ ~IsRegressed(b)
    BY <1>1, <2>2, Traded
  <2>4. PICK p \in pending : p.connection = b.connection /\ Due(p, b) /\ ~TooLate(p, b)
    <3>1. PICK filled \in Row, left \in SUBSET pending :
            /\ run'[newest] = Warmed(filled)
            /\ \/ filled = run[newest]
               \/ \E p \in pending : p.connection = b.connection /\ Due(p, b) /\ ~TooLate(p, b)
      BY <1>1, <2>2, Traded
    <3> QED
      BY <3>1, <2>1, WarmedRow
  <2>5. p = o
    BY <1>1 DEF Inductive
  <2>6. /\ b.at \in Nat /\ last.at \in Nat /\ o.at \in Nat /\ o.due \in Nat
        /\ MaxBookGap \in Nat
    BY <1>1, <2>1, BookType, InputAssumption DEF Book, Inductive, TypeOK, Order
  <2>7. last.at < b.at
    BY <2>1, <2>3, <2>4, <2>5, <2>6 DEF IsRegressed
  <2>8. o.at <= last.at
    BY <1>1 DEF Dated
  <2> QED
    BY <2>3, <2>4, <2>5, <2>6, <2>7, <2>8 DEF Due, TooLate
<1> QED
  BY <1>1, InductiveInvariant, DatedInvariant, PTL DEF Spec, FillCausal

\* A latched halt leaves the newest run only through a continuity break:
\* neither a stop, a crash, a restart, a fill nor a recovery sale lifts it.
THEOREM LatchSurvives ==
  ASSUME ClockMayStepBack = FALSE PROVE Spec => LatchLiftedOnlyByBreak
<1> DEFINE Kept == newest > 0 /\ Latched(run[newest].halt) /\ ~Latched(run'[newest'].halt) =>
                     /\ newest' = newest
                     /\ last'.gap \/ last'.connection # last.connection
<1>1. ASSUME ClockMayStepBack = FALSE, Inductive, Dated, [Next]_vars PROVE Kept
  <2> SUFFICES ASSUME newest > 0, Latched(run[newest].halt), ~Latched(run'[newest'].halt)
               PROVE  newest' = newest /\ (last'.gap \/ last'.connection # last.connection)
    OBVIOUS
  <2>1. /\ run[newest].halt \notin Automatic
        /\ run[newest].halt # "none"
    BY ReasonAssumption DEF Latched, Automatic, EngineReason
  <2>2. ~\E fp \in Fingerprint, wall \in Wall : StartFirst(fp, wall) \/ StartNext(fp, wall)
    <3>1. ASSUME NEW fp \in Fingerprint, NEW wall \in Wall, StartNext(fp, wall)
          PROVE  run'[newest'].halt = run[newest].halt
      <4>1. InheritedHalt(run[newest], fp) = run[newest].halt
        BY DEF InheritedHalt
      <4>2. run'[newest'] = NewRow(run[newest].halt, fp, wall, run[newest].cash, run[newest].base)
        BY <1>1, <3>1, <4>1, Succeeded
      <4> QED
        BY <4>2 DEF NewRow
    <3>2. ASSUME NEW fp \in Fingerprint, NEW wall \in Wall, StartNext(fp, wall)
          PROVE  FALSE
      BY <3>1, <3>2 DEF Latched
    <3>3. ASSUME NEW fp \in Fingerprint, NEW wall \in Wall, StartFirst(fp, wall)
          PROVE  FALSE
      <4>1. newest = 0
        BY <1>1, <3>3, Opened
      <4> QED
        BY <4>1
    <3> QED
      BY <3>2, <3>3
  <2>3. ~\E b \in Books : BookLiquidates(b)
    BY <2>1 DEF BookLiquidates, NeedsLiquidation
  <2>4. ~\E b \in Books, intent \in Intent : BookTrades(b, intent)
    <3> SUFFICES ASSUME NEW b \in Books, NEW intent \in Intent, BookTrades(b, intent)
                 PROVE  FALSE
      OBVIOUS
    <3>1. PICK filled \in Row, left \in SUBSET pending :
            /\ filled.lifecycle = run[newest].lifecycle
            /\ filled.halt = run[newest].halt
            /\ run'[newest] = Warmed(filled)
      BY <1>1, Traded
    <3>2. newest' = newest
      BY DEF BookTrades
    <3>3. filled.lifecycle # "warmup"
      BY <1>1, <2>1, <3>1 DEF Dated
    <3>4. Warmed(filled) = filled
      BY <3>3, WarmedRow
    <3> QED
      BY <3>1, <3>2, <3>4
  <2>5. ~\E h \in HaltReason \union EngineReason, l \in {"halted_recovery", "stopped"} :
           /\ newest' = newest
           /\ run' = [run EXCEPT ![newest] = Moved(@, l, h)]
           /\ pending' = pending \ PendingOf(newest)
           /\ l = "halted_recovery" => h \in HaltReason
           /\ l = "stopped" => Latched(h) \/ ~Latched(run[newest].halt)
    <3>1. {"halted_recovery", "stopped"} \subseteq Lifecycle
      BY DEF Lifecycle, ActiveStatus
    <3> QED
      BY <3>1, <1>1, Withdrawn DEF Latched
  <2>6. \/ \E b \in Books : BookBreaks(b)
        \/ UNCHANGED <<newest, run, last, pending>>
    BY <1>1, <2>2, <2>3, <2>4, <2>5, Kinds
  <2>7. PICK b \in Books : BookBreaks(b)
    BY <2>6
  <2> QED
    BY <2>7 DEF BookBreaks, Breaks
<1> QED
  BY <1>1, InductiveInvariant, DatedInvariant, PTL DEF Spec, LatchLiftedOnlyByBreak

-----------------------------------------------------------------------------
(* The account keeps the promises of its lifecycle *)

\* Each transaction as a step of the lifecycle.
LEMMA StartLaunches ==
  ASSUME ClockMayStepBack = FALSE, Inductive, NEW fp \in Fingerprint, NEW wall \in Wall,
         StartFirst(fp, wall) \/ StartNext(fp, wall)
  PROVE  Promise!Launch
<1>1. CASE StartFirst(fp, wall)
  <2>1. 0 \in Nat /\ InitialCash \in Nat /\ "none" \in EngineReason
    BY InputAssumption DEF EngineReason
  <2> DEFINE row == NewRow("none", fp, wall, InitialCash, 0)
  <2>2. /\ newest = 0 /\ newest' = 1 /\ pending' = {} /\ phase = "down" /\ phase' = "open"
        /\ run'[newest'].lifecycle = "warmup" /\ run'[newest'].base = 0
    <3>1. /\ newest = 0 /\ newest' = 1 /\ pending' = {}
          /\ phase = "down" /\ phase' = "open" /\ run'[newest'] = row
      BY <1>1, Opened
    <3>2. row.lifecycle = "warmup" /\ row.base = 0
      BY <2>1, NewRowType
    <3> HIDE DEF row
    <3> QED
      BY <3>1, <3>2
  <2>3. LifecycleMode = "down" /\ LifecycleMode' = "warmup"
    BY <2>2 DEF LifecycleMode
  <2> QED
    BY <2>2, <2>3 DEF Promise!Launch
<1>2. CASE StartNext(fp, wall)
  <2> DEFINE reason == InheritedHalt(run[newest], fp)
             row == NewRow(reason, fp, wall, run[newest].cash, run[newest].base)
  <2>1. /\ newest > 0 /\ newest' = newest + 1 /\ pending' = {}
        /\ run'[newest'] = row /\ run[newest] \in Row
        /\ phase' = "open" /\ phase = "down"
    BY <1>2, Succeeded
  <2>2. /\ reason \in HaltReason \union EngineReason
        /\ run[newest].cash \in Nat /\ run[newest].base \in Nat
        /\ reason = "none" => run[newest].base = 0
        /\ reason \in Automatic => run[newest].base > 0
    BY <2>1, ReasonAssumption DEF InheritedHalt, Row, EngineReason, Automatic, Latched
  <2> HIDE DEF reason
  <2>3. /\ row.base = run[newest].base /\ row.halt = reason
        /\ row.lifecycle = "warmup" <=> reason = "none"
        /\ row.lifecycle \in {"warmup", "halted_recovery"}
    BY <2>2, NewRowType
  <2> HIDE DEF row
  <2>4. LifecycleMode = "down"
    BY <2>1 DEF LifecycleMode
  <2>5. LifecycleMode' = IF row.lifecycle = "warmup" THEN "warmup"
                         ELSE IF reason \in Automatic THEN "recovering" ELSE "latched"
    BY <2>1, <2>3 DEF LifecycleMode, Automatic
  <2>6. newest' > 0 /\ run'[newest'].base = run[newest].base
    <3>1. newest \in Nat
      BY InputAssumption DEF Inductive, TypeOK
    <3> QED
      BY <3>1, <2>1, <2>3
  <2> QED
    BY <2>1, <2>2, <2>3, <2>4, <2>5, <2>6 DEF Promise!Launch
<1> QED
  BY <1>1, <1>2

LEMMA BreakBreaks ==
  ASSUME Inductive, NEW b \in Books, BookBreaks(b)
  PROVE  Promise!Break
<1>1. phase = "open" /\ phase' = "open" /\ run[newest].lifecycle # "stopped"
  BY DEF BookBreaks
<1>2. run[newest].lifecycle \in Lifecycle
  BY Broken DEF Row
<1>3. LifecycleMode \in {"warmup", "trading", "recovering", "latched"}
  BY <1>1, <1>2 DEF LifecycleMode, Lifecycle, ActiveStatus
<1>4. LifecycleMode' = IF run[newest].base > 0 THEN "recovering" ELSE "warmup"
  BY <1>1, Broken DEF LifecycleMode, Automatic
<1> QED
  BY <1>3, <1>4, Broken DEF Promise!Break, Promise!Open, Promise!Mode

LEMMA SaleLiquidates ==
  ASSUME Inductive, NEW b \in Books, BookLiquidates(b)
  PROVE  Promise!Liquidate \/ UNCHANGED Promise!vars
<1>1. /\ newest > 0 /\ newest' = newest /\ phase' = phase /\ phase = "open"
      /\ pending = {} /\ pending' = {} /\ NeedsLiquidation(run[newest])
  BY SoldOff
<1>2. LifecycleMode = "recovering" /\ run[newest].base > 0
  BY <1>1 DEF LifecycleMode, NeedsLiquidation
<1>3. CASE run'[newest].lifecycle = "warmup" /\ run'[newest].base = 0
  <2>1. LifecycleMode' = "warmup"
    BY <1>1, <1>3 DEF LifecycleMode
  <2> QED
    BY <2>1, <1>1, <1>2, <1>3 DEF Promise!Liquidate
<1>4. CASE /\ run'[newest].lifecycle = run[newest].lifecycle
           /\ run'[newest].halt = run[newest].halt
           /\ run'[newest].base > 0
  <2>1. LifecycleMode' = LifecycleMode
    BY <1>1, <1>4 DEF LifecycleMode, Automatic
  <2> QED
    BY <2>1, <1>1, <1>2, <1>4 DEF Promise!vars
<1> QED
  BY <1>3, <1>4, SoldOff

LEMMA HaltOrStop ==
  ASSUME Inductive, newest > 0, newest' = newest, phase # "down", phase' # "down",
         NEW h \in HaltReason \union EngineReason, NEW l \in {"halted_recovery", "stopped"},
         run' = [run EXCEPT ![newest] = Moved(@, l, h)],
         pending' = pending \ PendingOf(newest),
         l = "halted_recovery" => h \in HaltReason
  PROVE  Promise!Latch \/ Promise!Stop
<1>1. l \in Lifecycle
  BY DEF Lifecycle, ActiveStatus
<1>2. /\ pending' = {} /\ run'[newest].lifecycle = l /\ run'[newest].halt = h
      /\ run'[newest].base = run[newest].base /\ run[newest].lifecycle \in Lifecycle
  BY <1>1, Withdrawn DEF Row
<1>3. LifecycleMode # "down"
  BY DEF LifecycleMode
<1>4. CASE l = "stopped"
  <2>1. LifecycleMode' = "stopped"
    BY <1>2, <1>4 DEF LifecycleMode
  <2> QED
    BY <2>1, <1>2, <1>3 DEF Promise!Stop
<1>5. CASE l = "halted_recovery"
  <2>1. h \notin Automatic
    BY <1>5, ReasonAssumption DEF Automatic, EngineReason
  <2>2. LifecycleMode' = "latched"
    BY <1>2, <1>5, <2>1 DEF LifecycleMode, Automatic
  <2> QED
    BY <2>2, <1>2, <1>3 DEF Promise!Latch
<1> QED
  BY <1>4, <1>5

LEMMA BookWarmsOrTrades ==
  ASSUME Inductive, NEW b \in Books, NEW intent \in Intent, BookTrades(b, intent)
  PROVE  Promise!WarmUp \/ Promise!Trade \/ UNCHANGED Promise!vars
<1>1. /\ newest > 0 /\ newest' = newest /\ phase' = phase /\ phase = "open"
      /\ run[newest] \in Row /\ run[newest].lifecycle # "stopped"
  BY Traded
<1>2. PICK filled \in Row, left \in SUBSET pending :
        /\ filled.lifecycle = run[newest].lifecycle
        /\ filled.halt = run[newest].halt
        /\ run'[newest] = Warmed(filled)
        /\ pending' = left \union
             (IF Accepts(Warmed(filled), left, intent)
              THEN {NewOrder(newest, intent, b)} ELSE {})
        /\ filled = run[newest] \/ pending # {}
  BY Traded
<1>3. pending # {} => run[newest].lifecycle = "running"
  BY DEF Inductive, PendingOnlyWhileTrading
<1>4. run'[newest].lifecycle # "running" => pending' = left
  <2>1. Accepts(Warmed(filled), left, intent) => run'[newest].lifecycle = "running"
    BY <1>2 DEF Accepts
  <2> QED
    BY <2>1, <1>2
<1>5. run'[newest].base = filled.base
  BY <1>2, WarmedRow
<1>6. CASE run[newest].lifecycle = "warmup"
  <2>1. filled = run[newest] /\ left = {}
    BY <1>2, <1>3, <1>6
  <2>2. run'[newest].lifecycle \in {"warmup", "running"}
    BY <1>2, <1>6, <2>1, WarmedRow
  <2>3. LifecycleMode = "warmup"
    BY <1>1, <1>6 DEF LifecycleMode
  <2>4. LifecycleMode' = IF run'[newest].lifecycle = "warmup" THEN "warmup" ELSE "trading"
    BY <1>1, <2>2 DEF LifecycleMode
  <2>5. run'[newest].base = run[newest].base
    BY <1>5, <2>1
  <2>6. pending' # {} => LifecycleMode' = "trading"
    BY <1>4, <2>1, <2>2, <2>4
  <2> QED
    BY <1>1, <2>2, <2>3, <2>4, <2>5, <2>6 DEF Promise!WarmUp
<1>7. CASE run[newest].lifecycle = "running"
  <2>1. run'[newest] = filled
    BY <1>2, <1>7, WarmedRow
  <2>2. LifecycleMode = "trading" /\ LifecycleMode' = "trading"
    BY <1>1, <1>2, <1>7, <2>1 DEF LifecycleMode
  <2>3. pending = {} => run'[newest].base = run[newest].base
    BY <1>2, <2>1
  <2> QED
    BY <1>1, <2>2, <2>3 DEF Promise!Trade
<1>8. CASE run[newest].lifecycle = "halted_recovery"
  <2>1. filled = run[newest] /\ left = {} /\ pending = {}
    BY <1>2, <1>3, <1>8
  <2>2. run'[newest] = run[newest]
    BY <1>2, <1>8, <2>1, WarmedRow
  <2>3. pending' = {}
    BY <1>4, <1>8, <2>1, <2>2
  <2>4. LifecycleMode' = LifecycleMode
    BY <1>1, <2>2 DEF LifecycleMode, Automatic
  <2> QED
    BY <1>1, <2>1, <2>2, <2>3, <2>4 DEF Promise!vars
<1> QED
  BY <1>1, <1>6, <1>7, <1>8 DEF Row, Lifecycle, ActiveStatus

LEMMA QuietOrCrash ==
  ASSUME UNCHANGED <<newest, run, last, pending>>,
         phase' \in {"down", phase} \/ (phase # "down" /\ phase' # "down")
  PROVE  Promise!Crash \/ UNCHANGED Promise!vars
<1>1. CASE phase' = "down"
  <2>1. LifecycleMode' = "down"
    BY <1>1 DEF LifecycleMode
  <2> QED
    BY <2>1 DEF Promise!Crash
<1>2. CASE phase' # "down"
  <2>1. LifecycleMode' = LifecycleMode
    BY <1>2 DEF LifecycleMode, Automatic
  <2> QED
    BY <2>1 DEF Promise!vars
<1> QED
  BY <1>1, <1>2

\* The account implements its lifecycle: exposure changes only while trading
\* and through a working order, whatever interrupts trading withdraws it, and
\* trading resumes only through a warmup begun flat.
THEOREM LifecyclePromised ==
  ASSUME ClockMayStepBack = FALSE PROVE Spec => RefinesLifecycle
<1>1. Init => Promise!Init
  <2> SUFFICES ASSUME Init PROVE Promise!Init
    OBVIOUS
  <2>1. newest = 0 /\ pending = {} /\ phase = "down"
    BY DEF Init
  <2>2. LifecycleMode = "down"
    BY <2>1 DEF LifecycleMode
  <2> QED
    BY <2>1, <2>2 DEF Promise!Init
<1>2. ASSUME ClockMayStepBack = FALSE, Inductive, [Next]_vars
      PROVE  Promise!Next \/ UNCHANGED Promise!vars
  <2>1. CASE \E fp \in Fingerprint, wall \in Wall : StartFirst(fp, wall) \/ StartNext(fp, wall)
    BY <1>2, <2>1, StartLaunches DEF Promise!Next
  <2>2. CASE \E b \in Books : BookBreaks(b) \/ BookLiquidates(b)
    BY <1>2, <2>2, BreakBreaks, SaleLiquidates DEF Promise!Next
  <2>3. CASE \E b \in Books, intent \in Intent : BookTrades(b, intent)
    BY <1>2, <2>3, BookWarmsOrTrades DEF Promise!Next
  <2>4. CASE /\ phase # "down" /\ phase' # "down" /\ newest > 0 /\ newest' = newest
             /\ \E h \in HaltReason \union EngineReason, l \in {"halted_recovery", "stopped"} :
                  /\ run' = [run EXCEPT ![newest] = Moved(@, l, h)]
                  /\ pending' = pending \ PendingOf(newest)
                  /\ l = "halted_recovery" => h \in HaltReason
    BY <1>2, <2>4, HaltOrStop DEF Promise!Next
  <2>5. CASE /\ UNCHANGED <<newest, run, last, pending>>
             /\ phase' \in {"down", phase} \/ (phase # "down" /\ phase' # "down")
    BY <2>5, QuietOrCrash DEF Promise!Next
  <2> QED
    BY <1>2, <2>1, <2>2, <2>3, <2>4, <2>5, Kinds
<1> QED
  BY <1>1, <1>2, InductiveInvariant, PTL DEF Spec, RefinesLifecycle, Promise!Spec

-----------------------------------------------------------------------------
(* The service: ShadowService *)

\* What the theorems assume beyond the named assumptions: the clock goes
\* forward between starts, and a position of any size may be sold.
Unbounded == ClockMayStepBack = FALSE /\ IntentBase = Nat \ {0}

FeedType ==
  [open : BOOLEAN, connections : 0..MaxConnections, gap : BOOLEAN, at : 0..MaxAt]
RecordType ==
  [kind : {"none", "book", "trade"}, connection : Nat, at : Nat, gap : BOOLEAN]

ServiceTyped ==
  /\ risk \in {NoReason, MaxDrawdown, DailyLoss}
  /\ feed \in FeedType /\ record \in RecordType
  /\ mark \in BOOLEAN /\ lost \in BOOLEAN /\ drawn \in BOOLEAN /\ breached \in BOOLEAN
  /\ last \in Book

Session == {"top", "receive", "consume", "apply", "flat", "halt"}

\* The recorder is ahead of the account, and the event in hand is its last.
Ahead ==
  /\ loop \in Session \cup {"none", "closing", "exit"}
  /\ phase = "down" => loop = "none"
  /\ loop = "none" => feed = Silent /\ record = NoRecord /\ risk = NoReason
                      /\ lost = FALSE /\ mark = FALSE
  /\ feed.open => feed.connections >= 1
  /\ loop \in Session => last.connection <= feed.connections /\ last.at <= feed.at
  /\ loop \in {"consume", "apply"} =>
       /\ record.connection = feed.connections /\ record.at = feed.at
       /\ last.at < record.at /\ feed.connections >= 1

\* What the policy decided still stands when the engine is called.
DecisionStands ==
  /\ loop = "apply" => /\ decided \in Intent
                       /\ decided.side = "buy" => drawn = FALSE /\ Position = 0
  /\ loop = "halt" => risk # NoReason
  /\ breached = drawn

\* A loss is on its way to the account.
LossTravels ==
  lost = TRUE =>
    /\ loop \in {"top", "receive", "consume", "apply"}
    /\ loop \in {"top", "receive"} => feed.gap = TRUE \/ mark = TRUE
    /\ loop = "consume" => record.gap = TRUE \/ mark = TRUE
    /\ loop = "apply" => record.gap = TRUE

RiskHeld ==
  loop \in {"top", "receive", "consume"} /\ risk # NoReason /\ Position = 0 /\ Waiting = {}
    => run[newest].lifecycle = "halted_recovery"

Together ==
  /\ ServiceTyped
  /\ Ahead
  /\ DecisionStands
  /\ LossTravels
  /\ NoBuyAfterBreach
  /\ RiskHeld

LEMMA Reasons == NoReason \notin HaltReason /\ {MaxDrawdown, DailyLoss, DiskLow} \subseteq HaltReason
BY ReasonAssumption, ServiceAssumption DEF NoReason, EngineReason

LEMMA TogetherInit == ASSUME ServiceInit PROVE Together
<1>1. 0 \in 0..MaxConnections /\ 0 \in 0..MaxAt /\ 0 \in Nat
  BY ServiceAssumption, InputAssumption
<1>2. ServiceTyped
  BY <1>1 DEF ServiceInit, Init, ServiceTyped, Silent, NoRecord, NoBook, Book, FeedType, RecordType
<1>3. Ahead /\ DecisionStands /\ LossTravels
  BY DEF ServiceInit, Ahead, DecisionStands, LossTravels, Session, Silent
<1>4. NoBuyAfterBreach /\ RiskHeld
  BY DEF ServiceInit, Init, NoBuyAfterBreach, RiskHeld
<1> QED
  BY <1>2, <1>3, <1>4 DEF Together

-----------------------------------------------------------------------------
(* Every step is a step of the account, or none *)

\* The book handed to the engine is one ShadowLedger expects.
LEMMA SnapshotDelivered ==
  ASSUME Unbounded, Inductive, Together, loop = "apply"
  PROVE  Snapshot \in Books /\ decided \in Intent
<1>1. /\ record.connection \in 1..MaxConnections /\ record.at \in 0..MaxAt
      /\ record.gap \in BOOLEAN /\ last.connection <= record.connection
      /\ last.at < record.at
  BY ServiceAssumption DEF Together, ServiceTyped, FeedType, RecordType, Ahead, Session
<1>2. last.at \in Nat
  BY DEF Inductive, TypeOK, Book
<1>3. record.at - last.at \in 1..MaxAt /\ record.at = last.at + (record.at - last.at)
  BY <1>1, <1>2, InputAssumption
<1>4. record.connection \in Connection /\ record.at - last.at \in Step
  BY <1>1, <1>3, ServiceAssumption
<1>5. Snapshot \in [connection : Connection, at : 0..MaxAt, gap : BOOLEAN]
  BY <1>1, <1>4 DEF Snapshot
<1>6. Delivered(Snapshot)
  BY <1>1, <1>3, <1>4 DEF Delivered, Snapshot
<1> QED
  BY <1>5, <1>6 DEF Books, Together, DecisionStands

LEMMA LedgerStep ==
  ASSUME Unbounded, Inductive, Together, [ServiceNext]_all
  PROVE  [Next]_vars
<1>1. CASE Begin
  <2>1. PICK fp \in Fingerprint : StartFirst(fp, newest + 1) \/ StartNext(fp, newest + 1)
    BY <1>1 DEF Begin
  <2>2. newest + 1 \in Wall
    BY <2>1, ServiceAssumption, InputAssumption DEF StartFirst, StartNext, Inductive, TypeOK
  <2> QED
    BY <2>1, <2>2 DEF Next
<1>2. CASE Apply
  BY <1>2, SnapshotDelivered DEF Apply, At, Next
<1>3. CASE HaltFlat
  <2>1. risk \in HaltReason
    BY <1>3, Reasons DEF HaltFlat, At, Together, ServiceTyped, DecisionStands
  <2> QED
    BY <1>3, <2>1 DEF HaltFlat, Next
<1>4. CASE BeatHalts
  BY <1>4, Reasons DEF BeatHalts, Next
<1>5. CASE Crash \/ Leave \/ CloseRun
  BY <1>5 DEF Crash, Leave, CloseRun, Next
<1>6. CASE Recorder
  BY <1>6 DEF Recorder, SessionEnds, Continue, Connect, ConnectFails, Drop, Reject,
              Nothing, RecorderFails, Receive
<1>7. CASE Request \/ Unwind \/ Consume \/ ApplyFails \/ LookFlat
           \/ BeatStops \/ BeatBreaks \/ BeatEnds
  BY <1>7 DEF Request, Unwind, Consume, ApplyFails, LookFlat, BeatStops, BeatBreaks, BeatEnds
<1>8. CASE UNCHANGED all
  BY <1>8 DEF all
<1> QED
  BY <1>1, <1>2, <1>3, <1>4, <1>5, <1>6, <1>7, <1>8
  DEF ServiceNext, Main, Consumer, Heartbeat

-----------------------------------------------------------------------------
(* The invariant is preserved *)

\* Steps of the recorder: the account stands still, and so do the decisions.
LEMMA RecorderStep == ASSUME Together, Recorder PROVE Together'
<1>1. /\ UNCHANGED <<newest, run, last, pending, phase, drawn, breached, beat, stop>>
      /\ Waiting' = Waiting /\ Position' = Position
      /\ phase' # "down"
  BY DEF Recorder, SessionEnds, Continue, Connect, ConnectFails, Drop, Reject, Nothing,
         RecorderFails, Receive, vars, rest, Waiting, Position, PendingOf, At, Together, Ahead
<1>2. NoBuyAfterBreach'
  BY <1>1 DEF Together, NoBuyAfterBreach
<1>3. ASSUME SessionEnds \/ RecorderFails PROVE Together'
  <2>1. /\ loop' = "closing" /\ feed' = Silent /\ record' = NoRecord /\ mark' = FALSE
        /\ decided' = NoIntent /\ risk' = NoReason /\ lost' = FALSE
    BY <1>3 DEF SessionEnds, RecorderFails, Raise, NoSession, Goto
  <2>2. ServiceTyped'
    <3>1. 0 \in 0..MaxConnections /\ 0 \in 0..MaxAt /\ 0 \in Nat
      BY ServiceAssumption, InputAssumption
    <3>2. feed' \in FeedType /\ record' \in RecordType
      BY <2>1, <3>1 DEF Silent, NoRecord, FeedType, RecordType
    <3> QED
      BY <1>1, <2>1, <3>2 DEF Together, ServiceTyped
  <2>3. Ahead' /\ DecisionStands' /\ LossTravels' /\ RiskHeld'
    BY <1>1, <2>1 DEF Together, Ahead, DecisionStands, LossTravels, RiskHeld, Session, Silent
  <2> QED
    BY <1>2, <2>2, <2>3 DEF Together
<1>4. ASSUME Continue \/ Connect \/ ConnectFails \/ Drop \/ Reject \/ Nothing
      PROVE  Together'
  <2>1. /\ loop \in {"top", "receive"} /\ loop' \in {"top", "receive"}
        /\ UNCHANGED <<record, mark, risk>>
    BY <1>4 DEF Continue, Connect, ConnectFails, Drop, Reject, Nothing, At, Goto, rest
  <2>2. /\ feed' \in FeedType
        /\ feed'.at = feed.at /\ feed'.connections >= feed.connections
        /\ feed'.open => feed'.connections >= 1
        /\ feed.gap = TRUE => feed'.gap = TRUE
        /\ lost' \in BOOLEAN
        /\ lost' = TRUE => lost = TRUE \/ feed'.gap = TRUE
    <3> feed.connections \in Nat /\ feed.gap \in BOOLEAN
      BY ServiceAssumption DEF Together, ServiceTyped, FeedType
    <3>1. CASE UNCHANGED <<feed, lost>>
      <4>1. feed \in FeedType /\ lost \in BOOLEAN /\ (feed.open => feed.connections >= 1)
        BY DEF Together, ServiceTyped, Ahead
      <4>2. feed' = feed /\ lost' = lost
        BY <3>1
      <4> QED
        BY <4>1, <4>2
    <3>2. CASE Connect
      <4>1. feed' = [open |-> TRUE, connections |-> feed.connections + 1, at |-> feed.at,
                     gap |-> feed.gap \/ (feed.connections > 0 /\ feed.at > 0)]
        BY <3>2 DEF Connect, Together, ServiceTyped, FeedType
      <4>2. feed.connections + 1 \in 0..MaxConnections /\ feed.connections \in Nat
        BY <3>2, ServiceAssumption DEF Connect, Together, ServiceTyped, FeedType
      <4>3. feed.at \in 0..MaxAt /\ lost' = lost /\ lost \in BOOLEAN
        BY <3>2 DEF Connect, Together, ServiceTyped, FeedType
      <4>4. feed' \in FeedType
        BY <4>1, <4>2, <4>3 DEF FeedType
      <4>5. /\ feed'.at = feed.at /\ feed'.connections = feed.connections + 1
            /\ feed.gap = TRUE => feed'.gap = TRUE
        BY <4>1
      <4> QED
        BY <4>2, <4>3, <4>4, <4>5
    <3>3. CASE Drop \/ Reject
      <4> DEFINE After(o) == [open |-> o, gap |-> TRUE, connections |-> feed.connections,
                              at |-> feed.at]
      <4>1. PICK o \in {FALSE, feed.open} : feed' = After(o)
        BY <3>3 DEF Drop, Reject, At, Together, ServiceTyped, FeedType
      <4>2. /\ feed.connections \in 0..MaxConnections /\ feed.at \in 0..MaxAt
            /\ feed.open \in BOOLEAN
            /\ feed.open => feed.connections >= 1
            /\ lost' = TRUE
        BY <3>3 DEF Drop, Reject, Together, ServiceTyped, FeedType, Ahead
      <4>3. feed' \in FeedType
        BY <4>1, <4>2 DEF FeedType
      <4>4. /\ feed'.at = feed.at /\ feed'.connections = feed.connections /\ feed'.gap = TRUE
            /\ feed'.open => feed.open
        BY <4>1, <4>2
      <4> QED
        BY <4>2, <4>3, <4>4
    <3> QED
      BY <1>4, <3>1, <3>2, <3>3 DEF Continue, ConnectFails, Nothing
  <2>3. ServiceTyped'
    BY <1>1, <2>1, <2>2 DEF Together, ServiceTyped
  <2>4. Ahead'
    BY <1>1, <2>1, <2>2, ServiceAssumption DEF Together, Ahead, Session, ServiceTyped, FeedType, Book
  <2>5. DecisionStands' /\ RiskHeld'
    BY <1>1, <2>1 DEF Together, DecisionStands, RiskHeld
  <2>6. LossTravels'
    BY <2>1, <2>2 DEF Together, LossTravels
  <2> QED
    BY <1>2, <2>3, <2>4, <2>5, <2>6 DEF Together
<1>5. ASSUME Receive PROVE Together'
  <2>1. PICK kind \in {"book", "trade"}, silence \in 1..MaxSilence :
          /\ feed.at + silence <= MaxAt
          /\ record' = Receipt(kind, silence)
          /\ lost' = (lost \/ (feed.at > 0 /\ silence > GapThreshold))
          /\ feed' = [feed EXCEPT !.gap = FALSE, !.at = feed.at + silence]
    BY <1>5 DEF Receive
  <2>2. loop = "receive" /\ loop' = "consume" /\ feed.open /\ UNCHANGED <<mark, risk>>
    BY <1>5 DEF Receive, At, Goto, rest
  <2>3. silence \in Nat /\ silence >= 1 /\ feed.at \in Nat /\ MaxAt \in Nat
    BY ServiceAssumption, InputAssumption DEF Together, ServiceTyped, FeedType
  <2>4. feed.at + silence \in 0..MaxAt /\ feed.at < feed.at + silence
    BY <2>1, <2>3
  <2>5. record'.at = feed'.at /\ record'.connection = feed'.connections
        /\ feed'.at = feed.at + silence /\ feed'.connections = feed.connections
        /\ feed'.open = feed.open
    BY <2>1 DEF Receipt, Together, ServiceTyped, FeedType
  <2>6. ServiceTyped'
    <3>1. /\ feed.connections \in 0..MaxConnections /\ feed.open \in BOOLEAN
          /\ feed.gap \in BOOLEAN /\ lost \in BOOLEAN /\ feed.connections \in Nat
      BY ServiceAssumption DEF Together, ServiceTyped, FeedType
    <3>2. feed' = [open |-> feed.open, connections |-> feed.connections, gap |-> FALSE,
                   at |-> feed.at + silence]
      BY <2>1 DEF Together, ServiceTyped, FeedType
    <3>3. feed' \in FeedType
      BY <2>4, <3>1, <3>2 DEF FeedType
    <3>4. record' \in RecordType /\ lost' \in BOOLEAN
      BY <2>1, <2>3, <2>4, <3>1 DEF RecordType, Receipt
    <3> QED
      BY <1>1, <2>2, <3>3, <3>4 DEF Together, ServiceTyped
  <2>7. Ahead'
    <3>1. last.at \in Nat /\ last.at <= feed.at /\ last.connection <= feed.connections
      BY <2>2 DEF Together, Ahead, Session, ServiceTyped, FeedType, Book
    <3>2. last'.at < record'.at /\ last'.at <= feed'.at /\ last'.connection <= feed'.connections
      BY ONLY <1>1, <2>3, <2>4, <2>5, <3>1
    <3>3. feed'.open => feed'.connections >= 1
      BY <2>2, <2>5 DEF Together, Ahead
    <3>4. feed'.connections >= 1
      BY <2>2, <2>5 DEF Together, Ahead
    <3> QED
      BY <1>1, <2>2, <2>5, <3>2, <3>3, <3>4 DEF Ahead, Session
  <2>8. DecisionStands' /\ RiskHeld'
    BY <1>1, <2>2 DEF Together, DecisionStands, RiskHeld
  <2>9. LossTravels'
    <3>1. lost' = TRUE => record'.gap = TRUE \/ mark = TRUE
      BY <2>1, <2>2 DEF Together, LossTravels, Receipt, ServiceTyped, FeedType
    <3> QED
      BY <2>2, <3>1 DEF LossTravels
  <2> QED
    BY <1>2, <2>6, <2>7, <2>8, <2>9 DEF Together
<1> QED
  BY <1>3, <1>4, <1>5 DEF Recorder

\* A process begins or ends, or is asked to end.
LEMMA BeginStep == ASSUME Inductive, Together, Begin PROVE Together'
<1>1. PICK fp \in Fingerprint : StartFirst(fp, newest + 1) \/ StartNext(fp, newest + 1)
  BY DEF Begin
<1>2. /\ loop = "none" /\ loop' = "top" /\ last' = NoBook /\ phase' = "open"
      /\ UNCHANGED <<feed, record, mark, risk, drawn, lost, breached>>
      /\ pending' \subseteq pending
  BY <1>1 DEF Begin, Goto, StartFirst, StartNext, OpenEngine, Together, Ahead
<1>3. ServiceTyped'
  BY <1>2 DEF Together, ServiceTyped, NoBook, Book
<1>4. Ahead'
  BY <1>2 DEF Together, Ahead, Session, NoBook, Silent
<1>5. DecisionStands' /\ LossTravels'
  BY <1>2 DEF Together, Ahead, DecisionStands, LossTravels
<1>6. NoBuyAfterBreach' /\ RiskHeld'
  BY <1>2 DEF Together, Ahead, NoBuyAfterBreach, RiskHeld
<1> QED
  BY <1>3, <1>4, <1>5, <1>6 DEF Together

LEMMA ProcessStep ==
  ASSUME Inductive, Together, Request \/ Crash \/ Unwind \/ CloseRun \/ Leave
  PROVE  Together'
<1>1. CASE Request \/ Unwind
  <2>1. UNCHANGED <<newest, run, last, pending, phase, loop, feed, record, mark,
                    decided, risk, drawn, lost, breached>>
    BY <1>1 DEF Request, Unwind, vars
  <2>2. Position' = Position /\ Waiting' = Waiting
    BY <2>1 DEF Position, Waiting, PendingOf
  <2> QED
    BY <2>1, <2>2 DEF Together, ServiceTyped, Ahead, DecisionStands, LossTravels,
                      NoBuyAfterBreach, RiskHeld
<1>2. CASE Crash \/ Leave
  <2>1. /\ loop' = "none" /\ feed' = Silent /\ record' = NoRecord /\ mark' = FALSE
        /\ risk' = NoReason /\ lost' = FALSE
        /\ UNCHANGED <<last, pending, drawn, breached>>
    BY <1>2 DEF Crash, Leave, NoProcess, NoSession, Exit
  <2>2. feed' \in FeedType /\ record' \in RecordType
    <3>1. 0 \in 0..MaxConnections /\ 0 \in 0..MaxAt /\ 0 \in Nat
      BY ServiceAssumption, InputAssumption
    <3> QED
      BY <2>1, <3>1 DEF Silent, NoRecord, FeedType, RecordType
  <2>3. ServiceTyped' /\ Ahead' /\ DecisionStands'
    BY <2>1, <2>2 DEF Together, ServiceTyped, Ahead, DecisionStands, Session, Silent
  <2>4. LossTravels' /\ NoBuyAfterBreach' /\ RiskHeld'
    BY <2>1 DEF Together, LossTravels, NoBuyAfterBreach, RiskHeld
  <2> QED
    BY <2>3, <2>4 DEF Together
<1>3. CASE CloseRun
  <2>1. /\ loop = "closing" /\ loop' = "exit" /\ phase' = "closing"
        /\ UNCHANGED <<feed, record, mark, risk, last, drawn, lost, breached>>
        /\ pending' \subseteq pending
    BY <1>3 DEF CloseRun, Stop, At, Goto
  <2>2. ServiceTyped' /\ Ahead' /\ DecisionStands'
    BY <2>1 DEF Together, ServiceTyped, Ahead, DecisionStands, Session
  <2>3. LossTravels' /\ NoBuyAfterBreach' /\ RiskHeld'
    BY <2>1 DEF Together, LossTravels, NoBuyAfterBreach, RiskHeld
  <2> QED
    BY <2>2, <2>3 DEF Together
<1> QED
  BY <1>1, <1>2, <1>3

\* A halt keeps the position, takes the orders and moves the lifecycle.
LEMMA HaltFacts ==
  ASSUME Inductive, NEW reason \in HaltReason, Halt(reason)
  PROVE  /\ newest' = newest /\ last' = last /\ phase' = phase /\ phase # "down"
         /\ pending' = {}
         /\ run'[newest].lifecycle = "halted_recovery"
         /\ Position' = Position
<1>1. newest \in RunId /\ run \in [RunId -> Row]
  BY HasRun DEF Halt, Inductive, TypeOK
<1>2. run'[newest] = Moved(run[newest], "halted_recovery", reason)
  BY <1>1 DEF Halt
<1>3. /\ run'[newest].lifecycle = "halted_recovery"
      /\ run'[newest].base = run[newest].base
  BY <1>1, <1>2, MovedType DEF Lifecycle, ActiveStatus
<1>4. pending' = {}
  BY ExpiringAll DEF Halt, Inductive
<1> QED
  BY <1>3, <1>4 DEF Halt, Position

\* The heartbeat thread runs between any two steps of the main thread.
LEMMA HeartbeatStep == ASSUME Inductive, Together, Heartbeat PROVE Together'
<1>1. CASE BeatHalts
  <2>1. DiskLow \in HaltReason
    BY Reasons
  <2>2. /\ newest' = newest /\ last' = last /\ phase' = phase /\ pending' = {}
        /\ run'[newest].lifecycle = "halted_recovery" /\ Position' = Position
    BY <1>1, <2>1, HaltFacts DEF BeatHalts
  <2>3. UNCHANGED <<loop, feed, record, mark, decided, risk, drawn, lost, breached>>
    BY <1>1 DEF BeatHalts
  <2>4. ServiceTyped' /\ Ahead' /\ DecisionStands'
    BY <2>2, <2>3 DEF Together, ServiceTyped, Ahead, DecisionStands
  <2>5. LossTravels' /\ NoBuyAfterBreach' /\ RiskHeld'
    BY <2>2, <2>3 DEF Together, LossTravels, NoBuyAfterBreach, RiskHeld
  <2> QED
    BY <2>4, <2>5 DEF Together
<1>2. CASE BeatStops \/ BeatBreaks \/ BeatEnds
  <2>1. UNCHANGED <<newest, run, last, pending, phase, loop, feed, record, mark,
                    decided, risk, drawn, lost, breached>>
    BY <1>2 DEF BeatStops, BeatBreaks, BeatEnds, vars
  <2>2. Position' = Position /\ Waiting' = Waiting
    BY <2>1 DEF Position, Waiting, PendingOf
  <2> QED
    BY <2>1, <2>2 DEF Together, ServiceTyped, Ahead, DecisionStands, LossTravels,
                      NoBuyAfterBreach, RiskHeld
<1> QED
  BY <1>1, <1>2 DEF Heartbeat

\* The policy asks only for what it may ask for on the account it has read.
LEMMA ConsumeStep == ASSUME Unbounded, Inductive, Together, Consume PROVE Together'
<1>1. /\ UNCHANGED <<newest, run, last, pending, phase, feed, drawn, lost, breached>>
      /\ loop = "consume"
  BY DEF Consume, vars, At
<1>2. Position' = Position /\ Waiting' = Waiting
  BY <1>1 DEF Position, Waiting, PendingOf
<1>3. NoBuyAfterBreach'
  BY <1>1 DEF Together, NoBuyAfterBreach
<1>4. /\ feed \in FeedType /\ record \in RecordType /\ last \in Book
      /\ mark \in BOOLEAN /\ lost \in BOOLEAN /\ drawn \in BOOLEAN
      /\ risk \in {NoReason, MaxDrawdown, DailyLoss} /\ breached = drawn
  BY DEF Together, ServiceTyped, DecisionStands
<1>5. /\ feed.open => feed.connections >= 1
      /\ last.connection <= feed.connections
      /\ record.connection = feed.connections /\ record.at = feed.at
      /\ last.at < record.at /\ feed.connections >= 1
      /\ lost = TRUE => record.gap = TRUE \/ mark = TRUE
      /\ phase # "down"
  BY <1>1 DEF Together, Ahead, Session, LossTravels
<1>6. last.at \in Nat /\ feed.at \in Nat /\ record.gap \in BOOLEAN
      /\ record.connection \in Nat /\ record.at \in Nat
      /\ record.kind \in {"none", "book", "trade"}
  BY <1>4, InputAssumption DEF Book, FeedType, RecordType
<1>7. CASE record.kind = "trade"
  <2>1. /\ mark' = (mark \/ record.gap) /\ loop' = "top" /\ record' = NoRecord
        /\ risk' = risk
    BY <1>7 DEF Consume, Marked, Goto
  <2>2. record' \in RecordType
    BY <2>1 DEF NoRecord, RecordType
  <2>3. ServiceTyped'
    BY <1>1, <1>4, <1>6, <2>1, <2>2 DEF ServiceTyped
  <2>4. last.at <= feed.at
    BY <1>5, <1>6
  <2>5. Ahead'
    BY <1>1, <1>5, <2>1, <2>4 DEF Ahead, Session
  <2>6. DecisionStands' /\ RiskHeld'
    BY <1>1, <1>2, <1>4, <2>1 DEF Together, DecisionStands, RiskHeld
  <2>7. LossTravels'
    BY <1>1, <1>4, <1>5, <1>6, <2>1 DEF LossTravels
  <2> QED
    BY <1>3, <2>3, <2>5, <2>6, <2>7 DEF Together
<1>8. CASE record.kind # "trade"
  <2>1. PICK daily \in BOOLEAN : risk' = Judged(daily) /\ decided' \in Intents(risk')
    BY <1>8 DEF Consume
  <2>2. /\ mark' = FALSE /\ loop' = "apply"
        /\ record' = [record EXCEPT !.gap = record.gap \/ mark]
    BY <1>8 DEF Consume, Goto
  <2>3. record' = [kind |-> record.kind, connection |-> record.connection,
                   at |-> record.at, gap |-> (record.gap \/ mark)]
    BY <1>4, <2>2 DEF RecordType
  <2>4. record' \in RecordType
    BY <1>4, <1>6, <2>3 DEF RecordType
  <2>5. risk' \in {NoReason, MaxDrawdown, DailyLoss} /\ (drawn = TRUE => risk' = MaxDrawdown)
    BY <1>4, <2>1 DEF Judged
  <2>6. ServiceTyped'
    BY <1>1, <1>4, <2>2, <2>4, <2>5 DEF Together, ServiceTyped
  <2>7. Ahead'
    <3>1. record'.connection = record.connection /\ record'.at = record.at
      BY <2>3
    <3> QED
      BY <1>1, <1>5, <1>6, <2>2, <3>1 DEF Ahead, Session
  <2>8. decided' \in Intent /\ (decided'.side = "buy" => drawn = FALSE /\ Position = 0)
    <3>1. newest \in RunId /\ run[newest] \in Row
      BY <1>5, HasRun DEF Inductive, TypeOK
    <3>2. Position \in Nat
      BY <3>1 DEF Row, Position
    <3>3. CASE decided' = NoIntent
      BY <3>3 DEF NoIntent, Intent
    <3>4. CASE decided' \in Sale /\ Position > 0
      <4>1. decided' = [side |-> "sell", quote |-> 0, base |-> Position]
        BY <3>4 DEF Sale
      <4>2. Position \in IntentBase
        BY <3>2, <3>4 DEF Unbounded
      <4> QED
        BY <4>1, <4>2 DEF Intent
    <3>5. CASE decided' \in Entries /\ ~(Position > 0) /\ risk' = NoReason
      <4>1. PICK q \in IntentQuote : decided' = [side |-> "buy", quote |-> q, base |-> 0]
        BY <3>5 DEF Entries
      <4>2. decided' \in Intent
        BY <4>1 DEF Intent
      <4>3. Position = 0
        BY <3>2, <3>5
      <4>4. drawn = FALSE
        <5>1. MaxDrawdown # NoReason
          BY Reasons
        <5> QED
          BY <1>4, <2>5, <3>5, <5>1
      <4> QED
        BY <4>2, <4>3, <4>4
    <3> QED
      BY <2>1, <3>3, <3>4, <3>5 DEF Intents
  <2>9. DecisionStands' /\ RiskHeld'
    BY <1>1, <1>2, <1>4, <2>2, <2>8 DEF DecisionStands, RiskHeld
  <2>10. LossTravels'
    <3>1. record'.gap = (record.gap \/ mark)
      BY <2>3
    <3> QED
      BY <1>1, <1>4, <1>5, <1>6, <2>2, <3>1 DEF LossTravels
  <2> QED
    BY <1>3, <2>6, <2>7, <2>9, <2>10 DEF Together
<1> QED
  BY <1>7, <1>8

\* What one book can do to the orders: those there were, or the policy's own.
LEMMA BookOrders ==
  ASSUME Inductive, Together, Apply
  PROVE  /\ pending' \subseteq pending \cup {NewOrder(newest, decided, Snapshot)}
         /\ newest' = newest /\ last' = Snapshot /\ phase' = phase
<1>1. PendingOf(newest) = pending
  BY ExpiringAll DEF Inductive
<1>2. CASE BookBreaks(Snapshot) \/ BookLiquidates(Snapshot)
  BY <1>2 DEF BookBreaks, BookLiquidates
<1>3. CASE BookTrades(Snapshot, decided)
  <2>1. PICK res \in Resolutions(run[newest], pending, Snapshot) :
          pending' = (pending \ pending) \union res.left
            \union (IF Accepts(Warmed(res.row), res.left, decided)
                    THEN {NewOrder(newest, decided, Snapshot)} ELSE {})
    BY <1>1, <1>3 DEF BookTrades
  <2>2. res.left \subseteq pending
    BY <2>1, ResolutionCases DEF Inductive
  <2> QED
    BY <1>3, <2>1, <2>2 DEF BookTrades
<1> QED
  BY <1>2, <1>3 DEF Apply

\* Beyond the limit nothing is bought, not even on the book that exceeds it.
LEMMA ApplyStep ==
  ASSUME Unbounded, Inductive, Inductive', Together, Apply PROVE Together'
<1>1. /\ pending' \subseteq pending \cup {NewOrder(newest, decided, Snapshot)}
      /\ newest' = newest /\ last' = Snapshot /\ phase' = phase
  BY BookOrders
<1>2. /\ loop = "apply" /\ loop' = "flat" /\ record' = NoRecord /\ lost' = FALSE
      /\ UNCHANGED <<feed, mark, risk>>
      /\ drawn' \in (IF Position > 0 \/ run'[newest].base > 0 THEN {drawn, TRUE} ELSE {drawn})
      /\ breached' = (breached \/ drawn')
  BY DEF Apply, At, Goto, DrawdownMayGrow
<1>3. /\ drawn \in BOOLEAN /\ breached = drawn /\ record \in RecordType
      /\ decided.side = "buy" => drawn = FALSE /\ Position = 0
  BY <1>2 DEF Together, ServiceTyped, DecisionStands
<1>4. drawn' \in BOOLEAN /\ breached' = drawn' /\ breached' \in BOOLEAN
  BY <1>2, <1>3
<1>5. ServiceTyped'
  <2>1. last' \in Book
    BY <1>1, <1>3 DEF Snapshot, Book, RecordType
  <2>2. record' \in RecordType
    BY <1>2 DEF NoRecord, RecordType
  <2> QED
    BY <1>2, <1>4, <2>1, <2>2 DEF Together, ServiceTyped
<1>6. Ahead'
  <2>1. /\ last'.connection = record.connection /\ last'.at = record.at
    BY <1>1 DEF Snapshot
  <2>2. /\ feed.connections \in Nat /\ feed.at \in Nat
        /\ record.connection = feed.connections /\ record.at = feed.at
        /\ feed.open => feed.connections >= 1
        /\ phase # "down"
    BY <1>2, ServiceAssumption, InputAssumption
    DEF Together, Ahead, Session, ServiceTyped, FeedType
  <2> QED
    BY <1>1, <1>2, <2>1, <2>2 DEF Ahead, Session
<1>7. DecisionStands' /\ LossTravels' /\ RiskHeld'
  BY <1>2, <1>4 DEF DecisionStands, LossTravels, RiskHeld
<1>8. NoBuyAfterBreach'
  <2> SUFFICES ASSUME breached' = TRUE, NEW o \in pending', o.side # "sell" PROVE FALSE
    BY <1>4 DEF NoBuyAfterBreach
  <2>1. o.side = "buy" /\ o.run = newest /\ run'[newest].base = 0
    BY <1>1 DEF Inductive, TypeOK, Order, PendingOnlyWhileTrading, NoPyramiding
  <2>2. CASE drawn = TRUE
    <3>1. o \notin pending
      BY <1>3, <2>2 DEF Together, NoBuyAfterBreach
    <3>2. decided.side = "buy"
      BY <1>1, <2>1, <3>1 DEF NewOrder
    <3> QED
      BY <1>3, <2>2, <3>2
  <2>3. CASE drawn = FALSE
    <3>1. Position > 0
      <4>1. drawn' = TRUE
        BY <1>4
      <4>2. ~(run'[newest].base > 0)
        BY <2>1
      <4> QED
        BY <1>2, <2>3, <4>1, <4>2
    <3>2. o \notin pending
      BY <2>1, <3>1 DEF Inductive, NoPyramiding, Position
    <3>3. decided.side = "buy"
      BY <1>1, <2>1, <3>2 DEF NewOrder
    <3> QED
      BY <1>3, <3>1, <3>3
  <2> QED
    BY <1>3, <2>2, <2>3
<1> QED
  BY <1>5, <1>6, <1>7, <1>8 DEF Together

\* The rest of the consumer: it raises, or it looks at the account once more.
LEMMA ConsumerStep ==
  ASSUME Unbounded, Inductive, Inductive', Together, Consumer PROVE Together'
<1>1. CASE ApplyFails \/ (HaltFlat /\ Raise)
  <2>1. /\ loop' = "closing" /\ feed' = Silent /\ record' = NoRecord /\ mark' = FALSE
        /\ risk' = NoReason /\ lost' = FALSE /\ UNCHANGED <<drawn, breached>>
    BY <1>1 DEF ApplyFails, HaltFlat, Raise, NoSession, Goto
  <2>2. /\ phase' # "down" /\ last' = last /\ pending' \subseteq pending
    BY <1>1 DEF ApplyFails, HaltFlat, Halt, HaltCollides, vars, At, Together, Ahead
  <2>3. feed' \in FeedType /\ record' \in RecordType
    <3>1. 0 \in 0..MaxConnections /\ 0 \in 0..MaxAt /\ 0 \in Nat
      BY ServiceAssumption, InputAssumption
    <3> QED
      BY <2>1, <3>1 DEF Silent, NoRecord, FeedType, RecordType
  <2>4. ServiceTyped' /\ Ahead' /\ DecisionStands'
    BY <2>1, <2>2, <2>3 DEF Together, ServiceTyped, Ahead, DecisionStands, Session, Silent
  <2>5. LossTravels' /\ NoBuyAfterBreach' /\ RiskHeld'
    BY <2>1, <2>2 DEF Together, LossTravels, NoBuyAfterBreach, RiskHeld
  <2> QED
    BY <2>4, <2>5 DEF Together
<1>2. CASE LookFlat
  <2>1. /\ UNCHANGED <<newest, run, last, pending, phase, feed, record, mark, risk,
                       drawn, lost, breached>>
        /\ loop = "flat" /\ loop' \in {"halt", "top"}
        /\ HaltNeeded <=> loop' = "halt"
    BY <1>2 DEF LookFlat, vars, At, Goto
  <2>2. Position' = Position /\ Waiting' = Waiting
    BY <2>1 DEF Position, Waiting, PendingOf
  <2>3. ServiceTyped' /\ Ahead'
    BY <2>1 DEF Together, ServiceTyped, Ahead, Session
  <2>4. DecisionStands' /\ LossTravels' /\ NoBuyAfterBreach'
    BY <2>1 DEF Together, DecisionStands, LossTravels, NoBuyAfterBreach, HaltNeeded
  <2>5. RiskHeld'
    BY <2>1, <2>2 DEF RiskHeld, HaltNeeded
  <2> QED
    BY <2>3, <2>4, <2>5 DEF Together
<1>3. CASE HaltFlat /\ Halt(risk) /\ Goto("top")
  <2>1. /\ loop = "halt" /\ loop' = "top"
        /\ UNCHANGED <<drawn, breached>>
        /\ UNCHANGED <<feed, record, mark, risk, lost>>
    BY <1>3 DEF HaltFlat, At, Goto, Raise
  <2>2. risk \in HaltReason
    BY <2>1, Reasons DEF Together, ServiceTyped, DecisionStands
  <2>3. /\ newest' = newest /\ last' = last /\ phase' = phase /\ pending' = {}
        /\ run'[newest].lifecycle = "halted_recovery" /\ Position' = Position
    BY <1>3, <2>2, HaltFacts
  <2>4. ServiceTyped' /\ Ahead' /\ DecisionStands'
    BY <2>1, <2>3 DEF Together, ServiceTyped, Ahead, DecisionStands, Session
  <2>5. LossTravels' /\ NoBuyAfterBreach' /\ RiskHeld'
    BY <2>1, <2>3 DEF Together, LossTravels, NoBuyAfterBreach, RiskHeld
  <2> QED
    BY <2>4, <2>5 DEF Together
<1> QED
  BY <1>1, <1>2, <1>3, ConsumeStep, ApplyStep DEF Consumer, HaltFlat

LEMMA TogetherStep ==
  ASSUME Unbounded, Inductive, Together, [ServiceNext]_all
  PROVE  Together' /\ Inductive'
<1>1. Inductive'
  BY LedgerStep, NextStep DEF Unbounded
<1>2. CASE UNCHANGED all
  <2>1. /\ UNCHANGED <<newest, run, last, pending, phase, loop, feed, record, mark>>
        /\ UNCHANGED <<decided, risk, drawn, lost, breached>>
    BY <1>2 DEF all, vars, service
  <2>2. Position' = Position /\ Waiting' = Waiting
    BY <2>1 DEF Position, Waiting, PendingOf
  <2> QED
    BY <1>1, <2>1, <2>2 DEF Together, ServiceTyped, Ahead, DecisionStands, LossTravels,
                            NoBuyAfterBreach, RiskHeld
<1> QED
  BY <1>1, <1>2, BeginStep, ProcessStep, RecorderStep, ConsumerStep, HeartbeatStep
  DEF ServiceNext, Main

-----------------------------------------------------------------------------
(* The theorems *)

\* The account's invariant and what ties recorder, consumer, policy and
\* heartbeat thread to it hold together in every reachable state of the
\* service (_run_shadow_service_locked, consume, heartbeat).
THEOREM TogetherInvariant ==
  ASSUME Unbounded PROVE ServiceSpec => [](Inductive /\ Together)
<1>1. ServiceInit => Inductive /\ Together
  BY TogetherInit, InitInductive DEF ServiceInit
<1>2. Inductive /\ Together /\ [ServiceNext]_all => (Inductive /\ Together)'
  BY TogetherStep
<1> QED
  BY <1>1, <1>2, PTL DEF ServiceSpec

\* The service is a client the account's specification allows: every theorem
\* about Spec is one about ServiceSpec.
THEOREM AccountServed == ASSUME Unbounded PROVE ServiceSpec => ServesLedger
<1>1. ServiceInit => Init
  BY DEF ServiceInit
<1>2. Inductive /\ Together /\ [ServiceNext]_all => [Next]_vars
  BY LedgerStep
<1> QED
  BY <1>1, <1>2, TogetherInvariant, PTL DEF ServiceSpec, Spec, ServesLedger

\* Beyond the drawdown limit no order to buy waits, however threads, crashes
\* and restarts fall.
THEOREM NothingBoughtBeyondLimit == ASSUME Unbounded PROVE ServiceSpec => []NoBuyAfterBreach
<1>1. Together => NoBuyAfterBreach
  BY DEF Together
<1> QED
  BY <1>1, TogetherInvariant, PTL

\* A flat account whose policy has seen a limit exceeded is halted before the
\* next event is received.
THEOREM ExceededLimitHalts == ASSUME Unbounded PROVE ServiceSpec => []RiskHalts
<1>1. Together => RiskHalts
  BY DEF Together, RiskHeld, RiskHalts
<1> QED
  BY <1>1, TogetherInvariant, PTL

\* What the feed missed is known to the account with the next book, whatever
\* messages lie between.
THEOREM LossReachesAccount == ASSUME Unbounded PROVE ServiceSpec => LossEndsOrders
<1> DEFINE Ended == last' # last /\ last' # NoBook /\ lost =>
                      /\ pending' = {} /\ streak' = 0
                      /\ run'[newest].base = run[newest].base
                      /\ run'[newest].cash = run[newest].cash
<1>1. ASSUME Inductive, Together, [ServiceNext]_all PROVE Ended
  <2> SUFFICES ASSUME last' # last, last' # NoBook, lost = TRUE PROVE
                 /\ pending' = {} /\ streak' = 0
                 /\ run'[newest].base = run[newest].base
                 /\ run'[newest].cash = run[newest].cash
    BY <1>1 DEF Together, ServiceTyped
  <2>1. Apply
    <3>1. CASE Begin
      BY <3>1 DEF Begin, StartFirst, StartNext, OpenEngine
    <3>2. CASE Recorder
      BY <3>2 DEF Recorder, SessionEnds, Continue, Connect, ConnectFails, Drop, Reject,
                  Nothing, RecorderFails, Receive, vars
    <3>3. CASE Consumer
      BY <3>3 DEF Consumer, Consume, ApplyFails, LookFlat, HaltFlat, Halt, HaltCollides, vars
    <3>4. CASE Request \/ Crash \/ Unwind \/ CloseRun \/ Leave
      BY <3>4 DEF Request, Crash, Unwind, CloseRun, Leave, Exit, Stop, vars
    <3>5. CASE Heartbeat \/ UNCHANGED all
      BY <3>5 DEF Heartbeat, BeatHalts, BeatStops, BeatBreaks, BeatEnds, Halt, vars, all
    <3> QED
      BY <1>1, <3>1, <3>2, <3>3, <3>4, <3>5 DEF ServiceNext, Main
  <2>2. record.gap = TRUE
    BY <1>1, <2>1 DEF Together, LossTravels, Apply, At
  <2>3. Breaks(Snapshot)
    BY <2>2 DEF Breaks, Snapshot
  <2>4. BookBreaks(Snapshot)
    BY <2>1, <2>3 DEF Apply, BookLiquidates, BookTrades
  <2>5. pending' = {} /\ streak' = 0
    BY <1>1, <2>4, ExpiringAll DEF BookBreaks, Inductive
  <2>6. newest \in RunId /\ run \in [RunId -> Row]
    BY <1>1, <2>4, HasRun DEF BookBreaks, Inductive, TypeOK
  <2>7. run'[newest].base = run[newest].base /\ run'[newest].cash = run[newest].cash
    <3> DEFINE row == IF run[newest].base > 0
                      THEN Moved(run[newest], "halted_recovery", "continuity_with_open_position")
                      ELSE Moved(run[newest], "warmup", "none")
    <3>1. run'[newest] = row
      BY <2>4, <2>6 DEF BookBreaks
    <3>2. row.base = run[newest].base /\ row.cash = run[newest].cash
      BY <2>6, MovedType DEF Lifecycle, ActiveStatus, EngineReason
    <3> QED
      BY <3>1, <3>2
  <2> QED
    BY <2>5, <2>7
<1>2. Inductive /\ Together /\ [ServiceNext]_all => [Ended]_all
  BY <1>1
<1> QED
  BY <1>2, TogetherInvariant, PTL DEF ServiceSpec, LossEndsOrders

=============================================================================
