---------------------------- MODULE ShadowLedger ----------------------------
(***************************************************************************)
(* The durable shadow account: the rows of shadow_runs, shadow_state and   *)
(* shadow_orders (hft_shadow_store.py) and the transactions that change    *)
(* them (hft_shadow.py).  Every action is one BEGIN IMMEDIATE transaction, *)
(* so it is atomic; a crash between two of them loses nothing of the       *)
(* first and leaves nothing of the second.                                 *)
(*                                                                         *)
(* Abstractions.  A connection stands for the pair (capture_id,            *)
(* connection_id): the service reserves a fresh capture per run.  A book's *)
(* position "at" stands for its ordinal and its monotonic receive time,    *)
(* which rise together on a connection.  A gap flag stands for gap_before  *)
(* and for the monotonic-regression marker, whose effect is the same.      *)
(* Amounts are natural numbers, so position_epsilon disappears.  A depth   *)
(* sweep is nondeterministic: it consumes part or all of the request.      *)
(* Equity, drawdown, sampling rows and informational alerts are left out:  *)
(* no guard of the engine reads them.                                      *)
(***************************************************************************)
EXTENDS Integers, FiniteSets

CONSTANTS
  Fingerprint,      \* config hash paired with the code version
  HaltReason,       \* reasons of external halts ("external_halt:<reason>")
  InitialCash,      \* initial_cash_quote
  Fee(_),           \* fee on a quote amount
  WarmupBooks,      \* warmup_books
  Latency,          \* latency_ns
  MaxBookGap,       \* max_book_gap_ns
  MaxOrderQuote,    \* max_order_quote
  (* Inputs the environment chooses from. *)
  IntentQuote,      \* quote notional of a buy intent
  IntentBase,       \* base quantity of a sell intent
  Lots,             \* base obtained by one buy sweep
  Proceeds,         \* quote obtained by one sell sweep
  Connection,       \* connection ids, increasing in time
  Step,             \* distance from one delivered book to the next
  Wall,             \* readings of the wall clock at a start
  ClockMayStepBack, \* whether a later start may read an earlier wall clock
  (* Bounds. *)
  MaxRuns,          \* runs started
  MaxAt             \* position of a book

ASSUME InputAssumption ==
  /\ Fingerprint # {}
  /\ InitialCash \in Nat \ {0}
  /\ WarmupBooks \in Nat \ {0}
  /\ Latency \in Nat
  /\ MaxBookGap \in Nat \ {0}
  /\ MaxOrderQuote \in Nat \ {0}
  /\ IntentQuote \subseteq Nat \ {0}
  /\ IntentBase \subseteq Nat \ {0}
  /\ Lots \subseteq Nat \ {0}
  /\ Proceeds \subseteq Nat \ {0}
  /\ Connection \subseteq Nat \ {0}
  /\ Step \subseteq Nat
  /\ Wall \subseteq Nat
  /\ ClockMayStepBack \in BOOLEAN
  /\ MaxRuns \in Nat \ {0}
  /\ MaxAt \in Nat

\* The fee of a part of an order never exceeds the fee of the whole, and a
\* fee never exceeds what it is charged on (fee_rate is in [0, 1)).
ASSUME FeeAssumption ==
  \A quote \in IntentQuote \union Proceeds : \A part \in 0..quote :
    /\ Fee(part) \in Nat
    /\ Fee(part) <= Fee(quote)
    /\ Fee(part) <= part

EngineReason == {"none", "restart_fingerprint_changed",
                 "restart_with_open_position", "continuity_with_open_position",
                 "graceful", "process_restart"}

ASSUME ReasonAssumption == HaltReason \intersect EngineReason = {}

VARIABLES
  newest,   \* number of runs inserted; run[newest] belongs to the live process
  run,      \* rows of shadow_runs joined with shadow_state
  warm,     \* warmup_books_seen of the newest run
  last,     \* last book applied by the newest run (its last_* columns)
  pending,  \* rows of shadow_orders whose status is "pending"
  alerted,  \* external-halt alert keys enqueued for the newest run
  phase,    \* the service process that owns the newest run
  streak    \* observer: unbroken books since a start, a break or a recovery

vars == <<newest, run, warm, last, pending, alerted, phase, streak>>

RunId == 1..MaxRuns

ActiveStatus == {"warmup", "running", "halted_recovery"}
\* Faulty variant: a gracefully stopped run is not taken over.
RecoverableActiveOnly == ActiveStatus
RecoverableStatus == ActiveStatus \union {"stopped"}
Lifecycle == ActiveStatus \union {"stopped"}

Row == [status: RecoverableStatus \union {"absent", "interrupted"},
        lifecycle: Lifecycle,
        halt: HaltReason \union EngineReason,
        fp: Fingerprint,
        started: Nat,
        cash: Nat,
        base: Nat]

Book == [connection: Nat, at: Nat, gap: BOOLEAN]
NoBook == [connection |-> 0, at |-> 0, gap |-> FALSE]

Intent == [side: {"none"}, quote: {0}, base: {0}]
          \union [side: {"buy"}, quote: IntentQuote, base: {0}]
          \union [side: {"sell"}, quote: {0}, base: IntentBase]

Order == [run: RunId, side: {"buy", "sell"}, quote: IntentQuote \union {0},
          base: Nat, due: Nat, connection: Nat, at: Nat]

-----------------------------------------------------------------------------
(* Reading the ledger *)

Automatic == {"restart_with_open_position", "continuity_with_open_position"}
Latched(reason) == reason \in HaltReason \union {"restart_fingerprint_changed"}

Recoverable == {r \in 1..newest : run[r].status \in RecoverableStatus}

\* The run with the latest started_wall_ns.  The run id is derived from that
\* time, so two starts in one nanosecond are left out.
IsPredecessor(p) ==
  /\ p \in Recoverable
  /\ \A q \in Recoverable : run[q].started <= run[p].started

PendingOf(r) == {o \in pending : o.run = r}

\* Faulty variant: a flat account is tested before the latched reason.
InheritedHaltFlatFirst(row, fp) ==
  IF row.base = 0 /\ row.fp = fp THEN "none"
  ELSE IF Latched(row.halt) THEN row.halt
  ELSE IF row.fp # fp THEN "restart_fingerprint_changed"
  ELSE "restart_with_open_position"

\* Faulty variant: the carried position is not looked at.
InheritedHaltBlind(row, fp) ==
  IF Latched(row.halt) THEN row.halt
  ELSE IF row.fp # fp THEN "restart_fingerprint_changed"
  ELSE "none"

InheritedHalt(row, fp) ==
  IF Latched(row.halt) THEN row.halt
  ELSE IF row.fp # fp THEN "restart_fingerprint_changed"
  ELSE IF row.base > 0 THEN "restart_with_open_position"
  ELSE "none"

NewRow(reason, fp, wall, cash, base) ==
  LET lifecycle == IF reason = "none" THEN "warmup" ELSE "halted_recovery"
  IN [status |-> lifecycle, lifecycle |-> lifecycle, halt |-> reason,
      fp |-> fp, started |-> wall, cash |-> cash, base |-> base]

Superseded(row) ==
  IF row.status \in ActiveStatus
  THEN [row EXCEPT !.status = "interrupted", !.lifecycle = "stopped",
                   !.halt = "process_restart"]
  ELSE row

Moved(row, lifecycle, reason) ==
  [row EXCEPT !.status = lifecycle, !.lifecycle = lifecycle, !.halt = reason]

-----------------------------------------------------------------------------
(* One book, seen by the newest run *)

IsDuplicate(b) == b.connection = last.connection /\ b.at = last.at
IsRegressed(b) == b.connection = last.connection /\ b.at <= last.at
\* Faulty variant: only a new connection counts as a break.
BreaksOnReconnect(b) == last # NoBook /\ b.connection # last.connection

Breaks(b) == b.gap \/ (last # NoBook /\ b.connection # last.connection)

\* The account after a buy sweep and after a sell sweep (_resolve_pending,
\* and the recovery sale of process_book).
Bought(row, spent, lots) ==
  [row EXCEPT !.cash = @ - (spent + Fee(spent)), !.base = @ + lots]

Sold(row, sold, quote) ==
  [row EXCEPT !.cash = @ + (quote - Fee(quote)), !.base = @ - sold]

\* A sweep consumes part or all of what the order asks for.
Fills(o, row) ==
  IF o.side = "buy"
  THEN UNION {{Bought(row, spent, lots) : spent \in 1..o.quote} : lots \in Lots}
  ELSE UNION {{Sold(row, sold, quote) : sold \in 1..o.base} : quote \in Proceeds}

Due(o, b) == b.at >= o.due
TooLate(o, b) == b.at > o.due + MaxBookGap

\* What _resolve_pending can do with the pending orders: the account
\* afterwards, and the orders still pending.
Resolutions(row, orders, b) ==
  LET waiting == {o \in orders : o.connection = b.connection /\ ~Due(o, b)}
      fillable == {o \in orders : /\ o.connection = b.connection
                                  /\ Due(o, b) /\ ~TooLate(o, b)}
  IN IF fillable = {}
     THEN {[row |-> row, left |-> waiting]}
     ELSE {[row |-> filled, left |-> waiting] :
             filled \in UNION {Fills(o, row) : o \in fillable}}

\* Faulty variant: the position is not checked.
AcceptsOversold(row, orders, intent) ==
  /\ row.lifecycle = "running" /\ orders = {}
  /\ intent.side = "buy" =>
       /\ row.base = 0 /\ intent.quote <= MaxOrderQuote
       /\ intent.quote + Fee(intent.quote) <= row.cash
  /\ intent.side = "sell" => row.base > 0
  /\ intent.side # "none"

\* _record_intent up to the insertion of the order.
Accepts(row, orders, intent) ==
  /\ row.lifecycle = "running"
  /\ orders = {}
  /\ \/ /\ intent.side = "buy"
        /\ row.base = 0
        /\ intent.quote <= MaxOrderQuote
        /\ intent.quote + Fee(intent.quote) <= row.cash
     \/ /\ intent.side = "sell"
        /\ intent.base <= row.base

NewOrder(r, intent, b) ==
  [run |-> r, side |-> intent.side, quote |-> intent.quote,
   base |-> intent.base, due |-> b.at + Latency,
   connection |-> b.connection, at |-> b.at]

Warmed(row) ==
  IF row.lifecycle = "warmup" /\ warm + 1 >= WarmupBooks
  THEN Moved(row, "running", "none")
  ELSE row

-----------------------------------------------------------------------------
(* Transactions *)

Init ==
  /\ newest = 0
  /\ run = [r \in RunId |->
              [status |-> "absent", lifecycle |-> "stopped", halt |-> "none",
               fp |-> CHOOSE fp \in Fingerprint : TRUE, started |-> 0,
               cash |-> 0, base |-> 0]]
  /\ warm = 0
  /\ last = NoBook
  /\ pending = {}
  /\ alerted = {}
  /\ phase = "down"
  /\ streak = 0

OpenEngine(r) ==
  /\ newest' = r
  /\ warm' = 0
  /\ last' = NoBook
  /\ alerted' = {}
  /\ phase' = "open"
  /\ streak' = 0

\* start_run on an empty database.
StartFirst(fp, wall) ==
  /\ phase = "down"
  /\ newest < MaxRuns
  /\ Recoverable = {}
  /\ run' = [run EXCEPT ![newest + 1] = NewRow("none", fp, wall, InitialCash, 0)]
  /\ OpenEngine(newest + 1)
  /\ UNCHANGED pending

\* start_run after another run: its pending orders expire, its account is
\* carried over, and what it was halted for decides how the new run starts.
StartNext(fp, wall) ==
  /\ phase = "down"
  /\ newest < MaxRuns
  /\ \A r \in 1..newest : IF ClockMayStepBack THEN run[r].started # wall
                                              ELSE run[r].started < wall
  /\ \E p \in 1..newest :
       /\ IsPredecessor(p)
       /\ pending' = pending \ PendingOf(p)
       /\ run' = [run EXCEPT
                    ![p] = Superseded(@),
                    ![newest + 1] = NewRow(InheritedHalt(run[p], fp), fp, wall,
                                           run[p].cash, run[p].base)]
  /\ OpenEngine(newest + 1)

\* Faulty variant: the books seen before the break still count as warmup.
BookBreaksStillWarm(b) ==
  /\ phase = "open"
  /\ run[newest].lifecycle # "stopped"
  /\ ~IsDuplicate(b) /\ ~IsRegressed(b)
  /\ Breaks(b)
  /\ pending' = pending \ PendingOf(newest)
  /\ run' = [run EXCEPT ![newest] =
               IF @.base > 0
               THEN Moved(@, "halted_recovery", "continuity_with_open_position")
               ELSE Moved(@, "warmup", "none")]
  /\ last' = b
  /\ streak' = 0
  /\ UNCHANGED <<newest, warm, alerted, phase>>

\* A continuity break: pending orders expire and the run warms up again, or
\* waits for a liquidation when it holds a position.
BookBreaks(b) ==
  /\ phase = "open"
  /\ run[newest].lifecycle # "stopped"
  /\ ~IsDuplicate(b) /\ ~IsRegressed(b)
  /\ Breaks(b)
  /\ pending' = pending \ PendingOf(newest)
  /\ run' = [run EXCEPT ![newest] =
               IF @.base > 0
               THEN Moved(@, "halted_recovery", "continuity_with_open_position")
               ELSE Moved(@, "warmup", "none")]
  /\ warm' = 0
  /\ last' = b
  /\ streak' = 0
  /\ UNCHANGED <<newest, alerted, phase>>

NeedsLiquidation(row) ==
  /\ row.lifecycle = "halted_recovery"
  /\ row.halt \in Automatic
  /\ row.base > 0

\* The system's own sell, placed and filled on the same book.
Liquidated(row, sold, quote) ==
  LET filled == Sold(row, sold, quote)
  IN IF filled.base = 0 THEN Moved(filled, "warmup", "none") ELSE filled

BookLiquidates(b) ==
  /\ phase = "open"
  /\ ~IsDuplicate(b) /\ ~IsRegressed(b) /\ ~Breaks(b)
  /\ NeedsLiquidation(run[newest])
  /\ \E sold \in 1..run[newest].base, quote \in Proceeds :
       /\ run' = [run EXCEPT ![newest] = Liquidated(@, sold, quote)]
       /\ warm' = IF sold = run[newest].base THEN 0 ELSE warm
  /\ last' = b
  /\ streak' = 0
  /\ UNCHANGED <<newest, pending, alerted, phase>>

\* A continuous book: resolve the pending order, count the warmup, then
\* record the policy's intent.
BookTrades(b, intent) ==
  /\ phase = "open"
  /\ run[newest].lifecycle # "stopped"
  /\ ~IsDuplicate(b) /\ ~IsRegressed(b) /\ ~Breaks(b)
  /\ ~NeedsLiquidation(run[newest])
  /\ \E res \in Resolutions(run[newest], PendingOf(newest), b) :
       LET row == Warmed(res.row)
           placed == IF Accepts(row, res.left, intent)
                     THEN {NewOrder(newest, intent, b)} ELSE {}
       IN /\ run' = [run EXCEPT ![newest] = row]
          /\ pending' = (pending \ PendingOf(newest)) \union res.left \union placed
  /\ warm' = IF run[newest].lifecycle = "warmup" THEN warm + 1 ELSE warm
  /\ last' = b
  /\ streak' = IF streak < WarmupBooks THEN streak + 1 ELSE streak
  /\ UNCHANGED <<newest, alerted, phase>>

\* A redelivered book changes nothing; it is an error to attach to it an
\* intent that the first delivery did not carry.
BookRepeats(b, intent) ==
  /\ phase = "open"
  /\ IsDuplicate(b)
  /\ phase' \in IF intent.side = "none" THEN {"open"} ELSE {"open", "failing"}
  /\ UNCHANGED <<newest, run, warm, last, pending, alerted, streak>>

\* A regressed book raises, and so does a repeated position with another wall
\* time: the transaction rolls back and the service unwinds.
BookRaises(b) ==
  /\ phase = "open"
  /\ IsRegressed(b)
  /\ phase' = "failing"
  /\ UNCHANGED <<newest, run, warm, last, pending, alerted, streak>>

\* Faulty variant: a halt leaves the pending order in place.
HaltKeepingOrders(reason) ==
  /\ phase # "down"
  /\ reason \notin alerted
  /\ run' = [run EXCEPT ![newest] = Moved(@, "halted_recovery", reason)]
  /\ alerted' = alerted \union {reason}
  /\ UNCHANGED <<newest, warm, last, pending, phase, streak>>

\* halt(), called by the policy or by the heartbeat thread, which may still
\* run when the service has already stopped the run.
Halt(reason) ==
  /\ phase # "down"
  /\ reason \notin alerted
  /\ run' = [run EXCEPT ![newest] = Moved(@, "halted_recovery", reason)]
  /\ pending' = pending \ PendingOf(newest)
  /\ alerted' = alerted \union {reason}
  /\ UNCHANGED <<newest, warm, last, phase, streak>>

\* A second halt for the same reason meets its own alert key with another
\* created_wall_ns: enqueue_notification raises and everything rolls back.
HaltCollides(reason) ==
  /\ phase \in {"open", "failing"}
  /\ reason \in alerted
  /\ phase' = "halt_failed"
  /\ UNCHANGED <<newest, run, warm, last, pending, alerted, streak>>

\* stop_run, from the service's finally clause.
Stop ==
  /\ phase \in {"open", "failing", "halt_failed"}
  /\ run' = [run EXCEPT ![newest] =
               Moved(@, "stopped", IF Latched(@.halt) THEN @.halt ELSE "graceful")]
  /\ pending' = pending \ PendingOf(newest)
  /\ phase' = "closing"
  /\ UNCHANGED <<newest, warm, last, alerted, streak>>

\* The process exits, or is killed at any point.
Exit ==
  /\ phase # "down"
  /\ phase' = "down"
  /\ UNCHANGED <<newest, run, warm, last, pending, alerted, streak>>

\* The next book of the recorder, or the last one once more.
Delivered(b) ==
  /\ b.connection >= last.connection
  /\ \E step \in Step : b.at = last.at + step

Books == {b \in [connection: Connection, at: 0..MaxAt, gap: BOOLEAN] : Delivered(b)}

Next ==
  \/ \E fp \in Fingerprint, wall \in Wall : StartFirst(fp, wall) \/ StartNext(fp, wall)
  \/ \E b \in Books :
       \/ BookBreaks(b)
       \/ BookLiquidates(b)
       \/ BookRaises(b)
       \/ \E intent \in Intent : BookTrades(b, intent) \/ BookRepeats(b, intent)
  \/ \E reason \in HaltReason : Halt(reason) \/ HaltCollides(reason)
  \/ Stop
  \/ Exit

Spec == Init /\ [][Next]_vars

-----------------------------------------------------------------------------
(* Properties *)

\* The variables range over the rows and books described above; in
\* particular no sequence of fills drives cash or position below zero.
TypeOK ==
  /\ newest \in 0..MaxRuns
  /\ run \in [RunId -> Row]
  /\ warm \in 0..WarmupBooks
  /\ last \in Book
  /\ pending \in SUBSET Order
  /\ alerted \in SUBSET HaltReason
  /\ phase \in {"down", "open", "failing", "halt_failed", "closing"}
  /\ streak \in 0..WarmupBooks

\* An order waits only in the newest run, only while that run trades, and
\* only on the connection of the last book: whatever takes a run out of
\* trading has expired it (halt, stop_run, start_run, process_book).
PendingOnlyWhileTrading ==
  \A o \in pending :
    /\ o.run = newest
    /\ run[newest].status = "running"
    /\ run[newest].lifecycle = "running"
    /\ o.connection = last.connection

\* The whole database never holds two pending orders, whatever the mix of
\* intents, crashes and restarts (the unique index is per run only).
OnePendingOrder == Cardinality(pending) <= 1

\* What was checked when an order was accepted still holds when it fills:
\* cash covers the buy with its fee and the position covers the sell, so the
\* "exceeded reserved shadow cash/position" raises are unreachable.
OrdersCovered ==
  \A o \in pending :
    IF o.side = "buy" THEN o.quote + Fee(o.quote) <= run[o.run].cash
                      ELSE o.base <= run[o.run].base

\* A buy waits only while the account is flat: positions are never stacked
\* (one_position_only), not even by an entry that fills later.
NoPyramiding ==
  \A o \in pending : o.side = "buy" => run[o.run].base = 0

\* An order exists only after WarmupBooks unbroken books of its own run,
\* counted from the last start, break or recovery sale.
WarmEntry == \A o \in pending : streak >= WarmupBooks

\* Only the newest run is live, and the two status columns agree on it:
\* start_run closes the run it takes over from.
OnlyNewestActive ==
  /\ \A r \in 1..newest : run[r].status \in ActiveStatus => r = newest
  /\ newest > 0 => run[newest].status = run[newest].lifecycle

\* A fill happens on a book of the order's own connection that carries no
\* gap, after the latency and no more than MaxBookGap later.
FillCausal ==
  [][\A o \in pending :
       o \notin pending' /\ run'[o.run].base # run[o.run].base =>
         /\ ~last'.gap
         /\ last'.connection = o.connection
         /\ last'.at > o.at
         /\ last'.at \in o.due..(o.due + MaxBookGap)]_vars

\* A restart moves no money: the new run starts with exactly the cash and
\* position of the run before it ("carried forward for accounting
\* continuity", start_run).
AccountCarriedOver ==
  [][newest' # newest /\ newest > 0 =>
       /\ run'[newest'].cash = run[newest].cash
       /\ run'[newest'].base = run[newest].base]_vars

\* Stop, crash and restart never lift an external or fingerprint halt: a
\* latched reason leaves the newest run only through a continuity break (or
\* for another latched reason).
LatchLiftedOnlyByBreak ==
  [][newest > 0 /\ Latched(run[newest].halt) /\ ~Latched(run'[newest'].halt) =>
       /\ newest' = newest
       /\ last'.gap \/ last'.connection # last.connection]_vars

\* Runs are started at increasing wall-clock times, so the predecessor that
\* start_run selects is the run inserted last.
StartedInOrder == \A r \in 1..newest : r # newest => run[r].started < run[newest].started

\* How far the warmup has come: a run that trades has seen WarmupBooks
\* unbroken books, a run that warms up is flat and has counted every book
\* since the last break.
WarmupCounted ==
  newest > 0 =>
    /\ run[newest].lifecycle = "running" => streak = WarmupBooks
    /\ run[newest].lifecycle = "warmup" =>
         warm = streak /\ warm < WarmupBooks /\ run[newest].base = 0
    /\ NeedsLiquidation(run[newest]) \/ run[newest].halt \notin Automatic

\* The inductive invariant behind the safety properties: the parts above,
\* the order in which runs start and the progress of the warmup.
Inductive ==
  /\ TypeOK
  /\ newest = 0 => phase = "down"
  /\ OnlyNewestActive
  /\ StartedInOrder
  /\ WarmupCounted
  /\ PendingOnlyWhileTrading
  /\ \A o1, o2 \in pending : o1 = o2
  /\ OrdersCovered
  /\ NoPyramiding

\* Documented: an external or fingerprint halt admits no automatic resume
\* and is not lifted by the running program at all.
LatchHolds ==
  [][newest > 0 /\ Latched(run[newest].halt) => Latched(run'[newest'].halt)]_vars

\* The account keeps the promises of ShadowLifecycle.
LifecycleMode ==
  IF phase = "down" THEN "down"
  ELSE CASE run[newest].lifecycle = "warmup" -> "warmup"
         [] run[newest].lifecycle = "running" -> "trading"
         [] run[newest].lifecycle = "stopped" -> "stopped"
         [] OTHER -> IF run[newest].halt \in Automatic THEN "recovering"
                                                       ELSE "latched"

Promise == INSTANCE ShadowLifecycle WITH
  mode <- LifecycleMode,
  exposed <- newest > 0 /\ run[newest].base > 0,
  working <- pending # {}

RefinesLifecycle == Promise!Spec

=============================================================================
