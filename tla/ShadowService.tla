---------------------------- MODULE ShadowService ----------------------------
(***************************************************************************)
(* One shadow process on the account of ShadowLedger: the recorder's       *)
(* receive loop (hft_archive.py), the consumer it calls with every event,  *)
(* the online signal (hft_shadow_signal.py), the diagnostic policy and the *)
(* heartbeat thread (shadow_service.py).  Every action that writes the     *)
(* account is one transaction of ShadowLedger, joined with the step of the *)
(* thread that calls it; between two calls of the consumer the heartbeat   *)
(* thread may run, and a signal or a kill may come anywhere.               *)
(*                                                                         *)
(* A position counts time: an event is received one or more units after    *)
(* the event before it, and more than GapThreshold units are a gap.  What  *)
(* the signal says is any side it may say once it has heard WarmupBooks    *)
(* books; what equity says is whether a limit is exceeded.  Of the process *)
(* lock only its effect is kept: one process at a time.                    *)
(***************************************************************************)
EXTENDS ShadowLedger

CONSTANTS
  GapThreshold,     \* gap_threshold_ns
  MaxDrawdown, DailyLoss, DiskLow,   \* the three reasons of halts
  (* Bounds. *)
  MaxConnections,   \* connections of one capture
  MaxSilence        \* distance between two events

ASSUME ServiceAssumption ==
  /\ {MaxDrawdown, DailyLoss, DiskLow} \subseteq HaltReason
  /\ Cardinality({MaxDrawdown, DailyLoss, DiskLow}) = 3
  /\ GapThreshold \in Nat \ {0}
  /\ MaxConnections \in Nat \ {0} /\ MaxSilence \in Nat \ {0}
  /\ 1..MaxConnections \subseteq Connection
  /\ 1..MaxAt \subseteq Step /\ 1..MaxRuns \subseteq Wall

VARIABLES
  loop,      \* place of the main thread
  feed,      \* the recorder: is a socket open, connections so far, is a gap
             \* pending, position of the last event (0: none yet)
  record,    \* the event in the consumer's hands
  mark,      \* intervening_boundary
  heard,     \* _books_seen of the signal, counted up to WarmupBooks
  decided,   \* intent of the policy for this book
  risk,      \* _risk_halt_reason
  drawn,     \* is the account's max_drawdown beyond its limit
  beat,      \* the heartbeat thread
  stop,      \* stopped(): internal_stop is set or an external stop requested
  lost,      \* observer: something was missed since the last book applied
  breached   \* observer: max_drawdown was once beyond its limit

service == <<loop, feed, record, mark, heard, decided, risk, drawn, beat, stop,
             lost, breached>>
all == <<vars, service>>

NoReason == "none"
NoIntent == [side |-> "none", quote |-> 0, base |-> 0]
NoRecord == [kind |-> "none", connection |-> 0, at |-> 0, gap |-> FALSE]
Silent == [open |-> FALSE, connections |-> 0, gap |-> FALSE, at |-> 0]

\* The recorder and the consumer are done with: their variables are dead.
NoSession ==
  /\ feed' = Silent /\ record' = NoRecord /\ mark' = FALSE
  /\ heard' = 0 /\ decided' = NoIntent /\ risk' = NoReason /\ lost' = FALSE

\* Nothing of a process outlives it but the ledger.
NoProcess == NoSession /\ loop' = "none" /\ beat' = "none" /\ stop' = FALSE

ServiceInit ==
  /\ Init
  /\ loop = "none" /\ feed = Silent /\ record = NoRecord /\ mark = FALSE
  /\ heard = 0 /\ decided = NoIntent /\ risk = NoReason /\ beat = "none"
  /\ stop = FALSE /\ lost = FALSE /\ drawn = FALSE /\ breached = FALSE

At(place) == loop = place
Goto(place) == loop' = place

-----------------------------------------------------------------------------
(* The life of a process *)

\* Faulty variant: a new run starts its drawdown afresh.
BeginAfresh ==
  /\ \E fp \in Fingerprint : StartFirst(fp, newest + 1) \/ StartNext(fp, newest + 1)
  /\ Goto("top") /\ beat' = "alive" /\ drawn' = FALSE
  /\ UNCHANGED <<feed, record, mark, heard, decided, risk, stop, lost, breached>>

\* The lock, ShadowEngine.start, an empty signal and policy, the thread.  The
\* drawdown of the account is carried over with it.  The clock at a start counts
\* the starts.
Begin ==
  /\ \E fp \in Fingerprint : StartFirst(fp, newest + 1) \/ StartNext(fp, newest + 1)
  /\ Goto("top") /\ beat' = "alive"
  /\ UNCHANGED <<feed, record, mark, heard, decided, risk, drawn, stop, lost, breached>>

\* SIGTERM or SIGINT sets the flag of external_stop_requested.
Request ==
  /\ loop \notin {"none", "closing", "exit"} /\ ~stop
  /\ stop' = TRUE
  /\ UNCHANGED <<vars, loop, feed, record, mark, heard, decided, risk, drawn, beat, lost, breached>>

Crash == Exit /\ NoProcess /\ UNCHANGED <<drawn, breached>>

Raise == Goto("closing") /\ NoSession

\* The session is over, or was ended by an exception or by the heartbeat's
\* failure: the finally clause tells the heartbeat thread to end.
Unwind ==
  /\ At("closing") /\ ~stop
  /\ stop' = TRUE
  /\ UNCHANGED <<vars, loop, feed, record, mark, heard, decided, risk, drawn, beat, lost, breached>>

\* engine.stop, after the heartbeat thread was joined or the join gave up.
CloseRun ==
  /\ At("closing") /\ stop
  /\ Stop
  /\ Goto("exit")
  /\ UNCHANGED <<feed, record, mark, heard, decided, risk, drawn, beat, stop, lost, breached>>

\* The summary and its completion marker (ArtifactBundle), then the end.
Leave == At("exit") /\ Exit /\ NoProcess /\ UNCHANGED <<drawn, breached>>

-----------------------------------------------------------------------------
(* The recorder: UpbitPublicArchiveRecorder.record *)

rest == <<mark, heard, decided, risk, drawn, beat, stop, breached>>

\* The head of the loop: the deadline, max_events or a stop request.
SessionEnds ==
  /\ At("top")
  /\ Raise
  /\ UNCHANGED <<vars, drawn, beat, stop, breached>>

Continue ==
  /\ At("top") /\ ~stop
  /\ Goto("receive")
  /\ UNCHANGED <<vars, rest, feed, record, lost>>

\* A new socket: a gap if anything was recorded before.
Connect ==
  /\ At("receive") /\ ~feed.open /\ feed.connections < MaxConnections
  /\ feed' = [feed EXCEPT !.open = TRUE, !.connections = @ + 1,
                          !.gap = @ \/ (feed.connections > 0 /\ feed.at > 0)]
  /\ UNCHANGED <<vars, rest, loop, record, lost>>

\* Faulty variant: reconnecting goes on without a look at the stop request.
ConnectAgain ==
  /\ At("receive") /\ ~feed.open
  /\ UNCHANGED <<vars, rest, loop, feed, record, lost>>

\* No socket: back off, no longer than to the deadline, and start over.
ConnectFails ==
  /\ At("receive") /\ ~feed.open
  /\ Goto("top")
  /\ UNCHANGED <<vars, rest, feed, record, lost>>

\* idle_reconnect, ping_error, receive_error or connection_closed.
Drop ==
  /\ At("receive") /\ feed.open
  /\ feed' = [feed EXCEPT !.open = FALSE, !.gap = TRUE]
  /\ lost' = TRUE
  /\ Goto("top")
  /\ UNCHANGED <<vars, rest, record>>

\* Faulty variant: a message that cannot be normalised is only counted.
RejectUnmarked ==
  /\ At("receive") /\ feed.open
  /\ lost' = TRUE
  /\ Goto("top")
  /\ UNCHANGED <<vars, rest, feed, record>>

\* normalization_error: the message is counted and the gap remembered.
Reject ==
  /\ At("receive") /\ feed.open
  /\ feed' = [feed EXCEPT !.gap = TRUE]
  /\ lost' = TRUE
  /\ Goto("top")
  /\ UNCHANGED <<vars, rest, record>>

\* A timeout with or without a ping, or a heartbeat message of the exchange.
Nothing ==
  /\ At("receive") /\ feed.open
  /\ Goto("top")
  /\ UNCHANGED <<vars, rest, feed, record, lost>>

\* A protocol error of the exchange, a failed write or clock.
RecorderFails ==
  /\ At("receive") /\ feed.open
  /\ Raise
  /\ UNCHANGED <<vars, drawn, beat, stop, breached>>

Receipt(kind, silence) ==
  [kind |-> kind, connection |-> feed.connections, at |-> feed.at + silence,
   gap |-> feed.gap \/ (feed.at > 0 /\ silence > GapThreshold)]

\* An event is archived and handed to the consumer with the pending gap.
Receive ==
  /\ At("receive") /\ feed.open
  /\ \E kind \in {"book", "trade"}, silence \in 1..MaxSilence :
       /\ feed.at + silence <= MaxAt
       /\ record' = Receipt(kind, silence)
       /\ lost' = (lost \/ (feed.at > 0 /\ silence > GapThreshold))
       /\ feed' = [feed EXCEPT !.gap = FALSE, !.at = feed.at + silence]
  /\ Goto("consume")
  /\ UNCHANGED <<vars, rest>>

Recorder ==
  \/ SessionEnds \/ Continue \/ Connect \/ ConnectFails \/ Drop \/ Reject
  \/ Nothing \/ RecorderFails \/ Receive

-----------------------------------------------------------------------------
(* The consumer: consume, the policy and the engine's transactions *)

Position == run[newest].base
Waiting == PendingOf(newest)

\* The signal counts books since the last gap or change of connection.  The
\* records come in order and without a hole in their ordinals.
Counted ==
  LET before == IF record.gap THEN 0 ELSE heard
  IN IF record.kind = "book" /\ before < WarmupBooks THEN before + 1 ELSE before

\* Faulty variant: a trade's gap is none of the book's business.
MarkNothing == FALSE

\* The gap of a trade waits for the next book.
Marked == mark \/ record.gap

\* _risk_halt_reason, from the account and from the loss of the day.
Judged(daily) ==
  IF drawn THEN MaxDrawdown ELSE IF daily THEN DailyLoss ELSE risk

Sale == {[side |-> "sell", quote |-> 0, base |-> Position]}
Entries == {[side |-> "buy", quote |-> q, base |-> 0] : q \in IntentQuote}
MayAsk == run[newest].lifecycle = "running" /\ Waiting = {}

\* Faulty variant: an exit for risk is decided, an entry is not refused.
IntentsIgnoringRisk(judged) ==
  IF ~MayAsk THEN {NoIntent}
  ELSE IF judged # NoReason /\ Position > 0 THEN Sale
  ELSE IF Counted < WarmupBooks THEN {NoIntent}
  ELSE {NoIntent} \cup (IF Position > 0 THEN Sale ELSE Entries)

\* What the policy may ask for: nothing unless the run trades and no order
\* waits; the whole position, or an entry when flat and the signal is ready.
Intents(judged) ==
  IF ~MayAsk THEN {NoIntent}
  ELSE IF judged # NoReason THEN IF Position > 0 THEN Sale ELSE {NoIntent}
  ELSE IF Counted < WarmupBooks THEN {NoIntent}
  ELSE {NoIntent} \cup (IF Position > 0 THEN Sale ELSE Entries)

\* A trade ends here; with a book the account is read and the policy decides.
Consume ==
  /\ At("consume")
  /\ heard' = Counted
  /\ IF record.kind = "trade"
     THEN /\ mark' = Marked
          /\ Goto("top") /\ record' = NoRecord
          /\ UNCHANGED <<decided, risk>>
     ELSE /\ \E daily \in BOOLEAN :
               /\ risk' = Judged(daily)
               /\ decided' \in Intents(risk')
          /\ record' = [record EXCEPT !.gap = @ \/ mark]
          /\ mark' = FALSE
          /\ Goto("apply")
  /\ UNCHANGED <<vars, feed, drawn, beat, stop, lost, breached>>

Snapshot == [connection |-> record.connection, at |-> record.at, gap |-> record.gap]

\* Equity changes only with a position, and so does the drawdown.
DrawdownMayGrow ==
  /\ drawn' \in IF Position > 0 \/ run'[newest].base > 0 THEN {drawn, TRUE} ELSE {drawn}
  /\ breached' = (breached \/ drawn')

\* engine.process_book with the book and the intent.
Apply ==
  /\ At("apply")
  /\ \/ BookBreaks(Snapshot)
     \/ BookLiquidates(Snapshot)
     \/ BookTrades(Snapshot, decided)
  /\ DrawdownMayGrow
  /\ Goto("flat") /\ record' = NoRecord /\ decided' = NoIntent /\ lost' = FALSE
  /\ UNCHANGED <<feed, mark, heard, risk, beat, stop>>

\* The transaction fails and rolls back: the consumer raises.
ApplyFails ==
  /\ At("apply")
  /\ Raise
  /\ UNCHANGED <<vars, drawn, beat, stop, breached>>

\* Faulty variant: only a run that trades is halted.
HaltNeededIfRunning ==
  risk # NoReason /\ Position = 0 /\ Waiting = {} /\ run[newest].lifecycle = "running"

HaltNeeded ==
  risk # NoReason /\ Position = 0 /\ Waiting = {} /\ run[newest].lifecycle # "halted_recovery"

\* halt_if_flat reads the account again, and halts in a transaction of its own.
LookFlat ==
  /\ At("flat")
  /\ Goto(IF HaltNeeded THEN "halt" ELSE "top")
  /\ UNCHANGED <<vars, feed, record, mark, heard, decided, risk, drawn, beat, stop, lost, breached>>

\* A halt for a reason this run was halted for before raises.
HaltFlat ==
  /\ At("halt")
  /\ \/ /\ Halt(risk) /\ Goto("top")
        /\ UNCHANGED <<feed, record, mark, heard, decided, risk, lost, breached>>
     \/ HaltCollides(risk) /\ Raise
  /\ UNCHANGED <<drawn, beat, stop, breached>>

Consumer == Consume \/ Apply \/ ApplyFails \/ LookFlat \/ HaltFlat

Main == Recorder \/ Consumer \/ Unwind \/ CloseRun \/ Leave

-----------------------------------------------------------------------------
(* The heartbeat thread *)

\* The disk is full: halt first, then stop the recorder.
BeatHalts ==
  /\ beat = "alive" /\ phase # "down"
  /\ Halt(DiskLow)
  /\ beat' = "halted"
  /\ UNCHANGED <<loop, feed, record, mark, heard, decided, risk, drawn, stop, lost, breached>>

BeatStops ==
  /\ beat = "halted"
  /\ stop' = TRUE
  /\ beat' = "over"
  /\ UNCHANGED <<vars, loop, feed, record, mark, heard, decided, risk, drawn, lost, breached>>

\* A heartbeat, a disk reading or a halt that raises.
BeatBreaks ==
  /\ beat \in {"alive", "halted"}
  /\ stop' = TRUE
  /\ beat' = "over"
  /\ UNCHANGED <<vars, loop, feed, record, mark, heard, decided, risk, drawn, lost, breached>>

BeatEnds ==
  /\ beat = "alive" /\ stop
  /\ beat' = "over"
  /\ UNCHANGED <<vars, loop, feed, record, mark, heard, decided, risk, drawn, stop, lost, breached>>

Heartbeat == BeatHalts \/ BeatStops \/ BeatBreaks \/ BeatEnds

ServiceNext == Begin \/ Request \/ Crash \/ Main \/ Heartbeat

\* Every call of the main thread returns: receiving has a timeout, a pause is
\* bounded by the deadline, the join has a limit.
ServiceSpec == ServiceInit /\ [][ServiceNext]_all /\ WF_all(Main)

-----------------------------------------------------------------------------
(* Properties *)

ServiceTypeOK ==
  /\ loop \in {"none", "top", "receive", "consume", "apply", "flat", "halt",
               "closing", "exit"}
  /\ feed \in [open : BOOLEAN, connections : 0..MaxConnections, gap : BOOLEAN, at : 0..MaxAt]
  /\ record \in [kind : {"none", "book", "trade"}, connection : Nat, at : Nat, gap : BOOLEAN]
  /\ mark \in BOOLEAN /\ heard \in 0..WarmupBooks /\ decided \in Intent \cup {NoIntent}
  /\ risk \in {NoReason, MaxDrawdown, DailyLoss} /\ drawn \in BOOLEAN
  /\ beat \in {"none", "alive", "halted", "over"}
  /\ stop \in BOOLEAN
  /\ lost \in BOOLEAN /\ breached \in BOOLEAN
  /\ phase = "down" <=> loop = "none"

\* Whatever the feed missed (a dropped connection, a rejected message, a
\* silence, whether noticed on a book or on a trade before it), the next book
\* fills no order, leaves none waiting and places none.
LossEndsOrders ==
  [][last' # last /\ last' # NoBook /\ lost =>
       /\ pending' = {} /\ streak' = 0
       /\ run'[newest].base = run[newest].base /\ run'[newest].cash = run[newest].cash]_all

\* Beyond the drawdown limit nothing is bought: no order to buy waits, in this
\* run or in a later one, also when the limit was exceeded by the very book the
\* order was decided on.
NoBuyAfterBreach == breached => \A o \in pending : o.side = "sell"

\* A policy that has seen a limit exceeded, on an account without position and
\* order, has halted the run before the next event is received.
RiskHalts ==
  loop \in {"top", "receive"} /\ risk # NoReason /\ Position = 0 /\ Waiting = {}
    => run[newest].lifecycle = "halted_recovery"

\* The account under this service is the account of ShadowLedger: positions,
\* connections and halts come as its specification expects, so that what is
\* proved of it holds here.
ServesLedger == Spec

\* A stop request, from outside or from the heartbeat thread, ends the session
\* whatever the feed does.
StopIsServed == stop /\ loop # "none" ~> phase \in {"closing", "down"}

=============================================================================
