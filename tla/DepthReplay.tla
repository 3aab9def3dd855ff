---------------------------- MODULE DepthReplay ----------------------------
(***************************************************************************)
(* Independent taker orders replayed on a recorded archive (hft_depth.py): *)
(* records with their continuity marks (hft_archive.py), the loader that   *)
(* carries the marks of trades over to the next book, the index of         *)
(* continuity-safe runs, the choice of the book an order meets after its   *)
(* latency, and the sweep of that book's visible depth.                    *)
(*                                                                         *)
(* One capture of one market; rejected records are allowed, the case the   *)
(* command refuses without --allow-rejected.  Amounts are in units of the  *)
(* request: base, or quote, where a level offers size * price.             *)
(***************************************************************************)
EXTENDS Integers, FiniteSets, Sequences, SequencesExt, FiniteSetsExt

CONSTANTS
  Depth,        \* books: levels a buy and a sell meet, best first
  Order,        \* orders: side, unit, amount and latency
  Rounding,     \* what is left of a request and taken for nothing
  LongestLapse, \* max_book_gap_ns
  MaxRecords

Levels == Seq([price : Nat \ {0}, size : Nat \ {0}])

ASSUME DepthAssumption ==
  /\ Depth \subseteq [buy : Levels, sell : Levels]
  /\ Order \subseteq [side : {"buy", "sell"}, unit : {"base", "quote"},
                      amount : Nat \ {0}, latency : Nat]
  /\ {Rounding, LongestLapse, MaxRecords} \subseteq Nat

VARIABLES
  archive,   \* envelopes in the order they were recorded
  replayed,  \* ordinal of the last envelope of the latest replay
  outcomes   \* its outcomes

replayVars == <<archive, replayed, outcomes>>

ReplayInit == archive = <<>> /\ replayed = 0 /\ outcomes = {}

-----------------------------------------------------------------------------
(* The archive *)

Kind == {"orderbook", "trade", "rejected"}

NoDepth == [buy |-> <<>>, sell |-> <<>>]

\* What happened since the event before: nothing; nothing within one tick of the
\* monotonic clock; LongestLapse passed (but not the recorder's own, longer
\* threshold, which marks a gap like "dropped"); the clock went back; the line
\* was connected again; a message could not be normalised; or the events between
\* were lost with their partition.
Event == {"none", "same_tick", "late", "regression", "reconnect", "dropped", "lost"}

Clock(event) ==
  CASE event = "same_tick" -> 0
    [] event = "late" -> LongestLapse + 1
    [] event = "regression" -> -1
    [] OTHER -> 1

\* An event is recorded.  A "rejected" one is an order book that fails its
\* validation when it is loaded.
RecordEvent ==
  /\ Len(archive) < MaxRecords
  /\ \E kind \in Kind, event \in Event, shown \in Depth \cup {NoDepth} :
       LET first == archive = <<>>
           last == IF first THEN [ordinal |-> 0, connection |-> 1, at |-> 0] ELSE Last(archive)
       IN /\ first => event = "none"
          /\ kind = "orderbook" <=> shown # NoDepth
          /\ archive' = Append(archive,
               [ordinal |-> last.ordinal + IF event = "lost" THEN 2 ELSE 1,
                connection |-> last.connection + IF event = "reconnect" THEN 1 ELSE 0,
                at |-> last.at + Clock(event),
                kind |-> kind,
                shown |-> shown,
                gap |-> event \in {"reconnect", "dropped"},
                regressed |-> event = "regression"])
  /\ UNCHANGED <<replayed, outcomes>>

-----------------------------------------------------------------------------
(* public_orderbooks_from_records *)

\* Faulty variant: only the marks of the books themselves are kept.
LoadBookMarks(acc, r) ==
  [acc EXCEPT !.books = IF r.kind = "orderbook" THEN Append(@, r) ELSE @]

\* One record: gaps, holes between ordinals and regressions wait for the next
\* book that is valid.
LoadRecord(acc, r) ==
  LET gap == acc.gap \/ r.gap \/ (acc.prior # 0 /\ r.ordinal # acc.prior + 1)
      regressed == acc.regressed \/ r.regressed
      book == [r EXCEPT !.gap = gap, !.regressed = regressed]
  IN IF r.kind = "orderbook"
     THEN [books |-> Append(acc.books, book), gap |-> FALSE, regressed |-> FALSE,
           prior |-> r.ordinal]
     ELSE [books |-> acc.books, gap |-> gap, regressed |-> regressed, prior |-> r.ordinal]

\* Records once each, by ordinal.
InOrdinalOrder(file) ==
  LET unique == Range(file)
  IN [i \in 1..Cardinality(unique) |->
        CHOOSE r \in unique : Cardinality({q \in unique : q.ordinal <= r.ordinal}) = i]

Nothing == [books |-> <<>>, gap |-> FALSE, regressed |-> FALSE, prior |-> 0]

Books(file) == FoldLeft(LoadRecord, Nothing, InOrdinalOrder(file)).books

-----------------------------------------------------------------------------
(* _ReplayBookIndex *)

\* A run ends between two books of one stream.
Breaks(previous, book) ==
  \/ book.connection # previous.connection
  \/ book.regressed \/ book.at < previous.at
  \/ book.gap
  \/ book.at - previous.at > LongestLapse

\* First and one past the last index of the run of book i.
RunStart(books, i) == Max({j \in 2..i : Breaks(books[j - 1], books[j])} \cup {1})
RunEnd(books, i) ==
  Min({j \in i + 1..Len(books) : Breaks(books[j - 1], books[j])} \cup {Len(books) + 1})

\* Index of the book an order decided at book i meets: bisection of the times
\* of the run; the index past the run where there is none.
Candidate(books, i, due) ==
  LET start == RunStart(books, i)
      earlier == {j \in start..RunEnd(books, i) - 1 : books[j].at < due}
  IN Max({i, start + Cardinality(earlier)})

-----------------------------------------------------------------------------
(* sweep_visible_depth *)

Offered(level, unit) == IF unit = "base" THEN level.size ELSE level.size * level.price

\* Faulty variant: a level is taken whole.
TakeWholeLevel(acc, offered) ==
  IF acc.rest = 0 THEN acc
  ELSE [filled |-> acc.filled + offered, used |-> acc.used + 1,
        rest |-> IF acc.rest <= offered + Rounding THEN 0 ELSE acc.rest - offered]

\* One level; what is left of the request within the rounding error is nothing.
TakeLevel(acc, offered) ==
  LET take == Min({offered, acc.rest})
      rest == acc.rest - take
  IN IF acc.rest = 0 THEN acc
     ELSE [filled |-> acc.filled + take, used |-> acc.used + 1,
           rest |-> IF rest <= Rounding THEN 0 ELSE rest]

Offers(book, order) ==
  LET levels == book.shown[order.side]
  IN [n \in DOMAIN levels |-> Offered(levels[n], order.unit)]

Untouched(order) == [filled |-> 0, used |-> 0, rest |-> order.amount]

Sweep(book, order) == FoldLeft(TakeLevel, Untouched(order), Offers(book, order))

-----------------------------------------------------------------------------
(* replay_independent_taker_orders *)

Outcome(books, i, order) ==
  LET due == books[i].at + order.latency
      end == RunEnd(books, i)
      k == Candidate(books, i, due)
      swept == IF k < end THEN Sweep(books[k], order) ELSE Untouched(order)
  IN [order |-> order, decided |-> books[i].ordinal, due |-> due,
      status |-> IF k >= end THEN IF end <= Len(books) THEN "invalid" ELSE "unavailable"
                 ELSE IF swept.rest = 0 THEN "filled" ELSE "partial",
      chosen |-> IF k < end THEN books[k].ordinal ELSE 0,
      filled |-> swept.filled, used |-> swept.used, rest |-> swept.rest]

\* Any sample of the books and any of the orders: each order is replayed by
\* itself.
Outcomes(books) == {Outcome(books, i, order) : i \in DOMAIN books, order \in Order}

\* Files are read in an order of their own and may repeat records.
Replay ==
  /\ archive # <<>> /\ replayed < Last(archive).ordinal
  /\ \E file \in {archive, Reverse(archive) \o archive} :
       outcomes' = Outcomes(Books(file))
  /\ replayed' = Last(archive).ordinal
  /\ UNCHANGED archive

ReplayNext == RecordEvent \/ Replay

ReplaySpec == ReplayInit /\ [][ReplayNext]_replayVars

-----------------------------------------------------------------------------
(* Properties *)

RecordOf(ordinal) == CHOOSE r \in Range(archive) : r.ordinal = ordinal
Observed == {r \in Range(archive) : r.kind = "orderbook"}

\* Every event from one book to another was recorded and follows the one before
\* without a gap, and no two books in between lie too far apart.
Continuous(from, to) ==
  /\ \A n \in from.ordinal + 1..to.ordinal :
       \E r \in Range(archive) : r.ordinal = n /\ ~r.gap /\ ~r.regressed
  /\ \A a, b \in Observed :
       /\ from.ordinal <= a.ordinal /\ a.ordinal < b.ordinal /\ b.ordinal <= to.ordinal
       /\ \A c \in Observed : c.ordinal <= a.ordinal \/ c.ordinal >= b.ordinal
       => b.at - a.at <= LongestLapse

\* An order fills at the first book at or after its due time, if the archive is
\* whole from the decision to that book; it is invalid only if no such book can
\* exist, and unavailable only while there is none.  As the archive may have
\* grown since the replay, a settled order stays settled the same way: replaying
\* a longer archive never changes it.
SettledAtFirstBook ==
  \A o \in outcomes :
    LET decided == RecordOf(o.decided)
        eligible == {b.ordinal : b \in {c \in Observed : c.ordinal >= o.decided
                                          /\ c.at >= o.due /\ Continuous(decided, c)}}
    IN /\ o.status \in {"filled", "partial"} => eligible # {} /\ o.chosen = Min(eligible)
       /\ o.status = "invalid" => eligible = {}
       /\ o.status = "unavailable" => \A n \in eligible : n > replayed

Visible(offers, n) == FoldLeft(LAMBDA a, b : a + b, 0, SubSeq(offers, 1, n))

\* A sweep takes the levels best first until the request is met, within the
\* rounding error, and never more than was asked or was visible; it is partial
\* only if all that was visible is taken and does not meet the request.
SweepWithinDepth ==
  \A o \in outcomes : o.chosen # 0 =>
    LET offers == Offers(RecordOf(o.chosen), o.order)
        enough == {n \in DOMAIN offers : Visible(offers, n) + Rounding >= o.order.amount}
    IN /\ o.used = IF enough = {} THEN Len(offers) ELSE Min(enough)
       /\ o.filled = Min({o.order.amount, Visible(offers, o.used)})
       /\ (o.status = "filled") <=> (enough # {})
       /\ o.rest = IF enough = {} THEN o.order.amount - o.filled ELSE 0

=============================================================================
