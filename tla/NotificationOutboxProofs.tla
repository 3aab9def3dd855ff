---------------------- MODULE NotificationOutboxProofs ----------------------
(***************************************************************************)
(* The inductive invariant of the notification outbox: types, the leases   *)
(* behind the batches, and the requests behind every end, for any number   *)
(* of notices and of notifiers that die and overtake each other.           *)
(***************************************************************************)
EXTENDS NotificationOutbox, FiniteSetTheorems, TLAPS

\* The observers can count every attempt.
Countable == MaxAttempts <= MaxCount

Row == [status: Status, attempts: 0..MaxAttempts, wait: Nat,
        owner: Worker \union {NoWorker}, lease: 0..Lease]

\* A notice that is not settled has an attempt left; a request is under way
\* only for a notice in a batch.
AttemptLeft ==
  /\ \A n \in Notice : row[n].status \notin Terminal => row[n].attempts < MaxAttempts
  /\ \A w \in Worker : answer[w] # "none" => batch[w] # {}

\* Requests outnumber what the rows record of them: by one while the answer of
\* the notice's holder is not yet recorded.
RequestsCounted ==
  /\ \A n \in Notice : refused[n] >= row[n].attempts
  /\ \A w \in Worker : \A n \in Notice : Current(w, n) =>
       /\ answer[w] = "ok" => confirmed[n] > 0
       /\ answer[w] = "error" /\ Holds(w, n) => refused[n] >= row[n].attempts + 1
  /\ \A n \in Notice : row[n].status = "dead_letter" => row[n].attempts = MaxAttempts

Inductive ==
  TypeOK /\ AttemptLeft /\ RequestsCounted /\ BatchBackedByLease /\ NothingLost

-----------------------------------------------------------------------------

LEMMA Numbers ==
  /\ Limit \in Nat \ {0} /\ Lease \in Nat \ {0} /\ SendTime \in Nat \ {0}
  /\ Retry \subseteq Nat /\ MaxAttempts \in Nat \ {0} /\ MaxCrashes \in Nat
  /\ MaxCount \in Nat \ {0} /\ NoWorker \notin Worker
BY OutboxAssumption

\* Saturating counters stay in range, and count up to the bound.
LEMMA UpType ==
  ASSUME NEW c \in 0..MaxCount
  PROVE  /\ Up(c) \in 0..MaxCount /\ Up(c) > 0 /\ Up(c) >= c
         /\ \A k \in Nat : k <= c /\ k < MaxCount => Up(c) >= k + 1
BY Numbers DEF Up

\* The first notice of a batch is one notice.
LEMMA OneCurrent ==
  ASSUME NEW w \in Worker, NEW m \in Notice, NEW n \in Notice,
         Current(w, m), Current(w, n)
  PROVE  m = n
<1>1. m \in Nat /\ n \in Nat
  BY OutboxAssumption
<1> QED
  BY <1>1 DEF Current

\* A notice is held by one worker.
LEMMA OneHolder ==
  ASSUME NEW v, NEW w, NEW n, Holds(v, n), Holds(w, n)
  PROVE  v = w
BY DEF Holds

\* What a claim writes into a row.
LEMMA LeasedRow ==
  ASSUME NEW r \in Row, NEW w \in Worker
  PROVE  /\ Leased(r, w) \in Row /\ Leased(r, w).status = "sending"
         /\ Leased(r, w).owner = w /\ Leased(r, w).attempts = r.attempts
BY Numbers DEF Leased, Row, Status

LEMMA InitInductive == Init => Inductive
<1> SUFFICES ASSUME Init PROVE Inductive
  OBVIOUS
<1> USE Numbers
<1>1. TypeOK
  BY DEF Init, TypeOK, NewNotice, Status
<1>2. AttemptLeft
  BY DEF Init, AttemptLeft, NewNotice
<1>3. RequestsCounted
  BY DEF Init, RequestsCounted, Current, NewNotice
<1>4. BatchBackedByLease /\ NothingLost
  BY DEF Init, BatchBackedByLease, NothingLost, NewNotice
<1> QED
  BY <1>1, <1>2, <1>3, <1>4 DEF Inductive

\* A notice is queued.
LEMMA EnqueueInductive ==
  ASSUME Inductive, NEW n \in Notice, Enqueue(n)
  PROVE  Inductive'
<1> USE Numbers
<1>1. row' = [row EXCEPT ![n].status = "pending"] /\ row[n].status = "absent"
  BY DEF Enqueue
<1>2. UNCHANGED <<batch, answer, spent, crashes, confirmed, refused, lapsed>>
  BY DEF Enqueue
<1>3. row \in [Notice -> Row]
  BY DEF Inductive, TypeOK, Row
<1>4. /\ row'[n].status = "pending" /\ row'[n].attempts = row[n].attempts
      /\ row'[n].owner = row[n].owner
      /\ \A m \in Notice : m # n => row'[m] = row[m]
      /\ row' \in [Notice -> Row]
  BY <1>1, <1>3 DEF Row, Status
<1>5. TypeOK'
  BY <1>2, <1>4 DEF Inductive, TypeOK, Row
<1>6. AttemptLeft'
  BY <1>1, <1>2, <1>4 DEF Inductive, AttemptLeft, Terminal
<1>7. \A w \in Worker, m \in Notice : Holds(w, m)' <=> Holds(w, m)
  BY <1>1, <1>4 DEF Holds
<1>8. RequestsCounted'
  BY <1>1, <1>2, <1>4, <1>7 DEF Inductive, RequestsCounted, Current
<1>9. BatchBackedByLease'
  BY <1>2, <1>7 DEF Inductive, BatchBackedByLease, TypeOK
<1>10. NothingLost'
  BY <1>1, <1>2, <1>4 DEF Inductive, NothingLost
<1> QED
  BY <1>5, <1>6, <1>8, <1>9, <1>10 DEF Inductive

\* A batch is claimed: whoever held a notice of it loses it to a lapsed lease.
LEMMA ClaimInductive ==
  ASSUME Inductive, NEW w \in Worker, Claim(w)
  PROVE  Inductive'
<1> USE Numbers
<1> DEFINE taken == Oldest({n \in Notice : Claimable(n)})
<1>1. /\ batch[w] = {}
      /\ row' = [n \in Notice |->
                   IF n \in taken
                   THEN Leased(row[n], w) ELSE row[n]]
      /\ batch' = [batch EXCEPT ![w] = taken]
      /\ lapsed' = [n \in Notice |->
                      IF n \in taken /\ row[n].status = "sending" /\ row[n].lease = 0
                      THEN Up(lapsed[n]) ELSE lapsed[n]]
      /\ spent' = [spent EXCEPT ![w] = 0]
      /\ UNCHANGED <<answer, crashes, confirmed, refused>>
  BY DEF Claim
<1>2. taken \subseteq Notice /\ \A n \in taken : Claimable(n)
  BY DEF Oldest
<1> HIDE DEF taken
<1>3. /\ row \in [Notice -> Row] /\ batch \in [Worker -> SUBSET Notice]
      /\ lapsed \in [Notice -> 0..MaxCount] /\ spent \in [Worker -> 0..SendTime]
      /\ answer \in [Worker -> {"none", "ok", "error"}]
  BY DEF Inductive, TypeOK, Row
<1>4. \A n \in taken :
        /\ row'[n].status = "sending" /\ row'[n].owner = w
        /\ row'[n].attempts = row[n].attempts
        /\ row'[n] \in Row
  <2> SUFFICES ASSUME NEW n \in taken
               PROVE  /\ row'[n].status = "sending" /\ row'[n].owner = w
                      /\ row'[n].attempts = row[n].attempts
                      /\ row'[n] \in Row
    OBVIOUS
  <2>1. n \in Notice /\ row[n] \in Row
    BY <1>2, <1>3
  <2>2. row'[n] = Leased(row[n], w)
    BY <1>1, <2>1
  <2> QED
    BY <2>1, <2>2, LeasedRow
<1>5. \A n \in Notice \ taken : row'[n] = row[n]
  BY <1>1
<1>6. \A n \in taken : row[n].status \in {"pending", "sending"}
  BY <1>2 DEF Claimable
<1>7. \A n \in Notice : lapsed'[n] \in 0..MaxCount /\ lapsed'[n] >= lapsed[n]
  <2> SUFFICES ASSUME NEW n \in Notice
               PROVE  lapsed'[n] \in 0..MaxCount /\ lapsed'[n] >= lapsed[n]
    OBVIOUS
  <2>1. lapsed[n] \in 0..MaxCount
    BY <1>3
  <2>2. Up(lapsed[n]) \in 0..MaxCount /\ Up(lapsed[n]) >= lapsed[n]
    BY <2>1, UpType
  <2>3. lapsed'[n] = Up(lapsed[n]) \/ lapsed'[n] = lapsed[n]
    BY <1>1
  <2> QED
    BY <2>1, <2>2, <2>3
<1>8. \A n \in taken : row[n].status = "sending" => lapsed'[n] > 0
  <2> SUFFICES ASSUME NEW n \in taken, row[n].status = "sending" PROVE lapsed'[n] > 0
    OBVIOUS
  <2>1. n \in Notice /\ lapsed[n] \in 0..MaxCount /\ row[n].lease = 0
    BY <1>2, <1>3 DEF Claimable
  <2>2. lapsed'[n] = Up(lapsed[n])
    BY <1>1, <2>1
  <2> QED
    BY <2>1, <2>2, UpType
<1>9. row' \in [Notice -> Row]
  BY <1>1, <1>2, <1>3, <1>4, <1>5
<1>10. lapsed' \in [Notice -> 0..MaxCount]
  BY <1>1, <1>7
<1>19. UNCHANGED <<answer, crashes, confirmed, refused>>
  BY <1>1
<1>11. TypeOK'
  <2>1. batch' \in [Worker -> SUBSET Notice] /\ spent' \in [Worker -> 0..SendTime]
    BY <1>1, <1>2, <1>3
  <2>2. /\ answer \in [Worker -> {"none", "ok", "error"}] /\ crashes \in 0..MaxCrashes
        /\ confirmed \in [Notice -> 0..MaxCount] /\ refused \in [Notice -> 0..MaxCount]
    BY DEF Inductive, TypeOK
  <2> QED
    BY <1>9, <1>10, <1>19, <2>1, <2>2 DEF TypeOK, Row
<1>12. answer[w] = "none"
  BY <1>1, <1>3 DEF Inductive, AttemptLeft
<1>13. AttemptLeft'
  <2>1. \A n \in Notice : row'[n].status \notin Terminal => row'[n].attempts < MaxAttempts
    BY <1>4, <1>5, <1>6 DEF Inductive, AttemptLeft, Terminal
  <2>2. \A v \in Worker : answer'[v] # "none" => batch'[v] # {}
    BY <1>1, <1>3, <1>12 DEF Inductive, AttemptLeft
  <2> QED
    BY <2>1, <2>2 DEF AttemptLeft
<1>14. \A v \in Worker : v # w => batch'[v] = batch[v]
  BY <1>1, <1>3
<1>15. \A v \in Worker, n \in Notice :
         v # w /\ Holds(v, n)' => Holds(v, n) /\ n \notin taken
  BY <1>4, <1>5 DEF Holds
<1>16. RequestsCounted'
  <2>1. \A n \in Notice : row'[n].attempts = row[n].attempts
    BY <1>4, <1>5
  <2>2. \A n \in Notice : row'[n].status = "dead_letter" => row[n].status = "dead_letter"
    BY <1>4, <1>5
  <2>3. \A v \in Worker, n \in Notice : v # w /\ Current(v, n)' => Current(v, n)
    BY <1>14 DEF Current
  <2>4. ASSUME NEW v \in Worker, NEW n \in Notice, Current(v, n)'
        PROVE  /\ answer'[v] = "ok" => confirmed'[n] > 0
               /\ answer'[v] = "error" /\ Holds(v, n)' => refused'[n] >= row'[n].attempts + 1
    <3>1. CASE v = w
      BY <1>1, <1>12, <3>1
    <3>2. CASE v # w
      BY <1>1, <1>15, <2>1, <2>3, <2>4, <3>2 DEF Inductive, RequestsCounted
    <3> QED
      BY <3>1, <3>2
  <2> QED
    BY <1>1, <2>1, <2>2, <2>4 DEF Inductive, RequestsCounted
<1>17. BatchBackedByLease'
  <2> SUFFICES ASSUME NEW v \in Worker, NEW n \in batch'[v]
               PROVE  Holds(v, n)' \/ lapsed'[n] > 0
    BY DEF BatchBackedByLease
  <2>1. CASE v = w
    BY <1>1, <1>3, <1>4, <2>1 DEF Holds
  <2>2. CASE v # w
    <3>1. n \in batch[v] /\ n \in Notice
      BY <1>3, <1>14, <2>2
    <3>2. Holds(v, n) \/ lapsed[n] > 0
      BY <3>1 DEF Inductive, BatchBackedByLease
    <3>3. CASE lapsed[n] > 0
      BY <1>3, <1>7, <3>1, <3>3
    <3>4. CASE Holds(v, n) /\ n \in taken
      BY <1>8, <3>4 DEF Holds
    <3>5. CASE Holds(v, n) /\ n \notin taken
      BY <1>5, <3>1, <3>5 DEF Holds
    <3> QED
      BY <3>2, <3>3, <3>4, <3>5
  <2> QED
    BY <2>1, <2>2
<1>18. NothingLost'
  BY <1>1, <1>4, <1>5 DEF Inductive, NothingLost
<1> QED
  BY <1>11, <1>13, <1>16, <1>17, <1>18 DEF Inductive

\* A request is answered.
LEMMA SendInductive ==
  ASSUME Countable, Inductive, NEW w \in Worker, Send(w)
  PROVE  Inductive'
<1> USE Numbers
<1>1. UNCHANGED <<row, batch, spent, crashes, lapsed>> /\ answer[w] = "none"
  BY DEF Send
<1>2. PICK n \in Notice :
        /\ Current(w, n)
        /\ \/ /\ answer' = [answer EXCEPT ![w] = "ok"]
              /\ confirmed' = [confirmed EXCEPT ![n] = Up(@)]
              /\ UNCHANGED refused
           \/ /\ answer' = [answer EXCEPT ![w] = "error"]
              /\ refused' = [refused EXCEPT ![n] = Up(@)]
              /\ UNCHANGED confirmed
  BY DEF Send
<1>3. /\ row \in [Notice -> Row] /\ batch \in [Worker -> SUBSET Notice]
      /\ confirmed \in [Notice -> 0..MaxCount] /\ refused \in [Notice -> 0..MaxCount]
      /\ answer \in [Worker -> {"none", "ok", "error"}]
  BY DEF Inductive, TypeOK, Row
<1>4. /\ Up(confirmed[n]) \in 0..MaxCount /\ Up(confirmed[n]) > 0
      /\ Up(confirmed[n]) >= confirmed[n]
      /\ Up(refused[n]) \in 0..MaxCount /\ Up(refused[n]) >= refused[n]
      /\ \A k \in Nat : k <= refused[n] /\ k < MaxCount => Up(refused[n]) >= k + 1
  BY <1>3, UpType
<1>5. /\ answer' \in [Worker -> {"none", "ok", "error"}]
      /\ confirmed' \in [Notice -> 0..MaxCount] /\ refused' \in [Notice -> 0..MaxCount]
  BY <1>2, <1>3, <1>4
<1>6. TypeOK'
  BY <1>1, <1>5 DEF Inductive, TypeOK
<1>7. \A m \in Notice : confirmed'[m] >= confirmed[m] /\ refused'[m] >= refused[m]
  BY <1>2, <1>3, <1>4
<1>8. \A v \in Worker : v # w => answer'[v] = answer[v]
  BY <1>2, <1>3
<1>9. n \in batch[w]
  BY <1>2 DEF Current
<1>10. AttemptLeft'
  BY <1>1, <1>8, <1>9 DEF Inductive, AttemptLeft
<1>11. \A m \in Notice : row[m].attempts \in Nat /\ refused[m] \in Nat /\ confirmed[m] \in Nat
                         /\ refused'[m] \in Nat /\ confirmed'[m] \in Nat
  BY <1>3, <1>5 DEF Row
<1>12. RequestsCounted'
  <2>1. ASSUME NEW v \in Worker, NEW m \in Notice, Current(v, m)'
        PROVE  /\ answer'[v] = "ok" => confirmed'[m] > 0
               /\ answer'[v] = "error" /\ Holds(v, m)' => refused'[m] >= row'[m].attempts + 1
    <3>1. Current(v, m) /\ (Holds(v, m)' <=> Holds(v, m))
      BY <1>1, <2>1 DEF Current, Holds
    <3>2. CASE v # w
      BY <1>1, <1>7, <1>8, <1>11, <3>1, <3>2 DEF Inductive, RequestsCounted
    <3>3. CASE v = w
      <4>1. m = n
        BY <1>2, <3>1, <3>3, OneCurrent
      <4>2. CASE answer' = [answer EXCEPT ![w] = "ok"]
        BY <1>2, <1>3, <1>4, <3>3, <4>1, <4>2
      <4>3. CASE answer' = [answer EXCEPT ![w] = "error"]
        <5>1. refused'[m] = Up(refused[n]) /\ answer'[v] = "error"
          BY <1>2, <1>3, <3>3, <4>1, <4>3
        <5>2. Holds(v, m) => row[m].attempts < MaxAttempts /\ row[m].attempts <= refused[m]
          BY <1>11 DEF Inductive, AttemptLeft, RequestsCounted, Holds, Terminal
        <5>3. Holds(v, m) => row[m].attempts < MaxCount
          BY <1>11, <5>2 DEF Countable
        <5> QED
          BY <1>1, <1>4, <1>11, <3>1, <4>1, <5>1, <5>2, <5>3
      <4> QED
        BY <1>2, <4>2, <4>3
    <3> QED
      BY <3>2, <3>3
  <2>2. \A m \in Notice : refused'[m] >= row'[m].attempts
    BY <1>1, <1>7, <1>11 DEF Inductive, RequestsCounted
  <2> QED
    BY <1>1, <2>1, <2>2 DEF Inductive, RequestsCounted
<1>13. BatchBackedByLease'
  BY <1>1 DEF Inductive, BatchBackedByLease, Holds
<1>14. NothingLost'
  BY <1>1, <1>7, <1>11 DEF Inductive, NothingLost
<1> QED
  BY <1>6, <1>10, <1>12, <1>13, <1>14 DEF Inductive

\* The holder of a notice writes its result into the row and goes on: nobody
\* else holds the notice, and the row counts no more than what was sent.
LEMMA SettleInductive ==
  ASSUME Inductive, NEW w \in Worker, NEW n \in Notice, NEW r \in Row,
         Current(w, n), Holds(w, n), Advances(w, n), row' = [row EXCEPT ![n] = r],
         UNCHANGED <<crashes, confirmed, refused, lapsed>>,
         r.owner = NoWorker, r.status # "sending", refused[n] >= r.attempts,
         r.status \notin Terminal => r.attempts < MaxAttempts,
         r.status = "dead_letter" => r.attempts = MaxAttempts,
         r.status = "delivered" => confirmed[n] > 0
  PROVE  Inductive'
<1> USE Numbers
<1>1. /\ row \in [Notice -> Row] /\ batch \in [Worker -> SUBSET Notice]
      /\ confirmed \in [Notice -> 0..MaxCount] /\ refused \in [Notice -> 0..MaxCount]
      /\ answer \in [Worker -> {"none", "ok", "error"}] /\ spent \in [Worker -> 0..SendTime]
  BY DEF Inductive, TypeOK, Row
<1>2. /\ batch' = [batch EXCEPT ![w] = @ \ {n}] /\ answer' = [answer EXCEPT ![w] = "none"]
      /\ spent' = [spent EXCEPT ![w] = 0]
  BY DEF Advances
<1>3. /\ batch' \in [Worker -> SUBSET Notice] /\ batch'[w] = batch[w] \ {n}
      /\ answer' \in [Worker -> {"none", "ok", "error"}] /\ answer'[w] = "none"
      /\ spent' \in [Worker -> 0..SendTime] /\ row' \in [Notice -> Row] /\ row'[n] = r
  BY <1>1, <1>2
<1>4. /\ \A v \in Worker : v # w => batch'[v] = batch[v] /\ answer'[v] = answer[v]
      /\ \A m \in Notice : m # n => row'[m] = row[m]
  BY <1>1, <1>2
<1>5. TypeOK'
  BY <1>3 DEF Inductive, TypeOK, Row
<1>6. AttemptLeft'
  <2>1. \A m \in Notice : row'[m].status \notin Terminal => row'[m].attempts < MaxAttempts
    BY <1>3, <1>4 DEF Inductive, AttemptLeft
  <2>2. \A v \in Worker : answer'[v] # "none" => batch'[v] # {}
    BY <1>3, <1>4 DEF Inductive, AttemptLeft
  <2> QED
    BY <2>1, <2>2 DEF AttemptLeft
<1>7. \A v \in Worker, m \in Notice : Holds(v, m)' => m # n /\ Holds(v, m)
  BY <1>3, <1>4 DEF Holds
<1>8. RequestsCounted'
  <2>1. ASSUME NEW v \in Worker, NEW m \in Notice, Current(v, m)'
        PROVE  /\ answer'[v] = "ok" => confirmed'[m] > 0
               /\ answer'[v] = "error" /\ Holds(v, m)' => refused'[m] >= row'[m].attempts + 1
    <3>1. CASE v = w
      BY <1>3, <3>1
    <3>2. CASE v # w
      <4>1. Current(v, m) /\ answer'[v] = answer[v]
        BY <1>4, <2>1, <3>2 DEF Current
      <4>2. answer[v] = "ok" => confirmed[m] > 0
        BY <4>1 DEF Inductive, RequestsCounted
      <4>3. answer[v] = "error" /\ Holds(v, m) => refused[m] >= row[m].attempts + 1
        BY <4>1 DEF Inductive, RequestsCounted
      <4> QED
        BY <1>4, <1>7, <4>1, <4>2, <4>3
    <3> QED
      BY <3>1, <3>2
  <2>2. \A m \in Notice : refused'[m] >= row'[m].attempts
    BY <1>3, <1>4 DEF Inductive, RequestsCounted
  <2>3. \A m \in Notice : row'[m].status = "dead_letter" => row'[m].attempts = MaxAttempts
    BY <1>3, <1>4 DEF Inductive, RequestsCounted
  <2> QED
    BY <2>1, <2>2, <2>3 DEF RequestsCounted
<1>9. BatchBackedByLease'
  <2> SUFFICES ASSUME NEW v \in Worker, NEW m \in batch'[v]
               PROVE  Holds(v, m)' \/ lapsed'[m] > 0
    BY DEF BatchBackedByLease
  <2>1. m \in batch[v] /\ m \in Notice /\ (v = w => m # n)
    BY <1>1, <1>3, <1>4
  <2>2. Holds(v, m) \/ lapsed[m] > 0
    BY <2>1 DEF Inductive, BatchBackedByLease
  <2>3. m = n => ~Holds(v, m)
    BY <2>1, OneHolder
  <2>4. m # n => (Holds(v, m)' <=> Holds(v, m))
    BY <1>4, <2>1 DEF Holds
  <2> QED
    BY <2>2, <2>3, <2>4
<1>10. NothingLost'
  <2> SUFFICES ASSUME NEW m \in Notice
               PROVE  /\ row'[m].status = "delivered" => confirmed'[m] > 0
                      /\ row'[m].status = "dead_letter" => refused'[m] >= MaxAttempts
    BY DEF NothingLost
  <2>1. CASE m = n
    BY <1>1, <1>3, <2>1 DEF Row
  <2>2. CASE m # n
    BY <1>4, <2>2 DEF Inductive, NothingLost
  <2> QED
    BY <2>1, <2>2
<1> QED
  BY <1>5, <1>6, <1>8, <1>9, <1>10 DEF Inductive

\* A delivery is recorded.
LEMMA MarkDeliveredInductive ==
  ASSUME Inductive, NEW w \in Worker, MarkDelivered(w)
  PROVE  Inductive'
<1>1. PICK n \in Notice :
        /\ Current(w, n) /\ Holds(w, n) /\ Advances(w, n)
        /\ row' = [row EXCEPT ![n] = Released("delivered", @.attempts, @.wait)]
  BY DEF MarkDelivered
<1> DEFINE r == Released("delivered", row[n].attempts, row[n].wait)
<1>2. row[n] \in Row /\ refused[n] >= row[n].attempts /\ confirmed[n] > 0
  BY <1>1 DEF MarkDelivered, Inductive, TypeOK, Row, RequestsCounted
<1>3. /\ r \in Row /\ r.owner = NoWorker /\ r.status = "delivered"
      /\ r.attempts = row[n].attempts
  BY <1>2, Numbers DEF Released, Row, Status
<1>4. row' = [row EXCEPT ![n] = r]
  BY <1>1
<1>5. UNCHANGED <<crashes, confirmed, refused, lapsed>>
  BY DEF MarkDelivered
<1> HIDE DEF r
<1> QED
  BY <1>1, <1>2, <1>3, <1>4, <1>5, SettleInductive DEF Terminal

\* A failure is recorded: an attempt more, and the last one ends the notice.
LEMMA RecordFailureInductive ==
  ASSUME Inductive, NEW w \in Worker, RecordFailure(w)
  PROVE  Inductive'
<1>1. PICK n \in Notice, wait \in Retry :
        /\ Current(w, n) /\ Holds(w, n) /\ Advances(w, n)
        /\ row' = [row EXCEPT ![n] = Released(AfterFailure(row[n].attempts + 1),
                                              row[n].attempts + 1, wait)]
  BY DEF RecordFailure
<1> DEFINE attempts == row[n].attempts + 1
           r == Released(AfterFailure(attempts), attempts, wait)
<1>2. row[n] \in Row /\ refused[n] >= row[n].attempts + 1
  BY <1>1 DEF RecordFailure, Inductive, TypeOK, Row, RequestsCounted
<1>3. row[n].attempts \in 0..MaxAttempts /\ row[n].attempts < MaxAttempts
  BY <1>1, <1>2 DEF Inductive, AttemptLeft, Holds, Terminal, Row
<1>4. attempts \in 1..MaxAttempts /\ wait \in Nat
  BY <1>3, Numbers
<1> HIDE DEF attempts
<1>5. /\ r \in Row /\ r.owner = NoWorker /\ r.attempts = attempts
      /\ r.status \in {"dead_letter", "pending"}
      /\ r.status = "dead_letter" <=> attempts = MaxAttempts
  BY <1>4, Numbers DEF Released, AfterFailure, Row, Status
<1>6. row' = [row EXCEPT ![n] = r] /\ refused[n] >= attempts
  BY <1>1, <1>2 DEF attempts
<1>7. UNCHANGED <<crashes, confirmed, refused, lapsed>>
  BY DEF RecordFailure
<1> HIDE DEF r
<1>8. r.status \notin Terminal => r.attempts < MaxAttempts
  BY <1>4, <1>5, Numbers DEF Terminal
<1> QED
  BY <1>1, <1>5, <1>6, <1>7, <1>8, SettleInductive

\* A worker gives up its batch, by itself or killed.
LEMMA DiesInductive ==
  ASSUME Inductive, NEW w \in Worker, LeaseGone(w) \/ Crash(w)
  PROVE  Inductive'
<1> USE Numbers
<1>1. /\ batch' = [batch EXCEPT ![w] = {}] /\ answer' = [answer EXCEPT ![w] = "none"]
      /\ spent' = [spent EXCEPT ![w] = 0]
      /\ UNCHANGED <<row, confirmed, refused, lapsed>>
  BY DEF LeaseGone, Crash, Dies
<1>2. crashes' = crashes \/ (crashes < MaxCrashes /\ crashes' = crashes + 1)
  BY DEF LeaseGone, Crash
<1>3. /\ batch \in [Worker -> SUBSET Notice] /\ spent \in [Worker -> 0..SendTime]
      /\ answer \in [Worker -> {"none", "ok", "error"}] /\ crashes \in 0..MaxCrashes
  BY DEF Inductive, TypeOK
<1>4. /\ batch' \in [Worker -> SUBSET Notice] /\ spent' \in [Worker -> 0..SendTime]
      /\ answer' \in [Worker -> {"none", "ok", "error"}] /\ crashes' \in 0..MaxCrashes
      /\ batch'[w] = {} /\ answer'[w] = "none"
  BY <1>1, <1>2, <1>3
<1>5. \A v \in Worker : v # w => batch'[v] = batch[v] /\ answer'[v] = answer[v]
  BY <1>1, <1>3
<1>6. TypeOK'
  BY <1>1, <1>4 DEF Inductive, TypeOK
<1>7. AttemptLeft'
  <2>1. \A v \in Worker : answer'[v] # "none" => batch'[v] # {}
    BY <1>4, <1>5 DEF Inductive, AttemptLeft
  <2> QED
    BY <1>1, <2>1 DEF Inductive, AttemptLeft
<1>8. RequestsCounted'
  <2>1. ASSUME NEW v \in Worker, NEW m \in Notice, Current(v, m)'
        PROVE  /\ answer'[v] = "ok" => confirmed'[m] > 0
               /\ answer'[v] = "error" /\ Holds(v, m)' => refused'[m] >= row'[m].attempts + 1
    BY <1>1, <1>4, <1>5, <2>1 DEF Inductive, RequestsCounted, Current, Holds
  <2> QED
    BY <1>1, <2>1 DEF Inductive, RequestsCounted
<1>9. BatchBackedByLease'
  BY <1>1, <1>4, <1>5 DEF Inductive, BatchBackedByLease, Holds
<1>10. NothingLost'
  BY <1>1 DEF Inductive, NothingLost
<1> QED
  BY <1>6, <1>7, <1>8, <1>9, <1>10 DEF Inductive

\* Time passes.
LEMMA TickInductive == ASSUME Inductive, Tick PROVE Inductive'
<1> USE Numbers
<1>1. /\ row' = [n \in Notice |-> Aged(row[n])]
      /\ spent' = [w \in Worker |-> IF batch[w] # {} THEN spent[w] + 1 ELSE 0]
      /\ \A w \in Worker : batch[w] # {} => spent[w] < SendTime
      /\ UNCHANGED <<batch, answer, crashes, confirmed, refused, lapsed>>
  BY DEF Tick
<1>2. row \in [Notice -> Row] /\ spent \in [Worker -> 0..SendTime]
  BY DEF Inductive, TypeOK, Row
<1>3. \A n \in Notice :
        /\ row'[n] \in Row /\ row'[n].status = row[n].status
        /\ row'[n].owner = row[n].owner /\ row'[n].attempts = row[n].attempts
  BY <1>1, <1>2 DEF Aged, Less, Row
<1>4. row' \in [Notice -> Row] /\ spent' \in [Worker -> 0..SendTime]
  BY <1>1, <1>2, <1>3
<1>5. TypeOK'
  BY <1>1, <1>4 DEF Inductive, TypeOK, Row
<1>6. AttemptLeft'
  BY <1>1, <1>3 DEF Inductive, AttemptLeft
<1>7. \A w \in Worker, n \in Notice :
        (Holds(w, n)' <=> Holds(w, n)) /\ (Current(w, n)' <=> Current(w, n))
  BY <1>1, <1>3 DEF Holds, Current
<1>8. RequestsCounted'
  BY <1>1, <1>3, <1>7 DEF Inductive, RequestsCounted
<1>9. BatchBackedByLease'
  BY <1>1, <1>7 DEF Inductive, BatchBackedByLease, TypeOK
<1>10. NothingLost'
  BY <1>1, <1>3 DEF Inductive, NothingLost
<1> QED
  BY <1>5, <1>6, <1>8, <1>9, <1>10 DEF Inductive

\* Every step keeps the invariant.
LEMMA NextInductive == Countable /\ Inductive /\ [Next]_vars => Inductive'
<1> SUFFICES ASSUME Countable, Inductive, [Next]_vars PROVE Inductive'
  OBVIOUS
<1>1. CASE UNCHANGED vars
  BY <1>1 DEF vars, Inductive, TypeOK, AttemptLeft, RequestsCounted, BatchBackedByLease,
              NothingLost, Current, Holds
<1>2. CASE Next
  BY <1>2, EnqueueInductive, ClaimInductive, SendInductive, MarkDeliveredInductive,
     RecordFailureInductive, DiesInductive, TickInductive DEF Next, Step
<1> QED
  BY <1>1, <1>2

-----------------------------------------------------------------------------
(* What may still be confirmed *)

\* The workers that may yet be answered 200 for a notice, holding it or not.
MaySend(n) == {w \in Worker : n \in batch[w] /\ ~(Current(w, n) /\ answer[w] = "ok")}

\* A notice is paid for by its first claim and by every claim of a lapsed
\* lease.  A failure recorded gives one back with the row.
Paid(n) == lapsed[n] + (IF row[n].status \in {"absent", "pending"} THEN 0 ELSE 1)

\* Every 200, and every one that may come, is paid for; a saturated counter
\* of lapses says nothing more.
Budget ==
  \A n \in Notice :
    /\ IsFiniteSet(MaySend(n))
    /\ lapsed[n] = MaxCount \/ confirmed[n] + Cardinality(MaySend(n)) <= Paid(n)

\* The numbers the budget is made of.
LEMMA BudgetType ==
  ASSUME Inductive, Budget, NEW n \in Notice
  PROVE  /\ confirmed[n] \in 0..MaxCount /\ lapsed[n] \in 0..MaxCount /\ MaxCount \in Nat
         /\ Cardinality(MaySend(n)) \in Nat /\ IsFiniteSet(MaySend(n))
<1>1. IsFiniteSet(MaySend(n))
  BY DEF Budget
<1>2. Cardinality(MaySend(n)) \in Nat
  BY <1>1, FS_CardinalityType
<1>3. confirmed[n] \in 0..MaxCount /\ lapsed[n] \in 0..MaxCount
  BY DEF Inductive, TypeOK
<1> QED
  BY <1>1, <1>2, <1>3, Numbers

\* A step after which a notice may be sent by no other worker than before,
\* with no more confirmed and no less paid.
LEMMA BudgetShrinks ==
  ASSUME Inductive, Budget, NEW n \in Notice,
         MaySend(n)' \subseteq MaySend(n), confirmed'[n] = confirmed[n],
         lapsed'[n] = lapsed[n], Paid(n)' = Paid(n)
  PROVE  /\ IsFiniteSet(MaySend(n)')
         /\ lapsed'[n] = MaxCount \/ confirmed'[n] + Cardinality(MaySend(n)') <= Paid(n)'
<1>1. /\ confirmed[n] \in 0..MaxCount /\ lapsed[n] \in 0..MaxCount
      /\ Cardinality(MaySend(n)) \in Nat /\ IsFiniteSet(MaySend(n))
  BY BudgetType
<1>2. IsFiniteSet(MaySend(n)') /\ Cardinality(MaySend(n)') <= Cardinality(MaySend(n))
  BY <1>1, FS_Subset
<1>3. Cardinality(MaySend(n)') \in Nat
  BY <1>2, FS_CardinalityType
<1>4. Paid(n) \in Nat
  BY <1>1 DEF Paid
<1>5. lapsed[n] = MaxCount \/ confirmed[n] + Cardinality(MaySend(n)) <= Paid(n)
  BY DEF Budget
<1> QED
  BY <1>1, <1>2, <1>3, <1>4, <1>5

\* A claim is one sender more for each notice taken, paid for by the change of
\* the row or by the lapse.
LEMMA ClaimInBudget ==
  ASSUME Inductive, Budget, NEW w \in Worker, Claim(w)
  PROVE  Budget'
<1> DEFINE taken == Oldest({n \in Notice : Claimable(n)})
<1>1. /\ batch[w] = {} /\ batch' = [batch EXCEPT ![w] = taken]
      /\ row' = [n \in Notice |-> IF n \in taken THEN Leased(row[n], w) ELSE row[n]]
      /\ lapsed' = [n \in Notice |->
                      IF n \in taken /\ row[n].status = "sending" /\ row[n].lease = 0
                      THEN Up(lapsed[n]) ELSE lapsed[n]]
      /\ UNCHANGED <<answer, confirmed>>
  BY DEF Claim
<1>2. taken \subseteq Notice /\ \A n \in taken : Claimable(n)
  BY DEF Oldest
<1> HIDE DEF taken
<1>3. batch \in [Worker -> SUBSET Notice] /\ answer[w] = "none"
  BY <1>1 DEF Inductive, TypeOK, AttemptLeft
<1>4. batch'[w] = taken /\ \A v \in Worker : v # w => batch'[v] = batch[v]
  BY <1>1, <1>3
<1> SUFFICES ASSUME NEW n \in Notice
             PROVE  /\ IsFiniteSet(MaySend(n)')
                    /\ \/ lapsed'[n] = MaxCount
                       \/ confirmed'[n] + Cardinality(MaySend(n)') <= Paid(n)'
  BY DEF Budget
<1>5. CASE n \notin taken
  <2>1. MaySend(n)' \subseteq MaySend(n)
    BY <1>1, <1>4, <1>5 DEF MaySend, Current
  <2>2. row'[n] = row[n] /\ lapsed'[n] = lapsed[n]
    BY <1>1, <1>5
  <2> QED
    BY <1>1, <2>1, <2>2, BudgetShrinks DEF Paid
<1>6. CASE n \in taken
  <2>1. /\ confirmed[n] \in 0..MaxCount /\ lapsed[n] \in 0..MaxCount /\ MaxCount \in Nat
        /\ Cardinality(MaySend(n)) \in Nat /\ IsFiniteSet(MaySend(n))
    BY BudgetType
  <2>2. MaySend(n)' = MaySend(n) \cup {w} /\ w \notin MaySend(n)
    BY <1>1, <1>3, <1>4, <1>6 DEF MaySend, Current
  <2>3. /\ IsFiniteSet(MaySend(n)')
        /\ Cardinality(MaySend(n)') = Cardinality(MaySend(n)) + 1
    BY <2>1, <2>2, FS_AddElement
  <2>4. row'[n].status = "sending"
    BY <1>1, <1>6 DEF Leased
  <2>5. CASE row[n].status = "pending"
    <3>1. Paid(n) = lapsed[n] /\ Paid(n)' = lapsed[n] + 1 /\ lapsed'[n] = lapsed[n]
      BY <1>1, <2>1, <2>4, <2>5 DEF Paid
    <3> QED
      BY <1>1, <2>1, <2>3, <3>1 DEF Budget
  <2>6. CASE row[n].status = "sending"
    <3>1. lapsed'[n] = Up(lapsed[n])
      BY <1>1, <1>2, <1>6, <2>6 DEF Claimable
    <3>2. Paid(n) = lapsed[n] + 1 /\ Paid(n)' = lapsed'[n] + 1
      BY <2>4, <2>6 DEF Paid
    <3> QED
      BY <1>1, <2>1, <2>3, <3>1, <3>2 DEF Budget, Up
  <2> QED
    BY <1>2, <1>6, <2>5, <2>6 DEF Claimable
<1> QED
  BY <1>5, <1>6

\* A 200 is counted against the worker that obtained it.
LEMMA SendInBudget ==
  ASSUME Inductive, Budget, NEW w \in Worker, Send(w)
  PROVE  Budget'
<1>1. UNCHANGED <<row, batch, lapsed>> /\ answer[w] = "none"
  BY DEF Send
<1>2. PICK m \in Notice :
        /\ Current(w, m)
        /\ \/ /\ answer' = [answer EXCEPT ![w] = "ok"]
              /\ confirmed' = [confirmed EXCEPT ![m] = Up(@)]
           \/ /\ answer' = [answer EXCEPT ![w] = "error"]
              /\ UNCHANGED confirmed
  BY DEF Send
<1>3. /\ answer \in [Worker -> {"none", "ok", "error"}]
      /\ confirmed \in [Notice -> 0..MaxCount]
  BY DEF Inductive, TypeOK
<1>4. \A v \in Worker : v # w => answer'[v] = answer[v]
  BY <1>2, <1>3
<1> SUFFICES ASSUME NEW n \in Notice
             PROVE  /\ IsFiniteSet(MaySend(n)')
                    /\ \/ lapsed'[n] = MaxCount
                       \/ confirmed'[n] + Cardinality(MaySend(n)') <= Paid(n)'
  BY DEF Budget
<1>5. Paid(n)' = Paid(n) /\ lapsed'[n] = lapsed[n]
  BY <1>1 DEF Paid
<1>6. MaySend(n)' \subseteq MaySend(n)
  BY <1>1, <1>4 DEF MaySend, Current
<1>7. CASE confirmed'[n] = confirmed[n]
  BY <1>5, <1>6, <1>7, BudgetShrinks
<1>8. CASE confirmed'[n] # confirmed[n]
  <2>1. /\ n = m /\ answer'[w] = "ok" /\ confirmed'[n] = confirmed[n] + 1
    BY <1>2, <1>3, <1>8 DEF Up
  <2>2. w \in MaySend(n) /\ MaySend(n)' = MaySend(n) \ {w}
    BY <1>1, <1>2, <1>4, <2>1 DEF MaySend, Current
  <2>3. /\ confirmed[n] \in 0..MaxCount /\ lapsed[n] \in 0..MaxCount
        /\ Cardinality(MaySend(n)) \in Nat /\ IsFiniteSet(MaySend(n))
    BY BudgetType
  <2>4. /\ IsFiniteSet(MaySend(n)')
        /\ Cardinality(MaySend(n)') = Cardinality(MaySend(n)) - 1
    BY <2>2, <2>3, FS_RemoveElement
  <2>5. Paid(n) \in Nat
    BY <2>3 DEF Paid
  <2> QED
    BY <1>5, <2>1, <2>3, <2>4, <2>5 DEF Budget
<1> QED
  BY <1>7, <1>8

\* The holder settles its notice: after a 200 the row stays paid for, after a
\* failure the worker and its payment go together.
LEMMA SettleInBudget ==
  ASSUME Inductive, Budget, NEW w \in Worker, MarkDelivered(w) \/ RecordFailure(w)
  PROVE  Budget'
<1>1. PICK m \in Notice :
        /\ Current(w, m) /\ Holds(w, m) /\ Advances(w, m)
        /\ \A n \in Notice : n # m => row'[n] = row[n]
        /\ \/ answer[w] = "ok" /\ row'[m].status = "delivered"
           \/ answer[w] = "error" /\ row'[m].status \in {"pending", "dead_letter"}
  <2>1. row \in [Notice -> Row]
    BY DEF Inductive, TypeOK, Row
  <2> QED
    BY <2>1 DEF MarkDelivered, RecordFailure, Released, AfterFailure
<1>2. UNCHANGED <<confirmed, lapsed>>
  BY DEF MarkDelivered, RecordFailure
<1>3. batch \in [Worker -> SUBSET Notice] /\ answer \in [Worker -> {"none", "ok", "error"}]
  BY DEF Inductive, TypeOK
<1>4. /\ batch'[w] = batch[w] \ {m} /\ answer'[w] = "none"
      /\ \A v \in Worker : v # w => batch'[v] = batch[v] /\ answer'[v] = answer[v]
  BY <1>1, <1>3 DEF Advances
<1> SUFFICES ASSUME NEW n \in Notice
             PROVE  /\ IsFiniteSet(MaySend(n)')
                    /\ \/ lapsed'[n] = MaxCount
                       \/ confirmed'[n] + Cardinality(MaySend(n)') <= Paid(n)'
  BY DEF Budget
<1>5. MaySend(n)' \subseteq MaySend(n)
  <2> SUFFICES ASSUME NEW v \in Worker, v \in MaySend(n)' PROVE v \in MaySend(n)
    BY DEF MaySend
  <2>1. CASE v # w
    BY <1>4, <2>1 DEF MaySend, Current
  <2>2. CASE v = w
    <3>1. n \in batch[w] /\ n # m
      BY <1>4, <2>2 DEF MaySend
    <3>2. ~Current(w, n)
      BY <1>1, <3>1, OneCurrent
    <3> QED
      BY <2>2, <3>1, <3>2 DEF MaySend
  <2> QED
    BY <2>1, <2>2
<1>6. CASE n # m \/ row'[m].status # "pending"
  <2>1. Paid(n)' = Paid(n)
    BY <1>1, <1>2, <1>6 DEF Paid, Holds
  <2> QED
    BY <1>2, <1>5, <2>1, BudgetShrinks
<1>7. CASE n = m /\ row'[m].status = "pending"
  <2>1. w \in MaySend(n) /\ w \notin MaySend(n)'
    BY <1>1, <1>4, <1>7 DEF MaySend, Current
  <2>2. /\ confirmed[n] \in 0..MaxCount /\ lapsed[n] \in 0..MaxCount
        /\ Cardinality(MaySend(n)) \in Nat /\ IsFiniteSet(MaySend(n))
    BY BudgetType
  <2>3. /\ IsFiniteSet(MaySend(n) \ {w})
        /\ Cardinality(MaySend(n) \ {w}) = Cardinality(MaySend(n)) - 1
    BY <2>1, <2>2, FS_RemoveElement
  <2>4. MaySend(n)' \subseteq MaySend(n) \ {w}
    BY <1>5, <2>1
  <2>5. /\ IsFiniteSet(MaySend(n)')
        /\ Cardinality(MaySend(n)') <= Cardinality(MaySend(n) \ {w})
    BY <2>3, <2>4, FS_Subset
  <2>6. Cardinality(MaySend(n)') \in Nat
    BY <2>5, FS_CardinalityType
  <2>7. Paid(n) = lapsed[n] + 1 /\ Paid(n)' = lapsed[n] + 0
    BY <1>1, <1>2, <1>7 DEF Paid, Holds
  <2> QED
    BY <1>2, <2>2, <2>3, <2>5, <2>6, <2>7 DEF Budget
<1> QED
  BY <1>6, <1>7

\* The other steps add no sender and change no payment.
LEMMA OthersInBudget ==
  ASSUME Inductive, Budget,
         \/ \E n \in Notice : Enqueue(n)
         \/ \E w \in Worker : LeaseGone(w) \/ Crash(w)
         \/ Tick
         \/ UNCHANGED vars
  PROVE  Budget'
<1>0. /\ row \in [Notice -> Row] /\ batch \in [Worker -> SUBSET Notice]
      /\ answer \in [Worker -> {"none", "ok", "error"}]
  BY DEF Inductive, TypeOK, Row
<1> SUFFICES ASSUME NEW n \in Notice
             PROVE  /\ IsFiniteSet(MaySend(n)')
                    /\ \/ lapsed'[n] = MaxCount
                       \/ confirmed'[n] + Cardinality(MaySend(n)') <= Paid(n)'
  BY DEF Budget
<1>1. UNCHANGED <<confirmed, lapsed>>
  BY DEF Enqueue, LeaseGone, Crash, Tick, vars
<1>2. \/ row'[n].status = row[n].status
      \/ row[n].status = "absent" /\ row'[n].status = "pending"
  <2>1. CASE \E m \in Notice : Enqueue(m)
    <3>1. PICK m \in Notice : row[m].status = "absent" /\ row' = [row EXCEPT ![m].status = "pending"]
      BY <2>1 DEF Enqueue
    <3>2. row'[m].status = "pending" /\ (n # m => row'[n] = row[n])
      BY <1>0, <3>1 DEF Row
    <3> QED
      BY <3>1, <3>2
  <2>2. CASE Tick
    BY <2>2 DEF Tick, Aged
  <2>3. CASE UNCHANGED row
    BY <2>3
  <2> QED
    BY <2>1, <2>2, <2>3 DEF LeaseGone, Crash, vars
<1>3. \A w \in Worker : batch'[w] = {} \/ (batch'[w] = batch[w] /\ answer'[w] = answer[w])
  BY <1>0 DEF Enqueue, LeaseGone, Crash, Dies, Tick, vars
<1>4. MaySend(n)' \subseteq MaySend(n)
  BY <1>3 DEF MaySend, Current
<1>5. Paid(n)' = Paid(n)
  BY <1>1, <1>2 DEF Paid
<1> QED
  BY <1>1, <1>4, <1>5, BudgetShrinks

LEMMA BudgetInvariant == ASSUME Countable PROVE Spec => [](Inductive /\ Budget)
<1>1. ASSUME Init PROVE Budget
  <2> SUFFICES ASSUME NEW n \in Notice
               PROVE  /\ IsFiniteSet(MaySend(n))
                      /\ confirmed[n] + Cardinality(MaySend(n)) <= Paid(n)
    BY DEF Budget
  <2>1. MaySend(n) = {} /\ confirmed[n] = 0 /\ Paid(n) = 0
    BY <1>1 DEF Init, MaySend, Paid, NewNotice
  <2> QED
    BY <2>1, FS_EmptySet
<1>2. ASSUME Inductive, Budget, [Next]_vars PROVE Budget'
  BY <1>2, ClaimInBudget, SendInBudget, SettleInBudget, OthersInBudget DEF Next, Step
<1> QED
  BY <1>1, <1>2, InitInductive, NextInductive, PTL DEF Spec

-----------------------------------------------------------------------------
(* The theorems *)

\* The rows, batches and observers keep their types: attempts never pass
\* MaxAttempts (record_notification_failure).
THEOREM TypeCorrect == ASSUME Countable PROVE Spec => []TypeOK
BY InitInductive, NextInductive, PTL DEF Spec, Inductive

\* However many notifiers claim, die and overtake each other, a notice ends as
\* delivered only after a 200 for it and in the dead letters only after
\* MaxAttempts failed requests.
THEOREM NoNoticeLost == ASSUME Countable PROVE Spec => []NothingLost
BY InitInductive, NextInductive, PTL DEF Spec, Inductive

\* Two workers never hold a notice under live leases.
THEOREM LeasesExclude == ASSUME Countable PROVE Spec => []BatchBackedByLease
BY InitInductive, NextInductive, PTL DEF Spec, Inductive

\* A notice is confirmed once, and once more for every claim that took it over
\* after its lease had run out.
THEOREM ResendsArePaid == ASSUME Countable PROVE Spec => []ResentOnlyAfterLapse
<1>1. ASSUME Inductive, Budget PROVE ResentOnlyAfterLapse
  <2> SUFFICES ASSUME NEW n \in Notice PROVE confirmed[n] <= 1 + lapsed[n]
    BY DEF ResentOnlyAfterLapse
  <2>1. /\ confirmed[n] \in 0..MaxCount /\ lapsed[n] \in 0..MaxCount /\ MaxCount \in Nat
        /\ Cardinality(MaySend(n)) \in Nat
    BY <1>1, BudgetType
  <2>2. Paid(n) \in Nat /\ Paid(n) <= lapsed[n] + 1
    BY <2>1 DEF Paid
  <2> QED
    BY <1>1, <2>1, <2>2 DEF Budget
<1> QED
  BY <1>1, BudgetInvariant, PTL

\* A worker that reports late reopens nothing.
THEOREM EndsAreFinal == ASSUME Countable PROVE Spec => TerminalStays
<1>1. ASSUME Inductive, [Next]_vars, NEW n \in Notice, row[n].status \in Terminal
      PROVE  row'[n].status = row[n].status
  <2>0. row \in [Notice -> Row]
    BY <1>1 DEF Inductive, TypeOK, Row
  <2>1. CASE \E m \in Notice : Enqueue(m)
    BY <1>1, <2>0, <2>1 DEF Enqueue, Terminal
  <2>2. CASE \E w \in Worker : Claim(w)
    <3>1. PICK w \in Worker : Claim(w)
      BY <2>2
    <3>2. n \notin Oldest({m \in Notice : Claimable(m)})
      BY <1>1 DEF Oldest, Claimable, Terminal
    <3> QED
      BY <3>1, <3>2 DEF Claim
  <2>3. CASE \E w \in Worker : MarkDelivered(w) \/ RecordFailure(w)
    <3>1. PICK w \in Worker, m \in Notice :
            Holds(w, m) /\ \A k \in Notice : k # m => row'[k] = row[k]
      BY <2>0, <2>3 DEF MarkDelivered, RecordFailure
    <3>2. m # n
      BY <1>1, <3>1 DEF Terminal, Holds
    <3> QED
      BY <3>1, <3>2
  <2>4. CASE Tick
    BY <1>1, <2>4 DEF Tick, Aged
  <2>5. CASE UNCHANGED row
    BY <2>5
  <2> QED
    BY <1>1, <2>1, <2>2, <2>3, <2>4, <2>5
       DEF Next, Step, Send, LeaseGone, Crash, vars
<1>2. Inductive /\ [Next]_vars =>
        [\A n \in Notice : row[n].status \in Terminal => row'[n].status = row[n].status]_vars
  BY <1>1
<1> QED
  BY <1>2, InitInductive, NextInductive, PTL DEF Spec, TerminalStays

=============================================================================
