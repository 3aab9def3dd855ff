------------------------- MODULE NotificationOutbox -------------------------
(***************************************************************************)
(* The notification outbox (notification_outbox in hft_shadow_store.py)    *)
(* and the notifier processes that drain it (run_notifier in               *)
(* shadow_ops.py).  Each store call is one transaction and one action; the *)
(* HTTP request between two of them is an action of its own, so a process  *)
(* may die on either side of it and a lease may run out during it.         *)
(*                                                                         *)
(* Abstractions.  A notice is its rank in created_wall_ns order.           *)
(* Available_wall_ns and lease_expires_wall_ns are held as the time left   *)
(* until them, so no wall clock is needed.  A process that dies is started *)
(* again by launchd under a new worker id; a worker here is that slot, as  *)
(* no batch survives a death and a claim rewrites the owner of what it     *)
(* takes.  Pacing and polling sleeps are part of the time an item takes.   *)
(***************************************************************************)
EXTENDS Integers, FiniteSets

CONSTANTS
  Notice,       \* notices, numbered in created_wall_ns order
  Worker,       \* notifier processes
  NoWorker,     \* lease_owner IS NULL
  Limit,        \* rows leased by one claim
  Lease,        \* lease_ns
  SendTime,     \* longest time a worker spends on one leased notice
  Retry,        \* waits recorded after a failed delivery
  MaxAttempts,  \* max_attempts
  (* Bounds. *)
  MaxCrashes,   \* deaths that no rule of the notifier causes
  MaxCount      \* the observers' counters saturate here

ASSUME OutboxAssumption ==
  /\ Notice \subseteq Nat \ {0} /\ IsFiniteSet(Notice)
  /\ NoWorker \notin Worker
  /\ Limit \in Nat \ {0}
  /\ Lease \in Nat \ {0}
  /\ SendTime \in Nat \ {0}
  /\ Retry \subseteq Nat /\ Retry # {}
  /\ MaxAttempts \in Nat \ {0}
  /\ MaxCrashes \in Nat
  /\ MaxCount \in Nat \ {0}

VARIABLES
  row,        \* rows of notification_outbox
  batch,      \* what each worker has claimed and not yet settled
  answer,     \* result of the request in hand: "none", "ok" (HTTP 200) or "error"
  spent,      \* time since each worker began with its current notice
  crashes,
  confirmed,  \* observer: HTTP 200 answers per notice
  refused,    \* observer: failed requests per notice
  lapsed      \* observer: claims of a notice whose lease had run out

vars == <<row, batch, answer, spent, crashes, confirmed, refused, lapsed>>

Status == {"absent", "pending", "sending", "delivered", "dead_letter"}
Terminal == {"delivered", "dead_letter"}

\* Counters of the observers.
Up(count) == IF count < MaxCount THEN count + 1 ELSE count
Less(time) == IF time > 0 THEN time - 1 ELSE 0

-----------------------------------------------------------------------------

NewNotice ==
  [status |-> "absent", attempts |-> 0, wait |-> 0, owner |-> NoWorker, lease |-> 0]

Init ==
  /\ row = [n \in Notice |-> NewNotice]
  /\ batch = [w \in Worker |-> {}]
  /\ answer = [w \in Worker |-> "none"]
  /\ spent = [w \in Worker |-> 0]
  /\ crashes = 0
  /\ confirmed = [n \in Notice |-> 0]
  /\ refused = [n \in Notice |-> 0]
  /\ lapsed = [n \in Notice |-> 0]

\* enqueue_notification: the alert key makes the insert happen once.
Enqueue(n) ==
  /\ row[n].status = "absent"
  /\ row' = [row EXCEPT ![n].status = "pending"]
  /\ UNCHANGED <<batch, answer, spent, crashes, confirmed, refused, lapsed>>

\* Faulty variant: a row left in "sending" by a dead worker is not looked at.
ClaimableWhilePending(n) == row[n].status = "pending" /\ row[n].wait = 0

\* Faulty variant: a lease is no obstacle.
ClaimableUnderLease(n) ==
  row[n].wait = 0 /\ row[n].status \in {"pending", "sending"}

Claimable(n) ==
  /\ row[n].wait = 0
  /\ \/ row[n].status = "pending"
     \/ row[n].status = "sending" /\ row[n].lease = 0

\* ORDER BY created_wall_ns ASC LIMIT: the members with few members below.
Oldest(notices) == {n \in notices : Cardinality({m \in notices : m < n}) < Limit}

Leased(r, w) == [status |-> "sending", attempts |-> r.attempts, wait |-> r.wait,
                 owner |-> w, lease |-> Lease]

\* claim_notifications, by a worker that has finished its last batch.
Claim(w) ==
  /\ batch[w] = {}
  /\ LET taken == Oldest({n \in Notice : Claimable(n)})
     IN /\ taken # {}
        /\ row' = [n \in Notice |->
                     IF n \in taken
                     THEN Leased(row[n], w) ELSE row[n]]
        /\ batch' = [batch EXCEPT ![w] = taken]
        /\ lapsed' = [n \in Notice |->
                        IF n \in taken /\ row[n].status = "sending" /\ row[n].lease = 0
                        THEN Up(lapsed[n]) ELSE lapsed[n]]
  /\ spent' = [spent EXCEPT ![w] = 0]
  /\ UNCHANGED <<answer, crashes, confirmed, refused>>

\* The notice a worker has in hand: a batch is worked through in order.
Current(w, n) == n \in batch[w] /\ \A m \in batch[w] : n <= m

\* SlackWebhookClient.send: nothing is written before the answer is known.  A
\* body that cannot be read makes an answer an error, whatever its status.
Send(w) ==
  /\ answer[w] = "none"
  /\ \E n \in Notice :
       /\ Current(w, n)
       /\ \/ /\ answer' = [answer EXCEPT ![w] = "ok"]
             /\ confirmed' = [confirmed EXCEPT ![n] = Up(@)]
             /\ UNCHANGED refused
          \/ /\ answer' = [answer EXCEPT ![w] = "error"]
             /\ refused' = [refused EXCEPT ![n] = Up(@)]
             /\ UNCHANGED confirmed
  /\ UNCHANGED <<row, batch, spent, crashes, lapsed>>

\* Faulty variant: the row is found by its id alone.
HoldsAny(w, n) == row[n].status # "absent"
\* The condition under which a worker may settle a row.
Holds(w, n) == row[n].status = "sending" /\ row[n].owner = w

Released(status, attempts, wait) ==
  [status |-> status, attempts |-> attempts, wait |-> wait, owner |-> NoWorker, lease |-> 0]

\* The worker forgets what it was doing and starts over.
Dies(w) ==
  /\ batch' = [batch EXCEPT ![w] = {}]
  /\ answer' = [answer EXCEPT ![w] = "none"]
  /\ spent' = [spent EXCEPT ![w] = 0]

Advances(w, n) ==
  /\ batch' = [batch EXCEPT ![w] = @ \ {n}]
  /\ answer' = [answer EXCEPT ![w] = "none"]
  /\ spent' = [spent EXCEPT ![w] = 0]

\* mark_notification_delivered
MarkDelivered(w) ==
  /\ answer[w] = "ok"
  /\ \E n \in Notice :
       /\ Current(w, n) /\ Holds(w, n)
       /\ row' = [row EXCEPT ![n] = Released("delivered", @.attempts, @.wait)]
       /\ Advances(w, n)
  /\ UNCHANGED <<crashes, confirmed, refused, lapsed>>

\* Faulty variant: given up one attempt early.
AfterFailureEarly(attempts) ==
  IF attempts + 1 >= MaxAttempts THEN "dead_letter" ELSE "pending"
\* The status after so many failed attempts.
AfterFailure(attempts) == IF attempts >= MaxAttempts THEN "dead_letter" ELSE "pending"

\* record_notification_failure
RecordFailure(w) ==
  /\ answer[w] = "error"
  /\ \E n \in Notice, wait \in Retry :
       /\ Current(w, n) /\ Holds(w, n)
       /\ LET attempts == row[n].attempts + 1
          IN row' = [row EXCEPT ![n] = Released(AfterFailure(attempts), attempts, wait)]
       /\ Advances(w, n)
  /\ UNCHANGED <<crashes, confirmed, refused, lapsed>>

\* Either of them on a lease that is gone: ShadowInvariantError, which
\* run_notifier does not catch.
LeaseGone(w) ==
  /\ answer[w] # "none"
  /\ \E n \in Notice : Current(w, n) /\ ~Holds(w, n)
  /\ Dies(w)
  /\ UNCHANGED <<row, crashes, confirmed, refused, lapsed>>

\* The process is killed, or its host restarts.
Crash(w) ==
  /\ crashes < MaxCrashes
  /\ crashes' = crashes + 1
  /\ Dies(w)
  /\ UNCHANGED <<row, confirmed, refused, lapsed>>

Aged(r) == [status |-> r.status, attempts |-> r.attempts, wait |-> Less(r.wait),
            owner |-> r.owner, lease |-> Less(r.lease)]

\* Time passes; no worker outlasts the request timeout and the pacing sleep.
Tick ==
  /\ \A w \in Worker : batch[w] # {} => spent[w] < SendTime
  /\ row' = [n \in Notice |-> Aged(row[n])]
  /\ spent' = [w \in Worker |-> IF batch[w] # {} THEN spent[w] + 1 ELSE 0]
  /\ UNCHANGED <<batch, answer, crashes, confirmed, refused, lapsed>>

Step(w) == Claim(w) \/ Send(w) \/ MarkDelivered(w) \/ RecordFailure(w) \/ LeaseGone(w)

Next ==
  \/ \E n \in Notice : Enqueue(n)
  \/ \E w \in Worker : Step(w) \/ Crash(w)
  \/ Tick

Spec == Init /\ [][Next]_vars

\* Workers run, launchd restarts them (KeepAlive) and time passes.  Nothing
\* obliges anybody to enqueue, Slack to accept or a worker to die.
Fairness == WF_vars(Tick) /\ \A w \in Worker : WF_vars(Step(w))

FairSpec == Spec /\ Fairness

-----------------------------------------------------------------------------
(* Properties *)

TypeOK ==
  /\ row \in [Notice -> [status: Status, attempts: 0..MaxAttempts, wait: Nat,
                         owner: Worker \union {NoWorker}, lease: 0..Lease]]
  /\ batch \in [Worker -> SUBSET Notice]
  /\ answer \in [Worker -> {"none", "ok", "error"}]
  /\ spent \in [Worker -> 0..SendTime]
  /\ crashes \in 0..MaxCrashes
  /\ confirmed \in [Notice -> 0..MaxCount] /\ refused \in [Notice -> 0..MaxCount]
  /\ lapsed \in [Notice -> 0..MaxCount]

\* A row is marked delivered only after Slack answered 200 for it, and given
\* up only after MaxAttempts requests for it have failed: no notice is lost
\* to a stolen lease, a crash or a retry (mark_notification_delivered,
\* record_notification_failure).
NothingLost ==
  \A n \in Notice :
    /\ row[n].status = "delivered" => confirmed[n] > 0
    /\ row[n].status = "dead_letter" => refused[n] >= MaxAttempts

\* A notice in a worker's batch is leased to that worker, until somebody
\* takes it over after the lease has run out: two workers never hold the
\* same notice under live leases.
BatchBackedByLease ==
  \A w \in Worker : \A n \in batch[w] : Holds(w, n) \/ lapsed[n] > 0

\* A notice confirmed more than once was taken over after its lease ran out,
\* once for every confirmation too many: while leases last, concurrent
\* notifiers do not send twice.
ResentOnlyAfterLapse ==
  \A n \in Notice : confirmed[n] <= 1 + lapsed[n]

\* A worker whose lease was taken over can no longer touch the row: a
\* delivered or dead-lettered notice is never reopened, whatever a late
\* worker still has to report.
TerminalStays ==
  [][\A n \in Notice : row[n].status \in Terminal => row'[n].status = row[n].status]_vars

\* Every queued notice ends up delivered or in the dead letters, also after
\* crashes and with leases running out.
EventuallySettled ==
  \A n \in Notice : row[n].status = "pending" ~> row[n].status \in Terminal

\* Documented: notifiers that lease rows "cannot double-send".
NoDoubleSend == \A n \in Notice : confirmed[n] <= 1

=============================================================================
