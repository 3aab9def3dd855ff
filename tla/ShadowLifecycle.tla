-------------------------- MODULE ShadowLifecycle ---------------------------
(***************************************************************************)
(* What the shadow account promises, with no amounts, books or tables:     *)
(* exposure changes only while trading, through one working order that was *)
(* placed while trading; whatever interrupts trading withdraws the order;  *)
(* trading resumes only after a warmup, and a warmup starts only flat.     *)
(***************************************************************************)

VARIABLES
  mode,     \* what the service does with the account
  exposed,  \* the account holds a position
  working   \* an order is waiting for its book

vars == <<mode, exposed, working>>

Mode == {"down", "warmup", "trading", "recovering", "latched", "stopped"}
Open == Mode \ {"down", "stopped"}

Init == mode = "down" /\ exposed = FALSE /\ working = FALSE

\* A process starts: no order of its predecessor survives, the position does.
Launch ==
  /\ mode = "down"
  /\ mode' \in IF exposed THEN {"recovering", "latched"} ELSE {"warmup", "latched"}
  /\ working' = FALSE
  /\ UNCHANGED exposed

\* The last warmup book may already carry an order.
WarmUp ==
  /\ mode = "warmup"
  /\ mode' \in {"warmup", "trading"}
  /\ working' => mode' = "trading"
  /\ UNCHANGED exposed

\* The working order fills, expires or waits; a new one may follow.
Trade ==
  /\ mode = "trading"
  /\ exposed' # exposed => working
  /\ UNCHANGED mode

\* The feed breaks.
Break ==
  /\ mode \in Open
  /\ mode' = IF exposed THEN "recovering" ELSE "warmup"
  /\ working' = FALSE
  /\ UNCHANGED exposed

\* The system sells the position it was left with.
Liquidate ==
  /\ mode = "recovering"
  /\ exposed' = FALSE /\ mode' = "warmup"
  /\ UNCHANGED working

Latch ==
  /\ mode # "down"
  /\ mode' = "latched" /\ working' = FALSE
  /\ UNCHANGED exposed

Stop ==
  /\ mode # "down"
  /\ mode' = "stopped" /\ working' = FALSE
  /\ UNCHANGED exposed

\* A crash leaves the account, and its order, as they were.
Crash ==
  /\ mode' = "down"
  /\ UNCHANGED <<exposed, working>>

Next == \/ Launch \/ WarmUp \/ Trade \/ Break \/ Liquidate
        \/ Latch \/ Stop \/ Crash

Spec == Init /\ [][Next]_vars

=============================================================================
