----------------------------- MODULE TicketQueue -----------------------------
(***************************************************************************)
(* What an asynchronous publisher promises to its callers: a bounded queue *)
(* in which every message that was accepted has a ticket, and every ticket *)
(* has one final value.  Messages are published from the front.  When the  *)
(* queue is full, the oldest message that is not being published gives way *)
(* to a new one.  AsyncPublisher implements this.                          *)
(*                                                                         *)
(* Messages are numbered as they are submitted, so the queue is the set of *)
(* those that wait, in the order of their numbers.                         *)
(***************************************************************************)
EXTENDS Naturals, FiniteSets

CONSTANTS
  Calls,       \* bound: how many messages are submitted
  Capacity     \* how many wait at a time

VARIABLE
  fate         \* of each message: the final value of its ticket, "waiting", or "none"

Init == fate = [m \in 1 .. Calls |-> "none"]

Waiting == {m \in 1 .. Calls : fate[m] = "waiting"}
Full == Cardinality(Waiting) >= Capacity

Next(m) == fate[m] = "none" /\ \A k \in 1 .. m - 1 : fate[k] # "none"

Accept(m) == Next(m) /\ ~Full /\ fate' = [fate EXCEPT ![m] = "waiting"]

\* The oldest is overwritten, or the one behind it, when the oldest is being
\* published.
Overwrite(m) ==
  \E old \in Waiting :
    /\ Next(m) /\ Full
    /\ \A j, k \in Waiting : j < old /\ k < old => j = k
    /\ fate' = [fate EXCEPT ![m] = "waiting", ![old] = "Overwritten"]

Refuse(m) == Next(m) /\ fate' = [fate EXCEPT ![m] = "refused"]

\* The oldest is published.
Publish ==
  \E oldest \in Waiting :
    /\ \A k \in Waiting : oldest <= k
    /\ fate' = [fate EXCEPT ![oldest] = "Published"]

\* The publisher stops, and all that wait get the same value.
Stop(value) ==
  fate' = [m \in 1 .. Calls |-> IF fate[m] = "waiting" THEN value ELSE fate[m]]

Step ==
  \/ \E m \in 1 .. Calls : Accept(m) \/ Overwrite(m) \/ Refuse(m)
  \/ Publish
  \/ \E value \in {"WorkerStopped", "WorkerFailed", "broken"} : Stop(value)

Spec == Init /\ [][Step]_fate

=============================================================================
