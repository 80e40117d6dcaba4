----------------------------- MODULE MessageLog -----------------------------
(***************************************************************************)
(* What the data plane promises its users, without shared memory: the      *)
(* publisher appends to a log, and every subscriber is handed the messages *)
(* appended after it joined, each once and in order.  The publisher waits  *)
(* for the slowest subscriber, and for a dead one until it is forgotten.   *)
(***************************************************************************)
EXTENDS Integers

CONSTANTS
  Subscribers,
  Capacity         \* messages a subscriber can be behind

VARIABLES
  published,       \* length of the log
  position         \* messages of the log each subscriber has had, or will skip

Absent == -1
Gone == -2         \* dead, and the publisher does not know yet

Init ==
  /\ published = 0
  /\ position \in [Subscribers -> {Absent, 0}]

Present == {s \in Subscribers : position[s] >= 0}

Publish ==
  /\ \E s \in Subscribers : position[s] # Absent
  /\ \A s \in Present : published - position[s] < Capacity
  /\ published' = published + 1
  /\ UNCHANGED position

Deliver(s) ==
  /\ s \in Present /\ position[s] < published
  /\ position' = [position EXCEPT ![s] = @ + 1]
  /\ UNCHANGED published

Join(s) ==
  /\ position[s] = Absent
  /\ position' = [position EXCEPT ![s] = published]
  /\ UNCHANGED published

Die(s) ==
  /\ s \in Present
  /\ position' = [position EXCEPT ![s] = Gone]
  /\ UNCHANGED published

Forget(s) ==
  /\ position[s] = Gone
  /\ position' = [position EXCEPT ![s] = Absent]
  /\ UNCHANGED published

Next ==
  \/ Publish
  \/ \E s \in Subscribers : Deliver(s) \/ Join(s) \/ Die(s) \/ Forget(s)

Spec == Init /\ [][Next]_<<published, position>>

=============================================================================
