----------------------------- MODULE Subscription -----------------------------
(***************************************************************************)
(* What a Subscriber object promises, whatever the broker, the descriptors *)
(* and the events behind it do: it is attached to publishers, gives their  *)
(* messages to the application without leaving one out, and lets go of a   *)
(* publisher only when that has ended, or of all of them when it is closed.*)
(***************************************************************************)
EXTENDS Integers

CONSTANT Id                 \* publishers that may be attached

VARIABLES
  published,                \* messages each publisher has committed
  ended,                    \* publishers that have ended
  attached,                 \* publishers the object reads
  consumed,                 \* messages read from each attached publisher
  delivered,                \* messages given to the application
  open                      \* the object exists

subscription == <<published, ended, attached, consumed, delivered, open>>

Init ==
  /\ published = [id \in Id |-> 0] /\ ended = {} /\ attached = {}
  /\ consumed = [id \in Id |-> 0] /\ delivered = [id \in Id |-> 0] /\ open = TRUE

Publish(id) ==
  /\ id \notin ended /\ published' = [published EXCEPT ![id] = @ + 1]
  /\ UNCHANGED <<ended, attached, consumed, delivered, open>>

End(id) ==
  /\ ended' = ended \cup {id}
  /\ UNCHANGED <<published, attached, consumed, delivered, open>>

Attach(ids) ==
  /\ open = TRUE /\ attached' = attached \cup ids
  /\ UNCHANGED <<published, ended, consumed, delivered, open>>

Detach(id) ==
  /\ id \in attached \cap ended /\ attached' = attached \ {id}
  /\ consumed' = [consumed EXCEPT ![id] = 0]
  /\ UNCHANGED <<published, ended, delivered, open>>

\* Messages are given to the application when they are read, or with the others
\* of their batch.  One that has been given away may stay unread: its callback
\* has thrown.
Read(id) ==
  /\ id \in attached /\ consumed[id] < published[id]
  /\ \/ consumed' = [consumed EXCEPT ![id] = @ + 1] /\ UNCHANGED delivered
     \/ /\ consumed' = [consumed EXCEPT ![id] = @ + 1]
        /\ delivered' = [delivered EXCEPT ![id] = @ + 1]
     \/ delivered' = [delivered EXCEPT ![id] = @ + 1] /\ UNCHANGED consumed
  /\ UNCHANGED <<published, ended, attached, open>>

HandOver(id) ==
  /\ id \in attached
  /\ \E n \in delivered[id] + 1 .. consumed[id] : delivered' = [delivered EXCEPT ![id] = n]
  /\ UNCHANGED <<published, ended, attached, consumed, open>>

Close ==
  /\ open' = FALSE /\ attached' = {} /\ consumed' = [id \in Id |-> 0]
  /\ UNCHANGED <<published, ended, delivered>>

Next == \/ \E id \in Id : Publish(id) \/ End(id) \/ Detach(id) \/ Read(id) \/ HandOver(id)
        \/ \E ids \in SUBSET Id : Attach(ids)
        \/ Close

Spec == Init /\ [][Next]_subscription
=============================================================================
