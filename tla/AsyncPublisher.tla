--------------------------- MODULE AsyncPublisher ---------------------------
(***************************************************************************)
(* An asynchronous publisher: the queue of messages that publish(payload)  *)
(* fills, the worker thread that empties it, and the thread that owns the  *)
(* Publisher object and moves or destroys it.                              *)
(*                                                                         *)
(* Source: src/src/publisher.cpp and src/include/publisher.hpp.            *)
(*                                                                         *)
(* publish_state_mutex_ makes each of its critical sections one step.  The *)
(* epoll registrations are edge triggered: an event is reported once after *)
(* its eventfd is signalled, unless it has been drained since.             *)
(*                                                                         *)
(* Abstractions.  A message is its number, in the order of the calls, and  *)
(* its size class.  The data plane is the number of chunks that are free   *)
(* in each class, taken by try_publish_one and given back by subscribers,  *)
(* which then signal the space event; DataPlane is about how they do that. *)
(***************************************************************************)
EXTENDS Integers, Sequences, FiniteSets

CONSTANTS
  Calls,            \* bound: calls of publish() in a behaviour
  Capacity,         \* kMaxOutstandingMessages
  MaxPerEvent,      \* kMaxPublishesPerWorkEvent
  Class,            \* size classes
  ClassOf,          \* size class of each message
  Chunks,           \* chunks of each class that can be in use at a time
  MaxControl,       \* bound: times the control socket becomes readable
  MaxMoves,         \* bound: times the object is moved
  CanFail           \* system calls may fail, the broker may close, chunks may be damaged

Message == 1 .. Calls
NoMessage == 0

\* With a capacity of one, publish() would take the front of an empty queue.
ASSUME CapacityAssumption == Capacity \in Nat /\ Capacity >= 2
ASSUME BoundsAssumption == {Calls, MaxPerEvent, Chunks} \subseteq Nat \ {0}
                             /\ {MaxControl, MaxMoves} \subseteq Nat
ASSUME ClassAssumption == ClassOf \in [Message -> Class] /\ CanFail \in BOOLEAN

Event == {"work", "space", "control", "shutdown"}

VARIABLES
  calls,            \* calls of publish() so far
  ticket,           \* value of the promise of each message
  pending,          \* pending_messages_
  inFlight,         \* in_flight_message_
  state,            \* its state
  \* epoll
  fresh,            \* events signalled and not yet reported
  batch,            \* events_ from event_index_ on, in any order
  \* the worker
  pc,               \* where it is
  ready,            \* publisher_ready
  count,            \* published_count
  attempt,          \* result of try_publish_one
  candidate,        \* message whose size can_publish_next_message has looked up
  active,           \* run_thread_active_
  intent,           \* worker_stop_intent_
  reason,           \* what run() returns: None, or one of its errors
  \* the owner of the object
  owner,            \* what it is doing
  wasActive,        \* was_active in stop_run_thread
  moves,            \* moves so far
  \* the data plane
  free,             \* free chunks of each class
  owed,             \* a subscriber has given back a chunk and is about to signal
  controls,         \* control events so far
  log               \* messages published, in order

queueVars == <<calls, ticket, pending, inFlight, state>>
workerVars == <<pc, ready, count, attempt, candidate, active, reason>>
ownerVars == <<owner, wasActive, moves, intent>>
dataVars == <<free, owed, controls, log>>
vars == <<queueVars, fresh, batch, workerVars, ownerVars, dataVars>>

Init ==
  /\ calls = 0 /\ ticket = [m \in Message |-> "none"]
  /\ pending = <<>> /\ inFlight = NoMessage /\ state = "Publishing"
  /\ fresh = {"work"} /\ batch = {}
  /\ pc = "loop" /\ ready = TRUE /\ count = 0
  /\ attempt = "None" /\ candidate = NoMessage
  /\ active = TRUE /\ reason = "None"
  /\ owner = "using" /\ wasActive = TRUE /\ moves = 0 /\ intent = "Destroy"
  /\ free = [c \in Class |-> Chunks] /\ owed = FALSE /\ controls = 0 /\ log = <<>>

\* A promise that is set twice throws.
Completed(m, value) == IF ticket[m] = "waiting" THEN value ELSE "twice"

InFlight == IF inFlight = NoMessage THEN <<>> ELSE <<inFlight>>
Outstanding == InFlight \o pending

-----------------------------------------------------------------------------
(* publish(payload), by any thread of the application *)

\* The message in flight is not counted.  (mutant)
PendingFull == Len(pending) >= Capacity

QueueFull == Len(Outstanding) >= Capacity

\* The message in flight is overwritten even while it is published.  (mutant)
GivesWayAlways == inFlight # NoMessage

\* The message in flight is the one to overwrite.
GivesWay == inFlight # NoMessage /\ state = "Blocked"

\* The old message comes back behind the others.  (mutant)
RestoredLast(m, rest) == Append(rest, m)

\* Undoing an overwrite puts the old message in front.
Restored(m, rest) == <<m>> \o rest

Publish ==
  LET m == calls + 1
      oldest == IF GivesWay THEN inFlight ELSE Head(pending)
      rest == IF QueueFull /\ ~GivesWay THEN Tail(pending) ELSE pending
  IN
  /\ owner = "using" /\ calls < Calls /\ active
  /\ calls' = m
  /\ inFlight' = IF QueueFull /\ GivesWay THEN NoMessage ELSE inFlight
  /\ \/ /\ pending' = Append(rest, m)
        /\ fresh' = fresh \cup {"work"}
        /\ ticket' = [k \in Message |->
                        CASE k = m                   -> "waiting"
                          [] QueueFull /\ k = oldest -> Completed(k, "Overwritten")
                          [] OTHER                   -> ticket[k]]
     \/ /\ CanFail          \* NotificationFailed
        /\ pending' = IF QueueFull THEN Restored(oldest, rest) ELSE pending
        /\ ticket' = [ticket EXCEPT ![m] = "refused"]
        /\ UNCHANGED fresh
  /\ UNCHANGED <<state, batch, workerVars, ownerVars, dataVars>>

\* WorkerExited
PublishRefused ==
  /\ owner = "using" /\ calls < Calls /\ ~active
  /\ calls' = calls + 1
  /\ ticket' = [ticket EXCEPT ![calls + 1] = "refused"]
  /\ UNCHANGED <<pending, inFlight, state, fresh, batch, workerVars, ownerVars, dataVars>>

-----------------------------------------------------------------------------
(* The worker *)

\* epoll_wait returns.
Fetch ==
  /\ pc = "loop" /\ batch = {} /\ fresh # {}
  /\ batch' = fresh /\ fresh' = {}
  /\ UNCHANGED <<queueVars, workerVars, ownerVars, dataVars>>

\* The handler of e begins: e leaves the batch, and its eventfd is drained.
Handle(e) ==
  /\ pc = "loop" /\ e \in batch
  /\ batch' = batch \ {e} /\ fresh' = fresh \ {e}

WorkEvent ==
  /\ Handle("work")
  /\ pc' = "work"
  /\ UNCHANGED <<queueVars, ready, count, attempt, candidate, active, reason, ownerVars,
                 dataVars>>

SpaceEvent ==
  /\ Handle("space")
  /\ pc' = "pick"
  /\ UNCHANGED <<queueVars, ready, count, attempt, candidate, active, reason, ownerVars,
                 dataVars>>

\* Reaping a dead subscriber may give back a chunk; the broker may be gone.
ControlEvent ==
  /\ Handle("control")
  /\ \/ /\ pc' = "pick" /\ UNCHANGED <<free, reason>>
     \/ /\ pc' = "pick" /\ UNCHANGED reason
        /\ \E c \in Class : free[c] < Chunks /\ free' = [free EXCEPT ![c] = @ + 1]
     \/ /\ CanFail /\ pc' = "end" /\ reason' = "error" /\ UNCHANGED free
  /\ UNCHANGED <<queueVars, ready, count, attempt, candidate, active, ownerVars, owed,
                 controls, log>>

ShutdownEvent ==
  /\ Handle("shutdown")
  /\ pc' = "end"
  /\ UNCHANGED <<queueVars, ready, count, attempt, candidate, active, reason, ownerVars,
                 dataVars>>

\* epoll_wait fails, or the eventfd of an event cannot be read.
EventFails ==
  /\ CanFail /\ pc = "loop"
  /\ \/ batch = {} /\ UNCHANGED batch
     \/ \E e \in batch \ {"control"} : batch' = batch \ {e}
  /\ pc' = "end" /\ reason' = "error"
  /\ UNCHANGED <<queueVars, fresh, ready, count, attempt, candidate, active, ownerVars,
                 dataVars>>

\* One publication more than the limit is allowed.  (mutant)
MayGoOnOneMore(n) == n <= MaxPerEvent

MayGoOn(n) == n < MaxPerEvent

\* The loop of handle_publish_work_event, with the lock held, given the number
\* of messages published and what is in flight: it takes a message and unlocks,
\* or it is done.
TakeNext(n, current) ==
  /\ count' = n
  /\ IF MayGoOn(n) /\ (pending # <<>> \/ current # NoMessage)
       THEN /\ pc' = "try" /\ state' = "Publishing"
            /\ inFlight' = IF current = NoMessage THEN Head(pending) ELSE current
            /\ pending' = IF current = NoMessage THEN Tail(pending) ELSE pending
       ELSE /\ pc' = IF pending = <<>> /\ current = NoMessage THEN "loop" ELSE "reschedule"
            /\ inFlight' = current
            /\ UNCHANGED <<pending, state>>

\* Nothing to do while the message in flight waits for space.
StillBlocked == ~ready /\ inFlight # NoMessage /\ state = "Blocked"

StartWork ==
  /\ pc = "work"
  /\ IF StillBlocked
       THEN pc' = "loop" /\ UNCHANGED <<ready, count, pending, inFlight, state>>
       ELSE ready' = TRUE /\ TakeNext(0, inFlight)
  /\ UNCHANGED <<calls, ticket, fresh, batch, attempt, candidate, active, reason, ownerVars,
                 dataVars>>

\* try_publish_one, without the lock.  It reads the payload of the message in
\* flight, and can fail before or after the descriptor is committed.
TryPublish ==
  LET c == ClassOf[inFlight]
      commit == /\ free[c] > 0 /\ free' = [free EXCEPT ![c] = @ - 1]
                /\ log' = Append(log, inFlight)
  IN
  /\ pc = "try"
  /\ \/ free[c] = 0 /\ pc' = "attempted" /\ attempt' = "Blocked"
          /\ UNCHANGED <<reason, free, log>>
     \/ commit /\ pc' = "attempted" /\ attempt' = "Succeeded" /\ UNCHANGED reason
     \/ CanFail /\ commit /\ pc' = "end" /\ reason' = "error"
          /\ UNCHANGED attempt
     \/ CanFail /\ free[c] > 0 /\ pc' = "end" /\ reason' = "error"
          /\ UNCHANGED <<attempt, free, log>>
  /\ UNCHANGED <<queueVars, fresh, batch, ready, count, candidate, active, ownerVars, owed,
                 controls>>

\* A published message is not taken out of flight.  (mutant)
StillInFlight == inFlight

\* What is in flight after a publication.
AfterPublication == NoMessage

\* The lock is taken again.
Attempted ==
  /\ pc = "attempted"
  /\ IF attempt = "Blocked"
       THEN /\ ready' = FALSE /\ state' = "Blocked" /\ pc' = "loop"
            /\ UNCHANGED <<ticket, count, pending, inFlight>>
       ELSE /\ ticket' = [ticket EXCEPT ![inFlight] = Completed(inFlight, "Published")]
            /\ TakeNext(count + 1, AfterPublication)
            /\ UNCHANGED ready
  /\ attempt' = "None"
  /\ UNCHANGED <<calls, fresh, batch, candidate, active, reason, ownerVars, dataVars>>

Reschedule ==
  /\ pc = "reschedule"
  /\ \/ pc' = "loop" /\ fresh' = fresh \cup {"work"} /\ UNCHANGED reason
     \/ CanFail /\ pc' = "end" /\ reason' = "error" /\ UNCHANGED fresh
  /\ count' = 0
  /\ UNCHANGED <<queueVars, batch, ready, attempt, candidate, active, ownerVars,
                 dataVars>>

\* can_publish_next_message, with the lock: which message is next?
PickCandidate ==
  /\ pc = "pick"
  /\ candidate' = IF Outstanding = <<>> THEN NoMessage ELSE Head(Outstanding)
  /\ pc' = IF Outstanding = <<>> THEN "loop" ELSE "check"
  /\ UNCHANGED <<queueVars, fresh, batch, ready, count, attempt, active, reason, ownerVars,
                 dataVars>>

\* Without the lock: is there space for it?
CheckSpace ==
  /\ pc = "check"
  /\ IF free[ClassOf[candidate]] > 0
       THEN \/ ready' = TRUE /\ fresh' = fresh \cup {"work"} /\ pc' = "loop" /\ UNCHANGED reason
            \/ CanFail /\ ready' = TRUE /\ pc' = "end" /\ reason' = "error"
                 /\ UNCHANGED fresh
       ELSE pc' = "loop" /\ UNCHANGED <<ready, fresh, reason>>
  /\ candidate' = NoMessage
  /\ UNCHANGED <<queueVars, batch, count, attempt, active, ownerVars, dataVars>>

\* run() returns.
Deactivate ==
  /\ pc = "end"
  /\ active' = FALSE /\ pc' = "complete"
  /\ UNCHANGED <<queueVars, fresh, batch, ready, count, attempt, candidate, reason, ownerVars,
                 dataVars>>

\* The message in flight is forgotten.  (mutant)
LeftPending == pending

\* The messages to complete.
LeftOver == Outstanding

\* The rest of the worker's thread.  The queue is completed and not emptied.
WorkerEnds ==
  LET value == IF reason # "None" THEN "WorkerFailed" ELSE "WorkerStopped" IN
  /\ pc = "complete"
  /\ pc' = "exited"
  /\ IF reason # "None" \/ intent # "Transfer"
       THEN ticket' = [m \in Message |->
                         IF \E k \in DOMAIN LeftOver : LeftOver[k] = m
                         THEN Completed(m, value) ELSE ticket[m]]
       ELSE UNCHANGED ticket
  /\ UNCHANGED <<calls, pending, inFlight, state, fresh, batch, ready, count, attempt,
                 candidate, active, reason, ownerVars, dataVars>>

-----------------------------------------------------------------------------
(* The owner.  It calls nothing else while it moves or destroys the object. *)

\* A promise that is destroyed before it is set breaks its future.
Broken == [m \in Message |-> IF ticket[m] = "waiting" THEN "broken" ELSE ticket[m]]

BeginStop ==
  /\ owner = "using"
  /\ \/ owner' = "destroying" /\ UNCHANGED moves
     \/ owner' = "moving" /\ moves < MaxMoves /\ moves' = moves + 1
  /\ wasActive' = (pc # "joined" /\ active)
  /\ UNCHANGED <<queueVars, fresh, batch, workerVars, intent, dataVars>>

SignalStop ==
  /\ owner \in {"destroying", "moving"}
  /\ owner' = IF owner = "destroying" THEN "destroyJoins" ELSE "moveJoins"
  /\ IF wasActive
       THEN /\ intent' = IF owner = "destroying" THEN "Destroy" ELSE "Transfer"
            /\ fresh' = fresh \cup {"shutdown"}
       ELSE UNCHANGED <<intent, fresh>>
  /\ UNCHANGED <<queueVars, batch, workerVars, wasActive, moves, dataVars>>

Destroyed ==
  /\ owner = "destroyJoins" /\ pc \in {"exited", "joined"}
  /\ owner' = "gone" /\ pc' = "joined"
  /\ ticket' = Broken
  /\ fresh' = {} /\ batch' = {}
  /\ UNCHANGED <<calls, pending, inFlight, state, ready, count, attempt, candidate, active,
                 reason, wasActive, moves, intent, dataVars>>

\* A worker that has failed is not followed by another.
Restarts == pc = "exited" /\ wasActive /\ reason = "None"

\* The events of the old worker are not taken along.  (mutant)
NoEvents == {}

\* events_, event_index_ and event_count_ move with the object.
CarriedEvents == batch

\* The new object starts a worker of its own, or fails to.
MovedAndRestarted ==
  /\ owner = "moveJoins" /\ Restarts
  /\ fresh' = fresh \ {"shutdown"} /\ batch' = CarriedEvents
  /\ \/ /\ owner' = "using" /\ pc' = "loop"
        /\ ready' = TRUE /\ active' = TRUE /\ intent' = "Destroy"
        /\ UNCHANGED ticket
     \/ /\ CanFail
        /\ owner' = "lost" /\ pc' = "joined"
        /\ ticket' = Broken
        /\ UNCHANGED <<ready, active, intent>>
  /\ UNCHANGED <<calls, pending, inFlight, state, count, attempt, candidate, reason, wasActive,
                 moves, dataVars>>

MovedAndIdle ==
  /\ owner = "moveJoins" /\ pc \in {"exited", "joined"} /\ ~Restarts
  /\ owner' = "using" /\ pc' = "joined" /\ active' = FALSE
  /\ UNCHANGED <<queueVars, fresh, batch, ready, count, attempt, candidate, reason, wasActive,
                 moves, intent, dataVars>>

-----------------------------------------------------------------------------
(* Subscribers and broker, while the object exists *)

Exists == owner \notin {"gone", "lost"}

\* A subscriber is the last to read a message, and gives back its chunk.
Consume(c) ==
  /\ Exists /\ free[c] < Chunks
  /\ free' = [free EXCEPT ![c] = @ + 1]
  /\ owed' = TRUE
  /\ UNCHANGED <<queueVars, fresh, batch, workerVars, ownerVars, controls, log>>

SignalSpace ==
  /\ Exists /\ owed
  /\ owed' = FALSE /\ fresh' = fresh \cup {"space"}
  /\ UNCHANGED <<queueVars, batch, workerVars, ownerVars, free, controls, log>>

ControlArrives ==
  /\ Exists /\ controls < MaxControl
  /\ controls' = controls + 1 /\ fresh' = fresh \cup {"control"}
  /\ UNCHANGED <<queueVars, batch, workerVars, ownerVars, free, owed, log>>

-----------------------------------------------------------------------------
WorkerStep ==
  \/ Fetch \/ WorkEvent \/ SpaceEvent \/ ControlEvent \/ ShutdownEvent
  \/ StartWork \/ TryPublish \/ Attempted \/ Reschedule
  \/ PickCandidate \/ CheckSpace
  \/ Deactivate \/ WorkerEnds

OwnerStops == SignalStop \/ Destroyed \/ MovedAndRestarted \/ MovedAndIdle

Next ==
  \/ Publish \/ PublishRefused
  \/ WorkerStep \/ EventFails
  \/ BeginStop \/ OwnerStops
  \/ (\E c \in Class : Consume(c)) \/ SignalSpace \/ ControlArrives

Spec == Init /\ [][Next]_vars

(***************************************************************************)
(* The worker's thread runs, subscribers read, and a move or a destruction *)
(* that has begun is carried through.  Nobody has to publish, the object   *)
(* need never be moved or destroyed, and no call has to fail.              *)
(***************************************************************************)
Fairness ==
  /\ WF_vars(WorkerStep) /\ WF_vars(OwnerStops) /\ WF_vars(SignalSpace)
  /\ \A c \in Class : WF_vars(Consume(c))

FairSpec == Spec /\ Fairness

-----------------------------------------------------------------------------
(* Properties *)

TicketValue == {"none", "refused", "waiting", "Published", "Overwritten", "WorkerStopped",
                "WorkerFailed", "broken", "twice"}

\* Variables hold values of their types; one work event publishes no more than
\* kMaxPublishesPerWorkEvent messages.
TypeOK ==
  /\ calls \in 0 .. Calls /\ ticket \in [Message -> TicketValue]
  /\ pending \in Seq(Message) /\ inFlight \in Message \cup {NoMessage}
  /\ state \in {"Publishing", "Blocked"}
  /\ fresh \subseteq Event /\ batch \subseteq Event
  /\ pc \in {"loop", "work", "try", "attempted", "reschedule", "pick", "check", "end",
             "complete", "exited", "joined"}
  /\ ready \in BOOLEAN /\ count \in 0 .. MaxPerEvent
  /\ attempt \in {"None", "Succeeded", "Blocked"} /\ candidate \in Message \cup {NoMessage}
  /\ active \in BOOLEAN /\ intent \in {"Destroy", "Transfer"}
  /\ reason \in {"None", "error"}
  /\ owner \in {"using", "destroying", "moving", "destroyJoins", "moveJoins", "gone", "lost"}
  /\ wasActive \in BOOLEAN /\ moves \in 0 .. MaxMoves
  /\ free \in [Class -> 0 .. Chunks] /\ owed \in BOOLEAN
  /\ controls \in 0 .. MaxControl /\ log \in Seq(Message)

(***************************************************************************)
(* While try_publish_one reads the payload without the lock, the message   *)
(* that it reads stays in flight and nobody has been told that it is done. *)
(***************************************************************************)
PayloadPinned ==
  pc \in {"try", "attempted"} =>
    inFlight # NoMessage /\ state = "Publishing" /\ ticket[inFlight] = "waiting"

(***************************************************************************)
(* Messages are published in the order of the calls, each at most once,    *)
(* also after an overwrite was undone and after the object was moved.      *)
(***************************************************************************)
PublishedInOrder == \A i, j \in DOMAIN log : i < j => log[i] < log[j]

(***************************************************************************)
(* The final value of a ticket tells what happened: Published if and only  *)
(* if the message is in shared memory, but that a worker that fails may    *)
(* leave a message there that it does not report (PublishCompletion).      *)
(***************************************************************************)
TicketsTellTheTruth ==
  \A m \in Message :
    LET published == \E k \in DOMAIN log : log[k] = m IN
    /\ ticket[m] = "Published" => published
    /\ published => \/ ticket[m] \in {"Published", "WorkerFailed"}
                    \/ ticket[m] = "waiting" /\ m = inFlight

(***************************************************************************)
(* The object is not destroyed with a ticket that still waits, whenever    *)
(* the worker failed or was stopped or moved, but after a move that could  *)
(* not start a worker (stop_run_thread, take_resources_from).              *)
(***************************************************************************)
NoTicketIsBroken == owner # "lost" => \A m \in Message : ticket[m] # "broken"

\* The asynchronous publisher implements TicketQueue.
Queue == INSTANCE TicketQueue WITH fate <- ticket

ImplementsQueue == Queue!Spec

(***************************************************************************)
(* Every ticket gets its final value while subscribers keep reading: a     *)
(* blocked message is tried again when there is space for it, whatever was *)
(* overwritten meanwhile, and the events a stopped worker has not handled  *)
(* are handled by the worker of the object that it is moved to.  (Calls    *)
(* ends the publishing, so none that waits can hide behind a later one.)   *)
(***************************************************************************)
EveryTicketCompletes == []<>(\A m \in Message : ticket[m] # "waiting")

=============================================================================
