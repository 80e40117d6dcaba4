----------------------- MODULE AsyncPublisher_proofs -----------------------
(***************************************************************************)
(* The asynchronous publisher keeps its queue and its tickets in step, for *)
(* any capacity, number of calls, size classes and moves: what the worker  *)
(* publishes stays in flight, messages are published in order, and every   *)
(* ticket tells the truth.                                                 *)
(*                                                                         *)
(* IInv joins what is in the queue (OrderInv) to the tickets that wait     *)
(* (WaitInv) and to the messages in shared memory (LogInv), by way of      *)
(* where the worker and the owner are (ControlInv).                        *)
(***************************************************************************)
EXTENDS AsyncPublisher, SequenceTheorems, FiniteSetTheorems, FunctionTheorems, TLAPS

USE DEF Message, NoMessage

Queued(m) == m = inFlight \/ \E k \in DOMAIN pending : pending[k] = m

\* The thread has completed the queue, if that was for it to do.
Over == \/ pc = "joined"
        \/ pc = "exited" /\ (reason # "None" \/ intent # "Transfer")

Joining == /\ owner \in {"destroyJoins", "moveJoins"} /\ wasActive
           /\ intent = IF owner = "destroyJoins" THEN "Destroy" ELSE "Transfer"

Ending == pc \in {"end", "complete", "exited"}

ControlInv ==
  /\ active <=> pc \notin {"complete", "exited", "joined"}
  /\ reason # "None" => Ending \/ pc = "joined"
  /\ reason = "None" /\ Ending => Joining /\ "shutdown" \notin fresh \cup batch
  /\ "shutdown" \in fresh \cup batch => Joining \/ reason # "None" \/ pc = "joined"
  /\ owner \in {"gone", "lost"} => pc = "joined"
  /\ pc \in {"try", "attempted"} =>
       inFlight # NoMessage /\ state = "Publishing" /\ count < MaxPerEvent

OrderInv ==
  /\ \A i, j \in DOMAIN pending : i < j => pending[i] < pending[j]
  /\ \A i \in DOMAIN pending : inFlight < pending[i] /\ pending[i] <= calls
  /\ inFlight <= calls

WaitInv == \A m \in Message : ticket[m] = "waiting" <=> ~Over /\ Queued(m)

\* The message in flight may be in shared memory, and reported later or not at all.
MayBeLogged ==
  /\ state = "Publishing"
  /\ (pc = "attempted" /\ attempt # "Blocked") \/ reason # "None"

LogInv ==
  /\ PublishedInOrder
  /\ \A k \in DOMAIN log :
       /\ log[k] <= calls
       /\ \A m \in Message : Queued(m) => log[k] < m \/ (log[k] = m /\ m = inFlight /\ MayBeLogged)
  /\ pc = "attempted" /\ attempt # "Blocked" => \E k \in DOMAIN log : log[k] = inFlight

FateInv ==
  /\ \A m \in Message : ticket[m] = "none" <=> m > calls
  /\ \A m \in Message : ticket[m] # "twice"
  /\ NoTicketIsBroken

IInv == TypeOK /\ ControlInv /\ OrderInv /\ WaitInv /\ LogInv /\ TicketsTellTheTruth /\ FateInv

-----------------------------------------------------------------------------
LEMMA Bounds ==
  /\ Calls \in Nat \ {0} /\ Capacity \in Nat /\ Capacity >= 2 /\ MaxPerEvent \in Nat \ {0}
  /\ Chunks \in Nat \ {0} /\ MaxControl \in Nat /\ MaxMoves \in Nat
  /\ ClassOf \in [Message -> Class] /\ CanFail \in BOOLEAN
BY CapacityAssumption, BoundsAssumption, ClassAssumption

\* The message in flight and those behind it, as one sequence.
LEMMA InLine ==
  ASSUME TypeOK
  PROVE  /\ Outstanding \in Seq(Message)
         /\ Len(Outstanding) = Len(pending) + (IF inFlight = NoMessage THEN 0 ELSE 1)
         /\ \A m \in Message : Queued(m) <=> \E k \in DOMAIN Outstanding : Outstanding[k] = m
         /\ Outstanding # <<>> => Head(Outstanding) \in Message
<1>1. /\ pending \in Seq(Message) /\ inFlight \in Message \cup {NoMessage}
      /\ InFlight \in Seq(Message)
      /\ Len(InFlight) = IF inFlight = NoMessage THEN 0 ELSE 1
      /\ \A k \in 1 .. Len(InFlight) : InFlight[k] = inFlight
  <2>1. pending \in Seq(Message) /\ inFlight \in Message \cup {NoMessage}
    BY DEF TypeOK
  <2>2. CASE inFlight = NoMessage
    BY <2>1, <2>2 DEF InFlight
  <2>3. CASE inFlight # NoMessage
    <3>1. InFlight = <<inFlight>> /\ inFlight \in Message
      BY <2>1, <2>3 DEF InFlight
    <3> QED BY <2>1, <2>3, <3>1
  <2> QED BY <2>2, <2>3
<1>2. /\ Outstanding \in Seq(Message)
      /\ Len(Outstanding) = Len(InFlight) + Len(pending)
      /\ \A i \in 1 .. Len(InFlight) + Len(pending) :
           Outstanding[i] = IF i <= Len(InFlight) THEN InFlight[i] ELSE pending[i - Len(InFlight)]
  BY <1>1, ConcatProperties DEF Outstanding
<1>3. ASSUME NEW m \in Message
      PROVE  Queued(m) <=> \E k \in DOMAIN Outstanding : Outstanding[k] = m
  <2>1. /\ DOMAIN Outstanding = 1 .. Len(InFlight) + Len(pending)
        /\ DOMAIN pending = 1 .. Len(pending) /\ Len(pending) \in Nat
        /\ m # NoMessage
    BY <1>1, <1>2
  <2>2. ASSUME Queued(m) PROVE \E k \in DOMAIN Outstanding : Outstanding[k] = m
    <3>1. CASE m = inFlight
      <4>1. 1 \in DOMAIN Outstanding /\ Outstanding[1] = m
        BY <1>1, <1>2, <2>1, <3>1
      <4> QED BY <4>1
    <3>2. ASSUME NEW k \in DOMAIN pending, pending[k] = m
          PROVE  \E j \in DOMAIN Outstanding : Outstanding[j] = m
      <4>1. /\ k + Len(InFlight) \in DOMAIN Outstanding
            /\ Outstanding[k + Len(InFlight)] = m
        BY <1>1, <1>2, <2>1, <3>2
      <4> QED BY <4>1
    <3> QED BY <2>2, <3>1, <3>2 DEF Queued
  <2>3. ASSUME NEW k \in DOMAIN Outstanding, Outstanding[k] = m PROVE Queued(m)
    <3>1. CASE k <= Len(InFlight)
      BY <1>1, <1>2, <2>1, <2>3, <3>1 DEF Queued
    <3>2. CASE k > Len(InFlight)
      <4>1. k - Len(InFlight) \in DOMAIN pending /\ pending[k - Len(InFlight)] = m
        BY <1>1, <1>2, <2>1, <2>3, <3>2
      <4> QED BY <4>1 DEF Queued
    <3> QED BY <1>1, <2>1, <3>1, <3>2
  <2> QED BY <2>2, <2>3
<1>4. Outstanding # <<>> => Head(Outstanding) \in Message
  BY <1>2, HeadTailProperties
<1> QED BY <1>1, <1>2, <1>3, <1>4

-----------------------------------------------------------------------------
THEOREM InitIInv == Init => IInv
<1> SUFFICES ASSUME Init PROVE IInv
  OBVIOUS
<1>1. TypeOK
  <2>1. /\ ticket \in [Message -> TicketValue] /\ free \in [Class -> 0 .. Chunks]
        /\ pending \in Seq(Message) /\ log \in Seq(Message)
    BY Bounds DEF Init, TicketValue
  <2>2. /\ calls \in 0 .. Calls /\ inFlight \in Message \cup {NoMessage}
        /\ fresh \subseteq Event /\ batch \subseteq Event /\ count \in 0 .. MaxPerEvent
        /\ moves \in 0 .. MaxMoves /\ controls \in 0 .. MaxControl
    BY Bounds DEF Init, Event
  <2> QED BY <2>1, <2>2 DEF Init, TypeOK
<1>2. ControlInv
  BY DEF Init, ControlInv, Ending, Joining
<1>3. OrderInv
  BY DEF Init, OrderInv
<1>4. WaitInv
  BY Bounds DEF Init, WaitInv, Queued
<1>5. LogInv /\ TicketsTellTheTruth
  BY DEF Init, LogInv, PublishedInOrder, TicketsTellTheTruth
<1>6. FateInv
  BY Bounds DEF Init, FateInv, NoTicketIsBroken
<1> QED BY <1>1, <1>2, <1>3, <1>4, <1>5, <1>6 DEF IInv

\* A step that leaves the queue, the tickets and shared memory alone.
Quiet ==
  /\ UNCHANGED <<queueVars, log>>
  /\ Over' <=> Over
  /\ MayBeLogged => MayBeLogged'
  /\ pc' = "attempted" => pc = "attempted" /\ UNCHANGED attempt
  /\ owner = "lost" => owner' = "lost"

LEMMA QuietStep ==
  ASSUME IInv, Quiet, TypeOK', ControlInv'
  PROVE  IInv'
<1> USE DEF Quiet, queueVars
<1>1. \A m \in Message : Queued(m)' <=> Queued(m)
  BY DEF Queued
<1>2. OrderInv'
  BY DEF IInv, OrderInv
<1>3. WaitInv'
  BY <1>1 DEF IInv, WaitInv
<1>4. LogInv'
  BY <1>1 DEF IInv, LogInv, PublishedInOrder
<1>5. TicketsTellTheTruth'
  BY DEF IInv, TicketsTellTheTruth
<1>6. FateInv'
  BY DEF IInv, FateInv, NoTicketIsBroken
<1> QED BY <1>2, <1>3, <1>4, <1>5, <1>6 DEF IInv

\* The events: what epoll returns, and what their handlers do without the lock.
LEMMA EventsAreQuiet ==
  ASSUME IInv, Fetch \/ WorkEvent \/ SpaceEvent \/ ControlEvent \/ ShutdownEvent \/ EventFails
  PROVE  IInv'
<1> USE DEF queueVars, workerVars, ownerVars, dataVars, Handle, Ending, Joining
<1>1. TypeOK /\ ControlInv
  BY DEF IInv
<1>2. CASE Fetch
  <2>1. TypeOK'
    BY <1>1, <1>2 DEF Fetch, TypeOK
  <2>2. ControlInv' /\ Quiet
    BY <1>1, <1>2 DEF Fetch, ControlInv, Quiet, Over, MayBeLogged
  <2> QED BY <2>1, <2>2, QuietStep
<1>3. CASE WorkEvent
  <2>1. TypeOK'
    BY <1>1, <1>3 DEF WorkEvent, TypeOK
  <2>2. ControlInv' /\ Quiet
    BY <1>1, <1>3 DEF WorkEvent, ControlInv, Quiet, Over, MayBeLogged
  <2> QED BY <2>1, <2>2, QuietStep
<1>4. CASE SpaceEvent
  <2>1. TypeOK'
    BY <1>1, <1>4 DEF SpaceEvent, TypeOK
  <2>2. ControlInv' /\ Quiet
    BY <1>1, <1>4 DEF SpaceEvent, ControlInv, Quiet, Over, MayBeLogged
  <2> QED BY <2>1, <2>2, QuietStep
<1>5. CASE ControlEvent
  <2>1. TypeOK'
    <3>1. free' \in [Class -> 0 .. Chunks]
      BY <1>1, <1>5, Bounds DEF ControlEvent, TypeOK
    <3> QED BY <1>1, <1>5, <3>1 DEF ControlEvent, TypeOK
  <2>2. ControlInv' /\ Quiet
    BY <1>1, <1>5 DEF ControlEvent, ControlInv, Quiet, Over, MayBeLogged
  <2> QED BY <2>1, <2>2, QuietStep
<1>6. CASE ShutdownEvent
  <2>1. TypeOK'
    BY <1>1, <1>6 DEF ShutdownEvent, TypeOK
  <2>2. ControlInv' /\ Quiet
    BY <1>1, <1>6 DEF ShutdownEvent, ControlInv, Quiet, Over, MayBeLogged
  <2> QED BY <2>1, <2>2, QuietStep
<1>7. CASE EventFails
  <2>1. TypeOK'
    BY <1>1, <1>7 DEF EventFails, TypeOK
  <2>2. ControlInv' /\ Quiet
    BY <1>1, <1>7 DEF EventFails, ControlInv, Quiet, Over, MayBeLogged
  <2> QED BY <2>1, <2>2, QuietStep
<1> QED BY <1>2, <1>3, <1>4, <1>5, <1>6, <1>7

\* The rest of the worker that does not touch the queue.
LEMMA WaitingIsQuiet ==
  ASSUME IInv, Reschedule \/ PickCandidate \/ CheckSpace \/ Deactivate
  PROVE  IInv'
<1> USE DEF queueVars, workerVars, ownerVars, dataVars, Ending, Joining
<1>1. TypeOK /\ ControlInv
  BY DEF IInv
<1>2. CASE Reschedule
  <2>1. TypeOK'
    <3>1. fresh' \subseteq Event
      BY <1>1, <1>2 DEF Reschedule, TypeOK, Event
    <3>2. count' \in 0 .. MaxPerEvent
      BY <1>2, Bounds DEF Reschedule
    <3> QED BY <1>1, <1>2, <3>1, <3>2 DEF Reschedule, TypeOK
  <2>2. ControlInv' /\ Quiet
    BY <1>1, <1>2 DEF Reschedule, ControlInv, Quiet, Over, MayBeLogged
  <2> QED BY <2>1, <2>2, QuietStep
<1>3. CASE PickCandidate
  <2>1. TypeOK'
    <3>1. candidate' \in Message \cup {NoMessage}
      BY <1>1, <1>3, InLine DEF PickCandidate
    <3> QED BY <1>1, <1>3, <3>1 DEF PickCandidate, TypeOK
  <2>2. ControlInv' /\ Quiet
    BY <1>1, <1>3 DEF PickCandidate, ControlInv, Quiet, Over, MayBeLogged
  <2> QED BY <2>1, <2>2, QuietStep
<1>4. CASE CheckSpace
  <2>1. TypeOK'
    <3>1. fresh' \subseteq Event
      BY <1>1, <1>4 DEF CheckSpace, TypeOK, Event
    <3>2. ready' \in BOOLEAN
      BY <1>1, <1>4, Zenon DEF CheckSpace, TypeOK
    <3> QED BY <1>1, <1>4, <3>1, <3>2 DEF CheckSpace, TypeOK
  <2>2. ControlInv' /\ Quiet
    BY <1>1, <1>4 DEF CheckSpace, ControlInv, Quiet, Over, MayBeLogged
  <2> QED BY <2>1, <2>2, QuietStep
<1>5. CASE Deactivate
  <2>1. TypeOK'
    <3>1. active' \in BOOLEAN
      BY <1>5 DEF Deactivate
    <3> QED BY <1>1, <1>5, <3>1 DEF Deactivate, TypeOK
  <2>2. ControlInv' /\ Quiet
    BY <1>1, <1>5 DEF Deactivate, ControlInv, Quiet, Over, MayBeLogged
  <2> QED BY <2>1, <2>2, QuietStep
<1> QED BY <1>2, <1>3, <1>4, <1>5

\* Subscribers and broker; the owner that begins to stop, or has moved an object
\* without a worker; and no step at all.
LEMMA OthersAreQuiet ==
  ASSUME IInv,
         \/ \E c \in Class : Consume(c)
         \/ SignalSpace \/ ControlArrives \/ BeginStop \/ SignalStop \/ MovedAndIdle
         \/ UNCHANGED vars
  PROVE  IInv'
<1> USE DEF queueVars, workerVars, ownerVars, dataVars, Ending, Joining
<1>1. TypeOK /\ ControlInv
  BY DEF IInv
<1>2. ASSUME NEW c \in Class, Consume(c) PROVE IInv'
  <2>1. TypeOK'
    BY <1>1, <1>2, Bounds DEF Consume, TypeOK
  <2>2. ControlInv' /\ Quiet
    BY <1>1, <1>2 DEF Consume, ControlInv, Quiet, Over, MayBeLogged
  <2> QED BY <2>1, <2>2, QuietStep
<1>3. CASE SignalSpace
  <2>1. TypeOK'
    <3>1. fresh' \subseteq Event
      BY <1>1, <1>3 DEF SignalSpace, TypeOK, Event
    <3>2. owed' \in BOOLEAN
      BY <1>3 DEF SignalSpace
    <3> QED BY <1>1, <1>3, <3>1, <3>2 DEF SignalSpace, TypeOK
  <2>2. ControlInv' /\ Quiet
    BY <1>1, <1>3 DEF SignalSpace, ControlInv, Quiet, Over, MayBeLogged
  <2> QED BY <2>1, <2>2, QuietStep
<1>4. CASE ControlArrives
  <2>1. TypeOK'
    BY <1>1, <1>4, Bounds DEF ControlArrives, TypeOK, Event
  <2>2. ControlInv' /\ Quiet
    BY <1>1, <1>4 DEF ControlArrives, ControlInv, Quiet, Over, MayBeLogged
  <2> QED BY <2>1, <2>2, QuietStep
<1>5. CASE BeginStop
  <2>1. TypeOK'
    BY <1>1, <1>5, Bounds DEF BeginStop, TypeOK
  <2>2. ControlInv' /\ Quiet
    BY <1>1, <1>5 DEF BeginStop, ControlInv, Quiet, Over, MayBeLogged
  <2> QED BY <2>1, <2>2, QuietStep
<1>6. CASE SignalStop
  <2>1. TypeOK'
    <3>1. fresh' \subseteq Event
      BY <1>1, <1>6 DEF SignalStop, TypeOK, Event
    <3> QED BY <1>1, <1>6, <3>1 DEF SignalStop, TypeOK
  <2>2. ControlInv' /\ Quiet
    BY <1>1, <1>6 DEF SignalStop, ControlInv, Quiet, Over, MayBeLogged
  <2> QED BY <2>1, <2>2, QuietStep
<1>7. CASE MovedAndIdle
  <2>1. TypeOK'
    BY <1>1, <1>7, ZenonT(40) DEF MovedAndIdle, TypeOK
  <2>2. ControlInv' /\ Quiet
    BY <1>1, <1>7 DEF MovedAndIdle, ControlInv, Quiet, Over, MayBeLogged, Restarts
  <2> QED BY <2>1, <2>2, QuietStep
<1>8. CASE UNCHANGED vars
  <2>1. TypeOK'
    BY <1>1, <1>8 DEF vars, TypeOK
  <2>2. ControlInv' /\ Quiet
    BY <1>1, <1>8 DEF vars, ControlInv, Quiet, Over, MayBeLogged
  <2> QED BY <2>1, <2>2, QuietStep
<1> QED BY <1>2, <1>3, <1>4, <1>5, <1>6, <1>7, <1>8

-----------------------------------------------------------------------------
LEMMA Elements ==
  ASSUME NEW q \in Seq(Message)
  PROVE  /\ DOMAIN q = 1 .. Len(q) /\ Len(q) \in Nat /\ DOMAIN q \subseteq Nat
         /\ \A k \in DOMAIN q : q[k] \in Message
<1>1. Len(q) \in Nat /\ q \in [1 .. Len(q) -> Message] /\ DOMAIN q = 1 .. Len(q)
  BY LenProperties
<1> QED BY <1>1

\* A sequence with one more message in front.
LEMMA InFront ==
  ASSUME NEW q \in Seq(Message), NEW m \in Message
  PROVE  /\ <<m>> \o q \in Seq(Message) /\ DOMAIN (<<m>> \o q) = 1 .. Len(q) + 1
         /\ (<<m>> \o q)[1] = m
         /\ \A i \in 2 .. Len(q) + 1 : (<<m>> \o q)[i] = q[i - 1]
<1>1. <<m>> \in Seq(Message) /\ Len(<<m>>) = 1 /\ <<m>>[1] = m
  OBVIOUS
<1>2. /\ <<m>> \o q \in Seq(Message) /\ Len(<<m>> \o q) = 1 + Len(q)
      /\ \A i \in 1 .. 1 + Len(q) : (<<m>> \o q)[i] = IF i <= 1 THEN <<m>>[i] ELSE q[i - 1]
  BY <1>1, ConcatProperties
<1>3. Len(q) \in Nat /\ DOMAIN (<<m>> \o q) = 1 .. Len(<<m>> \o q)
  BY <1>2, LenProperties
<1> QED BY <1>1, <1>2, <1>3

\* The front of the queue and what is behind it.
LEMMA FrontAndRest ==
  ASSUME pending \in Seq(Message), pending # <<>>
  PROVE  /\ Tail(pending) \in Seq(Message)
         /\ 1 \in DOMAIN pending /\ Head(pending) = pending[1] /\ Head(pending) \in Message
         /\ \A i \in DOMAIN Tail(pending) :
              i + 1 \in DOMAIN pending /\ Tail(pending)[i] = pending[i + 1]
         /\ \A i \in DOMAIN pending :
              i = 1 \/ (i - 1 \in DOMAIN Tail(pending) /\ Tail(pending)[i - 1] = pending[i])
         /\ DOMAIN pending \subseteq Nat /\ DOMAIN Tail(pending) \subseteq Nat
         /\ <<Head(pending)>> \o Tail(pending) = pending
<1>1. /\ Len(pending) \in Nat \ {0} /\ DOMAIN pending = 1 .. Len(pending)
      /\ Head(pending) = pending[1]
  BY EmptySeq, LenProperties
<1>2. /\ Head(pending) \in Message /\ Tail(pending) \in Seq(Message)
      /\ Len(Tail(pending)) = Len(pending) - 1
      /\ \A i \in 1 .. Len(Tail(pending)) : Tail(pending)[i] = pending[i + 1]
  BY HeadTailProperties
<1>3. DOMAIN Tail(pending) = 1 .. Len(pending) - 1
  BY <1>2, LenProperties
<1>4. \A i \in DOMAIN Tail(pending) :
        i + 1 \in DOMAIN pending /\ Tail(pending)[i] = pending[i + 1]
  BY <1>1, <1>2, <1>3
<1>5. ASSUME NEW i \in DOMAIN pending, i # 1
      PROVE  i - 1 \in DOMAIN Tail(pending) /\ Tail(pending)[i - 1] = pending[i]
  <2>1. i - 1 \in DOMAIN Tail(pending) /\ (i - 1) + 1 = i
    BY <1>1, <1>3, <1>5
  <2> QED BY <1>4, <2>1
<1>6. DOMAIN pending \subseteq Nat /\ DOMAIN Tail(pending) \subseteq Nat /\ 1 \in DOMAIN pending
  BY <1>1, <1>3
<1>7. <<Head(pending)>> \o Tail(pending) = pending
  <2>1. <<Head(pending)>> \o Tail(pending) \in Seq(Message)
    BY <1>2, InFront
  <2>2. Len(<<Head(pending)>> \o Tail(pending)) = Len(pending)
    BY <1>1, <1>2, <2>1, InFront, Elements
  <2>3. ASSUME NEW i \in 1 .. Len(pending)
        PROVE  (<<Head(pending)>> \o Tail(pending))[i] = pending[i]
    <3>1. CASE i = 1
      BY <1>1, <1>2, <3>1, InFront
    <3>2. CASE i # 1
      BY <1>1, <1>2, <1>5, <3>2, InFront
    <3> QED BY <3>1, <3>2
  <2> QED BY <2>1, <2>2, <2>3, SeqEqual
<1> QED BY <1>1, <1>2, <1>4, <1>5, <1>6, <1>7

\* The end of the queue.
LEMMA AtTheEnd ==
  ASSUME NEW q \in Seq(Message), NEW m \in Message
  PROVE  /\ Append(q, m) \in Seq(Message)
         /\ DOMAIN Append(q, m) = 1 .. Len(q) + 1 /\ DOMAIN q = 1 .. Len(q) /\ Len(q) \in Nat
         /\ Append(q, m)[Len(q) + 1] = m
         /\ \A i \in DOMAIN q : Append(q, m)[i] = q[i]
<1>1. /\ Append(q, m) \in Seq(Message) /\ Len(Append(q, m)) = Len(q) + 1
      /\ Append(q, m)[Len(q) + 1] = m
      /\ \A i \in 1 .. Len(q) : Append(q, m)[i] = q[i]
  BY AppendProperties
<1> QED BY <1>1

\* The worker takes the next message, or it is done.
LEMMA Taken ==
  ASSUME TypeOK, OrderInv, UNCHANGED calls,
         NEW n \in 0 .. MaxPerEvent, NEW current \in {NoMessage, inFlight},
         TakeNext(n, current)
  PROVE  /\ OrderInv'
         /\ \A m \in Message :
              Queued(m)' <=> m = current \/ \E k \in DOMAIN pending : pending[k] = m
         /\ pc' \in {"try", "loop", "reschedule"} /\ count' = n
         /\ pc' = "try" => inFlight' # NoMessage /\ state' = "Publishing" /\ n < MaxPerEvent
         /\ pending' \in Seq(Message) /\ inFlight' \in Message \cup {NoMessage}
         /\ state' \in {"Publishing", "Blocked"}
<1>1. /\ pending \in Seq(Message) /\ inFlight \in Message \cup {NoMessage} /\ calls \in Nat
      /\ state \in {"Publishing", "Blocked"}
  BY Bounds DEF TypeOK
<1>2. CASE pc' = "try" /\ current = NoMessage
  <2>1. /\ pending # <<>> /\ inFlight' = Head(pending) /\ pending' = Tail(pending)
        /\ count' = n /\ state' = "Publishing" /\ n < MaxPerEvent
    BY <1>2 DEF TakeNext, MayGoOn
  <2>2. OrderInv'
    BY <1>1, <2>1, FrontAndRest DEF OrderInv
  <2>3. ASSUME NEW m \in Message
        PROVE  Queued(m)' <=> \E k \in DOMAIN pending : pending[k] = m
    BY <1>1, <2>1, FrontAndRest, ZenonT(40) DEF Queued
  <2> QED BY <1>1, <1>2, <2>1, <2>2, <2>3, FrontAndRest
<1>3. CASE ~(pc' = "try" /\ current = NoMessage)
  <2>1. /\ inFlight' = current /\ pending' = pending /\ count' = n
        /\ pc' \in {"try", "loop", "reschedule"} /\ state' \in {"Publishing", state}
        /\ pc' = "try" => current # NoMessage /\ state' = "Publishing" /\ n < MaxPerEvent
    BY <1>3 DEF TakeNext, MayGoOn
  <2>2. OrderInv'
    <3>1. DOMAIN pending = 1 .. Len(pending) /\ \A i \in DOMAIN pending : pending[i] \in Message
      BY <1>1, LenProperties
    <3> QED BY <1>1, <2>1, <3>1 DEF OrderInv
  <2>3. \A m \in Message : Queued(m)' <=> m = current \/ \E k \in DOMAIN pending : pending[k] = m
    BY <2>1 DEF Queued
  <2> QED BY <1>1, <2>1, <2>2, <2>3
<1> QED BY <1>2, <1>3

LEMMA StartWorkStep ==
  ASSUME IInv, StartWork
  PROVE  IInv'
<1> USE DEF queueVars, workerVars, ownerVars, dataVars, Ending, Joining
<1>1. TypeOK /\ ControlInv /\ OrderInv /\ WaitInv /\ LogInv /\ pc = "work" /\ reason = "None"
  BY DEF IInv, StartWork, ControlInv
<1>2. CASE StillBlocked
  <2>1. TypeOK'
    BY <1>1, <1>2 DEF StartWork, TypeOK
  <2>2. ControlInv' /\ Quiet
    BY <1>1, <1>2 DEF StartWork, ControlInv, Quiet, Over, MayBeLogged
  <2> QED BY <2>1, <2>2, QuietStep
<1>3. CASE ~StillBlocked
  <2>1. ready' = TRUE /\ TakeNext(0, inFlight)
    BY <1>3 DEF StartWork
  <2>2. UNCHANGED <<calls, ticket, fresh, batch, attempt, candidate, active, reason, ownerVars,
                    dataVars>>
    BY DEF StartWork
  <2>3. /\ OrderInv'
        /\ \A m \in Message : Queued(m)' <=> Queued(m)
        /\ pc' \in {"try", "loop", "reschedule"} /\ count' = 0
        /\ pc' = "try" => inFlight' # NoMessage /\ state' = "Publishing" /\ 0 < MaxPerEvent
        /\ pending' \in Seq(Message) /\ inFlight' \in Message \cup {NoMessage}
        /\ state' \in {"Publishing", "Blocked"}
    BY <1>1, <2>1, <2>2, Bounds, Taken DEF Queued
  <2>4. TypeOK'
    BY <1>1, <2>1, <2>2, <2>3, Bounds DEF TypeOK
  <2>5. ControlInv'
    BY <1>1, <2>2, <2>3 DEF ControlInv
  <2>6. WaitInv'
    BY <1>1, <2>2, <2>3 DEF WaitInv, Over
  <2>7. LogInv'
    BY <1>1, <2>2, <2>3 DEF LogInv, MayBeLogged, PublishedInOrder
  <2>8. TicketsTellTheTruth'
    <3>1. ASSUME NEW m \in Message, NEW k \in DOMAIN log, log[k] = m PROVE ticket[m] # "waiting"
      BY <1>1, <3>1 DEF WaitInv, LogInv, MayBeLogged
    <3> QED BY <2>2, <3>1 DEF IInv, TicketsTellTheTruth
  <2>9. FateInv'
    BY <2>2 DEF IInv, FateInv, NoTicketIsBroken
  <2> QED BY <2>3, <2>4, <2>5, <2>6, <2>7, <2>8, <2>9 DEF IInv
<1> QED BY <1>2, <1>3

LEMMA TryPublishStep ==
  ASSUME IInv, TryPublish
  PROVE  IInv'
<1> USE DEF queueVars, workerVars, ownerVars, dataVars, Ending, Joining
<1>1. /\ TypeOK /\ ControlInv /\ OrderInv /\ WaitInv /\ LogInv
      /\ pc = "try" /\ reason = "None" /\ inFlight \in Message /\ state = "Publishing"
  BY DEF IInv, TryPublish, ControlInv, TypeOK
<1>2. CASE UNCHANGED log
  <2>1. TypeOK'
    BY <1>1, <1>2, Bounds DEF TryPublish, TypeOK
  <2>2. ControlInv' /\ UNCHANGED queueVars /\ (Over' <=> Over)
    BY <1>1, <1>2 DEF TryPublish, ControlInv, Over
  <2>3. pc' = "attempted" => attempt' = "Blocked"
    BY <1>1, <1>2 DEF TryPublish, TypeOK
  <2>4. ~MayBeLogged
    BY <1>1 DEF MayBeLogged
  <2>5. \A m \in Message : Queued(m)' <=> Queued(m)
    BY <2>2 DEF Queued
  <2>6. OrderInv' /\ WaitInv'
    BY <1>1, <2>2, <2>5 DEF OrderInv, WaitInv
  <2>7. LogInv'
    BY <1>1, <1>2, <2>2, <2>3, <2>4, <2>5 DEF LogInv, PublishedInOrder
  <2>8. TicketsTellTheTruth' /\ FateInv'
    BY <1>2, <2>2 DEF IInv, TryPublish, TicketsTellTheTruth, FateInv, NoTicketIsBroken
  <2> QED BY <2>1, <2>2, <2>6, <2>7, <2>8 DEF IInv
<1>3. CASE log' = Append(log, inFlight)
  <2>1. /\ log \in Seq(Message) /\ log' \in Seq(Message)
        /\ DOMAIN log' = 1 .. Len(log) + 1 /\ DOMAIN log = 1 .. Len(log) /\ Len(log) \in Nat
        /\ log'[Len(log) + 1] = inFlight
        /\ \A k \in DOMAIN log : log'[k] = log[k]
    BY <1>1, <1>3, AtTheEnd DEF TypeOK
  <2>2. free' \in [Class -> 0 .. Chunks]
    BY <1>1, Bounds, SMTT(60) DEF TryPublish, TypeOK
  <2>3. TypeOK'
    BY <1>1, <2>1, <2>2 DEF TryPublish, TypeOK
  <2>4. ControlInv' /\ UNCHANGED queueVars /\ (Over' <=> Over)
    BY <1>1 DEF TryPublish, ControlInv, Over
  <2>5. /\ MayBeLogged' /\ ~MayBeLogged
    <3>1. log' # log
      BY <2>1
    <3> QED BY <1>1, <3>1 DEF TryPublish, MayBeLogged
  <2>6. \A m \in Message : Queued(m)' <=> Queued(m)
    BY <2>4 DEF Queued
  <2>7. OrderInv' /\ WaitInv'
    BY <1>1, <2>4, <2>6 DEF OrderInv, WaitInv
  <2>8. \A k \in DOMAIN log : log[k] < inFlight
    BY <1>1, <2>5 DEF LogInv, Queued
  <2>9. \A m \in Message : Queued(m) => inFlight <= m
    <3>1. \A k \in DOMAIN pending : pending[k] \in Message
      <4>1. pending \in Seq(Message)
        BY <1>1 DEF TypeOK
      <4> QED BY <4>1, LenProperties
    <3> QED BY <1>1, <3>1 DEF OrderInv, Queued
  <2>10. LogInv'
    <3>1. PublishedInOrder'
      BY <1>1, <2>1, <2>8 DEF LogInv, PublishedInOrder
    <3>2. ASSUME NEW k \in DOMAIN log'
          PROVE  /\ log'[k] <= calls'
                 /\ \A m \in Message : Queued(m)' =>
                      log'[k] < m \/ (log'[k] = m /\ m = inFlight' /\ MayBeLogged')
      <4>1. CASE k \in DOMAIN log
        BY <1>1, <2>1, <2>4, <2>5, <2>6, <4>1 DEF LogInv
      <4>2. CASE k = Len(log) + 1
        <5>1. log'[k] = inFlight /\ inFlight' = inFlight /\ calls' = calls
          BY <2>1, <2>4, <4>2
        <5>2. inFlight <= calls
          BY <1>1 DEF OrderInv
        <5>3. ASSUME NEW m \in Message, Queued(m)' PROVE inFlight < m \/ inFlight = m
          BY <1>1, <2>6, <2>9, <5>3, Bounds
        <5> QED BY <2>5, <5>1, <5>2, <5>3
      <4> QED BY <2>1, <4>1, <4>2
    <3>3. \E k \in DOMAIN log' : log'[k] = inFlight'
      <4>1. Len(log) + 1 \in DOMAIN log' /\ inFlight' = inFlight
        BY <2>1, <2>4
      <4> QED BY <2>1, <4>1
    <3> QED BY <3>1, <3>2, <3>3 DEF LogInv
  <2>11. TicketsTellTheTruth'
    <3>1. ticket[inFlight] = "waiting"
      BY <1>1 DEF WaitInv, Over, Queued
    <3>2. ASSUME NEW m \in Message, m # inFlight
          PROVE  (\E k \in DOMAIN log' : log'[k] = m) <=> \E k \in DOMAIN log : log[k] = m
      BY <2>1, <3>2
    <3> QED BY <1>1, <2>4, <3>1, <3>2 DEF IInv, TicketsTellTheTruth
  <2>12. FateInv'
    BY <2>4 DEF IInv, TryPublish, FateInv, NoTicketIsBroken
  <2> QED BY <2>3, <2>4, <2>7, <2>10, <2>11, <2>12 DEF IInv
<1> QED BY <1>2, <1>3 DEF TryPublish

LEMMA AttemptedStep ==
  ASSUME IInv, Attempted
  PROVE  IInv'
<1> USE DEF queueVars, workerVars, ownerVars, dataVars, Ending, Joining
<1>1. /\ TypeOK /\ ControlInv /\ OrderInv /\ WaitInv /\ LogInv
      /\ pc = "attempted" /\ reason = "None" /\ inFlight \in Message /\ state = "Publishing"
      /\ count \in 0 .. MaxPerEvent /\ count < MaxPerEvent
  BY DEF IInv, Attempted, ControlInv, TypeOK
<1>2. CASE attempt = "Blocked"
  <2>1. /\ UNCHANGED <<calls, ticket, pending, inFlight, log, reason, owner, intent>>
        /\ state' = "Blocked" /\ pc' = "loop"
    BY <1>2 DEF Attempted
  <2>2. TypeOK'
    BY <1>1, <1>2 DEF Attempted, TypeOK
  <2>3. ControlInv' /\ (Over' <=> Over)
    BY <1>1, <1>2 DEF Attempted, ControlInv, Over
  <2>4. ~MayBeLogged
    BY <1>1, <1>2 DEF MayBeLogged
  <2>5. \A m \in Message : Queued(m)' <=> Queued(m)
    BY <2>1 DEF Queued
  <2>6. OrderInv' /\ WaitInv'
    BY <1>1, <2>1, <2>3, <2>5 DEF OrderInv, WaitInv
  <2>7. LogInv'
    BY <1>1, <2>1, <2>4, <2>5 DEF LogInv, PublishedInOrder
  <2>8. TicketsTellTheTruth' /\ FateInv'
    BY <2>1 DEF IInv, TicketsTellTheTruth, FateInv, NoTicketIsBroken
  <2> QED BY <2>2, <2>3, <2>6, <2>7, <2>8 DEF IInv
<1>3. CASE attempt # "Blocked"
  <2>1. ticket[inFlight] = "waiting" /\ \E k \in DOMAIN log : log[k] = inFlight
    BY <1>1, <1>3 DEF WaitInv, Over, Queued, LogInv
  <2>2. /\ ticket' = [ticket EXCEPT ![inFlight] = "Published"]
        /\ TakeNext(count + 1, NoMessage) /\ attempt' = "None"
        /\ UNCHANGED <<calls, fresh, batch, ready, candidate, active, reason, ownerVars, dataVars>>
    BY <1>3, <2>1 DEF Attempted, AfterPublication, Completed
  <2>3. /\ OrderInv'
        /\ \A m \in Message : Queued(m)' <=> \E k \in DOMAIN pending : pending[k] = m
        /\ pc' \in {"try", "loop", "reschedule"} /\ count' = count + 1
        /\ pc' = "try" => inFlight' # NoMessage /\ state' = "Publishing" /\ count + 1 < MaxPerEvent
        /\ pending' \in Seq(Message) /\ inFlight' \in Message \cup {NoMessage}
        /\ state' \in {"Publishing", "Blocked"}
    <3>1. count + 1 \in 0 .. MaxPerEvent
      BY <1>1, Bounds
    <3> QED BY <1>1, <2>2, <3>1, Taken
  <2>4. \A m \in Message : Queued(m)' <=> Queued(m) /\ m # inFlight
    <3>1. \A k \in DOMAIN pending : pending[k] # inFlight
      BY <1>1 DEF OrderInv, TypeOK
    <3> QED BY <2>3, <3>1 DEF Queued
  <2>5. TypeOK'
    <3>1. ticket' \in [Message -> TicketValue]
      BY <1>1, <2>2 DEF TypeOK, TicketValue
    <3> QED BY <1>1, <2>2, <2>3, <3>1, Bounds DEF TypeOK
  <2>6. ControlInv'
    BY <1>1, <2>2, <2>3 DEF ControlInv
  <2>7. WaitInv'
    BY <1>1, <2>2, <2>3, <2>4 DEF WaitInv, Over, TypeOK
  <2>8. LogInv'
    BY <1>1, <2>2, <2>3, <2>4 DEF LogInv, PublishedInOrder
  <2>9. TicketsTellTheTruth'
    <3>1. ASSUME NEW m \in Message, NEW k \in DOMAIN log, log[k] = m, m # inFlight
          PROVE  ticket[m] # "waiting"
      BY <3>1 DEF IInv, TicketsTellTheTruth
    <3> QED BY <1>1, <2>1, <2>2, <3>1 DEF IInv, TicketsTellTheTruth, TypeOK
  <2>10. FateInv'
    BY <1>1, <2>1, <2>2 DEF IInv, FateInv, NoTicketIsBroken, TypeOK
  <2> QED BY <2>3, <2>5, <2>6, <2>7, <2>8, <2>9, <2>10 DEF IInv
<1> QED BY <1>2, <1>3

-----------------------------------------------------------------------------
(* The end of the worker, and the owner *)

LEMMA WorkerEndsStep ==
  ASSUME IInv, WorkerEnds
  PROVE  IInv'
<1> USE DEF queueVars, workerVars, ownerVars, dataVars, Ending, Joining
<1>1. /\ TypeOK /\ ControlInv /\ OrderInv /\ WaitInv /\ LogInv
      /\ pc = "complete" /\ pc' = "exited"
      /\ UNCHANGED <<calls, pending, inFlight, state, fresh, batch, ready, count, attempt,
                     candidate, active, reason, ownerVars, dataVars>>
  BY DEF IInv, WorkerEnds
<1> DEFINE value == IF reason # "None" THEN "WorkerFailed" ELSE "WorkerStopped"
<1>2. \A m \in Message : Queued(m)' <=> Queued(m)
  BY <1>1 DEF Queued
<1>3. ControlInv'
  BY <1>1 DEF ControlInv
<1>4. OrderInv' /\ LogInv'
  BY <1>1, <1>2 DEF OrderInv, LogInv, MayBeLogged, PublishedInOrder
<1>5. CASE reason # "None" \/ intent # "Transfer"
  <2>1. \A m \in Message : Queued(m) <=> ticket[m] = "waiting"
    BY <1>1 DEF WaitInv, Over
  <2>2. ticket' = [m \in Message |-> IF Queued(m) THEN Completed(m, value) ELSE ticket[m]]
    BY <1>1, <1>5, InLine DEF WorkerEnds, LeftOver
  <2>3. ticket' = [m \in Message |-> IF ticket[m] = "waiting" THEN value ELSE ticket[m]]
    BY <2>1, <2>2 DEF Completed
  <2>4. TypeOK'
    <3>1. ticket' \in [Message -> TicketValue]
      BY <1>1, <2>3 DEF TypeOK, TicketValue
    <3> QED BY <1>1, <3>1 DEF TypeOK
  <2>5. WaitInv'
    BY <1>1, <1>5, <2>3 DEF WaitInv, Over
  <2>6. TicketsTellTheTruth'
    <3>1. ASSUME NEW m \in Message, NEW k \in DOMAIN log, log[k] = m, ticket[m] = "waiting"
          PROVE  value = "WorkerFailed"
      BY <1>1, <2>1, <3>1 DEF LogInv, MayBeLogged
    <3> QED BY <1>1, <2>3, <3>1 DEF IInv, TicketsTellTheTruth
  <2>7. FateInv'
    BY <1>1, <2>3 DEF IInv, FateInv, NoTicketIsBroken
  <2> QED BY <1>3, <1>4, <2>4, <2>5, <2>6, <2>7 DEF IInv
<1>6. CASE ~(reason # "None" \/ intent # "Transfer")
  <2>1. ticket' = ticket
    BY <1>6 DEF WorkerEnds
  <2>2. TypeOK'
    BY <1>1, <2>1 DEF TypeOK
  <2>3. WaitInv'
    BY <1>1, <1>2, <1>6, <2>1 DEF WaitInv, Over
  <2>4. TicketsTellTheTruth' /\ FateInv'
    BY <1>1, <2>1 DEF IInv, TicketsTellTheTruth, FateInv, NoTicketIsBroken
  <2> QED BY <1>3, <1>4, <2>2, <2>3, <2>4 DEF IInv
<1> QED BY <1>5, <1>6

LEMMA DestroyedStep ==
  ASSUME IInv, Destroyed
  PROVE  IInv'
<1> USE DEF queueVars, workerVars, ownerVars, dataVars, Ending, Joining
<1>1. /\ TypeOK /\ ControlInv /\ OrderInv /\ WaitInv /\ LogInv
      /\ owner = "destroyJoins" /\ owner' = "gone" /\ pc \in {"exited", "joined"} /\ pc' = "joined"
      /\ UNCHANGED <<calls, pending, inFlight, state, ready, count, attempt, candidate, active,
                     reason, wasActive, moves, intent, dataVars>>
      /\ fresh' = {} /\ batch' = {}
  BY DEF IInv, Destroyed
<1>2. Over /\ Over'
  BY <1>1 DEF ControlInv, Over
<1>3. \A m \in Message : ticket[m] # "waiting"
  BY <1>1, <1>2 DEF WaitInv
<1>4. ticket' = ticket
  BY <1>1, <1>3 DEF Destroyed, Broken, TypeOK
<1>5. \A m \in Message : Queued(m)' <=> Queued(m)
  BY <1>1 DEF Queued
<1>6. TypeOK'
  BY <1>1, <1>4 DEF TypeOK
<1>7. ControlInv'
  BY <1>1 DEF ControlInv
<1>8. OrderInv' /\ WaitInv'
  BY <1>1, <1>2, <1>3, <1>4 DEF OrderInv, WaitInv
<1>9. LogInv'
  BY <1>1, <1>5 DEF LogInv, MayBeLogged, PublishedInOrder
<1>10. TicketsTellTheTruth' /\ FateInv'
  BY <1>1, <1>4 DEF IInv, TicketsTellTheTruth, FateInv, NoTicketIsBroken
<1> QED BY <1>6, <1>7, <1>8, <1>9, <1>10 DEF IInv

LEMMA MovedAndRestartedStep ==
  ASSUME IInv, MovedAndRestarted
  PROVE  IInv'
<1> USE DEF queueVars, workerVars, ownerVars, dataVars, Ending, Joining
<1>1. /\ TypeOK /\ ControlInv /\ OrderInv /\ WaitInv /\ LogInv
      /\ owner = "moveJoins" /\ pc = "exited" /\ reason = "None" /\ intent = "Transfer"
      /\ UNCHANGED <<calls, pending, inFlight, state, count, attempt, candidate, reason, wasActive,
                     moves, dataVars>>
      /\ fresh' = fresh \ {"shutdown"} /\ batch' = batch
  BY DEF IInv, MovedAndRestarted, Restarts, ControlInv, CarriedEvents
<1>2. ~Over /\ ~MayBeLogged
  BY <1>1 DEF Over, MayBeLogged
<1>3. CASE owner' = "using"
  <2>1. pc' = "loop" /\ ready' = TRUE /\ active' = TRUE /\ intent' = "Destroy" /\ ticket' = ticket
    BY <1>3 DEF MovedAndRestarted
  <2>2. TypeOK'
    BY <1>1, <1>3, <2>1 DEF TypeOK
  <2>3. ControlInv'
    BY <1>1, <1>3, <2>1 DEF ControlInv
  <2>4. Quiet
    BY <1>1, <1>2, <1>3, <2>1 DEF Quiet, Over
  <2> QED BY <2>2, <2>3, <2>4, QuietStep
<1>4. CASE owner' # "using"
  <2>1. /\ owner' = "lost" /\ pc' = "joined" /\ UNCHANGED <<ready, active, intent>>
        /\ ticket' = [m \in Message |-> IF ticket[m] = "waiting" THEN "broken" ELSE ticket[m]]
    BY <1>4 DEF MovedAndRestarted, Broken
  <2>2. TypeOK'
    <3>1. ticket' \in [Message -> TicketValue]
      BY <1>1, <2>1 DEF TypeOK, TicketValue
    <3> QED BY <1>1, <2>1, <3>1 DEF TypeOK
  <2>3. ControlInv'
    BY <1>1, <2>1 DEF ControlInv
  <2>4. \A m \in Message : Queued(m)' <=> Queued(m)
    BY <1>1 DEF Queued
  <2>5. OrderInv' /\ WaitInv'
    BY <1>1, <2>1 DEF OrderInv, WaitInv, Over
  <2>6. LogInv'
    BY <1>1, <1>2, <2>1, <2>4 DEF LogInv, PublishedInOrder
  <2>7. TicketsTellTheTruth'
    <3>1. ASSUME NEW m \in Message, NEW k \in DOMAIN log, log[k] = m PROVE ticket[m] # "waiting"
      BY <1>1, <1>2, <3>1 DEF WaitInv, LogInv
    <3> QED BY <1>1, <2>1, <3>1 DEF IInv, TicketsTellTheTruth
  <2>8. FateInv'
    BY <1>1, <2>1 DEF IInv, FateInv, NoTicketIsBroken
  <2> QED BY <2>2, <2>3, <2>5, <2>6, <2>7, <2>8 DEF IInv
<1> QED BY <1>3, <1>4

-----------------------------------------------------------------------------
(* publish(payload) *)

LEMMA PublishRefusedStep ==
  ASSUME IInv, PublishRefused
  PROVE  IInv'
<1> USE DEF queueVars, workerVars, ownerVars, dataVars, Ending, Joining
<1>1. /\ TypeOK /\ ControlInv /\ OrderInv /\ WaitInv /\ LogInv /\ FateInv
      /\ calls \in Nat /\ calls + 1 \in Message /\ calls' = calls + 1
      /\ ticket' = [ticket EXCEPT ![calls + 1] = "refused"]
      /\ UNCHANGED <<pending, inFlight, state, fresh, batch, workerVars, ownerVars, dataVars>>
  <2>1. TypeOK /\ ControlInv /\ OrderInv /\ WaitInv /\ LogInv /\ FateInv
    BY DEF IInv
  <2>2. calls \in 0 .. Calls /\ calls < Calls
    BY <2>1 DEF TypeOK, PublishRefused
  <2> QED BY <2>1, <2>2, Bounds DEF PublishRefused
<1>2. /\ \A k \in DOMAIN pending : pending[k] \in Message
      /\ inFlight \in Message \cup {NoMessage}
  <2>1. pending \in Seq(Message) /\ inFlight \in Message \cup {NoMessage}
    BY <1>1 DEF TypeOK
  <2> QED BY <2>1, LenProperties
<1>3. \A m \in Message : (Queued(m)' <=> Queued(m)) /\ (Queued(m) => m # calls + 1)
  BY <1>1, <1>2 DEF Queued, OrderInv
<1>4. \A k \in DOMAIN log : log[k] \in Message /\ log[k] # calls + 1 /\ log[k] <= calls + 1
  <2>1. log \in Seq(Message)
    BY <1>1 DEF TypeOK
  <2>2. \A k \in DOMAIN log : log[k] \in Message /\ log[k] <= calls
    BY <1>1, <2>1, LenProperties DEF LogInv
  <2> QED BY <1>1, <2>2
<1>5. TypeOK'
  <2>1. ticket' \in [Message -> TicketValue] /\ calls' \in 0 .. Calls
    BY <1>1, Bounds DEF TypeOK, TicketValue
  <2> QED BY <1>1, <2>1 DEF TypeOK
<1>6. ControlInv'
  BY <1>1 DEF ControlInv
<1>7. OrderInv'
  BY <1>1, <1>2 DEF OrderInv
<1>8. WaitInv'
  BY <1>1, <1>3 DEF WaitInv, Over, TypeOK
<1>9. LogInv'
  BY <1>1, <1>3, <1>4 DEF LogInv, MayBeLogged, PublishedInOrder
<1>10. TicketsTellTheTruth'
  BY <1>1, <1>4 DEF IInv, TicketsTellTheTruth, TypeOK
<1>11. FateInv'
  BY <1>1 DEF FateInv, NoTicketIsBroken, TypeOK
<1> QED BY <1>5, <1>6, <1>7, <1>8, <1>9, <1>10, <1>11 DEF IInv

LEMMA PublishStep ==
  ASSUME IInv, Publish
  PROVE  IInv'
<1> USE DEF queueVars, workerVars, ownerVars, dataVars, Ending, Joining
<1> DEFINE m == calls + 1
           oldest == IF GivesWay THEN inFlight ELSE Head(pending)
           rest == IF QueueFull /\ ~GivesWay THEN Tail(pending) ELSE pending
<1>1. /\ TypeOK /\ ControlInv /\ OrderInv /\ WaitInv /\ LogInv /\ FateInv
      /\ calls \in Nat /\ m \in Message /\ calls' = m /\ active
      /\ pending \in Seq(Message) /\ inFlight \in Message \cup {NoMessage}
      /\ inFlight' = IF QueueFull /\ GivesWay THEN NoMessage ELSE inFlight
      /\ UNCHANGED <<state, batch, workerVars, ownerVars, dataVars>>
  <2>1. TypeOK /\ ControlInv /\ OrderInv /\ WaitInv /\ LogInv /\ FateInv
    BY DEF IInv
  <2>2. /\ calls \in 0 .. Calls /\ calls < Calls
        /\ pending \in Seq(Message) /\ inFlight \in Message \cup {NoMessage}
    BY <2>1 DEF TypeOK, Publish
  <2> QED BY <2>1, <2>2, Bounds, SMTT(30) DEF Publish
<1>2. ~Over /\ ~Over'
  BY <1>1 DEF ControlInv, Over
<1>3. \A k \in DOMAIN pending : k \in Nat /\ pending[k] \in Message /\ inFlight < pending[k]
                                /\ pending[k] <= calls
  <2>1. DOMAIN pending \subseteq Nat /\ \A k \in DOMAIN pending : pending[k] \in Message
    BY <1>1, Elements
  <2> QED BY <1>1, <2>1 DEF OrderInv
<1>4. QueueFull => \/ GivesWay
                   \/ pending # <<>>
  <2>1. ASSUME QueueFull, pending = <<>> PROVE FALSE
    <3>1. Len(Outstanding) <= 1
      BY <1>1, <2>1, InLine
    <3> QED BY <1>1, <2>1, <3>1, InLine, Bounds, LenProperties DEF QueueFull
  <2> QED BY <2>1
<1>5. QueueFull => oldest \in Message /\ Queued(oldest)
  <2>1. GivesWay => inFlight \in Message
    BY <1>1 DEF GivesWay
  <2>2. pending # <<>> => Head(pending) \in Message /\ Queued(Head(pending))
    BY <1>1, FrontAndRest DEF Queued
  <2> QED BY <1>4, <2>1, <2>2 DEF Queued
<1>6. ~Queued(m) /\ \A k \in DOMAIN log : log[k] # m /\ log[k] <= m
  <2>1. log \in Seq(Message)
    BY <1>1 DEF TypeOK
  <2>2. \A k \in DOMAIN log : log[k] \in Message /\ log[k] <= calls
    BY <1>1, <2>1, LenProperties DEF LogInv
  <2> QED BY <1>1, <1>3, <2>2 DEF Queued, OrderInv
<1>7. ASSUME QueueFull, NEW k \in DOMAIN log
      PROVE  log[k] # oldest
  <2>1. CASE GivesWay
    BY <1>1, <1>5, <1>7, <2>1 DEF LogInv, MayBeLogged, GivesWay
  <2>2. CASE ~GivesWay
    BY <1>1, <1>3, <1>4, <1>5, <1>7, <2>2, FrontAndRest DEF LogInv
  <2> QED BY <2>1, <2>2
<1>8. ControlInv'
  <2>1. pc \in {"try", "attempted"} => ~GivesWay
    BY <1>1 DEF ControlInv, GivesWay
  <2>2. "shutdown" \in fresh' => "shutdown" \in fresh
    BY DEF Publish
  <2> QED BY <1>1, <2>1, <2>2 DEF ControlInv
<1>9. QueueFull => ticket[oldest] = "waiting" /\ oldest # m /\ oldest <= calls
  BY <1>1, <1>2, <1>3, <1>5, <1>6 DEF WaitInv, OrderInv, Queued
<1>10. /\ ~GivesWay /\ QueueFull => \A k \in DOMAIN pending : (pending[k] = oldest <=> k = 1)
       /\ GivesWay => \A k \in DOMAIN pending : pending[k] # oldest
  <2>1. ASSUME ~GivesWay, QueueFull, NEW k \in DOMAIN pending PROVE pending[k] = oldest <=> k = 1
    <3>1. 1 \in DOMAIN pending /\ oldest = pending[1]
      BY <1>1, <1>4, <2>1, FrontAndRest
    <3>2. k # 1 => 1 < k
      <4>1. DOMAIN pending = 1 .. Len(pending) /\ Len(pending) \in Nat
        BY <1>1, LenProperties
      <4> QED BY <4>1
    <3>3. k # 1 => pending[1] < pending[k]
      BY <1>1, <3>1, <3>2 DEF OrderInv
    <3> QED BY <1>3, <3>1, <3>3
  <2>2. ASSUME GivesWay, NEW k \in DOMAIN pending PROVE pending[k] # oldest
    BY <1>1, <1>3, <2>2
  <2> QED BY <2>1, <2>2
<1>11. CASE ticket'[m] = "waiting"
  <2>1. /\ pending' = Append(rest, m)
        /\ ticket' = [k \in Message |->
                        CASE k = m                   -> "waiting"
                          [] QueueFull /\ k = oldest -> "Overwritten"
                          [] OTHER                   -> ticket[k]]
    BY <1>1, <1>9, <1>11 DEF Publish, Completed, TypeOK
  <2>2. /\ rest \in Seq(Message) /\ DOMAIN rest = 1 .. Len(rest) /\ Len(rest) \in Nat
        /\ \A i \in DOMAIN rest :
             IF QueueFull /\ ~GivesWay THEN i + 1 \in DOMAIN pending /\ rest[i] = pending[i + 1]
                                       ELSE i \in DOMAIN pending /\ rest[i] = pending[i]
    <3>1. CASE QueueFull /\ ~GivesWay
      <4>1. rest \in Seq(Message)
        BY <1>1, <1>4, <3>1, FrontAndRest
      <4> QED BY <1>1, <1>4, <3>1, <4>1, FrontAndRest, LenProperties
    <3>2. CASE ~(QueueFull /\ ~GivesWay)
      BY <1>1, <3>2, LenProperties
    <3> QED BY <3>1, <3>2
  <2>3. /\ pending' \in Seq(Message) /\ DOMAIN pending' = 1 .. Len(rest) + 1
        /\ pending'[Len(rest) + 1] = m /\ \A i \in DOMAIN rest : pending'[i] = rest[i]
    BY <1>1, <2>1, <2>2, AtTheEnd
  <2>4. ASSUME NEW k \in Message
        PROVE  Queued(k)' <=> k = m \/ (Queued(k) /\ ~(QueueFull /\ k = oldest))
    <3>1. (\E i \in DOMAIN pending' : pending'[i] = k)
            <=> k = m \/ \E i \in DOMAIN rest : rest[i] = k
      <4>1. Len(rest) + 1 \in DOMAIN pending'
        BY <2>2, <2>3
      <4>2. \A i \in DOMAIN pending' : i = Len(rest) + 1 \/ i \in DOMAIN rest
        BY <2>2, <2>3
      <4>3. DOMAIN rest \subseteq DOMAIN pending'
        BY <2>2, <2>3
      <4> QED BY <2>3, <4>1, <4>2, <4>3
    <3>2. (\E i \in DOMAIN rest : rest[i] = k)
            <=> /\ \E i \in DOMAIN pending : pending[i] = k
                /\ ~(QueueFull /\ ~GivesWay /\ k = oldest)
      <4>1. CASE QueueFull /\ ~GivesWay
        <5>1. \A i \in DOMAIN pending : i = 1 \/ (i - 1 \in DOMAIN rest /\ rest[i - 1] = pending[i])
          BY <1>1, <1>4, <4>1, FrontAndRest
        <5>2. \A i \in DOMAIN rest : i + 1 # 1
          BY <2>2
        <5> QED BY <1>10, <2>2, <4>1, <5>1, <5>2, ZenonT(40)
      <4>2. CASE ~(QueueFull /\ ~GivesWay)
        BY <4>2
      <4> QED BY <4>1, <4>2
    <3>3. k = inFlight' <=> k = inFlight /\ ~(QueueFull /\ GivesWay)
      BY <1>1
    <3>4. QueueFull /\ ~GivesWay => oldest # inFlight
      BY <1>1, <1>3, <1>4, FrontAndRest
    <3> QED BY <1>10, <3>1, <3>2, <3>3, <3>4 DEF Queued
  <2>5. TypeOK'
    <3>1. ticket' \in [Message -> TicketValue]
      BY <1>1, <2>1 DEF TypeOK, TicketValue
    <3>2. fresh' \subseteq Event
      BY <1>1 DEF Publish, TypeOK, Event
    <3>3. calls' \in 0 .. Calls
      BY <1>1, Bounds
    <3> QED BY <1>1, <2>3, <3>1, <3>2, <3>3 DEF TypeOK
  <2>6. OrderInv'
    <3>1. \A i \in DOMAIN rest : rest[i] \in Message /\ inFlight' < rest[i] /\ rest[i] < m
      <4>1. \A i \in DOMAIN pending : 0 < pending[i] /\ pending[i] < m
        BY <1>1, <1>3, Bounds
      <4> QED BY <1>1, <1>3, <2>2, <4>1
    <3>2. \A i, j \in DOMAIN rest : i < j => rest[i] < rest[j]
      BY <1>1, <2>2 DEF OrderInv
    <3>3. inFlight' <= calls /\ inFlight' \in Nat
      BY <1>1, Bounds DEF OrderInv
    <3>4. \A i \in DOMAIN pending' : i \in DOMAIN rest \/ i = Len(rest) + 1
      BY <2>2, <2>3
    <3>5. ASSUME NEW i \in DOMAIN pending', NEW j \in DOMAIN pending', i < j
          PROVE  pending'[i] < pending'[j]
      <4>1. i \in DOMAIN rest
        BY <2>2, <2>3, <3>4, <3>5
      <4>2. rest[i] < m
        BY <3>1, <4>1
      <4> QED BY <2>3, <3>2, <3>4, <3>5, <4>1, <4>2
    <3>6. ASSUME NEW i \in DOMAIN pending'
          PROVE  inFlight' < pending'[i] /\ pending'[i] <= calls'
      <4>1. CASE i \in DOMAIN rest
        <5>1. pending'[i] \in Message /\ inFlight' < pending'[i] /\ pending'[i] < m
          BY <2>3, <3>1, <4>1
        <5> QED BY <1>1, <5>1, Bounds
      <4>2. CASE i = Len(rest) + 1
        BY <1>1, <2>3, <3>3, <4>2
      <4> QED BY <3>4, <4>1, <4>2
    <3> QED BY <1>1, <3>3, <3>5, <3>6 DEF OrderInv
  <2>7. WaitInv'
    BY <1>1, <1>2, <1>9, <2>1, <2>4 DEF WaitInv
  <2>8. LogInv'
    <3>1. ASSUME NEW k \in DOMAIN log, NEW n \in Message, Queued(n)'
          PROVE  log[k] < n \/ (log[k] = n /\ n = inFlight' /\ MayBeLogged')
      <4>1. CASE n = m
        <5>1. log[k] \in Message
          <6>1. log \in Seq(Message)
            BY <1>1 DEF TypeOK
          <6> QED BY <6>1, Elements
        <5> QED BY <1>1, <1>6, <4>1, <5>1
      <4>2. CASE n # m
        BY <1>1, <1>7, <2>4, <3>1, <4>2 DEF LogInv, MayBeLogged, GivesWay
      <4> QED BY <4>1, <4>2
    <3>2. pc = "attempted" => inFlight' = inFlight
      BY <1>1 DEF ControlInv, GivesWay
    <3> QED BY <1>1, <1>6, <3>1, <3>2 DEF LogInv, PublishedInOrder
  <2>9. TicketsTellTheTruth'
    <3>1. GivesWay => \A k \in DOMAIN log : log[k] # inFlight
      BY <1>1 DEF LogInv, MayBeLogged, GivesWay, Queued
    <3> QED BY <1>1, <1>6, <1>7, <2>1, <3>1 DEF IInv, TicketsTellTheTruth
  <2>10. FateInv'
    BY <1>1, <1>9, <2>1 DEF FateInv, NoTicketIsBroken
  <2> QED BY <1>8, <2>5, <2>6, <2>7, <2>8, <2>9, <2>10 DEF IInv
<1>12. CASE ticket'[m] # "waiting"
  <2>1. /\ pending' = IF QueueFull THEN <<oldest>> \o rest ELSE pending
        /\ ticket' = [ticket EXCEPT ![m] = "refused"] /\ fresh' = fresh
    <3>1. \/ ticket' = [k \in Message |->
                          CASE k = m                   -> "waiting"
                            [] QueueFull /\ k = oldest -> Completed(k, "Overwritten")
                            [] OTHER                   -> ticket[k]]
          \/ /\ pending' = IF QueueFull THEN <<oldest>> \o rest ELSE pending
             /\ ticket' = [ticket EXCEPT ![m] = "refused"] /\ fresh' = fresh
      BY DEF Publish, Restored
    <3> QED BY <1>1, <1>9, <1>12, <3>1
  <2>2. ASSUME QueueFull, GivesWay
        PROVE  /\ pending' \in Seq(Message) /\ \A k \in Message : Queued(k)' <=> Queued(k)
               /\ OrderInv' /\ LogInv'
               /\ \A k \in DOMAIN log : log[k] = inFlight => inFlight' = inFlight
    <3>1. inFlight \in Message /\ inFlight' = NoMessage /\ pending' = <<inFlight>> \o pending
      BY <1>1, <2>1, <2>2 DEF GivesWay
    <3>2. /\ pending' \in Seq(Message) /\ DOMAIN pending' = 1 .. Len(pending) + 1
          /\ pending'[1] = inFlight
          /\ \A i \in 2 .. Len(pending) + 1 : pending'[i] = pending[i - 1]
          /\ DOMAIN pending = 1 .. Len(pending) /\ Len(pending) \in Nat
      BY <1>1, <3>1, InFront, Elements
    <3>3. \A k \in Message : Queued(k)' <=> Queued(k)
      <4>1. \A i \in DOMAIN pending' : i = 1 \/ (i - 1 \in DOMAIN pending /\ pending'[i] = pending[i - 1])
        BY <3>2
      <4>2. \A i \in DOMAIN pending : i + 1 \in DOMAIN pending' /\ pending'[i + 1] = pending[i]
        BY <3>2
      <4>3. 1 \in DOMAIN pending'
        BY <3>2
      <4> SUFFICES ASSUME NEW k \in Message PROVE Queued(k)' <=> Queued(k)
        OBVIOUS
      <4>4. Queued(k)' => Queued(k)
        BY <3>1, <3>2, <4>1, Bounds DEF Queued
      <4>5. Queued(k) => Queued(k)'
        BY <3>1, <3>2, <4>2, <4>3 DEF Queued
      <4> QED BY <4>4, <4>5
    <3>4. OrderInv'
      <4>1. ASSUME NEW i \in DOMAIN pending', NEW j \in DOMAIN pending', i < j
            PROVE  pending'[i] < pending'[j]
        <5>1. j - 1 \in DOMAIN pending /\ pending'[j] = pending[j - 1]
          BY <3>2, <4>1
        <5>2. CASE i = 1
          BY <1>3, <3>2, <5>1, <5>2
        <5>3. CASE i # 1
          <6>1. i - 1 \in DOMAIN pending /\ pending'[i] = pending[i - 1] /\ i - 1 < j - 1
            BY <3>2, <4>1, <5>3
          <6> QED BY <1>1, <5>1, <6>1 DEF OrderInv
        <5> QED BY <5>2, <5>3
      <4>2. ASSUME NEW i \in DOMAIN pending'
            PROVE  pending'[i] \in Nat /\ 0 < pending'[i] /\ pending'[i] <= m
        <5>1. CASE i = 1
          BY <1>1, <3>1, <3>2, <5>1, Bounds DEF OrderInv
        <5>2. CASE i # 1
          <6>1. i - 1 \in DOMAIN pending /\ pending'[i] = pending[i - 1]
            BY <3>2, <5>2
          <6> QED BY <1>1, <1>3, <6>1, Bounds
        <5> QED BY <5>1, <5>2
      <4> QED BY <1>1, <3>1, <4>1, <4>2 DEF OrderInv
    <3>5. \A k \in DOMAIN log, n \in Message : Queued(n)' => log[k] < n
      BY <1>1, <2>2, <3>3 DEF LogInv, MayBeLogged, GivesWay
    <3>6. pc # "attempted"
      BY <1>1, <2>2 DEF ControlInv, GivesWay
    <3>7. LogInv'
      BY <1>1, <1>6, <3>5, <3>6 DEF LogInv, PublishedInOrder
    <3>8. \A k \in DOMAIN log : log[k] # inFlight
      BY <1>7, <2>2
    <3> QED BY <3>1, <3>2, <3>3, <3>4, <3>7, <3>8
  <2>3. ASSUME ~(QueueFull /\ GivesWay)
        PROVE  /\ pending' \in Seq(Message) /\ \A k \in Message : Queued(k)' <=> Queued(k)
               /\ OrderInv' /\ LogInv'
               /\ \A k \in DOMAIN log : log[k] = inFlight => inFlight' = inFlight
    <3>1. pending' = pending /\ inFlight' = inFlight
      <4>1. CASE QueueFull
        BY <1>1, <1>4, <2>1, <2>3, <4>1, FrontAndRest
      <4>2. CASE ~QueueFull
        BY <1>1, <2>1, <2>3, <4>2
      <4> QED BY <4>1, <4>2
    <3>2. \A k \in Message : Queued(k)' <=> Queued(k)
      BY <3>1 DEF Queued
    <3>3. OrderInv'
      BY <1>1, <1>3, <3>1, Bounds DEF OrderInv
    <3>4. LogInv'
      BY <1>1, <1>6, <3>1, <3>2 DEF LogInv, MayBeLogged, PublishedInOrder
    <3> QED BY <1>1, <3>1, <3>2, <3>3, <3>4
  <2>4. /\ pending' \in Seq(Message) /\ \A k \in Message : Queued(k)' <=> Queued(k)
        /\ OrderInv' /\ LogInv'
        /\ \A k \in DOMAIN log : log[k] = inFlight => inFlight' = inFlight
    BY <2>2, <2>3
  <2>5. TypeOK'
    <3>1. ticket' \in [Message -> TicketValue]
      BY <1>1, <2>1 DEF TypeOK, TicketValue
    <3>2. calls' \in 0 .. Calls
      BY <1>1, Bounds
    <3> QED BY <1>1, <2>1, <2>4, <3>1, <3>2 DEF TypeOK
  <2>6. WaitInv'
    BY <1>1, <1>2, <1>6, <2>1, <2>4 DEF WaitInv, TypeOK
  <2>7. TicketsTellTheTruth'
    BY <1>1, <1>6, <2>1, <2>4 DEF IInv, TicketsTellTheTruth, TypeOK
  <2>8. FateInv'
    BY <1>1, <2>1 DEF FateInv, NoTicketIsBroken, TypeOK
  <2> QED BY <1>8, <2>4, <2>5, <2>6, <2>7, <2>8 DEF IInv
<1> QED BY <1>11, <1>12

-----------------------------------------------------------------------------
THEOREM StepIInv == IInv /\ [Next]_vars => IInv'
<1> SUFFICES ASSUME IInv, [Next]_vars PROVE IInv'
  OBVIOUS
<1>1. CASE Publish \/ PublishRefused
  BY <1>1, PublishStep, PublishRefusedStep
<1>2. CASE WorkerStep \/ EventFails
  BY <1>2, EventsAreQuiet, WaitingIsQuiet, StartWorkStep, TryPublishStep, AttemptedStep,
     WorkerEndsStep
  DEF WorkerStep
<1>3. CASE BeginStop \/ OwnerStops
  BY <1>3, OthersAreQuiet, DestroyedStep, MovedAndRestartedStep DEF OwnerStops
<1>4. CASE (\E c \in Class : Consume(c)) \/ SignalSpace \/ ControlArrives \/ UNCHANGED vars
  BY <1>4, OthersAreQuiet
<1> QED BY <1>1, <1>2, <1>3, <1>4 DEF Next

\* IInv is inductive: queue, tickets and shared memory stay in step.
THEOREM Invariant == Spec => []IInv
BY InitIInv, StepIInv, PTL DEF Spec

\* Variables keep their types, and one work event publishes no more messages than
\* handle_publish_work_event allows.
THEOREM TypeCorrect == Spec => []TypeOK
<1>1. IInv => TypeOK
  BY DEF IInv
<1> QED BY <1>1, Invariant, PTL

\* The message that try_publish_one reads without the lock stays in flight, and
\* its ticket waits, whatever publish() overwrites meanwhile.
THEOREM PayloadStaysPinned == Spec => []PayloadPinned
<1>1. IInv => PayloadPinned
  <2> SUFFICES ASSUME IInv, pc \in {"try", "attempted"}
               PROVE  inFlight # NoMessage /\ state = "Publishing" /\ ticket[inFlight] = "waiting"
    BY DEF PayloadPinned
  <2>1. inFlight # NoMessage /\ state = "Publishing" /\ inFlight \in Message
    BY DEF IInv, ControlInv, TypeOK
  <2>2. Queued(inFlight) /\ ~Over
    BY DEF Queued, Over
  <2> QED BY <2>1, <2>2 DEF IInv, WaitInv
<1> QED BY <1>1, Invariant, PTL

\* The worker publishes in the order of the calls, each message at most once.
THEOREM OrderIsKept == Spec => []PublishedInOrder
<1>1. IInv => PublishedInOrder
  BY DEF IInv, LogInv
<1> QED BY <1>1, Invariant, PTL

\* A ticket says Published if and only if the message is in shared memory, but
\* for a worker that failed after the commit (PublishCompletion).
THEOREM TicketsAreTrue == Spec => []TicketsTellTheTruth
<1>1. IInv => TicketsTellTheTruth
  BY DEF IInv
<1> QED BY <1>1, Invariant, PTL

\* Nobody waits for a ticket of an object that is gone (stop_run_thread).
THEOREM TicketsAreCompleted == Spec => []NoTicketIsBroken
<1>1. IInv => NoTicketIsBroken
  BY DEF IInv, FateInv
<1> QED BY <1>1, Invariant, PTL

-----------------------------------------------------------------------------
(* It implements TicketQueue. *)

\* The line is in the order of the calls.
LEMMA LineIsSorted ==
  ASSUME TypeOK, OrderInv,
         NEW i \in DOMAIN Outstanding, NEW j \in DOMAIN Outstanding, i < j
  PROVE  Outstanding[i] < Outstanding[j]
<1>1. /\ pending \in Seq(Message) /\ inFlight \in Message \cup {NoMessage}
      /\ \A k, l \in DOMAIN pending : k < l => pending[k] < pending[l]
      /\ \A k \in DOMAIN pending : inFlight < pending[k]
  BY DEF TypeOK, OrderInv
<1>2. CASE inFlight = NoMessage
  <2>1. Outstanding = pending
    BY <1>1, <1>2, ConcatEmptySeq DEF Outstanding, InFlight
  <2> QED BY <1>1, <2>1
<1>3. CASE inFlight # NoMessage
  <2>1. inFlight \in Message /\ Outstanding = <<inFlight>> \o pending
    BY <1>1, <1>3 DEF Outstanding, InFlight
  <2>2. /\ DOMAIN Outstanding = 1 .. Len(pending) + 1 /\ Outstanding[1] = inFlight
        /\ \A k \in 2 .. Len(pending) + 1 : Outstanding[k] = pending[k - 1]
        /\ DOMAIN pending = 1 .. Len(pending) /\ Len(pending) \in Nat
    BY <1>1, <2>1, InFront, Elements
  <2>3. j - 1 \in DOMAIN pending /\ Outstanding[j] = pending[j - 1]
    BY <2>2
  <2>4. CASE i = 1
    BY <1>1, <2>2, <2>3, <2>4
  <2>5. CASE i # 1
    <3>1. i - 1 \in DOMAIN pending /\ Outstanding[i] = pending[i - 1] /\ i - 1 < j - 1
      BY <2>2, <2>5
    <3> QED BY <1>1, <2>3, <3>1
  <2> QED BY <2>4, <2>5
<1> QED BY <1>2, <1>3

\* As many tickets wait as messages are in line.
LEMMA LineIsCounted ==
  ASSUME IInv, ~Over
  PROVE  /\ Cardinality(Queue!Waiting) = Len(Outstanding)
         /\ Queue!Full <=> QueueFull
<1>1. TypeOK /\ OrderInv /\ WaitInv
  BY DEF IInv
<1>2. /\ Outstanding \in Seq(Message)
      /\ \A m \in Message : Queued(m) <=> \E k \in DOMAIN Outstanding : Outstanding[k] = m
  BY <1>1, InLine
<1>3. /\ DOMAIN Outstanding = 1 .. Len(Outstanding) /\ Len(Outstanding) \in Nat
      /\ \A k \in DOMAIN Outstanding : Outstanding[k] \in Message
      /\ Outstanding \in [1 .. Len(Outstanding) -> Message]
  BY <1>2, Elements, LenProperties
<1>4. Queue!Waiting = {m \in Message : Queued(m)}
  BY <1>1 DEF Queue!Waiting, WaitInv
<1>5. Outstanding \in [1 .. Len(Outstanding) -> Queue!Waiting]
  BY <1>2, <1>3, <1>4
<1>6. \A i, j \in 1 .. Len(Outstanding) : Outstanding[i] = Outstanding[j] => i = j
  <2> SUFFICES ASSUME NEW i \in 1 .. Len(Outstanding), NEW j \in 1 .. Len(Outstanding), i < j
               PROVE  Outstanding[i] # Outstanding[j]
    BY <1>3
  <2>1. Outstanding[i] < Outstanding[j] /\ Outstanding[i] \in Nat
    BY <1>1, <1>3, LineIsSorted, Bounds
  <2> QED BY <2>1
<1>7. \A m \in Queue!Waiting : \E k \in 1 .. Len(Outstanding) : Outstanding[k] = m
  BY <1>2, <1>3, <1>4
<1>8. ExistsBijection(1 .. Len(Outstanding), Queue!Waiting)
  BY <1>5, <1>6, <1>7, Fun_IsBij, Fun_ExistsBij
<1>9. Cardinality(Queue!Waiting) = Len(Outstanding)
  BY <1>3, <1>8, FS_CountingElements
<1>10. Queue!Cardinality(Queue!Waiting) = Cardinality(Queue!Waiting)
  BY DEF Queue!Cardinality, Cardinality
<1> QED BY <1>9, <1>10 DEF Queue!Full, QueueFull

\* publish() accepts, overwrites or refuses.
LEMMA PublishIsAllowed ==
  ASSUME IInv, Publish \/ PublishRefused
  PROVE  Queue!Step
<1> DEFINE m == calls + 1
<1>1. TypeOK /\ ControlInv /\ OrderInv /\ WaitInv /\ FateInv
  BY DEF IInv
<1>2. calls \in 0 .. Calls /\ calls < Calls
  BY <1>1 DEF TypeOK, Publish, PublishRefused
<1>3. m \in 1 .. Calls /\ Queue!Next(m)
  BY <1>1, <1>2, Bounds DEF FateInv, Queue!Next
<1>4. CASE ticket' = [ticket EXCEPT ![m] = "refused"]
  BY <1>3, <1>4 DEF Queue!Step, Queue!Refuse
<1>5. CASE ticket' # [ticket EXCEPT ![m] = "refused"]
  <2> DEFINE oldest == IF GivesWay THEN inFlight ELSE Head(pending)
  <2>1. /\ active
        /\ ticket' = [k \in Message |->
                        CASE k = m                   -> "waiting"
                          [] QueueFull /\ k = oldest -> Completed(k, "Overwritten")
                          [] OTHER                   -> ticket[k]]
    BY <1>5 DEF Publish, PublishRefused
  <2>2. ~Over
    BY <1>1, <2>1 DEF ControlInv, Over
  <2>3. (Queue!Full <=> QueueFull) /\ Queue!Waiting = {k \in Message : Queued(k)}
    BY <1>1, <2>2, LineIsCounted DEF Queue!Waiting, WaitInv
  <2>4. CASE ~QueueFull
    <3>1. ticket' = [ticket EXCEPT ![m] = "waiting"]
      BY <1>1, <1>3, <2>1, <2>4 DEF TypeOK
    <3> QED BY <1>3, <2>3, <2>4, <3>1 DEF Queue!Step, Queue!Accept
  <2>5. CASE QueueFull
    <3>1. /\ pending \in Seq(Message) /\ inFlight \in Message \cup {NoMessage}
          /\ DOMAIN pending = 1 .. Len(pending) /\ Len(pending) \in Nat
          /\ \A k \in DOMAIN pending : pending[k] \in Message
      BY <1>1, Elements DEF TypeOK
    <3>2. GivesWay \/ pending # <<>>
      <4>1. ASSUME pending = <<>> PROVE FALSE
        <5>1. Len(pending) = 0
          BY <4>1
        <5>2. Len(Outstanding) = Len(pending) + (IF inFlight = NoMessage THEN 0 ELSE 1)
          BY <1>1, InLine
        <5>3. Len(Outstanding) <= 1
          BY <5>1, <5>2
        <5>4. Len(Outstanding) >= Capacity
          BY <2>5 DEF QueueFull
        <5> QED BY <5>1, <5>2, <5>3, <5>4, Bounds
      <4> QED BY <4>1
    <3>3. ~GivesWay => 1 \in DOMAIN pending /\ oldest = pending[1]
      BY <3>1, <3>2, FrontAndRest
    <3>4. oldest \in Queue!Waiting
      <4>1. CASE GivesWay
        BY <2>3, <3>1, <4>1 DEF GivesWay, Queued
      <4>2. CASE ~GivesWay
        BY <2>3, <3>1, <3>3, <4>2 DEF Queued
      <4> QED BY <4>1, <4>2
    <3>5. ASSUME NEW k \in Queue!Waiting, k < oldest PROVE k = inFlight
      <4>1. Queued(k) /\ k \in Message
        BY <2>3
      <4>2. ASSUME NEW l \in DOMAIN pending, pending[l] = k PROVE FALSE
        <5>1. CASE GivesWay
          BY <1>1, <3>1, <3>5, <4>2, <5>1, Bounds DEF OrderInv, GivesWay
        <5>2. CASE ~GivesWay
          <6>1. l = 1 \/ pending[1] < pending[l]
            BY <1>1, <3>1, <3>3, <4>2, <5>2 DEF OrderInv
          <6> QED BY <3>1, <3>3, <3>5, <4>2, <5>2, <6>1, Bounds
        <5> QED BY <5>1, <5>2
      <4> QED BY <4>1, <4>2 DEF Queued
    <3>6. ticket[oldest] = "waiting" /\ oldest # m /\ oldest \in Message
      <4>1. ticket[oldest] = "waiting" /\ oldest \in Message
        BY <3>4 DEF Queue!Waiting, Message
      <4>2. ticket[m] = "none"
        BY <1>3 DEF Queue!Next
      <4> QED BY <4>1, <4>2
    <3>7. ticket' = [ticket EXCEPT ![m] = "waiting", ![oldest] = "Overwritten"]
      BY <1>1, <1>3, <2>1, <2>5, <3>6 DEF TypeOK, Completed
    <3>8. \A j, k \in Queue!Waiting : j < oldest /\ k < oldest => j = k
      BY <3>5
    <3>9. Queue!Overwrite(m)
      BY <1>3, <2>3, <2>5, <3>4, <3>7, <3>8 DEF Queue!Overwrite
    <3> QED BY <1>3, <3>9 DEF Queue!Step
  <2> QED BY <2>4, <2>5
<1> QED BY <1>4, <1>5

\* A publication takes the oldest.
LEMMA AttemptedIsAllowed ==
  ASSUME IInv, Attempted
  PROVE  [Queue!Step]_ticket
<1>1. CASE attempt = "Blocked"
  BY <1>1 DEF Attempted
<1>2. CASE attempt # "Blocked"
  <2>1. /\ TypeOK /\ OrderInv /\ WaitInv /\ pc = "attempted" /\ inFlight \in Message
        /\ \A k \in DOMAIN pending : pending[k] \in Message
    <3>1. /\ TypeOK /\ ControlInv /\ OrderInv /\ WaitInv /\ pc = "attempted"
          /\ pending \in Seq(Message)
      BY DEF IInv, Attempted, TypeOK
    <3> QED BY <3>1, Elements DEF ControlInv, TypeOK
  <2>2. /\ Queue!Waiting = {k \in Message : Queued(k)} /\ Queued(inFlight)
        /\ ticket[inFlight] = "waiting"
    BY <2>1 DEF Queue!Waiting, WaitInv, Over, Queued
  <2>3. ticket' = [ticket EXCEPT ![inFlight] = "Published"]
    BY <1>2, <2>2 DEF Attempted, Completed
  <2>4. \A k \in Queue!Waiting : inFlight <= k
    BY <2>1, <2>2, Bounds DEF OrderInv, Queued
  <2> QED BY <2>1, <2>2, <2>3, <2>4 DEF Queue!Step, Queue!Publish
<1> QED BY <1>1, <1>2

\* The end of the worker and of the object.
LEMMA EndIsAllowed ==
  ASSUME IInv, WorkerEnds \/ Destroyed \/ MovedAndRestarted
  PROVE  [Queue!Step]_ticket
<1>1. TypeOK /\ WaitInv
  BY DEF IInv
<1>2. ASSUME NEW value \in {"WorkerStopped", "WorkerFailed", "broken"},
             ticket' = [m \in Message |-> IF ticket[m] = "waiting" THEN value ELSE ticket[m]]
      PROVE  Queue!Step
  BY <1>2 DEF Queue!Step, Queue!Stop
<1>3. CASE WorkerEnds
  <2> DEFINE value == IF reason # "None" THEN "WorkerFailed" ELSE "WorkerStopped"
  <2>1. CASE reason # "None" \/ intent # "Transfer"
    <3>1. \A m \in Message : ticket[m] = "waiting" <=> \E k \in DOMAIN LeftOver : LeftOver[k] = m
      BY <1>1, <1>3, InLine DEF WorkerEnds, WaitInv, Over, LeftOver
    <3>2. ticket' = [m \in Message |-> IF ticket[m] = "waiting" THEN value ELSE ticket[m]]
      BY <1>3, <2>1, <3>1 DEF WorkerEnds, Completed
    <3> QED BY <1>2, <3>2
  <2>2. CASE ~(reason # "None" \/ intent # "Transfer")
    BY <1>3, <2>2 DEF WorkerEnds
  <2> QED BY <2>1, <2>2
<1>4. CASE Destroyed
  BY <1>2, <1>4 DEF Destroyed, Broken
<1>5. CASE MovedAndRestarted
  BY <1>2, <1>5 DEF MovedAndRestarted, Broken
<1> QED BY <1>3, <1>4, <1>5

\* Whatever the worker, the application, the owner and failing calls do, the
\* tickets are those of a bounded queue that publishes from the front and
\* overwrites the oldest message that is not being published.
THEOREM AsyncPublisherImplementsQueue == Spec => ImplementsQueue
<1>1. Init => Queue!Init
  BY DEF Init, Queue!Init
<1>2. IInv /\ [Next]_vars => [Queue!Step]_ticket
  <2> SUFFICES ASSUME IInv, [Next]_vars PROVE [Queue!Step]_ticket
    OBVIOUS
  <2>1. CASE Publish \/ PublishRefused
    BY <2>1, PublishIsAllowed
  <2>2. CASE Attempted
    BY <2>2, AttemptedIsAllowed
  <2>3. CASE WorkerEnds \/ Destroyed \/ MovedAndRestarted
    BY <2>3, EndIsAllowed
  <2>4. CASE \/ Fetch \/ WorkEvent \/ SpaceEvent \/ ControlEvent \/ ShutdownEvent \/ EventFails
             \/ Reschedule \/ PickCandidate \/ CheckSpace \/ Deactivate \/ TryPublish
    BY <2>4 DEF Fetch, WorkEvent, SpaceEvent, ControlEvent, ShutdownEvent, EventFails, Reschedule,
                PickCandidate, CheckSpace, Deactivate, TryPublish, queueVars
  <2>5. CASE StartWork
    BY <2>5 DEF StartWork
  <2>6. CASE \/ BeginStop \/ SignalStop \/ MovedAndIdle \/ SignalSpace \/ ControlArrives
             \/ UNCHANGED vars \/ \E c \in Class : Consume(c)
    BY <2>6 DEF BeginStop, SignalStop, MovedAndIdle, SignalSpace, ControlArrives, Consume, vars,
                queueVars
  <2> QED BY <2>1, <2>2, <2>3, <2>4, <2>5, <2>6 DEF Next, WorkerStep, OwnerStops
<1> QED BY <1>1, <1>2, Invariant, PTL DEF Spec, ImplementsQueue, Queue!Spec
=============================================================================
