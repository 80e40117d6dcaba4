------------------------------- MODULE Logger -------------------------------
(***************************************************************************)
(* The logger: one instance per process, a front buffer that every thread  *)
(* fills under a mutex, and a backend thread that swaps it and writes it.  *)
(*                                                                         *)
(* Source: src/src/logger.cpp, src/include/logger.h.                       *)
(*                                                                         *)
(* Abstractions: an entry is the number of its call; its text and its time *)
(* stamp are left out, and so is a printf that fails.  Only the backend    *)
(* keeps the mutex for several steps (Locked); what the others do under it *)
(* is one step.  A stream that failed to open, or to flush, drops what is  *)
(* written to it until another file is opened.  Destruction follows main:  *)
(* a thread that still logs when the instance is gone is not modelled.     *)
(***************************************************************************)
EXTENDS Naturals, Sequences

CONSTANTS
  Threads,          \* the threads that log
  Level,            \* the levels, as numbers
  DefaultLevel,     \* INFO
  NoLevel,          \* a name that setLevel does not know
  Threshold,        \* flush_threshold_
  MaxCalls          \* bound: calls of logf

ASSUME LoggerAssumption == /\ Level \subseteq Nat /\ DefaultLevel \in Level /\ NoLevel \notin Level
                           /\ Threshold \in Nat \ {0} /\ MaxCalls \in Nat

VARIABLES
  phase,            \* of the instance: "none", "up", "stopping", "joining", "gone"
  stop,             \* stop_
  minLevel,         \* min_level_
  opened,           \* file_ takes what is written to it
  front, back,      \* front_buffer_, back_buffer_
  stream,           \* in file_, not flushed yet
  lines,            \* what the backend has flushed, in order
  dropped,          \* positions in lines that reached no file
  backend,          \* where the backend thread is
  pc, entry, level, \* of each thread: the call it is in
  calls,            \* calls so far
  accepted,         \* every entry pushed, in the order of the pushes
  before            \* how many of them were pushed before stop_ was set

instance == <<phase, stop, minLevel, before>>
output == <<opened, back, stream, lines, dropped>>
logging == <<pc, entry, level, calls>>
vars == <<instance, output, front, backend, logging, accepted>>

Init ==
  /\ phase = "none" /\ stop = FALSE /\ minLevel = DefaultLevel /\ before = 0
  /\ opened = FALSE /\ back = <<>> /\ stream = <<>> /\ lines = <<>> /\ dropped = {}
  /\ front = <<>> /\ backend = "none"
  /\ pc = [t \in Threads |-> "idle"] /\ entry = [t \in Threads |-> 0]
  /\ level = [t \in Threads |-> DefaultLevel] /\ calls = 0
  /\ accepted = <<>>

Alive == phase \in {"up", "stopping", "joining"}
Locked == backend \in {"swap", "write", "flush"}
EnoughToWrite == stop \/ Len(front) >= Threshold

\* notify_one and notify_all, with one thread that waits.
Notified == IF backend = "waiting" THEN "woken" ELSE backend

-----------------------------------------------------------------------------
(* The instance.                                                           *)

\* The first of init and getInstance makes it; its file may not open.
Construct ==
  /\ phase = "none" /\ phase' = "up" /\ backend' = "top"
  /\ opened' \in BOOLEAN
  /\ UNCHANGED <<stop, minLevel, before, back, stream, lines, dropped, front, logging, accepted>>

\* setLevel, of a level or of a name.
SetLevel(l) ==
  /\ Alive /\ l \in Level /\ minLevel' = l
  /\ UNCHANGED <<phase, stop, before, output, front, backend, logging, accepted>>

\* setLogFilePath closes the file, which flushes it, and opens another.
SetLogFilePath ==
  /\ Alive /\ ~Locked
  /\ lines' = lines \o stream /\ stream' = <<>>
  /\ dropped' = IF opened THEN dropped ELSE dropped \cup (Len(lines) + 1)..Len(lines \o stream)
  /\ opened' \in BOOLEAN
  /\ UNCHANGED <<instance, back, front, backend, logging, accepted>>

\* The destructor sets stop_, notifies and joins.
Stop ==
  /\ phase = "up" /\ ~Locked /\ phase' = "stopping"
  /\ stop' = TRUE /\ before' = Len(accepted)
  /\ UNCHANGED <<minLevel, output, front, backend, logging, accepted>>

NotifyAll ==
  /\ phase = "stopping" /\ phase' = "joining" /\ backend' = Notified
  /\ UNCHANGED <<stop, minLevel, before, output, front, logging, accepted>>

Join ==
  /\ phase = "joining" /\ backend = "returned" /\ phase' = "gone"
  /\ UNCHANGED <<stop, minLevel, before, output, front, backend, logging, accepted>>

-----------------------------------------------------------------------------
(* The threads that log.                                                   *)

\* logf looks at the level first.
Logf(t, l) ==
  /\ Alive /\ pc[t] = "idle" /\ l >= minLevel /\ calls < MaxCalls
  /\ calls' = calls + 1 /\ pc' = [pc EXCEPT ![t] = "formatted"]
  /\ entry' = [entry EXCEPT ![t] = calls + 1] /\ level' = [level EXCEPT ![t] = l]
  /\ UNCHANGED <<instance, output, front, backend, accepted>>

\* The call of t is over.
Return(t) ==
  /\ pc' = [pc EXCEPT ![t] = "idle"] /\ entry' = [entry EXCEPT ![t] = 0]
  /\ level' = [level EXCEPT ![t] = DefaultLevel]

\* log looks at it again.
Log(t) ==
  /\ Alive /\ pc[t] = "formatted"
  /\ IF level[t] < minLevel THEN Return(t)
     ELSE pc' = [pc EXCEPT ![t] = "stamped"] /\ UNCHANGED <<entry, level>>
  /\ UNCHANGED <<instance, output, front, backend, calls, accepted>>

\* The entry is pushed under the mutex.
Push(t) ==
  /\ Alive /\ pc[t] = "stamped" /\ ~Locked /\ Return(t)
  /\ front' = Append(front, entry[t]) /\ accepted' = Append(accepted, entry[t])
  /\ backend' = IF Len(front') >= Threshold THEN Notified ELSE backend
  /\ UNCHANGED <<instance, output, calls>>

-----------------------------------------------------------------------------
(* The backend thread.                                                     *)

BackendAt(here, next) == backend = here /\ backend' = next

\* wait_for with the mutex: no wait when the predicate holds already.
Lock ==
  /\ BackendAt("top", IF EnoughToWrite THEN "swap" ELSE "waiting")
  /\ UNCHANGED <<instance, output, front, logging, accepted>>

\* Woken, it has the mutex back and looks at the predicate again.
Wake ==
  /\ BackendAt("woken", IF EnoughToWrite THEN "swap" ELSE "waiting")
  /\ UNCHANGED <<instance, output, front, logging, accepted>>

SpuriousWake ==
  /\ BackendAt("waiting", "woken")
  /\ UNCHANGED <<instance, output, front, logging, accepted>>

\* (mutant) Without enough entries it waits again after three seconds.
TimeOutInVain ==
  /\ BackendAt("waiting", IF EnoughToWrite THEN "swap" ELSE "top")
  /\ UNCHANGED <<instance, output, front, logging, accepted>>

\* Three seconds have passed: it goes on, whatever the predicate says.
TimeOut ==
  /\ BackendAt("waiting", "swap")
  /\ UNCHANGED <<instance, output, front, logging, accepted>>

\* (mutant) The front buffer is copied.
Copy ==
  /\ BackendAt("swap", "write") /\ back' = front
  /\ UNCHANGED <<instance, opened, stream, lines, dropped, front, logging, accepted>>

\* (mutant) stop_ is looked at before the last swap.
SwapUnlessStopped ==
  /\ BackendAt("swap", IF stop THEN "returned" ELSE "write")
  /\ IF stop THEN UNCHANGED <<back, front>> ELSE back' = front /\ front' = back
  /\ UNCHANGED <<instance, opened, stream, lines, dropped, logging, accepted>>

Swap ==
  /\ BackendAt("swap", "write") /\ back' = front /\ front' = back
  /\ UNCHANGED <<instance, opened, stream, lines, dropped, logging, accepted>>

Write ==
  /\ backend = "write" /\ UNCHANGED <<instance, opened, lines, dropped, front, logging, accepted>>
  /\ IF back = <<>> THEN backend' = "flush" /\ UNCHANGED <<back, stream>>
     ELSE /\ stream' = Append(stream, Head(back)) /\ back' = Tail(back)
          /\ UNCHANGED backend

\* The flush may fail; then the loop ends, if it has to.
Flush ==
  /\ backend = "flush" /\ backend' = IF stop THEN "returned" ELSE "top"
  /\ opened' \in {FALSE, opened}
  /\ lines' = lines \o stream /\ stream' = <<>>
  /\ dropped' = IF opened' THEN dropped ELSE dropped \cup (Len(lines) + 1)..Len(lines \o stream)
  /\ UNCHANGED <<instance, back, front, logging, accepted>>

Backend == Lock \/ Wake \/ TimeOut \/ Swap \/ Write \/ Flush

Next ==
  \/ Construct \/ SetLogFilePath \/ Stop \/ NotifyAll \/ Join
  \/ \E l \in Level \cup {NoLevel} : SetLevel(l)
  \/ \E t \in Threads : Log(t) \/ Push(t) \/ \E l \in Level : Logf(t, l)
  \/ SpuriousWake \/ Backend

Spec == Init /\ [][Next]_vars

\* The backend and the destructor run, and the three seconds pass: the deadline
\* stays where it is when the thread wakes before.
Fairness == WF_vars(Backend) /\ SF_vars(TimeOut) /\ WF_vars(NotifyAll \/ Join)
FairSpec == Spec /\ Fairness

-----------------------------------------------------------------------------
Entries == Seq(1..MaxCalls)

InstanceOK ==
  /\ phase \in {"none", "up", "stopping", "joining", "gone"}
  /\ stop \in BOOLEAN /\ (stop <=> phase \in {"stopping", "joining", "gone"})
  /\ minLevel \in Level /\ opened \in BOOLEAN
  /\ backend \in {"none", "top", "waiting", "woken", "swap", "write", "flush", "returned"}
  /\ backend = "none" <=> phase = "none"

BuffersOK ==
  /\ front \in Entries /\ back \in Entries /\ stream \in Entries
  /\ lines \in Entries /\ accepted \in Entries
  /\ back # <<>> => backend = "write"
  /\ stream # <<>> => backend \in {"write", "flush"}
  /\ dropped \subseteq 1..Len(lines) /\ before \in 0..Len(accepted)

CallsOK ==
  /\ pc \in [Threads -> {"idle", "formatted", "stamped"}] /\ entry \in [Threads -> 0..MaxCalls]
  /\ level \in [Threads -> Level] /\ calls \in 0..MaxCalls
  /\ \A t \in Threads : pc[t] # "idle" => entry[t] # 0

\* Every variable has its type; the buffers of the backend are empty unless it
\* is at them.
TypeOK == InstanceOK /\ BuffersOK /\ CallsOK

\* Entries leave in the order of the pushes, each once: what is flushed, in the
\* stream, in the back buffer and in the front buffer is what was pushed
\* (log, backend).
LinesInOrder == lines \o (stream \o (back \o front)) = accepted

\* When the destructor has returned, everything pushed before it began is
\* flushed, fewer entries than the threshold included (~Logger, backend).
StopWritesEverything == phase = "gone" => Len(lines) >= before

\* An entry that is pushed while the logger runs is written by itself, without
\* another call, as long as the file is good (backend's wait_for).
EveryEntryIsWritten ==
  \A k \in 1..MaxCalls :
    [](opened \/ phase = "none")
      => ((phase = "up" /\ Len(accepted) >= k) ~> (k \in 1..Len(lines) /\ k \notin dropped))

\* The destructor returns.
DestructionEnds == phase = "stopping" ~> phase = "gone"

\* The backend does what is asked of it: it writes by itself, and it lets the
\* destructor return (backend, ~Logger).
BackendGetsDone == EveryEntryIsWritten /\ DestructionEnds

=============================================================================
