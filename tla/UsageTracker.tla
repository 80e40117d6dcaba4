---------------------------- MODULE UsageTracker ----------------------------
(***************************************************************************)
(* The usage tracker of debug builds: a table with one entry per chunk, in *)
(* shared memory, behind a robust mutex that publisher and subscribers     *)
(* lock, and the deaths of subscribers while they hold it.                 *)
(*                                                                         *)
(* Source: src/src/publisher.cpp and src/src/subscriber.cpp (the blocks    *)
(* under ENABLE_DEBUG_CHECKS), initialize_chunk_usage_tracker.             *)
(*                                                                         *)
(* The code looks at no result of pthread_mutex_lock.  POSIX says what     *)
(* that means: who locks after the death of the holder has the mutex; as   *)
(* it never calls pthread_mutex_consistent, its unlock leaves the mutex    *)
(* not recoverable; from then on lock returns an error at once, and        *)
(* everybody goes on without the mutex.                                    *)
(*                                                                         *)
(* Abstractions: a chunk is on the free list, or has the bits of some      *)
(* subscribers, or is in somebody's hands.  Ring and free list themselves  *)
(* are DataPlane, where the use of the tracker is one step.                *)
(***************************************************************************)
EXTENDS Naturals, FiniteSets

CONSTANTS
  Publisher,        \* the publisher process
  Subscribers,      \* the subscriber processes
  Chunk,            \* the chunks of one size class
  NoProcess,        \* nobody holds the mutex
  NoChunk,          \* a process that is not at the tracker for a chunk
  MaxMessages       \* bound: messages published

ASSUME NamesAssumption == /\ Publisher \notin Subscribers
                          /\ NoProcess \notin Subscribers \cup {Publisher}
                          /\ NoChunk \notin Chunk
                          /\ MaxMessages \in Nat

Process == Subscribers \cup {Publisher}

VARIABLES
  mutex,            \* "normal", "dirty" (its holder has died) or "notrecoverable"
  holder,           \* who holds it
  inUse,            \* is_in_use
  free,             \* chunks on the free list
  refs,             \* subscribers whose bit is set, per chunk
  pc, job, chunk,   \* of each process: where it is, why, and for which chunk
  reaped,           \* subscribers the publisher has released
  messages

vars == <<mutex, holder, inUse, free, refs, pc, job, chunk, reaped, messages>>

Init ==
  /\ mutex = "normal" /\ holder = NoProcess
  /\ inUse = [c \in Chunk |-> FALSE] /\ free = Chunk /\ refs = [c \in Chunk |-> {}]
  /\ pc = [p \in Process |-> "idle"] /\ job = [p \in Process |-> "none"]
  /\ chunk = [p \in Process |-> NoChunk]
  /\ reaped = {} /\ messages = 0

\* p turns to the tracker.
Begin(p, j, c) ==
  /\ pc' = [pc EXCEPT ![p] = "lock"] /\ job' = [job EXCEPT ![p] = j]
  /\ chunk' = [chunk EXCEPT ![p] = c]

\* try_publish_one takes a chunk.
Take(c) ==
  /\ pc[Publisher] = "idle" /\ c \in free /\ Subscribers \ reaped # {}
  /\ messages < MaxMessages /\ messages' = messages + 1
  /\ free' = free \ {c} /\ Begin(Publisher, "take", c)
  /\ UNCHANGED <<mutex, holder, inUse, refs, reaped>>

\* (mutant) Whoever clears a bit releases the chunk.
ClearAnyBit(s, c) ==
  /\ pc[s] = "idle" /\ s \in refs[c]
  /\ refs' = [refs EXCEPT ![c] = @ \ {s}] /\ Begin(s, "release", c)
  /\ UNCHANGED <<mutex, holder, inUse, free, reaped, messages>>

\* read_data clears the bit of s; the last one releases the chunk.
ClearBit(s, c) ==
  /\ pc[s] = "idle" /\ s \in refs[c]
  /\ refs' = [refs EXCEPT ![c] = @ \ {s}]
  /\ IF refs[c] = {s} THEN Begin(s, "release", c) ELSE UNCHANGED <<pc, job, chunk>>
  /\ UNCHANGED <<mutex, holder, inUse, free, reaped, messages>>

\* release_chunk_references_in_descriptor_range, for a dead subscriber.
ReapBit(s, c) ==
  /\ pc[Publisher] = "idle" /\ pc[s] = "dead" /\ s \in refs[c]
  /\ refs' = [refs EXCEPT ![c] = @ \ {s}]
  /\ IF refs[c] = {s} THEN Begin(Publisher, "release", c) ELSE UNCHANGED <<pc, job, chunk>>
  /\ UNCHANGED <<mutex, holder, inUse, free, reaped, messages>>

Reaped(s) ==
  /\ pc[Publisher] = "idle" /\ pc[s] = "dead" /\ s \notin reaped
  /\ \A c \in Chunk : s \notin refs[c]
  /\ reaped' = reaped \cup {s}
  /\ UNCHANGED <<mutex, holder, inUse, free, refs, pc, job, chunk, messages>>

\* log_chunks_in_use, when a worker ends.
List(p) ==
  /\ pc[p] = "idle" /\ Begin(p, "list", NoChunk)
  /\ UNCHANGED <<mutex, holder, inUse, free, refs, reaped, messages>>

\* pthread_mutex_lock, whatever it returns.
Lock(p) ==
  /\ pc[p] = "lock" /\ pc' = [pc EXCEPT ![p] = "check"]
  /\ IF mutex = "notrecoverable" THEN UNCHANGED holder
                                 ELSE holder = NoProcess /\ holder' = p
  /\ UNCHANGED <<mutex, inUse, free, refs, job, chunk, reaped, messages>>

\* The entry of a chunk that is taken must be clear, of one that is released set.
Wrong(p) == job[p] \in {"take", "release"} /\ inUse[chunk[p]] = (job[p] = "take")

Check(p) ==
  /\ pc[p] = "check"
  /\ pc' = [pc EXCEPT ![p] = IF job[p] = "list" \/ Wrong(p) THEN "unlock" ELSE "write"]
  /\ job' = [job EXCEPT ![p] = IF Wrong(p) THEN "alarm" ELSE @]
  /\ UNCHANGED <<mutex, holder, inUse, free, refs, chunk, reaped, messages>>

\* (mutant) A release leaves the mark.
WriteMark(p) ==
  /\ pc[p] = "write" /\ pc' = [pc EXCEPT ![p] = "unlock"]
  /\ inUse' = [inUse EXCEPT ![chunk[p]] = TRUE]
  /\ UNCHANGED <<mutex, holder, free, refs, job, chunk, reaped, messages>>

Write(p) ==
  /\ pc[p] = "write" /\ pc' = [pc EXCEPT ![p] = "unlock"]
  /\ inUse' = [inUse EXCEPT ![chunk[p]] = (job[p] = "take")]
  /\ UNCHANGED <<mutex, holder, free, refs, job, chunk, reaped, messages>>

\* pthread_mutex_unlock; by somebody who does not hold the mutex it does nothing.
Unlock(p) ==
  /\ pc[p] = "unlock" /\ pc' = [pc EXCEPT ![p] = "done"]
  /\ IF holder = p
       THEN /\ holder' = NoProcess
            /\ mutex' = IF mutex = "dirty" THEN "notrecoverable" ELSE mutex
       ELSE UNCHANGED <<mutex, holder>>
  /\ UNCHANGED <<inUse, free, refs, job, chunk, reaped, messages>>

\* p has left the tracker, for state st.
Leave(p, st) ==
  /\ pc' = [pc EXCEPT ![p] = st]
  /\ job' = [job EXCEPT ![p] = "none"] /\ chunk' = [chunk EXCEPT ![p] = NoChunk]

\* The message is committed for the subscribers that are not released.
Commit(p) ==
  /\ pc[p] = "done" /\ job[p] = "take" /\ Leave(p, "idle")
  /\ refs' = [refs EXCEPT ![chunk[p]] = Subscribers \ reaped]
  /\ UNCHANGED <<mutex, holder, inUse, free, reaped, messages>>

\* The chunk is pushed to the free list.
Push(p) ==
  /\ pc[p] = "done" /\ job[p] = "release" /\ Leave(p, "idle")
  /\ free' = free \cup {chunk[p]}
  /\ UNCHANGED <<mutex, holder, inUse, refs, reaped, messages>>

\* The worker ends: it has listed the chunks, or reports the error.
End(p) ==
  /\ pc[p] = "done" /\ job[p] \in {"list", "alarm"} /\ Leave(p, "dead")
  /\ UNCHANGED <<mutex, holder, inUse, free, refs, reaped, messages>>

\* (mutant) The mutex is not robust.
DieHolding(p) ==
  /\ pc[p] # "dead" /\ Leave(p, "dead")
  /\ UNCHANGED <<mutex, holder, inUse, free, refs, reaped, messages>>

\* p dies wherever it is; the kernel marks the robust mutex it holds.
Die(p) ==
  /\ pc[p] # "dead" /\ Leave(p, "dead")
  /\ IF holder = p THEN holder' = NoProcess /\ mutex' = "dirty" ELSE UNCHANGED <<holder, mutex>>
  /\ UNCHANGED <<inUse, free, refs, reaped, messages>>

UseTracker(p) == Lock(p) \/ Check(p) \/ Write(p) \/ Unlock(p) \/ Commit(p) \/ Push(p) \/ End(p)

Next ==
  \/ \E c \in Chunk : Take(c)
  \/ \E s \in Subscribers : Reaped(s) \/ \E c \in Chunk : ClearBit(s, c) \/ ReapBit(s, c)
  \/ \E p \in Process : Die(p) \/ List(p) \/ UseTracker(p)

Spec == Init /\ [][Next]_vars

\* Processes run.  A pthread mutex is not fair; that a waiting process gets it
\* when it is free again and again is assumed.
Fairness == \A p \in Process : SF_vars(Lock(p)) /\ WF_vars(UseTracker(p))
FairSpec == Spec /\ Fairness

-----------------------------------------------------------------------------
InSection(p) == pc[p] \in {"check", "write", "unlock"}
UsesEntry(p) == pc[p] \in {"lock", "check", "write", "unlock", "done"} /\ job[p] \in {"take", "release"}

\* Every variable has its type, and the mutex is held between lock and unlock only.
TypeOK ==
  /\ mutex \in {"normal", "dirty", "notrecoverable"} /\ holder \in Process \cup {NoProcess}
  /\ inUse \in [Chunk -> BOOLEAN] /\ free \subseteq Chunk /\ refs \in [Chunk -> SUBSET Subscribers]
  /\ pc \in [Process -> {"idle", "lock", "check", "write", "unlock", "done", "dead"}]
  /\ job \in [Process -> {"none", "take", "release", "list", "alarm"}]
  /\ chunk \in [Process -> Chunk \cup {NoChunk}] /\ reaped \subseteq Subscribers /\ messages \in Nat
  /\ holder # NoProcess => InSection(holder)

\* The mutex protects is_in_use: one process at a time is between lock and unlock.
MutualExclusion == \A p, q \in Process : InSection(p) /\ InSection(q) => p = q

\* With or without the mutex, an entry is used by one process at a time, since
\* only the taker and the last holder of a chunk touch it (read_data,
\* release_chunk_references_in_descriptor_range, try_publish_one).
EntryHasOneUser ==
  \A p, q \in Process : UsesEntry(p) /\ UsesEntry(q) /\ chunk[p] = chunk[q] => p = q

\* So the checks for a chunk that is taken or released twice raise no alarm
\* among correct processes, also after the mutex has been lost.
NoFalseAlarm == \A p \in Process : job[p] # "alarm"

\* A free chunk is not marked, and one that subscribers hold is.
MarksAreExact ==
  \A c \in Chunk : /\ c \in free => ~inUse[c]
                   /\ refs[c] # {} => inUse[c]

\* Nobody waits for the mutex for ever, whoever has died with it.
NobodyIsStuck == \A p \in Process : pc[p] = "lock" ~> pc[p] # "lock"

=============================================================================
