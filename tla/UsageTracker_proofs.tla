------------------------ MODULE UsageTracker_proofs ------------------------
(***************************************************************************)
(* The usage tracker stays exact, and its checks stay silent, although the *)
(* mutex that should guard it may be lost: for any number of subscribers,  *)
(* chunks and deaths.                                                      *)
(*                                                                         *)
(* The argument does not mention the mutex.  A chunk is free, or referred  *)
(* to, or in the hands of the one process that took it or cleared its last *)
(* bit, and only that process touches its entry.  Custody says so, with    *)
(* the value of the entry at every point of the two sections.              *)
(***************************************************************************)
EXTENDS UsageTracker, TLAPS

InHands(c) == \E p \in Process : UsesEntry(p) /\ chunk[p] = c

\* What the entry of the chunk of p holds, wherever p is in its section.
EntryMatches(p) ==
  UsesEntry(p) =>
    /\ chunk[p] \in Chunk
    /\ pc[p] \in {"lock", "check", "write"} => inUse[chunk[p]] = (job[p] = "release")
    /\ pc[p] \in {"unlock", "done"} => inUse[chunk[p]] = (job[p] = "take")

\* Where a chunk is: free, referred to, in somebody's hands, or lost with a
\* process that died.
Custody ==
  /\ \A c \in Chunk : c \in free => ~inUse[c] /\ refs[c] = {} /\ ~InHands(c)
  /\ \A c \in Chunk : refs[c] # {} => inUse[c] /\ ~InHands(c)
  /\ EntryHasOneUser
  /\ NoFalseAlarm
  /\ \A p \in Process : EntryMatches(p)
  /\ \A p \in Process : /\ pc[p] \notin {"idle", "dead"} => job[p] # "none"
                        /\ pc[p] = "write" => job[p] # "list"

IInv == TypeOK /\ Custody

USE NamesAssumption DEF Process

LEMMA InitIInv == Init => IInv
<1> SUFFICES ASSUME Init PROVE IInv
    OBVIOUS
<1>1. TypeOK
    BY DEF Init, TypeOK
<1>2. \A p \in Process : pc[p] = "idle" /\ job[p] = "none"
    BY DEF Init
<1>3. \A c \in Chunk : ~inUse[c] /\ refs[c] = {}
    BY DEF Init
<1>4. Custody
    BY <1>2, <1>3 DEF Custody, EntryHasOneUser, NoFalseAlarm, EntryMatches, InHands, UsesEntry
<1> QED
    BY <1>1, <1>4 DEF IInv

LEMMA TypeStep == IInv /\ [Next]_vars => TypeOK'
<1> SUFFICES ASSUME IInv, [Next]_vars PROVE TypeOK'
    OBVIOUS
<1> USE DEF IInv, TypeOK, InSection
<1>1. ASSUME NEW c \in Chunk, Take(c) PROVE TypeOK'
    BY <1>1 DEF Take, Begin
<1>2. ASSUME NEW s \in Subscribers, NEW c \in Chunk, ClearBit(s, c) PROVE TypeOK'
    BY <1>2 DEF ClearBit, Begin
<1>3. ASSUME NEW s \in Subscribers, NEW c \in Chunk, ReapBit(s, c) PROVE TypeOK'
    BY <1>3 DEF ReapBit, Begin
<1>4. ASSUME NEW s \in Subscribers, Reaped(s) PROVE TypeOK'
    BY <1>4 DEF Reaped
<1>5. ASSUME NEW p \in Process, List(p) PROVE TypeOK'
    BY <1>5 DEF List, Begin
<1>6. ASSUME NEW p \in Process, Lock(p) PROVE TypeOK'
    BY <1>6 DEF Lock
<1>7. ASSUME NEW p \in Process, Check(p) PROVE TypeOK'
    BY <1>7 DEF Check, Wrong
<1>8. ASSUME NEW p \in Process, Write(p) PROVE TypeOK'
    BY <1>8 DEF Write
<1>9. ASSUME NEW p \in Process, Unlock(p) PROVE TypeOK'
    BY <1>9 DEF Unlock
<1>10. ASSUME NEW p \in Process, Commit(p) PROVE TypeOK'
    BY <1>10 DEF Commit, Leave
<1>11. ASSUME NEW p \in Process, Push(p) PROVE TypeOK'
    BY <1>11 DEF Push, Leave, Custody, EntryMatches, UsesEntry
<1>12. ASSUME NEW p \in Process, End(p) PROVE TypeOK'
    BY <1>12 DEF End, Leave
<1>13. ASSUME NEW p \in Process, Die(p) PROVE TypeOK'
    BY <1>13 DEF Die, Leave
<1>14. CASE UNCHANGED vars
    BY <1>14 DEF vars
<1> QED
    BY <1>1, <1>2, <1>3, <1>4, <1>5, <1>6, <1>7, <1>8, <1>9, <1>10, <1>11, <1>12, <1>13, <1>14
    DEF Next, UseTracker

LEMMA CustodyStep == IInv /\ [Next]_vars => Custody'
<1> SUFFICES ASSUME IInv, [Next]_vars PROVE Custody'
    OBVIOUS
<1> USE DEF IInv, TypeOK, Custody, EntryHasOneUser, NoFalseAlarm, EntryMatches, InHands, UsesEntry
<1>1. ASSUME NEW c \in Chunk, Take(c) PROVE Custody'
    BY <1>1 DEF Take, Begin
<1>2. ASSUME NEW s \in Subscribers, NEW c \in Chunk, ClearBit(s, c) PROVE Custody'
    BY <1>2 DEF ClearBit, Begin
<1>3. ASSUME NEW s \in Subscribers, NEW c \in Chunk, ReapBit(s, c) PROVE Custody'
    BY <1>3 DEF ReapBit, Begin
<1>4. ASSUME NEW s \in Subscribers, Reaped(s) PROVE Custody'
    BY <1>4 DEF Reaped
<1>5. ASSUME NEW p \in Process, List(p) PROVE Custody'
    BY <1>5 DEF List, Begin
<1>6. ASSUME NEW p \in Process, Lock(p) PROVE Custody'
    BY <1>6 DEF Lock
<1>7. ASSUME NEW p \in Process, Check(p) PROVE Custody'
  <2>1. ~Wrong(p)
    BY <1>7 DEF Check, Wrong
  <2> QED
    BY <1>7, <2>1 DEF Check
<1>8. ASSUME NEW p \in Process, Write(p) PROVE Custody'
  <2> DEFINE c0 == chunk[p]
  <2>1. UsesEntry(p) /\ c0 \in Chunk /\ InHands(c0)
    BY <1>8 DEF Write
  <2>2. /\ UNCHANGED <<free, refs, job, chunk>> /\ pc' = [pc EXCEPT ![p] = "unlock"]
        /\ inUse' = [inUse EXCEPT ![c0] = (job[p] = "take")]
    BY <1>8 DEF Write
  <2>3. \A q \in Process : UsesEntry(q)' <=> UsesEntry(q)
    BY <2>1, <2>2
  <2>4. \A c \in Chunk : c \in free \/ refs[c] # {} => inUse'[c] = inUse[c]
    BY <2>1, <2>2
  <2>5. EntryMatches(p)'
    BY <1>8, <2>1, <2>2 DEF Write
  <2>6. \A q \in Process \ {p} : UsesEntry(q) => chunk[q] # c0
    BY <2>1
  <2>7. ASSUME NEW q \in Process, q # p PROVE EntryMatches(q)'
    <3>1. CASE UsesEntry(q)
      BY <3>1, <2>2, <2>6, <2>7
    <3>2. CASE ~UsesEntry(q)
      BY <3>2, <2>3
    <3> QED
      BY <3>1, <3>2
  <2>8. \A c \in Chunk : InHands(c)' <=> InHands(c)
    BY <2>2, <2>3
  <2>9. /\ \A c \in Chunk : c \in free' => ~inUse'[c] /\ refs'[c] = {} /\ ~InHands(c)'
        /\ \A c \in Chunk : refs'[c] # {} => inUse'[c] /\ ~InHands(c)'
    BY <2>2, <2>4, <2>8
  <2>10. EntryHasOneUser' /\ NoFalseAlarm'
    BY <2>2, <2>3
  <2>11. \A q \in Process : pc'[q] \notin {"idle", "dead"} => job'[q] # "none"
    BY <1>8, <2>2 DEF Write
  <2>12. \A q \in Process : pc'[q] = "write" => job'[q] # "list"
    BY <1>8, <2>2 DEF Write
  <2>13. \A q \in Process : EntryMatches(q)'
    BY <2>5, <2>7
  <2> QED
    BY <2>9, <2>10, <2>11, <2>12, <2>13 DEF Custody
<1>9. ASSUME NEW p \in Process, Unlock(p) PROVE Custody'
    BY <1>9 DEF Unlock
<1>10. ASSUME NEW p \in Process, Commit(p) PROVE Custody'
    BY <1>10 DEF Commit, Leave
<1>11. ASSUME NEW p \in Process, Push(p) PROVE Custody'
  <2> DEFINE c0 == chunk[p]
  <2>1. c0 \in Chunk /\ ~inUse[c0] /\ refs[c0] = {}
    BY <1>11 DEF Push
  <2>2. /\ UNCHANGED <<inUse, refs>> /\ free' = free \cup {c0}
        /\ \A q \in Process : UsesEntry(q)' <=> UsesEntry(q) /\ q # p
        /\ \A q \in Process \ {p} : pc'[q] = pc[q] /\ job'[q] = job[q] /\ chunk'[q] = chunk[q]
        /\ pc'[p] = "idle" /\ job'[p] = "none"
    BY <1>11 DEF Push, Leave
  <2>3. \A c \in Chunk : InHands(c)' => InHands(c) /\ c # c0
    BY <1>11, <2>2 DEF Push
  <2>4. \A c \in Chunk : c \in free' => ~inUse'[c] /\ refs'[c] = {} /\ ~InHands(c)'
    BY <2>1, <2>2, <2>3
  <2>5. \A c \in Chunk : refs'[c] # {} => inUse'[c] /\ ~InHands(c)'
    BY <2>2, <2>3
  <2>6. EntryHasOneUser' /\ NoFalseAlarm' /\ \A q \in Process : EntryMatches(q)'
    BY <2>2
  <2> QED
    BY <2>2, <2>4, <2>5, <2>6
<1>12. ASSUME NEW p \in Process, End(p) PROVE Custody'
    BY <1>12 DEF End, Leave
<1>13. ASSUME NEW p \in Process, Die(p) PROVE Custody'
    BY <1>13 DEF Die, Leave
<1>14. CASE UNCHANGED vars
    BY <1>14 DEF vars
<1> QED
    BY <1>1, <1>2, <1>3, <1>4, <1>5, <1>6, <1>7, <1>8, <1>9, <1>10, <1>11, <1>12, <1>13, <1>14
    DEF Next, UseTracker

\* The inductive invariant: every chunk has at most one custodian.
THEOREM CustodyHolds == Spec => []IInv
<1>1. IInv /\ [Next]_vars => IInv'
    BY TypeStep, CustodyStep DEF IInv
<1> QED
    BY InitIInv, <1>1, PTL DEF Spec

\* Every variable has its type, and the mutex is held in the section only.
THEOREM TypeCorrect == Spec => []TypeOK
<1>1. IInv => TypeOK
    BY DEF IInv
<1> QED
    BY CustodyHolds, <1>1, PTL

\* An entry of is_in_use is used by one process at a time, the mutex or not.
THEOREM EntriesHaveOneUser == Spec => []EntryHasOneUser
<1>1. IInv => EntryHasOneUser
    BY DEF IInv, Custody
<1> QED
    BY CustodyHolds, <1>1, PTL

\* The checks for double use and double free never fire.
THEOREM ChecksStaySilent == Spec => []NoFalseAlarm
<1>1. IInv => NoFalseAlarm
    BY DEF IInv, Custody
<1> QED
    BY CustodyHolds, <1>1, PTL

\* Free chunks are not marked, chunks that are referred to are.
THEOREM MarksStayExact == Spec => []MarksAreExact
<1>1. IInv => MarksAreExact
    BY DEF IInv, Custody, MarksAreExact
<1> QED
    BY CustodyHolds, <1>1, PTL
=============================================================================
