--------------------------- MODULE Logger_proofs ---------------------------
(***************************************************************************)
(* The logger writes what it accepted, in order and once, and its          *)
(* destructor leaves nothing behind: for any threads, levels and           *)
(* threshold.                                                              *)
(*                                                                         *)
(* LinesInOrder is inductive with TypeOK.  For the destructor LastSwap     *)
(* follows the entries from the swap after stop_ was set to the file.      *)
(***************************************************************************)
EXTENDS Logger, SequenceTheorems, TLAPS

\* From the swap after stop_ was set, what was pushed before is on its way.
LastSwap ==
  /\ stop /\ backend = "write" => Len(lines) + Len(stream) + Len(back) >= before
  /\ stop /\ backend = "flush" => Len(lines) + Len(stream) >= before
  /\ backend = "returned" => stop /\ Len(lines) >= before
  /\ phase = "gone" => backend = "returned"

IInv == TypeOK /\ LinesInOrder /\ LastSwap

USE LoggerAssumption

LEMMA Buffers ==
  ASSUME TypeOK
  PROVE  /\ front \in Entries /\ back \in Entries /\ stream \in Entries
         /\ lines \in Entries /\ accepted \in Entries
BY DEF TypeOK, BuffersOK

\* Flushing the stream keeps the positions of what was dropped within the lines.
LEMMA Flushed ==
  ASSUME NEW s \in Entries, NEW t \in Entries
  PROVE  /\ s \o t \in Entries /\ Len(s \o t) = Len(s) + Len(t)
         /\ Len(s) \in Nat /\ Len(t) \in Nat
BY ConcatProperties, LenProperties DEF Entries

LEMMA Empty == <<>> \in Entries /\ Len(<<>>) = 0
BY EmptySeq DEF Entries

LEMMA InitIInv == Init => IInv
<1> SUFFICES ASSUME Init PROVE IInv
    OBVIOUS
<1>1. InstanceOK
    BY DEF Init, InstanceOK
<1>2. BuffersOK
    BY Empty DEF Init, BuffersOK
<1>3. CallsOK
    BY DEF Init, CallsOK
<1>4. LinesInOrder
    BY Empty, ConcatEmptySeq DEF Init, LinesInOrder, Entries
<1> QED
    BY <1>1, <1>2, <1>3, <1>4 DEF Init, IInv, LastSwap, TypeOK

\* Nothing is in the stream while nobody holds the mutex.
LEMMA StreamEmpty ==
  ASSUME TypeOK, SetLogFilePath
  PROVE  stream = <<>> /\ stream' = <<>> /\ lines' = lines /\ dropped' = dropped
<1>1. stream = <<>> /\ lines \in Entries
    BY DEF SetLogFilePath, Locked, TypeOK, BuffersOK
<1>2. lines \o stream = lines
    BY <1>1, ConcatEmptySeq DEF Entries
<1>3. (Len(lines) + 1)..Len(lines) = {}
    BY <1>1, LenProperties DEF Entries
<1> QED
    BY <1>1, <1>2, <1>3 DEF SetLogFilePath

LEMMA InstanceStep == TypeOK /\ LastSwap /\ [Next]_vars => InstanceOK'
<1> SUFFICES ASSUME TypeOK, LastSwap, [Next]_vars PROVE InstanceOK'
    OBVIOUS
<1> USE DEF InstanceOK
<1>t. InstanceOK
    BY DEF TypeOK
<1>1. CASE Construct \/ Stop \/ NotifyAll \/ Join
  <2>1. CASE Construct
    BY <1>t, <2>1 DEF Construct
  <2>2. CASE Stop
    BY <1>t, <2>2 DEF Stop, output
  <2>3. CASE NotifyAll
    BY <1>t, <2>3 DEF NotifyAll, Notified, output
  <2>4. CASE Join
    BY <1>t, <2>4 DEF Join, output
  <2> QED
    BY <1>1, <2>1, <2>2, <2>3, <2>4
<1>2. ASSUME NEW l \in Level \cup {NoLevel}, SetLevel(l) PROVE InstanceOK'
    BY <1>t, <1>2 DEF SetLevel, output
<1>3. CASE SetLogFilePath
    BY <1>t, <1>3 DEF SetLogFilePath, instance
<1>4. ASSUME NEW t \in Threads, Push(t) PROVE InstanceOK'
    BY <1>t, <1>4 DEF Push, Notified, instance, output
<1>5. CASE SpuriousWake \/ Lock \/ Wake \/ TimeOut
    BY <1>t, <1>5 DEF SpuriousWake, Lock, Wake, TimeOut, BackendAt, instance, output
<1>6. CASE Swap \/ Write \/ Flush
  <2>1. CASE Swap
    BY <1>t, <2>1 DEF Swap, BackendAt, instance
  <2>2. CASE Write
    BY <1>t, <2>2 DEF Write, instance
  <2>3. CASE Flush
    BY <1>t, <2>3 DEF Flush, instance
  <2> QED
    BY <1>6, <2>1, <2>2, <2>3
<1>7. CASE UNCHANGED <<instance, output, backend>>
    BY <1>t, <1>7 DEF instance, output
<1> QED
    BY <1>1, <1>2, <1>3, <1>4, <1>5, <1>6, <1>7 DEF Next, Backend, vars, Log, Logf

LEMMA CallsStep == TypeOK /\ [Next]_vars => CallsOK'
<1> SUFFICES ASSUME TypeOK, [Next]_vars PROVE CallsOK'
    OBVIOUS
<1> USE DEF TypeOK, CallsOK
<1>1. ASSUME NEW t \in Threads, Log(t) PROVE CallsOK'
    BY <1>1 DEF Log, Return
<1>2. ASSUME NEW t \in Threads, Push(t) PROVE CallsOK'
    BY <1>2 DEF Push, Return
<1>3. ASSUME NEW t \in Threads, NEW l \in Level, Logf(t, l) PROVE CallsOK'
    BY <1>3 DEF Logf
<1>4. CASE UNCHANGED logging
    BY <1>4 DEF logging
<1> QED
    BY <1>1, <1>2, <1>3, <1>4
    DEF Next, vars, Construct, SetLogFilePath, Stop, NotifyAll, Join, SetLevel, SpuriousWake,
        Backend, Lock, Wake, TimeOut, Swap, Write, Flush

LEMMA BuffersStep == TypeOK /\ [Next]_vars => BuffersOK'
<1> SUFFICES ASSUME TypeOK, [Next]_vars PROVE BuffersOK'
    OBVIOUS
<1> USE DEF BuffersOK
<1>t. BuffersOK
    BY DEF TypeOK
<1>l. \A s \in Entries : Len(s) \in Nat
    BY LenProperties DEF Entries
<1>1. CASE SetLogFilePath
    BY <1>t, <1>1, StreamEmpty DEF SetLogFilePath, instance
<1>2. CASE Stop
    BY <1>t, <1>l, <1>2 DEF Stop, output
<1>3. ASSUME NEW t \in Threads, Push(t) PROVE BuffersOK'
  <2>1. entry[t] \in 1..MaxCalls
    BY <1>3 DEF Push, TypeOK, CallsOK
  <2>2. /\ Append(front, entry[t]) \in Entries /\ Append(accepted, entry[t]) \in Entries
        /\ Len(Append(accepted, entry[t])) = Len(accepted) + 1
    BY <1>t, <2>1, AppendProperties DEF Entries
  <2> QED
    BY <1>t, <1>l, <1>3, <2>2 DEF Push, Notified, Locked, instance, output
<1>4. CASE Swap
    BY <1>t, <1>4 DEF Swap, BackendAt, instance
<1>5. CASE Write
  <2>1. CASE back = <<>>
    BY <1>t, <1>5, <2>1 DEF Write, instance
  <2>2. CASE back # <<>>
    <3>1. Append(stream, Head(back)) \in Entries /\ Tail(back) \in Entries
      BY <1>t, <2>2, HeadTailProperties, AppendProperties DEF Entries
    <3> QED
      BY <1>t, <1>5, <2>2, <3>1 DEF Write, instance
  <2> QED
    BY <2>1, <2>2
<1>6. CASE Flush
  <2>1. lines \o stream \in Entries /\ Len(lines \o stream) = Len(lines) + Len(stream)
    BY <1>t, Flushed
  <2>2. dropped' \subseteq 1..Len(lines')
    <3>1. lines' = lines \o stream /\ dropped' \subseteq dropped \cup (Len(lines) + 1)..Len(lines \o stream)
      BY <1>6 DEF Flush
    <3>2. Len(lines) \in Nat /\ Len(stream) \in Nat /\ dropped \subseteq 1..Len(lines)
      BY <1>t, <1>l
    <3> QED
      BY <2>1, <3>1, <3>2
  <2> QED
    BY <1>t, <1>6, <2>1, <2>2, Empty DEF Flush, instance
<1>7. CASE Construct \/ Join
    BY <1>t, <1>7 DEF TypeOK, InstanceOK, Construct, Join, output
<1>9. CASE NotifyAll
    BY <1>t, <1>9 DEF NotifyAll, Notified, output
<1>10. CASE SpuriousWake \/ Lock \/ Wake \/ TimeOut
    BY <1>t, <1>10 DEF SpuriousWake, Lock, Wake, TimeOut, BackendAt, instance, output
<1>8. CASE UNCHANGED <<front, accepted, before, output, backend>>
    BY <1>t, <1>8 DEF output
<1> QED
    BY <1>1, <1>2, <1>3, <1>4, <1>5, <1>6, <1>7, <1>8, <1>9, <1>10
    DEF Next, Backend, vars, instance, SetLevel, Log, Logf

LEMMA Assoc == \A t, u, v \in Entries : (t \o u) \o v = t \o (u \o v)
<1> SUFFICES ASSUME NEW t \in Entries, NEW u \in Entries, NEW v \in Entries
             PROVE  (t \o u) \o v = t \o (u \o v)
    OBVIOUS
<1> DEFINE E == 1..MaxCalls
<1>1. t \in Seq(E) /\ u \in Seq(E) /\ v \in Seq(E)
    BY DEF Entries
<1> HIDE DEF E
<1> QED
    BY <1>1, ConcatAssociative, Z3

LEMMA Closed == \A t, u \in Entries : t \o u \in Entries
BY ConcatProperties DEF Entries

\* Two ways to bracket the four buffers.
LEMMA JoinLast ==
  ASSUME TypeOK, NEW e \in Entries
  PROVE  lines \o (stream \o (back \o (front \o e))) = (lines \o (stream \o (back \o front))) \o e
<1> DEFINE bf == back \o front
           sbf == stream \o bf
<1>b. lines \in Entries /\ stream \in Entries /\ back \in Entries /\ front \in Entries
    BY Buffers
<1>1. bf \in Entries
    BY <1>b, Closed, Zenon
<1>2. bf \o e = back \o (front \o e)
    BY <1>b, Assoc, SMTT(30)
<1> HIDE DEF bf
<1>3. sbf \in Entries
    BY <1>b, <1>1, Closed, Zenon
<1>4. sbf \o e = stream \o (bf \o e)
    BY <1>b, <1>1, Assoc, SMTT(30)
<1> HIDE DEF sbf
<1>5. (lines \o sbf) \o e = lines \o (sbf \o e)
  <2>1. lines \in Entries
    BY <1>b
  <2> QED
    BY <2>1, <1>3, Assoc, Zenon
<1> QED
    BY <1>2, <1>4, <1>5, Zenon DEF bf, sbf

LEMMA JoinMiddle ==
  ASSUME TypeOK, NEW h \in Entries, NEW r \in Entries
  PROVE  (stream \o h) \o (r \o front) = stream \o ((h \o r) \o front)
<1>b. stream \in Entries /\ front \in Entries
    BY Buffers
<1>1. r \o front \in Entries
    BY <1>b, Closed, Zenon
<1>2. (stream \o h) \o (r \o front) = stream \o (h \o (r \o front))
    BY <1>b, <1>1, Assoc, ZenonT(40)
<1>3. (h \o r) \o front = h \o (r \o front)
    BY <1>b, Assoc
<1> QED
    BY <1>2, <1>3, Zenon

LEMMA OrderStep == TypeOK /\ LinesInOrder /\ [Next]_vars => LinesInOrder'
<1> SUFFICES ASSUME TypeOK, LinesInOrder, [Next]_vars PROVE LinesInOrder'
    OBVIOUS
<1> USE DEF instance, output, logging
<1>b. /\ front \in Entries /\ back \in Entries /\ stream \in Entries
      /\ lines \in Entries /\ accepted \in Entries
    BY Buffers
<1>o. lines \o (stream \o (back \o front)) = accepted
    BY DEF LinesInOrder
<1>1. CASE SetLogFilePath
  <2>1. stream' = stream /\ lines' = lines /\ UNCHANGED <<back, front, accepted>>
    BY <1>1, StreamEmpty DEF SetLogFilePath
  <2> QED
    BY <1>o, <2>1, Zenon DEF LinesInOrder
<1>2. ASSUME NEW t \in Threads, Push(t) PROVE LinesInOrder'
  <2>1. entry[t] \in 1..MaxCalls
    BY <1>2 DEF Push, TypeOK, CallsOK
  <2> DEFINE e == <<entry[t]>>
  <2>a. e \in Entries
    BY <2>1 DEF Entries
  <2>b. Append(front, entry[t]) = front \o e
    BY <1>b, <2>1, AppendIsConcat, Zenon DEF Entries
  <2>c. Append(accepted, entry[t]) = accepted \o e
    BY <1>b, <2>1, AppendIsConcat, Zenon DEF Entries
  <2> HIDE DEF e
  <2>3. lines \o (stream \o (back \o (front \o e))) = (lines \o (stream \o (back \o front))) \o e
    BY <2>a, JoinLast
  <2>4. /\ front' = Append(front, entry[t]) /\ accepted' = Append(accepted, entry[t])
        /\ UNCHANGED <<lines, stream, back>>
    BY <1>2 DEF Push
  <2> QED
    BY <1>o, <2>b, <2>c, <2>3, <2>4, Zenon DEF LinesInOrder
<1>3. CASE Swap
  <2>1. back = <<>> /\ back' = front /\ front' = back /\ UNCHANGED <<lines, stream, accepted>>
    BY <1>3 DEF Swap, BackendAt, TypeOK, BuffersOK
  <2>2. back \o front = front /\ front \o back = front
    BY <1>b, <2>1, ConcatEmptySeq DEF Entries
  <2>3. back' \o front' = back \o front
    BY <2>1, <2>2, Zenon
  <2> QED
    BY <1>o, <2>1, <2>3, Zenon DEF LinesInOrder
<1>4. CASE Write
  <2>1. CASE back # <<>>
    <3> DEFINE h == <<Head(back)>>
    <3>1. Head(back) \in 1..MaxCalls /\ Tail(back) \in Entries
      BY <1>b, <2>1, HeadTailProperties DEF Entries
    <3>2. h \in Entries /\ Append(stream, Head(back)) = stream \o h
      BY <1>b, <3>1, AppendIsConcat DEF Entries
    <3>3. h \o Tail(back) = back
      BY <1>b, <2>1, <3>1 DEF Entries
    <3> DEFINE rest == Tail(back)
    <3> HIDE DEF h, rest
    <3>4. (stream \o h) \o (rest \o front) = stream \o ((h \o rest) \o front)
      <4>1. rest \in Entries
        BY <3>1 DEF rest
      <4> QED
        BY <3>2, <4>1, JoinMiddle
    <3>5. /\ stream' = Append(stream, Head(back)) /\ back' = Tail(back)
          /\ UNCHANGED <<lines, front, accepted>>
      BY <1>4, <2>1 DEF Write
    <3>6. stream' \o (back' \o front') = stream \o (back \o front)
      BY <3>2, <3>3, <3>4, <3>5, Zenon DEF rest
    <3> QED
      BY <1>o, <3>5, <3>6, Zenon DEF LinesInOrder
  <2>2. CASE back = <<>>
    <3>1. UNCHANGED <<lines, stream, back, front, accepted>>
      BY <1>4, <2>2 DEF Write
    <3> QED
      BY <1>o, <3>1, Zenon DEF LinesInOrder
  <2> QED
    BY <2>1, <2>2
<1>5. CASE Flush
  <2>1. back \o front \in Entries
    BY <1>b, Closed, Zenon
  <2>2. (lines \o stream) \o (back \o front) = lines \o (stream \o (back \o front))
    BY <1>b, <2>1, Assoc, SMTT(30)
  <2>3. <<>> \o (back \o front) = back \o front
    BY <2>1, ConcatEmptySeq DEF Entries
  <2>4. lines' = lines \o stream /\ stream' = <<>> /\ UNCHANGED <<back, front, accepted>>
    BY <1>5 DEF Flush
  <2> QED
    BY <1>o, <2>2, <2>3, <2>4, Zenon DEF LinesInOrder
<1>6. CASE UNCHANGED <<lines, stream, back, front, accepted>>
    BY <1>o, <1>6, Zenon DEF LinesInOrder
<1> QED
    BY <1>1, <1>2, <1>3, <1>4, <1>5, <1>6
    DEF Next, vars, Construct, Stop, NotifyAll, Join, SetLevel, Logf, Log, SpuriousWake, Backend,
        Lock, Wake, TimeOut

LEMMA LastSwapStep == IInv /\ [Next]_vars => LastSwap'
<1> SUFFICES ASSUME IInv, [Next]_vars PROVE LastSwap'
    OBVIOUS
<1> USE DEF IInv, TypeOK, InstanceOK, BuffersOK, LastSwap, instance, output, logging
<1>l. /\ Len(lines) \in Nat /\ Len(stream) \in Nat /\ Len(back) \in Nat /\ Len(front) \in Nat
      /\ before \in Nat /\ Len(accepted) \in Nat
    BY Buffers, LenProperties DEF Entries
<1>e. Len(<<>>) = 0
    OBVIOUS
<1>1. CASE SetLogFilePath
    BY <1>1, StreamEmpty DEF SetLogFilePath, Locked
<1>2. CASE Stop
    BY <1>2 DEF Stop, Locked
<1>3. CASE NotifyAll \/ Join
    BY <1>3 DEF NotifyAll, Join, Notified
<1>4. ASSUME NEW t \in Threads, Push(t) PROVE LastSwap'
    BY <1>4 DEF Push, Locked, Notified, Alive
<1>5. CASE Swap
  <2>1. back = <<>> /\ stream = <<>>
    BY <1>5 DEF Swap, BackendAt
  <2>2. accepted = lines \o front
    BY <2>1, Buffers, ConcatEmptySeq DEF LinesInOrder, Entries
  <2>3. Len(accepted) = Len(lines) + Len(front)
    BY <2>2, Buffers, ConcatProperties DEF Entries
  <2> QED
    BY <1>5, <1>l, <1>e, <2>1, <2>3 DEF Swap, BackendAt
<1>6. CASE Write
  <2>1. CASE back = <<>>
    BY <1>6, <2>1, <1>l, <1>e DEF Write
  <2>2. CASE back # <<>>
    <3>1. Len(stream') = Len(stream) + 1 /\ Len(back') = Len(back) - 1
      BY <1>6, <2>2, Buffers, HeadTailProperties, AppendProperties, SMTT(30) DEF Write, Entries
    <3> QED
      BY <1>6, <2>2, <1>l, <3>1 DEF Write
  <2> QED
    BY <2>1, <2>2
<1>7. CASE Flush
  <2>1. Len(lines') = Len(lines) + Len(stream)
    BY <1>7, Buffers, Flushed DEF Flush
  <2> QED
    BY <1>7, <1>l, <2>1 DEF Flush
<1>8. CASE Construct \/ SpuriousWake \/ Lock \/ Wake \/ TimeOut
    BY <1>8 DEF Construct, SpuriousWake, Lock, Wake, TimeOut, BackendAt
<1>9. CASE UNCHANGED <<instance, output, backend>>
    BY <1>9
<1>10. CASE \E l \in Level \cup {NoLevel} : SetLevel(l)
    BY <1>10 DEF SetLevel
<1> QED
    BY <1>1, <1>2, <1>3, <1>4, <1>5, <1>6, <1>7, <1>8, <1>9, <1>10
    DEF Next, vars, Logf, Log, Backend

\* The inductive invariant of the logger.
THEOREM Inductive == Spec => []IInv
<1>1. IInv /\ [Next]_vars => IInv'
    BY InstanceStep, BuffersStep, CallsStep, OrderStep, LastSwapStep DEF IInv, TypeOK
<1> QED
    BY InitIInv, <1>1, PTL DEF Spec

\* Every variable has its type.
THEOREM TypeCorrect == Spec => []TypeOK
<1>1. IInv => TypeOK
    BY DEF IInv
<1> QED
    BY Inductive, <1>1, PTL

\* The file receives what was pushed, in order and once.
THEOREM Ordered == Spec => []LinesInOrder
<1>1. IInv => LinesInOrder
    BY DEF IInv
<1> QED
    BY Inductive, <1>1, PTL

\* The destructor writes everything pushed before it began.
THEOREM StopComplete == Spec => []StopWritesEverything
<1>1. IInv => StopWritesEverything
    BY DEF IInv, LastSwap, StopWritesEverything
<1> QED
    BY Inductive, <1>1, PTL
=============================================================================
