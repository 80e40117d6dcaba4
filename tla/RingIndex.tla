----------------------------- MODULE RingIndex -----------------------------
(***************************************************************************)
(* The index arithmetic of the descriptor ring: how the publisher and the  *)
(* subscribers advance their indices, which subscriber the publisher calls *)
(* the slowest, and when it refuses to write the next descriptor.          *)
(*                                                                         *)
(* Source: Publisher::find_slowest_read_index, the descriptor half of      *)
(* Publisher::try_publish_one (the same test is repeated in                *)
(* can_publish_next_message) and Subscriber::read_data.                    *)
(***************************************************************************)
EXTENDS Integers

CONSTANT SlotCount      \* kDescriptorSlotCount: descriptors in the ring

ASSUME SlotCountAssumption == SlotCount \in Nat /\ SlotCount >= 1

Index == 0 .. SlotCount - 1

\* kInvalidIndex: the read index of a subscriber slot that is not in use.  It is
\* UINT32_MAX in the code and only ever compared for equality there; here it is
\* the first number that is no index.
InvalidIndex == SlotCount

\* The index runs off the ring.  (mutant)
AdvanceWriteUnwrapped(wr) == wr + 1

\* The publisher's step of descriptor_write_index.
AdvanceWrite(wr) == (wr + 1) % SlotCount

\* A subscriber's step of subscriber_read_index.
AdvanceRead(i) == IF i + 1 >= SlotCount THEN (i + 1) % SlotCount ELSE i + 1

(***************************************************************************)
(* read is the array descriptor_read_indices as a function of the          *)
(* subscriber slot, wr the write index.  A reader whose index is above wr  *)
(* has not wrapped yet, so it is further behind than any that has: the     *)
(* code takes the least index above wr if there is one, otherwise the      *)
(* least index at or below wr.                                             *)
(***************************************************************************)
InUse(read) == {s \in DOMAIN read : read[s] # InvalidIndex}

BeforeWrap(read, wr) == {s \in InUse(read) : read[s] > wr}

SlowestGroup(read, wr) ==
  IF BeforeWrap(read, wr) # {} THEN BeforeWrap(read, wr) ELSE InUse(read)

IsSlowestReadIndex(m, read, wr) ==
  /\ \E s \in SlowestGroup(read, wr) : read[s] = m
  /\ \A s \in SlowestGroup(read, wr) : m <= read[s]

\* The descriptor kept free is given away.  (mutant)
RingFullLate(m, wr) ==
  \/ m > wr /\ m < wr + 1
  \/ wr + 1 > m + SlotCount

\* Two descriptors are kept free.  (mutant)
RingFullEarly(m, wr) ==
  \/ m > wr /\ m <= wr + 2
  \/ wr + 2 >= m + SlotCount

\* The test of try_publish_one on the slowest index m.
RingFull(m, wr) ==
  \/ m > wr /\ m <= wr + 1
  \/ wr + 1 >= m + SlotCount

\* The ring has a descriptor to write.  Without a slot in use the slowest index
\* is kInvalidIndex and the code reports Blocked, as no m satisfies this.
DescriptorAvailable(read, wr) ==
  \E m \in Index : IsSlowestReadIndex(m, read, wr) /\ ~RingFull(m, wr)

(***************************************************************************)
(* The reference the arithmetic is compared with: the number of            *)
(* descriptors a reader at index i still has to read.                      *)
(***************************************************************************)
Backlog(i, wr) == IF i <= wr THEN wr - i ELSE wr - i + SlotCount

=============================================================================
