-------------------------- MODULE NetSession_proofs --------------------------
(***************************************************************************)
(* Proofs about NetSession, for any windows, capacities and bounds.        *)
(***************************************************************************)
EXTENDS NetSession, Integers, SequenceTheorems, FiniteSetTheorems, TLAPS

(* The packets split the frames up to Packed in order. *)
PacketsInv ==
  /\ Packed <= accepted
  /\ \A i, j \in 1..Len(packets) : i < j => packets[i] < packets[j]
  /\ \A f \in 1..Packed : InPackets(f, 1..Len(packets))

(* The callback has had every frame before the one that is next. *)
DeliveryInv ==
  /\ at > 0 => /\ expected <= Len(packets)
               /\ First(expected) + at - 1 <= packets[expected]
  /\ Len(delivered) = First(expected) + (IF at = 0 THEN 0 ELSE at - 1) - 1
  /\ \A j \in 1..Len(delivered) : delivered[j] = j
  /\ at = 0 => expected \notin held

(* What is held and retained is within the windows. *)
BoundsInv ==
  /\ held \subseteq Holdable
  /\ \A r \in retained : Len(packets) < r + WindowA

IInv == TypeOK /\ PacketsInv /\ DeliveryInv /\ BoundsInv

(* An ack names only what came; what came and is not retained any more is  *)
(* delivered, being delivered or held.                                     *)
AckInv ==
  /\ \A k \in acks : k \subseteq got
  /\ (1..Len(packets)) \ retained \subseteq got
  /\ \A i \in got : i < expected \/ i \in held \/ (i = expected /\ at > 0)

-----------------------------------------------------------------------------
(* Packets and their frames *)

LEMMA Numbering ==
  ASSUME TypeOK
  PROVE  /\ packets \in Seq(Frames) /\ Len(packets) \in Nat
         /\ DOMAIN packets = 1..Len(packets)
         /\ \A i \in 1..Len(packets) : packets[i] \in Frames
         /\ delivered \in Seq(1..accepted) /\ Len(delivered) \in Nat
         /\ DOMAIN delivered = 1..Len(delivered)
         /\ Packed \in 0..MaxFrames /\ accepted \in 0..MaxFrames
         /\ expected \in 1..(Len(packets) + 1) /\ at \in 0..MaxFrames
         /\ First(expected) \in Nat
<1>1. /\ packets \in Seq(Frames) /\ Len(packets) \in Nat
      /\ DOMAIN packets = 1..Len(packets)
      /\ delivered \in Seq(1..accepted) /\ Len(delivered) \in Nat
      /\ DOMAIN delivered = 1..Len(delivered)
  BY LenProperties DEF TypeOK
<1>2. \A i \in 1..Len(packets) : packets[i] \in Frames
  BY <1>1, ElementOfSeq
<1>3. Packed \in 0..MaxFrames
  BY <1>1, <1>2, EmptySeq, SizesArePositive DEF Packed, Frames, Positive
<1>4. First(expected) \in Nat
  <2>1. expected \in 1..(Len(packets) + 1)
    BY DEF TypeOK
  <2>2. expected # 1 => expected - 1 \in 1..Len(packets)
    BY <1>1, <2>1
  <2>3. QED
    BY <1>2, <2>2 DEF First, Frames
<1>5. QED
  BY <1>1, <1>2, <1>3, <1>4 DEF TypeOK

(* The frames before those of a packet are in the packets before it. *)
LEMMA Boundaries ==
  ASSUME TypeOK, PacketsInv
  PROVE  /\ \A i \in 1..Len(packets) : /\ First(i) \in 1..packets[i]
                                       /\ packets[i] <= Packed
         /\ \A i, j \in 1..Len(packets) : i < j => packets[i] < First(j)
         /\ First(Len(packets) + 1) = Packed + 1
<1>1. /\ Len(packets) \in Nat
      /\ \A i \in 1..Len(packets) : packets[i] \in Nat \ {0}
      /\ packets \in Seq(Frames)
  BY Numbering DEF Frames
<1>2. Len(packets) > 0 => Packed = packets[Len(packets)]
  BY <1>1, EmptySeq DEF Packed
<1>3. ASSUME NEW i \in 1..Len(packets)
      PROVE  First(i) \in 1..packets[i] /\ packets[i] <= Packed
  <2>1. First(i) \in 1..packets[i]
    <3>1. CASE i = 1
      BY <1>1, <3>1 DEF First
    <3>2. CASE i # 1
      <4>1. i - 1 \in 1..Len(packets) /\ i - 1 < i
        BY <1>1, <3>2
      <4>2. packets[i - 1] < packets[i]
        BY <4>1 DEF PacketsInv
      <4>3. QED
        BY <1>1, <3>2, <4>1, <4>2 DEF First
    <3>3. QED
      BY <3>1, <3>2
  <2>2. packets[i] <= Packed
    <3>1. CASE i = Len(packets)
      BY <1>1, <1>2, <3>1
    <3>2. CASE i # Len(packets)
      <4>1. Len(packets) \in 1..Len(packets) /\ i < Len(packets)
        BY <1>1, <3>2
      <4>2. packets[i] < packets[Len(packets)]
        BY <4>1 DEF PacketsInv
      <4>3. QED
        BY <1>1, <1>2, <4>1, <4>2
    <3>3. QED
      BY <3>1, <3>2
  <2>3. QED
    BY <2>1, <2>2
<1>4. ASSUME NEW i \in 1..Len(packets), NEW j \in 1..Len(packets), i < j
      PROVE  packets[i] < First(j)
  <2>1. j # 1 /\ j - 1 \in 1..Len(packets)
    BY <1>1, <1>4
  <2>2. i < j - 1 => packets[i] < packets[j - 1]
    BY <2>1 DEF PacketsInv
  <2>3. i = j - 1 \/ i < j - 1
    BY <1>1, <1>4
  <2>4. QED
    BY <1>1, <2>1, <2>2, <2>3 DEF First
<1>5. First(Len(packets) + 1) = Packed + 1
  <2>1. CASE Len(packets) = 0
    BY <1>1, <2>1, EmptySeq DEF First, Packed
  <2>2. CASE Len(packets) # 0
    BY <1>1, <1>2, <2>2 DEF First
  <2>3. QED
    BY <2>1, <2>2
<1>6. QED
  BY <1>3, <1>4, <1>5

(* A new packet changes nothing for the others. *)
LEMMA Appended ==
  ASSUME TypeOK, PacketsInv, NEW n \in 1..PerPacket, Flush_reliable(n)
  PROVE  /\ packets' \in Seq(Frames)
         /\ Len(packets') = Len(packets) + 1
         /\ DOMAIN packets' = 1..(Len(packets) + 1)
         /\ packets'[Len(packets) + 1] = Packed + n
         /\ \A i \in 1..Len(packets) : packets'[i] = packets[i]
         /\ Packed' = Packed + n
         /\ \A i \in 1..(Len(packets) + 1) : First(i)' = First(i)
         /\ n \in Nat \ {0} /\ Packed + n <= accepted
<1>1. /\ packets \in Seq(Frames) /\ Len(packets) \in Nat
      /\ Packed \in 0..MaxFrames /\ accepted \in 0..MaxFrames
      /\ n \in Nat \ {0} /\ MaxFrames \in Nat
  BY Numbering, SizesArePositive DEF Positive
<1>2. Packed + n \in Frames /\ Packed + n <= accepted
  BY <1>1 DEF Flush_reliable, PacketsInv, Frames
<1>3. packets' = Append(packets, Packed + n)
  BY DEF Flush_reliable
<1>4. /\ packets' \in Seq(Frames)
      /\ Len(packets') = Len(packets) + 1
      /\ \A i \in 1..Len(packets) : packets'[i] = packets[i]
      /\ packets'[Len(packets) + 1] = Packed + n
  BY <1>1, <1>2, <1>3, AppendProperties
<1>5. Packed' = Packed + n
  BY <1>1, <1>4, EmptySeq DEF Packed
<1>6. \A i \in 1..(Len(packets) + 1) : First(i)' = First(i)
  <2> SUFFICES ASSUME NEW i \in 1..(Len(packets) + 1) PROVE First(i)' = First(i)
    OBVIOUS
  <2>1. i # 1 => i - 1 \in 1..Len(packets)
    BY <1>1
  <2>2. QED
    BY <1>4, <2>1 DEF First
<1>7. DOMAIN packets' = 1..(Len(packets) + 1)
  BY <1>4, LenProperties
<1>8. QED
  BY <1>1, <1>2, <1>4, <1>5, <1>6, <1>7

-----------------------------------------------------------------------------
(* Type correctness, order and bounds *)

LEMMA InitInv == Init => IInv
<1> SUFFICES ASSUME Init PROVE IInv
  OBVIOUS
<1>1. packets = <<>> /\ delivered = <<>> /\ Len(packets) = 0 /\ Len(delivered) = 0
  BY EmptySeq DEF Init
<1>2. packets \in Seq(Frames) /\ delivered \in Seq(1..accepted)
  BY <1>1, EmptySeq
<1>3. TypeOK
  <2>1. expected \in 1..(Len(packets) + 1)
    BY <1>1 DEF Init
  <2>2. accepted = 0 /\ at = 0 /\ MaxFrames \in Nat
    BY SizesArePositive DEF Init, Positive
  <2>3. accepted \in 0..MaxFrames /\ at \in 0..MaxFrames
    BY <2>2
  <2>4. /\ retained = {} /\ wire = {} /\ acks = {} /\ held = {} /\ got = {}
        /\ ack_pending = FALSE /\ closed = {}
    BY DEF Init
  <2>5. QED
    BY <1>2, <2>1, <2>3, <2>4 DEF TypeOK
<1>4. PacketsInv
  BY <1>1 DEF Init, PacketsInv, Packed
<1>5. DeliveryInv /\ BoundsInv
  BY <1>1 DEF Init, DeliveryInv, BoundsInv, First
<1>6. QED
  BY <1>3, <1>4, <1>5 DEF IInv

LEMMA StepSend == ASSUME IInv, Send PROVE IInv'
<1>1. accepted \in Nat /\ MaxFrames \in Nat /\ delivered \in Seq(1..accepted)
  BY Numbering, SizesArePositive DEF IInv, Positive
<1>2. delivered' \in Seq(1..accepted')
  BY <1>1, SeqMonotonic DEF Send, receiver
<1>3. TypeOK'
  BY <1>1, <1>2 DEF IInv, TypeOK, Send, receiver
<1>4. PacketsInv'
  BY <1>1, Numbering DEF IInv, PacketsInv, Send, Packed, InPackets, First
<1>5. DeliveryInv' /\ BoundsInv'
  BY DEF IInv, DeliveryInv, BoundsInv, First, Holdable, Send, receiver
<1>6. QED
  BY <1>3, <1>4, <1>5 DEF IInv

LEMMA StepFlush_reliable ==
  ASSUME IInv, NEW n \in 1..PerPacket, Flush_reliable(n) PROVE IInv'
<1> DEFINE l == Len(packets) + 1
<1>0. TypeOK /\ PacketsInv /\ DeliveryInv /\ BoundsInv
  BY DEF IInv
<1>1. /\ packets' \in Seq(Frames) /\ Len(packets') = l /\ DOMAIN packets' = 1..l
      /\ packets'[l] = Packed + n
      /\ \A i \in 1..Len(packets) : packets'[i] = packets[i]
      /\ Packed' = Packed + n
      /\ \A i \in 1..l : First(i)' = First(i)
      /\ n \in Nat \ {0} /\ Packed + n <= accepted
  BY <1>0, Appended
<1>2. /\ Len(packets) \in Nat /\ DOMAIN packets = 1..Len(packets)
      /\ \A i \in 1..Len(packets) : packets[i] \in Nat
      /\ Packed \in Nat /\ accepted \in Nat /\ expected \in 1..l
      /\ at \in Nat
  BY <1>0, Numbering DEF Frames
<1>3. UNCHANGED <<accepted, acks, receiver, closed>>
      /\ retained' = retained \cup {l} /\ wire' = wire \cup {l}
  BY DEF Flush_reliable
<1>4. TypeOK'
  BY <1>0, <1>1, <1>2, <1>3 DEF TypeOK, receiver
<1>5. PacketsInv'
  <2>1. ASSUME NEW i \in 1..l, NEW j \in 1..l, i < j PROVE packets'[i] < packets'[j]
    <3>1. i \in 1..Len(packets)
      BY <1>2, <2>1
    <3>2. CASE j = l
      BY <1>0, <1>1, <1>2, <3>1, <3>2, Boundaries
    <3>3. CASE j # l
      <4>1. j \in 1..Len(packets)
        BY <1>2, <3>3
      <4>2. QED
        BY <1>0, <1>1, <2>1, <3>1, <4>1 DEF PacketsInv
    <3>4. QED
      BY <3>2, <3>3
  <2>2. ASSUME NEW f \in 1..Packed' PROVE InPackets(f, 1..Len(packets))'
    <3>1. CASE f <= Packed
      <4>1. f \in 1..Packed
        BY <1>1, <1>2, <3>1
      <4>2. PICK i \in 1..Len(packets) : f \in First(i)..packets[i]
        BY <1>0, <4>1 DEF PacketsInv, InPackets
      <4>3. i \in 1..l /\ f \in First(i)'..packets'[i]
        BY <1>1, <1>2, <4>2
      <4>4. QED
        BY <1>1, <4>3 DEF InPackets
    <3>2. CASE ~(f <= Packed)
      <4>1. PICK m \in 1..l : m = l
        BY <1>2
      <4>2. First(m) = Packed + 1
        BY <1>0, <4>1, Boundaries
      <4>3. First(m)' = Packed + 1 /\ packets'[m] = Packed + n
        BY <1>1, <4>1, <4>2
      <4>4. f \in (Packed + 1)..(Packed + n)
        BY <1>1, <1>2, <3>2
      <4>5. QED
        BY <1>1, <4>1, <4>3, <4>4 DEF InPackets
    <3>3. QED
      BY <3>1, <3>2
  <2>3. QED
    BY <1>1, <1>3, <2>1, <2>2 DEF PacketsInv
<1>6. DeliveryInv'
  <2>1. First(expected)' = First(expected)
    BY <1>1, <1>2, <1>3 DEF receiver, First
  <2>2. at > 0 => expected \in 1..Len(packets)
    BY <1>0, <1>2 DEF DeliveryInv
  <2>3. QED
    BY <1>0, <1>1, <1>2, <1>3, <2>1, <2>2 DEF DeliveryInv, receiver
<1>7. BoundsInv'
  <2>1. \A r \in retained : l < r + WindowA
    BY DEF Flush_reliable, InWindow
  <2>2. QED
    BY <1>0, <1>1, <1>2, <1>3, <2>1, SizesArePositive DEF BoundsInv, Holdable, receiver, Positive
<1>8. QED
  BY <1>4, <1>5, <1>6, <1>7 DEF IInv

(* Steps of the sender and the transports that leave packets alone. *)
LEMMA StepNetwork ==
  ASSUME IInv,
         retained' \subseteq retained,
         wire' \subseteq 1..Len(packets), acks' \subseteq SUBSET (1..Len(packets)),
         ack_pending' \in BOOLEAN, closed' \subseteq {"a", "b"},
         UNCHANGED <<accepted, packets, expected, at, held, got, delivered>>
  PROVE  IInv'
<1>1. DOMAIN packets = 1..Len(packets)
  BY Numbering DEF IInv
<1>2. TypeOK'
  BY <1>1 DEF IInv, TypeOK
<1>3. PacketsInv' /\ DeliveryInv' /\ BoundsInv'
  BY DEF IInv, PacketsInv, DeliveryInv, BoundsInv, Packed, First, InPackets, Holdable
<1>4. QED
  BY <1>2, <1>3 DEF IInv

LEMMA StepReceive_reliable ==
  ASSUME IInv, NEW i \in Numbers, Receive_reliable(i) PROVE IInv'
<1>0. TypeOK /\ PacketsInv /\ DeliveryInv /\ BoundsInv
  BY DEF IInv
<1>1. /\ Len(packets) \in Nat /\ DOMAIN packets = 1..Len(packets)
      /\ expected \in 1..(Len(packets) + 1) /\ at = 0 /\ MaxFrames \in Nat \ {0}
      /\ i \in 1..Len(packets)
      /\ packets[i] \in Nat /\ First(expected) \in Nat
  BY <1>0, Numbering, SizesArePositive, SMTT(30)
     DEF Receive_reliable, Positive, Frames, TypeOK
<1>2. TypeOK'
  BY <1>0, <1>1 DEF TypeOK, Receive_reliable, sender
<1>3. PacketsInv'
  BY <1>0 DEF PacketsInv, Receive_reliable, sender, Packed, First, InPackets
<1>4. DeliveryInv'
  <2>1. i = expected => First(expected) <= packets[expected]
    BY <1>0, <1>1, Boundaries
  <2>2. First(expected)' = First(expected)
    BY DEF First, Receive_reliable, sender
  <2>3. expected \notin Holdable
    BY <1>1 DEF Holdable
  <2>4. QED
    BY <1>0, <1>1, <2>1, <2>2, <2>3 DEF DeliveryInv, Receive_reliable, sender
<1>5. BoundsInv'
  BY <1>0 DEF BoundsInv, Receive_reliable, sender, Holdable
<1>6. QED
  BY <1>2, <1>3, <1>4, <1>5 DEF IInv

(* The next frame, and the number of the packet that comes after. *)
LEMMA NextFrame ==
  ASSUME IInv, at > 0
  PROVE  /\ First(expected) + at - 1 = Len(delivered) + 1
         /\ Len(delivered) + 1 \in 1..accepted
         /\ expected \in 1..Len(packets)
         /\ First(expected + 1) = packets[expected] + 1
<1>0. TypeOK /\ PacketsInv /\ DeliveryInv
  BY DEF IInv
<1>1. /\ Len(packets) \in Nat /\ expected \in 1..Len(packets) /\ at \in Nat
      /\ accepted \in Nat /\ Packed \in Nat /\ Len(delivered) \in Nat
      /\ First(expected) \in Nat /\ packets[expected] \in Nat
  BY <1>0, Numbering DEF DeliveryInv, Frames
<1>2. First(expected) + at - 1 = Len(delivered) + 1
  BY <1>0, <1>1 DEF DeliveryInv
<1>3. packets[expected] <= Packed /\ Packed <= accepted
  BY <1>0, <1>1, Boundaries DEF PacketsInv
<1>4. Len(delivered) + 1 <= packets[expected]
  BY <1>0, <1>2 DEF DeliveryInv
<1>5. First(expected + 1) = packets[expected] + 1
  BY <1>1 DEF First
<1>6. QED
  BY <1>1, <1>2, <1>3, <1>4, <1>5

LEMMA StepDeliver == ASSUME IInv, Deliver PROVE IInv'
<1>0. TypeOK /\ PacketsInv /\ DeliveryInv /\ BoundsInv /\ at > 0
  BY DEF IInv, Deliver
<1>1. /\ First(expected) + at - 1 = Len(delivered) + 1
      /\ Len(delivered) + 1 \in 1..accepted
      /\ expected \in 1..Len(packets)
      /\ First(expected + 1) = packets[expected] + 1
  BY <1>0, NextFrame
<1>2. /\ Len(packets) \in Nat /\ DOMAIN packets = 1..Len(packets)
      /\ \A i \in 1..Len(packets) : packets[i] \in 1..MaxFrames
      /\ at \in 1..MaxFrames /\ MaxFrames \in Nat \ {0}
      /\ Len(delivered) \in Nat /\ delivered \in Seq(1..accepted)
      /\ First(expected) \in Nat /\ First(expected) >= 1
  BY <1>0, <1>1, Numbering, SizesArePositive, Boundaries DEF Frames, Positive
<1>3. /\ delivered' = Append(delivered, Len(delivered) + 1)
      /\ UNCHANGED <<accepted, packets, retained, wire, acks, got, ack_pending, closed>>
  BY <1>1 DEF Deliver, sender
<1>4. /\ delivered' \in Seq(1..accepted)
      /\ Len(delivered') = Len(delivered) + 1
      /\ \A j \in 1..Len(delivered) : delivered'[j] = delivered[j]
      /\ delivered'[Len(delivered) + 1] = Len(delivered) + 1
  BY <1>1, <1>2, <1>3, AppendProperties
<1>5. \A j \in 1..Len(delivered') : delivered'[j] = j
  <2> SUFFICES ASSUME NEW j \in 1..Len(delivered') PROVE delivered'[j] = j
    OBVIOUS
  <2>1. j \in 1..Len(delivered) \/ j = Len(delivered) + 1
    BY <1>2, <1>4
  <2>2. QED
    BY <1>0, <1>4, <2>1 DEF DeliveryInv
<1>6. PacketsInv'
  BY <1>0, <1>3 DEF PacketsInv, Packed, First, InPackets
<1>7. CASE First(expected) + at - 1 < packets[expected]
  <2>1. at' = at + 1 /\ expected' = expected /\ held' = held
    BY <1>7 DEF Deliver
  <2>2. TypeOK'
    <3>1. at' \in 0..MaxFrames
      BY <1>1, <1>2, <1>7, <2>1
    <3>2. QED
      BY <1>0, <1>3, <1>4, <2>1, <3>1 DEF TypeOK
  <2>3. First(expected)' = First(expected)
    BY <1>3, <2>1 DEF First
  <2>4. DeliveryInv'
    BY <1>0, <1>1, <1>2, <1>3, <1>4, <1>5, <1>7, <2>1, <2>3, SMTT(30) DEF DeliveryInv
  <2>5. BoundsInv'
    BY <1>0, <1>3, <2>1 DEF BoundsInv, Holdable
  <2>6. QED
    BY <1>6, <2>2, <2>4, <2>5 DEF IInv
<1>8. CASE ~(First(expected) + at - 1 < packets[expected])
  <2>1. /\ expected' = expected + 1
        /\ held' = held \ {expected + 1}
        /\ at' = IF expected + 1 \in held THEN 1 ELSE 0
    BY <1>8 DEF Deliver
  <2>2. TypeOK'
    BY <1>0, <1>1, <1>2, <1>3, <1>4, <2>1, SMTT(30) DEF TypeOK
  <2>3. First(expected)' = packets[expected] + 1
    BY <1>1, <1>2, <1>3, <2>1 DEF First
  <2>4. First(expected) + at - 1 = packets[expected]
    <3>1. First(expected) + at - 1 <= packets[expected]
      BY <1>0 DEF DeliveryInv
    <3>2. packets[expected] \in Nat
      BY <1>1, <1>2
    <3>3. QED
      BY <1>2, <1>8, <3>1, <3>2
  <2>5. expected + 1 \in held =>
          /\ expected + 1 \in 1..Len(packets)
          /\ First(expected + 1) <= packets[expected + 1]
    BY <1>0, <1>2, Boundaries DEF TypeOK
  <2>6. DeliveryInv'
    <3>1. Len(delivered') = packets[expected]
      BY <1>1, <1>4, <2>4
    <3>2. CASE expected + 1 \in held
      BY <1>1, <1>2, <1>3, <1>5, <2>1, <2>3, <2>5, <3>1, <3>2 DEF DeliveryInv
    <3>3. CASE expected + 1 \notin held
      BY <1>1, <1>2, <1>3, <1>5, <2>1, <2>3, <3>1, <3>3 DEF DeliveryInv
    <3>4. QED
      BY <3>2, <3>3
  <2>7. BoundsInv'
    <3>1. expected \in Nat /\ WindowB \in Nat
      BY <1>1, <1>2, SizesArePositive DEF Positive
    <3>2. held \subseteq (expected + 1)..(expected + WindowB - 1)
      BY <1>0 DEF BoundsInv, Holdable
    <3>3. held' \subseteq (expected' + 1)..(expected' + WindowB - 1)
      BY <2>1, <3>1, <3>2
    <3>4. \A r \in retained' : Len(packets') < r + WindowA
      BY <1>0, <1>3 DEF BoundsInv
    <3>5. QED
      BY <3>3, <3>4 DEF BoundsInv, Holdable
  <2>8. QED
    BY <1>6, <2>2, <2>6, <2>7 DEF IInv
<1>9. QED
  BY <1>7, <1>8

LEMMA Inductive == Spec => []IInv
<1>1. IInv /\ [Next]_vars => IInv'
  <2> SUFFICES ASSUME IInv, [Next]_vars PROVE IInv'
    OBVIOUS
  <2>0. /\ wire \subseteq 1..Len(packets) /\ acks \subseteq SUBSET (1..Len(packets))
        /\ ack_pending \in BOOLEAN /\ closed \subseteq {"a", "b"}
        /\ retained \subseteq 1..Len(packets) /\ got \subseteq 1..Len(packets)
    BY Numbering DEF IInv, TypeOK
  <2>1. CASE Send
    BY <2>1, StepSend
  <2>2. CASE \E n \in 1..PerPacket : Flush_reliable(n)
    BY <2>2, StepFlush_reliable
  <2>3. ASSUME NEW i \in Numbers, Flush_retransmit(i) PROVE IInv'
    BY <2>0, <2>3, StepNetwork DEF Flush_retransmit, sender, receiver
  <2>4. ASSUME NEW i \in Numbers, Receive_reliable(i) PROVE IInv'
    BY <2>4, StepReceive_reliable
  <2>5. ASSUME NEW k \in acks, Receive_ack(k) PROVE IInv'
    <3>1. acks' \subseteq acks
      BY <2>5 DEF Receive_ack
    <3>2. QED
      BY <2>0, <2>5, <3>1, StepNetwork DEF Receive_ack, receiver
  <2>6. CASE Deliver
    BY <2>6, StepDeliver
  <2>7. CASE Flush_ack
    <3>1. Acked \subseteq 1..Len(packets)
      BY <2>0 DEF Acked
    <3>2. acks' \subseteq SUBSET (1..Len(packets))
      BY <2>0, <2>7, <3>1 DEF Flush_ack
    <3>3. QED
      BY <2>0, <2>7, <3>2, StepNetwork DEF Flush_ack, sender
  <2>8. CASE Drop
    <3>1. wire' \subseteq wire /\ acks' \subseteq acks
      BY <2>8 DEF Drop
    <3>2. QED
      BY <2>0, <2>8, <3>1, StepNetwork DEF Drop, sender, receiver
  <2>9. ASSUME NEW x \in {"a", "b"}, Close(x) PROVE IInv'
    BY <2>0, <2>9, StepNetwork DEF Close, sender, receiver
  <2>10. CASE UNCHANGED vars
    BY <2>0, <2>10, StepNetwork DEF vars, sender, receiver
  <2>11. QED
    BY <2>1, <2>2, <2>3, <2>4, <2>5, <2>6, <2>7, <2>8, <2>9, <2>10 DEF Next
<1>2. QED
  BY <1>1, InitInv, PTL DEF Spec

(* Type correctness, whatever the windows are. *)
THEOREM NetTypesCorrect == Spec => []TypeOK
BY Inductive, PTL DEF IInv

(* The sender never keeps more than its window of packets nor the receiver *)
(* its own, each whatever the other's window is (dense_net.h 440-444).     *)
THEOREM NetBuffersBounded == Spec => []BuffersBounded
<1>1. IInv => BuffersBounded
  <2> SUFFICES ASSUME IInv PROVE BuffersBounded
    OBVIOUS
  <2> DEFINE l == Len(packets)
  <2>1. /\ l \in Nat /\ expected \in Nat /\ WindowA \in Nat \ {0} /\ WindowB \in Nat \ {0}
        /\ retained \subseteq 1..l
    BY Numbering, SizesArePositive DEF IInv, Positive, TypeOK
  <2>2. retained \subseteq (l - WindowA + 1)..l
    BY <2>1 DEF IInv, BoundsInv
  <2>3. /\ IsFiniteSet((l - WindowA + 1)..l)
        /\ Cardinality((l - WindowA + 1)..l) = WindowA
    BY <2>1, FS_Interval
  <2>4. IsFiniteSet(retained) /\ Cardinality(retained) <= WindowA
    BY <2>2, <2>3, FS_Subset
  <2>5. held \subseteq (expected + 1)..(expected + WindowB - 1)
    BY DEF IInv, BoundsInv, Holdable
  <2>6. /\ IsFiniteSet((expected + 1)..(expected + WindowB - 1))
        /\ Cardinality((expected + 1)..(expected + WindowB - 1)) = WindowB - 1
    <3>1. expected + 1 \in Int /\ expected + WindowB - 1 \in Int
      BY <2>1
    <3>2. WindowB = 1 <=> expected + 1 > expected + WindowB - 1
      BY <2>1
    <3>3. (expected + WindowB - 1) - (expected + 1) + 1 = WindowB - 1
      BY <2>1
    <3>4. QED
      BY <2>1, <3>1, <3>2, <3>3, FS_Interval
  <2>7. IsFiniteSet(held) /\ Cardinality(held) <= WindowB - 1
    BY <2>5, <2>6, FS_Subset
  <2>8. Cardinality(held) \in Nat
    BY <2>7, FS_CardinalityType
  <2>9. QED
    BY <2>1, <2>4, <2>7, <2>8 DEF BuffersBounded
<1>2. QED
  BY <1>1, Inductive, PTL

(* The callback gets the accepted frames once each and in order, whatever  *)
(* the transports do and whatever the windows are (dense_net.h 95,         *)
(* 496-499).                                                               *)
THEOREM ImplementsOrderedStream == Spec => KeepsPromise
<1>1. Init => Stream!StreamInit
  BY DEF Init, Stream!StreamInit
<1>2. IInv /\ [Next]_vars => [Stream!Accept \/ Stream!Arrive]_<<accepted, delivered>>
  <2> SUFFICES ASSUME IInv, [Next]_vars
               PROVE  [Stream!Accept \/ Stream!Arrive]_<<accepted, delivered>>
    OBVIOUS
  <2>1. CASE Send
    BY <2>1 DEF Send, receiver, Stream!Accept
  <2>2. CASE Deliver
    <3>1. /\ delivered' = Append(delivered, Len(delivered) + 1)
          /\ Len(delivered) + 1 \in 1..accepted /\ accepted' = accepted
          /\ Len(delivered) \in Nat /\ accepted \in Nat
      BY <2>2, NextFrame, Numbering DEF Deliver, sender, IInv
    <3>2. QED
      BY <3>1 DEF Stream!Arrive
  <2>3. CASE UNCHANGED <<accepted, delivered>>
    BY <2>3
  <2>4. QED
    BY <2>1, <2>2, <2>3
       DEF Next, vars, sender, receiver, Flush_reliable, Flush_retransmit, Receive_reliable,
           Receive_ack, Flush_ack, Drop, Close
<1>3. QED
  BY <1>1, <1>2, Inductive, PTL DEF Spec, KeepsPromise, Stream!StreamSpec, Stream!svars

-----------------------------------------------------------------------------
(* Nothing is acknowledged that is not kept, if the windows fit *)

LEMMA AckInductive ==
  ASSUME WindowA <= WindowB
  PROVE  Spec => []AckInv
<1>1. Init => AckInv
  BY EmptySeq DEF Init, AckInv
<1>2. IInv /\ AckInv /\ [Next]_vars => AckInv'
  <2> SUFFICES ASSUME IInv, AckInv, [Next]_vars PROVE AckInv'
    OBVIOUS
  <2>0. /\ Len(packets) \in Nat /\ expected \in 1..(Len(packets) + 1) /\ at \in Nat
        /\ wire \subseteq 1..Len(packets) /\ got \subseteq 1..Len(packets)
        /\ held \subseteq 1..Len(packets) /\ retained \subseteq 1..Len(packets)
    BY Numbering DEF IInv, TypeOK
  <2>1. CASE Send
    BY <2>1 DEF AckInv, Send, receiver
  <2>2. ASSUME NEW n \in 1..PerPacket, Flush_reliable(n) PROVE AckInv'
    <3>1. Len(packets') = Len(packets) + 1
      BY <2>2, Appended DEF IInv
    <3>2. QED
      BY <2>0, <2>2, <3>1 DEF AckInv, Flush_reliable, receiver
  <2>3. ASSUME NEW i \in Numbers, Flush_retransmit(i) PROVE AckInv'
    BY <2>3 DEF AckInv, Flush_retransmit, sender, receiver
  <2>4. ASSUME NEW i \in Numbers, Receive_reliable(i) PROVE AckInv'
    <3>1. /\ i \in 1..Len(packets) /\ at = 0
          /\ at' = IF i = expected THEN 1 ELSE 0
          /\ held' = held \cup ({i} \cap Holdable) /\ got' = got \cup {i}
          /\ UNCHANGED <<packets, retained, acks, expected>>
      BY <2>0, <2>4 DEF Receive_reliable, sender
    <3>2. i < expected \/ i = expected \/ i \in Holdable
      <4>1. SUFFICES ASSUME i > expected PROVE i \in Holdable
        BY <2>0, <3>1
      <4>2. expected \in 1..Len(packets) /\ expected \notin got
        BY <2>0, <3>1, <4>1 DEF IInv, DeliveryInv, AckInv
      <4>3. expected \in retained
        BY <4>2 DEF AckInv
      <4>4. Len(packets) < expected + WindowA
        BY <4>3 DEF IInv, BoundsInv
      <4>5. QED
        BY <2>0, <3>1, <4>1, <4>4, SizesArePositive DEF Holdable, Positive
    <3>3. QED
      BY <2>0, <3>1, <3>2 DEF AckInv
  <2>5. ASSUME NEW k \in acks, Receive_ack(k) PROVE AckInv'
    <3>1. /\ acks' \subseteq acks /\ retained' = retained \ k /\ k \subseteq got
          /\ UNCHANGED <<packets, receiver>>
      BY <2>5 DEF Receive_ack, AckInv
    <3>2. QED
      BY <3>1 DEF AckInv, receiver
  <2>6. CASE Deliver
    <3>1. /\ expected \in 1..Len(packets) /\ at > 0
          /\ UNCHANGED <<packets, retained, acks, got>>
      BY <2>6, NextFrame DEF Deliver, sender
    <3>2. \/ expected' = expected /\ held' = held /\ at' = at + 1
          \/ /\ expected' = expected + 1 /\ held' = held \ {expected + 1}
             /\ at' = IF expected + 1 \in held THEN 1 ELSE 0
      BY <2>6 DEF Deliver
    <3>3. QED
      BY <2>0, <3>1, <3>2 DEF AckInv
  <2>7. CASE Flush_ack
    <3>1. Acked \subseteq got
      BY DEF Acked
    <3>2. QED
      BY <2>7, <3>1 DEF AckInv, Flush_ack, sender
  <2>8. CASE Drop
    <3>1. acks' \subseteq acks /\ UNCHANGED <<sender, receiver>>
      BY <2>8 DEF Drop
    <3>2. QED
      BY <3>1 DEF AckInv, sender, receiver
  <2>9. ASSUME NEW x \in {"a", "b"}, Close(x) PROVE AckInv'
    BY <2>9 DEF AckInv, Close, sender, receiver
  <2>10. CASE UNCHANGED vars
    BY <2>10 DEF AckInv, vars, sender, receiver
  <2>11. QED
    BY <2>1, <2>2, <2>3, <2>4, <2>5, <2>6, <2>7, <2>8, <2>9, <2>10 DEF Next
<1>3. QED
  BY <1>1, <1>2, Inductive, PTL DEF Spec

(* A reliable frame is not forgotten before it is delivered                *)
(* (dense_net.h 95), if the receiver's window is at least the sender's:    *)
(* the sessions do not check this, and it fails without it.                *)
THEOREM NetNothingForgotten ==
  ASSUME WindowA <= WindowB
  PROVE  Spec => []NothingForgotten
<1>1. IInv /\ AckInv => NothingForgotten
  <2> SUFFICES ASSUME IInv, AckInv, NEW f \in 1..accepted, ~(f > Packed)
               PROVE  \/ InPackets(f, retained \cup held)
                      \/ at > 0 /\ f \in First(expected)..packets[expected]
                      \/ \E j \in DOMAIN delivered : delivered[j] = f
    BY DEF NothingForgotten
  <2>0. /\ Len(packets) \in Nat /\ expected \in 1..(Len(packets) + 1) /\ at \in Nat
        /\ Packed \in Nat /\ accepted \in Nat /\ Len(delivered) \in Nat
        /\ DOMAIN delivered = 1..Len(delivered) /\ First(expected) \in Nat
        /\ \A i \in 1..Len(packets) : packets[i] \in Nat
    BY Numbering DEF IInv, Frames
  <2>1. f \in 1..Packed
    BY <2>0
  <2>2. PICK i \in 1..Len(packets) : f \in First(i)..packets[i]
    BY <2>1 DEF IInv, PacketsInv, InPackets
  <2>3. CASE i \in retained \cup held
    BY <2>2, <2>3 DEF InPackets
  <2>4. CASE i = expected /\ at > 0
    BY <2>2, <2>4
  <2>5. CASE i < expected
    <3>1. packets[i] < First(expected)
      <4>1. CASE expected \in 1..Len(packets)
        BY <2>5, <4>1, Boundaries DEF IInv
      <4>2. CASE expected \notin 1..Len(packets)
        <5>1. expected = Len(packets) + 1
          BY <2>0, <4>2
        <5>2. First(expected) = Packed + 1 /\ packets[i] <= Packed
          BY <5>1, Boundaries DEF IInv
        <5>3. QED
          BY <2>0, <5>2
      <4>3. QED
        BY <4>1, <4>2
    <3>2. First(expected) - 1 <= Len(delivered)
      BY <2>0 DEF IInv, DeliveryInv
    <3>3. f \in 1..Len(delivered)
      BY <2>0, <2>2, <3>1, <3>2
    <3>4. QED
      BY <2>0, <3>3 DEF IInv, DeliveryInv
  <2>6. QED
    BY <2>3, <2>4, <2>5 DEF AckInv
<1>2. QED
  BY <1>1, Inductive, AckInductive, PTL
=============================================================================
