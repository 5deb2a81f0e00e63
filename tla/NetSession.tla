----------------------------- MODULE NetSession -----------------------------
(***************************************************************************)
(* The reliable lane between two dn_sessions: a sends frames, b receives   *)
(* them over a transport that loses, duplicates and reorders packets, and  *)
(* acknowledges packets, not frames.  Frames are queued, bundled into      *)
(* numbered packets, retained until acknowledged and sent again when due;  *)
(* b holds packets that came early and hands frames to a callback in order.*)
(*                                                                         *)
(* The library's C sources are not published: the interface and what each  *)
(* call does are those of include/dense/dense_net.h, and how packets,      *)
(* windows and acknowledgements work was observed on the library of the    *)
(* shipped archives (README, "Networking").                                *)
(*                                                                         *)
(* A flush is modelled packet by packet: its byte budget or the transport  *)
(* may end it after any of them, and the peer may receive one before the   *)
(* next is sent.  Time is left out: any retained packet may be due, any    *)
(* session may time out.  A packet's number, 16 bits wide in the code, is  *)
(* not wrapped: a packet would have to be 2^15 packets late to be taken    *)
(* for another.  A closed session finishes the receive call it is in, here *)
(* as if it was closed after it.  Left out: the other lanes, keepalives,   *)
(* malformed packets, and a callback that calls receive itself.            *)
(***************************************************************************)
EXTENDS Naturals, Sequences, FiniteSets

CONSTANTS
  WindowA, WindowB, (* reliable_window of a and of b.                      *)
  Capacity,         (* reliable_frame_capacity of a.                       *)
  PerPacket,        (* Frames that fit max_packet_size.                    *)
  AckSpan,          (* Packets below the highest an ack can name: 64.      *)
  MaxFrames,        (* Bound: frames accepted.                             *)
  MaxAcks           (* Bound: different acks on their way.                 *)

Positive == Nat \ {0}

ASSUME SizesArePositive ==
  /\ WindowA \in Positive /\ WindowB \in Positive
  /\ Capacity \in Positive /\ PerPacket \in Positive /\ AckSpan \in Nat
  /\ MaxFrames \in Positive /\ MaxAcks \in Positive

VARIABLES
  (* a *)
  accepted,    (* Frames dn_session_send took, numbered from 1.            *)
  packets,     (* For each packet number, from 1, the last of its frames.  *)
  retained,    (* Packets kept to be sent again.                           *)
  (* the transports *)
  wire,        (* Packets on their way to b.                               *)
  acks,        (* Acks on their way to a: the packets each one names.      *)
  (* b *)
  expected,    (* The packet whose frames are handed over next, or now.    *)
  at,          (* The frame of it that is next, 0 if it is not there yet.  *)
  held,        (* Packets that came before their turn.                     *)
  got,         (* Packets the ack state knows of.                          *)
  ack_pending, (* The next flush sends an ack.                             *)
  delivered,   (* The frames the callback was invoked with.                *)
  closed       (* Sessions that were closed or timed out.                  *)

sender   == <<accepted, packets, retained>>
receiver == <<expected, at, held, got, ack_pending, delivered>>
vars     == <<sender, wire, acks, receiver, closed>>

Frames  == 1..MaxFrames
Numbers == 1..MaxFrames

TypeOK ==
  /\ accepted \in 0..MaxFrames
  /\ packets \in Seq(Frames)
  /\ retained \subseteq DOMAIN packets
  /\ wire \subseteq DOMAIN packets
  /\ acks \subseteq SUBSET DOMAIN packets
  /\ expected \in 1..(Len(packets) + 1)
  /\ at \in 0..MaxFrames
  /\ held \subseteq DOMAIN packets /\ got \subseteq DOMAIN packets
  /\ ack_pending \in BOOLEAN
  /\ delivered \in Seq(1..accepted)
  /\ closed \subseteq {"a", "b"}

Init ==
  /\ accepted = 0 /\ packets = <<>> /\ retained = {}
  /\ wire = {} /\ acks = {}
  /\ expected = 1 /\ at = 0 /\ held = {} /\ got = {}
  /\ ack_pending = FALSE /\ delivered = <<>>
  /\ closed = {}

-----------------------------------------------------------------------------
(* The sender *)

First(i) == IF i = 1 THEN 1 ELSE packets[i - 1] + 1

(* Frames that are in packets; the others are queued. *)
Packed == IF packets = <<>> THEN 0 ELSE packets[Len(packets)]

(* DN_AGAIN when the queue is full. *)
Send ==
  /\ "a" \notin closed
  /\ accepted < MaxFrames
  /\ accepted - Packed < Capacity
  /\ accepted' = accepted + 1
  /\ UNCHANGED <<packets, retained, wire, acks, receiver, closed>>

(* The oldest packet that is not acknowledged holds the window. *)
InWindow(i) == \A r \in retained : i < r + WindowA

(* Defect: the packets in flight are not counted. *)
Flush_reliable_unwindowed(n) ==
  /\ "a" \notin closed
  /\ n <= accepted - Packed
  /\ packets' = Append(packets, Packed + n)
  /\ retained' = retained \cup {Len(packets) + 1}
  /\ wire' = wire \cup {Len(packets) + 1}
  /\ UNCHANGED <<accepted, acks, receiver, closed>>

(* The n oldest queued frames leave as one packet. *)
Flush_reliable(n) ==
  /\ "a" \notin closed
  /\ n <= accepted - Packed
  /\ InWindow(Len(packets) + 1)
  /\ packets' = Append(packets, Packed + n)
  /\ retained' = retained \cup {Len(packets) + 1}
  /\ wire' = wire \cup {Len(packets) + 1}
  /\ UNCHANGED <<accepted, acks, receiver, closed>>

(* A retained packet is due, and sent again as it was. *)
Flush_retransmit(i) ==
  /\ "a" \notin closed
  /\ i \in retained
  /\ wire' = wire \cup {i}
  /\ UNCHANGED <<sender, acks, receiver, closed>>

(* Defect: the highest number of an ack frees every packet below it. *)
Receive_ack_cumulative(k) ==
  /\ "a" \notin closed
  /\ k \in acks
  /\ retained' = {r \in retained : \A i \in k : i < r}
  /\ acks' \in {acks, acks \ {k}}
  /\ UNCHANGED <<accepted, packets, wire, receiver, closed>>

Receive_ack(k) ==
  /\ "a" \notin closed
  /\ k \in acks
  /\ retained' = retained \ k
  /\ acks' \in {acks, acks \ {k}}
  /\ UNCHANGED <<accepted, packets, wire, receiver, closed>>

-----------------------------------------------------------------------------
(* The receiver *)

(* Packets that are held until their turn comes. *)
Holdable == (expected + 1)..(expected + WindowB - 1)

(* Defect: a packet that came before is not acknowledged again. *)
Receive_reliable_silent(i) ==
  /\ "b" \notin closed /\ at = 0
  /\ i \in wire
  /\ wire' \in {wire, wire \ {i}}
  /\ at' = IF i = expected THEN 1 ELSE 0
  /\ held' = held \cup ({i} \cap Holdable)
  /\ got' = got \cup {i}
  /\ ack_pending' = (ack_pending \/ i \notin got)
  /\ UNCHANGED <<sender, acks, expected, delivered, closed>>

(* A packet the transport delivers, maybe not for the last time.  Its      *)
(* frames are handed over if it is the next one; beyond the window and if  *)
(* it came before it is dropped.  It is acknowledged whatever becomes of it*)
Receive_reliable(i) ==
  /\ "b" \notin closed /\ at = 0
  /\ i \in wire
  /\ wire' \in {wire, wire \ {i}}
  /\ at' = IF i = expected THEN 1 ELSE 0
  /\ held' = held \cup ({i} \cap Holdable)
  /\ got' = got \cup {i}
  /\ ack_pending' = TRUE
  /\ UNCHANGED <<sender, acks, expected, delivered, closed>>

(* Defect: the held packets are drained over a gap. *)
Deliver_over_gap ==
  /\ at > 0
  /\ delivered' = Append(delivered, First(expected) + at - 1)
  /\ IF First(expected) + at - 1 < packets[expected]
     THEN at' = at + 1 /\ UNCHANGED <<expected, held>>
     ELSE LET ahead == {i \in held : \A j \in held : i <= j} IN
          /\ expected' = IF held = {} THEN expected + 1 ELSE CHOOSE i \in ahead : TRUE
          /\ held' = held \ ahead
          /\ at' = IF held = {} THEN 0 ELSE 1
  /\ UNCHANGED <<sender, wire, acks, got, ack_pending, closed>>

(* Defect: the loop over a packet's frames runs once too often. *)
Deliver_overruns ==
  /\ at > 0
  /\ delivered' = Append(delivered, First(expected) + at - 1)
  /\ IF First(expected) + at - 1 <= packets[expected]
     THEN at' = at + 1 /\ UNCHANGED <<expected, held>>
     ELSE /\ expected' = expected + 1
          /\ held' = held \ {expected + 1}
          /\ at' = IF expected + 1 \in held THEN 1 ELSE 0
  /\ UNCHANGED <<sender, wire, acks, got, ack_pending, closed>>

(* The callback gets one frame, and may send, flush and close before the   *)
(* next.  After the last one of a packet comes the next packet, if held.   *)
Deliver ==
  /\ at > 0
  /\ delivered' = Append(delivered, First(expected) + at - 1)
  /\ IF First(expected) + at - 1 < packets[expected]
     THEN at' = at + 1 /\ UNCHANGED <<expected, held>>
     ELSE /\ expected' = expected + 1
          /\ held' = held \ {expected + 1}
          /\ at' = IF expected + 1 \in held THEN 1 ELSE 0
  /\ UNCHANGED <<sender, wire, acks, got, ack_pending, closed>>

(* The highest packet received, and the bitmap of those just below it. *)
Acked == {i \in got : \A j \in got : j <= i + AckSpan}

(* An ack packet is sent, and may overflow the way back. *)
Flush_ack ==
  /\ "b" \notin closed
  /\ ack_pending
  /\ ack_pending' = FALSE
  /\ \E kept \in SUBSET acks :
       /\ Cardinality(kept) < MaxAcks
       /\ acks' = kept \cup {Acked}
  /\ UNCHANGED <<sender, wire, expected, at, held, got, delivered, closed>>

-----------------------------------------------------------------------------
(* Failures *)

(* A transport refuses or loses a packet. *)
Drop ==
  /\ \/ \E i \in wire : wire' = wire \ {i} /\ UNCHANGED acks
     \/ \E k \in acks : acks' = acks \ {k} /\ UNCHANGED wire
  /\ UNCHANGED <<sender, receiver, closed>>

(* dn_session_close, or the peer was silent for receive_timeout_ns. *)
Close(x) ==
  /\ x \notin closed
  /\ closed' = closed \cup {x}
  /\ UNCHANGED <<sender, wire, acks, receiver>>

-----------------------------------------------------------------------------
Next ==
  \/ Send
  \/ \E n \in 1..PerPacket : Flush_reliable(n)
  \/ \E i \in Numbers : Flush_retransmit(i) \/ Receive_reliable(i)
  \/ \E k \in acks : Receive_ack(k)
  \/ Deliver \/ Flush_ack \/ Drop
  \/ \E x \in {"a", "b"} : Close(x)

(* Both hosts call flush and receive again and again with the time going   *)
(* on, and of a packet that is sent again and again some copy arrives.     *)
Fairness ==
  /\ WF_vars(\E n \in 1..PerPacket : Flush_reliable(n))
  /\ WF_vars(Deliver) /\ WF_vars(Flush_ack)
  /\ \A i \in Numbers :
       /\ WF_vars(Flush_retransmit(i))
       /\ SF_vars(Receive_reliable(i))
       /\ SF_vars(\E k \in acks : i \in k /\ Receive_ack(k))

Spec == Init /\ [][Next]_vars /\ Fairness

-----------------------------------------------------------------------------
(* Properties *)

InPackets(f, S) == \E i \in S : f \in First(i)..packets[i]

(* A reliable frame must arrive (dense_net.h 95): until it does, it is     *)
(* queued, or in a packet that is retained, held or being handed over.     *)
NothingForgotten ==
  \A f \in 1..accepted :
    \/ f > Packed
    \/ InPackets(f, retained \cup held)
    \/ at > 0 /\ f \in First(expected)..packets[expected]
    \/ \E j \in DOMAIN delivered : delivered[j] = f

(* What the two sessions keep of packets never needs more than two windows *)
(* of the shared buffers (dense_net.h 440-444).                            *)
BuffersBounded ==
  /\ Cardinality(retained) <= WindowA
  /\ Cardinality(held) < WindowB

Stream == INSTANCE OrderedStream WITH sent <- accepted, arrived <- delivered

(* However packets are lost, repeated and overtaken, the callback gets     *)
(* every frame at most once and in the order they were sent                *)
(* (dense_net.h 95, 496-499).                                              *)
KeepsPromise == Stream!StreamSpec

(* Unless a session closes, whenever the host stops sending every frame it *)
(* sent arrives, and every packet is acknowledged and given back (MaxFrames*)
(* makes it stop).                                                         *)
EverythingSettles ==
  []<>(closed # {} \/ (Len(delivered) = accepted /\ retained = {}))
=============================================================================
