---------------------------- MODULE OrderedStream ----------------------------
(***************************************************************************)
(* What a reliable message stream promises: the frames that were accepted  *)
(* arrive once each and in the order they were accepted in.                *)
(***************************************************************************)
EXTENDS Naturals, Sequences

CONSTANT MaxFrames (* The last frame.                                      *)

VARIABLES
  sent,    (* How many frames were accepted; they are numbered from 1.     *)
  arrived  (* The frames that arrived, as they arrived.                    *)

svars == <<sent, arrived>>

StreamInit == sent = 0 /\ arrived = <<>>

Accept ==
  /\ sent < MaxFrames
  /\ sent' = sent + 1
  /\ UNCHANGED arrived

Arrive ==
  /\ Len(arrived) < sent
  /\ arrived' = Append(arrived, Len(arrived) + 1)
  /\ UNCHANGED sent

StreamSpec == StreamInit /\ [][Accept \/ Arrive]_svars
=============================================================================
