---------------------------- MODULE DurableTicks ----------------------------
(***************************************************************************)
(* What a tick-based durable database promises, whatever its files are:    *)
(* its contents are always those at the end of some tick, a tick joins     *)
(* them whole, and a failure only takes ticks back from the end, never one *)
(* the host was told is safe.                                              *)
(***************************************************************************)
EXTENDS Naturals

CONSTANTS
  Commands, (* What a tick can do to the tables.                           *)
  MaxTick   (* The last tick.                                              *)

VARIABLES
  contents, (* The last tick that ended, and the rows of all of them.      *)
  promised  (* The last tick the host was told survives a power loss.      *)

dvars == <<contents, promised>>

(* The rows at the end of tick t. *)
AsOf(t) == [tick |-> t, rows |-> {r \in contents.rows : r[1] <= t}]

DurableInit ==
  /\ contents = [tick |-> 0, rows |-> {}]
  /\ promised = 0

Finish(t, commands) ==
  /\ contents.tick < t
  /\ contents' = [tick |-> t, rows |-> contents.rows \cup ({t} \X commands)]
  /\ UNCHANGED promised

Promise(t) ==
  /\ promised' = t
  /\ UNCHANGED contents

Lose(t) ==
  /\ contents' = AsOf(t)
  /\ UNCHANGED promised

DurableNext ==
  \/ \E t \in 1..MaxTick, commands \in SUBSET Commands : Finish(t, commands)
  \/ \E t \in promised..contents.tick : Promise(t) \/ Lose(t)

DurableSpec == DurableInit /\ [][DurableNext]_dvars
=============================================================================
