---------------------------- MODULE FanoutLease ----------------------------
(***************************************************************************)
(* What a binding promises about the fanout views it hands out, whatever   *)
(* the language: a view answers with the data of the borrow period it was  *)
(* taken in as long as that period is the current one of its world, and    *)
(* refuses from then on, even when the world is re-created or ticks again. *)
(* Letting go of a view never takes a period away from another view.       *)
(***************************************************************************)
EXTENDS Naturals

CONSTANTS
  Worlds,   (* World objects of the language.                              *)
  Views,    (* View objects of the language.                               *)
  None      (* "no view", "no answer".                                     *)

VARIABLES
  current,  (* Worlds -> current borrow period, 0 when there is none.      *)
  granted,  (* Views -> <<world, period>> it was taken in, or None.        *)
  spent,    (* The highest period any world has had.                       *)
  answer    (* <<view, reply, period>> of the step that asked, else None.  *)

lvars == <<current, granted, spent, answer>>

LeaseInit ==
  /\ current = [w \in Worlds |-> 0]
  /\ granted = [v \in Views |-> None]
  /\ spent = 0
  /\ answer = None

Entitled(v) == granted[v] # None /\ current[granted[v][1]] = granted[v][2]

(* A period starts: the world is (re-)created or its next tick begins. *)
Renew(w) ==
  /\ spent' = spent + 1
  /\ current' = [current EXCEPT ![w] = spent + 1]
  /\ answer' = None
  /\ UNCHANGED granted

(* The world is closed. *)
End(w) ==
  /\ current' = [current EXCEPT ![w] = 0]
  /\ answer' = None
  /\ UNCHANGED <<granted, spent>>

Grant(v, w) ==
  /\ granted[v] = None
  /\ current[w] # 0
  /\ granted' = [granted EXCEPT ![v] = <<w, current[w]>>]
  /\ answer' = None
  /\ UNCHANGED <<current, spent>>

(* v lets go of what it was granted.  Its world may go away with it, but   *)
(* only when no other view was granted on that world.                      *)
LetGo(v) ==
  \/ UNCHANGED current
  \/ /\ granted[v] # None
     /\ LET w == granted[v][1] IN
          /\ \A u \in Views \ {v} : granted[u] # None => granted[u][1] # w
          /\ current' = [current EXCEPT ![w] = 0]

Forget(v) ==
  /\ LetGo(v)
  /\ granted' = [granted EXCEPT ![v] = None]
  /\ answer' = None
  /\ UNCHANGED spent

(* u becomes a copy of v, or takes over what v was granted. *)
Share(v, u) ==
  /\ u # v
  /\ LetGo(u)
  /\ granted' \in {[granted EXCEPT ![u] = granted[v]],
                  [granted EXCEPT ![u] = granted[v], ![v] = None]}
  /\ answer' = None
  /\ UNCHANGED spent

Ask(v) ==
  /\ answer' = IF Entitled(v) THEN <<v, "data", granted[v][2]>>
                              ELSE <<v, "refused", 0>>
  /\ UNCHANGED <<current, granted, spent>>

(* A step that asks nothing. *)
Silent ==
  /\ answer' = None
  /\ UNCHANGED <<current, granted, spent>>

LeaseNext ==
  \/ \E w \in Worlds : Renew(w) \/ End(w) \/ \E v \in Views : Grant(v, w)
  \/ \E v \in Views : Forget(v) \/ Ask(v) \/ \E u \in Views : Share(v, u)
  \/ Silent

LeaseSpec == LeaseInit /\ [][LeaseNext]_lvars
=============================================================================
