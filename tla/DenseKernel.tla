---------------------------- MODULE DenseKernel ----------------------------
(***************************************************************************)
(* The native simulation kernel (libdense_sim), as far as the language     *)
(* bindings depend on it: which ds_world pointers are alive, where each    *)
(* world stands in its tick, and which borrow of the finalized fanout      *)
(* buffers is current.  The kernel is shipped as a binary; the operators   *)
(* follow how the bindings call it and the contract of dense_sim.h         *)
(* (221-269), and are external to the source.                              *)
(*                                                                         *)
(* A world is identified by its address.  An address that was destroyed    *)
(* may be handed out again by a later ds_world_create, as malloc does.     *)
(* A successful ds_world_begin_tick ends every borrow of that world's      *)
(* finalized buffers: lease numbers the borrow periods of all worlds, and  *)
(* no number is ever issued twice.                                         *)
(***************************************************************************)
EXTENDS Naturals

CONSTANTS
  Addrs,    (* Addresses ds_world_create can return.                       *)
  NULL,     (* The null pointer, also "no object" in the bindings.         *)
  MaxLease  (* Bound: borrow periods issued over a behaviour.              *)

ASSUME NullNotAddr == NULL \notin Addrs
ASSUME MaxLeaseNat == MaxLease \in Nat

VARIABLES
  status,   (* Addrs -> where the world at that address stands.            *)
  lease,    (* Addrs -> number of the address's current borrow period.     *)
  issued    (* The highest borrow period issued so far.                    *)

kvars == <<status, lease, issued>>

(* "free": no world here; "fresh": no finalized tick yet; "open": a tick   *)
(* is open; "final": the last tick is finalized, its fanout can be lent.   *)
Statuses == {"free", "fresh", "open", "final"}

KernelTypeOK ==
  /\ status \in [Addrs -> Statuses]
  /\ lease \in [Addrs -> 0..MaxLease]
  /\ issued \in 0..MaxLease

KernelInit ==
  /\ status = [a \in Addrs |-> "free"]
  /\ lease  = [a \in Addrs |-> 0]
  /\ issued = 0

Live(a) == a \in Addrs /\ status[a] # "free"

-----------------------------------------------------------------------------
(* The effect of each call that succeeds.  A call that fails leaves the    *)
(* kernel as it was.                                                       *)

(* ds_world_destroy: accepts NULL and then does nothing. *)
Destroyed(st, p) == [a \in Addrs |-> IF a = p THEN "free" ELSE st[a]]

(* ds_world_create returns a fresh world at a. *)
Created(st, a) == [st EXCEPT ![a] = "fresh"]

NewLease(a) ==
  /\ issued < MaxLease
  /\ issued' = issued + 1
  /\ lease' = [lease EXCEPT ![a] = issued + 1]

(* ds_world_begin_tick: refused while a tick is open, and for a tick       *)
(* number that does not increase, which the caller picks.                  *)
CanBegin(a) == status[a] \in {"fresh", "final"}

KernelBegin(a) ==
  /\ CanBegin(a)
  /\ status' = [status EXCEPT ![a] = "open"]
  /\ NewLease(a)

(* ds_world_end_tick: refused unless a tick is open; running out of memory *)
(* while finalizing leaves the tick open.                                  *)
KernelEnd(a) ==
  /\ status[a] = "open"
  /\ status' = [status EXCEPT ![a] = "final"]
  /\ UNCHANGED <<lease, issued>>

(* ds_world_get_fanout_view: only the finalized tick's buffers are lent. *)
CanLend(a) == status[a] = "final"

(* A borrowed span <<address, lease>> may be read while its world lives    *)
(* and its period is the current one.                                      *)
Lent(a, n) == Live(a) /\ status[a] = "final" /\ lease[a] = n
=============================================================================
