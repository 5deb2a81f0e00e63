-------------------------- MODULE RecipientWorkset --------------------------
(***************************************************************************)
(* class RecipientWorkset of bindings/cpp/include/dense/dense_sim.hpp       *)
(* (1126-1281): a movable owner of one native workset.  Its views are       *)
(* copies, which the program keeps for as long as it likes, while worlds    *)
(* tick, sources are enqueued and other views are acknowledged; what an     *)
(* acknowledgement carries back is the copied certificate.                  *)
(*                                                                          *)
(* A call on a variable that was moved from hands NULL to the kernel, which *)
(* refuses it; a refused call throws and changes nothing, so neither is a   *)
(* step of its own.  World is passed open, as require_open asks, and is     *)
(* named by the address of its native world.                                *)
(***************************************************************************)
EXTENDS WorksetKernel

CONSTANTS
  Handles,  (* Variables of class RecipientWorkset.                        *)
  Natives,  (* Addresses ds_recipient_workset_create can return.           *)
  Views     (* Variables of class RecipientWorksetView.                    *)

ASSUME NullNotNative == NULL \notin Natives

VARIABLES
  handle,   (* Handles -> the field workset_.                              *)
  alive,    (* Native worksets that exist.                                 *)
  ws,       (* Natives -> the native workset.                              *)
  copy,     (* Views -> what the view copied, and the workset it is from.  *)
  shift,    (* Views -> what has happened since to the recipient: "none",  *)
            (* its "membership" changed, the workset turned to another     *)
            (* "world", or it is "gone".                                   *)
  since     (* Views -> <<entity, channel>> enqueued since it was taken,   *)
            (* as long as nothing has happened to the recipient.           *)

wvars == <<handle, alive, ws, copy, shift, since>>
vars == <<kvars, mvars, wvars>>

NoCopy == [from |-> NULL, recipient |-> NULL, gen |-> 0, entries |-> <<>>]

(* Ownership (1144-1164): a native workset exists exactly while one        *)
(* variable holds it, whatever is moved over whatever.                     *)
SoleOwner ==
  /\ alive = {handle[h] : h \in Handles} \ {NULL}
  /\ \A h, x \in Handles : handle[h] # NULL /\ handle[h] = handle[x] => h = x

TypeOK ==
  /\ KernelTypeOK
  /\ MembershipTypeOK
  /\ handle \in [Handles -> Natives \cup {NULL}]
  /\ alive \in SUBSET Natives
  /\ ws \in [Natives -> [source: Addrs \cup {NULL}, epoch: 0..MaxLease,
                         born: 0..MaxLease, row: [Recipients -> Rows]]]
  /\ copy \in [Views -> [from: Natives \cup {NULL}, gen: Nat, entries: Masks,
                         recipient: Recipients \cup {NULL}]]
  /\ \A v \in Views : copy[v].from # NULL => copy[v].gen > 0
  /\ shift \in [Views -> {"none", "membership", "world", "gone"}]
  /\ since \in [Views -> SUBSET (Entities \X Channels)]
  /\ SoleOwner

Init ==
  /\ MembershipInit
  /\ handle = [h \in Handles |-> NULL]
  /\ alive = {}
  /\ ws = [n \in Natives |-> Unsynced]
  /\ copy = [v \in Views |-> NoCopy]
  /\ shift = [v \in Views |-> "none"]
  /\ since = [v \in Views |-> {}]

-----------------------------------------------------------------------------
(* Ownership.                                                              *)

Workset_construct(h, n) ==
  /\ handle[h] = NULL
  /\ n \notin alive
  /\ handle' = [handle EXCEPT ![h] = n]
  /\ alive' = alive \cup {n}
  /\ UNCHANGED <<kvars, mvars, ws, copy, shift, since>>

(* The variables become hs, and the workset at n, if any, is destroyed. *)
Release(n, hs) ==
  /\ handle' = hs
  /\ alive' = alive \ {n}
  /\ shift' = [v \in Views |-> IF n # NULL /\ copy[v].from = n THEN "gone"
                                                              ELSE shift[v]]
  /\ since' = [v \in Views |-> IF shift'[v] = "none" THEN since[v] ELSE {}]
  /\ ws' = [m \in Natives |-> IF m = n THEN Unsynced ELSE ws[m]]
  /\ UNCHANGED <<kvars, mvars, copy>>

(* Defect: the assignment forgets what the variable owned. *)
Workset_move_leaks(h, x) ==
  /\ h # x
  /\ Release(NULL, [handle EXCEPT ![h] = handle[x], ![x] = NULL])

(* h is constructed from, or assigned, std::move(x). *)
Workset_move(h, x) ==
  /\ h # x
  /\ Release(handle[h], [handle EXCEPT ![h] = handle[x], ![x] = NULL])

Workset_destruct(h) == Release(handle[h], [handle EXCEPT ![h] = NULL])

-----------------------------------------------------------------------------
(* Calls on the native workset of h.                                       *)

Call(h) == handle[h] # NULL /\ UNCHANGED <<kvars, mvars>>

(* What a synchronization with the world at a does to the recipient of v. *)
ShiftOf(v, n, new, a) ==
  LET r == copy[v].recipient IN
  IF copy[v].from # n \/ shift[v] = "gone" THEN shift[v]
  ELSE IF ws[n].source # a \/ ws[n].born # born[a] THEN "world"
  ELSE IF /\ shift[v] = "none"
          /\ new # ws[n]
          /\ \/ DOMAIN new.row[r].mask # DOMAIN copy[v].entries
             \/ new.epoch = ws[n].epoch + 1 /\ leave[a][r] \cap DOMAIN copy[v].entries # {}
       THEN "membership" ELSE shift[v]

Workset_sync(h, a) ==
  /\ Call(h)
  /\ CanSync(a)
  /\ LET n == handle[h] IN
       /\ ws' = [ws EXCEPT ![n] = Synced(ws[n], a)]
       /\ shift' = [v \in Views |-> ShiftOf(v, n, ws'[n], a)]
  /\ since' = [v \in Views |-> IF shift'[v] = "none" THEN since[v] ELSE {}]
  /\ UNCHANGED <<handle, alive, copy>>

Workset_enqueue_source(h, a, e, m) ==
  /\ Call(h)
  /\ CanEnqueue(ws[handle[h]], a, e)
  /\ LET n == handle[h] IN
       /\ ws' = [ws EXCEPT ![n] = Enqueued(ws[n], a, e, m)]
       /\ since' = [v \in Views |->
            IF /\ copy[v].from = n /\ shift[v] = "none"
               /\ copy[v].recipient \in Audience(a, e)
            THEN since[v] \cup ({e} \X m) ELSE since[v]]
  /\ UNCHANGED <<handle, alive, copy, shift>>

(* Defect: the loop that copies the entries stops one short. *)
Workset_view_short(h, r, v) ==
  /\ Call(h)
  /\ CanView(ws[handle[h]])
  /\ LET row == ws[handle[h]].row[r] IN
     \E last \in DOMAIN row.mask :
       copy' = [copy EXCEPT ![v] =
                  [from |-> handle[h], recipient |-> r, gen |-> row.gen,
                   entries |-> [e \in DOMAIN row.mask \ {last} |-> row.mask[e]]]]
  /\ shift' = [shift EXCEPT ![v] = "none"]
  /\ since' = [since EXCEPT ![v] = {}]
  /\ UNCHANGED <<handle, alive, ws>>

Workset_view(h, r, v) ==
  /\ Call(h)
  /\ CanView(ws[handle[h]])
  /\ LET row == ws[handle[h]].row[r] IN
       copy' = [copy EXCEPT ![v] = [from |-> handle[h], recipient |-> r,
                                    gen |-> row.gen, entries |-> row.mask]]
  /\ shift' = [shift EXCEPT ![v] = "none"]
  /\ since' = [since EXCEPT ![v] = {}]
  /\ UNCHANGED <<handle, alive, ws>>

(* Defect: the generation is looked up afresh, not taken from the copy. *)
Accepts_afresh(n, v) ==
  /\ copy[v].from # NULL
  /\ Matches(ws[n], copy[v].recipient, ws[n].row[copy[v].recipient].gen,
             DOMAIN copy[v].entries)

(* The kernel accepts the certificate that v carries. *)
Accepts(n, v) ==
  /\ copy[v].from # NULL
  /\ Matches(ws[n], copy[v].recipient, copy[v].gen, DOMAIN copy[v].entries)

Workset_acknowledge(h, v, e, m) ==
  /\ Call(h)
  /\ Accepts(handle[h], v)
  /\ e \in DOMAIN copy[v].entries
  /\ ws' = [ws EXCEPT ![handle[h]] = Acknowledged(@, copy[v].recipient, e, m)]
  /\ UNCHANGED <<handle, alive, copy, shift, since>>

Workset_clear(h, v) ==
  /\ Call(h)
  /\ Accepts(handle[h], v)
  /\ ws' = [ws EXCEPT ![handle[h]] = Cleared(@, copy[v].recipient)]
  /\ UNCHANGED <<handle, alive, copy, shift, since>>

-----------------------------------------------------------------------------
(* The worlds around it. *)
WorldStep(a) ==
  /\ \/ WorldCreate(a)
     \/ WorldDestroy(a)
     \/ WorldBegin(a)
     \/ \E seen, again \in Membership : WorldEnd(a, seen, again)
  /\ UNCHANGED <<handle, alive, ws, copy, shift, since>>

HandleStep(h) ==
  \/ \E n \in Natives : Workset_construct(h, n)
  \/ \E x \in Handles : Workset_move(h, x)
  \/ Workset_destruct(h)
  \/ \E a \in Addrs : Workset_sync(h, a)
  \/ \E a \in Addrs, e \in Entities, m \in SUBSET Channels \ {{}} :
       Workset_enqueue_source(h, a, e, m)

ViewStep(h, v) ==
  \/ \E r \in Recipients : Workset_view(h, r, v)
  \/ \E e \in Entities, m \in SUBSET Channels \ {{}} :
       Workset_acknowledge(h, v, e, m)
  \/ Workset_clear(h, v)

Next ==
  \/ \E a \in Addrs : WorldStep(a)
  \/ \E h \in Handles : HandleStep(h)
  \/ \E h \in Handles, v \in Views : ViewStep(h, v)

Spec == Init /\ [][Next]_vars

-----------------------------------------------------------------------------
Visible(n, r) == DOMAIN ws[n].row[r].mask

(* The workset at n was last built from the world that is now at a, as of  *)
(* its last finalized tick.                                                *)
UpToDate(n, a) ==
  /\ n \in alive /\ Live(a)
  /\ ws[n].source = a /\ ws[n].epoch = epoch[a] /\ ws[n].born = born[a]

(* v copied from a workset that still exists and serves the same world.    *)
Current(v) == copy[v].from # NULL /\ shift[v] \in {"none", "membership"}

(* dense_sim.h 157-158, 280-284: edit by edit or by rebuilding, the rows of *)
(* a workset that is up to date are the visibility relation of its world.  *)
MembershipExact ==
  \A n \in Natives, a \in Addrs : UpToDate(n, a) =>
    \A r \in Recipients : Visible(n, r) = relation[a][r]

(* What a copy is good for (1193-1215): as long as the membership of its   *)
(* recipient stands, everything pending was either in the copy or was      *)
(* enqueued after it was taken.  Clearing by a copy that nothing was       *)
(* enqueued after therefore loses nothing its holder has not seen.         *)
PendingAccounted ==
  \A v \in Views : Current(v) /\ shift[v] = "none" =>
    LET n == copy[v].from
        r == copy[v].recipient IN
    /\ Accepts(n, v)
    /\ \A e \in Visible(n, r) :
         ws[n].row[r].mask[e] \subseteq
           copy[v].entries[e] \cup {c \in Channels : <<e, c>> \in since[v]}

(* dense_sim.h 307-310: once the membership of the recipient has changed,  *)
(* the certificate is refused, even when the same entities are visible     *)
(* again and whatever else was acknowledged in between.                    *)
ChangedMembershipRefused ==
  \A v \in Views : Current(v) /\ shift[v] = "membership" =>
    ~Accepts(copy[v].from, v)

(* What synchronizing n with the world at a keeps: everything pending of   *)
(* an entity that stays visible.  One that left within the one tick whose  *)
(* edits are applied did not stay, though it may be back.                  *)
Retains(n, a) ==
  \A r \in Recipients :
    LET old == ws[n].row[r].mask
        new == ws'[n].row[r].mask IN
    \A e \in (DOMAIN old \cap DOMAIN new) \ Gone(ws[n], a, r) : old[e] \subseteq new[e]

(* dense_sim.h 281-283, in part: however many ticks were missed, nothing   *)
(* pending is lost by synchronizing with the world the workset serves.     *)
SameWorldRetained ==
  [][\A h \in Handles, n \in Natives, a \in Addrs :
       handle[h] = n /\ ws[n].source = a /\ Workset_sync(h, a) => Retains(n, a)]_vars

(* dense_sim.h 281-283 as it stands ("a missed sync or world change        *)
(* enumerates the factorized relation while retaining still-visible        *)
(* dirtiness"): the same when the workset turns to another world.          *)
StillVisibleRetained ==
  [][\A h \in Handles, n \in Natives, a \in Addrs :
       handle[h] = n /\ Workset_sync(h, a) => Retains(n, a)]_vars

(* docs/LIBDENSE-SIM.md 28-29: a world change causes an authoritative      *)
(* rebuild, so a workset that was synchronized shows its world.  The       *)
(* wrapper passes the world's address, which a new World may have got from *)
(* one that is gone.                                                       *)
SyncShowsItsWorld ==
  [][\A h \in Handles, a \in Addrs : Workset_sync(h, a) =>
       \A r \in Recipients : Visible(handle[h], r)' = relation[a][r]]_vars
=============================================================================
