--------------------------- MODULE WorksetKernel ---------------------------
(***************************************************************************)
(* The recipient workset of the native kernel: the membership of a world   *)
(* as of its last finalized tick, and what each workset call makes of one  *)
(* native workset.  External: the operators follow dense_sim.h (157-189,   *)
(* 280-324) and what the shipped lib/linux-x86_64/libdense_sim.a answers.  *)
(* The header leaves open which calls are refused, that a world is known   *)
(* by its address and the number of ticks it has finalized, and that a     *)
(* recipient's generation restarts at 1 when the workset turns to another  *)
(* world; these were observed.  Of the masks it says (281-283) that those  *)
(* of still-visible entities are kept over a missed synchronization and    *)
(* over a change of world.  The archive keeps them over the first and      *)
(* clears them over the second, and that is what Synced does.              *)
(*                                                                         *)
(* Recipients are observers that exist in every world, as their ids count  *)
(* from 1 in each.  Equal visible sets stand for equal fingerprints.       *)
(***************************************************************************)
EXTENDS DenseKernel

CONSTANTS
  Recipients,   (* Observer ids.                                           *)
  Entities,     (* Entity ids.                                             *)
  Channels      (* Dirty channels.                                         *)

VARIABLES
  epoch,     (* Addrs -> number of ticks the world has finalized.          *)
  relation,  (* Addrs -> Recipients -> visible entities, as finalized.     *)
  enter,     (* Addrs -> Recipients -> ENTER entries of that tick.         *)
  leave,     (* Addrs -> Recipients -> LEAVE entries of that tick.         *)
  born       (* Addrs -> borrow period the world was created in, which     *)
             (* tells apart worlds that had the same address.              *)

mvars == <<epoch, relation, enter, leave, born>>

Membership == [Recipients -> SUBSET Entities]
Nobody == [r \in Recipients |-> {}]

(* A row is what a workset keeps of a recipient: the generation, and the   *)
(* pending channels of each visible entity.                                *)
Masks == UNION {[seen -> SUBSET Channels] : seen \in SUBSET Entities}
Rows == [gen: Nat, mask: Masks]
Unsynced == [source |-> NULL, epoch |-> 0, born |-> 0,
             row |-> [r \in Recipients |-> [gen |-> 0, mask |-> <<>>]]]

MembershipTypeOK ==
  /\ epoch \in [Addrs -> 0..MaxLease]
  /\ {relation, enter, leave} \subseteq [Addrs -> Membership]
  /\ born \in [Addrs -> 0..MaxLease]

MembershipInit ==
  /\ KernelInit
  /\ epoch = [a \in Addrs |-> 0]
  /\ relation = [a \in Addrs |-> Nobody]
  /\ enter = [a \in Addrs |-> Nobody]
  /\ leave = [a \in Addrs |-> Nobody]
  /\ born = [a \in Addrs |-> 0]

WorldCreate(a) ==
  /\ status[a] = "free"
  /\ status' = Created(status, a)
  /\ NewLease(a)
  /\ epoch' = [epoch EXCEPT ![a] = 0]
  /\ relation' = [relation EXCEPT ![a] = Nobody]
  /\ enter' = [enter EXCEPT ![a] = Nobody]
  /\ leave' = [leave EXCEPT ![a] = Nobody]
  /\ born' = [born EXCEPT ![a] = issued + 1]

WorldDestroy(a) ==
  /\ Live(a)
  /\ status' = Destroyed(status, a)
  /\ epoch' = [epoch EXCEPT ![a] = 0]
  /\ relation' = [relation EXCEPT ![a] = Nobody]
  /\ enter' = [enter EXCEPT ![a] = Nobody]
  /\ leave' = [leave EXCEPT ![a] = Nobody]
  /\ UNCHANGED <<lease, issued, born>>

WorldBegin(a) == KernelBegin(a) /\ UNCHANGED mvars

(* A tick is finalized: the visible sets are seen, and the entities again  *)
(* left and came back within the tick.                                     *)
WorldEnd(a, seen, again) ==
  /\ KernelEnd(a)
  /\ \A r \in Recipients : again[r] \subseteq relation[a][r] \cap seen[r]
  /\ epoch' = [epoch EXCEPT ![a] = @ + 1]
  /\ relation' = [relation EXCEPT ![a] = seen]
  /\ enter' = [enter EXCEPT ![a] =
       [r \in Recipients |-> (seen[r] \ relation[a][r]) \cup again[r]]]
  /\ leave' = [leave EXCEPT ![a] =
       [r \in Recipients |-> (relation[a][r] \ seen[r]) \cup again[r]]]
  /\ UNCHANGED born

-----------------------------------------------------------------------------
(* What the calls make of the native workset n.                            *)

(* The row of a recipient that now sees seen, gone having left. *)
NextRow(row, seen, gone) ==
  LET stay == DOMAIN row.mask \ gone IN
  [gen  |-> IF seen = DOMAIN row.mask /\ stay = seen THEN row.gen ELSE row.gen + 1,
   mask |-> [e \in seen |-> IF e \in stay THEN row.mask[e] ELSE {}]]

(* The clean row of a recipient when the workset turns to another world. *)
FirstRow(seen) == [gen |-> 1, mask |-> [e \in seen |-> {}]]

(* ds_recipient_workset_sync: the same tick again changes nothing, the     *)
(* next one is applied as edits, after a missed one the relation is        *)
(* enumerated and masks are kept, and another world starts from clean rows.*)
CanSync(a) == status[a] = "final"

(* The last tick of the world at a is the one after the tick that n shows; *)
(* its LEAVE entries are the entities of recipient r that went, also if    *)
(* they came back.                                                         *)
Behind(n, a) == n.source = a /\ epoch[a] = n.epoch + 1
Gone(n, a, r) == IF Behind(n, a) THEN leave[a][r] ELSE {}

(* Defect: the edits of the last tick are all that is applied. *)
Synced_misses(n, a) ==
  IF n.source = a /\ n.epoch = epoch[a] THEN n
  ELSE [source |-> a, epoch |-> epoch[a],
        born |-> IF n.source = a THEN n.born ELSE born[a],
        row |-> [r \in Recipients |->
          IF n.source # a THEN FirstRow(relation[a][r])
          ELSE NextRow(n.row[r],
                       (DOMAIN n.row[r].mask \ leave[a][r]) \cup enter[a][r],
                       leave[a][r])]]

(* Defect: rebuilding starts from clean rows. *)
Synced_cleans(n, a) ==
  IF n.source = a /\ n.epoch = epoch[a] THEN n
  ELSE [source |-> a, epoch |-> epoch[a], born |-> born[a],
        row |-> [r \in Recipients |-> FirstRow(relation[a][r])]]

Synced(n, a) ==
  IF n.source = a /\ n.epoch = epoch[a] THEN n
  ELSE [source |-> a, epoch |-> epoch[a],
        born |-> IF Behind(n, a) THEN n.born ELSE born[a],
        row |-> [r \in Recipients |->
          CASE n.source # a -> FirstRow(relation[a][r])
            [] Behind(n, a) ->
                 NextRow(n.row[r],
                         (DOMAIN n.row[r].mask \ leave[a][r]) \cup enter[a][r],
                         leave[a][r])
            [] OTHER -> NextRow(n.row[r], relation[a][r], {})]]

(* ds_recipient_workset_enqueue_source: the source's recipients. *)
Audience(a, e) == {r \in Recipients : e \in relation[a][r]}

CanEnqueue(n, a, e) ==
  /\ status[a] = "final"
  /\ n.source = a
  /\ n.epoch = epoch[a]
  /\ \A r \in Audience(a, e) : e \in DOMAIN n.row[r].mask

Enqueued(n, a, e, m) ==
  [n EXCEPT !.row = [r \in Recipients |->
     IF r \in Audience(a, e) THEN [n.row[r] EXCEPT !.mask[e] = @ \cup m]
                             ELSE n.row[r]]]

(* ds_recipient_workset_get_view: any workset that was synchronized once. *)
CanView(n) == n.source # NULL

(* ds_recipient_workset_acknowledge and _clear compare the certificate. *)
Matches(n, r, gen, seen) ==
  CanView(n) /\ n.row[r].gen = gen /\ DOMAIN n.row[r].mask = seen

Acknowledged(n, r, e, m) == [n EXCEPT !.row[r].mask[e] = @ \ m]

Cleared(n, r) ==
  [n EXCEPT !.row[r].mask = [e \in DOMAIN n.row[r].mask |-> {}]]
=============================================================================
