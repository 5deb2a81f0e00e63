---------------------- MODULE RecipientWorkset_proofs ----------------------
(***************************************************************************)
(* Proofs about RecipientWorkset, for any numbers of variables, worlds,    *)
(* recipients, entities and channels and any bound.                        *)
(***************************************************************************)
EXTENDS RecipientWorkset, TLAPS

(* A world has finalized at most as many ticks as it began, and every tick *)
(* began a borrow period of its own.                                       *)
Counts ==
  \A a \in Addrs :
    /\ born[a] <= issued /\ lease[a] <= issued /\ epoch[a] <= lease[a]
    /\ status[a] = "open" => epoch[a] < lease[a]

(* What the native workset x knows of the world it was built from, as long *)
(* as that exists: it is not ahead of it, and level with it, or one tick   *)
(* behind and after the edits of that tick, it shows what is visible.      *)
Tracked(x) ==
  /\ x.born <= issued
  /\ x.source # NULL => \A r \in Recipients : x.row[r].gen > 0
  /\ \A a \in Addrs :
       Live(a) /\ x.source = a /\ x.born = born[a] =>
         /\ x.epoch <= epoch[a]
         /\ x.epoch = epoch[a] =>
              \A r \in Recipients : DOMAIN x.row[r].mask = relation[a][r]
         /\ x.epoch + 1 = epoch[a] =>
              \A r \in Recipients :
                (DOMAIN x.row[r].mask \ leave[a][r]) \cup enter[a][r] = relation[a][r]

Tracks == \A n \in Natives : Tracked(ws[n])

(* The part of what is pending that the copy of v accounts for. *)
Accounted(v, e) == copy[v].entries[e] \cup {c \in Channels : <<e, c>> \in since[v]}

(* A copy whose recipient nothing happened to carries the row's own        *)
(* generation; once the membership changed, the row's is past the copy's.  *)
Certified(v) ==
  LET n == copy[v].from
      r == copy[v].recipient IN
  /\ r \in Recipients
  /\ Current(v) => n \in alive /\ CanView(ws[n])
  /\ shift[v] = "none" =>
       /\ ws[n].row[r].gen = copy[v].gen
       /\ DOMAIN ws[n].row[r].mask = DOMAIN copy[v].entries
       /\ \A e \in DOMAIN copy[v].entries : ws[n].row[r].mask[e] \subseteq Accounted(v, e)
  /\ shift[v] = "membership" => copy[v].gen < ws[n].row[r].gen

Certificates == \A v \in Views : copy[v].from # NULL => Certified(v)

IInv == TypeOK /\ Counts /\ Tracks /\ Certificates

Worksets == [source: Addrs \cup {NULL}, epoch: 0..MaxLease,
             born: 0..MaxLease, row: [Recipients -> Rows]]

-----------------------------------------------------------------------------
(* Rows.                                                                   *)

LEMMA MaskIs ==
  ASSUME NEW seen \in SUBSET Entities, NEW m \in [seen -> SUBSET Channels]
  PROVE  m \in Masks
BY DEF Masks

LEMMA MaskHas ==
  ASSUME NEW m \in Masks
  PROVE  DOMAIN m \in SUBSET Entities /\ m \in [DOMAIN m -> SUBSET Channels]
BY DEF Masks

LEMMA FirstRowIs ==
  ASSUME NEW seen \in SUBSET Entities
  PROVE  /\ FirstRow(seen) \in Rows /\ FirstRow(seen).gen = 1
         /\ DOMAIN FirstRow(seen).mask = seen
<1>1. [e \in seen |-> {}] \in Masks
  BY MaskIs
<1>2. QED BY <1>1 DEF FirstRow, Rows

(* The next row has what is seen now; it keeps its generation only if      *)
(* nothing came or went, and then it keeps what is pending.                *)
LEMMA NextRowIs ==
  ASSUME NEW row \in Rows, NEW seen \in SUBSET Entities, NEW gone
  PROVE  LET next == NextRow(row, seen, gone)
             same == seen = DOMAIN row.mask /\ seen \cap gone = {} IN
         /\ next \in Rows /\ DOMAIN next.mask = seen
         /\ next.gen = IF same THEN row.gen ELSE row.gen + 1
         /\ \A e \in seen : next.mask[e] =
              IF e \in DOMAIN row.mask \ gone THEN row.mask[e] ELSE {}
         /\ same => next = row
<1> DEFINE stay == DOMAIN row.mask \ gone
           same == seen = DOMAIN row.mask /\ seen \cap gone = {}
           mask == [e \in seen |-> IF e \in stay THEN row.mask[e] ELSE {}]
<1>1. /\ row.gen \in Nat /\ row.mask \in Masks
      /\ DOMAIN row.mask \in SUBSET Entities
      /\ row.mask \in [DOMAIN row.mask -> SUBSET Channels]
  BY MaskHas DEF Rows
<1>2. mask \in [seen -> SUBSET Channels]
  BY <1>1
<1>3. mask \in Masks
  BY <1>2, MaskIs
<1>4. (seen = DOMAIN row.mask /\ stay = seen) <=> same
  BY <1>1
<1>5. NextRow(row, seen, gone) = [gen |-> IF same THEN row.gen ELSE row.gen + 1, mask |-> mask]
  BY <1>4 DEF NextRow
<1>6. ASSUME same PROVE mask = row.mask
  <2>1. \A e \in seen : mask[e] = row.mask[e]
    BY <1>6
  <2>2. QED BY <2>1, <1>1, <1>2, <1>6
<1>7. ASSUME same PROVE NextRow(row, seen, gone) = row
  BY <1>1, <1>5, <1>6, <1>7 DEF Rows
<1> HIDE DEF mask, same
<1>8. /\ NextRow(row, seen, gone).gen = IF same THEN row.gen ELSE row.gen + 1
      /\ NextRow(row, seen, gone).mask = mask
  BY <1>5
<1>9. NextRow(row, seen, gone) \in Rows
  BY <1>1, <1>3, <1>5 DEF Rows
<1>10. DOMAIN mask = seen /\ \A e \in seen : mask[e] = IF e \in stay THEN row.mask[e] ELSE {}
  BY DEF mask
<1>11. QED BY <1>7, <1>8, <1>9, <1>10 DEF same

-----------------------------------------------------------------------------
(* Native worksets.                                                        *)

(* What a recipient sees after synchronizing x with the world at a. *)
Seen(x, a, r) ==
  IF Behind(x, a) THEN (DOMAIN x.row[r].mask \ leave[a][r]) \cup enter[a][r]
                  ELSE relation[a][r]

LEMMA MembershipIs ==
  ASSUME MembershipTypeOK, NEW a \in Addrs
  PROVE  /\ epoch[a] \in 0..MaxLease /\ born[a] \in 0..MaxLease
         /\ \A r \in Recipients : /\ relation[a][r] \in SUBSET Entities
                                  /\ enter[a][r] \in SUBSET Entities
                                  /\ leave[a][r] \in SUBSET Entities
BY DEF MembershipTypeOK, Membership

LEMMA SeenIs ==
  ASSUME MembershipTypeOK, NEW a \in Addrs, NEW x \in Worksets, NEW r \in Recipients
  PROVE  Seen(x, a, r) \in SUBSET Entities /\ x.row[r] \in Rows
<1>1. x.row[r] \in Rows
  BY DEF Worksets
<1>2. DOMAIN x.row[r].mask \in SUBSET Entities
  BY <1>1, MaskHas DEF Rows
<1>3. QED BY <1>1, <1>2, MembershipIs DEF Seen

(* What a synchronization makes of a workset that is not level already. *)
LEMMA SyncedIs ==
  ASSUME MembershipTypeOK, NEW a \in Addrs, NEW x \in Worksets,
         ~(x.source = a /\ x.epoch = epoch[a])
  PROVE  LET new == Synced(x, a) IN
         /\ new \in Worksets
         /\ new.source = a /\ new.epoch = epoch[a]
         /\ new.born = IF Behind(x, a) THEN x.born ELSE born[a]
         /\ \A r \in Recipients :
              new.row[r] = IF x.source # a THEN FirstRow(relation[a][r])
                           ELSE NextRow(x.row[r], Seen(x, a, r), Gone(x, a, r))
<1> DEFINE rowOf(r) == IF x.source # a THEN FirstRow(relation[a][r])
                       ELSE NextRow(x.row[r], Seen(x, a, r), Gone(x, a, r))
           new == [source |-> a, epoch |-> epoch[a],
                   born |-> IF Behind(x, a) THEN x.born ELSE born[a],
                   row |-> [r \in Recipients |-> rowOf(r)]]
<1>1. ASSUME NEW r \in Recipients
      PROVE  rowOf(r) = CASE x.source # a -> FirstRow(relation[a][r])
            [] x.source = a /\ epoch[a] = x.epoch + 1 ->
                 NextRow(x.row[r],
                         (DOMAIN x.row[r].mask \ leave[a][r]) \cup enter[a][r],
                         leave[a][r])
            [] OTHER -> NextRow(x.row[r], relation[a][r], {})
  BY DEF Seen, Gone, Behind
<1>2. Synced(x, a) = new
  BY <1>1 DEF Synced, Behind
<1>3. ASSUME NEW r \in Recipients PROVE rowOf(r) \in Rows
  <2>1. FirstRow(relation[a][r]) \in Rows
    BY MembershipIs, FirstRowIs
  <2>2. NextRow(x.row[r], Seen(x, a, r), Gone(x, a, r)) \in Rows
    BY SeenIs, NextRowIs
  <2>3. QED BY <2>1, <2>2
<1> HIDE DEF rowOf
<1>4. new \in Worksets
  <2>1. /\ epoch[a] \in 0..MaxLease /\ born[a] \in 0..MaxLease
        /\ x.born \in 0..MaxLease
    BY MembershipIs DEF Worksets
  <2>2. QED BY <1>3, <2>1 DEF Worksets
<1>5. QED BY <1>2, <1>4 DEF rowOf

LEMMA SyncedType ==
  ASSUME MembershipTypeOK, NEW a \in Addrs, NEW x \in Worksets
  PROVE  /\ Synced(x, a) \in Worksets
         /\ Synced(x, a).source = a /\ Synced(x, a).epoch = epoch[a]
<1>1. CASE x.source = a /\ x.epoch = epoch[a]
  BY <1>1 DEF Synced
<1>2. QED BY <1>1, SyncedIs

(* A workset that stays with its world: generations never fall, and the    *)
(* row keeps its generation only if no entity came or went.                *)
LEMMA SyncedRow ==
  ASSUME MembershipTypeOK, NEW a \in Addrs, NEW x \in Worksets, NEW r \in Recipients,
         x.source = a, x.epoch # epoch[a]
  PROVE  LET old == x.row[r]
             new == Synced(x, a).row[r] IN
         /\ DOMAIN new.mask = Seen(x, a, r)
         /\ old.gen \in Nat
         /\ IF DOMAIN new.mask = DOMAIN old.mask /\ DOMAIN new.mask \cap Gone(x, a, r) = {}
              THEN new = old ELSE new.gen = old.gen + 1
         /\ \A e \in DOMAIN new.mask \cap DOMAIN old.mask :
              e \notin Gone(x, a, r) => new.mask[e] = old.mask[e]
<1>1. Synced(x, a).row[r] = NextRow(x.row[r], Seen(x, a, r), Gone(x, a, r))
  BY SyncedIs
<1>2. Seen(x, a, r) \in SUBSET Entities /\ x.row[r] \in Rows
  BY SeenIs
<1>3. x.row[r].gen \in Nat
  BY <1>2 DEF Rows
<1> HIDE DEF Worksets
<1>4. QED BY <1>1, <1>2, <1>3, NextRowIs

(* The calls that leave membership alone. *)
Alike(x, y) ==
  /\ x.source = y.source /\ x.epoch = y.epoch /\ x.born = y.born
  /\ \A r \in Recipients : /\ x.row[r].gen = y.row[r].gen
                           /\ DOMAIN x.row[r].mask = DOMAIN y.row[r].mask

(* x with the row of each recipient replaced. *)
LEMMA RowsReplaced ==
  ASSUME NEW x \in Worksets, NEW row \in [Recipients -> Rows],
         \A r \in Recipients : /\ x.row[r].gen = row[r].gen
                               /\ DOMAIN x.row[r].mask = DOMAIN row[r].mask
  PROVE  /\ [x EXCEPT !.row = row] \in Worksets
         /\ Alike(x, [x EXCEPT !.row = row])
         /\ [x EXCEPT !.row = row].row = row
BY DEF Worksets, Alike

(* A row with the pending channels of one entity replaced. *)
LEMMA MaskReplaced ==
  ASSUME NEW row \in Rows, NEW e \in DOMAIN row.mask, NEW m \in SUBSET Channels
  PROVE  LET new == [row EXCEPT !.mask[e] = m] IN
         /\ new \in Rows /\ new.gen = row.gen /\ DOMAIN new.mask = DOMAIN row.mask
         /\ \A f \in DOMAIN row.mask :
              new.mask[f] = IF f = e THEN m ELSE row.mask[f]
<1>1. /\ row.mask \in [DOMAIN row.mask -> SUBSET Channels]
      /\ DOMAIN row.mask \in SUBSET Entities
  BY MaskHas DEF Rows
<1>2. [row.mask EXCEPT ![e] = m] \in [DOMAIN row.mask -> SUBSET Channels]
  BY <1>1
<1>3. [row.mask EXCEPT ![e] = m] \in Masks
  BY <1>1, <1>2, MaskIs
<1>4. [row EXCEPT !.mask[e] = m] = [gen |-> row.gen, mask |-> [row.mask EXCEPT ![e] = m]]
  BY DEF Rows
<1>5. [row EXCEPT !.mask[e] = m] \in Rows
  BY <1>3, <1>4 DEF Rows
<1>6. QED BY <1>1, <1>4, <1>5

LEMMA EnqueuedIs ==
  ASSUME NEW x \in Worksets, NEW a \in Addrs, NEW e, NEW m \in SUBSET Channels,
         CanEnqueue(x, a, e)
  PROVE  /\ Enqueued(x, a, e, m) \in Worksets
         /\ Alike(x, Enqueued(x, a, e, m))
         /\ \A r \in Recipients : \A f \in DOMAIN x.row[r].mask :
              Enqueued(x, a, e, m).row[r].mask[f] =
                IF r \in Audience(a, e) /\ f = e THEN x.row[r].mask[f] \cup m
                                                 ELSE x.row[r].mask[f]
<1> DEFINE row == [r \in Recipients |->
              IF r \in Audience(a, e) THEN [x.row[r] EXCEPT !.mask[e] = @ \cup m]
                                      ELSE x.row[r]]
<1>1. ASSUME NEW r \in Recipients
      PROVE  /\ row[r] \in Rows /\ x.row[r].gen = row[r].gen
             /\ DOMAIN x.row[r].mask = DOMAIN row[r].mask
             /\ \A f \in DOMAIN x.row[r].mask : row[r].mask[f] =
                  IF r \in Audience(a, e) /\ f = e THEN x.row[r].mask[f] \cup m
                                                   ELSE x.row[r].mask[f]
  <2>1. x.row[r] \in Rows
    BY DEF Worksets
  <2>2. CASE r \in Audience(a, e)
    <3>1. e \in DOMAIN x.row[r].mask
      BY <2>2 DEF CanEnqueue
    <3>2. x.row[r].mask[e] \cup m \in SUBSET Channels
      BY <2>1, <3>1, MaskHas DEF Rows
    <3> DEFINE q == x.row[r]
               more == q.mask[e] \cup m
               new == [q EXCEPT !.mask[e] = more]
    <3>3. row[r] = new
      BY <2>2
    <3>4. q \in Rows /\ e \in DOMAIN q.mask /\ more \in SUBSET Channels
      BY <2>1, <3>1, <3>2
    <3> HIDE DEF q, more
    <3>5. /\ new \in Rows /\ new.gen = q.gen /\ DOMAIN new.mask = DOMAIN q.mask
          /\ \A f \in DOMAIN q.mask :
               new.mask[f] = IF f = e THEN more ELSE q.mask[f]
      BY <3>4, MaskReplaced
    <3> HIDE DEF row, new
    <3>6. QED BY <2>2, <3>3, <3>5 DEF q, more
  <2>3. CASE r \notin Audience(a, e)
    BY <2>1, <2>3
  <2>4. QED BY <2>2, <2>3
<1>2. Enqueued(x, a, e, m) = [x EXCEPT !.row = row]
  BY DEF Enqueued
<1>3. row = [r \in Recipients |-> row[r]]
  OBVIOUS
<1> HIDE DEF row
<1>4. row \in [Recipients -> Rows]
  BY <1>1, <1>3
<1> DEFINE y == [x EXCEPT !.row = row]
<1>5. y \in Worksets /\ Alike(x, y) /\ y.row = row
  BY <1>1, <1>4, RowsReplaced
<1> HIDE DEF y
<1>6. QED BY <1>1, <1>2, <1>5 DEF y

(* Acknowledging and clearing take pending channels away. *)
Shrinks(x, y) ==
  Alike(x, y) /\ \A r \in Recipients : \A e \in DOMAIN x.row[r].mask :
                   y.row[r].mask[e] \subseteq x.row[r].mask[e]

(* x with the row of one recipient replaced. *)
LEMMA RowReplaced ==
  ASSUME NEW x \in Worksets, NEW r \in Recipients, NEW row \in Rows,
         x.row[r].gen = row.gen, DOMAIN x.row[r].mask = DOMAIN row.mask,
         \A e \in DOMAIN row.mask : row.mask[e] \subseteq x.row[r].mask[e]
  PROVE  LET y == [x EXCEPT !.row = [x.row EXCEPT ![r] = row]] IN
         y \in Worksets /\ Shrinks(x, y)
<1> DEFINE rows == [x.row EXCEPT ![r] = row]
<1>1. x.row \in [Recipients -> Rows]
  BY DEF Worksets
<1>2. rows \in [Recipients -> Rows]
      /\ \A s \in Recipients : rows[s] = IF s = r THEN row ELSE x.row[s]
  BY <1>1
<1> HIDE DEF rows
<1> DEFINE y == [x EXCEPT !.row = rows]
<1>3. y \in Worksets /\ Alike(x, y) /\ y.row = rows
  BY <1>2, RowsReplaced
<1> HIDE DEF y
<1>4. \A s \in Recipients : \A e \in DOMAIN x.row[s].mask :
        y.row[s].mask[e] \subseteq x.row[s].mask[e]
  BY <1>2, <1>3
<1>5. QED BY <1>3, <1>4 DEF Shrinks, y, rows

LEMMA AcknowledgedIs ==
  ASSUME NEW x \in Worksets, NEW r \in Recipients, NEW e \in DOMAIN x.row[r].mask, NEW m
  PROVE  Acknowledged(x, r, e, m) \in Worksets /\ Shrinks(x, Acknowledged(x, r, e, m))
<1> DEFINE row == [x.row[r] EXCEPT !.mask[e] = x.row[r].mask[e] \ m]
<1>1. x.row[r] \in Rows /\ x.row[r].mask[e] \ m \in SUBSET Channels
  BY MaskHas DEF Worksets, Rows
<1>2. Acknowledged(x, r, e, m) = [x EXCEPT !.row = [x.row EXCEPT ![r] = row]]
  BY DEF Acknowledged
<1>3. /\ row \in Rows /\ row.gen = x.row[r].gen
      /\ DOMAIN row.mask = DOMAIN x.row[r].mask
      /\ \A f \in DOMAIN x.row[r].mask :
           row.mask[f] = IF f = e THEN x.row[r].mask[e] \ m ELSE x.row[r].mask[f]
  <2> DEFINE q == x.row[r]
             less == q.mask[e] \ m
  <2>1. q \in Rows /\ e \in DOMAIN q.mask /\ less \in SUBSET Channels
    BY <1>1
  <2>2. row = [q EXCEPT !.mask[e] = less]
    OBVIOUS
  <2> HIDE DEF q, less
  <2> DEFINE new == [q EXCEPT !.mask[e] = less]
  <2>3. /\ new \in Rows /\ new.gen = q.gen /\ DOMAIN new.mask = DOMAIN q.mask
        /\ \A f \in DOMAIN q.mask : new.mask[f] = IF f = e THEN less ELSE q.mask[f]
    BY <2>1, MaskReplaced
  <2> HIDE DEF row, new
  <2>4. QED BY <2>2, <2>3 DEF q, less, new
<1> HIDE DEF row
<1>4. QED BY <1>2, <1>3, RowReplaced

LEMMA ClearedIs ==
  ASSUME NEW x \in Worksets, NEW r \in Recipients
  PROVE  Cleared(x, r) \in Worksets /\ Shrinks(x, Cleared(x, r))
<1> DEFINE none == [e \in DOMAIN x.row[r].mask |-> {}]
           row == [gen |-> x.row[r].gen, mask |-> none]
<1>1. x.row[r] \in Rows /\ x.row \in [Recipients -> Rows]
  BY DEF Worksets
<1>2. none \in Masks
  <2>1. DOMAIN x.row[r].mask \in SUBSET Entities
    BY <1>1, MaskHas DEF Rows
  <2>2. none \in [DOMAIN x.row[r].mask -> SUBSET Channels]
    OBVIOUS
  <2> HIDE DEF none
  <2>3. QED BY <2>1, <2>2, MaskIs
<1> HIDE DEF none
<1>3. [x.row[r] EXCEPT !.mask = none] = row
  <2> DEFINE q == x.row[r]
  <2>1. q = [gen |-> q.gen, mask |-> q.mask]
    BY <1>1 DEF Rows
  <2> HIDE DEF q
  <2>2. [q EXCEPT !.mask = none] = [gen |-> q.gen, mask |-> none]
    BY <2>1
  <2>3. QED BY <2>2 DEF q
<1>4. Cleared(x, r) = [x EXCEPT !.row = [x.row EXCEPT ![r] = row]]
  BY <1>3 DEF Cleared, none
<1>5. /\ row \in Rows /\ row.gen = x.row[r].gen
      /\ DOMAIN row.mask = DOMAIN x.row[r].mask
      /\ \A e \in DOMAIN row.mask : row.mask[e] \subseteq x.row[r].mask[e]
  BY <1>1, <1>2 DEF Rows, none
<1> HIDE DEF row
<1>6. QED BY <1>4, <1>5, RowReplaced

-----------------------------------------------------------------------------
(* What is known of a world is kept.                                       *)

LEMMA UnsyncedIs ==
  ASSUME issued \in Nat
  PROVE  Unsynced \in Worksets /\ Tracked(Unsynced)
<1>1. <<>> \in Masks
  <2>1. <<>> \in [{} -> SUBSET Channels]
    OBVIOUS
  <2>2. QED BY <2>1, MaskIs
<1>2. Unsynced \in Worksets
  BY <1>1, MaxLeaseNat DEF Unsynced, Worksets, Rows
<1>3. QED BY <1>2, NullNotAddr DEF Unsynced, Tracked

LEMMA TrackedAlike ==
  ASSUME NEW x, NEW y, Tracked(x), Alike(x, y)
  PROVE  Tracked(y)
BY DEF Tracked, Alike

LEMMA TrackedSynced ==
  ASSUME MembershipTypeOK, Counts, NEW a \in Addrs, NEW x \in Worksets, Tracked(x)
  PROVE  Tracked(Synced(x, a))
<1> DEFINE new == Synced(x, a)
<1>1. CASE x.source = a /\ x.epoch = epoch[a]
  BY <1>1 DEF Synced
<1>2. CASE ~(x.source = a /\ x.epoch = epoch[a])
  <2>1. /\ new.source = a /\ new.epoch = epoch[a] /\ epoch[a] \in Nat
        /\ new.born = IF Behind(x, a) THEN x.born ELSE born[a]
    BY <1>2, SyncedIs, MembershipIs
  <2>2. new.born <= issued
    BY <2>1 DEF Counts, Tracked
  <2>3. ASSUME NEW r \in Recipients PROVE new.row[r].gen > 0
    <3>1. CASE x.source # a
      BY <1>2, <3>1, SyncedIs, FirstRowIs, MembershipIs
    <3>2. CASE x.source = a
      <4>1. x.epoch # epoch[a] /\ x.row[r].gen > 0
        BY <1>2, <3>2, NullNotAddr DEF Tracked
      <4>2. x.row[r].gen \in Nat /\ (new.row[r] = x.row[r] \/ new.row[r].gen = x.row[r].gen + 1)
        BY <3>2, <4>1, SyncedRow
      <4>3. QED BY <4>1, <4>2
    <3>3. QED BY <3>1, <3>2
  <2>4. ASSUME Live(a), new.born = born[a], NEW r \in Recipients
        PROVE  DOMAIN new.row[r].mask = relation[a][r]
    <3>1. CASE x.source # a
      BY <1>2, <3>1, SyncedIs, FirstRowIs, MembershipIs
    <3>2. CASE x.source = a
      <4>1. x.epoch # epoch[a] /\ DOMAIN new.row[r].mask = Seen(x, a, r)
        BY <1>2, <3>2, SyncedRow
      <4>2. Behind(x, a) => Seen(x, a, r) = relation[a][r]
        BY <2>1, <2>4, <3>2 DEF Tracked, Seen, Behind
      <4>3. QED BY <4>1, <4>2 DEF Seen
    <3>3. QED BY <3>1, <3>2
  <2> HIDE DEF new
  <2>5. QED BY <2>1, <2>2, <2>3, <2>4 DEF Tracked, new
<1>3. QED BY <1>1, <1>2

(* Nothing happens to the worlds; the worksets become ws'. *)
LEMMA TracksKept ==
  ASSUME UNCHANGED <<kvars, mvars>>, \A n \in Natives : Tracked(ws'[n])
  PROVE  Tracks'
BY DEF Tracks, Tracked, Live, kvars, mvars

LEMMA CountsKept ==
  ASSUME Counts, UNCHANGED <<kvars, mvars>>
  PROVE  Counts'
BY DEF Counts, kvars, mvars

-----------------------------------------------------------------------------
(* The worlds around the worksets.                                         *)

(* Whatever a world does, its count of ticks stays behind its periods, and *)
(* the tick that is finalized is told by its edits.                        *)
LEMMA CreatedWorld ==
  ASSUME TypeOK, Counts, NEW a \in Addrs, WorldCreate(a)
  PROVE  KernelTypeOK' /\ MembershipTypeOK' /\ Counts'
<1>1. /\ issued \in 0..MaxLease /\ issued' \in 0..MaxLease /\ issued' = issued + 1
      /\ status' = [status EXCEPT ![a] = "fresh"] /\ lease' = [lease EXCEPT ![a] = issued + 1]
  BY MaxLeaseNat DEF TypeOK, KernelTypeOK, WorldCreate, NewLease, Created
<1>2. KernelTypeOK'
  BY <1>1 DEF TypeOK, KernelTypeOK, Statuses
<1>3. Nobody \in Membership
  BY DEF Nobody, Membership
<1>4. MembershipTypeOK'
  BY <1>1, <1>3, MaxLeaseNat DEF TypeOK, MembershipTypeOK, WorldCreate
<1>5. ASSUME NEW b \in Addrs
      PROVE  /\ born'[b] = IF b = a THEN issued + 1 ELSE born[b]
             /\ lease'[b] = IF b = a THEN issued + 1 ELSE lease[b]
             /\ epoch'[b] = IF b = a THEN 0 ELSE epoch[b]
             /\ status'[b] = IF b = a THEN "fresh" ELSE status[b]
             /\ born[b] \in Nat /\ lease[b] \in Nat /\ epoch[b] \in Nat
  BY <1>1 DEF TypeOK, KernelTypeOK, MembershipTypeOK, WorldCreate
<1>6. Counts'
  BY <1>1, <1>5 DEF Counts
<1>7. QED BY <1>2, <1>4, <1>6

LEMMA DestroyedWorld ==
  ASSUME TypeOK, Counts, NEW a \in Addrs, WorldDestroy(a)
  PROVE  KernelTypeOK' /\ MembershipTypeOK' /\ Counts'
<1>1. KernelTypeOK'
  BY DEF TypeOK, KernelTypeOK, WorldDestroy, Destroyed, Statuses
<1>2. Nobody \in Membership
  BY DEF Nobody, Membership
<1>3. MembershipTypeOK'
  BY <1>2, MaxLeaseNat DEF TypeOK, MembershipTypeOK, WorldDestroy
<1>4. ASSUME NEW b \in Addrs
      PROVE  /\ epoch'[b] = IF b = a THEN 0 ELSE epoch[b]
             /\ status'[b] = IF b = a THEN "free" ELSE status[b]
             /\ lease[b] \in Nat
  BY DEF TypeOK, KernelTypeOK, MembershipTypeOK, WorldDestroy, Destroyed
<1>5. Counts'
  BY <1>4 DEF Counts, WorldDestroy
<1>6. QED BY <1>1, <1>3, <1>5

LEMMA BegunWorld ==
  ASSUME TypeOK, Counts, NEW a \in Addrs, WorldBegin(a)
  PROVE  KernelTypeOK' /\ MembershipTypeOK' /\ Counts'
<1>1. /\ issued \in 0..MaxLease /\ issued' \in 0..MaxLease /\ issued' = issued + 1
      /\ status' = [status EXCEPT ![a] = "open"] /\ lease' = [lease EXCEPT ![a] = issued + 1]
      /\ UNCHANGED mvars
  BY MaxLeaseNat DEF TypeOK, KernelTypeOK, WorldBegin, KernelBegin, NewLease
<1>2. KernelTypeOK' /\ MembershipTypeOK'
  BY <1>1 DEF TypeOK, KernelTypeOK, MembershipTypeOK, Statuses, mvars
<1>3. ASSUME NEW b \in Addrs
      PROVE  /\ lease'[b] = IF b = a THEN issued + 1 ELSE lease[b]
             /\ status'[b] = IF b = a THEN "open" ELSE status[b]
             /\ born[b] \in Nat /\ lease[b] \in Nat /\ epoch[b] \in Nat
  BY <1>1 DEF TypeOK, KernelTypeOK, MembershipTypeOK
<1>4. Counts'
  BY <1>1, <1>3 DEF Counts, mvars
<1>5. QED BY <1>2, <1>4

LEMMA EndedTick ==
  ASSUME TypeOK, Counts, NEW a \in Addrs, NEW seen \in Membership, NEW again \in Membership,
         WorldEnd(a, seen, again)
  PROVE  /\ KernelTypeOK' /\ MembershipTypeOK' /\ Counts'
         /\ status' = [b \in Addrs |-> IF b = a THEN "final" ELSE status[b]]
         /\ epoch' = [b \in Addrs |-> IF b = a THEN epoch[a] + 1 ELSE epoch[b]]
         /\ \A b \in Addrs \ {a} : /\ relation'[b] = relation[b]
                                   /\ enter'[b] = enter[b] /\ leave'[b] = leave[b]
         /\ \A r \in Recipients :
              (relation[a][r] \ leave'[a][r]) \cup enter'[a][r] = relation'[a][r]
<1> DEFINE came == [r \in Recipients |-> (seen[r] \ relation[a][r]) \cup again[r]]
           left == [r \in Recipients |-> (relation[a][r] \ seen[r]) \cup again[r]]
<1>1. /\ status' = [status EXCEPT ![a] = "final"] /\ status[a] = "open"
      /\ epoch' = [epoch EXCEPT ![a] = @ + 1]
      /\ relation' = [relation EXCEPT ![a] = seen]
      /\ enter' = [enter EXCEPT ![a] = came] /\ leave' = [leave EXCEPT ![a] = left]
      /\ UNCHANGED <<lease, issued, born>>
      /\ \A r \in Recipients : again[r] \subseteq relation[a][r] \cap seen[r]
  BY DEF WorldEnd, KernelEnd
<1>2. came \in Membership /\ left \in Membership
  <2>1. \A r \in Recipients : relation[a][r] \in SUBSET Entities
    BY MembershipIs DEF TypeOK
  <2>2. QED BY <2>1 DEF Membership
<1>3. \A r \in Recipients : (relation[a][r] \ left[r]) \cup came[r] = seen[r]
  BY <1>1
<1> HIDE DEF came, left
<1>4. /\ status \in [Addrs -> Statuses] /\ epoch \in [Addrs -> 0..MaxLease]
      /\ relation \in [Addrs -> Membership] /\ enter \in [Addrs -> Membership]
      /\ leave \in [Addrs -> Membership]
  BY DEF TypeOK, KernelTypeOK, MembershipTypeOK
<1>5. /\ \A b \in Addrs \ {a} : /\ relation'[b] = relation[b]
                                /\ enter'[b] = enter[b] /\ leave'[b] = leave[b]
      /\ relation'[a] = seen /\ enter'[a] = came /\ leave'[a] = left
  BY <1>1, <1>4
<1>6. /\ status' = [b \in Addrs |-> IF b = a THEN "final" ELSE status[b]]
      /\ epoch' = [b \in Addrs |-> IF b = a THEN epoch[a] + 1 ELSE epoch[b]]
  BY <1>1, <1>4
<1>7. KernelTypeOK'
  BY <1>1, <1>6 DEF TypeOK, KernelTypeOK, Statuses
<1>8. epoch[a] + 1 \in 0..MaxLease
  BY <1>1, MaxLeaseNat DEF Counts, TypeOK, KernelTypeOK, MembershipTypeOK
<1>9. /\ epoch' \in [Addrs -> 0..MaxLease] /\ relation' \in [Addrs -> Membership]
      /\ enter' \in [Addrs -> Membership] /\ leave' \in [Addrs -> Membership]
  BY <1>1, <1>2, <1>4, <1>6, <1>8
<1>10. MembershipTypeOK'
  BY <1>1, <1>9 DEF TypeOK, MembershipTypeOK
<1>11. Counts'
  <2>1. \A b \in Addrs : lease[b] \in Nat /\ epoch[b] \in Nat
    BY DEF TypeOK, KernelTypeOK, MembershipTypeOK
  <2>2. QED BY <1>1, <1>6, <2>1 DEF Counts
<1>12. QED BY <1>3, <1>5, <1>6, <1>7, <1>10, <1>11

(* A world that is created is younger than anything a workset was built    *)
(* from; one that is destroyed is tracked no more.                         *)
LEMMA WorldStepTracks ==
  ASSUME IInv, NEW a \in Addrs, WorldStep(a)
  PROVE  /\ KernelTypeOK' /\ MembershipTypeOK' /\ Counts' /\ Tracks'
         /\ UNCHANGED wvars
<1> SUFFICES ASSUME UNCHANGED wvars
             PROVE  KernelTypeOK' /\ MembershipTypeOK' /\ Counts' /\ Tracks'
  BY DEF WorldStep, wvars
<1> USE DEF IInv
<1>0. ASSUME NEW n \in Natives
      PROVE  /\ Tracked(ws[n]) /\ ws[n] \in Worksets /\ ws'[n] = ws[n]
             /\ ws[n].born \in Nat /\ ws[n].epoch \in Nat
  BY DEF Tracks, TypeOK, Worksets, wvars
<1>00. issued \in Nat /\ \A b \in Addrs : epoch[b] \in Nat /\ born[b] \in Nat
  BY DEF TypeOK, KernelTypeOK, MembershipTypeOK
<1>1. CASE WorldCreate(a)
  <2>1. /\ issued' = issued + 1
        /\ \A b \in Addrs \ {a} : /\ born'[b] = born[b] /\ epoch'[b] = epoch[b]
                                  /\ relation'[b] = relation[b] /\ enter'[b] = enter[b]
                                  /\ leave'[b] = leave[b] /\ (Live(b)' <=> Live(b))
        /\ born'[a] = issued + 1
    BY <1>1 DEF WorldCreate, NewLease, Created, Live, TypeOK, KernelTypeOK, MembershipTypeOK
  <2>2. ASSUME NEW n \in Natives PROVE Tracked(ws[n])'
    BY <1>0, <1>00, <2>1 DEF Tracked
  <2>3. QED BY <1>1, <2>2, CreatedWorld DEF Tracks
<1>2. CASE WorldDestroy(a)
  <2>1. /\ UNCHANGED <<issued, born>>
        /\ \A b \in Addrs \ {a} : /\ epoch'[b] = epoch[b]
                                  /\ relation'[b] = relation[b] /\ enter'[b] = enter[b]
                                  /\ leave'[b] = leave[b] /\ (Live(b)' <=> Live(b))
        /\ ~Live(a)'
    BY <1>2 DEF WorldDestroy, Destroyed, Live, TypeOK, KernelTypeOK, MembershipTypeOK
  <2>2. ASSUME NEW n \in Natives PROVE Tracked(ws[n])'
    BY <1>0, <2>1 DEF Tracked
  <2>3. QED BY <1>2, <2>2, DestroyedWorld DEF Tracks
<1>3. CASE WorldBegin(a)
  <2>1. /\ UNCHANGED mvars /\ issued' = issued + 1 /\ \A b \in Addrs : Live(b)' <=> Live(b)
    BY <1>3 DEF WorldBegin, KernelBegin, CanBegin, NewLease, Live, TypeOK, KernelTypeOK
  <2>2. ASSUME NEW n \in Natives PROVE Tracked(ws[n])'
    BY <1>0, <1>00, <2>1 DEF Tracked, mvars
  <2>3. QED BY <1>3, <2>2, BegunWorld DEF Tracks
<1>4. ASSUME NEW seen \in Membership, NEW again \in Membership, WorldEnd(a, seen, again)
      PROVE  KernelTypeOK' /\ MembershipTypeOK' /\ Counts' /\ Tracks'
  <2>1. /\ UNCHANGED <<issued, born>> /\ \A b \in Addrs : Live(b)' <=> Live(b)
        /\ \A b \in Addrs : epoch'[b] = IF b = a THEN epoch[b] + 1 ELSE epoch[b]
        /\ \A b \in Addrs \ {a} : /\ relation'[b] = relation[b]
                                  /\ enter'[b] = enter[b] /\ leave'[b] = leave[b]
        /\ \A r \in Recipients :
              (relation[a][r] \ leave'[a][r]) \cup enter'[a][r] = relation'[a][r]
    BY <1>4, EndedTick DEF WorldEnd, KernelEnd, Live
  <2>2. ASSUME NEW n \in Natives PROVE Tracked(ws[n])'
    <3>1. ASSUME NEW b \in Addrs, Live(b), ws[n].source = b, ws[n].born = born[b]
          PROVE  /\ ws[n].epoch <= epoch'[b]
                 /\ b = a /\ ws[n].epoch + 1 = epoch'[b] => \A r \in Recipients :
                      (DOMAIN ws[n].row[r].mask \ leave'[b][r]) \cup enter'[b][r]
                        = relation'[b][r]
      BY <1>0, <1>00, <2>1, <3>1 DEF Tracked
    <3>2. QED BY <1>0, <1>00, <2>1, <3>1 DEF Tracked
  <2>3. QED BY <1>4, <2>2, EndedTick DEF Tracks
<1>5. QED BY <1>1, <1>2, <1>3, <1>4 DEF WorldStep

-----------------------------------------------------------------------------
(* Certificates.                                                           *)

(* The view v keeps its copy, and the workset it is from its membership;   *)
(* what is pending has grown by what is enqueued at most.                  *)
LEMMA CertifiedKept ==
  ASSUME NEW v \in Views, Certified(v), copy[v].from # NULL,
         copy'[v] = copy[v], shift'[v] = shift[v], since[v] \subseteq since'[v],
         copy[v].recipient \in Recipients, copy[v].from \in Natives,
         copy[v].from \in alive => copy[v].from \in alive',
         Current(v) => Alike(ws[copy[v].from], ws'[copy[v].from]),
         shift[v] = "none" =>
           LET n == copy[v].from
               r == copy[v].recipient IN
           \A e \in DOMAIN ws[n].row[r].mask : ws'[n].row[r].mask[e] \subseteq
             ws[n].row[r].mask[e] \cup {c \in Channels : <<e, c>> \in since'[v]}
  PROVE  Certified(v)'
<1> DEFINE n == copy[v].from
           r == copy[v].recipient
<1>1. r \in Recipients /\ (Current(v) => n \in alive /\ CanView(ws[n])) /\ (Current(v)' <=> Current(v))
  BY DEF Certified, Current
<1>2. Current(v) => /\ CanView(ws'[n])
                    /\ ws'[n].row[r].gen = ws[n].row[r].gen
                    /\ DOMAIN ws'[n].row[r].mask = DOMAIN ws[n].row[r].mask
  BY <1>1 DEF Alike, CanView
<1>3. ASSUME shift[v] = "none", NEW e \in DOMAIN copy[v].entries
      PROVE  ws'[n].row[r].mask[e] \subseteq Accounted(v, e)'
  <2>1. /\ e \in DOMAIN ws[n].row[r].mask
        /\ ws[n].row[r].mask[e] \subseteq Accounted(v, e)
    BY <1>3 DEF Certified
  <2>2. ws'[n].row[r].mask[e] \subseteq
          ws[n].row[r].mask[e] \cup {c \in Channels : <<e, c>> \in since'[v]}
    BY <1>3, <2>1
  <2>3. Accounted(v, e) \subseteq Accounted(v, e)'
    BY DEF Accounted
  <2>4. {c \in Channels : <<e, c>> \in since'[v]} \subseteq Accounted(v, e)'
    BY DEF Accounted
  <2>5. QED BY <2>1, <2>2, <2>3, <2>4
<1>4. shift[v] \in {"none", "membership"} => Current(v)
  BY DEF Current
<1>5. QED BY <1>1, <1>2, <1>3, <1>4 DEF Certified

(* The types of what the worksets and the views are made of. *)
CopyTypeOK ==
  /\ copy \in [Views -> [from: Natives \cup {NULL}, gen: Nat, entries: Masks,
                         recipient: Recipients \cup {NULL}]]
  /\ \A v \in Views : copy[v].from # NULL => copy[v].gen > 0
  /\ shift \in [Views -> {"none", "membership", "world", "gone"}]
  /\ since \in [Views -> SUBSET (Entities \X Channels)]

(* A call on the workset of h, which becomes x. *)
LEMMA CallKeeps ==
  ASSUME IInv, NEW h \in Handles, Call(h), UNCHANGED <<handle, alive>>,
         NEW x \in Worksets, Tracked(x), ws' = [ws EXCEPT ![handle[h]] = x],
         CopyTypeOK', Certificates'
  PROVE  IInv'
<1>1. /\ handle[h] \in Natives /\ ws \in [Natives -> Worksets]
      /\ \A n \in Natives : Tracked(ws[n])
  BY DEF IInv, TypeOK, Call, Tracks, Worksets
<1>2. /\ ws' \in [Natives -> Worksets]
      /\ \A n \in Natives : ws'[n] = IF n = handle[h] THEN x ELSE ws[n]
  BY <1>1
<1>3. KernelTypeOK' /\ MembershipTypeOK'
  BY DEF IInv, TypeOK, Call, KernelTypeOK, MembershipTypeOK, kvars, mvars
<1>4. TypeOK'
  BY <1>2, <1>3 DEF IInv, TypeOK, CopyTypeOK, SoleOwner, Worksets
<1>5. Counts' /\ Tracks'
  BY <1>1, <1>2, CountsKept, TracksKept DEF IInv, Call
<1>6. QED BY <1>4, <1>5 DEF IInv

LEMMA CallOf ==
  ASSUME IInv, NEW h \in Handles, Call(h)
  PROVE  /\ handle[h] \in Natives /\ handle[h] \in alive
         /\ ws[handle[h]] \in Worksets /\ Tracked(ws[handle[h]])
         /\ ws \in [Natives -> Worksets]
BY DEF IInv, TypeOK, SoleOwner, Call, Tracks, Worksets

(* A call that changes neither copies nor the membership of any workset. *)
LEMMA QuietCall ==
  ASSUME IInv, NEW h \in Handles, Call(h), UNCHANGED <<handle, alive, copy, shift, since>>,
         NEW x \in Worksets, Shrinks(ws[handle[h]], x), ws' = [ws EXCEPT ![handle[h]] = x]
  PROVE  IInv'
<1>1. /\ handle[h] \in Natives /\ Tracked(x)
      /\ \A n \in Natives : ws'[n] = IF n = handle[h] THEN x ELSE ws[n]
  BY CallOf, TrackedAlike DEF Shrinks
<1>2. CopyTypeOK'
  BY DEF IInv, TypeOK, CopyTypeOK
<1>3. ASSUME NEW v \in Views, copy[v].from # NULL PROVE Certified(v)'
  <2>1. Certified(v) /\ copy[v].from \in Natives /\ copy[v].recipient \in Recipients
    BY <1>3 DEF IInv, TypeOK, Certificates, Certified
  <2>2. Alike(ws[copy[v].from], ws'[copy[v].from])
    BY <1>1, <2>1 DEF Shrinks, Alike
  <2>3. \A r \in Recipients : \A e \in DOMAIN ws[copy[v].from].row[r].mask :
          ws'[copy[v].from].row[r].mask[e] \subseteq ws[copy[v].from].row[r].mask[e]
    BY <1>1, <2>1 DEF Shrinks
  <2>4. QED BY <1>3, <2>1, <2>2, <2>3, CertifiedKept
<1>4. Certificates'
  BY <1>3 DEF Certificates
<1>5. QED BY <1>1, <1>2, <1>4, CallKeeps

LEMMA AcceptedCopy ==
  ASSUME IInv, NEW n \in Natives, NEW v \in Views, Accepts(n, v)
  PROVE  /\ copy[v].recipient \in Recipients
         /\ DOMAIN ws[n].row[copy[v].recipient].mask = DOMAIN copy[v].entries
BY DEF IInv, TypeOK, Certificates, Certified, Accepts, Matches

LEMMA AcknowledgeStep ==
  ASSUME IInv, NEW h \in Handles, NEW v \in Views, NEW e, NEW m,
         Workset_acknowledge(h, v, e, m)
  PROVE  IInv'
<1> DEFINE x == Acknowledged(ws[handle[h]], copy[v].recipient, e, m)
<1>1. Call(h) /\ handle[h] \in Natives /\ ws[handle[h]] \in Worksets
  BY CallOf DEF Workset_acknowledge
<1>2. /\ copy[v].recipient \in Recipients
      /\ e \in DOMAIN ws[handle[h]].row[copy[v].recipient].mask
  BY <1>1, AcceptedCopy DEF Workset_acknowledge
<1>3. x \in Worksets /\ Shrinks(ws[handle[h]], x)
  BY <1>1, <1>2, AcknowledgedIs
<1>4. ws' = [ws EXCEPT ![handle[h]] = x]
  BY DEF Workset_acknowledge
<1> HIDE DEF x
<1>5. QED BY <1>1, <1>3, <1>4, QuietCall DEF Workset_acknowledge

LEMMA ClearStep ==
  ASSUME IInv, NEW h \in Handles, NEW v \in Views, Workset_clear(h, v)
  PROVE  IInv'
<1> DEFINE x == Cleared(ws[handle[h]], copy[v].recipient)
<1>1. Call(h) /\ handle[h] \in Natives /\ ws[handle[h]] \in Worksets
  BY CallOf DEF Workset_clear
<1>2. copy[v].recipient \in Recipients
  BY <1>1, AcceptedCopy DEF Workset_clear
<1>3. x \in Worksets /\ Shrinks(ws[handle[h]], x)
  BY <1>1, <1>2, ClearedIs
<1>4. ws' = [ws EXCEPT ![handle[h]] = x]
  BY DEF Workset_clear
<1> HIDE DEF x
<1>5. QED BY <1>1, <1>3, <1>4, QuietCall DEF Workset_clear

LEMMA EnqueueStep ==
  ASSUME IInv, NEW h \in Handles, NEW a \in Addrs, NEW e \in Entities,
         NEW m \in SUBSET Channels, Workset_enqueue_source(h, a, e, m)
  PROVE  IInv'
<1> DEFINE k == handle[h]
           x == Enqueued(ws[k], a, e, m)
<1>1. Call(h) /\ k \in Natives /\ ws[k] \in Worksets /\ Tracked(ws[k])
  BY CallOf DEF Workset_enqueue_source
<1>2. /\ x \in Worksets /\ Alike(ws[k], x)
      /\ \A r \in Recipients : \A f \in DOMAIN ws[k].row[r].mask :
           x.row[r].mask[f] = IF r \in Audience(a, e) /\ f = e
                                THEN ws[k].row[r].mask[f] \cup m ELSE ws[k].row[r].mask[f]
  <2> DEFINE old == ws[k]
  <2>1. old \in Worksets /\ CanEnqueue(old, a, e)
    BY <1>1 DEF Workset_enqueue_source
  <2> HIDE DEF old
  <2> DEFINE new == Enqueued(old, a, e, m)
  <2>2. /\ new \in Worksets /\ Alike(old, new)
        /\ \A r \in Recipients : \A f \in DOMAIN old.row[r].mask :
             new.row[r].mask[f] = IF r \in Audience(a, e) /\ f = e
                                    THEN old.row[r].mask[f] \cup m ELSE old.row[r].mask[f]
    BY <2>1, EnqueuedIs
  <2>3. QED BY <2>2 DEF old
<1> HIDE DEF x
<1>3. ws' = [ws EXCEPT ![k] = x]
  BY DEF Workset_enqueue_source, x
<1>4. \A n \in Natives : ws'[n] = IF n = k THEN x ELSE ws[n]
  BY <1>3 DEF IInv, TypeOK
<1>5. ASSUME NEW v \in Views
      PROVE  since'[v] = IF /\ copy[v].from = k /\ shift[v] = "none"
                            /\ copy[v].recipient \in Audience(a, e)
                         THEN since[v] \cup ({e} \X m) ELSE since[v]
  BY DEF Workset_enqueue_source
<1>6. CopyTypeOK'
  BY <1>5 DEF IInv, TypeOK, CopyTypeOK, Workset_enqueue_source
<1>7. ASSUME NEW v \in Views, copy[v].from # NULL PROVE Certified(v)'
  <2> DEFINE n == copy[v].from
             r == copy[v].recipient
  <2>1. Certified(v) /\ n \in Natives /\ r \in Recipients
    BY <1>7 DEF IInv, TypeOK, Certificates, Certified
  <2>2. Alike(ws[n], ws'[n])
    BY <1>2, <1>4, <2>1 DEF Alike
  <2>3. ASSUME shift[v] = "none", NEW f \in DOMAIN ws[n].row[r].mask
        PROVE  ws'[n].row[r].mask[f] \subseteq
                 ws[n].row[r].mask[f] \cup {c \in Channels : <<f, c>> \in since'[v]}
    <3>1. CASE n = k /\ r \in Audience(a, e) /\ f = e
      <4>1. x.row[r].mask[f] = ws[k].row[r].mask[f] \cup m
        BY <1>2, <2>1, <2>3, <3>1
      <4>2. \A c \in m : <<f, c>> \in since'[v] /\ c \in Channels
        BY <1>5, <2>3, <3>1
      <4>3. QED BY <1>4, <2>1, <3>1, <4>1, <4>2
    <3>2. CASE n = k /\ ~(r \in Audience(a, e) /\ f = e)
      <4>1. x.row[r].mask[f] = ws[k].row[r].mask[f]
        BY <1>2, <2>1, <2>3, <3>2
      <4>2. QED BY <1>4, <2>1, <3>2, <4>1
    <3>3. CASE n # k
      BY <1>4, <2>1, <3>3
    <3>4. QED BY <3>1, <3>2, <3>3
  <2>4. since[v] \subseteq since'[v]
    BY <1>5
  <2>5. UNCHANGED <<alive, copy, shift>>
    BY DEF Workset_enqueue_source
  <2>6. QED BY <1>7, <2>1, <2>2, <2>3, <2>4, <2>5, CertifiedKept
<1>8. Certificates'
  BY <1>7 DEF Certificates, Workset_enqueue_source
<1>9. Tracked(x)
  BY <1>1, <1>2, TrackedAlike
<1>10. QED BY <1>1, <1>2, <1>3, <1>6, <1>8, <1>9, CallKeeps DEF Workset_enqueue_source

LEMMA ViewTaken ==
  ASSUME IInv, NEW h \in Handles, NEW r \in Recipients, NEW v \in Views,
         Workset_view(h, r, v)
  PROVE  IInv'
<1> DEFINE k == handle[h]
           row == ws[k].row[r]
           new == [from |-> k, recipient |-> r, gen |-> row.gen, entries |-> row.mask]
<1>1. Call(h) /\ k \in Natives /\ k \in alive /\ ws[k] \in Worksets /\ Tracked(ws[k])
      /\ CanView(ws[k])
  BY CallOf DEF Workset_view
<1>2. row \in Rows /\ row.gen > 0
  BY <1>1 DEF Worksets, Tracked, CanView
<1>3. /\ copy' = [copy EXCEPT ![v] = new] /\ shift' = [shift EXCEPT ![v] = "none"]
      /\ since' = [since EXCEPT ![v] = {}] /\ UNCHANGED <<handle, alive, ws>>
  BY DEF Workset_view
<1>4. new \in [from: Natives \cup {NULL}, gen: Nat, entries: Masks,
               recipient: Recipients \cup {NULL}]
  BY <1>1, <1>2 DEF Rows
<1>5. /\ copy \in [Views -> [from: Natives \cup {NULL}, gen: Nat, entries: Masks,
                             recipient: Recipients \cup {NULL}]]
      /\ shift \in [Views -> {"none", "membership", "world", "gone"}]
      /\ since \in [Views -> SUBSET (Entities \X Channels)]
      /\ \A u \in Views : copy[u].from # NULL => copy[u].gen > 0
  BY DEF IInv, TypeOK
<1>6. new.gen > 0 /\ new.from = k /\ new.recipient = r /\ new.gen = row.gen
      /\ new.entries = row.mask
  BY <1>2
<1> HIDE DEF new, row
<1>7. CopyTypeOK'
  BY <1>3, <1>4, <1>5, <1>6 DEF CopyTypeOK
<1>8. /\ copy'[v] = new /\ shift'[v] = "none" /\ since'[v] = {}
      /\ \A u \in Views \ {v} : /\ copy'[u] = copy[u] /\ shift'[u] = shift[u]
                                /\ since'[u] = since[u]
  BY <1>3, <1>5
<1>9. Certified(v)'
  <2>1. /\ copy'[v].from = k /\ copy'[v].recipient = r /\ copy'[v].gen = ws'[k].row[r].gen
        /\ copy'[v].entries = ws'[k].row[r].mask /\ CanView(ws'[k]) /\ k \in alive'
    BY <1>1, <1>3, <1>6, <1>8 DEF row
  <2>2. \A e \in DOMAIN copy'[v].entries : ws'[k].row[r].mask[e] \subseteq Accounted(v, e)'
    BY <2>1 DEF Accounted
  <2>3. QED BY <1>8, <2>1, <2>2 DEF Certified
<1>10. ASSUME NEW u \in Views \ {v}, copy[u].from # NULL PROVE Certified(u)'
  <2>1. Certified(u)
    BY <1>10 DEF IInv, Certificates
  <2>2. /\ copy'[u] = copy[u] /\ shift'[u] = shift[u] /\ since'[u] = since[u]
        /\ ws' = ws /\ alive' = alive
    BY <1>3, <1>8
  <2>3. Current(u)' <=> Current(u)
    BY <2>2 DEF Current
  <2>4. \A e : Accounted(u, e)' = Accounted(u, e)
    BY <2>2 DEF Accounted
  <2>5. QED BY <2>1, <2>2, <2>3, <2>4 DEF Certified
<1>11. Certificates'
  BY <1>8, <1>9, <1>10 DEF Certificates
<1>12. TypeOK'
  BY <1>3, <1>7, <1>1 DEF CopyTypeOK, IInv, TypeOK, SoleOwner, Call, KernelTypeOK,
     MembershipTypeOK, kvars, mvars
<1>13. Counts' /\ Tracks'
  BY <1>1, <1>3, CountsKept, TracksKept DEF IInv, Tracks, Call
<1>14. QED BY <1>11, <1>12, <1>13 DEF IInv

-----------------------------------------------------------------------------
(* Ownership.                                                              *)

LEMMA ConstructStep ==
  ASSUME IInv, NEW h \in Handles, NEW n \in Natives, Workset_construct(h, n)
  PROVE  IInv'
<1>1. /\ handle' = [x \in Handles |-> IF x = h THEN n ELSE handle[x]]
      /\ alive' = alive \cup {n} /\ UNCHANGED <<kvars, mvars, ws, copy, shift, since>>
      /\ handle[h] = NULL /\ n \notin alive /\ n # NULL
  BY NullNotNative DEF Workset_construct, IInv, TypeOK
<1>2. SoleOwner'
  BY <1>1 DEF IInv, TypeOK, SoleOwner
<1>3. handle' \in [Handles -> Natives \cup {NULL}] /\ alive' \in SUBSET Natives
  BY <1>1 DEF IInv, TypeOK
<1>4. KernelTypeOK' /\ MembershipTypeOK'
  BY <1>1 DEF IInv, TypeOK, KernelTypeOK, MembershipTypeOK, kvars, mvars
<1>5. TypeOK'
  BY <1>1, <1>2, <1>3, <1>4 DEF IInv, TypeOK
<1>6. Counts' /\ Tracks'
  BY <1>1, CountsKept, TracksKept DEF IInv, Tracks
<1>7. Certificates'
  BY <1>1 DEF IInv, Certificates, Certified, Accounted, Current
<1>8. QED BY <1>5, <1>6, <1>7 DEF IInv

(* Whatever destroys a workset tells every copy taken from it. *)
LEMMA ReleaseStep ==
  ASSUME IInv, NEW n \in Natives \cup {NULL}, NEW hs, Release(n, hs),
         hs \in [Handles -> Natives \cup {NULL}], SoleOwner'
  PROVE  IInv'
<1>1. /\ handle' = hs /\ alive' = alive \ {n} /\ UNCHANGED <<kvars, mvars, copy>>
      /\ \A v \in Views : shift'[v] = IF n # NULL /\ copy[v].from = n THEN "gone" ELSE shift[v]
      /\ \A v \in Views : since'[v] = IF shift'[v] = "none" THEN since[v] ELSE {}
      /\ \A m \in Natives : ws'[m] = IF m = n THEN Unsynced ELSE ws[m]
  BY DEF Release
<1>2. /\ issued \in Nat /\ \A m \in Natives : ws[m] \in Worksets /\ Tracked(ws[m])
  BY DEF IInv, TypeOK, KernelTypeOK, Tracks, Worksets
<1>3. ws' \in [Natives -> Worksets]
  BY <1>1, <1>2, UnsyncedIs DEF Release
<1>4. CopyTypeOK'
  <2>1. /\ shift' \in [Views -> {"none", "membership", "world", "gone"}]
        /\ since' \in [Views -> SUBSET (Entities \X Channels)]
    BY DEF Release, IInv, TypeOK
  <2>2. QED BY <1>1, <2>1 DEF IInv, TypeOK, CopyTypeOK
<1>5. KernelTypeOK' /\ MembershipTypeOK'
  BY <1>1 DEF IInv, TypeOK, KernelTypeOK, MembershipTypeOK, kvars, mvars
<1>6. TypeOK'
  <2>1. handle' \in [Handles -> Natives \cup {NULL}] /\ alive' \in SUBSET Natives
    BY <1>1 DEF IInv, TypeOK
  <2>2. QED BY <1>3, <1>4, <1>5, <2>1 DEF TypeOK, CopyTypeOK, Worksets
<1>7. Counts' /\ Tracks'
  BY <1>1, <1>2, UnsyncedIs, CountsKept, TracksKept DEF IInv
<1>8. ASSUME NEW v \in Views, copy[v].from # NULL PROVE Certified(v)'
  <2>1. Certified(v) /\ copy[v].from \in Natives
    BY <1>8 DEF IInv, TypeOK, Certificates
  <2>2. CASE copy[v].from = n
    BY <1>1, <1>8, <2>1, <2>2 DEF Certified, Current
  <2>3. CASE copy[v].from # n
    BY <1>1, <2>1, <2>3 DEF Certified, Current, Accounted
  <2>4. QED BY <2>2, <2>3
<1>9. Certificates'
  BY <1>1, <1>8 DEF Certificates
<1>10. QED BY <1>6, <1>7, <1>9 DEF IInv

LEMMA MoveStep ==
  ASSUME IInv, NEW h \in Handles, NEW x \in Handles, Workset_move(h, x)
  PROVE  IInv'
<1> DEFINE hs == [y \in Handles |-> IF y = x THEN NULL ELSE IF y = h THEN handle[x] ELSE handle[y]]
<1>1. h # x /\ Release(handle[h], hs)
  <2>1. [handle EXCEPT ![h] = handle[x], ![x] = NULL] = hs
    BY DEF IInv, TypeOK
  <2>2. QED BY <2>1 DEF Workset_move
<1>2. hs \in [Handles -> Natives \cup {NULL}] /\ handle[h] \in Natives \cup {NULL}
  BY DEF IInv, TypeOK
<1>3. SoleOwner'
  <2>1. handle' = hs /\ alive' = alive \ {handle[h]}
    BY <1>1 DEF Release
  <2>2. SoleOwner
    BY DEF IInv, TypeOK
  <2>3. {hs[y] : y \in Handles} \ {NULL} = ({handle[y] : y \in Handles} \ {NULL}) \ {handle[h]}
    BY <1>1, <2>2 DEF SoleOwner
  <2>4. \A y, z \in Handles : hs[y] # NULL /\ hs[y] = hs[z] => y = z
    BY <1>1, <2>2 DEF SoleOwner
  <2>5. QED BY <2>1, <2>2, <2>3, <2>4 DEF SoleOwner
<1> HIDE DEF hs
<1>4. QED BY <1>1, <1>2, <1>3, ReleaseStep

LEMMA DestructStep ==
  ASSUME IInv, NEW h \in Handles, Workset_destruct(h)
  PROVE  IInv'
<1> DEFINE hs == [y \in Handles |-> IF y = h THEN NULL ELSE handle[y]]
<1>1. Release(handle[h], hs)
  <2>1. [handle EXCEPT ![h] = NULL] = hs
    BY DEF IInv, TypeOK
  <2>2. QED BY <2>1 DEF Workset_destruct
<1>2. hs \in [Handles -> Natives \cup {NULL}] /\ handle[h] \in Natives \cup {NULL}
  BY DEF IInv, TypeOK
<1>3. SoleOwner'
  <2>1. handle' = hs /\ alive' = alive \ {handle[h]}
    BY <1>1 DEF Release
  <2>2. SoleOwner
    BY DEF IInv, TypeOK
  <2>3. {hs[y] : y \in Handles} \ {NULL} = ({handle[y] : y \in Handles} \ {NULL}) \ {handle[h]}
    BY <2>2 DEF SoleOwner
  <2>4. QED BY <2>1, <2>2, <2>3 DEF SoleOwner
<1> HIDE DEF hs
<1>4. QED BY <1>1, <1>2, <1>3, ReleaseStep

-----------------------------------------------------------------------------
(* Synchronizing.                                                          *)

(* What becomes of the row that a certificate was taken from, when the     *)
(* workset stays with its world: either it is the row it was, with the     *)
(* visible set of the copy, or its generation has passed the copy's.       *)
LEMMA SyncedAgainstCopy ==
  ASSUME IInv, NEW a \in Addrs, NEW n \in Natives, NEW v \in Views,
         copy[v].from = n, copy[v].from # NULL, shift[v] = "none", ws[n].source = a
  PROVE  LET r == copy[v].recipient
             new == Synced(ws[n], a)
             changed == /\ new # ws[n]
                        /\ \/ DOMAIN new.row[r].mask # DOMAIN copy[v].entries
                           \/ /\ new.epoch = ws[n].epoch + 1
                              /\ leave[a][r] \cap DOMAIN copy[v].entries # {}
         IN  IF changed THEN new.row[r].gen = ws[n].row[r].gen + 1
                        ELSE new.row[r] = ws[n].row[r]
<1> DEFINE r == copy[v].recipient
           x == ws[n]
           new == Synced(x, a)
           seen == DOMAIN copy[v].entries
<1>1. /\ r \in Recipients /\ x \in Worksets /\ MembershipTypeOK /\ x.epoch \in Nat
      /\ DOMAIN x.row[r].mask = seen
  BY DEF IInv, TypeOK, Certificates, Certified, Worksets
<1>2. CASE x.epoch = epoch[a]
  BY <1>2 DEF Synced
<1>3. CASE x.epoch # epoch[a]
  <2>1. /\ new.epoch = epoch[a] /\ epoch[a] \in Nat
    BY <1>1, SyncedType, MembershipIs
  <2>2. new # x
    BY <1>3, <2>1
  <2>3. new.epoch = x.epoch + 1 <=> Behind(x, a)
    BY <2>1 DEF Behind
  <2>4. IF DOMAIN new.row[r].mask = seen /\ DOMAIN new.row[r].mask \cap Gone(x, a, r) = {}
          THEN new.row[r] = x.row[r] ELSE new.row[r].gen = x.row[r].gen + 1
    BY <1>1, <1>3, SyncedRow
  <2>5. Gone(x, a, r) = IF new.epoch = x.epoch + 1 THEN leave[a][r] ELSE {}
    BY <2>3 DEF Gone
  <2> HIDE DEF new, x, r, seen
  <2>6. QED BY <2>2, <2>4, <2>5 DEF new, x, r, seen
<1>4. QED BY <1>2, <1>3

LEMMA SyncCertifies ==
  ASSUME IInv, NEW h \in Handles, NEW a \in Addrs, Workset_sync(h, a),
         NEW v \in Views, copy[v].from # NULL
  PROVE  Certified(v)'
<1> DEFINE k == handle[h]
           n == copy[v].from
           r == copy[v].recipient
           new == Synced(ws[k], a)
<1>1. /\ k \in Natives /\ ws[k] \in Worksets /\ Certified(v) /\ n \in Natives
      /\ r \in Recipients /\ MembershipTypeOK
  BY CallOf DEF Workset_sync, IInv, TypeOK, Certificates, Certified
<1>2. /\ \A m \in Natives : ws'[m] = IF m = k THEN new ELSE ws[m]
      /\ UNCHANGED <<alive, copy>>
      /\ shift'[v] = ShiftOf(v, k, ws'[k], a)
      /\ since'[v] = IF shift'[v] = "none" THEN since[v] ELSE {}
  BY <1>1 DEF Workset_sync, IInv, TypeOK
<1>3. shift'[v] = ShiftOf(v, k, new, a) /\ new.source = a /\ a # NULL
  BY <1>1, <1>2, SyncedType, NullNotAddr
<1> HIDE DEF new
<1>4. CASE shift'[v] \in {"world", "gone"}
  BY <1>1, <1>2, <1>4 DEF Certified, Current
<1>5. CASE n # k
  <2>1. shift'[v] = shift[v] /\ ws'[n] = ws[n]
    BY <1>1, <1>2, <1>3, <1>5 DEF ShiftOf
  <2>2. QED BY <1>1, <1>2, <2>1 DEF Certified, Current, Accounted
<1>6. CASE n = k /\ shift'[v] \in {"none", "membership"}
  <2>1. /\ ws[k].source = a /\ ws'[n] = new /\ n \in alive
        /\ shift[v] \in {"none", "membership"}
        /\ (shift[v] = "membership" => shift'[v] = "membership")
    BY <1>1, <1>2, <1>3, <1>6 DEF ShiftOf, Certified, Current, IInv, TypeOK
  <2>2. CanView(ws'[n])
    BY <1>3, <2>1 DEF CanView
  <2>3. CASE shift[v] = "membership"
    <3>1. copy[v].gen < ws[k].row[r].gen /\ copy[v].gen \in Nat
      BY <1>1, <1>6, <2>3 DEF Certified, IInv, TypeOK
    <3>2. ws[k].row[r].gen \in Nat
          /\ (new.row[r].gen = ws[k].row[r].gen \/ new.row[r].gen = ws[k].row[r].gen + 1)
      <4>1. CASE ws[k].epoch = epoch[a]
        BY <1>1, <2>1, <4>1 DEF Synced, new, Worksets, Rows
      <4>2. CASE ws[k].epoch # epoch[a]
        BY <1>1, <2>1, <4>2, SyncedRow DEF new
      <4>3. QED BY <4>1, <4>2
    <3>3. copy[v].gen < new.row[r].gen
      BY <3>1, <3>2
    <3>4. QED BY <1>1, <1>2, <2>1, <2>2, <2>3, <3>3 DEF Certified
  <2>4. CASE shift[v] = "none"
    <3> DEFINE changed == /\ new # ws[k]
                          /\ \/ DOMAIN new.row[r].mask # DOMAIN copy[v].entries
                             \/ /\ new.epoch = ws[k].epoch + 1
                                /\ leave[a][r] \cap DOMAIN copy[v].entries # {}
    <3>1. shift'[v] = IF changed THEN "membership" ELSE "none"
      BY <1>3, <1>6, <2>1, <2>4 DEF ShiftOf
    <3>2. IF changed THEN new.row[r].gen = ws[k].row[r].gen + 1
                     ELSE new.row[r] = ws[k].row[r]
      BY <1>1, <1>6, <2>1, <2>4, SyncedAgainstCopy DEF new
    <3> HIDE DEF changed
    <3>3. CASE changed
      <4>1. ws[k].row[r].gen = copy[v].gen /\ copy[v].gen \in Nat
        BY <1>1, <1>6, <2>4 DEF Certified, IInv, TypeOK
      <4>2. copy[v].gen < new.row[r].gen
        BY <3>2, <3>3, <4>1
      <4>3. shift'[v] = "membership"
        BY <3>1, <3>3
      <4>4. QED BY <1>1, <1>2, <2>1, <2>2, <4>2, <4>3 DEF Certified
    <3>4. CASE ~changed
      <4>1. shift'[v] = "none" /\ since'[v] = since[v] /\ ws'[n].row[r] = ws[n].row[r]
        BY <1>2, <1>6, <2>1, <3>1, <3>2, <3>4
      <4>2. QED BY <1>1, <1>2, <2>1, <2>2, <2>4, <4>1 DEF Certified, Accounted
    <3>5. QED BY <3>3, <3>4
  <2>5. QED BY <2>1, <2>3, <2>4
<1>7. shift'[v] \in {"none", "membership", "world", "gone"}
  BY <1>3 DEF ShiftOf, IInv, TypeOK
<1>8. QED BY <1>4, <1>5, <1>6, <1>7

LEMMA SyncStep ==
  ASSUME IInv, NEW h \in Handles, NEW a \in Addrs, Workset_sync(h, a)
  PROVE  IInv'
<1> DEFINE new == Synced(ws[handle[h]], a)
<1>1. /\ Call(h) /\ handle[h] \in Natives /\ ws[handle[h]] \in Worksets
      /\ Tracked(ws[handle[h]]) /\ MembershipTypeOK
  BY CallOf DEF Workset_sync, IInv, TypeOK
<1>2. new \in Worksets /\ Tracked(new)
  BY <1>1, SyncedType, TrackedSynced DEF IInv
<1>3. ws' = [ws EXCEPT ![handle[h]] = new]
  BY DEF Workset_sync
<1> HIDE DEF new
<1>4. Certificates'
  BY SyncCertifies DEF Certificates, Workset_sync
<1>5. CopyTypeOK'
  <2>1. /\ shift' = [v \in Views |-> ShiftOf(v, handle[h], ws'[handle[h]], a)]
        /\ since' = [v \in Views |-> IF shift'[v] = "none" THEN since[v] ELSE {}]
        /\ UNCHANGED copy
    BY DEF Workset_sync
  <2>2. \A v \in Views : ShiftOf(v, handle[h], ws'[handle[h]], a)
                           \in {"none", "membership", "world", "gone"}
    BY DEF ShiftOf, IInv, TypeOK
  <2>3. shift' \in [Views -> {"none", "membership", "world", "gone"}]
    BY <2>1, <2>2
  <2>4. QED BY <2>1, <2>3 DEF IInv, TypeOK, CopyTypeOK
<1>6. QED BY <1>1, <1>2, <1>3, <1>4, <1>5, CallKeeps DEF Workset_sync

-----------------------------------------------------------------------------
(* The invariant.                                                          *)

LEMMA IInvInit == Init => IInv
<1> SUFFICES ASSUME Init PROVE IInv
  OBVIOUS
<1>1. issued = 0 /\ issued \in Nat
  BY DEF Init, MembershipInit, KernelInit
<1>2. Unsynced \in Worksets /\ Tracked(Unsynced)
  BY <1>1, UnsyncedIs
<1>3. /\ KernelTypeOK /\ MembershipTypeOK
  <2>1. Nobody \in Membership
    BY DEF Nobody, Membership
  <2>2. QED BY <2>1, MaxLeaseNat DEF Init, MembershipInit, KernelInit, KernelTypeOK,
     MembershipTypeOK, Statuses
<1>4. NoCopy \in [from: Natives \cup {NULL}, gen: Nat, entries: Masks,
                  recipient: Recipients \cup {NULL}]
  <2>1. <<>> \in [{} -> SUBSET Channels]
    OBVIOUS
  <2>2. <<>> \in Masks
    BY <2>1, MaskIs
  <2>3. QED BY <2>2 DEF NoCopy
<1>5. TypeOK
  <2>1. ws \in [Natives -> Worksets]
    BY <1>2 DEF Init
  <2>2. \A v \in Views : copy[v].from = NULL
    BY DEF Init, NoCopy
  <2>3. SoleOwner
    BY DEF Init, SoleOwner
  <2> HIDE DEF NoCopy
  <2>4. QED BY <1>3, <1>4, <2>1, <2>2, <2>3 DEF Init, TypeOK, Worksets
<1>6. Counts /\ Tracks
  BY <1>2 DEF Init, MembershipInit, KernelInit, Counts, Tracks
<1>7. Certificates
  BY DEF Init, NoCopy, Certificates
<1>8. QED BY <1>5, <1>6, <1>7 DEF IInv

LEMMA IInvStep == IInv /\ [Next]_vars => IInv'
<1> SUFFICES ASSUME IInv, [Next]_vars PROVE IInv'
  OBVIOUS
<1>1. ASSUME NEW a \in Addrs, WorldStep(a) PROVE IInv'
  <2>1. KernelTypeOK' /\ MembershipTypeOK' /\ Counts' /\ Tracks' /\ UNCHANGED wvars
    BY <1>1, WorldStepTracks
  <2>2. TypeOK'
    BY <2>1 DEF IInv, TypeOK, SoleOwner, wvars
  <2>3. Certificates'
    BY <2>1 DEF IInv, Certificates, Certified, Current, Accounted, CanView, wvars
  <2>4. QED BY <2>1, <2>2, <2>3 DEF IInv
<1>2. ASSUME NEW h \in Handles, HandleStep(h) PROVE IInv'
  BY <1>2, ConstructStep, MoveStep, DestructStep, SyncStep, EnqueueStep DEF HandleStep
<1>3. ASSUME NEW h \in Handles, NEW v \in Views, ViewStep(h, v) PROVE IInv'
  BY <1>3, ViewTaken, AcknowledgeStep, ClearStep DEF ViewStep
<1>4. CASE UNCHANGED vars
  <2>1. UNCHANGED <<kvars, mvars>> /\ UNCHANGED wvars
    BY <1>4 DEF vars
  <2>2. /\ handle' = handle /\ alive' = alive /\ ws' = ws /\ copy' = copy
        /\ shift' = shift /\ since' = since
    BY <2>1 DEF wvars
  <2>3. TypeOK'
    BY <2>1, <2>2 DEF IInv, TypeOK, KernelTypeOK, MembershipTypeOK, SoleOwner, kvars, mvars
  <2>4. Counts' /\ Tracks'
    BY <2>1, <2>2, CountsKept, TracksKept DEF IInv, Tracks
  <2>5. Certificates'
    BY <2>2 DEF IInv, Certificates, Certified, Current, Accounted, CanView
  <2>6. QED BY <2>3, <2>4, <2>5 DEF IInv
<1>5. QED BY <1>1, <1>2, <1>3, <1>4 DEF Next

LEMMA IInvAlways == Spec => []IInv
BY IInvInit, IInvStep, PTL DEF Spec

-----------------------------------------------------------------------------
(* Every variable keeps its type, and a native workset exists exactly      *)
(* while one variable of the class owns it (1144-1164), whatever is moved  *)
(* over whatever.                                                          *)
THEOREM WorksetTypeCorrect == Spec => []TypeOK
BY IInvAlways, PTL DEF IInv

(* A workset that is up to date with the very world it was built from      *)
(* shows for each recipient what is visible to it there, whether it got    *)
(* there edit by edit or was rebuilt.                                      *)
THEOREM WorksetIsExact == Spec => []MembershipExact
<1>1. IInv => MembershipExact
  BY DEF IInv, Tracks, Tracked, MembershipExact, UpToDate, Visible
<1>2. QED BY <1>1, IInvAlways, PTL

(* As long as the membership of its recipient stands, a copy's certificate *)
(* is accepted, and all that is pending was in the copy or was enqueued    *)
(* after it was taken: clearing by it loses nothing else.                  *)
THEOREM WorksetAccountsForPending == Spec => []PendingAccounted
<1>1. IInv => PendingAccounted
  <2> SUFFICES ASSUME IInv, NEW v \in Views, Current(v), shift[v] = "none"
               PROVE  LET n == copy[v].from
                          r == copy[v].recipient IN
                      /\ Accepts(n, v)
                      /\ \A e \in Visible(n, r) : ws[n].row[r].mask[e] \subseteq Accounted(v, e)
    BY DEF PendingAccounted, Accounted
  <2>1. copy[v].from # NULL /\ Certified(v)
    BY DEF Current, IInv, Certificates
  <2>2. QED BY <2>1 DEF Certified, Accepts, Matches, Visible
<1>2. QED BY <1>1, IInvAlways, PTL

(* Once the membership of its recipient has changed, a copy's certificate  *)
(* is refused for good, even when the same entities are visible again.     *)
THEOREM WorksetRefusesChanged == Spec => []ChangedMembershipRefused
<1>1. IInv => ChangedMembershipRefused
  <2> SUFFICES ASSUME IInv, NEW v \in Views, Current(v), shift[v] = "membership",
                      Accepts(copy[v].from, v)
               PROVE  FALSE
    BY DEF ChangedMembershipRefused
  <2>1. Certified(v) /\ copy[v].gen \in Nat
    BY DEF Current, IInv, Certificates, TypeOK
  <2>2. QED BY <2>1 DEF Certified, Accepts, Matches
<1>2. QED BY <1>1, IInvAlways, PTL

(* Synchronizing with the world that a workset serves, after however many  *)
(* ticks, keeps what is pending of every entity that stays visible.  Of    *)
(* turning to another world it says nothing.                               *)
THEOREM WorksetRetains == Spec => SameWorldRetained
<1> DEFINE Kept == \A h \in Handles, n \in Natives, a \in Addrs :
       handle[h] = n /\ ws[n].source = a /\ Workset_sync(h, a) => Retains(n, a)
<1>1. IInv /\ [Next]_vars => Kept
  <2> SUFFICES ASSUME IInv, NEW h \in Handles, NEW n \in Natives, NEW a \in Addrs,
                      Workset_sync(h, a), handle[h] = n, ws[n].source = a, NEW r \in Recipients,
                      NEW e \in (DOMAIN ws[n].row[r].mask \cap DOMAIN ws'[n].row[r].mask)
                                 \ Gone(ws[n], a, r)
               PROVE  ws[n].row[r].mask[e] \subseteq ws'[n].row[r].mask[e]
    BY DEF Retains
  <2> DEFINE x == ws[n]
             new == Synced(x, a)
  <2>1. x \in Worksets /\ MembershipTypeOK /\ ws'[n] = new
    BY CallOf DEF Workset_sync, IInv, TypeOK
  <2>2. CASE x.epoch = epoch[a]
    BY <2>1, <2>2 DEF Synced
  <2>3. CASE x.epoch # epoch[a]
    <3>1. e \in DOMAIN new.row[r].mask \cap DOMAIN x.row[r].mask /\ e \notin Gone(x, a, r)
      BY <2>1
    <3>2. new.row[r].mask[e] = x.row[r].mask[e]
      BY <2>1, <2>3, <3>1, SyncedRow
    <3>3. QED BY <2>1, <3>2
  <2>4. QED BY <2>2, <2>3
<1>2. QED BY <1>1, IInvAlways, PTL DEF Spec, SameWorldRetained
=============================================================================
