-------------------------- MODULE PyBinding_proofs --------------------------
(***************************************************************************)
(* Proofs about PyBinding, for any sets of objects and any bound.          *)
(***************************************************************************)
EXTENDS PyBinding, TLAPS

(* How many buffers a batch call holds while it is in progress. *)
FrameBounds ==
  \A f \in Frames :
    /\ frame[f].pc = "idle" => frame[f] = NoFrame
    /\ frame[f].pc # "idle" => frame[f].self \in Worlds
    /\ frame[f].pc = "acquiring" => frame[f].held < frame[f].want

Types == TypeOK /\ FrameBounds

LEMMA KernelSteps ==
  ASSUME KernelTypeOK, NEW a \in Addrs
  PROVE  /\ KernelBegin(a) => KernelTypeOK'
         /\ KernelEnd(a) => KernelTypeOK'
         /\ NewLease(a) => lease' \in [Addrs -> 0..MaxLease] /\ issued' \in 0..MaxLease
         /\ \A p : Destroyed(status, p) \in [Addrs -> Statuses]
         /\ \A p : Created(Destroyed(status, p), a) \in [Addrs -> Statuses]
BY MaxLeaseNat DEF KernelTypeOK, KernelBegin, KernelEnd, NewLease, Destroyed,
   Created, Statuses

LEMMA DecrefTypes ==
  ASSUME TypeOK, NEW w \in Worlds, NEW r, WorldDecref(w, r)
  PROVE  /\ KernelTypeOK'
         /\ world' \in [Worlds -> Addrs \cup {NULL}]
         /\ gen' \in [Worlds -> Nat]
         /\ calls' \in SUBSET (Addrs \cup {NULL})
         /\ spans' = {}
         /\ answer' = NULL
<1>1. Destroyed(status, world[w]) \in [Addrs -> Statuses]
  BY DEF TypeOK, KernelTypeOK, Destroyed, Statuses
<1>2. QED
  BY <1>1 DEF WorldDecref, WorldDealloc, TypeOK, KernelTypeOK, Touch

LEMMA TypesInit == Init => Types
BY MaxLeaseNat DEF Init, KernelInit, Types, TypeOK, KernelTypeOK, FrameBounds, NoView, NoFrame,
   Statuses, Pcs

LEMMA WorldTypes ==
  ASSUME Types, NEW w \in Worlds, WorldStep(w)
  PROVE  Types'
<1> USE DEF Types, TypeOK, FrameBounds, Touch
<1>1. CASE World_new(w)
  BY <1>1 DEF World_new, kvars, KernelTypeOK
<1>2. ASSUME NEW a \in Addrs, World_init(w, a) PROVE Types'
  BY <1>2, KernelSteps DEF World_init, KernelTypeOK
<1>3. CASE World_close(w)
  BY <1>3 DEF World_close, KernelTypeOK, Destroyed, Statuses
<1>4. CASE World_begin_tick(w)
  BY <1>4, KernelSteps DEF World_begin_tick, RequireOpen
<1>5. CASE World_end_tick(w)
  BY <1>5, KernelSteps DEF World_end_tick, RequireOpen
<1>6. CASE ScalarCall(w)
  BY <1>6 DEF ScalarCall, kvars, KernelTypeOK
<1>7. ASSUME NEW v \in Views, World_fanout_view(w, v) PROVE Types'
  BY <1>7 DEF World_fanout_view, kvars, KernelTypeOK, RequireOpen
<1>8. CASE DropWorld(w)
  BY <1>8, DecrefTypes DEF DropWorld
<1>9. QED
  BY <1>1, <1>2, <1>3, <1>4, <1>5, <1>6, <1>7, <1>8
     DEF WorldStep, World_entity_call, World_motion_call, World_mark_call,
         World_observer_call, World_query_call

LEMMA ViewDecrefTypes ==
  ASSUME Types, NEW v \in Views, NEW r, ViewDecref(v, r),
         refs[v] # {} => view[v].world \in Worlds, r \in refs[v]
  PROVE  /\ KernelTypeOK'
         /\ world' \in [Worlds -> Addrs \cup {NULL}]
         /\ gen' \in [Worlds -> Nat]
         /\ view' \in [Views -> [world: Worlds \cup {NULL}, gen: Nat,
                                 native: Addrs \cup {NULL}, lease: 0..MaxLease]]
         /\ refs' \in [Worlds \cup Views ->
                         SUBSET ({Program} \cup Views \cup Groups \cup Frames)]
         /\ calls' \in SUBSET (Addrs \cup {NULL})
         /\ spans' = {}
         /\ answer' = NULL
<1>1. CASE refs[v] # {r}
  BY <1>1 DEF ViewDecref, Types, TypeOK, KernelTypeOK, kvars, Touch
<1>2. CASE refs[v] = {r}
  <2>1. view[v].world \in Worlds /\ WorldDecref(view[v].world, v)
    BY <1>2 DEF ViewDecref
  <2>2. /\ view' = [view EXCEPT ![v] = NoView]
        /\ refs' = [refs EXCEPT ![v] = {}, ![view[v].world] = @ \ {v}]
    BY <1>2 DEF ViewDecref
  <2>3. /\ view' \in [Views -> [world: Worlds \cup {NULL}, gen: Nat,
                                native: Addrs \cup {NULL}, lease: 0..MaxLease]]
        /\ refs' \in [Worlds \cup Views ->
                        SUBSET ({Program} \cup Views \cup Groups \cup Frames)]
    BY <2>2, <2>1, MaxLeaseNat DEF Types, TypeOK, NoView
  <2>4. QED
    BY <2>1, <2>3, DecrefTypes DEF Types
<1>3. QED BY <1>1, <1>2

(* Who holds whom.  Every reference an object's fields stand for is        *)
(* counted, and a World that no longer exists points at no native world.   *)
Counted ==
  /\ \A v \in Views : /\ refs[v] = {} => view[v] = NoView
                      /\ refs[v] # {} => /\ view[v].world \in Worlds
                                         /\ v \in refs[view[v].world]
  /\ \A g \in Groups : group[g] # NULL => g \in refs[group[g]]
  /\ \A f \in Frames : frame[f].pc # "idle" => f \in refs[frame[f].self]
  /\ \A w \in Worlds : refs[w] = {} => world[w] = NULL

LEMMA ReplyTypes ==
  ASSUME TypeOK, NEW v \in Views, Reply(v)
  PROVE  answer' \in {NULL} \cup (Views \X {"data", "refused"} \X (0..MaxLease))
<1>1. view[v].lease \in 0..MaxLease /\ 0 \in 0..MaxLease
  BY MaxLeaseNat DEF TypeOK
<1>2. QED BY <1>1 DEF Reply

LEMMA NewGroupTypes ==
  ASSUME Types, NEW v \in Views, NEW g \in Groups,
         NEW k \in {"chunk", "sequence"}, NewGroup(v, g, k)
  PROVE  Types'
BY ReplyTypes DEF Types, TypeOK, FrameBounds, Touch, NewGroup, kvars, KernelTypeOK

LEMMA SpanReadTypes ==
  ASSUME Types, NEW g \in Groups, NEW k, SpanRead(g, k)
  PROVE  Types'
<1>1. group[g] \in Views
  BY DEF SpanRead, Types, TypeOK
<1>2. spans' \in SUBSET ((Addrs \cup {NULL}) \X (0..MaxLease)) /\ calls' = {}
  BY <1>1 DEF SpanRead, Types, TypeOK, Touch
<1>3. QED
  BY <1>1, <1>2, ReplyTypes DEF SpanRead, Types, TypeOK, FrameBounds, kvars, KernelTypeOK

LEMMA ViewTypes ==
  ASSUME Types, Counted, NEW v \in Views, ViewStep(v)
  PROVE  Types'
<1>1. CASE View_read(v)
  BY <1>1, ReplyTypes DEF View_read, Types, TypeOK, FrameBounds, Touch, kvars, KernelTypeOK
<1>2. ASSUME NEW g \in Groups, View_item(v, g) PROVE Types'
  BY <1>2, NewGroupTypes DEF View_item
<1>3. CASE DropView(v)
  BY <1>3, ViewDecrefTypes DEF DropView, Types, TypeOK, FrameBounds, Holds, Counted
<1>4. QED BY <1>1, <1>2, <1>3 DEF ViewStep

LEMMA GroupTypes ==
  ASSUME Types, Counted, NEW g \in Groups, GroupStep(g)
  PROVE  Types'
<1>1. ASSUME NEW s \in Groups, Group_sequence(g, s) PROVE Types'
  <2>1. group[g] \in Views
    BY <1>1 DEF Group_sequence, Types, TypeOK
  <2>2. QED BY <1>1, <2>1, NewGroupTypes DEF Group_sequence
<1>2. CASE Chunk_read(g) \/ Sequence_read(g)
  BY <1>2, SpanReadTypes DEF Chunk_read, Sequence_read
<1>3. CASE DropGroup(g)
  <2>1. group[g] \in Views /\ g \in refs[group[g]]
    BY <1>3 DEF DropGroup, Types, TypeOK, Counted
  <2>2. QED
    BY <1>3, <2>1, ViewDecrefTypes DEF DropGroup, Types, TypeOK, FrameBounds, Counted
<1>4. QED BY <1>1, <1>2, <1>3 DEF GroupStep

LEMMA TakeNextTypes ==
  ASSUME Types, NEW f \in Frames, NEW pc \in {"acquiring", "releasing"},
         frame[f].pc = "acquiring",
         pc = "acquiring" => frame[f].held + 1 < frame[f].want,
         TakeNext(f, pc)
  PROVE  /\ frame' \in [Frames -> [self: Worlds \cup {NULL}, pc: Pcs,
                                   want: 0..3, held: 0..3]]
         /\ exported' \in SUBSET (Frames \X Slots)
         /\ FrameBounds'
<1>1. /\ frame[f].held \in 0..3 /\ frame[f].want \in 0..3
      /\ frame[f].held < frame[f].want
      /\ frame[f].held + 1 \in Slots
  BY DEF Types, TypeOK, FrameBounds, Slots
<1>2. frame' \in [Frames -> [self: Worlds \cup {NULL}, pc: Pcs,
                             want: 0..3, held: 0..3]]
  BY <1>1 DEF Types, TypeOK, TakeNext, Pcs
<1>3. exported' \in SUBSET (Frames \X Slots)
  BY <1>1 DEF Types, TypeOK, TakeNext
<1>4. FrameBounds'
  BY <1>1 DEF Types, TypeOK, FrameBounds, TakeNext, NoFrame
<1>5. QED BY <1>2, <1>3, <1>4

LEMMA FrameTypes ==
  ASSUME Types, Counted, NEW f \in Frames, FrameStep(f)
  PROVE  Types'
<1>1. ASSUME NEW w \in Worlds, NEW n \in Slots, Batch_call(f, w, n) PROVE Types'
  BY <1>1 DEF Batch_call, Types, TypeOK, FrameBounds, Touch, kvars, KernelTypeOK,
     Slots, Pcs, NoFrame
<1>2. CASE Batch_acquire(f)
  BY <1>2, TakeNextTypes DEF Batch_acquire, Types, TypeOK, Touch, kvars, KernelTypeOK
<1>3. CASE Batch_acquire_fails(f)
  <2>1. CASE TakeNext(f, "releasing")
    BY <1>3, <2>1, TakeNextTypes
       DEF Batch_acquire_fails, Types, TypeOK, Touch, kvars, KernelTypeOK
  <2>2. CASE frame' = [frame EXCEPT ![f].pc = "releasing"] /\ UNCHANGED exported
    BY <1>3, <2>2 DEF Batch_acquire_fails, Types, TypeOK, FrameBounds, Touch, kvars,
       KernelTypeOK, Pcs, NoFrame
  <2>3. QED BY <1>3, <2>1, <2>2 DEF Batch_acquire_fails
<1>4. CASE Batch_run(f)
  <2>1. calls' \in SUBSET (Addrs \cup {NULL}) /\ spans' = {}
    BY <1>4 DEF Batch_run, Touch, Types, TypeOK, FrameBounds
  <2>2. QED
    BY <1>4, <2>1, TakeNextTypes DEF Batch_run, Types, TypeOK, kvars, KernelTypeOK
<1>5. CASE Batch_release(f)
  BY <1>5 DEF Batch_release, Types, TypeOK, FrameBounds, Touch, kvars, KernelTypeOK, NoFrame
<1>6. CASE Batch_return(f)
  <2>1. frame[f].self \in Worlds
    BY <1>6 DEF Batch_return, Types, FrameBounds
  <2>2. WorldDecref(frame[f].self, f)
    BY <1>6 DEF Batch_return
  <2>3. refs' \in [Worlds \cup Views ->
                     SUBSET ({Program} \cup Views \cup Groups \cup Frames)]
    BY <1>6, <2>1 DEF Batch_return, Types, TypeOK
  <2>4. /\ frame' \in [Frames -> [self: Worlds \cup {NULL}, pc: Pcs,
                                  want: 0..3, held: 0..3]]
        /\ FrameBounds'
    BY <1>6 DEF Batch_return, Types, TypeOK, FrameBounds, NoFrame, Pcs
  <2>5. QED
    BY <1>6, <2>1, <2>2, <2>3, <2>4, DecrefTypes DEF Batch_return, Types, TypeOK
<1>7. QED BY <1>1, <1>2, <1>3, <1>4, <1>5, <1>6 DEF FrameStep

-----------------------------------------------------------------------------
(* Counted is kept. *)

LEMMA CountedInit == Init => Counted
BY DEF Init, Counted, NoFrame

LEMMA WorldCounted ==
  ASSUME Types, Counted, NEW w \in Worlds, WorldStep(w)
  PROVE  Counted'
<1> USE ObjectsDistinct DEF Types, TypeOK, FrameBounds, Counted, Holds
<1>1. CASE World_new(w)
  BY <1>1 DEF World_new
<1>2. ASSUME NEW a \in Addrs, World_init(w, a) PROVE Counted'
  BY <1>2 DEF World_init
<1>3. CASE World_close(w)
  BY <1>3 DEF World_close
<1>4. CASE World_begin_tick(w)
  BY <1>4 DEF World_begin_tick
<1>5. CASE World_end_tick(w)
  BY <1>5 DEF World_end_tick
<1>6. CASE ScalarCall(w)
  BY <1>6 DEF ScalarCall
<1>7. ASSUME NEW v \in Views, World_fanout_view(w, v) PROVE Counted'
  BY <1>7 DEF World_fanout_view
<1>8. CASE DropWorld(w)
  BY <1>8 DEF DropWorld, WorldDecref, WorldDealloc
<1>9. QED
  BY <1>1, <1>2, <1>3, <1>4, <1>5, <1>6, <1>7, <1>8
     DEF WorldStep, World_entity_call, World_motion_call, World_mark_call,
         World_observer_call, World_query_call

LEMMA ViewDecrefCounted ==
  ASSUME Types, Counted, NEW v \in Views, NEW r, r \in refs[v], ViewDecref(v, r),
         UNCHANGED frame,
         \A g \in Groups : group'[g] # NULL => group'[g] = group[g] /\ g # r
  PROVE  Counted'
<1> USE ObjectsDistinct DEF Types, TypeOK, FrameBounds, Counted
<1> HIDE DEF Types, TypeOK, FrameBounds
<1>0. \A g \in Groups : group'[g] # NULL =>
        group'[g] \in Views /\ g \in refs[group'[g]] /\ g # r
  BY DEF Types, TypeOK
<1>1. CASE refs[v] # {r}
  <2>1. /\ refs' = [refs EXCEPT ![v] = @ \ {r}]
        /\ UNCHANGED <<world, view>>
    BY <1>1 DEF ViewDecref
  <2>2. refs' = [o \in Worlds \cup Views |-> IF o = v THEN refs[v] \ {r} ELSE refs[o]]
    BY <2>1 DEF Types, TypeOK
  <2>3. \A g \in Groups : group'[g] # NULL => g \in refs'[group'[g]]
    BY <2>2, <1>0
  <2>4. \A u \in Views : /\ refs'[u] = {} => view'[u] = NoView
                         /\ refs'[u] # {} => /\ view'[u].world \in Worlds
                                             /\ u \in refs'[view'[u].world]
    BY <2>1, <2>2, <1>1
  <2>5. \A f \in Frames : frame'[f].pc # "idle" => f \in refs'[frame'[f].self]
    BY <2>2 DEF Types, TypeOK, FrameBounds
  <2>6. \A w \in Worlds : refs'[w] = {} => world'[w] = NULL
    BY <2>1, <2>2
  <2>7. QED BY <2>3, <2>4, <2>5, <2>6
<1>2. CASE refs[v] = {r}
  <2>1. /\ view[v].world \in Worlds
        /\ view' = [view EXCEPT ![v] = NoView]
        /\ refs' = [refs EXCEPT ![v] = {}, ![view[v].world] = @ \ {v}]
        /\ WorldDecref(view[v].world, v)
    BY <1>2 DEF ViewDecref
  <2>2. /\ refs' = [o \in Worlds \cup Views |->
                     IF o = view[v].world THEN refs[o] \ {v}
                     ELSE IF o = v THEN {} ELSE refs[o]]
        /\ view' = [u \in Views |-> IF u = v THEN NoView ELSE view[u]]
    BY <2>1 DEF Types, TypeOK
  <2>3. \A u \in Views : /\ refs'[u] = {} => view'[u] = NoView
                         /\ refs'[u] # {} => /\ view'[u].world \in Worlds
                                             /\ u \in refs'[view'[u].world]
    BY <2>1, <2>2
  <2>4. \A g \in Groups : group'[g] # NULL => g \in refs'[group'[g]]
    BY <2>1, <2>2, <1>0, <1>2
  <2>5. \A f \in Frames : frame'[f].pc # "idle" => f \in refs'[frame'[f].self]
    BY <2>1, <2>2 DEF Types, TypeOK, FrameBounds
  <2>6. \A w \in Worlds : refs'[w] = {} => world'[w] = NULL
    BY <2>1, <2>2 DEF WorldDecref, WorldDealloc, Types, TypeOK
  <2>7. QED BY <2>3, <2>4, <2>5, <2>6
<1>3. QED BY <1>1, <1>2

LEMMA NewGroupCounted ==
  ASSUME Types, Counted, NEW v \in Views, NEW g \in Groups, NEW k,
         NewGroup(v, g, k), refs[v] # {}
  PROVE  Counted'
BY ObjectsDistinct DEF Types, TypeOK, FrameBounds, Counted, NewGroup

LEMMA ViewCounted ==
  ASSUME Types, Counted, NEW v \in Views, ViewStep(v)
  PROVE  Counted'
<1>1. CASE View_read(v)
  BY <1>1 DEF View_read, Counted
<1>2. ASSUME NEW g \in Groups, View_item(v, g) PROVE Counted'
  BY <1>2, NewGroupCounted DEF View_item, Holds
<1>3. CASE DropView(v)
  <2>1. \A g \in Groups : g # Program
    BY ObjectsDistinct
  <2>2. QED
    BY <1>3, <2>1, ViewDecrefCounted DEF DropView, Holds
<1>4. QED BY <1>1, <1>2, <1>3 DEF ViewStep

LEMMA GroupCounted ==
  ASSUME Types, Counted, NEW g \in Groups, GroupStep(g)
  PROVE  Counted'
<1>1. ASSUME NEW s \in Groups, Group_sequence(g, s) PROVE Counted'
  <2>1. group[g] \in Views /\ refs[group[g]] # {}
    BY <1>1 DEF Group_sequence, Types, TypeOK, Counted
  <2>2. QED BY <1>1, <2>1, NewGroupCounted DEF Group_sequence
<1>2. CASE Chunk_read(g) \/ Sequence_read(g)
  BY <1>2 DEF Chunk_read, Sequence_read, SpanRead, Counted
<1>3. CASE DropGroup(g)
  <2>1. group[g] \in Views /\ g \in refs[group[g]]
    BY <1>3 DEF DropGroup, Types, TypeOK, Counted
  <2>2. \A h \in Groups : group'[h] # NULL => group'[h] = group[h] /\ h # g
    BY <1>3 DEF DropGroup, Types, TypeOK
  <2>3. QED
    BY <1>3, <2>1, <2>2, ViewDecrefCounted DEF DropGroup
<1>4. QED BY <1>1, <1>2, <1>3 DEF GroupStep

LEMMA FrameCounted ==
  ASSUME Types, Counted, NEW f \in Frames, FrameStep(f)
  PROVE  Counted'
<1> USE ObjectsDistinct DEF Types, TypeOK, FrameBounds, Counted
<1>1. ASSUME NEW w \in Worlds, NEW n \in Slots, Batch_call(f, w, n) PROVE Counted'
  BY <1>1 DEF Batch_call, Holds
<1>2. CASE Batch_acquire(f)
  BY <1>2 DEF Batch_acquire, TakeNext
<1>3. CASE Batch_acquire_fails(f)
  BY <1>3, SMTT(30) DEF Batch_acquire_fails, TakeNext
<1>4. CASE Batch_run(f)
  BY <1>4 DEF Batch_run, TakeNext
<1>5. CASE Batch_release(f)
  BY <1>5 DEF Batch_release
<1>6. CASE Batch_return(f)
  BY <1>6 DEF Batch_return, WorldDecref, WorldDealloc, NoFrame
<1>7. QED BY <1>1, <1>2, <1>3, <1>4, <1>5, <1>6 DEF FrameStep

LEMMA StepTypes == Types /\ Counted /\ [Next]_vars => Types' /\ Counted'
<1> SUFFICES ASSUME Types, Counted, [Next]_vars PROVE Types' /\ Counted'
  OBVIOUS
<1>1. CASE UNCHANGED vars
  BY <1>1 DEF vars, kvars, pvars, Types, TypeOK, KernelTypeOK, FrameBounds, Counted
<1>2. CASE Next
  BY <1>2, WorldTypes, WorldCounted, ViewTypes, ViewCounted, GroupTypes, GroupCounted,
     FrameTypes, FrameCounted DEF Next
<1>3. QED BY <1>1, <1>2

(* TypeOK holds in every reachable state: no call, nested or not, leaves a *)
(* field of an object outside its range.                                   *)
THEOREM TypeCorrect == Spec => []TypeOK
<1>1. Init => Types /\ Counted
  BY TypesInit, CountedInit
<1>2. Types /\ Counted => TypeOK
  BY DEF Types
<1>3. QED BY <1>1, <1>2, StepTypes, PTL DEF Spec

(* No object outlives what it points at, whatever the program drops first. *)
THEOREM NoDanglingReference == Spec => []ReferentsAlive
<1>1. Init => Types /\ Counted
  BY TypesInit, CountedInit
<1>2. Types /\ Counted => ReferentsAlive
  BY DEF Counted, ReferentsAlive
<1>3. QED BY <1>1, <1>2, StepTypes, PTL DEF Spec

-----------------------------------------------------------------------------
(* Native worlds have one owner. *)

LEMMA OwnerInit == Init => SoleOwner
BY NullNotAddr DEF Init, KernelInit, SoleOwner, Live

LEMMA OwnerDecref ==
  ASSUME Types, SoleOwner, NEW w \in Worlds, NEW r, WorldDecref(w, r)
  PROVE  SoleOwner'
<1>1. CASE WorldDealloc(w)
  <2>1. /\ status' = [a \in Addrs |-> IF a = world[w] THEN "free" ELSE status[a]]
        /\ world' = [u \in Worlds |-> IF u = w THEN NULL ELSE world[u]]
    BY <1>1 DEF WorldDealloc, Destroyed, Types, TypeOK
  <2>2. QED BY <2>1, NullNotAddr DEF SoleOwner, Live, Types, TypeOK
<1>2. CASE UNCHANGED <<status, world>>
  BY <1>2 DEF SoleOwner, Live
<1>3. QED BY <1>1, <1>2 DEF WorldDecref

LEMMA OwnerWorld ==
  ASSUME Types, Counted, SoleOwner, NEW w \in Worlds, WorldStep(w)
  PROVE  SoleOwner'
<1> USE NullNotAddr DEF SoleOwner, Live, Types, TypeOK, KernelTypeOK, Statuses
<1>1. CASE World_new(w)
  BY <1>1 DEF World_new, kvars, Counted
<1>2. ASSUME NEW a \in Addrs, World_init(w, a) PROVE SoleOwner'
  <2>1. /\ status' = [b \in Addrs |-> IF b = a THEN "fresh"
                                      ELSE IF b = world[w] THEN "free" ELSE status[b]]
        /\ world' = [u \in Worlds |-> IF u = w THEN a ELSE world[u]]
        /\ status[a] = "free"
    BY <1>2 DEF World_init, Created, Destroyed
  <2>2. QED BY <2>1
<1>3. CASE World_close(w)
  BY <1>3 DEF World_close, Destroyed
<1>4. CASE World_begin_tick(w)
  BY <1>4 DEF World_begin_tick, KernelBegin, RequireOpen, CanBegin
<1>5. CASE World_end_tick(w)
  BY <1>5 DEF World_end_tick, KernelEnd, RequireOpen
<1>6. CASE ScalarCall(w)
  BY <1>6 DEF ScalarCall, kvars
<1>7. ASSUME NEW v \in Views, World_fanout_view(w, v) PROVE SoleOwner'
  BY <1>7 DEF World_fanout_view, kvars
<1>8. CASE DropWorld(w)
  BY <1>8, OwnerDecref DEF DropWorld
<1>9. QED
  BY <1>1, <1>2, <1>3, <1>4, <1>5, <1>6, <1>7, <1>8
     DEF WorldStep, World_entity_call, World_motion_call, World_mark_call,
         World_observer_call, World_query_call

LEMMA OwnerViewDecref ==
  ASSUME Types, Counted, SoleOwner, NEW v \in Views, NEW r, r \in refs[v],
         ViewDecref(v, r)
  PROVE  SoleOwner'
<1>1. view[v].world \in Worlds
  BY DEF Counted
<1>2. CASE UNCHANGED <<kvars, world>>
  BY <1>2 DEF SoleOwner, Live, kvars
<1>3. CASE WorldDecref(view[v].world, v)
  BY <1>1, <1>3, OwnerDecref
<1>4. QED BY <1>2, <1>3 DEF ViewDecref

(* Steps that touch no native world and no reference to one. *)
LEMMA OwnerQuiet == UNCHANGED <<status, world>> /\ SoleOwner => SoleOwner'
BY DEF SoleOwner, Live

LEMMA OwnerStep ==
  ASSUME Types, Counted, SoleOwner, [Next]_vars
  PROVE  SoleOwner'
<1>1. CASE UNCHANGED vars
  BY <1>1, OwnerQuiet DEF vars, kvars, pvars
<1>2. ASSUME NEW w \in Worlds, WorldStep(w) PROVE SoleOwner'
  BY <1>2, OwnerWorld
<1>3. ASSUME NEW v \in Views, ViewStep(v) PROVE SoleOwner'
  <2>1. CASE DropView(v)
    BY <2>1, OwnerViewDecref DEF DropView, Holds
  <2>2. CASE UNCHANGED <<status, world>>
    BY <2>2, OwnerQuiet
  <2>3. QED BY <1>3, <2>1, <2>2 DEF ViewStep, View_read, View_item, NewGroup, kvars
<1>4. ASSUME NEW g \in Groups, GroupStep(g) PROVE SoleOwner'
  <2>1. CASE DropGroup(g)
    <3>1. group[g] \in Views /\ g \in refs[group[g]]
      BY <2>1 DEF DropGroup, Types, TypeOK, Counted
    <3>2. QED BY <2>1, <3>1, OwnerViewDecref DEF DropGroup
  <2>2. CASE UNCHANGED <<status, world>>
    BY <2>2, OwnerQuiet
  <2>3. QED
    BY <1>4, <2>1, <2>2 DEF GroupStep, Group_sequence, NewGroup, Chunk_read,
       Sequence_read, SpanRead, kvars
<1>5. ASSUME NEW f \in Frames, FrameStep(f) PROVE SoleOwner'
  <2>1. CASE Batch_return(f)
    <3>1. frame[f].self \in Worlds /\ WorldDecref(frame[f].self, f)
      BY <2>1 DEF Batch_return, Types, FrameBounds
    <3>2. QED BY <3>1, OwnerDecref
  <2>2. CASE UNCHANGED <<status, world>>
    BY <2>2, OwnerQuiet
  <2>3. QED
    BY <1>5, <2>1, <2>2 DEF FrameStep, Batch_call, Batch_acquire, Batch_acquire_fails,
       Batch_run, Batch_release, kvars
<1>6. QED BY <1>1, <1>2, <1>3, <1>4, <1>5 DEF Next

(* A native world lives exactly while one World object points at it.       *)
THEOREM OwnershipSound == Spec => []SoleOwner
<1>1. Init => Types /\ Counted /\ SoleOwner
  BY TypesInit, CountedInit, OwnerInit
<1>2. Types /\ Counted /\ SoleOwner /\ [Next]_vars => (Types /\ Counted /\ SoleOwner)'
  BY StepTypes, OwnerStep
<1>3. QED BY <1>1, <1>2, PTL DEF Spec

-----------------------------------------------------------------------------
(* The generation check.                                                   *)

(* What a generation stands for: a view whose generation is its World's    *)
(* own was taken from the World's native world in its current, finalized   *)
(* period; one whose generation is behind belongs to a period that is over.*)
Period(v) ==
  LET w == view[v].world IN
  /\ view[v].native \in Addrs
  /\ view[v].lease <= issued
  /\ view[v].gen <= gen[w]
  /\ world[w] = NULL => view[v].gen < gen[w]
  /\ world[w] # NULL /\ view[v].gen = gen[w] =>
       /\ view[v].native = world[w]
       /\ view[v].lease = lease[world[w]]
       /\ status[world[w]] = "final"
  /\ world[w] # NULL /\ view[v].gen # gen[w] => view[v].lease # lease[world[w]]

Periods ==
  /\ \A a \in Addrs : lease[a] <= issued
  /\ \A v \in Views : refs[v] # {} => Period(v)

IInv == Types /\ Counted /\ SoleOwner /\ Periods

LEMMA PeriodsExact == IInv => ValidIffLent
<1> SUFFICES ASSUME IInv, NEW v \in Views, refs[v] # {}
             PROVE  RequireValid(v) <=> /\ world[view[v].world] = view[v].native
                                        /\ Lent(view[v].native, view[v].lease)
  BY DEF ValidIffLent
<1>1. view[v].world \in Worlds /\ Period(v)
  BY DEF IInv, Counted, Periods
<1>2. view[v].world # NULL
  BY <1>1, ObjectsDistinct
<1>3. QED BY <1>1, <1>2, NullNotAddr DEF Period, RequireValid, Lent, Live

LEMMA PeriodsInit == Init => Periods
BY DEF Init, KernelInit, Periods

LEMMA PeriodsQuiet ==
  ASSUME Periods, UNCHANGED <<kvars, world, gen, view>>,
         \A v \in Views : refs'[v] # {} => refs[v] # {}
  PROVE  Periods'
BY DEF Periods, Period, kvars

(* Giving up a World, the last reference to it or not: no view left refers *)
(* to a World that goes away.                                              *)
LEMMA PeriodsDecref ==
  ASSUME IInv, NEW w \in Worlds, NEW r, WorldDecref(w, r),
         \A v \in Views : refs'[v] # {} =>
            refs[v] # {} /\ view'[v] = view[v] /\ v # r
  PROVE  Periods'
<1>1. CASE refs[w] = {r} /\ WorldDealloc(w)
  <2>1. /\ status' = [a \in Addrs |-> IF a = world[w] THEN "free" ELSE status[a]]
        /\ world' = [u \in Worlds |-> IF u = w THEN NULL ELSE world[u]]
        /\ gen' = [u \in Worlds |-> IF u = w THEN 0 ELSE gen[u]]
        /\ UNCHANGED <<lease, issued>>
    BY <1>1 DEF WorldDecref, WorldDealloc, Destroyed, IInv, Types, TypeOK, KernelTypeOK
  <2>2. ASSUME NEW v \in Views, refs'[v] # {} PROVE Period(v)'
    <3>1. /\ view'[v] = view[v] /\ Period(v)
          /\ view[v].world \in Worlds /\ view[v].world # w
      BY <2>2, <1>1 DEF IInv, Counted, Periods
    <3>2. world[view[v].world] # NULL => world[view[v].world] # world[w]
      BY <3>1 DEF IInv, SoleOwner
    <3>3. QED
      BY <2>1, <3>1, <3>2 DEF Period, IInv, Types, TypeOK, KernelTypeOK
  <2>3. QED BY <2>1, <2>2 DEF Periods, IInv
<1>2. CASE UNCHANGED <<status, world, gen>>
  BY <1>2, SMTT(30) DEF WorldDecref, IInv, Periods, Period
<1>3. QED BY <1>1, <1>2 DEF WorldDecref

LEMMA PeriodsWorld ==
  ASSUME IInv, NEW w \in Worlds, WorldStep(w)
  PROVE  Periods'
<1> USE NullNotAddr, MaxLeaseNat
    DEF IInv, Types, TypeOK, KernelTypeOK, Periods, Period, Counted, Statuses
<1>1. CASE World_new(w)
  <2>1. /\ \A v \in Views : refs'[v] = refs[v]
        /\ \A v \in Views : refs[v] # {} => view[v].world # w
    BY <1>1, ObjectsDistinct DEF World_new
  <2>2. QED BY <1>1, <2>1 DEF World_new, kvars
<1>2. ASSUME NEW a \in Addrs, World_init(w, a) PROVE Periods'
  <2>1. /\ status' = [b \in Addrs |-> IF b = a THEN "fresh"
                                      ELSE IF b = world[w] THEN "free" ELSE status[b]]
        /\ world' = [u \in Worlds |-> IF u = w THEN a ELSE world[u]]
        /\ lease' = [b \in Addrs |-> IF b = a THEN issued + 1 ELSE lease[b]]
        /\ gen' = [u \in Worlds |-> IF u = w /\ world[w] # NULL
                                    THEN gen[u] + 1 ELSE gen[u]]
        /\ issued' = issued + 1
        /\ status[a] = "free"
        /\ UNCHANGED <<view, refs>>
    BY <1>2 DEF World_init, Created, Destroyed, NewLease
  <2>2. \A u \in Worlds : world[u] # NULL => world[u] # a /\ (u # w => world[u] # world[w])
    BY <2>1 DEF SoleOwner, Live
  <2>3. ASSUME NEW v \in Views, refs[v] # {} PROVE Period(v)'
    <3>1. view[v].world \in Worlds /\ Period(v)
      BY <2>3
    <3>2. CASE view[v].world = w
      BY <2>1, <3>1, <3>2
    <3>3. CASE view[v].world # w
      BY <2>1, <2>2, <3>1, <3>3
    <3>4. QED BY <3>2, <3>3
  <2>4. \A b \in Addrs : lease'[b] <= issued'
    BY <2>1
  <2>5. \A v \in Views : refs'[v] # {} => Period(v)'
    BY <2>1, <2>3
  <2> HIDE DEF Period
  <2>6. QED BY <2>4, <2>5
<1>3. CASE World_close(w)
  <2>1. /\ world[w] \in Addrs
        /\ status' = [b \in Addrs |-> IF b = world[w] THEN "free" ELSE status[b]]
        /\ world' = [u \in Worlds |-> IF u = w THEN NULL ELSE world[u]]
        /\ gen' = [u \in Worlds |-> IF u = w THEN gen[u] + 1 ELSE gen[u]]
        /\ UNCHANGED <<lease, issued, view, refs>>
    BY <1>3 DEF World_close, Destroyed
  <2>2. \A u \in Worlds : u # w => world[u] # world[w]
    BY <2>1 DEF SoleOwner
  <2>3. ASSUME NEW v \in Views, refs[v] # {} PROVE Period(v)'
    <3>1. view[v].world \in Worlds /\ Period(v)
      BY <2>3
    <3>2. CASE view[v].world = w
      BY <2>1, <3>1, <3>2
    <3>3. CASE view[v].world # w
      <4>1. world[view[v].world] # world[w]
        BY <2>2, <3>1, <3>3
      <4>2. QED BY <2>1, <3>1, <3>3, <4>1
    <3>4. QED BY <3>2, <3>3
  <2>4. QED BY <2>1, <2>3
<1>4. CASE World_begin_tick(w)
  <2>1. /\ world[w] \in Addrs
        /\ status' = [status EXCEPT ![world[w]] = "open"]
        /\ lease' = [b \in Addrs |-> IF b = world[w] THEN issued + 1 ELSE lease[b]]
        /\ issued' = issued + 1
        /\ gen' = [u \in Worlds |-> IF u = w THEN gen[u] + 1 ELSE gen[u]]
        /\ UNCHANGED <<world, view, refs>>
    BY <1>4 DEF World_begin_tick, KernelBegin, NewLease, RequireOpen
  <2>2. \A u \in Worlds : u # w => world[u] # world[w]
    BY <2>1 DEF SoleOwner
  <2>3. QED BY <2>1, <2>2
<1>5. CASE World_end_tick(w)
  BY <1>5 DEF World_end_tick, KernelEnd, RequireOpen
<1>6. CASE ScalarCall(w)
  BY <1>6, PeriodsQuiet DEF ScalarCall
<1>7. ASSUME NEW v \in Views, World_fanout_view(w, v) PROVE Periods'
  <2>1. /\ world[w] \in Addrs /\ status[world[w]] = "final"
        /\ \A u \in Views \ {v} : view'[u] = view[u] /\ refs'[u] = refs[u]
        /\ view'[v] = [world  |-> w,        gen   |-> gen[w],
                       native |-> world[w], lease |-> lease[world[w]]]
        /\ UNCHANGED <<kvars, world, gen>>
    BY <1>7, ObjectsDistinct DEF World_fanout_view, RequireOpen, CanLend
  <2>2. ASSUME NEW u \in Views, refs'[u] # {} PROVE Period(u)'
    <3>1. CASE u = v
      BY <2>1, <3>1 DEF kvars
    <3>2. CASE u # v
      <4>1. view'[u] = view[u] /\ Period(u)
        BY <2>1, <2>2, <3>2
      <4>2. QED BY <2>1, <4>1 DEF kvars
    <3>3. QED BY <3>1, <3>2
  <2> HIDE DEF Period
  <2>3. QED BY <2>1, <2>2 DEF kvars
<1>8. CASE DropWorld(w)
  <2>1. \A v \in Views : refs'[v] # {} => refs[v] # {} /\ view'[v] = view[v] /\ v # Program
    BY <1>8, ObjectsDistinct DEF DropWorld
  <2>2. WorldDecref(w, Program)
    BY <1>8 DEF DropWorld
  <2> HIDE DEF IInv, Periods
  <2>3. QED BY <2>1, <2>2, PeriodsDecref
<1>9. QED
  BY <1>1, <1>2, <1>3, <1>4, <1>5, <1>6, <1>7, <1>8
     DEF WorldStep, World_entity_call, World_motion_call, World_mark_call,
         World_observer_call, World_query_call

LEMMA PeriodsViewDecref ==
  ASSUME IInv, NEW v \in Views, NEW r, r \in refs[v], ViewDecref(v, r)
  PROVE  Periods'
<1>1. CASE refs[v] # {r}
  <2>1. /\ UNCHANGED <<kvars, world, gen, view>>
        /\ \A u \in Views : refs'[u] # {} => refs[u] # {}
    BY <1>1 DEF ViewDecref, IInv, Types, TypeOK
  <2>2. QED BY <2>1, PeriodsQuiet DEF IInv
<1>2. CASE refs[v] = {r}
  <2>1. /\ view[v].world \in Worlds
        /\ WorldDecref(view[v].world, v)
    BY <1>2 DEF ViewDecref, IInv, Counted
  <2>2. \A u \in Views : refs'[u] # {} => refs[u] # {} /\ view'[u] = view[u] /\ u # v
    BY <1>2, <2>1, ObjectsDistinct DEF ViewDecref, IInv, Types, TypeOK
  <2>3. QED BY <2>1, <2>2, PeriodsDecref
<1>3. QED BY <1>1, <1>2

LEMMA PeriodsNewGroup ==
  ASSUME IInv, NEW v \in Views, NEW g \in Groups, NEW k, NewGroup(v, g, k), refs[v] # {}
  PROVE  Periods'
<1>1. \A u \in Views : refs'[u] # {} => refs[u] # {}
  BY DEF NewGroup, IInv, Types, TypeOK
<1>2. QED BY <1>1, PeriodsQuiet DEF NewGroup, IInv

LEMMA PeriodsStep ==
  ASSUME IInv, [Next]_vars
  PROVE  Periods'
<1>1. CASE UNCHANGED vars
  BY <1>1, PeriodsQuiet DEF vars, pvars, IInv
<1>2. ASSUME NEW w \in Worlds, WorldStep(w) PROVE Periods'
  BY <1>2, PeriodsWorld
<1>3. ASSUME NEW v \in Views, ViewStep(v) PROVE Periods'
  <2>1. CASE View_read(v)
    BY <2>1, PeriodsQuiet DEF View_read, IInv
  <2>2. ASSUME NEW g \in Groups, View_item(v, g) PROVE Periods'
    BY <2>2, PeriodsNewGroup DEF View_item, Holds
  <2>3. CASE DropView(v)
    BY <2>3, PeriodsViewDecref DEF DropView, Holds
  <2>4. QED BY <1>3, <2>1, <2>2, <2>3 DEF ViewStep
<1>4. ASSUME NEW g \in Groups, GroupStep(g) PROVE Periods'
  <2>1. group[g] # NULL => group[g] \in Views /\ g \in refs[group[g]]
    BY DEF IInv, Types, TypeOK, Counted
  <2>2. ASSUME NEW s \in Groups, Group_sequence(g, s) PROVE Periods'
    BY <2>1, <2>2, PeriodsNewGroup DEF Group_sequence
  <2>3. CASE Chunk_read(g) \/ Sequence_read(g)
    BY <2>3, PeriodsQuiet DEF Chunk_read, Sequence_read, SpanRead, IInv
  <2>4. CASE DropGroup(g)
    BY <2>1, <2>4, PeriodsViewDecref DEF DropGroup
  <2>5. QED BY <1>4, <2>2, <2>3, <2>4 DEF GroupStep
<1>5. ASSUME NEW f \in Frames, FrameStep(f) PROVE Periods'
  <2>1. ASSUME NEW w \in Worlds, NEW n \in Slots, Batch_call(f, w, n) PROVE Periods'
    <3>1. \A v \in Views : refs'[v] = refs[v]
      BY <2>1, ObjectsDistinct DEF Batch_call, IInv, Types, TypeOK
    <3>2. QED BY <2>1, <3>1, PeriodsQuiet DEF Batch_call, IInv
  <2>2. CASE Batch_return(f)
    <3>1. frame[f].self \in Worlds
      BY <2>2 DEF Batch_return, IInv, Types, FrameBounds
    <3>2. \A v \in Views : refs'[v] # {} => refs[v] # {} /\ view'[v] = view[v] /\ v # f
      BY <2>2, <3>1, ObjectsDistinct DEF Batch_return, IInv, Types, TypeOK
    <3>3. QED BY <2>2, <3>1, <3>2, PeriodsDecref DEF Batch_return
  <2>3. CASE UNCHANGED <<kvars, world, gen, view, refs>>
    BY <2>3, PeriodsQuiet DEF IInv
  <2>4. QED
    BY <1>5, <2>1, <2>2, <2>3 DEF FrameStep, Batch_acquire, Batch_acquire_fails,
       Batch_run, Batch_release
<1>6. QED BY <1>1, <1>2, <1>3, <1>4, <1>5 DEF Next

LEMMA IInvInductive == (Init => IInv) /\ (IInv /\ [Next]_vars => IInv')
<1>1. Init => IInv
  BY TypesInit, CountedInit, OwnerInit, PeriodsInit DEF IInv
<1>2. IInv /\ [Next]_vars => IInv'
  BY StepTypes, OwnerStep, PeriodsStep DEF IInv
<1>3. QED BY <1>1, <1>2

(* The generation check passes exactly when the spans may be read: the     *)
(* World still owns the native world the view came from and that world is  *)
(* still in the same, finalized, borrow period.                            *)
THEOREM GenerationCheckExact == Spec => []ValidIffLent
BY IInvInductive, PeriodsExact, PTL DEF Spec

(* Only Chunk_read and Sequence_read read spans, and a native call is made *)
(* on the world some World object points at.                               *)
LEMMA DecrefTouches ==
  ASSUME NEW w \in Worlds, NEW r, WorldDecref(w, r)
  PROVE  spans' = {} /\ calls' \subseteq {world[w]}
BY DEF WorldDecref, WorldDealloc, Touch

LEMMA ViewDecrefTouches ==
  ASSUME Types, Counted, NEW v \in Views, NEW r, r \in refs[v], ViewDecref(v, r)
  PROVE  spans' = {} /\ \A p \in calls' : \E w \in Worlds : p = world[w]
<1>1. view[v].world \in Worlds
  BY DEF Counted
<1>2. QED BY <1>1, DecrefTouches DEF ViewDecref, Touch

LEMMA Touches ==
  ASSUME IInv, Next
  PROVE  /\ \A p \in calls' : p # NULL => \E w \in Worlds : p = world[w]
         /\ spans' # {} => \E g \in Groups : Chunk_read(g) \/ Sequence_read(g)
<1> DEFINE Fine == /\ \A p \in calls' : p # NULL => \E w \in Worlds : p = world[w]
                   /\ spans' # {} => \E g \in Groups : Chunk_read(g) \/ Sequence_read(g)
<1>1. ASSUME NEW w \in Worlds, WorldStep(w) PROVE Fine
  <2>1. CASE DropWorld(w)
    BY <2>1, DecrefTouches DEF DropWorld
  <2>2. CASE \E c \in {{}, {world[w]}, {world[w]} \ {NULL}} : Touch(c, {})
    BY <2>2 DEF Touch
  <2>3. QED
    BY <1>1, <2>1, <2>2 DEF WorldStep, World_new, World_init, World_close,
       World_begin_tick, World_end_tick, World_entity_call, World_motion_call,
       World_mark_call, World_observer_call, World_query_call, ScalarCall,
       World_fanout_view
<1>2. ASSUME NEW v \in Views, ViewStep(v) PROVE Fine
  <2>1. CASE DropView(v)
    BY <2>1, ViewDecrefTouches DEF DropView, Holds, IInv
  <2>2. CASE Touch({}, {})
    BY <2>2 DEF Touch
  <2>3. QED BY <1>2, <2>1, <2>2 DEF ViewStep, View_read, View_item, NewGroup
<1>3. ASSUME NEW g \in Groups, GroupStep(g) PROVE Fine
  <2>1. CASE DropGroup(g)
    <3>1. group[g] \in Views /\ g \in refs[group[g]]
      BY <2>1 DEF DropGroup, IInv, Types, TypeOK, Counted
    <3>2. QED BY <2>1, <3>1, ViewDecrefTouches DEF DropGroup, IInv
  <2>2. ASSUME NEW s \in Groups, Group_sequence(g, s) PROVE Fine
    BY <2>2 DEF Group_sequence, NewGroup, Touch
  <2>3. CASE Chunk_read(g) \/ Sequence_read(g)
    BY <2>3 DEF Chunk_read, Sequence_read, SpanRead, Touch
  <2>4. QED BY <1>3, <2>1, <2>2, <2>3 DEF GroupStep
<1>4. ASSUME NEW f \in Frames, FrameStep(f) PROVE Fine
  <2>1. CASE Batch_return(f) \/ Batch_run(f)
    <3>1. frame[f].self \in Worlds
      BY <2>1 DEF Batch_return, Batch_run, IInv, Types, FrameBounds
    <3>2. QED BY <2>1, <3>1, DecrefTouches DEF Batch_return, Batch_run, Touch
  <2>2. CASE Touch({}, {})
    BY <2>2 DEF Touch
  <2>3. QED
    BY <1>4, <2>1, <2>2 DEF FrameStep, Batch_call, Batch_acquire, Batch_acquire_fails,
       Batch_release
<1>5. QED BY <1>1, <1>2, <1>3, <1>4 DEF Next

(* No step reads a span whose borrow is over.                              *)
THEOREM NoStaleRead == Spec => SpansReadAreLent
<1>1. ASSUME IInv, Next, NEW s \in spans'
      PROVE  Lent(s[1], s[2])
  <2>1. PICK g \in Groups : Chunk_read(g) \/ Sequence_read(g)
    BY <1>1, Touches
  <2>2. /\ group[g] \in Views /\ refs[group[g]] # {} /\ RequireValid(group[g])
        /\ s = <<view[group[g]].native, view[group[g]].lease>>
    BY <1>1, <2>1 DEF Chunk_read, Sequence_read, SpanRead, Touch, IInv, Types, TypeOK, Counted
  <2>3. QED BY <1>1, <2>2, PeriodsExact DEF ValidIffLent
<1>2. IInv /\ [Next]_vars => [\A s \in spans' : Lent(s[1], s[2])]_vars
  BY <1>1
<1>3. QED BY <1>2, IInvInductive, PTL DEF Spec, SpansReadAreLent

(* No step calls the kernel on a world that was destroyed, batch calls     *)
(* whose exporters closed or re-created the World included.                *)
THEOREM NoCallOnDestroyedWorld == Spec => NativeCallsAreLive
<1>1. ASSUME IInv, Next, NEW p \in calls', p # NULL
      PROVE  Live(p)
  BY <1>1, Touches DEF IInv, SoleOwner
<1>2. IInv /\ [Next]_vars => [\A p \in calls' : p # NULL => Live(p)]_vars
  BY <1>1
<1>3. QED BY <1>2, IInvInductive, PTL DEF Spec, NativeCallsAreLive

(* Neither a native call nor a read of a span comes too late.              *)
THEOREM NoUseAfterDestroy == Spec => NativeUseIsLive
BY NoStaleRead, NoCallOnDestroyedWorld DEF NativeUseIsLive

-----------------------------------------------------------------------------
(* Buffers. *)

LEMMA BuffersStep ==
  ASSUME Types, BuffersHeldByFrames, [Next]_vars
  PROVE  BuffersHeldByFrames'
<1>1. CASE UNCHANGED <<frame, exported>>
  BY <1>1 DEF BuffersHeldByFrames
<1>2. ASSUME NEW f \in Frames, NEW n \in 0..3, frame[f].held + 1 = n, n \in Slots,
             frame'[f].held = n, exported' = exported \cup {<<f, n>>},
             \A e \in Frames \ {f} : frame'[e] = frame[e]
      PROVE  BuffersHeldByFrames'
  BY <1>2 DEF BuffersHeldByFrames, Types, TypeOK, Slots
<1>3. ASSUME NEW f \in Frames, FrameStep(f) PROVE BuffersHeldByFrames'
  <2>1. ASSUME NEW pc, TakeNext(f, pc), frame[f].pc = "acquiring"
        PROVE  BuffersHeldByFrames'
    <3>1. frame[f].held + 1 \in 0..3 /\ frame[f].held + 1 \in Slots
      BY <2>1 DEF Types, TypeOK, FrameBounds, Slots
    <3>2. /\ frame'[f].held = frame[f].held + 1
          /\ \A e \in Frames \ {f} : frame'[e] = frame[e]
      BY <2>1 DEF TakeNext, Types, TypeOK
    <3>3. QED BY <2>1, <3>1, <3>2, <1>2 DEF TakeNext
  <2>2. CASE Batch_release(f)
    <3>1. /\ frame[f].held \in 1..3
          /\ frame'[f].held = frame[f].held - 1
          /\ \A e \in Frames \ {f} : frame'[e] = frame[e]
          /\ exported' = exported \ {<<f, frame[f].held>>}
      BY <2>2 DEF Batch_release, Types, TypeOK
    <3>2. QED BY <3>1 DEF BuffersHeldByFrames, Types, TypeOK, Slots
  <2>3. ASSUME exported' = exported,
               \A e \in Frames : frame'[e].held = frame[e].held
        PROVE  BuffersHeldByFrames'
    BY <2>3 DEF BuffersHeldByFrames
  <2>4. ASSUME NEW w \in Worlds, NEW n \in Slots, Batch_call(f, w, n)
        PROVE  BuffersHeldByFrames'
    BY <2>4, <2>3 DEF Batch_call, Types, TypeOK, FrameBounds, NoFrame
  <2>5. CASE Batch_acquire_fails(f)
    BY <2>5, <2>1, <2>3 DEF Batch_acquire_fails, Types, TypeOK
  <2>6. CASE Batch_return(f)
    BY <2>6, <2>3 DEF Batch_return, Types, TypeOK, NoFrame
  <2>7. QED
    BY <1>3, <2>1, <2>2, <2>4, <2>5, <2>6 DEF FrameStep, Batch_acquire, Batch_run
<1>4. QED
  BY <1>1, <1>3 DEF Next, vars, pvars, WorldStep, ViewStep, GroupStep, World_new,
     World_init, World_close, World_begin_tick, World_end_tick, World_entity_call,
     World_motion_call, World_mark_call, World_observer_call, World_query_call,
     ScalarCall, World_fanout_view, DropWorld, View_read, View_item, NewGroup,
     DropView, Group_sequence, DropGroup, Chunk_read, Sequence_read, SpanRead

(* Every buffer a batch call locked is released on every path.             *)
THEOREM BuffersReleased == Spec => []BuffersHeldByFrames
<1>1. Init => BuffersHeldByFrames
  BY DEF Init, BuffersHeldByFrames, NoFrame, Slots
<1>2. QED
  BY <1>1, TypesInit, CountedInit, StepTypes, BuffersStep, PTL DEF Spec

-----------------------------------------------------------------------------
(* The promise of FanoutLease.                                             *)

(* A world that lives has a borrow period, and so has a view.              *)
Started ==
  /\ \A a \in Addrs : Live(a) => lease[a] # 0
  /\ \A v \in Views : refs[v] # {} => view[v].lease # 0

PInv == IInv /\ Started

LEMMA StartedQuiet ==
  ASSUME Started, UNCHANGED lease, \A a \in Addrs : Live(a)' => Live(a),
         \A v \in Views : refs'[v] # {} => refs[v] # {} /\ view'[v] = view[v]
  PROVE  Started'
BY DEF Started

LEMMA CurrentKept ==
  ASSUME UNCHANGED <<lease, world>>
  PROVE  Current' = Current
BY DEF Current

LEMMA GrantedKept ==
  ASSUME UNCHANGED view, \A v \in Views : refs'[v] = {} <=> refs[v] = {}
  PROVE  Granted' = Granted
BY DEF Granted

LEMMA SilentStep ==
  ASSUME UNCHANGED <<lease, issued, world, view>>, answer' = NULL,
         \A v \in Views : refs'[v] = {} <=> refs[v] = {}
  PROVE  Promise!LeaseNext
BY CurrentKept, GrantedKept DEF Promise!LeaseNext, Promise!Silent

(* A World gets a native world, or its world begins the next tick. *)
LEMMA RenewStep ==
  ASSUME PInv, NEW w \in Worlds, NEW a \in Addrs, NewLease(a),
         world' = [u \in Worlds |-> IF u = w THEN a ELSE world[u]],
         \A u \in Worlds \ {w} : world[u] # a,
         UNCHANGED <<view, refs>>, answer' = NULL,
         \A b \in Addrs \ {a} : Live(b)' => Live(b)
  PROVE  Promise!LeaseNext /\ Started'
<1>1. /\ lease' = [b \in Addrs |-> IF b = a THEN issued + 1 ELSE lease[b]]
      /\ issued' = issued + 1 /\ issued + 1 # 0
  <2>1. lease \in [Addrs -> 0..MaxLease] /\ issued \in 0..MaxLease
    BY DEF PInv, IInv, Types, TypeOK, KernelTypeOK
  <2>2. lease' = [lease EXCEPT ![a] = issued + 1] /\ issued' = issued + 1
    BY DEF NewLease
  <2>3. issued + 1 # 0
    BY <2>1, MaxLeaseNat
  <2>4. lease' = [b \in Addrs |-> IF b = a THEN issued + 1 ELSE lease[b]]
    BY <2>1, <2>2, Zenon
  <2>5. QED BY <2>2, <2>3, <2>4
<1>2. a # NULL /\ \A u \in Worlds : world[u] \in Addrs \cup {NULL}
  BY NullNotAddr DEF PInv, IInv, Types, TypeOK
<1>3. ASSUME NEW u \in Worlds PROVE Current'[u] = IF u = w THEN issued + 1 ELSE Current[u]
  BY <1>1, <1>2 DEF Current
<1>4. Current' = [u \in Worlds |-> IF u = w THEN issued + 1 ELSE Current[u]]
  BY <1>3 DEF Current
<1>5. Current' = [Current EXCEPT ![w] = issued + 1]
  BY <1>4 DEF Current
<1>6. Promise!Renew(w)
  BY <1>1, <1>5, GrantedKept DEF Promise!Renew
<1>7. Started'
  BY <1>1 DEF PInv, Started
<1>8. QED BY <1>6, <1>7 DEF Promise!LeaseNext

(* What a view was granted, and that it is entitled as long as the check   *)
(* lets it through.                                                        *)
LEMMA Entitlement ==
  ASSUME PInv, NEW v \in Views, refs[v] # {}
  PROVE  /\ Granted[v] = <<view[v].world, view[v].lease>> /\ Granted[v] # NULL
         /\ Promise!Entitled(v) <=> RequireValid(v)
<1>1. /\ view[v].world \in Worlds /\ Period(v) /\ view[v].lease \in 1..MaxLease
      /\ view[v].world # NULL
  BY ObjectsDistinct DEF PInv, IInv, Types, TypeOK, Counted, Periods, Started
<1>2. Granted[v] = <<view[v].world, view[v].lease>> /\ Granted[v] # NULL
  <2>1. <<view[v].world, view[v].lease>> \in Worlds \X (0..MaxLease)
    BY <1>1
  <2>2. QED BY <2>1, NullNotPair DEF Granted
<1>3. Promise!Entitled(v) <=> Current[view[v].world] = view[v].lease
  BY <1>2 DEF Promise!Entitled
<1>4. Current[view[v].world] = view[v].lease <=> RequireValid(v)
  BY <1>1 DEF Current, RequireValid, Period
<1>5. QED BY <1>2, <1>3, <1>4

LEMMA AskStep ==
  ASSUME PInv, NEW v \in Views, refs[v] # {}, Reply(v),
         UNCHANGED <<kvars, world, view>>,
         \A u \in Views : refs'[u] = {} <=> refs[u] = {}
  PROVE  Promise!LeaseNext
<1>1. Granted[v][2] = view[v].lease
  BY Entitlement
<1>2. Promise!Ask(v)
  BY <1>1, Entitlement, CurrentKept, GrantedKept DEF Promise!Ask, Reply, kvars
<1>3. QED BY <1>2 DEF Promise!LeaseNext

LEMMA NewGroupAsks ==
  ASSUME PInv, NEW v \in Views, NEW g \in Groups, NEW k, refs[v] # {}, NewGroup(v, g, k)
  PROVE  Promise!LeaseNext /\ Started'
<1>1. \A u \in Views : refs'[u] = {} <=> refs[u] = {}
  BY DEF NewGroup, PInv, IInv, Types, TypeOK
<1>2. Started'
  BY <1>1, StartedQuiet DEF NewGroup, PInv, Live, kvars
<1>3. QED BY <1>1, <1>2, AskStep DEF NewGroup

(* Giving up a reference to a World.                                       *)
LEMMA DecrefPeriods ==
  ASSUME PInv, NEW w \in Worlds, NEW r, WorldDecref(w, r)
  PROVE  /\ UNCHANGED <<lease, issued>> /\ answer' = NULL
         /\ \A a \in Addrs : Live(a)' => Live(a)
         /\ \/ Current' = Current
            \/ refs[w] = {r} /\ Current' = [Current EXCEPT ![w] = 0]
<1>1. CASE refs[w] = {r} /\ WorldDealloc(w)
  <2>1. /\ world' = [u \in Worlds |-> IF u = w THEN NULL ELSE world[u]]
        /\ status' = [a \in Addrs |-> IF a = world[w] THEN "free" ELSE status[a]]
        /\ UNCHANGED <<lease, issued>> /\ answer' = NULL
    BY <1>1 DEF WorldDecref, WorldDealloc, Destroyed, PInv, IInv, Types, TypeOK
  <2>2. Current' = [u \in Worlds |-> IF u = w THEN 0 ELSE Current[u]]
    BY <2>1 DEF Current
  <2>3. Current' = [Current EXCEPT ![w] = 0]
    BY <2>2 DEF Current
  <2>4. QED BY <1>1, <2>1, <2>3 DEF Live
<1>2. CASE UNCHANGED <<status, world>>
  BY <1>2, CurrentKept DEF WorldDecref, Live
<1>3. QED BY <1>1, <1>2 DEF WorldDecref

(* The World ends with the last reference to it, and otherwise goes on.    *)
LEMMA DecrefEnds ==
  ASSUME PInv, NEW w \in Worlds, NEW r, WorldDecref(w, r), UNCHANGED view,
         \A v \in Views : refs'[v] = refs[v]
  PROVE  Promise!LeaseNext /\ Started'
<1>1. Granted' = Granted /\ Started'
  BY GrantedKept, DecrefPeriods, StartedQuiet DEF PInv
<1>2. Promise!Silent \/ Promise!End(w)
  BY <1>1, DecrefPeriods DEF Promise!Silent, Promise!End
<1>3. QED BY <1>1, <1>2 DEF Promise!LeaseNext

(* A view forgets what it was granted with the last reference to it, and   *)
(* takes its World along only when no other view holds that.               *)
LEMMA DecrefForgets ==
  ASSUME PInv, NEW v \in Views, NEW r, r \in refs[v], ViewDecref(v, r)
  PROVE  Promise!LeaseNext /\ Started'
<1>1. CASE refs[v] # {r}
  <2>1. /\ UNCHANGED <<kvars, world, view>> /\ answer' = NULL
        /\ \A u \in Views : refs'[u] = {} <=> refs[u] = {}
    BY <1>1 DEF ViewDecref, PInv, IInv, Types, TypeOK
  <2>2. QED BY <2>1, SilentStep, StartedQuiet DEF PInv, Live, kvars
<1>2. CASE refs[v] = {r}
  <2> DEFINE w == view[v].world
  <2>1. w \in Worlds /\ WorldDecref(w, v)
    BY <1>2 DEF ViewDecref, PInv, IInv, Counted
  <2>2. /\ view' = [u \in Views |-> IF u = v THEN NoView ELSE view[u]]
        /\ \A u \in Views : refs'[u] = IF u = v THEN {} ELSE refs[u]
    <3>1. /\ view = [u \in Views |-> view[u]] /\ DOMAIN refs = Worlds \cup Views
          /\ w \notin Views /\ v \in Views
      BY <2>1, ObjectsDistinct DEF PInv, IInv, Types, TypeOK
    <3>2. /\ view' = [view EXCEPT ![v] = NoView]
          /\ refs' = [refs EXCEPT ![v] = {}, ![w] = @ \ {v}]
      BY <1>2 DEF ViewDecref
    <3>3. QED BY <3>1, <3>2
  <2>3. Started'
    BY <2>1, <2>2, DecrefPeriods, StartedQuiet DEF PInv
  <2>4. Granted' = [Granted EXCEPT ![v] = NULL]
    <3>1. Granted' = [u \in Views |-> IF u = v THEN NULL ELSE Granted[u]]
      BY <2>2 DEF Granted
    <3>2. QED BY <3>1 DEF Granted
  <2>5. Promise!LetGo(v)
    <3>1. CASE Current' = Current
      BY <3>1 DEF Promise!LetGo
    <3>2. CASE refs[w] = {v} /\ Current' = [Current EXCEPT ![w] = 0]
      <4>1. Granted[v] # NULL /\ Granted[v][1] = w
        BY <1>2, Entitlement
      <4>2. ASSUME NEW u \in Views \ {v}, Granted[u] # NULL PROVE Granted[u][1] # w
        <5>1. refs[u] # {}
          BY <4>2 DEF Granted
        <5>2. Granted[u][1] = view[u].world /\ u \in refs[view[u].world]
          BY <5>1, Entitlement DEF PInv, IInv, Counted
        <5>3. QED BY <3>2, <5>2
      <4>3. QED BY <3>2, <4>1, <4>2 DEF Promise!LetGo
    <3>3. QED BY <2>1, <3>1, <3>2, DecrefPeriods
  <2>6. Promise!Forget(v)
    BY <2>1, <2>4, <2>5, DecrefPeriods DEF Promise!Forget
  <2>7. QED BY <2>3, <2>6 DEF Promise!LeaseNext
<1>3. QED BY <1>1, <1>2

LEMMA GrantStep ==
  ASSUME PInv, NEW w \in Worlds, NEW v \in Views, World_fanout_view(w, v)
  PROVE  Promise!LeaseNext /\ Started'
<1> DEFINE a == world[w]
<1>1. /\ a \in Addrs /\ a # NULL /\ Live(a) /\ lease[a] # 0 /\ w # NULL
  BY NullNotAddr, ObjectsDistinct
     DEF World_fanout_view, RequireOpen, PInv, IInv, Types, TypeOK, SoleOwner, Started
<1>2. /\ view' = [u \in Views |-> IF u = v THEN [world |-> w, gen |-> gen[w], native |-> a,
                                                 lease |-> lease[a]]
                                  ELSE view[u]]
      /\ \A u \in Views : refs'[u] = IF u = v THEN {Program} ELSE refs[u]
      /\ refs[v] = {} /\ UNCHANGED <<kvars, world>> /\ answer' = NULL
  BY ObjectsDistinct DEF World_fanout_view, PInv, IInv, Types, TypeOK
<1>3. Current[w] = lease[a]
  BY <1>1 DEF Current
<1>4. Granted' = [Granted EXCEPT ![v] = <<w, Current[w]>>]
  <2>1. Granted' = [u \in Views |-> IF u = v THEN <<w, Current[w]>> ELSE Granted[u]]
    BY <1>2, <1>3 DEF Granted
  <2>2. QED BY <2>1 DEF Granted
<1>5. Granted[v] = NULL
  BY <1>2 DEF Granted
<1>6. Promise!Grant(v, w)
  BY <1>1, <1>2, <1>3, <1>4, <1>5, CurrentKept DEF Promise!Grant, kvars
<1>7. Started'
  BY <1>1, <1>2 DEF PInv, Started, Live, kvars
<1>8. QED BY <1>6, <1>7 DEF Promise!LeaseNext

LEMMA WorldPromise ==
  ASSUME PInv, NEW w \in Worlds, WorldStep(w)
  PROVE  Promise!LeaseNext /\ Started'
<1>1. CASE World_new(w)
  <2>1. world' = world
    BY <1>1 DEF World_new, PInv, IInv, Types, TypeOK, Counted
  <2>2. \A v \in Views : refs'[v] = refs[v]
    BY <1>1, ObjectsDistinct DEF World_new, PInv, IInv, Types, TypeOK
  <2>3. QED
    BY <1>1, <2>1, <2>2, SilentStep, StartedQuiet DEF World_new, PInv, Live, kvars
<1>2. ASSUME NEW a \in Addrs, World_init(w, a) PROVE Promise!LeaseNext /\ Started'
  <2>1. \A u \in Worlds : world[u] # a
    BY <1>2, NullNotAddr DEF World_init, PInv, IInv, SoleOwner, Live
  <2>2. /\ world' = [u \in Worlds |-> IF u = w THEN a ELSE world[u]]
        /\ \A b \in Addrs \ {a} : Live(b)' => Live(b)
    BY <1>2 DEF World_init, Created, Destroyed, Live, PInv, IInv, Types, TypeOK
  <2>3. NewLease(a) /\ UNCHANGED <<view, refs>> /\ answer' = NULL
    BY <1>2 DEF World_init
  <2>4. QED BY <2>1, <2>2, <2>3, RenewStep
<1>3. CASE World_close(w)
  <2>1. /\ world' = [u \in Worlds |-> IF u = w THEN NULL ELSE world[u]]
        /\ status' = [a \in Addrs |-> IF a = world[w] THEN "free" ELSE status[a]]
        /\ UNCHANGED <<lease, issued, view, refs>> /\ answer' = NULL
    BY <1>3 DEF World_close, Destroyed, PInv, IInv, Types, TypeOK
  <2>2. Current' = [u \in Worlds |-> IF u = w THEN 0 ELSE Current[u]]
    BY <2>1 DEF Current
  <2>3. Current' = [Current EXCEPT ![w] = 0]
    BY <2>2 DEF Current
  <2>4. Promise!End(w)
    BY <2>1, <2>3, GrantedKept DEF Promise!End
  <2>5. Started'
    BY <2>1, StartedQuiet DEF PInv, Live
  <2>6. QED BY <2>4, <2>5 DEF Promise!LeaseNext
<1>4. CASE World_begin_tick(w)
  <2>1. /\ world[w] \in Addrs /\ \A u \in Worlds \ {w} : world[u] # world[w]
    BY <1>4 DEF World_begin_tick, RequireOpen, PInv, IInv, Types, TypeOK, SoleOwner
  <2>2. /\ world' = [u \in Worlds |-> IF u = w THEN world[w] ELSE world[u]]
        /\ \A b \in Addrs \ {world[w]} : Live(b)' => Live(b)
    BY <1>4, <2>1 DEF World_begin_tick, KernelBegin, Live, PInv, IInv, Types, TypeOK
  <2>3. NewLease(world[w]) /\ UNCHANGED <<view, refs>> /\ answer' = NULL
    BY <1>4 DEF World_begin_tick, KernelBegin
  <2>4. QED BY <2>1, <2>2, <2>3, RenewStep
<1>5. CASE World_end_tick(w)
  <2>1. \A a \in Addrs : Live(a)' => Live(a)
    BY <1>5 DEF World_end_tick, KernelEnd, Live, PInv, IInv, Types, TypeOK, KernelTypeOK
  <2>2. UNCHANGED <<lease, issued, world, view, refs>> /\ answer' = NULL
    BY <1>5 DEF World_end_tick, KernelEnd
  <2>3. QED BY <2>1, <2>2, SilentStep, StartedQuiet DEF PInv
<1>6. CASE ScalarCall(w)
  BY <1>6, SilentStep, StartedQuiet DEF ScalarCall, PInv, Live, kvars
<1>7. CASE DropWorld(w)
  <2>1. \A v \in Views : refs'[v] = refs[v]
    BY <1>7, ObjectsDistinct DEF DropWorld, PInv, IInv, Types, TypeOK
  <2>2. QED BY <1>7, <2>1, DecrefEnds DEF DropWorld
<1>8. QED
  BY <1>1, <1>2, <1>3, <1>4, <1>5, <1>6, <1>7, GrantStep
     DEF WorldStep, World_entity_call, World_motion_call, World_mark_call,
         World_observer_call, World_query_call

LEMMA ObjectPromise ==
  ASSUME PInv, Next, \A w \in Worlds : ~WorldStep(w)
  PROVE  Promise!LeaseNext /\ Started'
<1>1. ASSUME NEW v \in Views, refs[v] # {}, Reply(v),
             UNCHANGED <<kvars, world, view, refs>>
      PROVE  Promise!LeaseNext /\ Started'
  BY <1>1, AskStep, StartedQuiet DEF PInv, Live, kvars
<1>2. ASSUME NEW v \in Views, ViewStep(v) PROVE Promise!LeaseNext /\ Started'
  <2>1. CASE View_read(v)
    BY <1>1, <2>1 DEF View_read, Holds
  <2>2. ASSUME NEW g \in Groups, View_item(v, g) PROVE Promise!LeaseNext /\ Started'
    BY <2>2, NewGroupAsks DEF View_item, Holds
  <2>3. CASE DropView(v)
    BY <2>3, DecrefForgets DEF DropView, Holds
  <2>4. QED BY <1>2, <2>1, <2>2, <2>3 DEF ViewStep
<1>3. ASSUME NEW g \in Groups, GroupStep(g) PROVE Promise!LeaseNext /\ Started'
  <2>1. group[g] # NULL => group[g] \in Views /\ g \in refs[group[g]]
    BY DEF PInv, IInv, Types, TypeOK, Counted
  <2>2. ASSUME NEW s \in Groups, Group_sequence(g, s) PROVE Promise!LeaseNext /\ Started'
    BY <2>1, <2>2, NewGroupAsks DEF Group_sequence
  <2>3. CASE Chunk_read(g) \/ Sequence_read(g)
    BY <1>1, <2>1, <2>3 DEF Chunk_read, Sequence_read, SpanRead
  <2>4. CASE DropGroup(g)
    BY <2>1, <2>4, DecrefForgets DEF DropGroup
  <2>5. QED BY <1>3, <2>2, <2>3, <2>4 DEF GroupStep
<1>4. ASSUME NEW f \in Frames, FrameStep(f) PROVE Promise!LeaseNext /\ Started'
  <2>1. ASSUME NEW w \in Worlds, NEW n \in Slots, Batch_call(f, w, n)
        PROVE  Promise!LeaseNext /\ Started'
    <3>1. \A v \in Views : refs'[v] = refs[v]
      BY <2>1, ObjectsDistinct DEF Batch_call, PInv, IInv, Types, TypeOK
    <3>2. QED BY <2>1, <3>1, SilentStep, StartedQuiet DEF Batch_call, PInv, Live, kvars
  <2>2. CASE Batch_return(f)
    <3>1. frame[f].self \in Worlds
      BY <2>2 DEF Batch_return, PInv, IInv, Types, FrameBounds
    <3>2. \A v \in Views : refs'[v] = refs[v]
      BY <2>2, <3>1, ObjectsDistinct DEF Batch_return, PInv, IInv, Types, TypeOK
    <3>3. QED BY <2>2, <3>1, <3>2, DecrefEnds DEF Batch_return
  <2>3. CASE UNCHANGED <<kvars, world, view, refs>> /\ answer' = NULL
    BY <2>3, SilentStep, StartedQuiet DEF PInv, Live, kvars
  <2>4. QED
    BY <1>4, <2>1, <2>2, <2>3 DEF FrameStep, Batch_acquire, Batch_acquire_fails,
       Batch_run, Batch_release
<1>5. QED BY <1>2, <1>3, <1>4 DEF Next

LEMMA PromiseInit == Init => Promise!LeaseInit /\ PInv
<1>1. Init => Promise!LeaseInit /\ Started
  BY DEF Init, KernelInit, Promise!LeaseInit, Current, Granted, Started, Live
<1>2. QED BY <1>1, IInvInductive DEF PInv

LEMMA PromiseStep == PInv /\ [Next]_vars => [Promise!LeaseNext]_(Promise!lvars) /\ PInv'
<1>1. UNCHANGED vars /\ PInv => UNCHANGED Promise!lvars /\ Started'
  BY CurrentKept, GrantedKept DEF vars, pvars, kvars, Promise!lvars, PInv, Started, Live
<1>2. PInv /\ Next => Promise!LeaseNext /\ Started'
  BY WorldPromise, ObjectPromise
<1>3. QED BY <1>1, <1>2, IInvInductive DEF PInv

(* A view answers with the data of the borrow period it was taken in while *)
(* it is the current one of its World, and refuses from then on, even when *)
(* the World is re-created or its last reference goes with another view.   *)
THEOREM PyPromiseKept == Spec => KeepsPromise
BY PromiseInit, PromiseStep, PTL DEF Spec, KeepsPromise, Promise!LeaseSpec
=============================================================================
