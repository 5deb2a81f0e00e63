----------------------------- MODULE PyBinding -----------------------------
(***************************************************************************)
(* The CPython extension bindings/python/src/dense_sim/_dense_sim.c: World *)
(* objects that own a native world, fanout views and the group objects     *)
(* read through them, the generation check that guards every borrowed      *)
(* span, the reference counts that decide when an object goes away, and    *)
(* the batch calls that hold buffers while Python code runs.               *)
(*                                                                         *)
(* The extension never releases the interpreter lock, so a call is atomic  *)
(* except where the interpreter runs Python code on its behalf: while      *)
(* arguments are parsed, before the object is looked at, and while a batch *)
(* call acquires and releases buffers (an exporter may be written in       *)
(* Python).  There any other call may run, nested or in another thread;    *)
(* Frames are the batch calls in progress.                                 *)
(*                                                                         *)
(* A reference count is kept as the set of those that hold a counted       *)
(* reference; an object exists while that set is not empty.  Left out: the *)
(* world's contents, indices, formatting, failed allocations (they change  *)
(* nothing), and wrap-around of the 64-bit generation.                     *)
(***************************************************************************)
EXTENDS DenseKernel, Integers

CONSTANTS
  Worlds,   (* DenseWorld objects.                                         *)
  Views,    (* DenseFanoutView objects.                                    *)
  Groups,   (* DenseChunkDeltaView and the two sequence objects.           *)
  Frames,   (* Batch calls that can be in progress at once.                *)
  Program   (* The Python program, as a holder of references.              *)

ASSUME ObjectsDistinct ==
  /\ Worlds \cap Views = {}
  /\ NULL \notin Worlds \cup Views \cup Groups \cup Frames
  /\ Program \notin Views \cup Groups \cup Frames
  /\ Views \cap Frames = {}
ASSUME NullNotPair == NULL \notin Worlds \X (0..MaxLease)

VARIABLES
  world,    (* Worlds -> DenseWorld.world, the native world or NULL.       *)
  gen,      (* Worlds -> DenseWorld.view_generation.                       *)
  view,     (* Views -> the fields of a DenseFanoutView.                   *)
  group,    (* Groups -> the fanout view a group object reads through.     *)
  kind,     (* Groups -> "chunk", or "sequence" for entries/subscribers.   *)
  refs,     (* Worlds and Views -> the holders of a counted reference.     *)
  frame,    (* Frames -> a move_many or mark_dirty_many in progress.       *)
  exported, (* Buffers their exporters see as locked: <<frame, slot>>.     *)
  calls,    (* Worlds the last step passed to native functions.            *)
  spans,    (* Borrowed spans <<address, lease>> the last step read.       *)
  answer    (* What a view answered in the last step, else NULL.           *)

pvars == <<world, gen, view, group, kind, refs, frame, exported,
           calls, spans, answer>>
vars == <<kvars, pvars>>

NoView  == [world |-> NULL, gen |-> 0, native |-> NULL, lease |-> 0]
NoFrame == [self |-> NULL, pc |-> "idle", want |-> 0, held |-> 0]

(* move_many takes three buffers, mark_dirty_many two, or one beside a     *)
(* scalar mask.                                                            *)
Slots == 1..3
Pcs   == {"idle", "acquiring", "releasing"}

TypeOK ==
  /\ KernelTypeOK
  /\ world \in [Worlds -> Addrs \cup {NULL}]
  /\ gen \in [Worlds -> Nat]
  /\ view \in [Views -> [world: Worlds \cup {NULL}, gen: Nat,
                         native: Addrs \cup {NULL}, lease: 0..MaxLease]]
  /\ group \in [Groups -> Views \cup {NULL}]
  /\ kind \in [Groups -> {"chunk", "sequence"}]
  /\ refs \in [Worlds \cup Views ->
                 SUBSET ({Program} \cup Views \cup Groups \cup Frames)]
  /\ frame \in [Frames -> [self: Worlds \cup {NULL}, pc: Pcs,
                           want: 0..3, held: 0..3]]
  /\ exported \in SUBSET (Frames \X Slots)
  /\ calls \in SUBSET (Addrs \cup {NULL})
  /\ spans \in SUBSET ((Addrs \cup {NULL}) \X (0..MaxLease))
  /\ answer \in {NULL} \cup (Views \X {"data", "refused"} \X (0..MaxLease))

Init ==
  /\ KernelInit
  /\ world = [w \in Worlds |-> NULL]
  /\ gen = [w \in Worlds |-> 0]
  /\ view = [v \in Views |-> NoView]
  /\ group = [g \in Groups |-> NULL]
  /\ kind = [g \in Groups |-> "chunk"]
  /\ refs = [o \in Worlds \cup Views |-> {}]
  /\ frame = [f \in Frames |-> NoFrame]
  /\ exported = {}
  /\ calls = {}
  /\ spans = {}
  /\ answer = NULL

Touch(called, read) == calls' = called /\ spans' = read

-----------------------------------------------------------------------------
(* Reference counts.                                                       *)

(* DenseWorld_dealloc destroys the native world. *)
WorldDealloc(w) ==
  /\ status' = Destroyed(status, world[w])
  /\ world' = [world EXCEPT ![w] = NULL]
  /\ gen' = [gen EXCEPT ![w] = 0]
  /\ Touch({world[w]}, {})

(* Py_DECREF of a World by holder r: the last one deallocates it. *)
WorldDecref(w, r) ==
  /\ answer' = NULL
  /\ UNCHANGED <<lease, issued>>
  /\ \/ refs[w] = {r} /\ WorldDealloc(w)
     \/ refs[w] # {r} /\ Touch({}, {}) /\ UNCHANGED <<status, world, gen>>

(* Py_DECREF of a FanoutView: the last one lets go of its World. *)
ViewDecref(v, r) ==
  \/ /\ refs[v] # {r}
     /\ refs' = [refs EXCEPT ![v] = @ \ {r}]
     /\ answer' = NULL
     /\ Touch({}, {})
     /\ UNCHANGED <<kvars, world, gen, view>>
  \/ /\ refs[v] = {r}
     /\ view' = [view EXCEPT ![v] = NoView]
     /\ refs' = [refs EXCEPT ![v] = {}, ![view[v].world] = @ \ {v}]
     /\ WorldDecref(view[v].world, v)

(* The program can call a method of an object it holds. *)
Holds(o) == Program \in refs[o]

DropWorld(w) ==
  /\ Holds(w)
  /\ refs' = [refs EXCEPT ![w] = @ \ {Program}]
  /\ WorldDecref(w, Program)
  /\ UNCHANGED <<view, group, kind, frame, exported>>

DropView(v) ==
  /\ Holds(v)
  /\ ViewDecref(v, Program)
  /\ UNCHANGED <<group, kind, frame, exported>>

DropGroup(g) ==
  /\ group[g] # NULL
  /\ group' = [group EXCEPT ![g] = NULL]
  /\ kind' = [kind EXCEPT ![g] = "chunk"]
  /\ ViewDecref(group[g], g)
  /\ UNCHANGED <<frame, exported>>

-----------------------------------------------------------------------------
(* World objects.                                                          *)

World_new(w) ==
  /\ refs[w] = {}
  /\ refs' = [refs EXCEPT ![w] = {Program}]
  /\ world' = [world EXCEPT ![w] = NULL]
  /\ gen' = [gen EXCEPT ![w] = 1]
  /\ answer' = NULL
  /\ Touch({}, {})
  /\ UNCHANGED <<kvars, view, group, kind, frame, exported>>

(* Defect: __init__ forgets the native world it replaces. *)
World_init_leaks(w, a) ==
  /\ Holds(w)
  /\ status[a] = "free"
  /\ NewLease(a)
  /\ status' = Created(status, a)
  /\ gen' = IF world[w] # NULL THEN [gen EXCEPT ![w] = @ + 1] ELSE gen
  /\ world' = [world EXCEPT ![w] = a]
  /\ answer' = NULL
  /\ Touch({}, {})
  /\ UNCHANGED <<view, group, kind, refs, frame, exported>>

(* __init__, which a program may call again on an initialized World: the   *)
(* new native world exists before the old one is destroyed.  A refused     *)
(* argument or a failed ds_world_create changes nothing.                   *)
World_init(w, a) ==
  /\ Holds(w)
  /\ status[a] = "free"
  /\ NewLease(a)
  /\ status' = Created(Destroyed(status, world[w]), a)
  /\ gen' = IF world[w] # NULL THEN [gen EXCEPT ![w] = @ + 1] ELSE gen
  /\ world' = [world EXCEPT ![w] = a]
  /\ answer' = NULL
  /\ Touch({world[w]} \ {NULL}, {})
  /\ UNCHANGED <<view, group, kind, refs, frame, exported>>

(* Defect: close does not advance the generation. *)
World_close_same_gen(w) ==
  /\ Holds(w)
  /\ world[w] # NULL
  /\ status' = Destroyed(status, world[w])
  /\ world' = [world EXCEPT ![w] = NULL]
  /\ answer' = NULL
  /\ Touch({world[w]}, {})
  /\ UNCHANGED <<lease, issued, gen, view, group, kind, refs, frame, exported>>

(* Defect: close leaves the destroyed world's address behind. *)
World_close_keeps_pointer(w) ==
  /\ Holds(w)
  /\ world[w] # NULL
  /\ status' = Destroyed(status, world[w])
  /\ gen' = [gen EXCEPT ![w] = @ + 1]
  /\ answer' = NULL
  /\ Touch({world[w]}, {})
  /\ UNCHANGED <<lease, issued, world, view, group, kind, refs, frame, exported>>

World_close(w) ==
  /\ Holds(w)
  /\ world[w] # NULL
  /\ status' = Destroyed(status, world[w])
  /\ world' = [world EXCEPT ![w] = NULL]
  /\ gen' = [gen EXCEPT ![w] = @ + 1]
  /\ answer' = NULL
  /\ Touch({world[w]}, {})
  /\ UNCHANGED <<lease, issued, view, group, kind, refs, frame, exported>>

(* dense_world_require_open *)
RequireOpen(w) == world[w] # NULL

World_begin_tick(w) ==
  /\ Holds(w)
  /\ RequireOpen(w)
  /\ KernelBegin(world[w])
  /\ gen' = [gen EXCEPT ![w] = @ + 1]
  /\ answer' = NULL
  /\ Touch({world[w]}, {})
  /\ UNCHANGED <<world, view, group, kind, refs, frame, exported>>

World_end_tick(w) ==
  /\ Holds(w)
  /\ RequireOpen(w)
  /\ KernelEnd(world[w])
  /\ answer' = NULL
  /\ Touch({world[w]}, {})
  /\ UNCHANGED <<world, gen, view, group, kind, refs, frame, exported>>

(* Every other scalar method, and every call the kernel refuses: the       *)
(* native world is called and nothing below changes.                       *)
ScalarCall(w) ==
  /\ Holds(w)
  /\ RequireOpen(w)
  /\ answer' = NULL
  /\ Touch({world[w]}, {})
  /\ UNCHANGED <<kvars, world, gen, view, group, kind, refs, frame, exported>>

World_entity_call(w)   == ScalarCall(w)  (* spawn, move *)
World_motion_call(w)   == ScalarCall(w)  (* motion plans and mode *)
World_mark_call(w)     == ScalarCall(w)  (* remove, mark_dirty *)
World_observer_call(w) == ScalarCall(w)  (* observers *)
World_query_call(w)    == ScalarCall(w)  (* existence, descriptions, counts *)

(* Defect: the view does not count its reference to the World. *)
World_fanout_view_uncounted(w, v) ==
  /\ Holds(w)
  /\ RequireOpen(w)
  /\ CanLend(world[w])
  /\ refs[v] = {}
  /\ view' = [view EXCEPT ![v] = [world  |-> w,        gen   |-> gen[w],
                                  native |-> world[w],
                                  lease  |-> lease[world[w]]]]
  /\ refs' = [refs EXCEPT ![v] = {Program}]
  /\ answer' = NULL
  /\ Touch({world[w]}, {})
  /\ UNCHANGED <<kvars, world, gen, group, kind, frame, exported>>

World_fanout_view(w, v) ==
  /\ Holds(w)
  /\ RequireOpen(w)
  /\ CanLend(world[w])
  /\ refs[v] = {}
  /\ view' = [view EXCEPT ![v] = [world  |-> w,        gen   |-> gen[w],
                                  native |-> world[w],
                                  lease  |-> lease[world[w]]]]
  /\ refs' = [refs EXCEPT ![v] = {Program}, ![w] = @ \cup {v}]
  /\ answer' = NULL
  /\ Touch({world[w]}, {})
  /\ UNCHANGED <<kvars, world, gen, group, kind, frame, exported>>

-----------------------------------------------------------------------------
(* Views and groups.                                                       *)

(* Defect: only the World is checked, not the generation. *)
RequireOpenWorld(v) ==
  /\ view[v].world # NULL
  /\ world[view[v].world] # NULL

(* dense_fanout_require_valid *)
RequireValid(v) ==
  /\ view[v].world # NULL
  /\ world[view[v].world] # NULL
  /\ gen[view[v].world] = view[v].gen

Reply(v) == answer' = IF RequireValid(v) THEN <<v, "data", view[v].lease>>
                                         ELSE <<v, "refused", 0>>

(* tick, counts, len, repr: answered from the copy of the view's fields. *)
View_read(v) ==
  /\ Holds(v)
  /\ Reply(v)
  /\ Touch({}, {})
  /\ UNCHANGED <<kvars, world, gen, view, group, kind, refs, frame, exported>>

(* A group object g on the view v; v gets a reference for it. *)
NewGroup(v, g, k) ==
  /\ RequireValid(v)
  /\ group[g] = NULL
  /\ group' = [group EXCEPT ![g] = v]
  /\ kind' = [kind EXCEPT ![g] = k]
  /\ refs' = [refs EXCEPT ![v] = @ \cup {g}]
  /\ Reply(v)
  /\ Touch({}, {})
  /\ UNCHANGED <<kvars, world, gen, view, frame, exported>>

View_item(v, g) == Holds(v) /\ NewGroup(v, g, "chunk")

(* entries and subscribers of a chunk group *)
Group_sequence(g, s) ==
  /\ group[g] # NULL
  /\ kind[g] = "chunk"
  /\ NewGroup(group[g], s, "sequence")

(* Read through dense_chunk_at from the native spans, after the check. *)
SpanRead(g, k) ==
  /\ group[g] # NULL
  /\ kind[g] = k
  /\ LET v == group[g] IN
       /\ Reply(v)
       /\ Touch({}, IF RequireValid(v)
                    THEN {<<view[v].native, view[v].lease>>} ELSE {})
  /\ UNCHANGED <<kvars, world, gen, view, group, kind, refs, frame, exported>>

(* Coordinates and counts of a group. *)
Chunk_read(g) == SpanRead(g, "chunk")

(* Length and items of an entry or subscriber sequence. *)
Sequence_read(g) == SpanRead(g, "sequence")

-----------------------------------------------------------------------------
(* move_many and mark_dirty_many.                                          *)

(* The call is made: arguments are parsed and the world is open.  The      *)
(* caller's reference to the World is the frame's.                         *)
Batch_call(f, w, n) ==
  /\ frame[f].pc = "idle"
  /\ Holds(w)
  /\ RequireOpen(w)
  /\ frame' = [frame EXCEPT ![f] = [self |-> w, pc |-> "acquiring",
                                    want |-> n, held |-> 0]]
  /\ refs' = [refs EXCEPT ![w] = @ \cup {f}]
  /\ answer' = NULL
  /\ Touch({}, {})
  /\ UNCHANGED <<kvars, world, gen, view, group, kind, exported>>

(* dense_buffer_acquire of the next buffer; the exporter has run. *)
TakeNext(f, pc) ==
  /\ frame' = [frame EXCEPT ![f].pc = pc, ![f].held = @ + 1]
  /\ exported' = exported \cup {<<f, frame[f].held + 1>>}

Batch_acquire(f) ==
  /\ frame[f].pc = "acquiring"
  /\ frame[f].held + 1 < frame[f].want
  /\ TakeNext(f, "acquiring")
  /\ answer' = NULL
  /\ Touch({}, {})
  /\ UNCHANGED <<kvars, world, gen, view, group, kind, refs>>

(* Defect: a buffer counts as acquired only once its format is accepted. *)
Batch_acquire_fails_locked(f) ==
  /\ frame[f].pc = "acquiring"
  /\ frame' = [frame EXCEPT ![f].pc = "releasing"]
  /\ exported' \in {exported, exported \cup {<<f, frame[f].held + 1>>}}
  /\ answer' = NULL
  /\ Touch({}, {})
  /\ UNCHANGED <<kvars, world, gen, view, group, kind, refs>>

(* The exporter refuses, or its buffer has the wrong shape or format and   *)
(* is acquired nevertheless: goto error.                                   *)
Batch_acquire_fails(f) ==
  /\ frame[f].pc = "acquiring"
  /\ \/ /\ frame' = [frame EXCEPT ![f].pc = "releasing"]
        /\ UNCHANGED exported
     \/ TakeNext(f, "releasing")
  /\ answer' = NULL
  /\ Touch({}, {})
  /\ UNCHANGED <<kvars, world, gen, view, group, kind, refs>>

(* The last buffer is acquired and, no Python code running in between, the *)
(* lengths are compared and the loop runs on the World's native world as   *)
(* it is now, up to the first item the kernel refuses.  No call is made    *)
(* when the lengths differ, the scalar mask overflows or there is no item. *)
Batch_run(f) ==
  /\ frame[f].pc = "acquiring"
  /\ frame[f].held + 1 = frame[f].want
  /\ TakeNext(f, "releasing")
  /\ Touch({}, {}) \/ Touch({world[frame[f].self]}, {})
  /\ answer' = NULL
  /\ UNCHANGED <<kvars, world, gen, view, group, kind, refs>>

(* Defect: the release does not ask whether a buffer was acquired. *)
Batch_release_unasked(f) ==
  /\ frame[f].pc = "releasing"
  /\ frame' = [frame EXCEPT ![f].held = @ - 1]
  /\ exported' = exported \ {<<f, frame[f].held>>}
  /\ answer' = NULL
  /\ Touch({}, {})
  /\ UNCHANGED <<kvars, world, gen, view, group, kind, refs>>

(* dense_buffer_release, last acquired first. *)
Batch_release(f) ==
  /\ frame[f].pc = "releasing"
  /\ frame[f].held > 0
  /\ frame' = [frame EXCEPT ![f].held = @ - 1]
  /\ exported' = exported \ {<<f, frame[f].held>>}
  /\ answer' = NULL
  /\ Touch({}, {})
  /\ UNCHANGED <<kvars, world, gen, view, group, kind, refs>>

Batch_return(f) ==
  /\ frame[f].pc = "releasing"
  /\ frame[f].held = 0
  /\ frame' = [frame EXCEPT ![f] = NoFrame]
  /\ refs' = [refs EXCEPT ![frame[f].self] = @ \ {f}]
  /\ WorldDecref(frame[f].self, f)
  /\ UNCHANGED <<view, group, kind, exported>>

-----------------------------------------------------------------------------
WorldStep(w) ==
  \/ World_new(w)
  \/ \E a \in Addrs : World_init(w, a)
  \/ World_close(w)
  \/ World_begin_tick(w)
  \/ World_end_tick(w)
  \/ World_entity_call(w)
  \/ World_motion_call(w)
  \/ World_mark_call(w)
  \/ World_observer_call(w)
  \/ World_query_call(w)
  \/ \E v \in Views : World_fanout_view(w, v)
  \/ DropWorld(w)

ViewStep(v) ==
  \/ View_read(v)
  \/ \E g \in Groups : View_item(v, g)
  \/ DropView(v)

GroupStep(g) ==
  \/ \E s \in Groups : Group_sequence(g, s)
  \/ Chunk_read(g)
  \/ Sequence_read(g)
  \/ DropGroup(g)

FrameStep(f) ==
  \/ \E w \in Worlds, n \in Slots : Batch_call(f, w, n)
  \/ Batch_acquire(f)
  \/ Batch_acquire_fails(f)
  \/ Batch_run(f)
  \/ Batch_release(f)
  \/ Batch_return(f)

Next ==
  \/ \E w \in Worlds : WorldStep(w)
  \/ \E v \in Views : ViewStep(v)
  \/ \E g \in Groups : GroupStep(g)
  \/ \E f \in Frames : FrameStep(f)

Spec == Init /\ [][Next]_vars

-----------------------------------------------------------------------------
(* Ownership of native worlds (_dense_sim.c 387-411): a native             *)
(* world lives exactly while one World object points at it.  Re-running    *)
(* __init__, closing and deallocating, in any order, neither leak a native *)
(* world nor let two objects own the same one.                             *)
SoleOwner ==
  /\ \A w \in Worlds : world[w] # NULL => Live(world[w])
  /\ \A a \in Addrs : Live(a) => \E w \in Worlds : world[w] = a
  /\ \A w, u \in Worlds : world[w] # NULL /\ world[w] = world[u] => w = u

(* No object outlives what it points at (Py_INCREF at 464, 1228, 1374,     *)
(* 1392): the World of a view, the view of a group and the World of a      *)
(* batch call in progress exist as long as they are needed.                *)
ReferentsAlive ==
  /\ \A v \in Views : refs[v] # {} => refs[view[v].world] # {}
  /\ \A g \in Groups : group[g] # NULL => refs[group[g]] # {}
  /\ \A f \in Frames : frame[f].pc # "idle" => refs[frame[f].self] # {}

(* The generation check (84-98) is exact: a view passes it if and only if  *)
(* its World still points at the native world the view was taken from and  *)
(* that world is still in the same borrow period, its fanout finalized.    *)
(* Comparing generations is as good as knowing the buffers' lifetime, even *)
(* when a destroyed world's address is handed out again; and a failed      *)
(* begin_tick invalidates nothing.                                         *)
ValidIffLent ==
  \A v \in Views : refs[v] # {} =>
    (RequireValid(v) <=> /\ world[view[v].world] = view[v].native
                         /\ Lent(view[v].native, view[v].lease))

(* A buffer is locked at its exporter exactly while a batch call holds it  *)
(* (542-613, 757-836): on every path, the error paths included, a call     *)
(* that returned has released each buffer it acquired.                     *)
BuffersHeldByFrames ==
  exported = {h \in Frames \X Slots : h[2] <= frame[h[1]].held}

(* No native call is made on a world that has been destroyed, and none is  *)
(* destroyed twice, although the open check of a batch call is made before *)
(* exporters run and may close or re-create the world (563-594, 778-822).  *)
NativeCallsAreLive == [][\A p \in calls' : p # NULL => Live(p)]_vars

(* No span of a fanout view is read outside its borrow period.             *)
SpansReadAreLent == [][\A s \in spans' : Lent(s[1], s[2])]_vars

(* What a method hands to the kernel or reads of its memory still exists,  *)
(* whatever ran between the check and the use.                             *)
NativeUseIsLive == NativeCallsAreLive /\ SpansReadAreLent

(* The period each World is in, and the World and period of each view. *)
Current == [w \in Worlds |-> IF world[w] = NULL THEN 0 ELSE lease[world[w]]]
Granted == [v \in Views |-> IF refs[v] = {} THEN NULL
                            ELSE <<view[v].world, view[v].lease>>]

(* The binding keeps the promise of FanoutLease: docs/BINDINGS.md 47-48    *)
(* and bindings/python/README.md 76-78, for re-created worlds too.         *)
Promise == INSTANCE FanoutLease WITH
  None    <- NULL,
  current <- Current,
  granted <- Granted,
  spent   <- issued

KeepsPromise == Promise!LeaseSpec
=============================================================================
