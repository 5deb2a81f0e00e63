----------------------------- MODULE CppBinding -----------------------------
(***************************************************************************)
(* The C++ wrapper bindings/cpp/include/dense/dense_sim.hpp: World owns a   *)
(* native world through a WorldState that every view shares, fanout views  *)
(* and the groups, ranges and iterators taken from them are values that    *)
(* can be copied, moved and kept, and each read compares generations       *)
(* before it touches the borrowed spans.                                   *)
(*                                                                         *)
(* World keeps the native pointer twice, in world_ and in the WorldState.  *)
(* A variable that is not constructed, was destroyed or was moved from is  *)
(* one whose state is NULL.  Calls are made by one thread, as the contract *)
(* of the library asks.  Left out: the world's contents, indices, failed   *)
(* allocations (they change nothing), and wrap-around of the generation.   *)
(***************************************************************************)
EXTENDS DenseKernel, Integers

CONSTANTS
  Worlds,   (* Variables of class World.                                   *)
  States,   (* WorldState objects on the heap.                             *)
  Views     (* Variables of the view, group, range and iterator classes.   *)

ASSUME StatesDistinct == NULL \notin States \cup Views
ASSUME NullNotPair == NULL \notin States \X (0..MaxLease)

VARIABLES
  world,    (* Worlds -> the fields state_ and world_.                     *)
  state,    (* States -> the fields of a WorldState.                       *)
  view,     (* Views -> class, state_, generation_ and borrowed pointers.  *)
  calls,    (* Worlds the last step passed to native functions.            *)
  spans,    (* Borrowed spans <<address, lease>> the last step read.       *)
  answer    (* What a view answered in the last step, else NULL.           *)

cvars == <<world, state, view, calls, spans, answer>>
vars == <<kvars, cvars>>

Kinds == {"fanout", "fanout iterator", "group", "range", "range iterator"}

NoWorld == [state |-> NULL, native |-> NULL]
NoState == [native |-> NULL, gen |-> 0]
NoView  == [kind |-> "fanout", state |-> NULL, gen |-> 0, span |-> <<NULL, 0>>]

Spans == (Addrs \cup {NULL}) \X (0..MaxLease)

Holds(ws, vs, s) ==
  (\E w \in DOMAIN ws : ws[w].state = s) \/ (\E v \in DOMAIN vs : vs[v].state = s)

Held(s) == Holds(world, view, s)

(* The two copies of the native pointer agree (796-834): every member      *)
(* function checks world_, every view checks the shared state, and a World *)
(* that was moved from or closed has neither.                              *)
PointersAgree ==
  \A w \in Worlds :
    world[w].native = IF world[w].state = NULL THEN NULL
                                              ELSE state[world[w].state].native

(* Ownership (224-233, 798-834): a native world lives exactly while one    *)
(* shared state that somebody holds points at it, and two Worlds never     *)
(* share a state, whatever is moved over whatever.                         *)
SoleOwner ==
  /\ \A s \in States : state[s].native # NULL => Live(state[s].native) /\ Held(s)
  /\ \A a \in Addrs : Live(a) => \E s \in States : state[s].native = a
  /\ \A s, t \in States :
       state[s].native # NULL /\ state[s].native = state[t].native => s = t
  /\ \A w, x \in Worlds :
       world[w].state # NULL /\ world[w].state = world[x].state => w = x

TypeOK ==
  /\ KernelTypeOK
  /\ world \in [Worlds -> [state: States \cup {NULL}, native: Addrs \cup {NULL}]]
  /\ state \in [States -> [native: Addrs \cup {NULL}, gen: Nat]]
  /\ view \in [Views -> [kind: Kinds, state: States \cup {NULL}, gen: Nat,
                         span: Spans]]
  /\ calls \in SUBSET Addrs
  /\ spans \in SUBSET Spans
  /\ answer \in {NULL} \cup (Views \X {"data", "refused"} \X (0..MaxLease))
  /\ PointersAgree /\ SoleOwner

Init ==
  /\ KernelInit
  /\ world = [w \in Worlds |-> NoWorld]
  /\ state = [s \in States |-> NoState]
  /\ view = [v \in Views |-> NoView]
  /\ calls = {}
  /\ spans = {}
  /\ answer = NULL

Touch(called, read) == calls' = called /\ spans' = read

-----------------------------------------------------------------------------
(* Shared ownership. *)

(* Defect: WorldState has no destructor. *)
Assign_leaks(ws, vs) ==
  LET gone == {s \in States : Held(s) /\ ~Holds(ws, vs, s)} IN
  /\ world' = ws
  /\ view' = vs
  /\ state' = [s \in States |-> IF s \in gone THEN NoState ELSE state[s]]
  /\ answer' = NULL
  /\ Touch({}, {})
  /\ UNCHANGED kvars

(* Variables get the values ws and vs.  A WorldState nobody holds any more *)
(* is destroyed, and destroys its native world.                            *)
Assign(ws, vs) ==
  LET gone    == {s \in States : Held(s) /\ ~Holds(ws, vs, s)}
      natives == {state[s].native : s \in gone} \ {NULL} IN
  /\ world' = ws
  /\ view' = vs
  /\ state' = [s \in States |-> IF s \in gone THEN NoState ELSE state[s]]
  /\ status' = [a \in Addrs |-> IF a \in natives THEN "free" ELSE status[a]]
  /\ answer' = NULL
  /\ Touch(natives, {})
  /\ UNCHANGED <<lease, issued>>

-----------------------------------------------------------------------------
(* World. *)

(* A constructor whose ds_world_create fails throws, and leaves nothing. *)
World_construct(w, s, a) ==
  /\ world[w].state = NULL
  /\ ~Held(s)
  /\ status[a] = "free"
  /\ NewLease(a)
  /\ status' = Created(status, a)
  /\ state' = [state EXCEPT ![s] = [native |-> a, gen |-> 0]]
  /\ world' = [world EXCEPT ![w] = [state |-> s, native |-> a]]
  /\ answer' = NULL
  /\ Touch({}, {})
  /\ UNCHANGED view

(* Defect: the moved-from World keeps its native pointer. *)
World_move_copies_pointer(w, x) ==
  /\ w # x
  /\ Assign([world EXCEPT ![w] = world[x], ![x].state = NULL], view)

(* w is constructed from, or assigned, std::move(x). *)
World_move(w, x) ==
  /\ w # x
  /\ Assign([world EXCEPT ![w] = world[x], ![x] = NoWorld], view)

(* Defect: the destructor of World closes it. *)
World_destruct_closes(w) ==
  /\ world[w].native # NULL
  /\ status' = Destroyed(status, world[w].native)
  /\ state' = [state EXCEPT ![world[w].state] = [native |-> NULL, gen |-> @.gen + 1]]
  /\ world' = [world EXCEPT ![w] = NoWorld]
  /\ answer' = NULL
  /\ Touch({world[w].native}, {})
  /\ UNCHANGED <<lease, issued, view>>

World_destruct(w) == Assign([world EXCEPT ![w] = NoWorld], view)

World_close(w) ==
  /\ world[w].native # NULL
  /\ status' = Destroyed(status, world[w].native)
  /\ world' = [world EXCEPT ![w].native = NULL]
  /\ state' = [state EXCEPT ![world[w].state] = [native |-> NULL, gen |-> @.gen + 1]]
  /\ answer' = NULL
  /\ Touch({world[w].native}, {})
  /\ UNCHANGED <<lease, issued, view>>

(* World::require_open *)
RequireOpen(w) == world[w].native # NULL

(* Defect: the generation advances before the kernel is asked. *)
World_begin_tick_eager(w) ==
  /\ RequireOpen(w)
  /\ \/ KernelBegin(world[w].native)
     \/ state[world[w].state].gen < MaxLease /\ UNCHANGED kvars
  /\ state' = [state EXCEPT ![world[w].state].gen = @ + 1]
  /\ answer' = NULL
  /\ Touch({world[w].native}, {})
  /\ UNCHANGED <<world, view>>

(* Defect: a successful begin_tick does not advance the generation. *)
World_begin_tick_same_gen(w) ==
  /\ RequireOpen(w)
  /\ KernelBegin(world[w].native)
  /\ answer' = NULL
  /\ Touch({world[w].native}, {})
  /\ UNCHANGED <<world, state, view>>

World_begin_tick(w) ==
  /\ RequireOpen(w)
  /\ KernelBegin(world[w].native)
  /\ state' = [state EXCEPT ![world[w].state].gen = @ + 1]
  /\ answer' = NULL
  /\ Touch({world[w].native}, {})
  /\ UNCHANGED <<world, view>>

World_end_tick(w) ==
  /\ RequireOpen(w)
  /\ KernelEnd(world[w].native)
  /\ answer' = NULL
  /\ Touch({world[w].native}, {})
  /\ UNCHANGED <<world, state, view>>

(* Every other member function, and every call the kernel refuses. *)
NativeCall(w) ==
  /\ RequireOpen(w)
  /\ answer' = NULL
  /\ Touch({world[w].native}, {})
  /\ UNCHANGED <<kvars, world, state, view>>

World_entity_call(w)   == NativeCall(w)  (* spawn, move, remove, mark_dirty *)
World_motion_call(w)   == NativeCall(w)  (* motion plans and mode           *)
World_observer_call(w) == NativeCall(w)  (* observers                       *)
World_query_call(w)    == NativeCall(w)  (* ticks, counts, metrics, stats   *)
Workset_call(w)        == NativeCall(w)  (* RecipientWorkset sync, enqueue  *)

World_fanout(w, v) ==
  /\ RequireOpen(w)
  /\ CanLend(world[w].native)
  /\ view[v].state = NULL
  /\ LET s == world[w].state IN
       view' = [view EXCEPT ![v] =
                  [kind |-> "fanout", state |-> s, gen |-> state[s].gen,
                   span |-> <<world[w].native, lease[world[w].native]>>]]
  /\ answer' = NULL
  /\ Touch({world[w].native}, {})
  /\ UNCHANGED <<kvars, world, state>>

-----------------------------------------------------------------------------
(* Views. *)

(* detail::ensure_open *)
EnsureOpen(s) == s # NULL /\ state[s].native # NULL

(* detail::ensure_view *)
EnsureView(v) ==
  /\ EnsureOpen(view[v].state)
  /\ state[view[v].state].gen = view[v].gen

(* What a call on v answers: data, or an exception. *)
Reply(v) == answer' = IF EnsureView(v) THEN <<v, "data", view[v].span[2]>>
                                       ELSE <<v, "refused", 0>>

(* Answered from the view's own fields: ticks, sizes and counts of a       *)
(* FanoutView, the size of a range, the increment of an iterator.          *)
Own_read(v, kinds) ==
  /\ view[v].kind \in kinds
  /\ Reply(v)
  /\ Touch({}, {})
  /\ UNCHANGED <<kvars, world, state, view>>

Fanout_read(v) == Own_read(v, {"fanout", "fanout iterator"})
Range_size(v)  == Own_read(v, {"range", "range iterator"})

(* Answered from the native spans. *)
Span_read(v, kinds) ==
  /\ view[v].kind \in kinds
  /\ Reply(v)
  /\ Touch({}, IF EnsureView(v) THEN {view[v].span} ELSE {})
  /\ UNCHANGED <<kvars, world, state, view>>

Group_read(v) == Span_read(v, {"group"})
Range_item(v) == Span_read(v, {"range", "range iterator"})

(* u is constructed from v, as an object of a class taken from v's; what   *)
(* is read of the native group on the way is read here.                    *)
Derive(v, u, from, to) ==
  /\ view[v].kind = from
  /\ EnsureView(v)
  /\ view[u].state = NULL
  /\ view' = [view EXCEPT ![u] = [view[v] EXCEPT !.kind = to]]
  /\ answer' = NULL
  /\ Touch({}, IF from = "group" THEN {view[v].span} ELSE {})
  /\ UNCHANGED <<kvars, world, state>>

Fanout_begin(v, u)  == Derive(v, u, "fanout", "fanout iterator")
Fanout_at(v, u)     == \/ Derive(v, u, "fanout", "group")
                       \/ Derive(v, u, "fanout iterator", "group")
Group_range(v, u)   == Derive(v, u, "group", "range")
Range_begin(v, u)   == Derive(v, u, "range", "range iterator")

(* The defaulted copy and move of every view class, into a variable of the *)
(* same class or a new one, and its destructor.                            *)
View_copy(v, u) ==
  /\ u # v
  /\ view[u].state = NULL \/ view[u].kind = view[v].kind
  /\ Assign(world, [view EXCEPT ![u] = view[v]])

View_move(v, u) ==
  /\ u # v
  /\ view[u].state = NULL \/ view[u].kind = view[v].kind
  /\ Assign(world, [view EXCEPT ![u] = view[v], ![v] = [@ EXCEPT !.state = NULL]])

View_destruct(v) == Assign(world, [view EXCEPT ![v] = NoView])

-----------------------------------------------------------------------------
WorldStep(w) ==
  \/ \E s \in States, a \in Addrs : World_construct(w, s, a)
  \/ \E x \in Worlds : World_move(w, x)
  \/ World_destruct(w)
  \/ World_close(w)
  \/ World_begin_tick(w)
  \/ World_end_tick(w)
  \/ World_entity_call(w)
  \/ World_motion_call(w)
  \/ World_observer_call(w)
  \/ World_query_call(w)
  \/ Workset_call(w)
  \/ \E v \in Views : World_fanout(w, v)

ViewStep(v) ==
  \/ Fanout_read(v)
  \/ Range_size(v)
  \/ Group_read(v)
  \/ Range_item(v)
  \/ View_destruct(v)
  \/ \E u \in Views : \/ Fanout_begin(v, u) \/ Fanout_at(v, u)
                      \/ Group_range(v, u)  \/ Range_begin(v, u)
                      \/ View_copy(v, u)    \/ View_move(v, u)

Next ==
  \/ \E w \in Worlds : WorldStep(w)
  \/ \E v \in Views : ViewStep(v)

Spec == Init /\ [][Next]_vars

-----------------------------------------------------------------------------
(* The check of ensure_view (243-253) is exact, for views that were copied *)
(* and moved and for the iterators and ranges taken from them: it passes   *)
(* if and only if the spans may be read.                                   *)
ValidIffLent ==
  \A v \in Views : view[v].state # NULL =>
    (EnsureView(v) <=> /\ state[view[v].state].native = view[v].span[1]
                       /\ Lent(view[v].span[1], view[v].span[2]))

(* No native call is made on a world that has been destroyed, none is      *)
(* destroyed twice (826-834 and 228-233 both destroy), and no span is read *)
(* outside its borrow period.                                              *)
NativeUseIsLive ==
  [][/\ \A p \in calls' : Live(p)
     /\ \A s \in spans' : Lent(s[1], s[2])]_vars

(* bindings/cpp/README.md 49-51: views keep the native world alive after   *)
(* the owning World is moved or destroyed.  A view that is left alone      *)
(* stops being valid only when the generation of its state advances, which *)
(* close and begin_tick do and moves and destructors do not.               *)
ViewsOutliveWorlds ==
  [][\A v \in Views :
       EnsureView(v) /\ view'[v] = view[v] /\ ~EnsureView(v)' =>
         \E w \in Worlds : World_close(w) \/ World_begin_tick(w)]_vars

(* The period each state is in, and the state and period of each view. *)
Period == [s \in States |-> IF state[s].native = NULL THEN 0
                            ELSE lease[state[s].native]]
Taken == [v \in Views |-> IF view[v].state = NULL THEN NULL
                          ELSE <<view[v].state, view[v].span[2]>>]

(* The wrapper keeps the promise of FanoutLease for each WorldState        *)
(* (docs/BINDINGS.md 44-48).                                               *)
Promise == INSTANCE FanoutLease WITH
  Worlds  <- States,
  None    <- NULL,
  current <- Period,
  granted <- Taken,
  spent   <- issued

KeepsPromise == Promise!LeaseSpec
=============================================================================
