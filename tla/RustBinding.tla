---------------------------- MODULE RustBinding ----------------------------
(***************************************************************************)
(* The crate bindings/rust/src/lib.rs in a program of several threads:     *)
(* World and RecipientWorkset are owned values that may be sent to another  *)
(* thread but not shared (Send, not Sync), FanoutView and what is reached   *)
(* through it are borrows, and a call occupies its thread until the kernel  *)
(* returns.  There is no check at run time: what keeps a borrowed span from *)
(* being read too late is that safe code can only be written if the         *)
(* receivers (&self, &mut self), lifetimes and auto traits of the crate     *)
(* admit it.  The guards of the calls are those signatures.                 *)
(*                                                                          *)
(* A view or item exists from the call that returned it to its last use.    *)
(* Left out: the world's contents, what a recipient workset holds (see      *)
(* RecipientWorkset), panics on values the kernel does not return, and      *)
(* FanoutView::world, which repeats a borrow that is there.                 *)
(***************************************************************************)
EXTENDS DenseKernel

CONSTANTS
  Threads,
  Worlds,   (* Owned World values.                                         *)
  Worksets, (* Owned RecipientWorkset values.                              *)
  Views,    (* FanoutView values.                                          *)
  Items     (* ChunkDeltaIter, ChunkDeltaView, DeltaEntryIter and &[u64].  *)

ASSUME NullIsNothing ==
  NULL \notin Threads \cup Worlds \cup Worksets \cup Views \cup Items
ASSUME NullNotPair == NULL \notin Worlds \X (0..MaxLease)

VARIABLES
  world,    (* Worlds -> the field raw, and the thread that owns the value.*)
  workset,  (* Worksets -> the thread that owns the value.                 *)
  view,     (* Views -> the field world, the spans, the thread.            *)
  item,     (* Items -> type, the view it borrows, the thread.             *)
  busy,     (* Threads -> the call or read in progress, with the pointers  *)
            (* it was given.                                               *)
  answer    (* What the last step read of a view, else NULL.               *)

rvars == <<world, workset, view, item, busy, answer>>
vars == <<kvars, rvars>>

NoWorld == [raw |-> NULL, on |-> NULL]
NoView  == [world |-> NULL, span |-> <<NULL, 0>>, on |-> NULL]
NoItem  == [kind |-> "groups", view |-> NULL, on |-> NULL]
Idle    == [op |-> "idle", self |-> NULL, ws |-> NULL, span |-> <<NULL, 0>>]

Kinds == {"groups", "group", "entries", "subscribers"}

(* The auto traits: the first two hold raw pointers of the kernel, the     *)
(* others are slices of plain values.                                      *)
SendKinds == {"entries", "subscribers"}

Mutations == {"begin_tick", "end_tick", "mutate", "drop"}
Queries   == {"query", "fanout_view", "sync"}
Spans     == (Addrs \cup {NULL}) \X (0..MaxLease)

TypeOK ==
  /\ KernelTypeOK
  /\ world \in [Worlds -> [raw: Addrs \cup {NULL}, on: Threads \cup {NULL}]]
  /\ \A w \in Worlds : world[w].raw = NULL <=> world[w].on = NULL
  /\ workset \in [Worksets -> Threads \cup {NULL}]
  /\ view \in [Views -> [world: Worlds \cup {NULL}, span: Spans,
                         on: Threads \cup {NULL}]]
  /\ item \in [Items -> [kind: Kinds, view: Views \cup {NULL},
                         on: Threads \cup {NULL}]]
  /\ busy \in [Threads ->
       [op: Mutations \cup Queries \cup {"idle", "read", "own"},
        self: Worlds \cup Items \cup {NULL}, ws: Worksets \cup {NULL}, span: Spans]]
  /\ answer \in {NULL} \cup (Views \X {"data", "refused"} \X (0..MaxLease))

Init ==
  /\ KernelInit
  /\ world = [w \in Worlds |-> NoWorld]
  /\ workset = [k \in Worksets |-> NULL]
  /\ view = [v \in Views |-> NoView]
  /\ item = [i \in Items |-> NoItem]
  /\ busy = [t \in Threads |-> Idle]
  /\ answer = NULL

-----------------------------------------------------------------------------
(* What the compiler knows.                                                *)

Free(t) == busy[t] = Idle

(* Defect: items do not borrow from their FanoutView. *)
Reads_nothing(v) == FALSE

(* A FanoutView borrows its World, an item its FanoutView. *)
Lends(w) == \E v \in Views : view[v].world = w
Reads(v) == \E i \in Items : item[i].view = v

(* Defect: World is Sync. *)
Owned_shared(t, w) == Free(t) /\ world[w].on # NULL

(* Send but not Sync: only the thread that owns the value uses it. *)
Owned(t, w) == Free(t) /\ world[w].on = t

CurrentSpan(w) == <<world[w].raw, lease[world[w].raw]>>

Start(t, op, w, k) ==
  /\ busy' = [busy EXCEPT ![t] =
       [op |-> op, self |-> w, ws |-> k,
        span |-> IF w = NULL THEN <<NULL, 0>> ELSE CurrentSpan(w)]]
  /\ answer' = NULL
  /\ UNCHANGED <<kvars, world, workset, view, item>>

Return(t, a) == busy' = [busy EXCEPT ![t] = Idle] /\ answer' = a

(* Defect: the receiver is &self. *)
ByMut_shared(t, w, op) == Owned(t, w) /\ Start(t, op, w, NULL)

(* A call with &mut self; ByRef, one with &self. *)
ByMut(t, w, op) == Owned(t, w) /\ ~Lends(w) /\ Start(t, op, w, NULL)
ByRef(t, w, op) == Owned(t, w) /\ Start(t, op, w, NULL)

-----------------------------------------------------------------------------
(* World.                                                                  *)

(* Defect: the result of ds_world_create is not looked at. *)
World_new_unchecked(t, w, a) ==
  /\ Free(t)
  /\ world[w].on = NULL
  /\ status[a] = "free"
  /\ \/ /\ status' = Created(status, a)
        /\ NewLease(a)
        /\ world' = [world EXCEPT ![w] = [raw |-> a, on |-> t]]
     \/ /\ world' = [world EXCEPT ![w] = [raw |-> NULL, on |-> t]]
        /\ UNCHANGED kvars
  /\ answer' = NULL
  /\ UNCHANGED <<workset, view, item, busy>>

(* new returns Ok; an Err leaves nothing. *)
World_new(t, w, a) ==
  /\ Free(t)
  /\ world[w].on = NULL
  /\ status[a] = "free"
  /\ status' = Created(status, a)
  /\ NewLease(a)
  /\ world' = [world EXCEPT ![w] = [raw |-> a, on |-> t]]
  /\ answer' = NULL
  /\ UNCHANGED <<workset, view, item, busy>>

(* The value moves to thread u. *)
World_send(t, w, u) ==
  /\ Owned(t, w)
  /\ ~Lends(w)
  /\ world' = [world EXCEPT ![w].on = u]
  /\ answer' = NULL
  /\ UNCHANGED <<kvars, workset, view, item, busy>>

World_begin_tick(t, w) == ByMut(t, w, "begin_tick")
World_end_tick(t, w)   == ByMut(t, w, "end_tick")
World_entity_call(t, w)   == ByMut(t, w, "mutate")  (* spawn .. clear_motion_plan *)
World_observer_call(t, w) == ByMut(t, w, "mutate")  (* create .. set_radius       *)
World_query_call(t, w)    == ByRef(t, w, "query")   (* ticks, counts, statistics  *)
World_lookup_call(t, w)   == ByRef(t, w, "query")   (* entities and observers     *)
World_fanout_view(t, w)   == ByRef(t, w, "fanout_view")

(* Defect: a World can go out of scope while it is borrowed. *)
World_drop_borrowed(t, w) == Owned(t, w) /\ Start(t, "drop", w, NULL)

(* The value goes out of scope. *)
World_drop(t, w) == ByMut(t, w, "drop")

(* Ok(()) or, with the kernel as it was, Err. *)
Begin_tick_returns(t) ==
  /\ busy[t].op = "begin_tick"
  /\ Return(t, NULL)
  /\ KernelBegin(world[busy[t].self].raw) \/ UNCHANGED kvars
  /\ UNCHANGED <<world, workset, view, item>>

End_tick_returns(t) ==
  /\ busy[t].op = "end_tick"
  /\ Return(t, NULL)
  /\ KernelEnd(world[busy[t].self].raw) \/ UNCHANGED kvars
  /\ UNCHANGED <<world, workset, view, item>>

Fanout_view_returns(t, v) ==
  /\ busy[t].op = "fanout_view"
  /\ LET w == busy[t].self IN
     \/ /\ CanLend(world[w].raw)
        /\ view[v].world = NULL
        /\ view' = [view EXCEPT ![v] =
                      [world |-> w, on |-> t, span |-> CurrentSpan(w)]]
     \/ UNCHANGED view
  /\ Return(t, NULL)
  /\ UNCHANGED <<kvars, world, workset, item>>

(* Drop for World. *)
Drop_returns(t) ==
  /\ busy[t].op = "drop"
  /\ status' = Destroyed(status, world[busy[t].self].raw)
  /\ world' = [world EXCEPT ![busy[t].self] = NoWorld]
  /\ Return(t, NULL)
  /\ UNCHANGED <<lease, issued, workset, view, item>>

(* Calls that change nothing modelled here. *)
Call_returns(t) ==
  /\ busy[t].op \in {"mutate", "query", "sync", "own"}
  /\ Return(t, NULL)
  /\ UNCHANGED <<kvars, world, workset, view, item>>

-----------------------------------------------------------------------------
(* RecipientWorkset.                                                       *)

Workset_new(t, k) ==
  /\ Free(t)
  /\ workset[k] = NULL
  /\ workset' = [workset EXCEPT ![k] = t]
  /\ answer' = NULL
  /\ UNCHANGED <<kvars, world, view, item, busy>>

(* The value moves to another thread, or is dropped (u = NULL). *)
Workset_send(t, k, u) ==
  /\ Free(t)
  /\ workset[k] = t
  /\ workset' = [workset EXCEPT ![k] = u]
  /\ answer' = NULL
  /\ UNCHANGED <<kvars, world, view, item, busy>>

Workset_drop(t, k) == Workset_send(t, k, NULL)

(* &mut self for the workset, &World for the world. *)
WithWorld(t, k, w) == workset[k] = t /\ Owned(t, w) /\ Start(t, "sync", w, k)

Workset_sync(t, k, w)           == WithWorld(t, k, w)
Workset_enqueue_source(t, k, w) == WithWorld(t, k, w)

(* view, acknowledge, clear and stats need no World. *)
Workset_call(t, k) == Free(t) /\ workset[k] = t /\ Start(t, "own", NULL, k)

-----------------------------------------------------------------------------
(* Borrows.                                                                *)

(* tick, the counts and is_empty come from the FanoutView itself. *)
Fanout_read(t, v) ==
  /\ Free(t)
  /\ view[v].world # NULL /\ view[v].on = t
  /\ answer' = <<v, "data", view[v].span[2]>>
  /\ UNCHANGED <<kvars, world, workset, view, item, busy>>

(* The FanoutView is used no more. *)
Fanout_ends(v) ==
  /\ view[v].world # NULL
  /\ ~Reads(v)
  /\ view' = [view EXCEPT ![v] = NoView]
  /\ answer' = NULL
  /\ UNCHANGED <<kvars, world, workset, item, busy>>

Fanout_groups(t, v, i) ==
  /\ Free(t)
  /\ view[v].world # NULL /\ view[v].on = t
  /\ item[i].view = NULL
  /\ item' = [item EXCEPT ![i] = [kind |-> "groups", view |-> v, on |-> t]]
  /\ answer' = NULL
  /\ UNCHANGED <<kvars, world, workset, view, busy>>

(* The thread reads native memory through i. *)
Item_read(t, i) ==
  /\ Free(t)
  /\ item[i].view # NULL /\ item[i].on = t
  /\ busy' = [busy EXCEPT ![t] = [op |-> "read", self |-> i, ws |-> NULL,
                                  span |-> view[item[i].view].span]]
  /\ answer' = NULL
  /\ UNCHANGED <<kvars, world, workset, view, item>>

(* What a read of i can return: a value, or another item. *)
Yields(kind) ==
  CASE kind = "groups" -> {"group"}
    [] kind = "group"  -> {"entries", "subscribers"}
    [] OTHER           -> {}

Item_read_returns(t, j) ==
  /\ busy[t].op = "read"
  /\ LET i == busy[t].self IN
     /\ \/ UNCHANGED item
        \/ /\ item[j].view = NULL
           /\ \E kind \in Yields(item[i].kind) :
                item' = [item EXCEPT ![j] =
                           [kind |-> kind, view |-> item[i].view, on |-> t]]
     /\ Return(t, <<item[i].view, "data", busy[t].span[2]>>)
  /\ UNCHANGED <<kvars, world, workset, view>>

InUse(i) == \E t \in Threads : busy[t].op = "read" /\ busy[t].self = i

(* An item that is Send moves to thread u, whose scope ends before the     *)
(* borrow does.                                                            *)
Item_send(i, u) ==
  /\ item[i].view # NULL /\ item[i].kind \in SendKinds
  /\ ~InUse(i)
  /\ item' = [item EXCEPT ![i].on = u]
  /\ answer' = NULL
  /\ UNCHANGED <<kvars, world, workset, view, busy>>

Item_ends(i) ==
  /\ item[i].view # NULL
  /\ ~InUse(i)
  /\ item' = [item EXCEPT ![i] = NoItem]
  /\ answer' = NULL
  /\ UNCHANGED <<kvars, world, workset, view, busy>>

-----------------------------------------------------------------------------
WorldStep(t, w) ==
  \/ \E a \in Addrs : World_new(t, w, a)
  \/ \E u \in Threads : World_send(t, w, u)
  \/ World_begin_tick(t, w)
  \/ World_end_tick(t, w)
  \/ World_entity_call(t, w)
  \/ World_observer_call(t, w)
  \/ World_query_call(t, w)
  \/ World_lookup_call(t, w)
  \/ World_fanout_view(t, w)
  \/ World_drop(t, w)
  \/ \E k \in Worksets : Workset_sync(t, k, w) \/ Workset_enqueue_source(t, k, w)

WorksetStep(t, k) ==
  \/ Workset_new(t, k)
  \/ \E u \in Threads : Workset_send(t, k, u)
  \/ Workset_drop(t, k)
  \/ Workset_call(t, k)

ReturnStep(t) ==
  \/ Begin_tick_returns(t)
  \/ End_tick_returns(t)
  \/ \E v \in Views : Fanout_view_returns(t, v)
  \/ Drop_returns(t)
  \/ Call_returns(t)
  \/ \E j \in Items : Item_read_returns(t, j)

BorrowStep(t) ==
  \/ \E v \in Views : Fanout_read(t, v) \/ \E i \in Items : Fanout_groups(t, v, i)
  \/ \E i \in Items : Item_read(t, i) \/ Item_send(i, t) \/ Item_ends(i)
  \/ \E v \in Views : Fanout_ends(v)

Next ==
  \E t \in Threads :
    \/ \E w \in Worlds : WorldStep(t, w)
    \/ \E k \in Worksets : WorksetStep(t, k)
    \/ ReturnStep(t)
    \/ BorrowStep(t)

Spec == Init /\ [][Next]_vars

-----------------------------------------------------------------------------
(* bindings/rust/README.md 37-42: one World, one writer, and no sharing.  *)
(* Threads that are in the kernel at the same time, or read its memory,    *)
(* never work on one native world unless all but one only read spans and   *)
(* that one does not change it; and never on one recipient workset.        *)
OneWriter ==
  \A t, u \in Threads : t # u =>
    /\ busy[t].ws # NULL => busy[u].ws # busy[t].ws
    /\ busy[t].op \in Mutations \cup Queries /\ busy[u].span[1] = busy[t].span[1] =>
         busy[t].op \in Queries /\ busy[u].op = "read"

(* The spans of every FanoutView that is still in use, on whatever thread  *)
(* its items are, may be read (1211-1256): no tick can begin and no World  *)
(* can go while one is.                                                    *)
BorrowsAreLent ==
  /\ \A v \in Views : view[v].world # NULL => Lent(view[v].span[1], view[v].span[2])
  /\ \A i \in Items : item[i].view # NULL => view[item[i].view].world # NULL

(* Pointers handed to the kernel or being read stay alive until the call   *)
(* returns.                                                                *)
InUseIsAlive ==
  \A t \in Threads :
    /\ busy[t].span[1] # NULL => Live(busy[t].span[1])
    /\ busy[t].op = "read" => Lent(busy[t].span[1], busy[t].span[2])

(* A FanoutView stays with the thread that owns its World (629, 1211-1214):*)
(* neither can be sent while the borrow lasts.                             *)
ViewsStayHome ==
  \A v \in Views : view[v].world # NULL => view[v].on = world[view[v].world].on

(* Ownership (632-648, 970-974): a native world lives exactly while one    *)
(* World value owns it.                                                    *)
SoleOwner ==
  /\ \A w \in Worlds : world[w].on # NULL => Live(world[w].raw)
  /\ \A a \in Addrs : Live(a) => \E w \in Worlds : world[w].raw = a
  /\ \A w, x \in Worlds : world[w].raw # NULL /\ world[w].raw = world[x].raw => w = x

(* The borrow period of each World, and what each view was taken from.     *)
Period == [w \in Worlds |-> IF world[w].raw = NULL THEN 0 ELSE lease[world[w].raw]]
Taken  == [v \in Views |-> IF view[v].world = NULL THEN NULL
                           ELSE <<view[v].world, view[v].span[2]>>]

(* The crate keeps the promise of FanoutLease, and never refuses.          *)
Promise == INSTANCE FanoutLease WITH
  None <- NULL, current <- Period, granted <- Taken, spent <- issued

KeepsPromise == Promise!LeaseSpec
=============================================================================
