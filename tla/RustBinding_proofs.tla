------------------------- MODULE RustBinding_proofs -------------------------
(***************************************************************************)
(* Proofs about RustBinding, for any sets of threads and values and any    *)
(* bound.                                                                  *)
(***************************************************************************)
EXTENDS RustBinding, TLAPS

(* A call that is in progress belongs to the thread that owns what it was  *)
(* given: nobody else can have moved it meanwhile, and nobody can have     *)
(* borrowed what it changes.                                               *)
InCall(t) ==
  /\ busy[t].op \in Mutations \cup Queries =>
       /\ busy[t].self \in Worlds
       /\ world[busy[t].self].on = t
       /\ busy[t].span = CurrentSpan(busy[t].self)
       /\ busy[t].op \in Mutations => ~Lends(busy[t].self)
  /\ busy[t].ws # NULL => workset[busy[t].ws] = t
  /\ busy[t].op = "read" =>
       /\ busy[t].self \in Items
       /\ item[busy[t].self].view # NULL
       /\ item[busy[t].self].on = t
       /\ busy[t].span = view[item[busy[t].self].view].span
  /\ busy[t].op \in {"own", "idle"} => busy[t].span = <<NULL, 0>>

CallsAreOwned == \A t \in Threads : InCall(t)

(* A view borrows the finalized tick of the World it names, and an item    *)
(* borrows a view that is there.                                           *)
BorrowsAreHome ==
  /\ \A v \in Views : view[v].world # NULL =>
       /\ view[v].on # NULL /\ view[v].on = world[view[v].world].on
       /\ view[v].span = CurrentSpan(view[v].world)
       /\ status[world[view[v].world].raw] = "final"
  /\ \A i \in Items : item[i].view # NULL => view[item[i].view].world # NULL

IInv == TypeOK /\ SoleOwner /\ CallsAreOwned /\ BorrowsAreHome

LEMMA IInvInit == Init => IInv
<1> SUFFICES ASSUME Init PROVE IInv
  OBVIOUS
<1>1. TypeOK
  BY MaxLeaseNat DEF Init, KernelInit, KernelTypeOK, TypeOK, Statuses, NoWorld, NoView,
     NoItem, Idle, Kinds, Spans
<1>2. SoleOwner
  BY DEF Init, KernelInit, SoleOwner, NoWorld, Live
<1>3. CallsAreOwned
  BY DEF Init, CallsAreOwned, InCall, Idle, Mutations, Queries
<1>4. BorrowsAreHome
  BY DEF Init, BorrowsAreHome, NoView, NoItem
<1>5. QED BY <1>1, <1>2, <1>3, <1>4 DEF IInv

-----------------------------------------------------------------------------
(* What the invariant says of one World.                                   *)

LEMMA OwnedIsLive ==
  ASSUME IInv, NEW w \in Worlds, world[w].on # NULL
  PROVE  /\ world[w].raw \in Addrs /\ status[world[w].raw] # "free"
         /\ CurrentSpan(w) \in Spans
         /\ \A x \in Worlds \ {w} : world[x].raw # world[w].raw
<1>1. world[w].raw \in Addrs /\ status[world[w].raw] # "free"
  BY DEF IInv, SoleOwner, Live
<1>2. CurrentSpan(w) \in Spans
  BY <1>1 DEF IInv, TypeOK, KernelTypeOK, CurrentSpan, Spans
<1>3. world[w].raw # NULL
  BY <1>1, NullNotAddr
<1>4. QED BY <1>1, <1>2, <1>3 DEF IInv, SoleOwner

(* A call on a World that somebody else owns is nobody's. *)
LEMMA OneCaller ==
  ASSUME IInv, NEW t \in Threads, NEW u \in Threads \ {t},
         busy[t].op \in Mutations \cup Queries,
         busy[u].op \in Mutations \cup Queries
  PROVE  busy[t].self # busy[u].self
BY DEF IInv, CallsAreOwned, InCall

(* Starting a call, or a read. *)
LEMMA StartStep ==
  ASSUME IInv, NEW t \in Threads, NEW c, busy' = [busy EXCEPT ![t] = c],
         UNCHANGED <<kvars, world, workset, view, item>>,
         answer' = NULL,
         c \in [op: Mutations \cup Queries \cup {"idle", "read", "own"},
                self: Worlds \cup Items \cup {NULL}, ws: Worksets \cup {NULL},
                span: Spans],
         InCall(t)'
  PROVE  IInv'
<1>1. TypeOK'
  BY DEF IInv, TypeOK, KernelTypeOK, kvars
<1>2. SoleOwner' /\ BorrowsAreHome'
  BY DEF IInv, SoleOwner, BorrowsAreHome, Live, CurrentSpan, kvars
<1>3. \A u \in Threads \ {t} : busy'[u] = busy[u]
  BY DEF IInv, TypeOK
<1>4. CallsAreOwned'
  BY <1>3 DEF IInv, CallsAreOwned, InCall, CurrentSpan, Lends, kvars
<1>5. QED BY <1>1, <1>2, <1>4 DEF IInv

LEMMA StartOnWorld ==
  ASSUME IInv, NEW t \in Threads, NEW w \in Worlds, NEW k \in Worksets \cup {NULL},
         NEW op \in Mutations \cup Queries, Owned(t, w), Start(t, op, w, k),
         k # NULL => workset[k] = t,
         op \in Mutations => ~Lends(w)
  PROVE  IInv'
<1>1. w # NULL /\ world[w].on # NULL
  BY NullIsNothing DEF Owned
<1>2. PICK c : /\ busy' = [busy EXCEPT ![t] = c]
               /\ c = [op |-> op, self |-> w, ws |-> k, span |-> CurrentSpan(w)]
  BY <1>1 DEF Start
<1>3. /\ busy'[t] = c
      /\ c \in [op: Mutations \cup Queries \cup {"idle", "read", "own"},
                self: Worlds \cup Items \cup {NULL}, ws: Worksets \cup {NULL},
                span: Spans]
  BY <1>1, <1>2, OwnedIsLive DEF IInv, TypeOK
<1>4. InCall(t)'
  <2>1. busy'[t].op = op /\ busy'[t].self = w /\ busy'[t].ws = k
        /\ busy'[t].span = CurrentSpan(w)
    BY <1>2, <1>3
  <2>2. UNCHANGED <<kvars, world, workset, view, item>>
    BY DEF Start
  <2>3. op \notin {"read", "own", "idle"}
    BY DEF Mutations, Queries
  <2>4. QED BY <2>1, <2>2, <2>3 DEF InCall, Owned, CurrentSpan, Lends, kvars
<1>5. QED BY <1>2, <1>3, <1>4, StartStep DEF Start

(* A call that returns, or a read, and changes nothing else but an item.   *)
LEMMA ReturnQuiet ==
  ASSUME IInv, NEW t \in Threads, NEW a, Return(t, a),
         a \in {NULL} \cup (Views \X {"data", "refused"} \X (0..MaxLease)),
         UNCHANGED <<kvars, world, workset, view, item>>
  PROVE  IInv'
<1>1. TypeOK'
  BY MaxLeaseNat DEF IInv, TypeOK, KernelTypeOK, kvars, Return, Idle, Spans
<1>2. SoleOwner' /\ BorrowsAreHome'
  BY DEF IInv, SoleOwner, BorrowsAreHome, Live, CurrentSpan, kvars
<1>3. busy'[t] = Idle /\ \A u \in Threads \ {t} : busy'[u] = busy[u]
  BY DEF IInv, TypeOK, Return
<1>4. CallsAreOwned'
  BY <1>3 DEF IInv, CallsAreOwned, InCall, CurrentSpan, Lends, kvars, Idle, Mutations, Queries
<1>5. QED BY <1>1, <1>2, <1>4 DEF IInv

-----------------------------------------------------------------------------
(* World. *)

LEMMA NewStep ==
  ASSUME IInv, NEW t \in Threads, NEW w \in Worlds, NEW a \in Addrs, World_new(t, w, a)
  PROVE  IInv'
<1> USE DEF World_new
<1>1. /\ a # NULL /\ t # NULL
      /\ world' = [x \in Worlds |-> IF x = w THEN [raw |-> a, on |-> t] ELSE world[x]]
      /\ status' = [b \in Addrs |-> IF b = a THEN "fresh" ELSE status[b]]
      /\ lease' = [b \in Addrs |-> IF b = a THEN issued + 1 ELSE lease[b]]
      /\ issued' \in 0..MaxLease /\ issued + 1 \in 0..MaxLease
  <2>1. issued \in 0..MaxLease /\ issued < MaxLease /\ issued' = issued + 1
    BY DEF IInv, TypeOK, KernelTypeOK, NewLease
  <2>2. issued + 1 \in 0..MaxLease
    BY <2>1, MaxLeaseNat
  <2>3. QED
    BY <2>1, <2>2, NullIsNothing, NullNotAddr
       DEF IInv, TypeOK, KernelTypeOK, Created, NewLease
<1>2. TypeOK'
  BY <1>1 DEF IInv, TypeOK, KernelTypeOK, Statuses
<1>3. \A x \in Worlds : world[x].raw # a
  BY <1>1 DEF IInv, TypeOK, SoleOwner, Live
<1>4. SoleOwner'
  <2>1. \A x \in Worlds \ {w} : world'[x] = world[x]
    BY <1>1
  <2>2. world[w].raw = NULL
    BY DEF IInv, TypeOK
  <2>3. \A b \in Addrs : status[b] # "free" => \E x \in Worlds \ {w} : world[x].raw = b
    BY <2>2, NullNotAddr DEF IInv, SoleOwner, Live
  <2>4. \A b \in Addrs : Live(b)' => \E x \in Worlds : world'[x].raw = b
    BY <1>1, <2>1, <2>3 DEF Live
  <2>5. QED BY <1>1, <1>3, <2>1, <2>4 DEF IInv, SoleOwner, Live
<1>5. \A x \in Worlds \ {w} :
        /\ world'[x] = world[x]
        /\ world[x].raw \in Addrs => CurrentSpan(x)' = CurrentSpan(x)
  BY <1>1, <1>3 DEF CurrentSpan
<1>6. \A v \in Views : view[v].world # NULL =>
        /\ view[v].world \in Worlds \ {w}
        /\ world[view[v].world].raw \in Addrs \ {a}
  BY <1>3, NullIsNothing, OwnedIsLive DEF IInv, BorrowsAreHome, TypeOK
<1>7. BorrowsAreHome'
  BY <1>1, <1>5, <1>6 DEF IInv, BorrowsAreHome
<1>8. CallsAreOwned'
  <2>1. ASSUME NEW u \in Threads PROVE InCall(u)'
    <3>1. InCall(u)
      BY DEF IInv, CallsAreOwned
    <3>2. busy[u].op \in Mutations \cup Queries =>
            busy[u].self \in Worlds \ {w} /\ world[busy[u].self].raw \in Addrs
      BY <3>1, NullIsNothing, OwnedIsLive DEF InCall
    <3>3. QED BY <3>1, <3>2, <1>5 DEF InCall, Lends
  <2>2. QED BY <2>1 DEF CallsAreOwned
<1>9. QED BY <1>2, <1>4, <1>7, <1>8 DEF IInv

LEMMA SendStep ==
  ASSUME IInv, NEW t \in Threads, NEW w \in Worlds, NEW u \in Threads, World_send(t, w, u)
  PROVE  IInv'
<1> USE DEF World_send
<1>1. /\ t # NULL /\ u # NULL /\ world[w].on = t
      /\ world' = [x \in Worlds |-> IF x = w THEN [world[x] EXCEPT !.on = u] ELSE world[x]]
  BY NullIsNothing DEF IInv, TypeOK, Owned
<1>2. \A x \in Worlds : /\ world'[x].raw = world[x].raw
                        /\ x # w => world'[x] = world[x]
                        /\ CurrentSpan(x)' = CurrentSpan(x)
  BY <1>1 DEF IInv, TypeOK, CurrentSpan, kvars
<1>3. TypeOK'
  BY <1>1 DEF IInv, TypeOK, KernelTypeOK, kvars
<1>4. SoleOwner'
  BY <1>1, <1>2 DEF IInv, SoleOwner, Live, kvars
<1>5. \A v \in Views : view[v].world # w
  BY DEF Lends
<1>6. BorrowsAreHome'
  BY <1>2, <1>5 DEF IInv, BorrowsAreHome, TypeOK, kvars
<1>7. CallsAreOwned'
  <2>1. ASSUME NEW r \in Threads PROVE InCall(r)'
    <3>1. InCall(r)
      BY DEF IInv, CallsAreOwned
    <3>2. busy[t].op = "idle"
      BY DEF Owned, Free, Idle
    <3>3. busy[r].op \in Mutations \cup Queries => busy[r].self \in Worlds \ {w}
      BY <3>1, <3>2, <1>1 DEF InCall, Mutations, Queries
    <3>4. QED BY <3>1, <3>3, <1>2 DEF InCall, Lends
  <2>2. QED BY <2>1 DEF CallsAreOwned
<1>8. QED BY <1>3, <1>4, <1>6, <1>7 DEF IInv

(* A tick call on the World of thread t takes effect and returns. *)
LEMMA TickStep ==
  ASSUME IInv, NEW t \in Threads, busy[t].op \in Mutations, Return(t, NULL),
         KernelBegin(world[busy[t].self].raw) \/ KernelEnd(world[busy[t].self].raw),
         UNCHANGED <<world, workset, view, item>>
  PROVE  IInv'
<1> DEFINE w == busy[t].self
           a == world[w].raw
<1>1. InCall(t) /\ w \in Worlds /\ world[w].on = t /\ t # NULL /\ ~Lends(w)
  BY NullIsNothing DEF IInv, CallsAreOwned, InCall
<1>2. a \in Addrs /\ status[a] # "free" /\ \A x \in Worlds \ {w} : world[x].raw # a
  BY <1>1, OwnedIsLive
<1>3. /\ status' \in [Addrs -> Statuses] /\ status'[a] # "free"
      /\ lease' \in [Addrs -> 0..MaxLease] /\ issued' \in 0..MaxLease
      /\ \A b \in Addrs \ {a} : status'[b] = status[b] /\ lease'[b] = lease[b]
  <2>1. KernelTypeOK
    BY DEF IInv, TypeOK
  <2>2. CASE KernelBegin(a)
    <3>1. issued' = issued + 1 /\ issued' \in 0..MaxLease
      BY <2>1, <2>2, MaxLeaseNat DEF KernelBegin, NewLease, KernelTypeOK
    <3>2. QED
      BY <1>2, <2>1, <2>2, <3>1 DEF KernelBegin, NewLease, KernelTypeOK, Statuses
  <2>3. CASE KernelEnd(a)
    BY <1>2, <2>1, <2>3 DEF KernelEnd, KernelTypeOK, Statuses
  <2>4. QED BY <2>2, <2>3
<1>4. busy'[t] = Idle /\ \A u \in Threads \ {t} : busy'[u] = busy[u]
  BY DEF IInv, TypeOK, Return
<1>5. TypeOK'
  BY <1>3, MaxLeaseNat DEF IInv, TypeOK, KernelTypeOK, Return, Idle, Spans
<1>6. SoleOwner'
  BY <1>2, <1>3 DEF IInv, SoleOwner, Live
<1>7. \A x \in Worlds \ {w} : world[x].raw \in Addrs =>
        CurrentSpan(x)' = CurrentSpan(x) /\ status'[world[x].raw] = status[world[x].raw]
  BY <1>2, <1>3 DEF CurrentSpan
<1>8. BorrowsAreHome'
  <2>1. ASSUME NEW v \in Views, view[v].world # NULL
        PROVE  /\ view[v].world \in Worlds \ {w} /\ world[view[v].world].raw \in Addrs
    BY <1>1, <2>1, OwnedIsLive DEF Lends, IInv, BorrowsAreHome, TypeOK
  <2>2. QED BY <2>1, <1>7 DEF IInv, BorrowsAreHome
<1>9. CallsAreOwned'
  <2>1. ASSUME NEW u \in Threads PROVE InCall(u)'
    <3>1. InCall(u)
      BY DEF IInv, CallsAreOwned
    <3>2. CASE u = t
      BY <3>2, <1>4 DEF InCall, Idle, Mutations, Queries
    <3>3. CASE u # t
      <4>1. busy'[u] = busy[u]
        BY <3>3, <1>4
      <4>2. ASSUME busy[u].op \in Mutations \cup Queries
            PROVE  busy[u].self \in Worlds \ {w} /\ world[busy[u].self].raw \in Addrs
        BY <4>2, <3>1, <3>3, <1>1, OwnedIsLive, NullIsNothing DEF InCall
      <4>3. QED BY <3>1, <4>1, <4>2, <1>7 DEF InCall, Lends
    <3>4. QED BY <3>2, <3>3
  <2>2. QED BY <2>1 DEF CallsAreOwned
<1>10. QED BY <1>5, <1>6, <1>8, <1>9 DEF IInv

LEMMA FanoutStep ==
  ASSUME IInv, NEW t \in Threads, NEW v \in Views, Fanout_view_returns(t, v)
  PROVE  IInv'
<1> DEFINE w == busy[t].self
<1>1. CASE UNCHANGED view
  BY <1>1, ReturnQuiet DEF Fanout_view_returns
<1>2. CASE /\ CanLend(world[w].raw) /\ view[v].world = NULL
           /\ view' = [view EXCEPT ![v] = [world |-> w, on |-> t, span |-> CurrentSpan(w)]]
  <2>1. /\ w \in Worlds /\ world[w].on = t /\ t # NULL /\ w # NULL
    BY NullIsNothing DEF IInv, CallsAreOwned, InCall, Fanout_view_returns, Queries
  <2>2. /\ view'[v] = [world |-> w, on |-> t, span |-> CurrentSpan(w)]
        /\ \A x \in Views \ {v} : view'[x] = view[x]
        /\ UNCHANGED <<kvars, world, workset, item>> /\ Return(t, NULL)
    BY <1>2 DEF IInv, TypeOK, Fanout_view_returns
  <2>3. CurrentSpan(w) \in Spans
    BY <2>1, OwnedIsLive
  <2>4. view' \in [Views -> [world: Worlds \cup {NULL}, span: Spans,
                            on: Threads \cup {NULL}]]
    BY <1>2, <2>1, <2>3 DEF IInv, TypeOK
  <2>5. TypeOK'
    BY <2>2, <2>4, MaxLeaseNat, SMTT(30) DEF IInv, TypeOK, KernelTypeOK, kvars, Return, Idle, Spans
  <2>6. SoleOwner'
    BY <2>2 DEF IInv, SoleOwner, Live, kvars
  <2>7. BorrowsAreHome'
    BY <1>2, <2>1, <2>2 DEF IInv, BorrowsAreHome, CurrentSpan, kvars, CanLend, TypeOK
  <2>8. busy'[t] = Idle /\ \A u \in Threads \ {t} : busy'[u] = busy[u]
    BY <2>2 DEF IInv, TypeOK, Return
  <2>9. ASSUME NEW u \in Threads PROVE InCall(u)'
    <3>1. InCall(u)
      BY DEF IInv, CallsAreOwned
    <3>2. CASE u = t
      BY <3>2, <2>8 DEF InCall, Idle, Mutations, Queries
    <3>3. CASE u # t
      <4>1. busy[u].op \in Mutations => busy[u].self # w /\ ~Lends(busy[u].self)
        BY <3>1, <3>3, <2>1 DEF InCall
      <4>2. busy[u].op \in Mutations => ~Lends(busy[u].self)'
        BY <4>1, <2>2, <2>8, <3>3 DEF Lends
      <4>3. busy[u].op = "read" => item[busy[u].self].view # v
        BY <1>2, <3>1 DEF InCall, IInv, BorrowsAreHome
      <4>4. busy[u].op = "read" => item[busy[u].self].view \in Views
        BY <3>1 DEF InCall, IInv, TypeOK
      <4>5. QED
        BY <3>1, <3>3, <4>2, <4>3, <4>4, <2>2, <2>8 DEF InCall, CurrentSpan, kvars
    <3>4. QED BY <3>2, <3>3
  <2>10. QED BY <2>5, <2>6, <2>7, <2>9 DEF IInv, CallsAreOwned
<1>3. QED BY <1>1, <1>2 DEF Fanout_view_returns

LEMMA DropStep ==
  ASSUME IInv, NEW t \in Threads, Drop_returns(t)
  PROVE  IInv'
<1> DEFINE w == busy[t].self
           a == world[w].raw
<1>1. InCall(t) /\ w \in Worlds /\ world[w].on = t /\ t # NULL /\ ~Lends(w)
  BY NullIsNothing DEF IInv, CallsAreOwned, InCall, Drop_returns, Mutations
<1>2. a \in Addrs /\ status[a] # "free" /\ \A x \in Worlds \ {w} : world[x].raw # a
  BY <1>1, OwnedIsLive
<1>3. /\ status' = [b \in Addrs |-> IF b = a THEN "free" ELSE status[b]]
      /\ world' = [x \in Worlds |-> IF x = w THEN NoWorld ELSE world[x]]
      /\ Return(t, NULL) /\ UNCHANGED <<lease, issued, workset, view, item>>
  BY <1>1 DEF Drop_returns, Destroyed, IInv, TypeOK
<1>4. busy'[t] = Idle /\ \A u \in Threads \ {t} : busy'[u] = busy[u]
  BY <1>3 DEF IInv, TypeOK, Return
<1>5. TypeOK'
  <2>1. status' \in [Addrs -> Statuses]
    BY <1>3 DEF IInv, TypeOK, KernelTypeOK, Statuses
  <2>2. world' \in [Worlds -> [raw: Addrs \cup {NULL}, on: Threads \cup {NULL}]]
    BY <1>3 DEF IInv, TypeOK, NoWorld
  <2>3. \A x \in Worlds : world'[x].raw = NULL <=> world'[x].on = NULL
    BY <1>3 DEF IInv, TypeOK, NoWorld
  <2>4. QED
    BY <1>3, <2>1, <2>2, <2>3, MaxLeaseNat DEF IInv, TypeOK, KernelTypeOK, Return, Idle, Spans
<1>6. SoleOwner'
  <2>1. \A x \in Worlds \ {w} : world'[x] = world[x]
    BY <1>3
  <2>2. world'[w].raw = NULL /\ world'[w].on = NULL
    BY <1>1, <1>3 DEF NoWorld
  <2>3. \A b \in Addrs : Live(b)' => \E x \in Worlds \ {w} : world[x].raw = b
    BY <1>3 DEF IInv, SoleOwner, Live
  <2>4. \A x \in Worlds \ {w} : world[x].on # NULL => Live(world[x].raw)'
    BY <1>2, <1>3 DEF IInv, SoleOwner, Live
  <2>5. QED
    BY <2>1, <2>2, <2>3, <2>4 DEF IInv, SoleOwner
<1>7. \A x \in Worlds \ {w} : world[x].raw \in Addrs =>
        /\ world'[x] = world[x] /\ CurrentSpan(x)' = CurrentSpan(x)
        /\ status'[world[x].raw] = status[world[x].raw]
  BY <1>2, <1>3 DEF CurrentSpan
<1>8. BorrowsAreHome'
  <2>1. ASSUME NEW v \in Views, view[v].world # NULL
        PROVE  /\ view[v].world \in Worlds \ {w} /\ world[view[v].world].raw \in Addrs
    BY <1>1, <2>1, OwnedIsLive DEF Lends, IInv, BorrowsAreHome, TypeOK
  <2>2. QED BY <1>3, <2>1, <1>7 DEF IInv, BorrowsAreHome
<1>9. CallsAreOwned'
  <2>1. ASSUME NEW u \in Threads PROVE InCall(u)'
    <3>1. InCall(u)
      BY DEF IInv, CallsAreOwned
    <3>2. CASE u = t
      BY <3>2, <1>4 DEF InCall, Idle, Mutations, Queries
    <3>3. CASE u # t
      <4>1. busy'[u] = busy[u]
        BY <3>3, <1>4
      <4>2. ASSUME busy[u].op \in Mutations \cup Queries
            PROVE  busy[u].self \in Worlds \ {w} /\ world[busy[u].self].raw \in Addrs
        BY <4>2, <3>1, <3>3, <1>1, OwnedIsLive, NullIsNothing DEF InCall
      <4>3. QED BY <1>3, <3>1, <4>1, <4>2, <1>7 DEF InCall, Lends
    <3>4. QED BY <3>2, <3>3
  <2>2. QED BY <2>1 DEF CallsAreOwned
<1>10. QED BY <1>5, <1>6, <1>8, <1>9 DEF IInv

-----------------------------------------------------------------------------
(* Worksets and borrows. *)

(* The thread that owns workset k, if any, is not in a call. *)
LEMMA WorksetChange ==
  ASSUME IInv, NEW t \in Threads, NEW k \in Worksets, NEW u \in Threads \cup {NULL},
         Free(t), workset[k] \in {NULL, t}, workset' = [workset EXCEPT ![k] = u],
         answer' = NULL, UNCHANGED <<kvars, world, view, item, busy>>
  PROVE  IInv'
<1>1. TypeOK' /\ SoleOwner' /\ BorrowsAreHome'
  BY DEF IInv, TypeOK, KernelTypeOK, SoleOwner, BorrowsAreHome, Live, CurrentSpan, kvars
<1>2. ASSUME NEW r \in Threads PROVE InCall(r)'
  <2>1. InCall(r)
    BY DEF IInv, CallsAreOwned
  <2>2. busy[r].ws # NULL => busy[r].ws # k /\ busy[r].ws \in Worksets
    BY <2>1, NullIsNothing DEF InCall, Free, Idle, IInv, TypeOK
  <2>3. busy[r].ws # NULL => workset'[busy[r].ws] = workset[busy[r].ws]
    BY <2>2 DEF IInv, TypeOK
  <2>4. QED BY <2>1, <2>3 DEF InCall, CurrentSpan, Lends, kvars
<1>3. QED BY <1>1, <1>2 DEF IInv, CallsAreOwned

LEMMA EndViewStep ==
  ASSUME IInv, NEW v \in Views, Fanout_ends(v)
  PROVE  IInv'
<1> USE DEF Fanout_ends
<1>1. view' = [x \in Views |-> IF x = v THEN NoView ELSE view[x]]
  BY DEF IInv, TypeOK
<1>2. TypeOK'
  BY <1>1, MaxLeaseNat DEF IInv, TypeOK, KernelTypeOK, NoView, Spans, kvars
<1>3. SoleOwner'
  BY DEF IInv, SoleOwner, Live, kvars
<1>4. BorrowsAreHome'
  BY <1>1 DEF IInv, BorrowsAreHome, TypeOK, CurrentSpan, kvars, NoView, Reads
<1>5. ASSUME NEW r \in Threads PROVE InCall(r)'
  <2>1. InCall(r)
    BY DEF IInv, CallsAreOwned
  <2>2. busy[r].op \in Mutations => ~Lends(busy[r].self)'
    BY <1>1, <2>1, NullIsNothing DEF InCall, Lends, NoView
  <2>3. busy[r].op = "read" => item[busy[r].self].view \in Views \ {v}
    BY <2>1 DEF InCall, Reads, IInv, TypeOK
  <2>4. QED BY <1>1, <2>1, <2>2, <2>3 DEF InCall, CurrentSpan, kvars
<1>6. QED BY <1>2, <1>3, <1>4, <1>5 DEF IInv, CallsAreOwned

(* Item i is taken, sent or let go while nobody reads through it. *)
LEMMA ItemChange ==
  ASSUME IInv, NEW i \in Items, ~InUse(i),
         NEW c \in [kind: Kinds, view: Views \cup {NULL}, on: Threads \cup {NULL}],
         c.view # NULL => view[c.view].world # NULL,
         item' = [item EXCEPT ![i] = c],
         UNCHANGED <<kvars, world, workset, view, busy>>, answer' = NULL
  PROVE  IInv'
<1>1. item' = [x \in Items |-> IF x = i THEN c ELSE item[x]]
  BY DEF IInv, TypeOK
<1>2. TypeOK'
  BY <1>1 DEF IInv, TypeOK, KernelTypeOK, kvars
<1>3. SoleOwner' /\ BorrowsAreHome'
  BY <1>1 DEF IInv, SoleOwner, Live, BorrowsAreHome, CurrentSpan, kvars
<1>4. ASSUME NEW r \in Threads PROVE InCall(r)'
  BY <1>1 DEF IInv, CallsAreOwned, InCall, InUse, Lends, CurrentSpan, kvars
<1>5. QED BY <1>2, <1>3, <1>4 DEF IInv, CallsAreOwned

LEMMA ReadReturnStep ==
  ASSUME IInv, NEW t \in Threads, NEW j \in Items, Item_read_returns(t, j)
  PROVE  IInv'
<1> DEFINE i == busy[t].self
           a == <<item[i].view, "data", busy[t].span[2]>>
<1>1. /\ i \in Items /\ item[i].view \in Views /\ view[item[i].view].world # NULL
      /\ busy[t].span \in Spans
  BY DEF Item_read_returns, IInv, CallsAreOwned, InCall, TypeOK, BorrowsAreHome
<1>2. a \in {NULL} \cup (Views \X {"data", "refused"} \X (0..MaxLease))
  BY <1>1 DEF Spans
<1>3. CASE UNCHANGED item
  <2>1. Return(t, a)
    BY DEF Item_read_returns
  <2>2. QED BY <1>2, <1>3, <2>1, ReturnQuiet DEF Item_read_returns
<1>4. ASSUME NEW kind \in Yields(item[i].kind), item[j].view = NULL,
             item' = [item EXCEPT ![j] = [kind |-> kind, view |-> item[i].view, on |-> t]]
      PROVE  IInv'
  <2>1. kind \in Kinds
    BY <1>4 DEF Yields, Kinds
  <2>2. /\ item' \in [Items -> [kind: Kinds, view: Views \cup {NULL},
                                on: Threads \cup {NULL}]]
        /\ \A x \in Items \ {j} : item'[x] = item[x]
        /\ item'[j].view = item[i].view
    BY <1>1, <1>4, <2>1 DEF IInv, TypeOK
  <2>3. Return(t, a) /\ UNCHANGED <<kvars, world, workset, view>>
    BY DEF Item_read_returns
  <2>4. TypeOK'
    BY <1>2, <2>2, <2>3, MaxLeaseNat, SMTT(30) DEF IInv, TypeOK, KernelTypeOK, kvars, Return, Idle, Spans
  <2>5. SoleOwner'
    BY <2>3 DEF IInv, SoleOwner, Live, kvars
  <2>6. BorrowsAreHome'
    BY <1>1, <2>2, <2>3 DEF IInv, BorrowsAreHome, CurrentSpan, kvars
  <2>7. busy'[t] = Idle /\ \A u \in Threads \ {t} : busy'[u] = busy[u]
    BY <2>3 DEF IInv, TypeOK, Return
  <2>8. ASSUME NEW r \in Threads PROVE InCall(r)'
    <3>1. InCall(r)
      BY DEF IInv, CallsAreOwned
    <3>2. CASE r = t
      BY <3>2, <2>7 DEF InCall, Idle, Mutations, Queries
    <3>3. CASE r # t
      <4>1. busy[r].op = "read" => busy[r].self \in Items \ {j}
        BY <3>1, <1>4 DEF InCall
      <4>2. QED
        BY <3>1, <3>3, <4>1, <2>2, <2>3, <2>7 DEF InCall, CurrentSpan, Lends, kvars
    <3>4. QED BY <3>2, <3>3
  <2>9. QED BY <2>4, <2>5, <2>6, <2>8 DEF IInv, CallsAreOwned
<1>5. QED BY <1>3, <1>4 DEF Item_read_returns

-----------------------------------------------------------------------------
(* Every step. *)

LEMMA WorldStepKeeps ==
  ASSUME IInv, NEW t \in Threads, NEW w \in Worlds, WorldStep(t, w)
  PROVE  IInv'
<1>1. ASSUME NEW op \in Mutations \cup Queries, ByMut(t, w, op) PROVE IInv'
  BY <1>1, StartOnWorld DEF ByMut
<1>2. ASSUME NEW op \in Queries, ByRef(t, w, op) PROVE IInv'
  BY <1>2, StartOnWorld DEF ByRef, Mutations, Queries
<1>3. ASSUME NEW k \in Worksets, WithWorld(t, k, w) PROVE IInv'
  BY <1>3, StartOnWorld DEF WithWorld, Mutations, Queries
<1>4. QED
  BY <1>1, <1>2, <1>3, NewStep, SendStep
     DEF WorldStep, World_begin_tick, World_end_tick, World_entity_call,
         World_observer_call, World_query_call, World_lookup_call, World_fanout_view,
         World_drop, Workset_sync, Workset_enqueue_source, Mutations, Queries

LEMMA WorksetStepKeeps ==
  ASSUME IInv, NEW t \in Threads, NEW k \in Worksets, WorksetStep(t, k)
  PROVE  IInv'
<1>1. CASE Workset_call(t, k)
  <2>1. PICK c : /\ busy' = [busy EXCEPT ![t] = c]
                 /\ c = [op |-> "own", self |-> NULL, ws |-> k, span |-> <<NULL, 0>>]
    BY <1>1 DEF Workset_call, Start
  <2>2. c \in [op: Mutations \cup Queries \cup {"idle", "read", "own"},
               self: Worlds \cup Items \cup {NULL}, ws: Worksets \cup {NULL},
               span: Spans]
    BY <2>1, MaxLeaseNat DEF Spans
  <2>3. busy'[t] = c /\ UNCHANGED <<kvars, world, workset, view, item>> /\ answer' = NULL
    BY <1>1, <2>1 DEF IInv, TypeOK, Workset_call, Start
  <2>4. InCall(t)'
    BY <1>1, <2>1, <2>3 DEF InCall, Workset_call, Mutations, Queries
  <2>5. QED BY <2>1, <2>2, <2>3, <2>4, StartStep
<1>2. CASE Workset_new(t, k)
  BY <1>2, WorksetChange DEF Workset_new
<1>3. ASSUME NEW u \in Threads \cup {NULL}, Workset_send(t, k, u) PROVE IInv'
  BY <1>3, WorksetChange DEF Workset_send
<1>4. QED BY <1>1, <1>2, <1>3 DEF WorksetStep, Workset_drop

LEMMA ReturnStepKeeps ==
  ASSUME IInv, NEW t \in Threads, ReturnStep(t)
  PROVE  IInv'
<1>1. CASE Begin_tick_returns(t)
  BY <1>1, TickStep, ReturnQuiet DEF Begin_tick_returns, Mutations
<1>2. CASE End_tick_returns(t)
  BY <1>2, TickStep, ReturnQuiet DEF End_tick_returns, Mutations
<1>3. CASE Call_returns(t)
  BY <1>3, ReturnQuiet DEF Call_returns
<1>4. QED
  BY <1>1, <1>2, <1>3, FanoutStep, DropStep, ReadReturnStep DEF ReturnStep

LEMMA BorrowStepKeeps ==
  ASSUME IInv, NEW t \in Threads, BorrowStep(t)
  PROVE  IInv'
<1>1. ASSUME NEW v \in Views, Fanout_read(t, v) PROVE IInv'
  <2>1. answer' \in {NULL} \cup (Views \X {"data", "refused"} \X (0..MaxLease))
    BY <1>1 DEF Fanout_read, IInv, TypeOK, Spans
  <2>2. QED
    BY <1>1, <2>1 DEF Fanout_read, IInv, TypeOK, KernelTypeOK, SoleOwner, CallsAreOwned, InCall,
       BorrowsAreHome, Live, Lends, CurrentSpan, kvars
<1>2. ASSUME NEW v \in Views, NEW i \in Items, Fanout_groups(t, v, i) PROVE IInv'
  <2>1. ~InUse(i)
    BY <1>2 DEF Fanout_groups, InUse, IInv, CallsAreOwned, InCall
  <2>2. [kind |-> "groups", view |-> v, on |-> t]
          \in [kind: Kinds, view: Views \cup {NULL}, on: Threads \cup {NULL}]
    BY DEF Kinds
  <2>3. QED BY <1>2, <2>1, <2>2, ItemChange DEF Fanout_groups
<1>3. ASSUME NEW i \in Items, Item_read(t, i) PROVE IInv'
  <2>1. PICK c : /\ busy' = [busy EXCEPT ![t] = c]
                 /\ c = [op |-> "read", self |-> i, ws |-> NULL,
                         span |-> view[item[i].view].span]
    BY <1>3 DEF Item_read
  <2>2. item[i].view \in Views
    BY <1>3 DEF Item_read, IInv, TypeOK
  <2>3. c \in [op: Mutations \cup Queries \cup {"idle", "read", "own"},
               self: Worlds \cup Items \cup {NULL}, ws: Worksets \cup {NULL},
               span: Spans]
    BY <2>1, <2>2 DEF IInv, TypeOK
  <2>4. busy'[t] = c /\ UNCHANGED <<kvars, world, workset, view, item>> /\ answer' = NULL
    BY <1>3, <2>1 DEF IInv, TypeOK, Item_read
  <2>5. InCall(t)'
    BY <1>3, <2>1, <2>4 DEF InCall, Item_read, Mutations, Queries
  <2>6. QED BY <2>1, <2>3, <2>4, <2>5, StartStep
<1>4. ASSUME NEW i \in Items, Item_send(i, t) PROVE IInv'
  <2>1. item[i].view \in Views /\ view[item[i].view].world # NULL
    BY <1>4 DEF Item_send, IInv, TypeOK, BorrowsAreHome
  <2>2. PICK c : c = [item[i] EXCEPT !.on = t] /\ item' = [item EXCEPT ![i] = c]
    BY <1>4 DEF Item_send
  <2>3. /\ c \in [kind: Kinds, view: Views \cup {NULL}, on: Threads \cup {NULL}]
        /\ c.view = item[i].view
    BY <2>2 DEF IInv, TypeOK
  <2>4. QED BY <1>4, <2>1, <2>2, <2>3, ItemChange DEF Item_send
<1>5. ASSUME NEW i \in Items, Item_ends(i) PROVE IInv'
  <2>1. NoItem \in [kind: Kinds, view: Views \cup {NULL}, on: Threads \cup {NULL}]
        /\ NoItem.view = NULL
    BY DEF NoItem, Kinds
  <2>2. QED BY <1>5, <2>1, ItemChange DEF Item_ends
<1>6. QED BY <1>1, <1>2, <1>3, <1>4, <1>5, EndViewStep DEF BorrowStep

LEMMA IInvStep == IInv /\ [Next]_vars => IInv'
<1> SUFFICES ASSUME IInv, [Next]_vars PROVE IInv'
  OBVIOUS
<1>1. CASE UNCHANGED vars
  BY <1>1 DEF vars, rvars, kvars, IInv, TypeOK, KernelTypeOK, SoleOwner, CallsAreOwned, InCall,
     BorrowsAreHome, Live, Lends, CurrentSpan
<1>2. CASE Next
  BY <1>2, WorldStepKeeps, WorksetStepKeeps, ReturnStepKeeps, BorrowStepKeeps DEF Next
<1>3. QED BY <1>1, <1>2

LEMMA Invariance == Spec => []IInv
BY IInvInit, IInvStep, PTL DEF Spec

-----------------------------------------------------------------------------
(* What follows in every state. *)

(* The borrow checker's rules add up to lent spans.                        *)
LEMMA Borrowed == IInv => BorrowsAreLent
<1> SUFFICES ASSUME IInv PROVE BorrowsAreLent
  OBVIOUS
<1>1. ASSUME NEW v \in Views, view[v].world # NULL
      PROVE  Lent(view[v].span[1], view[v].span[2])
  <2>1. /\ view[v].world \in Worlds /\ world[view[v].world].on # NULL
        /\ view[v].span = CurrentSpan(view[v].world)
        /\ status[world[view[v].world].raw] = "final"
    BY <1>1 DEF IInv, TypeOK, BorrowsAreHome
  <2>2. world[view[v].world].raw \in Addrs
    BY <2>1, OwnedIsLive
  <2>3. QED BY <2>1, <2>2 DEF CurrentSpan, Lent, Live
<1>2. QED BY <1>1 DEF BorrowsAreLent, IInv, BorrowsAreHome

LEMMA Exclusive == IInv => OneWriter
<1> SUFFICES ASSUME IInv, NEW t \in Threads, NEW u \in Threads, t # u
             PROVE  /\ busy[t].ws # NULL => busy[u].ws # busy[t].ws
                    /\ busy[t].op \in Mutations \cup Queries
                         /\ busy[u].span[1] = busy[t].span[1] =>
                           busy[t].op \in Queries /\ busy[u].op = "read"
  BY DEF OneWriter
<1>1. InCall(t) /\ InCall(u)
  BY DEF IInv, CallsAreOwned
<1>2. busy[t].ws # NULL => busy[u].ws # busy[t].ws
  BY <1>1 DEF InCall
<1>3. ASSUME busy[t].op \in Mutations \cup Queries, busy[u].span[1] = busy[t].span[1]
      PROVE  busy[t].op \in Queries /\ busy[u].op = "read"
  <2> DEFINE w == busy[t].self
  <2>1. /\ w \in Worlds /\ world[w].on = t /\ t # NULL
        /\ busy[t].span[1] = world[w].raw
    BY <1>1, <1>3, NullIsNothing DEF InCall, CurrentSpan
  <2>2. world[w].raw \in Addrs /\ \A x \in Worlds \ {w} : world[x].raw # world[w].raw
    BY <2>1, OwnedIsLive
  <2>3. busy[u].op \notin {"own", "idle"}
    BY <1>1, <1>3, <2>1, <2>2, NullNotAddr DEF InCall
  <2>4. busy[u].op \notin Mutations \cup Queries
    <3>1. SUFFICES ASSUME busy[u].op \in Mutations \cup Queries PROVE FALSE
      OBVIOUS
    <3>2. busy[u].self \in Worlds \ {w} /\ busy[u].span[1] = world[busy[u].self].raw
      BY <1>1, <2>1, <3>1 DEF InCall, CurrentSpan
    <3>3. QED BY <1>3, <2>1, <2>2, <3>2
  <2>5. busy[u].op = "read"
    BY <2>3, <2>4 DEF IInv, TypeOK
  <2>6. Lends(w)
    <3> DEFINE v == item[busy[u].self].view
    <3>1. v \in Views /\ view[v].world \in Worlds /\ busy[u].span = view[v].span
          /\ view[v].span = CurrentSpan(view[v].world)
      BY <1>1, <2>5 DEF InCall, IInv, TypeOK, BorrowsAreHome
    <3>2. busy[u].span[1] = world[view[v].world].raw
      <4>1. busy[u].span = CurrentSpan(view[v].world)
        BY <3>1
      <4>2. CurrentSpan(view[v].world)[1] = world[view[v].world].raw
        BY DEF CurrentSpan
      <4>3. QED BY <4>1, <4>2
    <3>3. world[view[v].world].raw = world[w].raw
      BY <1>3, <2>1, <3>2
    <3>4. QED BY <2>1, <2>2, <3>1, <3>3 DEF Lends
  <2>7. QED BY <1>1, <1>3, <2>5, <2>6 DEF InCall
<1>4. QED BY <1>2, <1>3

LEMMA Alive == IInv => InUseIsAlive
<1> SUFFICES ASSUME IInv, NEW t \in Threads
             PROVE  /\ busy[t].span[1] # NULL => Live(busy[t].span[1])
                    /\ busy[t].op = "read" => Lent(busy[t].span[1], busy[t].span[2])
  BY DEF InUseIsAlive
<1>1. InCall(t)
  BY DEF IInv, CallsAreOwned
<1>2. CASE busy[t].op \in {"own", "idle"}
  BY <1>1, <1>2 DEF InCall
<1>3. CASE busy[t].op \in Mutations \cup Queries
  <2>1. Live(busy[t].span[1])
    BY <1>1, <1>3, OwnedIsLive, NullIsNothing, SMTT(30) DEF InCall, CurrentSpan, Live
  <2>2. QED BY <1>3, <2>1 DEF Mutations, Queries
<1>4. CASE busy[t].op = "read"
  <2> DEFINE v == item[busy[t].self].view
  <2>1. v \in Views /\ view[v].world # NULL /\ busy[t].span = view[v].span
    BY <1>1, <1>4 DEF InCall, IInv, TypeOK, BorrowsAreHome
  <2>2. Lent(busy[t].span[1], busy[t].span[2])
    BY <2>1, Borrowed DEF BorrowsAreLent
  <2>3. QED BY <2>2 DEF Lent
<1>5. QED BY <1>2, <1>3, <1>4 DEF IInv, TypeOK

-----------------------------------------------------------------------------
(* Every value of every variable is of its kind, for any threads, values   *)
(* and bound; a World value without an owner has no native world.          *)
THEOREM RustTypeCorrect == Spec => []TypeOK
BY Invariance, PTL DEF IInv

(* No interleaving of calls and reads, with Worlds, worksets and items     *)
(* passed between threads, puts two threads into one native world unless   *)
(* one of them only reads a borrowed span and the other changes nothing.   *)
THEOREM SingleWriter == Spec => []OneWriter
BY Invariance, Exclusive, PTL

(* Nothing the crate lets a program borrow outlives its borrow period.     *)
THEOREM BorrowsHold == Spec => []BorrowsAreLent
BY Invariance, Borrowed, PTL

(* A pointer in the hands of the kernel or of a reader stays alive until   *)
(* the call or the read is over.                                           *)
THEOREM PointersStayAlive == Spec => []InUseIsAlive
BY Invariance, Alive, PTL

(* Native worlds are owned by one World each, and none is lost.            *)
THEOREM WorldsOwned == Spec => []SoleOwner
BY Invariance, PTL DEF IInv

-----------------------------------------------------------------------------
(* The promise of FanoutLease. *)

(* A World that is there has a borrow period. *)
Started == \A w \in Worlds : world[w].raw # NULL => lease[world[w].raw] # 0

PInv == IInv /\ Started

(* What a step leaves of the periods. *)
LEMMA PeriodKept ==
  ASSUME UNCHANGED <<lease, world>>
  PROVE  Period' = Period
BY DEF Period

LEMMA TakenKept ==
  ASSUME UNCHANGED view
  PROVE  Taken' = Taken
BY DEF Taken

(* The steps that neither give nor take anything. *)
LEMMA SilentStep ==
  ASSUME UNCHANGED <<kvars, world, view>>, answer' = NULL
  PROVE  Promise!LeaseNext
<1>1. Period' = Period /\ Taken' = Taken
  BY PeriodKept, TakenKept DEF kvars
<1>2. QED BY <1>1 DEF Promise!LeaseNext, Promise!Silent, kvars

LEMMA RenewStep ==
  ASSUME IInv, NEW w \in Worlds, NEW a \in Addrs, NewLease(a), world'[w].raw = a,
         world' \in [Worlds -> [raw: Addrs \cup {NULL}, on: Threads \cup {NULL}]],
         \A x \in Worlds \ {w} : world'[x] = world[x] /\ world[x].raw # a,
         UNCHANGED view, answer' = NULL
  PROVE  Promise!LeaseNext
<1>1. issued' = issued + 1 /\ lease' = [lease EXCEPT ![a] = issued + 1]
  BY DEF NewLease
<1>2. a # NULL
  BY NullNotAddr
<1>3. Period' = [Period EXCEPT ![w] = issued + 1]
  <2>1. lease'[a] = issued + 1 /\ \A b \in Addrs \ {a} : lease'[b] = lease[b]
    BY <1>1 DEF IInv, TypeOK, KernelTypeOK
  <2>2. \A x \in Worlds \ {w} :
          Period'[x] = Period[x] /\ Period[x] = [Period EXCEPT ![w] = issued + 1][x]
    BY <2>1 DEF Period, IInv, TypeOK
  <2>3. Period'[w] = issued + 1 /\ [Period EXCEPT ![w] = issued + 1][w] = issued + 1
    BY <1>2, <2>1 DEF Period
  <2>4. /\ Period' = [x \in Worlds |-> Period'[x]]
        /\ Period = [x \in Worlds |-> Period[x]]
    BY DEF Period
  <2>5. QED BY <2>2, <2>3, <2>4
<1>4. Promise!Renew(w)
  BY <1>1, <1>3, TakenKept DEF Promise!Renew
<1>5. QED BY <1>4 DEF Promise!LeaseNext

LEMMA StartedStep == PInv /\ [Next]_vars => Started'
<1> SUFFICES ASSUME PInv, [Next]_vars PROVE Started'
  OBVIOUS
<1>1. ASSUME NEW w \in Worlds, NEW a \in Addrs, NewLease(a), IInv',
             \A x \in Worlds : world'[x].raw # a => world'[x].raw \in {NULL, world[x].raw}
      PROVE  Started'
  <2>1. /\ lease' = [b \in Addrs |-> IF b = a THEN issued + 1 ELSE lease[b]]
        /\ issued + 1 # 0
    <3>1. issued \in Nat
      BY MaxLeaseNat DEF PInv, IInv, TypeOK, KernelTypeOK
    <3>2. issued + 1 # 0
      BY <3>1
    <3>3. QED BY <1>1, <3>2 DEF NewLease, PInv, IInv, TypeOK, KernelTypeOK
  <2>2. \A x \in Worlds : world'[x].raw \in Addrs \cup {NULL}
    BY <1>1 DEF IInv, TypeOK
  <2>3. QED BY <1>1, <2>1, <2>2 DEF Started, PInv
<1>2. CASE UNCHANGED <<lease, world>>
  BY <1>2 DEF Started, PInv
<1>3. IInv'
  BY IInvStep DEF PInv
<1>4. ASSUME NEW t \in Threads, NEW w \in Worlds, NEW a \in Addrs, World_new(t, w, a)
      PROVE  Started'
  BY <1>1, <1>3, <1>4 DEF World_new, PInv, IInv, TypeOK
<1>5. ASSUME NEW t \in Threads, NEW w \in Worlds, NEW u \in Threads, World_send(t, w, u)
      PROVE  Started'
  BY <1>5 DEF World_send, Started, PInv, IInv, TypeOK, kvars
<1>6. ASSUME NEW t \in Threads, Begin_tick_returns(t) PROVE Started'
  <2>1. busy[t].self \in Worlds /\ world[busy[t].self].raw \in Addrs
    BY <1>6, OwnedIsLive, NullIsNothing
       DEF Begin_tick_returns, PInv, IInv, CallsAreOwned, InCall, Mutations
  <2>2. CASE KernelBegin(world[busy[t].self].raw)
    BY <1>1, <1>3, <1>6, <2>1, <2>2 DEF Begin_tick_returns, KernelBegin
  <2>3. QED BY <1>2, <1>6, <2>2 DEF Begin_tick_returns, kvars
<1>7. ASSUME NEW t \in Threads, Drop_returns(t) PROVE Started'
  BY <1>7 DEF Drop_returns, Started, PInv, IInv, TypeOK, NoWorld
<1>8. CASE UNCHANGED vars
  BY <1>2, <1>8 DEF vars, rvars, kvars
<1>9. ASSUME NEW t \in Threads, NEW w \in Worlds, WorldStep(t, w) PROVE Started'
  BY <1>2, <1>4, <1>5, <1>9 DEF WorldStep, ByMut, ByRef, Start, World_begin_tick, World_end_tick,
     World_entity_call, World_observer_call, World_query_call, World_lookup_call,
     World_fanout_view, World_drop, Workset_sync, Workset_enqueue_source, WithWorld, kvars
<1>10. ASSUME NEW t \in Threads, ReturnStep(t) PROVE Started'
  BY <1>2, <1>6, <1>7, <1>10 DEF ReturnStep, End_tick_returns, KernelEnd, Fanout_view_returns,
     Call_returns, Item_read_returns, kvars
<1>11. ASSUME NEW t \in Threads, NEW k \in Worksets, WorksetStep(t, k) PROVE Started'
  BY <1>2, <1>11 DEF WorksetStep, Workset_new, Workset_send, Workset_drop, Workset_call,
     Start, kvars
<1>12. ASSUME NEW t \in Threads, BorrowStep(t) PROVE Started'
  BY <1>2, <1>12 DEF BorrowStep, Fanout_read, Fanout_groups, Item_read, Item_send, Item_ends,
     Fanout_ends, kvars
<1>13. QED BY <1>8, <1>9, <1>10, <1>11, <1>12 DEF Next

LEMMA GrantStep ==
  ASSUME PInv, NEW t \in Threads, NEW v \in Views, Fanout_view_returns(t, v)
  PROVE  Promise!LeaseNext
<1> DEFINE w == busy[t].self
<1>1. answer' = NULL /\ UNCHANGED <<kvars, world>>
  BY DEF Fanout_view_returns, Return
<1>2. CASE UNCHANGED view
  BY <1>1, <1>2, SilentStep
<1>3. CASE /\ view[v].world = NULL
           /\ view' = [view EXCEPT ![v] = [world |-> w, on |-> t, span |-> CurrentSpan(w)]]
  <2>1. w \in Worlds /\ world[w].on # NULL /\ w # NULL
    BY NullIsNothing DEF PInv, IInv, CallsAreOwned, InCall, Fanout_view_returns, Queries
  <2>2. world[w].raw \in Addrs /\ world[w].raw # NULL
    BY <2>1, OwnedIsLive, NullNotAddr DEF PInv
  <2>3. Period[w] = lease[world[w].raw] /\ Period[w] # 0
    BY <2>1, <2>2 DEF Period, PInv, Started
  <2>4. CurrentSpan(w)[2] = Period[w]
    BY <2>3 DEF CurrentSpan
  <2>5. Taken[v] = NULL
    BY <1>3 DEF Taken
  <2>6. Taken' = [Taken EXCEPT ![v] = <<w, Period[w]>>]
    <3>1. /\ view'[v] = [world |-> w, on |-> t, span |-> CurrentSpan(w)]
          /\ \A x \in Views \ {v} : view'[x] = view[x]
      BY <1>3 DEF PInv, IInv, TypeOK
    <3>2. view'[v].world = w /\ view'[v].span[2] = Period[w]
      BY <2>4, <3>1
    <3>3. Taken' = [x \in Views |-> IF x = v THEN <<w, Period[w]>> ELSE Taken[x]]
      BY <2>1, <3>1, <3>2 DEF Taken
    <3>4. QED BY <3>3 DEF Taken
  <2>7. Promise!Grant(v, w)
    BY <1>1, <2>3, <2>5, <2>6, PeriodKept DEF Promise!Grant, kvars
  <2>8. QED BY <2>1, <2>7 DEF Promise!LeaseNext
<1>4. QED BY <1>2, <1>3 DEF Fanout_view_returns

LEMMA EndStep ==
  ASSUME PInv, NEW t \in Threads, Drop_returns(t)
  PROVE  Promise!LeaseNext
<1> DEFINE w == busy[t].self
<1>1. w \in Worlds
  BY DEF PInv, IInv, CallsAreOwned, InCall, Drop_returns, Mutations
<1>2. /\ world' = [x \in Worlds |-> IF x = w THEN NoWorld ELSE world[x]]
      /\ UNCHANGED <<lease, issued, view>> /\ answer' = NULL
  BY <1>1 DEF Drop_returns, Return, PInv, IInv, TypeOK
<1>3. Period' = [Period EXCEPT ![w] = 0]
  <2>1. Period' = [x \in Worlds |-> IF x = w THEN 0 ELSE Period[x]]
    BY <1>2 DEF Period, NoWorld
  <2>2. QED BY <2>1 DEF Period
<1>4. Promise!End(w)
  BY <1>2, <1>3, TakenKept DEF Promise!End
<1>5. QED BY <1>1, <1>4 DEF Promise!LeaseNext

LEMMA ForgetStep ==
  ASSUME PInv, NEW v \in Views, Fanout_ends(v)
  PROVE  Promise!LeaseNext
<1>1. view' = [x \in Views |-> IF x = v THEN NoView ELSE view[x]]
      /\ UNCHANGED <<kvars, world>> /\ answer' = NULL
  BY DEF Fanout_ends, PInv, IInv, TypeOK
<1>2. Taken' = [Taken EXCEPT ![v] = NULL]
  <2>1. Taken' = [x \in Views |-> IF x = v THEN NULL ELSE Taken[x]]
    BY <1>1 DEF Taken, NoView
  <2>2. QED BY <2>1 DEF Taken
<1>3. Promise!Forget(v)
  BY <1>1, <1>2, PeriodKept DEF Promise!Forget, Promise!LetGo, kvars
<1>4. QED BY <1>3 DEF Promise!LeaseNext

(* Reading through a view that is there is asking one that is entitled. *)
LEMMA AskStep ==
  ASSUME PInv, NEW v \in Views, view[v].world # NULL, UNCHANGED <<kvars, world, view>>,
         answer' = <<v, "data", view[v].span[2]>>
  PROVE  Promise!LeaseNext
<1> DEFINE w == view[v].world
<1>1. w \in Worlds /\ world[w].on # NULL /\ view[v].span = CurrentSpan(w)
      /\ view[v].span \in Spans
  BY DEF PInv, IInv, TypeOK, BorrowsAreHome
<1>2. world[w].raw \in Addrs /\ world[w].raw # NULL
  BY <1>1, OwnedIsLive, NullNotAddr DEF PInv
<1>3. Period[w] = view[v].span[2]
  BY <1>1, <1>2 DEF Period, CurrentSpan
<1>4. Taken[v] = <<w, view[v].span[2]>> /\ Taken[v] # NULL
  <2>1. <<w, view[v].span[2]>> \in Worlds \X (0..MaxLease)
    BY <1>1 DEF Spans
  <2>2. QED BY <2>1, NullNotPair DEF Taken
<1>5. Promise!Entitled(v)
  BY <1>3, <1>4 DEF Promise!Entitled
<1>6. Taken[v][2] = view[v].span[2]
  BY <1>4
<1>7. Promise!Ask(v)
  BY <1>5, <1>6, PeriodKept, TakenKept DEF Promise!Ask, kvars
<1>8. QED BY <1>7 DEF Promise!LeaseNext

LEMMA PromiseInit == Init => Promise!LeaseInit
BY DEF Init, KernelInit, Promise!LeaseInit, Period, Taken, NoWorld, NoView

LEMMA PromiseStep == PInv /\ [Next]_vars => [Promise!LeaseNext]_(Promise!lvars)
<1> SUFFICES ASSUME PInv, Next PROVE Promise!LeaseNext
  <2>1. UNCHANGED vars => UNCHANGED Promise!lvars
    BY PeriodKept, TakenKept DEF vars, rvars, kvars, Promise!lvars
  <2>2. QED BY <2>1
<1>1. ASSUME NEW t \in Threads, NEW w \in Worlds, WorldStep(t, w) PROVE Promise!LeaseNext
  <2>1. ASSUME NEW a \in Addrs, World_new(t, w, a) PROVE Promise!LeaseNext
    <3>1. \A x \in Worlds : world[x].raw # a
      BY <2>1, NullNotAddr DEF World_new, PInv, IInv, TypeOK, SoleOwner, Live
    <3>2. /\ world' \in [Worlds -> [raw: Addrs \cup {NULL}, on: Threads \cup {NULL}]]
          /\ world'[w].raw = a /\ \A x \in Worlds \ {w} : world'[x] = world[x]
      BY <2>1 DEF World_new, PInv, IInv, TypeOK
    <3>3. QED BY <2>1, <3>1, <3>2, RenewStep DEF World_new, PInv
  <2>2. ASSUME NEW u \in Threads, World_send(t, w, u) PROVE Promise!LeaseNext
    <3>1. \A x \in Worlds : world'[x].raw = world[x].raw
      BY <2>2 DEF World_send, PInv, IInv, TypeOK
    <3>2. Period' = Period
      BY <2>2, <3>1 DEF Period, World_send, kvars
    <3>3. QED
      BY <2>2, <3>2, TakenKept DEF World_send, Promise!LeaseNext, Promise!Silent, kvars
  <2>3. CASE answer' = NULL /\ UNCHANGED <<kvars, world, view>>
    BY <2>3, SilentStep
  <2>4. QED
    BY <1>1, <2>1, <2>2, <2>3 DEF WorldStep, ByMut, ByRef, Start, World_begin_tick,
       World_end_tick, World_entity_call, World_observer_call, World_query_call,
       World_lookup_call, World_fanout_view, World_drop, Workset_sync,
       Workset_enqueue_source, WithWorld
<1>2. ASSUME NEW t \in Threads, ReturnStep(t) PROVE Promise!LeaseNext
  <2>1. CASE Begin_tick_returns(t)
    <3>1. /\ busy[t].self \in Worlds /\ world[busy[t].self].raw \in Addrs
          /\ \A x \in Worlds \ {busy[t].self} : world[x].raw # world[busy[t].self].raw
      BY <2>1, OwnedIsLive, NullIsNothing
         DEF Begin_tick_returns, PInv, IInv, CallsAreOwned, InCall, Mutations
    <3>2. answer' = NULL /\ UNCHANGED <<world, view>>
      BY <2>1 DEF Begin_tick_returns, Return
    <3>3. CASE KernelBegin(world[busy[t].self].raw)
      BY <3>1, <3>2, <3>3, RenewStep DEF KernelBegin, PInv, IInv, TypeOK
    <3>4. CASE UNCHANGED kvars
      BY <3>2, <3>4, SilentStep
    <3>5. QED BY <2>1, <3>3, <3>4 DEF Begin_tick_returns
  <2>2. CASE End_tick_returns(t)
    <3>1. answer' = NULL /\ UNCHANGED <<lease, issued, world, view>>
      BY <2>2 DEF End_tick_returns, KernelEnd, Return, kvars
    <3>2. QED
      BY <3>1, PeriodKept, TakenKept DEF Promise!LeaseNext, Promise!Silent
  <2>3. CASE Call_returns(t)
    BY <2>3, SilentStep, SMTT(30) DEF Call_returns, Return
  <2>4. ASSUME NEW j \in Items, Item_read_returns(t, j) PROVE Promise!LeaseNext
    <3> DEFINE v == item[busy[t].self].view
    <3>1. v \in Views /\ view[v].world # NULL /\ busy[t].span = view[v].span
      BY <2>4 DEF Item_read_returns, PInv, IInv, CallsAreOwned, InCall, TypeOK, BorrowsAreHome
    <3>2. answer' = <<v, "data", busy[t].span[2]>> /\ UNCHANGED <<kvars, world, view>>
      BY <2>4 DEF Item_read_returns, Return
    <3>3. QED BY <3>1, <3>2, AskStep
  <2>5. QED
    BY <1>2, <2>1, <2>2, <2>3, <2>4, GrantStep, EndStep DEF ReturnStep
<1>3. ASSUME NEW t \in Threads, NEW k \in Worksets, WorksetStep(t, k) PROVE Promise!LeaseNext
  BY <1>3, SilentStep DEF WorksetStep, Workset_new, Workset_send, Workset_drop, Workset_call, Start
<1>4. ASSUME NEW t \in Threads, BorrowStep(t) PROVE Promise!LeaseNext
  <2>1. CASE answer' = NULL /\ UNCHANGED <<kvars, world, view>>
    BY <2>1, SilentStep
  <2>2. ASSUME NEW v \in Views, Fanout_read(t, v) PROVE Promise!LeaseNext
    BY <2>2, AskStep DEF Fanout_read
  <2>3. QED
    BY <1>4, <2>1, <2>2, ForgetStep DEF BorrowStep, Fanout_groups, Item_read, Item_send, Item_ends
<1>5. QED BY <1>1, <1>2, <1>3, <1>4 DEF Next

(* Without a single check at run time, the crate does what the checked     *)
(* bindings do: a view or item that can still be used answers with the     *)
(* data of the borrow period it was taken in, whatever other threads do.   *)
THEOREM PromiseKept == Spec => KeepsPromise
<1>1. Init => PInv
  BY IInvInit DEF PInv, Started, Init, NoWorld
<1>2. PInv /\ [Next]_vars => PInv'
  BY IInvStep, StartedStep DEF PInv
<1>3. QED
  BY <1>1, <1>2, PromiseInit, PromiseStep, PTL DEF Spec, KeepsPromise, Promise!LeaseSpec
=============================================================================
