------------------------- MODULE CppBinding_proofs -------------------------
(***************************************************************************)
(* Proofs about CppBinding, for any sets of variables and objects and any  *)
(* bound.                                                                  *)
(***************************************************************************)
EXTENDS CppBinding, TLAPS

(* What a generation stands for: a view whose generation is its state's    *)
(* own was taken from the state's native world in its current, finalized   *)
(* period; one whose generation is behind belongs to a period that is over.*)
Taken_in_period(v) ==
  LET s == view[v].state
      p == state[s].native IN
  /\ view[v].span[1] \in Addrs
  /\ view[v].span[2] \in 1..issued
  /\ view[v].gen <= state[s].gen
  /\ p = NULL => view[v].gen < state[s].gen
  /\ p # NULL /\ view[v].gen = state[s].gen =>
       view[v].span = <<p, lease[p]>> /\ status[p] = "final"
  /\ p # NULL /\ view[v].gen # state[s].gen => view[v].span[2] # lease[p]

Periods ==
  /\ \A a \in Addrs : lease[a] <= issued /\ (Live(a) => lease[a] # 0)
  /\ \A v \in Views : view[v].state # NULL => Taken_in_period(v)

IInv == TypeOK /\ Periods

LEMMA IInvInit == Init => IInv
<1> SUFFICES ASSUME Init PROVE IInv
  OBVIOUS
<1>1. TypeOK
  BY MaxLeaseNat DEF Init, KernelInit, KernelTypeOK, TypeOK, Statuses, NoWorld, NoView,
     NoState, Kinds, Spans, SoleOwner, PointersAgree, Live
<1>2. Periods
  BY DEF Init, KernelInit, Periods, NoView, Live
<1>3. QED BY <1>1, <1>2 DEF IInv

-----------------------------------------------------------------------------
(* What the invariant says of one object.                                  *)

(* The state of a World that is open, and its native world. *)
LEMMA OpenWorld ==
  ASSUME IInv, NEW w \in Worlds, world[w].native # NULL
  PROVE  /\ world[w].state \in States
         /\ state[world[w].state].native = world[w].native
         /\ world[w].native \in Addrs
         /\ status[world[w].native] # "free"
         /\ \A s \in States \ {world[w].state} : state[s].native # world[w].native
         /\ \A x \in Worlds \ {w} : world[x].state # world[w].state
<1>1. world[w].state # NULL /\ world[w].state \in States
      /\ state[world[w].state].native = world[w].native
  BY DEF IInv, TypeOK, PointersAgree
<1>2. world[w].native \in Addrs /\ status[world[w].native] # "free"
  BY <1>1 DEF IInv, TypeOK, SoleOwner, Live
<1>3. QED BY <1>1, <1>2 DEF IInv, TypeOK, SoleOwner

LEMMA ExactCheck == IInv => ValidIffLent
<1> SUFFICES ASSUME IInv, NEW v \in Views, view[v].state # NULL
             PROVE  EnsureView(v) <=> /\ state[view[v].state].native = view[v].span[1]
                                      /\ Lent(view[v].span[1], view[v].span[2])
  BY DEF ValidIffLent
<1>1. /\ view[v].state \in States /\ Taken_in_period(v)
      /\ state[view[v].state].native \in Addrs \cup {NULL}
  BY DEF IInv, Periods, TypeOK
<1>2. view[v].span[1] # NULL
  BY <1>1, NullNotAddr DEF Taken_in_period
<1>3. QED
  BY <1>1, <1>2 DEF Taken_in_period, EnsureView, EnsureOpen, Lent, Live

(* A reply names a period, or none. *)
LEMMA ReplyTypes ==
  ASSUME IInv, NEW v \in Views, Reply(v)
  PROVE  answer' \in {NULL} \cup (Views \X {"data", "refused"} \X (0..MaxLease))
<1>1. view[v].span[2] \in 0..MaxLease /\ 0 \in 0..MaxLease
  BY MaxLeaseNat DEF IInv, TypeOK, Spans
<1>2. QED BY <1>1 DEF Reply

(* Steps that change no pointer, no generation and no world. *)
LEMMA QuietStep ==
  ASSUME IInv, UNCHANGED <<kvars, world, state, view>>,
         calls' \in SUBSET Addrs, spans' \in SUBSET Spans,
         answer' \in {NULL} \cup (Views \X {"data", "refused"} \X (0..MaxLease))
  PROVE  IInv'
<1>1. TypeOK'
  BY DEF IInv, TypeOK, KernelTypeOK, kvars, SoleOwner, PointersAgree, Live, Held, Holds
<1>2. Periods'
  BY DEF IInv, Periods, Taken_in_period, Live, kvars
<1>3. QED BY <1>1, <1>2 DEF IInv

-----------------------------------------------------------------------------
(* Shared ownership. *)

(* What the assignments of World and of the view classes have in common:   *)
(* every value assigned is empty or one that was there, and no two Worlds  *)
(* get the same state.                                                     *)
Reassigns(ws, vs) ==
  /\ ws \in [Worlds -> [state: States \cup {NULL}, native: Addrs \cup {NULL}]]
  /\ vs \in [Views -> [kind: Kinds, state: States \cup {NULL}, gen: Nat, span: Spans]]
  /\ \A w \in Worlds : ws[w] = NoWorld \/ \E x \in Worlds : ws[w] = world[x]
  /\ \A w, x \in Worlds : ws[w].state # NULL /\ ws[w].state = ws[x].state => w = x
  /\ \A v \in Views : vs[v].state # NULL => \E u \in Views : vs[v] = view[u]

(* What becomes of the states and their native worlds. *)
LEMMA AssignEffect ==
  ASSUME IInv, NEW ws, NEW vs, Reassigns(ws, vs), Assign(ws, vs)
  PROVE  /\ world' = ws /\ view' = vs /\ UNCHANGED <<lease, issued>>
         /\ calls' \in SUBSET Addrs /\ spans' = {} /\ answer' = NULL
         /\ state' \in [States -> [native: Addrs \cup {NULL}, gen: Nat]]
         /\ status' \in [Addrs -> Statuses]
         /\ \A s \in States : \/ state'[s] = state[s]
                              \/ state'[s] = NoState /\ Held(s) /\ ~Holds(ws, vs, s)
         /\ \A s \in States : Held(s) /\ ~Holds(ws, vs, s) => state'[s] = NoState
         /\ \A s \in States : Holds(ws, vs, s) => state'[s] = state[s]
         /\ \A s \in States : state'[s].native # NULL =>
              status'[state[s].native] = status[state[s].native]
         /\ \A a \in Addrs : Live(a)' => Live(a) /\ status'[a] = status[a] /\
              \E s \in States : state'[s].native = a
<1> DEFINE gone == {s \in States : Held(s) /\ ~Holds(ws, vs, s)}
           natives == {state[s].native : s \in gone} \ {NULL}
<1>1. /\ world' = ws /\ view' = vs /\ UNCHANGED <<lease, issued>>
      /\ calls' = natives /\ spans' = {} /\ answer' = NULL
      /\ state' = [s \in States |-> IF s \in gone THEN NoState ELSE state[s]]
      /\ status' = [a \in Addrs |-> IF a \in natives THEN "free" ELSE status[a]]
  BY DEF Assign, Touch
<1>2. natives \in SUBSET Addrs
  BY DEF IInv, TypeOK
<1>3. /\ state' \in [States -> [native: Addrs \cup {NULL}, gen: Nat]]
      /\ status' \in [Addrs -> Statuses]
  BY <1>1 DEF IInv, TypeOK, KernelTypeOK, NoState, Statuses
<1>4. ASSUME NEW s \in States, state'[s].native # NULL
      PROVE  status'[state[s].native] = status[state[s].native]
  <2>1. s \notin gone /\ state[s].native # NULL /\ state[s].native \in Addrs
    BY <1>1, <1>4 DEF NoState, IInv, TypeOK
  <2>2. state[s].native \notin natives
    BY <2>1 DEF IInv, TypeOK, SoleOwner
  <2>3. QED BY <1>1, <2>1, <2>2
<1>5. ASSUME NEW a \in Addrs, Live(a)'
      PROVE  Live(a) /\ status'[a] = status[a] /\ \E s \in States : state'[s].native = a
  <2>1. a \notin natives /\ status'[a] = status[a] /\ Live(a)
    BY <1>1, <1>5 DEF Live
  <2>2. PICK s \in States : state[s].native = a
    BY <2>1 DEF IInv, TypeOK, SoleOwner
  <2>3. s \notin gone
    BY <2>1, <2>2, NullNotAddr
  <2>4. QED BY <1>1, <2>1, <2>2, <2>3
<1>6. QED BY <1>1, <1>2, <1>3, <1>4, <1>5

LEMMA AssignStep ==
  ASSUME IInv, NEW ws, NEW vs, Reassigns(ws, vs), Assign(ws, vs)
  PROVE  IInv'
<1>1. SoleOwner'
  <2>1. ASSUME NEW s \in States, state'[s].native # NULL
        PROVE  state'[s] = state[s] /\ Live(state[s].native)' /\ Held(s)'
    <3>1. state'[s] = state[s] /\ status'[state[s].native] = status[state[s].native]
      BY <2>1, AssignEffect DEF NoState
    <3>2. Live(state[s].native) /\ Held(s)
      BY <2>1, <3>1 DEF IInv, TypeOK, SoleOwner
    <3>3. Holds(ws, vs, s)
      BY <2>1, <3>2, AssignEffect DEF NoState
    <3>4. Held(s)'
      BY <3>3, AssignEffect DEF Held
    <3>5. QED BY <3>1, <3>2, <3>4 DEF Live
  <2>2. ASSUME NEW s \in States, NEW t \in States,
               state'[s].native # NULL, state'[s].native = state'[t].native
        PROVE  s = t
    BY <2>1, <2>2 DEF IInv, TypeOK, SoleOwner
  <2>3. \A w, x \in Worlds :
          world'[w].state # NULL /\ world'[w].state = world'[x].state => w = x
    BY AssignEffect DEF Reassigns
  <2>4. QED BY <2>1, <2>2, <2>3, AssignEffect DEF SoleOwner
<1>2. PointersAgree'
  <2>1. ASSUME NEW w \in Worlds, ws[w].state # NULL
        PROVE  ws[w].native = state'[ws[w].state].native
    <3>1. PICK x \in Worlds : ws[w] = world[x]
      BY <2>1 DEF Reassigns, NoWorld
    <3>2. ws[w].state \in States /\ ws[w].native = state[ws[w].state].native
      BY <2>1, <3>1 DEF IInv, TypeOK, PointersAgree
    <3>3. Holds(ws, vs, ws[w].state)
      BY DEF Holds, Reassigns
    <3>4. QED BY <3>2, <3>3, AssignEffect
  <2>2. ASSUME NEW w \in Worlds, ws[w].state = NULL PROVE ws[w].native = NULL
    BY <2>2 DEF Reassigns, NoWorld, IInv, TypeOK, PointersAgree
  <2>3. QED BY <2>1, <2>2, AssignEffect DEF PointersAgree
<1>3. TypeOK'
  BY <1>1, <1>2, AssignEffect DEF IInv, TypeOK, KernelTypeOK, Reassigns
<1>4. Periods'
  <2>1. ASSUME NEW v \in Views, vs[v].state # NULL PROVE Taken_in_period(v)'
    <3>1. PICK u \in Views : vs[v] = view[u]
      BY <2>1 DEF Reassigns
    <3>2. Taken_in_period(u) /\ vs[v].state \in States
      BY <2>1, <3>1 DEF IInv, Periods, TypeOK
    <3>3. Holds(ws, vs, vs[v].state)
      BY DEF Holds, Reassigns
    <3>4. state'[vs[v].state] = state[vs[v].state]
      BY <3>2, <3>3, AssignEffect
    <3>5. view'[v] = view[u] /\ UNCHANGED <<lease, issued>>
      BY <3>1, AssignEffect
    <3>6. state[vs[v].state].native # NULL =>
            status'[state[vs[v].state].native] = status[state[vs[v].state].native]
      BY <3>2, <3>4, AssignEffect
    <3>7. QED BY <3>1, <3>2, <3>4, <3>5, <3>6 DEF Taken_in_period
  <2>2. \A a \in Addrs : lease'[a] <= issued' /\ (Live(a)' => lease'[a] # 0)
    BY AssignEffect DEF IInv, Periods
  <2>3. QED BY <2>1, <2>2, AssignEffect DEF Periods
<1>5. QED BY <1>3, <1>4 DEF IInv

-----------------------------------------------------------------------------
(* World. *)

LEMMA ConstructStep ==
  ASSUME IInv, NEW w \in Worlds, NEW s \in States, NEW a \in Addrs, World_construct(w, s, a)
  PROVE  IInv'
<1>1. /\ world' = [x \in Worlds |-> IF x = w THEN [state |-> s, native |-> a] ELSE world[x]]
      /\ state' = [t \in States |-> IF t = s THEN [native |-> a, gen |-> 0] ELSE state[t]]
      /\ status' = [b \in Addrs |-> IF b = a THEN "fresh" ELSE status[b]]
      /\ lease' = [b \in Addrs |-> IF b = a THEN issued + 1 ELSE lease[b]]
      /\ issued' = issued + 1 /\ issued < MaxLease
      /\ UNCHANGED view /\ answer' = NULL /\ calls' = {} /\ spans' = {}
      /\ status[a] = "free" /\ world[w].state = NULL
  BY DEF World_construct, NewLease, Created, Touch, IInv, TypeOK, KernelTypeOK
<1>2. a # NULL /\ s # NULL
  BY NullNotAddr, StatesDistinct
<1>3. /\ \A x \in Worlds : world[x].state # s
      /\ \A v \in Views : view[v].state # s
      /\ state[s].native = NULL
      /\ \A t \in States : state[t].native # a
  BY <1>1, <1>2 DEF World_construct, Held, Holds, IInv, TypeOK, SoleOwner, Live
<1>4. SoleOwner'
  <2>1. ASSUME NEW t \in States, state'[t].native # NULL
        PROVE  /\ state'[t].native \in Addrs /\ status'[state'[t].native] # "free"
               /\ Held(t)'
    <3>1. CASE t = s
      BY <1>1, <3>1 DEF Live, Held, Holds
    <3>2. CASE t # s
      <4>1. state'[t] = state[t] /\ Live(state[t].native) /\ Held(t)
        BY <1>1, <2>1, <3>2 DEF IInv, TypeOK, SoleOwner
      <4>2. Held(t)'
        BY <1>1, <3>2, <4>1, StatesDistinct DEF Held, Holds, IInv, TypeOK
      <4>3. QED BY <1>1, <4>1, <4>2 DEF Live
    <3>3. QED BY <3>1, <3>2
  <2>2. \A b \in Addrs : Live(b)' => \E t \in States : state'[t].native = b
    <3> SUFFICES ASSUME NEW b \in Addrs, Live(b)', b # a
                 PROVE  \E t \in States : state'[t].native = b
      BY <1>1
    <3>1. PICK t \in States : state[t].native = b
      BY <1>1 DEF Live, IInv, TypeOK, SoleOwner
    <3>2. QED BY <1>1, <1>3, <3>1, NullNotAddr
  <2>3. \A t, u \in States :
          state'[t].native # NULL /\ state'[t].native = state'[u].native => t = u
    BY <1>1, <1>3 DEF IInv, TypeOK, SoleOwner
  <2>4. \A x, y \in Worlds :
          world'[x].state # NULL /\ world'[x].state = world'[y].state => x = y
    BY <1>1, <1>3 DEF IInv, TypeOK, SoleOwner
  <2>5. QED BY <2>1, <2>2, <2>3, <2>4 DEF SoleOwner, Live
<1>5. PointersAgree'
  BY <1>1, <1>2, <1>3 DEF PointersAgree, IInv, TypeOK
<1>6. TypeOK'
  BY <1>1, <1>4, <1>5, MaxLeaseNat DEF IInv, TypeOK, KernelTypeOK, Statuses
<1>7. Periods'
  <2>1. ASSUME NEW v \in Views, view'[v].state # NULL PROVE Taken_in_period(v)'
    <3>1. view[v].state \in States \ {s} /\ Taken_in_period(v)
      BY <1>1, <1>3, <2>1 DEF IInv, TypeOK, Periods
    <3>2. state[view[v].state].native # a /\ state[view[v].state].native \in Addrs \cup {NULL}
      BY <1>3, <3>1 DEF IInv, TypeOK
    <3>3. state'[view[v].state] = state[view[v].state]
      BY <1>1, <3>1
    <3>4. QED
      BY <1>1, <3>1, <3>2, <3>3 DEF Taken_in_period, IInv, TypeOK, KernelTypeOK
  <2>2. \A b \in Addrs : lease'[b] <= issued' /\ (Live(b)' => lease'[b] # 0)
    BY <1>1 DEF IInv, Periods, TypeOK, KernelTypeOK, Live
  <2>3. QED BY <2>1, <2>2 DEF Periods
<1>8. QED BY <1>6, <1>7 DEF IInv

(* Closing: the native pointer is cleared in both places and no view is    *)
(* valid any more, while the state stays with whoever holds it.            *)
LEMMA CloseStep ==
  ASSUME IInv, NEW w \in Worlds, World_close(w)
  PROVE  IInv'
<1> DEFINE s == world[w].state
           a == world[w].native
<1>1. /\ s \in States /\ state[s].native = a /\ a \in Addrs
      /\ \A t \in States \ {s} : state[t].native # a
      /\ \A x \in Worlds \ {w} : world[x].state # s
  BY OpenWorld DEF World_close
<1>2. /\ world' = [x \in Worlds |-> IF x = w THEN [state |-> s, native |-> NULL] ELSE world[x]]
      /\ state' = [t \in States |-> IF t = s THEN [native |-> NULL, gen |-> state[s].gen + 1]
                                            ELSE state[t]]
      /\ status' = [b \in Addrs |-> IF b = a THEN "free" ELSE status[b]]
      /\ UNCHANGED <<lease, issued, view>> /\ answer' = NULL /\ calls' = {a} /\ spans' = {}
  <2>1. /\ \A nothing : [world[w] EXCEPT !.native = nothing] = [state |-> s, native |-> nothing]
        /\ state[s] = [native |-> a, gen |-> state[s].gen]
    BY <1>1 DEF IInv, TypeOK
  <2>2. QED BY <1>1, <2>1 DEF World_close, Destroyed, Touch, IInv, TypeOK
<1>3. \A x \in Worlds : world'[x].state = world[x].state
  BY <1>2
<1>4. SoleOwner'
  <2>1. ASSUME NEW t \in States, state'[t].native # NULL
        PROVE  t # s /\ state'[t] = state[t] /\ Live(state[t].native)' /\ Held(t)'
    <3>1. t # s /\ state'[t] = state[t]
      BY <1>2, <2>1
    <3>2. Live(state[t].native) /\ Held(t) /\ state[t].native # a
      BY <1>1, <2>1, <3>1 DEF IInv, TypeOK, SoleOwner
    <3>3. Held(t)'
      BY <1>2, <1>3, <3>2 DEF Held, Holds, IInv, TypeOK
    <3>4. QED BY <1>2, <3>1, <3>2, <3>3 DEF Live
  <2>2. ASSUME NEW b \in Addrs, Live(b)' PROVE \E t \in States : state'[t].native = b
    <3>1. b # a /\ Live(b)
      BY <1>2, <2>2 DEF Live
    <3>2. PICK t \in States : state[t].native = b
      BY <3>1 DEF IInv, TypeOK, SoleOwner
    <3>3. QED BY <1>1, <1>2, <3>1, <3>2
  <2>3. ASSUME NEW t \in States, NEW u \in States, state'[t].native # NULL,
               state'[t].native = state'[u].native
        PROVE  t = u
    BY <2>1, <2>3 DEF IInv, TypeOK, SoleOwner
  <2>4. \A x, y \in Worlds :
          world'[x].state # NULL /\ world'[x].state = world'[y].state => x = y
    BY <1>3 DEF IInv, TypeOK, SoleOwner
  <2>5. QED BY <2>1, <2>2, <2>3, <2>4 DEF SoleOwner
<1>5. PointersAgree'
  BY <1>1, <1>2, StatesDistinct DEF PointersAgree, IInv, TypeOK
<1>6. TypeOK'
  BY <1>1, <1>2, <1>4, <1>5 DEF IInv, TypeOK, KernelTypeOK, Statuses
<1>7. Periods'
  <2>1. ASSUME NEW v \in Views, view'[v].state # NULL PROVE Taken_in_period(v)'
    <3>1. view[v].state \in States /\ Taken_in_period(v)
      BY <1>2, <2>1 DEF IInv, TypeOK, Periods
    <3>2. CASE view[v].state = s
      <4>1. view[v].gen \in Nat /\ state[s].gen \in Nat /\ view'[v] = view[v]
            /\ state'[s].native = NULL /\ state'[s].gen = state[s].gen + 1
            /\ issued' = issued
        BY <1>1, <1>2 DEF IInv, TypeOK
      <4>2. state'[s].gen \in Nat /\ view[v].gen < state'[s].gen
        BY <3>1, <3>2, <4>1 DEF Taken_in_period
      <4>3. QED BY <3>1, <3>2, <4>1, <4>2 DEF Taken_in_period
    <3>3. CASE view[v].state # s
      <4>1. state'[view[v].state] = state[view[v].state] /\ state[view[v].state].native # a
        BY <1>1, <1>2, <3>1, <3>3
      <4>2. state[view[v].state].native # NULL =>
              status'[state[view[v].state].native] = status[state[view[v].state].native]
        BY <1>2, <3>1, <4>1 DEF IInv, TypeOK
      <4>3. QED BY <1>2, <3>1, <4>1, <4>2 DEF Taken_in_period
    <3>4. QED BY <3>2, <3>3
  <2>2. QED BY <1>2, <2>1 DEF Periods, IInv, Live
<1>8. QED BY <1>6, <1>7 DEF IInv

LEMMA BeginStep ==
  ASSUME IInv, NEW w \in Worlds, World_begin_tick(w)
  PROVE  IInv'
<1> DEFINE s == world[w].state
           a == world[w].native
<1>1. /\ s \in States /\ state[s].native = a /\ a \in Addrs /\ a # NULL
      /\ \A t \in States \ {s} : state[t].native # a
  BY OpenWorld DEF World_begin_tick, RequireOpen
<1>2. /\ state' = [t \in States |-> IF t = s THEN [native |-> a, gen |-> state[s].gen + 1]
                                            ELSE state[t]]
      /\ status' = [b \in Addrs |-> IF b = a THEN "open" ELSE status[b]]
      /\ lease' = [b \in Addrs |-> IF b = a THEN issued + 1 ELSE lease[b]]
      /\ issued' = issued + 1 /\ issued < MaxLease /\ status[a] # "free"
      /\ UNCHANGED <<world, view>> /\ answer' = NULL /\ calls' = {a} /\ spans' = {}
  <2>1. /\ state[s] = [native |-> a, gen |-> state[s].gen]
        /\ state' = [state EXCEPT ![s].gen = @ + 1]
    BY <1>1 DEF IInv, TypeOK, World_begin_tick
  <2>2. [state[s] EXCEPT !.gen = @ + 1] = [native |-> a, gen |-> state[s].gen + 1]
    BY <2>1
  <2>3. state' = [t \in States |-> IF t = s THEN [native |-> a, gen |-> state[s].gen + 1]
                                           ELSE state[t]]
    BY <2>1, <2>2 DEF IInv, TypeOK
  <2>4. QED
    BY <1>1, <2>3 DEF World_begin_tick, KernelBegin, CanBegin, NewLease, Touch, IInv, TypeOK,
       KernelTypeOK
<1>3. \A t \in States : state'[t].native = state[t].native
  BY <1>1, <1>2
<1>4. SoleOwner' /\ PointersAgree'
  BY <1>2, <1>3 DEF IInv, TypeOK, SoleOwner, PointersAgree, Live, Held, Holds
<1>5. TypeOK'
  BY <1>1, <1>2, <1>4, MaxLeaseNat DEF IInv, TypeOK, KernelTypeOK, Statuses
<1>6. Periods'
  <2>1. ASSUME NEW v \in Views, view'[v].state # NULL PROVE Taken_in_period(v)'
    <3>1. view[v].state \in States /\ Taken_in_period(v) /\ view[v].gen \in Nat
          /\ view[v].span[2] \in Nat /\ issued \in Nat
      BY <1>2, <2>1, MaxLeaseNat DEF IInv, TypeOK, KernelTypeOK, Periods, Spans
    <3>2. CASE view[v].state = s
      <4>1. state[s].gen \in Nat /\ view'[v] = view[v]
            /\ state'[s].native = a /\ state'[s].gen = state[s].gen + 1
            /\ lease'[a] = issued + 1 /\ issued' = issued + 1
        BY <1>1, <1>2 DEF IInv, TypeOK
      <4>2. QED BY <1>1, <3>1, <3>2, <4>1 DEF Taken_in_period
    <3>3. CASE view[v].state # s
      <4>1. state'[view[v].state] = state[view[v].state] /\ state[view[v].state].native # a
        BY <1>1, <1>2, <3>1, <3>3
      <4>2. state[view[v].state].native # NULL =>
              /\ status'[state[view[v].state].native] = status[state[view[v].state].native]
              /\ lease'[state[view[v].state].native] = lease[state[view[v].state].native]
        BY <1>2, <3>1, <4>1 DEF IInv, TypeOK
      <4>3. view'[v] = view[v] /\ issued' = issued + 1
        BY <1>2
      <4>4. QED BY <3>1, <4>1, <4>2, <4>3 DEF Taken_in_period
    <3>4. QED BY <3>2, <3>3
  <2>2. \A b \in Addrs : lease'[b] <= issued' /\ (Live(b)' => lease'[b] # 0)
    BY <1>2, MaxLeaseNat DEF IInv, Periods, TypeOK, KernelTypeOK, Live
  <2>3. QED BY <2>1, <2>2 DEF Periods
<1>7. QED BY <1>5, <1>6 DEF IInv

LEMMA EndStep ==
  ASSUME IInv, NEW w \in Worlds, World_end_tick(w)
  PROVE  IInv'
<1> DEFINE a == world[w].native
<1>1. /\ a \in Addrs /\ status[a] = "open"
      /\ status' = [b \in Addrs |-> IF b = a THEN "final" ELSE status[b]]
      /\ UNCHANGED <<lease, issued, world, state, view>>
      /\ answer' = NULL /\ calls' = {a} /\ spans' = {}
  BY OpenWorld DEF World_end_tick, RequireOpen, KernelEnd, Touch, IInv, TypeOK, KernelTypeOK
<1>2. TypeOK'
  BY <1>1 DEF IInv, TypeOK, KernelTypeOK, Statuses, SoleOwner, PointersAgree, Live, Held, Holds
<1>3. \A b \in Addrs : Live(b)' <=> Live(b)
  BY <1>1 DEF Live
<1>4. \A v \in Views : view[v].state # NULL => Taken_in_period(v)'
  BY <1>1 DEF Taken_in_period, IInv, Periods, TypeOK
<1>5. QED BY <1>1, <1>2, <1>3, <1>4 DEF IInv, Periods

LEMMA FanoutStep ==
  ASSUME IInv, NEW w \in Worlds, NEW v \in Views, World_fanout(w, v)
  PROVE  IInv'
<1> DEFINE s == world[w].state
           a == world[w].native
<1>1. /\ s \in States /\ state[s].native = a /\ a \in Addrs /\ a # NULL
  BY OpenWorld DEF World_fanout, RequireOpen
<1>2. /\ view' = [u \in Views |-> IF u = v THEN [kind |-> "fanout", state |-> s,
                                      gen |-> state[s].gen, span |-> <<a, lease[a]>>]
                                  ELSE view[u]]
      /\ UNCHANGED <<kvars, world, state>> /\ answer' = NULL /\ calls' = {a} /\ spans' = {}
      /\ status[a] = "final" /\ view[v].state = NULL
  BY DEF World_fanout, CanLend, Touch, IInv, TypeOK
<1>3. TypeOK'
  <2>1. <<a, lease[a]>> \in Spans /\ state[s].gen \in Nat
    BY <1>1 DEF Spans, IInv, TypeOK, KernelTypeOK
  <2>2. view' \in [Views -> [kind: Kinds, state: States \cup {NULL}, gen: Nat, span: Spans]]
    BY <1>1, <1>2, <2>1 DEF IInv, TypeOK, Kinds
  <2>3. \A t \in States : Held(t) => Held(t)'
    BY <1>2, StatesDistinct DEF Held, Holds, IInv, TypeOK
  <2>4. SoleOwner' /\ PointersAgree'
    BY <1>2, <2>3 DEF IInv, TypeOK, SoleOwner, PointersAgree, Live, kvars
  <2>5. QED BY <1>1, <1>2, <2>2, <2>4 DEF IInv, TypeOK, KernelTypeOK, kvars
<1>4. Taken_in_period(v)'
  <2>1. lease[a] \in 1..issued
    BY <1>1, <1>2, MaxLeaseNat DEF IInv, Periods, Live, TypeOK, KernelTypeOK
  <2>2. QED BY <1>1, <1>2, <2>1 DEF Taken_in_period, kvars, IInv, TypeOK
<1>5. \A u \in Views \ {v} : view'[u] = view[u] /\ (view[u].state # NULL => Taken_in_period(u)')
  BY <1>2 DEF IInv, Periods, Taken_in_period, kvars
<1>6. Periods'
  BY <1>2, <1>4, <1>5 DEF IInv, Periods, Live, kvars
<1>7. QED BY <1>3, <1>6 DEF IInv

LEMMA MoveReassigns ==
  ASSUME IInv, NEW w \in Worlds
  PROVE  /\ \A x \in Worlds \ {w} : Reassigns([world EXCEPT ![w] = world[x], ![x] = NoWorld], view)
         /\ Reassigns([world EXCEPT ![w] = NoWorld], view)
<1>1. ASSUME NEW x \in Worlds \ {w}, NEW ws, ws = [world EXCEPT ![w] = world[x], ![x] = NoWorld]
      PROVE  Reassigns(ws, view)
  <2>1. ws = [y \in Worlds |-> IF y = x THEN NoWorld ELSE IF y = w THEN world[x] ELSE world[y]]
    BY <1>1 DEF IInv, TypeOK
  <2>2. ws \in [Worlds -> [state: States \cup {NULL}, native: Addrs \cup {NULL}]]
    BY <2>1 DEF IInv, TypeOK, NoWorld
  <2>3. \A y \in Worlds : ws[y] = NoWorld \/ \E z \in Worlds : ws[y] = world[z]
    BY <2>1
  <2>4. \A y, z \in Worlds : ws[y].state # NULL /\ ws[y].state = ws[z].state => y = z
    BY <2>1 DEF IInv, TypeOK, SoleOwner, NoWorld
  <2>5. QED BY <2>2, <2>3, <2>4 DEF Reassigns, IInv, TypeOK
<1>2. ASSUME NEW ws, ws = [world EXCEPT ![w] = NoWorld] PROVE Reassigns(ws, view)
  <2>1. ws = [y \in Worlds |-> IF y = w THEN NoWorld ELSE world[y]]
    BY <1>2 DEF IInv, TypeOK
  <2>2. ws \in [Worlds -> [state: States \cup {NULL}, native: Addrs \cup {NULL}]]
    BY <2>1 DEF IInv, TypeOK, NoWorld
  <2>3. \A y, z \in Worlds : ws[y].state # NULL /\ ws[y].state = ws[z].state => y = z
    BY <2>1 DEF IInv, TypeOK, SoleOwner, NoWorld
  <2>4. QED BY <2>1, <2>2, <2>3 DEF Reassigns, IInv, TypeOK
<1>3. QED BY <1>1, <1>2

LEMMA WorldKeeps ==
  ASSUME IInv, NEW w \in Worlds, WorldStep(w)
  PROVE  IInv'
<1>1. ASSUME NEW x \in Worlds, World_move(w, x) PROVE IInv'
  BY <1>1, MoveReassigns, AssignStep DEF World_move
<1>2. CASE World_destruct(w)
  BY <1>2, MoveReassigns, AssignStep DEF World_destruct
<1>3. CASE NativeCall(w)
  BY <1>3, OpenWorld, QuietStep DEF NativeCall, RequireOpen, Touch
<1>4. QED
  BY <1>1, <1>2, <1>3, ConstructStep, CloseStep, BeginStep, EndStep, FanoutStep
     DEF WorldStep, World_entity_call, World_motion_call, World_observer_call,
         World_query_call, Workset_call

-----------------------------------------------------------------------------
(* Views. *)

LEMMA DeriveStep ==
  ASSUME IInv, NEW v \in Views, NEW u \in Views, NEW from, NEW to \in Kinds,
         Derive(v, u, from, to)
  PROVE  IInv'
<1>1. /\ view' = [x \in Views |-> IF x = u THEN [view[v] EXCEPT !.kind = to] ELSE view[x]]
      /\ UNCHANGED <<kvars, world, state>> /\ answer' = NULL /\ calls' = {}
      /\ spans' \subseteq {view[v].span} /\ view[u].state = NULL
      /\ view[v].state # NULL /\ view[v].state \in States
  BY DEF Derive, Touch, IInv, TypeOK, EnsureView, EnsureOpen
<1>2. TypeOK'
  <2>1. /\ view' \in [Views -> [kind: Kinds, state: States \cup {NULL}, gen: Nat, span: Spans]]
        /\ spans' \in SUBSET Spans
    BY <1>1 DEF IInv, TypeOK
  <2>2. \A t \in States : Held(t) => Held(t)'
    BY <1>1, StatesDistinct DEF Held, Holds, IInv, TypeOK
  <2>3. SoleOwner' /\ PointersAgree'
    BY <1>1, <2>2 DEF IInv, TypeOK, SoleOwner, PointersAgree, Live, kvars
  <2>4. QED BY <1>1, <2>1, <2>3 DEF IInv, TypeOK, KernelTypeOK, kvars
<1>3. Taken_in_period(u)'
  <2>1. /\ view'[u].state = view[v].state /\ view'[u].gen = view[v].gen
        /\ view'[u].span = view[v].span
    BY <1>1 DEF IInv, TypeOK
  <2>2. Taken_in_period(v)
    BY <1>1 DEF IInv, Periods
  <2>3. QED BY <1>1, <2>1, <2>2 DEF Taken_in_period, kvars
<1>4. \A x \in Views \ {u} : view'[x] = view[x] /\ (view[x].state # NULL => Taken_in_period(x)')
  BY <1>1 DEF IInv, Periods, Taken_in_period, kvars
<1>5. Periods'
  BY <1>1, <1>3, <1>4 DEF IInv, Periods, Live, kvars
<1>6. QED BY <1>2, <1>5 DEF IInv

LEMMA ViewReassigns ==
  ASSUME IInv, NEW u \in Views
  PROVE  /\ \A v \in Views : Reassigns(world, [view EXCEPT ![u] = view[v]])
         /\ \A v \in Views \ {u} :
              Reassigns(world, [view EXCEPT ![u] = view[v], ![v] = [@ EXCEPT !.state = NULL]])
         /\ Reassigns(world, [view EXCEPT ![u] = NoView])
<1> DEFINE Values == [kind: Kinds, state: States \cup {NULL}, gen: Nat, span: Spans]
<1>1. ASSUME NEW vs \in [Views -> Values],
             \A v \in Views : vs[v].state # NULL => \E x \in Views : vs[v] = view[x]
      PROVE  Reassigns(world, vs)
  BY <1>1 DEF Reassigns, IInv, TypeOK, SoleOwner
<1>2. view \in [Views -> Values]
  BY DEF IInv, TypeOK
<1>3. ASSUME NEW v \in Views PROVE Reassigns(world, [view EXCEPT ![u] = view[v]])
  <2> DEFINE vs == [view EXCEPT ![u] = view[v]]
  <2>1. vs = [x \in Views |-> IF x = u THEN view[v] ELSE view[x]]
    BY <1>2
  <2> HIDE DEF vs
  <2>2. vs \in [Views -> Values]
    BY <1>2, <2>1
  <2>3. \A x \in Views : \E y \in Views : vs[x] = view[y]
    BY <2>1
  <2>4. Reassigns(world, vs)
    BY <1>1, <2>2, <2>3
  <2>5. QED BY <2>4 DEF vs
<1>4. ASSUME NEW v \in Views \ {u}
      PROVE  Reassigns(world, [view EXCEPT ![u] = view[v], ![v] = [@ EXCEPT !.state = NULL]])
  <2> DEFINE vs == [view EXCEPT ![u] = view[v], ![v] = [@ EXCEPT !.state = NULL]]
             empty == [view[v] EXCEPT !.state = NULL]
  <2>1. vs = [x \in Views |-> IF x = v THEN empty ELSE IF x = u THEN view[v] ELSE view[x]]
    BY <1>2
  <2>2. empty \in Values /\ empty.state = NULL
    BY <1>2
  <2> HIDE DEF vs, empty
  <2>3. vs \in [Views -> Values]
    BY <1>2, <2>1, <2>2
  <2>4. \A x \in Views : vs[x].state # NULL => \E y \in Views : vs[x] = view[y]
    BY <2>1, <2>2
  <2>5. Reassigns(world, vs)
    BY <1>1, <2>3, <2>4
  <2>6. QED BY <2>5 DEF vs
<1>5. Reassigns(world, [view EXCEPT ![u] = NoView])
  <2> DEFINE vs == [view EXCEPT ![u] = NoView]
  <2>1. vs = [x \in Views |-> IF x = u THEN NoView ELSE view[x]]
    BY <1>2
  <2>2. NoView \in Values /\ NoView.state = NULL
    BY MaxLeaseNat DEF NoView, Kinds, Spans
  <2> HIDE DEF vs
  <2>3. vs \in [Views -> Values]
    BY <1>2, <2>1, <2>2
  <2>4. \A x \in Views : vs[x].state # NULL => \E y \in Views : vs[x] = view[y]
    BY <2>1, <2>2
  <2>5. Reassigns(world, vs)
    BY <1>1, <2>3, <2>4
  <2>6. QED BY <2>5 DEF vs
<1>6. QED BY <1>3, <1>4, <1>5

LEMMA ViewKeeps ==
  ASSUME IInv, NEW v \in Views, ViewStep(v)
  PROVE  IInv'
<1>1. ASSUME NEW kinds, Own_read(v, kinds) PROVE IInv'
  BY <1>1, ReplyTypes, QuietStep DEF Own_read, Touch
<1>2. ASSUME NEW kinds, Span_read(v, kinds) PROVE IInv'
  <2>1. view[v].span \in Spans
    BY DEF IInv, TypeOK
  <2>2. QED BY <1>2, <2>1, ReplyTypes, QuietStep DEF Span_read, Touch
<1>3. CASE View_destruct(v)
  BY <1>3, ViewReassigns, AssignStep DEF View_destruct
<1>4. ASSUME NEW u \in Views, View_copy(v, u) PROVE IInv'
  BY <1>4, ViewReassigns, AssignStep DEF View_copy
<1>5. ASSUME NEW u \in Views, View_move(v, u) PROVE IInv'
  BY <1>5, ViewReassigns, AssignStep DEF View_move
<1>6. ASSUME NEW u \in Views, NEW from, NEW to \in Kinds, Derive(v, u, from, to) PROVE IInv'
  BY <1>6, DeriveStep
<1>7. {"fanout", "fanout iterator", "group", "range", "range iterator"} \subseteq Kinds
  BY DEF Kinds
<1>8. QED
  BY <1>1, <1>2, <1>3, <1>4, <1>5, <1>6, <1>7
     DEF ViewStep, Fanout_read, Range_size, Group_read, Range_item, Fanout_begin, Fanout_at,
         Group_range, Range_begin

LEMMA IInvStep == IInv /\ [Next]_vars => IInv'
<1>1. CASE UNCHANGED vars
  BY <1>1, QuietStep DEF vars, cvars, IInv, TypeOK
<1>2. QED BY <1>1, WorldKeeps, ViewKeeps DEF Next

LEMMA Invariance == Spec => []IInv
BY IInvInit, IInvStep, PTL DEF Spec

(* Type correctness; SoleOwner and PointersAgree are part of it: a native  *)
(* world has one owner and both copies of the pointer to it agree,         *)
(* whatever Worlds and views are copied, moved, assigned over or dropped.  *)
THEOREM CppTypeCorrect == Spec => []TypeOK
<1>1. IInv => TypeOK
  BY DEF IInv
<1>2. QED BY <1>1, Invariance, PTL

(* ensure_view lets a view through exactly when its spans may be read.     *)
THEOREM CppCheckExact == Spec => []ValidIffLent
BY Invariance, ExactCheck, PTL

-----------------------------------------------------------------------------
(* What a step touches.                                                    *)

LEMMA AssignTouches ==
  ASSUME IInv, NEW ws, NEW vs, Assign(ws, vs)
  PROVE  (\A p \in calls' : Live(p)) /\ spans' = {}
BY DEF Assign, Touch, IInv, TypeOK, SoleOwner

LEMMA Touches ==
  ASSUME IInv, Next
  PROVE  (\A p \in calls' : Live(p)) /\ (\A s \in spans' : Lent(s[1], s[2]))
<1> DEFINE Fine == (\A p \in calls' : Live(p)) /\ (\A s \in spans' : Lent(s[1], s[2]))
<1>1. ASSUME NEW w \in Worlds, WorldStep(w) PROVE Fine
  <2>1. ASSUME world[w].native # NULL, Touch({world[w].native}, {}) PROVE Fine
    BY <2>1, OpenWorld DEF Touch, Live
  <2>2. ASSUME NEW ws, NEW vs, Assign(ws, vs) PROVE Fine
    BY <2>2, AssignTouches
  <2>3. CASE Touch({}, {})
    BY <2>3 DEF Touch
  <2>4. QED
    BY <1>1, <2>1, <2>2, <2>3
       DEF WorldStep, World_construct, World_move, World_destruct, World_close,
           World_begin_tick, World_end_tick, World_entity_call, World_motion_call,
           World_observer_call, World_query_call, Workset_call, NativeCall, RequireOpen,
           World_fanout
<1>2. ASSUME NEW v \in Views, ViewStep(v) PROVE Fine
  <2>1. ASSUME EnsureView(v) PROVE Lent(view[v].span[1], view[v].span[2])
    BY <2>1, ExactCheck DEF ValidIffLent, EnsureView, EnsureOpen
  <2>2. ASSUME NEW S \in SUBSET {view[v].span}, S # {} => EnsureView(v), Touch({}, S)
        PROVE  Fine
    BY <2>1, <2>2 DEF Touch
  <2>3. ASSUME NEW ws, NEW vs, Assign(ws, vs) PROVE Fine
    BY <2>3, AssignTouches
  <2>4. ASSUME NEW u \in Views, NEW from, NEW to, Derive(v, u, from, to) PROVE Fine
    BY <2>2, <2>4 DEF Derive
  <2>5. ASSUME NEW kinds, Own_read(v, kinds) \/ Span_read(v, kinds) PROVE Fine
    BY <2>2, <2>5 DEF Own_read, Span_read
  <2>6. QED
    BY <1>2, <2>3, <2>4, <2>5
       DEF ViewStep, Fanout_read, Range_size, Group_read, Range_item, View_destruct,
           Fanout_begin, Fanout_at, Group_range, Range_begin, View_copy, View_move
<1>3. QED BY <1>1, <1>2 DEF Next

(* No native call is made on a world that was destroyed, none is destroyed *)
(* twice, and no span is read outside its borrow period.                   *)
THEOREM CppUseIsLive == Spec => NativeUseIsLive
<1>1. IInv /\ [Next]_vars =>
        [/\ \A p \in calls' : Live(p)
         /\ \A s \in spans' : Lent(s[1], s[2])]_vars
  BY Touches
<1>2. QED BY <1>1, Invariance, PTL DEF Spec, NativeUseIsLive

-----------------------------------------------------------------------------
(* What ends a view.                                                       *)

(* A view that keeps its state, and whose state is kept, stays valid.      *)
LEMMA StaysValid ==
  ASSUME NEW v \in Views, EnsureView(v), view'[v] = view[v],
         state'[view[v].state] = state[view[v].state]
  PROVE  EnsureView(v)'
BY DEF EnsureView, EnsureOpen

LEMMA AssignKeepsValid ==
  ASSUME IInv, NEW ws, NEW vs, Assign(ws, vs), vs \in [Views -> [kind: Kinds,
           state: States \cup {NULL}, gen: Nat, span: Spans]],
         NEW v \in Views, EnsureView(v), view'[v] = view[v]
  PROVE  EnsureView(v)'
<1>1. view[v].state \in States /\ vs[v] = view[v]
  BY DEF EnsureView, EnsureOpen, IInv, TypeOK, Assign
<1>2. Holds(ws, vs, view[v].state)
  BY <1>1 DEF Holds
<1>3. state'[view[v].state] = state[view[v].state]
  BY <1>1, <1>2 DEF Assign
<1>4. QED BY <1>3, StaysValid

LEMMA OnlyGenerationsInvalidate ==
  ASSUME IInv, Next, NEW v \in Views, EnsureView(v), view'[v] = view[v],
         \A w \in Worlds : ~World_close(w) /\ ~World_begin_tick(w)
  PROVE  EnsureView(v)'
<1>1. view[v].state \in States
  BY DEF EnsureView, EnsureOpen, IInv, TypeOK
<1>2. CASE UNCHANGED state
  BY <1>2, StaysValid
<1>3. ASSUME NEW w \in Worlds, WorldStep(w) PROVE EnsureView(v)'
  <2>1. ASSUME NEW s \in States, NEW a \in Addrs, World_construct(w, s, a)
        PROVE  EnsureView(v)'
    <3>1. view[v].state # s
      BY <2>1 DEF World_construct, Held, Holds, IInv, TypeOK
    <3>2. state'[view[v].state] = state[view[v].state]
      BY <1>1, <2>1, <3>1 DEF World_construct, IInv, TypeOK
    <3>3. QED BY <3>2, StaysValid
  <2>2. ASSUME NEW x \in Worlds, World_move(w, x) PROVE EnsureView(v)'
    BY <2>2, AssignKeepsValid DEF World_move, IInv, TypeOK
  <2>3. CASE World_destruct(w)
    BY <2>3, AssignKeepsValid DEF World_destruct, IInv, TypeOK
  <2>4. QED
    BY <1>2, <1>3, <2>1, <2>2, <2>3
       DEF WorldStep, World_end_tick, World_entity_call, World_motion_call,
           World_observer_call, World_query_call, Workset_call, NativeCall, World_fanout
<1>4. ASSUME NEW u \in Views, ViewStep(u) PROVE EnsureView(v)'
  <2>1. ASSUME NEW vs, Assign(world, vs), Reassigns(world, vs) PROVE EnsureView(v)'
    BY <2>1, AssignKeepsValid DEF Reassigns
  <2>2. CASE View_destruct(u)
    BY <2>1, <2>2, ViewReassigns DEF View_destruct
  <2>3. ASSUME NEW x \in Views, View_copy(u, x) PROVE EnsureView(v)'
    BY <2>1, <2>3, ViewReassigns DEF View_copy
  <2>4. ASSUME NEW x \in Views, View_move(u, x) PROVE EnsureView(v)'
    BY <2>1, <2>4, ViewReassigns DEF View_move
  <2>5. QED
    BY <1>2, <1>4, <2>2, <2>3, <2>4
       DEF ViewStep, Fanout_read, Range_size, Own_read, Group_read, Range_item, Span_read,
           Fanout_begin, Fanout_at, Group_range, Range_begin, Derive
<1>5. QED BY <1>3, <1>4 DEF Next

(* Moving, assigning over or destroying a World never ends a view that is  *)
(* left alone; only closing it or beginning its next tick does.            *)
THEOREM CppViewsOutlive == Spec => ViewsOutliveWorlds
<1> DEFINE Outlives ==
      \A v \in Views : EnsureView(v) /\ view'[v] = view[v] /\ ~EnsureView(v)' =>
        \E w \in Worlds : World_close(w) \/ World_begin_tick(w)
<1>1. IInv /\ [Next]_vars => [Outlives]_vars
  BY OnlyGenerationsInvalidate
<1>2. QED BY <1>1, Invariance, PTL DEF Spec, ViewsOutliveWorlds

-----------------------------------------------------------------------------
(* The promise of FanoutLease.                                             *)

LEMMA PeriodKept ==
  ASSUME UNCHANGED <<lease, state>>
  PROVE  Period' = Period
BY DEF Period

LEMMA TakenKept ==
  ASSUME UNCHANGED view
  PROVE  Taken' = Taken
BY DEF Taken

(* Steps that neither give nor take anything. *)
LEMMA SilentStep ==
  ASSUME UNCHANGED <<lease, issued, state, view>>, answer' = NULL
  PROVE  Promise!LeaseNext
BY PeriodKept, TakenKept DEF Promise!LeaseNext, Promise!Silent

(* A state gets a native world, or its world begins the next tick. *)
LEMMA RenewStep ==
  ASSUME IInv, NEW s \in States, NEW a \in Addrs, NewLease(a), NEW n,
         state' = [t \in States |-> IF t = s THEN [native |-> a, gen |-> n] ELSE state[t]],
         \A t \in States \ {s} : state[t].native # a,
         UNCHANGED view, answer' = NULL
  PROVE  Promise!LeaseNext
<1>1. /\ lease' = [b \in Addrs |-> IF b = a THEN issued + 1 ELSE lease[b]]
      /\ issued' = issued + 1
      /\ state' = [t \in States |-> IF t = s THEN [native |-> a, gen |-> n] ELSE state[t]]
      /\ \A t \in States : state[t].native \in Addrs \cup {NULL}
  BY DEF NewLease, IInv, TypeOK, KernelTypeOK
<1>2. a # NULL
  BY NullNotAddr
<1>3. ASSUME NEW t \in States PROVE Period'[t] = IF t = s THEN issued + 1 ELSE Period[t]
  BY <1>1, <1>2 DEF Period
<1>4. Period' = [t \in States |-> IF t = s THEN issued + 1 ELSE Period[t]]
  BY <1>3 DEF Period
<1>5. Period' = [Period EXCEPT ![s] = issued + 1]
  BY <1>4 DEF Period
<1>6. Promise!Renew(s)
  BY <1>1, <1>5, TakenKept DEF Promise!Renew
<1>7. QED BY <1>6 DEF Promise!LeaseNext

(* What a view was granted, and that it is entitled as long as the check   *)
(* lets it through.                                                        *)
LEMMA Entitlement ==
  ASSUME IInv, NEW v \in Views
  PROVE  /\ view[v].state = NULL => Taken[v] = NULL
         /\ view[v].state # NULL => /\ Taken[v] = <<view[v].state, view[v].span[2]>>
                                    /\ Taken[v] # NULL
         /\ Promise!Entitled(v) <=> EnsureView(v)
<1>1. CASE view[v].state = NULL
  BY <1>1 DEF Taken, Promise!Entitled, EnsureView, EnsureOpen
<1>2. CASE view[v].state # NULL
  <2>1. /\ view[v].state \in States /\ Taken_in_period(v)
        /\ state[view[v].state].native \in Addrs \cup {NULL}
        /\ view[v].span[2] \in 0..MaxLease
    BY <1>2 DEF IInv, Periods, TypeOK, Spans
  <2>2. Taken[v] = <<view[v].state, view[v].span[2]>> /\ Taken[v] # NULL
    <3>1. <<view[v].state, view[v].span[2]>> \in States \X (0..MaxLease)
      BY <2>1
    <3>2. QED BY <1>2, <3>1, NullNotPair DEF Taken
  <2>3. Promise!Entitled(v) <=> Period[view[v].state] = view[v].span[2]
    BY <2>2 DEF Promise!Entitled
  <2>4. view[v].span[2] # 0
    BY <2>1 DEF Taken_in_period
  <2>5. Period[view[v].state] = view[v].span[2] <=> EnsureView(v)
    BY <1>2, <2>1, <2>4 DEF Period, EnsureView, EnsureOpen, Taken_in_period
  <2>6. QED BY <1>2, <2>2, <2>3, <2>5
<1>3. QED BY <1>1, <1>2

LEMMA AskStep ==
  ASSUME IInv, NEW v \in Views, Reply(v), UNCHANGED <<kvars, world, state, view>>
  PROVE  Promise!LeaseNext
<1>1. EnsureView(v) => Taken[v][2] = view[v].span[2]
  BY Entitlement DEF EnsureView, EnsureOpen
<1>2. Promise!Ask(v)
  BY <1>1, Entitlement, PeriodKept, TakenKept DEF Promise!Ask, Reply, kvars
<1>3. QED BY <1>2 DEF Promise!LeaseNext

LEMMA GrantStep ==
  ASSUME IInv, NEW w \in Worlds, NEW v \in Views, World_fanout(w, v)
  PROVE  Promise!LeaseNext
<1> DEFINE s == world[w].state
           a == world[w].native
<1>1. /\ s \in States /\ state[s].native = a /\ a \in Addrs /\ a # NULL
  BY OpenWorld, NullNotAddr DEF World_fanout, RequireOpen
<1>2. /\ view' = [u \in Views |-> IF u = v THEN [kind |-> "fanout", state |-> s,
                                      gen |-> state[s].gen, span |-> <<a, lease[a]>>]
                                  ELSE view[u]]
      /\ UNCHANGED <<kvars, world, state>> /\ answer' = NULL
      /\ status[a] = "final" /\ view[v].state = NULL
  BY DEF World_fanout, CanLend, IInv, TypeOK
<1>3. Period[s] = lease[a] /\ Period[s] # 0
  BY <1>1, <1>2 DEF Period, IInv, Periods, Live
<1>4. Taken' = [Taken EXCEPT ![v] = <<s, Period[s]>>]
  <2>1. s # NULL
    BY <1>1, StatesDistinct
  <2>2. Taken' = [u \in Views |-> IF u = v THEN <<s, Period[s]>> ELSE Taken[u]]
    BY <1>2, <1>3, <2>1 DEF Taken
  <2>3. QED BY <2>2 DEF Taken
<1>5. Promise!Grant(v, s)
  BY <1>2, <1>3, <1>4, Entitlement, PeriodKept DEF Promise!Grant, kvars
<1>6. QED BY <1>1, <1>5 DEF Promise!LeaseNext

LEMMA CloseEnds ==
  ASSUME IInv, NEW w \in Worlds, World_close(w)
  PROVE  Promise!LeaseNext
<1> DEFINE s == world[w].state
<1>1. s \in States
  BY OpenWorld DEF World_close
<1>2. /\ state' = [t \in States |-> IF t = s THEN [native |-> NULL, gen |-> state[s].gen + 1]
                                             ELSE state[t]]
      /\ UNCHANGED <<lease, issued, view>> /\ answer' = NULL
  BY <1>1 DEF World_close, IInv, TypeOK
<1>3. Period' = [Period EXCEPT ![s] = 0]
  <2>1. Period' = [t \in States |-> IF t = s THEN 0 ELSE Period[t]]
    BY <1>2 DEF Period
  <2>2. QED BY <2>1 DEF Period
<1>4. Promise!End(s)
  BY <1>2, <1>3, TakenKept DEF Promise!End
<1>5. QED BY <1>1, <1>4 DEF Promise!LeaseNext

(* An assignment drops at most the state d that it assigns over.           *)
LEMMA DropEffect ==
  ASSUME IInv, NEW ws, NEW vs, Reassigns(ws, vs), Assign(ws, vs), NEW d,
         \A s \in States : Held(s) /\ ~Holds(ws, vs, s) => s = d
  PROVE  \/ Period' = Period
         \/ /\ d \in States /\ Period' = [Period EXCEPT ![d] = 0]
            /\ \A u \in Views : vs[u].state # d
<1>1. UNCHANGED lease /\ state' \in [States -> [native: Addrs \cup {NULL}, gen: Nat]]
  BY AssignEffect
<1>2. CASE \E s \in States : Held(s) /\ ~Holds(ws, vs, s)
  <2>1. d \in States /\ Held(d) /\ ~Holds(ws, vs, d) /\ state'[d].native = NULL
    BY <1>2, AssignEffect DEF NoState
  <2>2. \A s \in States \ {d} : state'[s] = state[s]
    BY AssignEffect
  <2>3. Period' = [s \in States |-> IF s = d THEN 0 ELSE Period[s]]
    BY <1>1, <2>1, <2>2 DEF Period
  <2>4. \A u \in Views : vs[u].state # d
    BY <2>1 DEF Holds, Reassigns
  <2>5. QED BY <2>1, <2>3, <2>4 DEF Period
<1>3. CASE ~\E s \in States : Held(s) /\ ~Holds(ws, vs, s)
  <2>1. \A s \in States : state'[s] = state[s]
    BY <1>3, AssignEffect
  <2>2. QED BY <1>1, <2>1 DEF Period
<1>4. QED BY <1>2, <1>3

(* A World is assigned over: its old state ends with it, unless a view     *)
(* holds it.                                                               *)
LEMMA WorldAssigned ==
  ASSUME IInv, NEW w \in Worlds, NEW ws, Reassigns(ws, view), Assign(ws, view),
         \A s \in States : Held(s) /\ s # world[w].state => Holds(ws, view, s)
  PROVE  Promise!LeaseNext
<1>1. UNCHANGED <<lease, issued, view>> /\ answer' = NULL
  BY AssignEffect
<1>2. \/ Period' = Period
      \/ world[w].state \in States /\ Period' = [Period EXCEPT ![world[w].state] = 0]
  BY DropEffect
<1>3. CASE Period' = Period
  BY <1>1, <1>3, TakenKept DEF Promise!LeaseNext, Promise!Silent
<1>4. CASE world[w].state \in States /\ Period' = [Period EXCEPT ![world[w].state] = 0]
  <2>1. Promise!End(world[w].state)
    BY <1>1, <1>4, TakenKept DEF Promise!End
  <2>2. QED BY <1>4, <2>1 DEF Promise!LeaseNext
<1>5. QED BY <1>2, <1>3, <1>4

(* A view variable is assigned over: it lets go of the state it had.       *)
LEMMA ViewAssigned ==
  ASSUME IInv, NEW u \in Views, NEW vs, Reassigns(world, vs), Assign(world, vs),
         \A s \in States : Held(s) /\ s # view[u].state => Holds(world, vs, s),
         \A x \in Views \ {u} : vs[x].state # NULL => vs[x].state = view[x].state,
         \A x \in Views \ {u} : vs[x].state = NULL =>
           view[x].state = NULL \/ vs[u].state = view[x].state
  PROVE  Promise!LetGo(u)
<1>1. \/ Period' = Period
      \/ /\ view[u].state \in States /\ Period' = [Period EXCEPT ![view[u].state] = 0]
         /\ \A x \in Views : vs[x].state # view[u].state
  BY DropEffect
<1>2. CASE Period' = Period
  BY <1>2 DEF Promise!LetGo
<1>3. CASE /\ view[u].state \in States /\ Period' = [Period EXCEPT ![view[u].state] = 0]
           /\ \A x \in Views : vs[x].state # view[u].state
  <2>1. view[u].state # NULL
    BY <1>3, StatesDistinct
  <2>2. Taken[u] # NULL /\ Taken[u][1] = view[u].state
    BY <2>1, Entitlement
  <2>3. ASSUME NEW x \in Views \ {u}, Taken[x] # NULL PROVE Taken[x][1] # Taken[u][1]
    <3>1. view[x].state # NULL /\ Taken[x][1] = view[x].state
      BY <2>3, Entitlement
    <3>2. view[x].state # view[u].state
      BY <1>3, <3>1
    <3>3. QED BY <2>2, <3>1, <3>2
  <2>4. QED BY <1>3, <2>2, <2>3 DEF Promise!LetGo
<1>4. QED BY <1>1, <1>2, <1>3

LEMMA CopyShares ==
  ASSUME IInv, NEW v \in Views, NEW u \in Views, View_copy(v, u)
  PROVE  Promise!LeaseNext
<1> DEFINE vs == [view EXCEPT ![u] = view[v]]
<1>1. Reassigns(world, vs) /\ Assign(world, vs) /\ u # v
  BY ViewReassigns DEF View_copy
<1>2. vs = [x \in Views |-> IF x = u THEN view[v] ELSE view[x]]
  BY DEF IInv, TypeOK
<1> HIDE DEF vs
<1>3. \A s \in States : Held(s) /\ s # view[u].state => Holds(world, vs, s)
  BY <1>2 DEF Held, Holds, IInv, TypeOK
<1>4. Promise!LetGo(u)
  BY <1>1, <1>2, <1>3, ViewAssigned
<1>5. view' = vs /\ UNCHANGED issued /\ answer' = NULL
  BY <1>1, AssignEffect
<1>6. Taken' = [Taken EXCEPT ![u] = Taken[v]]
  <2>1. Taken' = [x \in Views |-> IF x = u THEN Taken[v] ELSE Taken[x]]
    BY <1>2, <1>5 DEF Taken
  <2>2. QED BY <2>1 DEF Taken
<1>7. Promise!Share(v, u)
  BY <1>1, <1>4, <1>5, <1>6 DEF Promise!Share
<1>8. QED BY <1>7 DEF Promise!LeaseNext

LEMMA MoveShares ==
  ASSUME IInv, NEW v \in Views, NEW u \in Views, View_move(v, u)
  PROVE  Promise!LeaseNext
<1> DEFINE vs == [view EXCEPT ![u] = view[v], ![v] = [@ EXCEPT !.state = NULL]]
           empty == [view[v] EXCEPT !.state = NULL]
<1>1. Reassigns(world, vs) /\ Assign(world, vs) /\ u # v
  BY ViewReassigns DEF View_move
<1>2. /\ vs = [x \in Views |-> IF x = v THEN empty ELSE IF x = u THEN view[v] ELSE view[x]]
      /\ empty.state = NULL
  BY <1>1 DEF IInv, TypeOK
<1> HIDE DEF vs, empty
<1>3. \A s \in States : Held(s) /\ s # view[u].state => Holds(world, vs, s)
  <2> SUFFICES ASSUME NEW s \in States, NEW x \in Views \ {u}, view[x].state = s
               PROVE  Holds(world, vs, s)
    BY DEF Held, Holds, IInv, TypeOK
  <2>1. vs[IF x = v THEN u ELSE x].state = s
    BY <1>1, <1>2
  <2>2. QED BY <2>1, <1>2 DEF Holds
<1>4. Promise!LetGo(u)
  BY <1>1, <1>2, <1>3, ViewAssigned
<1>5. view' = vs /\ UNCHANGED issued /\ answer' = NULL
  BY <1>1, AssignEffect
<1>6. Taken' = [Taken EXCEPT ![u] = Taken[v], ![v] = NULL]
  <2>1. Taken' = [x \in Views |-> IF x = v THEN NULL ELSE IF x = u THEN Taken[v] ELSE Taken[x]]
    BY <1>1, <1>2, <1>5 DEF Taken
  <2>2. QED BY <1>1, <2>1 DEF Taken
<1>7. Promise!Share(v, u)
  BY <1>1, <1>4, <1>5, <1>6 DEF Promise!Share
<1>8. QED BY <1>7 DEF Promise!LeaseNext

LEMMA DestructForgets ==
  ASSUME IInv, NEW v \in Views, View_destruct(v)
  PROVE  Promise!LeaseNext
<1> DEFINE vs == [view EXCEPT ![v] = NoView]
<1>1. Reassigns(world, vs) /\ Assign(world, vs)
  BY ViewReassigns DEF View_destruct
<1>2. vs = [x \in Views |-> IF x = v THEN NoView ELSE view[x]]
  BY DEF IInv, TypeOK
<1> HIDE DEF vs
<1>3. \A s \in States : Held(s) /\ s # view[v].state => Holds(world, vs, s)
  BY <1>2 DEF Held, Holds, IInv, TypeOK
<1>4. Promise!LetGo(v)
  BY <1>1, <1>2, <1>3, ViewAssigned
<1>5. view' = vs /\ UNCHANGED issued /\ answer' = NULL
  BY <1>1, AssignEffect
<1>6. Taken' = [Taken EXCEPT ![v] = NULL]
  <2>1. Taken' = [x \in Views |-> IF x = v THEN NULL ELSE Taken[x]]
    BY <1>2, <1>5 DEF Taken, NoView
  <2>2. QED BY <2>1 DEF Taken
<1>7. Promise!Forget(v)
  BY <1>4, <1>5, <1>6 DEF Promise!Forget
<1>8. QED BY <1>7 DEF Promise!LeaseNext

LEMMA DeriveShares ==
  ASSUME IInv, NEW v \in Views, NEW u \in Views, NEW from, NEW to, Derive(v, u, from, to)
  PROVE  Promise!LeaseNext
<1>1. /\ view' = [x \in Views |-> IF x = u THEN [view[v] EXCEPT !.kind = to] ELSE view[x]]
      /\ UNCHANGED <<kvars, state>> /\ answer' = NULL /\ u # v
  BY DEF Derive, IInv, TypeOK, EnsureView, EnsureOpen
<1>2. Taken' = [Taken EXCEPT ![u] = Taken[v]]
  <2>1. view'[u].state = view[v].state /\ view'[u].span = view[v].span
    BY <1>1 DEF IInv, TypeOK
  <2>2. Taken' = [x \in Views |-> IF x = u THEN Taken[v] ELSE Taken[x]]
    BY <1>1, <2>1 DEF Taken
  <2>3. QED BY <2>2 DEF Taken
<1>3. Promise!Share(v, u)
  BY <1>1, <1>2, PeriodKept DEF Promise!Share, Promise!LetGo, kvars
<1>4. QED BY <1>3 DEF Promise!LeaseNext

LEMMA PromiseInit == Init => Promise!LeaseInit
BY DEF Init, KernelInit, Promise!LeaseInit, Period, Taken, NoState, NoView

LEMMA WorldPromise ==
  ASSUME IInv, NEW w \in Worlds, WorldStep(w)
  PROVE  Promise!LeaseNext
<1>1. ASSUME NEW s \in States, NEW a \in Addrs, World_construct(w, s, a)
      PROVE  Promise!LeaseNext
  <2>1. \A t \in States : state[t].native # a
    BY <1>1, NullNotAddr DEF World_construct, IInv, TypeOK, SoleOwner, Live
  <2>2. state' = [t \in States |-> IF t = s THEN [native |-> a, gen |-> 0] ELSE state[t]]
    BY <1>1 DEF World_construct, IInv, TypeOK
  <2>3. NewLease(a) /\ UNCHANGED view /\ answer' = NULL
    BY <1>1 DEF World_construct
  <2>4. QED BY <2>1, <2>2, <2>3, RenewStep
<1>2. ASSUME NEW x \in Worlds, World_move(w, x) PROVE Promise!LeaseNext
  <2> DEFINE ws == [world EXCEPT ![w] = world[x], ![x] = NoWorld]
  <2>1. Reassigns(ws, view) /\ Assign(ws, view) /\ w # x
    BY <1>2, MoveReassigns DEF World_move
  <2>2. ws = [y \in Worlds |-> IF y = x THEN NoWorld ELSE IF y = w THEN world[x] ELSE world[y]]
    BY DEF IInv, TypeOK
  <2> HIDE DEF ws
  <2>3. ASSUME NEW s \in States, NEW y \in Worlds \ {w}, world[y].state = s
        PROVE  Holds(ws, view, s)
    <3>1. ws[IF y = x THEN w ELSE y].state = s
      BY <2>1, <2>2, <2>3
    <3>2. QED BY <2>2, <3>1 DEF Holds
  <2>4. \A s \in States : Held(s) /\ s # world[w].state => Holds(ws, view, s)
    BY <2>3 DEF Held, Holds, IInv, TypeOK
  <2>5. QED BY <2>1, <2>4, WorldAssigned
<1>3. CASE World_destruct(w)
  <2> DEFINE ws == [world EXCEPT ![w] = NoWorld]
  <2>1. Reassigns(ws, view) /\ Assign(ws, view)
    BY <1>3, MoveReassigns DEF World_destruct
  <2>2. ws = [y \in Worlds |-> IF y = w THEN NoWorld ELSE world[y]]
    BY DEF IInv, TypeOK
  <2> HIDE DEF ws
  <2>3. \A s \in States : Held(s) /\ s # world[w].state => Holds(ws, view, s)
    BY <2>2 DEF Held, Holds, IInv, TypeOK
  <2>4. QED BY <2>1, <2>3, WorldAssigned
<1>4. CASE World_begin_tick(w)
  <2> DEFINE s == world[w].state
             a == world[w].native
  <2>1. /\ s \in States /\ state[s].native = a /\ a \in Addrs
        /\ \A t \in States \ {s} : state[t].native # a
    BY <1>4, OpenWorld DEF World_begin_tick, RequireOpen
  <2>2. [state[s] EXCEPT !.gen = @ + 1] = [native |-> a, gen |-> state[s].gen + 1]
    BY <2>1 DEF IInv, TypeOK
  <2>3. state' = [t \in States |-> IF t = s THEN [native |-> a, gen |-> state[s].gen + 1]
                                           ELSE state[t]]
    <3>1. state' = [state EXCEPT ![s].gen = @ + 1]
      BY <1>4 DEF World_begin_tick
    <3>2. QED BY <2>1, <2>2, <3>1 DEF IInv, TypeOK
  <2>4. NewLease(a) /\ UNCHANGED view /\ answer' = NULL
    BY <1>4 DEF World_begin_tick, KernelBegin
  <2> HIDE DEF s, a
  <2>5. QED BY <2>1, <2>3, <2>4, RenewStep
<1>5. CASE World_end_tick(w)
  BY <1>5, SilentStep DEF World_end_tick, KernelEnd
<1>6. CASE NativeCall(w)
  BY <1>6, SilentStep DEF NativeCall, kvars
<1>7. QED
  BY <1>1, <1>2, <1>3, <1>4, <1>5, <1>6, CloseEnds, GrantStep
     DEF WorldStep, World_entity_call, World_motion_call, World_observer_call,
         World_query_call, Workset_call

LEMMA PromiseStep == IInv /\ [Next]_vars => [Promise!LeaseNext]_(Promise!lvars)
<1>1. UNCHANGED vars => UNCHANGED Promise!lvars
  BY PeriodKept, TakenKept DEF vars, cvars, kvars, Promise!lvars
<1>2. ASSUME IInv, NEW v \in Views, ViewStep(v) PROVE Promise!LeaseNext
  <2>1. ASSUME NEW u \in Views, NEW from, NEW to, Derive(v, u, from, to)
        PROVE  Promise!LeaseNext
    BY <1>2, <2>1, DeriveShares
  <2>2. ASSUME NEW kinds, Own_read(v, kinds) \/ Span_read(v, kinds) PROVE Promise!LeaseNext
    BY <1>2, <2>2, AskStep DEF Own_read, Span_read
  <2>3. QED
    BY <1>2, <2>1, <2>2, CopyShares, MoveShares, DestructForgets
       DEF ViewStep, Fanout_read, Range_size, Group_read, Range_item,
           Fanout_begin, Fanout_at, Group_range, Range_begin
<1>3. QED BY <1>1, <1>2, WorldPromise DEF Next

(* Views that are copied, moved, assigned over and kept past their World,  *)
(* and the groups, ranges and iterators taken from them, answer with the   *)
(* data of the borrow period they were taken in while it is the current    *)
(* one of their state, and refuse from then on.                            *)
THEOREM CppPromiseKept == Spec => KeepsPromise
BY IInvInit, IInvStep, PromiseInit, PromiseStep, PTL
   DEF Spec, KeepsPromise, Promise!LeaseSpec
=============================================================================
