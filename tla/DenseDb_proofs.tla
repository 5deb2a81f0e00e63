--------------------------- MODULE DenseDb_proofs ---------------------------
(***************************************************************************)
(* Proofs about DenseDb, for any commands and any bounds.                  *)
(***************************************************************************)
EXTENDS DenseDb, Integers, SequenceTheorems, TLAPS

(* The last tick the files have. *)
Latest == LastTick(snap, wal)

(* A WAL: committed ticks in order, each with all it did. *)
Faithful(w) ==
  /\ w \in Seq(Entries)
  /\ \A i, j \in 1..Len(w) : i < j => w[i].tick < w[j].tick
  /\ \A i \in 1..Len(w) :
       /\ w[i].tick <= Latest
       /\ \A c \in Commands : c \in w[i].commands <=> <<w[i].tick, c>> \in done.rows

(* A snapshot: the tables at the end of its tick. *)
AtTick(s) ==
  /\ s \in States
  /\ s.tick <= Latest
  /\ s.rows = {r \in done.rows : r[1] <= s.tick}

(* Together they miss no tick up to the last they have, nor a safe one. *)
Covers(s, w) ==
  /\ safe <= LastTick(s, w)
  /\ \A r \in done.rows :
       s.tick < r[1] /\ r[1] <= LastTick(s, w) => \E i \in 1..Len(w) : w[i].tick = r[1]

FilesInv ==
  /\ Latest <= done.tick
  /\ \A r \in done.rows : r[1] <= done.tick
  /\ \A w \in Survivors : Faithful(w)
  /\ \A s \in snaps : AtTick(s)
  /\ \A s \in snaps, w \in Survivors : Covers(s, w)
  /\ \A s \in snaps : LastTick(s, wal) = Latest

(* e holds all that its tick did. *)
Whole(e) ==
  /\ e.tick <= done.tick
  /\ \A c \in Commands : c \in e.commands <=> <<e.tick, c>> \in done.rows

(* Where the ticks that no file has yet are. *)
ProcessInv ==
  /\ ~open => /\ pending = NULL /\ phase = "closed" /\ written = "none"
              /\ io = "idle" /\ done.tick = Latest
  /\ phase # "open" /\ open => done = db
  /\ phase # "closed" => active.tick = db.tick /\ Latest < db.tick
  /\ phase = "open" =>
       /\ done.tick < db.tick
       /\ db.rows = done.rows \cup ({db.tick} \X active.commands)
  /\ phase = "finalized" => Whole(active)
  /\ phase \in {"open", "finalized"} /\ pending # NULL => pending.tick < db.tick
  /\ phase = "closed" /\ pending # NULL => pending.tick = db.tick
  /\ pending # NULL => Whole(pending)
  /\ pending = NULL => written = "none"
  /\ written = "all" => Len(wal) > 0 /\ wal[Len(wal)] = pending /\ pending.tick = Latest
  /\ pending # NULL /\ written # "all" => Latest < pending.tick
  /\ open /\ phase = "closed" /\ pending = NULL => Latest = db.tick
  /\ io \in {"write_snapshot", "sync_directory", "truncate_wal", "sync_wal", "flush"}
       => phase = "closed"
  /\ io \in {"write_snapshot", "sync_directory", "truncate_wal", "sync_wal"}
       => pending = NULL
  /\ io \in {"sync_directory", "truncate_wal", "sync_wal"} => snap = db
  /\ io \in {"truncate_wal", "sync_wal"} => snaps = {snap}

IInv == TypeOK /\ FilesInv /\ ProcessInv /\ Accounted

-----------------------------------------------------------------------------
(* The files a power loss may leave *)

LEMMA WalTypes ==
  ASSUME TypeOK
  PROVE  /\ wal \in Seq(Entries) /\ Len(wal) \in Nat /\ synced \in 0..Len(wal)
         /\ wal \in Survivors
         /\ \A w \in Survivors : w \in Seq(Entries) /\ Len(w) \in Nat
<1>1. wal \in Seq(Entries) /\ Len(wal) \in Nat /\ synced \in 0..Len(wal)
  BY LenProperties DEF TypeOK
<1>2. SubSeq(wal, 1, Len(wal)) = wal
  BY <1>1, SubSeqFull
<1>3. wal \in Survivors
  <2>1. Len(wal) \in synced..Len(wal)
    BY <1>1
  <2>2. QED
    BY <1>2, <2>1, Zenon DEF Survivors
<1>4. ASSUME NEW w \in Survivors PROVE w \in Seq(Entries)
  <2>1. CASE w \in old
    BY <2>1 DEF TypeOK
  <2>2. CASE w \notin old
    <3>1. PICK k \in synced..Len(wal) : w = SubSeq(wal, 1, k)
      BY <2>2 DEF Survivors
    <3>2. \A i \in 1..k : wal[i] \in Entries
      BY <1>1, ElementOfSeq
    <3>3. QED
      BY <1>1, <3>1, <3>2, SubSeqProperties
  <2>3. QED
    BY <2>1, <2>2
<1>5. QED
  BY <1>1, <1>3, <1>4, LenProperties

LEMMA SyncedSurvivors ==
  ASSUME TypeOK, TypeOK', SyncWal, wal' = wal
  PROVE  Survivors' = {wal} /\ Survivors' \subseteq Survivors
<1>1. Len(wal) \in Nat /\ wal \in Seq(Entries) /\ wal \in Survivors
  BY WalTypes
<1>2. synced'..Len(wal') = {Len(wal)}
  BY <1>1 DEF SyncWal
<1>3. SubSeq(wal, 1, Len(wal)) = wal
  BY <1>1, SubSeqFull
<1>4. Survivors' = {wal}
  BY <1>2, <1>3 DEF SyncWal, Survivors
<1>5. QED
  BY <1>1, <1>4

LEMMA LostSurvivors ==
  ASSUME TypeOK, NEW w \in Survivors, wal' = w, synced' = Len(w), old' = {}
  PROVE  Survivors' = {w}
<1>1. Len(w) \in Nat /\ w \in Seq(Entries)
  BY WalTypes
<1>2. synced'..Len(wal') = {Len(w)}
  BY <1>1
<1>3. SubSeq(w, 1, Len(w)) = w
  BY <1>1, SubSeqFull
<1>4. QED
  BY <1>2, <1>3 DEF Survivors

LEMMA TruncatedSurvivors ==
  ASSUME TypeOK, old' = Survivors, wal' = <<>>, synced' = 0
  PROVE  Survivors' = Survivors \cup {<<>>}
<1>1. synced'..Len(wal') = {0}
  BY EmptySeq
<1>2. SubSeq(<<>>, 1, 0) = <<>>
  BY SubSeqEmpty
<1>3. {SubSeq(wal', 1, k) : k \in synced'..Len(wal')} = {<<>>}
  <2>1. {SubSeq(wal', 1, k) : k \in synced'..Len(wal')} = {SubSeq(wal', 1, k) : k \in {0}}
    BY <1>1
  <2>2. SubSeq(wal', 1, 0) = <<>>
    BY <1>2
  <2>3. QED
    BY <2>1, <2>2, Zenon
<1>4. QED
  BY <1>3 DEF Survivors

LEMMA AppendedSurvivors ==
  ASSUME TypeOK, NEW e \in Entries, wal' = Append(wal, e), UNCHANGED <<synced, old>>
  PROVE  Survivors' = Survivors \cup {Append(wal, e)}
<1> DEFINE v == Append(wal, e)
<1>1. wal \in Seq(Entries) /\ Len(wal) \in Nat /\ synced \in 0..Len(wal)
  BY WalTypes
<1>2. /\ v \in Seq(Entries) /\ Len(v) = Len(wal) + 1
      /\ \A i \in 1..Len(wal) : v[i] = wal[i]
  BY <1>1, AppendProperties
<1>3. synced..Len(v) = (synced..Len(wal)) \cup {Len(wal) + 1}
  BY <1>1, <1>2
<1>4. SubSeq(v, 1, Len(wal) + 1) = v
  BY <1>2, SubSeqFull
<1>5. ASSUME NEW k \in synced..Len(wal) PROVE SubSeq(v, 1, k) = SubSeq(wal, 1, k)
  BY <1>1, <1>2
<1>6. {SubSeq(v, 1, k) : k \in synced..Len(v)}
        = {SubSeq(wal, 1, k) : k \in synced..Len(wal)} \cup {v}
  BY <1>3, <1>4, <1>5, <1>1
<1>7. QED
  BY <1>6 DEF Survivors

LEMMA ElementTypes ==
  ASSUME TypeOK, NEW w \in Survivors, NEW i \in 1..Len(w)
  PROVE  w[i] \in Entries /\ w[i].tick \in Ticks /\ w[i].commands \subseteq Commands
<1>1. w \in Seq(Entries)
  BY WalTypes
<1>2. w[i] \in Entries
  BY <1>1, ElementOfSeq
<1>3. QED
  BY <1>2 DEF Entries

-----------------------------------------------------------------------------
(* Recovery *)

LEMMA LastTickBounds ==
  ASSUME TypeOK, NEW s \in snaps, NEW w \in Survivors, AtTick(s), Faithful(w)
  PROVE  /\ LastTick(s, w) \in 0..MaxTick
         /\ s.tick <= LastTick(s, w) /\ LastTick(s, w) <= Latest
         /\ \A i \in 1..Len(w) : w[i].tick <= LastTick(s, w)
         /\ s.tick \in 0..MaxTick
<1>1. s.tick \in 0..MaxTick /\ s.tick <= Latest
  BY DEF AtTick, States
<1>2. Len(w) \in Nat /\ w \in Seq(Entries)
  BY WalTypes
<1>3. \A i \in 1..Len(w) : w[i].tick \in Ticks /\ w[i].tick <= Latest
  BY ElementTypes DEF Faithful
<1>4. \A i \in 1..Len(w) : w[i].tick <= w[Len(w)].tick
  <2> TAKE i \in 1..Len(w)
  <2>1. i = Len(w) \/ i < Len(w)
    BY <1>2
  <2>2. Len(w) \in 1..Len(w)
    BY <1>2
  <2>3. QED
    BY <1>2, <1>3, <2>1, <2>2 DEF Faithful, Ticks
<1>5. Len(w) > 0 => Len(w) \in 1..Len(w)
  BY <1>2
<1>6. Latest \in 0..MaxTick
  <2>1. snap \in snaps /\ snap.tick \in 0..MaxTick
    BY DEF TypeOK, States
  <2>2. wal \in Survivors /\ Len(wal) \in Nat
    BY WalTypes
  <2>3. Len(wal) > 0 => wal[Len(wal)].tick \in Ticks
    BY <2>2, ElementTypes
  <2>4. QED
    BY <2>1, <2>3, BoundsAreNat DEF Latest, LastTick, Ticks
<1>7. QED
  BY <1>1, <1>2, <1>3, <1>4, <1>5, <1>6, BoundsAreNat DEF LastTick, Ticks

LEMMA RecoveryExact ==
  ASSUME TypeOK, FilesInv, NEW s \in snaps, NEW w \in Survivors
  PROVE  /\ Readable(s, w)
         /\ Recovery(s, w) = UpTo(done, LastTick(s, w))
         /\ LastTick(s, w) \in 0..MaxTick
         /\ safe <= LastTick(s, w) /\ LastTick(s, w) <= Latest /\ Latest <= done.tick
<1> DEFINE last == LastTick(s, w)
<1>1. AtTick(s) /\ Faithful(w) /\ Covers(s, w)
  BY DEF FilesInv
<1>2. /\ last \in 0..MaxTick /\ s.tick <= last /\ last <= Latest
      /\ \A i \in 1..Len(w) : w[i].tick <= last
      /\ s.tick \in 0..MaxTick
  BY <1>1, LastTickBounds
<1>3. DOMAIN w = 1..Len(w)
  BY WalTypes, LenProperties
<1>4. \A r \in done.rows : r[1] \in Ticks /\ r[2] \in Commands /\ r = <<r[1], r[2]>>
  BY DEF TypeOK, States, Rows
<1>5. Replayed(s, w) = {r \in done.rows : s.tick < r[1] /\ r[1] <= last}
  <2>1. ASSUME NEW r \in Replayed(s, w)
        PROVE  r \in done.rows /\ s.tick < r[1] /\ r[1] <= last
    <3>1. PICK i \in 1..Len(w) : w[i].tick > s.tick /\ r \in {w[i].tick} \X w[i].commands
      BY <1>3 DEF Replayed
    <3>2. w[i].commands \subseteq Commands
      BY ElementTypes
    <3>3. PICK c \in w[i].commands : r = <<w[i].tick, c>>
      BY <3>1
    <3>4. r \in done.rows
      BY <1>1, <3>2, <3>3 DEF Faithful
    <3>5. QED
      BY <1>2, <3>1, <3>3, <3>4
  <2>2. ASSUME NEW r \in done.rows, s.tick < r[1], r[1] <= last
        PROVE  r \in Replayed(s, w)
    <3>1. PICK i \in 1..Len(w) : w[i].tick = r[1]
      BY <1>1, <2>2 DEF Covers
    <3>2. r[2] \in w[i].commands
      BY <1>1, <1>4, <3>1 DEF Faithful
    <3>3. r \in {w[i].tick} \X w[i].commands
      BY <1>4, <3>1, <3>2
    <3>4. w[i].tick > s.tick
      BY <1>2, <1>4, <2>2, <3>1 DEF Ticks
    <3>5. QED
      BY <1>3, <3>1, <3>3, <3>4 DEF Replayed
  <2>3. QED
    BY <2>1, <2>2
<1>6. s.rows = {r \in done.rows : r[1] <= s.tick}
  BY <1>1 DEF AtTick
<1>7. s.rows \cup Replayed(s, w) = {r \in done.rows : r[1] <= last}
  BY <1>2, <1>4, <1>5, <1>6 DEF Ticks
<1>8. Replayed(s, w) \cap s.rows = {}
  BY <1>2, <1>4, <1>5, <1>6 DEF Ticks
<1>9. Readable(s, w)
  BY <1>1, <1>3, <1>8 DEF Readable, Faithful
<1>10. QED
  BY <1>1, <1>2, <1>7, <1>9 DEF Recovery, UpTo, Covers, FilesInv

-----------------------------------------------------------------------------
(* What each change of the files preserves *)

LEMMA LatestType ==
  ASSUME TypeOK, FilesInv
  PROVE  /\ Latest \in 0..MaxTick /\ safe \in 0..MaxTick /\ done.tick \in 0..MaxTick
         /\ safe <= Latest /\ Latest <= done.tick
         /\ snap \in snaps /\ wal \in Survivors /\ LastTick(snap, wal) = Latest
<1>1. snap \in snaps /\ wal \in Survivors
  BY WalTypes DEF TypeOK
<1>2. QED
  BY <1>1, RecoveryExact DEF Latest, TypeOK, States

LEMMA FilesFrame ==
  ASSUME FilesInv, UNCHANGED <<files, done, safe>>
  PROVE  FilesInv'
<1>1. Latest' = Latest /\ Survivors' = Survivors
  BY DEF Latest, Survivors, files
<1>2. snaps' = snaps /\ safe' = safe /\ done' = done /\ wal' = wal
  BY DEF files
<1>3. QED
  BY <1>1, <1>2 DEF FilesInv, Faithful, AtTick, Covers

(* Less may be lost, and what the host is told safe is not. *)
LEMMA Narrowed ==
  ASSUME FilesInv, UNCHANGED <<wal, snap, done>>,
         Survivors' \subseteq Survivors, snaps' \subseteq snaps,
         \A s \in snaps', w \in Survivors' : safe' <= LastTick(s, w)
  PROVE  FilesInv'
<1>1. Latest' = Latest
  BY DEF Latest
<1>2. \A w \in Survivors' : Faithful(w)'
  <2> TAKE w \in Survivors'
  <2>1. Faithful(w)
    BY DEF FilesInv
  <2>2. QED
    BY <1>1, <2>1 DEF Faithful
<1>3. \A s \in snaps' : AtTick(s)'
  BY <1>1 DEF FilesInv, AtTick
<1>4. \A s \in snaps', w \in Survivors' : Covers(s, w)'
  <2> TAKE s \in snaps', w \in Survivors'
  <2>1. Covers(s, w)
    BY DEF FilesInv
  <2>2. QED
    BY <2>1 DEF Covers
<1>5. \A s \in snaps' : LastTick(s, wal') = Latest'
  BY <1>1 DEF FilesInv
<1>6. Latest' <= done'.tick /\ \A r \in done'.rows : r[1] <= done'.tick
  BY <1>1 DEF FilesInv
<1>7. QED
  BY <1>2, <1>3, <1>4, <1>5, <1>6, Zenon DEF FilesInv

(* A tick later than all of them ends. *)
LEMMA TickEnds ==
  ASSUME TypeOK, TypeOK', FilesInv, UNCHANGED <<files, safe>>,
         NEW t \in Ticks, NEW commands \in SUBSET Commands,
         done.tick < t, done' = [tick |-> t, rows |-> done.rows \cup ({t} \X commands)]
  PROVE  FilesInv'
<1>1. Latest' = Latest /\ Survivors' = Survivors
  BY DEF Latest, Survivors, files
<1>2. snaps' = snaps /\ safe' = safe /\ wal' = wal
  BY DEF files
<1>3. Latest \in 0..MaxTick /\ Latest <= done.tick /\ done.tick \in 0..MaxTick
  BY LatestType
<1>4. \A r \in done.rows : r[1] \in Ticks /\ r[1] <= done.tick
  BY DEF FilesInv, TypeOK, States, Rows
<1>5. \A r : r[1] <= Latest /\ r[1] \in Nat => (r \in done'.rows <=> r \in done.rows)
  BY <1>3, BoundsAreNat DEF Ticks
<1>6. ASSUME NEW w \in Survivors PROVE Faithful(w)'
  <2>1. Faithful(w)
    BY DEF FilesInv
  <2>2. ASSUME NEW i \in 1..Len(w), NEW c \in Commands
        PROVE  c \in w[i].commands <=> <<w[i].tick, c>> \in done'.rows
    <3>1. w[i].tick <= Latest /\ w[i].tick \in Nat
      BY <2>1, ElementTypes DEF Faithful, Ticks
    <3>2. <<w[i].tick, c>> \in done'.rows <=> <<w[i].tick, c>> \in done.rows
      BY <1>3, <3>1, BoundsAreNat DEF Ticks
    <3>3. QED
      BY <2>1, <3>2 DEF Faithful
  <2>3. QED
    BY <1>1, <2>1, <2>2 DEF Faithful
<1>7. ASSUME NEW s \in snaps PROVE AtTick(s)'
  <2>1. s \in States /\ s.tick <= Latest /\ s.rows = {r \in done.rows : r[1] <= s.tick}
    BY DEF FilesInv, AtTick
  <2>2. ASSUME NEW r \in done'.rows, r[1] <= s.tick PROVE r \in done.rows
    BY <1>3, <2>1, <2>2, BoundsAreNat DEF States, Ticks
  <2>3. s.rows = {r \in done'.rows : r[1] <= s.tick}
    BY <2>1, <2>2
  <2>4. QED
    BY <1>1, <2>1, <2>3 DEF AtTick
<1>8. ASSUME NEW s \in snaps, NEW w \in Survivors PROVE Covers(s, w)'
  <2>1. Covers(s, w)
    BY DEF FilesInv
  <2>2. LastTick(s, w) <= Latest /\ LastTick(s, w) \in 0..MaxTick
    BY RecoveryExact
  <2>3. ASSUME NEW r \in done'.rows, r[1] <= LastTick(s, w) PROVE r \in done.rows
    BY <1>3, <2>2, <2>3, BoundsAreNat DEF Ticks
  <2>4. QED
    BY <1>2, <2>1, <2>3 DEF Covers
<1>9. Latest' <= done'.tick /\ \A r \in done'.rows : r[1] <= done'.tick
  BY <1>1, <1>3, <1>4, BoundsAreNat DEF Ticks
<1>10. \A s \in snaps' : LastTick(s, wal') = Latest'
  BY <1>1, <1>2 DEF FilesInv
<1>11. QED
  BY <1>1, <1>2, <1>6, <1>7, <1>8, <1>9, <1>10, Zenon DEF FilesInv

(* A tick later than all in the files, and the next of those that ended, *)
(* joins the WAL.                                                        *)
LEMMA TickWritten ==
  ASSUME TypeOK, TypeOK', FilesInv, NEW e \in Entries, Whole(e),
         wal' = Append(wal, e), UNCHANGED <<synced, old, snap, snaps, done, safe>>,
         Latest < e.tick,
         \A r \in done.rows : r[1] <= Latest \/ e.tick <= r[1]
  PROVE  FilesInv' /\ Latest' = e.tick
<1>0. PICK v : v = Append(wal, e) /\ wal' = v
  OBVIOUS
<1>1. wal \in Seq(Entries) /\ Len(wal) \in Nat /\ wal \in Survivors /\ snap \in snaps
  BY WalTypes DEF TypeOK
<1>2. /\ v \in Seq(Entries) /\ Len(v) = Len(wal) + 1 /\ v[Len(wal) + 1] = e
      /\ \A i \in 1..Len(wal) : v[i] = wal[i]
  BY <1>0, <1>1, AppendProperties
<1>3. Survivors' = Survivors \cup {v}
  BY <1>0, AppendedSurvivors
<1>4. e.tick \in Ticks /\ Latest \in 0..MaxTick /\ done.tick \in 0..MaxTick
  BY LatestType DEF Entries
<1>5. \A s \in snaps : s.tick \in 0..MaxTick /\ s.tick <= Latest
  BY DEF FilesInv, AtTick, States
<1>6. \A s \in snaps : LastTick(s, v) = e.tick
  BY <1>1, <1>2, <1>4, <1>5, BoundsAreNat DEF LastTick, Ticks
<1>7. Latest' = e.tick
  BY <1>0, <1>1, <1>6 DEF Latest
<1>8. ASSUME NEW w \in Survivors PROVE Faithful(w)'
  <2>1. Faithful(w) /\ \A i \in 1..Len(w) : w[i].tick \in Ticks
    BY ElementTypes DEF FilesInv
  <2>2. \A i \in 1..Len(w) : w[i].tick <= Latest'
    <3> TAKE i \in 1..Len(w)
    <3>1. w[i].tick \in Ticks /\ w[i].tick <= Latest
      BY <2>1 DEF Faithful
    <3>2. QED
      BY <1>4, <1>7, <3>1, BoundsAreNat DEF Ticks
  <2>3. QED
    BY <2>1, <2>2 DEF Faithful
<1>9. Faithful(v)'
  <2>1. Faithful(wal) /\ \A i \in 1..Len(wal) : wal[i].tick \in Ticks
    BY <1>1, ElementTypes DEF FilesInv
  <2>2. ASSUME NEW i \in 1..Len(v)
        PROVE  \/ i \in 1..Len(wal) /\ v[i] = wal[i] /\ wal[i].tick < e.tick
               \/ i = Len(wal) + 1 /\ v[i] = e
    BY <1>1, <1>2, <1>4, <2>1, BoundsAreNat DEF Faithful, Ticks
  <2>3. \A i, j \in 1..Len(v) : i < j => v[i].tick < v[j].tick
    <3> SUFFICES ASSUME NEW i \in 1..Len(v), NEW j \in 1..Len(v), i < j
                 PROVE  v[i].tick < v[j].tick
      OBVIOUS
    <3>1. i \in 1..Len(wal) /\ v[i] = wal[i] /\ wal[i].tick < e.tick
      BY <1>1, <1>2, <2>2
    <3>2. QED
      BY <2>1, <2>2, <3>1 DEF Faithful
  <2>4. \A i \in 1..Len(v) :
          /\ v[i].tick <= Latest'
          /\ \A c \in Commands : c \in v[i].commands <=> <<v[i].tick, c>> \in done'.rows
    <3> TAKE i \in 1..Len(v)
    <3>1. CASE i \in 1..Len(wal) /\ v[i] = wal[i] /\ wal[i].tick < e.tick
      BY <1>4, <1>7, <2>1, <3>1, BoundsAreNat DEF Faithful, Ticks
    <3>2. CASE i = Len(wal) + 1 /\ v[i] = e
      BY <1>4, <1>7, <3>2 DEF Whole, Ticks
    <3>3. QED
      BY <2>2, <3>1, <3>2
  <2>5. QED
    BY <1>2, <2>3, <2>4 DEF Faithful
<1>10. ASSUME NEW s \in snaps PROVE AtTick(s)'
  <2>1. AtTick(s)
    BY DEF FilesInv
  <2>2. QED
    BY <1>4, <1>5, <1>7, <2>1, BoundsAreNat DEF AtTick, Ticks
<1>11. ASSUME NEW s \in snaps, NEW w \in Survivors PROVE Covers(s, w)'
  <2>1. Covers(s, w)
    BY DEF FilesInv
  <2>2. QED
    BY <2>1 DEF Covers
<1>12. ASSUME NEW s \in snaps PROVE Covers(s, v)'
  <2>1. safe <= e.tick
    BY <1>4, LatestType, BoundsAreNat DEF Ticks
  <2>2. ASSUME NEW r \in done.rows, s.tick < r[1], r[1] <= e.tick
        PROVE  \E i \in 1..Len(v) : v[i].tick = r[1]
    <3>1. r[1] \in Ticks
      BY DEF TypeOK, States, Rows
    <3>2. CASE r[1] <= Latest
      <4>1. Covers(s, wal) /\ LastTick(s, wal) = Latest
        BY <1>1 DEF FilesInv
      <4>2. PICK i \in 1..Len(wal) : wal[i].tick = r[1]
        BY <2>2, <3>2, <4>1 DEF Covers
      <4>3. i \in 1..Len(v)
        BY <1>1, <1>2
      <4>4. QED
        BY <1>2, <4>2, <4>3
    <3>3. CASE e.tick <= r[1]
      <4>1. r[1] = e.tick
        BY <1>4, <2>2, <3>1, <3>3 DEF Ticks
      <4>2. Len(wal) + 1 \in 1..Len(v)
        BY <1>1, <1>2
      <4>3. QED
        BY <1>2, <4>1, <4>2
    <3>4. QED
      BY <3>2, <3>3
  <2>3. QED
    BY <1>6, <2>1, <2>2 DEF Covers
<1>13. Latest' <= done'.tick /\ \A r \in done'.rows : r[1] <= done'.tick
  BY <1>7 DEF FilesInv, Whole
<1>14. \A s \in snaps' : LastTick(s, wal') = Latest'
  BY <1>0, <1>6, <1>7
<1>15. QED
  BY <1>3, <1>7, <1>8, <1>9, <1>10, <1>11, <1>12, <1>13, <1>14, Zenon DEF FilesInv

(* A snapshot of the tables at the end of the last tick. *)
LEMMA SnapshotWritten ==
  ASSUME TypeOK, TypeOK', FilesInv, db = done, Latest = db.tick,
         snap' = db, snaps' = snaps \cup {db}, UNCHANGED <<wal, synced, old, done, safe>>
  PROVE  FilesInv' /\ Latest' = Latest
<1>1. Survivors' = Survivors
  BY DEF Survivors
<1>2. /\ Latest \in 0..MaxTick /\ safe <= Latest /\ wal \in Survivors
      /\ wal \in Seq(Entries) /\ Len(wal) \in Nat
  BY LatestType, WalTypes
<1>3. ASSUME NEW w \in Survivors PROVE LastTick(db, w) = Latest
  <2>1. Len(w) \in Nat /\ Faithful(w)
    BY WalTypes DEF FilesInv
  <2>2. Len(w) > 0 => w[Len(w)].tick <= Latest /\ w[Len(w)].tick \in Ticks
    BY <2>1, ElementTypes DEF Faithful
  <2>3. QED
    BY <1>2, <2>2, BoundsAreNat DEF LastTick, Ticks
<1>4. Latest' = Latest
  BY <1>2, <1>3 DEF Latest
<1>5. ASSUME NEW w \in Survivors PROVE Faithful(w)'
  <2>1. Faithful(w)
    BY DEF FilesInv
  <2>2. QED
    BY <1>4, <2>1 DEF Faithful
<1>6. ASSUME NEW s \in snaps PROVE AtTick(s)'
  <2>1. AtTick(s)
    BY DEF FilesInv
  <2>2. QED
    BY <1>4, <2>1 DEF AtTick
<1>7. AtTick(snap)'
  <2>1. \A r \in done.rows : r[1] <= done.tick
    BY DEF FilesInv
  <2>2. db.rows = {r \in done.rows : r[1] <= db.tick}
    BY <2>1
  <2>3. db \in States
    BY DEF TypeOK
  <2>4. QED
    BY <1>2, <1>4, <2>2, <2>3 DEF AtTick
<1>8. ASSUME NEW s \in snaps, NEW w \in Survivors PROVE Covers(s, w)'
  <2>1. Covers(s, w)
    BY DEF FilesInv
  <2>2. QED
    BY <2>1 DEF Covers
<1>9. ASSUME NEW w \in Survivors PROVE Covers(snap, w)'
  <2>1. \A r \in done.rows : r[1] \in Ticks
    BY DEF TypeOK, States, Rows
  <2>2. \A r \in done.rows : ~(db.tick < r[1] /\ r[1] <= LastTick(db, w))
    BY <1>2, <1>3, <2>1 DEF Ticks
  <2>3. QED
    BY <1>2, <1>3, <2>2 DEF Covers
<1>10. \A s \in snaps' : LastTick(s, wal') = Latest'
  BY <1>2, <1>3, <1>4 DEF FilesInv
<1>11. Latest' <= done'.tick /\ \A r \in done'.rows : r[1] <= done'.tick
  BY <1>4 DEF FilesInv
<1>12. QED
  BY <1>1, <1>4, <1>5, <1>6, <1>7, <1>8, <1>9, <1>10, <1>11, Zenon DEF FilesInv

(* The snapshot, on stable storage, has all that the WAL had. *)
LEMMA WalTruncated ==
  ASSUME TypeOK, TypeOK', FilesInv, snaps = {snap}, Latest = snap.tick,
         old' = Survivors, wal' = <<>>, synced' = 0,
         UNCHANGED <<snap, snaps, done, safe>>
  PROVE  FilesInv' /\ Latest' = Latest
<1>0. PICK v : v = <<>> /\ wal' = v /\ v \in Seq(Entries) /\ Len(v) = 0
  BY EmptySeq
<1>1. Survivors' = Survivors \cup {v}
  BY <1>0, TruncatedSurvivors
<1>2. Latest \in 0..MaxTick /\ safe <= Latest
  BY LatestType
<1>3. LastTick(snap, v) = Latest
  BY <1>0, <1>2 DEF LastTick
<1>4. Latest' = Latest
  BY <1>0, <1>3 DEF Latest
<1>5. ASSUME NEW w \in Survivors PROVE Faithful(w)'
  <2>1. Faithful(w)
    BY DEF FilesInv
  <2>2. QED
    BY <1>4, <2>1 DEF Faithful
<1>6. Faithful(v)'
  BY <1>0 DEF Faithful
<1>7. AtTick(snap)'
  <2>1. AtTick(snap)
    BY DEF FilesInv
  <2>2. QED
    BY <1>4, <2>1 DEF AtTick
<1>8. ASSUME NEW w \in Survivors PROVE Covers(snap, w)'
  <2>1. Covers(snap, w)
    BY DEF FilesInv
  <2>2. QED
    BY <2>1 DEF Covers
<1>9. Covers(snap, v)'
  <2>1. \A r \in done.rows : r[1] \in Ticks
    BY DEF TypeOK, States, Rows
  <2>2. \A r \in done.rows : ~(snap.tick < r[1] /\ r[1] <= LastTick(snap, v))
    BY <1>2, <1>3, <2>1 DEF Ticks
  <2>3. QED
    BY <1>2, <1>3, <2>2 DEF Covers
<1>10. Latest' <= done'.tick /\ \A r \in done'.rows : r[1] <= done'.tick
  BY <1>4 DEF FilesInv
<1>11. \A s \in snaps' : AtTick(s)' /\ LastTick(s, wal') = Latest'
  BY <1>0, <1>3, <1>4, <1>7
<1>12. \A s \in snaps', w \in Survivors' : Covers(s, w)'
  BY <1>1, <1>8, <1>9
<1>13. QED
  BY <1>1, <1>4, <1>5, <1>6, <1>10, <1>11, <1>12, Zenon DEF FilesInv

(* The ticks after the last that is left are gone from the tables too. *)
LEMMA TicksLost ==
  ASSUME TypeOK, TypeOK', FilesInv, NEW s0 \in snaps, NEW w0 \in Survivors,
         Latest' = LastTick(s0, w0), done' = Recovery(s0, w0), safe' = safe,
         Survivors' \subseteq Survivors, snaps' \subseteq snaps, wal' \in Survivors,
         \A s \in snaps' : LastTick(s, wal') = Latest',
         \A s \in snaps', w \in Survivors' : LastTick(s, w) <= Latest'
  PROVE  FilesInv' /\ done'.tick = Latest'
<1>1. /\ done' = UpTo(done, Latest') /\ Latest' \in 0..MaxTick
  BY RecoveryExact
<1>2. done'.tick = Latest' /\ done'.rows = {r \in done.rows : r[1] <= Latest'}
  BY <1>1 DEF UpTo
<1>3. ASSUME NEW w \in Survivors', NEW s \in snaps'
      PROVE  \A i \in 1..Len(w) : w[i].tick <= Latest'
  <2>1. AtTick(s) /\ Faithful(w) /\ s \in snaps /\ w \in Survivors
    BY DEF FilesInv
  <2>2. \A i \in 1..Len(w) : w[i].tick <= LastTick(s, w) /\ w[i].tick \in Ticks
    BY <2>1, LastTickBounds, ElementTypes
  <2>3. LastTick(s, w) \in 0..MaxTick
    BY <2>1, LastTickBounds
  <2>4. QED
    BY <1>1, <2>2, <2>3, BoundsAreNat DEF Ticks
<1>4. ASSUME NEW w \in Survivors' PROVE Faithful(w)'
  <2>1. Faithful(w)
    BY DEF FilesInv
  <2>2. snap' \in snaps'
    BY DEF TypeOK
  <2>3. \A i \in 1..Len(w) : w[i].tick <= Latest'
    BY <1>3, <2>2
  <2>4. QED
    BY <1>2, <2>1, <2>3 DEF Faithful
<1>5. ASSUME NEW s \in snaps' PROVE AtTick(s)'
  <2>1. AtTick(s) /\ Faithful(wal')
    BY DEF FilesInv
  <2>2. s.tick \in 0..MaxTick /\ s.tick <= LastTick(s, wal')
    BY <2>1, LastTickBounds
  <2>3. \A r \in done.rows : r[1] \in Ticks
    BY DEF TypeOK, States, Rows
  <2>4. s.tick <= Latest'
    BY <2>2
  <2>5. s.rows = {r \in done'.rows : r[1] <= s.tick}
    BY <1>1, <1>2, <2>1, <2>2, <2>3, <2>4 DEF AtTick, Ticks
  <2>6. QED
    BY <2>1, <2>4, <2>5 DEF AtTick
<1>6. ASSUME NEW s \in snaps', NEW w \in Survivors' PROVE Covers(s, w)'
  <2>1. Covers(s, w)
    BY DEF FilesInv
  <2>2. QED
    BY <1>2, <2>1 DEF Covers
<1>7. Latest' <= done'.tick /\ \A r \in done'.rows : r[1] <= done'.tick
  BY <1>1, <1>2
<1>8. QED
  BY <1>2, <1>4, <1>5, <1>6, <1>7, Zenon DEF FilesInv

-----------------------------------------------------------------------------
(* Types *)

LEMMA RecoveryType ==
  ASSUME TypeOK, FilesInv, NEW s \in snaps, NEW w \in Survivors
  PROVE  Recovery(s, w) \in States
<1>1. Recovery(s, w) = UpTo(done, LastTick(s, w)) /\ LastTick(s, w) \in 0..MaxTick
  BY RecoveryExact
<1>2. QED
  BY <1>1 DEF UpTo, TypeOK, States

LEMMA EmptyTypes ==
  /\ Nothing \in States
  /\ Blank \in [tick : 0..MaxTick, commands : SUBSET Commands]
  /\ Default \in [mode : Modes, sync_on_commit : BOOLEAN]
<1>1. Nothing \in States
  BY BoundsAreNat DEF Nothing, States
<1>2. Blank \in [tick : 0..MaxTick, commands : SUBSET Commands]
  BY BoundsAreNat DEF Blank
<1>3. Default \in [mode : Modes, sync_on_commit : BOOLEAN]
  BY DEF Default, Modes
<1>4. QED
  BY <1>1, <1>2, <1>3

LEMMA InitTypeOK == Init => TypeOK
<1> SUFFICES ASSUME Init PROVE TypeOK
  OBVIOUS
<1>1. wal \in Seq(Entries) /\ synced \in 0..Len(wal)
  BY EmptySeq DEF Init
<1>2. open \in BOOLEAN /\ config \in [mode : Modes, sync_on_commit : BOOLEAN]
  BY EmptyTypes, Zenon DEF Init
<1>3. db \in States /\ done \in States /\ snap \in snaps /\ \A s \in snaps : s \in States
  BY EmptyTypes, Zenon DEF Init
<1>4. active \in [tick : 0..MaxTick, commands : SUBSET Commands]
  BY EmptyTypes, Zenon DEF Init
<1>5. recovered \in 0..MaxTick /\ safe \in 0..MaxTick /\ faults \in 0..MaxFaults
  BY BoundsAreNat DEF Init
<1>6. \A w \in old : w \in Seq(Entries)
  BY DEF Init
<1>7. /\ phase \in {"closed", "open", "finalized"} /\ pending \in Entries \cup {NULL}
      /\ written \in {"none", "part", "all"} /\ io \in Calls
  BY DEF Init, Calls
<1>8. QED
  BY <1>1, <1>2, <1>3, <1>4, <1>5, <1>6, <1>7, Zenon DEF TypeOK

LEMMA ForgetTypes ==
  ASSUME Forget
  PROVE  /\ open' \in BOOLEAN /\ config' \in [mode : Modes, sync_on_commit : BOOLEAN]
         /\ db' \in States /\ active' \in [tick : 0..MaxTick, commands : SUBSET Commands]
         /\ phase' \in {"closed", "open", "finalized"} /\ pending' \in Entries \cup {NULL}
         /\ written' \in {"none", "part", "all"} /\ io' \in Calls /\ recovered' \in 0..MaxTick
<1>1. open' \in BOOLEAN /\ config' \in [mode : Modes, sync_on_commit : BOOLEAN]
  BY EmptyTypes, Zenon DEF Forget
<1>2. db' \in States /\ active' \in [tick : 0..MaxTick, commands : SUBSET Commands]
  BY EmptyTypes, Zenon DEF Forget
<1>3. /\ phase' \in {"closed", "open", "finalized"} /\ pending' \in Entries \cup {NULL}
      /\ written' \in {"none", "part", "all"} /\ io' \in Calls /\ recovered' \in 0..MaxTick
  BY BoundsAreNat DEF Forget, Calls
<1>4. QED
  BY <1>1, <1>2, <1>3

LEMMA TypeStep ==
  ASSUME TypeOK, FilesInv, ProcessInv, [Next]_vars
  PROVE  TypeOK'
<1> USE DEF vars, process, files
<1>0. /\ wal \in Seq(Entries) /\ Len(wal) \in Nat /\ wal \in Survivors
      /\ snap \in snaps /\ Latest \in 0..MaxTick /\ done.tick \in 0..MaxTick
  BY WalTypes, LatestType
<1>1. ASSUME NEW m \in Modes, NEW b \in BOOLEAN, Open(m, b) PROVE TypeOK'
  <2>1. Recovery(snap, wal) \in States /\ LastTick(snap, wal) \in 0..MaxTick
    BY <1>0, RecoveryType, RecoveryExact
  <2>2. QED
    BY <1>1, <2>1 DEF Open, TypeOK
<1>2. ASSUME NEW t \in Ticks, Begin_tick(t) PROVE TypeOK'
  BY <1>2, BoundsAreNat DEF Begin_tick, TypeOK, States, Ticks
<1>3. ASSUME NEW c \in Commands, Row_command(c) PROVE TypeOK'
  <2>1. db.tick \in Ticks
    BY <1>0, <1>3, BoundsAreNat DEF Row_command, ProcessInv, TypeOK, States, Ticks
  <2>2. db' \in States
    BY <1>3, <2>1 DEF Row_command, TypeOK, States, Rows
  <2>3. QED
    BY <1>3, <2>2 DEF Row_command, TypeOK
<1>4. CASE End_tick
  <2>1. active \in Entries
    BY <1>0, <1>4, BoundsAreNat DEF End_tick, ProcessInv, TypeOK, States, Entries, Ticks
  <2>2. QED
    BY <1>4, <2>1, BoundsAreNat DEF End_tick, Seal, Blank, TypeOK, Calls
<1>5. CASE End_tick_again
  BY <1>5 DEF End_tick_again, TypeOK, Calls
<1>6. CASE Flush_bounded
  BY <1>6 DEF Flush_bounded, TypeOK, Calls
<1>7. CASE Flush
  BY <1>7 DEF Flush, TypeOK, Calls
<1>8. CASE Checkpoint
  BY <1>8 DEF Checkpoint, TypeOK, Calls
<1>9. CASE Write_part
  BY <1>9 DEF Write_part, TypeOK, Calls
<1>10. CASE Write_rest
  <2>1. pending \in Entries
    BY <1>10 DEF Write_rest, Draining, TypeOK
  <2>2. wal' \in Seq(Entries) /\ Len(wal') = Len(wal) + 1
    BY <1>0, <1>10, <2>1, AppendProperties DEF Write_rest
  <2>3. synced' \in 0..Len(wal')
    BY <1>0, <1>10, <2>2 DEF Write_rest, TypeOK
  <2>4. QED
    BY <1>10, <2>2, <2>3 DEF Write_rest, TypeOK
<1>11. CASE Commit
  <2>1. pending.tick \in 0..MaxTick
    BY <1>11 DEF Commit, Draining, TypeOK, Entries, Ticks
  <2>2. synced' \in 0..Len(wal') /\ \A w \in old' : w \in Seq(Entries)
    BY <1>0, <1>11 DEF Commit, SyncWal, TypeOK
  <2>3. safe' \in 0..MaxTick
    BY <1>11, <2>1 DEF Commit, TypeOK
  <2>4. QED
    BY <1>11, <2>1, <2>2, <2>3 DEF Commit, TypeOK, Calls
<1>12. CASE Flush_sync
  BY <1>0, <1>12 DEF Flush_sync, SyncWal, TypeOK, States, Calls
<1>13. CASE Write_snapshot
  BY <1>13 DEF Write_snapshot, TypeOK, Calls
<1>14. CASE Sync_directory
  BY <1>14 DEF Sync_directory, TypeOK, Calls
<1>15. CASE Truncate_wal
  <2>1. \A w \in Survivors : w \in Seq(Entries)
    BY WalTypes
  <2>2. wal' \in Seq(Entries) /\ synced' \in 0..Len(wal')
    BY <1>15, EmptySeq DEF Truncate_wal
  <2>3. QED
    BY <1>15, <2>1, <2>2 DEF Truncate_wal, TypeOK, Calls
<1>16. CASE Sync_wal
  BY <1>0, <1>16 DEF Sync_wal, SyncWal, TypeOK, States, Calls
<1>17. CASE Io_fails
  BY <1>17, BoundsAreNat DEF Io_fails, Fault, TypeOK, Calls
<1>18. CASE Stop
  <2>1. Recovery(snap, wal) \in States
    BY <1>0, RecoveryType
  <2>2. Forget /\ faults' \in 0..MaxFaults
    BY <1>18, BoundsAreNat DEF Stop, Fault, TypeOK
  <2>3. QED
    BY <1>18, <2>1, <2>2, ForgetTypes DEF Stop, TypeOK
<1>19. CASE Power_loss
  <2>1. PICK w \in Survivors, s \in snaps :
          wal' = w /\ synced' = Len(w) /\ snap' = s /\ snaps' = {s} /\ done' = Recovery(s, w)
    BY <1>19 DEF Power_loss
  <2>2. Recovery(s, w) \in States /\ w \in Seq(Entries) /\ Len(w) \in Nat /\ s \in States
    BY RecoveryType, WalTypes DEF TypeOK
  <2>3. Forget /\ faults' \in 0..MaxFaults
    BY <1>19, BoundsAreNat DEF Power_loss, Fault, TypeOK
  <2>4. QED
    BY <1>19, <2>1, <2>2, <2>3, ForgetTypes DEF Power_loss, TypeOK
<1>20. CASE UNCHANGED vars
  BY <1>20 DEF TypeOK
<1>21. QED
  BY <1>1, <1>2, <1>3, <1>4, <1>5, <1>6, <1>7, <1>8, <1>9, <1>10, <1>11, <1>12,
     <1>13, <1>14, <1>15, <1>16, <1>17, <1>18, <1>19, <1>20, Zenon DEF Next

-----------------------------------------------------------------------------
(* The inductive invariant *)

LEMMA TickTypes ==
  ASSUME TypeOK, FilesInv
  PROVE  /\ db.tick \in Nat /\ done.tick \in Nat /\ active.tick \in Nat
         /\ Latest \in Nat /\ recovered \in Nat /\ safe \in Nat
         /\ pending # NULL => pending \in Entries /\ pending.tick \in Nat
         /\ \A r \in done.rows : r[1] \in Nat /\ r[1] <= done.tick /\ r = <<r[1], r[2]>>
         /\ active.commands \subseteq Commands
         /\ Latest <= done.tick /\ safe <= Latest
<1>1. db.tick \in Nat /\ active.tick \in Nat /\ recovered \in Nat
  BY BoundsAreNat DEF TypeOK, States
<1>2. pending # NULL => pending \in Entries /\ pending.tick \in Nat
  BY BoundsAreNat DEF TypeOK, Entries, Ticks
<1>3. \A r \in done.rows : r[1] \in Nat /\ r[1] <= done.tick /\ r = <<r[1], r[2]>>
  BY BoundsAreNat DEF TypeOK, States, Rows, Ticks, FilesInv
<1>4. active.commands \subseteq Commands
  BY DEF TypeOK
<1>5. /\ done.tick \in Nat /\ Latest \in Nat /\ safe \in Nat
      /\ Latest <= done.tick /\ safe <= Latest
  BY LatestType, BoundsAreNat
<1>6. QED
  BY <1>1, <1>2, <1>3, <1>4, <1>5

LEMMA InitInv == Init => IInv
<1> SUFFICES ASSUME Init PROVE IInv
  OBVIOUS
<1>1. TypeOK
  BY InitTypeOK
<1>2. Len(wal) = 0 /\ wal \in Seq(Entries)
  BY EmptySeq DEF Init
<1>0. /\ snaps = {snap} /\ snap.tick = 0 /\ snap.rows = {} /\ snap \in States
      /\ done.tick = 0 /\ done.rows = {} /\ safe = 0
  BY EmptyTypes DEF Init, Nothing
<1>3. Latest = 0 /\ LastTick(snap, wal) = 0 /\ \A s \in snaps : LastTick(s, wal) = 0
  BY <1>0, <1>2 DEF Latest, LastTick
<1>4. \A w \in Survivors : w = wal
  <2>1. synced..Len(wal) = {0}
    BY <1>2 DEF Init
  <2>2. SubSeq(wal, 1, 0) = wal
    BY SubSeqEmpty DEF Init
  <2>3. QED
    BY <2>1, <2>2 DEF Survivors, Init
<1>5. \A w \in Survivors : Faithful(w)
  <2>1. 1..Len(wal) = {}
    BY <1>2
  <2>2. QED
    BY <1>2, <1>4, <2>1 DEF Faithful
<1>6. \A s \in snaps : AtTick(s)
  BY <1>0, <1>3 DEF AtTick
<1>7. \A s \in snaps, w \in Survivors : Covers(s, w)
  BY <1>0, <1>3, <1>4 DEF Covers
<1>8. FilesInv
  BY <1>0, <1>3, <1>5, <1>6, <1>7 DEF FilesInv
<1>9. ProcessInv
  BY <1>0, <1>3 DEF ProcessInv, Init
<1>10. Accounted
  BY DEF Accounted, Init
<1>11. QED
  BY <1>1, <1>8, <1>9, <1>10 DEF IInv

LEMMA Opened ==
  ASSUME IInv, TypeOK', NEW m \in Modes, NEW b \in BOOLEAN, Open(m, b)
  PROVE  IInv'
<1>1. FilesInv' /\ Latest' = Latest
  BY FilesFrame DEF IInv, Open, files, Latest
<1>2. snap \in snaps /\ wal \in Survivors /\ LastTick(snap, wal) = Latest
  BY LatestType DEF IInv
<1>3. Recovery(snap, wal) = UpTo(done, Latest) /\ done.tick = Latest
  BY <1>2, RecoveryExact DEF IInv, ProcessInv, Open
<1>4. UpTo(done, Latest) = done
  <2>1. \A r \in done.rows : r[1] <= done.tick
    BY DEF IInv, FilesInv
  <2>2. {r \in done.rows : r[1] <= done.tick} = done.rows
    BY <2>1
  <2>3. done = [tick |-> done.tick, rows |-> done.rows]
    BY DEF IInv, TypeOK, States
  <2>4. QED
    BY <1>3, <2>2, <2>3, Zenon DEF UpTo
<1>5. db' = done
  BY <1>3, <1>4 DEF Open
<1>6. Latest \in Nat
  BY TickTypes DEF IInv
<1>7. ProcessInv'
  BY <1>1, <1>2, <1>3, <1>5, <1>6 DEF IInv, ProcessInv, Open, files
<1>8. Accounted'
  <2>1. LastTick(snap, wal)' = Latest /\ recovered' = Latest
    BY <1>2 DEF Open, files
  <2>2. \A r \in done.rows : r[1] <= Latest
    BY <1>3 DEF IInv, FilesInv
  <2>3. QED
    BY <1>6, <2>1, <2>2 DEF Accounted, Open
<1>9. QED
  BY <1>1, <1>7, <1>8 DEF IInv

LEMMA Begun ==
  ASSUME IInv, TypeOK', NEW t \in Ticks, Begin_tick(t)
  PROVE  IInv'
<1> USE DEF IInv
<1>1. FilesInv' /\ Latest' = Latest
  BY FilesFrame DEF Begin_tick, files, Latest
<1>2. t \in Nat
  BY DEF Ticks
<1>3. ProcessInv'
  BY <1>1, <1>2, TickTypes DEF ProcessInv, Begin_tick, Free, Whole, files
<1>4. Accounted'
  BY DEF Accounted, Begin_tick, files
<1>5. QED
  BY <1>1, <1>3, <1>4

LEMMA RowChanged ==
  ASSUME IInv, TypeOK', NEW c \in Commands, Row_command(c)
  PROVE  IInv'
<1> USE DEF IInv
<1>1. FilesInv' /\ Latest' = Latest
  BY FilesFrame DEF Row_command, files, Latest
<1>2. db'.tick = db.tick /\ active'.tick = active.tick
  BY DEF Row_command, TypeOK, States
<1>3. db'.rows = done'.rows \cup ({db'.tick} \X active'.commands)
  <2>1. /\ db'.rows = db.rows \cup {<<db.tick, c>>} /\ done' = done
        /\ active'.commands = active.commands \cup {c}
    BY DEF Row_command, TypeOK, States
  <2>2. db.rows = done.rows \cup ({db.tick} \X active.commands)
    BY DEF Row_command, ProcessInv
  <2>3. {db.tick} \X (active.commands \cup {c})
          = ({db.tick} \X active.commands) \cup {<<db.tick, c>>}
    OBVIOUS
  <2>4. QED
    BY <1>2, <2>1, <2>2, <2>3
<1>4. ProcessInv'
  BY <1>1, <1>2, <1>3, TickTypes DEF ProcessInv, Row_command, Free, Whole, files
<1>5. Accounted'
  BY DEF Accounted, Row_command, files
<1>6. QED
  BY <1>1, <1>4, <1>5

(* What a tick that is ending adds to those that ended. *)
LEMMA EndingTick ==
  ASSUME IInv, open, phase # "closed"
  PROVE  /\ db.tick \in Ticks /\ active \in Entries /\ active.tick = db.tick
         /\ Latest < db.tick
         /\ \A c \in Commands : c \in active.commands <=> <<db.tick, c>> \in db.rows
         /\ phase = "open" => /\ done.tick < db.tick
                               /\ db = [tick |-> db.tick, rows |-> done.rows \cup
                                                            ({db.tick} \X active.commands)]
         /\ phase = "finalized" => db = done
         /\ \A r \in db.rows : r[1] <= db.tick /\ (r \in done.rows \/ r[1] = db.tick)
<1> USE DEF IInv
<1>1. active.tick = db.tick /\ Latest < db.tick
  BY DEF ProcessInv
<1>2. db.tick \in Ticks /\ active \in Entries
  <2>1. db.tick \in 0..MaxTick /\ db.tick > 0
    BY <1>1, TickTypes DEF TypeOK, States
  <2>2. db.tick \in Ticks
    BY <2>1, BoundsAreNat DEF Ticks
  <2>3. active = [tick |-> active.tick, commands |-> active.commands]
        /\ active.commands \in SUBSET Commands
    BY DEF TypeOK
  <2>4. QED
    BY <1>1, <2>2, <2>3 DEF Entries
<1>3. CASE phase = "open"
  <2>1. done.tick < db.tick /\ db.rows = done.rows \cup ({db.tick} \X active.commands)
    BY <1>3 DEF ProcessInv
  <2>2. db = [tick |-> db.tick, rows |-> db.rows]
    BY DEF TypeOK, States
  <2>3. \A r \in done.rows : r[1] < db.tick
    BY <2>1, TickTypes
  <2>4. \A r \in db.rows : r[1] <= db.tick /\ (r \in done.rows \/ r[1] = db.tick)
    BY <2>1, <2>3, TickTypes
  <2>5. \A c \in Commands : c \in active.commands <=> <<db.tick, c>> \in db.rows
    <3> TAKE c \in Commands
    <3>1. <<db.tick, c>> \notin done.rows
      BY <2>3, TickTypes
    <3>2. QED
      BY <2>1, <3>1
  <2>6. QED
    BY <1>1, <1>2, <1>3, <2>1, <2>2, <2>4, <2>5, Zenon
<1>4. CASE phase = "finalized"
  <2>1. db = done /\ Whole(active)
    BY <1>4 DEF ProcessInv
  <2>2. QED
    BY <1>1, <1>2, <1>4, <2>1, TickTypes DEF Whole
<1>5. QED
  BY <1>3, <1>4 DEF TypeOK

LEMMA Ended ==
  ASSUME IInv, TypeOK', End_tick
  PROVE  IInv'
<1> USE DEF IInv
<1>1. /\ open /\ phase # "closed" /\ done' = db
      /\ UNCHANGED <<open, config, db, recovered, files, safe, faults>>
  BY DEF End_tick, Free
<1>2. Latest' = Latest /\ active.tick = db.tick /\ db.tick \in Nat /\ Latest < db.tick
  BY <1>1, EndingTick DEF Latest, files, Ticks
<1>3. FilesInv'
  <2>1. CASE phase = "open"
    BY <1>1, <2>1, EndingTick, TickEnds, TickTypes
  <2>2. CASE phase = "finalized"
    BY <1>1, <2>2, EndingTick, FilesFrame
  <2>3. QED
    BY <1>1, <2>1, <2>2 DEF TypeOK
<1>4. \A c \in Commands : c \in active.commands <=> <<active.tick, c>> \in done'.rows
  BY <1>1, <1>2, EndingTick
<1>5. ProcessInv'
  <2>1. CASE pending = NULL
    <3>1. pending' = active /\ written' = "none" /\ phase' = "closed"
      BY <2>1 DEF End_tick, Seal
    <3>2. pending' # NULL
      BY <1>1, <3>1, EndingTick, NullIsNoEntry
    <3>3. Whole(pending)'
      BY <1>1, <1>2, <1>4, <3>1 DEF Whole
    <3>4. io' \in {"idle", "bounded", "end_tick"}
      BY <2>1 DEF End_tick, Free, Seal
    <3>5. QED
      BY <1>1, <1>2, <3>1, <3>2, <3>3, <3>4 DEF ProcessInv
  <2>2. CASE pending # NULL
    <3>1. phase' = "finalized" /\ UNCHANGED <<active, pending, written, io>>
      BY <2>2 DEF End_tick
    <3>2. pending.tick < db.tick /\ Whole(pending)
      BY <1>1, <2>2 DEF ProcessInv, TypeOK
    <3>3. Whole(active)'
      BY <1>1, <1>2, <1>4, <3>1 DEF Whole
    <3>4. Whole(pending)'
      <4>1. \A c \in Commands : <<pending.tick, c>> \in db.rows
                                 <=> <<pending.tick, c>> \in done.rows
        <5> TAKE c \in Commands
        <5>1. <<pending.tick, c>> \in db.rows => <<pending.tick, c>> \in done.rows
          <6>1. <<pending.tick, c>>[1] # db.tick
            BY <2>2, <3>2, TickTypes
          <6>2. QED
            BY <1>1, <6>1, EndingTick
        <5>2. done.rows \subseteq db.rows
          <6>1. CASE phase = "open"
            BY <1>1, <6>1, EndingTick
          <6>2. CASE phase = "finalized"
            BY <1>1, <6>2, EndingTick
          <6>3. QED
            BY <1>1, <6>1, <6>2 DEF TypeOK
        <5>3. QED
          BY <5>1, <5>2
      <4>2. QED
        BY <1>1, <1>2, <2>2, <3>1, <3>2, <4>1, TickTypes DEF Whole
    <3>5. UNCHANGED <<wal, snap, snaps>>
      BY <1>1 DEF files
    <3>6. io' \in {"idle", "bounded"}
      BY <3>1 DEF End_tick, Free
    <3>7. QED
      BY <1>1, <1>2, <2>2, <3>1, <3>2, <3>3, <3>4, <3>5, <3>6 DEF ProcessInv
  <2>3. QED
    BY <2>1, <2>2
<1>6. Accounted'
  <2>1. \A r \in done'.rows : r \in done.rows \/ r[1] = active.tick
    BY <1>1, <1>2, EndingTick
  <2>2. /\ \/ pending = NULL /\ pending' = active /\ pending' # NULL
           \/ pending # NULL /\ pending' = pending /\ phase' = "finalized" /\ active' = active
        /\ phase = "finalized" => done' = done
    <3>1. active # NULL
      BY <1>1, EndingTick, NullIsNoEntry
    <3>2. QED
      BY <1>1, <3>1, EndingTick DEF End_tick, Seal
  <2>3. LastTick(snap, wal)' = LastTick(snap, wal) /\ recovered' = recovered
    BY <1>1 DEF files
  <2>4. QED
    BY <1>1, <2>1, <2>2, <2>3 DEF Accounted
<1>7. QED
  BY <1>3, <1>5, <1>6

(* Calls that start or continue, and change nothing else. *)
LEMMA Called ==
  ASSUME IInv, TypeOK',
         End_tick_again \/ Flush_bounded \/ Flush \/ Checkpoint \/ Write_part \/ Io_fails
  PROVE  IInv'
<1> USE DEF IInv
<1>1. UNCHANGED <<open, config, db, phase, active, pending, recovered, files, done, safe>>
  BY DEF End_tick_again, Flush_bounded, Flush, Checkpoint, Write_part, Io_fails
<1>2. FilesInv' /\ Latest' = Latest
  BY <1>1, FilesFrame DEF files, Latest
<1>3. ProcessInv'
  <2>1. CASE Write_part
    BY <1>1, <1>2, <2>1 DEF ProcessInv, Write_part, Draining, Whole, files
  <2>2. CASE ~Write_part
    <3>1. UNCHANGED written /\ io' \in {"idle", "end_tick", "bounded", "flush", "write_snapshot"}
      BY <2>2 DEF End_tick_again, Flush_bounded, Flush, Checkpoint, Io_fails
    <3>2. /\ io' # "idle" => open
          /\ io' \in {"flush", "write_snapshot"} => phase = "closed"
          /\ io' = "write_snapshot" => pending = NULL
      BY <2>2 DEF End_tick_again, Flush_bounded, Flush, Checkpoint, Io_fails
    <3>3. QED
      BY <1>1, <1>2, <3>1, <3>2 DEF ProcessInv, Whole, files
  <2>3. QED
    BY <2>1, <2>2
<1>4. Accounted'
  BY <1>1 DEF Accounted, files
<1>5. QED
  BY <1>2, <1>3, <1>4

LEMMA Written ==
  ASSUME IInv, TypeOK', Write_rest
  PROVE  IInv'
<1> USE DEF IInv
<1>1. /\ pending \in Entries /\ pending # NULL /\ Whole(pending) /\ Latest < pending.tick
      /\ open
  BY TickTypes DEF Write_rest, Draining, ProcessInv
<1>2. \A r \in done.rows : r[1] <= Latest \/ pending.tick <= r[1]
  <2> TAKE r \in done.rows
  <2>1. CASE r[1] <= recovered
    BY <1>1, <2>1, LatestType, TickTypes DEF Accounted
  <2>2. CASE r[1] = pending.tick
    BY <1>1, <2>2, TickTypes
  <2>3. CASE phase = "finalized" /\ r[1] = active.tick
    BY <1>1, <2>3, TickTypes DEF ProcessInv
  <2>4. QED
    BY <1>1, <2>1, <2>2, <2>3 DEF Accounted
<1>3. FilesInv' /\ Latest' = pending.tick
  BY <1>1, <1>2, TickWritten DEF Write_rest
<1>4. /\ wal \in Seq(Entries) /\ wal' = Append(wal, pending)
      /\ Len(wal') > 0 /\ wal'[Len(wal')] = pending
  <2>1. wal \in Seq(Entries) /\ wal' = Append(wal, pending)
    BY WalTypes DEF Write_rest
  <2>2. QED
    BY <1>1, <2>1, AppendProperties, LenProperties
<1>5. ProcessInv'
  <2>1. UNCHANGED <<open, config, db, phase, active, pending, recovered, io, snap, snaps, done>>
        /\ written' = "all"
    BY DEF Write_rest
  <2>2. phase # "closed" => pending.tick < db.tick
    BY <1>1 DEF ProcessInv, TypeOK
  <2>3. io \in {"end_tick", "flush", "bounded"}
    BY DEF Write_rest, Draining
  <2>4. QED
    BY <1>1, <1>3, <1>4, <2>1, <2>2, <2>3 DEF ProcessInv, Whole
<1>6. Accounted'
  <2>1. UNCHANGED <<open, phase, active, pending, recovered, done>>
    BY DEF Write_rest
  <2>2. LastTick(snap, wal)' = pending.tick
    BY <1>3 DEF Latest
  <2>3. recovered <= pending.tick
    BY <1>1, LatestType, TickTypes DEF Accounted
  <2>4. QED
    BY <2>1, <2>2, <2>3 DEF Accounted
<1>7. QED
  BY <1>3, <1>5, <1>6

LEMMA Committed ==
  ASSUME IInv, TypeOK', Commit
  PROVE  IInv'
<1> USE DEF IInv
<1>1. /\ pending # NULL /\ pending.tick = Latest /\ open
      /\ io \in {"end_tick", "flush", "bounded"}
  BY DEF Commit, Draining, ProcessInv
<1>2. UNCHANGED <<open, config, db, phase, active, wal, snap, snaps, done>> /\ Latest' = Latest
  BY DEF Commit, Latest
<1>3. FilesInv'
  <2>1. CASE config.sync_on_commit
    <3>1. SyncWal /\ safe' = pending.tick
      BY <2>1 DEF Commit
    <3>2. Survivors' = {wal} /\ Survivors' \subseteq Survivors
      BY <1>2, <3>1, SyncedSurvivors
    <3>3. \A s \in snaps', w \in Survivors' : safe' <= LastTick(s, w)
      BY <1>1, <1>2, <3>1, <3>2, TickTypes DEF FilesInv
    <3>4. QED
      BY <1>2, <3>2, <3>3, Narrowed
  <2>2. CASE ~config.sync_on_commit
    <3>1. UNCHANGED <<files, done, safe>>
      BY <1>2, <2>2 DEF Commit, files
    <3>2. QED
      BY <3>1, FilesFrame
  <2>3. QED
    BY <2>1, <2>2
<1>4. pending' = NULL /\ written' = "none" /\ recovered' = Latest
      /\ io' = IF io = "flush" THEN "flush" ELSE "idle"
  BY <1>1 DEF Commit
<1>5. ProcessInv'
  BY <1>1, <1>2, <1>4, TickTypes DEF ProcessInv, Whole
<1>6. Accounted'
  <2>1. LastTick(snap, wal)' = Latest
    BY <1>2 DEF Latest
  <2>2. \A r \in done.rows : r[1] <= recovered => r[1] <= Latest
    BY <1>1, LatestType, TickTypes DEF Accounted
  <2>3. QED
    BY <1>1, <1>2, <1>4, <2>1, <2>2, TickTypes DEF Accounted
<1>7. QED
  BY <1>3, <1>5, <1>6

LEMMA Synced ==
  ASSUME IInv, TypeOK', Flush_sync \/ Sync_wal
  PROVE  IInv'
<1> USE DEF IInv
<1>1. /\ open /\ phase = "closed" /\ pending = NULL /\ Latest = db.tick
  BY DEF Flush_sync, Sync_wal, ProcessInv
<1>2. /\ UNCHANGED <<open, config, db, phase, active, pending, written, recovered,
                     wal, snap, snaps, done>>
      /\ SyncWal /\ safe' = db.tick /\ io' = "idle" /\ Latest' = Latest
  BY DEF Flush_sync, Sync_wal, Latest
<1>3. Survivors' = {wal} /\ Survivors' \subseteq Survivors
  BY <1>2, SyncedSurvivors
<1>4. \A s \in snaps', w \in Survivors' : safe' <= LastTick(s, w)
  BY <1>1, <1>2, <1>3, TickTypes DEF FilesInv
<1>5. FilesInv'
  BY <1>2, <1>3, <1>4, Narrowed
<1>6. ProcessInv'
  BY <1>1, <1>2 DEF ProcessInv, Whole
<1>7. Accounted'
  BY <1>2 DEF Accounted
<1>8. QED
  BY <1>5, <1>6, <1>7

LEMMA Checkpointed ==
  ASSUME IInv, TypeOK', Write_snapshot \/ Sync_directory \/ Truncate_wal
  PROVE  IInv'
<1> USE DEF IInv
<1>1. /\ open /\ phase = "closed" /\ pending = NULL /\ Latest = db.tick /\ db = done
      /\ io # "idle"
  BY DEF Write_snapshot, Sync_directory, Truncate_wal, ProcessInv
<1>2. /\ UNCHANGED <<open, config, db, phase, active, pending, written, recovered, done, safe>>
      /\ io' \in {"sync_directory", "truncate_wal", "sync_wal"}
  BY DEF Write_snapshot, Sync_directory, Truncate_wal
<1>3. FilesInv' /\ Latest' = Latest /\ snap' = db /\ (io' # "sync_directory" => snaps' = {snap'})
  <2>1. CASE Write_snapshot
    BY <1>1, <2>1, SnapshotWritten DEF Write_snapshot
  <2>2. CASE Sync_directory
    <3>1. UNCHANGED <<wal, synced, old, snap>> /\ snaps' = {snap} /\ snap \in snaps /\ snap = db
      BY <2>2 DEF Sync_directory, ProcessInv, TypeOK
    <3>2. Survivors' = Survivors /\ Latest' = Latest
      BY <3>1 DEF Survivors, Latest
    <3>3. \A s \in snaps', w \in Survivors' : safe' <= LastTick(s, w)
      BY <1>2, <3>1, <3>2 DEF FilesInv, Covers
    <3>4. FilesInv'
      BY <1>2, <3>1, <3>2, <3>3, Narrowed
    <3>5. QED
      BY <3>1, <3>2, <3>4
  <2>3. CASE Truncate_wal
    <3>1. snaps = {snap} /\ snap = db /\ UNCHANGED <<snap, snaps>>
      BY <2>3 DEF Truncate_wal, ProcessInv
    <3>2. FilesInv' /\ Latest' = Latest
      BY <1>1, <2>3, <3>1, WalTruncated DEF Truncate_wal
    <3>3. QED
      BY <3>1, <3>2
  <2>4. QED
    BY <2>1, <2>2, <2>3
<1>4. ProcessInv'
  BY <1>1, <1>2, <1>3 DEF ProcessInv, Whole
<1>5. Accounted'
  <2>1. LastTick(snap, wal)' = LastTick(snap, wal)
    BY <1>3 DEF Latest
  <2>2. QED
    BY <1>2, <2>1 DEF Accounted
<1>6. QED
  BY <1>3, <1>4, <1>5

LEMMA Stopped ==
  ASSUME IInv, TypeOK', Stop \/ Power_loss
  PROVE  IInv'
<1> USE DEF IInv
<1>1. Forget /\ safe' = safe
  BY DEF Stop, Power_loss
<1>2. FilesInv' /\ done'.tick = Latest'
  <2>1. CASE Stop
    <3>1. UNCHANGED <<wal, synced, old, snap, snaps>> /\ done' = Recovery(snap, wal)
      BY <2>1 DEF Stop, files
    <3>2. Survivors' = Survivors /\ Latest' = Latest /\ Latest = LastTick(snap, wal)
      BY <3>1 DEF Survivors, Latest
    <3>3. snap \in snaps /\ wal \in Survivors
      BY LatestType
    <3>4. \A s \in snaps, w \in Survivors : LastTick(s, w) <= Latest
      BY RecoveryExact
    <3>5. \A s \in snaps : LastTick(s, wal) = Latest
      BY DEF FilesInv
    <3>6. QED
      BY <1>1, <3>1, <3>2, <3>3, <3>4, <3>5, TicksLost
  <2>2. CASE Power_loss
    <3>1. PICK w \in Survivors, s \in snaps :
            /\ wal' = w /\ synced' = Len(w) /\ old' = {}
            /\ snap' = s /\ snaps' = {s} /\ done' = Recovery(s, w)
      BY <2>2 DEF Power_loss
    <3>2. Survivors' = {w} /\ Latest' = LastTick(s, w)
      BY <3>1, LostSurvivors DEF Latest
    <3>3. LastTick(s, w) \in Nat
      BY RecoveryExact, BoundsAreNat
    <3>4. QED
      BY <1>1, <3>1, <3>2, <3>3, TicksLost
  <2>3. QED
    BY <2>1, <2>2
<1>3. ProcessInv'
  BY <1>1, <1>2 DEF Forget, ProcessInv
<1>4. Accounted'
  BY <1>1 DEF Forget, Accounted
<1>5. QED
  BY <1>2, <1>3, <1>4

LEMMA Idle ==
  ASSUME IInv, UNCHANGED vars
  PROVE  IInv'
<1>1. UNCHANGED <<files, done, safe>> /\ Latest' = Latest
  BY DEF vars, files, Latest
<1>2. TypeOK' /\ FilesInv'
  BY <1>1, FilesFrame DEF IInv, TypeOK, vars, process, files
<1>3. ProcessInv'
  BY <1>1 DEF IInv, ProcessInv, Whole, vars, process, files
<1>4. Accounted'
  BY DEF IInv, Accounted, vars, process, files
<1>5. QED
  BY <1>2, <1>3, <1>4 DEF IInv

LEMMA NextInv == IInv /\ [Next]_vars => IInv'
<1> SUFFICES ASSUME IInv, [Next]_vars PROVE IInv'
  OBVIOUS
<1>1. TypeOK'
  BY TypeStep DEF IInv
<1>2. ASSUME NEW m \in Modes, NEW b \in BOOLEAN, Open(m, b) PROVE IInv'
  BY <1>1, <1>2, Opened
<1>3. ASSUME NEW t \in Ticks, Begin_tick(t) PROVE IInv'
  BY <1>1, <1>3, Begun
<1>4. ASSUME NEW c \in Commands, Row_command(c) PROVE IInv'
  BY <1>1, <1>4, RowChanged
<1>5. QED
  BY <1>1, <1>2, <1>3, <1>4, Ended, Called, Written, Committed, Synced, Checkpointed,
     Stopped, Idle, Zenon DEF Next

-----------------------------------------------------------------------------
(* The theorems *)

LEMMA Inductive == Spec => []IInv
<1>1. Init => IInv
  BY InitInv
<1>2. IInv /\ [Next]_vars => IInv'
  BY NextInv
<1>3. QED
  BY <1>1, <1>2, PTL DEF Spec

(* The process's buffers and the files have the types densedb.h gives them. *)
THEOREM TypesCorrect == Spec => []TypeOK
<1>1. IInv => TypeOK
  BY DEF IInv
<1>2. QED
  BY <1>1, Inductive, PTL

(* Whatever the disk keeps after a power loss, open accepts it and yields   *)
(* the tables at the end of one tick (densedb.h 319-321).                   *)
THEOREM RecoveryIsWhole == Spec => []RecoversWhole
<1>1. IInv => RecoversWhole
  <2> SUFFICES ASSUME IInv PROVE RecoversWhole
    OBVIOUS
  <2>1. wal \in Survivors
    BY WalTypes DEF IInv
  <2>2. \A s \in snaps, w \in Survivors :
          Readable(s, w) /\ Recovery(s, w) = UpTo(done, LastTick(s, w))
    BY RecoveryExact DEF IInv
  <2>3. QED
    BY <2>1, <2>2 DEF RecoversWhole
<1>2. QED
  BY <1>1, Inductive, PTL

(* What a commit with sync_on_commit, a flush or a checkpoint told the host *)
(* is safe survives any power loss (densedb.h 173-176, 327, 345, 358).       *)
THEOREM SafeTicksSurvive == Spec => []SafeSurvives
<1>1. IInv => SafeSurvives
  <2> SUFFICES ASSUME IInv, NEW s \in snaps, NEW w \in Survivors
               PROVE  /\ LastTick(s, w) >= safe
                      /\ {r \in done.rows : r[1] <= safe} \subseteq Recovery(s, w).rows
    BY DEF SafeSurvives
  <2>1. safe <= LastTick(s, w) /\ LastTick(s, w) \in Nat /\ safe \in Nat
    BY RecoveryExact, TickTypes, BoundsAreNat DEF IInv
  <2>2. Recovery(s, w).rows = {r \in done.rows : r[1] <= LastTick(s, w)}
    BY RecoveryExact DEF IInv, UpTo
  <2>3. QED
    BY <2>1, <2>2, TickTypes DEF IInv
<1>2. QED
  BY <1>1, Inductive, PTL

(* No ended tick is anywhere but in the files, pending, or finalized and    *)
(* waiting, and a committed one is in the files (densedb.h 175-176).        *)
THEOREM NoTickUnaccounted == Spec => []Accounted
<1>1. IInv => Accounted
  BY DEF IInv
<1>2. QED
  BY <1>1, Inductive, PTL

LEMMA StepFinishes ==
  ASSUME IInv, End_tick
  PROVE  [Durable!DurableNext]_<<done, safe>>
<1>1. open /\ phase # "closed" /\ done' = db /\ UNCHANGED safe
  BY DEF End_tick, Free
<1>2. CASE phase = "open"
  <2>1. db.tick \in 1..MaxTick /\ active.commands \in SUBSET Commands
    BY <1>1, EndingTick, TickTypes DEF IInv, Ticks
  <2>2. Durable!Finish(db.tick, active.commands)
    BY <1>1, <1>2, EndingTick DEF Durable!Finish
  <2>3. QED
    BY <2>1, <2>2 DEF Durable!DurableNext
<1>3. CASE phase = "finalized"
  BY <1>1, <1>3, EndingTick
<1>4. QED
  BY <1>1, <1>2, <1>3 DEF IInv, TypeOK

LEMMA StepPromises ==
  ASSUME IInv, Commit \/ Flush_sync \/ Sync_wal
  PROVE  [Durable!DurableNext]_<<done, safe>>
<1>1. done' = done /\ (safe' = safe \/ safe' = Latest)
  BY DEF IInv, ProcessInv, Commit, Draining, Flush_sync, Sync_wal
<1>2. Latest \in safe..done.tick
  BY TickTypes DEF IInv
<1>3. safe' = Latest => Durable!Promise(Latest)
  BY <1>1 DEF Durable!Promise
<1>4. QED
  BY <1>1, <1>2, <1>3 DEF Durable!DurableNext

LEMMA StepLoses ==
  ASSUME IInv, Stop \/ Power_loss
  PROVE  [Durable!DurableNext]_<<done, safe>>
<1>1. PICK s \in snaps, w \in Survivors : done' = Recovery(s, w) /\ safe' = safe
  BY LatestType DEF IInv, Stop, Power_loss
<1>2. done' = UpTo(done, LastTick(s, w)) /\ LastTick(s, w) \in safe..done.tick
  BY <1>1, RecoveryExact, TickTypes, BoundsAreNat DEF IInv
<1>3. Durable!Lose(LastTick(s, w))
  BY <1>1, <1>2 DEF Durable!Lose, Durable!AsOf, UpTo
<1>4. QED
  BY <1>2, <1>3 DEF Durable!DurableNext

(* A DenseDB directory and the process on it implement DurableTicks: ticks  *)
(* join whole and in order, and a failure takes back only those after the   *)
(* last promised one (densedb.h 173-176, 319-321, 358-364).                 *)
THEOREM ImplementsDurableTicks == Spec => KeepsPromise
<1>1. Init => Durable!DurableInit
  BY DEF Init, Nothing, Durable!DurableInit
<1>2. IInv /\ [Next]_vars => [Durable!DurableNext]_<<done, safe>>
  <2> SUFFICES ASSUME IInv, [Next]_vars PROVE [Durable!DurableNext]_<<done, safe>>
    OBVIOUS
  <2>1. CASE End_tick
    BY <2>1, StepFinishes
  <2>2. CASE Commit \/ Flush_sync \/ Sync_wal
    BY <2>2, StepPromises
  <2>3. CASE Stop \/ Power_loss
    BY <2>3, StepLoses
  <2>4. CASE UNCHANGED <<done, safe>>
    BY <2>4
  <2>5. QED
    BY <2>1, <2>2, <2>3, <2>4
       DEF Next, vars, Open, Begin_tick, Row_command, End_tick_again, Flush_bounded, Flush,
           Checkpoint, Write_part, Write_rest, Write_snapshot, Sync_directory,
           Truncate_wal, Io_fails
<1>3. QED
  BY <1>1, <1>2, Inductive, PTL DEF Spec, KeepsPromise, Durable!DurableSpec, Durable!dvars
=============================================================================
