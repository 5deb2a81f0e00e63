------------------------------- MODULE DenseDb -------------------------------
(***************************************************************************)
(* A durable DenseDB directory and the process that has it open: ticks     *)
(* recorded in a retained WAL buffer, sealed, written by the same call or  *)
(* behind the next tick, checkpoints, and recovery after the process or    *)
(* the machine stops anywhere.                                             *)
(*                                                                         *)
(* The library's C sources are not published: the interface and what each  *)
(* call does are those of include/dense/densedb.h, and the order of its    *)
(* system calls and its answers to refused and failed ones were observed   *)
(* on the shipped lib/linux-x86_64/libdensedb.a (README, "DenseDB").       *)
(*                                                                         *)
(* A command is what one tick does to one row, and the tables are the      *)
(* commands applied to them; commands that fail leave no record.  Of the   *)
(* WAL's bytes the model keeps the committed ticks: open and the first     *)
(* write of a tick drop a tail that no TICK_COMMIT ends.  Left out: the    *)
(* advisory lock, schemas, watches, prewarming, statistics.  Assumed of    *)
(* the disk: what is not synced survives a power loss up to some point of  *)
(* the file (no holes), and a sync repeated after one that failed covers   *)
(* the same bytes.                                                         *)
(***************************************************************************)
EXTENDS Naturals, Sequences

CONSTANTS
  Commands, (* What a tick can do to the tables, once each.                *)
  MaxTick,  (* Bound: the last ds_tick of the host.                        *)
  MaxFaults,(* Bound: failed I/O calls, stops and power losses.            *)
  NULL

Ticks   == 1..MaxTick
Rows    == Ticks \X Commands
States  == [tick : 0..MaxTick, rows : SUBSET Rows]
Entries == [tick : Ticks, commands : SUBSET Commands]

ASSUME BoundsAreNat == MaxTick \in Nat /\ MaxFaults \in Nat
ASSUME NullIsNoEntry == NULL \notin Entries

VARIABLES
  (* the process *)
  open,     (* It has the directory open.                                  *)
  config,   (* ddb_durability_config: mode and sync_on_commit.             *)
  db,       (* current_tick and the tables.                                *)
  phase,    (* The tick is "closed", "open", or "finalized" and unsealed.  *)
  active,   (* The active WAL buffer: its tick and commands.               *)
  pending,  (* The pending tick, sealed and not committed, or NULL.        *)
  written,  (* How much of it is written: "none", "part" or "all".         *)
  recovered,(* recovered_tick: the latest committed tick.                  *)
  io,       (* The call that is doing I/O, and where a checkpoint is.      *)
  (* the directory *)
  wal,      (* The committed ticks in densedb.wal, oldest first.           *)
  synced,   (* How many of them are on stable storage.                     *)
  old,      (* What the WAL may be after a power loss if its truncation is *)
            (* not on stable storage.                                      *)
  snap,     (* densedb.snapshot.                                           *)
  snaps,    (* What it may be after a power loss.                          *)
  (* what happened *)
  done,     (* The last tick that ended, and the tables at its end.        *)
  safe,     (* The last tick the host was told survives a power loss.      *)
  faults

process == <<open, config, db, phase, active, pending, written, recovered, io>>
files   == <<wal, synced, old, snap, snaps>>
vars    == <<process, files, done, safe, faults>>

Modes == {"synchronous", "write_behind"}
Calls == {"idle", "end_tick", "flush", "bounded", "write_snapshot",
          "sync_directory", "truncate_wal", "sync_wal"}

TypeOK ==
  /\ open \in BOOLEAN
  /\ config \in [mode : Modes, sync_on_commit : BOOLEAN]
  /\ db \in States
  /\ phase \in {"closed", "open", "finalized"}
  /\ active \in [tick : 0..MaxTick, commands : SUBSET Commands]
  /\ pending \in Entries \cup {NULL}
  /\ written \in {"none", "part", "all"}
  /\ recovered \in 0..MaxTick
  /\ io \in Calls
  /\ wal \in Seq(Entries) /\ synced \in 0..Len(wal)
  /\ \A w \in old : w \in Seq(Entries)
  /\ snap \in snaps /\ \A s \in snaps : s \in States
  /\ done \in States /\ safe \in 0..MaxTick
  /\ faults \in 0..MaxFaults

Nothing == [tick |-> 0, rows |-> {}]
Blank   == [tick |-> 0, commands |-> {}]

Default == [mode |-> "synchronous", sync_on_commit |-> TRUE]

Init ==
  /\ open = FALSE
  /\ config = Default
  /\ db = Nothing /\ phase = "closed" /\ active = Blank
  /\ pending = NULL /\ written = "none" /\ recovered = 0 /\ io = "idle"
  /\ wal = <<>> /\ synced = 0 /\ old = {}
  /\ snap = Nothing /\ snaps = {Nothing}
  /\ done = Nothing /\ safe = 0 /\ faults = 0

-----------------------------------------------------------------------------
(* Opening *)

LastTick(s, w) ==
  IF Len(w) > 0 /\ w[Len(w)].tick > s.tick THEN w[Len(w)].tick ELSE s.tick

(* What the WAL ticks newer than the snapshot do. *)
Replayed(s, w) ==
  UNION {{w[i].tick} \X w[i].commands : i \in {j \in DOMAIN w : w[j].tick > s.tick}}

(* DDB_ERR_CORRUPT: ticks out of order, or a command that fails. *)
Readable(s, w) ==
  /\ \A i, j \in DOMAIN w : i < j => w[i].tick < w[j].tick
  /\ Replayed(s, w) \cap s.rows = {}

Recovery(s, w) == [tick |-> LastTick(s, w), rows |-> s.rows \cup Replayed(s, w)]

Open(mode, sync) ==
  /\ ~open
  /\ Readable(snap, wal)
  /\ open' = TRUE
  /\ config' = [mode |-> mode, sync_on_commit |-> sync]
  /\ db' = Recovery(snap, wal)
  /\ recovered' = LastTick(snap, wal)
  /\ UNCHANGED <<phase, active, pending, written, io, files, done, safe, faults>>

-----------------------------------------------------------------------------
(* Ticks *)

(* The simulation thread is not inside a call that does I/O. *)
Free == open /\ io \in {"idle", "bounded"}

(* Defect: the check of the pending tick and the retry flag is missing. *)
Begin_tick_over_finalized(t) ==
  /\ Free
  /\ phase # "open"
  /\ t > db.tick
  /\ db' = [db EXCEPT !.tick = t]
  /\ phase' = "open"
  /\ active' = [tick |-> t, commands |-> {}]
  /\ UNCHANGED <<open, config, pending, written, recovered, io, files, done, safe, faults>>

(* Refused while a finalized tick waits to be sealed, and in synchronous   *)
(* mode while a failed commit is pending.                                  *)
Begin_tick(t) ==
  /\ Free
  /\ phase = "closed"
  /\ config.mode = "synchronous" => pending = NULL
  /\ t > db.tick
  /\ db' = [db EXCEPT !.tick = t]
  /\ phase' = "open"
  /\ active' = [tick |-> t, commands |-> {}]
  /\ UNCHANGED <<open, config, pending, written, recovered, io, files, done, safe, faults>>

(* A later tick is asked for: DDB_ERR_TICK_ALREADY_OPEN, found by the      *)
(* kernel after the durability layer has reset its buffer for that tick.   *)
Begin_tick_already_open(t) ==
  /\ Free
  /\ phase = "open"
  /\ t > db.tick
  /\ active' = [tick |-> t, commands |-> {}]
  /\ UNCHANGED <<open, config, db, phase, pending, written, recovered, io,
                 files, done, safe, faults>>

(* Inserting, removing, updating or moving a row. *)
Row_command(c) ==
  /\ Free
  /\ phase = "open"
  /\ <<db.tick, c>> \notin db.rows
  /\ db' = [db EXCEPT !.rows = @ \cup {<<db.tick, c>>}]
  /\ active' = [active EXCEPT !.commands = @ \cup {c}]
  /\ UNCHANGED <<open, config, phase, pending, written, recovered, io,
                 files, done, safe, faults>>

(* The buffers are swapped; in synchronous mode the call goes on to write. *)
Seal ==
  /\ pending' = active
  /\ written' = "none"
  /\ active' = Blank
  /\ phase' = "closed"
  /\ io' = IF config.mode = "synchronous" THEN "end_tick" ELSE io

(* Defect: the finalized tick is dropped when the other buffer is taken. *)
End_tick_drops ==
  /\ Free
  /\ phase # "closed"
  /\ done' = db
  /\ IF pending = NULL
     THEN Seal
     ELSE phase' = "closed" /\ UNCHANGED <<active, pending, written, io>>
  /\ UNCHANGED <<open, config, db, recovered, files, safe, faults>>

(* The tick is finalized, and sealed unless the previous one still holds   *)
(* the other buffer: then DDB_ERR_BUSY, and end_tick may be called again.  *)
End_tick ==
  /\ Free
  /\ phase # "closed"
  /\ done' = db
  /\ IF pending = NULL
     THEN Seal
     ELSE phase' = "finalized" /\ UNCHANGED <<active, pending, written, io>>
  /\ UNCHANGED <<open, config, db, recovered, files, safe, faults>>

(* A commit that failed is tried again by end_tick. *)
End_tick_again ==
  /\ open /\ io = "idle"
  /\ config.mode = "synchronous"
  /\ phase = "closed" /\ pending # NULL
  /\ io' = "end_tick"
  /\ UNCHANGED <<open, config, db, phase, active, pending, written, recovered,
                 files, done, safe, faults>>

-----------------------------------------------------------------------------
(* Writing the pending tick *)

Draining == io \in {"end_tick", "flush", "bounded"} /\ pending # NULL

(* Flush_pending_bounded, called by the host or by its I/O consumer. *)
Flush_bounded ==
  /\ open /\ io = "idle"
  /\ pending # NULL
  /\ io' = "bounded"
  /\ UNCHANGED <<open, config, db, phase, active, pending, written, recovered,
                 files, done, safe, faults>>

(* Some of the bytes; the bounded call returns when its budget is used. *)
Write_part ==
  /\ Draining /\ written = "none"
  /\ written' = "part"
  /\ io' = IF io = "bounded" THEN "idle" ELSE io
  /\ UNCHANGED <<open, config, db, phase, active, pending, recovered,
                 files, done, safe, faults>>

(* Defect: the part that is written already is written again. *)
Write_rest_twice ==
  /\ Draining /\ written # "all"
  /\ written' = "all"
  /\ wal' = IF written = "none" THEN Append(wal, pending)
                                ELSE wal \o <<pending, pending>>
  /\ UNCHANGED <<open, config, db, phase, active, pending, recovered, io,
                 synced, old, snap, snaps, done, safe, faults>>

(* The rest of the bytes, the TICK_COMMIT record last. *)
Write_rest ==
  /\ Draining /\ written # "all"
  /\ written' = "all"
  /\ wal' = Append(wal, pending)
  /\ UNCHANGED <<open, config, db, phase, active, pending, recovered, io,
                 synced, old, snap, snaps, done, safe, faults>>

SyncWal == synced' = Len(wal) /\ old' = {}

(* Defect: the pending buffer is given back only by a commit that syncs. *)
Commit_keeps_buffer ==
  /\ Draining /\ written = "all"
  /\ IF config.sync_on_commit
     THEN SyncWal /\ safe' = pending.tick /\ pending' = NULL /\ written' = "none"
     ELSE UNCHANGED <<synced, old, safe, pending, written>>
  /\ recovered' = pending.tick
  /\ io' = IF io = "flush" THEN "flush" ELSE "idle"
  /\ UNCHANGED <<open, config, db, phase, active, wal, snap, snaps, done, faults>>

(* The tick is synced if so configured, and its buffer is free again. *)
Commit ==
  /\ Draining /\ written = "all"
  /\ IF config.sync_on_commit
     THEN SyncWal /\ safe' = pending.tick
     ELSE UNCHANGED <<synced, old, safe>>
  /\ pending' = NULL /\ written' = "none"
  /\ recovered' = pending.tick
  /\ io' = IF io = "flush" THEN "flush" ELSE "idle"
  /\ UNCHANGED <<open, config, db, phase, active, wal, snap, snaps, done, faults>>

(* Refused while a tick is open or finalized and unsealed. *)
Flush ==
  /\ open /\ io = "idle"
  /\ phase = "closed"
  /\ io' = "flush"
  /\ UNCHANGED <<open, config, db, phase, active, pending, written, recovered,
                 files, done, safe, faults>>

(* After the pending tick, if any, the WAL is synced in either case. *)
Flush_sync ==
  /\ io = "flush" /\ pending = NULL
  /\ SyncWal
  /\ safe' = db.tick
  /\ io' = "idle"
  /\ UNCHANGED <<open, config, db, phase, active, pending, written, recovered,
                 wal, snap, snaps, done, faults>>

-----------------------------------------------------------------------------
(* Checkpoints *)

(* Refused while a tick is open, and DDB_ERR_BUSY while one is pending. *)
Checkpoint ==
  /\ open /\ io = "idle"
  /\ phase = "closed" /\ pending = NULL
  /\ io' = "write_snapshot"
  /\ UNCHANGED <<open, config, db, phase, active, pending, written, recovered,
                 files, done, safe, faults>>

(* densedb.snapshot.tmp is written, synced and renamed over the snapshot. *)
Write_snapshot ==
  /\ io = "write_snapshot"
  /\ snap' = db
  /\ snaps' = snaps \cup {db}
  /\ io' = "sync_directory"
  /\ UNCHANGED <<open, config, db, phase, active, pending, written, recovered,
                 wal, synced, old, done, safe, faults>>

(* Defect: the directory is not synced before the WAL is truncated. *)
Sync_directory_skipped ==
  /\ io = "sync_directory"
  /\ io' = "truncate_wal"
  /\ UNCHANGED <<open, config, db, phase, active, pending, written, recovered,
                 files, done, safe, faults>>

Sync_directory ==
  /\ io = "sync_directory"
  /\ snaps' = {snap}
  /\ io' = "truncate_wal"
  /\ UNCHANGED <<open, config, db, phase, active, pending, written, recovered,
                 wal, synced, old, snap, done, safe, faults>>

(* What the WAL may be after a power loss. *)
Survivors == old \cup {SubSeq(wal, 1, k) : k \in synced..Len(wal)}

(* Defect: the length that is known to be synced outlives the truncation. *)
Truncate_wal_keeps_length ==
  /\ io = "truncate_wal"
  /\ old' = Survivors
  /\ wal' = <<>>
  /\ io' = "sync_wal"
  /\ UNCHANGED <<open, config, db, phase, active, pending, written, recovered,
                 synced, snap, snaps, done, safe, faults>>

Truncate_wal ==
  /\ io = "truncate_wal"
  /\ old' = Survivors
  /\ wal' = <<>> /\ synced' = 0
  /\ io' = "sync_wal"
  /\ UNCHANGED <<open, config, db, phase, active, pending, written, recovered,
                 snap, snaps, done, safe, faults>>

Sync_wal ==
  /\ io = "sync_wal"
  /\ SyncWal
  /\ safe' = db.tick
  /\ io' = "idle"
  /\ UNCHANGED <<open, config, db, phase, active, pending, written, recovered,
                 wal, snap, snaps, done, faults>>

-----------------------------------------------------------------------------
(* Failures *)

Fault == faults < MaxFaults /\ faults' = faults + 1

(* Nothing of the process is kept. *)
Forget ==
  /\ open' = FALSE
  /\ config' = Default
  /\ db' = Nothing /\ phase' = "closed" /\ active' = Blank
  /\ pending' = NULL /\ written' = "none" /\ recovered' = 0 /\ io' = "idle"

(* A system call fails: the call returns DDB_ERR_DURABILITY, and what it   *)
(* had done remains.  A failed snapshot is unlinked before it is renamed.  *)
Io_fails ==
  /\ io # "idle" /\ Fault
  /\ io' = "idle"
  /\ UNCHANGED <<open, config, db, phase, active, pending, written, recovered,
                 files, done, safe>>

(* The database is destroyed, or its process dies: the files stay. *)
Stop ==
  /\ open /\ Fault
  /\ Forget
  /\ done' = Recovery(snap, wal)
  /\ UNCHANGED <<files, safe>>

(* What was not synced may be lost. *)
Power_loss ==
  /\ Fault
  /\ Forget
  /\ wal' \in Survivors /\ synced' = Len(wal') /\ old' = {}
  /\ snap' \in snaps /\ snaps' = {snap'}
  /\ done' = Recovery(snap', wal')
  /\ UNCHANGED safe

-----------------------------------------------------------------------------
Next ==
  \/ \E m \in Modes, s \in BOOLEAN : Open(m, s)
  \/ \E t \in Ticks : Begin_tick(t)
  \/ \E c \in Commands : Row_command(c)
  \/ End_tick \/ End_tick_again \/ Flush_bounded \/ Flush \/ Checkpoint
  \/ Write_part \/ Write_rest \/ Commit \/ Flush_sync
  \/ Write_snapshot \/ Sync_directory \/ Truncate_wal \/ Sync_wal
  \/ Io_fails \/ Stop \/ Power_loss

(* The host's part: it drains what is pending (docs/modules/densedb.md 91) *)
(* and retries an end_tick that was refused or failed (densedb.h 358-364). *)
Fairness ==
  /\ WF_vars(phase = "finalized" /\ End_tick)
  /\ WF_vars(Flush_bounded) /\ WF_vars(End_tick_again)
  /\ WF_vars(Write_rest) /\ WF_vars(Commit) /\ WF_vars(Flush_sync)
  /\ WF_vars(Write_snapshot) /\ WF_vars(Sync_directory)
  /\ WF_vars(Truncate_wal) /\ WF_vars(Sync_wal)

Spec == Init /\ [][Next]_vars /\ Fairness

(* A host that also begins a tick while one is open. *)
NestedNext == Next \/ \E t \in Ticks : Begin_tick_already_open(t)

NestedSpec == Init /\ [][NestedNext]_vars

-----------------------------------------------------------------------------
(* Properties *)

UpTo(state, t) == [tick |-> t, rows |-> {r \in state.rows : r[1] <= t}]

(* A directory is never refused (densedb.h 319-321), and recovery from it, *)
(* as it is now or as any power loss leaves it, yields the tables at the   *)
(* end of one tick: no tick in part, twice, or without an earlier one.     *)
RecoversWhole ==
  \A s \in snaps, w \in Survivors \cup {wal} :
    /\ Readable(s, w)
    /\ Recovery(s, w) = UpTo(done, LastTick(s, w))

(* What the host was told is safe (a commit with sync_on_commit, a flush,  *)
(* a checkpoint: densedb.h 173-176, 345, 358) is recovered after any power *)
(* loss, whatever failed or stopped since.                                 *)
SafeSurvives ==
  \A s \in snaps, w \in Survivors :
    /\ LastTick(s, w) >= safe
    /\ {r \in done.rows : r[1] <= safe} \subseteq Recovery(s, w).rows

(* A committed tick, synced or not, is in the files as they are            *)
(* (densedb.h 175-176): it outlives the process.  And every tick that      *)
(* ended is committed, pending, or finalized and waiting.                  *)
Accounted ==
  open =>
    /\ LastTick(snap, wal) >= recovered
    /\ \A r \in done.rows : \/ r[1] <= recovered
                            \/ pending # NULL /\ r[1] = pending.tick
                            \/ phase = "finalized" /\ r[1] = active.tick

Durable == INSTANCE DurableTicks WITH contents <- done, promised <- safe

(* The files and the calls on them do what DurableTicks promises: ticks    *)
(* join whole and in order, and only those after the promise are lost.     *)
KeepsPromise == Durable!DurableSpec

(* A tick that ended is committed, though its seal may be refused and its  *)
(* writes may fail, as long as the process lives.                          *)
EveryTickCommits ==
  \A t \in Ticks : (open /\ done.tick >= t) ~> (recovered >= t \/ ~open)
=============================================================================
