# Verification of the Dense SDK repository

TLA+ models of the code in this repository, TLC configurations that check them
on small instances, and proofs, checked by TLAPS, for instances of any size.

The repository ships the seven native libraries as binaries with headers. Its
own code is the language bindings, the installer and the release tooling, and
those are modelled from their source. The simulation kernel appears as an
external module that says what the bindings rely on. DenseDB and the reliable lane
of the network library, where the hard behaviour of the SDK is, are modelled from
their headers and from what the shipped archives were observed to do; where a
model rests on observation, this file says so.

## The system

| Component | State it keeps | Operations | Talks to |
| --- | --- | --- | --- |
| Simulation kernel (`libdense_sim`, binary) | worlds, tick state, finalized fanout buffers, recipient worksets | `ds_*` calls | called by every binding |
| Python binding (`_dense_sim.c`) | World, FanoutView, group and sequence objects, reference counts, buffers held by a batch call | methods of the extension | kernel; buffer exporters, which may run Python code |
| C++ wrapper (`dense_sim.hpp`) | World, the shared `WorldState`, views, ranges, iterators, RecipientWorkset | members, moves, copies, destructors | kernel |
| Rust binding (`lib.rs`) | World, borrowed views and items, RecipientWorkset, the thread each is on | methods, Drop, moves between threads | kernel |
| Recipient worksets (C++ class, kernel) | the rows of a workset, copied views | sync, enqueue, view, acknowledge, clear, moves | kernel |
| Installer (`install.sh`, `uninstall.sh`) | a prefix: files, links, directories, the manifest | install, uninstall | file system |
| Release tooling (`build_python_wheels.sh`, `make wheel`, `generate-checksums.sh`, `verify-release.sh`) | `dist/`, two lists of checksums, counters of errors | build, list, verify | pip, auditwheel, nm, readelf |
| ABI coverage check (`check_abi_coverage.py`) | none | compares header and wrappers | files |
| DenseDB (`densedb.h`, binary) | the open tick, two retained WAL buffers, the WAL, the snapshot | open, begin and end ticks, row commands, flush, checkpoint | file system; an external I/O consumer |
| Networking (`dense_net.h`, binary) | for each session queued frames, retained packets, held packets, ack state | send, flush, receive, close | a datagram transport; the frame callback; the peer |
| Scheduler, navigation, collision, AI (binaries) | not visible here | headers only | nothing in this repository calls them |

What is hard in them:

- *Borrowed memory behind a counter.* A fanout view holds raw pointers into
  buffers the kernel reuses at the next successful `begin_tick` and frees with
  the world. Python and C++ guard every read with a generation. The guard has
  to be exact when calls fail, when a World is re-initialized or moved over,
  when an address is handed out twice, and for every object derived from a view.
- *Lifetime.* Views, groups, sequences and iterators outlive the variables that
  named the World, and are dropped in any order. Python counts references by
  hand; C++ shares a state and keeps the native pointer twice.
- *Reentrancy.* The batch calls of the Python binding acquire up to three
  buffers from exporters that can run any code, after the World was checked.
- *Threads without checks.* The Rust crate tests nothing at run time. That a
  World has one writer and that a span is not read too late rests on receivers,
  lifetimes and two `unsafe impl Send` (`World` 629, `RecipientWorkset` 1040).
- *Stale certificates.* A sender works from a copied workset view while ticks,
  enqueues and other acknowledgements go on, and brings it back later.
- *Power loss.* DenseDB writes a log, replaces a snapshot and truncates the log;
  what is on the disk after a failure is any mixture the file system allows, and
  recovery must find the end of one tick in it, with nothing missing that the host
  was told is safe. Writes fail, stop half way and are retried while the next tick
  is already recorded.
- *Unreliable delivery.* Packets and acknowledgements are lost, repeated and
  reordered, both ends have windows, and the frame callback can send, flush or
  close between two frames of one packet.
- *Interruption.* The installer, the uninstaller and the wheel build can stop
  between any two steps; only the manifest, or what lies in `dist`, connects one
  run with the next.

What makes each component correct:

- kernel, as used: a borrow period starts with each tick and each world, and
  only the finalized tick of a live world is lent;
- Python and C++: a native world has exactly one owner, nothing is read outside
  its borrow period, no call reaches a destroyed world, a view answers exactly
  while its period is current, and every acquired buffer is released;
- Rust: the same, by borrowing, with several threads;
- recipient worksets: the rows are the membership of the world they serve, what
  is pending is in the copy or came after it, and a certificate of a membership
  that is over clears nothing;
- DenseDB: recovery yields the tables at the end of one tick, what was reported
  safe is never lost, no tick that ended is unaccounted for, and every one is
  committed in the end;
- networking: a frame is kept until it is delivered, delivered once and in order,
  buffers stay within the windows, and everything settles in the end;
- installer: an installation that ran to its end is whole and of one release, a
  manifest that is whole names everything, and an uninstallation from it leaves
  nothing;
- release tooling: builds do not mix, and what is called complete or accepted is
  whole.

## Modules

| Module | What it is |
| --- | --- |
| `DenseKernel` | External. Addresses, tick state and borrow periods of native worlds, and the effect of each call that succeeds. |
| `FanoutLease` | Abstract: what a binding promises about its views, whatever the language. |
| `PyBinding` | The CPython extension on top of `DenseKernel`. |
| `PyBinding_proofs` | Theorems about `PyBinding`. |
| `CppBinding` | The C++ wrapper on top of `DenseKernel`. |
| `CppBinding_proofs` | Theorems about `CppBinding`. |
| `RustBinding` | The crate on top of `DenseKernel`, in a program of several threads. |
| `RustBinding_proofs` | Theorems about `RustBinding`. |
| `WorksetKernel` | External. `DenseKernel` with the membership of worlds and what each workset call makes of a native workset. |
| `RecipientWorkset` | The C++ class on top of `WorksetKernel`, its copied views and their certificates. |
| `RecipientWorkset_proofs` | Theorems about `RecipientWorkset`. |
| `DurableTicks` | Abstract: what a durable tick-based database promises, whatever its files are. |
| `DenseDb` | A durable database directory and the process that has it open. |
| `DenseDb_proofs` | Theorems about `DenseDb`. |
| `OrderedStream` | Abstract: what a reliable message stream promises. |
| `NetSession` | The reliable lane between two sessions, and the transport. |
| `NetSession_proofs` | Theorems about `NetSession`. |
| `Installer` | `install.sh` and `uninstall.sh` on one prefix. |
| `Installer_proofs` | Theorems about `Installer`. |
| `ReleaseTooling` | The wheel build, `make wheel`, the checksums and the verifier on one tree. |
| `ReleaseTooling_proofs` | Theorems about `ReleaseTooling`. |
| `MC...` | The instances TLC checks. |

### DenseKernel and FanoutLease

An address is `free`, or holds a world that is `fresh`, `open` (between
`begin_tick` and `end_tick`) or `final`. `lease` numbers borrow periods: a
successful begin, like the creation of a world, takes a number never used
before. `Lent(a, n)` says that a span of period `n` of the world at `a` may be
read. The address of a destroyed world can be handed out again, so an address
alone never identifies a world; that is the case the generation checks exist for.

The module follows the calls of the bindings and the contract in `dense_sim.h`
221-269. A refused call changes nothing. Tick numbers are left out: a caller can
always pick a larger one, or one that is refused.

`FanoutLease` has a current period for each world and remembers what each view
was granted. A view that is asked answers with the data of its period if that
period is current, and refuses otherwise. `PyBinding` implements it with World
objects as its worlds, `CppBinding` with `WorldState` objects, group, range and
iterator objects being views there too, and `RustBinding` with World values and
without ever refusing.

### PyBinding

| Code | Model |
| --- | --- |
| `DenseWorld.world`, `view_generation` | `world`, `gen` |
| `DenseFanoutView` | `view[v]`: `world`, `gen`, and the address and period its spans come from |
| group and sequence objects | `group[g]`, the view they read through, and `kind[g]` |
| reference counts | `refs[o]`, the set of those that hold a counted reference |
| a `move_many` or `mark_dirty_many` in progress | `frame[f]`; `exported`, the buffers locked at their exporters |
| one method | one action; batch calls are one action for each buffer acquired or released |

The extension never releases the interpreter lock, so a method is atomic except
where Python code runs on its behalf, in buffer acquire and release. Between
those every other action can happen, by nesting or in another thread.
`calls` and `spans` record what the last step passed to the kernel and read from
borrowed memory; `answer` what a view replied.

Not in the model: the contents of a world, so the methods that only call the
kernel are one action each (`ScalarCall`) and the number of items a batch
applied is left out; the conversion of arguments; failed allocations; wrap-around
of the 64-bit generation.

### CppBinding

`world[w]` has the fields `state_` and `world_` of class World, `state[s]` those
of the heap object they share, `view[v]` those of a view class, named by `kind`.
Who holds a state follows from the fields, as `std::shared_ptr` guarantees;
`Assign` gives variables new values and runs `~WorldState` for the states nobody
holds any more. Moves leave `state_` null and keep the other fields, as the
defaulted moves do. `Derive` covers `at`, `begin`, `operator*`, `entries` and
`subscribers`. A call that throws is one the model refuses. One thread makes
the calls, as the library asks.

### RustBinding

| Code | Model |
| --- | --- |
| a `World` value | `world[w]`: the field `raw` and the thread that owns it |
| a `RecipientWorkset` value | `workset[k]`, the thread that owns it |
| a `FanoutView<'_>` | `view[v]`: the World it borrows, its span, its thread |
| `ChunkDeltaIter`, `ChunkDeltaView`, `DeltaEntryIter`, `&[u64]` | `item[i]`, with the view it borrows from |
| a call, or a read of borrowed memory, in progress | `busy[t]` |

A call is two steps, so that other threads act while it is in the kernel. The
guard of the first is the method's signature, which is all that stands between
safe code and the kernel: `&mut self` is `ByMut` (the value is owned by the thread
and nothing borrows it), `&self` is `ByRef`. Who can be sent follows from the auto
traits and from `unsafe impl Send` for `World` (629) and `RecipientWorkset` (1040): entry iterators and subscriber
slices hold no pointer of the kernel's types, so they are Send and can be read on
another thread while the World stays borrowed. A view or item exists until its
last use.

### WorksetKernel and RecipientWorkset

`ws[n]` is a native workset: the world it serves, as the kernel knows it, and for
each recipient a generation and the pending channels of each visible entity.
`copy[v]` is what a `RecipientWorksetView` copied. `shift[v]` and `since[v]` are
history: what has happened to the recipient and, while it is the same
membership, what was enqueued since.

The kernel is a binary. `WorksetKernel` follows `dense_sim.h` (157-189, 280-324) and
what the shipped `lib/linux-x86_64/libdense_sim.a`, version 0.4.4, answers to a C
program linked against it. The header leaves these open: a workset recognises its world
by address and number of finalized ticks; generations restart at 1 when it turns to
another world, and stay over a missed synchronization when the set is the same; a NULL
handle is refused. In one point the archive contradicts the header: 281-283 say that a
missed sync and a world change both retain still-visible dirtiness. After a missed sync
the archive does; after a world change every mask is clean, at equal and unequal tick
counts, and also when the workset goes back to the world it came from. `Synced` does what
the archive does, and `workset_turned` shows the difference. To repeat it, create, tick
and destroy worlds, with one at the address of another, enqueue, and print views after
each call.

### DenseDB

| Code | Model |
| --- | --- |
| `ddb_durability_config` (mode, `sync_on_commit`) | `config` |
| the tables and the current tick | `db`: the commands applied, each with its tick |
| the open tick; a tick finalized and not sealed | `phase` |
| the two retained WAL buffers | `active` and `pending`; `written`, how far the pending one is in the file |
| `recovered_tick` | `recovered` |
| a call that is doing I/O | `io`, with the steps of a checkpoint |
| `densedb.wal` | `wal`, the committed ticks; `synced`, how many are on stable storage; `old`, what an unsynced truncation may bring back |
| `densedb.snapshot` | `snap`; `snaps`, what an unsynced rename may leave |

`done` and `safe` are history: the last tick that ended, and the last one the host
was told survives a power loss (a commit with `sync_on_commit`, a flush, a
checkpoint). A bounded flush (`io = "bounded"`) runs beside the simulation thread,
so ticks are recorded while the previous one is written; the other calls that do
I/O block it (`Free`).

The C source is not in the repository. `densedb.h` (173-214, 314-364, 435-483) and
`docs/modules/densedb.md` say what each call does. What they leave open was observed
on `lib/linux-x86_64/libdensedb.a` with C programs linked against it that wrap its
system calls (`ld --wrap`), print them and make chosen ones fail: the WAL is written,
then `fdatasync`ed if configured; a checkpoint writes, syncs and renames
`densedb.snapshot.tmp`, syncs the directory, truncates the WAL and syncs it; a failed
call returns `DDB_ERR_DURABILITY` and leaves what it did, and the retry goes on from
there; in synchronous mode `end_tick` called again retries a failed commit and
`begin_tick` is refused until it succeeds; flush and checkpoint are refused while a
tick is open or finalized. To repeat it, wrap the system calls of a program that makes
these calls and reopen copies of the directory taken between them.

Of the disk it is assumed that what was not synced survives up to some point of the
file, and that a repeated `fdatasync` covers what a failed one did not. A file system
that leaves holes in the unsynced tail makes `open` answer `DDB_ERR_CORRUPT` where the
model recovers; one that drops dirty pages after a failed sync breaks `SafeSurvives`.
Left out: schemas, values and watches; the advisory lock; Windows, where the
checkpoint keeps the WAL.

### Networking

| Code | Model |
| --- | --- |
| frames `dn_session_send` took, the queue | `accepted`; those above `Packed` are queued |
| reliable packets of the sender | `packets`, the last frame of each; `retained`, kept for retransmission |
| the two directions of the transport | `wire` and `acks`, sets, so order and multiplicity are lost; reading one may leave it there |
| the receiver's next packet, and the frame of it the callback gets next | `expected`, `at` |
| packets held for reordering; ack state | `held`; `got`, `ack_pending` |
| what the callback was invoked with | `delivered` |
| `dn_session_get_state`: closed | `closed` |

The callback is a step per frame, so the sender's calls and a close can come between
two of them. A flush is a step per packet, since budget or backpressure can end it
after any.

The C source is not in the repository. `dense_net.h` (228-511) says what each call
does; how frames share packets, what an ack names (the highest packet and a bitmap
of 64 below it), that a packet is acknowledged whatever becomes of it, that the
receiver holds packets ahead of the expected one within its own `reliable_window` and
drops those beyond, and that the oldest unacknowledged packet holds the sender's
window, was observed with two sessions of the shipped `libdense_net.a` over raw
transports written for it, which drop, repeat and reorder chosen packets and print
what they carry.

Left out: the sequenced and unreliable lanes, keepalives, the handshake, framing and
registries, a malformed packet, a callback that calls `receive` on its own session,
the wrap of the 16-bit packet number, and time: every retained packet may be due at
any moment and every session may time out.

### ReleaseTooling

`tree[p]` is what a file holds: for a wheel the build that made it. The build's
steps are its loops, one action for each interpreter's turn; `Writes` can leave a
torn file and end the run, `Killed` ends it anywhere, `Clean_stopped` leaves any
part of `dist`. The verifier is one action, its checks of other files a verdict
that may be negative. Nothing in the repository copies the raw wheels to where the
verifier looks for them, so `Collect` is external. The files outside `dist` are one path,
`Rest`; a list that a stopped `mv` cut short among them names it or not, according to
whether the next edit concerns a listed file. Of `SHA256SUMS` the accepted tree is only
known to match what is listed, which is the verifier's own test; no document says that
it lists everything, and after a stopped `mv` it does not. One script runs at a time;
files outside `dist` can be edited at any moment.

### Installer

`tree[p]` says which release the path `p` comes from, `manifest` holds the lines
of the installed manifest, `dirs` the directories. `run` is the script in
progress: the work left in `queue`, and in `lines` the temporary manifest or the
lines that were read. `used` is history: the releases and selections installed so
far, or all of them once they were mixed. Each file takes two steps, removal and copy, so that a run
can stop in between; `Stop` can happen before every step and, while the manifest
is copied, leave any part of it. `foreign` are directories with other packages'
files.

## Runs

| Run | Instance | Shows |
| --- | --- | --- |
| `py_lifetime` | 2 Worlds, 2 views, 2 groups, 1 batch call, 2 addresses, 3 periods | `TypeOK`, `SoleOwner`, `ReferentsAlive`, `ValidIffLent`, `BuffersHeldByFrames`, `NativeUseIsLive`, `KeepsPromise` |
| `cpp_views` | 2 Worlds, 3 states, 2 views, 2 addresses, 4 periods | `TypeOK`, `ValidIffLent`, `NativeUseIsLive`, `ViewsOutliveWorlds`, `KeepsPromise` |
| `rust_threads` | 2 threads, 2 Worlds, 1 workset, 2 views, 2 items, 2 addresses, 4 periods | `TypeOK`, `OneWriter`, `BorrowsAreLent`, `InUseIsAlive`, `KeepsPromise` |
| `workset_handover` | 2 variables, 2 native worksets, 2 worlds, 2 entities, 1 recipient, 1 channel, 1 copy, 4 periods | `TypeOK`, `MembershipExact`, `PendingAccounted`, `ChangedMembershipRefused`, `SameWorldRetained` |
| `workset_reborn` | 1 workset, worlds at 1 address | violates `SyncShowsItsWorld` |
| `workset_turned` | 1 workset, 2 worlds, 1 entity | violates `StillVisibleRetained` |
| `densedb_durable` | 1 command, 3 ticks, 3 faults, both modes, synced or not | `TypeOK`, `RecoversWhole`, `SafeSurvives`, `Accounted`, `KeepsPromise`, `EveryTickCommits` |
| `densedb_nested` | as above, 1 fault, and a host that begins a tick while one is open | violates `SafeSurvives` |
| `net_session` | windows of 3 packets, 2 frames in a packet, a queue of 2, 4 frames, acks that name 3 packets, 1 ack on its way | `TypeOK`, `NothingForgotten`, `BuffersBounded`, `KeepsPromise`, `EverythingSettles` |
| `net_windows` | a window of 2 against one of 1 | violates `NothingForgotten` |
| `installer` | two releases, with and without documents, interruptions without limit | `TypeOK`, `ManifestCovers`, `UninstallComplete`, `InstalledWhole` |
| `release_build` | 2 interpreters, 2 builds after the shipped one, 1 edit | `TypeOK`, `CompleteIsWhole`, `AcceptedIsWhole` |

`TypeOK` of `CppBinding` includes that the two copies of the native pointer agree and
that a native world has one owner, that of `RecipientWorkset` that a native workset
has one owner, and that of `Installer` that no directory that holds something is
removed (`PointersAgree`, `SoleOwner`, `TreeKept`).

**The bounds.** `MaxLease` bounds the periods of a whole behaviour, and with
them generations and the number of worlds ever created. Three are enough for a
view of a first world, a second world at the same address and a further tick;
two addresses are needed because `__init__` creates the new world before it
destroys the old one. Two views and two groups let one outlive the other and
share a World; a chunk group and a sequence taken from it take both groups. One
batch call, whose exporters run anything else meanwhile, is what TLC explores; a
batch inside another's exporter is covered by the proofs. Three states let both C++
Worlds be replaced while a view holds the state of a third. The names of objects
are symmetric. The installer has no bound on runs: its state space is finite.
In Rust two threads and two items put a reader on another thread than the World,
and the fourth period lets a tick begin after a World was replaced. For worksets
one recipient is enough, as rows do not touch one another; two entities tell a
change of membership from a clear; four periods are two worlds with a tick each, or
one with two ticks and a successor. Two variables and two native worksets let one be
moved over the other while both are in use. Three ticks let one be recorded while the
one before it is pending and the first is in a snapshot; three faults are a failed
write, a failed retry and a power loss. One command is enough, as ticks are told apart
by their number. Windows of three packets can be filled, stay filled and move on, and
with acks that name three the fourth packet pushes the first out of reach; a second
ack on the way adds only orders that losing and sending acks again already give.
`EverythingSettles` is checked only where an ack can name the whole window
(`WindowA <= AckSpan + 1`), as with the default `reliable_window` of 64
(`dense_net.h` 348) and acks that name 65 packets; a larger window, where a packet may
fall out of reach of every later ack, is not covered. Two builds let the remains of a
stopped build meet the next one, and the shipped wheels count as a third.

`ManifestCovers` and `UninstallComplete` are about one release installed with one
selection. When release or selection change between runs they do not hold, and
the scripts do not claim it: the new manifest replaces the old one and files that
only the old one named stay. Both therefore ask that all installations so far were
the same (`Uniform`); `InstalledWhole` and `TreeKept` hold without it.

**Fairness.** Two specifications assume it. In `DenseDb` the host drains a pending
tick and retries a seal that was refused or a commit that failed, as
`docs/modules/densedb.md` 81-98 and `densedb.h` 358-364 tell it to, and a call that
does I/O goes on; steps that fail are not fair and bounded by `MaxFaults`, so
`EveryTickCommits` says that a tick commits if failures stop and the process lives. No
fairness is assumed of beginning ticks, flushing or checkpointing. In `NetSession`
both hosts go on calling flush and receive with time advancing, as the loop around
`dn_session_next_due_ns` (`dense_net.h` 507-511) does; and of a packet that is sent
again and again some copy arrives, likewise of acks that name it (strong fairness),
without which no protocol delivers anything. The other specifications state none: a
binding, an installer or a build may stop for ever.

**Deadlock** is checked except in `net_session` and `net_windows`, where two closed
sessions do nothing more.

**Divergences.** Four runs show the code doing something else than its documents say:

- `densedb_nested`: `begin_tick` while a tick is open is refused with
  `DDB_ERR_TICK_ALREADY_OPEN`, after the WAL buffer was reset. The tick goes on,
  `end_tick` returns `DDB_OK`, which `densedb.h:358-359` describes as written and
  synced, and after reopening the rows recorded before the refused call are gone (or
  `open` returns `DDB_ERR_CORRUPT`). A host that never nests ticks is not affected;
  `densedb_durable` is about such a host.
- `net_windows`: `dense_net.h:95` and `docs/modules/libdense_net.md` say that reliable
  frames must arrive. A receiver whose `reliable_window` is smaller than the sender's
  drops a packet beyond it and acknowledges it, and the sender gives it up; the stream
  stalls without an error. With equal windows it cannot happen (`NetNothingForgotten`).
- `workset_reborn`: `docs/LIBDENSE-SIM.md:28-29` says that a world change causes a
  rebuild. `sync` hands over an address; a new World at the address of one that is
  gone, after as many ticks, is taken for it, and the old rows stay.
- `workset_turned`: `dense_sim.h:281-283` says that "a missed sync or world change
  enumerates the factorized relation while retaining still-visible dirtiness", and
  `docs/LIBDENSE-SIM.md:28-30` says the same. When the workset turns to another world the
  shipped kernel drops what was pending for an entity that is visible in both, without an
  error. Over missed ticks of one world the promise holds (`SameWorldRetained`).

Turning to another world also restarts generations, so a copy taken for the world served
before is accepted for the one served now when the same entity ids are visible
(`FirstRow`, `Matches`). `PendingAccounted` and `ChangedMembershipRefused` are about copies
of the world still served; no run is about this.

The uninstaller also removes the directories of `uninstall.sh` 125-131 when they are
empty, which the manifest never records, even one that was there before the
installation; `docs/INSTALLATION.md:110` speaks of recorded paths only.

Where there is no `sha256sum`, `verify-release.sh` 330-334 only looks whether
`SHA256SUMS` exists and passes. The model gives this its own answer, `pass without
sha256sum`, about which `AcceptedIsWhole` says nothing.

## Proofs

Every safety and action property of the passing runs is a theorem, and so is every
refinement; two liveness properties are only model-checked.

`PyBinding_proofs` proves, for any sets of objects and any bound:

| Theorem | Says |
| --- | --- |
| `TypeCorrect` | `Spec => []TypeOK` |
| `NoDanglingReference` | `Spec => []ReferentsAlive` |
| `OwnershipSound` | `Spec => []SoleOwner` |
| `GenerationCheckExact` | `Spec => []ValidIffLent` |
| `NoStaleRead` | `Spec => SpansReadAreLent` |
| `NoCallOnDestroyedWorld` | `Spec => NativeCallsAreLive` |
| `NoUseAfterDestroy` | `Spec => NativeUseIsLive`, the two together |
| `BuffersReleased` | `Spec => []BuffersHeldByFrames` |
| `PyPromiseKept` | `Spec => KeepsPromise`: the extension implements `FanoutLease` |

They assume what the modules assume of their constants: NULL is no object, the
classes of objects that can hold a reference are disjoint where the code's are,
and `MaxLease` is a natural number.

The inductive invariant `IInv` has four parts. `Types` adds to `TypeOK` how many
buffers a batch call holds while it acquires. `Counted` says that each pointer
in an object is a counted reference and that a World that is gone points at no
native world; without it a World could be deallocated under a view. `SoleOwner`
is inductive given these. `Periods` says what a generation stands for: a view
whose generation is its World's own has the World's current address and period,
finalized, and one whose generation is behind has a period that is over.
`ValidIffLent` alone is not inductive: it does not say that a view that is behind
stays behind when its World gets a new native world.

Each part has a lemma for each kind of step (World, view, group, batch call), and
`ViewDecref`, which may take a World with it, has lemmas of its own. The
refinement adds `Started` (a native world and a view have a period, number 0 being
none) and one lemma for each step of `FanoutLease`; by `Periods` a view passes
the generation check exactly when `FanoutLease` entitles it (`Entitlement`). NULL is
assumed to be no pair, so that no grant is mistaken for none.

`CppBinding_proofs` proves, for any sets of variables, states and views and any bound:

| Theorem | Says |
| --- | --- |
| `CppTypeCorrect` | `Spec => []TypeOK`, one owner for each native world included |
| `CppCheckExact` | `Spec => []ValidIffLent` |
| `CppUseIsLive` | `Spec => NativeUseIsLive` |
| `CppViewsOutlive` | `Spec => ViewsOutliveWorlds` |
| `CppPromiseKept` | `Spec => KeepsPromise`: the wrapper implements `FanoutLease` |

They assume that NULL is no address, no state or view and no pair. `IInv` is `TypeOK`
and `Periods`: a view whose generation is its state's own has the state's native
world in its current, finalized period, and one that is behind has a period that is
over. `ValidIffLent` says neither what happens to a view that is behind nor that a
state without a native world is ahead of all its views, and is not inductive.
Copies, moves and destructions of Worlds and views all go through `Assign`, so one
lemma (`AssignEffect`) says what becomes of the states and their native worlds when
each value assigned was there before and no two Worlds get the same state; each kind
of assignment is then shown to be such a one.

`RustBinding_proofs` proves, for any threads, values and bound:

| Theorem | Says |
| --- | --- |
| `RustTypeCorrect` | `Spec => []TypeOK` |
| `SingleWriter` | `Spec => []OneWriter` |
| `BorrowsHold` | `Spec => []BorrowsAreLent` |
| `PointersStayAlive` | `Spec => []InUseIsAlive` |
| `WorldsOwned` | `Spec => []SoleOwner` |
| `PromiseKept` | `Spec => KeepsPromise`: the crate implements `FanoutLease` |

They assume that NULL is no value, no address and no pair.

Here `IInv` is `TypeOK`, `SoleOwner`, `CallsAreOwned` and `BorrowsAreHome`.
`CallsAreOwned` says of each call in progress that its thread still owns what the
call was given, that the pointer it holds is still the World's, and that a call
that changes the World has no borrower; none of the state properties is inductive
without it, since the second step of a call has no guard of its own.
`BorrowsAreHome` ties a view to its World's thread, pointer and finalized tick. Each
kind of step has one lemma that it keeps `IInv`, and each property is a lemma
`IInv => ...`. The refinement adds `Started` (a World that is there has a period)
and maps each step: creation and a successful `begin_tick` to `Renew`, `drop` to
`End`, a lent view to `Grant`, its end to `Forget`, reads to `Ask`, all else to
`Silent`.

`DenseDb_proofs` proves, for any commands, last tick and number of faults:

| Theorem | Says |
| --- | --- |
| `TypesCorrect` | `Spec => []TypeOK` |
| `RecoveryIsWhole` | `Spec => []RecoversWhole` |
| `SafeTicksSurvive` | `Spec => []SafeSurvives` |
| `NoTickUnaccounted` | `Spec => []Accounted` |
| `ImplementsDurableTicks` | `Spec => KeepsPromise`: the files and the calls implement `DurableTicks` |

They assume that the bounds are natural numbers and that NULL is no log entry. `IInv` is
`TypeOK`, `FilesInv`, `ProcessInv` and `Accounted`. `FilesInv` speaks of every log
and every snapshot a power loss may leave: a log is faithful to the ticks it holds, a
snapshot holds the tables at its tick, and any such pair misses no tick up to its
last one, nor a safe one. That is what `RecoversWhole` needs and what a checkpoint
preserves only in the order it makes its system calls: `ProcessInv` says that from the
sync of the directory on there is one snapshot and it is the database.
`ProcessInv` also says where the ticks are that no file has yet, and that the pending
tick is newer than the log until it is written. The refinement maps the end of a tick
to `Finish`, what returns after a sync to `Promise`, a stop or power loss to `Lose`,
and all else to stuttering.

`NetSession_proofs` proves, for any windows, capacities and bounds:

| Theorem | Says |
| --- | --- |
| `NetTypesCorrect` | `Spec => []TypeOK` |
| `NetBuffersBounded` | `Spec => []BuffersBounded` |
| `ImplementsOrderedStream` | `Spec => KeepsPromise`: the callback sees `OrderedStream` |
| `NetNothingForgotten` | `Spec => []NothingForgotten`, if `WindowA <= WindowB` |

`IInv` is `TypeOK`, `PacketsInv` (the packets split the frames in order),
`DeliveryInv` (the callback has had every frame before the next one) and `BoundsInv`
(what is held and retained is within the windows). `NetNothingForgotten` adds
`AckInv`: an ack names only what came, and what came and is not retained any more is
delivered, being delivered or held. That is where the windows matter: a packet in the
sender's window is less than `WindowA` ahead of the oldest retained one, which is
not beyond the expected one, so a receiver with at least that window holds it.
`net_windows` is the counterexample without the assumption.

`RecipientWorkset_proofs` proves, for any variables, worlds, recipients, entities,
channels and any bound:

| Theorem | Says |
| --- | --- |
| `WorksetTypeCorrect` | `Spec => []TypeOK`, one owner for each native workset included |
| `WorksetIsExact` | `Spec => []MembershipExact` |
| `WorksetAccountsForPending` | `Spec => []PendingAccounted` |
| `WorksetRefusesChanged` | `Spec => []ChangedMembershipRefused` |
| `WorksetRetains` | `Spec => SameWorldRetained`: synchronizing with the world already served |

They assume that NULL is no address and no native workset. `IInv` is `TypeOK`,
`Counts`, `Tracks` and `Certificates`. `Counts` orders the numbers of a world: it has
finalized at most as many ticks as it began. `Tracks` says what a workset knows of the
world it was built from: level with it, it shows what is visible; one tick behind, it
does so after the edits of that tick, which is what makes the incremental
synchronization right. `MembershipExact` is its first half only and is lost in the
next `end_tick`. `Certificates` says that the generation in a copy is the row's own
while nothing happened to the recipient, with all that is pending accounted for, and
lower than the row's once the membership changed; rows never go back. The lemmas
`NextRowIs`, `EnqueuedIs`, `AcknowledgedIs` and `ClearedIs` say what each call makes
of a row. `MembershipExact` is about the very world a workset was built from; that a
new World at an old address is not told apart is `workset_reborn`.

`ReleaseTooling_proofs` proves, for any finite set of interpreters, any number of builds
and edits:

| Theorem | Says |
| --- | --- |
| `ReleaseTypeCorrect` | `Spec => []TypeOK` |
| `CompleteBuildIsWhole` | `Spec => []CompleteIsWhole` |
| `VerifiedIsWhole` | `Spec => []AcceptedIsWhole` |

They assume `Bounds` and that the names of files and contents differ. `IInv` adds
`Progress`, what each phase of a build has made so far, whole and of this build, and
`OneBuild`: the whole wheels a verifier can come to see are always of one build.
Neither verdict is inductive alone, as what is verified was made several scripts
before. That the verifier counts its wheels and finds as many as there are
interpreters leaves room for no other: with a wheel for each there are already as many
(`NoStray`).

`Installer_proofs` proves, for any finite sets of releases and selections, any parts
of a release and any shared directories:

| Theorem | Says |
| --- | --- |
| `InstallerTypeCorrect` | `Spec => []TypeOK`, with `TreeKept`: no directory is removed that holds something |
| `InstallationIsWhole` | `Spec => []InstalledWhole` |
| `ManifestNamesAll` | `Spec => []ManifestCovers` |
| `UninstallIsComplete` | `Spec => []UninstallComplete` |

They assume that the manifest is none of a release's files (`NamesDistinct`), that a
release has at least one header (`PartsAreLists`; `HEADERS` in `install.sh` 125-135),
that releases and selections are finite, and that NULL is no
directory and no list of lines. `IInv` is `TypeOK`, `Installing`, `UsedFor` and
`Uninstalling`. `Installing` says that what is recorded and what is still to be done
are together the payload, and that what is recorded is in place except for the path
that is being written over. `UsedFor` says, as long as only one release and selection
was ever installed, that every file is one of theirs and that a manifest that names
itself names all of them; a manifest that was cut short does not name itself, as it
does so last. `Uninstalling` says that nothing is left but what the queue names, and
that the directories tried so far are not empty; the latter is kept because a
directory of the list is tried before the one it is in (`InnermostFirst`), so that no
later removal empties one that was tried. `Above` is a recursive function; `AboveIs`
proves that its definition has a solution, by a table of the nine directories.

Only model-checked: the two liveness properties, `EveryTickCommits` and
`EverythingSettles`, as liveness under fairness is beyond the prover. The four runs that
show a violation are about instances, and need no proof.

## Not modelled

- What the worlds compute, and the scheduler, navigation, collision and AI
  libraries: binaries whose headers say nothing about order, failure or concurrency
  that a model could be checked against.
- The sequenced and unreliable lanes, the registries, the authority and the
  simulation bridge of the network library; tables, schemas and watches of DenseDB.
- The ABI coverage check: it compares texts and keeps no state.
- Benchmarks, examples, documentation.

## Plan

1. `SequencedLane`: one newest value for each key, coalescing and dropping what is
   stale, over the transport of `NetSession`. A packet dropped as stale takes the
   newest state of other keys with it; the module is to say when that heals.
2. `EntityTable`: the entities as the batch calls of the Python binding see them,
   to state what a batch that stops half way has applied, with the conversion and
   wrap-around of 64-bit arguments.
3. A sender over `RecipientWorkset`: sources that keep marking, a sender that
   works from copies, views missed and repeated; what is delivered at least once.
4. Proofs: of these modules; and of how the mixed selections of `Installer` heal, once
   stated: what an installation leaves that no manifest names.
