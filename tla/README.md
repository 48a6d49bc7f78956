# kasou, verified: TLA+ models of the VM bindings

`kasou` (src/) is a Rust crate of safe bindings over Apple's
Virtualization.framework. A program builds a configuration, creates a
`VmHandle`, calls `start`, `pause`, `save_state`, ... on it, each call blocking
until the framework has answered, and drops it. The code is short; what is
hard in it is that three threads and several processes meet over it: the
owner of the handle, the serial dispatch queue on which the framework calls
back, a guest that stops or breaks when it likes, and files that outlive the
process and are read by the next one. This directory holds the models of that,
the model-checking runs and the proofs.

Module names ending in .tla are here; source paths have the repository at src/,
so that the crate's modules are src/src/*.rs.

## 1. Inventory

### VM lifecycle states (src/src/vm.rs, enum VmState)
*State*: none, ten values. *Operations*: `is_active` (does Drop have to act),
`can_transition_to` (the transition table), `is_terminal`. `from_vz` is never
called; `Display` only formats. *Correct when*: the table is the framework's
lifecycle, and what is published agrees with it.

### VmHandle (src/src/vm.rs)
*State*: the machine and its queue (framework objects), the two ends of a watch
channel holding the last published state, the event bus, the configuration, the
creation time. Per call: an mpsc channel whose sender travels with the block.
*Operations*: `create`; `start`, `stop`, `pause`, `resume` (through
`dispatch_vz_op`); `save_state`, `restore_state` (through
`dispatch_vz_url_op`); `request_stop`; `state`, `info`, `wait_for_ip`,
`events`; `Drop`. *Interactions*: it submits blocks to the queue, whose
completion handlers send on the mpsc channel; it writes the watch channel that
the delegate also writes; it emits to the bus; `Drop` reads the watch channel,
not the machine, to decide whether a hard stop is needed.
*Hard*: the delegate and the owner write one channel with no order between
them; `recv` has no timeout; `Drop` blocks on the queue that runs the
handlers; a hard stop that takes longer than the wait after it. *Correct when*:
every call is answered exactly once, truthfully, and returns; a live machine is
reported as live; nothing runs on without a handle, except a paused machine,
which must not be touched, and one that refuses to stop, which Drop does not
notice.

### VmDelegate (src/src/delegate.rs)
*State*: a clone of the watch sender. *Operations*: `guestDidStopVirtualMachine`
sends Stopped, `didStopWithError` sends Error. It runs on the queue. *Correct
when*: its reports are not lost. They can be, see section 5.

### Event bus (src/src/event.rs)
*State*: a broadcast channel of capacity 256. *Operations*: `emit`,
`subscribe`. *Hard*: slow subscribers lose the oldest events; bus and watch
channel are written one after the other. *Correct when*: what a subscriber sees
on the bus is never ahead of `state()`, the history it got has no gap it was
not told of, and once it has caught up it knows what `state()` says, apart from
the stops and errors that only the watch channel carries.

### Machine identifier (src/src/config.rs, load_or_create_machine_identifier)
*State*: a file, and the temporary file beside it. *Operations*: load the file,
or generate an identifier, write it to the temporary file, sync, rename.
*Interactions*: `build_vz_config_inner` calls it in `create`; a snapshot is
bound to the identifier it returned, so a later process must load the same.
*Hard*: process death, I/O errors, power loss, two first boots at once.
*Correct when*: an identifier that was returned is what every later boot loads,
and no boot leaves a file that cannot be loaded.

### Snapshots across processes (src/src/vm.rs, src/src/config.rs)
*State*: the saved file, and the identifier it is bound to. *Operations*:
`save_state` (the framework's save, then a sync whose errors are ignored),
`restore_state`, Drop of a paused machine. *Hard*: death or power loss in the
middle of a save, a second save over the first, an identifier that is lost
between save and restore. *Correct when*: a save that answered Ok is resumed by
the next process, and across a power loss too when it was synced.

### Configuration builder and validation (src/src/builder.rs, src/src/config.rs)
*State*: the builder's fields, of which the boot mode is an accumulator that
five methods write, and the disks and shared directories are lists in the order
of the calls. *Operations*: one method per field, `build`, which runs
`validate`. *Hard*: any order, any number of calls; checks that stop at the
first failure. *Correct when*: the result is what the calls said whatever their
order, and the boot files and disks of what is accepted exist. (Shared
directories are looked for only when the machine is created.)

### VZ configuration pipeline (src/src/config.rs, boot.rs, disk.rs, network.rs, serial.rs, shared_dir.rs)
*State*: none in memory; it creates files on the way (EFI variable store,
identifier, serial log). *Operations*: `build_vz_config` and the device
constructors. *Hard*: files that change between `validate` and use; what a
failing step leaves behind; `memory_mib * 1024 * 1024` in 64 bits. *Correct
when*: what `validate` found is missed later only if it was moved; nothing a
failed `create` leaves behind makes a later one fail, except an identifier that
two first boots at once have broken; no variable store that a guest has used is
emptied.

### DHCP lease lookup (src/src/dhcp.rs)
*State*: none; it parses /var/db/dhcpd_leases. *Operations*: `parse_leases`,
`find_lease_by_mac`, `lookup_ip_by_mac`; `wait_for_ip` polls it. *Hard*: the
file is rewritten while it is read; fields carry over between blocks; a stale
lease of an earlier boot; the deadline. *Correct when*: no half-written block
is taken for a lease; the address returned is that of the newest lease under the
configured text; none is missed that was there at the last look; the wait ends.
The code compares texts: a lease of the same address that is spelled otherwise is
another lease to it, see section 5.

### MAC addresses, value types (src/src/types.rs)
*State*: none. *Operations*: `MacAddress::parse`, `Display`, `deterministic`.
*Hard*: parts with one digit, leading zeros or a plus sign. *Correct when*: what
`Display` writes is read back as the same address, and what is accepted fits.

### Errors (src/src/error.rs, util.rs)
Data and formatting; no state. Which error a step returns is in the models of
the steps.

### lib.rs, examples/smoke.rs
Re-exports, and a program that calls the API in sequence. Not modelled.

`PROJECT.json` lists the components with their status, and the hazards with
the line of source where each bites.

## 2. The models

| module | stands for |
|---|---|
| `VmState.tla` | `VmState`, `is_active`, `can_transition_to`, `is_terminal` |
| `VzMethods.tla` | the methods of `VmHandle`: what state each leads to and publishes |
| `VzMachine.tla` | the framework's machine and the serial queue (external) |
| `VmHandle.tla` | `VmHandle` with `VmDelegate`, over `VzMachine` |
| `VmContract.tla` | abstract: what `VmHandle` promises its owner |
| `VmHandleRefinement.tla` | the refinement mapping from `VmHandle` to `VmContract` |
| `VmHandleInv.tla` | the inductive invariant of `VmHandle` |
| `VmHandleProofs.tla` | the theorems about `VmHandle` |
| `VmHandleRefinementProofs.tla` | the proof that `VmHandle` implements `VmContract` |
| `VmEvents.tla` | the bounded event bus and its subscribers, composed with `VmHandle` |
| `VmEventsInv.tla` | the inductive invariant of `VmEvents` |
| `VmEventsProofs.tla` | the theorems about the bus |
| `MachineIdentifier.tla` | `load_or_create_machine_identifier` over a file system (external) |
| `Snapshot.tla` | `save_state`, `restore_state` and the life of a process, composed with `MachineIdentifier` |
| `SnapshotInv.tla` | the inductive invariant of `Snapshot` for one process at a time |
| `SnapshotProofs.tla` | the theorems about identifiers and snapshots |
| `VzConfiguration.tla` | `VmHandle::create`: `validate`, `build_vz_config` and the device constructors |
| `VzConfigurationInv.tla` | its inductive invariant |
| `VzConfigurationProofs.tla` | the theorems about `create` |
| `VmConfigBuilder.tla` | `VmConfigBuilder` and `VmConfig::validate` |
| `VmConfigBuilderInv.tla` | its inductive invariant |
| `MacAddress.tla` | `MacAddress::parse`, `Display`, `deterministic`, as functions |
| `VmConfigBuilderProofs.tla` | the theorems about MAC addresses and about the builder |
| `LeaseLookup.tla` | `parse_leases`, `find_lease_by_mac`, `wait_for_ip`, over a lease file its server rewrites (external) |
| `LeaseLookupInv.tla` | its inductive invariant |
| `LeaseLookupProofs.tla` | the theorems about the parser and about `wait_for_ip` |
| `NumberSets.tla` | lemmas on least, greatest and ranked elements of sets of numbers, for the two modules above |
| `MC*.tla`, `MC*.cfg` | instances for TLC |

### VzMachine: what lies below
`vz` is the machine's own state, `handler` the method whose completion handler
it holds, `queue` the dispatch queue: blocks of the handle (`block`),
completion handlers about to run (`ok`, `err`) and delegate callbacks
(`delegate`), run one at a time in FIFO order. The machine moves only along
`can_transition_to`. A method is refused at once when the state does not allow
it, or, for methods in `MayRefuse`, Drop's hard stop among them, although the
state does allow it; otherwise
the machine enters a transient state and later succeeds (`VzFinish`), fails
(`VzFail`) or breaks (`VzCrash`). A running guest may power off at any time
(`GuestStop`). When the machine breaks under a method, handler and delegate are
both told, in either order. A paused machine saves, so a failed save leaves it
Paused or in Error. The one assumption, `MayRefuseAssumption`, gives `MayRefuse`
its type: it may be any set of methods.

### VmHandle
| variable | code |
|---|---|
| `watch` | the value in the watch channel |
| `pc` | where the owner is: no handle, no call, in `recv()`, between `state_tx.send` and `emit`, before the closing event, in Drop |
| `op`, `before`, `result` | the method called, its local `before`, what it returned |
| `reply` | what the call's mpsc channel holds, or how `exec_sync` ended: `ran`, or `refused` when the machine did not take the hard stop up |
| `bus` | the last event emitted |

Drop cannot see the difference between `ran` and `refused`, for the completion
handler it passes is empty; only properties and the mapping read it.

`VmHandle` is `Send` and not `Sync`, so its calls and its Drop come one after
the other; everything else interleaves. One action per step that another
thread can come between: `Call` (enter a method, submit the block), `RejectPath`
(a snapshot path that is not UTF-8: nothing is submitted), `RunOp`,
`RunRequestStop`, `RunHardStop` (a block runs), `RunCompletion`,
`RunDelegate`, `CancelBlock` (a block is dropped unrun, which closes its
channel), `ReturnErr`, `Publish` (`state_tx.send` of `transition_state`),
`EmitChange` (its `emit`), `EmitNotice` (the closing event of `save_state`,
`restore_state`, `request_stop`), `AnnounceIp` (the event of `wait_for_ip`, which
goes to the same bus; what it looks up is in `LeaseLookup`), `DropQuietly`,
`DropForcing`, `DropRelease`.
Reading `before` and submitting the block are one action: the owner's block
comes behind whatever the queue already holds in both orders, and a delegate
callback that runs in between changes only which of two legal values `before`
has, both of which the model reaches. The value of `before` reaches only the
event. The 100 ms sleep of Drop is not a bound on anything the framework
guarantees, so `DropRelease` may come at any time after the block has run.

`EmitNotice` stands also for the sync of the snapshot in `save_state`: it
ignores every error and changes nothing else that a thread of this process can
see. What it does to the file is in `Snapshot`.

### VmContract and the mapping
The contract has no queue, no completion handler and no channel: a machine that
is in a settled state or `Busy`, what `state()` reports, the call its owner is in
and how far that call has come. A call begins only in a state that allows it,
succeeds by reaching its target, is published, and returns; or it is refused
without effect; or it fails. `Report` is the delegate: it may be late, but never
speaks of a machine that is live again, unless the success that made it so is
still to be published, nor while a machine is saved. `CloseQuietly` and
`CloseForcing` are Drop, whose stop may be declined like a call's. The mapping
takes the transient states of `vz` to `Busy`, `pc` and `op` to the call, and
decides a call where its outcome is settled, which is when the machine answers
and not when the owner hears of it: `StageBar` looks at the queue for an answer
on its way. `VmContract` is a specification, not a translation, and has no lines
of source; `VmHandleRefinement` ties it to the code. `Promises` is what an owner
gets from it: between calls `state()` is right about a live machine
(`ReadyIsTrue`), no machine runs on without its handle, except one that declined
the stop (`NoneRunsOn`), Drop never comes to stop a paused one
(`PausedIsSpared`), and a success is claimed only of a machine that got there
(`SuccessIsTrue`).

### VmEvents
`inbox` holds what each receiver has yet to read, `lagged` that it lost
something it was not told of, `last` the state it believes in. A tokio broadcast
channel keeps one ring for all receivers; the unread part of it, per receiver,
is all a receiver can tell. `Send` is `emit` and runs in the same step as the
emitting action of `VmHandle`; `Subscribe`, `Receive`, `ReceiveLagged` and
`Unsubscribe` are the receiver's, between any two steps of the handle.

### MachineIdentifier
`dir` and `data` are the file system as processes see it, `ddir` and `disk`
what of it has reached the disk. Each call of the function is an action:
`Find` or `Generate` (`exists`, and the generation of an identifier), `Load`,
`CreateTmp` (`File::create`, which truncates an existing file), `WriteChunk`
(`write_all`, one write at a time), `SyncTmp`, `RenameTmp`, `ReturnFresh`.
`Abandon` is an error of the call under way or the death of the process;
neither cleans anything up. `WriteBackDir` and `WriteBackData` let anything
reach the disk at any time, `PowerLoss` loses the rest. `Faults` says whether
power may be lost and whether `exists` may fail, `Proc` how many processes boot.
`issued` is a history variable: the identifiers returned, to which a snapshot
may be bound.

### Snapshot
Extends `MachineIdentifier` by what a process does with the identifier: its
machine runs under it (`vm`), is paused, saved (`BeginSave`, `EndSave`, then
`SyncSave` or `SkipSync`: `save_state` answers Ok either way), restored. `snap`
and `dsnap` are the saved file as processes and as the disk have it, `dnamed`
whether its name is on the disk. `Exit` is Drop as well as the end of the
process. That the framework refuses a snapshot of another identifier, or one
that is torn, is `Restorable` (external). `promise` and `bound` are history
variables: how far the last save that answered Ok can be counted on. Begun saves
undo it, because the framework writes over the old file; so does a power loss,
unless the file was synced and its directory written back; so does an `exists()`
that fails, since the identifier is then replaced.

### VzConfiguration
A `create` is a script, the sequence of steps that `validate` and
`build_vz_config_inner` take for a configuration, in the order of the code, each
with the path it looks at and the error it returns. `todo` is what is left of
it in each process, `fs` what is at each path. One action per kind of step:
`Look` (an `exists()` or the opening of a disk), `ToUrl`, `Find` and
`Provide` (the two halves of the variable store), `SetMac`, `OpenLog`,
`Complete`; `Fail` is the `?` that ends a create and cleans nothing up. `Refuse`
and `Throw` are the framework's errors and exceptions, `Die` is the death of the
process, `Meddle` another program that adds or removes a file. `excused` is a
history variable: what came in the way of the create from outside.

The identifier takes four steps of the script: `Find` (`exists`), `Load` or
`OpenDraft` (`File::create` of the temporary file, which truncates one that is
there), `WriteDraft`, `RenameDraft`; `SkipDraft` passes over the last two when an
identifier was loaded. `tmp` is the temporary file, one for all processes, and
`file` where the file that a process has open has gone: another's rename moves it
to the path, or replaces it. So a create can meet an empty or torn identifier, and
fails on it. This is `MachineIdentifier` with the data abstracted to whether an
identifier is whole, and without the disk below: power loss is there only.
`met` is a history variable: two first boots have been at the temporary file at
once.

`LeftoversAreReusable` is about the step in which a create fails: at that step,
and not in some later state, an input must be missing, or the configuration
wrong, or the identifier one that two first boots have broken. Without the last
exception TLC finds it violated, which is `identifier_two_boots` once more: what
the run adds is that nothing else of a failed create does any harm, and that one
process at a time, dying wherever it may, leaves no such identifier.

Two assumptions. `StoreAssumption`: one path is not given both as the variable
store and as the serial log or the identifier. `IdentifierAssumption`: the
identifier is not at the path of an input or of the serial log. The code has no
such checks. A client that does give one path twice has its store appended to by
the log, or its disk read as an identifier, and the properties say nothing of it.

### VmConfigBuilder
`boot_mode` is the accumulator; the other variables are the fields that several
calls may write or that `validate` reads. `calls` is a history variable: what was
called, with which argument. `BootIsAsCalled` reads the wanted boot mode off
`calls` declaratively (last mode named, last value of each field since) and
compares; `DevicesAreAsCalled` does it for the lists and the other fields: the
call that is the n-th of its kind is the n-th entry of the list (`Rank`).
A shared directory has its tag, its path and whether it is read-only (`Shared`,
with `Tag` the names), and `DevicesAreAsCalled` compares all three. As in the code,
`validate` looks for no shared directory, and `AcceptedFilesArePresent` says
nothing of them. `CommandLine` and `Count` are the arguments of `cmdline`, `cpus` and `memory_mib`;
what count was asked for is not kept in `calls`, since no property is about it.
`HashOf` is the hash that `deterministic_mac` takes three bytes of, a parameter.

### MacAddress
A text is the sequence of parts that `split(':')` yields, a part a sequence of
characters, of which only hexadecimal digits, the plus sign and "any other" are
told apart: `from_str_radix` accepts one leading plus and any number of leading
zeros, and so does `IsByte`.

### LeaseLookup
`blocks` is what the server means the file to hold, `filled` how many of its
lines are there: `Rewrite` grants or drops a lease and empties the file, `Fill`
writes one more line. `Contents` is what one read may see: the lines so far, the
next perhaps cut off, so that a half-written address may look like another one.
A read that sees two versions of the file is not modelled: `read_to_string`
sizes its buffer by the file and takes a small file in one read. `ParseLine` is
the body of the loop of `parse_leases`; `Written` is how many blocks are there
to their closing brace. A hardware address in the file is a text: with or without
the type indicator `1,`, in upper or lower case, and spelled in one of the ways of
`Spelling`, which `MacOf` takes to addresses: `52:55:55:0a:bb:cc` and
`52:55:55:a:bb:cc` are two texts of one address. `find_lease_by_mac` folds the first
two and compares the rest (src/src/dhcp.rs:82-84), so the properties speak of the
leases under the configured text (`Mine`), and `AddressSuffices`, about all the
leases of its address, is a finding. `ResultAssumption` only keeps addresses apart from the
errors in `result`. `Begin`, `Look`, `LookFails`, `GiveUp`,
`Sleep` and `Wake` are the steps of `wait_for_ip`; time is `left`, the seconds
to its deadline, and `nap`, the seconds to sleep, which `Tick` runs down. `newer`
is a history variable: whether the file changed since the last sleep and look.
The event `IpAssigned` is `AnnounceIp` of `VmHandle`.

## 3. The runs

Every run checks deadlock.

| run | question | bounds, distinct states |
|---|---|---|
| `handle_promises` | do the handle's promises and the inductive invariant hold in every interleaving, does every call return and Drop finish, and is all of it an implementation of the contract? | `MayRefuse` = every method, the hard stop too; 6089 |
| `handle_stale_running` | finding 1 | the same |
| `handle_drop_refused` | finding 2 | the same |
| `handle_release_stopping` | finding 3 | the same |
| `event_subscribers` | what may a subscriber of the bounded bus rely on? | one receiver, room for two events; 203817 |
| `snapshot_resume` | is an issued identifier kept and a saved machine resumable, whichever step a process dies in and whatever a power loss takes? | one process at a time, any number of boots, saves and faults; 118560 |
| `identifier_lost_rename` | finding 4 | power loss |
| `identifier_two_boots` | finding 5 | two processes |
| `create_pipeline` | what may one create do to another, and a moved file to a create? | two processes, five configurations, nine paths; 317240 |
| `builder_order` | is the order of the builder's calls respected, are the boot files and disks of what is accepted present, and a derived address read back? | four calls, two files, two tags; 1675862 |
| `lease_wait` | does waiting for an address find the right one, miss none it could have seen, and end? | two blocks out of six, timeouts of 0 and 2 s; 71452 |
| `lease_spelling` | finding 6 | the same |

What `handle_promises` checks:
- `LiveIsReported`: whenever no call is waiting, a machine that is running or
  paused is reported as just that. Drop's decision rests on it.
- `NoRunningOrphan`, `PausedSurvivesDrop`: Drop leaves no machine working
  except a paused one and one that refused the hard stop (`handle_drop_refused` is
  about that one), and only the method `stop` ever stops a paused one. The
  first is what the watch channel is worth to Drop: it never fails to ask.
- `OkMeansReached`: `Ok` is only answered when the machine got there.
- `OneAnswer`: a waiting call has exactly one answer on its way, so none is lost
  and none belongs to an earlier call.
- `BusNeverLeads`: who reads `state()` on a `StateChanged` event sees that state, or
  the stop or error of a machine that is no longer live, never an
  older state.
- `IInv`: the invariant of the proofs, section 4.
- `EveryCallReturns`, `DropCompletes`: under the fairness below, no call waits in
  `recv()` for ever, and Drop comes to releasing the handle.
- `ImplementsContract`: every behaviour is one of `VmContract`. It adds to the
  above in which order things happen: no Ok before its publication, no step of
  the machine that the call did not ask for, no report of a machine that is live.

What `event_subscribers` checks: a change that a subscriber reads starts from the
state it was last told, unless the bus told it of a loss or the delegate reported
a stop (`HistoryHasNoGap`); a subscriber that has read everything knows what
`state()` says, except of a machine that has stopped or broken
(`OnlyStopsAreMissed`). `RxInv` is the invariant of the proofs.

What `snapshot_resume` checks: a save that answered Ok, and that no later save,
fault of the disk or replaced identifier has undone, is whole and bound to the
identifier which the next boot loads (`Resumable`); the path never holds a file
that cannot be loaded (`NeverBricked`); until power is lost or `exists` fails,
the identifier that was returned is the one at the path (`IssuedIsKept`). `SnapInv`
is the invariant of the proofs.

What `create_pipeline` checks: `ValidateForesees` (the two looks at a file look
for the same file), `LeftoversAreReusable` (a create that fails does so for its
inputs, its configuration or something that came in its way, and never for what
an earlier one left behind, but for an identifier that two first boots broke) and
`StoreIsNeverReset`. `CreateInv` is the invariant
of the proofs.

What `builder_order` checks: the four properties of `VmConfigBuilder` named after
what they say. `BuilderInv`, the invariant of the proofs, says little more and is
not checked by it.

What `lease_wait` checks: whatever part of a rewritten file is read,
`parse_leases` yields the leases of the blocks that are complete and nothing else
(`ParsedAreWritten`); the address `wait_for_ip` returns is leased under the
configured text, in either case and with or without the type indicator, and, when
the file is whole, the one granted last (`AnswerIsCurrent`); it gives up only
at its deadline, and never on such a lease that came while it slept
(`NoLeaseMissed`); it returns (`WaitReturns`). `LeaseInv`, the invariant of the
proofs, is not checked by it.

*Bounds.* The handle's model has none: one owner makes any number of calls on
any number of handles in turn, and the queue is unbounded. Its reachable states
are finite because a crash ends a machine and a guest can stop again only after
another call. Two handles share nothing in the process.

The bus of `event_subscribers` has room for two events instead of 256. A call
emits at most two events and a receiver may read between any two steps, so an
inbox is empty, part full, exactly full and overrun, and a loss meets both kinds
of event; more room only delays the loss. Receivers do not act on the handle or
on each other, so one shows what each of them sees.

The runs of identifier and snapshot have three identifiers, three files and
identifiers of two chunks: one generation to return, one to compete with it and
one after a loss; a file at the path, one under the temporary name and one only
the disk still knows; a torn write between two chunks. A generated identifier
creates at most one file, so as many files as identifiers never hold a step
back. `snapshot_resume` has one process at a time: that two first boots do break
`NeverBricked` is finding 5. There is one snapshot path; a second one would be
independent.

The five configurations of `create_pipeline` are an EFI machine with a variable
store in the current directory and an identifier, a Linux machine with an identifier, one with two disks, two
shared directories and a serial log, and two that `validate` accepts and
`build_vz_config` refuses late, for a MAC address (an EFI machine whose store has a
directory, which may be moved) and for a name that is not
UTF-8, after other files may have been created. Any number of creates follow one
another. Two processes are what can race for the variable store, the only file
whose creation is exclusive, and for the temporary file, the only one they share.

Four calls of the builder are the three Linux fields and a change of mode, or two
changes of mode with a field set before and between; a mode change looks at no
more than what the accumulator holds, so a longer sequence repeats one of these.
One present file and one missing file (without a parent) are what the checks tell
apart. Two tags, and read-only or not, tell shared directories of one path apart.
One text is an address with a short part, a plus sign and leading zeros,
one is no address; the hash has bytes below 16 and above 127.

Two blocks of the lease file are enough for two leases of one address, in either
order, or one of another VM beside it; the six kinds of blocks differ in case, in
the type indicator, in the zeros of the address, and in which field they lack. A
timeout of 0 is the call that looks once; 2 has a
sleep that ends before the deadline and one that ends at it.

*Fairness* (`VmHandle.tla`, `Fairness`): weak, on the owner's return from a call
whose answer is there (a thread that can run is run), on the queue running its
head (a serial queue does), and on the framework ending a method it began, in
success (`VzFinish`; a failure or a crash ends it too and disables this). Nothing
makes an owner call, a guest stop or a machine break. `CancelBlock` is not fair:
it is only something that may happen. `DropCompletes` needs no answer of the
machine, only of the queue. In `LeaseLookup` the caller's thread runs and time
passes; the server owes nothing.

## 4. What is proved

For any set `MayRefuse` of methods, the hard stop included, and
queues of any length (`VmHandleProofs.tla`; `Refinement` in `VmHandleRefinementProofs.tla`):

| theorem | statement |
|---|---|
| `Invariance` | `Spec => []IInv` |
| `TypeCorrect` | `Spec => []TypeOK` |
| `LiveReported` | `Spec => []LiveIsReported` |
| `NoOrphan` | `Spec => []NoRunningOrphan` |
| `OkIsTrue` | `Spec => []OkMeansReached` |
| `ExactlyOneAnswer` | `Spec => []OneAnswer` |
| `DropSparesPaused` | `Spec => PausedSurvivesDrop` |
| `WatchFirst` | `Spec => BusNeverLeads` |
| `Refinement` | `Spec => ImplementsContract` |
| `ContractKeepsPromises` | `ImplementsContract => []Contract!Promises` |
| `PromisesKept` | `Spec => []Contract!Promises` |

For any `MayRefuse`, a bus of any capacity from 1 on and any set of
receivers (`VmEventsProofs.tla`):

| theorem | statement |
|---|---|
| `RxInvariance` | `RxSpec => [](IInv /\ RxInv)` |
| `InboxBounded` | `RxSpec => []RxTypeOK` |
| `CaughtUpKnows` | `RxSpec => []OnlyStopsAreMissed` |
| `NoGap` | `RxSpec => HistoryHasNoGap` |

For any identifiers, files, number of chunks and faults, with `OneProcess`
(`SnapshotProofs.tla`):

| theorem | statement |
|---|---|
| `SnapInvariance` | `SnapSpec => []SnapInv` |
| `SnapTypeCorrect` | `SnapSpec => []SnapTypeOK` |
| `NothingBricked` | `SnapSpec => []NeverBricked` |
| `SavesResume` | `SnapSpec => []Resumable` |
| `IdentifierKept` | `SnapSpec => []IssuedIsKept` |

For any number of processes, any configurations, paths, loose files and names
that are not UTF-8, with `StoreAssumption` and `IdentifierAssumption`
(`VzConfigurationProofs.tla`):

| theorem | statement |
|---|---|
| `CreateInvariance` | `Spec => []CreateInv` |
| `CreateTypeCorrect` | `Spec => []TypeOK` |
| `Foresees` | `Spec => []ValidateForesees` |
| `Reusable` | `Spec => LeftoversAreReusable` |
| `StoreKept` | `Spec => StoreIsNeverReset` |

For any number of calls, any files, texts, seeds, counts and hash
(`VmConfigBuilderProofs.tla`; the first three for every text and address):

| theorem | statement |
|---|---|
| `ReadBack` | `parse` accepts what `Display` writes, and gives the address back |
| `TextsDiffer` | two addresses are never written alike |
| `ParseInRange` | whatever `parse` accepts is six bytes |
| `BuilderInvariance` | `Spec => []BuilderInv` |
| `BuilderTypeCorrect` | `Spec => []TypeOK` |
| `BootAsCalled` | `Spec => []BootIsAsCalled` |
| `DevicesAsCalled` | `Spec => []DevicesAreAsCalled` |
| `MacReadBack` | `Spec => []MacIsReadBack` |
| `AcceptedFiles` | `Spec => []AcceptedFilesArePresent` |

For any blocks, any number of them in the file, any timeouts and whatever the
server does (`LeaseLookupProofs.tla`):

| theorem | statement |
|---|---|
| `LeaseInvariance` | `Spec => []LeaseInv` |
| `LeaseTypeCorrect` | `Spec => []TypeOK` |
| `ReadersSeeWholeLeases` | `Spec => []ParsedAreWritten` |
| `AnswersAreCurrent` | `Spec => AnswerIsCurrent` |
| `NoneMissed` | `Spec => NoLeaseMissed` |

With these every property that a passing run checks is a theorem, but for the
three liveness properties.

The argument. `LiveIsReported` is not inductive: that the report of a live
machine is right depends on what is still queued. `IInv` adds
- `MachineInv`: the machine is in a transient state exactly while it holds a
  handler, so no stop is in progress unseen;
- `PhaseInv`: in each phase of the owner, what may be in the queue. Outside a
  call only delegate callbacks are; in a call exactly one answer is queued, held
  or received. It gives `OneAnswer`;
- `AskedOnce`: Drop asks for one hard stop only, and `exec_sync` is back when that
  block has run, so a refusal that was noted is the last word on it;
- `DelegateInv`: a stop the delegate has yet to report concerns a machine that
  is not live, or one that a success queued *behind* the report made live again.
  So a late report cannot overwrite the Running of a later start: the queue's
  order is what saves it;
- `WatchInv`: the watch channel is right about a live machine, except in a call
  whose success is on its way and will be published;
- `OkInv`: such a success is true.

Each of the actions preserves each part; the lemmas on queues (what `Append`,
`Tail` and an appended pair do to `Silent`, `Only`, `Single`, `OkPending`,
`StopReports`, `OneBlock`, `Served`) carry the steps. `NeedsForce` then yields
`NoRunningOrphan`: at the decision of Drop no call waits, hence `watch` is right.
Nothing of it restricts which methods the framework refuses.

`Refinement` rests on the same invariant. Each action of `VmHandle` maps to one
action of the contract or to a stutter: submitting a block stutters or is
`Invoke`, the block that runs is `Begin`, `Acknowledge` or `Decline`, the
machine's answer `Succeed` or `Fail`, a completion handler that runs a stutter,
since it only moves the answer from the queue to the channel and `StageBar` looks
at both. `PhaseInv` is why at most one answer is there to be looked at, `OkInv`
why `Succeed` comes before it, `DelegateInv` why a delegate's report is a
`Report`, and `WatchInv` why Drop takes `CloseQuietly` only of a machine that does
not work. The lemmas on queues are extended by one for `ErrPending`.

`ContractKeepsPromises` is then an argument about the contract alone, by its own
inductive invariant `PromiseInv`: a machine is `Busy` exactly while a call or Drop
is `working`, and its report is wrong, if it is live, only between `Succeed` and
`Publish`. A save needs more, for it publishes nothing and may end where it
began: the report stays `Paused` throughout. So `Report` must not happen while a
machine is saved, which the contract says and `RunDelegateContract` proves of the
code: `DelegateInv` has no stop in the queue of a machine that is `Saving`.
`PromisesKept` puts the two together.

*The bus.* What a receiver knows is spread over three places: what it has read
(`last`), what it has yet to read (`inbox`) and what the handle is about to emit
(`before`, and the target of `op`). `RxInv` says how they hang together, for each
receiver: the changes in its inbox are `Chained`, each starting where the one
before it ended; the first is `Anchored` in what it believes, unless it lost
events; and once it has read all of them it will have been `Told` of what
`state()` says, and, while a call is under way, of the state that call started
from. The exceptions are the stops and errors, which no event tells of. `Chained`
and `Anchored` of the next event follow from the latter. `LastReport`, that a
machine which outlives its handle was last reported as what it still is, is what
the next handle starts from. Every step of the composition is a step of the handle
or leaves it as it is (lemma `HandleMoves`), so that `IInv` holds of it too.

*Files.* `NeverBricked` is not inductive: what the path will lead to is being
written under another name. `SnapInv` adds
- `FilesInv`: the file at the path is whole in memory and on the disk, for the
  directory the processes see and for the one a power loss brings back; and the
  temporary name leads to a file that neither of them has at the path, so that
  `File::create` truncates nothing that counts;
- `FunctionInv`: how far the temporary file of the process in the function is
  filled, and that it is on the disk before the rename;
- `VmInv`: a machine runs under the identifier that is at the path;
- `PromiseInv`: what a save that was answered may be counted on for, as far as
  the file, its name and the directory have reached the disk;
- `IssuedInv`: before a fault, an identifier is generated only if none was returned.

The assumption `OneProcess` is necessary: finding 5 is the run in which two
first boots break `FilesInv`, and then `NeverBricked`.

*Creating.* What a step of a create relies on is in the steps before it.
`CreateInv` adds
- `ScriptInv`: what a process has left is the end of its script, so that what is
  behind it is the beginning;
- `LookedInv`: every path that it has looked for is still there, unless something
  was moved. `ValidateForesees` follows, because `ValidateScript` looks for every
  boot file and disk that `BuildScript` looks for, and all of it is behind a
  process that is `Late`;
- `StoreInv`: nothing but the path of the variable store ever holds one;
- `RaceInv`: a store that was found missing is still missing, unless something was
  moved or another process made one;
- `AloneInv`: as long as no two first boots have met, one process at most is
  between opening and renaming the temporary file, which holds what it has made of
  it, and what is at the path is whole;
- `DraftInv`: the temporary file is there until it is renamed, unless another
  process has renamed it, and an identifier that was found is still there.

`LeftoversAreReusable` rests on the last three: `provide`, `open` and `rename` are the
steps that a leftover could make fail.

That the script has the shape these need is proved part by part, each device's
script being `Good`: each of its steps fits the configuration (it looks for an
input, opens an output, provides only the store), and a `find` comes right before
each `provide` and each `open`, an `open` before each `write` and a `write` before
each `rename` (`Ordered`); two good scripts, one after the other, are a good one.

*The builder.* The properties are about `calls`, which grows by one call at
a time, so the lemmas say what one more call changes: the last call of its
methods (`LastGrows`), the last argument of its method after a given call
(`ArgGrows`, `NoArgAfter`), and the ranks, which stay, but for its own, which is
the number of them (`RanksGrow`). Each method of the builder then keeps every part of
what is `Said` of the calls. `MacInv` is what `MacIsReadBack` needs, and `ReadBack`
the rest. `VerdictInv` keeps the verdict of `build` true of the fields, which no
call changes any more, and the fields are what the calls said.

The arithmetic of MAC addresses is that `16 * (n \div 16) + n % 16 = n`, and
that two digits below 16 make a byte; the rest is about sequences: a part has
a first digit, its tail is a part, only its last two digits count.

*Leases.* `parsed` and `TextOf` are recursive functions, and induction over data is
not to be had from the library's theorems, whose induction hypothesis is an operator.
What takes its place is `LeastNumber` of `NumberSets`, that a set of numbers
has a least one: the numbers for which a statement fails are a set, without a
least one. `Upward` is this in the form the proofs use. With it
- a text is read as its beginning was, and then line by line (`ParsedAppend`), and
  the text of the blocks is the text of the first ones and then of one more
  (`TextAppend`);
- a whole block, read with no field set, adds its lease and leaves no field set
  (`ReadBlock`). So what is read of the first k blocks is their leases in their
  order (`FrontLeases`);
- the lines in the file after the whole blocks, and what is left of one that is cut
  off, close no block (`RestUnclosed`, `CutLines`), and lines that close none leave
  the leases as they are (`ReadUnclosed`).

This is `ParsedAreWritten`, of every file. The leases that match an address are
then those of the blocks that have it, and since ranks grow with blocks, the last
match is the last block (`FoundIs`). `LookedInv`, the one part of `LeaseInv` that
is not a type, says what a caller between its look and its deadline knows; the
server's steps keep it because they set `newer`.

Only model-checked: the two liveness properties of the handle and the one of
`LeaseLookup` (TLAPS does not do `ENABLED`), and what happens to the identifier
with two processes.

## 5. Findings

1. `handle_stale_running`. `start` (and `resume`) publish Running after the
   completion handler was received. A guest that stops, or a machine that breaks,
   in between has its Stopped or Error, which the delegate has sent, overwritten
   with Running, although "The Error state is terminal" (src/src/vm.rs:23);
   `state()` says Running of a machine that has ended until the next report.
   (`LiveIsReported` is the half that does hold: a live machine is never reported
   as stopped.)
2. `handle_drop_refused`. "Implements `Drop` to force-stop active VMs"
   (src/src/vm.rs:135): the completion handler that Drop passes ignores its error
   (src/src/vm.rs:177), so a refused stop leaves the machine running without a
   handle.
3. `handle_release_stopping`. Drop's comment says the stop is over when
   `exec_sync` returns; only the block that begins it is.
4. `identifier_lost_rename`. "fsync the parent dir" (src/src/config.rs:295): the
   parent is not synced, and a power loss undoes a rename that was answered for.
5. `identifier_two_boots`. One temporary name for all processes: a second first
   boot can truncate the file the first one renames. Every later create then fails,
   which is the exception that `LeftoversAreReusable` makes.
6. `lease_spelling`. `wait_for_ip` polls "until the VM's MAC address appears"
   (src/src/vm.rs:457-458), but texts are compared (src/src/dhcp.rs:84): a lease of
   the address whose text has other zeros than the configuration is never found.

Without a run, for they are plain from the code:

- "with validated transitions" (src/src/vm.rs:22): nothing calls `can_transition_to`
  to check what is published, and `start` publishes Stopped to Running.
- "fails later at build() if combined with EFI-only fields" (src/src/builder.rs:115):
  it does not; the later call wins, as `BootIsAsCalled` states it.
- `Path::exists` is false also when the path cannot be examined
  (src/src/config.rs:252); the function then generates an identifier and renames it
  over the one that is there. `snapshot_resume` has that fault in its model
  (`TakeFresh`) and shows that the file stays whole; the issued identifier, and with
  it every snapshot bound to it, is lost.
- `save_state` answers Ok also when the snapshot could not be opened or synced
  (src/src/vm.rs:364), although its doc says "We explicitly fsync the file": the
  model keeps the two apart as `saved` and `synced`, and only the second may be
  counted on across a power loss.
- No event tells of a stop or an error of the machine: `ForceStop` and `Crashed`,
  which src/src/event.rs describes, are emitted by nothing, and `OnlyStopsAreMissed`
  says that this is all a subscriber of the bus misses.

## 6. Not modelled, and the plan

Left out for good: formatting and `Display` (except of a MAC address), `from_vz`
(never called), the error types and `ns_error_chain`, re-exports, the example, the
hash under `MacAddress::deterministic`, and the width of
`memory_mib * 1024 * 1024` (src/src/config.rs:143), one multiplication that wraps
from 2^44 MiB on in a release build and that no run would say more about.
Attachments, consoles, network and entropy devices carry data from one field to
one object: only the steps of theirs that can fail are in `VzConfiguration`.

Planned:

- **An abstract specification of leases**: `wait_for_ip` as a lookup in a set of
  leases, with the file and its parser as its refinement.
