# A TLA+ model of vmocs

vmocs runs a QEMU virtual machine inside a Slurm job. A `vmocs run` process
launches the VM, supervises it and cleans up after it; `vmocs stop` commands and
the Slurm plugin's exit hook may do the same work from outside at any moment;
helper processes (sidecars), QEMU's monitor socket and a JSON file connect them.
This directory models the parts of it where several of these processes meet, or
where a kill, a power loss, a timeout or a late message decides the outcome.

Paths below are relative to the repository; `PROJECT.json` maps every definition
to the lines it models.

## 1. Inventory

| Part | State it keeps | Operations | Meets |
|---|---|---|---|
| Launch (`launch.py`, `launch_vm`) | runtime directory, overlay, `vm.json`, QEMU, sidecars | preflight, overlay, metadata writes, start sidecars, fork, boot, unwind | stop commands and the exit hook, through `vm.json`; QEMU through QMP |
| Attached session (`session.py`, `run_attached_session`) | event watcher, signal flag, in-memory metadata | ssh, reconnect, judge the end, powerdown/quit/kill, save, remove | the same |
| Stop (`launch.py`, `teardown_vm`) and exit hook (`spank_vmocs.c`) | its own copy of `vm.json` | mark stopping, halt QEMU, stop sidecars, save, remove | the same |
| Unattached command (`cli.py`, `_block_until_exit`, `launch.py`, `_graceful_shutdown`) | attempts, two timers, blame | poll QEMU and sidecars, signal handler, save, remove | signals, timer threads, a stop command |
| Checkpoint (`checkpoint.py`) | a bundle: disk, manifest, completion marker | check, copy, write, flush, rename, flush the parent | savers of the same destination; power loss |
| `vm.json` (`launch.py`, `_write_metadata`) | one file and its temporary name | write, flush, replace; read; remove | two writers, readers, rmtree, power loss |
| QMP monitor (`monitor.py`) | callback queue, handler list, socket | connect, send, dispatch a reply or an event, drain, close | caller threads, one reader thread, QEMU |
| Sidecars (`sidecars.py`) | handles, and their identities in `vm.json` | start, await sockets, watch, stop, stop from the record | the process table: zombies, process groups, reused numbers, reboots |
| Windows key handoff (`launch.py`, `_rotate_windows_vagrant_key`) | two event flags, attempts | rotate by ssh, barriers on QMP, forced reset, verification | a guest that resets and a script that goes on after its ssh client |
| Ports, keys and readiness (`hypervisor.py`, `_find_free_port`; `launch.py`, `_rotate_vagrant_key`, `wait_for_ssh`) | a port number, a key pair, the keys on the guest's disk | find a port, fork, rotate, poll, log in, reconnect | other launches on the host; checkpoints that carry keys |
| Forwarded environment (`session.py`, `spank_vmocs.c`) | staged directories in the guest, pending stages, the block on checkpoints | validate, stage, launch, clean up, retry | scripts that outlive their connection, guest resets, a `stop --save` |
| Templates and configuration (`templates.py`, `config.py`) | one mapping of templates, cached parents | load two files, validate, look settings up | the user's file beside the site's |
| Command line and sidecar plans (`hypervisor.py`, `sidecars.py`, `plan_sidecars`) | counters and positions in lists | plan sidecars, preflight, generate each kind of argument | each other: two walks of one template must agree |
| Snapshots (`snapshot.py`) | a snapshot directory | boot, stop, migrate, flatten | QEMU |
| Images, cloud-init, keys (`image.py`, `keys.py`) | - | call `qemu-img`, `ssh-keygen` and others | - |
| List, options of the SPANK plugin, site scripts (`cli.py`, `spank_vmocs.c`, `vm-setup.lua`, `gres-conf-gen.py`) | - | report, build an argument list | - |

What makes each part correct, and what is hard about it:

* **Session, stop and hook.** The disk is copied only when QEMU cannot write it;
  the overlay is removed only when a checkpoint holds it; every way a task can end
  leads to a dead QEMU and no directory. Three processes decide this from copies
  of `vm.json` that may be stale.
* **Checkpoint.** What is visible at a destination is complete and never
  replaced; the source stays until its checkpoint is durable.
* **`vm.json`.** Readers see one version; an acknowledged write survives.
* **Monitor.** Replies carry no tag: only the order of two queues pairs them.
* **Sidecars.** A number is signalled only while it is the sidecar's.
* **Handoff.** Replacing a key file does not end the sessions the old key opened;
  a reboot does, and the host learns of reboots from events that arrive late.

* **Ports and keys.** A port found free is bound later, and by then may be
  another VM's. A session must not log in to a stranger, and what a checkpoint's
  disk accepts must not keep the next launch out.
* **Forwarded values.** They pass through the guest's file system: the command of a
  Windows guest runs only after they are gone, a failed removal is retried, and a disk on which they
  have been is never saved, whoever asks.
* **Templates.** A user's file can add templates but not change what a site's
  template means; a lookup answers what the nearest ancestor says.
* **Command line.** Devices numbered by several counters share one machine: no two
  may ask for one slot, name or path, and every sidecar's socket has one device.

`PROJECT.json` lists the hazards at their lines, each with the properties that
would catch it, or with the reason why none does.

## 2. Modules

| Module | Models | Used by |
|---|---|---|
| `Lifecycle` | attached session, stop commands, exit hook, QEMU, composed | `MCLifecycle`, `LifecycleProofs` |
| `CheckpointStore` | what a destination promises (abstract) | `Checkpoint` |
| `Checkpoint` | `create_checkpoint`, step by step | `MCCheckpoint`, `StorageProofs` |
| `VmMetadata` | `_write_metadata` and its readers | `MCVmMetadata`, `StorageProofs` |
| `QmpMonitor` | `QemuMonitor` after its connection | `MCQmpMonitor`, `QmpMonitorProofs` |
| `QmpConnect` | `wait_for_monitor` | run directly |
| `Sidecars` | `SidecarManager`, `stop_persisted_sidecars` | run directly, `SidecarsProofs` |
| `Unattached` | `_block_until_exit`, `_graceful_shutdown` and their commands | run directly, `UnattachedProofs` |
| `KeyHandoff` | Windows key rotation | run directly, `KeyHandoffProofs` |
| `GuestAccess` | ports, keys, readiness and reconnection of several launches | `MCGuestAccess`, `GuestAccessProofs` |
| `ForwardedEnv` | `run --forward-env` | run directly, `InputsProofs` |
| `Templates` | `Config`, `TemplateConfig.load`, `Template` | `MCTemplates`, `InputsProofs` |
| `CommandLine` | `plan_sidecars`, `preflight_qemu`, `build_qemu_cmdline` | run directly, `InputsProofs` |

The modules stand in layers. `Lifecycle` composes the processes of one VM and
takes a metadata write, a checkpoint and a monitor request as one or two steps;
`VmMetadata`, `Checkpoint` and `QmpMonitor` open those steps up. `GuestAccess` and
`KeyHandoff` open up its boot step, `ForwardedEnv` its session; `Templates` and
`CommandLine` are what happens before it.

### Lifecycle

`pc` holds the program counter of the supervisor and of every stop command. `mem`
is each process's own copy of the metadata and `vmjson` the file: the difference
between the two is what the hazards are about. `qemu` goes from `none` over
`running` to `gone`, by way of `halted` (the guest is off, `-no-shutdown` keeps QEMU),
`exiting`, `killed` and `zombie`;
`dir`, `overlay`, `disk` and `ckpt` are the runtime directory, its disk, the
number of guest writes that reached it and the published checkpoints.

Each metadata write, kill, wait and removal is an action. `Launch` gathers the
steps of `launch_vm`, `SessionAttach` and `SessionJudge` those of the session,
`Finalise` its `finally` block, `Teardown(s)` those of `teardown_vm`; `Cleanup(p)`
is the save and the removal that both share. The environment is the guest (writes,
powers off, reboots), sidecars that die, and kills of the supervisor at the
program counters in `CrashAt`. A wait with a timeout may always end either way.
`LaunchSaves` are the `--save` arguments to consider, the absent one included.

### Checkpoint and CheckpointStore

A saver checks the source and the destination, copies the disk into a private directory,
writes the manifest and the completion marker, flushes, looks again, renames and flushes
the parent; its caller then removes the overlay. Any file operation can fail and any
saver can be killed. A power loss tears files that were not flushed and undoes a rename
whose directory was not. Another user may put an empty or a full directory at the
destination; a rename replaces an empty one. `CheckpointStore` has two variables: what a
reader finds, and whether a power loss can still take it back. The refinement mapping
sends a destination with a loadable bundle to that bundle, and a broken bundle to a
value the store may never hold.

### VmMetadata

Files are inodes with contents in pieces, so that a reader holding an open file
keeps the version it opened. The supervisor and the exit hook after it write in turn; a
stop command beside the supervisor writes when it likes, through the same temporary name.
Two history variables tell: `crossed` is the set of writers beside whose last write another
one was at work, `rivalry` says that this has ever happened. Its names differ from those of
`Checkpoint` (`MetaInit`, `MetaNext`, `MetaSpec`, `MetaTypeOK`), since one module,
`StorageProofs`, extends both.

### QmpMonitor and QmpConnect

A command is its caller and a number. Putting the callback into the queue and
sending the bytes are two steps under the lock; the reader's test for the end of
file and its draining of the queue are two more. The reader calls the handlers of an
event and stores the list of those it keeps in two steps, and a handler may register at
any moment, also between them; the history variable `late` is the set of those that did.
`QmpConnect` has QEMU serve one
client of its backlog at a time.

### Sidecars

`leader[s]` is the process table's view of a sidecar: `none`, `live`, `dying`
(SIGKILL is on its way), `zombie`, `gone`; `reused[s]` says that a stranger has
its number, `twin[s]` that the stranger also has its start time, which only
another boot makes possible. A record without a start time or boot id, which
`_persisted_process_matches` never accepts, arises only when `/proc` has already lost the
process; the model gives every record both, so that its stop signals at least as much
as the code's.

### Unattached

The main thread, the two timers and the request threads are separate; Python runs
the signal handler between two steps of the main thread. The handler's three
attempts, and the timer that `_cancel_timer` does not know, are as in the code.

### KeyHandoff

`queue` is the order of QMP events and replies not yet dispatched; a barrier is a
request whose reply the host awaits, so that everything before it has been dispatched.
`query_status` in the capture of the host keys has no barrier here: its events stay
queued, which adds orders and takes none away. `auth` and `stored` are the key the
running guest accepts and the one on its disk, `script[a]` the station of attempt `a`'s
script, `others` tells whether a session of the old key is open.

### GuestAccess

For each VM a program counter through `launch_vm` and the session; `bound[p]` is the VM
whose QEMU listens on a port. `FindPort` sees a free port and `Fork` binds it, or finds
it taken, in a later step. `accepts[v]` is the set of keys that v's disk makes its guest
accept: `Prepare` takes it from the image, the snapshot or the checkpoint, `Boot` adds
cloud-init's key, `MakeHostUser` is the script that cloud-init runs for
`host-user-identity`: it replaces the user's keys, or ends with status 1 in a guest of
`clash`, which has an account in the way. `snap` says that the template has a memory
snapshot: with cloud-init all its launches log in with the snapshot's key (`KeyOf`),
except those that resume a checkpoint, and no cloud-init runs in the restored guest.
`Rotate` replaces the Vagrant key on whichever guest answers on the port. `WaitSsh` is a
login where an identity is required and a TCP connection elsewhere. `ready` and
`reached` record whose guest answered, and `hurt` the launches that lost their QEMU or
port, so that a failure without a cause is seen.

### ForwardedEnv

`pc` is the session; `stager`, `launcher` and `cleaner` are the scripts in the guest,
each with the stations at which its connection can be cut. The host learns only
how ssh ended. `late` are cleanups nobody waits for any more. `store[i]` is
stage i's directory: nothing, part of the values, all of them, or deleted; a file
that a script holds open cannot be removed (Windows). The Windows launcher stops at a
removal that fails; the POSIX one ignores what `rm` and `rmdir` say, so that `Left(i)`
is any remainder. `pending` is
`pending_windows_stages`, `todo` and `goal` are the loop over it and where the
session goes on. A guest reset ends all scripts; a kill ends the session.
`saver` is a `stop --save` of another process, with the copy of `vm.json` it read.

### Templates

The site's and the user's file are read entry by entry into one mapping (`LoadEntry`),
and each end of file validates every template and caches its parent (`EndFile`).
`Getattr` walks the cached parents as `__getattr__` does, with a bound on the walk in
place of Python's recursion limit: as many calls as there are names. `Consulted` is the
reference it is checked against, defined over sets of templates and not by a walk.

### CommandLine

The template is chosen one list element per step, which is also the order in which
the code walks it. An argument is a record of what it defines (`id`), what it
refers to (`uses`, `bus`), the address it asks for (`at`) and the socket it connects
to (`path`); a name is its kind and its number. `PlanTpm`, `PlanMount` and
`PlanDevice` are `plan_sidecars`; `Machine`, `Disk`, `CloudInit`, `Network`, `Mount`,
`Connect`, `Console`, `PassThrough` and `Finish` append to the line in the order of
`build_qemu_cmdline`, one list element per step. A custom argument is another device, an
option of no consequence, or the `-no-shutdown` that the code leaves out; any other is the
user's own, verbatim, and outside what the model can say. `Placement` gives a device
without an address the first slot whose function 0 is free, as QEMU does, and refuses it
beside other functions of that slot (`Collide`); `ReadAsHex` reads the decimal slot
number as QEMU reads it.

## 3. Runs

Passing runs:

| Run | Instance | States | Shows |
|---|---|---|---|
| `lifecycle` | a session with and without `--save`, one stop, the hook; supervisor killed anywhere but at three points (section 4); 2 guest writes; fairness | 745,835 | `CopyOnlyStoppedDisk`, `CleanupAfterQemu`, `FailedSaveKeepsOverlay`, `LaunchSaveNeverLost`, `Converges` |
| `checkpoint` | two savers of one VM and one of another, one destination, two power losses | 319,114 | `CompleteOrAbsent`, `SourceRetained`, `ImplementsStore` |
| `vm_metadata` | two writers, in turn or at once, 4 versions of 2 pieces, one power loss | 2,993,892 | `ReadsOneVersion`, `AckedSurvives`, `GoneMeansGone` |
| `qmp_monitor` | two callers with 2 commands, 2 events, two handlers that register at any moment | 669,614 | `AnswersOwnCommand`, `NoWaiterLeftBehind`, `HandlersHearEverything` |
| `sidecars` | two sidecars with helpers, manager and stop command, reboots, fairness | 157,303 | `NoStrangerSignalled`, `ReadyIsFresh`, `StopReachesAll`, `PersistedStopIsExact`, `StopsAll` |
| `unattached` | the three commands, 2 signals, a stop beside, fairness | 28,953 | `NothingOutlives`, `SaveIsSafe`, `SignalEnds` |
| `key_handoff` | 2 attempts, 2 spontaneous resets | 36,261 | `HandoffRevokes`, `NoScriptOutlives` |
| `guest_access` | three launches, two ports, the three boot modes, with and without host user, conflicting accounts and snapshot, one QEMU that ends by itself | 2,399,420 | `NoForeignLogin`, `ReadyIsOwnGuest`, `VagrantKeyRevoked`, `FailsOnlyForCause` |
| `forwarded_env` | two stages, two lost connections, one guest reset, POSIX and Windows, with and without a terminal, a `stop --save` beside; fairness | 772,274 | `NoForwardedValueSaved`, `ForgottenIsGone`, `CommandRunsClean`, `NeverReplayed`, `SignalEnds` |
| `templates` | three ordinary names and a reserved one, every pair of files over them | 77,500 | `ShownIsNearest`, `SiteTemplatesSettled` |
| `command_line` | every template with up to 3 list elements or features, up to 13 extra disks of the primary's model | 291,944 | `MachineFits`, `LineIsWhole`, `SidecarsServe` |

The type invariant is proved for the modules with proofs; for `CommandLine` it is a part
of `LineIsWhole`, which a run checks too. Properties that fail together are one
conjunction: `LineIsWhole` (addresses, names and references on one line),
`SidecarsServe` (shared memory, mounts and sockets of the sidecars), `SaveIsSafe`,
`PersistedStopIsExact`; their parts are definitions of their own.

Bounds. Two processes beside the supervisor are enough for each pair of roles to overlap
while a third is half way; the counters (`MaxWrites`, `MaxVersion`, `MaxCommands`,
`MaxEvents`, `MaxSignals`, `MaxAttempts`, `MaxResets`, `MaxLosses`) admit at least one
repetition after a failure, which is where stale values are used. Three launches and two
ports let one launch lose its port to a second while a third holds the other, and let a
resumed VM meet the VM it was saved from. Thirteen extra disks fill five slots, past the
slot whose number has two digits, where decimal and hexadecimal part. Three names admit
a chain of two parents and every cycle, and an entry of each file between two of the
other. Two sidecars separate the first of a list from the last; the proofs of
`SidecarsProofs` are for any number. The proofs of section 5 do not depend on these
bounds.

Deadlock is not checked where the program ends: a command has returned, or the
bounded environment has nothing left to send. In `Lifecycle` and `Checkpoint` the
end is an explicit stuttering step, so there TLC does look for deadlocks.

One run ends in a violation: `lifecycle_early_stop` states what the documents say of
a checkpoint, and shows that a `stop` during the launch reads no pid, skips QEMU and
copies a disk on which QEMU is then started. The theorem
`CopyOnlyStoppedDiskAlways` shows that this is the only way.

### Known deviations

Modelling met more places where the code and its documents disagree. They are
not among the runs; each has a configuration with which TLC shows the behaviour,
and the property says in its comment why it fails.

| Configuration, module, property | Behaviour | Promise |
|---|---|---|
| `MCLifecycleLabel`, `MCLifecycle`, `CleanLabelIsTrue` | QEMU quit after a sidecar failure, or ended by SIGTERM, yields a checkpoint labelled `clean-shutdown` (`session.py` 496-501, 623-625) | `vmocs-save-resume-plan.md` 237, 253 |
| `MCLifecycleSidecar`, `MCLifecycle`, `SidecarFailureFailsSession` | an attached session ended by a sidecar failure returns 0 (`session.py` 626) | `vmocs-sidecar-architecture.md` 391 |
| `MCLifecycleSaveRace`, `MCLifecycle`, `FailedSaveKeepsOverlay` | the supervisor does not know of a concurrent `stop --save` and removes the overlay it could not save (`session.py` 669-686) | `vmocs-save-resume-plan.md` 267 |
| `MCLifecycleOrphan`, `MCLifecycle`, `LeavesRecord` | a kill between fork and the recorded pid leaves QEMU running (`launch.py` 777-792) | `lifecycle.rst` 6 |
| `MCCheckpointRetry`, `MCCheckpoint`, `CrashRetainsSource` | a retry accepts an unflushed bundle, the overlay is removed, and a power loss undoes the rename (`checkpoint.py` 187-191) | `vmocs-save-resume-plan.md` 267 |
| `MCVmMetadataTorn`, `MCVmMetadata`, two properties (`tlc -continue` shows both): | | |
| - `DisappearedIsTrue` | a writer whose temporary file the other has renamed reports a directory gone that exists (`launch.py` 73-81) | `launch.py` 976 |
| - `EveryReadIsWhole` | two writers share `vm.json.tmp`, and a reader reads a mixture (`launch.py` 65-81) | `launch.py` 63 |
| `MCQmpMonitorLate`, `MCQmpMonitor`, `EveryHandlerHears` | a handler that registers after the reader has called the others, and before it stores its list, is dropped (`monitor.py` 202) | `monitor.py` 105 |
| `MCSidecarsReuse`, `Sidecars`, `PersistedSparesStrangers` | the number of a verified sidecar is reused before the signal (`sidecars.py` 505-522) | `vmocs-sidecar-architecture.md` 436 |
| `MCSidecarsHelpers`, `Sidecars`, `HelpersStopped` | helpers of a sidecar that has exited are not stopped (`sidecars.py` 467) | `vmocs-sidecar-architecture.md` 440 |
| `MCUnattachedFailure`, `Unattached`, `FailureCleansUp` | `run --attach none` keeps its directory after a sidecar failure (`cli.py` 290-308) | `run-sidecar-failure.sh` 60 |
| `MCUnattachedBlame`, `Unattached`, three properties (`tlc -continue` shows all): | | |
| - `NoLateBlame` | a sidecar that follows QEMU into its exit is blamed (`cli.py` 109-131) | `vmocs-sidecar-architecture.md` 400 |
| - `ForcesOnlyTheUnwilling` | `launch --ssh` waits for a zombie and forces a guest that had shut down (`launch.py` 928-938) | `launch.py` 916 |
| - `NoVictim` | the kill timer outlives QEMU (`cli.py` 89-96) | `vmocs-sidecar-architecture.md` 436 |
| `MCKeyHandoffNewer`, `KeyHandoff`, `ObservedResetIsNewer` | a boot-time reset is taken for a new one (`launch.py` 406-431); harmless, as a forced reset follows | `launch.py` 433 |
| `MCQmpConnect`, `QmpConnect`, `FailsOnlyOnSilentQemu` | a timed-out attempt keeps QEMU's only connection, so that all retries fail (`monitor.py` 224) | `monitor.py` 225 |
| `MCGuestAccessResume`, `MCGuestAccess`, `ResumeComesUp` | a Vagrant VM resumed from a checkpoint no longer accepts the key its rotation logs in with, and the launch fails (`launch.py` 516) | `man1/run.rst` 60, `user-guide.rst` 159-172 |
| `MCGuestAccessReconnect`, `MCGuestAccess`, `ReconnectsOnlyAlive` | the session reconnects to a guest that has its dead QEMU's port (`session.py` 626) | `session.py` 553 |
| `MCForwardedEnvUndo`, `ForwardedEnv`, three properties (`tlc -continue` shows all): | | |
| - `DeletedBeforeCommand` | the POSIX launcher ignores the errors of `rm` and `rmdir` and starts the command with the values still in the guest (`session.py` 352-360) | `man1/run.rst` 68 |
| - `UnlistedIsGone` | a stage whose ssh has failed is dropped when its cleanup finds no directory, and its script then makes one; the session ends and its disk is never saved (`session.py` 603-615) | `session.py` 603 |
| - `ForgottenIsGone` | a reset before the guest has flushed brings back a removed stage that nobody lists any more (`session.py` 603); the block on checkpoints holds all the same | `session.py` 603 |
| `MCTemplatesAcyclic`, `MCTemplates`, `AcceptedIsAcyclic` | a cycle of parents passes validation, and a lookup ends in a RecursionError (`templates.py` 118) | `templates.py` 118 |
| `MCCommandLineMixed`, `CommandLine`, two properties: | | |
| - `MixedMachineFits` | a slot that lacks its function 0, see below, is the one QEMU gives to the next device it places itself, and refuses it there (`hypervisor.py` 72) | `templates.yaml.rst` 460-476 |
| - `ExtraDisksAppear` | extra disks of several models share the counter of virtio's functions: a slot can lack its function 0, and its disks stay invisible (`hypervisor.py` 72) | `templates.yaml.rst` 460-476, whose example does it |

Smaller observations, without a configuration:

* ssh reports a refused login with status 255 too, so that an interactive session
  reconnects to a guest that refuses it until it is signalled (`session.py` 626).
* An extra `ide` disk beside a primary of another model, or a seventh one, refers to
  an AHCI bus or port that is not there; a root port is put on machines other than
  q35. `Sane` excludes both from the references `LineIsWhole` speaks of.
* Launches of one cloud-init memory snapshot share its key, as `snapshot.py` 11 says. If
  one of them loses its port to another, its session can log in there; `NoForeignLogin`
  shows that beside saved disks this is the only way.
* With `host-user-identity` a launch waits until its timeout where the image has an account
  with the user's uid or name, and wherever it starts from a snapshot, which does not have
  the user; `FailsOnlyForCause` names both.
* `create_snapshot` passes `build_qemu_cmdline` two arguments it does not take and
  ends with a TypeError; the directory it made keeps the next attempt out.
* `list` ends with a traceback when a `vm.json` vanishes or has no pid yet.

## 4. Fairness

* `Lifecycle`: each process that has begun keeps running, unless it is killed
  (`WF` on its steps); Slurm runs the exit hook; QEMU ends after SIGKILL or quit;
  init collects orphans. The guest, the user and the sidecars are not fair: they
  may do nothing for ever. `lifecycle` kills the supervisor everywhere
  but at three points where no one else can finish: before `vm.json` exists, between
  fork and the recorded pid (`MCLifecycleOrphan`), and inside `rmtree`.
* `Sidecars`: `stop_all` and its deadline make progress, and a process that was
  sent SIGKILL ends. SIGTERM obliges nobody.
* `Unattached`: the main thread runs and timers fire. Powerdowns may be ignored
  and every QMP request may fail, so `SignalEnds` rests on the last timer alone.
* `ForwardedEnv`: the session goes on (every wait has a timeout or ends with the
  signal), and so do the short scripts of staging and cleaning. The guest's command
  may run for ever, and a guest that was reset need not come back: `SignalEnds`
  holds without them.

## 5. Proofs

All theorems hold for every value of the constants under the named assumptions of
the modules, which TLC evaluates on its runs.

**`LifecycleProofs`.** `TypeCorrect`; `CleanupAfterQemuAlways`;
`CopyOnlyStoppedDiskAlways`, under `~EarlyStop`: the early stop is exactly the
behaviour of `lifecycle_early_stop`. `CleanupAfterQemu` is not inductive: a
process could know a pid while QEMU is still to be forked. `CleanupInv` adds
`ForkInv` (QEMU exists exactly from the fork on), `PidInv` (a pid that is known
anywhere is that of a QEMU that was forked) and `KillInv` (the supervisor's last
escalation has stopped it); the lemma `QemuForward` says that a QEMU once stopped
never writes again, which carries the facts of one process across the steps of the
others. `CopyInv` adds that a stop command has started only if no launch is under
way and that a process that copies has seen QEMU off the disk.

`LaunchSaveNeverLostAlways`, under `~EarlyStop`, and `FailedSaveKeepsOverlayAlways`,
under `~EarlyStop` and where every launch asks for a save or no stop command does:
when some save and others do not, `MCLifecycleSaveRace` refutes it. Both rest on
`SaveInv`, beside `CopyInv`. `IntentInv` carries the intent: whoever has read
`vm.json` has a destination if the launch had one, and `NamedInv` an identity with
it. `StationInv` says that a copy holds what the guest has written and that who
has a destination gets to the removal only past a checkpoint of this VM. `OwnInv` says
that such a checkpoint holds everything: when it appears QEMU is off the disk, and
no launch is left to start it again, so nothing is written after it. `OverlayInv` then
says that the overlay is there, or a checkpoint is, or nothing has begun
(`NotBegun`: a launch that was refused before its first `vm.json`).

**`StorageProofs`.** About `Checkpoint`: `TypeCorrect`; `CompleteOrAbsentAlways`, from `StageInv`
(which files are flushed at each station of a saver) and `DestInv` (what is at the
destination was sealed by a saver past its rename);
`CreateCheckpointImplementsStore`, by step simulation under those two;
`SourceRetainedAlways`, from `RetainInv`: whoever relies on a bundle relies on one
whose directory entry is flushed, or on one that its own retry has found; only the
second can be taken back by a power loss, and the property excuses exactly that.

About `VmMetadata`, for writers that may always overlap: `MetaTypeCorrect`,
`ReadsOneVersionAlways`, `AckedSurvivesAlways` and `GoneMeansGoneAlways`. The second and
the third speak of states before the first overlap (`~rivalry`), after which
`MCVmMetadataTorn` shows a torn read; their invariant is `rivalry \/ MetaInv`. The last
one speaks of every state and rests on `CrossInv`: while no removal is under way, a
writer that no other has crossed still has its temporary file under its name, and a
writer that another is at work beside is counted as crossed by the time its file can be
taken away. `MetaInv` says that one writes at a time (`TurnInv`), that the file being
written has no other name and no reader (`PrivateInv`), how far a write has come
(`ProgressInv`), that whatever `vm.json` names, now or after a power failure, is one
version and flushed (`SolidInv`), that a reader has the beginning of such a file
(`ReadInv`), and that both names are as new as the last acknowledged version (`AckInv`).
The lemma `Untouched` carries these across steps: no step changes a file that `vm.json`
or a reader refers to. `FreeInodeAssumption` says that `open` always finds a free inode.

**`SidecarsProofs`.** `TypeCorrect`, `NoStrangerSignalledAlways`,
`ReadyIsFreshAlways` and `StopReachesAllAlways`, also with a stop command at work
beside the manager, and `PersistedStopIsExactAlways` about that stop command. The inductive invariant says where the loop index may be
(`Place`), that the handles are the started sidecars (`Unstarted`), that a number is
reused only when its sidecar was collected (`Occupied`), that what is on the list to
signal has not been collected (`Uncollected`), that sockets of started sidecars
are not left over (`Fresh`), that what lives is still on the list (`Reached`), and
that the stop command has verified nothing before it verifies (`Unverified`).
`RecordInv` adds for the stop from the record that a stranger has a sidecar's start
time only after a restart of the host (`SameBoot`), that what was recorded is never
started again (`Recorded`), and that what still runs of it is on the list of the stop
until SIGKILL has passed it (`Hunted`).

**`KeyHandoffProofs`.** `TypeCorrect`, `HandoffRevokesAlways`,
`NoScriptOutlivesAlways`. The argument is about the order of the stream: once the
marker was seen and the barrier's reply dispatched, any reset event still queued was
emitted after the key file was replaced (`Marked`, `Unasked`, `Ordered`), so a reset
that is counted is one that left the guest calm (`Counted`, `ForcedCounts`), and a
calm guest stays so (`Settled`).

**`GuestAccessProofs`.** `TypeCorrect`, `NoForeignLoginAlways`,
`ReadyIsOwnGuestAlways`, `VagrantKeyRevokedAlways`, `FailsOnlyForCauseAlways`, for any
launches and ports. A live QEMU holds the port of its launch (`Holds`), so whoever
else answers there has taken the port from a launch that lost its QEMU (`Caused`);
a key is on a foreign disk only if a checkpoint or the common snapshot brought it
(`Travelled`), a guest with cloud-init accepts its launch's key once cloud-init, and where
there is one the host user's script, is through (`Keyed`), and the Vagrant key is on no disk
whose rotation is done (`Rotated`). That the first free port is a port follows from
the well-foundedness of the naturals.

**`InputsProofs`.** About `ForwardedEnv`: `TypeCorrect`, `NoForwardedValueSavedAlways`,
`NeverReplayedAlways`; `CommandRunsCleanAlways` and `ForgottenIsGoneAlways` under
`~Undo`, without which `MCForwardedEnvUndo` refutes the latter. `Blocked` says that
no process ever finds a `vm.json` that would let it save; `Begun` and `Order` tie the
scripts in the guest to the session's station, `Once` says that a session without a
terminal never comes back to staging, and `Cleared` that what was seen to be gone is
gone. `ForgottenIsGone` speaks of every stage ever begun and not only of those whose
staging returned; `Latest` says that only the latest can be unstaged, and at which stations
of the session.

About `Templates`: `TemplateTypeCorrect`, `ShownIsNearestAlways` and
`SiteTemplatesSettledAlways`, for any finite set of names and chains of any length.
`TemplateInv` says that a cached parent is the one the file names and has its own
cached (`Cached`), that the parent of a site's template is the site's (`SiteClosed`),
which templates have a parent cached at which phase (`Fresh`, `Complete`), and that
what was shown is what a lookup gives (`ShownInv`). The lookup is a recursive
function; what it returns is proved by taking the least number of calls for which the
claim fails, which exists because the naturals are well-founded (`LeastNat`).
`WalkExists` shows in this way that the recursion has a solution, without which its
equation could not be used; `GetattrAgrees` that a lookup depends only on the
templates above it, hence not on the user's file; and `WalkFinds` that it gives what
`Consulted` says: the least set that a template's lookup may consult is its parent's
and itself (`LeastConsults`, `ConsultedIsLeast`).

About `CommandLine`: `LineIsWholeAlways` and `SidecarsServeAlways`, for lists of any
length and every mixture of them (`MaxItems` and `MaxDisks` are any numbers). Neither is
inductive: they speak of the finished line, and that a new argument claims nothing twice depends on
what the other generators have claimed. `LineInv` therefore bounds the numbers of each
kind of name on the line by how far its generator has counted (`ClaimInv`: a drive's by
the disks, a PCI address by a virtio disk or the primary's controller, a tag by the
mounts gone through or the plans connected), says where a plan comes from (`PlansInv`),
that what has been gone through is on the line (`PresentInv`), which buses stand before
their devices (`BusInv`), that every piece refers only to ids of its own (`Batch`), and
what the memory is from the step on that writes it.
One lemma per group of arguments (`BlockBatch` to `MachineBatch`) says what the group
claims; `Concatenation` and `LineGrows` carry the invariant over the appending, so that
each step has only to show that its numbers are new. `VirtioAddresses` is the arithmetic
of the slots: the address of a disk determines its number although it is printed in
decimal and read as hexadecimal, and function 0 of its slot is an earlier disk's.

**`UnattachedProofs`.** `TypeCorrect`, `NothingOutlivesAlways`, `SaveIsSafeAlways`.
`Known` says what the main thread's station implies of QEMU and the sidecars, and
`Kept` that only `run` saves and gives its disk up after its checkpoint.

**`QmpMonitorProofs`.** `TypeCorrect`, `AnswersOwnCommandAlways`,
`NoWaiterLeftBehindAlways`; `HandlersHearEverythingAlways`, for handlers that register at
any moment: the one that the reader drops is exactly one of `late`. A reply is paired with its command by order alone. The
invariant says that the queue of callbacks, QEMU's inbox and the replies on the
wire never disagree: no command is in two of them or twice in one (`Apart`), what
stands before a reply's command in the queue is answered before it on the wire
(`WireOrder`), what stands before an unanswered one is answered or before it in the
inbox (`InboxOrder`), and all but the lock holder's command has been sent (`AllSent`).
Stated so, without positions or counts, each operation on a stream keeps it by a lemma
about sequences, and the head of the queue is the command of the first reply.
`Locked` and `InTime` bound who may be between queueing and sending, `Ended` and
`Waiting` carry the drain, `EventOrder` and `Registered` the events.

Model-checked only: everything under fairness (`Converges`, `StopsAll`,
`SignalEnds`), since the prover handles neither liveness under fairness nor
ENABLED; and `MachineFits` of `CommandLine`. QEMU's placement is a fold over the line,
whose induction theorems take an operator as a parameter, which the prover cannot
instantiate; and it holds only as long as QEMU has PCI slots, so it is a claim about
bounded templates. No module uses a RECURSIVE operator.

## 6. Not modelled

* Snapshots: `create_snapshot` cannot get past its call of `build_qemu_cmdline`, so
  there is no snapshot whose resume (the poll of an incoming migration) could be
  checked against its creation. Which key a launch of an existing one uses is in
  `GuestAccess`.
* Images: each operation is one call of `qemu-img` or another tool.
* `list`: a report; it changes nothing.
* The SPANK plugin's options: they are parsed and turned into an argument list in one
  thread, before the VM exists. Its exit hook is in `Lifecycle`.
* Site scripts (`vm-setup.lua`, `gres-conf-gen.py`): run by Slurm or an
  administrator, without state shared with the VM.
* Within modelled parts: the sparse copy of `_copy_disk` is one step; `rmtree` is
  two in `Lifecycle` and in `VmMetadata`; which names and values
  `resolve_forwarded_env` accepts is decided before `ForwardedEnv` begins; a failed
  staging's script may still write its directory later, but its session ends and
  its disk is never saved; a POSIX environment file that redefines `env_file`, `env_dir` or
  `PATH` is a case of a removal that fails; the command line leaves out network options, sizes, paths, caches, clock, kernel and
  firmware; seconds are not counted.
* Beyond the bounds: with five or more nvme disks QEMU's automatic slots come near
  those of virtio disks.

## 7. Plan

Done: the modules above, in the order `Lifecycle`, `Checkpoint`, `VmMetadata`,
`QmpMonitor`, `QmpConnect`, `Sidecars`, `Unattached`, `KeyHandoff`, `ForwardedEnv`,
`GuestAccess`, `Templates`, `CommandLine`.

Next:

1. `Lifecycle`: the watcher's registration as a step of its own; QEMU's pid reused
   before a late stop.
2. The extent walk of `_copy_disk` as an operator, against a reference copy over
   bounded files.
