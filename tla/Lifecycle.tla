------------------------------ MODULE Lifecycle ------------------------------
(***************************************************************************)
(* One VM of vmocs from launch to clean-up: `vmocs run` in attached mode    *)
(* (launch_vm, then run_attached_session: the supervisor), any number of    *)
(* `vmocs stop` commands (teardown_vm), the Slurm exit hook that runs one   *)
(* more of them, and the QEMU process they fight over.                      *)
(*                                                                         *)
(* The processes share the runtime directory (disk overlay and vm.json),    *)
(* the QEMU process, its QMP socket and the checkpoint destinations.        *)
(*                                                                         *)
(* Simplifications.                                                        *)
(*  - A metadata write is one step here; module VmMetadata opens it up.     *)
(*  - create_checkpoint is two steps here (its checks and the start of the  *)
(*    copy, then the publication); module Checkpoint opens it up.           *)
(*  - Timeouts may expire at any moment: a wait is always also a choice.    *)
(*  - The guest is a counter of writes that reached the overlay.            *)
(*  - The VM does not forward a Windows environment, which would forbid      *)
(*    checkpoints, and there are no *.pid files of older versions.          *)
(***************************************************************************)
EXTENDS Naturals, FiniteSets

CONSTANTS
  Sup,            \* the supervisor process (vmocs run)
  Stoppers,       \* the stop commands that may be issued
  Hook,           \* those of them that are the Slurm exit hook
  Dest,           \* checkpoint destinations
  None,           \* no destination, no checkpoint, no identity, no vm.json
  LaunchSaves,    \* what the supervisor's --save may be: destinations, or None
  StopSave,       \* each stop command's --save: a destination, or None
  EarlyStop,      \* may a user stop the VM while it is being launched?
  CrashAt,        \* where the supervisor may be killed, by program counter
  SidecarsDie,    \* may a sidecar die by itself?
  QemuDies,       \* may QEMU die by itself?
  Tty,            \* is the session interactive?
  MaxWrites       \* bound on the guest's writes

Procs == {Sup} \cup Stoppers

(***************************************************************************)
(* Where a process is.  The supervisor launches, attaches, finalises and,   *)
(* from "side" on, shares its program with the stop commands.              *)
(***************************************************************************)
LaunchPC  == {"init", "overlay", "starting", "sidecars", "forking", "forked",
              "booting", "ready", "unwind", "reap"}
SessionPC == {"attach", "session", "judge"}
FinalPC   == {"final", "powerdown", "await", "quitting", "killing"}
StopPC    == {"idle", "mark", "halt", "wait", "term"}
SavePC    == {"side", "save", "copy", "publish", "saved", "remove", "rmdir"}
SupPC     == LaunchPC \cup SessionPC \cup FinalPC \cup SavePC \cup {"done"}
StopperPC == StopPC \cup SavePC \cup {"done"}

ASSUME ConstantsAssumption ==
  /\ Sup \notin Stoppers
  /\ Hook \subseteq Stoppers
  /\ None \notin Dest /\ None \notin Procs
  /\ LaunchSaves \subseteq Dest \cup {None}
  /\ StopSave \in [Stoppers -> Dest \cup {None}]
  /\ EarlyStop \in BOOLEAN /\ SidecarsDie \in BOOLEAN
  /\ QemuDies \in BOOLEAN /\ Tty \in BOOLEAN
  /\ CrashAt \subseteq SupPC
  /\ MaxWrites \in Nat

VARIABLES
  pc,        \* [Procs -> program counters]
  mem,       \* each process's copy of the metadata
  outcome,   \* how each process ended
  label,     \* the consistency label each process will give its checkpoint
  dir,       \* does the runtime directory exist?
  overlay,   \* does the disk overlay in it exist?
  vmjson,    \* the metadata in vm.json, or None
  qemu,      \* the QEMU process
  disk,      \* guest writes that reached the overlay
  guestOff,  \* did the guest itself power off?
  sidecars,  \* the helper processes
  event,     \* is a SHUTDOWN event waiting in the watcher's queue?
  sawOff,    \* the watcher's guest_shutdown
  signalled, \* the supervisor's stop_event
  blamed,    \* did the supervisor end the VM because a sidecar failed?
  copied,    \* the version of the overlay each process copied
  ckpt       \* the checkpoint published at each destination, or None

fsVars   == <<dir, overlay, vmjson>>
vmVars   == <<qemu, disk, guestOff>>
supVars  == <<event, sawOff, signalled, blamed>>
saveVars == <<copied, ckpt>>
vars == <<pc, mem, outcome, label, fsVars, vmVars, sidecars, supVars, saveVars>>

MetaStates == {"starting", "qemu-starting", "running", "failed", "stopping",
               "checkpointing", "checkpointed"}
Meta == [state : MetaStates,
         pid   : BOOLEAN,               \* is QEMU's pid recorded?
         side  : BOOLEAN,               \* are the sidecars recorded?
         save  : Dest \cup {None},      \* save_path
         id    : Procs \cup {None}]     \* checkpoint_id: who drew the uuid
Labels == {"unlabelled", "clean-shutdown", "crash-consistent"}
Checkpoints == [id : Procs \cup {None}, version : Nat, label : Labels]
\* An empty destination is not a checkpoint.
ASSUME NoneAssumption == None \notin Checkpoints
QemuStates == {"none", "running", "halted", "exiting", "killed", "zombie", "gone"}
Outcomes == {"none", "ok", "lost", "signal", "error", "save-failed", "killed",
             "refused"}

\* What an earlier job may have left at a destination.
ForeignCheckpoint == [id |-> None, version |-> 0, label |-> "unlabelled"]

\* The metadata of a launch before the first process starts.
NewMeta(save) == [state |-> "starting", pid |-> FALSE, side |-> FALSE,
                  save |-> save, id |-> IF save = None THEN None ELSE Sup]

PcType ==
  /\ pc \in [Procs -> SupPC \cup StopperPC]
  /\ pc[Sup] \in SupPC /\ \A s \in Stoppers : pc[s] \in StopperPC
MetaType == mem \in [Procs -> Meta] /\ vmjson \in Meta \cup {None}
EndType == outcome \in [Procs -> Outcomes] /\ label \in [Procs -> Labels]
WorldType ==
  /\ dir \in BOOLEAN /\ overlay \in BOOLEAN
  /\ qemu \in QemuStates /\ disk \in Nat /\ guestOff \in BOOLEAN
  /\ sidecars \in {"none", "up", "dead", "down"}
WatchType ==
  /\ event \in BOOLEAN /\ sawOff \in BOOLEAN
  /\ signalled \in BOOLEAN /\ blamed \in BOOLEAN
SaveType ==
  copied \in [Procs -> Nat] /\ ckpt \in [Dest -> Checkpoints \cup {None}]

\* The type invariant.
TypeOK == PcType /\ MetaType /\ EndType /\ WorldType /\ WatchType /\ SaveType

Init ==
  /\ pc = [p \in Procs |-> IF p = Sup THEN "init" ELSE "idle"]
  /\ \E save \in LaunchSaves : mem = [p \in Procs |-> NewMeta(save)]
  /\ outcome = [p \in Procs |-> "none"]
  /\ label = [p \in Procs |-> "unlabelled"]
  /\ dir = FALSE /\ overlay = FALSE /\ vmjson = None
  /\ qemu = "none" /\ disk = 0 /\ guestOff = FALSE
  /\ sidecars = "none"
  /\ event = FALSE /\ sawOff = FALSE /\ signalled = FALSE /\ blamed = FALSE
  /\ copied = [p \in Procs |-> 0]
  /\ ckpt \in [Dest -> {None, ForeignCheckpoint}]

-----------------------------------------------------------------------------
(* Helpers.                                                                *)

Goto(p, l) == pc' = [pc EXCEPT ![p] = l]

\* A process ends with outcome o.
End(p, o) == /\ Goto(p, "done")
             /\ outcome' = [outcome EXCEPT ![p] = o]

\* _write_metadata: the process's metadata m becomes vm.json.  It needs the
\* directory; without it the call raises FileNotFoundError (or is told so).
CanWrite == dir
Write(p, m) == /\ mem' = [mem EXCEPT ![p] = m]
               /\ vmjson' = m
               /\ UNCHANGED <<dir, overlay>>

\* kill(pid, 0) succeeds: a zombie that nobody has reaped still answers.
Alive == qemu \in {"running", "halted", "exiting", "killed", "zombie"}
\* (Mutant: the source is opened without honouring the image lock.)
HoldsDiskIgnored == FALSE
\* QEMU has the overlay open, and with it the image lock.
HoldsDisk == qemu \in {"running", "halted", "exiting", "killed"}
\* QEMU may still write to the overlay.
MayWrite == qemu \in {"running", "halted", "exiting"}
Stopped == qemu \in {"killed", "zombie", "gone"}

\* The watcher is connected to QMP, which serves one client at a time.
Watching == pc[Sup] \in {"session", "judge"} \cup FinalPC
Launching == pc[Sup] \in LaunchPC

\* QEMU after SIGTERM or QMP quit; it announces SHUTDOWN as it goes.
Terminated == IF qemu \in {"running", "halted"} THEN "exiting" ELSE qemu
Announced == event \/ (Watching /\ qemu \in {"running", "halted"})
\* QEMU after SIGKILL.
Killed == IF MayWrite THEN "killed" ELSE qemu
\* QEMU after its parent has waited for it.
Reaped == IF qemu = "zombie" THEN "gone" ELSE qemu

\* Draining the watcher's queue: any SHUTDOWN counts as a guest shutdown and
\* is answered with QMP quit.
Drain == /\ sawOff' = (sawOff \/ event)
         /\ event' = FALSE
         /\ qemu' = IF event THEN Terminated ELSE qemu

-----------------------------------------------------------------------------
(* launch_vm.                                                              *)

\* Checks, then the runtime directory with everything up to the overlay.  A
\* failure before vm.json is written leaves the directory as it is.
LaunchPreflight ==
  /\ pc[Sup] = "init"
  /\ \/ /\ mem[Sup].save # None /\ ckpt[mem[Sup].save] # None
        /\ End(Sup, "error")
        /\ UNCHANGED <<dir, overlay>>
     \/ /\ mem[Sup].save # None => ckpt[mem[Sup].save] = None
        /\ dir' = TRUE /\ overlay' \in BOOLEAN
        /\ End(Sup, "refused")
     \/ /\ mem[Sup].save # None => ckpt[mem[Sup].save] = None
        /\ dir' = TRUE /\ overlay' = TRUE
        /\ Goto(Sup, "overlay")
        /\ UNCHANGED outcome
  /\ UNCHANGED <<mem, label, vmjson, vmVars, sidecars, supVars, saveVars>>

\* The first vm.json, in state 'starting'.
LaunchWriteStarting ==
  /\ pc[Sup] = "overlay"
  /\ Write(Sup, mem[Sup])
  /\ Goto(Sup, "starting")
  /\ UNCHANGED <<outcome, label, vmVars, sidecars, supVars, saveVars>>

\* SidecarManager.start_all: all ready, or rolled back and raised.
LaunchSidecars ==
  /\ pc[Sup] = "starting"
  /\ \/ sidecars' = "up" /\ Goto(Sup, "sidecars")
     \/ SidecarsDie /\ sidecars' = "down" /\ Goto(Sup, "unwind")
  /\ UNCHANGED <<mem, outcome, label, fsVars, vmVars, supVars, saveVars>>

\* A metadata write of launch_vm: without the directory it raises, and the
\* except branch takes over.
LaunchWrite(from, m, to) ==
  /\ pc[Sup] = from
  /\ \/ CanWrite /\ Write(Sup, m) /\ Goto(Sup, to)
     \/ ~CanWrite /\ Goto(Sup, "unwind") /\ mem' = [mem EXCEPT ![Sup] = m]
        /\ UNCHANGED fsVars
  /\ UNCHANGED <<outcome, label, vmVars, sidecars, supVars, saveVars>>

LaunchWriteSidecars ==
  LaunchWrite("sidecars", [mem[Sup] EXCEPT !.side = TRUE], "forking")

\* fork/exec.  Without its directory or disk the child dies at once.
LaunchFork ==
  /\ pc[Sup] = "forking"
  /\ qemu' = IF dir /\ overlay THEN "running" ELSE "zombie"
  /\ Goto(Sup, "forked")
  /\ UNCHANGED <<mem, outcome, label, fsVars, disk, guestOff, sidecars,
                 supVars, saveVars>>

LaunchWritePid ==
  LaunchWrite("forked", [mem[Sup] EXCEPT !.pid = TRUE, !.state = "qemu-starting"],
              "booting")

\* QMP, cont, key rotation, SSH: done, or failed or timed out.
LaunchBoot ==
  /\ pc[Sup] = "booting"
  /\ \/ qemu = "running" /\ Goto(Sup, "ready")
     \/ Goto(Sup, "unwind")
  /\ UNCHANGED <<mem, outcome, label, fsVars, vmVars, sidecars, supVars, saveVars>>

LaunchWriteRunning ==
  LaunchWrite("ready", [mem[Sup] EXCEPT !.state = "running"], "attach")

\* The except branch of launch_vm: kill QEMU ...
LaunchUnwind ==
  /\ pc[Sup] = "unwind"
  /\ \/ qemu' = Terminated
     \/ qemu' = Killed
  /\ Goto(Sup, "reap")
  /\ UNCHANGED <<mem, outcome, label, fsVars, disk, guestOff, sidecars,
                 supVars, saveVars>>

\* ... wait for it, stop the sidecars and record the failure.
LaunchReap ==
  /\ pc[Sup] = "reap"
  /\ qemu \in {"none", "zombie", "gone"}
  /\ qemu' = Reaped
  /\ sidecars' = IF sidecars = "none" THEN "none" ELSE "down"
  /\ End(Sup, "error")
  /\ \/ CanWrite /\ Write(Sup, [mem[Sup] EXCEPT !.state = "failed"])
     \/ ~CanWrite /\ UNCHANGED <<mem, fsVars>>
  /\ UNCHANGED <<label, disk, guestOff, supVars, saveVars>>

Launch ==
  \/ LaunchPreflight \/ LaunchWriteStarting \/ LaunchSidecars
  \/ LaunchWriteSidecars \/ LaunchFork \/ LaunchWritePid \/ LaunchBoot
  \/ LaunchWriteRunning \/ LaunchUnwind \/ LaunchReap

-----------------------------------------------------------------------------
(* run_attached_session.                                                   *)

\* The lifecycle watcher connects to QMP, outside the try block: a QEMU that
\* no longer answers ends the supervisor with no clean-up at all.
SessionAttach ==
  /\ pc[Sup] = "attach"
  /\ \/ qemu \in {"running", "halted", "exiting"}
        /\ Goto(Sup, "session") /\ UNCHANGED outcome
     \/ qemu \notin {"running", "halted"} /\ End(Sup, "error")
  /\ UNCHANGED <<mem, label, fsVars, vmVars, sidecars, supVars, saveVars>>

\* SIGTERM or SIGINT: the handler only sets the stop event.
SessionSignal ==
  /\ pc[Sup] \in {"session", "judge"}
  /\ ~signalled
  /\ signalled' = TRUE
  /\ UNCHANGED <<pc, mem, outcome, label, fsVars, vmVars, sidecars, event, sawOff,
                 blamed, saveVars>>

\* is_vm_stopping.
IsStopping == vmjson # None /\ vmjson.state = "stopping"

\* One turn of the poll loop of _run_ssh while the ssh child runs: drain the
\* events, obey the stop event, end the VM when a sidecar has failed.
SessionPoll ==
  /\ pc[Sup] = "session"
  /\ \/ /\ event /\ ~signalled
        /\ Drain
        /\ UNCHANGED <<pc, outcome, blamed>>
     \/ /\ signalled
        /\ Drain
        /\ Goto(Sup, "judge")
        /\ outcome' = [outcome EXCEPT ![Sup] = "lost"]
        /\ UNCHANGED blamed
     \/ /\ ~event /\ ~signalled
        /\ sidecars \in {"dead", "down"} /\ ~sawOff /\ ~IsStopping
        /\ blamed' = TRUE
        /\ qemu' = Terminated
        /\ event' = Announced
        /\ Goto(Sup, "judge")
        /\ outcome' = [outcome EXCEPT ![Sup] = "lost"]
        /\ UNCHANGED sawOff
  /\ UNCHANGED <<mem, label, fsVars, disk, guestOff, sidecars, signalled,
                 saveVars>>

\* The ssh child ends: the command finished, or the transport was lost.
SessionSshExit ==
  /\ pc[Sup] = "session"
  /\ \E status \in {"ok", "lost"} :
       /\ status = "ok" => qemu = "running"
       /\ outcome' = [outcome EXCEPT ![Sup] = status]
  /\ Goto(Sup, "judge")
  /\ UNCHANGED <<mem, label, fsVars, vmVars, sidecars, supVars, saveVars>>

\* After _run_ssh: drain once more, then decide how the session goes on.
\* _process_alive reaps a QEMU that has exited.
SessionJudge ==
  /\ pc[Sup] = "judge"
  /\ sawOff' = (sawOff \/ event)
  /\ event' = FALSE
  /\ LET q == IF event THEN Terminated ELSE qemu
         over == sawOff' \/ q \in {"zombie", "gone"}
     IN
     /\ qemu' = IF signalled \/ sawOff' THEN q
                ELSE IF q = "zombie" THEN "gone" ELSE q
     /\ \/ /\ signalled
           /\ outcome' = [outcome EXCEPT ![Sup] = "signal"]
           /\ Goto(Sup, "final")
           /\ UNCHANGED label
        \/ /\ ~signalled /\ over
           /\ outcome' = [outcome EXCEPT ![Sup] = IF sawOff' THEN "ok" ELSE @]
           /\ label' = [label EXCEPT ![Sup] =
                          IF sawOff' THEN "clean-shutdown" ELSE "crash-consistent"]
           /\ Goto(Sup, "final")
        \/ /\ ~signalled /\ ~over
           /\ \/ Goto(Sup, "final")
              \/ Tty /\ outcome[Sup] = "lost" /\ Goto(Sup, "session")
           /\ UNCHANGED <<outcome, label>>
  /\ UNCHANGED <<mem, fsVars, disk, guestOff, sidecars, signalled, blamed, saveVars>>

Session == SessionAttach \/ SessionPoll \/ SessionSshExit \/ SessionJudge

-----------------------------------------------------------------------------
(* The finally block of run_attached_session.                              *)

\* Record 'stopping'.  This write does not tolerate a missing directory.
FinalWriteStopping ==
  /\ pc[Sup] = "final"
  /\ \/ /\ CanWrite
        /\ Write(Sup, [mem[Sup] EXCEPT !.state = "stopping"])
        /\ Goto(Sup, "powerdown")
        /\ UNCHANGED outcome
     \/ /\ ~CanWrite
        /\ End(Sup, "error")
        /\ UNCHANGED <<mem, fsVars>>
  /\ label' = [label EXCEPT ![Sup] =
                 IF @ = "unlabelled" THEN "crash-consistent" ELSE @]
  /\ UNCHANGED <<vmVars, sidecars, supVars, saveVars>>

\* If QEMU is alive, ask the guest to power down.
FinalPowerdown ==
  /\ pc[Sup] = "powerdown"
  /\ sawOff' = (sawOff \/ event) /\ event' = FALSE
  /\ LET q == IF event THEN Terminated ELSE qemu
     IN /\ qemu' = IF q = "zombie" THEN "gone" ELSE q
        /\ Goto(Sup, IF q \in {"zombie", "gone"} THEN "side" ELSE "await")
  /\ UNCHANGED <<mem, outcome, label, fsVars, disk, guestOff, sidecars, signalled,
                 blamed, saveVars>>

\* _wait_for_qemu, draining on every poll; the guest has 20 seconds.
FinalAwait ==
  /\ pc[Sup] = "await"
  /\ \/ event /\ Drain /\ UNCHANGED <<pc, label>>
     \/ /\ qemu \in {"zombie", "gone"}
        /\ qemu' = "gone"
        /\ label' = [label EXCEPT ![Sup] = "clean-shutdown"]
        /\ Goto(Sup, "side")
        /\ UNCHANGED <<event, sawOff>>
     \/ /\ qemu' = Terminated /\ event' = Announced
        /\ Goto(Sup, "quitting")
        /\ UNCHANGED <<label, sawOff>>
  /\ UNCHANGED <<mem, outcome, fsVars, disk, guestOff, sidecars, signalled, blamed,
                 saveVars>>

\* After QMP quit QEMU has 5 seconds, then _kill_qemu: SIGTERM and SIGKILL.
FinalQuit ==
  /\ pc[Sup] = "quitting"
  /\ \/ event /\ Drain /\ UNCHANGED pc
     \/ /\ qemu \in {"zombie", "gone"} /\ qemu' = "gone"
        /\ Goto(Sup, "side") /\ UNCHANGED <<event, sawOff>>
     \/ /\ qemu' = Killed
        /\ Goto(Sup, "killing") /\ UNCHANGED <<event, sawOff>>
  /\ UNCHANGED <<mem, outcome, label, fsVars, disk, guestOff, sidecars, signalled,
                 blamed, saveVars>>

\* Two more seconds to reap it.
FinalKill ==
  /\ pc[Sup] = "killing"
  /\ \/ qemu' = Reaped
     \/ UNCHANGED qemu
  /\ Goto(Sup, "side")
  /\ UNCHANGED <<mem, outcome, label, fsVars, disk, guestOff, sidecars, supVars,
                 saveVars>>

Finalise == \/ FinalWriteStopping \/ FinalPowerdown \/ FinalAwait \/ FinalQuit
            \/ FinalKill

-----------------------------------------------------------------------------
(* teardown_vm, as `vmocs stop` and the Slurm exit hook run it.            *)

\* When the stop may be issued: the hook runs after the task has ended.
MayStop(s) == IF s \in Hook THEN pc[Sup] = "done" ELSE EarlyStop \/ ~Launching

\* (Mutant: the persisted save intent is not honoured.)
StopMetaNoIntent(s) == [vmjson EXCEPT !.state = "stopping", !.save = StopSave[s]]

\* What a stop command makes of the metadata it has read: its own --save, if
\* it has one, replaces the persisted destination and identity.
StopMeta(s) == IF StopSave[s] = None THEN [vmjson EXCEPT !.state = "stopping"]
               ELSE [vmjson EXCEPT !.state = "stopping", !.id = s,
                                   !.save = StopSave[s]]

\* Read vm.json and settle the destination of the save.  The hook's
\* --if-exists makes a missing vm.json a success.
StopRead(s) ==
  /\ pc[s] = "idle" /\ MayStop(s)
  /\ LET refused == \/ vmjson = None
                    \/ StopSave[s] # None /\ ckpt[StopSave[s]] # None
     IN \/ /\ refused
           /\ End(s, IF s \in Hook /\ vmjson = None THEN "ok" ELSE "error")
           /\ UNCHANGED mem
        \/ /\ ~refused
           /\ mem' = [mem EXCEPT ![s] = StopMeta(s)]
           /\ Goto(s, "mark")
           /\ UNCHANGED outcome
  /\ UNCHANGED <<label, fsVars, vmVars, sidecars, supVars, saveVars>>

\* Publish the intent to stop, from the copy just read.
StopMark(s) ==
  /\ pc[s] = "mark"
  /\ \/ /\ CanWrite
        /\ Write(s, mem[s])
        /\ Goto(s, "halt")
        /\ UNCHANGED outcome
     \/ /\ ~CanWrite
        /\ End(s, IF mem[s].save = None THEN "ok" ELSE "error")
        /\ UNCHANGED <<mem, fsVars>>
  /\ UNCHANGED <<label, vmVars, sidecars, supVars, saveVars>>

\* With a save: _graceful_shutdown, which never gets through to QMP while the
\* watcher holds it and may fail to otherwise; then, and without a save,
\* _kill_qemu's SIGTERM.  Without a pid: nothing.
StopHalt(s) ==
  /\ pc[s] = "halt"
  /\ \/ /\ ~mem[s].pid
        /\ Goto(s, "side")
        /\ UNCHANGED <<qemu, event, label>>
     \/ /\ mem[s].pid /\ mem[s].save # None
        /\ ~Watching /\ qemu \in {"running", "halted"}
        /\ Goto(s, "wait")
        /\ label' = [label EXCEPT ![s] = "crash-consistent"]
        /\ UNCHANGED <<qemu, event>>
     \/ /\ mem[s].pid
        /\ qemu' = Terminated /\ event' = Announced
        /\ label' = [label EXCEPT ![s] = "crash-consistent"]
        /\ Goto(s, "term")
  /\ UNCHANGED <<mem, outcome, fsVars, disk, guestOff, sidecars, sawOff, signalled,
                 blamed, saveVars>>

\* The guest has 60 seconds; then SIGTERM.
StopWait(s) ==
  /\ pc[s] = "wait"
  /\ \/ /\ ~Alive
        /\ label' = [label EXCEPT ![s] = "clean-shutdown"]
        /\ Goto(s, "side")
        /\ UNCHANGED <<qemu, event>>
     \/ /\ qemu' = Terminated /\ event' = Announced
        /\ Goto(s, "term")
        /\ UNCHANGED label
  /\ UNCHANGED <<mem, outcome, fsVars, disk, guestOff, sidecars, sawOff, signalled,
                 blamed, saveVars>>

\* (Mutant: _kill_qemu without its SIGKILL.)
StopTermNoKill(s) ==
  /\ pc[s] = "term"
  /\ Goto(s, "side")
  /\ UNCHANGED <<mem, outcome, label, fsVars, vmVars, sidecars, supVars, saveVars>>

\* _kill_qemu: QEMU has 10 seconds; then SIGKILL, and no wait after it.
StopTerm(s) ==
  /\ pc[s] = "term"
  /\ \/ ~Alive /\ UNCHANGED qemu
     \/ Alive /\ qemu' = Killed
  /\ Goto(s, "side")
  /\ UNCHANGED <<mem, outcome, label, fsVars, disk, guestOff, sidecars, supVars,
                 saveVars>>

Teardown(s) == StopRead(s) \/ StopMark(s) \/ StopHalt(s) \/ StopWait(s) \/ StopTerm(s)

-----------------------------------------------------------------------------
(* What the supervisor and the stop commands have in common.               *)

\* stop_vm_sidecars: the supervisor holds handles, a stop command knows the
\* sidecars that its copy of the metadata records.
StopSidecars(p) ==
  /\ pc[p] = "side"
  /\ sidecars' = IF sidecars # "none" /\ (p = Sup \/ mem[p].side) THEN "down"
                 ELSE sidecars
  /\ Goto(p, IF mem[p].save = None THEN "remove" ELSE "save")
  /\ UNCHANGED <<mem, outcome, label, fsVars, vmVars, supVars, saveVars>>

\* Record 'checkpointing'; both callers give up if the directory is gone.
SaveMark(p) ==
  /\ pc[p] = "save"
  /\ \/ /\ CanWrite
        /\ Write(p, [mem[p] EXCEPT !.state = "checkpointing"])
        /\ Goto(p, "copy")
        /\ UNCHANGED outcome
     \/ /\ ~CanWrite
        /\ End(p, "save-failed")
        /\ UNCHANGED <<mem, fsVars>>
  /\ UNCHANGED <<label, vmVars, sidecars, supVars, saveVars>>

\* (Mutant: a failed save goes on to remove the runtime directory.)
SaveCopyThenRemove(p) ==
  /\ pc[p] = "copy"
  /\ IF ckpt[mem[p].save] = None /\ overlay /\ ~HoldsDisk
     THEN Goto(p, "publish") /\ UNCHANGED outcome
     ELSE Goto(p, "remove") /\ outcome' = [outcome EXCEPT ![p] = "save-failed"]
  /\ copied' = [copied EXCEPT ![p] = disk]
  /\ UNCHANGED <<mem, label, fsVars, vmVars, sidecars, supVars, ckpt>>

\* create_checkpoint up to the copy: an existing checkpoint with this
\* identity is the answer, any other is an error; so is a missing or locked
\* overlay, and a copy that fails.
SaveCopy(p) ==
  /\ pc[p] = "copy"
  /\ LET there == ckpt[mem[p].save] IN
     \/ there # None /\ there.id = mem[p].id
        /\ Goto(p, "saved") /\ UNCHANGED <<outcome, copied>>
     \/ there = None /\ overlay /\ ~HoldsDisk
        /\ Goto(p, "publish")
        /\ copied' = [copied EXCEPT ![p] = disk]
        /\ UNCHANGED outcome
     \/ End(p, "save-failed") /\ UNCHANGED copied
  /\ UNCHANGED <<mem, label, fsVars, vmVars, sidecars, supVars, ckpt>>

\* create_checkpoint from the end of the copy: the bundle is renamed into
\* place unless something appeared there.
SavePublish(p) ==
  /\ pc[p] = "publish"
  /\ \/ /\ ckpt[mem[p].save] = None
        /\ ckpt' = [ckpt EXCEPT ![mem[p].save] =
             [id |-> mem[p].id, version |-> copied[p], label |-> label[p]]]
        /\ Goto(p, "saved") /\ UNCHANGED outcome
     \/ /\ ckpt[mem[p].save] # None
        /\ End(p, "save-failed") /\ UNCHANGED ckpt
  /\ UNCHANGED <<mem, label, fsVars, vmVars, sidecars, supVars, copied>>

\* Record 'checkpointed'.  Only the supervisor minds a missing directory.
SaveDone(p) ==
  /\ pc[p] = "saved"
  /\ \/ /\ CanWrite
        /\ Write(p, [mem[p] EXCEPT !.state = "checkpointed"])
        /\ Goto(p, "remove") /\ UNCHANGED outcome
     \/ /\ ~CanWrite /\ p # Sup
        /\ Goto(p, "remove") /\ UNCHANGED <<mem, outcome, fsVars>>
     \/ /\ ~CanWrite /\ p = Sup
        /\ End(p, "error") /\ UNCHANGED <<mem, fsVars>>
  /\ UNCHANGED <<label, vmVars, sidecars, supVars, saveVars>>

\* rmtree first unlinks the files ...
RemoveFiles(p) ==
  /\ pc[p] = "remove"
  /\ overlay' = FALSE /\ vmjson' = None
  /\ Goto(p, "rmdir")
  /\ UNCHANGED <<mem, outcome, label, dir, vmVars, sidecars, supVars, saveVars>>

\* (Mutant: the directory itself is left.)
RemoveDirLeft(p) ==
  /\ pc[p] = "rmdir"
  /\ End(p, IF outcome[p] = "none" THEN "ok" ELSE outcome[p])
  /\ UNCHANGED <<mem, label, fsVars, vmVars, sidecars, supVars, saveVars>>

\* ... then removes the directory, unless somebody wrote into it meanwhile.
RemoveDir(p) ==
  /\ pc[p] = "rmdir"
  /\ dir' = (dir /\ vmjson # None)
  /\ End(p, IF outcome[p] = "none" THEN "ok" ELSE outcome[p])
  /\ UNCHANGED <<mem, label, overlay, vmjson, vmVars, sidecars, supVars, saveVars>>

Cleanup(p) ==
  \/ StopSidecars(p) \/ SaveMark(p) \/ SaveCopy(p) \/ SavePublish(p)
  \/ SaveDone(p) \/ RemoveFiles(p) \/ RemoveDir(p)

-----------------------------------------------------------------------------
(* The environment: QEMU and its guest, sidecars, and the killer.          *)

GuestWrite ==
  /\ qemu \in {"running", "exiting"} /\ disk < MaxWrites
  /\ disk' = disk + 1
  /\ UNCHANGED <<pc, mem, outcome, label, fsVars, qemu, guestOff, sidecars, supVars,
                 saveVars>>

\* The guest powers off; -no-shutdown keeps QEMU, and the watcher is told.
GuestPoweroff ==
  /\ qemu = "running"
  /\ qemu' = "halted" /\ guestOff' = TRUE
  /\ event' = (event \/ Watching)
  /\ UNCHANGED <<pc, mem, outcome, label, fsVars, disk, sidecars, sawOff, signalled,
                 blamed, saveVars>>

\* QEMU obeys SIGTERM, quit or SIGKILL.
QemuExit ==
  /\ qemu \in {"exiting", "killed"}
  /\ qemu' = "zombie"
  /\ UNCHANGED <<pc, mem, outcome, label, fsVars, disk, guestOff, sidecars, supVars,
                 saveVars>>

QemuCrash ==
  /\ QemuDies /\ qemu \in {"running", "halted"}
  /\ qemu' = "zombie"
  /\ UNCHANGED <<pc, mem, outcome, label, fsVars, disk, guestOff, sidecars, supVars,
                 saveVars>>

\* Once its parent has ended, init reaps QEMU.
OrphanReap ==
  /\ pc[Sup] = "done" /\ qemu = "zombie"
  /\ qemu' = "gone"
  /\ UNCHANGED <<pc, mem, outcome, label, fsVars, disk, guestOff, sidecars, supVars,
                 saveVars>>

SidecarDeath ==
  /\ SidecarsDie /\ sidecars = "up"
  /\ sidecars' = "dead"
  /\ UNCHANGED <<pc, mem, outcome, label, fsVars, vmVars, supVars, saveVars>>

\* SIGKILL, or SIGTERM while launch_vm runs with its default action.
SupKilled ==
  /\ pc[Sup] \in CrashAt \ {"done"}
  /\ End(Sup, "killed")
  /\ event' = FALSE
  /\ UNCHANGED <<mem, label, fsVars, vmVars, sidecars, sawOff, signalled, blamed,
                 saveVars>>

Environment ==
  \/ GuestWrite \/ GuestPoweroff \/ QemuExit \/ QemuCrash \/ OrphanReap
  \/ SidecarDeath \/ SupKilled \/ SessionSignal

AllEnded == \A p \in Procs : pc[p] = "done"

\* Nothing is left to do once every process has ended.
Idle == AllEnded /\ UNCHANGED vars

Next ==
  \/ Launch \/ Session \/ Finalise
  \/ \E s \in Stoppers : Teardown(s)
  \/ \E p \in Procs : Cleanup(p)
  \/ Environment
  \/ Idle

Spec == Init /\ [][Next]_vars

(***************************************************************************)
(* Fairness.  The supervisor and a stop command that has started keep       *)
(* running (their waits are all bounded); Slurm always runs its exit hook;  *)
(* QEMU obeys SIGTERM, quit and SIGKILL; init reaps.  Nothing makes the     *)
(* guest power off, the ssh child end or a user stop the VM.               *)
(***************************************************************************)
Fairness ==
  /\ WF_vars(Launch) /\ WF_vars(SessionAttach \/ SessionJudge)
  /\ WF_vars(Finalise)
  /\ \A p \in Procs : WF_vars(Cleanup(p))
  /\ \A s \in Stoppers : WF_vars((s \in Hook \/ pc[s] # "idle") /\ Teardown(s))
  /\ WF_vars(QemuExit) /\ WF_vars(OrphanReap)

FairSpec == Spec /\ Fairness

-----------------------------------------------------------------------------
(* Properties.                                                             *)

(***************************************************************************)
(* "The disk is copied only after QEMU can no longer write to it"           *)
(* (launch.py, teardown_vm): from the start of the copy until the bundle is *)
(* published, QEMU is stopped or was never started.                        *)
(***************************************************************************)
CopyOnlyStoppedDisk ==
  \A p \in Procs : pc[p] = "publish" => ~MayWrite

(***************************************************************************)
(* A process that knows QEMU's pid stops sidecars, saves and removes the    *)
(* runtime directory only when QEMU has exited or has been sent SIGKILL,    *)
(* whatever the other processes do (the order of teardown_vm and of the     *)
(* session's finally block).                                               *)
(***************************************************************************)
CleanupAfterQemu ==
  \A p \in Procs : pc[p] \in SavePC /\ mem[p].pid => Stopped

\* The guest's writes are all in the overlay or in a published checkpoint.
DataSafe ==
  overlay \/ \E d \in Dest : ckpt[d] # None /\ ckpt[d].version = disk

(***************************************************************************)
(* "If saving the disk fails, vmocs keeps the stopped overlay" (docs,       *)
(* lifecycle.rst): no process reports a failed save while the data is gone. *)
(***************************************************************************)
FailedSaveKeepsOverlay ==
  \A p \in Procs : outcome[p] = "save-failed" => DataSafe

(***************************************************************************)
(* A save requested at launch survives every mix of session end, stop       *)
(* commands, exit hook and a killed supervisor: what the guest wrote is     *)
(* never removed before a checkpoint holds it (persisted save_path and      *)
(* checkpoint_id of launch_vm).                                            *)
(***************************************************************************)
LaunchSaveNeverLost ==
  mem[Sup].save # None /\ disk > 0 => DataSafe

(***************************************************************************)
(* A checkpoint labelled clean-shutdown is one of a guest that powered off  *)
(* (checkpoint_consistency of teardown_vm and run_attached_session).  Does  *)
(* not hold: a quit or a SIGTERM gives a SHUTDOWN event too.               *)
(***************************************************************************)
CleanLabelIsTrue ==
  \A d \in Dest :
    ckpt[d] # None /\ ckpt[d].label = "clean-shutdown" => guestOff

(***************************************************************************)
(* A session that vmocs itself ended because a critical sidecar failed does *)
(* not report success (_run_ssh and the status of run_attached_session).    *)
(* Does not hold: the quit's SHUTDOWN event makes it return 0.             *)
(***************************************************************************)
SidecarFailureFailsSession ==
  pc[Sup] = "done" /\ blamed => outcome[Sup] # "ok"

\* vm.json tells whoever comes next what there is to clean up.  It does not
\* after a kill before its first write, between the fork of QEMU and the
\* write of its pid, or between the two halves of rmtree.
Recorded ==
  IF vmjson = None THEN ~dir /\ ~Alive ELSE qemu = "none" \/ vmjson.pid

\* A task that has ended, or was killed, leaves nothing that vm.json does not
\* record (the order of launch_vm's metadata writes).  Does not hold.
LeavesRecord == pc[Sup] = "done" /\ outcome[Sup] # "refused" => Recorded

(***************************************************************************)
(* "A normal command, interactive logout, guest shutdown, Slurm             *)
(* cancellation, or time limit must all converge on QEMU termination and    *)
(* runtime-directory cleanup" (lifecycle.rst): once the task has ended,     *)
(* wherever it was killed as long as vm.json records what it left, QEMU is  *)
(* finally gone and so is its directory, for good, unless a save has        *)
(* failed.  (A launch that fails before its first vm.json leaves a          *)
(* directory that no stop finds.)                                           *)
(***************************************************************************)
Converges ==
  (pc[Sup] = "done" /\ outcome[Sup] # "refused" /\ Recorded) ~>
    [](/\ qemu \in {"none", "gone"}
       /\ dir => \E p \in Procs : outcome[p] = "save-failed")

=============================================================================
