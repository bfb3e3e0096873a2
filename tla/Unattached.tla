----------------------------- MODULE Unattached ------------------------------
(***************************************************************************)
(* The commands of cli.py that hold a VM without a guest session: `run      *)
(* --attach none', `launch' and `launch --ssh', from the moment launch_vm   *)
(* has returned.  The first two wait in _block_until_exit, whose signal     *)
(* handler escalates: ACPI powerdown, powerdown again after 10 seconds, QMP *)
(* quit and, 5 seconds later, SIGKILL.  The handler stays installed until   *)
(* the process ends.  The third waits for ssh and then uses                 *)
(* _graceful_shutdown of launch.py.                                        *)
(*                                                                         *)
(* QEMU is a child: until waitpid it is a zombie that os.kill(pid, 0) still *)
(* finds, afterwards its number is free.  Guests may ignore a powerdown and *)
(* QMP requests may fail; seconds are not counted, a timer just fires.      *)
(***************************************************************************)
EXTENDS Naturals

CONSTANTS
  Commands,       \* the commands considered
  MaxSignals,     \* bound on the signals from outside
  SidecarsDie,    \* may a sidecar exit by itself?
  OtherStop       \* may a `vmocs stop' of this VM run beside?

ASSUME UnattachedAssumption ==
  /\ Commands \subseteq {"run", "launch", "ssh"}
  /\ MaxSignals \in Nat /\ SidecarsDie \in BOOLEAN /\ OtherStop \in BOOLEAN

VARIABLES
  cmd, save,      \* the command; was it given --save?
  pc,             \* the main thread
  remove,         \* remove_runtime
  attempts,       \* _attempts, three and more being the same
  timer,          \* the 10 second timer runs
  killer,         \* a 5 second timer to SIGKILL runs
  jobs,           \* QMP requests that their threads have not made yet
  signals,        \* signals from outside so far
  qemu,           \* "up", "asked" (powerdown seen), "zombie", "reaped"
  reused,         \* does QEMU's number belong to somebody else?
  side,           \* the sidecars: "up", "clean" or "broken" (one exited), "down"
  grace,          \* the second given to a clean exit: "none", "on", "over"
  blame,          \* sidecar_failure: "none", "alive" or "late" (QEMU had exited)
  forced,         \* the state QEMU was in when _graceful_shutdown's time was up
  marked,         \* does vm.json say stopping?
  dir,            \* is the runtime directory there?
  ckpt,           \* has create_checkpoint published?
  victim          \* has a stranger been sent SIGKILL?

callVars == <<cmd, save>>
sigVars == <<attempts, timer, killer, jobs, signals>>
vmVars == <<qemu, reused, side>>
fsVars == <<marked, dir, ckpt>>
vars == <<callVars, pc, remove, sigVars, vmVars, grace, blame, forced, fsVars, victim>>

\* The type invariant.
TypeOK ==
  /\ cmd \in Commands /\ save \in BOOLEAN
  /\ pc \in {"loop", "check", "killing", "left", "mark", "sidecars", "save", "cleanup",
             "session", "ask", "poll", "ended", "died"}
  /\ remove \in BOOLEAN
  /\ attempts \in 0..3 /\ timer \in BOOLEAN /\ killer \in BOOLEAN
  /\ jobs \subseteq {"powerdown", "quit"} /\ signals \in 0..MaxSignals
  /\ qemu \in {"up", "asked", "zombie", "reaped"} /\ reused \in BOOLEAN
  /\ side \in {"up", "clean", "broken", "down"}
  /\ grace \in {"none", "on", "over"} /\ blame \in {"none", "alive", "late"}
  /\ forced \in {"none", "up", "asked", "zombie"}
  /\ marked \in BOOLEAN /\ dir \in BOOLEAN /\ ckpt \in BOOLEAN /\ victim \in BOOLEAN

\* launch_vm has returned; only `run' has --save.
Init ==
  /\ cmd \in Commands /\ save \in BOOLEAN /\ (save => cmd = "run")
  /\ pc = IF cmd = "ssh" THEN "session" ELSE "loop"
  /\ remove = FALSE
  /\ attempts = 0 /\ timer = FALSE /\ killer = FALSE /\ jobs = {} /\ signals = 0
  /\ qemu = "up" /\ reused = FALSE /\ side = "up"
  /\ grace = "none" /\ blame = "none" /\ forced = "none"
  /\ marked = FALSE /\ dir = TRUE /\ ckpt = FALSE /\ victim = FALSE

Running == pc \notin {"ended", "died"}
QemuAlive == qemu \in {"up", "asked"}

-----------------------------------------------------------------------------
(* Signals, timers and QMP requests.                                       *)

\* (Mutant: the second powerdown is not followed up.)
OnSignalNoFollowUp ==
  /\ attempts' = IF attempts < 3 THEN attempts + 1 ELSE 3
  /\ IF attempts' < 3
     THEN jobs' = jobs \cup {"powerdown"} /\ timer' = (attempts' < 2) /\ UNCHANGED killer
     ELSE jobs' = jobs \cup {"quit"} /\ timer' = FALSE /\ killer' = TRUE

\* _on_signal: cancel the timer, count, escalate.
OnSignal ==
  /\ attempts' = IF attempts < 3 THEN attempts + 1 ELSE 3
  /\ IF attempts' < 3
     THEN jobs' = jobs \cup {"powerdown"} /\ timer' = TRUE /\ UNCHANGED killer
     ELSE jobs' = jobs \cup {"quit"} /\ timer' = FALSE /\ killer' = TRUE

\* SIGTERM or SIGINT from Slurm or a user.
Signal ==
  /\ Running /\ cmd # "ssh" /\ signals < MaxSignals
  /\ signals' = signals + 1
  /\ OnSignal
  /\ UNCHANGED <<callVars, pc, remove, vmVars, grace, blame, forced, fsVars, victim>>

\* `launch --ssh' has no handler.
Die ==
  /\ Running /\ cmd = "ssh" /\ signals < MaxSignals
  /\ signals' = signals + 1
  /\ pc' = "died"
  /\ UNCHANGED <<callVars, remove, attempts, timer, killer, jobs, vmVars, grace, blame,
                 forced, fsVars, victim>>

\* Ten seconds: the process sends itself SIGTERM.
TimerFires ==
  /\ Running /\ timer
  /\ OnSignal
  /\ UNCHANGED <<callVars, pc, remove, signals, vmVars, grace, blame, forced, fsVars,
                 victim>>

\* _kill_if_alive, which nobody cancels.
KillerFires ==
  /\ Running /\ killer
  /\ killer' = FALSE
  /\ qemu' = IF QemuAlive THEN "zombie" ELSE qemu
  /\ victim' = (victim \/ reused)
  /\ UNCHANGED <<callVars, pc, remove, attempts, timer, jobs, signals, reused, side, grace,
                 blame, forced, fsVars>>

\* _send_qmp: a thread connects and asks; errors are swallowed.
QmpThread ==
  /\ Running
  /\ \E j \in jobs :
       /\ jobs' = jobs \ {j}
       /\ \/ UNCHANGED qemu
          \/ j = "powerdown" /\ qemu = "up" /\ qemu' = "asked"
          \/ j = "quit" /\ QemuAlive /\ qemu' = "zombie"
  /\ UNCHANGED <<callVars, pc, remove, attempts, timer, killer, signals, reused, side,
                 grace, blame, forced, fsVars, victim>>

-----------------------------------------------------------------------------
(* _block_until_exit.                                                      *)

\* (Mutant: after the last attempt QEMU is taken for dead.)
LoopWaitGivesUp ==
  /\ pc = "loop"
  /\ IF qemu = "zombie" \/ attempts = 3
     THEN qemu' = (IF qemu = "zombie" THEN "reaped" ELSE qemu) /\ timer' = FALSE
          /\ pc' = "left"
     ELSE pc' = "check" /\ UNCHANGED <<qemu, timer>>
  /\ UNCHANGED <<callVars, remove, attempts, killer, jobs, signals, reused, side, grace,
                 blame, forced, fsVars, victim>>

\* waitpid: QEMU is collected, the loop is left and the timer cancelled; or
\* it runs, and the sidecars are looked at.
LoopWait ==
  /\ pc = "loop"
  /\ IF qemu = "zombie"
     THEN qemu' = "reaped" /\ timer' = FALSE /\ pc' = "left"
     ELSE pc' = "check" /\ UNCHANGED <<qemu, timer>>
  /\ UNCHANGED <<callVars, remove, attempts, killer, jobs, signals, reused, side, grace,
                 blame, forced, fsVars, victim>>

\* Nothing to see, somebody else stops the VM, or a clean exit is young.
LoopGoOn ==
  /\ pc = "check"
  /\ \/ (side \in {"up", "down"} \/ marked) /\ UNCHANGED grace
     \/ side = "clean" /\ ~marked /\ grace \in {"none", "on"} /\ grace' = "on"
  /\ pc' = "loop"
  /\ UNCHANGED <<callVars, remove, sigVars, vmVars, blame, forced, fsVars, victim>>

\* A sidecar has failed: QMP quit and _kill_qemu, which begins with SIGTERM.
LoopBlame ==
  /\ pc = "check" /\ ~marked
  /\ side = "broken" \/ (side = "clean" /\ grace = "over")
  /\ blame' = IF qemu = "zombie" THEN "late" ELSE "alive"
  /\ jobs' = jobs \cup {"quit"}
  /\ pc' = "killing"
  /\ UNCHANGED <<callVars, remove, attempts, timer, killer, signals, vmVars, grace, forced,
                 fsVars, victim>>

\* (Mutant: the loop ends with the kill, without waitpid.)
KillLeaves ==
  /\ pc = "killing"
  /\ pc' = "left" /\ timer' = FALSE
  /\ UNCHANGED <<callVars, remove, attempts, killer, jobs, signals, vmVars, grace, blame,
                 forced, fsVars, victim>>

\* The rest of _kill_qemu.  os.kill(pid, 0) does not fail for a zombie, so
\* that a parent always gets to SIGKILL.
Kill ==
  /\ pc = "killing"
  /\ qemu' = IF QemuAlive THEN "zombie" ELSE qemu
  /\ pc' = IF cmd = "ssh" THEN "cleanup" ELSE "loop"
  /\ remove' = (remove \/ cmd = "ssh")
  /\ UNCHANGED <<callVars, sigVars, reused, side, grace, blame, forced, fsVars, victim>>

\* (Mutant: the finally clause of `run' removes, whatever happened.)
LeftRemoves ==
  /\ pc = "left"
  /\ pc' = IF cmd = "run" /\ blame = "none" THEN "mark" ELSE "cleanup"
  /\ remove' = TRUE
  /\ UNCHANGED <<callVars, sigVars, vmVars, grace, blame, forced, fsVars, victim>>

\* Returns, or raises if a sidecar is to blame.  `launch' removes the
\* directory either way, `run' only at the end of a regular course.
Left ==
  /\ pc = "left"
  /\ pc' = IF cmd = "run" /\ blame = "none" THEN "mark" ELSE "cleanup"
  /\ remove' = (cmd = "launch")
  /\ UNCHANGED <<callVars, sigVars, vmVars, grace, blame, forced, fsVars, victim>>

-----------------------------------------------------------------------------
(* The ends of the commands.                                               *)

\* `run': state stopping.  The write raises if the directory is gone.
RunMark ==
  /\ pc = "mark"
  /\ IF dir THEN marked' = TRUE /\ pc' = "sidecars"
            ELSE pc' = "cleanup" /\ UNCHANGED marked
  /\ UNCHANGED <<callVars, remove, sigVars, vmVars, grace, blame, forced, dir, ckpt, victim>>

RunSidecars ==
  /\ pc = "sidecars"
  /\ side' = "down"
  /\ pc' = IF save THEN "save" ELSE "cleanup"
  /\ remove' = ~save
  /\ UNCHANGED <<callVars, sigVars, qemu, reused, grace, blame, forced, fsVars, victim>>

\* checkpointing, create_checkpoint, checkpointed: any of them may raise.
RunSave ==
  /\ pc = "save"
  /\ \/ dir /\ ckpt' = TRUE /\ remove' \in BOOLEAN
     \/ UNCHANGED <<ckpt, remove>>
  /\ pc' = "cleanup"
  /\ UNCHANGED <<callVars, sigVars, vmVars, grace, blame, forced, marked, dir, victim>>

\* The finally clauses, and the end of `launch --ssh'.
Cleanup ==
  /\ pc = "cleanup"
  /\ side' = "down"
  /\ dir' = (dir /\ ~remove)
  /\ pc' = "ended"
  /\ UNCHANGED <<callVars, remove, sigVars, qemu, reused, grace, blame, forced, marked,
                 ckpt, victim>>

\* `launch --ssh': the ssh client returns.
SshEnds ==
  /\ pc = "session"
  /\ pc' = "ask"
  /\ UNCHANGED <<callVars, remove, sigVars, vmVars, grace, blame, forced, fsVars, victim>>

\* _graceful_shutdown: the powerdown is asked for, or QMP fails.
SshAsk ==
  /\ pc = "ask"
  /\ \/ QemuAlive /\ qemu' = "asked" /\ pc' = "poll"
     \/ pc' = "killing" /\ UNCHANGED qemu
  /\ UNCHANGED <<callVars, remove, sigVars, reused, side, grace, blame, forced, fsVars,
                 victim>>

\* Wait until the process is gone or the time is up, then force it.
SshPoll ==
  /\ pc = "poll"
  /\ IF qemu = "reaped"
     THEN pc' = "cleanup" /\ remove' = TRUE /\ UNCHANGED forced
     ELSE pc' = "killing" /\ forced' = qemu /\ UNCHANGED remove
  /\ UNCHANGED <<callVars, sigVars, vmVars, grace, blame, fsVars, victim>>

-----------------------------------------------------------------------------
(* The world outside.                                                      *)

\* The guest shuts down, or QEMU fails.
QemuExits ==
  /\ QemuAlive
  /\ qemu' = "zombie"
  /\ UNCHANGED <<callVars, pc, remove, sigVars, reused, side, grace, blame, forced, fsVars,
                 victim>>

\* A sidecar exits, by itself or because QEMU has left.
SidecarExits ==
  /\ SidecarsDie \/ ~QemuAlive
  /\ side = "up" /\ side' \in {"clean", "broken"}
  /\ UNCHANGED <<callVars, pc, remove, sigVars, qemu, reused, grace, blame, forced, fsVars,
                 victim>>

GraceEnds ==
  /\ grace = "on" /\ grace' = "over"
  /\ UNCHANGED <<callVars, pc, remove, sigVars, vmVars, blame, forced, fsVars, victim>>

Reuse ==
  /\ qemu = "reaped" /\ ~reused
  /\ reused' = TRUE
  /\ UNCHANGED <<callVars, pc, remove, sigVars, qemu, side, grace, blame, forced, fsVars,
                 victim>>

\* `vmocs stop' marks vm.json and, after QEMU has exited, removes the directory.
OtherMarks ==
  /\ OtherStop /\ dir /\ ~marked
  /\ marked' = TRUE
  /\ UNCHANGED <<callVars, pc, remove, sigVars, vmVars, grace, blame, forced, dir, ckpt,
                 victim>>

OtherRemoves ==
  /\ OtherStop /\ dir /\ marked /\ ~QemuAlive
  /\ dir' = FALSE
  /\ UNCHANGED <<callVars, pc, remove, sigVars, vmVars, grace, blame, forced, marked, ckpt,
                 victim>>

Main ==
  \/ LoopWait \/ LoopGoOn \/ LoopBlame \/ Kill \/ Left
  \/ RunMark \/ RunSidecars \/ RunSave \/ Cleanup
  \/ SshEnds \/ SshAsk \/ SshPoll

Next ==
  \/ Main
  \/ Signal \/ Die \/ TimerFires \/ KillerFires \/ QmpThread
  \/ QemuExits \/ SidecarExits \/ GraceEnds \/ Reuse \/ OtherMarks \/ OtherRemoves

Spec == Init /\ [][Next]_vars

\* The main thread runs and timers fire.
FairSpec ==
  Spec /\ WF_vars(Main) /\ WF_vars(TimerFires) /\ WF_vars(KillerFires)

-----------------------------------------------------------------------------
(* Properties.                                                             *)

\* The disk is copied only when QEMU has been collected and no sidecar
\* serves it any more, however the loop was left.
CopyAfterExit == pc = "save" => qemu = "reaped" /\ side = "down"

\* A command that returns leaves no QEMU and no sidecar behind.
NothingOutlives ==
  pc = "ended" => ~QemuAlive /\ side = "down"

\* `run --save' removes the disk only after the checkpoint is there: a failed
\* save, a failed sidecar, a raised write or a stop beside it keep it.
DiskKeptUntilSaved ==
  pc \in {"cleanup", "ended"} /\ save /\ remove => ckpt

\* What `run --save' promises of the disk, from QEMU's exit to its removal.
SaveIsSafe == CopyAfterExit /\ DiskKeptUntilSaved

\* One signal is enough: whatever the guest does with the powerdowns and
\* whether QMP answers or not, the command ends.
SignalEnds == (attempts > 0) ~> (pc = "ended")

\* A sidecar failure under `run --attach none' is cleaned up, as
\* run-sidecar-failure.sh tests.  Does not hold: the directory stays.
FailureCleansUp == pc = "ended" /\ blame # "none" => ~dir

\* "A sidecar exit [...] after QEMU closes its socket, is expected and should
\* not turn a clean VM shutdown into a failure."  Does not hold for one that
\* is seen between QEMU's exit and waitpid.
NoLateBlame == blame # "late"

\* "Falls back to SIGTERM if the QMP socket is gone or the guest doesn't shut
\* down within timeout seconds": not when the guest has shut down.  Does not
\* hold: the parent sees a zombie.
ForcesOnlyTheUnwilling == forced # "zombie"

\* "Never signal an unverified, reused PID."  Does not hold: the kill timer
\* and the signal handler outlive QEMU.
NoVictim == ~victim
=============================================================================
