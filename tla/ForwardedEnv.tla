---------------------------- MODULE ForwardedEnv -----------------------------
(***************************************************************************)
(* How `run --forward-env` brings values into the guest                     *)
(* (run_attached_session with forwarded_env).  One ssh connection stages    *)
(* them in a directory of the guest, a second one runs a launcher that      *)
(* reads them, removes the directory and starts the command; for a Windows  *)
(* guest a third one removes what may be left.  The scripts belong to the   *)
(* guest: one whose connection was lost, or whose client has timed out,     *)
(* goes on beside those that follow.  A POSIX guest stages in tmpfs, a      *)
(* Windows guest on the disk that a checkpoint would copy, so that vmocs    *)
(* must also refuse every checkpoint of that VM, even the one that a stop   *)
(* in another process asks for.                                             *)
(*                                                                         *)
(* What the escalation that stops QEMU does, and the removal of the runtime *)
(* directory, are in Lifecycle: here they are one step.                     *)
(***************************************************************************)
EXTENDS Naturals, FiniteSets

CONSTANTS
  MaxStages,      \* bound on the attempts to run the command
  MaxCuts,        \* bound on the ssh connections that are lost
  MaxResets,      \* bound on the resets of the guest
  Undo            \* may a reset take back a removal that was not yet on the guest's disk?

ASSUME ForwardAssumption ==
  /\ MaxStages \in Nat \ {0} /\ MaxCuts \in Nat /\ MaxResets \in Nat /\ Undo \in BOOLEAN

Stages == 1..MaxStages

VARIABLES
  style,          \* ssh_command_style
  tty,            \* does the session have a terminal?
  pc,             \* run, launch_vm and run_attached_session
  n,              \* attempts begun
  staged,         \* the stages that _stage_forwarded_env has returned
  pending,        \* pending_windows_stages
  todo,           \* the stages still to be cleaned before the session goes on
  goal,           \* where it goes on then
  lost,           \* has the command's ssh ended with 255?
  signalled,      \* stop_event
  blocked,        \* has this session's metadata a checkpoint_blocked_reason?
  vmjson,         \* has vm.json? "absent" when there is no vm.json
  saver,          \* a `stop --save` in another process
  qemu, up,       \* is QEMU alive? does the guest's sshd answer?
  store,          \* what each stage's directory in the guest holds
  stager, launcher, \* the scripts of each stage, in the guest
  cleaner,        \* the cleanup script that the session waits for
  late,           \* stages with a cleanup script that nobody waits for
  tainted,        \* has a value ever been on the guest's disk?
  published,      \* has a checkpoint of that disk been published?
  cuts, resets

session == <<n, staged, pending, todo, goal, lost>>
host == <<pc, session, signalled, blocked, vmjson>>
guest == <<up, store, stager, launcher, cleaner, late, tainted>>
fixed == <<style, tty>>
saving == <<saver, published>>
bounds == <<cuts, resets>>
vars == <<fixed, host, saving, qemu, guest, bounds>>

Windows == style = "windows"
Gone == {"none", "deleted"}
StagerAtWork == {"begin", "made", "copy", "closed"}
LauncherAtWork == {"begin", "open", "read", "emptied", "ready", "started"}
Idle == [stage |-> 0, at |-> "idle"]
InSession == {"stage", "staging", "run", "running", "cleanup", "cleaning", "judge", "reconnect",
              "final", "stop"}
Over == {"done", "killed"}

\* The type invariant.
TypeOK ==
  /\ style \in {"posix", "windows"} /\ tty \in BOOLEAN
  /\ pc \in {"launch", "boot", "begin"} \cup InSession \cup Over
  /\ n \in 0..MaxStages /\ staged \subseteq 1..n /\ pending \subseteq 1..n /\ todo \subseteq 1..n
  /\ goal \in {"judge", "stage", "final", "stop"}
  /\ lost \in BOOLEAN /\ signalled \in BOOLEAN /\ blocked \in BOOLEAN
  /\ vmjson \in {"absent", "open", "blocked"}
  /\ saver \in {"idle", "refused", "stopping", "copying", "ended"}
  /\ qemu \in BOOLEAN /\ up \in BOOLEAN
  /\ store \in [Stages -> {"none", "empty", "partial", "payload", "deleted"}]
  /\ stager \in [Stages -> StagerAtWork \cup {"none", "ok", "failed"}]
  /\ launcher \in [Stages -> LauncherAtWork \cup {"none", "exited", "failed", "cut"}]
  /\ cleaner \in [stage : 0..n, at : {"idle", "check", "partial", "payload", "rmdir", "ok", "failed"}]
  /\ late \subseteq 1..n /\ tainted \in BOOLEAN /\ published \in BOOLEAN
  /\ cuts \in 0..MaxCuts /\ resets \in 0..MaxResets

\* run has checked its options: no --save with Windows forwarding.
Init ==
  /\ style \in {"posix", "windows"} /\ tty \in BOOLEAN
  /\ pc = "launch" /\ n = 0 /\ staged = {} /\ pending = {} /\ todo = {} /\ goal = "judge"
  /\ lost = FALSE /\ signalled = FALSE /\ blocked = FALSE /\ vmjson = "absent"
  /\ saver = "idle" /\ published = FALSE /\ qemu = FALSE /\ up = FALSE
  /\ store = [i \in Stages |-> "none"] /\ stager = [i \in Stages |-> "none"]
  /\ launcher = [i \in Stages |-> "none"] /\ cleaner = Idle /\ late = {}
  /\ tainted = FALSE /\ cuts = 0 /\ resets = 0

-----------------------------------------------------------------------------
(* The guest: what the scripts of session.py do there.                     *)

\* A file of the stage is open with FileShare.None.
Held(i) == \/ store[i] = "partial" /\ stager[i] = "copy"
           \/ store[i] = "payload" /\ launcher[i] = "open"

\* What removals whose errors nobody looks at leave: cleanup() in the POSIX
\* command line of build_ssh_command, the catch blocks of the Windows scripts.
Left(i) == IF store[i] \in Gone THEN {store[i]} ELSE {store[i], "empty", "deleted"}

\* _windows_stage_script, and the command of _stage_posix_forwarded_env: make
\* the directory, copy stdin to a partial file, close it and name it.  A
\* connection that is lost ends stdin like the end of the values does.
StagerStep(i) ==
  /\ \/ /\ stager[i] = "begin" /\ store[i] = "none"
        /\ store' = [store EXCEPT ![i] = "empty"] /\ stager' = [stager EXCEPT ![i] = "made"]
        /\ UNCHANGED tainted
     \/ /\ stager[i] = "made" /\ store[i] = "empty"
        /\ store' = [store EXCEPT ![i] = "partial"] /\ stager' = [stager EXCEPT ![i] = "copy"]
        /\ tainted' = (tainted \/ Windows)
     \/ /\ stager[i] = "copy"
        /\ stager' = [stager EXCEPT ![i] = "closed"] /\ UNCHANGED <<store, tainted>>
     \/ /\ stager[i] = "closed" /\ store[i] = "partial"
        /\ store' = [store EXCEPT ![i] = "payload"] /\ stager' = [stager EXCEPT ![i] = "ok"]
        /\ UNCHANGED tainted
  /\ UNCHANGED <<fixed, host, saving, qemu, up, launcher, cleaner, late, bounds>>

\* One of its steps throws, because of the disk or of a cleanup beside it; the
\* file is closed and removed, as far as that works.  The POSIX script removes
\* nothing when its last command fails.
StagerThrows(i) ==
  /\ stager[i] \in StagerAtWork
  /\ stager' = [stager EXCEPT ![i] = "failed"]
  /\ \E left \in IF stager[i] = "closed" /\ ~Windows THEN {store[i]} ELSE Left(i) :
       store' = [store EXCEPT ![i] = left]
  /\ UNCHANGED <<fixed, host, saving, qemu, up, launcher, cleaner, late, tainted, bounds>>

\* Mutant: the command is started with the values still there.
LauncherStepEarly(i) ==
  /\ \/ launcher[i] = "begin" /\ store[i] = "payload" /\ launcher' = [launcher EXCEPT ![i] = "open"]
     \/ launcher[i] = "open" /\ launcher' = [launcher EXCEPT ![i] = "started"]
  /\ UNCHANGED <<fixed, host, saving, qemu, up, store, stager, cleaner, late, tainted, bounds>>

\* _windows_launch_script, and the POSIX command line of build_ssh_command:
\* open and read the values, close them, remove the file and the directory,
\* then start the command.  Windows goes on only when each removal succeeds,
\* POSIX whatever the two have done.
LauncherStep(i) ==
  /\ \/ /\ launcher[i] = "begin" /\ store[i] = "payload"
        /\ launcher' = [launcher EXCEPT ![i] = "open"] /\ UNCHANGED store
     \/ /\ launcher[i] = "open"
        /\ launcher' = [launcher EXCEPT ![i] = "read"] /\ UNCHANGED store
     \/ /\ launcher[i] = "read" /\ ~Windows
        /\ \E left \in Left(i) : store' = [store EXCEPT ![i] = left]
        /\ launcher' = [launcher EXCEPT ![i] = "ready"]
     \/ /\ launcher[i] = "read" /\ Windows /\ store[i] \notin Gone
        /\ store' = [store EXCEPT ![i] = "empty"]
        /\ launcher' = [launcher EXCEPT ![i] = "emptied"]
     \/ /\ launcher[i] = "emptied" /\ store[i] = "empty"
        /\ store' = [store EXCEPT ![i] = "deleted"]
        /\ launcher' = [launcher EXCEPT ![i] = "ready"]
     \/ /\ launcher[i] = "ready"
        /\ launcher' = [launcher EXCEPT ![i] = "started"] /\ UNCHANGED store
  /\ UNCHANGED <<fixed, host, saving, qemu, up, stager, cleaner, late, tainted, bounds>>

\* A check of the record fails, the files have been taken from under it, or
\* they cannot be read or removed.
LauncherThrows(i) ==
  /\ launcher[i] \in LauncherAtWork \ {"started"}
  /\ launcher' = [launcher EXCEPT ![i] = "failed"]
  /\ \E left \in Left(i) : store' = [store EXCEPT ![i] = left]
  /\ UNCHANGED <<fixed, host, saving, qemu, up, stager, cleaner, late, tainted, bounds>>

\* The command ends.
CommandExits(i) ==
  /\ launcher[i] = "started"
  /\ launcher' = [launcher EXCEPT ![i] = "exited"]
  /\ UNCHANGED <<fixed, host, saving, qemu, up, store, stager, cleaner, late, tainted, bounds>>

\* _windows_cleanup_script, one file at a time; anything that throws, and a
\* directory that is there at the end, is status 1.
CleanerStep ==
  LET i == cleaner.stage
      to(at) == cleaner' = [cleaner EXCEPT !.at = at]
      delete(file, next) ==
        /\ cleaner.at = file
        /\ IF store[i] \in Gone \/ (store[i] = file /\ Held(i))
           THEN to("failed") /\ UNCHANGED store
           ELSE /\ to(next)
                /\ store' = [store EXCEPT ![i] = IF @ = file THEN "empty" ELSE @]
  IN /\ \/ /\ cleaner.at = "check" /\ to(IF store[i] \in Gone THEN "ok" ELSE "partial")
           /\ UNCHANGED store
        \/ delete("partial", "payload")
        \/ delete("payload", "rmdir")
        \/ /\ cleaner.at = "rmdir" /\ to(IF store[i] = "empty" THEN "ok" ELSE "failed")
           /\ store' = [store EXCEPT ![i] = IF @ = "empty" THEN "deleted" ELSE @]
     /\ UNCHANGED <<fixed, host, saving, qemu, up, stager, launcher, late, tainted, bounds>>

\* The same script after its client has timed out: it removes a file, or the
\* directory.
LateCleaner(i) ==
  /\ i \in late /\ store[i] \notin Gone /\ ~Held(i)
  /\ store' = [store EXCEPT ![i] = IF @ = "empty" THEN "deleted" ELSE "empty"]
  /\ UNCHANGED <<fixed, host, saving, qemu, up, stager, launcher, cleaner, late, tainted, bounds>>

\* Whatever runs in the guest ends with it.
ScriptsEnd ==
  /\ stager' = [i \in Stages |-> IF stager[i] \in StagerAtWork THEN "failed" ELSE stager[i]]
  /\ launcher' = [i \in Stages |-> IF launcher[i] \in LauncherAtWork THEN "cut" ELSE launcher[i]]
  /\ cleaner' = IF cleaner.at = "idle" THEN cleaner ELSE [cleaner EXCEPT !.at = "failed"]
  /\ late' = {} /\ up' = FALSE

\* The guest restarts: tmpfs is empty afterwards, the disk is not.
GuestReset ==
  /\ qemu /\ up /\ resets < MaxResets /\ resets' = resets + 1
  /\ ScriptsEnd
  /\ \E back \in SUBSET {i \in Stages : Undo /\ store[i] = "deleted" /\ Windows} :
       store' = [i \in Stages |-> IF i \in back THEN "payload"
                                  ELSE IF Windows THEN store[i] ELSE "none"]
  /\ UNCHANGED <<fixed, host, saving, qemu, tainted, cuts>>

GuestBoots ==
  /\ qemu /\ ~up /\ pc \notin {"launch", "boot"} /\ up' = TRUE
  /\ UNCHANGED <<fixed, host, saving, qemu, store, stager, launcher, cleaner, late, tainted, bounds>>

\* QEMU ends: a poweroff, a crash, or a kill by somebody else.
QemuEnds ==
  /\ qemu /\ pc \notin {"launch", "boot"} /\ qemu' = FALSE /\ ScriptsEnd
  /\ UNCHANGED <<fixed, host, saving, store, tainted, bounds>>

-----------------------------------------------------------------------------
(* The session.                                                            *)

\* Mutant: only the session itself blocks checkpoints.
WriteVmJsonOpen ==
  /\ pc = "launch" /\ pc' = "boot" /\ vmjson' = "open"
  /\ UNCHANGED <<fixed, session, signalled, blocked, saving, qemu, guest, bounds>>

\* run decides the reason and launch_vm writes it with the first vm.json.
WriteVmJson ==
  /\ pc = "launch" /\ pc' = "boot"
  /\ blocked' = Windows /\ vmjson' = IF Windows THEN "blocked" ELSE "open"
  /\ UNCHANGED <<fixed, session, signalled, saving, qemu, guest, bounds>>

\* QEMU runs and the guest answers.
Boot ==
  /\ pc = "boot" /\ pc' = "begin" /\ qemu' = TRUE /\ up' = TRUE
  /\ UNCHANGED <<fixed, session, signalled, blocked, vmjson, saving, store, stager, launcher,
                 cleaner, late, tainted, bounds>>

\* run_attached_session blocks checkpoints itself when its caller has not.
SessionBegin ==
  /\ pc = "begin" /\ pc' = "stage"
  /\ blocked' = (blocked \/ Windows)
  /\ vmjson' = IF blocked' # blocked THEN "blocked" ELSE vmjson
  /\ UNCHANGED <<fixed, session, signalled, saving, qemu, guest, bounds>>

\* Visit the stages in stages, one cleanup each, and go on at next.
Clean(stages, next) ==
  /\ todo' = stages /\ goal' = next
  /\ pc' = IF stages = {} THEN next ELSE "cleanup"

\* _stage_forwarded_env: start the ssh that stages the values ...
Stage ==
  /\ pc = "stage" /\ n < MaxStages /\ n' = n + 1
  /\ \/ /\ up /\ pc' = "staging" /\ stager' = [stager EXCEPT ![n'] = "begin"]
        /\ UNCHANGED <<todo, goal>>
     \/ Clean(IF Windows THEN {n'} ELSE {}, "final") /\ UNCHANGED stager
  /\ UNCHANGED <<fixed, staged, pending, lost, signalled, blocked, vmjson, saving, qemu, up, store,
                 launcher, cleaner, late, tainted, bounds>>

\* ... it succeeds ...
StageOk ==
  /\ pc = "staging" /\ stager[n] = "ok" /\ pc' = "run"
  /\ staged' = staged \cup {n}
  /\ pending' = IF Windows THEN pending \cup {n} ELSE pending
  /\ UNCHANGED <<fixed, n, todo, goal, lost, signalled, blocked, vmjson, saving, qemu, guest, bounds>>

\* An ssh connection is lost, before or after its script has ended.
Cut == cuts < MaxCuts /\ cuts' = cuts + 1

\* ... or fails, by its own status or because the connection is lost: a
\* Windows stage is cleaned, and the session ends.
StageFails ==
  /\ pc = "staging" /\ ((stager[n] = "failed" /\ UNCHANGED cuts) \/ Cut)
  /\ Clean(IF Windows THEN {n} ELSE {}, "final")
  /\ UNCHANGED <<fixed, n, staged, pending, lost, signalled, blocked, vmjson, saving, qemu, guest,
                 resets>>

\* _run_ssh: start the ssh that runs the launcher ...
Run ==
  /\ pc = "run"
  /\ IF up THEN /\ launcher' = [launcher EXCEPT ![n] = "begin"] /\ pc' = "running"
                /\ UNCHANGED <<todo, goal, lost>>
           ELSE /\ lost' = TRUE /\ Clean(IF Windows THEN {n} ELSE {}, "judge")
                /\ UNCHANGED launcher
  /\ UNCHANGED <<fixed, n, staged, pending, signalled, blocked, vmjson, saving, qemu, up, store,
                 stager, cleaner, late, tainted, bounds>>

\* Mutant: ... while it does not look for a signal ...
RunEndsDeaf ==
  /\ pc = "running" /\ launcher[n] \in {"exited", "failed", "cut"}
  /\ lost' = (launcher[n] = "cut") /\ Clean(IF Windows THEN {n} ELSE {}, "judge")
  /\ UNCHANGED <<fixed, n, staged, pending, signalled, blocked, vmjson, saving, qemu, guest, bounds>>

\* ... until it ends: with the launcher's status, with 255, or because the
\* session was signalled and terminates it.  Then the stage is cleaned.
RunEnds ==
  /\ pc = "running"
  /\ \/ launcher[n] \in {"exited", "failed"} /\ lost' = FALSE /\ UNCHANGED cuts
     \/ launcher[n] = "cut" /\ lost' = TRUE /\ UNCHANGED cuts
     \/ Cut /\ lost' = TRUE
     \/ signalled /\ lost' = FALSE /\ UNCHANGED cuts
  /\ Clean(IF Windows THEN {n} ELSE {}, "judge")
  /\ UNCHANGED <<fixed, n, staged, pending, signalled, blocked, vmjson, saving, qemu, guest, resets>>

\* _cleanup_windows_forwarded_env: start the cleanup's ssh for one stage ...
CleanupStart ==
  /\ pc = "cleanup" /\ up
  /\ \E i \in todo : cleaner' = [stage |-> i, at |-> "check"]
  /\ pc' = "cleaning"
  /\ UNCHANGED <<fixed, session, signalled, blocked, vmjson, saving, qemu, up, store, stager,
                 launcher, late, tainted, bounds>>

\* Mutant: ... whatever its status.
CleanedAnyway(i, ok) ==
  /\ pending' = pending \ {i}
  /\ todo' = todo \ {i} /\ pc' = IF todo' = {} THEN goal ELSE "cleanup"

\* The stage is forgotten only after status 0 (it was pending, or becomes so
\* with _WindowsStageCleanupPending).
Cleaned(i, ok) ==
  /\ pending' = IF ok THEN pending \ {i} ELSE pending \cup {i}
  /\ todo' = todo \ {i} /\ pc' = IF todo' = {} THEN goal ELSE "cleanup"

\* ... and take its status ...
CleanupEnds ==
  /\ pc = "cleaning" /\ cleaner.at \in {"ok", "failed"}
  /\ Cleaned(cleaner.stage, cleaner.at = "ok") /\ cleaner' = Idle
  /\ UNCHANGED <<fixed, n, staged, goal, lost, signalled, blocked, vmjson, saving, qemu, up, store,
                 stager, launcher, late, tainted, bounds>>

\* ... or fail: no connection, a lost one, or 15 seconds have passed.
CleanupFails ==
  /\ \/ /\ pc = "cleanup" /\ ~up
        /\ \E i \in todo : Cleaned(i, FALSE)
        /\ UNCHANGED <<cuts, cleaner, late>>
     \/ /\ pc = "cleaning" /\ Cut /\ Cleaned(cleaner.stage, FALSE)
        /\ cleaner' = Idle
        /\ late' = IF up THEN late \cup {cleaner.stage} ELSE late
  /\ UNCHANGED <<fixed, n, staged, goal, lost, signalled, blocked, vmjson, saving, qemu, up, store,
                 stager, launcher, tainted, resets>>

\* Mutant: a lost connection is reason enough to try again.
JudgeNoTty ==
  /\ pc = "judge" /\ pc' = IF ~signalled /\ qemu /\ lost THEN "reconnect" ELSE "final"
  /\ UNCHANGED <<fixed, session, signalled, blocked, vmjson, saving, qemu, guest, bounds>>

\* What run_attached_session makes of the end of the command's ssh.
Judge ==
  /\ pc = "judge"
  /\ pc' = IF ~signalled /\ qemu /\ tty /\ lost THEN "reconnect" ELSE "final"
  /\ UNCHANGED <<fixed, session, signalled, blocked, vmjson, saving, qemu, guest, bounds>>

\* wait_for_ssh finds the guest again: clean what is pending and start over,
\* with values staged anew.
Reconnect ==
  /\ pc = "reconnect" /\ up /\ n < MaxStages /\ Clean(pending, "stage")
  /\ UNCHANGED <<fixed, n, staged, pending, lost, signalled, blocked, vmjson, saving, qemu, guest,
                 bounds>>

\* It is told to stop, or reconnect_timeout passes.
ReconnectFails ==
  /\ pc = "reconnect" /\ pc' = "final"
  /\ UNCHANGED <<fixed, session, signalled, blocked, vmjson, saving, qemu, guest, bounds>>

\* The finally block: a last cleanup of what is pending ...
Final ==
  /\ pc = "final" /\ Clean(pending, "stop")
  /\ UNCHANGED <<fixed, n, staged, pending, lost, signalled, blocked, vmjson, saving, qemu, guest,
                 bounds>>

\* ... then stop the VM and remove its runtime directory.
StopVm ==
  /\ pc = "stop" /\ pc' = "done" /\ qemu' = FALSE /\ vmjson' = "absent" /\ ScriptsEnd
  /\ UNCHANGED <<fixed, session, signalled, blocked, saving, store, tainted, bounds>>

\* _on_signal
Signal ==
  /\ pc \in InSession /\ ~signalled /\ signalled' = TRUE
  /\ UNCHANGED <<fixed, pc, session, blocked, vmjson, saving, qemu, guest, bounds>>

\* The session is killed; its VM stays until a stop comes.
Kill ==
  /\ pc \in InSession /\ pc' = "killed"
  /\ UNCHANGED <<fixed, session, signalled, blocked, vmjson, saving, qemu, guest, bounds>>

-----------------------------------------------------------------------------
(* stop --save in another process.                                         *)

\* teardown_vm reads vm.json, once, and may refuse.
SaveRead ==
  /\ saver = "idle" /\ vmjson # "absent" /\ pc \notin {"launch", "boot"}
  /\ saver' = IF vmjson = "blocked" THEN "refused" ELSE "stopping"
  /\ UNCHANGED <<fixed, host, published, qemu, guest, bounds>>

\* Its shutdown of QEMU ...
SaveStops ==
  /\ saver = "stopping" /\ saver' = "copying" /\ qemu' = FALSE /\ ScriptsEnd
  /\ UNCHANGED <<fixed, host, published, store, tainted, bounds>>

\* ... and create_checkpoint, which fails when the disk is gone.
SaveCopies ==
  /\ saver = "copying" /\ saver' = "ended" /\ published' = (pc # "done")
  /\ UNCHANGED <<fixed, host, qemu, guest, bounds>>

Done == pc \in Over /\ ~qemu /\ UNCHANGED vars

SessionStep ==
  \/ WriteVmJson \/ Boot \/ SessionBegin \/ Stage \/ StageOk \/ StageFails \/ Run \/ RunEnds
  \/ CleanupStart \/ CleanupEnds \/ CleanupFails \/ Judge \/ Reconnect \/ ReconnectFails
  \/ Final \/ StopVm
ScriptStep ==
  \/ CleanerStep
  \/ \E i \in Stages : StagerStep(i) \/ StagerThrows(i) \/ LauncherStep(i) \/ LauncherThrows(i)
Next ==
  \/ SessionStep \/ ScriptStep \/ Signal \/ Kill \/ SaveRead \/ SaveStops \/ SaveCopies
  \/ GuestReset \/ GuestBoots \/ QemuEnds \/ Done
  \/ \E i \in Stages : CommandExits(i) \/ LateCleaner(i)

Spec == Init /\ [][Next]_vars
\* The session and the guest's scripts go on; the command need not end, and
\* the guest need not come back.
FairSpec == Spec /\ WF_vars(SessionStep) /\ WF_vars(ScriptStep)

-----------------------------------------------------------------------------
\* No checkpoint is ever published of a disk on which forwarded values have
\* been, not even by a stop that read vm.json before the session began and
\* even though the values are deleted (checkpoint_blocked_reason in run,
\* launch_vm, teardown_vm; deletion is no secure erasure).
NoForwardedValueSaved == published => ~tainted

\* The session has nothing before it but the last cleanup and the end of the
\* VM (the finally block of run_attached_session), or has been killed.
Leaving ==
  \/ pc \in {"final", "stop"} \cup Over
  \/ pc \in {"cleanup", "cleaning"} /\ goal \in {"final", "stop"}

\* Every stage ever begun that is not in pending_windows_stages is gone from
\* the guest and stays gone, whatever the scripts of earlier connections
\* still do.  The one exception is the latest stage, when its staging has not
\* returned: its ssh is still at work, or it has failed and the session goes
\* on to the end of the VM.  A session that runs a command or comes back to
\* staging leaves nothing behind that it does not list.
ForgottenIsGone ==
  Windows => \A i \in (1..n) \ pending :
               \/ store[i] \in Gone
               \/ i = n /\ i \notin staged /\ (pc = "staging" \/ Leaving)

\* The guest command of a Windows guest runs, and has run, only with its
\* values no longer in the file system, whatever cleanups run beside its
\* launcher.  The POSIX launcher ignores the errors of its removals.
CommandRunsClean ==
  Windows => \A i \in Stages : launcher[i] \in {"started", "exited"} => store[i] \in Gone

\* What run.rst says of every guest: the file "is deleted immediately before
\* the command executes".  Not so where a POSIX launcher's rm fails.
DeletedBeforeCommand ==
  \A i \in Stages : launcher[i] = "started" => store[i] \in Gone

\* The same as ForgottenIsGone without its exception.  A stage whose ssh has
\* failed is dropped when its cleanup finds no directory (session.py, the
\* status of _cleanup_windows_forwarded_env), and its script, still at work
\* in the guest, may make the directory after that.
UnlistedIsGone == Windows /\ pc # "staging" => \A i \in (1..n) \ pending : store[i] \in Gone

\* Without a terminal the command is never replayed, whatever connection was
\* lost and when (run_attached_session).
NeverReplayed == ~tty => Cardinality({i \in Stages : launcher[i] # "none"}) <= 1

\* A session that was signalled ends, wherever it stood (_on_signal,
\* _run_ssh, wait_for_ssh and the loop of run_attached_session).
SignalEnds == signalled ~> pc \in Over
=============================================================================
