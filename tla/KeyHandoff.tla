----------------------------- MODULE KeyHandoff ------------------------------
(***************************************************************************)
(* How launch_vm hands a Windows guest over from the bootstrap SSH key that *)
(* every Vagrant box accepts to the key of this launch                      *)
(* (_rotate_windows_vagrant_key and _verify_windows_ssh_handoff): a script  *)
(* in the guest replaces the key file, prints a marker and schedules a      *)
(* reboot.  Replacing the file does not end the sessions that the old key   *)
(* has opened; the reboot does, so the host must know that a reboot came    *)
(* after the replacement.  It learns of reboots through QMP events, which   *)
(* arrive late, and of the replacement through ssh, which may lose it.      *)
(*                                                                         *)
(* What the guest writes reaches its disk at the latest with a flush; a     *)
(* reset may take back what was not flushed.  A script goes on after the    *)
(* ssh client that started it has given up.  Timeouts may expire at any     *)
(* moment.                                                                 *)
(***************************************************************************)
EXTENDS Naturals, Sequences

CONSTANTS
  MaxAttempts,    \* bound on the attempts to rotate
  MaxResets       \* bound on the resets of the guest by itself

ASSUME HandoffAssumption == MaxAttempts \in Nat /\ MaxResets \in Nat

Attempts == 1..MaxAttempts
Keys == {"bootstrap", "none", "ephemeral"}
Messages == {"guest-reset", "host-reset", "reply"}

VARIABLES
  pc,             \* launch_vm
  n,              \* attempts begun
  marker,         \* has this attempt's ssh printed the marker?
  exited,         \* did it end with the script's own status?
  reboot,         \* reboot_observed
  forced,         \* forced_reset_observed
  replied,        \* has the answer to the barrier command arrived?
  pending,        \* has QEMU accepted a system_reset that is still to come?
  queue,          \* QMP messages that the reader thread has not dispatched
  up,             \* does the guest's sshd answer?
  auth,           \* the key it accepts
  stored,         \* the key that is on the guest's disk
  script,         \* the rotation script of each attempt, in the guest
  others,         \* is a session open that the bootstrap key has opened?
  resets,         \* resets of the guest by itself
  newer           \* has the guest been reset since reboot_observed was first cleared?

hostVars == <<pc, n, marker, exited>>
eventVars == <<reboot, forced, replied>>
guestVars == <<up, auth, stored, script, others>>
vars == <<hostVars, eventVars, pending, queue, guestVars, resets, newer>>

\* The script is at work in the guest.
AtWork == {"run", "truncated", "written", "flushed"}
Rotated == {"rotated", "prove", "disprove", "reconfirm", "done"}

\* The type invariant.
TypeOK ==
  /\ pc \in {"pin", "clear", "try", "ssh", "result", "barrier", "reply", "await", "relogin",
             "probe", "lostBarrier", "lostReply", "force", "hostWait", "failed"} \cup Rotated
  /\ n \in 0..MaxAttempts /\ marker \in BOOLEAN /\ exited \in BOOLEAN
  /\ reboot \in BOOLEAN /\ forced \in BOOLEAN /\ replied \in BOOLEAN
  /\ pending \in BOOLEAN /\ queue \in Seq(Messages)
  /\ up \in BOOLEAN /\ auth \in Keys /\ stored \in Keys
  /\ script \in [Attempts -> AtWork \cup {"none", "ended", "failed"}]
  /\ others \in BOOLEAN /\ resets \in 0..MaxResets /\ newer \in BOOLEAN

Init ==
  /\ pc = "pin" /\ n = 0 /\ marker = FALSE /\ exited = FALSE
  /\ reboot = FALSE /\ forced = FALSE /\ replied = FALSE
  /\ pending = FALSE /\ queue = <<>>
  /\ up = FALSE /\ auth = "bootstrap" /\ stored = "bootstrap"
  /\ script = [a \in Attempts |-> "none"]
  /\ others = FALSE /\ resets = 0 /\ newer = FALSE

-----------------------------------------------------------------------------
(* The guest, QEMU and the reader thread of the monitor.                   *)

\* sshd is up.
GuestBoots ==
  /\ ~up /\ up' = TRUE
  /\ UNCHANGED <<hostVars, eventVars, pending, queue, auth, stored, script, others, resets,
                 newer>>

\* Somebody logs in with the bootstrap key.
OtherLogin ==
  /\ up /\ auth = "bootstrap" /\ ~others
  /\ others' = TRUE
  /\ UNCHANGED <<hostVars, eventVars, pending, queue, up, auth, stored, script, resets, newer>>

\* A reset ends every session and script, and keeps what was flushed; QEMU
\* announces it.
Reset(message) ==
  /\ up' = FALSE /\ others' = FALSE
  /\ \E k \in {stored, auth} : auth' = k /\ stored' = k
  /\ script' = [a \in Attempts |-> IF script[a] \in AtWork THEN "failed" ELSE script[a]]
  /\ queue' = Append(queue, message)

\* The guest restarts: the scheduled reboot, or one of its own.
GuestReset ==
  /\ resets < MaxResets /\ resets' = resets + 1
  /\ Reset("guest-reset") /\ newer' = TRUE
  /\ UNCHANGED <<hostVars, eventVars, pending>>

\* QEMU carries out system_reset.
HostReset ==
  /\ pending /\ pending' = FALSE
  /\ Reset("host-reset")
  /\ UNCHANGED <<hostVars, eventVars, resets, newer>>

\* _observe_rotation_reboot, or the answer to a command: in order.
Dispatch ==
  /\ queue # <<>> /\ queue' = Tail(queue)
  /\ reboot' = (reboot \/ Head(queue) = "guest-reset")
  /\ forced' = (forced \/ Head(queue) = "host-reset")
  /\ replied' = (replied \/ Head(queue) = "reply")
  /\ UNCHANGED <<hostVars, pending, guestVars, resets, newer>>

\* A step of a script.
ScriptStep(a, from, to) ==
  /\ script[a] = from
  /\ script' = [script EXCEPT ![a] = to]
  /\ UNCHANGED <<eventVars, pending, queue, up, others, resets, newer, pc, n, exited>>

\* The file is opened for truncation, ...
ScriptTruncates(a) ==
  /\ ScriptStep(a, "run", "truncated")
  /\ auth' = "none" /\ UNCHANGED <<stored, marker>>

\* ... the key is written, ...
ScriptWrites(a) ==
  /\ ScriptStep(a, "truncated", "written")
  /\ auth' = "ephemeral" /\ UNCHANGED <<stored, marker>>

\* ... flushed and read back, ...
ScriptFlushes(a) ==
  /\ ScriptStep(a, "written", "flushed")
  /\ stored' = auth /\ UNCHANGED <<auth, marker>>

\* ... and the marker printed, which only an ssh that is still there receives.
ScriptMarks(a) ==
  /\ ScriptStep(a, "flushed", "ended")
  /\ auth = "ephemeral"
  /\ marker' \in {marker, marker \/ (pc = "ssh" /\ a = n)}
  /\ UNCHANGED <<auth, stored>>

\* The script throws: exit 88.
ScriptFails(a) ==
  /\ script[a] \in AtWork
  /\ script' = [script EXCEPT ![a] = "failed"]
  /\ UNCHANGED <<hostVars, eventVars, pending, queue, up, auth, stored, others, resets, newer>>

Guest ==
  \/ GuestBoots \/ OtherLogin \/ GuestReset \/ HostReset \/ Dispatch
  \/ \E a \in Attempts : \/ ScriptTruncates(a) \/ ScriptWrites(a) \/ ScriptFlushes(a)
                         \/ ScriptMarks(a) \/ ScriptFails(a)

-----------------------------------------------------------------------------
(* launch_vm.                                                              *)

worldVars == <<pending, queue, guestVars, resets>>

\* A step of launch_vm that changes nothing else.
Step(from, to) ==
  /\ pc = from /\ pc' = to
  /\ UNCHANGED <<n, marker, exited, eventVars, worldVars, newer>>

\* A key login: wait_for_ssh and the probes of the verification.  A transport
\* error says nothing about the key.
Accepts(key) == up /\ auth = key

\* Every wait has a deadline and every command may fail; launch_vm then
\* raises and ends the VM.
GiveUp ==
  /\ pc \notin {"ssh", "result", "clear", "done", "failed"}
  /\ pc' = "failed"
  /\ UNCHANGED <<n, marker, exited, eventVars, worldVars, newer>>

\* _capture_ssh_host_keys, and the status check after it.
CaptureHostKeys == up /\ Step("pin", "clear")

\* The events of the boot are discarded.
ClearEvents ==
  /\ pc = "clear" /\ pc' = "try"
  /\ reboot' = FALSE /\ newer' = FALSE
  /\ UNCHANGED <<n, marker, exited, forced, replied, worldVars>>

\* An attempt: ssh with the bootstrap key starts the script, or fails.
Attempt ==
  /\ pc = "try" /\ n < MaxAttempts
  /\ n' = n + 1 /\ marker' = FALSE /\ exited' = FALSE
  /\ pc' = "ssh"
  /\ \/ Accepts("bootstrap") /\ script' = [script EXCEPT ![n + 1] = "run"]
     \/ UNCHANGED script
  /\ UNCHANGED <<eventVars, pending, queue, up, auth, stored, others, resets, newer>>

\* ssh returns: with the script's status (and then with all of its output), or
\* because it was cut off, refused or timed out.
SshReturns ==
  /\ pc = "ssh" /\ pc' = "result"
  /\ exited' \in BOOLEAN
  /\ exited' => script[n] = "failed" \/ (script[n] = "ended" /\ marker)
  /\ UNCHANGED <<n, marker, eventVars, worldVars, newer>>

\* What it printed decides, then what QMP has reported, then its status.
Judge ==
  /\ pc = "result"
  /\ pc' = CASE marker             -> "barrier"
             [] ~marker /\ reboot  -> "probe"
             [] ~marker /\ ~reboot -> IF exited THEN "failed" ELSE "try"
  /\ UNCHANGED <<n, marker, exited, eventVars, worldVars, newer>>

\* qmp_barrier: query-status, whose answer comes after all earlier events.
Barrier(from, to) ==
  /\ pc = from /\ pc' = to
  /\ queue' = Append(queue, "reply") /\ replied' = FALSE
  /\ UNCHANGED <<n, marker, exited, reboot, forced, pending, guestVars, resets, newer>>

\* (Mutant: no barrier.)
SendBarrierNot ==
  /\ pc = "barrier" /\ pc' = "reply"
  /\ replied' = TRUE
  /\ UNCHANGED <<n, marker, exited, reboot, forced, worldVars, newer>>

SendBarrier == Barrier("barrier", "reply")

\* The answer is there; only a later reset counts.
PassBarrier ==
  /\ pc = "reply" /\ replied /\ pc' = "await"
  /\ reboot' = FALSE
  /\ UNCHANGED <<n, marker, exited, forced, replied, worldVars, newer>>

AwaitReboot == reboot /\ Step("await", "relogin")

\* The new key after the reset that counted.
LoginAfterReset == Accepts("ephemeral") /\ Step("relogin", "rotated")

\* The marker was lost.  The new key is accepted, so it was installed; ...
ProbeLostMarker == Accepts("ephemeral") /\ Step("probe", "lostBarrier")

\* (Mutant: the guest's own reset is trusted.)
SendLostBarrierTrusting == Step("lostBarrier", "relogin")

\* ... a second barrier, ...
SendLostBarrier == Barrier("lostBarrier", "lostReply")

PassLostBarrier ==
  /\ pc = "lostReply" /\ replied /\ pc' = "force"
  /\ forced' = FALSE
  /\ UNCHANGED <<n, marker, exited, reboot, replied, worldVars, newer>>

\* ... a reset of the host's own, ...
ForceReset ==
  /\ pc = "force" /\ pc' = "hostWait"
  /\ pending' = TRUE
  /\ UNCHANGED <<n, marker, exited, eventVars, queue, guestVars, resets, newer>>

\* ... and its event.
AwaitHostReset == forced /\ Step("hostWait", "relogin")

\* The monitor is closed; wait_for_ssh once more.
WaitForSsh == Accepts("ephemeral") /\ Step("rotated", "prove")

\* _verify_windows_ssh_handoff: new key, old key, new key.
ProveEphemeral == Accepts("ephemeral") /\ Step("prove", "disprove")
RejectBootstrap == up /\ auth # "bootstrap" /\ Step("disprove", "reconfirm")
Reconfirm == Accepts("ephemeral") /\ Step("reconfirm", "done")

Host ==
  \/ GiveUp \/ CaptureHostKeys \/ ClearEvents \/ Attempt \/ SshReturns \/ Judge
  \/ SendBarrier \/ PassBarrier \/ AwaitReboot \/ LoginAfterReset
  \/ ProbeLostMarker \/ SendLostBarrier \/ PassLostBarrier \/ ForceReset \/ AwaitHostReset
  \/ WaitForSsh \/ ProveEphemeral \/ RejectBootstrap \/ Reconfirm

Next == Guest \/ Host

Spec == Init /\ [][Next]_vars

-----------------------------------------------------------------------------
(* Properties.                                                             *)

(***************************************************************************)
(* "This causally revokes every session authenticated with the old key":    *)
(* once the rotation has returned, on either path, no session opened with   *)
(* the bootstrap key is left and the guest accepts the launch's key only,   *)
(* now and after any further reset.                                        *)
(***************************************************************************)
HandoffRevokes ==
  pc \in Rotated => ~others /\ auth = "ephemeral" /\ stored = "ephemeral"

(***************************************************************************)
(* No script of an attempt that the host gave up on is still at work in the *)
(* guest then, where it would truncate the key file under the session.      *)
(***************************************************************************)
NoScriptOutlives ==
  pc \in Rotated => \A a \in Attempts : script[a] \notin AtWork

(***************************************************************************)
(* "The event is newer than clear() above" (launch.py, where a reset is     *)
(* observed but no marker): the guest was reset after the clear.  Does not  *)
(* hold: nothing has emptied the event stream before the clear.            *)
(***************************************************************************)
ObservedResetIsNewer == pc = "probe" => newer
=============================================================================
