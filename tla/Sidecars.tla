------------------------------ MODULE Sidecars -------------------------------
(***************************************************************************)
(* The helper processes of one VM (sidecars.py): the SidecarManager of the  *)
(* launching process starts them, waits until their sockets are there,      *)
(* watches them and stops them; a `vmocs stop' process that has no handles  *)
(* stops them from the identities kept in vm.json (stop_persisted_sidecars).*)
(*                                                                         *)
(* What makes this delicate is the operating system's process table.  A     *)
(* process that has exited keeps its number until its parent has collected  *)
(* it, and the number stays taken as long as its process group has members; *)
(* after that another process may get the number.  Each sidecar is the      *)
(* leader of a group of its own and may start helpers in that group.        *)
(*                                                                         *)
(* SIGTERM leaves a process free to exit or not, which it is anyway, so the *)
(* steps that send it only move on; whom they signal is in the loop index.  *)
(***************************************************************************)
EXTENDS Integers

CONSTANTS
  N,              \* the number of sidecars, started in the order 1..N
  Helpers,        \* may sidecars start helper processes?
  Stopper,        \* may another process run stop_persisted_sidecars?
  Reboots         \* may the host lose power?

ASSUME SidecarsAssumption ==
  /\ N \in Nat \ {0}
  /\ Helpers \in BOOLEAN /\ Stopper \in BOOLEAN /\ Reboots \in BOOLEAN

Sidecar == 1..N

VARIABLES
  leader,         \* each sidecar's process, as the process table has it
  helper,         \* does its group have a live member besides the leader?
  reused,         \* does its number now belong to somebody else?
  twin,           \* ... whose start time is, by accident, the same?
  socket,         \* its socket: "absent", "stale" (of an earlier VM) or "fresh"
  boot,           \* the boot identifier of the host
  pc,             \* the manager
  idx,            \* the handle its current loop is at
  handles,        \* how many handles it has
  live,           \* stop_all: handles that it believes alive
  allReady,       \* _wait_ready: has this sweep found every socket?
  saved,          \* is the list of sidecars in vm.json?
  spc,            \* the stopping process
  known,          \* the items that it has read from vm.json
  verified,       \* the items that it has verified
  sidx            \* the item its current loop is at

osVars == <<leader, helper, reused, twin, socket, boot>>
mgrVars == <<pc, idx, handles, live, allReady, saved>>
stopVars == <<spc, known, verified, sidx>>
vars == <<osVars, mgrVars, stopVars>>

\* "dying": SIGKILL has been sent; "zombie": exited, not collected.
Present == {"live", "dying", "zombie"}

\* The type invariant.
TypeOK ==
  /\ leader \in [Sidecar -> Present \cup {"none", "gone"}]
  /\ helper \in [Sidecar -> BOOLEAN]
  /\ reused \in [Sidecar -> BOOLEAN] /\ twin \in [Sidecar -> BOOLEAN]
  /\ socket \in [Sidecar -> {"absent", "stale", "fresh"}]
  /\ boot \in {0, 1}
  /\ pc \in {"preflight", "start", "ready", "up", "stop", "term", "await", "kill",
             "wait", "stopped", "refused", "crashed"}
  /\ idx \in 0..N + 1 /\ handles \in 0..N
  /\ live \subseteq 1..handles
  /\ allReady \in BOOLEAN /\ saved \in BOOLEAN
  /\ spc \in {"idle", "verify", "term", "await", "kill", "done"}
  /\ known \subseteq Sidecar /\ verified \subseteq known /\ sidx \in 0..N

\* The runtime directory may hold the sockets of an earlier VM of this job.
Init ==
  /\ leader = [s \in Sidecar |-> "none"]
  /\ helper = [s \in Sidecar |-> FALSE]
  /\ reused = [s \in Sidecar |-> FALSE] /\ twin = [s \in Sidecar |-> FALSE]
  /\ socket \in [Sidecar -> {"absent", "stale"}]
  /\ boot = 0
  /\ pc = "preflight" /\ idx = 1 /\ handles = 0
  /\ live = {} /\ allReady = TRUE /\ saved = FALSE
  /\ spc = "idle" /\ known = {} /\ verified = {} /\ sidx = 0

-----------------------------------------------------------------------------
(* The process table.                                                      *)

\* The process table once the manager has polled the handles in S: Popen
\* collects a child that has exited.
Polled(S) == [s \in Sidecar |-> IF s \in S /\ leader[s] = "zombie" THEN "gone"
                                ELSE leader[s]]

\* poll() is None for those of S that are still there.
StillThere(S) == {s \in S : leader[s] \in {"live", "dying"}}

\* os.killpg with SIGKILL.
Killed(s) ==
  /\ leader' = [leader EXCEPT ![s] = IF @ = "live" THEN "dying" ELSE @]
  /\ helper' = [helper EXCEPT ![s] = FALSE]
  /\ UNCHANGED <<reused, twin, socket, boot>>

\* A sidecar listens on its socket; ...
Listen(s) ==
  /\ leader[s] = "live" /\ socket[s] = "absent"
  /\ socket' = [socket EXCEPT ![s] = "fresh"]
  /\ UNCHANGED <<leader, helper, reused, twin, boot, mgrVars, stopVars>>

\* ... starts a helper, which may outlive it; ...
SpawnHelper(s) ==
  /\ Helpers /\ leader[s] = "live" /\ ~helper[s]
  /\ helper' = [helper EXCEPT ![s] = TRUE]
  /\ UNCHANGED <<leader, reused, twin, socket, boot, mgrVars, stopVars>>

HelperExits(s) ==
  /\ helper[s]
  /\ helper' = [helper EXCEPT ![s] = FALSE]
  /\ UNCHANGED <<leader, reused, twin, socket, boot, mgrVars, stopVars>>

\* ... exits by itself, by SIGTERM, or as it must after SIGKILL.  If its
\* parent is gone, init collects it.  It may remove its socket.
Exit(s) ==
  /\ leader[s] \in {"live", "dying"}
  /\ leader' = [leader EXCEPT ![s] = IF pc = "crashed" THEN "gone" ELSE "zombie"]
  /\ socket' \in {socket, [socket EXCEPT ![s] = "absent"]}
  /\ UNCHANGED <<helper, reused, twin, boot, mgrVars, stopVars>>

\* A free number is given to another process.  A start time counts from the
\* boot, so that within one boot no two users of a number share it.
Reuse(s) ==
  /\ leader[s] = "gone" /\ ~helper[s] /\ ~reused[s]
  /\ reused' = [reused EXCEPT ![s] = TRUE]
  /\ \E t \in BOOLEAN :
       /\ t => boot = 1
       /\ twin' = [twin EXCEPT ![s] = t]
  /\ UNCHANGED <<leader, helper, socket, boot, mgrVars, stopVars>>

\* The launching process is killed.  Its children go to init.
Crash ==
  /\ pc \notin {"stopped", "refused", "crashed"}
  /\ pc' = "crashed"
  /\ leader' = [s \in Sidecar |-> IF leader[s] = "zombie" THEN "gone" ELSE leader[s]]
  /\ UNCHANGED <<helper, reused, twin, socket, boot, idx, handles, live, allReady,
                 saved, stopVars>>

\* The host restarts; vm.json survives.  Nobody is in the middle of a stop.
Reboot ==
  /\ Reboots /\ boot = 0 /\ spc = "idle"
  /\ boot' = 1
  /\ pc' = "crashed"
  /\ leader' = [s \in Sidecar |-> IF leader[s] = "none" THEN "none" ELSE "gone"]
  /\ helper' = [s \in Sidecar |-> FALSE]
  /\ reused' = [s \in Sidecar |-> FALSE]
  /\ UNCHANGED <<twin, socket, idx, handles, live, allReady, saved, stopVars>>

System ==
  \/ \E s \in Sidecar : \/ Listen(s) \/ SpawnHelper(s) \/ HelperExits(s)
                        \/ Exit(s) \/ Reuse(s)
  \/ Crash \/ Reboot

-----------------------------------------------------------------------------
(* SidecarManager.                                                         *)

\* preflight_sidecars is outside the try: nothing to roll back.
Preflight ==
  /\ pc = "preflight"
  /\ pc' \in {"start", "refused"}
  /\ UNCHANGED <<osVars, idx, handles, live, allReady, saved, stopVars>>

\* (Mutant: a socket that is there is left alone.)
StartKeepsSocket ==
  /\ pc = "start"
  /\ leader' = [leader EXCEPT ![idx] = "live"]
  /\ handles' = idx
  /\ idx' = IF idx = N THEN 1 ELSE idx + 1
  /\ pc' = IF idx = N THEN "ready" ELSE "start"
  /\ UNCHANGED <<socket, helper, reused, twin, boot, live, allReady, saved, stopVars>>

\* _start: remove what an earlier VM left at the socket path, start the
\* process and keep its handle.
Start ==
  /\ pc = "start"
  /\ socket' = [socket EXCEPT ![idx] = "absent"]
  /\ leader' = [leader EXCEPT ![idx] = "live"]
  /\ handles' = idx
  /\ idx' = IF idx = N THEN 1 ELSE idx + 1
  /\ pc' = IF idx = N THEN "ready" ELSE "start"
  /\ UNCHANGED <<helper, reused, twin, boot, live, allReady, saved, stopVars>>

\* _start raises, before or after it has removed the socket.
StartFails ==
  /\ pc = "start"
  /\ socket' \in {socket, [socket EXCEPT ![idx] = "absent"]}
  /\ pc' = "stop"
  /\ UNCHANGED <<leader, helper, reused, twin, boot, idx, handles, live, allReady,
                 saved, stopVars>>

\* _wait_ready, one handle of a sweep: it has exited, its socket is there,
\* or it is not, in which case the deadline may have passed.  The last one
\* decides whether there is another sweep.
SweepOne ==
  /\ pc = "ready"
  /\ leader' = Polled({idx})
  /\ LET there == idx \in StillThere({idx})
         found == socket[idx] # "absent"
         last  == idx = N
     IN \/ /\ ~there \/ ~found
           /\ pc' = "stop"
           /\ UNCHANGED <<idx, allReady>>
        \/ /\ there
           /\ idx' = IF last THEN 1 ELSE idx + 1
           /\ allReady' = (last \/ (allReady /\ found))
           /\ pc' = IF last /\ allReady /\ found THEN "up" ELSE "ready"
  /\ UNCHANGED <<helper, reused, twin, socket, boot, handles, live, saved, stopVars>>

\* launch_vm records metadata() in vm.json.
Record ==
  /\ pc = "up" /\ ~saved
  /\ saved' = TRUE
  /\ UNCHANGED <<osVars, pc, idx, handles, live, allReady, stopVars>>

\* failure(): polls the handles in order up to the first that has exited.
\* (A supervisor that finds none goes on.)
Failure ==
  /\ pc = "up" /\ saved
  /\ \E s \in Sidecar :
       /\ leader[s] = "zombie" /\ \A r \in 1..s - 1 : leader[r] \in {"live", "dying"}
       /\ leader' = Polled({s})
  /\ pc' = "stop"
  /\ UNCHANGED <<helper, reused, twin, socket, boot, idx, handles, live, allReady, saved,
                 stopVars>>

\* The VM is over, or its launch has failed.
Over ==
  /\ pc = "up"
  /\ pc' = "stop"
  /\ UNCHANGED <<osVars, idx, handles, live, allReady, saved, stopVars>>

\* (Mutant: every handle is signalled.)
StopPollAll ==
  /\ pc = "stop"
  /\ leader' = Polled(1..handles)
  /\ live' = 1..handles
  /\ idx' = handles
  /\ pc' = "term"
  /\ UNCHANGED <<helper, reused, twin, socket, boot, handles, allReady, saved, stopVars>>

\* stop_all: those that have exited are collected and left alone.
StopPoll ==
  /\ pc = "stop"
  /\ leader' = Polled(1..handles)
  /\ live' = StillThere(1..handles)
  /\ idx' = handles
  /\ pc' = "term"
  /\ UNCHANGED <<helper, reused, twin, socket, boot, handles, allReady, saved, stopVars>>

\* SIGTERM to the others' groups, last started first.
StopTerm ==
  /\ pc = "term" /\ idx > 0
  /\ idx' = idx - 1
  /\ UNCHANGED <<osVars, pc, handles, live, allReady, saved, stopVars>>

StopTermEnd ==
  /\ pc = "term" /\ idx = 0
  /\ pc' = "await"
  /\ UNCHANGED <<osVars, idx, handles, live, allReady, saved, stopVars>>

\* Poll until all have exited ...
StopAwait ==
  /\ pc = "await" /\ live # {}
  /\ leader' = Polled(live)
  /\ live' = StillThere(live)
  /\ UNCHANGED <<helper, reused, twin, socket, boot, pc, idx, handles, allReady, saved,
                 stopVars>>

\* ... or the deadline has passed, ...
StopAwaitEnd ==
  /\ pc = "await"
  /\ pc' = "kill" /\ idx' = handles
  /\ UNCHANGED <<osVars, handles, live, allReady, saved, stopVars>>

\* (Mutant: those that did not obey are waited for.)
StopKillNothing ==
  /\ pc = "kill" /\ idx > 0
  /\ UNCHANGED osVars
  /\ idx' = idx - 1
  /\ UNCHANGED <<pc, handles, live, allReady, saved, stopVars>>

\* ... SIGKILL to the groups of those that are left, ...
StopKill ==
  /\ pc = "kill" /\ idx > 0
  /\ IF idx \in live THEN Killed(idx) ELSE UNCHANGED osVars
  /\ idx' = idx - 1
  /\ UNCHANGED <<pc, handles, live, allReady, saved, stopVars>>

StopKillEnd ==
  /\ pc = "kill" /\ idx = 0
  /\ pc' = "wait" /\ idx' = 1
  /\ UNCHANGED <<osVars, handles, live, allReady, saved, stopVars>>

\* ... and wait(timeout=1) for every handle: collected, or not yet.
StopWait ==
  /\ pc = "wait" /\ idx <= handles
  /\ leader' = Polled({idx})
  /\ idx' = idx + 1
  /\ UNCHANGED <<helper, reused, twin, socket, boot, pc, handles, live, allReady, saved,
                 stopVars>>

StopEnd ==
  /\ pc = "wait" /\ idx > handles
  /\ pc' = "stopped"
  /\ UNCHANGED <<osVars, idx, handles, live, allReady, saved, stopVars>>

StopAll ==
  \/ StopPoll \/ StopTerm \/ StopTermEnd \/ StopAwait \/ StopAwaitEnd
  \/ StopKill \/ StopKillEnd \/ StopWait \/ StopEnd

Manager == Preflight \/ Start \/ StartFails \/ SweepOne \/ Record \/ Failure \/ Over
           \/ StopAll

-----------------------------------------------------------------------------
(* stop_persisted_sidecars.                                                *)

\* (Mutant: start times are compared, boots are not.)
MatchesOtherBoot(s) ==
  leader[s] \in Present \/ (reused[s] /\ twin[s])

\* _persisted_process_matches: this boot, and the recorded start time under
\* that number in /proc, where an uncollected child is still listed.
Matches(s) ==
  /\ boot = 0
  /\ leader[s] \in Present \/ (reused[s] /\ twin[s])

\* teardown_vm reads vm.json, which lists no sidecars until launch_vm has
\* recorded them.
PersistedBegin ==
  /\ Stopper /\ spc = "idle"
  /\ known' = IF saved THEN Sidecar ELSE {}
  /\ spc' = "verify"
  /\ UNCHANGED <<osVars, mgrVars, verified, sidx>>

PersistedVerify ==
  /\ spc = "verify"
  /\ verified' = {s \in known : Matches(s)}
  /\ spc' = "term" /\ sidx' = N
  /\ UNCHANGED <<osVars, mgrVars, known>>

PersistedTerm ==
  /\ spc = "term" /\ sidx > 0
  /\ sidx' = sidx - 1
  /\ UNCHANGED <<osVars, mgrVars, spc, known, verified>>

PersistedTermEnd ==
  /\ spc = "term" /\ sidx = 0
  /\ spc' = "await"
  /\ UNCHANGED <<osVars, mgrVars, known, verified, sidx>>

\* Verify again and sleep, ...
PersistedAwait ==
  /\ spc = "await" /\ verified # {}
  /\ verified' = {s \in verified : Matches(s)}
  /\ UNCHANGED <<osVars, mgrVars, spc, known, sidx>>

\* ... until nothing is left or the deadline has passed.
PersistedAwaitEnd ==
  /\ spc = "await"
  /\ spc' = "kill" /\ sidx' = N
  /\ UNCHANGED <<osVars, mgrVars, known, verified>>

\* (Mutant: off by one, the first sidecar is never reached.)
PersistedKillShort ==
  /\ spc = "kill" /\ sidx > 0
  /\ IF sidx \in verified \ {1} THEN Killed(sidx) ELSE UNCHANGED osVars
  /\ sidx' = sidx - 1
  /\ UNCHANGED <<mgrVars, spc, known, verified>>

PersistedKill ==
  /\ spc = "kill" /\ sidx > 0
  /\ IF sidx \in verified THEN Killed(sidx) ELSE UNCHANGED osVars
  /\ sidx' = sidx - 1
  /\ UNCHANGED <<mgrVars, spc, known, verified>>

PersistedEnd ==
  /\ spc = "kill" /\ sidx = 0
  /\ spc' = "done"
  /\ UNCHANGED <<osVars, mgrVars, known, verified, sidx>>

Persisted ==
  \/ PersistedBegin \/ PersistedVerify \/ PersistedTerm \/ PersistedTermEnd
  \/ PersistedAwait \/ PersistedAwaitEnd \/ PersistedKill \/ PersistedEnd

Next == System \/ Manager \/ Persisted

Spec == Init /\ [][Next]_vars

\* The managing process runs, its sleeps and deadlines end, and a process
\* that was sent SIGKILL exits.
FairSpec ==
  /\ Spec
  /\ WF_vars(StopAll) /\ WF_vars(StopAwaitEnd)
  /\ \A s \in Sidecar : WF_vars(leader[s] = "dying" /\ Exit(s))

-----------------------------------------------------------------------------
(* Properties.                                                             *)

\* No signal of stop_all reaches a process that is not this VM's: whoever is
\* next on its list is not a stranger, at whatever moment the signal is sent,
\* because a handle is listed only until it is collected and only the
\* manager collects.
NoStrangerSignalled ==
  pc \in {"term", "kill"} /\ idx \in live => ~reused[idx]

\* "Never signal an unverified, reused PID", of the persisted stop.  Does not
\* hold: the number may change hands between the check and the signal.
PersistedSparesStrangers ==
  spc \in {"term", "kill"} /\ sidx \in verified => ~reused[sidx]

\* When start_all returns, every socket was made by the process that was
\* started for it, never left there by an earlier VM of the job.
ReadyIsFresh ==
  pc = "up" => \A s \in Sidecar : socket[s] # "stale"

\* A launch that failed after k sidecars and a stop that has finished leave
\* no sidecar running without a SIGKILL on its way, and one that has been
\* started is never forgotten.
StopReachesAll ==
  pc \in {"stopped", "refused"} => \A s \in Sidecar : leader[s] # "live"

\* What `vmocs stop' verifies (stop_persisted_sidecars) is the sidecar itself:
\* neither a process that got its number nor, after a restart of the host, one
\* that has the same number and start time.
VerifiedIsOurs ==
  [][spc = "verify" /\ spc' = "term" =>
       \A s \in verified' : ~reused[s] /\ leader[s] \in Present]_vars

\* `vmocs stop' has stopped or killed every sidecar it read of, whether the
\* manager is alive, is stopping them too, or is gone.
PersistedReachesAll ==
  spc = "done" /\ boot = 0 => \A s \in known : leader[s] # "live"

\* The stop from the record reaches the sidecars, all of them and none but them.
PersistedStopIsExact == VerifiedIsOurs /\ []PersistedReachesAll

\* "stop the process group rather than only its leader.  This catches helper
\* descendants": when stop_all has finished, no helper runs.  Does not hold:
\* the group of a sidecar that has exited is not signalled.
HelpersStopped ==
  pc = "stopped" => \A s \in Sidecar : ~helper[s]

\* stop_all ends, and every sidecar it was to stop exits.
StopsAll ==
  (pc = "stop") ~> (\/ pc = "crashed"
                    \/ /\ pc = "stopped"
                       /\ \A s \in Sidecar : leader[s] \in {"none", "zombie", "gone"})
=============================================================================
