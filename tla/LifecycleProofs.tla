--------------------------- MODULE LifecycleProofs ---------------------------
(***************************************************************************)
(* Proofs about Lifecycle, for any number of stop commands, destinations    *)
(* and guest writes, and for every choice of where the supervisor may be    *)
(* killed and of what may fail.                                            *)
(***************************************************************************)
EXTENDS Lifecycle, TLAPS

USE ConstantsAssumption

-----------------------------------------------------------------------------
(* Type correctness, one lemma per group of variables and one step per part *)
(* of the next-state relation.                                             *)

LEMMA NewMetaType == \A save \in LaunchSaves : NewMeta(save) \in Meta
BY DEF NewMeta, Meta, MetaStates, Procs

(* Changing a field of a metadata record within its range. *)
LEMMA MetaUpdate ==
  ASSUME NEW m \in Meta, NEW st \in MetaStates, NEW d \in Dest \cup {None},
         NEW i \in Procs \cup {None}
  PROVE  /\ [m EXCEPT !.side = TRUE] \in Meta
         /\ [m EXCEPT !.state = st] \in Meta
         /\ [m EXCEPT !.pid = TRUE, !.state = st] \in Meta
         /\ [m EXCEPT !.state = st, !.id = i, !.save = d] \in Meta
BY DEF Meta

(* Program counters: the supervisor stays in its program, the stop commands *)
(* in theirs. *)
LEMMA PcTypeStep == TypeOK /\ [Next]_vars => PcType'
<1> SUFFICES ASSUME PcType, [Next]_vars PROVE PcType'
  BY DEF TypeOK
<1> USE DEF PcType, End, Goto, Procs
<1>1. CASE Launch
  BY <1>1 DEF Launch, LaunchPreflight, LaunchWriteStarting, LaunchSidecars,
     LaunchWriteSidecars, LaunchFork, LaunchWritePid, LaunchBoot, LaunchWrite,
     LaunchWriteRunning, LaunchUnwind, LaunchReap, SupPC, LaunchPC, SessionPC
<1>2. CASE Session \/ Finalise
  BY <1>2 DEF Session, SessionAttach, SessionPoll, SessionSshExit, SessionJudge,
     Finalise, FinalWriteStopping, FinalPowerdown, FinalAwait, FinalQuit,
     FinalKill, SupPC, FinalPC, SessionPC, SavePC
<1>3. ASSUME NEW s \in Stoppers, Teardown(s) PROVE PcType'
  BY <1>3 DEF Teardown, StopRead, StopMark, StopHalt, StopWait, StopTerm,
     StopperPC, StopPC, SavePC
<1>4. ASSUME NEW p \in Procs, Cleanup(p) PROVE PcType'
  BY <1>4 DEF Cleanup, StopSidecars, SaveMark, SaveCopy, SavePublish, SaveDone,
     RemoveFiles, RemoveDir, StopperPC, SupPC, SavePC
<1>5. CASE Environment
  BY <1>5 DEF Environment, GuestWrite, GuestPoweroff, QemuExit, QemuCrash,
     OrphanReap, SidecarDeath, SupKilled, SessionSignal, SupPC
<1>6. CASE Idle \/ UNCHANGED vars
  BY <1>6 DEF Idle, vars
<1> QED
  BY <1>1, <1>2, <1>3, <1>4, <1>5, <1>6 DEF Next

(* Metadata, in memory and on disk. *)
LEMMA MetaTypeStep == TypeOK /\ [Next]_vars => MetaType'
<1> SUFFICES ASSUME MetaType, [Next]_vars PROVE MetaType'
  BY DEF TypeOK
<1> USE DEF MetaType, Write, Procs, fsVars
<1>1. CASE Launch
  <2>1. CASE LaunchWriteStarting
    BY <2>1 DEF LaunchWriteStarting
  <2>2. ASSUME NEW from, NEW to, NEW m \in Meta, LaunchWrite(from, m, to)
        PROVE  MetaType'
    BY <2>2 DEF LaunchWrite
  <2>3. CASE LaunchWriteSidecars \/ LaunchWritePid \/ LaunchWriteRunning
    <3>1. /\ mem[Sup] \in Meta
          /\ "qemu-starting" \in MetaStates /\ "running" \in MetaStates
      BY DEF MetaStates
    <3> QED
      BY <2>2, <2>3, <3>1, MetaUpdate
      DEF LaunchWriteSidecars, LaunchWritePid, LaunchWriteRunning
  <2>4. CASE LaunchReap
    BY <2>4 DEF LaunchReap, Meta, MetaStates
  <2>5. CASE LaunchPreflight \/ LaunchSidecars \/ LaunchFork \/ LaunchBoot
               \/ LaunchUnwind
    BY <2>5 DEF LaunchPreflight, LaunchSidecars, LaunchFork, LaunchBoot,
       LaunchUnwind
  <2> QED
    BY <1>1, <2>1, <2>3, <2>4, <2>5 DEF Launch
<1>2. CASE Session \/ Finalise
  BY <1>2 DEF Session, SessionAttach, SessionPoll, SessionSshExit, SessionJudge,
     Finalise, FinalWriteStopping, FinalPowerdown, FinalAwait, FinalQuit,
     FinalKill, Meta, MetaStates
<1>3. ASSUME NEW s \in Stoppers, Teardown(s) PROVE MetaType'
  <2>1. CASE StopRead(s)
    <3>1. vmjson # None => /\ vmjson \in Meta
                           /\ "stopping" \in MetaStates
                           /\ StopSave[s] \in Dest \cup {None}
                           /\ s \in Procs \cup {None}
      BY DEF MetaStates
    <3>2. vmjson # None => \A i \in Procs \cup {None}, d \in Dest \cup {None} :
            /\ [vmjson EXCEPT !.state = "stopping"] \in Meta
            /\ [vmjson EXCEPT !.state = "stopping", !.id = i, !.save = d] \in Meta
      BY <3>1, MetaUpdate
    <3>3. vmjson' = vmjson /\ (mem' = mem \/ \E m \in Meta : mem' = [mem EXCEPT ![s] = m])
      <4>1. CASE mem' = mem
        BY <2>1, <4>1 DEF StopRead
      <4>2. CASE mem' # mem
        <5>1. vmjson # None /\ vmjson' = vmjson
          BY <2>1, <4>2 DEF StopRead
        <5> QED
          BY <2>1, <4>2, <5>1, <3>1, <3>2 DEF StopRead, StopMeta
      <4> QED
        BY <4>1, <4>2
    <3> QED
      BY <3>3
  <2>2. CASE StopMark(s)
    BY <2>2 DEF StopMark
  <2> QED
    BY <1>3, <2>1, <2>2 DEF Teardown, StopHalt, StopWait, StopTerm
<1>4. ASSUME NEW p \in Procs, Cleanup(p) PROVE MetaType'
  BY <1>4 DEF Cleanup, StopSidecars, SaveMark, SaveCopy, SavePublish, SaveDone,
     RemoveFiles, RemoveDir, Meta, MetaStates
<1>5. CASE Environment
  BY <1>5 DEF Environment, GuestWrite, GuestPoweroff, QemuExit, QemuCrash,
     OrphanReap, SidecarDeath, SupKilled, SessionSignal
<1>6. CASE Idle \/ UNCHANGED vars
  BY <1>6 DEF Idle, vars
<1> QED
  BY <1>1, <1>2, <1>3, <1>4, <1>5, <1>6 DEF Next

(* Outcomes and consistency labels. *)
LEMMA EndTypeStep == TypeOK /\ [Next]_vars => EndType'
<1> SUFFICES ASSUME EndType, [Next]_vars PROVE EndType'
  BY DEF TypeOK
<1> USE DEF EndType, End, Procs, Outcomes, Labels
<1>1. CASE Launch
  BY <1>1 DEF Launch, LaunchPreflight, LaunchWriteStarting, LaunchSidecars,
     LaunchWriteSidecars, LaunchFork, LaunchWritePid, LaunchBoot, LaunchWrite,
     LaunchWriteRunning, LaunchUnwind, LaunchReap
<1>2. CASE Session \/ Finalise
  BY <1>2 DEF Session, SessionAttach, SessionPoll, SessionSshExit, SessionJudge,
     Finalise, FinalWriteStopping, FinalPowerdown, FinalAwait, FinalQuit,
     FinalKill
<1>3. ASSUME NEW s \in Stoppers, Teardown(s) PROVE EndType'
  BY <1>3 DEF Teardown, StopRead, StopMark, StopHalt, StopWait, StopTerm
<1>4. ASSUME NEW p \in Procs, Cleanup(p) PROVE EndType'
  BY <1>4 DEF Cleanup, StopSidecars, SaveMark, SaveCopy, SavePublish, SaveDone,
     RemoveFiles, RemoveDir
<1>5. CASE Environment
  BY <1>5 DEF Environment, GuestWrite, GuestPoweroff, QemuExit, QemuCrash,
     OrphanReap, SidecarDeath, SupKilled, SessionSignal
<1>6. CASE Idle \/ UNCHANGED vars
  BY <1>6 DEF Idle, vars
<1> QED
  BY <1>1, <1>2, <1>3, <1>4, <1>5, <1>6 DEF Next

(* The runtime directory, QEMU and the sidecars. *)
LEMMA WorldTypeStep == TypeOK /\ [Next]_vars => WorldType'
<1> SUFFICES ASSUME TypeOK, [Next]_vars PROVE WorldType'
  OBVIOUS
<1>0. /\ WorldType /\ WatchType
      /\ Terminated \in QemuStates /\ Killed \in QemuStates
      /\ Reaped \in QemuStates
  BY DEF TypeOK, WorldType, Terminated, Killed, Reaped, QemuStates, MayWrite
<1> USE <1>0 DEF WorldType, fsVars, vmVars, Write
<1>1. CASE Launch
  <2>1. CASE LaunchPreflight \/ LaunchWriteStarting \/ LaunchBoot
    BY <2>1 DEF LaunchPreflight, LaunchWriteStarting, LaunchBoot
  <2>2. CASE LaunchSidecars \/ LaunchUnwind
    BY <2>2 DEF LaunchSidecars, LaunchUnwind
  <2>3. CASE LaunchFork
    BY <2>3 DEF LaunchFork, QemuStates
  <2>4. CASE LaunchWriteSidecars \/ LaunchWritePid \/ LaunchWriteRunning
    BY <2>4 DEF LaunchWriteSidecars, LaunchWritePid, LaunchWriteRunning,
       LaunchWrite
  <2>5. CASE LaunchReap
    BY <2>5 DEF LaunchReap
  <2> QED
    BY <1>1, <2>1, <2>2, <2>3, <2>4, <2>5 DEF Launch
<1>2. CASE Session
  BY <1>2 DEF Session, SessionAttach, SessionPoll, SessionSshExit, SessionJudge,
     Drain, QemuStates
<1>3. CASE Finalise
  BY <1>3 DEF Finalise, FinalWriteStopping, FinalPowerdown, FinalAwait, FinalQuit,
     FinalKill, Drain, QemuStates
<1>4. ASSUME NEW s \in Stoppers, Teardown(s) PROVE WorldType'
  BY <1>4 DEF Teardown, StopRead, StopMark, StopHalt, StopWait, StopTerm
<1>5. ASSUME NEW p \in Procs, Cleanup(p) PROVE WorldType'
  BY <1>5 DEF Cleanup, StopSidecars, SaveMark, SaveCopy, SavePublish, SaveDone,
     RemoveFiles, RemoveDir
<1>6. CASE Environment
  <2>1. CASE GuestWrite
    BY <2>1 DEF GuestWrite
  <2>2. CASE GuestPoweroff
    BY <2>2 DEF GuestPoweroff, QemuStates
  <2>3. CASE QemuExit \/ QemuCrash \/ OrphanReap
    BY <2>3 DEF QemuExit, QemuCrash, OrphanReap, QemuStates
  <2>4. CASE SidecarDeath \/ SupKilled \/ SessionSignal
    BY <2>4 DEF SidecarDeath, SupKilled, SessionSignal
  <2> QED
    BY <1>6, <2>1, <2>2, <2>3, <2>4 DEF Environment
<1>7. CASE Idle \/ UNCHANGED vars
  BY <1>7 DEF Idle, vars
<1> QED
  BY <1>1, <1>2, <1>3, <1>4, <1>5, <1>6, <1>7 DEF Next

(* What the supervisor has observed. *)
LEMMA WatchTypeStep == TypeOK /\ [Next]_vars => WatchType'
<1> SUFFICES ASSUME WatchType, [Next]_vars PROVE WatchType'
  BY DEF TypeOK
<1> USE DEF WatchType, supVars
<1>1. CASE Launch
  BY <1>1 DEF Launch, LaunchPreflight, LaunchWriteStarting, LaunchSidecars,
     LaunchWriteSidecars, LaunchFork, LaunchWritePid, LaunchBoot, LaunchWrite,
     LaunchWriteRunning, LaunchUnwind, LaunchReap
<1>2. CASE Session
  BY <1>2 DEF Session, SessionAttach, SessionPoll, SessionSshExit, SessionJudge,
     Drain, Announced
<1>3. CASE Finalise
  BY <1>3 DEF Finalise, FinalWriteStopping, FinalPowerdown, FinalAwait, FinalQuit,
     FinalKill, Drain, Announced
<1>4. ASSUME NEW s \in Stoppers, Teardown(s) PROVE WatchType'
  BY <1>4 DEF Teardown, StopRead, StopMark, StopHalt, StopWait, StopTerm, Announced
<1>5. ASSUME NEW p \in Procs, Cleanup(p) PROVE WatchType'
  BY <1>5 DEF Cleanup, StopSidecars, SaveMark, SaveCopy, SavePublish, SaveDone,
     RemoveFiles, RemoveDir
<1>6. CASE Environment
  BY <1>6 DEF Environment, GuestWrite, GuestPoweroff, QemuExit, QemuCrash,
     OrphanReap, SidecarDeath, SupKilled, SessionSignal
<1>7. CASE Idle \/ UNCHANGED vars
  BY <1>7 DEF Idle, vars
<1> QED
  BY <1>1, <1>2, <1>3, <1>4, <1>5, <1>6, <1>7 DEF Next

(* Copies and published checkpoints: only SaveCopy and SavePublish touch them. *)
LEMMA SaveTypeStep == TypeOK /\ [Next]_vars => SaveType'
<1> SUFFICES ASSUME TypeOK, [Next]_vars PROVE SaveType'
  OBVIOUS
<1>0. SaveType /\ MetaType /\ EndType /\ disk \in Nat
  BY DEF TypeOK, WorldType
<1> USE <1>0 DEF SaveType, saveVars
<1>1. CASE Launch \/ Session \/ Finalise
  BY <1>1 DEF Launch, LaunchPreflight, LaunchWriteStarting, LaunchSidecars,
     LaunchWriteSidecars, LaunchFork, LaunchWritePid, LaunchBoot, LaunchWrite,
     LaunchWriteRunning, LaunchUnwind, LaunchReap, Session, SessionAttach,
     SessionPoll, SessionSshExit, SessionJudge, Finalise, FinalWriteStopping,
     FinalPowerdown, FinalAwait, FinalQuit, FinalKill
<1>2. ASSUME NEW s \in Stoppers, Teardown(s) PROVE SaveType'
  BY <1>2 DEF Teardown, StopRead, StopMark, StopHalt, StopWait, StopTerm
<1>3. ASSUME NEW p \in Procs, Cleanup(p) PROVE SaveType'
  <2>1. CASE SaveCopy(p)
    BY <2>1 DEF SaveCopy
  <2>2. CASE SavePublish(p)
    <3>1. [id |-> mem[p].id, version |-> copied[p], label |-> label[p]]
            \in Checkpoints
      BY DEF Checkpoints, MetaType, Meta, EndType
    <3> QED
      BY <2>2, <3>1 DEF SavePublish
  <2> QED
    BY <1>3, <2>1, <2>2 DEF Cleanup, StopSidecars, SaveMark, SaveDone,
       RemoveFiles, RemoveDir
<1>4. CASE Environment
  BY <1>4 DEF Environment, GuestWrite, GuestPoweroff, QemuExit, QemuCrash,
     OrphanReap, SidecarDeath, SupKilled, SessionSignal
<1>5. CASE Idle \/ UNCHANGED vars
  BY <1>5 DEF Idle, vars
<1> QED
  BY <1>1, <1>2, <1>3, <1>4, <1>5 DEF Next

(* Every reachable state is well typed. *)
THEOREM TypeCorrect == Spec => []TypeOK
<1>1. Init => TypeOK
  <2> SUFFICES ASSUME Init PROVE TypeOK
    OBVIOUS
  <2>1. PcType
    BY DEF Init, PcType, Procs, SupPC, StopperPC, LaunchPC, StopPC
  <2>2. MetaType /\ EndType
    BY NewMetaType DEF Init, MetaType, EndType, Outcomes, Labels
  <2>3. WorldType /\ WatchType
    BY DEF Init, WorldType, WatchType, QemuStates
  <2>4. SaveType
    BY DEF Init, SaveType, ForeignCheckpoint, Checkpoints, Labels
  <2> QED
    BY <2>1, <2>2, <2>3, <2>4 DEF TypeOK
<1>2. TypeOK /\ [Next]_vars => TypeOK'
  BY PcTypeStep, MetaTypeStep, EndTypeStep, WorldTypeStep, WatchTypeStep,
     SaveTypeStep DEF TypeOK
<1> QED
  BY <1>1, <1>2, PTL DEF Spec

-----------------------------------------------------------------------------
(* QEMU only moves forward, except for the fork itself.                    *)

(* No step but the fork brings QEMU into being, lets a stopped QEMU write    *)
(* again or gives the overlay back to it. *)
LEMMA QemuForward ==
  ASSUME TypeOK, [Next]_vars, ~LaunchFork
  PROVE  /\ (qemu = "none") <=> (qemu' = "none")
         /\ Stopped => Stopped'
         /\ ~HoldsDisk => ~HoldsDisk'
         /\ ~MayWrite => ~MayWrite'
<1> USE DEF Stopped, HoldsDisk, MayWrite
<1>0. qemu \in QemuStates
  BY DEF TypeOK, WorldType
<1> USE <1>0 DEF QemuStates, vmVars, Terminated, Killed, Reaped, Drain
<1>1. CASE Launch
  BY <1>1 DEF Launch, LaunchPreflight, LaunchWriteStarting, LaunchSidecars,
     LaunchWriteSidecars, LaunchWritePid, LaunchBoot, LaunchWrite,
     LaunchWriteRunning, LaunchUnwind, LaunchReap
<1>2. CASE Session
  BY <1>2 DEF Session, SessionAttach, SessionPoll, SessionSshExit, SessionJudge
<1>3. CASE Finalise
  BY <1>3 DEF Finalise, FinalWriteStopping, FinalPowerdown, FinalAwait, FinalQuit,
     FinalKill
<1>4. ASSUME NEW s \in Stoppers, Teardown(s)
      PROVE  /\ (qemu = "none") <=> (qemu' = "none")
             /\ Stopped => Stopped'
             /\ ~HoldsDisk => ~HoldsDisk'
             /\ ~MayWrite => ~MayWrite'
  BY <1>4 DEF Teardown, StopRead, StopMark, StopHalt, StopWait, StopTerm, Alive
<1>5. ASSUME NEW p \in Procs, Cleanup(p) PROVE qemu' = qemu
  BY <1>5 DEF Cleanup, StopSidecars, SaveMark, SaveCopy, SavePublish, SaveDone,
     RemoveFiles, RemoveDir
<1>6. CASE Environment
  BY <1>6 DEF Environment, GuestWrite, GuestPoweroff, QemuExit, QemuCrash,
     OrphanReap, SidecarDeath, SupKilled, SessionSignal
<1>7. CASE Idle \/ UNCHANGED vars
  BY <1>7 DEF Idle, vars
<1> QED
  BY <1>1, <1>2, <1>3, <1>4, <1>5, <1>6, <1>7 DEF Next

-----------------------------------------------------------------------------
(* Clean-up after QEMU.                                                    *)

BeforeFork == {"init", "overlay", "starting", "sidecars", "forking"}

\* QEMU exists exactly from the fork on ...
ForkInv ==
  /\ pc[Sup] \in BeforeFork => qemu = "none"
  /\ pc[Sup] = "forked" => qemu # "none"
\* ... and only then is its pid recorded anywhere.
PidInv ==
  /\ vmjson # None /\ vmjson.pid => qemu # "none"
  /\ \A p \in Procs : mem[p].pid => qemu # "none"
\* The supervisor's last escalation has stopped QEMU.
KillInv == pc[Sup] = "killing" => ~MayWrite

\* The inductive invariant: CleanupAfterQemu needs to know that QEMU was
\* forked when a pid is known, and that it is not forked afterwards.
CleanupInv == ForkInv /\ PidInv /\ KillInv /\ CleanupAfterQemu

(* Where the supervisor can come from. *)
LEMMA SupSteps ==
  ASSUME TypeOK, [Next]_vars
  PROVE  /\ pc'[Sup] \in LaunchPC => pc[Sup] \in LaunchPC
         /\ pc'[Sup] \in BeforeFork => pc[Sup] \in BeforeFork
         /\ pc'[Sup] = "forked" => LaunchFork \/ pc[Sup] = "forked"
         /\ pc'[Sup] = "killing" =>
              pc[Sup] = "killing" \/ (pc[Sup] = "quitting" /\ qemu' = Killed)
<1> DEFINE Goal == /\ pc'[Sup] \in LaunchPC => pc[Sup] \in LaunchPC
                   /\ pc'[Sup] \in BeforeFork => pc[Sup] \in BeforeFork
                   /\ pc'[Sup] = "forked" => LaunchFork \/ pc[Sup] = "forked"
                   /\ pc'[Sup] = "killing" =>
                        \/ pc[Sup] = "killing"
                        \/ pc[Sup] = "quitting" /\ qemu' = Killed
<1>0. PcType /\ Sup \in Procs /\ \A s \in Stoppers : s # Sup
  BY DEF TypeOK, Procs
<1> USE <1>0 DEF PcType, Goto, End, LaunchPC, BeforeFork
<1>1. CASE Launch
  <2>1. CASE LaunchFork
    BY <2>1 DEF LaunchFork
  <2>2. CASE LaunchWriteSidecars \/ LaunchWritePid \/ LaunchWriteRunning
    BY <2>2 DEF LaunchWriteSidecars, LaunchWritePid, LaunchWriteRunning, LaunchWrite
  <2> QED
    BY <1>1, <2>1, <2>2 DEF Launch, LaunchPreflight, LaunchWriteStarting,
       LaunchSidecars, LaunchBoot, LaunchUnwind, LaunchReap
<1>2. CASE Session
  BY <1>2 DEF Session, SessionAttach, SessionPoll, SessionSshExit, SessionJudge
<1>3. CASE Finalise
  BY <1>3 DEF Finalise, FinalWriteStopping, FinalPowerdown, FinalAwait, FinalQuit,
     FinalKill
<1>4. ASSUME NEW s \in Stoppers, Teardown(s) PROVE Goal
  BY <1>4 DEF Teardown, StopRead, StopMark, StopHalt, StopWait, StopTerm
<1>5. ASSUME NEW p \in Procs, Cleanup(p) PROVE Goal
  BY <1>5 DEF Cleanup, StopSidecars, SaveMark, SaveCopy, SavePublish, SaveDone,
     RemoveFiles, RemoveDir
<1>6. CASE Environment
  BY <1>6 DEF Environment, GuestWrite, GuestPoweroff, QemuExit, QemuCrash,
     OrphanReap, SidecarDeath, SupKilled, SessionSignal
<1>7. CASE Idle \/ UNCHANGED vars
  BY <1>7 DEF Idle, vars
<1> QED
  BY <1>1, <1>2, <1>3, <1>4, <1>5, <1>6, <1>7 DEF Next

LEMMA ForkInvStep == TypeOK /\ CleanupInv /\ [Next]_vars => ForkInv'
<1> SUFFICES ASSUME TypeOK, ForkInv, [Next]_vars PROVE ForkInv'
  BY DEF CleanupInv
<1>1. CASE LaunchFork
  BY <1>1 DEF LaunchFork, ForkInv, BeforeFork, TypeOK, PcType, Goto, Procs
<1>2. CASE ~LaunchFork
  BY <1>2, QemuForward, SupSteps DEF ForkInv
<1> QED
  BY <1>1, <1>2

LEMMA KillInvStep == TypeOK /\ CleanupInv /\ [Next]_vars => KillInv'
<1> SUFFICES ASSUME TypeOK, KillInv, [Next]_vars, pc'[Sup] = "killing"
             PROVE  ~MayWrite'
  BY DEF CleanupInv, KillInv
<1>1. ~LaunchFork
  BY DEF LaunchFork, TypeOK, PcType, Goto, Procs
<1>2. CASE pc[Sup] = "killing"
  BY <1>1, <1>2, QemuForward DEF KillInv
<1>3. CASE qemu' = Killed
  BY <1>3 DEF Killed, MayWrite
<1> QED
  BY <1>2, <1>3, SupSteps

(* Who knows the pid: it spreads from the supervisor's own write, through    *)
(* vm.json, to the stop commands that read it. *)
LEMMA PidInvStep == TypeOK /\ CleanupInv /\ [Next]_vars => PidInv'
<1> SUFFICES ASSUME TypeOK, ForkInv, PidInv, [Next]_vars PROVE PidInv'
  BY DEF CleanupInv
<1>1. qemu # "none" => qemu' # "none"
  BY QemuForward DEF LaunchFork
<1> DEFINE Spread == /\ vmjson' # None /\ vmjson'.pid => qemu # "none"
                     /\ \A p \in Procs : mem'[p].pid => qemu # "none"
<1>2. Spread
  <2>0. MetaType /\ Sup \in Procs /\ \A s \in Stoppers : s \in Procs
    BY DEF TypeOK, Procs
  <2> USE <2>0 DEF PidInv, MetaType, Write, fsVars
  <2>1. CASE Launch
    <3>1. CASE LaunchWritePid
      BY <3>1 DEF LaunchWritePid, LaunchWrite, ForkInv, Meta
    <3>2. CASE LaunchWriteSidecars \/ LaunchWriteRunning
      BY <3>2 DEF LaunchWriteSidecars, LaunchWriteRunning, LaunchWrite, Meta
    <3>3. CASE LaunchWriteStarting
      BY <3>3 DEF LaunchWriteStarting
    <3>4. CASE LaunchReap
      BY <3>4 DEF LaunchReap, Meta
    <3> QED
      BY <2>1, <3>1, <3>2, <3>3, <3>4 DEF Launch, LaunchPreflight,
         LaunchSidecars, LaunchFork, LaunchBoot, LaunchUnwind
  <2>2. CASE Session
    BY <2>2 DEF Session, SessionAttach, SessionPoll, SessionSshExit, SessionJudge
  <2>3. CASE Finalise
    BY <2>3 DEF Finalise, FinalWriteStopping, FinalPowerdown, FinalAwait,
       FinalQuit, FinalKill, Meta
  <2>4. ASSUME NEW s \in Stoppers, Teardown(s) PROVE Spread
    <3>1. CASE StopRead(s)
      <4>1. vmjson' = vmjson
        BY <3>1 DEF StopRead
      <4>2. mem' = mem \/ (vmjson # None /\ mem'[s].pid = vmjson.pid
                           /\ \A p \in Procs \ {s} : mem'[p] = mem[p])
        <5>1. CASE mem' # mem
          <6>1. vmjson \in Meta /\ vmjson # None
            BY <3>1, <5>1 DEF StopRead
          <6> DEFINE marked == [vmjson EXCEPT !.state = "stopping"]
                     named  == [vmjson EXCEPT !.state = "stopping", !.id = s,
                                              !.save = StopSave[s]]
          <6>2. marked.pid = vmjson.pid /\ named.pid = vmjson.pid
            BY <6>1 DEF Meta
          <6>3. mem' = [mem EXCEPT ![s] = marked] \/ mem' = [mem EXCEPT ![s] = named]
            BY <3>1, <5>1 DEF StopRead, StopMeta
          <6> QED
            BY <6>1, <6>2, <6>3
        <5> QED
          BY <5>1
      <4> QED
        BY <4>1, <4>2
    <3>2. CASE StopMark(s)
      BY <3>2 DEF StopMark
    <3> QED
      BY <2>4, <3>1, <3>2 DEF Teardown, StopHalt, StopWait, StopTerm
  <2>5. ASSUME NEW p \in Procs, Cleanup(p) PROVE Spread
    <3>1. CASE SaveMark(p) \/ SaveDone(p)
      BY <3>1 DEF SaveMark, SaveDone, Meta
    <3> QED
      BY <2>5, <3>1 DEF Cleanup, StopSidecars, SaveCopy, SavePublish,
         RemoveFiles, RemoveDir
  <2>6. CASE Environment
    BY <2>6 DEF Environment, GuestWrite, GuestPoweroff, QemuExit, QemuCrash,
       OrphanReap, SidecarDeath, SupKilled, SessionSignal
  <2>7. CASE Idle \/ UNCHANGED vars
    BY <2>7 DEF Idle, vars
  <2> QED
    BY <2>1, <2>2, <2>3, <2>4, <2>5, <2>6, <2>7 DEF Next
<1> QED
  BY <1>1, <1>2 DEF PidInv

(* A process reaches its clean-up only past QEMU. *)
LEMMA CleanupStep == TypeOK /\ CleanupInv /\ [Next]_vars => CleanupAfterQemu'
<1> SUFFICES ASSUME TypeOK, CleanupInv, [Next]_vars, NEW p \in Procs,
                    pc'[p] \in SavePC, mem'[p].pid
             PROVE  Stopped'
  BY DEF CleanupAfterQemu
<1>0. /\ PcType /\ MetaType /\ qemu \in QemuStates
      /\ Sup \in Procs /\ \A s \in Stoppers : s # Sup /\ s \in Procs
  BY DEF TypeOK, WorldType, Procs
<1>1. qemu' # "none"
  BY PidInvStep DEF PidInv
<1>2. CASE LaunchFork
  \* Nobody knows a pid before the fork.
  <2>1. qemu = "none" /\ mem' = mem
    BY <1>2 DEF LaunchFork, CleanupInv, ForkInv, BeforeFork
  <2> QED
    BY <2>1 DEF CleanupInv, PidInv
<1>3. CASE ~LaunchFork /\ pc[p] \in SavePC /\ mem[p].pid
  BY <1>3, QemuForward DEF CleanupInv, CleanupAfterQemu
<1>4. CASE ~LaunchFork /\ ~(pc[p] \in SavePC /\ mem[p].pid)
  <2> USE <1>0, <1>1 DEF PcType, MetaType, Goto, End, SavePC, Write
  <2>1. CASE Launch
    BY <2>1, <1>4 DEF Launch, LaunchPreflight, LaunchWriteStarting, LaunchSidecars,
       LaunchWriteSidecars, LaunchWritePid, LaunchBoot, LaunchWrite,
       LaunchWriteRunning, LaunchUnwind, LaunchReap
  <2>2. CASE Session
    BY <2>2, <1>4 DEF Session, SessionAttach, SessionPoll, SessionSshExit,
       SessionJudge
  <2>3. CASE Finalise
    BY <2>3, <1>4 DEF Finalise, FinalWriteStopping, FinalPowerdown, FinalAwait,
       FinalQuit, FinalKill, CleanupInv, KillInv, Stopped, MayWrite, Reaped,
       QemuStates, Drain, Terminated
  <2>4. ASSUME NEW s \in Stoppers, Teardown(s) PROVE Stopped'
    BY <2>4, <1>4 DEF Teardown, StopRead, StopMark, StopHalt, StopWait, StopTerm,
       Stopped, Alive, Killed, MayWrite, QemuStates
  <2>5. ASSUME NEW r \in Procs, Cleanup(r) PROVE Stopped'
    BY <2>5, <1>4 DEF Cleanup, StopSidecars, SaveMark, SaveCopy, SavePublish,
       SaveDone, RemoveFiles, RemoveDir, Meta
  <2>6. CASE Environment
    BY <2>6, <1>4 DEF Environment, GuestWrite, GuestPoweroff, QemuExit, QemuCrash,
       OrphanReap, SidecarDeath, SupKilled, SessionSignal
  <2>7. CASE Idle \/ UNCHANGED vars
    BY <2>7, <1>4 DEF Idle, vars
  <2> QED
    BY <2>1, <2>2, <2>3, <2>4, <2>5, <2>6, <2>7 DEF Next
<1> QED
  BY <1>2, <1>3, <1>4

(* A process that knows QEMU's pid stops the sidecars, saves and removes     *)
(* the runtime directory only when QEMU has exited or been sent SIGKILL.     *)
THEOREM CleanupAfterQemuAlways == Spec => []CleanupAfterQemu
<1>1. Init => CleanupInv
  BY DEF Init, CleanupInv, ForkInv, PidInv, KillInv, CleanupAfterQemu, NewMeta,
     SavePC, Procs
<1>2. TypeOK /\ CleanupInv /\ [Next]_vars => CleanupInv'
  BY ForkInvStep, PidInvStep, KillInvStep, CleanupStep DEF CleanupInv
<1>3. CleanupInv => CleanupAfterQemu
  BY DEF CleanupInv
<1> QED
  BY <1>1, <1>2, <1>3, TypeCorrect, PTL DEF Spec

-----------------------------------------------------------------------------
(* The disk is copied only after QEMU has stopped.                         *)

\* A stop command that has started knows that no launch is under way, and a
\* process that is copying knows that QEMU does not hold the disk.
CopyInv ==
  /\ \A s \in Stoppers : pc[s] # "idle" => ~Launching
  /\ \A p \in Procs : pc[p] = "publish" => ~HoldsDisk

(* Only its first action takes a stop command out of "idle". *)
LEMMA IdleStops ==
  ASSUME TypeOK, [Next]_vars, NEW s \in Stoppers, pc[s] = "idle", pc'[s] # "idle"
  PROVE  StopRead(s) /\ pc'[Sup] = pc[Sup]
<1>0. PcType /\ Sup \in Procs /\ \A r \in Stoppers : r # Sup /\ r \in Procs
  BY DEF TypeOK, Procs
<1> USE <1>0 DEF PcType, Goto, End
<1>1. ~Launch
  BY DEF Launch, LaunchPreflight, LaunchWriteStarting, LaunchSidecars,
     LaunchWriteSidecars, LaunchFork, LaunchWritePid, LaunchBoot, LaunchWrite,
     LaunchWriteRunning, LaunchUnwind, LaunchReap
<1>2. ~Session
  BY DEF Session, SessionAttach, SessionPoll, SessionSshExit, SessionJudge
<1>3. ~Finalise
  BY DEF Finalise, FinalWriteStopping, FinalPowerdown, FinalAwait, FinalQuit,
     FinalKill
<1>4. ASSUME NEW r \in Stoppers, Teardown(r)
      PROVE  StopRead(s) /\ pc'[Sup] = pc[Sup]
  BY <1>4 DEF Teardown, StopRead, StopMark, StopHalt, StopWait, StopTerm
<1>5. ASSUME NEW p \in Procs, Cleanup(p) PROVE FALSE
  BY <1>5 DEF Cleanup, StopSidecars, SaveMark, SaveCopy, SavePublish, SaveDone,
     RemoveFiles, RemoveDir
<1>6. ~Environment
  BY DEF Environment, GuestWrite, GuestPoweroff, QemuExit, QemuCrash, OrphanReap,
     SidecarDeath, SupKilled, SessionSignal
<1>7. ~(Idle \/ UNCHANGED vars)
  BY DEF Idle, vars
<1> QED
  BY <1>1, <1>2, <1>3, <1>4, <1>5, <1>6, <1>7 DEF Next

(* Only SaveCopy starts a copy. *)
LEMMA CopyStarts ==
  ASSUME TypeOK, [Next]_vars, NEW p \in Procs, pc[p] # "publish", pc'[p] = "publish"
  PROVE  SaveCopy(p)
<1>0. PcType /\ Sup \in Procs /\ \A r \in Stoppers : r # Sup /\ r \in Procs
  BY DEF TypeOK, Procs
<1> USE <1>0 DEF PcType, Goto, End
<1>1. ~Launch
  BY DEF Launch, LaunchPreflight, LaunchWriteStarting, LaunchSidecars,
     LaunchWriteSidecars, LaunchFork, LaunchWritePid, LaunchBoot, LaunchWrite,
     LaunchWriteRunning, LaunchUnwind, LaunchReap
<1>2. ~Session
  BY DEF Session, SessionAttach, SessionPoll, SessionSshExit, SessionJudge
<1>3. ~Finalise
  BY DEF Finalise, FinalWriteStopping, FinalPowerdown, FinalAwait, FinalQuit,
     FinalKill
<1>4. ASSUME NEW r \in Stoppers, Teardown(r) PROVE FALSE
  BY <1>4 DEF Teardown, StopRead, StopMark, StopHalt, StopWait, StopTerm
<1>5. ASSUME NEW r \in Procs, Cleanup(r) PROVE SaveCopy(p)
  BY <1>5 DEF Cleanup, StopSidecars, SaveMark, SaveCopy, SavePublish, SaveDone,
     RemoveFiles, RemoveDir
<1>6. ~Environment
  BY DEF Environment, GuestWrite, GuestPoweroff, QemuExit, QemuCrash, OrphanReap,
     SidecarDeath, SupKilled, SessionSignal
<1>7. ~(Idle \/ UNCHANGED vars)
  BY DEF Idle, vars
<1> QED
  BY <1>1, <1>2, <1>3, <1>4, <1>5, <1>6, <1>7 DEF Next

(* While no user stops a VM that is still being launched, CopyInv is an       *)
(* invariant. *)
LEMMA CopyInvAlways ==
  ASSUME ~EarlyStop
  PROVE  Spec => []CopyInv
<1>1. Init => CopyInv
  BY DEF Init, CopyInv, Procs
<1>2. TypeOK /\ CopyInv /\ [Next]_vars => CopyInv'
  <2> SUFFICES ASSUME TypeOK, CopyInv, [Next]_vars PROVE CopyInv'
    OBVIOUS
  <2>0. PcType /\ Sup \in Procs /\ \A s \in Stoppers : s # Sup /\ s \in Procs
    BY DEF TypeOK, Procs
  <2>1. ASSUME NEW s \in Stoppers, pc'[s] # "idle" PROVE ~Launching'
    <3>1. CASE pc[s] # "idle"
      BY <3>1, SupSteps DEF CopyInv, Launching
    <3>2. CASE pc[s] = "idle"
      BY <2>0, <2>1, <3>2, IdleStops DEF StopRead, MayStop, Launching, LaunchPC
    <3> QED
      BY <3>1, <3>2
  <2>2. ASSUME NEW p \in Procs, pc'[p] = "publish" PROVE ~HoldsDisk'
    <3>1. CASE pc[p] = "publish"
      <4>1. ~Launching
        BY <2>0, <3>1 DEF CopyInv, Launching, LaunchPC, Procs
      <4> QED
        BY <3>1, <4>1, QemuForward DEF CopyInv, LaunchFork, Launching, LaunchPC
    <3>2. CASE pc[p] # "publish"
      <4>1. SaveCopy(p)
        BY <2>2, <3>2, CopyStarts
      <4> QED
        BY <2>0, <2>2, <4>1 DEF SaveCopy, Goto, End, PcType, HoldsDisk, vmVars
    <3> QED
      BY <3>1, <3>2
  <2> QED
    BY <2>1, <2>2 DEF CopyInv
<1> QED
  BY <1>1, <1>2, TypeCorrect, PTL DEF Spec

(* Then nobody copies a disk that QEMU can write to. *)
THEOREM CopyOnlyStoppedDiskAlways ==
  ASSUME ~EarlyStop
  PROVE  Spec => []CopyOnlyStoppedDisk
<1>1. CopyInv => CopyOnlyStoppedDisk
  BY DEF CopyInv, CopyOnlyStoppedDisk, MayWrite, HoldsDisk
<1>2. Spec => []CopyInv
  BY CopyInvAlways
<1> QED
  BY <1>1, <1>2, PTL

-----------------------------------------------------------------------------
(* A requested save is never lost.  CopyInv makes a checkpoint of this VM    *)
(* final: once it exists, QEMU does not hold the disk and is not started      *)
(* again, so that what was copied is what the guest has written.             *)

\* A destination holds a checkpoint of this VM, not one that was there before.
Own(d) == ckpt[d] # None /\ ckpt[d].id # None
HasOwn == \E d \in Dest : Own(d)

\* Whoever has a destination has an identity, in memory and in vm.json.
NamedInv ==
  /\ \A p \in Procs : mem[p].save # None => mem[p].id # None
  /\ vmjson # None /\ vmjson.save # None => vmjson.id # None

\* The launch's --save is everyone's; without any --save nobody has one.
IntentInv ==
  /\ mem[Sup].save \in LaunchSaves
  /\ mem[Sup].save # None =>
       /\ \A p \in Procs : mem[p].save # None
       /\ vmjson # None => vmjson.save # None
  /\ mem[Sup].save = None /\ (\A s \in Stoppers : StopSave[s] = None) =>
       /\ \A p \in Procs : mem[p].save = None
       /\ vmjson # None => vmjson.save = None

\* Who saves has a destination, copies what the guest has written and goes on
\* to remove the directory only past a checkpoint.
StationInv ==
  \A p \in Procs :
    /\ pc[p] \in {"save", "copy", "publish", "saved"} => mem[p].save # None
    /\ pc[p] = "publish" => copied[p] = disk
    /\ pc[p] \in {"saved", "remove", "rmdir"} /\ mem[p].save # None => HasOwn
    /\ outcome[p] = "save-failed" => pc[p] = "done" /\ mem[p].save # None

\* A checkpoint of this VM holds everything the guest will ever have written.
OwnInv ==
  /\ \A d \in Dest : Own(d) => ckpt[d].version = disk
  /\ HasOwn => ~HoldsDisk /\ ~Launching
  /\ qemu = "none" => disk = 0

\* Nothing has happened beyond the preflight of the launch.
NotBegun ==
  /\ vmjson = None /\ qemu = "none" /\ pc[Sup] \in {"init", "done"}
  /\ \A s \in Stoppers : pc[s] \in {"idle", "done"}
  /\ \A p \in Procs : outcome[p] # "save-failed"

\* With --save at the launch, the overlay goes only once a checkpoint is there.
OverlayInv ==
  /\ mem[Sup].save # None => overlay \/ HasOwn \/ NotBegun
  /\ pc[Sup] = "init" => ~overlay

SaveInv == NamedInv /\ IntentInv /\ StationInv /\ OwnInv /\ OverlayInv

(* Frames: who changes the disk, the checkpoints and the overlay. *)
LEMMA Frames ==
  ASSUME TypeOK, [Next]_vars
  PROVE  /\ disk' = disk \/ GuestWrite
         /\ ckpt' = ckpt \/ \E p \in Procs : SavePublish(p)
         /\ overlay' = overlay \/ LaunchPreflight \/ \E p \in Procs : RemoveFiles(p)
         /\ pc'[Sup] = "init" => pc[Sup] = "init" /\ ~LaunchPreflight
<1> DEFINE Goal == /\ disk' = disk \/ GuestWrite
                   /\ ckpt' = ckpt \/ \E p \in Procs : SavePublish(p)
                   /\ \/ overlay' = overlay
                      \/ LaunchPreflight
                      \/ \E p \in Procs : RemoveFiles(p)
                   /\ pc'[Sup] = "init" => pc[Sup] = "init" /\ ~LaunchPreflight
<1>0. PcType /\ Sup \in Procs /\ \A s \in Stoppers : s # Sup
  BY DEF TypeOK, Procs
<1> USE <1>0 DEF PcType, Goto, End, Write, fsVars, vmVars, saveVars
<1>1. CASE Launch
  <2>1. CASE LaunchPreflight
    BY <2>1 DEF LaunchPreflight
  <2>2. CASE LaunchWriteSidecars \/ LaunchWritePid \/ LaunchWriteRunning
    BY <2>2 DEF LaunchWriteSidecars, LaunchWritePid, LaunchWriteRunning, LaunchWrite,
       LaunchPreflight
  <2>3. CASE LaunchWriteStarting \/ LaunchSidecars \/ LaunchFork \/ LaunchBoot
               \/ LaunchUnwind \/ LaunchReap
    BY <2>3 DEF LaunchWriteStarting, LaunchSidecars, LaunchFork, LaunchBoot,
       LaunchUnwind, LaunchReap, LaunchPreflight
  <2> QED
    BY <1>1, <2>1, <2>2, <2>3 DEF Launch
<1>2. CASE Session
  BY <1>2 DEF Session, SessionAttach, SessionPoll, SessionSshExit, SessionJudge
<1>3. CASE Finalise
  BY <1>3 DEF Finalise, FinalWriteStopping, FinalPowerdown, FinalAwait, FinalQuit,
     FinalKill
<1>4. ASSUME NEW s \in Stoppers, Teardown(s) PROVE Goal
  <2>1. UNCHANGED <<disk, ckpt, overlay>> /\ pc'[Sup] = pc[Sup]
    BY <1>4 DEF Teardown, StopRead, StopMark, StopHalt, StopWait, StopTerm
  <2>2. outcome' = outcome \/ mem' = mem
    BY <1>4 DEF Teardown, StopRead, StopMark, StopHalt, StopWait, StopTerm
  <2>3. ~LaunchPreflight
    BY <1>4, <2>1 DEF LaunchPreflight
  <2> QED
    BY <2>1, <2>3
<1>5. ASSUME NEW p \in Procs, Cleanup(p) PROVE Goal
  <2>1. pc'[Sup] # "init" \/ pc'[Sup] = pc[Sup]
    BY <1>5 DEF Cleanup, StopSidecars, SaveMark, SaveCopy, SavePublish, SaveDone,
       RemoveFiles, RemoveDir
  <2>2. pc'[Sup] = "init" => ~LaunchPreflight
    BY DEF LaunchPreflight
  <2> QED
    BY <1>5, <2>1, <2>2 DEF Cleanup, StopSidecars, SaveMark, SaveCopy, SavePublish,
       SaveDone, RemoveFiles, RemoveDir
<1>6. CASE Environment
  <2>1. ~LaunchPreflight \/ pc'[Sup] # "init"
    BY DEF LaunchPreflight
  <2> QED
    BY <1>6, <2>1 DEF Environment, GuestWrite, GuestPoweroff, QemuExit, QemuCrash,
       OrphanReap, SidecarDeath, SupKilled, SessionSignal
<1>7. CASE Idle \/ UNCHANGED vars
  <2>1. ~LaunchPreflight \/ pc'[Sup] # "init"
    BY DEF LaunchPreflight
  <2> QED
    BY <1>7, <2>1 DEF Idle, vars
<1> QED
  BY <1>1, <1>2, <1>3, <1>4, <1>5, <1>6, <1>7 DEF Next

(* Destination and identity: a process keeps what it has, but for a stop     *)
(* command that reads vm.json; and vm.json has those of whoever wrote it.    *)
LEMMA IntentSteps ==
  ASSUME TypeOK, [Next]_vars
  PROVE  /\ \A p \in Procs :
              \/ mem'[p].save = mem[p].save /\ mem'[p].id = mem[p].id
              \/ p \in Stoppers /\ pc[p] = "idle" /\ vmjson # None
                 /\ mem'[p] = StopMeta(p)
         /\ \/ vmjson' \in {None, vmjson}
            \/ \E p \in Procs : vmjson'.save = mem[p].save /\ vmjson'.id = mem[p].id
<1> DEFINE Kept == \A p \in Procs : mem'[p].save = mem[p].save /\ mem'[p].id = mem[p].id
           Told == \/ vmjson' \in {None, vmjson}
                   \/ \E p \in Procs : vmjson'.save = mem[p].save /\ vmjson'.id = mem[p].id
<1>0. MetaType /\ Sup \in Procs /\ \A s \in Stoppers : s \in Procs
  BY DEF TypeOK, Procs
<1>1. ASSUME NEW p \in Procs, NEW m,
             m.save = mem[p].save /\ m.id = mem[p].id,
             mem' = [mem EXCEPT ![p] = m], vmjson' = m \/ vmjson' = vmjson
      PROVE  Kept /\ Told
  BY <1>0, <1>1 DEF MetaType
<1>2. ASSUME NEW p \in Procs, NEW st
      PROVE  /\ [mem[p] EXCEPT !.state = st].save = mem[p].save
             /\ [mem[p] EXCEPT !.state = st].id = mem[p].id
             /\ [mem[p] EXCEPT !.side = TRUE].save = mem[p].save
             /\ [mem[p] EXCEPT !.side = TRUE].id = mem[p].id
             /\ [mem[p] EXCEPT !.pid = TRUE, !.state = st].save = mem[p].save
             /\ [mem[p] EXCEPT !.pid = TRUE, !.state = st].id = mem[p].id
  BY <1>0 DEF MetaType, Meta
<1>3. CASE Launch
  <2>1. CASE LaunchWriteSidecars \/ LaunchWritePid \/ LaunchWriteRunning
    <3>1. ASSUME NEW from, NEW to, NEW m, m.save = mem[Sup].save /\ m.id = mem[Sup].id,
                 LaunchWrite(from, m, to)
          PROVE  Kept /\ Told
      BY <1>0, <1>1, <3>1 DEF LaunchWrite, Write, fsVars
    <3> QED
      BY <1>0, <1>2, <2>1, <3>1 DEF LaunchWriteSidecars, LaunchWritePid,
         LaunchWriteRunning
  <2>2. CASE LaunchWriteStarting
    BY <1>0, <1>1, <2>2 DEF LaunchWriteStarting, Write
  <2>3. CASE LaunchReap
    <3>1. CASE Write(Sup, [mem[Sup] EXCEPT !.state = "failed"])
      BY <1>0, <1>1, <1>2, <3>1 DEF Write
    <3>2. CASE UNCHANGED <<mem, fsVars>>
      BY <3>2 DEF fsVars
    <3> QED
      BY <2>3, <3>1, <3>2 DEF LaunchReap
  <2>4. CASE LaunchPreflight \/ LaunchSidecars \/ LaunchFork \/ LaunchBoot
               \/ LaunchUnwind
    BY <2>4 DEF LaunchPreflight, LaunchSidecars, LaunchFork, LaunchBoot, LaunchUnwind,
       fsVars
  <2> QED
    BY <1>3, <2>1, <2>2, <2>3, <2>4 DEF Launch
<1>4. CASE Session
  BY <1>4 DEF Session, SessionAttach, SessionPoll, SessionSshExit, SessionJudge, fsVars
<1>5. CASE Finalise
  <2>1. CASE FinalWriteStopping
    <3>1. CASE Write(Sup, [mem[Sup] EXCEPT !.state = "stopping"])
      BY <1>0, <1>1, <1>2, <3>1 DEF Write
    <3>2. CASE UNCHANGED <<mem, fsVars>>
      BY <3>2 DEF fsVars
    <3> QED
      BY <2>1, <3>1, <3>2 DEF FinalWriteStopping
  <2> QED
    BY <1>5, <2>1 DEF Finalise, FinalPowerdown, FinalAwait, FinalQuit, FinalKill, fsVars
<1>6. ASSUME NEW s \in Stoppers, Teardown(s)
      PROVE  /\ \/ Kept
                \/ /\ \A p \in Procs \ {s} : mem'[p] = mem[p]
                   /\ pc[s] = "idle" /\ vmjson # None /\ mem'[s] = StopMeta(s)
             /\ Told
  <2>1. CASE StopRead(s)
    BY <1>0, <2>1 DEF StopRead, fsVars, MetaType
  <2>2. CASE StopMark(s)
    <3>1. CASE Write(s, mem[s])
      BY <1>0, <1>1, <3>1 DEF Write
    <3>2. CASE UNCHANGED <<mem, fsVars>>
      BY <3>2 DEF fsVars
    <3> QED
      BY <2>2, <3>1, <3>2 DEF StopMark
  <2> QED
    BY <1>6, <2>1, <2>2 DEF Teardown, StopHalt, StopWait, StopTerm, fsVars
<1>7. ASSUME NEW p \in Procs, Cleanup(p) PROVE Kept /\ Told
  <2>1. CASE SaveMark(p) \/ SaveDone(p)
    <3>1. ASSUME NEW st, Write(p, [mem[p] EXCEPT !.state = st]) PROVE Kept /\ Told
      BY <1>1, <1>2, <3>1 DEF Write
    <3>2. CASE UNCHANGED <<mem, fsVars>>
      BY <3>2 DEF fsVars
    <3> QED
      BY <2>1, <3>1, <3>2 DEF SaveMark, SaveDone
  <2> QED
    BY <1>7, <2>1 DEF Cleanup, StopSidecars, SaveCopy, SavePublish, RemoveFiles,
       RemoveDir, fsVars
<1>8. CASE Environment
  BY <1>8 DEF Environment, GuestWrite, GuestPoweroff, QemuExit, QemuCrash, OrphanReap,
     SidecarDeath, SupKilled, SessionSignal, fsVars
<1>9. CASE Idle \/ UNCHANGED vars
  BY <1>9 DEF Idle, vars, fsVars
<1> QED
  BY <1>3, <1>4, <1>5, <1>6, <1>7, <1>8, <1>9 DEF Next

SaveStations == {"save", "copy", "publish", "saved"}
PastSave == {"saved", "remove", "rmdir"}

(* How a process comes to save, to be past its save, or to have failed. *)
LEMMA SaveSteps ==
  ASSUME TypeOK, [Next]_vars, NEW p \in Procs
  PROVE  /\ pc'[p] \in SaveStations => pc[p] \in SaveStations \/ StopSidecars(p)
         /\ pc'[p] \in PastSave =>
              pc[p] \in PastSave \/ StopSidecars(p) \/ SaveCopy(p) \/ SavePublish(p)
         /\ outcome'[p] = "save-failed" =>
              \/ outcome[p] = "save-failed"
              \/ pc[p] \in SaveStations /\ pc'[p] = "done"
         /\ pc[p] = "done" => pc'[p] = "done"
         /\ copied'[p] = copied[p] \/ SaveCopy(p)
<1> DEFINE Goal ==
         /\ pc'[p] \in SaveStations => pc[p] \in SaveStations \/ StopSidecars(p)
         /\ pc'[p] \in PastSave =>
              pc[p] \in PastSave \/ StopSidecars(p) \/ SaveCopy(p) \/ SavePublish(p)
         /\ outcome'[p] = "save-failed" =>
              \/ outcome[p] = "save-failed"
              \/ pc[p] \in SaveStations /\ pc'[p] = "done"
         /\ pc[p] = "done" => pc'[p] = "done"
         /\ copied'[p] = copied[p] \/ SaveCopy(p)
<1>0. /\ PcType /\ EndType /\ SaveType
      /\ Sup \in Procs /\ \A s \in Stoppers : s # Sup /\ s \in Procs
  BY DEF TypeOK, Procs
<1> USE <1>0 DEF PcType, EndType, SaveType, Goto, End, SaveStations, PastSave, saveVars
<1>1. CASE Launch
  <2>1. CASE LaunchWriteSidecars \/ LaunchWritePid \/ LaunchWriteRunning
    BY <2>1 DEF LaunchWriteSidecars, LaunchWritePid, LaunchWriteRunning, LaunchWrite
  <2>2. CASE LaunchPreflight \/ LaunchReap
    BY <2>2 DEF LaunchPreflight, LaunchReap
  <2> QED
    BY <1>1, <2>1, <2>2 DEF Launch, LaunchWriteStarting, LaunchSidecars, LaunchFork,
       LaunchBoot, LaunchUnwind
<1>2. CASE Session
  BY <1>2 DEF Session, SessionAttach, SessionPoll, SessionSshExit, SessionJudge
<1>3. CASE Finalise
  BY <1>3 DEF Finalise, FinalWriteStopping, FinalPowerdown, FinalAwait, FinalQuit,
     FinalKill
<1>4. ASSUME NEW s \in Stoppers, Teardown(s) PROVE Goal
  BY <1>4 DEF Teardown, StopRead, StopMark, StopHalt, StopWait, StopTerm
<1>5. ASSUME NEW r \in Procs, Cleanup(r) PROVE Goal
  <2>1. CASE StopSidecars(r)
    BY <2>1 DEF StopSidecars
  <2>2. CASE SaveMark(r)
    BY <2>2 DEF SaveMark
  <2>3. CASE SaveCopy(r)
    BY <2>3 DEF SaveCopy
  <2>4. CASE SavePublish(r)
    BY <2>4 DEF SavePublish
  <2>5. CASE SaveDone(r)
    BY <2>5 DEF SaveDone
  <2>6. CASE RemoveFiles(r) \/ RemoveDir(r)
    BY <2>6 DEF RemoveFiles, RemoveDir
  <2> QED
    BY <1>5, <2>1, <2>2, <2>3, <2>4, <2>5, <2>6 DEF Cleanup
<1>6. CASE Environment
  BY <1>6 DEF Environment, GuestWrite, GuestPoweroff, QemuExit, QemuCrash,
     OrphanReap, SidecarDeath, SupKilled, SessionSignal
<1>7. CASE Idle \/ UNCHANGED vars
  BY <1>7 DEF Idle, vars
<1> QED
  BY <1>1, <1>2, <1>3, <1>4, <1>5, <1>6, <1>7 DEF Next

(* The metadata a stop command makes of vm.json. *)
LEMMA StopMetaFields ==
  ASSUME TypeOK, vmjson # None, NEW s \in Stoppers
  PROVE  /\ StopMeta(s).save = IF StopSave[s] = None THEN vmjson.save ELSE StopSave[s]
         /\ StopMeta(s).id = IF StopSave[s] = None THEN vmjson.id ELSE s
BY DEF TypeOK, MetaType, Meta, StopMeta

(* A destination never goes without an identity. *)
LEMMA NamedStep == TypeOK /\ NamedInv /\ [Next]_vars => NamedInv'
<1> SUFFICES ASSUME TypeOK, NamedInv, [Next]_vars PROVE NamedInv'
  OBVIOUS
<1>1. ASSUME NEW p \in Procs, mem'[p].save # None PROVE mem'[p].id # None
  <2>1. CASE mem'[p].save = mem[p].save /\ mem'[p].id = mem[p].id
    BY <1>1, <2>1 DEF NamedInv
  <2>2. CASE p \in Stoppers /\ vmjson # None /\ mem'[p] = StopMeta(p)
    BY <1>1, <2>2, StopMetaFields DEF NamedInv
  <2> QED
    BY <2>1, <2>2, IntentSteps
<1>2. vmjson' # None /\ vmjson'.save # None => vmjson'.id # None
  <2>1. CASE vmjson' \in {None, vmjson}
    BY <2>1 DEF NamedInv
  <2>2. ASSUME NEW p \in Procs, vmjson'.save = mem[p].save /\ vmjson'.id = mem[p].id
        PROVE  vmjson'.save # None => vmjson'.id # None
    BY <2>2 DEF NamedInv
  <2> QED
    BY <2>1, <2>2, IntentSteps
<1> QED
  BY <1>1, <1>2 DEF NamedInv

(* The launch's intent to save reaches everyone who reads vm.json. *)
LEMMA IntentStep == TypeOK /\ IntentInv /\ [Next]_vars => IntentInv'
<1> SUFFICES ASSUME TypeOK, IntentInv, [Next]_vars PROVE IntentInv'
  OBVIOUS
<1>0. Sup \in Procs /\ Sup \notin Stoppers /\ \A s \in Stoppers : s \in Procs
  BY DEF Procs
<1>1. mem'[Sup].save = mem[Sup].save
  BY <1>0, IntentSteps
<1>2. ASSUME NEW p \in Procs
      PROVE  \/ mem'[p].save = mem[p].save
             \/ /\ p \in Stoppers /\ vmjson # None
                /\ mem'[p].save = IF StopSave[p] = None THEN vmjson.save
                                  ELSE StopSave[p]
  BY IntentSteps, StopMetaFields
<1>3. \/ vmjson' \in {None, vmjson}
      \/ \E p \in Procs : vmjson'.save = mem[p].save
  BY IntentSteps
<1>4. ASSUME mem[Sup].save # None
      PROVE  /\ \A p \in Procs : mem'[p].save # None
             /\ vmjson' # None => vmjson'.save # None
  BY <1>2, <1>3, <1>4 DEF IntentInv
<1>5. ASSUME mem[Sup].save = None, \A s \in Stoppers : StopSave[s] = None
      PROVE  /\ \A p \in Procs : mem'[p].save = None
             /\ vmjson' # None => vmjson'.save = None
  BY <1>2, <1>3, <1>5 DEF IntentInv
<1> QED
  BY <1>1, <1>4, <1>5 DEF IntentInv

(* A checkpoint of this VM stays what it is: a destination that is taken is   *)
(* never published to again. *)
LEMMA OwnStays ==
  ASSUME TypeOK, [Next]_vars, NEW d \in Dest
  PROVE  /\ ckpt[d] # None => ckpt'[d] = ckpt[d]
         /\ Own(d) => Own(d)'
         /\ ckpt'[d] # ckpt[d] =>
              \E p \in Procs :
                /\ SavePublish(p) /\ mem[p].save = d
                /\ ckpt'[d].version = copied[p] /\ ckpt'[d].id = mem[p].id
                /\ ckpt'[d] # None
<1>0. SaveType /\ MetaType /\ EndType
  BY DEF TypeOK
<1>1. ASSUME NEW p \in Procs, SavePublish(p), ckpt' # ckpt
      PROVE  /\ ckpt[mem[p].save] = None
             /\ ckpt' = [ckpt EXCEPT ![mem[p].save] =
                  [id |-> mem[p].id, version |-> copied[p], label |-> label[p]]]
  BY <1>1 DEF SavePublish
<1>2. ASSUME NEW p \in Procs
      PROVE  [id |-> mem[p].id, version |-> copied[p], label |-> label[p]] # None
  <2>1. [id |-> mem[p].id, version |-> copied[p], label |-> label[p]] \in Checkpoints
    BY <1>0 DEF SaveType, MetaType, Meta, EndType, Checkpoints
  <2> QED
    BY <2>1, NoneAssumption
<1>3. CASE ckpt'[d] = ckpt[d]
  BY <1>3 DEF Own
<1>4. CASE ckpt'[d] # ckpt[d]
  <2>1. PICK p \in Procs : SavePublish(p)
    BY <1>4, Frames
  <2>2. /\ mem[p].save = d /\ ckpt[d] = None
        /\ ckpt'[d] = [id |-> mem[p].id, version |-> copied[p], label |-> label[p]]
    BY <1>0, <1>1, <1>4, <2>1 DEF SaveType
  <2> QED
    BY <1>2, <2>1, <2>2 DEF Own
<1> QED
  BY <1>3, <1>4

(* The stations of a save. *)
LEMMA StationStep ==
  ASSUME TypeOK, NamedInv, StationInv, CopyInv, [Next]_vars
  PROVE  StationInv'
<1>0. /\ PcType /\ SaveType /\ MetaType
      /\ Sup \in Procs /\ \A s \in Stoppers : s \in Procs
  BY DEF TypeOK, Procs
<1>1. HasOwn => HasOwn'
  BY OwnStays DEF HasOwn
<1> SUFFICES ASSUME NEW p \in Procs
             PROVE  /\ pc'[p] \in SaveStations => mem'[p].save # None
                    /\ pc'[p] = "publish" => copied'[p] = disk'
                    /\ pc'[p] \in PastSave /\ mem'[p].save # None => HasOwn'
                    /\ outcome'[p] = "save-failed" =>
                         pc'[p] = "done" /\ mem'[p].save # None
  BY DEF StationInv, SaveStations, PastSave
<1>2. pc[p] # "idle" => mem'[p].save = mem[p].save
  BY IntentSteps
<1>3. pc'[p] \in SaveStations => mem'[p].save # None
  <2>1. CASE pc[p] \in SaveStations
    BY <1>2, <2>1 DEF StationInv, SaveStations
  <2>2. CASE StopSidecars(p) /\ pc'[p] \in SaveStations
    BY <1>0, <1>2, <2>2 DEF StopSidecars, SaveStations, Goto, PcType
  <2> QED
    BY <2>1, <2>2, SaveSteps
<1>4. pc'[p] = "publish" => copied'[p] = disk'
  <2>1. CASE pc[p] = "publish"
    <3>1. ~GuestWrite
      BY <2>1 DEF CopyInv, HoldsDisk, GuestWrite
    <3>2. ~SaveCopy(p)
      BY <2>1 DEF SaveCopy
    <3> QED
      BY <2>1, <3>1, <3>2, Frames, SaveSteps DEF StationInv
  <2>2. CASE pc[p] # "publish" /\ pc'[p] = "publish"
    <3>1. SaveCopy(p)
      BY <2>2, CopyStarts
    <3> QED
      BY <1>0, <2>2, <3>1 DEF SaveCopy, Goto, End, PcType, SaveType, vmVars
  <2> QED
    BY <2>1, <2>2
<1>5. pc'[p] \in PastSave /\ mem'[p].save # None => HasOwn'
  <2> SUFFICES ASSUME pc'[p] \in PastSave, mem'[p].save # None PROVE HasOwn'
    OBVIOUS
  <2>1. CASE pc[p] \in PastSave
    BY <1>1, <1>2, <2>1 DEF StationInv, PastSave
  <2>2. CASE StopSidecars(p)
    BY <1>0, <1>2, <2>2 DEF StopSidecars, PastSave, Goto, PcType
  <2>3. CASE SaveCopy(p)
    <3>1. mem[p].save \in Dest /\ mem[p].id # None
      BY <1>0, <1>2, <2>3 DEF SaveCopy, MetaType, Meta, NamedInv
    <3>2. ckpt[mem[p].save] # None /\ ckpt[mem[p].save].id = mem[p].id
      BY <1>0, <2>3 DEF SaveCopy, Goto, End, PcType, PastSave
    <3> QED
      BY <1>1, <3>1, <3>2 DEF HasOwn, Own
  <2>4. CASE SavePublish(p)
    <3>1. mem[p].save \in Dest /\ mem[p].id # None
      BY <1>0, <1>2, <2>4 DEF SavePublish, MetaType, Meta, NamedInv
    <3>2. /\ ckpt[mem[p].save] = None
          /\ ckpt' = [ckpt EXCEPT ![mem[p].save] =
               [id |-> mem[p].id, version |-> copied[p], label |-> label[p]]]
      BY <1>0, <2>4 DEF SavePublish, Goto, End, PcType, PastSave
    <3>3. ckpt'[mem[p].save].id # None /\ ckpt'[mem[p].save] # None
      <4>1. ckpt'[mem[p].save] =
              [id |-> mem[p].id, version |-> copied[p], label |-> label[p]]
        BY <1>0, <3>1, <3>2 DEF SaveType
      <4>2. ckpt'[mem[p].save] \in Checkpoints
        BY <1>0, <4>1 DEF TypeOK, SaveType, MetaType, Meta, EndType, Checkpoints
      <4> QED
        BY <3>1, <4>1, <4>2, NoneAssumption
    <3> QED
      BY <3>1, <3>3 DEF HasOwn, Own
  <2> QED
    BY <2>1, <2>2, <2>3, <2>4, SaveSteps
<1>6. outcome'[p] = "save-failed" => pc'[p] = "done" /\ mem'[p].save # None
  <2>1. CASE outcome[p] = "save-failed"
    BY <1>2, <2>1, SaveSteps DEF StationInv
  <2>2. CASE pc[p] \in SaveStations /\ pc'[p] = "done"
    BY <1>2, <2>2 DEF StationInv, SaveStations
  <2> QED
    BY <2>1, <2>2, SaveSteps
<1> QED
  BY <1>3, <1>4, <1>5, <1>6

(* What a checkpoint of this VM holds stays everything there is: nothing is   *)
(* written and QEMU is not started any more. *)
LEMMA OwnStep ==
  ASSUME TypeOK, NamedInv, StationInv, OwnInv, CopyInv, [Next]_vars
  PROVE  OwnInv'
<1>0. PcType /\ Sup \in Procs /\ \A s \in Stoppers : s \in Procs /\ s # Sup
  BY DEF TypeOK, Procs
<1>1. ASSUME NEW p \in Procs, pc[p] = "publish" PROVE ~HoldsDisk /\ ~Launching
  BY <1>0, <1>1 DEF CopyInv, Launching, LaunchPC, Procs
<1>2. HasOwn' => ~HoldsDisk /\ ~Launching
  <2>1. CASE HasOwn
    BY <2>1 DEF OwnInv
  <2>2. CASE ~HasOwn /\ HasOwn'
    <3>1. PICK d \in Dest : Own(d)' /\ ~Own(d)
      BY <2>2 DEF HasOwn
    <3>2. PICK p \in Procs : SavePublish(p)
      BY <3>1, OwnStays DEF Own
    <3> QED
      BY <1>1, <3>2 DEF SavePublish
  <2> QED
    BY <2>1, <2>2
<1>3. HasOwn' => ~HoldsDisk' /\ ~Launching' /\ disk' = disk
  <2> SUFFICES ASSUME HasOwn' PROVE ~HoldsDisk' /\ ~Launching' /\ disk' = disk
    OBVIOUS
  <2>1. ~LaunchFork /\ ~GuestWrite
    BY <1>2 DEF LaunchFork, GuestWrite, HoldsDisk, Launching, LaunchPC
  <2> QED
    BY <1>2, <2>1, QemuForward, SupSteps, Frames DEF Launching
<1>4. ASSUME NEW d \in Dest, Own(d)' PROVE ckpt'[d].version = disk'
  <2>0. disk' = disk
    BY <1>3, <1>4 DEF HasOwn
  <2>1. CASE ckpt'[d] = ckpt[d]
    BY <1>4, <2>0, <2>1 DEF OwnInv, Own
  <2>2. CASE ckpt'[d] # ckpt[d]
    <3>1. PICK p \in Procs : SavePublish(p) /\ ckpt'[d].version = copied[p]
      BY <2>2, OwnStays
    <3> QED
      BY <2>0, <3>1 DEF StationInv, SavePublish
  <2> QED
    BY <2>1, <2>2
<1>5. qemu' = "none" => disk' = 0
  <2>1. CASE LaunchFork
    BY <2>1 DEF LaunchFork
  <2>2. CASE ~LaunchFork
    <3>1. qemu' = "none" => qemu = "none"
      BY <2>2, QemuForward
    <3>2. qemu = "none" => ~GuestWrite
      BY DEF GuestWrite
    <3> QED
      BY <3>1, <3>2, Frames DEF OwnInv
  <2> QED
    BY <2>1, <2>2
<1> QED
  BY <1>3, <1>4, <1>5 DEF OwnInv

(* What has not begun stays so, or begins with an overlay. *)
LEMMA NotBegunStep ==
  ASSUME TypeOK, NotBegun, [Next]_vars
  PROVE  overlay' \/ NotBegun'
<1>0. /\ PcType /\ EndType
      /\ Sup \in Procs /\ \A s \in Stoppers : s # Sup /\ s \in Procs
      /\ \A p \in Procs : p = Sup \/ p \in Stoppers
  BY DEF TypeOK, Procs
<1> USE <1>0 DEF NotBegun, PcType, EndType, Goto, End
<1>1. CASE Launch
  <2>1. LaunchPreflight
    BY <1>1 DEF Launch, LaunchWriteStarting, LaunchSidecars, LaunchWriteSidecars,
       LaunchFork, LaunchWritePid, LaunchBoot, LaunchWrite, LaunchWriteRunning,
       LaunchUnwind, LaunchReap
  <2> QED
    BY <2>1 DEF LaunchPreflight, vmVars
<1>2. ~Session
  BY DEF Session, SessionAttach, SessionPoll, SessionSshExit, SessionJudge
<1>3. ~Finalise
  BY DEF Finalise, FinalWriteStopping, FinalPowerdown, FinalAwait, FinalQuit,
     FinalKill
<1>4. ASSUME NEW s \in Stoppers, Teardown(s) PROVE NotBegun'
  <2>1. StopRead(s)
    BY <1>4 DEF Teardown, StopMark, StopHalt, StopWait, StopTerm
  <2> QED
    BY <2>1 DEF StopRead, fsVars, vmVars
<1>5. ASSUME NEW p \in Procs, Cleanup(p) PROVE FALSE
  BY <1>5 DEF Cleanup, StopSidecars, SaveMark, SaveCopy, SavePublish, SaveDone,
     RemoveFiles, RemoveDir
<1>6. CASE Environment
  <2>1. CASE SupKilled
    BY <2>1 DEF SupKilled, fsVars, vmVars
  <2> QED
    BY <1>6, <2>1 DEF Environment, GuestWrite, GuestPoweroff, QemuExit, QemuCrash,
       OrphanReap, SidecarDeath, SessionSignal, fsVars, vmVars
<1>7. CASE Idle \/ UNCHANGED vars
  BY <1>7 DEF Idle, vars, fsVars, vmVars
<1> QED
  BY <1>1, <1>2, <1>3, <1>4, <1>5, <1>6, <1>7 DEF Next

(* The overlay goes only when a checkpoint is there. *)
LEMMA OverlayStep ==
  ASSUME TypeOK, IntentInv, StationInv, OwnInv, OverlayInv, [Next]_vars
  PROVE  OverlayInv'
<1>0. Sup \in Procs /\ Sup \notin Stoppers
  BY DEF Procs
<1>1. mem'[Sup].save # None => mem[Sup].save # None
  BY <1>0, IntentSteps
<1>2. HasOwn => HasOwn'
  BY OwnStays DEF HasOwn
<1>3. ASSUME mem[Sup].save # None PROVE overlay' \/ HasOwn' \/ NotBegun'
  <2>1. CASE HasOwn
    BY <1>2, <2>1
  <2>2. CASE NotBegun
    BY <2>2, NotBegunStep
  <2>3. CASE overlay /\ ~HasOwn
    <3>1. ~LaunchPreflight
      BY <2>3 DEF LaunchPreflight, OverlayInv
    <3>2. ASSUME NEW p \in Procs, RemoveFiles(p) PROVE FALSE
      BY <1>3, <2>3, <3>2 DEF RemoveFiles, StationInv, IntentInv
    <3> QED
      BY <2>3, <3>1, <3>2, Frames
  <2> QED
    BY <1>3, <2>1, <2>2, <2>3 DEF OverlayInv
<1>4. pc'[Sup] = "init" => ~overlay'
  <2> SUFFICES ASSUME pc'[Sup] = "init" PROVE ~overlay'
    OBVIOUS
  <2>1. pc[Sup] = "init" /\ ~LaunchPreflight
    BY Frames
  <2>2. ASSUME NEW p \in Procs, RemoveFiles(p) PROVE ~overlay'
    BY <2>2 DEF RemoveFiles
  <2> QED
    BY <2>1, <2>2, Frames DEF OverlayInv
<1> QED
  BY <1>1, <1>3, <1>4 DEF OverlayInv

(* Together: SaveInv is an invariant while no user stops a VM that is still   *)
(* being launched. *)
LEMMA SaveInvAlways ==
  ASSUME ~EarlyStop
  PROVE  Spec => []SaveInv
<1>1. Init => SaveInv
  <2> SUFFICES ASSUME Init PROVE SaveInv
    OBVIOUS
  <2>0. Sup \in Procs
    BY DEF Procs
  <2>1. PICK save \in LaunchSaves : mem = [p \in Procs |-> NewMeta(save)]
    BY DEF Init
  <2>2. NamedInv /\ IntentInv
    BY <2>0, <2>1 DEF Init, NamedInv, IntentInv, NewMeta
  <2>3. StationInv
    BY DEF Init, StationInv
  <2>4. OwnInv
    BY DEF Init, OwnInv, HasOwn, Own, ForeignCheckpoint
  <2>5. OverlayInv
    BY <2>0 DEF Init, OverlayInv, NotBegun, Procs
  <2> QED
    BY <2>2, <2>3, <2>4, <2>5 DEF SaveInv
<1>2. TypeOK /\ CopyInv /\ SaveInv /\ [Next]_vars => SaveInv'
  BY NamedStep, IntentStep, StationStep, OwnStep, OverlayStep DEF SaveInv
<1>3. Spec => []CopyInv
  BY CopyInvAlways
<1> QED
  BY <1>1, <1>2, <1>3, TypeCorrect, PTL DEF Spec

(* A checkpoint of this VM has the guest's data. *)
LEMMA OwnIsSafe == OwnInv /\ HasOwn => DataSafe
BY DEF OwnInv, HasOwn, Own, DataSafe

(* With a save requested at the launch, what the guest wrote is never        *)
(* removed before a checkpoint holds it, wherever the supervisor is killed   *)
(* and however many stop commands run, as long as none starts during the     *)
(* launch. *)
THEOREM LaunchSaveNeverLostAlways ==
  ASSUME ~EarlyStop
  PROVE  Spec => []LaunchSaveNeverLost
<1>1. SaveInv => LaunchSaveNeverLost
  BY OwnIsSafe DEF SaveInv, OverlayInv, OwnInv, NotBegun, LaunchSaveNeverLost,
     DataSafe
<1>2. Spec => []SaveInv
  BY SaveInvAlways
<1> QED
  BY <1>1, <1>2, PTL

(* Nobody reports a failed save while the data is gone, when either every    *)
(* launch asks for a save or no stop command does: when some processes save   *)
(* and others do not, one that does not may remove what another failed to    *)
(* save. *)
THEOREM FailedSaveKeepsOverlayAlways ==
  ASSUME ~EarlyStop,
         None \notin LaunchSaves \/ \A s \in Stoppers : StopSave[s] = None
  PROVE  Spec => []FailedSaveKeepsOverlay
<1>1. SaveInv => FailedSaveKeepsOverlay
  <2> SUFFICES ASSUME SaveInv, NEW p \in Procs, outcome[p] = "save-failed"
               PROVE  DataSafe
    BY DEF FailedSaveKeepsOverlay
  <2>1. mem[p].save # None
    BY DEF SaveInv, StationInv
  <2>2. mem[Sup].save # None
    BY <2>1 DEF SaveInv, IntentInv
  <2>3. overlay \/ HasOwn
    BY <2>2 DEF SaveInv, OverlayInv, NotBegun
  <2> QED
    BY <2>3, OwnIsSafe DEF SaveInv, DataSafe
<1>2. Spec => []SaveInv
  BY SaveInvAlways
<1> QED
  BY <1>1, <1>2, PTL
=============================================================================
