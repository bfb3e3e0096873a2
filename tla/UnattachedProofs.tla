-------------------------- MODULE UnattachedProofs ---------------------------
(***************************************************************************)
(* What the unattached commands leave behind, for any number of signals and *)
(* with any combination of commands, failing sidecars and a stop beside.    *)
(* The threads of the handler only move QEMU towards its exit, so what the  *)
(* main thread has learnt of it stays true whatever they do later.          *)
(***************************************************************************)
EXTENDS Unattached, TLAPS

\* The station of the main thread bounds QEMU's state, and that of the sidecars.
Known ==
  /\ pc \in {"left", "mark", "sidecars", "save"} => qemu = "reaped"
  /\ pc \in {"cleanup", "ended"} => ~QemuAlive
  /\ pc \in {"save", "ended"} => side = "down"

\* Only `run' saves, and its disk is not given up before the checkpoint exists.
Kept ==
  /\ pc \in {"session", "ask", "poll"} => cmd = "ssh"
  /\ save => cmd = "run" /\ (remove => ckpt)

\* The inductive invariant.
IInv == TypeOK /\ Known /\ Kept

\* The initial states satisfy it.
LEMMA InitIInv == Init => IInv
<1> SUFFICES ASSUME Init PROVE IInv
  OBVIOUS
<1>1. /\ remove \in BOOLEAN /\ timer \in BOOLEAN /\ killer \in BOOLEAN /\ reused \in BOOLEAN
      /\ marked \in BOOLEAN /\ dir \in BOOLEAN /\ ckpt \in BOOLEAN /\ victim \in BOOLEAN
  BY DEF Init
<1>2. attempts \in 0..3 /\ signals \in 0..MaxSignals
  BY UnattachedAssumption DEF Init
<1>3. TypeOK
  BY <1>1, <1>2 DEF Init, TypeOK
<1> QED
  BY <1>3 DEF Init, IInv, Known, Kept, QemuAlive

\* What a signal does to the handler's state, the timer's signal to itself included.
LEMMA OnSignalTyped ==
  ASSUME TypeOK, OnSignal
  PROVE  /\ attempts' \in 0..3 /\ jobs' \subseteq {"powerdown", "quit"}
         /\ timer' \in BOOLEAN /\ killer' \in BOOLEAN
<1>1. attempts \in 0..3 /\ jobs \subseteq {"powerdown", "quit"} /\ killer \in BOOLEAN
  BY DEF TypeOK
<1>2. attempts' \in 0..3
  BY <1>1 DEF OnSignal
<1>3. jobs' = jobs \cup {"powerdown"} \/ jobs' = jobs \cup {"quit"}
  BY DEF OnSignal
<1>4. jobs' \subseteq {"powerdown", "quit"}
  BY <1>1, <1>3
<1>5. timer' \in BOOLEAN /\ killer' \in BOOLEAN
  BY <1>1 DEF OnSignal
<1> QED
  BY <1>2, <1>4, <1>5

\* The main thread keeps the invariant, ...
LEMMA MainStep ==
  ASSUME IInv,
         LoopWait \/ LoopGoOn \/ LoopBlame \/ Kill \/ Left \/ RunMark \/ RunSidecars
         \/ RunSave \/ Cleanup \/ SshEnds \/ SshAsk \/ SshPoll
  PROVE  IInv'
<1> USE UnattachedAssumption
<1>0. TypeOK /\ Known /\ Kept
  BY DEF IInv
<1>1. CASE LoopWait
  <2> USE <1>1 DEF LoopWait, callVars, sigVars, vmVars, fsVars
  <2>1. timer' \in BOOLEAN
    BY <1>0 DEF TypeOK
  <2>3. TypeOK'
    BY <1>0, <2>1 DEF TypeOK, QemuAlive
  <2>4. Known'
    BY <1>0 DEF TypeOK, Known, QemuAlive
  <2>5. Kept'
    BY <1>0 DEF TypeOK, Kept
  <2> QED
    BY <2>3, <2>4, <2>5 DEF IInv
<1>2. CASE LoopGoOn
  <2> USE <1>2 DEF LoopGoOn, callVars, sigVars, vmVars, fsVars
  <2>3. TypeOK'
    BY <1>0 DEF TypeOK, QemuAlive
  <2>4. Known'
    BY <1>0 DEF TypeOK, Known, QemuAlive
  <2>5. Kept'
    BY <1>0 DEF TypeOK, Kept
  <2> QED
    BY <2>3, <2>4, <2>5 DEF IInv
<1>3. CASE LoopBlame
  <2> USE <1>3 DEF LoopBlame, callVars, sigVars, vmVars, fsVars
  <2>3. TypeOK'
    BY <1>0 DEF TypeOK, QemuAlive
  <2>4. Known'
    BY <1>0 DEF TypeOK, Known, QemuAlive
  <2>5. Kept'
    BY <1>0 DEF TypeOK, Kept
  <2> QED
    BY <2>3, <2>4, <2>5 DEF IInv
<1>4. CASE Kill
  <2> USE <1>4 DEF Kill, callVars, sigVars, vmVars, fsVars
  <2>1. remove' \in BOOLEAN
    BY <1>0 DEF TypeOK
  <2>3. TypeOK'
    BY <1>0, <2>1 DEF TypeOK, QemuAlive
  <2>4. Known'
    BY <1>0 DEF TypeOK, Known, QemuAlive
  <2>5. Kept'
    BY <1>0 DEF TypeOK, Kept
  <2> QED
    BY <2>3, <2>4, <2>5 DEF IInv
<1>5. CASE Left
  <2> USE <1>5 DEF Left, callVars, sigVars, vmVars, fsVars
  <2>1. remove' \in BOOLEAN
    BY <1>0 DEF TypeOK
  <2>3. TypeOK'
    BY <1>0, <2>1 DEF TypeOK, QemuAlive
  <2>4. Known'
    BY <1>0 DEF TypeOK, Known, QemuAlive
  <2>5. Kept'
    BY <1>0 DEF TypeOK, Kept
  <2> QED
    BY <2>3, <2>4, <2>5 DEF IInv
<1>6. CASE RunMark
  <2> USE <1>6 DEF RunMark, callVars, sigVars, vmVars, fsVars
  <2>1. marked' \in BOOLEAN
    BY <1>0 DEF TypeOK
  <2>3. TypeOK'
    BY <1>0, <2>1 DEF TypeOK, QemuAlive
  <2>4. Known'
    BY <1>0 DEF TypeOK, Known, QemuAlive
  <2>5. Kept'
    BY <1>0 DEF TypeOK, Kept
  <2> QED
    BY <2>3, <2>4, <2>5 DEF IInv
<1>7. CASE RunSidecars
  <2> USE <1>7 DEF RunSidecars, callVars, sigVars, vmVars, fsVars
  <2>1. remove' \in BOOLEAN
    BY <1>0 DEF TypeOK
  <2>3. TypeOK'
    BY <1>0, <2>1 DEF TypeOK, QemuAlive
  <2>4. Known'
    BY <1>0 DEF TypeOK, Known, QemuAlive
  <2>5. Kept'
    BY <1>0 DEF TypeOK, Kept
  <2> QED
    BY <2>3, <2>4, <2>5 DEF IInv
<1>8. CASE RunSave
  <2> USE <1>8 DEF RunSave, callVars, sigVars, vmVars, fsVars
  <2>1. ckpt' \in BOOLEAN /\ remove' \in BOOLEAN
    BY <1>0 DEF TypeOK
  <2>3. TypeOK'
    BY <1>0, <2>1 DEF TypeOK, QemuAlive
  <2>4. Known'
    BY <1>0 DEF TypeOK, Known, QemuAlive
  <2>5. Kept'
    BY <1>0 DEF TypeOK, Kept
  <2> QED
    BY <2>3, <2>4, <2>5 DEF IInv
<1>9. CASE Cleanup
  <2> USE <1>9 DEF Cleanup, callVars, sigVars, vmVars, fsVars
  <2>1. dir' \in BOOLEAN
    BY <1>0 DEF TypeOK
  <2>3. TypeOK'
    BY <1>0, <2>1 DEF TypeOK, QemuAlive
  <2>4. Known'
    BY <1>0 DEF TypeOK, Known, QemuAlive
  <2>5. Kept'
    BY <1>0 DEF TypeOK, Kept
  <2> QED
    BY <2>3, <2>4, <2>5 DEF IInv
<1>10. CASE SshEnds
  <2> USE <1>10 DEF SshEnds, callVars, sigVars, vmVars, fsVars
  <2>3. TypeOK'
    BY <1>0 DEF TypeOK, QemuAlive
  <2>4. Known'
    BY <1>0 DEF TypeOK, Known, QemuAlive
  <2>5. Kept'
    BY <1>0 DEF TypeOK, Kept
  <2> QED
    BY <2>3, <2>4, <2>5 DEF IInv
<1>11. CASE SshAsk
  <2> USE <1>11 DEF SshAsk, callVars, sigVars, vmVars, fsVars
  <2>3. TypeOK'
    BY <1>0 DEF TypeOK, QemuAlive
  <2>4. Known'
    BY <1>0 DEF TypeOK, Known, QemuAlive
  <2>5. Kept'
    BY <1>0 DEF TypeOK, Kept
  <2> QED
    BY <2>3, <2>4, <2>5 DEF IInv
<1>12. CASE SshPoll
  <2> USE <1>12 DEF SshPoll, callVars, sigVars, vmVars, fsVars
  <2>1. remove' \in BOOLEAN
    BY <1>0 DEF TypeOK
  <2>3. TypeOK'
    BY <1>0, <2>1 DEF TypeOK, QemuAlive
  <2>4. Known'
    BY <1>0 DEF TypeOK, Known, QemuAlive
  <2>5. Kept'
    BY <1>0 DEF TypeOK, Kept
  <2> QED
    BY <2>3, <2>4, <2>5 DEF IInv
<1> QED
  BY <1>1, <1>2, <1>3, <1>4, <1>5, <1>6, <1>7, <1>8, <1>9, <1>10, <1>11, <1>12

\* ... so do the handler, the timers and the request threads, ...
LEMMA SignalStep ==
  ASSUME IInv,
         Signal \/ Die \/ TimerFires \/ KillerFires \/ QmpThread
  PROVE  IInv'
<1> USE UnattachedAssumption
<1>0. TypeOK /\ Known /\ Kept
  BY DEF IInv
<1>1. CASE Signal
  <2> USE <1>1 DEF Signal, callVars, sigVars, vmVars, fsVars
  <2>2. signals' \in 0..MaxSignals
    BY <1>0 DEF TypeOK
  <2>3. TypeOK'
    BY <1>0, <2>2, OnSignalTyped DEF TypeOK, QemuAlive
  <2>4. Known'
    BY <1>0 DEF TypeOK, Known, QemuAlive
  <2>5. Kept'
    BY <1>0 DEF TypeOK, Kept
  <2> QED
    BY <2>3, <2>4, <2>5 DEF IInv
<1>2. CASE Die
  <2> USE <1>2 DEF Die, callVars, sigVars, vmVars, fsVars
  <2>2. signals' \in 0..MaxSignals
    BY <1>0 DEF TypeOK
  <2>3. TypeOK'
    BY <1>0, <2>2 DEF TypeOK, QemuAlive
  <2>4. Known'
    BY <1>0 DEF TypeOK, Known, QemuAlive
  <2>5. Kept'
    BY <1>0 DEF TypeOK, Kept
  <2> QED
    BY <2>3, <2>4, <2>5 DEF IInv
<1>3. CASE TimerFires
  <2> USE <1>3 DEF TimerFires, callVars, sigVars, vmVars, fsVars
  <2>3. TypeOK'
    BY <1>0, OnSignalTyped DEF TypeOK, QemuAlive
  <2>4. Known'
    BY <1>0 DEF TypeOK, Known, QemuAlive
  <2>5. Kept'
    BY <1>0 DEF TypeOK, Kept
  <2> QED
    BY <2>3, <2>4, <2>5 DEF IInv
<1>4. CASE KillerFires
  <2> USE <1>4 DEF KillerFires, callVars, sigVars, vmVars, fsVars
  <2>1. killer' \in BOOLEAN /\ victim' \in BOOLEAN
    BY <1>0 DEF TypeOK
  <2>3. TypeOK'
    BY <1>0, <2>1 DEF TypeOK, QemuAlive
  <2>4. Known'
    BY <1>0 DEF TypeOK, Known, QemuAlive
  <2>5. Kept'
    BY <1>0 DEF TypeOK, Kept
  <2> QED
    BY <2>3, <2>4, <2>5 DEF IInv
<1>5. CASE QmpThread
  <2> USE <1>5 DEF QmpThread, callVars, sigVars, vmVars, fsVars
  <2>3. TypeOK'
    BY <1>0 DEF TypeOK, QemuAlive
  <2>4. Known'
    BY <1>0 DEF TypeOK, Known, QemuAlive
  <2>5. Kept'
    BY <1>0 DEF TypeOK, Kept
  <2> QED
    BY <2>3, <2>4, <2>5 DEF IInv
<1> QED
  BY <1>1, <1>2, <1>3, <1>4, <1>5

\* ... and the world outside.
LEMMA WorldStep ==
  ASSUME IInv,
         QemuExits \/ SidecarExits \/ GraceEnds \/ Reuse \/ OtherMarks \/
         OtherRemoves
  PROVE  IInv'
<1> USE UnattachedAssumption
<1>0. TypeOK /\ Known /\ Kept
  BY DEF IInv
<1>1. CASE QemuExits
  <2> USE <1>1 DEF QemuExits, callVars, sigVars, vmVars, fsVars
  <2>3. TypeOK'
    BY <1>0 DEF TypeOK, QemuAlive
  <2>4. Known'
    BY <1>0 DEF TypeOK, Known, QemuAlive
  <2>5. Kept'
    BY <1>0 DEF TypeOK, Kept
  <2> QED
    BY <2>3, <2>4, <2>5 DEF IInv
<1>2. CASE SidecarExits
  <2> USE <1>2 DEF SidecarExits, callVars, sigVars, vmVars, fsVars
  <2>3. TypeOK'
    BY <1>0 DEF TypeOK, QemuAlive
  <2>4. Known'
    BY <1>0 DEF TypeOK, Known, QemuAlive
  <2>5. Kept'
    BY <1>0 DEF TypeOK, Kept
  <2> QED
    BY <2>3, <2>4, <2>5 DEF IInv
<1>3. CASE GraceEnds
  <2> USE <1>3 DEF GraceEnds, callVars, sigVars, vmVars, fsVars
  <2>3. TypeOK'
    BY <1>0 DEF TypeOK, QemuAlive
  <2>4. Known'
    BY <1>0 DEF TypeOK, Known, QemuAlive
  <2>5. Kept'
    BY <1>0 DEF TypeOK, Kept
  <2> QED
    BY <2>3, <2>4, <2>5 DEF IInv
<1>4. CASE Reuse
  <2> USE <1>4 DEF Reuse, callVars, sigVars, vmVars, fsVars
  <2>1. reused' \in BOOLEAN
    BY <1>0 DEF TypeOK
  <2>3. TypeOK'
    BY <1>0, <2>1 DEF TypeOK, QemuAlive
  <2>4. Known'
    BY <1>0 DEF TypeOK, Known, QemuAlive
  <2>5. Kept'
    BY <1>0 DEF TypeOK, Kept
  <2> QED
    BY <2>3, <2>4, <2>5 DEF IInv
<1>5. CASE OtherMarks
  <2> USE <1>5 DEF OtherMarks, callVars, sigVars, vmVars, fsVars
  <2>1. marked' \in BOOLEAN
    BY <1>0 DEF TypeOK
  <2>3. TypeOK'
    BY <1>0, <2>1 DEF TypeOK, QemuAlive
  <2>4. Known'
    BY <1>0 DEF TypeOK, Known, QemuAlive
  <2>5. Kept'
    BY <1>0 DEF TypeOK, Kept
  <2> QED
    BY <2>3, <2>4, <2>5 DEF IInv
<1>6. CASE OtherRemoves
  <2> USE <1>6 DEF OtherRemoves, callVars, sigVars, vmVars, fsVars
  <2>1. dir' \in BOOLEAN
    BY <1>0 DEF TypeOK
  <2>3. TypeOK'
    BY <1>0, <2>1 DEF TypeOK, QemuAlive
  <2>4. Known'
    BY <1>0 DEF TypeOK, Known, QemuAlive
  <2>5. Kept'
    BY <1>0 DEF TypeOK, Kept
  <2> QED
    BY <2>3, <2>4, <2>5 DEF IInv
<1> QED
  BY <1>1, <1>2, <1>3, <1>4, <1>5, <1>6

\* The invariant is inductive.
LEMMA NextIInv == IInv /\ [Next]_vars => IInv'
<1> SUFFICES ASSUME IInv, [Next]_vars PROVE IInv'
  OBVIOUS
<1>1. CASE UNCHANGED vars
  BY <1>1 DEF vars, callVars, sigVars, vmVars, fsVars, IInv, TypeOK, Known, Kept, QemuAlive
<1> QED
  BY <1>1, MainStep, SignalStep, WorldStep DEF Next, Main

LEMMA IInvAlways == Spec => []IInv
<1>1. Init => IInv
  BY InitIInv
<1>2. IInv /\ [Next]_vars => IInv'
  BY NextIInv
<1> QED
  BY <1>1, <1>2, PTL DEF Spec

-----------------------------------------------------------------------------

\* The variables keep their types.
THEOREM TypeCorrect == Spec => []TypeOK
<1>1. IInv => TypeOK
  BY DEF IInv
<1> QED
  BY <1>1, IInvAlways, PTL

\* Whatever the signals, timers and sidecars did, a command that returns leaves
\* neither QEMU nor a sidecar.
THEOREM NothingOutlivesAlways == Spec => []NothingOutlives
<1>1. IInv => NothingOutlives
  BY DEF IInv, Known, NothingOutlives
<1> QED
  BY <1>1, IInvAlways, PTL

\* And `run --save' copies a disk at rest and keeps it until it is saved.
THEOREM SaveIsSafeAlways == Spec => []SaveIsSafe
<1>1. IInv => SaveIsSafe
  BY DEF IInv, Known, Kept, SaveIsSafe, CopyAfterExit, DiskKeptUntilSaved
<1> QED
  BY <1>1, IInvAlways, PTL
=============================================================================
