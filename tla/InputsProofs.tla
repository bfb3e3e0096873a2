---------------------------- MODULE InputsProofs -----------------------------
(***************************************************************************)
(* What a run takes over from its user: the environment that it forwards   *)
(* into the guest (ForwardedEnv), the template files (Templates), and the  *)
(* command line that a template becomes (CommandLine).                     *)
(*                                                                         *)
(* The promises of run --forward-env, for any number of attempts, lost     *)
(* connections and resets.  The order of the two connections of an attempt *)
(* carries the proofs: a launcher exists only after its stager has         *)
(* succeeded, and nothing but a stager makes a directory, so that what is  *)
(* gone after that stays gone, whichever scripts are still at work.        *)
(*                                                                         *)
(* The lookups of templates, for any set of names and chains of parents of *)
(* any length, cycles included.  The induction goes over the calls that a  *)
(* lookup has left, and takes the least number for which the claim fails.  *)
(*                                                                         *)
(* The command line, for lists of any length.  Every id, address, tag and  *)
(* socket on it carries the number of the generator that made it; the      *)
(* invariant bounds the numbers of each generator by how far it has        *)
(* counted, so that the next ones are new.                                 *)
(***************************************************************************)
EXTENDS CommandLine, ForwardedEnv, Templates, FiniteSetTheorems, NaturalsInduction, TLAPS

-----------------------------------------------------------------------------
(* The forwarded environment.                                              *)

\* Where an attempt is under way there is one; the cleanup that is waited for
\* has a stage, and outside that wait there is none.
Begun ==
  /\ pc \in {"staging", "run", "running"} => n # 0
  /\ pc = "cleaning" => cleaner.stage # 0
  /\ cleaner.at # "idle" => pc \in {"cleaning", "killed"}

\* No other process ever finds a vm.json that would let it save, and a POSIX
\* guest's disk never holds a value.
Blocked ==
  /\ Windows => vmjson # "open" /\ saver \in {"idle", "refused"} /\ ~published
  /\ ~Windows => ~tainted

\* A launcher comes after the success of its stager.
Order ==
  /\ \A i \in Stages : /\ i > n => stager[i] = "none" /\ launcher[i] = "none"
                       /\ launcher[i] # "none" \/ i \in staged => stager[i] = "ok"
  /\ pc = "run" => stager[n] = "ok"

\* Without a terminal the session never comes back to staging.
Once ==
  ~tty => /\ pc \in {"launch", "boot", "begin", "stage"} => n = 0
          /\ n <= 1 /\ goal # "stage" /\ pc # "reconnect"

\* Only the latest attempt may not have been staged, and then the session is
\* staging it or on its way out.
Latest == \A i \in 1..n : i \notin staged => i = n /\ (pc = "staging" \/ Leaving)

\* What has been seen to be gone is gone, if a reset takes nothing back.
StagedIsGone == Windows => \A i \in staged \ pending : store[i] \in Gone
Cleared ==
  ~Undo => /\ Windows => \A i \in Stages :
                launcher[i] \in {"ready", "started", "exited"} => store[i] \in Gone
           /\ cleaner.at = "ok" /\ cleaner.stage \in staged => store[cleaner.stage] \in Gone
           /\ StagedIsGone

\* The inductive invariant.
IInv == TypeOK /\ Begun /\ Blocked /\ Order /\ Once /\ Latest /\ Cleared

\* The initial states satisfy it.
LEMMA InitIInv == Init => IInv
<1> SUFFICES ASSUME Init PROVE IInv
  OBVIOUS
<1>1. TypeOK
  <2>1. /\ tty \in BOOLEAN /\ lost \in BOOLEAN /\ signalled \in BOOLEAN /\ blocked \in BOOLEAN
        /\ qemu \in BOOLEAN /\ up \in BOOLEAN /\ tainted \in BOOLEAN /\ published \in BOOLEAN
    BY DEF Init
  <2>2. n \in 0..MaxStages /\ cuts \in 0..MaxCuts /\ resets \in 0..MaxResets
    BY ForwardAssumption DEF Init
  <2>3. cleaner \in [stage : 0..n, at : {"idle", "check", "partial", "payload", "rmdir", "ok", "failed"}]
    BY DEF Init, Idle
  <2> QED
    BY <2>1, <2>2, <2>3 DEF Init, TypeOK
<1>2. Begun /\ Blocked /\ Order /\ Once /\ Latest /\ Cleared
  BY DEF Init, Idle, Begun, Blocked, Order, Once, Latest, Cleared, StagedIsGone
<1> QED
  BY <1>1, <1>2 DEF IInv

\* What the end of the guest does to its scripts.
LEMMA ScriptsEndTyped ==
  ASSUME TypeOK, ScriptsEnd
  PROVE  /\ stager' \in [Stages -> StagerAtWork \cup {"none", "ok", "failed"}]
         /\ launcher' \in [Stages -> LauncherAtWork \cup {"none", "exited", "failed", "cut"}]
         /\ cleaner' \in [stage : 0..n, at : {"idle", "check", "partial", "payload", "rmdir", "ok", "failed"}]
         /\ late' = {} /\ up' = FALSE
  BY DEF TypeOK, ScriptsEnd, StagerAtWork, LauncherAtWork

\* The scripts of a stage keep the invariant, ...
LEMMA StageScripts ==
  ASSUME IInv, NEW i \in Stages,
         StagerStep(i) \/ StagerThrows(i) \/ LauncherStep(i) \/ LauncherThrows(i) \/
         CommandExits(i) \/ LateCleaner(i)
  PROVE  IInv'
<1> USE ForwardAssumption
<1>0. TypeOK /\ Begun /\ Blocked /\ Order /\ Once /\ Latest /\ Cleared
  BY DEF IInv
<1>1. CASE StagerStep(i)
  <2> USE <1>1 DEF StagerStep, fixed, host, session, guest, saving, bounds
  <2>1. TypeOK'
    <3>1. tainted' \in BOOLEAN
      BY <1>0 DEF TypeOK
    <3>2. /\ store' \in [Stages -> {"none", "empty", "partial", "payload", "deleted"}]
         /\ stager' \in [Stages -> StagerAtWork \cup {"none", "ok", "failed"}]
      BY <1>0 DEF TypeOK, StagerAtWork
    <3> QED
      BY <1>0, <3>1, <3>2 DEF TypeOK, Begun, InSession, Over, StagerAtWork, LauncherAtWork
  <2>2. Begun'
    BY <1>0 DEF TypeOK, Begun
  <2>3. Blocked'
    BY <1>0 DEF TypeOK, Blocked, Windows
  <2>4. Order'
    BY <1>0 DEF TypeOK, Begun, Order, Stages, StagerAtWork, LauncherAtWork
  <2>5. Once'
    BY <1>0 DEF TypeOK, Once
  <2>6. Cleared'
    BY <1>0 DEF TypeOK, Begun, Order, Cleared, StagedIsGone, Windows, Stages, Gone
  <2>7. Latest'
    BY <1>0 DEF TypeOK, Latest, Leaving, InSession, Over
  <2> QED
    BY <2>1, <2>2, <2>3, <2>4, <2>5, <2>6, <2>7 DEF IInv
<1>2. CASE StagerThrows(i)
  <2> USE <1>2 DEF StagerThrows, Left, fixed, host, session, guest, saving, bounds
  <2>1. TypeOK'
    BY <1>0 DEF TypeOK, Begun, InSession, Over, StagerAtWork, LauncherAtWork
  <2>2. Begun'
    BY <1>0 DEF TypeOK, Begun
  <2>3. Blocked'
    BY <1>0 DEF TypeOK, Blocked, Windows
  <2>4. Order'
    BY <1>0 DEF TypeOK, Begun, Order, Stages, StagerAtWork, LauncherAtWork
  <2>5. Once'
    BY <1>0 DEF TypeOK, Once
  <2>6. Cleared'
    BY <1>0 DEF TypeOK, Begun, Order, Cleared, StagedIsGone, Windows, Stages, Gone
  <2>7. Latest'
    BY <1>0 DEF TypeOK, Latest, Leaving, InSession, Over
  <2> QED
    BY <2>1, <2>2, <2>3, <2>4, <2>5, <2>6, <2>7 DEF IInv
<1>3. CASE LauncherStep(i)
  <2> USE <1>3 DEF LauncherStep, Left, fixed, host, session, guest, saving, bounds
  <2>1. TypeOK'
    BY <1>0 DEF TypeOK, Begun, InSession, Over, StagerAtWork, LauncherAtWork
  <2>2. Begun'
    BY <1>0 DEF TypeOK, Begun
  <2>3. Blocked'
    BY <1>0 DEF TypeOK, Blocked, Windows
  <2>4. Order'
    BY <1>0 DEF TypeOK, Begun, Order, Stages, StagerAtWork, LauncherAtWork
  <2>5. Once'
    BY <1>0 DEF TypeOK, Once
  <2>6. Cleared'
    BY <1>0 DEF TypeOK, Begun, Order, Cleared, StagedIsGone, Windows, Stages, Gone
  <2>7. Latest'
    BY <1>0 DEF TypeOK, Latest, Leaving, InSession, Over
  <2> QED
    BY <2>1, <2>2, <2>3, <2>4, <2>5, <2>6, <2>7 DEF IInv
<1>4. CASE LauncherThrows(i)
  <2> USE <1>4 DEF LauncherThrows, Left, fixed, host, session, guest, saving, bounds
  <2>1. TypeOK'
    BY <1>0 DEF TypeOK, Begun, InSession, Over, StagerAtWork, LauncherAtWork
  <2>2. Begun'
    BY <1>0 DEF TypeOK, Begun
  <2>3. Blocked'
    BY <1>0 DEF TypeOK, Blocked, Windows
  <2>4. Order'
    BY <1>0 DEF TypeOK, Begun, Order, Stages, StagerAtWork, LauncherAtWork
  <2>5. Once'
    BY <1>0 DEF TypeOK, Once
  <2>6. Cleared'
    BY <1>0 DEF TypeOK, Begun, Order, Cleared, StagedIsGone, Windows, Stages, Gone
  <2>7. Latest'
    BY <1>0 DEF TypeOK, Latest, Leaving, InSession, Over
  <2> QED
    BY <2>1, <2>2, <2>3, <2>4, <2>5, <2>6, <2>7 DEF IInv
<1>5. CASE CommandExits(i)
  <2> USE <1>5 DEF CommandExits, fixed, host, session, guest, saving, bounds
  <2>1. TypeOK'
    BY <1>0 DEF TypeOK, Begun, InSession, Over, StagerAtWork, LauncherAtWork
  <2>2. Begun'
    BY <1>0 DEF TypeOK, Begun
  <2>3. Blocked'
    BY <1>0 DEF TypeOK, Blocked, Windows
  <2>4. Order'
    BY <1>0 DEF TypeOK, Begun, Order, Stages, StagerAtWork, LauncherAtWork
  <2>5. Once'
    BY <1>0 DEF TypeOK, Once
  <2>6. Cleared'
    BY <1>0 DEF TypeOK, Begun, Order, Cleared, StagedIsGone, Windows, Stages, Gone
  <2>7. Latest'
    BY <1>0 DEF TypeOK, Latest, Leaving, InSession, Over
  <2> QED
    BY <2>1, <2>2, <2>3, <2>4, <2>5, <2>6, <2>7 DEF IInv
<1>6. CASE LateCleaner(i)
  <2> USE <1>6 DEF LateCleaner, fixed, host, session, guest, saving, bounds
  <2>1. TypeOK'
    BY <1>0 DEF TypeOK, Begun, InSession, Over, StagerAtWork, LauncherAtWork
  <2>2. Begun'
    BY <1>0 DEF TypeOK, Begun
  <2>3. Blocked'
    BY <1>0 DEF TypeOK, Blocked, Windows
  <2>4. Order'
    BY <1>0 DEF TypeOK, Begun, Order, Stages, StagerAtWork, LauncherAtWork
  <2>5. Once'
    BY <1>0 DEF TypeOK, Once
  <2>6. Cleared'
    BY <1>0 DEF TypeOK, Begun, Order, Cleared, StagedIsGone, Windows, Stages, Gone
  <2>7. Latest'
    BY <1>0 DEF TypeOK, Latest, Leaving, InSession, Over
  <2> QED
    BY <2>1, <2>2, <2>3, <2>4, <2>5, <2>6, <2>7 DEF IInv
<1> QED
  BY <1>1, <1>2, <1>3, <1>4, <1>5, <1>6

\* ... so do the cleanup script and what happens to the guest, ...
LEMMA GuestStep ==
  ASSUME IInv,
         CleanerStep \/ GuestReset \/ GuestBoots \/ QemuEnds \/ StopVm \/ SaveStops
  PROVE  IInv'
<1> USE ForwardAssumption
<1>0. TypeOK /\ Begun /\ Blocked /\ Order /\ Once /\ Latest /\ Cleared
  BY DEF IInv
<1>1. CASE CleanerStep
  <2> USE <1>1 DEF CleanerStep, fixed, host, session, guest, saving, bounds
  <2>1. TypeOK'
    BY <1>0 DEF TypeOK, Begun, InSession, Over, StagerAtWork, LauncherAtWork
  <2>2. Begun'
    BY <1>0 DEF TypeOK, Begun
  <2>3. Blocked'
    BY <1>0 DEF TypeOK, Blocked, Windows
  <2>4. Order'
    BY <1>0 DEF TypeOK, Begun, Order, Stages, StagerAtWork, LauncherAtWork
  <2>5. Once'
    BY <1>0 DEF TypeOK, Once
  <2>6. Cleared'
    <3>1. cleaner'.stage = cleaner.stage /\ DOMAIN store' = Stages
      BY <1>0 DEF TypeOK
    <3>2. \A i \in Stages : store[i] \in Gone => store'[i] \in Gone
      BY <1>0 DEF TypeOK, Gone
    <3>3. cleaner'.at = "ok" /\ cleaner.stage \in Stages => store'[cleaner.stage] \in Gone
      BY <1>0 DEF TypeOK, Gone
    <3>4. staged \subseteq Stages
      BY <1>0 DEF TypeOK, Stages
    <3>5. /\ launcher' = launcher /\ staged' = staged /\ pending' = pending /\ style' = style
      OBVIOUS
    <3> HIDE DEF CleanerStep
    <3> QED
      BY <1>0, <3>1, <3>2, <3>3, <3>4, <3>5 DEF Cleared, StagedIsGone, Windows
  <2>7. Latest'
    BY <1>0 DEF TypeOK, Latest, Leaving, InSession, Over
  <2> QED
    BY <2>1, <2>2, <2>3, <2>4, <2>5, <2>6, <2>7 DEF IInv
<1>2. CASE GuestReset
  <2> USE <1>2 DEF GuestReset, ScriptsEnd, fixed, host, session, guest, saving, bounds
  <2>1. TypeOK'
    <3>1. /\ stager' \in [Stages -> StagerAtWork \cup {"none", "ok", "failed"}]
         /\ launcher' \in [Stages -> LauncherAtWork \cup {"none", "exited", "failed", "cut"}]
         /\ cleaner' \in [stage : 0..n, at : {"idle", "check", "partial", "payload", "rmdir", "ok", "failed"}]
         /\ late' = {} /\ up' = FALSE
      BY <1>0, ScriptsEndTyped
    <3>2. qemu' \in BOOLEAN /\ up' \in BOOLEAN
      BY <1>0 DEF TypeOK
    <3>3. resets' \in 0..MaxResets
      BY <1>0 DEF TypeOK
    <3>4. store' \in [Stages -> {"none", "empty", "partial", "payload", "deleted"}]
      BY <1>0 DEF TypeOK
    <3> HIDE DEF ScriptsEnd
    <3> QED
      BY <1>0, <3>1, <3>2, <3>3, <3>4 DEF TypeOK, Begun, InSession, Over, StagerAtWork, LauncherAtWork
  <2>2. Begun'
    BY <1>0 DEF TypeOK, Begun
  <2>3. Blocked'
    BY <1>0 DEF TypeOK, Blocked, Windows
  <2>4. Order'
    BY <1>0 DEF TypeOK, Begun, Order, Stages, StagerAtWork, LauncherAtWork
  <2>5. Once'
    BY <1>0 DEF TypeOK, Once
  <2>6. Cleared'
    BY <1>0 DEF TypeOK, Begun, Order, Cleared, StagedIsGone, Windows, Stages, Gone
  <2>7. Latest'
    BY <1>0 DEF TypeOK, Latest, Leaving, InSession, Over
  <2> QED
    BY <2>1, <2>2, <2>3, <2>4, <2>5, <2>6, <2>7 DEF IInv
<1>3. CASE GuestBoots
  <2> USE <1>3 DEF GuestBoots, fixed, host, session, guest, saving, bounds
  <2>1. TypeOK'
    BY <1>0 DEF TypeOK, Begun, InSession, Over, StagerAtWork, LauncherAtWork
  <2>2. Begun'
    BY <1>0 DEF TypeOK, Begun
  <2>3. Blocked'
    BY <1>0 DEF TypeOK, Blocked, Windows
  <2>4. Order'
    BY <1>0 DEF TypeOK, Begun, Order, Stages, StagerAtWork, LauncherAtWork
  <2>5. Once'
    BY <1>0 DEF TypeOK, Once
  <2>6. Cleared'
    BY <1>0 DEF TypeOK, Begun, Order, Cleared, StagedIsGone, Windows, Stages, Gone
  <2>7. Latest'
    BY <1>0 DEF TypeOK, Latest, Leaving, InSession, Over
  <2> QED
    BY <2>1, <2>2, <2>3, <2>4, <2>5, <2>6, <2>7 DEF IInv
<1>4. CASE QemuEnds
  <2> USE <1>4 DEF QemuEnds, ScriptsEnd, fixed, host, session, guest, saving, bounds
  <2>1. TypeOK'
    <3>1. /\ stager' \in [Stages -> StagerAtWork \cup {"none", "ok", "failed"}]
         /\ launcher' \in [Stages -> LauncherAtWork \cup {"none", "exited", "failed", "cut"}]
         /\ cleaner' \in [stage : 0..n, at : {"idle", "check", "partial", "payload", "rmdir", "ok", "failed"}]
         /\ late' = {} /\ up' = FALSE
      BY <1>0, ScriptsEndTyped
    <3>2. qemu' \in BOOLEAN /\ up' \in BOOLEAN
      BY <1>0 DEF TypeOK
    <3> HIDE DEF ScriptsEnd
    <3> QED
      BY <1>0, <3>1, <3>2 DEF TypeOK, Begun, InSession, Over, StagerAtWork, LauncherAtWork
  <2>2. Begun'
    BY <1>0 DEF TypeOK, Begun
  <2>3. Blocked'
    BY <1>0 DEF TypeOK, Blocked, Windows
  <2>4. Order'
    BY <1>0 DEF TypeOK, Begun, Order, Stages, StagerAtWork, LauncherAtWork
  <2>5. Once'
    BY <1>0 DEF TypeOK, Once
  <2>6. Cleared'
    BY <1>0 DEF TypeOK, Begun, Order, Cleared, StagedIsGone, Windows, Stages, Gone
  <2>7. Latest'
    BY <1>0 DEF TypeOK, Latest, Leaving, InSession, Over
  <2> QED
    BY <2>1, <2>2, <2>3, <2>4, <2>5, <2>6, <2>7 DEF IInv
<1>5. CASE StopVm
  <2> USE <1>5 DEF StopVm, ScriptsEnd, fixed, host, session, guest, saving, bounds
  <2>1. TypeOK'
    <3>1. /\ stager' \in [Stages -> StagerAtWork \cup {"none", "ok", "failed"}]
         /\ launcher' \in [Stages -> LauncherAtWork \cup {"none", "exited", "failed", "cut"}]
         /\ cleaner' \in [stage : 0..n, at : {"idle", "check", "partial", "payload", "rmdir", "ok", "failed"}]
         /\ late' = {} /\ up' = FALSE
      BY <1>0, ScriptsEndTyped
    <3>2. qemu' \in BOOLEAN /\ up' \in BOOLEAN
      BY <1>0 DEF TypeOK
    <3> HIDE DEF ScriptsEnd
    <3> QED
      BY <1>0, <3>1, <3>2 DEF TypeOK, Begun, InSession, Over, StagerAtWork, LauncherAtWork
  <2>2. Begun'
    BY <1>0 DEF TypeOK, Begun
  <2>3. Blocked'
    BY <1>0 DEF TypeOK, Blocked, Windows
  <2>4. Order'
    BY <1>0 DEF TypeOK, Begun, Order, Stages, StagerAtWork, LauncherAtWork
  <2>5. Once'
    BY <1>0 DEF TypeOK, Once
  <2>6. Cleared'
    BY <1>0 DEF TypeOK, Begun, Order, Cleared, StagedIsGone, Windows, Stages, Gone
  <2>7. Latest'
    BY <1>0 DEF TypeOK, Latest, Leaving, InSession, Over
  <2> QED
    BY <2>1, <2>2, <2>3, <2>4, <2>5, <2>6, <2>7 DEF IInv
<1>6. CASE SaveStops
  <2> USE <1>6 DEF SaveStops, ScriptsEnd, fixed, host, session, guest, saving, bounds
  <2>1. TypeOK'
    <3>1. /\ stager' \in [Stages -> StagerAtWork \cup {"none", "ok", "failed"}]
         /\ launcher' \in [Stages -> LauncherAtWork \cup {"none", "exited", "failed", "cut"}]
         /\ cleaner' \in [stage : 0..n, at : {"idle", "check", "partial", "payload", "rmdir", "ok", "failed"}]
         /\ late' = {} /\ up' = FALSE
      BY <1>0, ScriptsEndTyped
    <3>2. qemu' \in BOOLEAN /\ up' \in BOOLEAN
      BY <1>0 DEF TypeOK
    <3> HIDE DEF ScriptsEnd
    <3> QED
      BY <1>0, <3>1, <3>2 DEF TypeOK, Begun, InSession, Over, StagerAtWork, LauncherAtWork
  <2>2. Begun'
    BY <1>0 DEF TypeOK, Begun
  <2>3. Blocked'
    BY <1>0 DEF TypeOK, Blocked, Windows
  <2>4. Order'
    BY <1>0 DEF TypeOK, Begun, Order, Stages, StagerAtWork, LauncherAtWork
  <2>5. Once'
    BY <1>0 DEF TypeOK, Once
  <2>6. Cleared'
    BY <1>0 DEF TypeOK, Begun, Order, Cleared, StagedIsGone, Windows, Stages, Gone
  <2>7. Latest'
    BY <1>0 DEF TypeOK, Latest, Leaving, InSession, Over
  <2> QED
    BY <2>1, <2>2, <2>3, <2>4, <2>5, <2>6, <2>7 DEF IInv
<1> QED
  BY <1>1, <1>2, <1>3, <1>4, <1>5, <1>6

\* ... the session up to the command ...
LEMMA StagingStep ==
  ASSUME IInv,
         WriteVmJson \/ Boot \/ SessionBegin \/ Stage \/ StageOk \/ StageFails \/
         Run
  PROVE  IInv'
<1> USE ForwardAssumption
<1>0. TypeOK /\ Begun /\ Blocked /\ Order /\ Once /\ Latest /\ Cleared
  BY DEF IInv
<1>1. CASE WriteVmJson
  <2> USE <1>1 DEF WriteVmJson, fixed, host, session, guest, saving, bounds
  <2>1. TypeOK'
    <3>1. blocked' \in BOOLEAN /\ vmjson' \in {"absent", "open", "blocked"}
      BY DEF Windows
    <3> QED
      BY <1>0, <3>1 DEF TypeOK, Begun, InSession, Over, StagerAtWork, LauncherAtWork
  <2>2. Begun'
    BY <1>0 DEF TypeOK, Begun
  <2>3. Blocked'
    BY <1>0 DEF TypeOK, Blocked, Windows
  <2>4. Order'
    BY <1>0 DEF TypeOK, Begun, Order, Stages, StagerAtWork, LauncherAtWork
  <2>5. Once'
    BY <1>0 DEF TypeOK, Once
  <2>6. Cleared'
    BY <1>0 DEF TypeOK, Begun, Order, Cleared, StagedIsGone, Windows, Stages, Gone
  <2>7. Latest'
    BY <1>0 DEF TypeOK, Latest, Leaving, InSession, Over
  <2> QED
    BY <2>1, <2>2, <2>3, <2>4, <2>5, <2>6, <2>7 DEF IInv
<1>2. CASE Boot
  <2> USE <1>2 DEF Boot, fixed, host, session, guest, saving, bounds
  <2>1. TypeOK'
    BY <1>0 DEF TypeOK, Begun, InSession, Over, StagerAtWork, LauncherAtWork
  <2>2. Begun'
    BY <1>0 DEF TypeOK, Begun
  <2>3. Blocked'
    BY <1>0 DEF TypeOK, Blocked, Windows
  <2>4. Order'
    BY <1>0 DEF TypeOK, Begun, Order, Stages, StagerAtWork, LauncherAtWork
  <2>5. Once'
    BY <1>0 DEF TypeOK, Once
  <2>6. Cleared'
    BY <1>0 DEF TypeOK, Begun, Order, Cleared, StagedIsGone, Windows, Stages, Gone
  <2>7. Latest'
    BY <1>0 DEF TypeOK, Latest, Leaving, InSession, Over
  <2> QED
    BY <2>1, <2>2, <2>3, <2>4, <2>5, <2>6, <2>7 DEF IInv
<1>3. CASE SessionBegin
  <2> USE <1>3 DEF SessionBegin, fixed, host, session, guest, saving, bounds
  <2>1. TypeOK'
    BY <1>0 DEF TypeOK, Begun, InSession, Over, StagerAtWork, LauncherAtWork
  <2>2. Begun'
    BY <1>0 DEF TypeOK, Begun
  <2>3. Blocked'
    BY <1>0 DEF TypeOK, Blocked, Windows
  <2>4. Order'
    BY <1>0 DEF TypeOK, Begun, Order, Stages, StagerAtWork, LauncherAtWork
  <2>5. Once'
    BY <1>0 DEF TypeOK, Once
  <2>6. Cleared'
    BY <1>0 DEF TypeOK, Begun, Order, Cleared, StagedIsGone, Windows, Stages, Gone
  <2>7. Latest'
    BY <1>0 DEF TypeOK, Latest, Leaving, InSession, Over
  <2> QED
    BY <2>1, <2>2, <2>3, <2>4, <2>5, <2>6, <2>7 DEF IInv
<1>4. CASE Stage
  <2> USE <1>4 DEF Stage, Clean, fixed, host, session, guest, saving, bounds
  <2>1. TypeOK'
    <3>1. n' \in 1..MaxStages /\ n' = n + 1 /\ 1..n \subseteq 1..n' /\ 0..n \subseteq 0..n'
      BY <1>0 DEF TypeOK
    <3>2. todo' = todo \/ todo' = {n'} \/ todo' = {}
      OBVIOUS
    <3>3. n' \in 1..n' /\ todo \subseteq 1..n'
      BY <1>0, <3>1 DEF TypeOK
    <3>4. todo' \subseteq 1..n'
      BY <3>2, <3>3, Zenon
    <3>5. goal' \in {"judge", "stage", "final", "stop"} /\ pc' \in {"staging", "cleanup", "final"}
      BY <1>0 DEF TypeOK
    <3>6. stager' \in [Stages -> StagerAtWork \cup {"none", "ok", "failed"}]
      BY <1>0, <3>1 DEF TypeOK, StagerAtWork
    <3>7. cleaner' \in [stage : 0..n', at : {"idle", "check", "partial", "payload", "rmdir", "ok", "failed"}]
      BY <1>0, <3>1 DEF TypeOK
    <3> QED
      BY <1>0, <3>1, <3>2, <3>3, <3>4, <3>5, <3>6, <3>7 DEF TypeOK, Begun, InSession, Over, StagerAtWork, LauncherAtWork
  <2>2. Begun'
    BY <1>0 DEF TypeOK, Begun
  <2>3. Blocked'
    BY <1>0 DEF TypeOK, Blocked, Windows
  <2>4. Order'
    BY <1>0 DEF TypeOK, Begun, Order, Stages, StagerAtWork, LauncherAtWork
  <2>5. Once'
    BY <1>0 DEF TypeOK, Once
  <2>6. Cleared'
    BY <1>0 DEF TypeOK, Begun, Order, Cleared, StagedIsGone, Windows, Stages, Gone
  <2>7. Latest'
    BY <1>0 DEF TypeOK, Latest, Leaving, InSession, Over
  <2> QED
    BY <2>1, <2>2, <2>3, <2>4, <2>5, <2>6, <2>7 DEF IInv
<1>5. CASE StageOk
  <2> USE <1>5 DEF StageOk, fixed, host, session, guest, saving, bounds
  <2>1. TypeOK'
    BY <1>0 DEF TypeOK, Begun, InSession, Over, StagerAtWork, LauncherAtWork
  <2>2. Begun'
    BY <1>0 DEF TypeOK, Begun
  <2>3. Blocked'
    BY <1>0 DEF TypeOK, Blocked, Windows
  <2>4. Order'
    BY <1>0 DEF TypeOK, Begun, Order, Stages, StagerAtWork, LauncherAtWork
  <2>5. Once'
    BY <1>0 DEF TypeOK, Once
  <2>6. Cleared'
    BY <1>0 DEF TypeOK, Begun, Order, Cleared, StagedIsGone, Windows, Stages, Gone
  <2>7. Latest'
    BY <1>0 DEF TypeOK, Latest, Leaving, InSession, Over
  <2> QED
    BY <2>1, <2>2, <2>3, <2>4, <2>5, <2>6, <2>7 DEF IInv
<1>6. CASE StageFails
  <2> USE <1>6 DEF StageFails, Clean, Cut, fixed, host, session, guest, saving, bounds
  <2>1. TypeOK'
    BY <1>0 DEF TypeOK, Begun, InSession, Over, StagerAtWork, LauncherAtWork
  <2>2. Begun'
    BY <1>0 DEF TypeOK, Begun
  <2>3. Blocked'
    BY <1>0 DEF TypeOK, Blocked, Windows
  <2>4. Order'
    BY <1>0 DEF TypeOK, Begun, Order, Stages, StagerAtWork, LauncherAtWork
  <2>5. Once'
    BY <1>0 DEF TypeOK, Once
  <2>6. Cleared'
    BY <1>0 DEF TypeOK, Begun, Order, Cleared, StagedIsGone, Windows, Stages, Gone
  <2>7. Latest'
    BY <1>0 DEF TypeOK, Latest, Leaving, InSession, Over
  <2> QED
    BY <2>1, <2>2, <2>3, <2>4, <2>5, <2>6, <2>7 DEF IInv
<1>7. CASE Run
  <2> USE <1>7 DEF Run, Clean, fixed, host, session, guest, saving, bounds
  <2>1. TypeOK'
    <3>1. launcher' \in [Stages -> LauncherAtWork \cup {"none", "exited", "failed", "cut"}]
      BY <1>0 DEF TypeOK, LauncherAtWork
    <3>2. todo' = todo \/ todo' = {n} \/ todo' = {}
      OBVIOUS
    <3>3. n \in 1..n /\ todo \subseteq 1..n
      BY <1>0 DEF TypeOK, Begun
    <3>4. todo' \subseteq 1..n
      BY <3>2, <3>3, Zenon
    <3>5. goal' \in {"judge", "stage", "final", "stop"} /\ pc' \in {"running", "cleanup", "judge"}
      BY <1>0 DEF TypeOK
    <3>6. lost' \in BOOLEAN
      BY <1>0 DEF TypeOK
    <3> QED
      BY <1>0, <3>1, <3>2, <3>3, <3>4, <3>5, <3>6 DEF TypeOK, Begun, InSession, Over, StagerAtWork, LauncherAtWork
  <2>2. Begun'
    BY <1>0 DEF TypeOK, Begun
  <2>3. Blocked'
    BY <1>0 DEF TypeOK, Blocked, Windows
  <2>4. Order'
    BY <1>0 DEF TypeOK, Begun, Order, Stages, StagerAtWork, LauncherAtWork
  <2>5. Once'
    BY <1>0 DEF TypeOK, Once
  <2>6. Cleared'
    BY <1>0 DEF TypeOK, Begun, Order, Cleared, StagedIsGone, Windows, Stages, Gone
  <2>7. Latest'
    BY <1>0 DEF TypeOK, Latest, Leaving, InSession, Over
  <2> QED
    BY <2>1, <2>2, <2>3, <2>4, <2>5, <2>6, <2>7 DEF IInv
<1> QED
  BY <1>1, <1>2, <1>3, <1>4, <1>5, <1>6, <1>7

\* ... and after it, ...
LEMMA AfterStep ==
  ASSUME IInv,
         RunEnds \/ CleanupStart \/ CleanupEnds \/ CleanupFails \/ Judge \/
         Reconnect \/ ReconnectFails \/ Final
  PROVE  IInv'
<1> USE ForwardAssumption
<1>0. TypeOK /\ Begun /\ Blocked /\ Order /\ Once /\ Latest /\ Cleared
  BY DEF IInv
<1>1. CASE RunEnds
  <2> USE <1>1 DEF RunEnds, Clean, Cut, fixed, host, session, guest, saving, bounds
  <2>1. TypeOK'
    <3>1. lost' \in BOOLEAN
      BY <1>0 DEF TypeOK
    <3>2. cuts' \in 0..MaxCuts
      BY <1>0 DEF TypeOK
    <3>3. todo' \subseteq 1..n /\ goal' = "judge" /\ pc' \in {"cleanup", "judge"}
      BY <1>0 DEF TypeOK, Begun, Windows
    <3> QED
      BY <1>0, <3>1, <3>2, <3>3 DEF TypeOK, Begun, InSession, Over, StagerAtWork, LauncherAtWork
  <2>2. Begun'
    BY <1>0 DEF TypeOK, Begun
  <2>3. Blocked'
    BY <1>0 DEF TypeOK, Blocked, Windows
  <2>4. Order'
    BY <1>0 DEF TypeOK, Begun, Order, Stages, StagerAtWork, LauncherAtWork
  <2>5. Once'
    BY <1>0 DEF TypeOK, Once
  <2>6. Cleared'
    BY <1>0 DEF TypeOK, Begun, Order, Cleared, StagedIsGone, Windows, Stages, Gone
  <2>7. Latest'
    BY <1>0 DEF TypeOK, Latest, Leaving, InSession, Over
  <2> QED
    BY <2>1, <2>2, <2>3, <2>4, <2>5, <2>6, <2>7 DEF IInv
<1>2. CASE CleanupStart
  <2> USE <1>2 DEF CleanupStart, fixed, host, session, guest, saving, bounds
  <2>1. TypeOK'
    BY <1>0 DEF TypeOK, Begun, InSession, Over, StagerAtWork, LauncherAtWork
  <2>2. Begun'
    BY <1>0 DEF TypeOK, Begun
  <2>3. Blocked'
    BY <1>0 DEF TypeOK, Blocked, Windows
  <2>4. Order'
    BY <1>0 DEF TypeOK, Begun, Order, Stages, StagerAtWork, LauncherAtWork
  <2>5. Once'
    BY <1>0 DEF TypeOK, Once
  <2>6. Cleared'
    BY <1>0 DEF TypeOK, Begun, Order, Cleared, StagedIsGone, Windows, Stages, Gone
  <2>7. Latest'
    BY <1>0 DEF TypeOK, Latest, Leaving, InSession, Over
  <2> QED
    BY <2>1, <2>2, <2>3, <2>4, <2>5, <2>6, <2>7 DEF IInv
<1>3. CASE CleanupEnds
  <2> USE <1>3 DEF CleanupEnds, Cleaned, Idle, fixed, host, session, guest, saving, bounds
  <2>1. TypeOK'
    <3>1. cleaner.stage \in 1..n
      BY <1>0 DEF TypeOK, Begun
    <3>2. pending' \subseteq 1..n /\ todo' \subseteq 1..n
         /\ pc' \in {"cleanup", "judge", "stage", "final", "stop"}
      BY <1>0, <3>1 DEF TypeOK
    <3>3. cleaner' \in [stage : 0..n, at : {"idle", "check", "partial", "payload", "rmdir", "ok", "failed"}]
      BY <1>0 DEF TypeOK
    <3> QED
      BY <1>0, <3>1, <3>2, <3>3 DEF TypeOK, Begun, InSession, Over, StagerAtWork, LauncherAtWork
  <2>2. Begun'
    BY <1>0 DEF TypeOK, Begun
  <2>3. Blocked'
    BY <1>0 DEF TypeOK, Blocked, Windows
  <2>4. Order'
    BY <1>0 DEF TypeOK, Begun, Order, Stages, StagerAtWork, LauncherAtWork
  <2>5. Once'
    BY <1>0 DEF TypeOK, Once
  <2>6. Cleared'
    BY <1>0 DEF TypeOK, Begun, Order, Cleared, StagedIsGone, Windows, Stages, Gone
  <2>7. Latest'
    BY <1>0 DEF TypeOK, Latest, Leaving, InSession, Over
  <2> QED
    BY <2>1, <2>2, <2>3, <2>4, <2>5, <2>6, <2>7 DEF IInv
<1>4. CASE CleanupFails
  <2> USE <1>4 DEF CleanupFails, Cleaned, Cut, Idle, fixed, host, session, guest, saving, bounds
  <2>1. TypeOK'
    <3>1. pc = "cleaning" => cleaner.stage \in 1..n
      BY <1>0 DEF TypeOK, Begun
    <3>2. pending' \subseteq 1..n /\ todo' \subseteq 1..n
         /\ pc' \in {"cleanup", "judge", "stage", "final", "stop"}
      BY <1>0, <3>1 DEF TypeOK
    <3>3. cleaner' \in [stage : 0..n, at : {"idle", "check", "partial", "payload", "rmdir", "ok", "failed"}]
      BY <1>0 DEF TypeOK
    <3>4. late' = late \/ (pc = "cleaning" /\ late' = late \cup {cleaner.stage})
      OBVIOUS
    <3>5. late \subseteq 1..n
      BY <1>0 DEF TypeOK
    <3>6. late' \subseteq 1..n
      BY <3>1, <3>4, <3>5, Zenon
    <3>7. cuts' \in 0..MaxCuts
      BY <1>0 DEF TypeOK
    <3> QED
      BY <1>0, <3>1, <3>2, <3>3, <3>4, <3>5, <3>6, <3>7 DEF TypeOK, Begun, InSession, Over, StagerAtWork, LauncherAtWork
  <2>2. Begun'
    BY <1>0 DEF TypeOK, Begun
  <2>3. Blocked'
    BY <1>0 DEF TypeOK, Blocked, Windows
  <2>4. Order'
    BY <1>0 DEF TypeOK, Begun, Order, Stages, StagerAtWork, LauncherAtWork
  <2>5. Once'
    BY <1>0 DEF TypeOK, Once
  <2>6. Cleared'
    BY <1>0 DEF TypeOK, Begun, Order, Cleared, StagedIsGone, Windows, Stages, Gone
  <2>7. Latest'
    BY <1>0 DEF TypeOK, Latest, Leaving, InSession, Over
  <2> QED
    BY <2>1, <2>2, <2>3, <2>4, <2>5, <2>6, <2>7 DEF IInv
<1>5. CASE Judge
  <2> USE <1>5 DEF Judge, fixed, host, session, guest, saving, bounds
  <2>1. TypeOK'
    BY <1>0 DEF TypeOK, Begun, InSession, Over, StagerAtWork, LauncherAtWork
  <2>2. Begun'
    BY <1>0 DEF TypeOK, Begun
  <2>3. Blocked'
    BY <1>0 DEF TypeOK, Blocked, Windows
  <2>4. Order'
    BY <1>0 DEF TypeOK, Begun, Order, Stages, StagerAtWork, LauncherAtWork
  <2>5. Once'
    BY <1>0 DEF TypeOK, Once
  <2>6. Cleared'
    BY <1>0 DEF TypeOK, Begun, Order, Cleared, StagedIsGone, Windows, Stages, Gone
  <2>7. Latest'
    BY <1>0 DEF TypeOK, Latest, Leaving, InSession, Over
  <2> QED
    BY <2>1, <2>2, <2>3, <2>4, <2>5, <2>6, <2>7 DEF IInv
<1>6. CASE Reconnect
  <2> USE <1>6 DEF Reconnect, Clean, fixed, host, session, guest, saving, bounds
  <2>1. TypeOK'
    BY <1>0 DEF TypeOK, Begun, InSession, Over, StagerAtWork, LauncherAtWork
  <2>2. Begun'
    BY <1>0 DEF TypeOK, Begun
  <2>3. Blocked'
    BY <1>0 DEF TypeOK, Blocked, Windows
  <2>4. Order'
    BY <1>0 DEF TypeOK, Begun, Order, Stages, StagerAtWork, LauncherAtWork
  <2>5. Once'
    BY <1>0 DEF TypeOK, Once
  <2>6. Cleared'
    BY <1>0 DEF TypeOK, Begun, Order, Cleared, StagedIsGone, Windows, Stages, Gone
  <2>7. Latest'
    BY <1>0 DEF TypeOK, Latest, Leaving, InSession, Over
  <2> QED
    BY <2>1, <2>2, <2>3, <2>4, <2>5, <2>6, <2>7 DEF IInv
<1>7. CASE ReconnectFails
  <2> USE <1>7 DEF ReconnectFails, fixed, host, session, guest, saving, bounds
  <2>1. TypeOK'
    BY <1>0 DEF TypeOK, Begun, InSession, Over, StagerAtWork, LauncherAtWork
  <2>2. Begun'
    BY <1>0 DEF TypeOK, Begun
  <2>3. Blocked'
    BY <1>0 DEF TypeOK, Blocked, Windows
  <2>4. Order'
    BY <1>0 DEF TypeOK, Begun, Order, Stages, StagerAtWork, LauncherAtWork
  <2>5. Once'
    BY <1>0 DEF TypeOK, Once
  <2>6. Cleared'
    BY <1>0 DEF TypeOK, Begun, Order, Cleared, StagedIsGone, Windows, Stages, Gone
  <2>7. Latest'
    BY <1>0 DEF TypeOK, Latest, Leaving, InSession, Over
  <2> QED
    BY <2>1, <2>2, <2>3, <2>4, <2>5, <2>6, <2>7 DEF IInv
<1>8. CASE Final
  <2> USE <1>8 DEF Final, Clean, fixed, host, session, guest, saving, bounds
  <2>1. TypeOK'
    BY <1>0 DEF TypeOK, Begun, InSession, Over, StagerAtWork, LauncherAtWork
  <2>2. Begun'
    BY <1>0 DEF TypeOK, Begun
  <2>3. Blocked'
    BY <1>0 DEF TypeOK, Blocked, Windows
  <2>4. Order'
    BY <1>0 DEF TypeOK, Begun, Order, Stages, StagerAtWork, LauncherAtWork
  <2>5. Once'
    BY <1>0 DEF TypeOK, Once
  <2>6. Cleared'
    BY <1>0 DEF TypeOK, Begun, Order, Cleared, StagedIsGone, Windows, Stages, Gone
  <2>7. Latest'
    BY <1>0 DEF TypeOK, Latest, Leaving, InSession, Over
  <2> QED
    BY <2>1, <2>2, <2>3, <2>4, <2>5, <2>6, <2>7 DEF IInv
<1> QED
  BY <1>1, <1>2, <1>3, <1>4, <1>5, <1>6, <1>7, <1>8

\* ... and the other processes.
LEMMA OtherStep ==
  ASSUME IInv,
         Signal \/ Kill \/ SaveRead \/ SaveCopies
  PROVE  IInv'
<1> USE ForwardAssumption
<1>0. TypeOK /\ Begun /\ Blocked /\ Order /\ Once /\ Latest /\ Cleared
  BY DEF IInv
<1>1. CASE Signal
  <2> USE <1>1 DEF Signal, fixed, host, session, guest, saving, bounds
  <2>1. TypeOK'
    BY <1>0 DEF TypeOK, Begun, InSession, Over, StagerAtWork, LauncherAtWork
  <2>2. Begun'
    BY <1>0 DEF TypeOK, Begun
  <2>3. Blocked'
    BY <1>0 DEF TypeOK, Blocked, Windows
  <2>4. Order'
    BY <1>0 DEF TypeOK, Begun, Order, Stages, StagerAtWork, LauncherAtWork
  <2>5. Once'
    BY <1>0 DEF TypeOK, Once
  <2>6. Cleared'
    BY <1>0 DEF TypeOK, Begun, Order, Cleared, StagedIsGone, Windows, Stages, Gone
  <2>7. Latest'
    BY <1>0 DEF TypeOK, Latest, Leaving, InSession, Over
  <2> QED
    BY <2>1, <2>2, <2>3, <2>4, <2>5, <2>6, <2>7 DEF IInv
<1>2. CASE Kill
  <2> USE <1>2 DEF Kill, fixed, host, session, guest, saving, bounds
  <2>1. TypeOK'
    BY <1>0 DEF TypeOK, Begun, InSession, Over, StagerAtWork, LauncherAtWork
  <2>2. Begun'
    BY <1>0 DEF TypeOK, Begun
  <2>3. Blocked'
    BY <1>0 DEF TypeOK, Blocked, Windows
  <2>4. Order'
    BY <1>0 DEF TypeOK, Begun, Order, Stages, StagerAtWork, LauncherAtWork
  <2>5. Once'
    BY <1>0 DEF TypeOK, Once
  <2>6. Cleared'
    BY <1>0 DEF TypeOK, Begun, Order, Cleared, StagedIsGone, Windows, Stages, Gone
  <2>7. Latest'
    BY <1>0 DEF TypeOK, Latest, Leaving, InSession, Over
  <2> QED
    BY <2>1, <2>2, <2>3, <2>4, <2>5, <2>6, <2>7 DEF IInv
<1>3. CASE SaveRead
  <2> USE <1>3 DEF SaveRead, fixed, host, session, guest, saving, bounds
  <2>1. TypeOK'
    BY <1>0 DEF TypeOK, Begun, InSession, Over, StagerAtWork, LauncherAtWork
  <2>2. Begun'
    BY <1>0 DEF TypeOK, Begun
  <2>3. Blocked'
    BY <1>0 DEF TypeOK, Blocked, Windows
  <2>4. Order'
    BY <1>0 DEF TypeOK, Begun, Order, Stages, StagerAtWork, LauncherAtWork
  <2>5. Once'
    BY <1>0 DEF TypeOK, Once
  <2>6. Cleared'
    BY <1>0 DEF TypeOK, Begun, Order, Cleared, StagedIsGone, Windows, Stages, Gone
  <2>7. Latest'
    BY <1>0 DEF TypeOK, Latest, Leaving, InSession, Over
  <2> QED
    BY <2>1, <2>2, <2>3, <2>4, <2>5, <2>6, <2>7 DEF IInv
<1>4. CASE SaveCopies
  <2> USE <1>4 DEF SaveCopies, fixed, host, session, guest, saving, bounds
  <2>1. TypeOK'
    BY <1>0 DEF TypeOK, Begun, InSession, Over, StagerAtWork, LauncherAtWork
  <2>2. Begun'
    BY <1>0 DEF TypeOK, Begun
  <2>3. Blocked'
    BY <1>0 DEF TypeOK, Blocked, Windows
  <2>4. Order'
    BY <1>0 DEF TypeOK, Begun, Order, Stages, StagerAtWork, LauncherAtWork
  <2>5. Once'
    BY <1>0 DEF TypeOK, Once
  <2>6. Cleared'
    BY <1>0 DEF TypeOK, Begun, Order, Cleared, StagedIsGone, Windows, Stages, Gone
  <2>7. Latest'
    BY <1>0 DEF TypeOK, Latest, Leaving, InSession, Over
  <2> QED
    BY <2>1, <2>2, <2>3, <2>4, <2>5, <2>6, <2>7 DEF IInv
<1> QED
  BY <1>1, <1>2, <1>3, <1>4

\* The invariant is inductive.
LEMMA NextIInv == IInv /\ [Next]_vars => IInv'
<1> SUFFICES ASSUME IInv, [Next]_vars PROVE IInv'
  OBVIOUS
<1>1. CASE UNCHANGED vars
  BY <1>1 DEF vars, fixed, host, session, guest, saving, bounds, IInv, TypeOK, Begun, Blocked,
     Order, Once, Latest, Leaving, Cleared, StagedIsGone, Windows
<1>2. CASE Done
  BY <1>1, <1>2 DEF Done
<1> QED
  BY <1>1, <1>2, StageScripts, GuestStep, StagingStep, AfterStep, OtherStep
     DEF Next, SessionStep, ScriptStep

LEMMA IInvAlways == Spec => []IInv
<1>1. Init => IInv
  BY InitIInv
<1>2. IInv /\ [Next]_vars => IInv'
  BY NextIInv
<1> QED
  BY <1>1, <1>2, PTL DEF Spec

-----------------------------------------------------------------------------

\* The variables keep their types.
THEOREM TypeCorrect == Spec => []TypeOK
<1>1. IInv => TypeOK
  BY DEF IInv
<1> QED
  BY <1>1, IInvAlways, PTL

\* No disk that has held a forwarded value is ever published, whoever saves.
THEOREM NoForwardedValueSavedAlways == Spec => []NoForwardedValueSaved
<1>1. IInv => NoForwardedValueSaved
  BY DEF IInv, TypeOK, Blocked, NoForwardedValueSaved
<1> QED
  BY <1>1, IInvAlways, PTL

\* Without a terminal at most one launcher ever runs.
THEOREM NeverReplayedAlways == Spec => []NeverReplayed
<1>1. IInv => NeverReplayed
  <2> SUFFICES ASSUME IInv, ~tty PROVE Cardinality({i \in Stages : launcher[i] # "none"}) <= 1
    BY DEF NeverReplayed
  <2>1. {i \in Stages : launcher[i] # "none"} \subseteq {1}
    BY ForwardAssumption DEF IInv, TypeOK, Order, Once, Stages
  <2>2. IsFiniteSet({1}) /\ Cardinality({1}) = 1
    BY FS_Singleton
  <2> QED
    BY <2>1, <2>2, FS_Subset
<1> QED
  BY <1>1, IInvAlways, PTL

\* If a reset takes no removal back, the command of a Windows guest runs only
\* with its values gone ...
THEOREM CommandRunsCleanAlways ==
  ASSUME ~Undo
  PROVE  Spec => []CommandRunsClean
<1>1. IInv => CommandRunsClean
  BY DEF IInv, Cleared, CommandRunsClean
<1> QED
  BY <1>1, IInvAlways, PTL

\* ... and every stage that is not listed is gone for good, but for a latest
\* one that is being staged or that the session leaves with the VM.
THEOREM ForgottenIsGoneAlways ==
  ASSUME ~Undo
  PROVE  Spec => []ForgottenIsGone
<1>1. IInv => ForgottenIsGone
  BY DEF IInv, Latest, Cleared, StagedIsGone, ForgottenIsGone
<1> QED
  BY <1>1, IInvAlways, PTL

-----------------------------------------------------------------------------
(* Templates.                                                              *)

\* What one call of __getattr__ returns, given the answers of the calls above.
Answer(t, p, above, calls, m) ==
  LET given == t[m].entry.heritable
  IN  IF given # "absent"
        THEN IF given = "null" THEN "default" ELSE <<t[m].file, m>>
      ELSE IF p[m] = None THEN "default"
      ELSE IF calls = 0 THEN "RecursionError"
      ELSE above[calls - 1][p[m]]

\* w answers every call with at most k calls above it.
IsWalk(t, p, k, w) ==
  w = [c \in 0..k |-> [m \in DOMAIN p |-> Answer(t, p, w, c, m)]]

\* A set of naturals that is not empty has a least member.
LEMMA LeastNat ==
  ASSUME NEW S \in SUBSET Nat, S # {}
  PROVE  \E x \in S : \A y \in S : x <= y
<1>1. PICK x \in S : \A y \in S : ~(<<y, x>> \in OpToRel(<, Nat))
  BY NatLessThanWellFounded, WFMin, Zenon
<1>2. \A y \in S : ~(y < x)
  BY <1>1, Zenon DEF OpToRel
<1> QED
  BY <1>2

\* The recursion of Template.__getattr__ has a solution for any number of calls.
LEMMA WalkExists ==
  ASSUME NEW t, NEW p
  PROVE  \A k \in Nat : \E w : IsWalk(t, p, k, w)
<1> DEFINE Bad == {k \in Nat : ~\E w : IsWalk(t, p, k, w)}
<1> SUFFICES ASSUME Bad # {} PROVE FALSE
  OBVIOUS
<1>1. PICK k \in Bad : \A y \in Bad : k <= y
  BY LeastNat
<1>2. k \in Nat /\ ~\E w : IsWalk(t, p, k, w)
  BY <1>1
<1> HIDE DEF Bad
<1>3. CASE k = 0
  <2> DEFINE w == [c \in 0..0 |-> [m \in DOMAIN p |-> Answer(t, p, <<>>, 0, m)]]
  <2>1. \A m : Answer(t, p, <<>>, 0, m) = Answer(t, p, w, 0, m)
    BY DEF Answer
  <2>2. IsWalk(t, p, 0, w)
    BY <2>1 DEF IsWalk
  <2> QED
    BY <1>2, <1>3, <2>2
<1>4. CASE k # 0
  <2>1. k - 1 \in Nat /\ k - 1 \notin Bad
    BY <1>1, <1>2, <1>4
  <2>2. PICK v : IsWalk(t, p, k - 1, v)
    BY <2>1 DEF Bad
  <2> DEFINE w == [c \in 0..k |-> IF c = k THEN [m \in DOMAIN p |-> Answer(t, p, v, k, m)]
                                   ELSE v[c]]
  <2>3. ASSUME NEW c \in 0..k, NEW m
        PROVE  Answer(t, p, v, c, m) = Answer(t, p, w, c, m)
    <3>1. CASE c = 0
      BY <3>1 DEF Answer
    <3>2. CASE c # 0
      <4>1. w[c - 1] = v[c - 1]
        BY <1>2, <3>2
      <4> QED
        BY <4>1 DEF Answer
    <3> QED
      BY <3>1, <3>2
  <2>4. ASSUME NEW c \in 0..k
        PROVE  w[c] = [m \in DOMAIN p |-> Answer(t, p, w, c, m)]
    <3>1. CASE c = k
      BY <3>1, <2>3
    <3>2. CASE c # k
      <4>1. c \in 0..(k - 1) /\ w[c] = v[c]
        BY <1>2, <3>2
      <4>2. v[c] = [m \in DOMAIN p |-> Answer(t, p, v, c, m)]
        BY <4>1, <2>2 DEF IsWalk
      <4> QED
        BY <4>1, <4>2, <2>3
    <3> QED
      BY <3>1, <3>2
  <2> HIDE DEF w
  <2>5. IsWalk(t, p, k, w)
    <3>1. w = [c \in 0..k |-> w[c]]
      BY DEF w
    <3> QED
      BY <3>1, <2>4 DEF IsWalk
  <2> QED
    BY <1>2, <2>5
<1> QED
  BY <1>3, <1>4

\* The calls that a lookup has before Python's stack ends it.
Calls == Cardinality(Names)

\* A number, as the files name finitely many templates.
LEMMA CallsNat == Calls \in Nat
BY NamesAssumption, FS_CardinalityType DEF Calls

\* Walk is the solution, ...
LEMMA WalkIs == IsWalk(tpls, parent, Calls, Walk)
<1>1. \E w : IsWalk(tpls, parent, Calls, w)
  BY WalkExists, CallsNat
<1>2. Walk = CHOOSE w : IsWalk(tpls, parent, Calls, w)
  BY Zenon DEF Walk, IsWalk, Answer, Calls, OwnValue
<1> QED
  BY <1>1, <1>2, Zenon

\* ... in the next state too.
LEMMA WalkIsPrime == IsWalk(tpls', parent', Calls, Walk')
<1>1. \E w : IsWalk(tpls', parent', Calls, w)
  BY WalkExists, CallsNat
<1>2. Walk' = CHOOSE w : IsWalk(tpls', parent', Calls, w)
  BY Zenon DEF Walk, IsWalk, Answer, Calls, OwnValue
<1> QED
  BY <1>1, <1>2, Zenon

\* What one call of it returns.
LEMMA WalkStep ==
  ASSUME NEW t, NEW p, NEW k \in Nat, NEW w, IsWalk(t, p, k, w),
         NEW c \in 0..k, NEW m \in DOMAIN p
  PROVE  w[c][m] = Answer(t, p, w, c, m)
BY DEF IsWalk

\* A lookup depends on the templates above it only.
LEMMA GetattrAgrees ==
  ASSUME NEW D \in SUBSET (DOMAIN parent \cap DOMAIN parent'),
         \A m \in D : /\ tpls'[m] = tpls[m] /\ parent'[m] = parent[m]
                      /\ parent[m] \in D \union {None}
  PROVE  \A m \in D : Getattr(m)' = Getattr(m)
<1> DEFINE Bad == {c \in 0..Calls : \E m \in D : Walk[c][m] # Walk'[c][m]}
<1>1. Calls \in Nat /\ Bad \in SUBSET Nat
  BY CallsNat
<1>2. ASSUME Bad # {} PROVE FALSE
  <2>1. PICK c \in Bad : \A y \in Bad : c <= y
    BY <1>1, <1>2, LeastNat
  <2>2. PICK m \in D : Walk[c][m] # Walk'[c][m]
    BY <2>1
  <2>3. c \in 0..Calls /\ (c # 0 => c - 1 \in 0..Calls /\ c - 1 \notin Bad)
    BY <1>1, <2>1
  <2>4. Walk[c][m] = Answer(tpls, parent, Walk, c, m)
    BY <1>1, <2>3, WalkStep, WalkIs
  <2>5. Walk'[c][m] = Answer(tpls', parent', Walk', c, m)
    BY <1>1, <2>3, WalkStep, WalkIsPrime
  <2>6. c # 0 /\ parent[m] # None => Walk[c - 1][parent[m]] = Walk'[c - 1][parent[m]]
    BY <2>3
  <2> HIDE DEF Bad
  <2> QED
    BY <2>2, <2>4, <2>5, <2>6 DEF Answer
<1>3. \A m \in D : Walk[Calls][m] = Walk'[Calls][m]
  BY <1>1, <1>2
<1> QED
  BY <1>3 DEF Getattr, Calls

\* A lookup gives a value.
LEMMA WalkTyped ==
  ASSUME TemplateTypeOK, \A m \in DOMAIN parent : parent[m] \in DOMAIN parent \union {None}
  PROVE  \A c \in 0..Calls, m \in DOMAIN parent : Walk[c][m] \in Value
<1> DEFINE Bad == {c \in 0..Calls : \E m \in DOMAIN parent : Walk[c][m] \notin Value}
<1>0. Calls \in Nat /\ Bad \in SUBSET Nat
  BY CallsNat
<1> SUFFICES ASSUME Bad # {} PROVE FALSE
  OBVIOUS
<1>1. PICK c \in Bad : \A y \in Bad : c <= y
  BY <1>0, LeastNat
<1>2. PICK m \in DOMAIN parent : Walk[c][m] \notin Value
  BY <1>1
<1>3. c \in 0..Calls /\ (c # 0 => c - 1 \in 0..Calls /\ c - 1 \notin Bad)
  BY <1>0, <1>1
<1>4. Walk[c][m] = Answer(tpls, parent, Walk, c, m)
  BY <1>0, <1>3, WalkStep, WalkIs
<1>5. c # 0 /\ parent[m] # None => Walk[c - 1][parent[m]] \in Value
  BY <1>3
<1>6. m \in Names /\ tpls[m].file \in {"system", "user"}
  BY DEF TemplateTypeOK, Template
<1> HIDE DEF Bad
<1> QED
  BY <1>2, <1>4, <1>5, <1>6 DEF Answer, Value

-----------------------------------------------------------------------------
\* Before the site's file has been read there is nothing in the mapping but
\* what it says, and no parent is cached.
Fresh ==
  /\ phase = "config" => DOMAIN tpls = {}
  /\ phase \in {"config", "system"} =>
       DOMAIN parent = {} /\ \A t \in DOMAIN tpls : tpls[t].file = "system"

\* A cached parent is the one that the file names, and has one cached as well.
Cached ==
  \A t \in DOMAIN parent :
    parent[t] = tpls[t].entry.inherits /\ parent[t] \in DOMAIN parent \union {None}

\* The parent of a site's template is the site's.
SiteClosed ==
  \A t \in DOMAIN parent :
    tpls[t].file = "system" /\ parent[t] # None => tpls[parent[t]].file = "system"

\* Which templates have one.
Complete ==
  /\ phase = "user" => DOMAIN parent = {t \in DOMAIN tpls : tpls[t].file = "system"}
  /\ phase \in {"ready", "shown"} \/ (phase = "user" /\ missing) =>
       DOMAIN parent = DOMAIN tpls

\* What was shown is what the lookup gives.
ShownInv ==
  phase = "shown" => /\ shown.name \in DOMAIN tpls /\ shown.value # "RecursionError"
                     /\ shown.value = Getattr(shown.name)

\* The inductive invariant.
TemplateInv ==
  TemplateTypeOK /\ Fresh /\ Cached /\ SiteClosed /\ Complete /\ ShownInv

\* Nothing has been read at first.
LEMMA InitTemplateInv == TemplateInit => TemplateInv
<1> SUFFICES ASSUME TemplateInit PROVE TemplateInv
  OBVIOUS
<1>1. DOMAIN tpls = {} /\ DOMAIN parent = {}
  BY DEF TemplateInit
<1>2. phase = "config" /\ missing \in BOOLEAN /\ inFile = {} /\ shown = <<>>
  BY DEF TemplateInit
<1> QED
  BY <1>1, <1>2 DEF TemplateInv, TemplateTypeOK, Fresh, Cached, SiteClosed, Complete, ShownInv

\* Reading a file, or failing to, keeps it.
LEMMA ReadStep ==
  ASSUME TemplateInv, ReadConfig \/ FileFails
  PROVE  TemplateInv'
<1>1. /\ missing' = missing /\ tpls' = tpls /\ inFile' = inFile /\ parent' = parent
      /\ shown' = shown
      /\ \/ phase = "config" /\ phase' = "system"
         \/ phase' = "failed"
  BY DEF ReadConfig, FileFails
<1>2. TemplateTypeOK'
  BY <1>1 DEF TemplateInv, TemplateTypeOK
<1>3. Fresh' /\ Cached' /\ SiteClosed' /\ Complete' /\ ShownInv'
  BY <1>1 DEF TemplateInv, Fresh, Cached, SiteClosed, Complete, ShownInv
<1> QED
  BY <1>2, <1>3 DEF TemplateInv

\* So does an entry: a name of the other file is rejected.
LEMMA LoadStep ==
  ASSUME TemplateInv, NEW m \in Names, NEW e \in Entries, LoadEntry(m, e)
  PROVE  TemplateInv'
<1>1. /\ phase \in {"system", "user"} /\ ~(phase = "user" /\ missing)
      /\ inFile' = inFile \union {m}
      /\ missing' = missing /\ parent' = parent /\ shown' = shown
  BY DEF LoadEntry
<1>2. CASE Rejected(m, e)
  <2>1. phase' = "failed" /\ tpls' = tpls
    BY <1>2 DEF LoadEntry
  <2>2. TemplateTypeOK'
    BY <1>1, <2>1 DEF TemplateInv, TemplateTypeOK
  <2> QED
    BY <1>1, <2>1, <2>2 DEF TemplateInv, Fresh, Cached, SiteClosed, Complete, ShownInv
<1>3. CASE ~Rejected(m, e)
  <2>1. phase' = phase /\ m \notin Reserved /\ m \notin DOMAIN tpls
    BY <1>3 DEF LoadEntry, Rejected
  <2>2. /\ DOMAIN tpls' = DOMAIN tpls \union {m}
        /\ \A t \in DOMAIN tpls : tpls'[t] = tpls[t]
        /\ tpls'[m] = [entry |-> e, file |-> phase]
    BY <1>3, <2>1 DEF LoadEntry, Added
  <2>3. tpls'[m] \in Template
    BY <1>1, <2>2 DEF Template
  <2>4. TemplateTypeOK'
    BY <1>1, <2>1, <2>2, <2>3 DEF TemplateInv, TemplateTypeOK
  <2>5. DOMAIN parent \subseteq DOMAIN tpls
    BY DEF TemplateInv, TemplateTypeOK
  <2>6. Fresh' /\ ShownInv'
    BY <1>1, <2>1, <2>2 DEF TemplateInv, Fresh, ShownInv
  <2>7. Cached' /\ SiteClosed'
    BY <1>1, <2>1, <2>2, <2>5 DEF TemplateInv, Cached, SiteClosed
  <2>8. Complete'
    <3>1. tpls'[m].file = phase
      BY <2>2
    <3>2. phase = "user" =>
            {t \in DOMAIN tpls' : tpls'[t].file = "system"}
              = {t \in DOMAIN tpls : tpls[t].file = "system"}
      BY <2>1, <2>2, <3>1
    <3> QED
      BY <1>1, <2>1, <3>2 DEF TemplateInv, Complete
  <2> QED
    BY <2>4, <2>6, <2>7, <2>8 DEF TemplateInv
<1> QED
  BY <1>2, <1>3

\* So does the end of a file, where validate caches the parents.
LEMMA EndStep ==
  ASSUME TemplateInv, EndFile
  PROVE  TemplateInv'
<1>1. /\ phase \in {"system", "user"} /\ inFile' = {}
      /\ missing' = missing /\ tpls' = tpls /\ shown' = shown
  BY DEF EndFile
<1>2. CASE phase = "user" /\ missing
  <2>1. phase' = "ready" /\ parent' = parent
    BY <1>2 DEF EndFile
  <2>2. TemplateTypeOK'
    BY <1>1, <2>1 DEF TemplateInv, TemplateTypeOK
  <2> QED
    BY <1>1, <1>2, <2>1, <2>2 DEF TemplateInv, Fresh, Cached, SiteClosed, Complete, ShownInv
<1>3. CASE ~(phase = "user" /\ missing) /\ ~\A t \in DOMAIN tpls : Valid(t)
  <2>1. phase' = "failed" /\ parent' = parent
    BY <1>3 DEF EndFile
  <2>2. TemplateTypeOK'
    BY <1>1, <2>1 DEF TemplateInv, TemplateTypeOK
  <2> QED
    BY <1>1, <2>1, <2>2 DEF TemplateInv, Fresh, Cached, SiteClosed, Complete, ShownInv
<1>4. CASE ~(phase = "user" /\ missing) /\ \A t \in DOMAIN tpls : Valid(t)
  <2>1. /\ phase' = Follows(phase)
        /\ parent' = [t \in DOMAIN tpls |->
                        IF tpls[t].entry.inherits \in DOMAIN tpls
                          THEN tpls[t].entry.inherits ELSE None]
    BY <1>4 DEF EndFile
  <2>2. \A t \in DOMAIN tpls : tpls[t].entry.inherits \in DOMAIN tpls \union {None}
    BY <1>4 DEF Valid
  <2>3. /\ DOMAIN parent' = DOMAIN tpls
        /\ \A t \in DOMAIN tpls : parent'[t] = tpls[t].entry.inherits
    BY <2>1, <2>2
  <2>4. \/ phase = "system" /\ phase' = "user"
        \/ phase = "user" /\ phase' = "ready"
    BY <1>1, <2>1 DEF Follows
  <2>5. TemplateTypeOK'
    BY <1>1, <2>2, <2>3, <2>4 DEF TemplateInv, TemplateTypeOK
  <2>6. Fresh' /\ ShownInv' /\ Cached'
    BY <1>1, <2>2, <2>3, <2>4 DEF Fresh, ShownInv, Cached
  <2>7. Complete'
    BY <1>1, <1>4, <2>3, <2>4 DEF TemplateInv, Fresh, Complete
  <2>8. SiteClosed'
    <3> SUFFICES ASSUME NEW t \in DOMAIN tpls, tpls[t].file = "system",
                        tpls[t].entry.inherits # None
                 PROVE  tpls[tpls[t].entry.inherits].file = "system"
      BY <1>1, <2>3 DEF SiteClosed
    <3>1. CASE phase = "system"
      BY <2>2, <3>1 DEF TemplateInv, Fresh
    <3>2. CASE phase = "user"
      <4>1. t \in DOMAIN parent
        BY <3>2 DEF TemplateInv, Complete
      <4> QED
        BY <4>1 DEF TemplateInv, Cached, SiteClosed
    <3> QED
      BY <1>1, <3>1, <3>2
  <2> QED
    BY <2>5, <2>6, <2>7, <2>8 DEF TemplateInv
<1> QED
  BY <1>2, <1>3, <1>4

\* When nothing of the mapping changes, no lookup does.
LEMMA GetattrKept ==
  ASSUME TemplateTypeOK, Cached, tpls' = tpls, parent' = parent
  PROVE  \A t \in DOMAIN parent : Getattr(t)' = Getattr(t)
<1> DEFINE D == DOMAIN parent
<1>1. D \in SUBSET (DOMAIN parent \cap DOMAIN parent')
  OBVIOUS
<1>2. \A t \in D : /\ tpls'[t] = tpls[t] /\ parent'[t] = parent[t]
                   /\ parent[t] \in D \union {None}
  BY DEF Cached
<1> HIDE DEF D
<1>3. \A t \in D : Getattr(t)' = Getattr(t)
  BY <1>1, <1>2, GetattrAgrees
<1> QED
  BY <1>3 DEF D

\* So does a command that reads the settings of a template.
LEMMA ShowStep ==
  ASSUME TemplateInv, NEW m \in Names, Show(m)
  PROVE  TemplateInv'
<1>1. /\ phase = "ready"
      /\ phase' = IF m \in DOMAIN tpls /\ Getattr(m) # "RecursionError"
                    THEN "shown" ELSE "failed"
      /\ shown' = IF m \in DOMAIN tpls THEN [name |-> m, value |-> Getattr(m)] ELSE <<>>
      /\ missing' = missing /\ tpls' = tpls /\ inFile' = inFile /\ parent' = parent
  BY DEF Show
<1>2. DOMAIN parent = DOMAIN tpls
  BY <1>1 DEF TemplateInv, Complete
<1>3. m \in DOMAIN tpls => Getattr(m) \in Value
  <2>1. \A c \in 0..Calls, t \in DOMAIN parent : Walk[c][t] \in Value
    BY WalkTyped DEF TemplateInv, Cached
  <2> QED
    BY <1>2, <2>1, CallsNat DEF Getattr, Calls
<1>4. TemplateTypeOK'
  BY <1>1, <1>3 DEF TemplateInv, TemplateTypeOK
<1>5. m \in DOMAIN tpls => Getattr(m)' = Getattr(m)
  BY <1>1, <1>2, GetattrKept DEF TemplateInv
<1>6. ShownInv'
  <2> SUFFICES ASSUME phase' = "shown"
               PROVE  /\ shown'.name \in DOMAIN tpls' /\ shown'.value # "RecursionError"
                      /\ shown'.value = Getattr(shown.name)'
    BY DEF ShownInv
  <2>1. m \in DOMAIN tpls /\ Getattr(m) # "RecursionError"
    BY <1>1
  <2>2. shown'.name = m /\ shown'.value = Getattr(m)
    BY <1>1, <2>1
  <2>3. Getattr(shown.name)' = Getattr(m)'
    BY <2>2 DEF Getattr
  <2> QED
    BY <1>1, <1>5, <2>1, <2>2, <2>3
<1> QED
  BY <1>1, <1>4, <1>6 DEF TemplateInv, Fresh, Cached, SiteClosed, Complete

\* Every step keeps it.
LEMMA NextTemplateInv == TemplateInv /\ [TemplateNext]_templateVars => TemplateInv'
<1> SUFFICES ASSUME TemplateInv, [TemplateNext]_templateVars PROVE TemplateInv'
  OBVIOUS
<1>1. CASE ReadConfig \/ FileFails
  BY <1>1, ReadStep
<1>2. CASE EndFile
  BY <1>2, EndStep
<1>3. CASE \E m \in Names, e \in Entries : LoadEntry(m, e)
  BY <1>3, LoadStep
<1>4. CASE \E m \in Names : Show(m)
  BY <1>4, ShowStep
<1>5. CASE UNCHANGED templateVars
  <2>1. /\ phase' = phase /\ missing' = missing /\ tpls' = tpls /\ inFile' = inFile
        /\ parent' = parent /\ shown' = shown
    BY <1>5 DEF templateVars
  <2>2. TemplateTypeOK' /\ Fresh' /\ Cached' /\ SiteClosed' /\ Complete'
    BY <2>1 DEF TemplateInv, TemplateTypeOK, Fresh, Cached, SiteClosed, Complete
  <2>3. ShownInv'
    <3>1. \A t \in DOMAIN parent : Getattr(t)' = Getattr(t)
      BY <2>1, GetattrKept DEF TemplateInv
    <3>2. shown.name \in DOMAIN parent => Getattr(shown.name)' = Getattr(shown.name)
      BY <2>1, <3>1 DEF Getattr
    <3> QED
      BY <2>1, <3>1, <3>2 DEF TemplateInv, ShownInv, Complete
  <2> QED
    BY <2>2, <2>3 DEF TemplateInv
<1> QED
  BY <1>1, <1>2, <1>3, <1>4, <1>5 DEF TemplateNext

-----------------------------------------------------------------------------
\* The templates that every set a lookup may consult has.
Least(m) ==
  {t \in DOMAIN tpls : \A S \in SUBSET DOMAIN tpls : Consults(m, S) => t \in S}

\* Every template names a parent that is there, or none.
Whole == \A t \in DOMAIN tpls : tpls[t].entry.inherits \in DOMAIN tpls \union {None}

\* A lookup may consult just them.
LEMMA LeastConsults ==
  ASSUME Whole, NEW m \in DOMAIN tpls
  PROVE  /\ Least(m) \in SUBSET DOMAIN tpls
         /\ Consults(m, Least(m))
         /\ \A S \in SUBSET DOMAIN tpls : Consults(m, S) => Least(m) \subseteq S
<1>1. m \in Least(m)
  BY DEF Least, Consults
<1>2. ASSUME NEW t \in Least(m), ~Mentions(t), tpls[t].entry.inherits # None
      PROVE  tpls[t].entry.inherits \in Least(m)
  <2>1. t \in DOMAIN tpls /\ tpls[t].entry.inherits \in DOMAIN tpls
    BY <1>2 DEF Least, Whole
  <2>2. ASSUME NEW S \in SUBSET DOMAIN tpls, Consults(m, S)
        PROVE  tpls[t].entry.inherits \in S
    <3>1. t \in S
      BY <2>2 DEF Least
    <3> QED
      BY <1>2, <2>2, <3>1 DEF Consults
  <2> QED
    BY <2>1, <2>2 DEF Least
<1>3. Consults(m, Least(m))
  BY <1>1, <1>2 DEF Consults
<1> QED
  BY <1>3 DEF Least

\* They are the ones it consults.
LEMMA ConsultedIsLeast ==
  ASSUME Whole, NEW m \in DOMAIN tpls
  PROVE  Consulted(m) = Least(m)
<1> DEFINE Minimal(S) == /\ S \in SUBSET DOMAIN tpls /\ Consults(m, S)
                         /\ \A T \in SUBSET S : Consults(m, T) => T = S
<1>1. /\ Least(m) \in SUBSET DOMAIN tpls /\ Consults(m, Least(m))
      /\ \A S \in SUBSET DOMAIN tpls : Consults(m, S) => Least(m) \subseteq S
  BY LeastConsults
<1>2. Minimal(Least(m))
  BY <1>1
<1>3. Minimal(Consulted(m))
  BY <1>2, Zenon DEF Consulted
<1> QED
  BY <1>1, <1>3

\* What a template says itself.
Says(t) == IF tpls[t].entry.heritable = "null" THEN "default" ELSE <<tpls[t].file, t>>

\* A lookup that ends gives what the nearest says.
Found(m, value) ==
  /\ \A t \in Least(m) : Mentions(t) => value = Says(t)
  /\ (\A t \in Least(m) : ~Mentions(t)) => value = "default"

\* By the calls that are left: the templates that the parent consults are those
\* that the template does, but for itself.
LEMMA WalkFinds ==
  ASSUME Whole, Cached, DOMAIN parent = DOMAIN tpls
  PROVE  \A c \in 0..Calls, m \in DOMAIN tpls :
           Walk[c][m] # "RecursionError" => Found(m, Walk[c][m])
<1> DEFINE Bad == {c \in 0..Calls : \E m \in DOMAIN tpls :
                     Walk[c][m] # "RecursionError" /\ ~Found(m, Walk[c][m])}
<1>1. Calls \in Nat /\ Bad \in SUBSET Nat
  BY CallsNat
<1> SUFFICES ASSUME Bad # {} PROVE FALSE
  OBVIOUS
<1>2. PICK c \in Bad : \A y \in Bad : c <= y
  BY <1>1, LeastNat
<1>3. PICK m \in DOMAIN tpls : Walk[c][m] # "RecursionError" /\ ~Found(m, Walk[c][m])
  BY <1>2
<1>4. c \in 0..Calls /\ (c # 0 => c - 1 \in 0..Calls /\ c - 1 \notin Bad)
  BY <1>1, <1>2
<1>5. Walk[c][m] = Answer(tpls, parent, Walk, c, m)
  BY <1>1, <1>4, WalkStep, WalkIs
<1>6. ASSUME NEW p \in DOMAIN tpls, c # 0, Walk[c - 1][p] # "RecursionError"
      PROVE  Found(p, Walk[c - 1][p])
  BY <1>4, <1>6
<1> HIDE DEF Bad
<1>7. /\ Consults(m, Least(m)) /\ Least(m) \in SUBSET DOMAIN tpls
      /\ \A S \in SUBSET DOMAIN tpls : Consults(m, S) => Least(m) \subseteq S
  BY LeastConsults
<1>8. parent[m] = tpls[m].entry.inherits /\ parent[m] \in DOMAIN tpls \union {None}
  BY DEF Cached
<1>9. CASE Mentions(m) \/ parent[m] = None
  <2>1. Consults(m, {m})
    BY <1>8, <1>9 DEF Consults
  <2>2. Least(m) = {m}
    <3>1. m \in Least(m)
      BY <1>7 DEF Consults
    <3>2. Least(m) \subseteq {m}
      BY <1>7, <2>1
    <3> QED
      BY <3>1, <3>2
  <2>3. Walk[c][m] = IF Mentions(m) THEN Says(m) ELSE "default"
    BY <1>5, <1>9 DEF Answer, Mentions, Says
  <2> QED
    BY <1>3, <2>2, <2>3 DEF Found
<1>10. CASE ~Mentions(m) /\ parent[m] # None
  <2> DEFINE p == parent[m]
  <2>1. p \in DOMAIN tpls /\ c # 0 /\ Walk[c][m] = Walk[c - 1][p]
    BY <1>3, <1>5, <1>8, <1>10 DEF Answer, Mentions
  <2>2. Found(p, Walk[c][m])
    BY <1>3, <1>6, <2>1
  <2>3. /\ Consults(p, Least(p)) /\ Least(p) \in SUBSET DOMAIN tpls
        /\ \A S \in SUBSET DOMAIN tpls : Consults(p, S) => Least(p) \subseteq S
    BY <2>1, LeastConsults
  <2>4. Consults(m, {m} \union Least(p))
    BY <1>8, <2>3 DEF Consults
  <2>5. Consults(p, Least(m))
    BY <1>7, <1>8, <1>10 DEF Consults
  <2>6. Least(m) \subseteq {m} \union Least(p) /\ Least(p) \subseteq Least(m)
    BY <1>7, <2>3, <2>4, <2>5
  <2> HIDE DEF p
  <2> QED
    BY <1>3, <1>10, <2>2, <2>6 DEF Found
<1> QED
  BY <1>9, <1>10

\* Hence what a command has shown.
LEMMA InvImpliesNearest == TemplateInv => ShownIsNearest
<1> SUFFICES ASSUME TemplateInv, phase = "shown"
             PROVE  NearestSays(shown.name, shown.value)
  BY DEF ShownIsNearest
<1> DEFINE m == shown.name
<1>1. DOMAIN parent = DOMAIN tpls /\ Cached
  BY DEF TemplateInv, Complete
<1>2. Whole
  BY <1>1 DEF Cached, Whole
<1>3. /\ m \in DOMAIN tpls /\ shown.value # "RecursionError"
      /\ shown.value = Walk[Calls][m]
  BY DEF TemplateInv, ShownInv, Getattr, Calls
<1> HIDE DEF m
<1>4. Found(m, shown.value)
  <2>1. Calls \in 0..Calls
    BY CallsNat
  <2> QED
    BY <1>1, <1>2, <1>3, <2>1, WalkFinds
<1>5. Consulted(m) = Least(m)
  BY <1>2, <1>3, ConsultedIsLeast
<1>6. NearestSays(m, shown.value)
  BY <1>4, <1>5 DEF NearestSays, Found, Says
<1> QED
  BY <1>6 DEF m

\* The invariant holds of every state.
LEMMA TemplateInvAlways == TemplateSpec => []TemplateInv
BY InitTemplateInv, NextTemplateInv, PTL DEF TemplateSpec

\* The mapping, the cached parents and what was shown keep their types, for any
\* set of names (TemplateConfig.load, Template.validate).
THEOREM TemplateTypeCorrect == TemplateSpec => []TemplateTypeOK
<1>1. TemplateInv => TemplateTypeOK
  BY DEF TemplateInv
<1> QED
  BY <1>1, TemplateInvAlways, PTL

\* A setting that Template.__getattr__ finds is what the nearest ancestor that
\* mentions it says, for inheritance chains of any length.
THEOREM ShownIsNearestAlways == TemplateSpec => []ShownIsNearest
BY InvImpliesNearest, TemplateInvAlways, PTL

\* No step after the site's file changes a parent or a lookup of its templates.
LEMMA SettledStep ==
  ASSUME TemplateInv, TemplateNext, phase \in {"user", "ready"},
         NEW m \in DOMAIN parent, tpls[m].file = "system"
  PROVE  parent'[m] = parent[m] /\ Getattr(m)' = Getattr(m)
<1> DEFINE D == {t \in DOMAIN parent : tpls[t].file = "system"}
<1>1. \A t \in D : parent[t] \in D \union {None}
  BY DEF TemplateInv, Cached, SiteClosed
<1>2. DOMAIN parent \subseteq DOMAIN tpls
  BY DEF TemplateInv, TemplateTypeOK
<1>3. \A t \in D : tpls'[t] = tpls[t]
  <2>1. CASE ReadConfig \/ FileFails \/ EndFile \/ \E k \in Names : Show(k)
    BY <2>1 DEF ReadConfig, FileFails, EndFile, Show
  <2>2. ASSUME NEW k \in Names, NEW e \in Entries, LoadEntry(k, e)
        PROVE  \A t \in D : tpls'[t] = tpls[t]
    <3>1. CASE Rejected(k, e)
      BY <2>2, <3>1 DEF LoadEntry
    <3>2. CASE ~Rejected(k, e)
      BY <1>2, <2>2, <3>2 DEF LoadEntry, Rejected, Added
    <3> QED
      BY <3>1, <3>2
  <2> QED
    BY <2>1, <2>2 DEF TemplateNext
<1>4. D \subseteq DOMAIN parent' /\ \A t \in D : parent'[t] = parent[t]
  <2>1. CASE parent' = parent
    BY <2>1
  <2>2. CASE parent' # parent
    <3>1. /\ parent' = [t \in DOMAIN tpls |->
                          IF tpls[t].entry.inherits \in DOMAIN tpls
                            THEN tpls[t].entry.inherits ELSE None]
          /\ \A t \in DOMAIN tpls : Valid(t)
      BY <2>2 DEF TemplateNext, ReadConfig, FileFails, LoadEntry, Show, EndFile
    <3> QED
      BY <1>2, <3>1 DEF TemplateInv, Cached, Valid
  <2> QED
    BY <2>1, <2>2
<1>5. D \in SUBSET (DOMAIN parent \cap DOMAIN parent') /\ m \in D
  BY <1>4
<1> HIDE DEF D
<1>6. \A t \in D : Getattr(t)' = Getattr(t)
  BY <1>1, <1>3, <1>4, <1>5, GetattrAgrees
<1> QED
  BY <1>4, <1>5, <1>6

\* No user file changes what a template of the site resolves to (the second
\* TemplateConfig.load of _load).
THEOREM SiteTemplatesSettledAlways == TemplateSpec => SiteTemplatesSettled
<1>1. TemplateInv /\ [TemplateNext]_templateVars =>
        [(phase \in {"user", "ready"}) => KeepsSite]_templateVars
  BY SettledStep DEF KeepsSite
<1> QED
  BY <1>1, TemplateInvAlways, PTL DEF TemplateSpec, SiteTemplatesSettled

-----------------------------------------------------------------------------
(* The command line.                                                       *)

(* A line, or a piece of one: no two arguments claim the same, what it     *)
(* claims, the ids it defines, and that each bus is free or comes before.  *)
Apart(c)   == \A i, j \in DOMAIN c : i # j => Claims(c[i]) \intersect Claims(c[j]) = {}
Claimed(c) == UNION {Claims(a) : a \in ToSet(c)}
Named(c)   == {a.id : a \in ToSet(c)}
Ordered(c, free) ==
  \A i \in DOMAIN c : c[i].bus \in free \union {c[j].id : j \in 1..(i - 1)}

(* What a concatenation defines and claims; it is apart if its halves are  *)
(* apart and claim different things, and ordered if the second half finds  *)
(* its buses in what is free or named before it.                           *)
LEMMA Concatenation ==
  ASSUME NEW c \in Seq(Arguments), NEW t \in Seq(Arguments)
  PROVE  /\ c \o t \in Seq(Arguments)
         /\ ToSet(c \o t) = ToSet(c) \union ToSet(t)
         /\ Claimed(c \o t) = Claimed(c) \union Claimed(t)
         /\ Named(c \o t) = Named(c) \union Named(t)
         /\ Apart(c) /\ Apart(t) /\ Claimed(c) \intersect Claimed(t) = {} => Apart(c \o t)
         /\ \A free : Ordered(c, free) /\ Ordered(t, free \union Named(c)) => Ordered(c \o t, free)
<1> DEFINE u == c \o t
<1>1. u \in Seq(Arguments) /\ Len(u) = Len(c) + Len(t)
  OBVIOUS
<1>2. \A i \in 1..Len(c) : u[i] = c[i]
  OBVIOUS
<1>3. \A i \in 1..Len(t) : u[i + Len(c)] = t[i]
  OBVIOUS
<1>4. ASSUME NEW i \in DOMAIN u
      PROVE  \/ i \in DOMAIN c /\ u[i] = c[i]
             \/ i - Len(c) \in DOMAIN t /\ u[i] = t[i - Len(c)] /\ i \notin DOMAIN c
  <2>1. i \in 1..Len(u) /\ Len(c) \in Nat /\ Len(t) \in Nat
    BY <1>1
  <2>2. CASE i \in 1..Len(c)
    BY <2>2, <1>2
  <2>3. CASE i \notin 1..Len(c)
    <3>1. i - Len(c) \in 1..Len(t) /\ (i - Len(c)) + Len(c) = i
      BY <2>1, <2>3, <1>1
    <3>2. u[(i - Len(c)) + Len(c)] = t[i - Len(c)]
      BY <3>1, <1>3
    <3> QED
      BY <3>1, <3>2, <2>3
  <2> QED
    BY <2>2, <2>3
<1>5. ASSUME NEW i \in DOMAIN c
      PROVE  i \in DOMAIN u /\ u[i] = c[i]
  BY <1>1, <1>2
<1>6. ASSUME NEW i \in DOMAIN t
      PROVE  i + Len(c) \in DOMAIN u /\ u[i + Len(c)] = t[i]
  BY <1>1, <1>3
<1> HIDE DEF u
<1>7. ToSet(u) = ToSet(c) \union ToSet(t)
  BY <1>4, <1>5, <1>6 DEF ToSet
<1>8. Claimed(u) = Claimed(c) \union Claimed(t)
  BY <1>7 DEF Claimed
<1>9. Named(u) = Named(c) \union Named(t)
  BY <1>7 DEF Named
<1>10. ASSUME Apart(c), Apart(t), Claimed(c) \intersect Claimed(t) = {}
       PROVE  Apart(u)
  <2>1. \A i \in DOMAIN c : Claims(c[i]) \subseteq Claimed(c)
    BY DEF Claimed, ToSet
  <2>2. \A i \in DOMAIN t : Claims(t[i]) \subseteq Claimed(t)
    BY DEF Claimed, ToSet
  <2> SUFFICES ASSUME NEW i \in DOMAIN u, NEW j \in DOMAIN u, i # j
               PROVE  Claims(u[i]) \intersect Claims(u[j]) = {}
    BY DEF Apart
  <2>3. i \in Nat /\ j \in Nat /\ Len(c) \in Nat
    BY <1>1
  <2>4. CASE i \in DOMAIN c /\ j \in DOMAIN c
    BY <2>4, <1>5, <1>10 DEF Apart
  <2>5. CASE i \in DOMAIN c /\ j \notin DOMAIN c
    BY <2>5, <1>5, <1>4, <1>10, <2>1, <2>2
  <2>6. CASE i \notin DOMAIN c /\ j \in DOMAIN c
    BY <2>6, <1>5, <1>4, <1>10, <2>1, <2>2
  <2>7. CASE i \notin DOMAIN c /\ j \notin DOMAIN c
    <3>1. i - Len(c) # j - Len(c)
      BY <2>3
    <3>2. /\ i - Len(c) \in DOMAIN t /\ u[i] = t[i - Len(c)]
          /\ j - Len(c) \in DOMAIN t /\ u[j] = t[j - Len(c)]
      BY <2>7, <1>4
    <3> QED
      BY <3>1, <3>2, <1>10 DEF Apart
  <2> QED
    BY <2>4, <2>5, <2>6, <2>7
<1>11. ASSUME NEW free, Ordered(c, free), Ordered(t, free \union Named(c))
       PROVE  Ordered(u, free)
  <2> SUFFICES ASSUME NEW i \in DOMAIN u
               PROVE  u[i].bus \in free \union {u[j].id : j \in 1..(i - 1)}
    BY DEF Ordered
  <2>1. i \in Nat /\ i >= 1 /\ Len(c) \in Nat /\ DOMAIN c = 1..Len(c) /\ DOMAIN t = 1..Len(t)
        /\ DOMAIN u = 1..Len(u)
    BY <1>1
  <2>2. CASE i \in DOMAIN c
    <3>1. \A j \in 1..(i - 1) : u[j] = c[j]
      BY <2>1, <2>2, <1>5
    <3> QED
      BY <3>1, <2>2, <1>5, <1>11 DEF Ordered
  <2>3. CASE i \notin DOMAIN c
    <3>1. i - Len(c) \in DOMAIN t /\ u[i] = t[i - Len(c)] /\ i > Len(c)
      BY <2>1, <2>3, <1>4
    <3>2. ASSUME NEW x \in Named(c)
          PROVE  x \in {u[j].id : j \in 1..(i - 1)}
      <4>1. PICK j \in DOMAIN c : x = c[j].id
        BY <3>2 DEF Named, ToSet
      <4>2. j \in 1..(i - 1) /\ u[j] = c[j]
        BY <4>1, <3>1, <2>1, <1>5
      <4> QED
        BY <4>1, <4>2
    <3>3. ASSUME NEW j \in 1..((i - Len(c)) - 1)
          PROVE  j + Len(c) \in 1..(i - 1) /\ u[j + Len(c)] = t[j]
      <4>1. j \in DOMAIN t
        BY <3>1, <2>1
      <4> QED
        BY <4>1, <3>1, <2>1, <1>6
    <3>4. t[i - Len(c)].bus
            \in free \union Named(c) \union {t[j].id : j \in 1..((i - Len(c)) - 1)}
      BY <3>1, <1>11 DEF Ordered
    <3> QED
      BY <3>1, <3>2, <3>3, <3>4
  <2> QED
    BY <2>2, <2>3
<1> QED
  BY <1>1, <1>7, <1>8, <1>9, <1>10, <1>11 DEF u

(* Short sequences of arguments.                                           *)
LEMMA NoArgument ==
  /\ <<>> \in Seq(Arguments) /\ ToSet(<<>>) = {} /\ Claimed(<<>>) = {} /\ Named(<<>>) = {}
  /\ Apart(<<>>) /\ \A free : Ordered(<<>>, free)
<1>1. ToSet(<<>>) = {}
  BY DEF ToSet
<1> QED
  BY <1>1 DEF Claimed, Named, Apart, Ordered

(* A line of one argument.                                                 *)
LEMMA OneArgument ==
  ASSUME NEW a \in Arguments
  PROVE  /\ <<a>> \in Seq(Arguments) /\ ToSet(<<a>>) = {a}
         /\ Claimed(<<a>>) = Claims(a) /\ Named(<<a>>) = {a.id} /\ Apart(<<a>>)
         /\ \A free : a.bus \in free => Ordered(<<a>>, free)
<1>1. ToSet(<<a>>) = {a}
  BY DEF ToSet
<1>2. Apart(<<a>>)
  BY DEF Apart
<1>3. \A free : a.bus \in free => Ordered(<<a>>, free)
  BY DEF Ordered
<1> QED
  BY <1>1, <1>2, <1>3 DEF Claimed, Named

(* A line of two arguments.                                                *)
LEMMA TwoArguments ==
  ASSUME NEW a \in Arguments, NEW b \in Arguments
  PROVE  /\ <<a, b>> \in Seq(Arguments) /\ ToSet(<<a, b>>) = {a, b}
         /\ Claimed(<<a, b>>) = Claims(a) \union Claims(b) /\ Named(<<a, b>>) = {a.id, b.id}
         /\ Claims(a) \intersect Claims(b) = {} => Apart(<<a, b>>)
         /\ \A free : a.bus \in free /\ b.bus \in free \union {a.id} => Ordered(<<a, b>>, free)
<1>1. ToSet(<<a, b>>) = {a, b}
  BY DEF ToSet
<1>2. ASSUME Claims(a) \intersect Claims(b) = {}
      PROVE  Apart(<<a, b>>)
  BY <1>2 DEF Apart
<1>3. ASSUME NEW free, a.bus \in free, b.bus \in free \union {a.id}
      PROVE  Ordered(<<a, b>>, free)
  <2> SUFFICES ASSUME NEW i \in {1, 2}
               PROVE  <<a, b>>[i].bus \in free \union {<<a, b>>[j].id : j \in 1..(i - 1)}
    BY DEF Ordered
  <2>1. CASE i = 1
    BY <1>3, <2>1
  <2>2. CASE i = 2
    <3>1. 1 \in 1..(i - 1) /\ <<a, b>>[1] = a
      BY <2>2
    <3> QED
      BY <1>3, <2>2, <3>1
  <2> QED
    BY <2>1, <2>2
<1> QED
  BY <1>1, <1>2, <1>3 DEF Claimed, Named

(* A line of three arguments.                                              *)
LEMMA ThreeArguments ==
  ASSUME NEW a \in Arguments, NEW b \in Arguments, NEW d \in Arguments
  PROVE  /\ <<a, b, d>> \in Seq(Arguments) /\ ToSet(<<a, b, d>>) = {a, b, d}
         /\ Claimed(<<a, b, d>>) = Claims(a) \union Claims(b) \union Claims(d)
         /\ Named(<<a, b, d>>) = {a.id, b.id, d.id}
         /\ /\ Claims(a) \intersect Claims(b) = {}
            /\ (Claims(a) \union Claims(b)) \intersect Claims(d) = {}
            => Apart(<<a, b, d>>)
         /\ \A free : {a.bus, b.bus, d.bus} \subseteq free => Ordered(<<a, b, d>>, free)
<1>1. ToSet(<<a, b, d>>) = {a, b, d}
  BY DEF ToSet
<1>2. ASSUME Claims(a) \intersect Claims(b) = {},
             (Claims(a) \union Claims(b)) \intersect Claims(d) = {}
      PROVE  Apart(<<a, b, d>>)
  <2>1. Claims(a) \intersect Claims(d) = {} /\ Claims(b) \intersect Claims(d) = {}
    BY <1>2
  <2> QED
    BY <1>2, <2>1 DEF Apart
<1>3. \A free : {a.bus, b.bus, d.bus} \subseteq free => Ordered(<<a, b, d>>, free)
  BY DEF Ordered
<1> QED
  BY <1>1, <1>2, <1>3 DEF Claimed, Named

(* A name is not Nil.                                                      *)
LEMMA NamesAreNotNil ==
  ASSUME NEW k \in Kinds, NEW x \in Nat
  PROVE  <<k, x>> \in Resources /\ <<k, x>> # Nil
BY NilAssumption DEF Resources

(* The mark for an address that QEMU chooses is no address.                *)
LEMMA AutoIsApart == AutoSlot \in Resources /\ AutoSlot[1] = "auto" /\ AutoSlot # Nil
BY NamesAreNotNil DEF AutoSlot, Id, Kinds

(* The fields of an argument, and what it claims.                          *)
LEMMA ArgClaims ==
  ASSUME NEW opt \in Options, NEW id \in Resources \union {Nil}, NEW uses \in SUBSET Resources,
         NEW bus \in Resources \union {Nil}, NEW at \in Resources \union {Nil},
         NEW path \in Resources \union {Nil}
  PROVE  /\ Arg(opt, id, uses, bus, at, path) \in Arguments
         /\ Claims(Arg(opt, id, uses, bus, at, path))
              = ({id, at, path} \union {u \in uses : u[1] = "tag"}) \ {Nil, AutoSlot}
BY DEF Arg, Arguments, Claims, Tags

(* An option without a value claims nothing.                               *)
LEMMA FlagClaims ==
  ASSUME NEW opt \in Options
  PROVE  Flag(opt) \in Arguments /\ Claims(Flag(opt)) = {}
BY ArgClaims DEF Flag

(* A backend claims its id.                                                *)
LEMMA BackendClaims ==
  ASSUME NEW opt \in Options, NEW id \in Resources, id[1] # "auto"
  PROVE  Backend(opt, id) \in Arguments /\ Claims(Backend(opt, id)) = {id}
<1>1. id # Nil /\ id # AutoSlot
  BY NilAssumption DEF AutoSlot, Id
<1>2. /\ Backend(opt, id) \in Arguments
      /\ Claims(Backend(opt, id))
           = ({id, Nil, Nil} \union {u \in {} : u[1] = "tag"}) \ {Nil, AutoSlot}
  BY DEF Backend, Options, Arg, Arguments, Claims, Tags
<1> QED
  BY <1>1, <1>2

(* A character device claims its id and its socket.                        *)
LEMMA ChardevClaims ==
  ASSUME NEW id \in Resources, NEW path \in Resources, id[1] # "auto", path[1] # "auto"
  PROVE  Chardev(id, path) \in Arguments /\ Claims(Chardev(id, path)) = {id, path}
<1>1. id # Nil /\ id # AutoSlot /\ path # Nil /\ path # AutoSlot
  BY NilAssumption DEF AutoSlot, Id
<1>2. /\ Chardev(id, path) \in Arguments
      /\ Claims(Chardev(id, path))
           = ({id, Nil, path} \union {u \in {} : u[1] = "tag"}) \ {Nil, AutoSlot}
  BY DEF Chardev, Options, Arg, Arguments, Claims, Tags
<1> QED
  BY <1>1, <1>2

(* A device at an address of QEMU's choice claims at most mount tags.      *)
LEMMA DeviceClaims ==
  ASSUME NEW uses \in SUBSET Resources
  PROVE  /\ Device(uses) \in Arguments
         /\ Claims(Device(uses)) = {u \in uses : u[1] = "tag"}
<1>1. Pcie0 \in Resources /\ AutoSlot \in Resources /\ AutoSlot[1] = "auto"
  BY NamesAreNotNil DEF Pcie0, AutoSlot, Id, Kinds
<1>2. \A u \in uses : u # Nil /\ (u[1] = "tag" => u # AutoSlot)
  BY <1>1, NilAssumption
<1>3. /\ Device(uses) \in Arguments
      /\ Claims(Device(uses))
           = ({Nil, AutoSlot, Nil} \union {u \in uses : u[1] = "tag"}) \ {Nil, AutoSlot}
  BY <1>1 DEF Device, Options, Arg, Arguments, Claims, Tags
<1> QED
  BY <1>2, <1>3

-----------------------------------------------------------------------------
(* What each step appends: a batch refers, tags apart, only to ids of its  *)
(* own, so that lines of one piece stay so when one is added.              *)
SelfContained(t) == \A a \in ToSet(t) : a.uses \ Tags(a) \subseteq Named(t)
Plain(t) == \A a \in ToSet(t) : a.opt # "-machine" /\ ~Served(a)
Batch(t) == t \in Seq(Arguments) /\ Apart(t) /\ SelfContained(t)

(* A virtio disk's address.                                                *)
LEMMA VirtioAddresses ==
  /\ VirtioAt(0) = <<"pci", 48>>
  /\ \A k \in Nat : VirtioAt(k) \in Resources /\ VirtioAt(k)[1] = "pci" /\ VirtioAt(k)[2] \in Nat
  /\ \A k, l \in Nat : VirtioAt(k) = VirtioAt(l) => k = l
  /\ \A k \in Nat \ {0} : \E l \in 0..k : VirtioAt(l) = <<"pci", 8 * (VirtioAt(k)[2] \div 8)>>
<1>1. VirtioAt(0) = <<"pci", 48>>
  BY DEF VirtioAt, ReadAsHex
<1>2. ASSUME NEW k \in Nat
      PROVE  VirtioAt(k) \in Resources /\ VirtioAt(k)[1] = "pci" /\ VirtioAt(k)[2] \in Nat
  <2> DEFINE v == IF k = 0 THEN 8 * ReadAsHex(6)
                  ELSE 8 * ReadAsHex((k - 1) \div 3 + 7) + ((k - 1) % 3)
  <2>1. v \in Nat
    BY DEF ReadAsHex
  <2> HIDE DEF v
  <2>2. <<"pci", v>> \in Resources /\ <<"pci", v>>[1] = "pci" /\ <<"pci", v>>[2] \in Nat
    BY <2>1, NamesAreNotNil DEF Kinds
  <2> QED
    BY <2>2 DEF VirtioAt, v
<1>3. ASSUME NEW k \in Nat, NEW l \in Nat, VirtioAt(k)[2] = VirtioAt(l)[2]
      PROVE  k = l
  <2> DEFINE H(x) == 8 * ReadAsHex((x - 1) \div 3 + 7) + ((x - 1) % 3)
  <2>1. ASSUME NEW x \in Nat \ {0} PROVE H(x) # 48 /\ VirtioAt(x)[2] = H(x)
    BY SMTT(60) DEF ReadAsHex, VirtioAt
  <2>2. ASSUME NEW x \in Nat \ {0}, NEW y \in Nat \ {0}, H(x) = H(y) PROVE x = y
    BY <2>2, SMTT(60) DEF ReadAsHex
  <2>3. VirtioAt(0)[2] = 48
    BY <1>1
  <2> HIDE DEF H
  <2> QED
    BY <1>3, <2>1, <2>2, <2>3
<1>4. ASSUME NEW k \in Nat \ {0}
      PROVE  \E l \in 0..k : VirtioAt(l) = <<"pci", 8 * (VirtioAt(k)[2] \div 8)>>
  <2> DEFINE l == 3 * ((k - 1) \div 3) + 1
  <2>1. l \in 0..k /\ l # 0 /\ (l - 1) \div 3 = (k - 1) \div 3 /\ (l - 1) % 3 = 0
    BY SMTT(60)
  <2>2. VirtioAt(k)[2] = 8 * ReadAsHex((k - 1) \div 3 + 7) + ((k - 1) % 3)
    BY DEF VirtioAt
  <2>3. ReadAsHex((k - 1) \div 3 + 7) \in Nat /\ (k - 1) % 3 \in 0..2
    BY DEF ReadAsHex
  <2>4. 8 * (VirtioAt(k)[2] \div 8) = 8 * ReadAsHex((k - 1) \div 3 + 7)
    BY <2>2, <2>3
  <2> HIDE DEF l
  <2>5. VirtioAt(l) = <<"pci", 8 * ReadAsHex((k - 1) \div 3 + 7) + 0>>
    BY <2>1 DEF VirtioAt
  <2> QED
    BY <2>1, <2>3, <2>4, <2>5
<1> QED
  BY <1>1, <1>2, <1>3, <1>4

(* block_cmdline.                                                          *)
BlockClaims(model, k) ==
  {Drive(k)} \union
  CASE model = "virtio"      -> {<<"ioth", k>>, <<"vblk", k>>, VirtioAt(k)}
    [] model = "virtio-scsi" -> {<<"ioth", k>>, <<"scsi-hd", k>>, <<"scsi", k>>}
    [] model = "nvme"        -> {}
    [] model = "ide"         -> {<<"ahci-port", k>>}
                                \union (IF k = 0 THEN {Id("ahci"), VirtioAt(0)} ELSE {})

(* The arguments of disk k, for every model: what they claim carries the   *)
(* number k, their drive is among them, and their bus is the root bus, the *)
(* SCSI controller or AHCI.                                                *)
LEMMA BlockBatch ==
  ASSUME NEW model \in Models, NEW k \in Nat
  PROVE  /\ Batch(Block(model, k)) /\ Plain(Block(model, k))
         /\ Claimed(Block(model, k)) = BlockClaims(model, k)
         /\ \A free : /\ {Nil, Pcie0, Id("scsi0")} \subseteq free
                      /\ model = "ide" /\ k # 0 => Id("ahci") \in free
                      => Ordered(Block(model, k), free)
         /\ model = "virtio" => \E a \in ToSet(Block(model, k)) : a.at = VirtioAt(k)
         /\ model = "ide" /\ k = 0 => Id("ahci") \in Named(Block(model, k))
<1> DEFINE io == IoThread(k)
           bd == Blockdev(k)
<1>1. /\ Drive(k) \in Resources /\ <<"ioth", k>> \in Resources /\ <<"vblk", k>> \in Resources
      /\ <<"scsi-hd", k>> \in Resources /\ <<"scsi", k>> \in Resources
      /\ <<"ahci-port", k>> \in Resources /\ Id("ahci") \in Resources
      /\ Id("scsi0") \in Resources /\ Pcie0 \in Resources /\ VirtioAt(k) \in Resources
      /\ VirtioAt(0) \in Resources
  BY NamesAreNotNil, VirtioAddresses DEF Kinds, Drive, Id, Pcie0
<1>2. /\ io \in Arguments /\ Claims(io) = {<<"ioth", k>>} /\ io.id = <<"ioth", k>> /\ io.bus = Nil
      /\ io.uses = {} /\ io.opt = "-object"
  BY <1>1, BackendClaims DEF IoThread, Backend, Arg, Options
<1>3. /\ bd \in Arguments /\ Claims(bd) = {Drive(k)} /\ bd.id = Drive(k) /\ bd.bus = Nil
      /\ bd.uses = {} /\ bd.opt = "-blockdev"
  BY <1>1, BackendClaims DEF Blockdev, Backend, Arg, Options, Drive
<1> HIDE DEF io, bd
<1>4. CASE model = "virtio"
  <2> DEFINE d == Arg("-device", <<"vblk", k>>, {Drive(k)}, Pcie0, VirtioAt(k), Nil)
  <2>1. /\ d \in Arguments /\ d.id = <<"vblk", k>> /\ d.uses = {Drive(k)} /\ d.bus = Pcie0
        /\ d.at = VirtioAt(k) /\ d.path = Nil /\ d.opt = "-device"
    BY <1>1 DEF Arg, Arguments, Options
  <2> HIDE DEF d
  <2>2. Claims(d) = {<<"vblk", k>>, VirtioAt(k)}
    <3>1. /\ VirtioAt(k) # Nil /\ VirtioAt(k) # AutoSlot
          /\ <<"vblk", k>> # Nil /\ <<"vblk", k>> # AutoSlot /\ Drive(k)[1] # "tag"
      <4>1. VirtioAt(k)[1] = "pci"
        BY VirtioAddresses
      <4>2. VirtioAt(k) # Nil /\ VirtioAt(k) # AutoSlot
        BY <1>1, <4>1, NilAssumption, AutoIsApart
      <4>3. <<"vblk", k>> # Nil /\ <<"vblk", k>> # AutoSlot /\ Drive(k)[1] # "tag"
        BY <1>1, NilAssumption DEF Drive, AutoSlot, Id
      <4> QED
        BY <4>2, <4>3
    <3> QED
      BY <2>1, <3>1 DEF Claims, Tags
  <2>3. Block(model, k) = <<io, d, bd>>
    BY <1>4 DEF Block, io, d, bd
  <2>4. /\ Claims(io) \intersect Claims(d) = {}
        /\ (Claims(io) \union Claims(d)) \intersect Claims(bd) = {}
    BY <1>2, <1>3, <2>2, VirtioAddresses DEF Drive
  <2>5. /\ ToSet(<<io, d, bd>>) = {io, d, bd} /\ <<io, d, bd>> \in Seq(Arguments)
        /\ Apart(<<io, d, bd>>) /\ Drive(k) \in Named(<<io, d, bd>>)
    BY <1>2, <1>3, <2>1, <2>4, ThreeArguments
  <2>6. Batch(<<io, d, bd>>) /\ Plain(<<io, d, bd>>)
    <3>1. SelfContained(<<io, d, bd>>)
      BY <1>2, <1>3, <2>1, <2>5 DEF SelfContained
    <3>2. Plain(<<io, d, bd>>)
      BY <1>2, <1>3, <2>1, <2>5 DEF Plain, Served, Drive
    <3> QED
      BY <3>1, <3>2, <2>5 DEF Batch
  <2>7. Claimed(<<io, d, bd>>) = BlockClaims(model, k)
    BY <1>2, <1>3, <1>4, <2>1, <2>2, ThreeArguments DEF BlockClaims
  <2>8. \A free : {Nil, Pcie0, Id("scsi0")} \subseteq free => Ordered(<<io, d, bd>>, free)
    BY <1>2, <1>3, <2>1, ThreeArguments
  <2>9. d \in ToSet(<<io, d, bd>>) /\ d.at = VirtioAt(k)
    BY <1>2, <1>3, <2>1, ThreeArguments
  <2> QED
    BY <1>4, <2>3, <2>5, <2>6, <2>7, <2>8, <2>9
<1>5. CASE model = "virtio-scsi"
  <2> DEFINE d == Arg("-device", <<"scsi-hd", k>>, {Drive(k)}, Id("scsi0"), <<"scsi", k>>, Nil)
  <2>1. /\ d \in Arguments /\ d.id = <<"scsi-hd", k>> /\ d.uses = {Drive(k)}
        /\ d.bus = Id("scsi0") /\ d.at = <<"scsi", k>> /\ d.path = Nil /\ d.opt = "-device"
    BY <1>1 DEF Arg, Arguments, Options
  <2> HIDE DEF d
  <2>2. Claims(d) = {<<"scsi-hd", k>>, <<"scsi", k>>}
    BY <1>1, <2>1, NilAssumption DEF Claims, Tags, Drive, AutoSlot, Id
  <2>3. Block(model, k) = <<io, d, bd>>
    BY <1>5 DEF Block, io, d, bd
  <2>4. /\ Claims(io) \intersect Claims(d) = {}
        /\ (Claims(io) \union Claims(d)) \intersect Claims(bd) = {}
    BY <1>2, <1>3, <2>2 DEF Drive
  <2>5. /\ ToSet(<<io, d, bd>>) = {io, d, bd} /\ <<io, d, bd>> \in Seq(Arguments)
        /\ Apart(<<io, d, bd>>) /\ Drive(k) \in Named(<<io, d, bd>>)
    BY <1>2, <1>3, <2>1, <2>4, ThreeArguments
  <2>6. Batch(<<io, d, bd>>) /\ Plain(<<io, d, bd>>)
    <3>1. SelfContained(<<io, d, bd>>)
      BY <1>2, <1>3, <2>1, <2>5 DEF SelfContained
    <3>2. Plain(<<io, d, bd>>)
      BY <1>2, <1>3, <2>1, <2>5 DEF Plain, Served, Drive
    <3> QED
      BY <3>1, <3>2, <2>5 DEF Batch
  <2>7. Claimed(<<io, d, bd>>) = BlockClaims(model, k)
    BY <1>2, <1>3, <1>5, <2>1, <2>2, ThreeArguments DEF BlockClaims
  <2>8. \A free : {Nil, Pcie0, Id("scsi0")} \subseteq free => Ordered(<<io, d, bd>>, free)
    BY <1>2, <1>3, <2>1, ThreeArguments
  <2> QED
    BY <1>5, <2>3, <2>5, <2>6, <2>7, <2>8
<1>6. CASE model = "nvme"
  <2> DEFINE d == Device({Drive(k)})
  <2>1. /\ d \in Arguments /\ Claims(d) = {} /\ d.uses = {Drive(k)} /\ d.bus = Pcie0
        /\ d.path = Nil /\ d.opt = "-device"
    BY <1>1, DeviceClaims DEF Device, Arg, Drive
  <2> HIDE DEF d
  <2>2. Block(model, k) = <<d, bd>>
    BY <1>6 DEF Block, d, bd
  <2>3. Batch(<<d, bd>>)
    BY <1>3, <2>1, TwoArguments DEF Batch, SelfContained
  <2>4. Plain(<<d, bd>>)
    BY <1>3, <2>1, TwoArguments DEF Plain, Served, Drive
  <2>5. Claimed(<<d, bd>>) = BlockClaims(model, k)
    BY <1>3, <1>6, <2>1, TwoArguments DEF BlockClaims
  <2>6. \A free : {Nil, Pcie0, Id("scsi0")} \subseteq free => Ordered(<<d, bd>>, free)
    BY <1>3, <2>1, TwoArguments
  <2> QED
    BY <1>6, <2>2, <2>3, <2>4, <2>5, <2>6
<1>7. CASE model = "ide"
  <2> DEFINE d == Arg("-device", Nil, {Drive(k)}, Id("ahci"), <<"ahci-port", k>>, Nil)
             c == Arg("-device", Id("ahci"), {}, Pcie0, <<"pci", 8 * 6>>, Nil)
  <2>1. /\ d \in Arguments /\ d.id = Nil /\ d.uses = {Drive(k)} /\ d.bus = Id("ahci")
        /\ d.at = <<"ahci-port", k>> /\ d.path = Nil /\ d.opt = "-device"
    BY <1>1 DEF Arg, Arguments, Options
  <2>2. <<"pci", 8 * 6>> = VirtioAt(0)
    BY VirtioAddresses
  <2>3. /\ c \in Arguments /\ c.id = Id("ahci") /\ c.uses = {} /\ c.bus = Pcie0
        /\ c.at = VirtioAt(0) /\ c.path = Nil /\ c.opt = "-device"
    BY <1>1, <2>2 DEF Arg, Arguments, Options
  <2> HIDE DEF d, c
  <2>4. Claims(d) = {<<"ahci-port", k>>}
    BY <1>1, <2>1, NilAssumption DEF Claims, Tags, Drive, AutoSlot, Id
  <2>5. Claims(c) = {Id("ahci"), VirtioAt(0)}
    <3>1. /\ VirtioAt(0) # Nil /\ VirtioAt(0) # AutoSlot /\ Id("ahci") # Nil
          /\ Id("ahci") # AutoSlot
      <4>1. VirtioAt(0)[1] = "pci"
        BY VirtioAddresses
      <4>2. VirtioAt(0) # Nil /\ VirtioAt(0) # AutoSlot
        BY <1>1, <4>1, NilAssumption, AutoIsApart
      <4>3. Id("ahci") # Nil /\ Id("ahci") # AutoSlot
        BY <1>1, NilAssumption DEF AutoSlot, Id
      <4> QED
        BY <4>2, <4>3
    <3> QED
      BY <2>3, <3>1 DEF Claims, Tags
  <2>6. Block(model, k) = If(k = 0, <<c>>) \o <<d, bd>>
    BY <1>7 DEF Block, Ahci, d, c, bd
  <2> DEFINE s == <<d, bd>>
             r == <<c>>
  <2>7. s \in Seq(Arguments) /\ ToSet(s) = {d, bd} /\ Named(s) = {Nil, Drive(k)}
    BY <1>3, <2>1, TwoArguments
  <2>8. Apart(s) /\ Claimed(s) = {<<"ahci-port", k>>, Drive(k)}
    BY <1>3, <2>1, <2>4, TwoArguments DEF Drive
  <2>9. \A free : {Nil, Id("ahci")} \subseteq free => Ordered(s, free)
    BY <1>3, <2>1, TwoArguments
  <2>10. /\ r \in Seq(Arguments) /\ ToSet(r) = {c} /\ Apart(r)
         /\ Claimed(r) = {Id("ahci"), VirtioAt(0)} /\ Named(r) = {Id("ahci")}
         /\ \A free : Pcie0 \in free => Ordered(r, free)
    BY <2>3, <2>5, OneArgument
  <2>11. CASE k = 0
    <3>1. Block(model, k) = r \o s
      BY <2>6, <2>11 DEF If
    <3> HIDE DEF r, s
    <3>2. Claimed(r) \intersect Claimed(s) = {}
      BY <2>8, <2>10, VirtioAddresses DEF Drive, Id
    <3> DEFINE t == r \o s
    <3>3. t \in Seq(Arguments) /\ Apart(t)
      BY <3>2, <2>7, <2>8, <2>10, Concatenation
    <3>4. ToSet(t) = {c, d, bd} /\ Named(t) = {Id("ahci"), Nil, Drive(k)}
      BY <2>7, <2>10, Concatenation
    <3>5. Claimed(t) = {Id("ahci"), VirtioAt(0), <<"ahci-port", k>>, Drive(k)}
      BY <2>7, <2>8, <2>10, Concatenation
    <3>6. ASSUME NEW free, {Nil, Pcie0, Id("scsi0")} \subseteq free
          PROVE  Ordered(t, free)
      <4>1. Ordered(r, free) /\ Ordered(s, free \union Named(r))
        BY <3>6, <2>9, <2>10
      <4> QED
        BY <4>1, <2>7, <2>10, Concatenation
    <3> HIDE DEF t
    <3>7. SelfContained(t)
      BY <3>4, <2>1, <2>3, <1>3 DEF SelfContained
    <3>8. Plain(t)
      BY <3>4, <2>1, <2>3, <1>3 DEF Plain, Served, Drive
    <3>9. Claimed(t) = BlockClaims(model, k)
      BY <3>5, <2>11, <1>7 DEF BlockClaims
    <3> QED
      BY <3>1, <3>3, <3>4, <3>6, <3>7, <3>8, <3>9, <1>7 DEF Batch, t
  <2>12. CASE k # 0
    <3>1. Block(model, k) = s
      BY <2>6, <2>12, <2>7 DEF If
    <3> HIDE DEF s
    <3>2. SelfContained(s)
      BY <2>7, <2>1, <1>3 DEF SelfContained
    <3>3. Plain(s)
      BY <2>7, <2>1, <1>3 DEF Plain, Served, Drive
    <3>4. Claimed(s) = BlockClaims(model, k)
      BY <2>8, <2>12, <1>7 DEF BlockClaims
    <3> QED
      BY <3>1, <3>2, <3>3, <3>4, <2>7, <2>8, <2>9, <2>12, <1>7 DEF Batch
  <2> QED
    BY <2>11, <2>12
<1> QED
  BY <1>4, <1>5, <1>6, <1>7 DEF Models

(* A device with its backend: the cloud-init image, the network, a 9p      *)
(* mount, the RNG.                                                         *)
LEMMA PairBatch ==
  ASSUME NEW a \in Arguments, NEW b \in Arguments, Claims(a) \intersect Claims(b) = {},
         a.uses = {}, b.uses \ Tags(b) = {a.id}, a.bus = Nil, b.bus # Nil,
         a.opt \notin {"-machine", "-device"}, b.opt = "-device",
         b.path = Nil, \A u \in b.uses : u[1] # "char_fs"
  PROVE  /\ Batch(<<a, b>>) /\ Plain(<<a, b>>)
         /\ Claimed(<<a, b>>) = Claims(a) \union Claims(b)
         /\ ToSet(<<a, b>>) = {a, b}
         /\ \A free : {Nil, b.bus} \subseteq free => Ordered(<<a, b>>, free)
<1>1. /\ <<a, b>> \in Seq(Arguments) /\ ToSet(<<a, b>>) = {a, b} /\ Apart(<<a, b>>)
      /\ Claimed(<<a, b>>) = Claims(a) \union Claims(b) /\ Named(<<a, b>>) = {a.id, b.id}
  BY TwoArguments
<1>2. \A free : {Nil, b.bus} \subseteq free => Ordered(<<a, b>>, free)
  BY TwoArguments
<1>3. SelfContained(<<a, b>>)
  BY <1>1 DEF SelfContained, Tags
<1>4. Plain(<<a, b>>)
  BY <1>1 DEF Plain, Served
<1> QED
  BY <1>1, <1>2, <1>3, <1>4 DEF Batch

(* Nothing is a batch.                                                     *)
LEMMA NoneBatch == Batch(<<>>) /\ Plain(<<>>)
BY NoArgument DEF Batch, Plain, SelfContained

(* _mount_cmdline.                                                         *)
NinePClaims(m) == {<<"fsdev", m>>, <<"tag", m>>}

(* The two arguments of a 9p mount claim its fsdev and its tag.            *)
LEMMA NinePBatch ==
  ASSUME NEW m \in Nat
  PROVE  /\ Batch(NineP(m)) /\ Plain(NineP(m))
         /\ Claimed(NineP(m)) = IF mounts[m + 1] # "virtio-fs" THEN NinePClaims(m) ELSE {}
         /\ \A free : {Nil, Pcie0} \subseteq free => Ordered(NineP(m), free)
<1>1. CASE mounts[m + 1] = "virtio-fs"
  <2>1. NineP(m) = <<>>
    BY <1>1 DEF NineP, If
  <2> QED
    BY <1>1, <2>1, NoneBatch, NoArgument
<1>2. CASE mounts[m + 1] # "virtio-fs"
  <2> DEFINE a == Backend("-fsdev", <<"fsdev", m>>)
             b == Device({<<"fsdev", m>>, <<"tag", m>>})
  <2>1. NineP(m) = <<a, b>>
    BY <1>2 DEF NineP, If
  <2>2. <<"fsdev", m>> \in Resources /\ <<"tag", m>> \in Resources
    BY NamesAreNotNil DEF Kinds
  <2>3. /\ a \in Arguments /\ Claims(a) = {<<"fsdev", m>>} /\ a.uses = {} /\ a.bus = Nil
        /\ a.id = <<"fsdev", m>> /\ a.opt = "-fsdev"
    BY <2>2, BackendClaims DEF Backend, Arg, Options
  <2>4. /\ b \in Arguments /\ b.uses = {<<"fsdev", m>>, <<"tag", m>>} /\ b.bus = Pcie0
        /\ b.path = Nil /\ b.opt = "-device" /\ Pcie0 # Nil
    BY <2>2, DeviceClaims, NamesAreNotNil DEF Device, Arg, Pcie0, Id, Kinds
  <2>5. Claims(b) = {<<"tag", m>>}
    BY <2>2, DeviceClaims
  <2> HIDE DEF a, b
  <2>6. b.uses \ Tags(b) = {a.id} /\ \A u \in b.uses : u[1] # "char_fs"
    BY <2>3, <2>4 DEF Tags
  <2>7. Claims(a) \intersect Claims(b) = {}
    BY <2>3, <2>5
  <2>8. /\ Batch(<<a, b>>) /\ Plain(<<a, b>>)
        /\ Claimed(<<a, b>>) = Claims(a) \union Claims(b)
        /\ \A free : {Nil, b.bus} \subseteq free => Ordered(<<a, b>>, free)
    BY <2>3, <2>4, <2>6, <2>7, PairBatch
  <2> QED
    BY <1>2, <2>1, <2>3, <2>4, <2>5, <2>8 DEF NinePClaims
<1> QED
  BY <1>1, <1>2

(* _network_cmdline.                                                       *)
NetArgs == <<Backend("-netdev", Id("net0")), Device({Id("net0")})>>

(* The network's arguments (_network_cmdline).                             *)
LEMMA NetBatch ==
  /\ Batch(NetArgs) /\ Plain(NetArgs) /\ Claimed(NetArgs) = {Id("net0")}
  /\ \A free : {Nil, Pcie0} \subseteq free => Ordered(NetArgs, free)
<1> DEFINE a == Backend("-netdev", Id("net0"))
           b == Device({Id("net0")})
<1>1. Id("net0") \in Resources /\ Id("net0")[1] = "net0"
  BY NamesAreNotNil DEF Kinds, Id
<1>2. /\ a \in Arguments /\ Claims(a) = {Id("net0")} /\ a.uses = {} /\ a.bus = Nil
      /\ a.id = Id("net0") /\ a.opt = "-netdev"
  BY <1>1, BackendClaims DEF Backend, Arg, Options
<1>3. /\ b \in Arguments /\ b.uses = {Id("net0")} /\ b.bus = Pcie0 /\ Claims(b) = {}
      /\ b.path = Nil /\ b.opt = "-device" /\ Pcie0 # Nil
  BY <1>1, DeviceClaims, NamesAreNotNil DEF Device, Arg, Pcie0, Id, Kinds
<1> HIDE DEF a, b
<1>4. b.uses \ Tags(b) = {a.id} /\ \A u \in b.uses : u[1] # "char_fs"
  BY <1>1, <1>2, <1>3 DEF Tags
<1>5. /\ Batch(<<a, b>>) /\ Plain(<<a, b>>)
      /\ Claimed(<<a, b>>) = Claims(a) \union Claims(b)
      /\ \A free : {Nil, b.bus} \subseteq free => Ordered(<<a, b>>, free)
  BY <1>2, <1>3, <1>4, PairBatch
<1> QED
  BY <1>2, <1>3, <1>5 DEF NetArgs, a, b

(* The cloud-init image.                                                   *)
CdArgs == <<Backend("-drive", Id("cdrom0")),
            Arg("-device", Nil, {Id("cdrom0")}, Id("scsi0"), Nil, Nil)>>

(* The cloud-init CD needs the SCSI controller before it.                  *)
LEMMA CdBatch ==
  /\ Batch(CdArgs) /\ Plain(CdArgs) /\ Claimed(CdArgs) = {Id("cdrom0")}
  /\ \A free : {Nil, Id("scsi0")} \subseteq free => Ordered(CdArgs, free)
<1> DEFINE a == Backend("-drive", Id("cdrom0"))
           b == Arg("-device", Nil, {Id("cdrom0")}, Id("scsi0"), Nil, Nil)
<1>1. /\ Id("cdrom0") \in Resources /\ Id("cdrom0")[1] = "cdrom0"
      /\ Id("scsi0") \in Resources /\ Id("scsi0") # Nil
  BY NamesAreNotNil DEF Kinds, Id
<1>2. /\ a \in Arguments /\ Claims(a) = {Id("cdrom0")} /\ a.uses = {} /\ a.bus = Nil
      /\ a.id = Id("cdrom0") /\ a.opt = "-drive"
  BY <1>1, BackendClaims DEF Backend, Arg, Options
<1>3. /\ b \in Arguments /\ b.uses = {Id("cdrom0")} /\ b.bus = Id("scsi0") /\ b.path = Nil
      /\ b.opt = "-device" /\ b.id = Nil /\ b.at = Nil
  BY <1>1 DEF Arg, Arguments, Options
<1> HIDE DEF a, b
<1>4. Claims(b) = {}
  BY <1>1, <1>3 DEF Claims, Tags
<1>5. b.uses \ Tags(b) = {a.id} /\ \A u \in b.uses : u[1] # "char_fs"
  BY <1>1, <1>2, <1>3 DEF Tags
<1>6. /\ Batch(<<a, b>>) /\ Plain(<<a, b>>)
      /\ Claimed(<<a, b>>) = Claims(a) \union Claims(b)
      /\ \A free : {Nil, b.bus} \subseteq free => Ordered(<<a, b>>, free)
  BY <1>1, <1>2, <1>3, <1>4, <1>5, PairBatch
<1> QED
  BY <1>2, <1>3, <1>4, <1>6 DEF CdArgs, a, b

(* The arguments of a plan.                                                *)
PlanKinds == {"chrtpm", "tpm0", "tpm", "char_fs", "virtiofs"} \union Emulated

(* The arguments of the swtpm plan.                                        *)
LEMMA TpmBatch ==
  /\ Batch(Tpm.args) /\ Plain(Tpm.args)
  /\ Claimed(Tpm.args) = {Id("chrtpm"), Id("tpm0"), Id("tpm")}
  /\ \A free : {Nil} \subseteq free => Ordered(Tpm.args, free)
  /\ Tpm.socket = Id("tpm") /\ Tpm.name = Id("swtpm") /\ ~Tpm.shared
<1> DEFINE a == Chardev(Id("chrtpm"), Id("tpm"))
           b == Arg("-tpmdev", Id("tpm0"), {Id("chrtpm")}, Nil, Nil, Nil)
           d == Arg("-device", Nil, {Id("tpm0")}, Nil, Nil, Nil)
<1>1. /\ Id("chrtpm") \in Resources /\ Id("tpm0") \in Resources /\ Id("tpm") \in Resources
      /\ Id("chrtpm")[1] = "chrtpm" /\ Id("tpm0")[1] = "tpm0" /\ Id("tpm")[1] = "tpm"
  BY NamesAreNotNil DEF Kinds, Id
<1>2. /\ Tpm.args = <<a, b, d>> /\ Tpm.socket = Id("tpm") /\ Tpm.name = Id("swtpm")
      /\ ~Tpm.shared
  BY DEF Tpm, Plan, Id
<1>3. /\ a \in Arguments /\ Claims(a) = {Id("chrtpm"), Id("tpm")} /\ a.id = Id("chrtpm")
      /\ a.uses = {} /\ a.bus = Nil /\ a.opt = "-chardev"
  BY <1>1, ChardevClaims DEF Chardev, Arg
<1>4. /\ b \in Arguments /\ b.id = Id("tpm0") /\ b.uses = {Id("chrtpm")} /\ b.bus = Nil
      /\ b.at = Nil /\ b.path = Nil /\ b.opt = "-tpmdev"
  BY <1>1 DEF Arg, Arguments, Options
<1>5. /\ d \in Arguments /\ d.id = Nil /\ d.uses = {Id("tpm0")} /\ d.bus = Nil
      /\ d.at = Nil /\ d.path = Nil /\ d.opt = "-device"
  BY <1>1 DEF Arg, Arguments, Options
<1> HIDE DEF a, b, d
<1>6. Claims(b) = {Id("tpm0")} /\ Claims(d) = {}
  <2>1. Id("tpm0") # Nil /\ Id("tpm0") # AutoSlot
    BY <1>1, NilAssumption, AutoIsApart
  <2> QED
    BY <1>1, <1>4, <1>5, <2>1 DEF Claims, Tags
<1> DEFINE t == <<a, b, d>>
<1>7. t \in Seq(Arguments) /\ ToSet(t) = {a, b, d} /\ Named(t) = {Id("chrtpm"), Id("tpm0"), Nil}
  BY <1>3, <1>4, <1>5, ThreeArguments
<1>8. Apart(t) /\ Claimed(t) = {Id("chrtpm"), Id("tpm0"), Id("tpm")}
  <2>1. /\ Claims(a) \intersect Claims(b) = {}
        /\ (Claims(a) \union Claims(b)) \intersect Claims(d) = {}
    BY <1>1, <1>3, <1>6
  <2>2. Apart(t) /\ Claimed(t) = Claims(a) \union Claims(b) \union Claims(d)
    BY <2>1, <1>3, <1>4, <1>5, ThreeArguments
  <2> QED
    BY <2>2, <1>3, <1>6
<1>9. \A free : {Nil} \subseteq free => Ordered(t, free)
  BY <1>3, <1>4, <1>5, ThreeArguments
<1> HIDE DEF t
<1>10. SelfContained(t)
  BY <1>3, <1>4, <1>5, <1>7 DEF SelfContained
<1>11. Plain(t)
  BY <1>1, <1>3, <1>4, <1>5, <1>7 DEF Plain, Served
<1> QED
  BY <1>2, <1>7, <1>8, <1>9, <1>10, <1>11 DEF Batch, t

NoMachine(t) == \A a \in ToSet(t) : a.opt # "-machine"

(* The arguments of a virtiofsd plan: its device is served from outside.   *)
LEMMA VirtioFsBatch ==
  ASSUME NEW m \in Nat
  PROVE  /\ Batch(VirtioFs(m).args) /\ NoMachine(VirtioFs(m).args)
         /\ Claimed(VirtioFs(m).args) = {<<"char_fs", m>>, <<"virtiofs", m>>, <<"tag", m>>}
         /\ \A free : {Nil, Pcie0} \subseteq free => Ordered(VirtioFs(m).args, free)
         /\ VirtioFs(m).socket = <<"virtiofs", m>> /\ VirtioFs(m).name = <<"virtiofsd", m>>
         /\ VirtioFs(m).shared /\ \E a \in ToSet(VirtioFs(m).args) : Served(a)
<1> DEFINE a == Chardev(<<"char_fs", m>>, <<"virtiofs", m>>)
           b == Device({<<"char_fs", m>>, <<"tag", m>>})
<1>1. /\ <<"char_fs", m>> \in Resources /\ <<"virtiofs", m>> \in Resources
      /\ <<"tag", m>> \in Resources
  BY NamesAreNotNil DEF Kinds
<1>2. /\ VirtioFs(m).args = <<a, b>> /\ VirtioFs(m).socket = <<"virtiofs", m>>
      /\ VirtioFs(m).name = <<"virtiofsd", m>> /\ VirtioFs(m).shared
  BY DEF VirtioFs, Plan
<1>3. /\ a \in Arguments /\ Claims(a) = {<<"char_fs", m>>, <<"virtiofs", m>>}
      /\ a.id = <<"char_fs", m>> /\ a.uses = {} /\ a.bus = Nil /\ a.opt = "-chardev"
  BY <1>1, ChardevClaims DEF Chardev, Arg
<1>4. /\ b \in Arguments /\ b.uses = {<<"char_fs", m>>, <<"tag", m>>} /\ b.bus = Pcie0
      /\ b.id = Nil /\ b.path = Nil /\ b.opt = "-device"
  BY <1>1, DeviceClaims DEF Device, Arg
<1>5. Claims(b) = {<<"tag", m>>}
  BY <1>1, DeviceClaims
<1> HIDE DEF a, b
<1> DEFINE t == <<a, b>>
<1>6. t \in Seq(Arguments) /\ ToSet(t) = {a, b} /\ Named(t) = {<<"char_fs", m>>, Nil}
  BY <1>3, <1>4, TwoArguments
<1>7. Apart(t) /\ Claimed(t) = {<<"char_fs", m>>, <<"virtiofs", m>>, <<"tag", m>>}
  <2>1. Claims(a) \intersect Claims(b) = {}
    BY <1>3, <1>5
  <2> QED
    BY <2>1, <1>3, <1>4, <1>5, TwoArguments
<1>8. \A free : {Nil, Pcie0} \subseteq free => Ordered(t, free)
  BY <1>3, <1>4, TwoArguments
<1> HIDE DEF t
<1>9. SelfContained(t)
  BY <1>3, <1>4, <1>6 DEF SelfContained, Tags
<1>10. NoMachine(t)
  BY <1>3, <1>4, <1>6 DEF NoMachine
<1>11. Served(b) /\ b \in ToSet(t)
  <2>1. <<"char_fs", m>>[1] = "char_fs" /\ <<"char_fs", m>> \in b.uses
    BY <1>4
  <2> QED
    BY <2>1, <1>4, <1>6 DEF Served
<1> QED
  BY <1>2, <1>6, <1>7, <1>8, <1>9, <1>10, <1>11 DEF Batch, t

(* The argument of an emulated device's plan, served from outside.         *)
LEMMA VfioUserBatch ==
  ASSUME NEW type \in Emulated, NEW x \in Nat
  PROVE  /\ Batch(VfioUser(type, x).args) /\ NoMachine(VfioUser(type, x).args)
         /\ Claimed(VfioUser(type, x).args) = {<<type, x>>}
         /\ \A free : {Nil, Pcie0} \subseteq free => Ordered(VfioUser(type, x).args, free)
         /\ VfioUser(type, x).socket = <<type, x>> /\ VfioUser(type, x).name = <<type, x>>
         /\ VfioUser(type, x).shared /\ \E a \in ToSet(VfioUser(type, x).args) : Served(a)
<1> DEFINE a == Arg("-device", <<type, x>>, {}, Pcie0, AutoSlot, <<type, x>>)
<1>1. /\ <<type, x>> \in Resources /\ <<type, x>> # Nil
      /\ Pcie0 \in Resources /\ AutoSlot \in Resources
  BY NamesAreNotNil, AutoIsApart DEF Kinds, Pcie0, Id
<1>2. /\ VfioUser(type, x).args = <<a>> /\ VfioUser(type, x).socket = <<type, x>>
      /\ VfioUser(type, x).name = <<type, x>> /\ VfioUser(type, x).shared
  BY DEF VfioUser, Plan
<1>3. /\ a \in Arguments /\ a.id = <<type, x>> /\ a.uses = {} /\ a.bus = Pcie0
      /\ a.at = AutoSlot /\ a.path = <<type, x>> /\ a.opt = "-device"
  BY <1>1 DEF Arg, Arguments, Options
<1> HIDE DEF a
<1>4. Claims(a) = {<<type, x>>}
  <2>1. <<type, x>> # AutoSlot
    BY DEF AutoSlot, Id, Emulated
  <2> QED
    BY <1>1, <1>3, <2>1 DEF Claims, Tags
<1> DEFINE t == <<a>>
<1>5. /\ t \in Seq(Arguments) /\ ToSet(t) = {a} /\ Apart(t) /\ Claimed(t) = {<<type, x>>}
      /\ \A free : {Nil, Pcie0} \subseteq free => Ordered(t, free)
  BY <1>3, <1>4, OneArgument
<1> HIDE DEF t
<1>6. SelfContained(t) /\ NoMachine(t) /\ Served(a)
  BY <1>1, <1>3, <1>5 DEF SelfContained, NoMachine, Served
<1> QED
  BY <1>2, <1>5, <1>6 DEF Batch, t

(* A passed-through device.                                                *)
LEMMA RootPortBatch ==
  ASSUME NEW i \in Nat
  PROVE  /\ Batch(RootPort(i)) /\ Plain(RootPort(i))
         /\ Claimed(RootPort(i)) = {<<"pcie", 6 + i>>, <<"port", 6 + i>>}
         /\ \A free : Pcie0 \in free => Ordered(RootPort(i), free)
<1> DEFINE a == Arg("-device", <<"pcie", 6 + i>>, {}, Pcie0, AutoSlot, Nil)
           b == Arg("-device", Nil, {}, <<"pcie", 6 + i>>, <<"port", 6 + i>>, Nil)
<1>1. /\ <<"pcie", 6 + i>> \in Resources /\ <<"port", 6 + i>> \in Resources
      /\ Pcie0 \in Resources /\ AutoSlot \in Resources
  BY NamesAreNotNil, AutoIsApart DEF Kinds, Pcie0, Id
<1>2. /\ a \in Arguments /\ a.id = <<"pcie", 6 + i>> /\ a.uses = {} /\ a.bus = Pcie0
      /\ a.at = AutoSlot /\ a.path = Nil /\ a.opt = "-device"
  BY <1>1 DEF Arg, Arguments, Options
<1>3. /\ b \in Arguments /\ b.id = Nil /\ b.uses = {} /\ b.bus = <<"pcie", 6 + i>>
      /\ b.at = <<"port", 6 + i>> /\ b.path = Nil /\ b.opt = "-device"
  BY <1>1 DEF Arg, Arguments, Options
<1> HIDE DEF a, b
<1>4. Claims(a) = {<<"pcie", 6 + i>>} /\ Claims(b) = {<<"port", 6 + i>>}
  <2>1. /\ <<"pcie", 6 + i>> # Nil /\ <<"pcie", 6 + i>> # AutoSlot
        /\ <<"port", 6 + i>> # Nil /\ <<"port", 6 + i>> # AutoSlot
    BY <1>1, NilAssumption DEF AutoSlot, Id
  <2> QED
    BY <1>2, <1>3, <2>1 DEF Claims, Tags
<1> DEFINE t == <<a, b>>
<1>5. t \in Seq(Arguments) /\ ToSet(t) = {a, b}
  BY <1>2, <1>3, TwoArguments
<1>6. Apart(t) /\ Claimed(t) = {<<"pcie", 6 + i>>, <<"port", 6 + i>>}
  <2>1. Claims(a) \intersect Claims(b) = {}
    BY <1>4
  <2> QED
    BY <2>1, <1>2, <1>3, <1>4, TwoArguments
<1>7. \A free : Pcie0 \in free => Ordered(t, free)
  BY <1>2, <1>3, TwoArguments
<1> HIDE DEF t
<1>8. SelfContained(t) /\ Plain(t)
  BY <1>2, <1>3, <1>5 DEF SelfContained, Plain, Served
<1> QED
  BY <1>5, <1>6, <1>7, <1>8 DEF Batch, RootPort, t, a, b

(* A passed-through device without a root port claims nothing.             *)
LEMMA DirectBatch ==
  /\ Batch(<<Device({})>>) /\ Plain(<<Device({})>>) /\ Claimed(<<Device({})>>) = {}
  /\ \A free : Pcie0 \in free => Ordered(<<Device({})>>, free)
<1> DEFINE a == Device({})
<1>1. /\ a \in Arguments /\ Claims(a) = {} /\ a.uses = {} /\ a.bus = Pcie0 /\ a.path = Nil
      /\ a.opt = "-device"
  BY DeviceClaims DEF Device, Arg
<1> HIDE DEF a
<1> DEFINE t == <<a>>
<1>2. /\ t \in Seq(Arguments) /\ ToSet(t) = {a} /\ Apart(t) /\ Claimed(t) = {}
      /\ \A free : Pcie0 \in free => Ordered(t, free)
  BY <1>1, OneArgument
<1> HIDE DEF t
<1>3. SelfContained(t) /\ Plain(t)
  BY <1>1, <1>2 DEF SelfContained, Plain, Served
<1> QED
  BY <1>2, <1>3 DEF Batch, t, a

(* Two batches in a row.                                                   *)
LEMMA BatchesConcatenate ==
  ASSUME NEW s, NEW t, Batch(s), Batch(t), Claimed(s) \intersect Claimed(t) = {}
  PROVE  Batch(s \o t) /\ (Plain(s) /\ Plain(t) => Plain(s \o t))
<1>1. s \in Seq(Arguments) /\ t \in Seq(Arguments) /\ Apart(s) /\ Apart(t)
  BY DEF Batch
<1> DEFINE u == s \o t
<1>2. u \in Seq(Arguments) /\ Apart(u) /\ ToSet(u) = ToSet(s) \union ToSet(t)
      /\ Named(u) = Named(s) \union Named(t)
  BY <1>1, Concatenation
<1> HIDE DEF u
<1>3. SelfContained(u)
  BY <1>2 DEF Batch, SelfContained
<1>4. Plain(s) /\ Plain(t) => Plain(u)
  BY <1>2 DEF Plain
<1> QED
  BY <1>2, <1>3, <1>4 DEF Batch, u

(* QMP, the console and the RNG.                                           *)
ConsoleArgs ==
  <<Flag("-qmp")>>
    \o <<Chardev(Id("charserial0"), Id("console")),
         Arg("-device", Id("serial0"), {Id("charserial0")}, Nil, Nil, Nil)>>
    \o <<Backend("-object", Id("rng0")), Device({Id("rng0")})>>
ConsoleClaims == {Id("charserial0"), Id("console"), Id("serial0"), Id("rng0")}

(* One option without a value.                                             *)
LEMMA FlagBatch ==
  ASSUME NEW opt \in Options, opt # "-device"
  PROVE  /\ Batch(<<Flag(opt)>>) /\ Claimed(<<Flag(opt)>>) = {}
         /\ ToSet(<<Flag(opt)>>) = {Flag(opt)} /\ Flag(opt).opt = opt /\ ~Served(Flag(opt))
         /\ \A free : Nil \in free => Ordered(<<Flag(opt)>>, free)
<1> DEFINE a == Flag(opt)
<1>1. a \in Arguments /\ Claims(a) = {} /\ a.uses = {} /\ a.bus = Nil /\ a.opt = opt
  BY FlagClaims DEF Flag, Arg
<1> HIDE DEF a
<1> DEFINE t == <<a>>
<1>2. /\ t \in Seq(Arguments) /\ ToSet(t) = {a} /\ Apart(t) /\ Claimed(t) = {}
      /\ \A free : Nil \in free => Ordered(t, free)
  BY <1>1, OneArgument
<1> HIDE DEF t
<1>3. SelfContained(t) /\ ~Served(a)
  BY <1>1, <1>2 DEF SelfContained, Served
<1> QED
  BY <1>1, <1>2, <1>3 DEF Batch, t, a

(* QMP, the console and the RNG.                                           *)
LEMMA ConsoleBatch ==
  /\ Batch(ConsoleArgs) /\ Plain(ConsoleArgs) /\ Claimed(ConsoleArgs) = ConsoleClaims
  /\ \A free : {Nil, Pcie0} \subseteq free => Ordered(ConsoleArgs, free)
<1> DEFINE q == <<Flag("-qmp")>>
           a == Chardev(Id("charserial0"), Id("console"))
           b == Arg("-device", Id("serial0"), {Id("charserial0")}, Nil, Nil, Nil)
           d == Backend("-object", Id("rng0"))
           e == Device({Id("rng0")})
           s == <<a, b>>
           r == <<d, e>>
<1>1. /\ Id("charserial0") \in Resources /\ Id("console") \in Resources
      /\ Id("serial0") \in Resources /\ Id("rng0") \in Resources
      /\ Id("charserial0")[1] = "charserial0" /\ Id("console")[1] = "console"
      /\ Id("serial0")[1] = "serial0" /\ Id("rng0")[1] = "rng0"
  BY NamesAreNotNil DEF Kinds, Id
<1>2. /\ a \in Arguments /\ Claims(a) = {Id("charserial0"), Id("console")}
      /\ a.id = Id("charserial0") /\ a.uses = {} /\ a.bus = Nil /\ a.opt = "-chardev"
  BY <1>1, ChardevClaims DEF Chardev, Arg
<1>3. /\ b \in Arguments /\ b.id = Id("serial0") /\ b.uses = {Id("charserial0")} /\ b.bus = Nil
      /\ b.at = Nil /\ b.path = Nil /\ b.opt = "-device"
  BY <1>1 DEF Arg, Arguments, Options
<1>4. /\ d \in Arguments /\ Claims(d) = {Id("rng0")} /\ d.uses = {} /\ d.bus = Nil
      /\ d.id = Id("rng0") /\ d.opt = "-object"
  BY <1>1, BackendClaims DEF Backend, Arg, Options
<1>5. /\ e \in Arguments /\ e.uses = {Id("rng0")} /\ e.bus = Pcie0 /\ Claims(e) = {}
      /\ e.path = Nil /\ e.opt = "-device" /\ Pcie0 # Nil
  BY <1>1, DeviceClaims, NamesAreNotNil DEF Device, Arg, Pcie0, Id, Kinds
<1>6. /\ Batch(q) /\ Claimed(q) = {} /\ Plain(q)
      /\ \A free : Nil \in free => Ordered(q, free)
  BY FlagBatch DEF Options, Plain
<1> HIDE DEF a, b, d, e, q
<1>7. Claims(b) = {Id("serial0")}
  <2>1. Id("serial0") # Nil /\ Id("serial0") # AutoSlot
    BY <1>1, NilAssumption, AutoIsApart
  <2> QED
    BY <1>1, <1>3, <2>1 DEF Claims, Tags
<1>8. /\ Batch(s) /\ Plain(s) /\ Claimed(s) = {Id("charserial0"), Id("console"), Id("serial0")}
      /\ \A free : Nil \in free => Ordered(s, free)
  <2>1. Claims(a) \intersect Claims(b) = {}
    BY <1>1, <1>2, <1>7
  <2>2. /\ s \in Seq(Arguments) /\ ToSet(s) = {a, b} /\ Named(s) = {a.id, b.id} /\ Apart(s)
        /\ Claimed(s) = Claims(a) \union Claims(b)
        /\ \A free : Nil \in free => Ordered(s, free)
    BY <2>1, <1>2, <1>3, TwoArguments
  <2> HIDE DEF s
  <2>3. SelfContained(s)
    BY <2>2, <1>2, <1>3 DEF SelfContained
  <2>4. Plain(s)
    BY <2>2, <1>1, <1>2, <1>3 DEF Plain, Served
  <2> QED
    BY <2>2, <2>3, <2>4, <1>2, <1>7 DEF Batch
<1>9. /\ Batch(r) /\ Plain(r) /\ Claimed(r) = {Id("rng0")}
      /\ \A free : {Nil, Pcie0} \subseteq free => Ordered(r, free)
  <2>1. e.uses \ Tags(e) = {d.id} /\ \A u \in e.uses : u[1] # "char_fs"
    BY <1>1, <1>4, <1>5 DEF Tags
  <2>2. /\ Batch(r) /\ Plain(r) /\ Claimed(r) = Claims(d) \union Claims(e)
        /\ \A free : {Nil, e.bus} \subseteq free => Ordered(r, free)
    BY <1>4, <1>5, <2>1, PairBatch
  <2> QED
    BY <2>2, <1>4, <1>5
<1> HIDE DEF s, r
<1> DEFINE t == q \o s
<1>10. /\ q \in Seq(Arguments) /\ s \in Seq(Arguments) /\ r \in Seq(Arguments)
  BY <1>6, <1>8, <1>9 DEF Batch
<1>11. /\ Batch(t) /\ Plain(t) /\ Claimed(t) = {Id("charserial0"), Id("console"), Id("serial0")}
       /\ \A free : Nil \in free => Ordered(t, free)
  <2>1. Batch(t) /\ Plain(t)
    BY <1>6, <1>8, BatchesConcatenate
  <2>2. Claimed(t) = {Id("charserial0"), Id("console"), Id("serial0")}
    BY <1>6, <1>8, <1>10, Concatenation
  <2>3. ASSUME NEW free, Nil \in free PROVE Ordered(t, free)
    <3>1. Ordered(q, free) /\ Ordered(s, free \union Named(q))
      BY <2>3, <1>6, <1>8
    <3> QED
      BY <3>1, <1>10, Concatenation
  <2> QED
    BY <2>1, <2>2, <2>3
<1> HIDE DEF t
<1>12. t \in Seq(Arguments)
  BY <1>11 DEF Batch
<1>13. Claimed(t) \intersect Claimed(r) = {}
  BY <1>1, <1>9, <1>11
<1>14. Batch(t \o r) /\ Plain(t \o r)
  BY <1>9, <1>11, <1>13, BatchesConcatenate
<1>15. Claimed(t \o r) = ConsoleClaims
  BY <1>9, <1>10, <1>11, <1>12, Concatenation DEF ConsoleClaims
<1>16. ASSUME NEW free, {Nil, Pcie0} \subseteq free PROVE Ordered(t \o r, free)
  <2>1. Ordered(t, free) /\ Ordered(r, free \union Named(t))
    BY <1>16, <1>9, <1>11
  <2> QED
    BY <2>1, <1>10, <1>12, Concatenation
<1>17. ConsoleArgs = t \o r
  BY DEF ConsoleArgs, t, q, s, r, a, b, d, e
<1> QED
  BY <1>14, <1>15, <1>16, <1>17

(* The machine, up to the SCSI controller.                                 *)
MachineArg == Arg("-machine", Nil, {r \in {Id("vmocs.ram")} : SharedMemory}, Nil, Nil, Nil)
MachineArgs ==
  If(SharedMemory, <<Backend("-object", Id("vmocs.ram"))>>)
    \o <<MachineArg>>
    \o If("snapshot" \in features, <<Flag("-incoming")>>)
    \o <<Flag("-S")>>
    \o If("vnc" \in features, <<Device({})>>)
    \o <<Arg("-device", Id("scsi0"), {}, Pcie0, AutoSlot, Nil)>>

HasRam(S) == \E a \in S : a.opt = "-machine" /\ Id("vmocs.ram") \in a.uses
Opening(t, claims) ==
  /\ Batch(t) /\ Claimed(t) \subseteq claims
  /\ \A free : {Nil, Pcie0} \subseteq free => Ordered(t, free)
  /\ \A a \in ToSet(t) : ~Served(a)
  /\ HasRam(ToSet(t)) <=> SharedMemory

(* A group that shares nothing with the opening of the line extends it.    *)
LEMMA OpeningGrows ==
  ASSUME NEW t, NEW s, NEW claims, Opening(t, claims), Batch(s), Plain(s),
         Claimed(s) \intersect claims = {},
         \A free : {Nil, Pcie0} \subseteq free => Ordered(s, free)
  PROVE  Opening(t \o s, claims \union Claimed(s)) /\ Named(s) \subseteq Named(t \o s)
<1>1. t \in Seq(Arguments) /\ s \in Seq(Arguments)
  BY DEF Opening, Batch
<1> DEFINE u == t \o s
<1>2. Claimed(t) \intersect Claimed(s) = {}
  BY DEF Opening
<1>3. Batch(u)
  BY <1>2, BatchesConcatenate DEF Opening
<1>4. /\ ToSet(u) = ToSet(t) \union ToSet(s) /\ Claimed(u) = Claimed(t) \union Claimed(s)
      /\ Named(u) = Named(t) \union Named(s)
  BY <1>1, Concatenation
<1>5. ASSUME NEW free, {Nil, Pcie0} \subseteq free PROVE Ordered(u, free)
  <2>1. Ordered(t, free) /\ Ordered(s, free \union Named(t))
    BY <1>5 DEF Opening
  <2> QED
    BY <2>1, <1>1, Concatenation
<1> HIDE DEF u
<1>6. \A a \in ToSet(u) : ~Served(a)
  BY <1>4 DEF Opening, Plain
<1>7. HasRam(ToSet(u)) <=> SharedMemory
  BY <1>4 DEF Opening, Plain, HasRam
<1> QED
  BY <1>3, <1>4, <1>5, <1>6, <1>7 DEF Opening, u

(* An optional group claims at most what the group claims.                 *)
LEMMA IfBatch ==
  ASSUME NEW P, NEW t, Batch(t), Plain(t)
  PROVE  /\ Batch(If(P, t)) /\ Plain(If(P, t)) /\ Claimed(If(P, t)) \subseteq Claimed(t)
         /\ \A free : Ordered(t, free) => Ordered(If(P, t), free)
<1>1. CASE P
  BY <1>1 DEF If
<1>2. CASE ~P
  BY <1>2, NoneBatch, NoArgument DEF If
<1> QED
  BY <1>1, <1>2

(* The opening of the line: its memory is shared exactly when a plan asks  *)
(* for it, and the SCSI controller is on it.                               *)
LEMMA MachineBatch ==
  Opening(MachineArgs, {Id("vmocs.ram"), Id("scsi0")}) /\ Id("scsi0") \in Named(MachineArgs)
<1> DEFINE ram == Backend("-object", Id("vmocs.ram"))
           m == MachineArg
           d == Arg("-device", Id("scsi0"), {}, Pcie0, AutoSlot, Nil)
           s1 == If(SharedMemory, <<ram>>) \o <<m>>
           s3 == If("snapshot" \in features, <<Flag("-incoming")>>)
           s4 == <<Flag("-S")>>
           s5 == If("vnc" \in features, <<Device({})>>)
           s6 == <<d>>
<1>1. /\ Id("vmocs.ram") \in Resources /\ Id("scsi0") \in Resources /\ Pcie0 \in Resources
      /\ AutoSlot \in Resources /\ Id("vmocs.ram")[1] = "vmocs.ram" /\ Id("scsi0")[1] = "scsi0"
  BY NamesAreNotNil, AutoIsApart DEF Kinds, Pcie0, Id
<1>2. /\ ram \in Arguments /\ Claims(ram) = {Id("vmocs.ram")} /\ ram.uses = {}
      /\ ram.bus = Nil /\ ram.id = Id("vmocs.ram") /\ ram.opt = "-object"
  BY <1>1, BackendClaims DEF Backend, Arg, Options
<1>3. /\ m \in Arguments /\ m.id = Nil /\ m.uses = {r \in {Id("vmocs.ram")} : SharedMemory}
      /\ m.bus = Nil /\ m.at = Nil /\ m.path = Nil /\ m.opt = "-machine"
  BY <1>1 DEF MachineArg, Arg, Arguments, Options
<1>4. /\ d \in Arguments /\ d.id = Id("scsi0") /\ d.uses = {} /\ d.bus = Pcie0
      /\ d.at = AutoSlot /\ d.path = Nil /\ d.opt = "-device"
  BY <1>1 DEF Arg, Arguments, Options
<1> HIDE DEF ram, m, d
<1>5. Claims(m) = {} /\ Claims(d) = {Id("scsi0")}
  <2>1. Id("scsi0") # Nil /\ Id("scsi0") # AutoSlot
    BY <1>1, NilAssumption, AutoIsApart
  <2> QED
    BY <1>1, <1>3, <1>4, <2>1 DEF Claims, Tags
<1>6. Opening(s1, {Id("vmocs.ram")})
  <2> DEFINE r == <<ram>>
             q == <<m>>
  <2>1. /\ r \in Seq(Arguments) /\ ToSet(r) = {ram} /\ Apart(r) /\ Claimed(r) = {Id("vmocs.ram")}
        /\ Named(r) = {Id("vmocs.ram")} /\ \A free : Nil \in free => Ordered(r, free)
    BY <1>2, OneArgument
  <2>2. /\ q \in Seq(Arguments) /\ ToSet(q) = {m} /\ Apart(q) /\ Claimed(q) = {}
        /\ \A free : Nil \in free => Ordered(q, free)
    BY <1>3, <1>5, OneArgument
  <2>3. CASE SharedMemory
    <3>1. s1 = r \o q
      BY <2>3 DEF If
    <3> HIDE DEF r, q, s1
    <3>2. /\ s1 \in Seq(Arguments) /\ ToSet(s1) = {ram, m} /\ Claimed(s1) = {Id("vmocs.ram")}
          /\ Id("vmocs.ram") \in Named(s1)
      <4>1. /\ s1 \in Seq(Arguments) /\ ToSet(s1) = ToSet(r) \union ToSet(q)
            /\ Claimed(s1) = Claimed(r) \union Claimed(q)
            /\ Named(s1) = Named(r) \union Named(q)
        BY <3>1, <2>1, <2>2, Concatenation
      <4> QED
        BY <4>1, <2>1, <2>2
    <3>3. Apart(s1)
      BY <3>1, <2>1, <2>2, Concatenation
    <3>4. ASSUME NEW free, {Nil, Pcie0} \subseteq free PROVE Ordered(s1, free)
      <4>1. Ordered(r, free) /\ Ordered(q, free \union Named(r))
        BY <3>4, <2>1, <2>2
      <4> QED
        BY <4>1, <3>1, <2>1, <2>2, Concatenation
    <3>5. SelfContained(s1)
      BY <3>2, <1>2, <1>3 DEF SelfContained
    <3>6. \A a \in ToSet(s1) : ~Served(a)
      BY <3>2, <1>2, <1>3 DEF Served
    <3>7. HasRam(ToSet(s1))
      BY <3>2, <1>3, <2>3 DEF HasRam
    <3> QED
      BY <2>3, <3>2, <3>3, <3>4, <3>5, <3>6, <3>7 DEF Opening, Batch
  <2>4. CASE ~SharedMemory
    <3>1. s1 = q
      BY <2>4, <2>2 DEF If
    <3> HIDE DEF q, s1
    <3>2. SelfContained(s1)
      BY <3>1, <2>2, <2>4, <1>3 DEF SelfContained
    <3>3. \A a \in ToSet(s1) : ~Served(a)
      BY <3>1, <2>2, <1>3 DEF Served
    <3>4. ~HasRam(ToSet(s1))
      BY <3>1, <2>2, <1>3, <2>4 DEF HasRam
    <3> QED
      BY <2>2, <2>4, <3>1, <3>2, <3>3, <3>4 DEF Opening, Batch
  <2> QED
    BY <2>3, <2>4
<1>7. /\ Batch(s3) /\ Plain(s3) /\ Claimed(s3) = {}
      /\ \A free : {Nil, Pcie0} \subseteq free => Ordered(s3, free)
  <2> DEFINE f == <<Flag("-incoming")>>
  <2>1. /\ Batch(f) /\ Plain(f) /\ Claimed(f) = {}
        /\ \A free : {Nil, Pcie0} \subseteq free => Ordered(f, free)
    BY FlagBatch DEF Options, Plain
  <2> HIDE DEF f
  <2>2. s3 = If("snapshot" \in features, f)
    BY DEF f
  <2> QED
    BY <2>1, <2>2, IfBatch
<1>8. /\ Batch(s4) /\ Plain(s4) /\ Claimed(s4) = {}
      /\ \A free : {Nil, Pcie0} \subseteq free => Ordered(s4, free)
  BY FlagBatch DEF Options, Plain
<1>9. /\ Batch(s5) /\ Plain(s5) /\ Claimed(s5) = {}
      /\ \A free : {Nil, Pcie0} \subseteq free => Ordered(s5, free)
  <2> DEFINE f == <<Device({})>>
  <2>1. /\ Batch(f) /\ Plain(f) /\ Claimed(f) = {}
        /\ \A free : {Nil, Pcie0} \subseteq free => Ordered(f, free)
    BY DirectBatch
  <2> HIDE DEF f
  <2>2. s5 = If("vnc" \in features, f)
    BY DEF f
  <2> QED
    BY <2>1, <2>2, IfBatch
<1>10. /\ Batch(s6) /\ Plain(s6) /\ Claimed(s6) = {Id("scsi0")} /\ Id("scsi0") \in Named(s6)
       /\ \A free : {Nil, Pcie0} \subseteq free => Ordered(s6, free)
  <2>1. /\ s6 \in Seq(Arguments) /\ ToSet(s6) = {d} /\ Apart(s6) /\ Claimed(s6) = {Id("scsi0")}
        /\ Named(s6) = {Id("scsi0")}
        /\ \A free : {Nil, Pcie0} \subseteq free => Ordered(s6, free)
    BY <1>4, <1>5, OneArgument
  <2> HIDE DEF s6
  <2>2. SelfContained(s6) /\ Plain(s6)
    BY <2>1, <1>4 DEF SelfContained, Plain, Served
  <2> QED
    BY <2>1, <2>2 DEF Batch
<1>11. MachineArgs = ((((s1 \o s3) \o s4) \o s5) \o s6)
  BY DEF MachineArgs, ram, m, d
<1> HIDE DEF s1, s3, s4, s5, s6
<1>12. Opening(s1 \o s3, {Id("vmocs.ram")})
  <2>1. Opening(s1 \o s3, {Id("vmocs.ram")} \union Claimed(s3))
    BY <1>6, <1>7, OpeningGrows
  <2> QED
    BY <2>1, <1>7
<1>13. Opening((s1 \o s3) \o s4, {Id("vmocs.ram")})
  <2>1. Opening((s1 \o s3) \o s4, {Id("vmocs.ram")} \union Claimed(s4))
    BY <1>12, <1>8, OpeningGrows
  <2> QED
    BY <2>1, <1>8
<1>14. Opening(((s1 \o s3) \o s4) \o s5, {Id("vmocs.ram")})
  <2>1. Opening(((s1 \o s3) \o s4) \o s5, {Id("vmocs.ram")} \union Claimed(s5))
    BY <1>13, <1>9, OpeningGrows
  <2> QED
    BY <2>1, <1>9
<1>15. Claimed(s6) \intersect {Id("vmocs.ram")} = {}
  BY <1>1, <1>10
<1>16. /\ Opening((((s1 \o s3) \o s4) \o s5) \o s6, {Id("vmocs.ram")} \union Claimed(s6))
       /\ Named(s6) \subseteq Named((((s1 \o s3) \o s4) \o s5) \o s6)
  BY <1>14, <1>15, <1>10, OpeningGrows
<1> QED
  BY <1>10, <1>11, <1>16

-----------------------------------------------------------------------------
(* The inductive invariant.                                                *)
Building == {"disks", "net", "attach", "pci", "done"}

(* What is still empty, and what is complete, at which stage.              *)
StageInv ==
  /\ stage \notin Building => cmd = <<>> /\ disks = <<>>
  /\ stage \notin {"attach", "pci", "done"} => mounted = 0 /\ connected = 0
  /\ stage \notin {"pci", "done"} => pci = <<>>
  /\ stage \in {"pci", "done"} => mounted = Len(mounts) /\ connected = Len(plans)
  /\ stage = "plan" => mounts = <<>>

(* Where a plan comes from, and that every virtio-fs mount has one.        *)
Number(type, ds) == Cardinality({i \in DOMAIN ds : ds[i] = type})
Planned(p, ms, ds) ==
  \/ p = Tpm
  \/ \E m \in 0..(Len(ms) - 1) : p = VirtioFs(m) /\ ms[m + 1] = "virtio-fs"
  \/ \E type \in Emulated : \E x \in 0..(Number(type, ds) - 1) : p = VfioUser(type, x)
PlansInv ==
  /\ \A i \in DOMAIN plans : Planned(plans[i], mounts, devices)
  /\ \A i, j \in DOMAIN plans : i # j => plans[i].name # plans[j].name
  /\ \A m \in 0..(Len(mounts) - 1) :
       mounts[m + 1] = "virtio-fs" => \E i \in DOMAIN plans : plans[i] = VirtioFs(m)

(* How far each generator has counted: what may be claimed by now.         *)
Connected == UNION {Claimed(plans[j].args) : j \in 1..connected}
Allowed(r) ==
  /\ r[1] \in {"ioth", "vblk", "scsi-hd", "drive", "scsi"} => r[2] < Len(disks)
  /\ r[1] = "pci" => \E j \in DOMAIN disks : r = VirtioAt(j - 1) /\ (j = 1 \/ disks[j] = "virtio")
  /\ r[1] = "ahci-port" => \E j \in DOMAIN disks : r[2] = j - 1 /\ disks[j] = "ide"
  /\ r[1] = "ahci" => disks # <<>>
  /\ r[1] = "cdrom0" => stage \in {"net", "attach", "pci", "done"}
  /\ r[1] = "net0" => stage \in {"attach", "pci", "done"}
  /\ r[1] = "fsdev" => r[2] < mounted
  /\ r[1] = "tag" => \/ r[2] < mounted /\ mounts[r[2] + 1] # "virtio-fs"
                     \/ r \in Connected
  /\ r[1] \in PlanKinds => r \in Connected
  /\ r[1] \in {"charserial0", "console", "serial0", "rng0"} => stage \in {"pci", "done"}
  /\ r[1] \in {"pcie", "port"} => r[2] < 6 + Len(pci)
ClaimInv == \A r \in Claimed(cmd) : r \in Resources /\ Allowed(r)

(* Buses come before their devices, an AHCI controller only if the primary *)
(* disk made one.                                                          *)
Buses == {Nil, Pcie0}
         \union {b \in {Id("ahci")} : "ide" \in ToSet(disks) /\ disks[1] # "ide"}
BusInv ==
  /\ Ordered(cmd, Buses)
  /\ stage \in Building => Id("scsi0") \in Named(cmd)
  /\ disks # <<>> /\ disks[1] = "ide" => Id("ahci") \in Named(cmd)

(* What has been gone through is on the line.                              *)
PresentInv ==
  /\ \A j \in 1..connected : ToSet(plans[j].args) \subseteq OnLine
  /\ \A m \in 0..(mounted - 1) : mounts[m + 1] # "virtio-fs" => <<"tag", m>> \in Claimed(cmd)
  /\ \A j \in DOMAIN disks : disks[j] = "virtio" => \E a \in OnLine : a.at = VirtioAt(j - 1)

(* The memory is shared as the plans ask for it, and only plans' devices   *)
(* are served from outside.                                                *)
MemoryInv ==
  /\ stage \in Building => (HasRam(OnLine) <=> SharedMemory)
  /\ \A a \in OnLine : Served(a) => \E j \in 1..connected : plans[j].shared

LineInv ==
  /\ LineTypeOK /\ StageInv /\ PlansInv /\ Batch(cmd) /\ ClaimInv /\ BusInv
  /\ PresentInv /\ MemoryInv

(* Before the first argument there is nothing to say about the line.       *)
Early == /\ stage \notin Building /\ cmd = <<>> /\ disks = <<>> /\ pci = <<>>
         /\ mounted = 0 /\ connected = 0
LineOnly == Batch(cmd) /\ ClaimInv /\ BusInv /\ PresentInv /\ MemoryInv

(* Nothing is claimed, used or served by an empty line.                    *)
LEMMA EarlyIsFine == Early => LineOnly
<1> SUFFICES ASSUME Early PROVE LineOnly
  OBVIOUS
<1>1. stage \notin Building /\ cmd = <<>> /\ disks = <<>> /\ mounted = 0 /\ connected = 0
  BY DEF Early
<1>2. /\ Batch(cmd) /\ OnLine = {} /\ Claimed(cmd) = {} /\ \A free : Ordered(cmd, free)
  BY <1>1, NoneBatch, NoArgument DEF OnLine
<1>3. ClaimInv /\ BusInv
  BY <1>1, <1>2 DEF ClaimInv, BusInv
<1>4. PresentInv
  BY <1>1 DEF PresentInv
<1>5. MemoryInv
  BY <1>1, <1>2 DEF MemoryInv
<1> QED
  BY <1>2, <1>3, <1>4, <1>5 DEF LineOnly

(* The same of the next state.                                             *)
LEMMA EarlyIsFineNext == Early' => LineOnly'
BY EarlyIsFine, PTL

(* The invariant holds at the beginning.                                   *)
LEMMA LineStarts == LineInit => LineInv
<1> SUFFICES ASSUME LineInit PROVE LineInv
  OBVIOUS
<1>1. Early
  BY DEF LineInit, Early, Building
<1>2. LineTypeOK
  <2>1. /\ features \subseteq {"tpm", "vnc", "snapshot", "pc"} /\ stage = "plan"
        /\ mounts = <<>> /\ devices = <<>> /\ plans = <<>> /\ disks = <<>> /\ pci = <<>>
        /\ mounted = 0 /\ connected = 0 /\ cmd = <<>>
    BY DEF LineInit
  <2>2. \A S : <<>> \in Seq(S)
    OBVIOUS
  <2>3. mounted \in 0..Len(mounts) /\ connected \in 0..Len(plans)
    BY <2>1
  <2> QED
    BY <2>1, <2>2, <2>3 DEF LineTypeOK
<1>3. StageInv
  BY DEF LineInit, StageInv, Building
<1>4. PlansInv
  BY DEF LineInit, PlansInv
<1> QED
  BY <1>1, <1>2, <1>3, <1>4, EarlyIsFine DEF LineInv, LineOnly

(* A refused template leaves nothing behind.                               *)
LEMMA FailKeeps == LineInv /\ Fail /\ stage \notin {"done", "failed"} => LineInv'
<1> SUFFICES ASSUME LineInv, Fail, stage \notin {"done", "failed"} PROVE LineInv'
  OBVIOUS
<1>2. Early'
  BY DEF Fail, Early, Building
<1>3. LineTypeOK'
  BY DEF LineInv, Fail, LineTypeOK
<1>4. StageInv'
  BY DEF Fail, StageInv, Building
<1>5. PlansInv'
  BY DEF Fail, PlansInv
<1> QED
  BY <1>2, <1>3, <1>4, <1>5, EarlyIsFineNext DEF LineInv, LineOnly

-----------------------------------------------------------------------------
(* Planning: the line is still empty.                                      *)
LEMMA EarlyKeeps ==
  ASSUME LineInv, stage \notin Building, stage' \notin Building,
         UNCHANGED <<progress, cmd>>
  PROVE  LineOnly' /\ Early
<1>1. cmd = <<>> /\ disks = <<>> /\ pci = <<>> /\ mounted = 0 /\ connected = 0
  BY DEF LineInv, StageInv, LineTypeOK, Building
<1>2. Early'
  BY <1>1 DEF Early, progress
<1> QED
  BY <1>1, <1>2, EarlyIsFineNext DEF Early

(* How many devices have a type is a number, at most all of them.          *)
LEMMA Numbers ==
  ASSUME NEW ds \in Seq(Emulated), NEW type
  PROVE  /\ Number(type, ds) \in Nat /\ Number(type, ds) <= Len(ds)
         /\ IsFiniteSet({i \in DOMAIN ds : ds[i] = type})
<1>1. IsFiniteSet(1..Len(ds)) /\ Cardinality(1..Len(ds)) = Len(ds)
  <2>1. Len(ds) \in Nat
    OBVIOUS
  <2> QED
    BY <2>1, FS_Interval
<1>2. {i \in DOMAIN ds : ds[i] = type} \subseteq 1..Len(ds)
  OBVIOUS
<1>3. /\ IsFiniteSet({i \in DOMAIN ds : ds[i] = type})
      /\ Cardinality({i \in DOMAIN ds : ds[i] = type}) <= Len(ds)
  BY <1>1, <1>2, FS_Subset
<1> QED
  BY <1>3, FS_CardinalityType DEF Number

(* Plans with different names have nothing in common.                      *)
LEMMA PlansApart ==
  ASSUME NEW ms \in Seq({"virtio-9p", "virtio-fs", "unknown"}), NEW ds \in Seq(Emulated),
         NEW p, NEW q, Planned(p, ms, ds), Planned(q, ms, ds), p.name # q.name
  PROVE  Claimed(p.args) \intersect Claimed(q.args) = {} /\ p.socket # q.socket
<1>1. \A type : Number(type, ds) \in Nat
  BY Numbers
<1>2. Len(ms) \in Nat
  OBVIOUS
<1> DEFINE Tp(r) == /\ Claimed(r.args) = {Id("chrtpm"), Id("tpm0"), Id("tpm")}
                    /\ r.socket = Id("tpm") /\ r.name = Id("swtpm")
           Fs(r, m) == /\ Claimed(r.args) = {<<"char_fs", m>>, <<"virtiofs", m>>, <<"tag", m>>}
                       /\ r.socket = <<"virtiofs", m>> /\ r.name = <<"virtiofsd", m>>
           Vf(r, t, x) == /\ Claimed(r.args) = {<<t, x>>}
                          /\ r.socket = <<t, x>> /\ r.name = <<t, x>>
<1>3. ASSUME NEW r, Planned(r, ms, ds)
      PROVE  Tp(r) \/ (\E m \in Nat : Fs(r, m)) \/ (\E t \in Emulated, x \in Nat : Vf(r, t, x))
  <2>1. CASE r = Tpm
    BY <2>1, TpmBatch
  <2>2. ASSUME NEW m \in 0..(Len(ms) - 1), r = VirtioFs(m)
        PROVE  \E k \in Nat : Fs(r, k)
    <3>1. m \in Nat
      BY <1>2
    <3> QED
      BY <2>2, <3>1, VirtioFsBatch
  <2>3. ASSUME NEW t \in Emulated, NEW x \in 0..(Number(t, ds) - 1), r = VfioUser(t, x)
        PROVE  Vf(r, t, x) /\ x \in Nat
    <3>1. x \in Nat
      BY <1>1
    <3> QED
      BY <2>3, <3>1, VfioUserBatch
  <2> QED
    BY <1>3, <2>1, <2>2, <2>3 DEF Planned
<1>4. CASE Tp(p)
  <2>1. ~Tp(q)
    BY <1>4
  <2>2. ASSUME NEW m \in Nat, Fs(q, m)
        PROVE  Claimed(p.args) \intersect Claimed(q.args) = {} /\ p.socket # q.socket
    BY <1>4, <2>2 DEF Id
  <2>3. ASSUME NEW t \in Emulated, NEW x \in Nat, Vf(q, t, x)
        PROVE Claimed(p.args) \intersect Claimed(q.args) = {} /\ p.socket # q.socket
    BY <1>4, <2>3 DEF Id, Emulated
  <2> QED
    BY <1>3, <2>1, <2>2, <2>3
<1>5. ASSUME NEW m \in Nat, Fs(p, m)
      PROVE  Claimed(p.args) \intersect Claimed(q.args) = {} /\ p.socket # q.socket
  <2>1. CASE Tp(q)
    BY <1>5, <2>1 DEF Id
  <2>2. ASSUME NEW k \in Nat, Fs(q, k)
        PROVE  Claimed(p.args) \intersect Claimed(q.args) = {} /\ p.socket # q.socket
    <3>1. m # k
      BY <1>5, <2>2
    <3> QED
      BY <3>1, <1>5, <2>2
  <2>3. ASSUME NEW t \in Emulated, NEW x \in Nat, Vf(q, t, x)
        PROVE Claimed(p.args) \intersect Claimed(q.args) = {} /\ p.socket # q.socket
    BY <1>5, <2>3 DEF Emulated
  <2> QED
    BY <1>3, <2>1, <2>2, <2>3
<1>6. ASSUME NEW t \in Emulated, NEW x \in Nat, Vf(p, t, x)
      PROVE  Claimed(p.args) \intersect Claimed(q.args) = {} /\ p.socket # q.socket
  <2>1. CASE Tp(q)
    BY <1>6, <2>1 DEF Id, Emulated
  <2>2. ASSUME NEW k \in Nat, Fs(q, k)
        PROVE  Claimed(p.args) \intersect Claimed(q.args) = {} /\ p.socket # q.socket
    BY <1>6, <2>2 DEF Emulated
  <2>3. ASSUME NEW w \in Emulated, NEW y \in Nat, Vf(q, w, y)
        PROVE Claimed(p.args) \intersect Claimed(q.args) = {} /\ p.socket # q.socket
    BY <1>6, <2>3
  <2> QED
    BY <1>3, <2>1, <2>2, <2>3
<1> QED
  BY <1>3, <1>4, <1>5, <1>6

(* A sequence over a set is one over every larger set.                     *)
LEMMA SequencesOver ==
  ASSUME NEW A, NEW B, A \subseteq B, NEW s \in Seq(A)
  PROVE  s \in Seq(B)
OBVIOUS

PlanSpace == {Tpm} \union {VirtioFs(i - 1) : i \in DOMAIN mounts}
             \union {VfioUser(type, i - 1) : type \in Emulated, i \in DOMAIN devices}

(* What a planning step leaves alone.                                      *)
LEMMA PlanningTypes ==
  ASSUME LineInv, stage \notin Building, stage' \in {"mounts", "devices", "machine"},
         features' = features, UNCHANGED <<progress, cmd>>,
         mounts' \in Seq({"virtio-9p", "virtio-fs", "unknown"}), devices' \in Seq(Emulated),
         plans' \in Seq(PlanSpace')
  PROVE  LineTypeOK' /\ StageInv' /\ LineOnly'
<1>1. Early /\ LineOnly'
  BY EarlyKeeps DEF Building
<1>2. /\ disks' = <<>> /\ pci' = <<>> /\ mounted' = 0 /\ connected' = 0 /\ cmd' = <<>>
  BY <1>1 DEF Early, progress
<1>4. mounted' \in 0..Len(mounts') /\ connected' \in 0..Len(plans')
  BY <1>2
<1>5. \A S : <<>> \in Seq(S)
  OBVIOUS
<1>6. features' \subseteq {"tpm", "vnc", "snapshot", "pc"}
  BY DEF LineInv, LineTypeOK
<1>7. LineTypeOK'
  BY <1>2, <1>4, <1>5, <1>6 DEF LineTypeOK, PlanSpace
<1>8. StageInv'
  BY <1>2 DEF StageInv, Building
<1> QED
  BY <1>1, <1>7, <1>8

(* plan_sidecars: the TPM.                                                 *)
LEMMA PlanTpmKeeps == LineInv /\ PlanTpm => LineInv'
<1> SUFFICES ASSUME LineInv, PlanTpm PROVE LineInv'
  OBVIOUS
<1>1. /\ stage = "plan" /\ stage' = "mounts" /\ mounts' = mounts /\ devices' = devices
      /\ features' = features /\ mounts = <<>>
  BY DEF LineInv, StageInv, PlanTpm
<1>2. plans' = <<>> \/ plans' = <<Tpm>>
  BY DEF PlanTpm, If
<1>3. Tpm \in PlanSpace'
  BY DEF PlanSpace
<1>4. plans' \in Seq(PlanSpace')
  <2>1. <<>> \in Seq(PlanSpace') /\ <<Tpm>> \in Seq(PlanSpace')
    BY <1>3
  <2> QED
    BY <1>2, <2>1
<1>5. LineTypeOK' /\ StageInv' /\ LineOnly'
  <2>1. UNCHANGED <<progress, cmd>>
    BY DEF PlanTpm
  <2>2. mounts' \in Seq({"virtio-9p", "virtio-fs", "unknown"}) /\ devices' \in Seq(Emulated)
    BY <1>1 DEF LineInv, LineTypeOK
  <2> QED
    BY <1>1, <1>4, <2>1, <2>2, PlanningTypes DEF Building
<1>6. PlansInv'
  <2>1. \A i \in DOMAIN plans' : plans'[i] = Tpm /\ i = 1
    BY <1>2
  <2>2. Len(mounts') = 0
    BY <1>1
  <2> QED
    BY <2>1, <2>2 DEF PlansInv, Planned
<1> QED
  BY <1>5, <1>6 DEF LineInv, LineOnly

(* plan_sidecars after the mounts; preflight_qemu.                         *)
LEMMA EndMountsKeeps == LineInv /\ (EndMounts \/ PreflightQemu) => LineInv'
<1> SUFFICES ASSUME LineInv, EndMounts \/ PreflightQemu PROVE LineInv'
  OBVIOUS
<1>1. CASE PreflightQemu /\ Fail
  BY <1>1, FailKeeps DEF PreflightQemu
<1>2. CASE ~Fail
  <2>1. /\ stage \in {"mounts", "devices"} /\ stage' \in {"devices", "machine"}
        /\ UNCHANGED <<features, mounts, devices, plans>> /\ UNCHANGED <<progress, cmd>>
    BY <1>2 DEF EndMounts, PreflightQemu, template
  <2>2. /\ mounts' \in Seq({"virtio-9p", "virtio-fs", "unknown"}) /\ devices' \in Seq(Emulated)
        /\ plans' \in Seq(PlanSpace')
    BY <2>1 DEF LineInv, LineTypeOK, PlanSpace
  <2>3. LineTypeOK' /\ StageInv' /\ LineOnly'
    BY <2>1, <2>2, PlanningTypes DEF Building
  <2>4. PlansInv'
    BY <2>1 DEF LineInv, PlansInv
  <2> QED
    BY <2>3, <2>4 DEF LineInv, LineOnly
<1>3. EndMounts => ~Fail
  BY DEF EndMounts, Fail
<1> QED
  BY <1>1, <1>2, <1>3

(* plan_sidecars: a mount.  A plan's name carries the mount's position,    *)
(* which no earlier plan has.                                              *)
LEMMA PlanMountKeeps ==
  ASSUME LineInv, NEW type \in {"virtio-9p", "virtio-fs", "unknown"}, NEW ro \in BOOLEAN,
         PlanMount(type, ro)
  PROVE  LineInv'
<1>1. CASE Fail
  BY <1>1, FailKeeps DEF PlanMount
<1>2. CASE ~Fail
  <2> PICK k : k = Len(mounts)
    OBVIOUS
  <2>1. /\ stage = "mounts" /\ stage' = "mounts" /\ mounts' = Append(mounts, type)
        /\ plans' = plans \o If(type = "virtio-fs", <<VirtioFs(k)>>)
        /\ devices' = devices /\ features' = features /\ UNCHANGED <<progress, cmd>>
    BY <1>2 DEF PlanMount
  <2>2. /\ mounts \in Seq({"virtio-9p", "virtio-fs", "unknown"}) /\ devices \in Seq(Emulated)
        /\ plans \in Seq(PlanSpace) /\ LineTypeOK
    BY DEF LineInv, LineTypeOK, PlanSpace
  <2>3. /\ k \in Nat /\ Len(mounts') = k + 1 /\ mounts'[k + 1] = type
        /\ \A m \in 0..(k - 1) : mounts'[m + 1] = mounts[m + 1]
        /\ mounts' \in Seq({"virtio-9p", "virtio-fs", "unknown"})
        /\ DOMAIN mounts \subseteq DOMAIN mounts' /\ k + 1 \in DOMAIN mounts'
    BY <2>1, <2>2
  <2>4. PlanSpace \subseteq PlanSpace' /\ VirtioFs(k) \in PlanSpace'
    <3>1. VirtioFs((k + 1) - 1) \in PlanSpace' /\ (k + 1) - 1 = k
      BY <2>3 DEF PlanSpace
    <3> QED
      BY <2>1, <2>3, <3>1 DEF PlanSpace
  <2>5. plans \in Seq(PlanSpace')
    BY <2>2, <2>4, SequencesOver
  <2>6. \/ type # "virtio-fs" /\ plans' = plans
        \/ type = "virtio-fs" /\ plans' = Append(plans, VirtioFs(k))
    <3>1. CASE type = "virtio-fs"
      BY <3>1, <2>1, <2>5 DEF If
    <3>2. CASE type # "virtio-fs"
      BY <3>2, <2>1, <2>5 DEF If
    <3> QED
      BY <3>1, <3>2
  <2>7. plans' \in Seq(PlanSpace')
    BY <2>4, <2>5, <2>6
  <2>8. LineTypeOK' /\ StageInv' /\ LineOnly'
    BY <2>1, <2>2, <2>3, <2>7, PlanningTypes DEF Building
  <2>9. ASSUME NEW p, Planned(p, mounts, devices)
        PROVE  Planned(p, mounts', devices') /\ p.name # VirtioFs(k).name
    <3>1. VirtioFs(k).name = <<"virtiofsd", k>>
      BY <2>3, VirtioFsBatch
    <3>2. CASE p = Tpm
      BY <3>1, <3>2, TpmBatch DEF Planned, Id
    <3>3. ASSUME NEW m \in 0..(k - 1), p = VirtioFs(m), mounts[m + 1] = "virtio-fs"
          PROVE  Planned(p, mounts', devices') /\ p.name # VirtioFs(k).name
      <4>1. m \in Nat /\ m # k /\ m \in 0..(Len(mounts') - 1) /\ mounts'[m + 1] = "virtio-fs"
        BY <2>3, <3>3
      <4>2. p.name = <<"virtiofsd", m>>
        BY <4>1, <3>3, VirtioFsBatch
      <4> QED
        BY <3>1, <3>3, <4>1, <4>2 DEF Planned
    <3>4. ASSUME NEW t \in Emulated, NEW x \in 0..(Number(t, devices) - 1), p = VfioUser(t, x)
          PROVE  Planned(p, mounts', devices') /\ p.name # VirtioFs(k).name
      <4>1. x \in Nat /\ Number(t, devices') = Number(t, devices)
        BY <2>1, <2>2, Numbers
      <4>2. p.name = <<t, x>>
        BY <3>4, <4>1, VfioUserBatch
      <4>3. p.name # VirtioFs(k).name
        BY <3>1, <4>2 DEF Emulated
      <4>4. Planned(p, mounts', devices')
        BY <3>4, <4>1 DEF Planned
      <4> QED
        BY <4>3, <4>4
    <3> QED
      BY <2>9, <3>2, <3>3, <3>4 DEF Planned
  <2>10. PlansInv'
    <3>1. /\ \A i \in DOMAIN plans : Planned(plans[i], mounts, devices)
          /\ \A i, j \in DOMAIN plans : i # j => plans[i].name # plans[j].name
          /\ \A m \in 0..(k - 1) :
               mounts[m + 1] = "virtio-fs" => \E i \in DOMAIN plans : plans[i] = VirtioFs(m)
      BY DEF LineInv, PlansInv
    <3>2. \A m \in 0..(Len(mounts') - 1) : m \in 0..(k - 1) \/ m = k
      BY <2>3
    <3>3. CASE type # "virtio-fs"
      <4>1. plans' = plans
        BY <2>6, <3>3
      <4>2. \A m \in 0..(Len(mounts') - 1) :
               mounts'[m + 1] = "virtio-fs" => \E i \in DOMAIN plans : plans[i] = VirtioFs(m)
        BY <2>3, <3>1, <3>2, <3>3
      <4> QED
        BY <4>1, <4>2, <3>1, <2>9 DEF PlansInv
    <3>4. CASE type = "virtio-fs"
      <4>1. plans' = Append(plans, VirtioFs(k))
        BY <2>6, <3>4
      <4>2. /\ DOMAIN plans' = DOMAIN plans \union {Len(plans) + 1}
            /\ plans'[Len(plans) + 1] = VirtioFs(k) /\ \A i \in DOMAIN plans : plans'[i] = plans[i]
        BY <4>1, <2>5
      <4>3. Planned(VirtioFs(k), mounts', devices')
        BY <2>3, <3>4 DEF Planned
      <4>4. \A i \in DOMAIN plans' : Planned(plans'[i], mounts', devices')
        BY <4>2, <4>3, <3>1, <2>9
      <4>5. \A i, j \in DOMAIN plans' : i # j => plans'[i].name # plans'[j].name
        BY <4>2, <3>1, <2>9
      <4>6. \A m \in 0..(Len(mounts') - 1) :
               mounts'[m + 1] = "virtio-fs" => \E i \in DOMAIN plans' : plans'[i] = VirtioFs(m)
        BY <4>2, <2>3, <3>1, <3>2
      <4> QED
        BY <4>4, <4>5, <4>6 DEF PlansInv
    <3> QED
      BY <3>3, <3>4
  <2> QED
    BY <2>8, <2>10 DEF LineInv, LineOnly
<1> QED
  BY <1>1, <1>2

(* plan_sidecars: an emulated device.  Its number is the count of its      *)
(* type, and the earlier ones of that type have smaller numbers.           *)
LEMMA PlanDeviceKeeps ==
  ASSUME LineInv, NEW type \in Emulated, PlanDevice(type)
  PROVE  LineInv'
<1> PICK k : k = Number(type, devices)
  OBVIOUS
<1>1. /\ stage = "devices" /\ stage' = "devices" /\ devices' = Append(devices, type)
      /\ plans' = Append(plans, VfioUser(type, k))
      /\ mounts' = mounts /\ features' = features /\ UNCHANGED <<progress, cmd>>
  BY DEF PlanDevice, Instance, Number
<1>2. /\ mounts \in Seq({"virtio-9p", "virtio-fs", "unknown"}) /\ devices \in Seq(Emulated)
      /\ plans \in Seq(PlanSpace)
  BY DEF LineInv, LineTypeOK, PlanSpace
<1>3. k \in Nat /\ k <= Len(devices) /\ IsFiniteSet({i \in DOMAIN devices : devices[i] = type})
  BY <1>2, Numbers
<1>4. /\ devices' \in Seq(Emulated) /\ DOMAIN devices' = DOMAIN devices \union {Len(devices) + 1}
      /\ devices'[Len(devices) + 1] = type /\ \A i \in DOMAIN devices : devices'[i] = devices[i]
      /\ Len(devices) + 1 \notin DOMAIN devices /\ Len(devices) \in Nat
      /\ DOMAIN devices = 1..Len(devices)
  BY <1>1, <1>2
<1>5. Number(type, devices') = k + 1
  <2> DEFINE S == {i \in DOMAIN devices : devices[i] = type}
  <2>1. {i \in DOMAIN devices' : devices'[i] = type} = S \union {Len(devices) + 1}
    BY <1>4
  <2>2. Len(devices) + 1 \notin S
    BY <1>4
  <2>3. Cardinality(S \union {Len(devices) + 1}) = Cardinality(S) + 1
    BY <1>3, <2>2, FS_AddElement
  <2> QED
    BY <2>1, <2>3 DEF Number
<1>6. ASSUME NEW t \in Emulated, t # type
      PROVE  Number(t, devices') = Number(t, devices)
  <2>1. {i \in DOMAIN devices' : devices'[i] = t} = {i \in DOMAIN devices : devices[i] = t}
    BY <1>4, <1>6
  <2> QED
    BY <2>1 DEF Number
<1>7. PlanSpace \subseteq PlanSpace' /\ VfioUser(type, k) \in PlanSpace'
  <2>1. k + 1 \in DOMAIN devices' /\ (k + 1) - 1 = k
    BY <1>3, <1>4
  <2>2. VfioUser(type, (k + 1) - 1) \in PlanSpace'
    BY <2>1 DEF PlanSpace
  <2> QED
    BY <2>1, <2>2, <1>1, <1>4 DEF PlanSpace
<1>8. plans \in Seq(PlanSpace') /\ plans' \in Seq(PlanSpace')
  <2>1. plans \in Seq(PlanSpace')
    BY <1>2, <1>7, SequencesOver
  <2> QED
    BY <2>1, <1>1, <1>7
<1>9. LineTypeOK' /\ StageInv' /\ LineOnly'
  BY <1>1, <1>2, <1>4, <1>8, PlanningTypes DEF Building
<1>10. VfioUser(type, k).name = <<type, k>>
  BY <1>3, VfioUserBatch
<1>11. ASSUME NEW p, Planned(p, mounts, devices)
       PROVE  Planned(p, mounts', devices') /\ p.name # VfioUser(type, k).name
  <2>1. CASE p = Tpm
    BY <2>1, <1>10, TpmBatch DEF Planned, Id, Emulated
  <2>2. ASSUME NEW m \in 0..(Len(mounts) - 1), p = VirtioFs(m), mounts[m + 1] = "virtio-fs"
        PROVE  Planned(p, mounts', devices') /\ p.name # VfioUser(type, k).name
    <3>1. m \in Nat
      BY <1>2
    <3>2. p.name = <<"virtiofsd", m>>
      BY <2>2, <3>1, VirtioFsBatch
    <3>3. p.name # VfioUser(type, k).name
      BY <3>2, <1>10 DEF Emulated
    <3> QED
      BY <2>2, <3>3, <1>1 DEF Planned
  <2>3. ASSUME NEW t \in Emulated, NEW x \in 0..(Number(t, devices) - 1), p = VfioUser(t, x)
        PROVE  Planned(p, mounts', devices') /\ p.name # VfioUser(type, k).name
    <3>1. x \in Nat /\ Number(t, devices) \in Nat
      <4>1. Number(t, devices) \in Nat
        BY <1>2, Numbers
      <4> QED
        BY <4>1
    <3>2. p.name = <<t, x>>
      BY <2>3, <3>1, VfioUserBatch
    <3>3. x \in 0..(Number(t, devices') - 1)
      BY <3>1, <1>5, <1>6
    <3>4. <<t, x>> # <<type, k>>
      BY <3>1
    <3> QED
      BY <2>3, <3>2, <3>3, <3>4, <1>10 DEF Planned
  <2> QED
    BY <1>11, <2>1, <2>2, <2>3 DEF Planned
<1>12. PlansInv'
  <2>1. /\ \A i \in DOMAIN plans : Planned(plans[i], mounts, devices)
        /\ \A i, j \in DOMAIN plans : i # j => plans[i].name # plans[j].name
        /\ \A m \in 0..(Len(mounts) - 1) :
             mounts[m + 1] = "virtio-fs" => \E i \in DOMAIN plans : plans[i] = VirtioFs(m)
    BY DEF LineInv, PlansInv
  <2>2. /\ DOMAIN plans' = DOMAIN plans \union {Len(plans) + 1}
        /\ plans'[Len(plans) + 1] = VfioUser(type, k)
        /\ \A i \in DOMAIN plans : plans'[i] = plans[i]
    BY <1>1, <1>8
  <2>3. Planned(VfioUser(type, k), mounts', devices')
    BY <1>3, <1>5 DEF Planned
  <2>4. \A i \in DOMAIN plans' : Planned(plans'[i], mounts', devices')
    BY <2>1, <2>2, <2>3, <1>11
  <2>5. \A i, j \in DOMAIN plans' : i # j => plans'[i].name # plans'[j].name
    BY <2>1, <2>2, <1>11
  <2>6. \A m \in 0..(Len(mounts') - 1) :
          mounts'[m + 1] = "virtio-fs" => \E i \in DOMAIN plans' : plans'[i] = VirtioFs(m)
    BY <2>1, <2>2, <1>1
  <2> QED
    BY <2>4, <2>5, <2>6 DEF PlansInv
<1> QED
  BY <1>9, <1>12 DEF LineInv, LineOnly

-----------------------------------------------------------------------------
(* Building: the template is fixed and the line grows.                     *)
LEMMA LineGrows ==
  ASSUME LineInv, NEW t, Batch(t), Claimed(cmd) \intersect Claimed(t) = {}, cmd' = cmd \o t
  PROVE  /\ Batch(cmd') /\ cmd' \in Seq(Arguments) /\ OnLine' = OnLine \union ToSet(t)
         /\ Claimed(cmd') = Claimed(cmd) \union Claimed(t)
         /\ Named(cmd') = Named(cmd) \union Named(t)
         /\ \A free : Ordered(cmd, free) /\ Ordered(t, free \union Named(cmd))
                      => Ordered(cmd', free)
<1>1. Batch(cmd) /\ cmd \in Seq(Arguments) /\ t \in Seq(Arguments)
  BY DEF LineInv, Batch
<1>2. Batch(cmd \o t)
  BY <1>1, BatchesConcatenate
<1>3. /\ ToSet(cmd \o t) = ToSet(cmd) \union ToSet(t) /\ cmd \o t \in Seq(Arguments)
      /\ Claimed(cmd \o t) = Claimed(cmd) \union Claimed(t)
      /\ Named(cmd \o t) = Named(cmd) \union Named(t)
  BY <1>1, Concatenation
<1>4. \A free : Ordered(cmd, free) /\ Ordered(t, free \union Named(cmd)) => Ordered(cmd \o t, free)
  BY <1>1, Concatenation
<1> QED
  BY <1>2, <1>3, <1>4 DEF OnLine

(* A batch without a -machine or a served device.                          *)
LEMMA PlainLine ==
  ASSUME LineInv, NEW t, Batch(t), Plain(t), Claimed(cmd) \intersect Claimed(t) = {},
         cmd' = cmd \o t, stage \in Building, stage # "done",
         UNCHANGED <<plans, connected>>
  PROVE  MemoryInv'
<1>1. OnLine' = OnLine \union ToSet(t)
  BY LineGrows
<1>2. SharedMemory' <=> SharedMemory
  BY DEF SharedMemory
<1>3. HasRam(OnLine') <=> HasRam(OnLine)
  BY <1>1 DEF HasRam, Plain
<1>4. \A a \in OnLine' : Served(a) => a \in OnLine
  BY <1>1 DEF Plain
<1> QED
  BY <1>2, <1>3, <1>4 DEF LineInv, MemoryInv

(* A batch that needs no bus but the root bus and the SCSI controller.     *)
LEMMA BusStep ==
  ASSUME LineInv, NEW t, Batch(t), Claimed(cmd) \intersect Claimed(t) = {},
         cmd' = cmd \o t, stage \in Building, disks' = disks,
         \A free : {Nil, Pcie0, Id("scsi0")} \subseteq free => Ordered(t, free)
  PROVE  BusInv'
<1>1. /\ Named(cmd') = Named(cmd) \union Named(t)
      /\ \A free : Ordered(cmd, free) /\ Ordered(t, free \union Named(cmd)) => Ordered(cmd', free)
  BY LineGrows
<1>2. Buses' = Buses /\ {Nil, Pcie0} \subseteq Buses /\ Id("scsi0") \in Named(cmd)
  BY DEF Buses, LineInv, BusInv
<1>3. Ordered(cmd, Buses) /\ Ordered(t, Buses \union Named(cmd))
  BY <1>2 DEF LineInv, BusInv
<1>4. Ordered(cmd', Buses)
  BY <1>3, <1>1
<1> QED
  BY <1>1, <1>2, <1>4 DEF LineInv, BusInv

(* Both together.                                                          *)
LEMMA PlainStep ==
  ASSUME LineInv, NEW t, Batch(t), Plain(t), Claimed(cmd) \intersect Claimed(t) = {},
         cmd' = cmd \o t, stage \in Building, stage # "done",
         \A free : {Nil, Pcie0, Id("scsi0")} \subseteq free => Ordered(t, free),
         UNCHANGED <<plans, disks, connected>>
  PROVE  BusInv' /\ MemoryInv'
BY PlainLine, BusStep

(* The template stays as it was planned.                                   *)
LEMMA SameTemplate ==
  ASSUME LineInv, UNCHANGED template, stage' \in Building, cmd' \in Seq(Arguments),
         disks' \in Seq(Models), pci' \in Seq(BOOLEAN),
         mounted' \in 0..Len(mounts), connected' \in 0..Len(plans)
  PROVE  LineTypeOK' /\ PlansInv' /\ UNCHANGED <<features, mounts, devices, plans>>
<1>1. UNCHANGED <<features, mounts, devices, plans>>
  BY DEF template
<1>2. PlansInv'
  BY <1>1 DEF LineInv, PlansInv
<1>3. plans' \in Seq(PlanSpace')
  BY <1>1 DEF LineInv, LineTypeOK, PlanSpace
<1>4. LineTypeOK'
  BY <1>1, <1>3 DEF LineInv, LineTypeOK, Building, PlanSpace
<1> QED
  BY <1>1, <1>2, <1>4

(* build_qemu_cmdline: the cloud-init image.                               *)
LEMMA CloudInitKeeps ==
  ASSUME LineInv, NEW iso \in BOOLEAN, CloudInit(iso)
  PROVE  LineInv'
<1> DEFINE t == If(iso, CdArgs)
<1>1. /\ stage = "disks" /\ stage' = "net" /\ cmd' = cmd \o t /\ UNCHANGED template
      /\ UNCHANGED <<disks, mounted, connected, pci>>
  BY DEF CloudInit, Adds, CdArgs, progress
<1>2. /\ Batch(t) /\ Plain(t) /\ Claimed(t) \subseteq {Id("cdrom0")}
      /\ \A free : {Nil, Pcie0, Id("scsi0")} \subseteq free => Ordered(t, free)
  BY CdBatch, IfBatch
<1> HIDE DEF t
<1>3. Id("cdrom0") \in Resources /\ Id("cdrom0")[1] = "cdrom0"
  BY NamesAreNotNil DEF Kinds, Id
<1>4. Claimed(cmd) \intersect Claimed(t) = {}
  BY <1>1, <1>2, <1>3 DEF LineInv, ClaimInv, Allowed
<1>5. /\ Batch(cmd') /\ cmd' \in Seq(Arguments) /\ OnLine' = OnLine \union ToSet(t)
      /\ Claimed(cmd') = Claimed(cmd) \union Claimed(t)
  BY <1>1, <1>2, <1>4, LineGrows
<1>6. LineTypeOK' /\ PlansInv' /\ UNCHANGED <<features, mounts, devices, plans>>
  BY <1>1, <1>5, SameTemplate DEF LineInv, LineTypeOK, Building
<1>7. BusInv' /\ MemoryInv'
  BY <1>1, <1>2, <1>4, <1>6, PlainStep DEF Building
<1>8. StageInv'
  BY <1>1, <1>6 DEF LineInv, StageInv, Building
<1>9. ClaimInv'
  <2>1. Connected' = Connected
    BY <1>1, <1>6 DEF Connected
  <2>2. ASSUME NEW r \in Claimed(cmd) PROVE r \in Resources /\ Allowed(r)'
    BY <1>1, <1>6, <2>1 DEF LineInv, ClaimInv, Allowed
  <2>3. ASSUME NEW r \in Claimed(t) PROVE r \in Resources /\ Allowed(r)'
    BY <1>1, <1>2, <1>3 DEF Allowed, PlanKinds, Emulated
  <2> QED
    BY <2>2, <2>3, <1>5 DEF ClaimInv
<1>10. PresentInv'
  BY <1>1, <1>5, <1>6 DEF LineInv, PresentInv
<1> QED
  BY <1>5, <1>6, <1>7, <1>8, <1>9, <1>10 DEF LineInv

(* build_qemu_cmdline: the network.                                        *)
LEMMA NetworkKeeps == LineInv /\ Network => LineInv'
<1> SUFFICES ASSUME LineInv, Network PROVE LineInv'
  OBVIOUS
<1> DEFINE t == NetArgs
<1>1. /\ stage = "net" /\ stage' = "attach" /\ cmd' = cmd \o t /\ UNCHANGED template
      /\ UNCHANGED <<disks, mounted, connected, pci>>
  BY DEF Network, Adds, NetArgs, progress
<1>2. /\ Batch(t) /\ Plain(t) /\ Claimed(t) = {Id("net0")}
      /\ \A free : {Nil, Pcie0, Id("scsi0")} \subseteq free => Ordered(t, free)
  BY NetBatch
<1> HIDE DEF t
<1>3. Id("net0") \in Resources /\ Id("net0")[1] = "net0"
  BY NamesAreNotNil DEF Kinds, Id
<1>4. Claimed(cmd) \intersect Claimed(t) = {}
  BY <1>1, <1>2, <1>3 DEF LineInv, ClaimInv, Allowed
<1>5. /\ Batch(cmd') /\ cmd' \in Seq(Arguments) /\ OnLine' = OnLine \union ToSet(t)
      /\ Claimed(cmd') = Claimed(cmd) \union Claimed(t)
  BY <1>1, <1>2, <1>4, LineGrows
<1>6. LineTypeOK' /\ PlansInv' /\ UNCHANGED <<features, mounts, devices, plans>>
  BY <1>1, <1>5, SameTemplate DEF LineInv, LineTypeOK, Building
<1>7. BusInv' /\ MemoryInv'
  BY <1>1, <1>2, <1>4, <1>6, PlainStep DEF Building
<1>8. StageInv'
  BY <1>1, <1>6 DEF LineInv, StageInv, Building
<1>9. ClaimInv'
  <2>1. Connected' = Connected
    BY <1>1, <1>6 DEF Connected
  <2>2. ASSUME NEW r \in Claimed(cmd) PROVE r \in Resources /\ Allowed(r)'
    BY <1>1, <1>6, <2>1 DEF LineInv, ClaimInv, Allowed
  <2>3. ASSUME NEW r \in Claimed(t) PROVE r \in Resources /\ Allowed(r)'
    BY <1>1, <1>2, <1>3 DEF Allowed, PlanKinds, Emulated
  <2> QED
    BY <2>2, <2>3, <1>5 DEF ClaimInv
<1>10. PresentInv'
  BY <1>1, <1>5, <1>6 DEF LineInv, PresentInv
<1> QED
  BY <1>5, <1>6, <1>7, <1>8, <1>9, <1>10 DEF LineInv

(* _mount_cmdline: one mount.                                              *)
LEMMA MountKeeps == LineInv /\ Mount => LineInv'
<1> SUFFICES ASSUME LineInv, Mount PROVE LineInv'
  OBVIOUS
<1>a. CASE Fail
  BY <1>a, FailKeeps DEF Mount
<1>b. CASE ~Fail
  <2> PICK m : m = mounted
    OBVIOUS
  <2> DEFINE t == NineP(m)
  <2>1. /\ stage = "attach" /\ stage' = "attach" /\ cmd' = cmd \o t /\ UNCHANGED template
        /\ UNCHANGED <<disks, connected, pci>>
        /\ mounted' = m + 1 /\ m < Len(mounts)
    BY <1>b DEF Mount, Adds
  <2>2. m \in Nat /\ Len(mounts) \in Nat /\ mounted' \in 0..Len(mounts)
    BY <2>1 DEF LineInv, LineTypeOK
  <2>3. /\ Batch(t) /\ Plain(t)
        /\ Claimed(t) = IF mounts[m + 1] # "virtio-fs" THEN NinePClaims(m) ELSE {}
        /\ \A free : {Nil, Pcie0, Id("scsi0")} \subseteq free => Ordered(t, free)
    BY <2>2, NinePBatch
  <2> HIDE DEF t
  <2>4. <<"fsdev", m>> \in Resources /\ <<"tag", m>> \in Resources
    BY <2>2, NamesAreNotNil DEF Kinds
  <2>5. mounts[m + 1] # "virtio-fs" => <<"tag", m>> \notin Connected
    <3> SUFFICES ASSUME mounts[m + 1] # "virtio-fs", NEW j \in 1..connected,
                        <<"tag", m>> \in Claimed(plans[j].args)
                 PROVE  FALSE
      BY DEF Connected
    <3>1. j \in DOMAIN plans /\ Planned(plans[j], mounts, devices)
      BY DEF LineInv, LineTypeOK, PlansInv
    <3>2. devices \in Seq(Emulated)
      BY DEF LineInv, LineTypeOK
    <3>3. CASE plans[j] = Tpm
      BY <3>3, TpmBatch DEF Id
    <3>4. ASSUME NEW k \in 0..(Len(mounts) - 1), plans[j] = VirtioFs(k), mounts[k + 1] = "virtio-fs"
          PROVE  FALSE
      <4>1. k \in Nat
        BY <2>2
      <4>2. <<"tag", m>> \in {<<"char_fs", k>>, <<"virtiofs", k>>, <<"tag", k>>}
        BY <3>4, <4>1, VirtioFsBatch
      <4> QED
        BY <4>2, <3>4
    <3>5. ASSUME NEW k \in Emulated, NEW x \in 0..(Number(k, devices) - 1),
                 plans[j] = VfioUser(k, x)
          PROVE  FALSE
      <4>1. Number(k, devices) \in Nat
        BY <3>2, Numbers
      <4>2. x \in Nat
        BY <4>1
      <4>3. <<"tag", m>> = <<k, x>>
        BY <3>5, <4>2, VfioUserBatch
      <4> QED
        BY <4>3 DEF Emulated
    <3> QED
      BY <3>1, <3>3, <3>4, <3>5 DEF Planned
  <2>6. Claimed(cmd) \intersect Claimed(t) = {}
    <3>1. ASSUME NEW r \in Claimed(cmd), r \in Claimed(t) PROVE FALSE
      <4>1. mounts[m + 1] # "virtio-fs" /\ (r = <<"fsdev", m>> \/ r = <<"tag", m>>)
        BY <3>1, <2>3 DEF NinePClaims
      <4>2. CASE r = <<"fsdev", m>>
        <5>1. r[1] = "fsdev" /\ r[2] = m
          BY <4>2
        <5> QED
          BY <5>1, <2>2 DEF LineInv, ClaimInv, Allowed
      <4>3. CASE r = <<"tag", m>>
        <5>1. r[1] = "tag" /\ r[2] = m
          BY <4>3
        <5>2. Allowed(r)
          BY DEF LineInv, ClaimInv
        <5>3. r[2] < mounted
          BY <5>1, <5>2, <4>1, <4>3, <2>5 DEF Allowed
        <5> QED
          BY <5>1, <5>3, <2>2
      <4> QED
        BY <4>1, <4>2, <4>3
    <3> QED
      BY <3>1
  <2>7. /\ Batch(cmd') /\ cmd' \in Seq(Arguments) /\ OnLine' = OnLine \union ToSet(t)
        /\ Claimed(cmd') = Claimed(cmd) \union Claimed(t)
    BY <2>1, <2>3, <2>6, LineGrows
  <2>8. LineTypeOK' /\ PlansInv' /\ UNCHANGED <<features, mounts, devices, plans>>
    BY <2>1, <2>2, <2>7, SameTemplate DEF LineInv, LineTypeOK, Building
  <2>9. BusInv' /\ MemoryInv'
    BY <2>1, <2>3, <2>6, <2>8, PlainStep DEF Building
  <2>10. StageInv'
    BY <2>1, <2>8 DEF LineInv, StageInv, Building
  <2>11. ClaimInv'
    <3>1. Connected' = Connected
      BY <2>1, <2>8 DEF Connected
    <3>2. ASSUME NEW r \in Claimed(cmd) PROVE r \in Resources /\ Allowed(r)'
      <4>1. r \in Resources /\ Allowed(r) /\ r[2] \in Nat
        BY DEF LineInv, ClaimInv, Resources
      <4>2. r[2] < mounted => r[2] < mounted'
        BY <4>1, <2>1, <2>2
      <4> QED
        BY <2>1, <2>8, <3>1, <4>1, <4>2 DEF Allowed
    <3>3. ASSUME NEW r \in Claimed(t) PROVE r \in Resources /\ Allowed(r)'
      <4>1. /\ mounts[m + 1] # "virtio-fs" /\ r[1] \in {"fsdev", "tag"} /\ r[2] = m
            /\ r \in Resources
        BY <3>3, <2>3, <2>4 DEF NinePClaims
      <4>2. r[2] < mounted'
        BY <4>1, <2>1, <2>2
      <4> QED
        BY <4>1, <4>2, <2>8 DEF Allowed, PlanKinds, Emulated
    <3> QED
      BY <3>2, <3>3, <2>7 DEF ClaimInv
  <2>12. PresentInv'
    <3>1. ASSUME NEW k \in 0..(mounted' - 1), mounts'[k + 1] # "virtio-fs"
          PROVE  <<"tag", k>> \in Claimed(cmd')
      <4>1. k \in 0..(mounted - 1) \/ k = m
        BY <2>1, <2>2
      <4>2. CASE k = m
        BY <4>2, <3>1, <2>3, <2>7, <2>8 DEF NinePClaims
      <4>3. CASE k \in 0..(mounted - 1)
        BY <4>3, <3>1, <2>7, <2>8 DEF LineInv, PresentInv
      <4> QED
        BY <4>1, <4>2, <4>3
    <3> QED
      BY <3>1, <2>1, <2>7, <2>8 DEF LineInv, PresentInv
  <2> QED
    BY <2>7, <2>8, <2>9, <2>10, <2>11, <2>12 DEF LineInv
<1> QED
  BY <1>a, <1>b

(* build_qemu_cmdline: QMP, the console and the RNG.                       *)
LEMMA ConsoleKeeps == LineInv /\ Console => LineInv'
<1> SUFFICES ASSUME LineInv, Console PROVE LineInv'
  OBVIOUS
<1> DEFINE t == ConsoleArgs
<1>1. /\ stage = "attach" /\ stage' = "pci" /\ cmd' = cmd \o t /\ UNCHANGED template
      /\ UNCHANGED <<disks, mounted, connected, pci>>
      /\ mounted = Len(mounts) /\ connected = Len(plans)
  BY DEF Console, Adds, ConsoleArgs, progress
<1>2. /\ Batch(t) /\ Plain(t) /\ Claimed(t) = ConsoleClaims
      /\ \A free : {Nil, Pcie0, Id("scsi0")} \subseteq free => Ordered(t, free)
  BY ConsoleBatch
<1> HIDE DEF t
<1>3. \A r \in ConsoleClaims :
        r \in Resources /\ r[1] \in {"charserial0", "console", "serial0", "rng0"}
  BY NamesAreNotNil DEF Kinds, Id, ConsoleClaims
<1>4. Claimed(cmd) \intersect Claimed(t) = {}
  BY <1>1, <1>2, <1>3 DEF LineInv, ClaimInv, Allowed
<1>5. /\ Batch(cmd') /\ cmd' \in Seq(Arguments) /\ OnLine' = OnLine \union ToSet(t)
      /\ Claimed(cmd') = Claimed(cmd) \union Claimed(t)
  BY <1>1, <1>2, <1>4, LineGrows
<1>6. LineTypeOK' /\ PlansInv' /\ UNCHANGED <<features, mounts, devices, plans>>
  BY <1>1, <1>5, SameTemplate DEF LineInv, LineTypeOK, Building
<1>7. BusInv' /\ MemoryInv'
  BY <1>1, <1>2, <1>4, <1>6, PlainStep DEF Building
<1>8. StageInv'
  BY <1>1, <1>6 DEF LineInv, StageInv, Building
<1>9. ClaimInv'
  <2>1. Connected' = Connected
    BY <1>1, <1>6 DEF Connected
  <2>2. ASSUME NEW r \in Claimed(cmd) PROVE r \in Resources /\ Allowed(r)'
    BY <1>1, <1>6, <2>1 DEF LineInv, ClaimInv, Allowed
  <2>3. ASSUME NEW r \in Claimed(t) PROVE r \in Resources /\ Allowed(r)'
    BY <1>1, <1>2, <1>3 DEF Allowed, PlanKinds, Emulated
  <2> QED
    BY <2>2, <2>3, <1>5 DEF ClaimInv
<1>10. PresentInv'
  BY <1>1, <1>5, <1>6 DEF LineInv, PresentInv
<1> QED
  BY <1>5, <1>6, <1>7, <1>8, <1>9, <1>10 DEF LineInv

(* build_qemu_cmdline: a passed-through device.                            *)
LEMMA PassThroughKeeps ==
  ASSUME LineInv, NEW rootPort \in BOOLEAN, PassThrough(rootPort)
  PROVE  LineInv'
<1> PICK k : k = Len(pci)
  OBVIOUS
<1> DEFINE t == IF rootPort THEN RootPort(k) ELSE <<Device({})>>
<1>1. /\ stage = "pci" /\ stage' = "pci" /\ cmd' = cmd \o t /\ UNCHANGED template
      /\ UNCHANGED <<disks, mounted, connected>>
      /\ pci' = Append(pci, rootPort)
  BY DEF PassThrough, Adds
<1>2. k \in Nat /\ pci' \in Seq(BOOLEAN) /\ Len(pci') = k + 1
  BY <1>1 DEF LineInv, LineTypeOK
<1>3. /\ Batch(t) /\ Plain(t) /\ Claimed(t) \subseteq {<<"pcie", 6 + k>>, <<"port", 6 + k>>}
      /\ \A free : {Nil, Pcie0, Id("scsi0")} \subseteq free => Ordered(t, free)
  BY <1>2, RootPortBatch, DirectBatch
<1> HIDE DEF t
<1>4. \A r \in Claimed(t) : r \in Resources /\ r[1] \in {"pcie", "port"} /\ r[2] = 6 + k
  <2>1. <<"pcie", 6 + k>> \in Resources /\ <<"port", 6 + k>> \in Resources
    BY <1>2, NamesAreNotNil DEF Kinds
  <2> QED
    BY <2>1, <1>3
<1>5. Claimed(cmd) \intersect Claimed(t) = {}
  <2>1. ASSUME NEW r \in Claimed(cmd), r \in Claimed(t) PROVE FALSE
    <3>1. r[2] < 6 + Len(pci)
      BY <2>1, <1>4 DEF LineInv, ClaimInv, Allowed
    <3> QED
      BY <2>1, <3>1, <1>4, <1>2
  <2> QED
    BY <2>1
<1>6. /\ Batch(cmd') /\ cmd' \in Seq(Arguments) /\ OnLine' = OnLine \union ToSet(t)
      /\ Claimed(cmd') = Claimed(cmd) \union Claimed(t)
  BY <1>1, <1>3, <1>5, LineGrows
<1>7. LineTypeOK' /\ PlansInv' /\ UNCHANGED <<features, mounts, devices, plans>>
  BY <1>1, <1>2, <1>6, SameTemplate DEF LineInv, LineTypeOK, Building
<1>8. BusInv' /\ MemoryInv'
  BY <1>1, <1>3, <1>5, <1>7, PlainStep DEF Building
<1>9. StageInv'
  BY <1>1, <1>7 DEF LineInv, StageInv, Building
<1>10. ClaimInv'
  <2>1. Connected' = Connected
    BY <1>1, <1>7 DEF Connected
  <2>2. ASSUME NEW r \in Claimed(cmd) PROVE r \in Resources /\ Allowed(r)'
    <3>1. r \in Resources /\ Allowed(r) /\ r[2] \in Nat
      BY DEF LineInv, ClaimInv, Resources
    <3>2. r[2] < 6 + Len(pci) => r[2] < 6 + Len(pci')
      BY <3>1, <1>2
    <3> QED
      BY <1>1, <1>7, <2>1, <3>1, <3>2 DEF Allowed
  <2>3. ASSUME NEW r \in Claimed(t) PROVE r \in Resources /\ Allowed(r)'
    <3>1. r[2] < 6 + Len(pci')
      BY <1>2, <1>4
    <3> QED
      BY <1>4, <3>1 DEF Allowed, PlanKinds, Emulated
  <2> QED
    BY <2>2, <2>3, <1>6 DEF ClaimInv
<1>11. PresentInv'
  BY <1>1, <1>6, <1>7 DEF LineInv, PresentInv
<1> QED
  BY <1>6, <1>7, <1>8, <1>9, <1>10, <1>11 DEF LineInv

(* What a plan puts on the line.                                           *)
LEMMA PlanBatch ==
  ASSUME NEW ms \in Seq({"virtio-9p", "virtio-fs", "unknown"}), NEW ds \in Seq(Emulated),
         NEW p, Planned(p, ms, ds)
  PROVE  /\ Batch(p.args) /\ NoMachine(p.args) /\ p.socket \in Claimed(p.args)
         /\ \A free : {Nil, Pcie0} \subseteq free => Ordered(p.args, free)
         /\ \A r \in Claimed(p.args) :
              /\ r \in Resources
              /\ \/ r[1] \in PlanKinds
                 \/ r[1] = "tag" /\ r[2] \in Nat /\ ms[r[2] + 1] = "virtio-fs"
         /\ (\E a \in ToSet(p.args) : Served(a)) <=> p.shared
<1>1. CASE p = Tpm
  <2>1. \A r \in Claimed(p.args) : r \in Resources /\ r[1] \in PlanKinds
    BY <1>1, TpmBatch, NamesAreNotNil DEF Id, PlanKinds, Kinds
  <2>2. NoMachine(p.args)
    BY <1>1, TpmBatch DEF Plain, NoMachine
  <2>3. ~\E a \in ToSet(p.args) : Served(a)
    BY <1>1, TpmBatch DEF Plain
  <2>4. ~p.shared /\ Batch(p.args) /\ p.socket \in Claimed(p.args)
    BY <1>1, TpmBatch
  <2>5. \A free : {Nil, Pcie0} \subseteq free => Ordered(p.args, free)
    BY <1>1, TpmBatch
  <2> QED
    BY <2>1, <2>2, <2>3, <2>4, <2>5
<1>2. ASSUME NEW m \in 0..(Len(ms) - 1), p = VirtioFs(m), ms[m + 1] = "virtio-fs"
      PROVE  /\ Batch(p.args) /\ NoMachine(p.args) /\ p.socket \in Claimed(p.args)
             /\ \A free : {Nil, Pcie0} \subseteq free => Ordered(p.args, free)
             /\ \A r \in Claimed(p.args) :
                  /\ r \in Resources
                  /\ \/ r[1] \in PlanKinds
                     \/ r[1] = "tag" /\ r[2] \in Nat /\ ms[r[2] + 1] = "virtio-fs"
             /\ (\E a \in ToSet(p.args) : Served(a)) <=> p.shared
  <2>1. m \in Nat
    OBVIOUS
  <2>2. /\ Batch(p.args) /\ NoMachine(p.args)
        /\ Claimed(p.args) = {<<"char_fs", m>>, <<"virtiofs", m>>, <<"tag", m>>}
        /\ \A free : {Nil, Pcie0} \subseteq free => Ordered(p.args, free)
        /\ p.socket = <<"virtiofs", m>> /\ p.shared /\ \E a \in ToSet(p.args) : Served(a)
    BY <1>2, <2>1, VirtioFsBatch
  <2>3. /\ <<"char_fs", m>> \in Resources /\ <<"virtiofs", m>> \in Resources
        /\ <<"tag", m>> \in Resources
    BY <2>1, NamesAreNotNil DEF Kinds
  <2>4. ASSUME NEW r \in Claimed(p.args)
        PROVE  /\ r \in Resources
               /\ \/ r[1] \in PlanKinds
                  \/ r[1] = "tag" /\ r[2] \in Nat /\ ms[r[2] + 1] = "virtio-fs"
    <3>1. CASE r = <<"tag", m>>
      <4>1. r[1] = "tag" /\ r[2] = m
        BY <3>1
      <4> QED
        BY <1>2, <2>1, <2>3, <3>1, <4>1
    <3>2. CASE r = <<"char_fs", m>>
      <4>1. r[1] = "char_fs"
        BY <3>2
      <4>2. r \in Resources
        BY <2>3, <3>2
      <4> QED
        BY <4>1, <4>2 DEF PlanKinds
    <3>3. CASE r = <<"virtiofs", m>>
      <4>1. r[1] = "virtiofs"
        BY <3>3
      <4>2. r \in Resources
        BY <2>3, <3>3
      <4> QED
        BY <4>1, <4>2 DEF PlanKinds
    <3> QED
      BY <2>2, <3>1, <3>2, <3>3
  <2> QED
    BY <2>2, <2>4
<1>3. ASSUME NEW type \in Emulated, NEW x \in 0..(Number(type, ds) - 1), p = VfioUser(type, x)
      PROVE  /\ Batch(p.args) /\ NoMachine(p.args) /\ p.socket \in Claimed(p.args)
             /\ \A free : {Nil, Pcie0} \subseteq free => Ordered(p.args, free)
             /\ \A r \in Claimed(p.args) : r \in Resources /\ r[1] \in PlanKinds
             /\ (\E a \in ToSet(p.args) : Served(a)) <=> p.shared
  <2>1. Number(type, ds) \in Nat
    BY Numbers
  <2>2. x \in Nat
    BY <2>1
  <2>3. /\ Batch(p.args) /\ NoMachine(p.args) /\ Claimed(p.args) = {<<type, x>>}
        /\ \A free : {Nil, Pcie0} \subseteq free => Ordered(p.args, free)
        /\ p.socket = <<type, x>> /\ p.shared /\ \E a \in ToSet(p.args) : Served(a)
    BY <1>3, <2>2, VfioUserBatch
  <2>4. <<type, x>> \in Resources
    BY <2>2, NamesAreNotNil DEF Kinds
  <2>5. \A r \in Claimed(p.args) : r \in Resources /\ r[1] \in PlanKinds
    BY <2>3, <2>4 DEF PlanKinds
  <2> QED
    BY <2>3, <2>5
<1> QED
  BY <1>1, <1>2, <1>3 DEF Planned

(* build_qemu_cmdline: the arguments of one plan.  Plans of different      *)
(* names claim different things, so those connected before share nothing   *)
(* with it.                                                                *)
LEMMA ConnectKeeps == LineInv /\ Connect => LineInv'
<1> SUFFICES ASSUME LineInv, Connect PROVE LineInv'
  OBVIOUS
<1> PICK j : j = connected + 1
  OBVIOUS
<1> DEFINE t == plans[j].args
<1>1. /\ stage = "attach" /\ stage' = "attach" /\ cmd' = cmd \o t /\ UNCHANGED template
      /\ UNCHANGED <<disks, mounted, pci>>
      /\ connected' = j /\ connected < Len(plans)
  BY DEF Connect, Adds, PlanArgs
<1>2. /\ mounts \in Seq({"virtio-9p", "virtio-fs", "unknown"}) /\ devices \in Seq(Emulated)
      /\ mounted \in 0..Len(mounts) /\ connected \in 0..Len(plans) /\ Len(plans) \in Nat
      /\ DOMAIN plans = 1..Len(plans)
  BY DEF LineInv, LineTypeOK
<1>3. j \in DOMAIN plans /\ connected' \in 0..Len(plans) /\ 1..connected' = 1..connected \union {j}
      /\ j \notin 1..connected /\ 1..connected \subseteq DOMAIN plans
  BY <1>1, <1>2
<1>4. \A i \in DOMAIN plans : Planned(plans[i], mounts, devices)
  BY DEF LineInv, PlansInv
<1>5. /\ Batch(t) /\ NoMachine(t)
      /\ \A free : {Nil, Pcie0, Id("scsi0")} \subseteq free => Ordered(t, free)
      /\ \A r \in Claimed(t) :
           /\ r \in Resources
           /\ \/ r[1] \in PlanKinds
              \/ r[1] = "tag" /\ r[2] \in Nat /\ mounts[r[2] + 1] = "virtio-fs"
      /\ (\E a \in ToSet(t) : Served(a)) <=> plans[j].shared
  BY <1>2, <1>3, <1>4, PlanBatch
<1> HIDE DEF t
<1>6. Claimed(cmd) \intersect Claimed(t) = {}
  <2>1. ASSUME NEW r \in Claimed(cmd), r \in Claimed(t) PROVE FALSE
    <3>1. Allowed(r)
      BY DEF LineInv, ClaimInv
    <3>2. r \in Connected
      BY <3>1, <2>1, <1>5 DEF Allowed
    <3>3. PICK i \in 1..connected : r \in Claimed(plans[i].args)
      BY <3>2 DEF Connected
    <3>4. i # j /\ i \in DOMAIN plans
      BY <1>3
    <3>5. plans[i].name # plans[j].name
      BY <3>4, <1>3 DEF LineInv, PlansInv
    <3>6. Claimed(plans[i].args) \intersect Claimed(plans[j].args) = {}
      BY <3>4, <3>5, <1>2, <1>3, <1>4, PlansApart
    <3> QED
      BY <3>3, <3>6, <2>1 DEF t
  <2> QED
    BY <2>1
<1>7. /\ Batch(cmd') /\ cmd' \in Seq(Arguments) /\ OnLine' = OnLine \union ToSet(t)
      /\ Claimed(cmd') = Claimed(cmd) \union Claimed(t)
  BY <1>1, <1>5, <1>6, LineGrows
<1>8. LineTypeOK' /\ PlansInv' /\ UNCHANGED <<features, mounts, devices, plans>>
  <2>1. /\ disks' \in Seq(Models) /\ pci' \in Seq(BOOLEAN)
        /\ mounted' \in 0..Len(mounts)
    BY <1>1 DEF LineInv, LineTypeOK
  <2> QED
    BY <1>1, <1>3, <1>7, <2>1, SameTemplate DEF Building
<1>9. BusInv'
  BY <1>1, <1>5, <1>6, BusStep DEF Building
<1>10. StageInv'
  BY <1>1, <1>8 DEF LineInv, StageInv, Building
<1>11. Connected' = Connected \union Claimed(t)
  BY <1>1, <1>3, <1>8 DEF Connected, t
<1>12. ClaimInv'
  <2>1. ASSUME NEW r \in Claimed(cmd) PROVE r \in Resources /\ Allowed(r)'
    BY <1>1, <1>8, <1>11 DEF LineInv, ClaimInv, Allowed
  <2>2. ASSUME NEW r \in Claimed(t) PROVE r \in Resources /\ Allowed(r)'
    <3>1. r[1] \in PlanKinds \union {"tag"} /\ r \in Connected' /\ r \in Resources
      BY <1>5, <1>11
    <3> QED
      BY <3>1 DEF Allowed, PlanKinds, Emulated
  <2> QED
    BY <2>1, <2>2, <1>7 DEF ClaimInv
<1>13. PresentInv'
  <2>1. \A i \in 1..connected' : ToSet(plans'[i].args) \subseteq OnLine'
    BY <1>1, <1>3, <1>7, <1>8 DEF LineInv, PresentInv, t
  <2> QED
    BY <2>1, <1>1, <1>7, <1>8 DEF LineInv, PresentInv
<1>14. MemoryInv'
  <2>1. SharedMemory' <=> SharedMemory
    BY <1>8 DEF SharedMemory
  <2>2. HasRam(OnLine') <=> HasRam(OnLine)
    BY <1>5, <1>7 DEF HasRam, NoMachine
  <2>3. ASSUME NEW a \in OnLine', Served(a) PROVE \E i \in 1..connected' : plans'[i].shared
    <3>1. CASE a \in OnLine
      BY <2>3, <3>1, <1>3, <1>8 DEF LineInv, MemoryInv
    <3>2. CASE a \in ToSet(t)
      BY <2>3, <3>2, <1>3, <1>5, <1>8
    <3> QED
      BY <3>1, <3>2, <1>7
  <2> QED
    BY <2>1, <2>2, <2>3, <1>1 DEF LineInv, MemoryInv, Building
<1> QED
  BY <1>7, <1>8, <1>9, <1>10, <1>12, <1>13, <1>14 DEF LineInv

(* More free buses do no harm.                                             *)
LEMMA OrderedMonotonic ==
  ASSUME NEW s, NEW F, NEW G, F \subseteq G, Ordered(s, F)
  PROVE  Ordered(s, G)
BY DEF Ordered

(* block_cmdline: one disk.  Everything it claims carries the number of    *)
(* disks before it, which nothing on the line has.                         *)
LEMMA DiskKeeps ==
  ASSUME LineInv, NEW model \in Models, Disk(model)
  PROVE  LineInv'
<1> PICK k : k = Len(disks)
  OBVIOUS
<1> DEFINE t == Block(model, k)
<1>1. /\ stage = "disks" /\ stage' = "disks" /\ cmd' = cmd \o t /\ UNCHANGED template
      /\ UNCHANGED <<mounted, connected, pci>>
      /\ disks' = Append(disks, model)
  BY DEF Disk, Adds
<1>2. disks \in Seq(Models) /\ k \in Nat /\ DOMAIN disks = 1..k
  BY DEF LineInv, LineTypeOK
<1>3. /\ disks' \in Seq(Models) /\ Len(disks') = k + 1 /\ DOMAIN disks' = 1..(k + 1)
      /\ disks'[k + 1] = model /\ (\A i \in 1..k : disks'[i] = disks[i]) /\ disks' # <<>>
  BY <1>1, <1>2
<1>4. /\ Batch(t) /\ Plain(t) /\ Claimed(t) = BlockClaims(model, k)
      /\ \A free : /\ {Nil, Pcie0, Id("scsi0")} \subseteq free
                   /\ model = "ide" /\ k # 0 => Id("ahci") \in free
                   => Ordered(t, free)
      /\ model = "virtio" => \E a \in ToSet(t) : a.at = VirtioAt(k)
      /\ model = "ide" /\ k = 0 => Id("ahci") \in Named(t)
  BY <1>2, BlockBatch
<1> HIDE DEF t
<1>5. ASSUME NEW r \in Claimed(t)
      PROVE  /\ r \in Resources
             /\ \/ r[1] \in {"ioth", "vblk", "scsi-hd", "drive", "scsi"} /\ r[2] = k
                \/ r = VirtioAt(k) /\ r[1] = "pci" /\ (k = 0 \/ model = "virtio")
                \/ r[1] = "ahci-port" /\ r[2] = k /\ model = "ide"
                \/ r[1] = "ahci" /\ k = 0
  <2>1. /\ VirtioAt(k) \in Resources /\ VirtioAt(k)[1] = "pci"
    BY <1>2, VirtioAddresses
  <2>2. /\ Drive(k) \in Resources /\ <<"ioth", k>> \in Resources /\ <<"vblk", k>> \in Resources
        /\ <<"scsi-hd", k>> \in Resources /\ <<"scsi", k>> \in Resources
        /\ <<"ahci-port", k>> \in Resources /\ Id("ahci") \in Resources
    BY <1>2, NamesAreNotNil DEF Kinds, Drive, Id
  <2>3. Drive(k)[1] = "drive" /\ Drive(k)[2] = k /\ Id("ahci")[1] = "ahci"
    BY DEF Drive, Id
  <2>4. \/ r = Drive(k)
        \/ r \in {<<"ioth", k>>, <<"vblk", k>>, <<"scsi-hd", k>>, <<"scsi", k>>}
        \/ r = VirtioAt(k) /\ model = "virtio"
        \/ r = <<"ahci-port", k>> /\ model = "ide"
        \/ k = 0 /\ r = Id("ahci")
        \/ k = 0 /\ r = VirtioAt(0)
    BY <1>4, <1>5 DEF BlockClaims, Models
  <2> QED
    BY <2>1, <2>2, <2>3, <2>4
<1>6. Claimed(cmd) \intersect Claimed(t) = {}
  <2>1. ASSUME NEW r \in Claimed(cmd), r \in Claimed(t) PROVE FALSE
    <3>1. Allowed(r)
      BY DEF LineInv, ClaimInv
    <3>2. CASE r[1] \in {"ioth", "vblk", "scsi-hd", "drive", "scsi"} /\ r[2] = k
      <4>1. r[2] < Len(disks)
        BY <3>1, <3>2 DEF Allowed
      <4> QED
        BY <4>1, <3>2, <1>2
    <3>3. CASE r = VirtioAt(k) /\ r[1] = "pci"
      <4>1. PICK j \in DOMAIN disks : r = VirtioAt(j - 1)
        BY <3>1, <3>3 DEF Allowed
      <4>2. j - 1 \in Nat /\ j - 1 # k
        BY <1>2
      <4> QED
        BY <4>1, <4>2, <3>3, <1>2, VirtioAddresses
    <3>4. CASE r[1] = "ahci-port" /\ r[2] = k
      <4>1. PICK j \in DOMAIN disks : r[2] = j - 1
        BY <3>1, <3>4 DEF Allowed
      <4> QED
        BY <4>1, <3>4, <1>2
    <3>5. CASE r[1] = "ahci" /\ k = 0
      <4>1. disks # <<>>
        BY <3>1, <3>5 DEF Allowed
      <4> QED
        BY <4>1, <3>5, <1>2
    <3> QED
      BY <2>1, <1>5, <3>2, <3>3, <3>4, <3>5
  <2> QED
    BY <2>1
<1>7. /\ Batch(cmd') /\ cmd' \in Seq(Arguments) /\ OnLine' = OnLine \union ToSet(t)
      /\ Claimed(cmd') = Claimed(cmd) \union Claimed(t)
      /\ Named(cmd') = Named(cmd) \union Named(t)
      /\ \A free : Ordered(cmd, free) /\ Ordered(t, free \union Named(cmd)) => Ordered(cmd', free)
  BY <1>1, <1>4, <1>6, LineGrows
<1>8. LineTypeOK' /\ PlansInv' /\ UNCHANGED <<features, mounts, devices, plans>>
  <2>1. /\ pci' \in Seq(BOOLEAN)
        /\ mounted' \in 0..Len(mounts) /\ connected' \in 0..Len(plans)
    BY <1>1 DEF LineInv, LineTypeOK
  <2> QED
    BY <1>1, <1>3, <1>7, <2>1, SameTemplate DEF Building
<1>9. MemoryInv'
  BY <1>1, <1>4, <1>6, <1>8, PlainLine DEF Building
<1>10. BusInv'
  <2>1. Id("scsi0") \in Named(cmd) /\ Ordered(cmd, Buses)
    BY <1>1 DEF LineInv, BusInv, Building
  <2>2. Buses \subseteq Buses' /\ {Nil, Pcie0} \subseteq Buses'
    <3>1. disks # <<>> => disks'[1] = disks[1]
      BY <1>2, <1>3
    <3>2. \A i \in DOMAIN disks : i \in DOMAIN disks' /\ disks'[i] = disks[i]
      BY <1>2, <1>3
    <3>3. "ide" \in ToSet(disks) => "ide" \in ToSet(disks') /\ disks # <<>>
      BY <3>2 DEF ToSet
    <3> QED
      BY <3>1, <3>3 DEF Buses
  <2>3. model = "ide" /\ k # 0 => Id("ahci") \in Buses' \union Named(cmd)
    <3>1. k # 0 => disks # <<>> /\ disks'[1] = disks[1]
      BY <1>2, <1>3
    <3>2. k + 1 \in DOMAIN disks' /\ disks'[k + 1] = model
      BY <1>2, <1>3
    <3>3. model = "ide" => "ide" \in ToSet(disks')
      BY <3>2 DEF ToSet
    <3> QED
      BY <3>1, <3>3 DEF LineInv, BusInv, Buses
  <2>4. Ordered(cmd, Buses')
    BY <2>1, <2>2, OrderedMonotonic
  <2>5. Ordered(t, Buses' \union Named(cmd))
    BY <2>1, <2>2, <2>3, <1>4
  <2>6. Ordered(cmd', Buses')
    BY <2>4, <2>5, <1>7
  <2>7. disks'[1] = "ide" => Id("ahci") \in Named(cmd')
    <3>1. CASE k = 0
      BY <3>1, <1>3, <1>4, <1>7
    <3>2. CASE k # 0
      <4>1. disks # <<>> /\ disks'[1] = disks[1]
        BY <3>2, <1>2, <1>3
      <4> QED
        BY <4>1, <1>7 DEF LineInv, BusInv
    <3> QED
      BY <3>1, <3>2
  <2> QED
    BY <2>1, <2>6, <2>7, <1>7 DEF BusInv
<1>11. StageInv'
  BY <1>1, <1>8 DEF LineInv, StageInv, Building
<1>12. ClaimInv'
  <2>1. Connected' = Connected
    BY <1>1, <1>8 DEF Connected
  <2>2. ASSUME NEW r \in Claimed(cmd) PROVE r \in Resources /\ Allowed(r)'
    <3>1. r \in Resources /\ Allowed(r) /\ r[2] \in Nat
      BY DEF LineInv, ClaimInv, Resources
    <3>2. r[2] < Len(disks) => r[2] < Len(disks')
      BY <3>1, <1>2, <1>3
    <3>3. \A i \in DOMAIN disks : i \in DOMAIN disks' /\ disks'[i] = disks[i]
      BY <1>2, <1>3
    <3> QED
      BY <1>1, <1>3, <1>8, <2>1, <3>1, <3>2, <3>3 DEF Allowed
  <2>3. ASSUME NEW r \in Claimed(t) PROVE r \in Resources /\ Allowed(r)'
    <3>1. k < Len(disks') /\ k + 1 \in DOMAIN disks' /\ (k + 1) - 1 = k /\ (k = 0 => k + 1 = 1)
      BY <1>2, <1>3
    <3>2. CASE r[1] \in {"ioth", "vblk", "scsi-hd", "drive", "scsi"} /\ r[2] = k
      BY <3>1, <3>2, <1>5 DEF Allowed, PlanKinds, Emulated
    <3>3. CASE r = VirtioAt(k) /\ r[1] = "pci" /\ (k = 0 \/ model = "virtio")
      <4>1. \E j \in DOMAIN disks' : r = VirtioAt(j - 1) /\ (j = 1 \/ disks'[j] = "virtio")
        BY <3>1, <3>3, <1>3
      <4> QED
        BY <4>1, <3>3, <1>5 DEF Allowed, PlanKinds, Emulated
    <3>4. CASE r[1] = "ahci-port" /\ r[2] = k /\ model = "ide"
      <4>1. \E j \in DOMAIN disks' : r[2] = j - 1 /\ disks'[j] = "ide"
        BY <3>1, <3>4, <1>3
      <4> QED
        BY <4>1, <3>4, <1>5 DEF Allowed, PlanKinds, Emulated
    <3>5. CASE r[1] = "ahci" /\ k = 0
      BY <3>5, <1>3, <1>5 DEF Allowed, PlanKinds, Emulated
    <3> QED
      BY <1>5, <3>2, <3>3, <3>4, <3>5
  <2> QED
    BY <2>2, <2>3, <1>7 DEF ClaimInv
<1>13. PresentInv'
  <2>1. ASSUME NEW j \in DOMAIN disks', disks'[j] = "virtio"
        PROVE  \E a \in OnLine' : a.at = VirtioAt(j - 1)
    <3>1. CASE j = k + 1
      <4>1. j - 1 = k /\ model = "virtio"
        BY <2>1, <3>1, <1>2, <1>3
      <4> QED
        BY <4>1, <1>4, <1>7
    <3>2. CASE j # k + 1
      <4>1. j \in DOMAIN disks /\ disks[j] = "virtio"
        BY <2>1, <3>2, <1>2, <1>3
      <4> QED
        BY <4>1, <1>7 DEF LineInv, PresentInv
    <3> QED
      BY <3>1, <3>2
  <2> QED
    BY <2>1, <1>1, <1>7, <1>8 DEF LineInv, PresentInv
<1> QED
  BY <1>7, <1>8, <1>9, <1>10, <1>11, <1>12, <1>13 DEF LineInv

(* build_qemu_cmdline: the machine.                                        *)
LEMMA MachineKeeps == LineInv /\ Machine => LineInv'
<1> SUFFICES ASSUME LineInv, Machine PROVE LineInv'
  OBVIOUS
<1> DEFINE t == MachineArgs
<1>1. /\ stage = "machine" /\ stage' = "disks" /\ cmd' = cmd \o t /\ UNCHANGED template
      /\ UNCHANGED <<disks, mounted, connected, pci>>
  BY DEF Machine, Adds, MachineArgs, MachineArg, progress
<1>2. Opening(t, {Id("vmocs.ram"), Id("scsi0")}) /\ Id("scsi0") \in Named(t)
  BY MachineBatch
<1> HIDE DEF t
<1>3. cmd = <<>> /\ disks = <<>> /\ connected = 0 /\ mounted = 0
  BY <1>1 DEF LineInv, StageInv, Building
<1>4. OnLine = {} /\ Claimed(cmd) = {} /\ \A free : Ordered(cmd, free)
  BY <1>3, NoArgument DEF OnLine
<1>5. /\ Batch(cmd') /\ cmd' \in Seq(Arguments) /\ OnLine' = ToSet(t)
      /\ Claimed(cmd') = Claimed(t) /\ Named(t) \subseteq Named(cmd')
      /\ \A free : Ordered(t, free \union Named(cmd)) => Ordered(cmd', free)
  <2>1. Batch(t)
    BY <1>2 DEF Opening
  <2>2. /\ Batch(cmd') /\ cmd' \in Seq(Arguments) /\ OnLine' = OnLine \union ToSet(t)
        /\ Claimed(cmd') = Claimed(cmd) \union Claimed(t)
        /\ Named(cmd') = Named(cmd) \union Named(t)
        /\ \A free : Ordered(cmd, free) /\ Ordered(t, free \union Named(cmd)) => Ordered(cmd', free)
    BY <1>1, <1>4, <2>1, LineGrows
  <2> QED
    BY <2>2, <1>4
<1>6. LineTypeOK' /\ PlansInv' /\ UNCHANGED <<features, mounts, devices, plans>>
  BY <1>1, <1>5, SameTemplate DEF LineInv, LineTypeOK, Building
<1>7. StageInv'
  BY <1>1, <1>6 DEF LineInv, StageInv, Building
<1>8. BusInv'
  <2>1. {Nil, Pcie0} \subseteq Buses' \union Named(cmd)
    BY DEF Buses
  <2>2. Ordered(cmd', Buses')
    BY <2>1, <1>2, <1>5 DEF Opening
  <2> QED
    BY <2>2, <1>1, <1>2, <1>3, <1>5 DEF BusInv
<1>9. ClaimInv'
  <2> SUFFICES ASSUME NEW r \in Claimed(t) PROVE r \in Resources /\ Allowed(r)'
    BY <1>5 DEF ClaimInv
  <2>1. r \in {Id("vmocs.ram"), Id("scsi0")}
    BY <1>2 DEF Opening
  <2>2. r \in Resources /\ r[1] \in {"vmocs.ram", "scsi0"}
    BY <2>1, NamesAreNotNil DEF Kinds, Id
  <2> QED
    BY <2>2 DEF Allowed, PlanKinds, Emulated
<1>10. PresentInv'
  BY <1>1, <1>3 DEF PresentInv
<1>11. MemoryInv'
  <2>1. SharedMemory' <=> SharedMemory
    BY <1>6 DEF SharedMemory
  <2> QED
    BY <2>1, <1>2, <1>5 DEF Opening, MemoryInv
<1> QED
  BY <1>5, <1>6, <1>7, <1>8, <1>9, <1>10, <1>11 DEF LineInv

(* build_qemu_cmdline: the custom arguments and -no-shutdown.              *)
LEMMA FinishKeeps ==
  ASSUME LineInv, NEW opt \in {"none", "-no-shutdown", "-device", "-custom"},
         NEW supervised \in BOOLEAN, Finish(opt, supervised)
  PROVE  LineInv'
<1> DEFINE s == Custom(opt)
           q == If(supervised, <<Flag("-no-shutdown")>>)
           t == s \o q
<1>1. /\ stage = "pci" /\ stage' = "done" /\ cmd' = cmd \o t /\ UNCHANGED template
      /\ UNCHANGED <<disks, mounted, connected, pci>>
  BY DEF Finish, Adds, progress
<1>2. /\ Batch(s) /\ Plain(s) /\ Claimed(s) = {}
      /\ \A free : {Nil, Pcie0} \subseteq free => Ordered(s, free)
  <2>1. CASE opt = "-custom"
    <3>1. s = <<Flag("-custom")>>
      BY <2>1 DEF Custom
    <3> QED
      BY <3>1, FlagBatch DEF Options, Plain
  <2>2. CASE opt = "-device"
    <3>1. s = <<Device({})>>
      BY <2>2 DEF Custom
    <3> QED
      BY <3>1, DirectBatch
  <2>3. CASE opt \in {"none", "-no-shutdown"}
    <3>1. s = <<>>
      BY <2>3 DEF Custom
    <3> QED
      BY <3>1, NoneBatch, NoArgument
  <2> QED
    BY <2>1, <2>2, <2>3
<1>3. /\ Batch(q) /\ Plain(q) /\ Claimed(q) = {}
      /\ \A free : Nil \in free => Ordered(q, free)
  <2> DEFINE f == <<Flag("-no-shutdown")>>
  <2>1. /\ Batch(f) /\ Plain(f) /\ Claimed(f) = {} /\ \A free : Nil \in free => Ordered(f, free)
    BY FlagBatch DEF Options, Plain
  <2> HIDE DEF f
  <2> QED
    BY <2>1, IfBatch DEF f
<1> HIDE DEF s, q
<1>4. s \in Seq(Arguments) /\ q \in Seq(Arguments)
  BY <1>2, <1>3 DEF Batch
<1>5. Batch(t) /\ Plain(t) /\ Claimed(t) = {}
  <2>1. Claimed(s) \intersect Claimed(q) = {}
    BY <1>2
  <2>2. Batch(t)
    BY <1>2, <1>3, <2>1, BatchesConcatenate
  <2>3. Claimed(t) = Claimed(s) \union Claimed(q) /\ ToSet(t) = ToSet(s) \union ToSet(q)
    BY <1>4, Concatenation
  <2> QED
    BY <2>2, <2>3, <1>2, <1>3 DEF Plain
<1>6. ASSUME NEW free, {Nil, Pcie0, Id("scsi0")} \subseteq free PROVE Ordered(t, free)
  <2>1. Ordered(s, free) /\ Ordered(q, free \union Named(s))
    BY <1>6, <1>2, <1>3
  <2> QED
    BY <2>1, <1>4, Concatenation
<1> HIDE DEF t
<1>7. Claimed(cmd) \intersect Claimed(t) = {}
  BY <1>5
<1>8. /\ Batch(cmd') /\ cmd' \in Seq(Arguments) /\ OnLine' = OnLine \union ToSet(t)
      /\ Claimed(cmd') = Claimed(cmd) \union Claimed(t)
  BY <1>1, <1>5, <1>7, LineGrows
<1>9. LineTypeOK' /\ PlansInv' /\ UNCHANGED <<features, mounts, devices, plans>>
  <2>1. /\ disks' \in Seq(Models) /\ pci' \in Seq(BOOLEAN)
        /\ mounted' \in 0..Len(mounts) /\ connected' \in 0..Len(plans)
    BY <1>1 DEF LineInv, LineTypeOK
  <2> QED
    BY <1>1, <1>8, <2>1, SameTemplate DEF Building
<1>10. BusInv' /\ MemoryInv'
  BY <1>1, <1>5, <1>6, <1>7, <1>9, PlainStep DEF Building
<1>11. StageInv'
  BY <1>1, <1>9 DEF LineInv, StageInv, Building
<1>12. ClaimInv'
  <2>1. Connected' = Connected
    BY <1>1, <1>9 DEF Connected
  <2>2. ASSUME NEW r \in Claimed(cmd) PROVE r \in Resources /\ Allowed(r)'
    BY <1>1, <1>9, <2>1 DEF LineInv, ClaimInv, Allowed
  <2> QED
    BY <2>2, <1>5, <1>8 DEF ClaimInv
<1>13. PresentInv'
  BY <1>1, <1>8, <1>9 DEF LineInv, PresentInv
<1> QED
  BY <1>8, <1>9, <1>10, <1>11, <1>12, <1>13 DEF LineInv

-----------------------------------------------------------------------------
(* Every step keeps the invariant.                                         *)
LEMMA LineNextKeeps == LineInv /\ [LineNext]_lineVars => LineInv'
<1> SUFFICES ASSUME LineInv, [LineNext]_lineVars PROVE LineInv'
  OBVIOUS
<1>1. CASE Refuse
  BY <1>1, FailKeeps DEF Refuse
<1>2. CASE PlanTpm
  BY <1>2, PlanTpmKeeps
<1>3. CASE EndMounts \/ PreflightQemu
  BY <1>3, EndMountsKeeps
<1>4. CASE Machine
  BY <1>4, MachineKeeps
<1>5. CASE \E type \in {"virtio-9p", "virtio-fs", "unknown"}, ro \in BOOLEAN : PlanMount(type, ro)
  BY <1>5, PlanMountKeeps
<1>6. CASE \E type \in Emulated : PlanDevice(type)
  BY <1>6, PlanDeviceKeeps
<1>7. CASE \E model \in Models : Disk(model)
  BY <1>7, DiskKeeps
<1>8. CASE \E iso \in BOOLEAN : CloudInit(iso)
  BY <1>8, CloudInitKeeps
<1>9. CASE Network
  BY <1>9, NetworkKeeps
<1>10. CASE Mount
  BY <1>10, MountKeeps
<1>11. CASE Connect
  BY <1>11, ConnectKeeps
<1>12. CASE Console
  BY <1>12, ConsoleKeeps
<1>13. CASE \E rootPort \in BOOLEAN : PassThrough(rootPort)
  BY <1>13, PassThroughKeeps
<1>14. CASE \E opt \in {"none", "-no-shutdown", "-device", "-custom"}, supervised \in BOOLEAN :
               Finish(opt, supervised)
  BY <1>14, FinishKeeps
<1>15. CASE UNCHANGED lineVars
  <2>1. /\ UNCHANGED <<stage, features, mounts, devices, plans, disks, mounted, connected>>
        /\ UNCHANGED <<pci, cmd>>
    BY <1>15 DEF lineVars, template, progress
  <2>2. LineTypeOK'
    BY <2>1 DEF LineInv, LineTypeOK
  <2>3. StageInv' /\ PlansInv'
    BY <2>1 DEF LineInv, StageInv, PlansInv
  <2>4. Batch(cmd') /\ BusInv' /\ PresentInv'
    BY <2>1 DEF LineInv, BusInv, Buses, PresentInv, OnLine
  <2>5. ClaimInv'
    BY <2>1 DEF LineInv, ClaimInv, Allowed, Connected
  <2>6. MemoryInv'
    BY <2>1 DEF LineInv, MemoryInv, OnLine, SharedMemory
  <2> QED
    BY <2>2, <2>3, <2>4, <2>5, <2>6 DEF LineInv
<1> QED
  BY <1>1, <1>2, <1>3, <1>4, <1>5, <1>6, <1>7, <1>8, <1>9, <1>10, <1>11, <1>12, <1>13, <1>14,
     <1>15 DEF LineNext

(* The inductive invariant holds in every state of every run.              *)
LEMMA LineInvariant == LineSpec => []LineInv
BY LineStarts, LineNextKeeps, PTL DEF LineSpec

-----------------------------------------------------------------------------
(* What a whole line is, from the invariant.  An argument of the line      *)
(* claims what the line claims.                                            *)
LEMMA ClaimsOfLine ==
  ASSUME LineInv, NEW i \in DOMAIN cmd
  PROVE  /\ cmd[i] \in Arguments /\ cmd[i] \in OnLine /\ Claims(cmd[i]) \subseteq Claimed(cmd)
<1>1. cmd \in Seq(Arguments)
  BY DEF LineInv, LineTypeOK
<1> QED
  BY <1>1 DEF OnLine, ToSet, Claimed

(* Each generator claims only numbers that it has counted to.              *)
LEMMA InvNothingTwice == LineInv => NothingTwice
<1> SUFFICES ASSUME LineInv, NEW i \in DOMAIN plans, NEW j \in DOMAIN plans, i # j
             PROVE  plans[i].name # plans[j].name /\ plans[i].socket # plans[j].socket
  BY DEF NothingTwice, LineInv, Batch, Apart
<1>1. /\ Planned(plans[i], mounts, devices) /\ Planned(plans[j], mounts, devices)
      /\ plans[i].name # plans[j].name
  BY DEF LineInv, PlansInv
<1>2. mounts \in Seq({"virtio-9p", "virtio-fs", "unknown"}) /\ devices \in Seq(Emulated)
  BY DEF LineInv, LineTypeOK
<1> QED
  BY <1>1, <1>2, PlansApart

(* A PCI address on the line is that of a virtio disk or of the primary    *)
(* disk's controller.                                                      *)
LEMMA InvDisksVisible == LineInv => DisksVisible
<1> SUFFICES ASSUME LineInv, Uniform, NEW a \in OnLine, a.at # Nil, a.at[1] = "pci"
             PROVE  \E b \in OnLine : b.at = <<"pci", 8 * (a.at[2] \div 8)>>
  BY DEF DisksVisible, Visible
<1>1. a.at \in Claimed(cmd)
  <2>1. a.at # AutoSlot
    BY AutoIsApart
  <2> QED
    BY <2>1 DEF Claims, Claimed, OnLine
<1>2. PICK j \in DOMAIN disks : a.at = VirtioAt(j - 1) /\ (j = 1 \/ disks[j] = "virtio")
  BY <1>1 DEF LineInv, ClaimInv, Allowed
<1>3. disks \in Seq(Models) /\ j \in Nat \ {0}
  BY DEF LineInv, LineTypeOK
<1>4. CASE j = 1
  <2>1. a.at = <<"pci", 48>>
    BY <1>2, <1>4, VirtioAddresses
  <2>2. 8 * (a.at[2] \div 8) = 48
    BY <2>1
  <2> QED
    BY <2>1, <2>2
<1>5. CASE j # 1
  <2>1. j - 1 \in Nat \ {0}
    BY <1>3, <1>5
  <2>2. PICK l \in 0..(j - 1) : VirtioAt(l) = <<"pci", 8 * (VirtioAt(j - 1)[2] \div 8)>>
    BY <2>1, VirtioAddresses
  <2>3. l + 1 \in DOMAIN disks /\ (l + 1) - 1 = l /\ 1 \in DOMAIN disks
    BY <1>3, <2>1
  <2>4. disks[l + 1] = "virtio"
    BY <1>2, <1>5, <2>3 DEF Uniform
  <2>5. \E b \in OnLine : b.at = VirtioAt((l + 1) - 1)
    BY <2>3, <2>4 DEF LineInv, PresentInv
  <2> QED
    BY <1>2, <2>2, <2>3, <2>5
<1> QED
  BY <1>4, <1>5

(* A line in one piece refers to nothing outside of it.                    *)
LEMMA InvRefersToNothingMissing == LineInv => RefersToNothingMissing
<1> SUFFICES ASSUME LineInv, Sane, NEW i \in DOMAIN cmd
             PROVE  /\ cmd[i].uses \ Tags(cmd[i]) \subseteq Ids
                    /\ cmd[i].bus \in {Nil, Pcie0} \union {cmd[j].id : j \in 1..(i - 1)}
                    /\ cmd[i].at # Nil /\ cmd[i].at[1] = "ahci-port" => cmd[i].at[2] \in 0..5
  BY DEF RefersToNothingMissing
<1>1. cmd[i] \in Arguments /\ cmd[i] \in OnLine /\ Claims(cmd[i]) \subseteq Claimed(cmd)
  BY ClaimsOfLine
<1>2. cmd[i].uses \ Tags(cmd[i]) \subseteq Ids
  <2>1. cmd[i].uses \ Tags(cmd[i]) \subseteq Named(cmd)
    BY <1>1 DEF LineInv, Batch, SelfContained, OnLine
  <2>2. \A u \in cmd[i].uses : u # Nil
    BY <1>1, NilAssumption DEF Arguments
  <2> QED
    BY <2>1, <2>2 DEF Named, Ids, OnLine
<1>3. cmd[i].bus \in {Nil, Pcie0} \union {cmd[j].id : j \in 1..(i - 1)}
  <2>1. Buses = {Nil, Pcie0}
    BY DEF Buses, Sane
  <2> QED
    BY <2>1 DEF LineInv, BusInv, Ordered
<1>4. ASSUME cmd[i].at # Nil, cmd[i].at[1] = "ahci-port"
      PROVE  cmd[i].at[2] \in 0..5
  <2>1. cmd[i].at \in Claimed(cmd)
    BY <1>1, <1>4, AutoIsApart DEF Claims
  <2>2. PICK j \in DOMAIN disks : cmd[i].at[2] = j - 1 /\ disks[j] = "ide"
    BY <1>4, <2>1 DEF LineInv, ClaimInv, Allowed
  <2>3. Len(disks) <= 6 /\ disks \in Seq(Models)
    BY <2>2 DEF Sane, ToSet, LineInv, LineTypeOK
  <2> QED
    BY <2>2, <2>3
<1> QED
  BY <1>2, <1>3, <1>4

(* The command line of every accepted template is of one piece, whatever   *)
(* lists it holds and however long they are (build_qemu_cmdline).          *)
THEOREM LineIsWholeAlways == LineSpec => []LineIsWhole
<1>1. LineInv => LineIsWhole
  BY InvNothingTwice, InvDisksVisible, InvRefersToNothingMissing DEF LineIsWhole, LineInv
<1> QED
  BY <1>1, LineInvariant, PTL

-----------------------------------------------------------------------------
(* At the end every plan is connected: its arguments are on the line.      *)
LEMMA PlansOnLine ==
  ASSUME LineInv, stage = "done", NEW p \in ToSet(plans)
  PROVE  /\ ToSet(p.args) \subseteq OnLine /\ Claimed(p.args) \subseteq Claimed(cmd)
         /\ p.socket \in Claimed(p.args) /\ ((\E a \in ToSet(p.args) : Served(a)) <=> p.shared)
<1>1. PICK j \in DOMAIN plans : p = plans[j]
  BY DEF ToSet
<1>2. /\ Planned(p, mounts, devices) /\ plans \in Seq(PlanSpace) /\ connected = Len(plans)
      /\ mounts \in Seq({"virtio-9p", "virtio-fs", "unknown"}) /\ devices \in Seq(Emulated)
  BY <1>1 DEF LineInv, PlansInv, LineTypeOK, PlanSpace, StageInv
<1>3. p.socket \in Claimed(p.args) /\ ((\E a \in ToSet(p.args) : Served(a)) <=> p.shared)
  BY <1>2, PlanBatch
<1>4. j \in 1..connected
  BY <1>2
<1>5. ToSet(p.args) \subseteq OnLine
  BY <1>1, <1>4 DEF LineInv, PresentInv
<1> QED
  BY <1>3, <1>5 DEF Claimed, OnLine

(* What is claimed on the line is claimed by one argument only.            *)
LEMMA ClaimedOnce ==
  ASSUME LineInv, NEW r \in Claimed(cmd)
  PROVE  \E i \in DOMAIN cmd : ServedOnce(r, i)
<1>1. PICK i \in DOMAIN cmd : r \in Claims(cmd[i])
  BY DEF Claimed, ToSet
<1>2. \A j \in DOMAIN cmd : r \in Claims(cmd[j]) => j = i
  BY <1>1 DEF LineInv, Batch, Apart
<1> QED
  BY <1>1, <1>2 DEF ServedOnce

(* The machine and the plans agree on the memory.                          *)
LEMMA InvMemoryIsShared == LineInv => MemoryIsShared
<1> SUFFICES ASSUME LineInv, stage = "done"
             PROVE  (\E a \in OnLine : Served(a)) <=> HasRam(OnLine)
  BY DEF MemoryIsShared, HasRam
<1>1. HasRam(OnLine) <=> SharedMemory
  BY DEF LineInv, MemoryInv, Building
<1>2. ASSUME NEW a \in OnLine, Served(a) PROVE SharedMemory
  <2>1. PICK j \in 1..connected : plans[j].shared
    BY <1>2 DEF LineInv, MemoryInv
  <2>2. j \in DOMAIN plans
    BY DEF LineInv, LineTypeOK
  <2> QED
    BY <2>1, <2>2 DEF SharedMemory, ToSet
<1>3. ASSUME SharedMemory PROVE \E a \in OnLine : Served(a)
  <2>1. PICK p \in ToSet(plans) : p.shared
    BY <1>3 DEF SharedMemory
  <2> QED
    BY <2>1, PlansOnLine
<1> QED
  BY <1>1, <1>2, <1>3

(* Each mount is served, by a 9p device or by its plan.                    *)
LEMMA InvMountsServedOnce == LineInv => MountsServedOnce
<1> SUFFICES ASSUME LineInv, stage = "done", NEW m \in 0..(Len(mounts) - 1)
             PROVE  \E i \in DOMAIN cmd : ServedOnce(<<"tag", m>>, i)
  BY DEF MountsServedOnce
<1>1. mounted = Len(mounts) /\ m \in Nat
  BY DEF LineInv, StageInv
<1>2. <<"tag", m>> \in Claimed(cmd)
  <2>1. CASE mounts[m + 1] # "virtio-fs"
    BY <1>1, <2>1 DEF LineInv, PresentInv
  <2>2. CASE mounts[m + 1] = "virtio-fs"
    <3>1. PICK i \in DOMAIN plans : plans[i] = VirtioFs(m)
      BY <2>2 DEF LineInv, PlansInv
    <3>2. plans[i] \in ToSet(plans)
      BY DEF ToSet
    <3>3. <<"tag", m>> \in Claimed(plans[i].args)
      BY <1>1, <3>1, VirtioFsBatch
    <3> QED
      BY <3>2, <3>3, PlansOnLine
  <2> QED
    BY <2>1, <2>2
<1> QED
  BY <1>2, ClaimedOnce

(* Each sidecar has an argument that connects to it.                       *)
LEMMA InvSidecarsConnected == LineInv => SidecarsConnected
<1> SUFFICES ASSUME LineInv, stage = "done", NEW p \in ToSet(plans)
             PROVE  \E i \in DOMAIN cmd : ServedOnce(p.socket, i)
  BY DEF SidecarsConnected
<1>1. p.socket \in Claimed(cmd)
  BY PlansOnLine
<1> QED
  BY <1>1, ClaimedOnce

(* plan_sidecars and build_qemu_cmdline agree on every template: memory is *)
(* shared exactly when a sidecar needs it, every mount is served by one    *)
(* device and every sidecar's socket is used once.                         *)
THEOREM SidecarsServeAlways == LineSpec => []SidecarsServe
<1>1. LineInv => SidecarsServe
  BY InvMemoryIsShared, InvMountsServedOnce, InvSidecarsConnected DEF SidecarsServe
<1> QED
  BY <1>1, LineInvariant, PTL
=============================================================================
