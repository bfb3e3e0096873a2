--------------------------- MODULE SidecarsProofs ----------------------------
(***************************************************************************)
(* Proofs about the SidecarManager, for any number of sidecars, with        *)
(* helpers, crashes, reboots and a `vmocs stop' beside it: what start_all   *)
(* returns with, and that stop_all reaches every sidecar and nobody else.   *)
(*                                                                         *)
(* The argument: a number is given away only after its owner was collected  *)
(* (Occupied); while the manager lives only the manager collects, and it    *)
(* drops from `live' what it collects (Uncollected).  So the numbers that   *)
(* stop_all signals are still the sidecars'.  Place says where the loops    *)
(* stand, Unstarted that the handles are the started sidecars, Fresh and    *)
(* Reached what the loops have done so far.                                *)
(***************************************************************************)
EXTENDS Sidecars, TLAPS

\* Where the loops stand.
Place ==
  /\ pc = "preflight" => handles = 0
  /\ pc \in {"preflight", "start"} => idx = handles + 1 /\ idx <= N
  /\ pc = "ready" => idx \in 1..N /\ handles = N
  /\ pc = "refused" => handles = 0
  /\ pc \in {"term", "kill"} => idx \in 0..handles
  /\ pc = "wait" => idx \in 1..handles + 1

\* A sidecar without a handle was not started.
Unstarted == \A s \in Sidecar : s > handles => leader[s] = "none"

\* A number is given away only after its owner is collected.
Occupied == \A s \in Sidecar : reused[s] => leader[s] = "gone"

\* What stop_all is about to signal is not collected.
Uncollected ==
  pc \in {"term", "await", "kill"} => \A s \in live : leader[s] # "gone"

\* The sockets of the sidecars started so far are not left-overs.
Fresh ==
  /\ pc = "start" => \A s \in Sidecar : s < idx => socket[s] # "stale"
  /\ pc \in {"ready", "up"} => \A s \in Sidecar : socket[s] # "stale"

\* What still runs is on stop_all's list, and past SIGKILL nothing runs.
Reached ==
  /\ pc \in {"term", "await", "kill"} =>
       \A s \in Sidecar : leader[s] = "live" => s \in live
  /\ pc = "kill" => \A s \in Sidecar : leader[s] = "live" => s <= idx
  /\ pc \in {"wait", "stopped"} => \A s \in Sidecar : leader[s] # "live"

\* `vmocs stop' has verified nothing before it verifies.
Unverified == spc \in {"idle", "verify"} => verified = {}

\* The inductive invariant.
IInv ==
  /\ TypeOK /\ Place /\ Unstarted /\ Occupied /\ Uncollected /\ Fresh /\ Reached
  /\ Unverified

\* The initial states satisfy it.
LEMMA InitIInv == Init => IInv
<1> SUFFICES ASSUME Init PROVE IInv
  OBVIOUS
<1> USE SidecarsAssumption DEF Init, Sidecar
<1>1. TypeOK
  <2>1. helper \in [Sidecar -> BOOLEAN] /\ reused \in [Sidecar -> BOOLEAN]
        /\ twin \in [Sidecar -> BOOLEAN] /\ allReady \in BOOLEAN /\ saved \in BOOLEAN
    OBVIOUS
  <2>2. leader \in [Sidecar -> Present \cup {"none", "gone"}]
    BY DEF Present
  <2>3. socket \in [Sidecar -> {"absent", "stale", "fresh"}]
    OBVIOUS
  <2> HIDE DEF Sidecar
  <2> QED
    BY <2>1, <2>2, <2>3 DEF TypeOK
<1>2. Place /\ Unstarted /\ Occupied /\ Uncollected /\ Fresh /\ Reached /\ Unverified
  BY DEF Place, Unstarted, Occupied, Uncollected, Fresh, Reached, Unverified
<1> QED
  BY <1>1, <1>2 DEF IInv

\* The processes keep it.
LEMMA ProcessStep ==
  ASSUME IInv, NEW s \in Sidecar, Listen(s) \/ SpawnHelper(s) \/ HelperExits(s) \/ Exit(s) \/ Reuse(s)
  PROVE  IInv'
<1> USE SidecarsAssumption DEF IInv, Sidecar, osVars, mgrVars, stopVars
<1>1. CASE Listen(s)
  BY <1>1 DEF Listen, TypeOK, Place, Unstarted, Occupied, Uncollected,
     Fresh, Reached, Unverified, Present
<1>2. CASE SpawnHelper(s)
  BY <1>2 DEF SpawnHelper, TypeOK, Place, Unstarted, Occupied, Uncollected,
     Fresh, Reached, Unverified, Present
<1>3. CASE HelperExits(s)
  BY <1>3 DEF HelperExits, TypeOK, Place, Unstarted, Occupied, Uncollected,
     Fresh, Reached, Unverified, Present
<1>4. CASE Exit(s)
  <2> USE <1>4 DEF Exit
  <2>1. TypeOK'
    BY DEF TypeOK, Present
  <2>2. Place' /\ Unstarted'
    BY DEF TypeOK, Place, Unstarted, Present
  <2>3. Occupied' /\ Uncollected'
    BY DEF TypeOK, Place, Unstarted, Occupied, Uncollected, Present
  <2>4. Fresh' /\ Unverified'
    BY DEF TypeOK, Place, Fresh, Unverified
  <2>5. Reached'
    BY DEF TypeOK, Place, Unstarted, Reached, Present
  <2> QED
    BY <2>1, <2>2, <2>3, <2>4, <2>5
<1>5. CASE Reuse(s)
  <2> USE <1>5 DEF Reuse
  <2>1. TypeOK'
    BY DEF TypeOK, Present
  <2>2. Place' /\ Unstarted'
    BY DEF TypeOK, Place, Unstarted, Present
  <2>3. Occupied' /\ Uncollected'
    BY DEF TypeOK, Place, Unstarted, Occupied, Uncollected, Present
  <2>4. Fresh' /\ Unverified'
    BY DEF TypeOK, Place, Fresh, Unverified
  <2>5. Reached'
    BY DEF TypeOK, Place, Unstarted, Reached, Present
  <2> QED
    BY <2>1, <2>2, <2>3, <2>4, <2>5
<1> QED
  BY <1>1, <1>2, <1>3, <1>4, <1>5

\* So do a crash of the launching process and of the host.
LEMMA HostStep ==
  ASSUME IInv, Crash \/ Reboot
  PROVE  IInv'
<1> USE SidecarsAssumption DEF IInv, Sidecar, osVars, mgrVars, stopVars
<1>1. CASE Crash
  <2> USE <1>1 DEF Crash
  <2>1. TypeOK'
    BY DEF TypeOK, Present
  <2>2. Place' /\ Unstarted'
    BY DEF TypeOK, Place, Unstarted, Present
  <2>3. Occupied' /\ Uncollected'
    BY DEF TypeOK, Place, Unstarted, Occupied, Uncollected, Present
  <2>4. Fresh' /\ Unverified'
    BY DEF TypeOK, Place, Fresh, Unverified
  <2>5. Reached'
    BY DEF TypeOK, Place, Unstarted, Reached, Present
  <2> QED
    BY <2>1, <2>2, <2>3, <2>4, <2>5
<1>2. CASE Reboot
  <2> USE <1>2 DEF Reboot
  <2>1. TypeOK'
    BY DEF TypeOK, Present
  <2>2. Place' /\ Unstarted'
    BY DEF TypeOK, Place, Unstarted, Present
  <2>3. Occupied' /\ Uncollected'
    BY DEF TypeOK, Place, Unstarted, Occupied, Uncollected, Present
  <2>4. Fresh' /\ Unverified'
    BY DEF TypeOK, Place, Fresh, Unverified
  <2>5. Reached'
    BY DEF TypeOK, Place, Unstarted, Reached, Present
  <2> QED
    BY <2>1, <2>2, <2>3, <2>4, <2>5
<1> QED
  BY <1>1, <1>2

\* start_all and the supervision keep it.
LEMMA StartStep ==
  ASSUME IInv, Preflight \/ Start \/ StartFails \/ SweepOne \/ Record \/ Failure \/ Over
  PROVE  IInv'
<1> USE SidecarsAssumption DEF IInv, Sidecar, osVars, mgrVars, stopVars
<1>1. CASE Preflight
  BY <1>1 DEF Preflight, TypeOK, Place, Unstarted, Occupied, Uncollected,
     Fresh, Reached, Unverified, Present
<1>2. CASE Start
  <2> USE <1>2 DEF Start
  <2>1. TypeOK'
    BY DEF TypeOK, Place, Present
  <2>2. Place' /\ Unstarted'
    BY DEF TypeOK, Place, Unstarted, Present
  <2>3. Occupied' /\ Uncollected'
    BY DEF TypeOK, Place, Unstarted, Occupied, Uncollected, Present
  <2>4. Fresh' /\ Unverified'
    BY DEF TypeOK, Place, Fresh, Unverified
  <2>5. Reached'
    BY DEF TypeOK, Place, Unstarted, Reached, Present
  <2> QED
    BY <2>1, <2>2, <2>3, <2>4, <2>5
<1>3. CASE StartFails
  <2> USE <1>3 DEF StartFails
  <2>1. TypeOK'
    BY DEF TypeOK, Present
  <2>2. Place' /\ Unstarted'
    BY DEF TypeOK, Place, Unstarted, Present
  <2>3. Occupied' /\ Uncollected'
    BY DEF TypeOK, Place, Unstarted, Occupied, Uncollected, Present
  <2>4. Fresh' /\ Unverified'
    BY DEF TypeOK, Place, Fresh, Unverified
  <2>5. Reached'
    BY DEF TypeOK, Place, Unstarted, Reached, Present
  <2> QED
    BY <2>1, <2>2, <2>3, <2>4, <2>5
<1>4. CASE SweepOne
  <2> USE <1>4 DEF SweepOne, Polled, StillThere
  <2>1. TypeOK'
    <3>0. idx' \in 0..N + 1
      BY DEF TypeOK, Place
    <3>1. allReady' \in BOOLEAN
      BY Zenon DEF TypeOK
    <3>2. leader' \in [Sidecar -> Present \cup {"none", "gone"}]
      BY DEF TypeOK, Present
    <3>3. pc' \in {"stop", "up", "ready"}
      OBVIOUS
    <3> QED
      BY <3>0, <3>1, <3>2, <3>3 DEF TypeOK
  <2>2. Place' /\ Unstarted'
    BY DEF TypeOK, Place, Unstarted, Present
  <2>3. Occupied' /\ Uncollected'
    BY DEF TypeOK, Place, Unstarted, Occupied, Uncollected, Present
  <2>4. Fresh' /\ Unverified'
    BY DEF TypeOK, Place, Fresh, Unverified
  <2>5. Reached'
    BY DEF TypeOK, Place, Unstarted, Reached, Present
  <2> QED
    BY <2>1, <2>2, <2>3, <2>4, <2>5
<1>5. CASE Record
  BY <1>5 DEF Record, TypeOK, Place, Unstarted, Occupied, Uncollected,
     Fresh, Reached, Unverified, Present
<1>6. CASE Failure
  <2> USE <1>6 DEF Failure, Polled
  <2>1. TypeOK'
    BY DEF TypeOK, Present
  <2>2. Place' /\ Unstarted'
    BY DEF TypeOK, Place, Unstarted, Present
  <2>3. Occupied' /\ Uncollected'
    BY DEF TypeOK, Place, Unstarted, Occupied, Uncollected, Present
  <2>4. Fresh' /\ Unverified'
    BY DEF TypeOK, Place, Fresh, Unverified
  <2>5. Reached'
    BY DEF TypeOK, Place, Unstarted, Reached, Present
  <2> QED
    BY <2>1, <2>2, <2>3, <2>4, <2>5
<1>7. CASE Over
  BY <1>7 DEF Over, TypeOK, Place, Unstarted, Occupied, Uncollected,
     Fresh, Reached, Unverified, Present
<1> QED
  BY <1>1, <1>2, <1>3, <1>4, <1>5, <1>6, <1>7

\* stop_all keeps it.
LEMMA StopStep ==
  ASSUME IInv, StopPoll \/ StopTerm \/ StopTermEnd \/ StopAwait \/ StopAwaitEnd \/ StopKill \/ StopKillEnd \/ StopWait \/ StopEnd
  PROVE  IInv'
<1> USE SidecarsAssumption DEF IInv, Sidecar, osVars, mgrVars, stopVars
<1>1. CASE StopPoll
  <2> USE <1>1 DEF StopPoll, Polled, StillThere
  <2>1. TypeOK'
    BY DEF TypeOK, Present
  <2>2. Place' /\ Unstarted'
    BY DEF TypeOK, Place, Unstarted, Present
  <2>3. Occupied' /\ Uncollected'
    BY DEF TypeOK, Place, Unstarted, Occupied, Uncollected, Present
  <2>4. Fresh' /\ Unverified'
    BY DEF TypeOK, Place, Fresh, Unverified
  <2>5. Reached'
    BY DEF TypeOK, Place, Unstarted, Reached, Present
  <2> QED
    BY <2>1, <2>2, <2>3, <2>4, <2>5
<1>2. CASE StopTerm
  <2> USE <1>2 DEF StopTerm
  <2>1. TypeOK'
    BY DEF TypeOK, Present
  <2>2. Place' /\ Unstarted'
    BY DEF TypeOK, Place, Unstarted, Present
  <2>3. Occupied' /\ Uncollected'
    BY DEF TypeOK, Place, Unstarted, Occupied, Uncollected, Present
  <2>4. Fresh' /\ Unverified'
    BY DEF TypeOK, Place, Fresh, Unverified
  <2>5. Reached'
    BY DEF TypeOK, Place, Unstarted, Reached, Present
  <2> QED
    BY <2>1, <2>2, <2>3, <2>4, <2>5
<1>3. CASE StopTermEnd
  BY <1>3 DEF StopTermEnd, TypeOK, Place, Unstarted, Occupied, Uncollected,
     Fresh, Reached, Unverified, Present
<1>4. CASE StopAwait
  <2> USE <1>4 DEF StopAwait, Polled, StillThere
  <2>1. TypeOK'
    BY DEF TypeOK, Present
  <2>2. Place' /\ Unstarted'
    BY DEF TypeOK, Place, Unstarted, Present
  <2>3. Occupied' /\ Uncollected'
    BY DEF TypeOK, Place, Unstarted, Occupied, Uncollected, Present
  <2>4. Fresh' /\ Unverified'
    BY DEF TypeOK, Place, Fresh, Unverified
  <2>5. Reached'
    BY DEF TypeOK, Place, Unstarted, Reached, Present
  <2> QED
    BY <2>1, <2>2, <2>3, <2>4, <2>5
<1>5. CASE StopAwaitEnd
  BY <1>5 DEF StopAwaitEnd, TypeOK, Place, Unstarted, Occupied, Uncollected,
     Fresh, Reached, Unverified, Present
<1>6. CASE StopKill
  <2> USE <1>6 DEF StopKill, Killed
  <2>1. TypeOK'
    <3>1. idx' \in 0..N + 1
      BY DEF TypeOK
    <3>2. CASE idx \in live
      <4>1. helper' \in [Sidecar -> BOOLEAN]
        BY <3>2 DEF TypeOK
      <4>2. leader' \in [Sidecar -> Present \cup {"none", "gone"}]
        BY <3>2 DEF TypeOK, Present
      <4> QED
        BY <3>1, <3>2, <4>1, <4>2 DEF TypeOK
    <3>3. CASE idx \notin live
      BY <3>1, <3>3 DEF TypeOK
    <3> QED
      BY <3>2, <3>3
  <2>2. Place' /\ Unstarted'
    BY DEF TypeOK, Place, Unstarted, Present
  <2>3. Occupied' /\ Uncollected'
    BY DEF TypeOK, Place, Unstarted, Occupied, Uncollected, Present
  <2>4. Fresh' /\ Unverified'
    BY DEF TypeOK, Place, Fresh, Unverified
  <2>5. Reached'
    <3>1. \A s \in Sidecar : leader'[s] = "live" => leader[s] = "live" /\ s # idx
      <4>1. CASE idx \in live
        BY <4>1 DEF TypeOK
      <4>2. CASE idx \notin live
        BY <4>2 DEF TypeOK, Reached
      <4> QED
        BY <4>1, <4>2
    <3>2. pc' = "kill" /\ live' = live /\ idx' = idx - 1 /\ idx \in 1..N
      BY DEF TypeOK, Place
    <3> QED
      BY <3>1, <3>2 DEF Reached
  <2> QED
    BY <2>1, <2>2, <2>3, <2>4, <2>5
<1>7. CASE StopKillEnd
  BY <1>7 DEF StopKillEnd, TypeOK, Place, Unstarted, Occupied, Uncollected,
     Fresh, Reached, Unverified, Present
<1>8. CASE StopWait
  <2> USE <1>8 DEF StopWait, Polled
  <2>1. TypeOK'
    BY DEF TypeOK, Present
  <2>2. Place' /\ Unstarted'
    BY DEF TypeOK, Place, Unstarted, Present
  <2>3. Occupied' /\ Uncollected'
    BY DEF TypeOK, Place, Unstarted, Occupied, Uncollected, Present
  <2>4. Fresh' /\ Unverified'
    BY DEF TypeOK, Place, Fresh, Unverified
  <2>5. Reached'
    BY DEF TypeOK, Place, Unstarted, Reached, Present
  <2> QED
    BY <2>1, <2>2, <2>3, <2>4, <2>5
<1>9. CASE StopEnd
  BY <1>9 DEF StopEnd, TypeOK, Place, Unstarted, Occupied, Uncollected,
     Fresh, Reached, Unverified, Present
<1> QED
  BY <1>1, <1>2, <1>3, <1>4, <1>5, <1>6, <1>7, <1>8, <1>9

\* A `vmocs stop' beside the manager keeps it: it collects nothing, and what
\* it kills was running.
LEMMA PersistedStep ==
  ASSUME IInv, Persisted
  PROVE  IInv'
<1> USE SidecarsAssumption DEF IInv, Sidecar, osVars, mgrVars
<1>1. CASE PersistedKill
  <2> USE <1>1 DEF PersistedKill, Killed
  <2>1. TypeOK'
    <3>1. sidx' \in 0..N
      BY DEF TypeOK
    <3>2. CASE sidx \in verified
      <4>1. helper' \in [Sidecar -> BOOLEAN]
        BY <3>2 DEF TypeOK
      <4>2. leader' \in [Sidecar -> Present \cup {"none", "gone"}]
        BY <3>2 DEF TypeOK, Present
      <4> QED
        BY <3>1, <3>2, <4>1, <4>2 DEF TypeOK
    <3>3. CASE sidx \notin verified
      BY <3>1, <3>3 DEF TypeOK
    <3> QED
      BY <3>2, <3>3
  <2>2. Place' /\ Unstarted'
    BY DEF TypeOK, Place, Unstarted
  <2>3. Occupied' /\ Uncollected'
    BY DEF TypeOK, Place, Occupied, Uncollected
  <2>4. Fresh' /\ Reached' /\ Unverified'
    BY DEF TypeOK, Place, Fresh, Reached, Unverified
  <2> QED
    BY <2>1, <2>2, <2>3, <2>4
<1>2. CASE ~PersistedKill
  <2>1. UNCHANGED <<osVars, mgrVars>>
    BY <1>2 DEF Persisted, PersistedBegin, PersistedVerify, PersistedTerm,
       PersistedTermEnd, PersistedAwait, PersistedAwaitEnd, PersistedEnd
  <2>2. /\ spc \in {"idle", "verify", "term", "await", "kill", "done"}
        /\ known \subseteq Sidecar /\ verified \subseteq known /\ sidx \in 0..N
        /\ spc \in {"idle", "verify"} => verified = {}
    BY DEF TypeOK, Unverified
  <2>3. /\ spc' \in {"idle", "verify", "term", "await", "kill", "done"}
        /\ known' \subseteq Sidecar /\ verified' \subseteq known' /\ sidx' \in 0..N
        /\ spc' \in {"idle", "verify"} => verified' = {}
    <3>1. CASE PersistedBegin
      BY <2>2, <3>1 DEF PersistedBegin
    <3>2. CASE PersistedVerify
      BY <2>2, <3>2 DEF PersistedVerify
    <3>3. CASE PersistedTerm
      BY <2>2, <3>3 DEF PersistedTerm
    <3>4. CASE PersistedTermEnd
      BY <2>2, <3>4 DEF PersistedTermEnd
    <3>5. CASE PersistedAwait
      BY <2>2, <3>5 DEF PersistedAwait
    <3>6. CASE PersistedAwaitEnd
      BY <2>2, <3>6 DEF PersistedAwaitEnd
    <3>7. CASE PersistedEnd
      BY <2>2, <3>7 DEF PersistedEnd
    <3> QED
      BY <1>2, <3>1, <3>2, <3>3, <3>4, <3>5, <3>6, <3>7 DEF Persisted
  <2>4. TypeOK' /\ Unverified'
    BY <2>1, <2>3 DEF TypeOK, Unverified
  <2> QED
    BY <2>1, <2>4 DEF Place, Unstarted, Occupied, Uncollected, Fresh, Reached
<1> QED
  BY <1>1, <1>2

\* Every step keeps it.
LEMMA NextIInv == ASSUME IInv, [Next]_vars PROVE IInv'
<1>1. CASE System
  <2>1. CASE \E s \in Sidecar : Listen(s) \/ SpawnHelper(s) \/ HelperExits(s)
                               \/ Exit(s) \/ Reuse(s)
    BY <2>1, ProcessStep
  <2> QED
    BY <1>1, <2>1, HostStep DEF System
<1>2. CASE Manager
  BY <1>2, StartStep, StopStep DEF Manager, StopAll
<1>3. CASE Persisted
  BY <1>3, PersistedStep
<1>4. CASE UNCHANGED vars
  BY <1>4 DEF vars, osVars, mgrVars, stopVars, IInv, TypeOK, Place, Unstarted, Occupied,
     Uncollected, Fresh, Reached, Unverified
<1> QED
  BY <1>1, <1>2, <1>3, <1>4 DEF Next

\* Hence it always holds.
LEMMA IInvAlways == Spec => []IInv
<1>1. Init => IInv
  BY InitIInv
<1>2. IInv /\ [Next]_vars => IInv'
  BY NextIInv
<1> QED
  BY <1>1, <1>2, PTL DEF Spec

-----------------------------------------------------------------------------

\* The state keeps its type, whatever sidecars and stopping processes do.
THEOREM TypeCorrect == Spec => []TypeOK
<1>1. IInv => TypeOK
  BY DEF IInv
<1> QED
  BY <1>1, IInvAlways, PTL

\* Whatever sidecars and helpers do and wherever the launching process or the
\* host fails, start_all's rollback and stop_all never signal a number that
\* was given to another process.
THEOREM NoStrangerSignalledAlways == Spec => []NoStrangerSignalled
<1>1. IInv => NoStrangerSignalled
  <2> SUFFICES ASSUME IInv, pc \in {"term", "kill"}, idx \in live PROVE ~reused[idx]
    BY DEF NoStrangerSignalled
  <2>1. idx \in Sidecar
    BY SidecarsAssumption DEF IInv, TypeOK, Sidecar
  <2>2. leader[idx] # "gone"
    BY DEF IInv, Uncollected
  <2> QED
    BY <2>1, <2>2 DEF IInv, Occupied
<1> QED
  BY <1>1, IInvAlways, PTL

\* A launch goes on only with sockets that its own sidecars made.
THEOREM ReadyIsFreshAlways == Spec => []ReadyIsFresh
<1>1. IInv => ReadyIsFresh
  BY DEF IInv, Fresh, ReadyIsFresh
<1> QED
  BY <1>1, IInvAlways, PTL

\* A failed start and a finished stop leave no sidecar running that was not
\* sent SIGKILL, however many were started.
THEOREM StopReachesAllAlways == Spec => []StopReachesAll
<1>1. IInv => StopReachesAll
  BY DEF IInv, TypeOK, Place, Unstarted, Reached, StopReachesAll, Sidecar
<1> QED
  BY <1>1, IInvAlways, PTL

-----------------------------------------------------------------------------
(* The stop from the record, for any number of sidecars and beside any      *)
(* manager.  Within one boot no two users of a number have one start time,   *)
(* so what is verified is the sidecar; what is recorded is never started     *)
(* again, so what the stop has passed stays stopped.                        *)

\* A stranger with the start time of a sidecar belongs to another boot.
SameBoot == boot = 0 => \A s \in Sidecar : ~twin[s]

\* The stop knows what was recorded, and that is when all were started.
Recorded ==
  /\ known # {} => saved
  /\ saved => pc \notin {"preflight", "start", "ready"}

\* What it knows of and still runs is on its list, and past SIGKILL nothing.
Hunted ==
  boot = 0 =>
    /\ spc \in {"term", "await", "kill"} =>
         \A s \in known : leader[s] = "live" => s \in verified
    /\ spc = "kill" => \A s \in known : leader[s] = "live" => s <= sidx
    /\ PersistedReachesAll

RecordInv == SameBoot /\ Recorded /\ Hunted

\* What a running sidecar's number says to _persisted_process_matches.
LEMMA MatchesOurs ==
  ASSUME IInv, SameBoot, NEW s \in Sidecar
  PROVE  /\ Matches(s) => ~reused[s] /\ leader[s] \in Present
         /\ boot = 0 /\ leader[s] = "live" => Matches(s)
BY DEF IInv, Occupied, SameBoot, Matches, Present

\* No process starts or revives a sidecar that is in the record.
LEMMA NoneRevived ==
  ASSUME IInv, RecordInv, [Next]_vars, NEW s \in known, boot' = 0
  PROVE  leader'[s] = "live" => leader[s] = "live"
<1>1. s \in Sidecar /\ boot \in {0, 1} /\ leader \in [Sidecar -> Present \cup {"none", "gone"}]
  BY DEF IInv, TypeOK
<1>2. ~Start
  BY DEF RecordInv, Recorded, Start
<1> USE <1>1, <1>2 DEF osVars
<1>3. CASE System
  BY <1>3 DEF System, Listen, SpawnHelper, HelperExits, Exit, Reuse, Crash, Reboot
<1>4. CASE Manager
  BY <1>4 DEF Manager, Preflight, StartFails, SweepOne, Record, Failure, Over, StopAll,
     StopPoll, StopTerm, StopTermEnd, StopAwait, StopAwaitEnd, StopKill, StopKillEnd,
     StopWait, StopEnd, Polled, Killed
<1>5. CASE Persisted
  BY <1>5 DEF Persisted, PersistedBegin, PersistedVerify, PersistedTerm,
     PersistedTermEnd, PersistedAwait, PersistedAwaitEnd, PersistedKill, PersistedEnd,
     Killed
<1>6. CASE UNCHANGED vars
  BY <1>6 DEF vars
<1> QED
  BY <1>3, <1>4, <1>5, <1>6 DEF Next

\* Every step keeps the invariant of the stop from the record.
LEMMA RecordStep ==
  ASSUME IInv, RecordInv, [Next]_vars
  PROVE  RecordInv'
<1>1. SameBoot'
  <2> USE DEF IInv, TypeOK, RecordInv, SameBoot, osVars
  <2>1. CASE \E s \in Sidecar : Reuse(s)
    BY <2>1 DEF Reuse
  <2>2. CASE Reboot
    BY <2>2 DEF Reboot
  <2>3. CASE ~Reboot /\ ~\E s \in Sidecar : Reuse(s)
    <3>1. boot' = boot /\ twin' = twin
      <4>1. CASE System
        BY <2>3, <4>1 DEF System, Listen, SpawnHelper, HelperExits, Exit, Crash
      <4>2. CASE Manager
        BY <4>2 DEF Manager, Preflight, Start, StartFails, SweepOne, Record, Failure,
           Over, StopAll, StopPoll, StopTerm, StopTermEnd, StopAwait, StopAwaitEnd,
           StopKill, StopKillEnd, StopWait, StopEnd, Killed
      <4>3. CASE Persisted
        BY <4>3 DEF Persisted, PersistedBegin, PersistedVerify, PersistedTerm,
           PersistedTermEnd, PersistedAwait, PersistedAwaitEnd, PersistedKill,
           PersistedEnd, Killed
      <4>4. CASE UNCHANGED vars
        BY <4>4 DEF vars
      <4> QED
        BY <4>1, <4>2, <4>3, <4>4 DEF Next
    <3> QED
      BY <3>1
  <2> QED
    BY <2>1, <2>2, <2>3
<1>2. Recorded'
  <2> USE DEF RecordInv, Recorded, mgrVars, stopVars
  <2>1. CASE System
    BY <2>1 DEF System, Listen, SpawnHelper, HelperExits, Exit, Reuse, Crash, Reboot
  <2>2. CASE Manager
    BY <2>2 DEF Manager, Preflight, Start, StartFails, SweepOne, Record, Failure, Over,
       StopAll, StopPoll, StopTerm, StopTermEnd, StopAwait, StopAwaitEnd, StopKill,
       StopKillEnd, StopWait, StopEnd
  <2>3. CASE Persisted
    BY <2>3 DEF Persisted, PersistedBegin, PersistedVerify, PersistedTerm,
       PersistedTermEnd, PersistedAwait, PersistedAwaitEnd, PersistedKill, PersistedEnd
  <2>4. CASE UNCHANGED vars
    BY <2>4 DEF vars
  <2> QED
    BY <2>1, <2>2, <2>3, <2>4 DEF Next
<1>3. Hunted'
  <2> SUFFICES ASSUME boot' = 0 PROVE Hunted'
    BY DEF Hunted
  <2>1. known \subseteq Sidecar /\ verified \subseteq known /\ sidx \in 0..N /\ boot \in {0, 1}
        /\ leader \in [Sidecar -> Present \cup {"none", "gone"}]
    BY DEF IInv, TypeOK
  <2>2. \A s \in known : leader'[s] = "live" => leader[s] = "live"
    BY NoneRevived
  <2>3. CASE Persisted
    <3>0. boot = 0 /\ \A s \in known : leader[s] = "live" => Matches(s)
      <4>1. boot = 0
        BY <2>3 DEF Persisted, PersistedBegin, PersistedVerify, PersistedTerm,
           PersistedTermEnd, PersistedAwait, PersistedAwaitEnd, PersistedKill,
           PersistedEnd, osVars, Killed
      <4> QED
        BY <2>1, <4>1, MatchesOurs DEF RecordInv
    <3> USE <2>1, <2>2, <3>0 DEF RecordInv, Hunted, PersistedReachesAll, Sidecar
    <3>1. CASE PersistedBegin \/ PersistedTerm \/ PersistedTermEnd
      BY <3>1 DEF PersistedBegin, PersistedTerm, PersistedTermEnd
    <3>2. CASE PersistedVerify
      BY <3>2 DEF PersistedVerify
    <3>3. CASE PersistedAwait
      BY <3>3 DEF PersistedAwait, osVars
    <3>4. CASE PersistedAwaitEnd
      BY <3>4, SidecarsAssumption DEF PersistedAwaitEnd
    <3>5. CASE PersistedKill
      <4>1. \A s \in known : leader'[s] = "live" => s # sidx
        <5>1. CASE sidx \in verified
          BY <3>5, <5>1 DEF PersistedKill, Killed
        <5>2. CASE sidx \notin verified
          BY <3>5, <5>2 DEF PersistedKill
        <5> QED
          BY <5>1, <5>2
      <4>2. /\ spc = "kill" /\ spc' = "kill" /\ sidx' = sidx - 1
            /\ known' = known /\ verified' = verified
        BY <3>5 DEF PersistedKill
      <4>3. \A s \in known : s <= sidx /\ s # sidx => s <= sidx - 1
        BY SidecarsAssumption
      <4>4. \A s \in known : leader[s] = "live" => s <= sidx /\ s \in verified
        BY <4>2
      <4> QED
        BY <4>1, <4>2, <4>3, <4>4
    <3>6. CASE PersistedEnd
      BY <3>6, SidecarsAssumption DEF PersistedEnd
    <3> QED
      BY <2>3, <3>1, <3>2, <3>3, <3>4, <3>5, <3>6 DEF Persisted
  <2>4. CASE ~Persisted
    <3>1. UNCHANGED stopVars
      <4>1. CASE System
        BY <4>1 DEF System, Listen, SpawnHelper, HelperExits, Exit, Reuse, Crash, Reboot
      <4>2. CASE Manager
        BY <4>2 DEF Manager, Preflight, Start, StartFails, SweepOne, Record, Failure,
           Over, StopAll, StopPoll, StopTerm, StopTermEnd, StopAwait, StopAwaitEnd,
           StopKill, StopKillEnd, StopWait, StopEnd
      <4> QED
        BY <2>4, <4>1, <4>2 DEF Next, vars
    <3>2. boot = 0
      BY <2>1, <2>4 DEF Next, vars, osVars, System, Listen, SpawnHelper, HelperExits,
         Exit, Reuse, Crash, Reboot, Manager, Preflight, Start, StartFails, SweepOne,
         Record, Failure, Over, StopAll, StopPoll, StopTerm, StopTermEnd, StopAwait,
         StopAwaitEnd, StopKill, StopKillEnd, StopWait, StopEnd, Killed
    <3> QED
      BY <2>2, <3>1, <3>2 DEF RecordInv, Hunted, PersistedReachesAll, stopVars
  <2> QED
    BY <2>3, <2>4
<1> QED
  BY <1>1, <1>2, <1>3 DEF RecordInv

\* `vmocs stop' verifies only the sidecars themselves, and when it is done it
\* has stopped or killed every one that vm.json lists: for any number of
\* sidecars, whether the manager lives, stops them too or is gone, and across
\* a restart of the host.
THEOREM PersistedStopIsExactAlways == Spec => PersistedStopIsExact
<1>1. Init => RecordInv
  <2> SUFFICES ASSUME Init PROVE RecordInv
    OBVIOUS
  <2>1. \A s \in Sidecar : ~twin[s]
    BY DEF Init
  <2> QED
    BY <2>1 DEF Init, RecordInv, SameBoot, Recorded, Hunted, PersistedReachesAll
<1>2. IInv /\ RecordInv /\ [Next]_vars => RecordInv'
  BY RecordStep
<1>3. RecordInv => PersistedReachesAll
  BY DEF RecordInv, Hunted, PersistedReachesAll
<1>4. IInv /\ RecordInv /\ [Next]_vars =>
        [spc = "verify" /\ spc' = "term" =>
           \A s \in verified' : ~reused[s] /\ leader[s] \in Present]_vars
  <2> SUFFICES ASSUME IInv, RecordInv, Next, spc = "verify", spc' = "term"
               PROVE  \A s \in verified' : ~reused[s] /\ leader[s] \in Present
    OBVIOUS
  <2>1. PersistedVerify
    BY DEF Next, System, Listen, SpawnHelper, HelperExits, Exit, Reuse, Crash, Reboot,
       Manager, Preflight, Start, StartFails, SweepOne, Record, Failure, Over, StopAll,
       StopPoll, StopTerm, StopTermEnd, StopAwait, StopAwaitEnd, StopKill, StopKillEnd,
       StopWait, StopEnd, stopVars, Persisted, PersistedBegin, PersistedTerm,
       PersistedTermEnd, PersistedAwait, PersistedAwaitEnd, PersistedKill, PersistedEnd
  <2>2. verified' = {s \in known : Matches(s)} /\ known \subseteq Sidecar
    BY <2>1 DEF PersistedVerify, IInv, TypeOK
  <2> QED
    BY <2>2, MatchesOurs DEF RecordInv
<1> QED
  BY <1>1, <1>2, <1>3, <1>4, IInvAlways, PTL DEF Spec, PersistedStopIsExact, VerifiedIsOurs
=============================================================================
