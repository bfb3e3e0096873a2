-------------------------- MODULE GuestAccessProofs --------------------------
(***************************************************************************)
(* Ports and keys, for any number of launches, ports and crashes.  Two      *)
(* facts carry the proofs.  A live QEMU holds the port its launch has       *)
(* found, so whoever answers there is the launch's own guest as long as its *)
(* QEMU lives.  And the key of a launch gets onto the disk of another VM    *)
(* only by a checkpoint, that is after that launch was ready.               *)
(***************************************************************************)
EXTENDS GuestAccess, WellFoundedInduction, TLAPS

\* A live QEMU holds its launch's port, and there is none before the fork; only
\* its guest answers.
Holds ==
  \A v \in VMs :
    /\ pc[v] \in {"idle", "keyed", "port"} => qemu[v] = "none"
    /\ pc[v] = "port" => port[v] \in Ports
    /\ v \in sshd => qemu[v] = "up"
    /\ qemu[v] = "up" => port[v] \in Ports /\ bound[port[v]] = v

\* A launch that waits for a dead QEMU has met a cause.
Caused ==
  \A v \in VMs : pc[v] \in {"forked", "rotate", "wait"} => qemu[v] = "up" \/ v \in hurt

\* Only a Vagrant launch rotates, host-user-identity comes with cloud-init, and
\* a guest that answers has the launch's key on its disk: at once without a host
\* user, and else when its script has run and met no account in its way.  What is
\* settled at Prepare is not yet used before it.
Keyed ==
  /\ \A v \in VMs : pc[v] = "rotate" => mode = "vagrant"
  /\ (auth => mode = "cloud-init") /\ (snap => mode = "cloud-init")
  /\ mode = "cloud-init" =>
       \A v \in VMs :
         /\ v \in sshd /\ ~auth => KeyOf(v) \in accepts[v]
         /\ v \in made /\ v \notin clash => KeyOf(v) \in accepts[v]
         /\ v \in made => ~Restored(v)
         /\ pc[v] # "idle" /\ Restored(v) /\ ~auth => "snapshot" \in accepts[v]
         /\ pc[v] \in {"idle", "keyed", "port"} => v \notin made
         /\ pc[v] = "idle" => reached[v] = {} /\ \A w \in VMs : v \notin reached[w]

\* The launches that are, or were, ready.
Past == Launched \cup {"stopping", "ended"}

\* The key of a launch is on a foreign disk, or in a checkpoint, only when the
\* launch was ready, and then that disk is a resumed one.  The snapshot's key is
\* on the disks of restored guests and on resumed ones, and on none with a host
\* user.
Travelled ==
  mode = "cloud-init" =>
    /\ \A v, w \in VMs : v \in accepts[w] /\ v # w => pc[v] \in Past /\ w \in resumed
    /\ \A w \in VMs : "snapshot" \in accepts[w] => ~auth /\ (w \in resumed \/ Restored(w))
    /\ saved # None => /\ \A v \in VMs : v \in saved => pc[v] \in Past
                       /\ "snapshot" \in saved => ~auth

\* The Vagrant key is on the disks of a Vagrant template alone, and on no disk
\* of a launch whose rotation is done.
Rotated ==
  /\ mode # "vagrant" => /\ \A v \in VMs : "vagrant" \notin accepts[v]
                         /\ saved # None => "vagrant" \notin saved
  /\ \A v \in VMs :
       pc[v] \in {"wait"} \cup Launched /\ qemu[v] = "up" => "vagrant" \notin accepts[v]

\* The inductive invariant.
IInv == /\ TypeOK /\ Holds /\ Caused /\ Keyed /\ Travelled /\ Rotated
        /\ NoForeignLogin /\ ReadyIsOwnGuest /\ FailsOnlyForCause

\* _find_free_port returns a port of the range.
LEMMA MinInPorts ==
  ASSUME NEW S \in SUBSET Ports, S # {}
  PROVE  Min(S) \in S
<1>1. S \subseteq Nat
  BY AccessAssumption DEF Ports
<1>2. PICK x \in S : \A y \in S : ~(<<y, x>> \in OpToRel(<, Nat))
  BY <1>1, NatLessThanWellFounded, WFMin, Zenon
<1>3. \A y \in S : ~(y < x)
  BY <1>1, <1>2, Zenon DEF OpToRel
<1>4. \A y \in S : x <= y
  BY <1>1, <1>3
<1> QED
  BY <1>4 DEF Min

\* The initial states satisfy the invariant.
LEMMA InitIInv == Init => IInv
<1> SUFFICES ASSUME Init PROVE IInv
  OBVIOUS
<1>1. TypeOK
  <2>1. mode \in Modes /\ auth \in BOOLEAN /\ tty \in BOOLEAN
    BY DEF Init
  <2>2. crashes \in 0..MaxCrashes
    BY AccessAssumption DEF Init
  <2>3. /\ accepts \in [VMs -> SUBSET Keys] /\ reached \in [VMs -> SUBSET VMs]
        /\ saved \in (SUBSET Keys) \cup {None} /\ ready \in [VMs -> VMs \cup {None}]
    BY DEF Init
  <2>4. port \in [VMs -> Ports \cup {0}] /\ bound \in [Ports -> VMs \cup {None}]
    BY DEF Init
  <2> QED
    BY <2>1, <2>2, <2>3, <2>4 DEF Init, TypeOK, Launched
<1>2. Holds /\ Caused /\ Keyed /\ Rotated
  BY AccessAssumption DEF Init, Holds, Caused, Keyed, Restored, KeyOf, Rotated, Launched
<1>3. Travelled /\ NoForeignLogin /\ ReadyIsOwnGuest /\ FailsOnlyForCause
  BY DEF Init, Travelled, NoForeignLogin, ReadyIsOwnGuest, FailsOnlyForCause, Restored
<1> QED
  BY <1>1, <1>2, <1>3 DEF IInv

\* The launch keeps the invariant: what is needed of each action's frame.
LEMMA LaunchStep ==
  ASSUME IInv, NEW v \in VMs,
         Prepare(v) \/ FindPort(v) \/ Fork(v) \/ Monitor(v) \/ Boot(v) \/ MakeHostUser(v)
  PROVE  IInv'
<1> USE AccessAssumption
<1>0. TypeOK
  BY DEF IInv
<1>1. CASE Prepare(v)
  <2> USE <1>1 DEF Prepare, Goto, fixed, own
  <2>0. PICK K \in SUBSET Keys :
          /\ accepts' = [accepts EXCEPT ![v] = K]
          /\ \/ resumed' = resumed /\ K \cap VMs = {} /\ (mode # "vagrant" => "vagrant" \notin K)
                /\ (mode = "cloud-init" => ("snapshot" \in K <=> snap /\ ~auth))
             \/ resumed' = resumed \cup {v} /\ saved # None /\ K = saved
    <3>1. CASE saved # None /\ accepts' = [accepts EXCEPT ![v] = saved]
               /\ resumed' = resumed \cup {v}
      <4>1. saved \in SUBSET Keys
        BY <1>0, <3>1 DEF TypeOK
      <4> QED
        BY <3>1, <4>1
    <3>2. CASE UNCHANGED resumed /\ mode = "vagrant" /\ accepts' = [accepts EXCEPT ![v] = {"vagrant"}]
      <4>1. {"vagrant"} \in SUBSET Keys /\ {"vagrant"} \cap VMs = {}
        BY DEF Keys
      <4> QED
        BY <3>2, <4>1
    <3>3. CASE UNCHANGED resumed /\ mode = "static" /\ accepts' = [accepts EXCEPT ![v] = {"image"}]
      <4>1. {"image"} \in SUBSET Keys /\ {"image"} \cap VMs = {} /\ "vagrant" \notin {"image"}
        BY DEF Keys
      <4> QED
        BY <3>3, <4>1
    <3>4. CASE UNCHANGED resumed /\ snap /\ ~auth /\ accepts' = [accepts EXCEPT ![v] = {"snapshot"}]
      <4>1. {"snapshot"} \in SUBSET Keys /\ {"snapshot"} \cap VMs = {} /\ "vagrant" \notin {"snapshot"}
        BY DEF Keys
      <4> QED
        BY <3>4, <4>1
    <3>5. CASE UNCHANGED resumed /\ mode \notin {"vagrant", "static"} /\ ~(snap /\ ~auth)
               /\ accepts' = [accepts EXCEPT ![v] = {}]
      <4>1. {} \in SUBSET Keys
        OBVIOUS
      <4> QED
        BY <3>5, <4>1
    <3> QED
      BY <1>0, <3>1, <3>2, <3>3, <3>4, <3>5 DEF TypeOK
  <2>1. TypeOK'
    BY <1>0, <2>0 DEF TypeOK, Launched
  <2>2. Holds' /\ Caused'
    BY <1>0, <2>0 DEF TypeOK, IInv, Holds, Caused
  <2>5. Keyed'
    BY <1>0, <2>0 DEF TypeOK, IInv, Holds, Keyed, Restored, KeyOf
  <2>6. Rotated'
    BY <1>0, <2>0 DEF TypeOK, IInv, Holds, Rotated, Launched
  <2>3. Travelled'
    BY <1>0, <2>0 DEF TypeOK, IInv, Travelled, Restored, Past, Launched
  <2>4. NoForeignLogin' /\ ReadyIsOwnGuest' /\ FailsOnlyForCause'
    <3>1. /\ resumed \subseteq resumed' /\ resumed' \subseteq resumed \cup {v}
          /\ pc[v] = "idle" /\ pc' = [pc EXCEPT ![v] = "keyed"]
      BY <2>0
    <3>2. NoForeignLogin'
      BY <1>0, <3>1 DEF TypeOK, IInv, Keyed, NoForeignLogin, Restored
    <3>3. ReadyIsOwnGuest' /\ FailsOnlyForCause'
      BY <1>0, <3>1 DEF TypeOK, IInv, ReadyIsOwnGuest, FailsOnlyForCause, Restored
    <3> QED
      BY <3>2, <3>3
  <2> QED
    BY <2>1, <2>2, <2>3, <2>4, <2>5, <2>6 DEF IInv
<1>2. CASE FindPort(v)
  <2> USE <1>2 DEF FindPort, Goto, fixed
  <2>1. Free # {} => Min(Free) \in Ports
    BY MinInPorts DEF Free
  <2>2. TypeOK'
    BY <1>0, <2>1 DEF TypeOK, Launched
  <2>3. Holds' /\ Caused' /\ Keyed' /\ Rotated'
    BY <1>0, <2>1 DEF TypeOK, IInv, Holds, Caused, Keyed, Restored, KeyOf, Rotated, Launched
  <2>4. Travelled'
    BY <1>0 DEF TypeOK, IInv, Travelled, Restored, Past, Launched
  <2>5. NoForeignLogin' /\ ReadyIsOwnGuest' /\ FailsOnlyForCause'
    BY <1>0 DEF TypeOK, IInv, NoForeignLogin, ReadyIsOwnGuest, FailsOnlyForCause, Restored
  <2> QED
    BY <2>2, <2>3, <2>4, <2>5 DEF IInv
<1>3. CASE Fork(v)
  <2> USE <1>3 DEF Fork, Goto, fixed, own
  <2>1. TypeOK'
    BY <1>0 DEF TypeOK, IInv, Holds, Launched
  <2>2. Holds' /\ Caused' /\ Keyed' /\ Rotated'
    BY <1>0 DEF TypeOK, IInv, Holds, Caused, Keyed, Restored, KeyOf, Rotated, Launched
  <2>3. Travelled'
    BY <1>0 DEF TypeOK, IInv, Travelled, Restored, Past, Launched
  <2>4. NoForeignLogin' /\ ReadyIsOwnGuest' /\ FailsOnlyForCause'
    BY <1>0 DEF TypeOK, IInv, NoForeignLogin, ReadyIsOwnGuest, FailsOnlyForCause, Restored
  <2> QED
    BY <2>1, <2>2, <2>3, <2>4 DEF IInv
<1>4. CASE Monitor(v)
  <2> USE <1>4 DEF Monitor, Fail, Gone, Goto, fixed, own
  <2>1. TypeOK'
    BY <1>0 DEF TypeOK, Launched
  <2>2. Holds' /\ Caused' /\ Keyed' /\ Rotated'
    BY <1>0 DEF TypeOK, IInv, Holds, Caused, Keyed, Restored, KeyOf, Rotated, Launched
  <2>3. Travelled'
    BY <1>0 DEF TypeOK, IInv, Travelled, Restored, Past, Launched
  <2>4. NoForeignLogin' /\ ReadyIsOwnGuest' /\ FailsOnlyForCause'
    BY <1>0 DEF TypeOK, IInv, Caused, NoForeignLogin, ReadyIsOwnGuest, FailsOnlyForCause, Restored
  <2> QED
    BY <2>1, <2>2, <2>3, <2>4 DEF IInv
<1>5. CASE Boot(v)
  <2> USE <1>5 DEF Boot, KeyOf, fixed, own
  <2>1. TypeOK'
    BY <1>0 DEF TypeOK, Keys
  <2>2. Holds' /\ Caused' /\ Keyed' /\ Rotated'
    BY <1>0 DEF TypeOK, IInv, Holds, Caused, Keyed, Restored, KeyOf, Rotated, Launched
  <2>3. Travelled'
    BY <1>0 DEF TypeOK, IInv, Travelled, Restored, Past, Launched
  <2>4. NoForeignLogin' /\ ReadyIsOwnGuest' /\ FailsOnlyForCause'
    BY <1>0 DEF TypeOK, IInv, NoForeignLogin, ReadyIsOwnGuest, FailsOnlyForCause, Restored
  <2> QED
    BY <2>1, <2>2, <2>3, <2>4 DEF IInv
<1>6. CASE MakeHostUser(v)
  <2> USE <1>6 DEF MakeHostUser, KeyOf, fixed, own
  <2>1. TypeOK'
    BY <1>0 DEF TypeOK, Keys
  <2>2. Holds' /\ Caused' /\ Keyed' /\ Rotated'
    BY <1>0 DEF TypeOK, IInv, Holds, Caused, Keyed, Rotated, Launched, Restored
  <2>3. Travelled'
    BY <1>0 DEF TypeOK, IInv, Keyed, Travelled, Past, Launched, Restored
  <2>4. NoForeignLogin' /\ ReadyIsOwnGuest' /\ FailsOnlyForCause'
    BY <1>0 DEF TypeOK, IInv, NoForeignLogin, ReadyIsOwnGuest, FailsOnlyForCause, Restored
  <2> QED
    BY <2>1, <2>2, <2>3, <2>4 DEF IInv
<1> QED
  BY <1>1, <1>2, <1>3, <1>4, <1>5, <1>6

\* So do the rotation and the wait for the guest ...
LEMMA ReadyStep ==
  ASSUME IInv, NEW v \in VMs,
         Rotate(v) \/ RotateFails(v) \/ WaitSsh(v) \/ WaitSshFails(v)
  PROVE  IInv'
<1> USE AccessAssumption
<1>0. TypeOK
  BY DEF IInv
<1>1. CASE Rotate(v)
  <2> USE <1>1 DEF Rotate, Answers, KeyOf, Goto, fixed, own
  <2>1. TypeOK'
    BY <1>0 DEF TypeOK, Keys, Launched
  <2>2. Holds' /\ Caused' /\ Keyed'
    BY <1>0 DEF TypeOK, IInv, Holds, Caused, Keyed, Restored, KeyOf, Launched
  <2>3. Rotated'
    BY <1>0 DEF TypeOK, IInv, Holds, Rotated, Launched
  <2>4. Travelled'
    BY <1>0 DEF TypeOK, IInv, Keyed, Restored, KeyOf, Travelled, Restored, Past, Launched
  <2>5. NoForeignLogin' /\ ReadyIsOwnGuest' /\ FailsOnlyForCause'
    BY <1>0 DEF TypeOK, IInv, Keyed, NoForeignLogin, ReadyIsOwnGuest, FailsOnlyForCause, Restored
  <2> QED
    BY <2>1, <2>2, <2>3, <2>4, <2>5 DEF IInv
<1>2. CASE RotateFails(v)
  <2> USE <1>2 DEF RotateFails, Answers, Fail, Gone, Goto, fixed, own
  <2>1. TypeOK'
    BY <1>0 DEF TypeOK, Keys, Launched
  <2>2. Holds' /\ Caused' /\ Keyed'
    BY <1>0 DEF TypeOK, IInv, Holds, Caused, Keyed, Restored, KeyOf, Launched
  <2>3. Rotated'
    BY <1>0 DEF TypeOK, IInv, Holds, Rotated, Launched
  <2>4. Travelled'
    BY <1>0 DEF TypeOK, IInv, Keyed, Restored, KeyOf, Travelled, Restored, Past, Launched
  <2>5. NoForeignLogin' /\ ReadyIsOwnGuest' /\ FailsOnlyForCause'
    BY <1>0 DEF TypeOK, IInv, Keyed, NoForeignLogin, ReadyIsOwnGuest, FailsOnlyForCause, Restored
  <2> QED
    BY <2>1, <2>2, <2>3, <2>4, <2>5 DEF IInv
<1>3. CASE WaitSsh(v)
  <2> USE <1>3 DEF WaitSsh, Answers, KeyOf, Goto, fixed
  <2>1. TypeOK'
    BY <1>0 DEF TypeOK, Keys, Launched
  <2>2. Holds' /\ Caused' /\ Keyed'
    BY <1>0 DEF TypeOK, IInv, Holds, Caused, Keyed, Restored, KeyOf, Launched
  <2>3. Rotated'
    BY <1>0 DEF TypeOK, IInv, Holds, Rotated, Launched
  <2>4. Travelled'
    BY <1>0 DEF TypeOK, IInv, Travelled, Restored, Past, Launched
  <2>5. NoForeignLogin' /\ ReadyIsOwnGuest' /\ FailsOnlyForCause'
    BY <1>0 DEF TypeOK, IInv, Travelled, Past, Launched, Keyed, NoForeignLogin, ReadyIsOwnGuest,
       FailsOnlyForCause, Restored
  <2> QED
    BY <2>1, <2>2, <2>3, <2>4, <2>5 DEF IInv
<1>4. CASE WaitSshFails(v)
  <2> USE <1>4 DEF WaitSshFails, Answers, KeyOf, Fail, Gone, Goto, fixed, own
  <2>1. TypeOK'
    BY <1>0 DEF TypeOK, Keys, Launched
  <2>2. Holds' /\ Caused' /\ Keyed'
    BY <1>0 DEF TypeOK, IInv, Holds, Caused, Keyed, Restored, KeyOf, Launched
  <2>3. Rotated'
    BY <1>0 DEF TypeOK, IInv, Holds, Rotated, Launched
  <2>4. Travelled'
    BY <1>0 DEF TypeOK, IInv, Travelled, Restored, Past, Launched
  <2>5. NoForeignLogin' /\ ReadyIsOwnGuest' /\ FailsOnlyForCause'
    BY <1>0 DEF TypeOK, IInv, Holds, Caused, Keyed, NoForeignLogin, ReadyIsOwnGuest, FailsOnlyForCause, Restored
  <2> QED
    BY <2>1, <2>2, <2>3, <2>4, <2>5 DEF IInv
<1> QED
  BY <1>1, <1>2, <1>3, <1>4

\* ... the session ...
LEMMA SessionStep ==
  ASSUME IInv, NEW v \in VMs,
         Connect(v) \/ Leave(v) \/ Judge(v) \/ Reconnect(v) \/ Stop(v)
  PROVE  IInv'
<1> USE AccessAssumption
<1>0. TypeOK
  BY DEF IInv
<1>1. CASE Connect(v)
  <2> USE <1>1 DEF Connect, Answers, KeyOf, Goto, fixed
  <2>1. TypeOK'
    BY <1>0 DEF TypeOK, Keys, Launched
  <2>2. Holds' /\ Caused' /\ Keyed'
    BY <1>0 DEF TypeOK, IInv, Holds, Caused, Keyed, Restored, KeyOf, Launched
  <2>3. Rotated'
    BY <1>0 DEF TypeOK, IInv, Holds, Rotated, Launched
  <2>4. Travelled'
    BY <1>0 DEF TypeOK, IInv, Travelled, Restored, Past, Launched
  <2>5. NoForeignLogin' /\ ReadyIsOwnGuest' /\ FailsOnlyForCause'
    BY <1>0 DEF TypeOK, IInv, Travelled, NoForeignLogin, ReadyIsOwnGuest, FailsOnlyForCause, Restored
  <2> QED
    BY <2>1, <2>2, <2>3, <2>4, <2>5 DEF IInv
<1>2. CASE Leave(v)
  <2> USE <1>2 DEF Leave, Goto, fixed, own
  <2>1. TypeOK'
    BY <1>0 DEF TypeOK, Keys, Launched
  <2>2. Holds' /\ Caused' /\ Keyed'
    BY <1>0 DEF TypeOK, IInv, Holds, Caused, Keyed, Restored, KeyOf, Launched
  <2>3. Rotated'
    BY <1>0 DEF TypeOK, IInv, Holds, Rotated, Launched
  <2>4. Travelled'
    BY <1>0 DEF TypeOK, IInv, Travelled, Restored, Past, Launched
  <2>5. NoForeignLogin' /\ ReadyIsOwnGuest' /\ FailsOnlyForCause'
    BY <1>0 DEF TypeOK, IInv, NoForeignLogin, ReadyIsOwnGuest, FailsOnlyForCause, Restored
  <2> QED
    BY <2>1, <2>2, <2>3, <2>4, <2>5 DEF IInv
<1>3. CASE Judge(v)
  <2> USE <1>3 DEF Judge, Goto, fixed, own
  <2>1. TypeOK'
    BY <1>0 DEF TypeOK, Keys, Launched
  <2>2. Holds' /\ Caused' /\ Keyed'
    BY <1>0 DEF TypeOK, IInv, Holds, Caused, Keyed, Restored, KeyOf, Launched
  <2>3. Rotated'
    BY <1>0 DEF TypeOK, IInv, Holds, Rotated, Launched
  <2>4. Travelled'
    BY <1>0 DEF TypeOK, IInv, Travelled, Restored, Past, Launched
  <2>5. NoForeignLogin' /\ ReadyIsOwnGuest' /\ FailsOnlyForCause'
    BY <1>0 DEF TypeOK, IInv, NoForeignLogin, ReadyIsOwnGuest, FailsOnlyForCause, Restored
  <2> QED
    BY <2>1, <2>2, <2>3, <2>4, <2>5 DEF IInv
<1>4. CASE Reconnect(v)
  <2> USE <1>4 DEF Reconnect, Goto, fixed, own
  <2>1. TypeOK'
    BY <1>0 DEF TypeOK, Keys, Launched
  <2>2. Holds' /\ Caused' /\ Keyed'
    BY <1>0 DEF TypeOK, IInv, Holds, Caused, Keyed, Restored, KeyOf, Launched
  <2>3. Rotated'
    BY <1>0 DEF TypeOK, IInv, Holds, Rotated, Launched
  <2>4. Travelled'
    BY <1>0 DEF TypeOK, IInv, Travelled, Restored, Past, Launched
  <2>5. NoForeignLogin' /\ ReadyIsOwnGuest' /\ FailsOnlyForCause'
    BY <1>0 DEF TypeOK, IInv, NoForeignLogin, ReadyIsOwnGuest, FailsOnlyForCause, Restored
  <2> QED
    BY <2>1, <2>2, <2>3, <2>4, <2>5 DEF IInv
<1>5. CASE Stop(v)
  <2> USE <1>5 DEF Stop, Gone, Goto, fixed, own
  <2>1. TypeOK'
    BY <1>0 DEF TypeOK, Keys, Launched
  <2>2. Holds' /\ Caused' /\ Keyed'
    BY <1>0 DEF TypeOK, IInv, Holds, Caused, Keyed, Restored, KeyOf, Launched
  <2>3. Rotated'
    BY <1>0 DEF TypeOK, IInv, Holds, Rotated, Launched
  <2>4. Travelled'
    BY <1>0 DEF TypeOK, IInv, Travelled, Restored, Past, Launched
  <2>5. NoForeignLogin' /\ ReadyIsOwnGuest' /\ FailsOnlyForCause'
    BY <1>0 DEF TypeOK, IInv, NoForeignLogin, ReadyIsOwnGuest, FailsOnlyForCause, Restored
  <2> QED
    BY <2>1, <2>2, <2>3, <2>4, <2>5 DEF IInv
<1> QED
  BY <1>1, <1>2, <1>3, <1>4, <1>5

\* ... and the ends of a QEMU that nobody in this launch asked for.
LEMMA EndStep ==
  ASSUME IInv, NEW v \in VMs,
         StopOther(v) \/ Crash(v)
  PROVE  IInv'
<1> USE AccessAssumption
<1>0. TypeOK
  BY DEF IInv
<1>1. CASE StopOther(v)
  <2> USE <1>1 DEF StopOther, Gone, fixed, own
  <2>1. TypeOK'
    BY <1>0 DEF TypeOK, Keys, Launched
  <2>2. Holds' /\ Caused' /\ Keyed'
    BY <1>0 DEF TypeOK, IInv, Holds, Caused, Keyed, Restored, KeyOf, Launched
  <2>3. Rotated'
    BY <1>0 DEF TypeOK, IInv, Holds, Rotated, Launched
  <2>4. Travelled'
    BY <1>0 DEF TypeOK, IInv, Travelled, Restored, Past, Launched
  <2>5. NoForeignLogin' /\ ReadyIsOwnGuest' /\ FailsOnlyForCause'
    BY <1>0 DEF TypeOK, IInv, NoForeignLogin, ReadyIsOwnGuest, FailsOnlyForCause, Restored
  <2> QED
    BY <2>1, <2>2, <2>3, <2>4, <2>5 DEF IInv
<1>2. CASE Crash(v)
  <2> USE <1>2 DEF Crash, Gone, fixed, own
  <2>1. TypeOK'
    BY <1>0 DEF TypeOK, Keys, Launched
  <2>2. Holds' /\ Caused' /\ Keyed'
    BY <1>0 DEF TypeOK, IInv, Holds, Caused, Keyed, Restored, KeyOf, Launched
  <2>3. Rotated'
    BY <1>0 DEF TypeOK, IInv, Holds, Rotated, Launched
  <2>4. Travelled'
    BY <1>0 DEF TypeOK, IInv, Travelled, Restored, Past, Launched
  <2>5. NoForeignLogin' /\ ReadyIsOwnGuest' /\ FailsOnlyForCause'
    BY <1>0 DEF TypeOK, IInv, NoForeignLogin, ReadyIsOwnGuest, FailsOnlyForCause, Restored
  <2> QED
    BY <2>1, <2>2, <2>3, <2>4, <2>5 DEF IInv
<1> QED
  BY <1>1, <1>2

\* The invariant is inductive.
LEMMA NextIInv == IInv /\ [Next]_vars => IInv'
<1> SUFFICES ASSUME IInv, [Next]_vars PROVE IInv'
  OBVIOUS
<1>1. CASE UNCHANGED vars
  BY <1>1 DEF vars, fixed, own, IInv, TypeOK, Holds, Caused, Keyed, Restored, KeyOf,
     Travelled, Rotated,
     NoForeignLogin, ReadyIsOwnGuest, FailsOnlyForCause, Restored
<1>2. CASE Done
  BY <1>1, <1>2 DEF Done
<1>3. CASE \E v \in VMs :
             \/ Prepare(v) \/ FindPort(v) \/ Fork(v) \/ Monitor(v) \/ Boot(v)
             \/ MakeHostUser(v) \/ Rotate(v) \/ RotateFails(v) \/ WaitSsh(v) \/ WaitSshFails(v)
             \/ Connect(v) \/ Leave(v)
             \/ Judge(v) \/ Reconnect(v) \/ Stop(v) \/ StopOther(v) \/ Crash(v)
  BY <1>3, LaunchStep, ReadyStep, SessionStep, EndStep
<1> QED
  BY <1>1, <1>2, <1>3 DEF Next

LEMMA IInvAlways == Spec => []IInv
<1>1. Init => IInv
  BY InitIInv
<1>2. IInv /\ [Next]_vars => IInv'
  BY NextIInv
<1> QED
  BY <1>1, <1>2, PTL DEF Spec

-----------------------------------------------------------------------------

\* The variables keep their types.
THEOREM TypeCorrect == Spec => []TypeOK
<1>1. IInv => TypeOK
  BY DEF IInv
<1> QED
  BY <1>1, IInvAlways, PTL

\* For any number of launches and ports: with cloud-init a session logs in to a
\* foreign guest only on a disk that was saved, or between guests restored from
\* one snapshot.
THEOREM NoForeignLoginAlways == Spec => []NoForeignLogin
<1>1. IInv => NoForeignLogin
  BY DEF IInv
<1> QED
  BY <1>1, IInvAlways, PTL

\* A launch bound to an identity reports ready for its own guest only, resumed
\* VMs and reused ports included.
THEOREM ReadyIsOwnGuestAlways == Spec => []ReadyIsOwnGuest
<1>1. IInv => ReadyIsOwnGuest
  BY DEF IInv
<1> QED
  BY <1>1, IInvAlways, PTL

\* A Vagrant guest whose launch is ready no longer accepts the public key.
THEOREM VagrantKeyRevokedAlways == Spec => []VagrantKeyRevoked
<1>1. IInv => VagrantKeyRevoked
  BY DEF IInv, Rotated, VagrantKeyRevoked
<1> QED
  BY <1>1, IInvAlways, PTL

\* Outside the Vagrant mode no launch fails but for a dead QEMU, a lost port, or a
\* host user that the guest cannot have.
THEOREM FailsOnlyForCauseAlways == Spec => []FailsOnlyForCause
<1>1. IInv => FailsOnlyForCause
  BY DEF IInv
<1> QED
  BY <1>1, IInvAlways, PTL
=============================================================================
