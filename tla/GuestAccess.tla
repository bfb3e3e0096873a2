----------------------------- MODULE GuestAccess -----------------------------
(***************************************************************************)
(* How launches on one host reach their guests: each picks a free port,     *)
(* QEMU binds it a little later, and from then on launch_vm and the session *)
(* speak to whatever answers there.  Which key a guest accepts is on its    *)
(* disk: put there by the image, by cloud-init at every boot, or by the key *)
(* rotation, and a checkpoint carries it to the VMs resumed from it.  A     *)
(* cloud-init memory snapshot has a key of its own, for all launches of it. *)
(*                                                                         *)
(* All VMs are launched from one template, with one boot mode: cloud-init,  *)
(* vagrant (the POSIX rotation; KeyHandoff has the Windows one) or static   *)
(* (insert-key: false).  A guest boots, and runs its cloud-init scripts,    *)
(* within ssh-timeout unless its QEMU ends.                                 *)
(***************************************************************************)
EXTENDS Naturals, FiniteSetsExt

CONSTANTS
  VMs,            \* the launches
  NPorts,         \* ssh-port-range
  Modes,          \* the boot modes to consider
  MaxCrashes,     \* bound on the QEMUs that end by themselves
  None

ASSUME AccessAssumption ==
  /\ NPorts \in Nat /\ MaxCrashes \in Nat /\ None \notin VMs
  /\ Modes \subseteq {"cloud-init", "vagrant", "static"}
  /\ VMs \cap {"vagrant", "image", "snapshot"} = {}

Ports == 1..NPorts
Keys == VMs \cup {"vagrant", "image", "snapshot"}

VARIABLES
  mode,           \* boot-mode and insert-key of the template
  auth,           \* host-user-identity: is readiness a login?
  tty,            \* do the sessions have a terminal?
  snap,           \* does the template name a cloud-init memory snapshot?
  clash,          \* the VMs with an account on their disk that is in the host user's way
  pc,             \* launch_vm and run_attached_session, for each VM
  port,           \* the port each launch has found
  bound,          \* the VM whose QEMU listens on each port
  qemu,           \* each VM's QEMU
  sshd,           \* the guests that answer
  made,           \* the guests whose host-user script has run
  accepts,        \* the keys that each VM's disk makes its guest accept
  resumed,        \* the VMs launched with --resume
  saved,          \* the keys on the disk of the published checkpoint, or None
  ready,          \* the guest that answered a launch's last poll
  reached,        \* the guests that each VM's session has logged in to
  hurt,           \* launches that met a QEMU that ended or a port that was lost
  crashes

own == <<port, ready, reached>>
fixed == <<mode, auth, tty, snap, clash>>
vars == <<fixed, pc, own, bound, qemu, sshd, made, accepts, resumed, saved, hurt, crashes>>

Launched == {"running", "in", "lost", "reconnect"}

\* The type invariant.
TypeOK ==
  /\ mode \in Modes /\ auth \in BOOLEAN /\ tty \in BOOLEAN
  /\ snap \in BOOLEAN /\ clash \subseteq VMs /\ made \subseteq VMs
  /\ pc \in [VMs -> {"idle", "keyed", "port", "forked", "rotate", "wait", "failed",
                     "stopping", "ended"} \cup Launched]
  /\ port \in [VMs -> Ports \cup {0}] /\ bound \in [Ports -> VMs \cup {None}]
  /\ qemu \in [VMs -> {"none", "up", "dead"}] /\ sshd \subseteq VMs
  /\ accepts \in [VMs -> SUBSET Keys] /\ resumed \subseteq VMs
  /\ saved \in (SUBSET Keys) \cup {None}
  /\ ready \in [VMs -> VMs \cup {None}] /\ reached \in [VMs -> SUBSET VMs]
  /\ hurt \subseteq VMs /\ crashes \in 0..MaxCrashes

\* host-user-identity requires boot-mode: cloud-init and insert-key: true.  An
\* account in the way comes with the image, or a session made it on the disk
\* that it saved.
Init ==
  /\ mode \in Modes /\ auth \in {FALSE, mode = "cloud-init"} /\ tty \in BOOLEAN
  /\ snap \in {FALSE, mode = "cloud-init"} /\ clash \in SUBSET {v \in VMs : auth} /\ made = {}
  /\ pc = [v \in VMs |-> "idle"] /\ port = [v \in VMs |-> 0]
  /\ bound = [p \in Ports |-> None] /\ qemu = [v \in VMs |-> "none"] /\ sshd = {}
  /\ accepts = [v \in VMs |-> {}] /\ resumed = {} /\ saved = None
  /\ ready = [v \in VMs |-> None] /\ reached = [v \in VMs |-> {}] /\ hurt = {} /\ crashes = 0

\* using_snapshot: v starts from the snapshot's memory; a resumed VM boots.
Restored(v) == snap /\ v \notin resumed

\* Mutant: _is_per_launch_ssh_key has lost `using_snapshot`.
KeyOfShared(v) ==
  CASE mode = "static" -> "image" [] mode = "cloud-init" -> "snapshot" [] OTHER -> v

\* The key that the launch of v logs in with: the one of the template, the one
\* of the snapshot, or a fresh one of its own.
KeyOf(v) ==
  CASE mode = "static" -> "image"
    [] mode = "cloud-init" /\ Restored(v) -> "snapshot"
    [] OTHER -> v

\* The guest that answers on the port of v.
Answers(v, o) == port[v] # 0 /\ o = bound[port[v]] /\ o \in sshd

Goto(v, l) == pc' = [pc EXCEPT ![v] = l]

\* v's QEMU is gone: its port is free and its guest is silent.
Gone(v) ==
  /\ qemu' = [qemu EXCEPT ![v] = "dead"] /\ sshd' = sshd \ {v}
  /\ bound' = [p \in Ports |-> IF bound[p] = v THEN None ELSE bound[p]]

-----------------------------------------------------------------------------
(* launch_vm                                                               *)

\* The overlay's base is the template's image, the snapshot's disk (on which
\* create_snapshot has put a key for ssh-user, and none for a host user), or the
\* disk of a checkpoint; the keypair is made.
Prepare(v) ==
  /\ pc[v] = "idle" /\ Goto(v, "keyed")
  /\ \/ /\ accepts' = [accepts EXCEPT ![v] = CASE mode = "vagrant" -> {"vagrant"}
                                               [] mode = "static" -> {"image"}
                                               [] snap /\ ~auth -> {"snapshot"}
                                               [] OTHER -> {}]
        /\ UNCHANGED resumed
     \/ /\ saved # None /\ accepts' = [accepts EXCEPT ![v] = saved]
        /\ resumed' = resumed \cup {v}
  /\ UNCHANGED <<fixed, made, own, bound, qemu, sshd, saved, hurt, crashes>>

Free == {p \in Ports : bound[p] = None}

\* _find_free_port: the first port that can be bound, which is not kept.
FindPort(v) ==
  /\ pc[v] = "keyed"
  /\ IF Free = {} THEN Goto(v, "failed") /\ hurt' = hurt \cup {v} /\ UNCHANGED port
     ELSE Goto(v, "port") /\ port' = [port EXCEPT ![v] = Min(Free)] /\ UNCHANGED hurt
  /\ UNCHANGED <<fixed, made, ready, reached, bound, qemu, sshd, accepts, resumed, saved, crashes>>

\* QEMU is forked and binds the port, or exits because it cannot.
Fork(v) ==
  /\ pc[v] = "port" /\ Goto(v, "forked")
  /\ IF bound[port[v]] = None
     THEN /\ qemu' = [qemu EXCEPT ![v] = "up"] /\ bound' = [bound EXCEPT ![port[v]] = v]
          /\ UNCHANGED hurt
     ELSE qemu' = [qemu EXCEPT ![v] = "dead"] /\ hurt' = hurt \cup {v} /\ UNCHANGED bound
  /\ UNCHANGED <<fixed, made, own, sshd, accepts, resumed, saved, crashes>>

\* The unwinding of a launch that failed.
Fail(v) == Goto(v, "failed") /\ Gone(v)

\* wait_for_monitor, cont.
Monitor(v) ==
  /\ pc[v] = "forked"
  /\ IF qemu[v] = "up" THEN /\ Goto(v, IF mode = "vagrant" THEN "rotate" ELSE "wait")
                            /\ UNCHANGED <<qemu, sshd, bound>>
                       ELSE Fail(v)
  /\ UNCHANGED <<fixed, made, own, accepts, resumed, saved, hurt, crashes>>

\* The guest answers.  A guest that boots has run cloud-init: it finds an
\* instance-id that it does not know and adds the key of _make_cloud_init_iso
\* to those on the disk.  A restored guest goes on where it was saved.
Boot(v) ==
  /\ qemu[v] = "up" /\ pc[v] # "forked" /\ v \notin sshd /\ sshd' = sshd \cup {v}
  /\ accepts' = [accepts EXCEPT ![v] = IF mode = "cloud-init" /\ ~auth /\ ~Restored(v)
                                       THEN @ \cup {KeyOf(v)} ELSE @]
  /\ UNCHANGED <<fixed, pc, own, bound, qemu, made, resumed, saved, hurt, crashes>>

\* Mutant: the script leaves the keys of a user that exists alone.
MakeHostUserOnce(v) ==
  /\ auth /\ ~Restored(v) /\ v \in sshd \ made /\ made' = made \cup {v}
  /\ accepts' = [accepts EXCEPT ![v] = IF v \in clash \/ @ # {} THEN @ ELSE {KeyOf(v)}]
  /\ UNCHANGED <<fixed, pc, own, bound, qemu, sshd, resumed, saved, hurt, crashes>>

\* vmocs-create-host-user, a runcmd of cloud-init, replaces the user's
\* authorized_keys, unless it has met an account with that uid or that name.
MakeHostUser(v) ==
  /\ auth /\ ~Restored(v) /\ v \in sshd \ made /\ made' = made \cup {v}
  /\ accepts' = [accepts EXCEPT ![v] = IF v \in clash THEN @ ELSE {KeyOf(v)}]
  /\ UNCHANGED <<fixed, pc, own, bound, qemu, sshd, resumed, saved, hurt, crashes>>

\* Mutant: ssh-copy-id instead of scp.
RotateAppends(v) ==
  /\ pc[v] = "rotate" /\ Goto(v, "wait")
  /\ \E o \in VMs : /\ Answers(v, o) /\ "vagrant" \in accepts[o]
                    /\ accepts' = [accepts EXCEPT ![o] = @ \cup {KeyOf(v)}]
  /\ UNCHANGED <<fixed, made, own, bound, qemu, sshd, resumed, saved, hurt, crashes>>

\* _rotate_vagrant_key: scp with the Vagrant key replaces authorized_keys, in
\* whichever guest answers ...
Rotate(v) ==
  /\ pc[v] = "rotate" /\ Goto(v, "wait")
  /\ \E o \in VMs : /\ Answers(v, o) /\ "vagrant" \in accepts[o]
                    /\ accepts' = [accepts EXCEPT ![o] = {KeyOf(v)}]
  /\ UNCHANGED <<fixed, made, own, bound, qemu, sshd, resumed, saved, hurt, crashes>>

\* ... or is refused, or unanswered, until its deadline.
RotateFails(v) ==
  /\ pc[v] = "rotate" /\ Fail(v)
  /\ \/ qemu[v] = "dead" /\ \A o \in VMs : ~Answers(v, o)
     \/ \E o \in VMs : Answers(v, o) /\ "vagrant" \notin accepts[o]
  /\ UNCHANGED <<fixed, made, own, accepts, resumed, saved, hurt, crashes>>

\* Mutant: the banner is always enough.
WaitSshBanner(v) ==
  /\ pc[v] = "wait" /\ Goto(v, "running")
  /\ \E o \in VMs : Answers(v, o) /\ ready' = [ready EXCEPT ![v] = o]
  /\ UNCHANGED <<fixed, made, port, reached, bound, qemu, sshd, accepts, resumed, saved, hurt, crashes>>

\* wait_for_ssh: a banner is enough, unless the launch is bound to an identity.
WaitSsh(v) ==
  /\ pc[v] = "wait" /\ Goto(v, "running")
  /\ \E o \in VMs : /\ Answers(v, o) /\ (auth => KeyOf(v) \in accepts[o])
                    /\ ready' = [ready EXCEPT ![v] = o]
  /\ UNCHANGED <<fixed, made, port, reached, bound, qemu, sshd, accepts, resumed, saved, hurt, crashes>>

\* It gives up at its deadline.
WaitSshFails(v) ==
  /\ pc[v] = "wait" /\ Fail(v)
  /\ \/ qemu[v] = "dead" /\ \A o \in VMs : ~Answers(v, o)
     \/ /\ auth
        /\ \E o \in VMs : /\ Answers(v, o) /\ KeyOf(v) \notin accepts[o]
                          /\ o = v => v \in made \/ Restored(v)
  /\ UNCHANGED <<fixed, made, own, accepts, resumed, saved, hurt, crashes>>

-----------------------------------------------------------------------------
(* run_attached_session                                                    *)

\* ssh logs in to the guest that answers, or ends with 255.
Connect(v) ==
  /\ pc[v] = "running"
  /\ \/ \E o \in VMs : /\ Answers(v, o) /\ KeyOf(v) \in accepts[o]
                       /\ reached' = [reached EXCEPT ![v] = @ \cup {o}] /\ Goto(v, "in")
     \/ /\ \A o \in VMs : Answers(v, o) => KeyOf(v) \notin accepts[o]
        /\ Goto(v, "lost") /\ UNCHANGED reached
  /\ UNCHANGED <<fixed, made, port, ready, bound, qemu, sshd, accepts, resumed, saved, hurt, crashes>>

\* The guest's command ends, or the connection is lost.
Leave(v) ==
  /\ pc[v] = "in" /\ (Goto(v, "lost") \/ Goto(v, "stopping"))
  /\ UNCHANGED <<fixed, made, own, bound, qemu, sshd, accepts, resumed, saved, hurt, crashes>>

\* Only a session with a terminal and a live QEMU waits for the guest ...
Judge(v) ==
  /\ pc[v] = "lost" /\ Goto(v, IF tty /\ qemu[v] = "up" THEN "reconnect" ELSE "stopping")
  /\ UNCHANGED <<fixed, made, own, bound, qemu, sshd, accepts, resumed, saved, hurt, crashes>>

\* ... that is for an answer on its port, until reconnect_timeout.
Reconnect(v) ==
  /\ pc[v] = "reconnect"
  /\ (Goto(v, "stopping") \/ (Goto(v, "running") /\ \E o \in VMs : Answers(v, o)))
  /\ UNCHANGED <<fixed, made, own, bound, qemu, sshd, accepts, resumed, saved, hurt, crashes>>

\* The session stops its VM and may have been asked to save it.
Stop(v) ==
  /\ pc[v] = "stopping" /\ Goto(v, "ended") /\ Gone(v)
  /\ saved' \in {saved, accepts[v]}
  /\ UNCHANGED <<fixed, made, own, accepts, resumed, hurt, crashes>>

\* A stop from another process, with or without a save.
StopOther(v) ==
  /\ pc[v] \in Launched /\ qemu[v] = "up" /\ Gone(v)
  /\ saved' \in {saved, accepts[v]}
  /\ UNCHANGED <<fixed, made, pc, own, accepts, resumed, hurt, crashes>>

\* QEMU ends by itself.
Crash(v) ==
  /\ qemu[v] = "up" /\ crashes < MaxCrashes /\ crashes' = crashes + 1
  /\ Gone(v) /\ hurt' = hurt \cup {v}
  /\ UNCHANGED <<fixed, made, pc, own, accepts, resumed, saved>>

Done == (\A v \in VMs : pc[v] \in {"failed", "ended"}) /\ UNCHANGED vars

Next ==
  \/ \E v \in VMs :
       \/ Prepare(v) \/ FindPort(v) \/ Fork(v) \/ Monitor(v) \/ Boot(v) \/ MakeHostUser(v)
       \/ Rotate(v) \/ RotateFails(v) \/ WaitSsh(v) \/ WaitSshFails(v) \/ Connect(v) \/ Leave(v) \/ Judge(v)
       \/ Reconnect(v) \/ Stop(v) \/ StopOther(v) \/ Crash(v)
  \/ Done

Spec == Init /\ [][Next]_vars

-----------------------------------------------------------------------------
\* With cloud-init, a session logs in to a guest that is not its own only if
\* that guest carries a disk somebody saved, or if both were restored from the
\* template's memory snapshot and share its key (snapshot.py:11); although a port
\* may have gone to another VM since it was found (_is_per_launch_ssh_key).
NoForeignLogin ==
  mode = "cloud-init" =>
    \A v \in VMs : \A o \in reached[v] \ {v} : o \in resumed \/ (Restored(v) /\ Restored(o))

\* A launch that is bound to an identity reports ready only for an answer of
\* its own guest, even if its QEMU has died and another VM has its port
\* (_requires_authenticated_ssh_readiness).
ReadyIsOwnGuest == auth => \A v \in VMs : ready[v] \in {v, None}

\* Once a Vagrant launch is ready and its QEMU alive, its guest no longer
\* accepts the key everybody knows, whichever launches rotated whose guest
\* (_rotate_vagrant_key).
VagrantKeyRevoked ==
  \A v \in VMs : pc[v] \in Launched /\ qemu[v] = "up" => "vagrant" \notin accepts[v]

\* A launch, fresh or resumed, fails only if its QEMU ended or its port was
\* lost; one that is bound to an identity also fails if the guest has an account
\* in the way (vmocs-create-host-user) or was restored from a snapshot, which
\* does not have the host user.  Keys that a disk already has never lock vmocs out.
FailsOnlyForCause ==
  mode # "vagrant" =>
    \A v \in VMs : pc[v] = "failed" => v \in hurt \/ (auth /\ (v \in clash \/ Restored(v)))

\* A VM resumed from a checkpoint of the same template comes up, unless its
\* QEMU ended or its port was lost (launch_vm with resume_path).
ResumeComesUp == \A v \in resumed : pc[v] = "failed" => v \in hurt

\* A session reconnects while QEMU remains alive, and only then
\* (run_attached_session).
ReconnectsOnlyAlive ==
  [][\A v \in VMs : pc[v] = "reconnect" /\ pc'[v] = "running" => qemu[v] = "up"]_vars
=============================================================================
