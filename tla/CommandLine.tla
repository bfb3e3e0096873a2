---------------------------- MODULE CommandLine ----------------------------
(***************************************************************************)
(* From a template to the QEMU command line: plan_sidecars, preflight_qemu *)
(* and build_qemu_cmdline, in the order launch_vm calls them.  Each reads  *)
(* lists of the template (mounts, emulated devices, extra disks, PCI       *)
(* devices, custom arguments) and numbers what it finds by positions and   *)
(* counters of its own; the numbers must fit together in one machine.      *)
(*                                                                         *)
(* The template's lists are chosen one element per step.  An argument is   *)
(* what it defines, what it refers to and the address it asks for; paths,  *)
(* sizes, cache flags, clock, kernel and firmware are left out, and a      *)
(* check of a value left out is the action Refuse.                         *)
(***************************************************************************)
EXTENDS Naturals, SequencesExt, FiniteSetsExt

CONSTANTS MaxItems,     \* bound: list elements and optional features in all
          MaxDisks,     \* bound: extra disks, when all have the primary's model
          Nil

ASSUME BoundsAssumption == MaxItems \in Nat /\ MaxDisks \in Nat

Emulated == {"rocjitsu", "rocm-ernic"}

(* What an argument can name: ids, addresses, mount tags and sockets, each *)
(* with its number.  A PCI address is 8 * slot + function; "auto" stands   *)
(* for the one that QEMU will choose.                                      *)
Kinds == {"vmocs.ram", "scsi0", "ioth", "vblk", "scsi-hd", "drive", "ahci", "cdrom0", "net0",
          "fsdev", "char_fs", "chrtpm", "tpm0", "charserial0", "serial0", "rng0", "pcie",
          "pci", "scsi", "ahci-port", "port", "auto",
          "tag", "tpm", "virtiofs", "console"} \union Emulated
Resources == Kinds \X Nat

ASSUME NilAssumption == Nil \notin Resources

VARIABLES stage,      \* where launch_vm is
          features,   \* of the template: "tpm", "vnc", "snapshot", "pc"
          mounts,     \* mount-points: the type of each, in the mapping's order
          devices,    \* emulated-devices: the type of each
          plans,      \* the SidecarPlans
          disks,      \* the model of the primary disk and of the extra disks
          mounted,    \* the mounts that _mount_cmdline has gone through
          connected,  \* the plans whose arguments are on the line
          pci,        \* the passthrough devices placed so far
          cmd         \* the command line

template == <<features, mounts, devices, plans>>
progress == <<disks, mounted, connected, pci>>
lineVars == <<stage, template, progress, cmd>>

Models == {"virtio", "virtio-scsi", "nvme", "ide"}

-----------------------------------------------------------------------------
(* Arguments.                                                              *)
Arg(opt, id, uses, bus, at, path) ==
  [opt |-> opt, id |-> id, uses |-> uses, bus |-> bus, at |-> at, path |-> path]
Id(name)          == <<name, 0>>
AutoSlot          == Id("auto")
Pcie0             == Id("pcie")
Flag(opt)         == Arg(opt, Nil, {}, Nil, Nil, Nil)
Backend(opt, id)  == Arg(opt, id, {}, Nil, Nil, Nil)
Chardev(id, path) == Arg("-chardev", id, {}, Nil, Nil, path)
Device(uses)      == Arg("-device", Nil, uses, Pcie0, AutoSlot, Nil)
If(holds, args)   == IF holds THEN args ELSE <<>>

Adds(args) == cmd' = cmd \o args

(* block_cmdline.  A virtio disk is one of three functions of a slot; its  *)
(* slot is printed in decimal and QEMU reads it as hexadecimal.            *)
ReadAsHex(x) == 16 * (x \div 10) + (x % 10)

VirtioAtShifted(k) ==              \* mutant: the index is not brought to 0
  <<"pci", IF k = 0 THEN 8 * ReadAsHex(6) ELSE 8 * ReadAsHex(k \div 3 + 7) + (k % 3)>>
VirtioAtLow(k) ==                  \* mutant: the slots begin at the first
  <<"pci", IF k = 0 THEN 8 * ReadAsHex(6) ELSE 8 * ReadAsHex((k - 1) \div 3 + 1) + ((k - 1) % 3)>>
VirtioAt(k) ==
  <<"pci", IF k = 0 THEN 8 * ReadAsHex(6) ELSE 8 * ReadAsHex((k - 1) \div 3 + 7) + ((k - 1) % 3)>>

Drive(k)    == <<"drive", k>>
Blockdev(k) == Backend("-blockdev", Drive(k))
IoThread(k) == Backend("-object", <<"ioth", k>>)

AhciNever(k) == <<>>               \* mutant: the controller is left to the machine
Ahci(k)      == If(k = 0, <<Arg("-device", Id("ahci"), {}, Pcie0, <<"pci", 8 * 6>>, Nil)>>)

Block(model, k) ==
  CASE model = "virtio" ->
         <<IoThread(k), Arg("-device", <<"vblk", k>>, {Drive(k)}, Pcie0, VirtioAt(k), Nil),
           Blockdev(k)>>
    [] model = "virtio-scsi" ->
         <<IoThread(k),
           Arg("-device", <<"scsi-hd", k>>, {Drive(k)}, Id("scsi0"), <<"scsi", k>>, Nil),
           Blockdev(k)>>
    [] model = "nvme" -> <<Device({Drive(k)}), Blockdev(k)>>
    [] model = "ide"  ->
         Ahci(k) \o <<Arg("-device", Nil, {Drive(k)}, Id("ahci"), <<"ahci-port", k>>, Nil),
                      Blockdev(k)>>

-----------------------------------------------------------------------------
Items == Cardinality(features) + Len(mounts) + Len(devices) + Len(pci)
         + IF disks = <<>> THEN 0 ELSE Len(disks) - 1

LineInit ==
  /\ stage = "plan"
  /\ features \in {F \in SUBSET {"tpm", "vnc", "snapshot", "pc"} : Cardinality(F) <= MaxItems}
  /\ mounts = <<>> /\ devices = <<>> /\ plans = <<>> /\ disks = <<>>
  /\ mounted = 0 /\ connected = 0
  /\ pci = <<>> /\ cmd = <<>>

Plan(kind, num, socket, shared, args) ==
  [kind |-> kind, name |-> <<kind, num>>, socket |-> socket, shared |-> shared, args |-> args]

(* A check failed: launch_vm raises before vm.json is written.             *)
Fail ==
  /\ stage' = "failed"
  /\ mounts' = <<>> /\ devices' = <<>> /\ plans' = <<>> /\ disks' = <<>>
  /\ mounted' = 0 /\ connected' = 0
  /\ pci' = <<>> /\ cmd' = <<>>
  /\ UNCHANGED features

(* The checks of values the model leaves out: malformed lists and          *)
(* mappings, unknown cache or display modes, a firmware without its        *)
(* variables, a missing directory, profile or QEMU.                        *)
Refuse == stage \notin {"done", "failed"} /\ Fail

(* plan_sidecars: the TPM, then the mounts in order, then the devices.     *)
Tpm ==
  Plan("swtpm", 0, Id("tpm"), FALSE,
       <<Chardev(Id("chrtpm"), Id("tpm")),
         Arg("-tpmdev", Id("tpm0"), {Id("chrtpm")}, Nil, Nil, Nil),
         Arg("-device", Nil, {Id("tpm0")}, Nil, Nil, Nil)>>)

PlanTpm ==
  /\ stage = "plan"
  /\ stage' = "mounts"
  /\ plans' = If("tpm" \in features, <<Tpm>>)
  /\ UNCHANGED <<features, mounts, devices, progress, cmd>>

VirtioFs(m) ==
  Plan("virtiofsd", m, <<"virtiofs", m>>, TRUE,
       <<Chardev(<<"char_fs", m>>, <<"virtiofs", m>>),
         Device({<<"char_fs", m>>, <<"tag", m>>})>>)

PlanMount(type, readonly) ==
  /\ stage = "mounts" /\ Items < MaxItems
  /\ IF type = "virtio-fs" /\ readonly THEN Fail
     ELSE /\ mounts' = Append(mounts, type)
          /\ plans' = plans \o If(type = "virtio-fs", <<VirtioFs(Len(mounts))>>)
          /\ UNCHANGED <<stage, features, devices, progress, cmd>>

EndMounts ==
  /\ stage = "mounts" /\ stage' = "devices"
  /\ UNCHANGED <<template, progress, cmd>>

(* The number of an emulated device counts those of its own type; its id   *)
(* and its socket are called after both.                                   *)
InstanceOne(type) == 0             \* mutant: the counter is not advanced
Instance(type)    == Cardinality({i \in DOMAIN devices : devices[i] = type})

VfioUser(type, num) ==
  Plan(type, num, <<type, num>>, TRUE,
       <<Arg("-device", <<type, num>>, {}, Pcie0, AutoSlot, <<type, num>>)>>)

PlanDevice(type) ==
  /\ stage = "devices" /\ Items < MaxItems
  /\ plans' = Append(plans, VfioUser(type, Instance(type)))
  /\ devices' = Append(devices, type)
  /\ UNCHANGED <<stage, features, mounts, progress, cmd>>

-----------------------------------------------------------------------------
HasVfioUser == \E p \in ToSet(plans) : p.kind \in Emulated

(* preflight_qemu: vfio-user devices need q35 and no memory snapshot.      *)
PreflightQemu ==
  /\ stage = "devices"
  /\ IF HasVfioUser /\ features \intersect {"snapshot", "pc"} # {} THEN Fail
     ELSE /\ stage' = "machine"
          /\ UNCHANGED <<template, progress, cmd>>

SharedMemoryVfio == HasVfioUser    \* mutant: only the device emulators share it
SharedMemory     == \E p \in ToSet(plans) : p.shared

(* build_qemu_cmdline, up to the primary disk.                             *)
Machine ==
  /\ stage = "machine" /\ stage' = "disks"
  /\ Adds(If(SharedMemory, <<Backend("-object", Id("vmocs.ram"))>>)
          \o <<Arg("-machine", Nil, {r \in {Id("vmocs.ram")} : SharedMemory}, Nil, Nil, Nil)>>
          \o If("snapshot" \in features, <<Flag("-incoming")>>)
          \o <<Flag("-S")>>
          \o If("vnc" \in features, <<Device({})>>)
          \o <<Arg("-device", Id("scsi0"), {}, Pcie0, AutoSlot, Nil)>>)
  /\ UNCHANGED <<template, progress>>

(* The primary disk, then one extra disk: its own model, or the primary's. *)
Uniform == \A i \in DOMAIN disks : disks[i] = disks[1]

Disk(model) ==
  /\ stage = "disks"
  /\ \/ disks = <<>>
     \/ Items < MaxItems
     \/ /\ disks # <<>> /\ Uniform /\ model = disks[1]
        /\ Items = Len(disks) - 1 /\ Len(disks) <= MaxDisks
  /\ disks' = Append(disks, model)
  /\ Adds(Block(model, Len(disks)))
  /\ UNCHANGED <<stage, template, mounted, connected, pci>>

(* The cloud-init image, a CD on the SCSI controller.                      *)
CloudInit(iso) ==
  /\ stage = "disks" /\ disks # <<>> /\ stage' = "net"
  /\ Adds(If(iso, <<Backend("-drive", Id("cdrom0")),
                    Arg("-device", Nil, {Id("cdrom0")}, Id("scsi0"), Nil, Nil)>>))
  /\ UNCHANGED <<template, progress>>

(* _network_cmdline: one backend and one device, whatever the mode and the *)
(* options; an option that is not accepted is a case of Refuse.            *)
Network ==
  /\ stage = "net" /\ stage' = "attach"
  /\ Adds(<<Backend("-netdev", Id("net0")), Device({Id("net0")})>>)
  /\ UNCHANGED <<template, progress>>

(* _mount_cmdline, one mount: 9p here, virtio-fs left to its plan, another *)
(* type is an error.                                                       *)
NinePAll(m) ==                     \* mutant: virtio-fs is not skipped
  <<Backend("-fsdev", <<"fsdev", m>>), Device({<<"fsdev", m>>, <<"tag", m>>})>>
NineP(m) ==
  If(mounts[m + 1] # "virtio-fs",
     <<Backend("-fsdev", <<"fsdev", m>>), Device({<<"fsdev", m>>, <<"tag", m>>})>>)

Mount ==
  /\ stage = "attach" /\ mounted < Len(mounts)
  /\ IF mounts[mounted + 1] = "unknown" THEN Fail
     ELSE /\ mounted' = mounted + 1
          /\ Adds(NineP(mounted))
          /\ UNCHANGED <<stage, template, disks, connected, pci>>

(* The arguments of the plans, in their order.                             *)
PlanArgsOnce(p) ==                 \* mutant: one device of each type
  If(~(p.kind \in Emulated /\ p.name[2] > 0), p.args)
PlanArgs(p) == p.args

Connect ==
  /\ stage = "attach" /\ mounted = Len(mounts) /\ connected < Len(plans)
  /\ connected' = connected + 1
  /\ Adds(PlanArgs(plans[connected + 1]))
  /\ UNCHANGED <<stage, template, disks, mounted, pci>>

(* QMP, the console and the RNG.                                           *)
Console ==
  /\ stage = "attach" /\ mounted = Len(mounts) /\ connected = Len(plans)
  /\ stage' = "pci"
  /\ Adds(<<Flag("-qmp")>>
          \o <<Chardev(Id("charserial0"), Id("console")),
               Arg("-device", Id("serial0"), {Id("charserial0")}, Nil, Nil, Nil)>>
          \o <<Backend("-object", Id("rng0")), Device({Id("rng0")})>>)
  /\ UNCHANGED <<template, progress>>

(* A passed-through device, behind a root port of its own if the template  *)
(* says so, one setting for all of them.  The chassis and the slot of a    *)
(* root port follow from the number in its id.                             *)
RootPort(i) == <<Arg("-device", <<"pcie", 6 + i>>, {}, Pcie0, AutoSlot, Nil),
                 Arg("-device", Nil, {}, <<"pcie", 6 + i>>, <<"port", 6 + i>>, Nil)>>

PassThrough(rootPort) ==
  /\ stage = "pci" /\ Items < MaxItems
  /\ \A i \in DOMAIN pci : pci[i] = rootPort
  /\ pci' = Append(pci, rootPort)
  /\ Adds(IF rootPort THEN RootPort(Len(pci)) ELSE <<Device({})>>)
  /\ UNCHANGED <<stage, template, disks, mounted, connected>>

(* custom-args are appended verbatim, all but -no-shutdown, which the      *)
(* command adds for a session that watches QMP for SHUTDOWN.  The          *)
(* template's own arguments can define anything; here they are nothing, a  *)
(* flag, or a device without an address, which QEMU places like the others.*)
Custom(opt) ==
  CASE opt \in {"none", "-no-shutdown"} -> <<>>
    [] opt = "-device"                  -> <<Device({})>>
    [] opt = "-custom"                  -> <<Flag("-custom")>>

Finish(opt, supervised) ==
  /\ stage = "pci" /\ stage' = "done"
  /\ Adds(Custom(opt) \o If(supervised, <<Flag("-no-shutdown")>>))
  /\ UNCHANGED <<template, progress>>

LineNext ==
  \/ Refuse \/ PlanTpm \/ EndMounts \/ PreflightQemu \/ Machine
  \/ \E type \in {"virtio-9p", "virtio-fs", "unknown"}, ro \in BOOLEAN : PlanMount(type, ro)
  \/ \E type \in Emulated : PlanDevice(type)
  \/ \E model \in Models : Disk(model)
  \/ \E iso \in BOOLEAN : CloudInit(iso)
  \/ Network \/ Mount \/ Connect \/ Console
  \/ \E rootPort \in BOOLEAN : PassThrough(rootPort)
  \/ \E opt \in {"none", "-no-shutdown", "-device", "-custom"}, supervised \in BOOLEAN :
       Finish(opt, supervised)

LineSpec == LineInit /\ [][LineNext]_lineVars

-----------------------------------------------------------------------------
(* Properties of the line itself, whatever QEMU makes of it.               *)

Options == {"-machine", "-incoming", "-S", "-object", "-device", "-blockdev", "-drive",
            "-netdev", "-fsdev", "-chardev", "-tpmdev", "-qmp", "-custom", "-no-shutdown"}
Arguments == [opt : Options, id : Resources \union {Nil}, uses : SUBSET Resources,
              bus : Resources \union {Nil}, at : Resources \union {Nil},
              path : Resources \union {Nil}]

(* Every variable holds what the code can put there.                       *)
LineTypeOK ==
  /\ stage \in {"plan", "mounts", "devices", "machine", "disks", "net", "attach",
                "pci", "done", "failed"}
  /\ features \subseteq {"tpm", "vnc", "snapshot", "pc"}
  /\ mounts \in Seq({"virtio-9p", "virtio-fs", "unknown"}) /\ devices \in Seq(Emulated)
  /\ plans \in Seq({Tpm} \union {VirtioFs(i - 1) : i \in DOMAIN mounts}
                   \union {VfioUser(type, i - 1) : type \in Emulated, i \in DOMAIN devices})
  /\ disks \in Seq(Models) /\ pci \in Seq(BOOLEAN)
  /\ mounted \in 0..Len(mounts) /\ connected \in 0..Len(plans)
  /\ cmd \in Seq(Arguments)

OnLine == ToSet(cmd)
Ids    == {a.id : a \in OnLine} \ {Nil}
Tags(a) == {u \in a.uses : u[1] = "tag"}

(* What an argument takes for itself.                                      *)
Claims(a) == ({a.id, a.at, a.path} \union Tags(a)) \ {Nil, AutoSlot}

(* Nothing on one command line is claimed twice: no id, PCI address, SCSI  *)
(* id, AHCI port, root port, mount tag or socket, and no name of a         *)
(* sidecar, whatever mixture of lists the template holds and although each *)
(* generator numbers for itself.                                           *)
NothingTwice ==
  stage = "done" =>
    /\ \A i, j \in DOMAIN cmd : i # j => Claims(cmd[i]) \intersect Claims(cmd[j]) = {}
    /\ \A i, j \in DOMAIN plans : i # j => /\ plans[i].name # plans[j].name
                                          /\ plans[i].socket # plans[j].socket

(* The guest finds a slot by its function 0, so disks of one model are all *)
(* visible only if the packing of virtio disks leaves no slot without one. *)
Visible ==
  \A a \in OnLine : a.at # Nil /\ a.at[1] = "pci" =>
    \E b \in OnLine : b.at = <<"pci", 8 * (a.at[2] \div 8)>>
DisksVisible == stage = "done" /\ Uniform => Visible

(* What an argument refers to is on the line, and a bus before the device  *)
(* that sits on it: QEMU creates devices in order.  Root ports are of the  *)
(* q35 machine and AHCI of the primary disk, which has six ports.          *)
Sane == /\ TRUE \in ToSet(pci) => "pc" \notin features
        /\ "ide" \in ToSet(disks) => disks[1] = "ide" /\ Len(disks) <= 6
RefersToNothingMissing ==
  stage = "done" /\ Sane =>
    \A i \in DOMAIN cmd :
      /\ cmd[i].uses \ Tags(cmd[i]) \subseteq Ids
      /\ cmd[i].bus \in {Nil, Pcie0} \union {cmd[j].id : j \in 1..(i - 1)}
      /\ cmd[i].at # Nil /\ cmd[i].at[1] = "ahci-port" => cmd[i].at[2] \in 0..5

(* The line of any accepted template is of one piece (build_qemu_cmdline). *)
LineIsWhole == LineTypeOK /\ NothingTwice /\ DisksVisible /\ RefersToNothingMissing

(* A process outside QEMU that serves a device sees the guest's memory:    *)
(* the shared backend exists and is bound to the machine exactly when some *)
(* sidecar of the line is a vhost-user or vfio-user server.                *)
Served(a) == a.opt = "-device" /\ (a.path # Nil \/ \E u \in a.uses : u[1] = "char_fs")
MemoryIsShared ==
  stage = "done" =>
    ((\E a \in OnLine : Served(a)) <=>
     (\E a \in OnLine : a.opt = "-machine" /\ Id("vmocs.ram") \in a.uses))

(* plan_sidecars and _mount_cmdline split the mounts between them: each    *)
(* tag of the template is served by a device, and by one only, not by a 9p *)
(* device and a virtiofsd at once.                                         *)
ServedOnce(r, i) ==
  /\ r \in Claims(cmd[i])
  /\ \A j \in DOMAIN cmd : r \in Claims(cmd[j]) => j = i
MountsServedOnce ==
  stage = "done" =>
    \A m \in 0..(Len(mounts) - 1) : \E i \in DOMAIN cmd : ServedOnce(<<"tag", m>>, i)

(* Every sidecar that will be started has its socket on the line once: no  *)
(* process is started that nothing connects to.                            *)
SidecarsConnected ==
  stage = "done" =>
    \A p \in ToSet(plans) : \E i \in DOMAIN cmd : ServedOnce(p.socket, i)

(* plan_sidecars and build_qemu_cmdline agree, although each walks the     *)
(* template's lists for itself.                                            *)
SidecarsServe == MemoryIsShared /\ MountsServedOnce /\ SidecarsConnected

(* What the documentation says of extra disks of any mixture of models:    *)
(* they all appear inside the guest.                                       *)
ExtraDisksAppear == stage = "done" => Visible

-----------------------------------------------------------------------------
(* QEMU puts a device without an address into the first slot whose         *)
(* function 0 is free, in the order of the command line.  The chipset and  *)
(* the default VGA device come first.                                      *)
BuiltIn  == IF "pc" \in features THEN 0..2 ELSE 0..1
Taken(c) == BuiltIn \union
            {c[i].at[2] \div 8 : i \in {j \in DOMAIN c : c[j].bus = Pcie0 /\ c[j].at[2] % 8 = 0}}
Placed(c, a) ==
  Append(c, IF a.at # AutoSlot THEN a
            ELSE [a EXCEPT !.at = <<"pci", 8 * Min((1..30) \ Taken(c))>>])
Placement == FoldLeft(Placed, <<>>, cmd)

(* Two functions share a PCI slot only if both are virtio disks: those are *)
(* the ones that say multifunction=on.                                     *)
MultiFunction(a) == a.id # Nil /\ a.id[1] = "vblk"
Collide(a, b) ==
  /\ a.at[2] \div 8 = b.at[2] \div 8
  /\ a.at = b.at \/ ~(MultiFunction(a) /\ MultiFunction(b))

Fits ==
  LET line == Placement
      onBus == {i \in DOMAIN line : line[i].bus = Pcie0}
  IN  /\ \A i \in onBus : line[i].at[2] \div 8 \in 0..31
      /\ \A i, j \in onBus : i # j => ~Collide(line[i], line[j])

(* The machine that QEMU builds from the line of a template whose disks    *)
(* are of one model comes up with all its devices (build_qemu_cmdline):    *)
(* every one on the root bus has one of 32 slots, with what QEMU places by *)
(* itself between the slots that the code counts out, and no two of them   *)
(* meet.                                                                   *)
MachineFits == stage = "done" /\ Uniform => Fits

(* The same for any mixture of models, which the documentation shows.  A   *)
(* virtio disk after an extra disk of another model is function 1 of a     *)
(* slot whose function 0 nobody has asked for: the device that QEMU places *)
(* there is refused beside it.                                             *)
MixedMachineFits == stage = "done" => Fits
=============================================================================
