----------------------------- MODULE Checkpoint ------------------------------
(***************************************************************************)
(* create_checkpoint of checkpoint.py, run by any number of processes that  *)
(* save to the same destination: the supervisor of a VM, the stop commands  *)
(* and the exit hook that retry its save, and the same for other VMs.  Each *)
(* builds a bundle in a private directory next to the destination and       *)
(* renames it into place; its caller then removes the runtime directory.    *)
(*                                                                         *)
(* Processes are killed at any step, file operations fail, and the host may *)
(* lose power: what was not flushed by then is lost or torn.               *)
(***************************************************************************)
EXTENDS Naturals

CONSTANTS
  Savers,         \* the processes that save
  Vms,            \* the VMs they save
  Ids,            \* checkpoint identities
  VmOf,           \* the VM each of them saves
  IdOf,           \* the checkpoint_id in its metadata
  None,           \* nothing at the destination
  Foreign,        \* something at the destination that no saver put there
  MaxLosses       \* bound on power failures

Files == {"disk", "manifest", "complete"}
Contents == {"absent", "torn", "whole"}

ASSUME SaversAssumption ==
  /\ VmOf \in [Savers -> Vms] /\ IdOf \in [Savers -> Ids]
  /\ \A s, t \in Savers : IdOf[s] = IdOf[t] => VmOf[s] = VmOf[t]
  /\ None \notin Savers /\ Foreign \notin Savers /\ None # Foreign
  /\ MaxLosses \in Nat

VARIABLES
  pc,             \* where each saver is
  overlay,        \* does each VM's overlay still exist?
  temp,           \* the savers whose private directory exists
  file,           \* the files of each saver's bundle
  flushed,        \* those that are on disk; "dir" for their directory
  dest,           \* whose bundle is at the destination
  stable,         \* is the destination's directory entry on disk?
  losses          \* power failures so far

bundleVars == <<temp, file, flushed>>
destVars == <<dest, stable>>
vars == <<pc, overlay, bundleVars, destVars, losses>>

Busy  == {"source", "open", "copying", "check", "manifest", "complete", "flush",
          "recheck", "rename", "sync", "drop"}
Saved == {"published", "found", "retired"}
PCs   == {"idle", "failed", "killed"} \cup Busy \cup Saved

\* The type invariant.
TypeOK ==
  /\ pc \in [Savers -> PCs]
  /\ overlay \in [Vms -> BOOLEAN]
  /\ temp \subseteq Savers
  /\ file \in [Savers -> [Files -> Contents]]
  /\ flushed \in [Savers -> SUBSET (Files \cup {"dir"})]
  /\ dest \in Savers \cup {None, Foreign}
  /\ stable \in BOOLEAN
  /\ losses \in Nat

Init ==
  /\ pc = [s \in Savers |-> "idle"]
  /\ overlay = [v \in Vms |-> TRUE]
  /\ temp = {}
  /\ file = [s \in Savers |-> [f \in Files |-> "absent"]]
  /\ flushed = [s \in Savers |-> {}]
  /\ dest \in {None, Foreign} /\ stable = TRUE
  /\ losses = 0

Goto(s, l) == pc' = [pc EXCEPT ![s] = l]

\* load_checkpoint accepts the bundle: its COMPLETE marker, its manifest and
\* its disk are all there and sound.
Loadable(s) == \A f \in Files : file[s][f] = "whole"

-----------------------------------------------------------------------------
(* create_checkpoint, step by step.                                        *)

\* The destination: a loadable bundle with the same identity is the result
\* of an earlier attempt, anything else, or one that does not load, is in the way.
CheckDestination(s) ==
  /\ pc[s] = "idle"
  /\ \/ dest = None /\ Goto(s, "source")
     \/ /\ dest \in Savers /\ Loadable(dest) /\ IdOf[dest] = IdOf[s]
        /\ Goto(s, "found")
     \/ dest # None /\ Goto(s, "failed")
  /\ UNCHANGED <<overlay, bundleVars, destVars, losses>>

\* The overlay exists and passes qemu-img check; then the private directory.
CheckSource(s) ==
  /\ pc[s] = "source"
  /\ \/ overlay[VmOf[s]] /\ Goto(s, "open") /\ temp' = temp \cup {s}
     \/ Goto(s, "failed") /\ UNCHANGED temp
  /\ UNCHANGED <<overlay, file, flushed, destVars, losses>>

\* _copy_disk opens the overlay, which another process may have removed ...
OpenDisk(s) ==
  /\ pc[s] = "open"
  /\ \/ /\ overlay[VmOf[s]]
        /\ file' = [file EXCEPT ![s]["disk"] = "torn"]
        /\ Goto(s, "copying")
     \/ Goto(s, "drop") /\ UNCHANGED file
  /\ UNCHANGED <<overlay, temp, flushed, destVars, losses>>

\* A file of the bundle is written to its end and flushed, or that fails.
WriteFile(s, from, f, to) ==
  /\ pc[s] = from
  /\ \/ /\ file' = [file EXCEPT ![s][f] = "whole"]
        /\ flushed' = [flushed EXCEPT ![s] = @ \cup {f}]
        /\ Goto(s, to)
     \/ /\ Goto(s, "drop") /\ UNCHANGED <<file, flushed>>
  /\ UNCHANGED <<overlay, temp, destVars, losses>>

\* ... and copies it.
CopyDisk(s) == WriteFile(s, "copying", "disk", "check")

\* qemu-img check and the backing file of the copy.
CheckCopy(s) ==
  /\ pc[s] = "check"
  /\ Goto(s, "manifest") \/ Goto(s, "drop")
  /\ UNCHANGED <<overlay, bundleVars, destVars, losses>>

WriteManifest(s) == WriteFile(s, "manifest", "manifest", "complete")

WriteComplete(s) == WriteFile(s, "complete", "complete", "flush")

\* (Mutant: the private directory is not flushed.)
FlushBundleNoDir(s) ==
  /\ pc[s] = "flush" /\ Goto(s, "recheck")
  /\ UNCHANGED <<overlay, bundleVars, destVars, losses>>

\* Ownership, the disk again, and the private directory itself.
FlushBundle(s) ==
  /\ pc[s] = "flush"
  /\ \/ /\ flushed' = [flushed EXCEPT ![s] = @ \cup {"disk", "dir"}]
        /\ Goto(s, "recheck")
     \/ Goto(s, "drop") /\ UNCHANGED flushed
  /\ UNCHANGED <<overlay, temp, file, destVars, losses>>

\* Did something appear at the destination meanwhile?
Recheck(s) ==
  /\ pc[s] = "recheck"
  /\ Goto(s, IF dest = None THEN "rename" ELSE "drop")
  /\ UNCHANGED <<overlay, bundleVars, destVars, losses>>

\* (Mutant: a rename that replaces what is there.)
RenameOver(s) ==
  /\ pc[s] = "rename"
  /\ dest' = s /\ stable' = FALSE
  /\ temp' = temp \ {s}
  /\ Goto(s, "sync")
  /\ UNCHANGED <<overlay, file, flushed, losses>>

\* rename(2) never replaces a non-empty directory or a file by a directory; an
\* empty directory that somebody has made since the check gives way.
Rename(s) ==
  /\ pc[s] = "rename"
  /\ \/ /\ dest \in {None, Foreign}
        /\ dest' = s /\ stable' = FALSE
        /\ temp' = temp \ {s}
        /\ Goto(s, "sync")
     \/ dest # None /\ Goto(s, "drop") /\ UNCHANGED <<temp, destVars>>
  /\ UNCHANGED <<overlay, file, flushed, losses>>

\* (Mutant: the parent is not flushed.)
SyncParentSkipped(s) ==
  /\ pc[s] = "sync" /\ Goto(s, "published")
  /\ UNCHANGED <<overlay, bundleVars, destVars, losses>>

\* Flush the parent.  If that fails the bundle stays published all the same.
SyncParent(s) ==
  /\ pc[s] = "sync"
  /\ \/ stable' = TRUE /\ Goto(s, "published")
     \/ Goto(s, "failed") /\ UNCHANGED stable
  /\ UNCHANGED <<overlay, bundleVars, dest, losses>>

\* The finally clause: rmtree, whose own errors are ignored.
DropBundle(s) ==
  /\ pc[s] = "drop"
  /\ temp' = temp \ {s} \/ UNCHANGED temp
  /\ Goto(s, "failed")
  /\ UNCHANGED <<overlay, file, flushed, destVars, losses>>

\* (Mutant: the runtime directory goes even after a failed save.)
RetireAnyway(s) ==
  /\ pc[s] \in {"published", "found", "failed"}
  /\ overlay' = [overlay EXCEPT ![VmOf[s]] = FALSE]
  /\ Goto(s, "retired")
  /\ UNCHANGED <<bundleVars, destVars, losses>>

\* teardown_vm and run_attached_session remove the runtime directory, and
\* with it the overlay, once create_checkpoint has returned.
Retire(s) ==
  /\ pc[s] \in {"published", "found"}
  /\ overlay' = [overlay EXCEPT ![VmOf[s]] = FALSE]
  /\ Goto(s, "retired")
  /\ UNCHANGED <<bundleVars, destVars, losses>>

Save(s) ==
  \/ CheckDestination(s) \/ CheckSource(s) \/ OpenDisk(s) \/ CopyDisk(s)
  \/ CheckCopy(s) \/ WriteManifest(s) \/ WriteComplete(s) \/ FlushBundle(s)
  \/ Recheck(s) \/ Rename(s) \/ SyncParent(s) \/ DropBundle(s) \/ Retire(s)

-----------------------------------------------------------------------------
(* The environment.                                                        *)

\* SIGKILL.
Kill(s) ==
  /\ pc[s] \in Busy
  /\ Goto(s, "killed")
  /\ UNCHANGED <<overlay, bundleVars, destVars, losses>>

\* Somebody puts something else at the destination.
Intrude ==
  /\ dest = None
  /\ dest' = Foreign /\ stable' = FALSE
  /\ UNCHANGED <<pc, overlay, bundleVars, losses>>

\* What a file may hold after a power failure.
Survivors(s, f) ==
  IF {f, "dir"} \subseteq flushed[s] THEN {file[s][f]}
  ELSE IF f \in flushed[s] THEN {"absent", file[s][f]}
  ELSE {"absent", "torn", file[s][f]}

\* The host loses power and comes back.  A rename that was not flushed may
\* be undone: the bundle is back under its private name, and so is what it has
\* replaced.  What is left under the private names is never read again, so its damage is not modelled.
PowerLoss ==
  /\ losses < MaxLosses
  /\ losses' = losses + 1
  /\ pc' = [s \in Savers |-> IF pc[s] \in Busy \cup {"published", "found"}
                             THEN "killed" ELSE pc[s]]
  /\ IF dest \in Savers
     THEN \E rest \in [Files -> Contents] :
            /\ \A f \in Files : rest[f] \in Survivors(dest, f)
            /\ file' = [file EXCEPT ![dest] = rest]
     ELSE UNCHANGED file
  /\ \/ UNCHANGED <<dest, temp>>
     \/ ~stable /\ dest' \in {None, Foreign} /\ temp' = temp \cup ({dest} \cap Savers)
  /\ stable' = TRUE
  /\ UNCHANGED <<overlay, flushed>>

Environment == (\E s \in Savers : Kill(s)) \/ Intrude \/ PowerLoss

\* Every process has ended.
Idle == /\ \A s \in Savers : pc[s] \in {"failed", "killed", "retired"}
        /\ UNCHANGED vars

Next == (\E s \in Savers : Save(s)) \/ Environment \/ Idle

Spec == Init /\ [][Next]_vars

-----------------------------------------------------------------------------
(* Properties.                                                             *)

(***************************************************************************)
(* "A partial export is never mistaken for a valid checkpoint"              *)
(* (vmocs-save-resume-plan.md): whatever create_checkpoint has put at the   *)
(* destination is complete, after kills, races and power failures too.      *)
(***************************************************************************)
CompleteOrAbsent == dest \in Savers => Loadable(dest)

\* What a reader finds at the destination.  A broken bundle is nothing that
\* the store may hold.
Found == IF dest \in Savers /\ ~Loadable(dest) THEN <<"broken", dest>> ELSE dest

Store == INSTANCE CheckpointStore
           WITH Bundles <- Savers, Absent <- None, held <- Found

(***************************************************************************)
(* create_checkpoint implements the checkpoint store: bundles appear at the *)
(* destination at once and complete, are never replaced by another saver's  *)
(* rename, and only a power failure before the parent directory was flushed *)
(* takes one back.                                                         *)
(***************************************************************************)
ImplementsStore == Store!Spec

\* VM v is saved again by a process that shares its predecessor's identity.
Retried(v) ==
  \E s, t \in Savers : s # t /\ IdOf[s] = IdOf[t] /\ VmOf[s] = v

\* The data of v is in its overlay or in a loadable checkpoint of that very VM.
Held(v) == overlay[v] \/ (dest \in Savers /\ VmOf[dest] = v /\ Loadable(dest))

(***************************************************************************)
(* "Save failure preserves the source state for retry" (and the docstring   *)
(* of create_checkpoint): the data of a VM is held, whoever saves, fails or *)
(* is killed, and also after power failures unless its save was retried.    *)
(***************************************************************************)
SourceRetained == \A v \in Vms : losses = 0 \/ ~Retried(v) => Held(v)

(***************************************************************************)
(* "retain whatever sealed or recoverable source exists" after a host crash *)
(* (vmocs-save-resume-plan.md), retried or not.  Does not hold: a retry     *)
(* that finds its predecessor's bundle returns without flushing the         *)
(* directory that names it.                                                *)
(***************************************************************************)
CrashRetainsSource == \A v \in Vms : Held(v)
=============================================================================
