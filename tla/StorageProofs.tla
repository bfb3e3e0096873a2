--------------------------- MODULE StorageProofs -----------------------------
(***************************************************************************)
(* Proofs about the two things vmocs stores: the checkpoint bundle of       *)
(* create_checkpoint, for any number of savers, VMs and power failures, and *)
(* vm.json, for any number of writers, versions and power failures.         *)
(***************************************************************************)
EXTENDS Checkpoint, VmMetadata, TLAPS

USE SaversAssumption

-----------------------------------------------------------------------------
(* Types.                                                                  *)

(* Every reachable state of the savers, their bundles and the destination    *)
(* is well typed. *)
THEOREM TypeCorrect == Spec => []TypeOK
<1>1. Init => TypeOK
  BY DEF Init, TypeOK, PCs, Files, Contents
<1>2. TypeOK /\ [Next]_vars => TypeOK'
  <2> SUFFICES ASSUME TypeOK, [Next]_vars PROVE TypeOK'
    OBVIOUS
  <2> USE DEF TypeOK, PCs, Busy, Saved, Goto, bundleVars, destVars
  <2>1. ASSUME NEW s \in Savers, Save(s) PROVE TypeOK'
    <3>0. ASSUME NEW f \in Files, NEW c \in Contents
          PROVE  [file EXCEPT ![s][f] = c] \in [Savers -> [Files -> Contents]]
      OBVIOUS
    <3>1. ASSUME NEW from, NEW f \in Files, NEW to \in PCs, WriteFile(s, from, f, to)
          PROVE  TypeOK'
      <4>1. "whole" \in Contents /\ "drop" \in PCs
        BY DEF Contents
      <4>2. file' \in [Savers -> [Files -> Contents]]
        <5>1. [file EXCEPT ![s][f] = "whole"] \in [Savers -> [Files -> Contents]]
          BY <3>0, <4>1
        <5>2. file' = [file EXCEPT ![s][f] = "whole"] \/ file' = file
          BY <3>1 DEF WriteFile
        <5> QED
          BY <5>1, <5>2
      <4>3. flushed' \in [Savers -> SUBSET (Files \cup {"dir"})]
        <5>1. flushed[s] \cup {f} \in SUBSET (Files \cup {"dir"})
          OBVIOUS
        <5> QED
          BY <3>1, <5>1 DEF WriteFile
      <4> QED
        BY <3>1, <4>1, <4>2, <4>3 DEF WriteFile
    <3>2. CASE CopyDisk(s) \/ WriteManifest(s) \/ WriteComplete(s)
      BY <3>1, <3>2 DEF CopyDisk, WriteManifest, WriteComplete, Files
    <3>3. CASE OpenDisk(s)
      <4>1. "torn" \in Contents /\ "disk" \in Files
        BY DEF Contents, Files
      <4>2. file' \in [Savers -> [Files -> Contents]]
        <5>1. [file EXCEPT ![s]["disk"] = "torn"] \in [Savers -> [Files -> Contents]]
          BY <3>0, <4>1
        <5>2. file' = [file EXCEPT ![s]["disk"] = "torn"] \/ file' = file
          BY <3>3 DEF OpenDisk
        <5> QED
          BY <5>1, <5>2
      <4> QED
        BY <3>3, <4>2 DEF OpenDisk
    <3>4. CASE FlushBundle(s)
      <4>1. flushed[s] \cup {"disk", "dir"} \in SUBSET (Files \cup {"dir"})
        BY DEF Files
      <4>2. flushed' \in [Savers -> SUBSET (Files \cup {"dir"})]
        BY <3>4, <4>1 DEF FlushBundle
      <4> QED
        BY <3>4, <4>2 DEF FlushBundle
    <3> QED
      BY <2>1, <3>2, <3>3, <3>4 DEF Save, CheckDestination, CheckSource, CheckCopy,
         Recheck, Rename, SyncParent, DropBundle, Retire
  <2>2. CASE Environment
    <3>1. CASE PowerLoss
      <4>1. pc' \in [Savers -> PCs]
        BY <3>1 DEF PowerLoss
      <4> QED
        BY <3>1, <4>1 DEF PowerLoss
    <3> QED
      BY <2>2, <3>1 DEF Environment, Kill, Intrude
  <2>3. CASE Idle \/ UNCHANGED vars
    BY <2>3 DEF Idle, vars
  <2> QED
    BY <2>1, <2>2, <2>3 DEF Next
<1> QED
  BY <1>1, <1>2, PTL DEF Spec

-----------------------------------------------------------------------------
(* What is at the destination is complete.                                 *)

\* Where a saver can be before its bundle is renamed.
Unpublished == {"idle", "source", "open", "copying", "check", "manifest",
                "complete", "flush", "recheck", "rename", "drop", "found"}

\* File f of s's bundle is written and flushed.
Done(s, f) == file[s][f] = "whole" /\ f \in flushed[s]
\* So is all of it, with its directory: no power failure can touch it.
Sealed(s) == "dir" \in flushed[s] /\ \A f \in Files : Done(s, f)

\* How far a bundle has come ...
StageInv ==
  \A s \in Savers :
    /\ pc[s] \in {"check", "manifest", "complete", "flush"} => Done(s, "disk")
    /\ pc[s] \in {"complete", "flush"} => Done(s, "manifest")
    /\ pc[s] = "flush" => Done(s, "complete")
    /\ pc[s] \in {"recheck", "rename"} => Sealed(s)
\* ... and the published one, to which its saver does nothing any more.
DestInv == dest \in Savers => Sealed(dest) /\ pc[dest] \notin Unpublished

\* The inductive invariant: what is published was sealed before its rename.
PublishInv == StageInv /\ DestInv

LEMMA StageInvStep == TypeOK /\ StageInv /\ [Next]_vars => StageInv'
<1> SUFFICES ASSUME TypeOK, StageInv, [Next]_vars PROVE StageInv'
  OBVIOUS
<1> USE DEF TypeOK, StageInv, Done, Sealed, Goto, bundleVars, destVars, Files
<1>1. ASSUME NEW s \in Savers, Save(s) PROVE StageInv'
  <2>1. CASE CheckDestination(s) \/ CheckSource(s) \/ CheckCopy(s) \/ Recheck(s)
               \/ Rename(s) \/ SyncParent(s) \/ DropBundle(s) \/ Retire(s)
    BY <2>1 DEF CheckDestination, CheckSource, CheckCopy, Recheck, Rename,
       SyncParent, DropBundle, Retire
  <2>2. CASE OpenDisk(s)
    BY <2>2 DEF OpenDisk
  <2>3. CASE CopyDisk(s)
    BY <2>3 DEF CopyDisk, WriteFile
  <2>4. CASE WriteManifest(s)
    BY <2>4 DEF WriteManifest, WriteFile
  <2>5. CASE WriteComplete(s)
    BY <2>5 DEF WriteComplete, WriteFile
  <2>6. CASE FlushBundle(s)
    BY <2>6 DEF FlushBundle
  <2> QED
    BY <1>1, <2>1, <2>2, <2>3, <2>4, <2>5, <2>6 DEF Save
<1>2. CASE Environment
  <2>1. CASE PowerLoss
    BY <2>1 DEF PowerLoss, Busy
  <2> QED
    BY <1>2, <2>1 DEF Environment, Kill, Intrude
<1>3. CASE Idle \/ UNCHANGED vars
  BY <1>3 DEF Idle, vars
<1> QED
  BY <1>1, <1>2, <1>3 DEF Next

LEMMA DestInvStep == TypeOK /\ PublishInv /\ [Next]_vars => DestInv'
<1> SUFFICES ASSUME TypeOK, StageInv, DestInv, [Next]_vars PROVE DestInv'
  BY DEF PublishInv
<1> USE DEF TypeOK, DestInv, Done, Sealed, Goto, bundleVars, destVars, Files,
    Unpublished
<1>1. ASSUME NEW s \in Savers, Save(s) PROVE DestInv'
  <2>1. CASE CheckDestination(s) \/ CheckSource(s) \/ CheckCopy(s) \/ Recheck(s)
               \/ SyncParent(s) \/ DropBundle(s) \/ Retire(s)
    BY <2>1 DEF CheckDestination, CheckSource, CheckCopy, Recheck,
       SyncParent, DropBundle, Retire
  <2>2. CASE Rename(s)
    BY <2>2 DEF Rename, StageInv
  <2>3. CASE OpenDisk(s)
    BY <2>3 DEF OpenDisk
  <2>4. CASE CopyDisk(s) \/ WriteManifest(s) \/ WriteComplete(s)
    BY <2>4 DEF CopyDisk, WriteManifest, WriteComplete, WriteFile
  <2>5. CASE FlushBundle(s)
    BY <2>5 DEF FlushBundle
  <2> QED
    BY <1>1, <2>1, <2>2, <2>3, <2>4, <2>5 DEF Save
<1>2. CASE Environment
  <2>1. CASE PowerLoss
    BY <2>1 DEF PowerLoss, Busy, Survivors
  <2> QED
    BY <1>2, <2>1 DEF Environment, Kill, Intrude, Busy
<1>3. CASE Idle \/ UNCHANGED vars
  BY <1>3 DEF Idle, vars
<1> QED
  BY <1>1, <1>2, <1>3 DEF Next

LEMMA PublishInvAlways == Spec => []PublishInv
<1>1. Init => PublishInv
  BY DEF Init, PublishInv, StageInv, DestInv
<1>2. TypeOK /\ PublishInv /\ [Next]_vars => PublishInv'
  BY StageInvStep, DestInvStep DEF PublishInv
<1> QED
  BY <1>1, <1>2, TypeCorrect, PTL DEF Spec

(* Whatever a saver has put at the destination is a complete bundle, through *)
(* races, kills and any number of power failures. *)
THEOREM CompleteOrAbsentAlways == Spec => []CompleteOrAbsent
<1>1. PublishInv => CompleteOrAbsent
  BY DEF PublishInv, DestInv, CompleteOrAbsent, Sealed, Done, Loadable
<1> QED
  BY <1>1, PublishInvAlways, PTL

-----------------------------------------------------------------------------
(* create_checkpoint implements the checkpoint store.                      *)

(* A step of a saver publishes a bundle, settles it or leaves the            *)
(* destination alone. *)
LEMMA StoreStep ==
  ASSUME TypeOK, PublishInv, PublishInv', [Next]_vars
  PROVE  [Store!Next]_(Store!storeVars)
<1>1. Found = dest /\ Found' = dest'
  BY DEF PublishInv, DestInv, Found, Sealed, Done, Loadable
<1> USE <1>1 DEF Store!Next, Store!storeVars, Store!Publish, Store!Settle,
    Store!PowerLoss, destVars, TypeOK
<1>2. ASSUME NEW s \in Savers, Save(s) PROVE [Store!Next]_(Store!storeVars)
  <2>1. CASE Rename(s)
    BY <2>1 DEF Rename
  <2>2. CASE SyncParent(s)
    BY <2>2 DEF SyncParent
  <2>3. CASE ~Rename(s) /\ ~SyncParent(s)
    BY <1>2, <2>3 DEF Save, CheckDestination, CheckSource, OpenDisk, CopyDisk,
       CheckCopy, WriteManifest, WriteComplete, WriteFile, FlushBundle, Recheck,
       DropBundle, Retire
  <2> QED
    BY <2>1, <2>2, <2>3
<1>3. CASE Environment
  BY <1>3 DEF Environment, Kill, Intrude, PowerLoss
<1>4. CASE Idle \/ UNCHANGED vars
  BY <1>4 DEF Idle, vars
<1> QED
  BY <1>2, <1>3, <1>4 DEF Next

(* The destination behaves like the abstract store: bundles appear at once   *)
(* and complete, and only a power failure before the flush of the parent     *)
(* directory takes one back. *)
THEOREM CreateCheckpointImplementsStore == Spec => ImplementsStore
<1>1. Init => Store!Init
  BY DEF Init, Store!Init, Found
<1> QED
  BY <1>1, StoreStep, TypeCorrect, PublishInvAlways, PTL
  DEF Spec, Store!Spec, ImplementsStore

-----------------------------------------------------------------------------
(* The source is retained.                                                 *)

\* The bundle that v relies on cannot be taken back by a power failure, or
\* can because a retry has relied on it before it was flushed.
Firm(v) == dest \in Savers /\ VmOf[dest] = v /\ (stable \/ Retried(v))

\* A power failure has come, and v's save was retried.
Excused(v) == losses > 0 /\ Retried(v)

RetainInv ==
  /\ \A s \in Savers : pc[s] \in {"sync", "published"} => dest = s
  /\ \A s \in Savers : pc[s] = "published" => stable
  /\ \A s \in Savers : pc[s] = "found" => Excused(VmOf[s]) \/ Firm(VmOf[s])
  /\ \A v \in Vms : ~overlay[v] => Excused(v) \/ Firm(v)

(* The data of a VM is in its overlay or in a loadable checkpoint of that   *)
(* VM, whatever create_checkpoint's callers and power failures do, unless   *)
(* power fails and its save was retried under the same identity.            *)
THEOREM SourceRetainedAlways == Spec => []SourceRetained
<1>1. Init => RetainInv
  BY DEF Init, RetainInv
<1>2. TypeOK /\ PublishInv /\ RetainInv /\ [Next]_vars => RetainInv'
  <2> SUFFICES ASSUME TypeOK, PublishInv, RetainInv, [Next]_vars PROVE RetainInv'
    OBVIOUS
  <2> USE SaversAssumption DEF TypeOK, RetainInv, Firm, Excused, Goto, bundleVars, destVars
  <2>1. ASSUME NEW s \in Savers, Save(s) PROVE RetainInv'
    <3>1. CASE CheckDestination(s)
      <4>1. dest' = dest /\ stable' = stable /\ overlay' = overlay /\ losses' = losses
        BY <3>1 DEF CheckDestination
      <4>2. ASSUME pc'[s] = "found" PROVE Firm(VmOf[s])
        <5>1. dest \in Savers /\ IdOf[dest] = IdOf[s] /\ pc[s] = "idle"
          BY <3>1, <4>2 DEF CheckDestination
        <5>2. dest # s
          BY <5>1 DEF PublishInv, DestInv, Unpublished
        <5>3. Retried(VmOf[s])
          BY <5>1, <5>2 DEF Retried
        <5> QED
          BY <5>1, <5>3
      <4> QED
        BY <3>1, <4>1, <4>2 DEF CheckDestination
    <3>2. CASE CheckSource(s) \/ OpenDisk(s) \/ CheckCopy(s) \/ FlushBundle(s)
                 \/ Recheck(s) \/ DropBundle(s)
      BY <3>2 DEF CheckSource, OpenDisk, CheckCopy, FlushBundle, Recheck, DropBundle
    <3>3. CASE CopyDisk(s) \/ WriteManifest(s) \/ WriteComplete(s)
      BY <3>3 DEF CopyDisk, WriteManifest, WriteComplete, WriteFile
    <3>4. CASE Rename(s)
      BY <3>4 DEF Rename
    <3>5. CASE SyncParent(s)
      BY <3>5 DEF SyncParent
    <3>6. CASE Retire(s)
      BY <3>6 DEF Retire
    <3> QED
      BY <2>1, <3>1, <3>2, <3>3, <3>4, <3>5, <3>6 DEF Save
  <2>2. CASE Environment
    <3>1. CASE PowerLoss
      BY <3>1 DEF PowerLoss, Busy
    <3> QED
      BY <2>2, <3>1 DEF Environment, Kill, Intrude, Busy
  <2>3. CASE Idle \/ UNCHANGED vars
    BY <2>3 DEF Idle, vars
  <2> QED
    BY <2>1, <2>2, <2>3 DEF Next
<1>3. TypeOK /\ PublishInv /\ RetainInv => SourceRetained
  BY DEF PublishInv, DestInv, RetainInv, Firm, Excused, SourceRetained, Held, Sealed, Done,
         Loadable, TypeOK
<1> QED
  BY <1>1, <1>2, <1>3, TypeCorrect, PublishInvAlways, PTL DEF Spec

-----------------------------------------------------------------------------
(* vm.json.  Its type invariant needs to know what is open where.          *)

\* A writer that writes has a file open and chunks left; so has the reader.
HandleInv ==
  /\ \A w \in Writers :
       /\ stage[w] \in {"write", "fsync"} => fd[w] # NoFile
       /\ stage[w] = "write" => at[w] <= Chunks
  /\ rfd # NoFile => Len(got) < Chunks

\* One writes at a time.
TurnInv ==
  \A w, o \in Writers : stage[w] \in Writing /\ stage[o] \in Writing => w = o

\* What is being written has no other name and no reader.
PrivateInv ==
  /\ tmp # NoFile => tmp \notin {json, jsonOnDisk, rfd}
  /\ \A w \in Writers : stage[w] \in {"write", "fsync"} =>
       fd[w] \notin {json, jsonOnDisk, rfd} /\ tmp \in {NoFile, fd[w]}

Written(i, v) == \A k \in Pieces : content[i][k] = v

\* How far a write has come.
ProgressOf(w) ==
  /\ stage[w] \in Writing => ver[w] = version /\ version > 0
  /\ stage[w] = "write" => \A k \in Pieces : k < at[w] => content[fd[w]][k] = ver[w]
  /\ stage[w] = "fsync" => Written(fd[w], ver[w])
  /\ stage[w] = "replace" /\ tmp # NoFile => tmp \in synced /\ Written(tmp, ver[w])
  /\ stage[w] = "sync" /\ removal = "none" => json # NoFile /\ Written(json, ver[w])

ProgressInv == \A w \in Writers : ProgressOf(w)

\* What vm.json names, now or after a power failure, is one version and on disk,
\* and so is what a reader has open.
SolidInv ==
  /\ \A i \in {json, jsonOnDisk} : i # NoFile => i \in synced /\ Whole(content[i])
  /\ rfd # NoFile => Whole(content[rfd])

\* The reader has read the beginning of its file, or one version.
ReadInv ==
  /\ rfd # NoFile => \A k \in 1..Len(got) : got[k] = content[rfd][k]
  /\ EveryReadIsWhole

\* Until the removal, both names lead to a version at least as new as the
\* last acknowledged one.
AckInv ==
  /\ acked <= version
  /\ removal = "none" => dir
  /\ removal = "none" /\ acked > 0 =>
       \A i \in {json, jsonOnDisk} : i # NoFile /\ content[i][1] >= acked

MetaInv == /\ HandleInv /\ TurnInv /\ PrivateInv /\ ProgressInv /\ SolidInv
           /\ ReadInv /\ AckInv

(* open() finds a file that nothing refers to. *)
LEMMA FreshIsFree ==
  ASSUME MetaTypeOK, tmp = NoFile
  PROVE  /\ Fresh \in Inodes
         /\ Fresh \notin {json, jsonOnDisk, rfd}
         /\ \A w \in Writers : Fresh # fd[w]
<1>1. \E n \in Inodes : n \notin {json, jsonOnDisk, rfd} \cup {fd[w] : w \in Writers}
  BY FreeInodeAssumption DEF MetaTypeOK
<1>2. \E n \in Inodes :
        n \notin {tmp, json, jsonOnDisk, rfd} \cup {fd[w] : w \in Writers}
  BY <1>1, MetadataAssumption
<1> QED
  BY <1>2 DEF Fresh

(* Writing one chunk of one file. *)
LEMMA ChunkType ==
  ASSUME content \in [Inodes -> [Pieces -> Versions]],
         NEW i \in Inodes, NEW k \in Pieces, NEW v \in Versions
  PROVE  /\ [content EXCEPT ![i][k] = v] \in [Inodes -> [Pieces -> Versions]]
         /\ [content EXCEPT ![i][k] = v][i] = [content[i] EXCEPT ![k] = v]
         /\ \A j \in Inodes \ {i} : [content EXCEPT ![i][k] = v][j] = content[j]
OBVIOUS

(* The directory, the names and the files. *)
LEMMA MetaTypeStep == MetaTypeOK /\ HandleInv /\ [MetaNext]_metaVars => MetaTypeOK'
<1> SUFFICES ASSUME MetaTypeOK, HandleInv, [MetaNext]_metaVars PROVE MetaTypeOK'
  OBVIOUS
<1>0. /\ Blank \in [Pieces -> Versions] /\ 0 \in Versions
      /\ version < MaxVersion => version + 1 \in Versions
  BY MetadataAssumption DEF MetaTypeOK, Blank, Versions
<1>1. ASSUME NEW w \in Writers, NotFound(w) PROVE MetaTypeOK'
  BY <1>1 DEF NotFound, MetaTypeOK, dirVars, readerVars, Stages
<1>2. ASSUME NEW w \in Writers, WriteMetadata(w) PROVE MetaTypeOK'
  <2>1. CASE Open(w)
    <3>1. CASE NotFound(w)
      BY <1>1, <3>1
    <3>2. CASE ~NotFound(w)
      <4> DEFINE i == IF tmp = NoFile THEN Fresh ELSE tmp
      <4>1. i \in Inodes
        BY FreshIsFree DEF MetaTypeOK
      <4>2. /\ tmp' = i /\ fd' = [fd EXCEPT ![w] = i]
            /\ content' = [content EXCEPT ![i] = Blank]
            /\ synced' = synced \ {i}
            /\ version < MaxVersion /\ version' = version + 1
            /\ ver' = [ver EXCEPT ![w] = version']
            /\ at' = [at EXCEPT ![w] = 1]
            /\ crossed' \subseteq crossed \cup Writers /\ Mark(w)
            /\ stage' = [stage EXCEPT ![w] = "write"]
            /\ UNCHANGED <<dirVars, json, jsonOnDisk, acked, readerVars, failures>>
        BY <2>1, <3>2 DEF Open, Mark, Step, Rivals
      <4> HIDE DEF i
      <4>3. 1 \in 1..Chunks + 1
        BY MetadataAssumption
      <4>4. rivalry' \in BOOLEAN
        BY <4>2 DEF Mark
      <4> QED
        BY <1>0, <4>1, <4>2, <4>3, <4>4 DEF MetaTypeOK, dirVars, readerVars, Stages, Writing
    <3> QED
      BY <3>1, <3>2
  <2>2. CASE WriteChunk(w)
    <3>1. fd[w] \in Inodes /\ at[w] \in Pieces /\ ver[w] \in Versions
      BY <2>2, MetadataAssumption DEF WriteChunk, HandleInv, MetaTypeOK, Pieces
    <3>2. content' \in [Inodes -> [Pieces -> Versions]]
      BY <2>2, <3>1, ChunkType DEF WriteChunk, MetaTypeOK
    <3>3. at[w] + 1 \in 1..Chunks + 1
      BY <3>1, MetadataAssumption DEF Pieces
    <3> QED
      BY <2>2, <3>1, <3>2, <3>3
      DEF WriteChunk, Step, MetaTypeOK, dirVars, names, readerVars, Stages, Writing
  <2>3. CASE Fsync(w)
    <3>1. fd[w] \in Inodes
      BY <2>3 DEF Fsync, HandleInv, MetaTypeOK
    <3> QED
      BY <2>3, <3>1 DEF Fsync, Step, MetaTypeOK, dirVars, names, readerVars, Stages,
         Writing
  <2>4. CASE Replace(w)
    BY <1>1, <2>4 DEF Replace, Step, MetaTypeOK, dirVars, readerVars, Stages, Writing
  <2>5. CASE SyncDir(w)
    <3>1. CASE NotFound(w)
      BY <1>1, <3>1
    <3>2. CASE ~NotFound(w)
      <4>1. stage' \in [Writers -> Stages]
        BY <2>5, <3>2 DEF SyncDir, Step, MetaTypeOK, Stages
      <4>2. {tmp', json', jsonOnDisk', rfd'} \subseteq Inodes \cup {NoFile}
        BY <2>5, <3>2 DEF SyncDir, MetaTypeOK, readerVars
      <4> QED
        BY <2>5, <3>2, <4>1, <4>2 DEF SyncDir, MetaTypeOK, dirVars, readerVars
    <3> QED
      BY <3>1, <3>2
  <2> QED
    BY <1>2, <2>1, <2>2, <2>3, <2>4, <2>5 DEF WriteMetadata
<1>3. CASE ReadOpen
  BY <1>3, MetadataAssumption DEF ReadOpen, MetaTypeOK, dirVars, names, writerVars
<1>4. CASE ReadChunk
  <2>1. rfd \in Inodes /\ Len(got) + 1 \in Pieces
    BY <1>4, MetadataAssumption DEF ReadChunk, HandleInv, MetaTypeOK, Pieces
  <2>2. content[rfd][Len(got) + 1] \in Versions
    BY <2>1 DEF MetaTypeOK
  <2>3. got' \in Seq(Versions) /\ Len(got') = Len(got) + 1
    BY <1>4, <2>2 DEF ReadChunk, MetaTypeOK
  <2> QED
    BY <1>4, <2>1, <2>3, MetadataAssumption
    DEF ReadChunk, MetaTypeOK, dirVars, names, writerVars, Pieces
<1>5. CASE RemoveFiles \/ RemoveDir
  BY <1>5 DEF RemoveFiles, RemoveDir, MetaTypeOK, names, writerVars, readerVars
<1>6. ASSUME NEW w \in Writers, KillWriter(w) PROVE MetaTypeOK'
  BY <1>6 DEF KillWriter, Step, MetaTypeOK, dirVars, names, readerVars, Stages
<1>7. CASE PowerFailure
  <2>1. content' \in [Inodes -> [Pieces -> Versions]]
    BY <1>0, <1>7 DEF PowerFailure, MetaTypeOK
  <2>2. failures' \in 0..MaxFailures
    BY <1>7, MetadataAssumption DEF PowerFailure, MetaTypeOK
  <2>3. stage' \in [Writers -> Stages]
    BY <1>7 DEF PowerFailure, MetaTypeOK, Stages
  <2>4. got' \in Seq(Versions) /\ Len(got') <= Chunks
    BY <1>7, MetadataAssumption DEF PowerFailure
  <2> QED
    BY <1>7, <2>1, <2>2, <2>3, <2>4 DEF PowerFailure, MetaTypeOK, dirVars
<1>8. CASE UNCHANGED metaVars
  BY <1>8 DEF metaVars, MetaTypeOK, dirVars, names, writerVars, readerVars
<1> QED
  BY <1>2, <1>3, <1>4, <1>5, <1>6, <1>7, <1>8 DEF MetaNext, MetaEnvironment

(* Who has a file open. *)
LEMMA HandleStep == MetaTypeOK /\ HandleInv /\ [MetaNext]_metaVars => HandleInv'
<1> SUFFICES ASSUME MetaTypeOK, HandleInv, [MetaNext]_metaVars PROVE HandleInv'
  OBVIOUS
<1>0. Chunks \in Nat \ {0} /\ NoFile \notin Inodes
  BY MetadataAssumption
<1> USE <1>0 DEF HandleInv, MetaTypeOK
<1>1. ASSUME NEW w \in Writers, NotFound(w) PROVE HandleInv'
  BY <1>1 DEF NotFound, readerVars
<1>2. ASSUME NEW w \in Writers, WriteMetadata(w) PROVE HandleInv'
  <2>1. CASE Open(w)
    <3>1. tmp = NoFile => Fresh # NoFile
      BY FreshIsFree
    <3> QED
      <4>1. CASE NotFound(w)
        BY <1>1, <4>1
      <4>2. CASE ~NotFound(w)
        <5>1. PICK i : i # NoFile /\ fd' = [fd EXCEPT ![w] = i]
          BY <2>1, <3>1, <4>2 DEF Open
        <5> QED
          BY <2>1, <4>2, <5>1 DEF Open, Step, readerVars
      <4> QED
        BY <4>1, <4>2
  <2>2. CASE WriteChunk(w)
    BY <2>2 DEF WriteChunk, Step, readerVars
  <2>3. CASE Fsync(w)
    BY <2>3 DEF Fsync, Step, readerVars
  <2>4. CASE Replace(w) \/ SyncDir(w)
    BY <1>1, <2>4 DEF Replace, SyncDir, Step, readerVars
  <2> QED
    BY <1>2, <2>1, <2>2, <2>3, <2>4 DEF WriteMetadata
<1>3. CASE ReadOpen \/ ReadChunk
  BY <1>3 DEF ReadOpen, ReadChunk, writerVars
<1>4. CASE RemoveFiles \/ RemoveDir
  BY <1>4 DEF RemoveFiles, RemoveDir, writerVars, readerVars
<1>5. ASSUME NEW w \in Writers, KillWriter(w) PROVE HandleInv'
  BY <1>5 DEF KillWriter, Step, readerVars
<1>6. CASE PowerFailure
  BY <1>6 DEF PowerFailure, Writing
<1>7. CASE UNCHANGED metaVars
  BY <1>7 DEF metaVars, writerVars, readerVars
<1> QED
  BY <1>2, <1>3, <1>4, <1>5, <1>6, <1>7 DEF MetaNext, MetaEnvironment

(* Every reachable state of the writers, the reader and the files is well     *)
(* typed, whether or not writes overlap. *)
THEOREM MetaTypeCorrect == MetaSpec => []MetaTypeOK
<1>1. MetaInit => MetaTypeOK /\ HandleInv
  <2> SUFFICES ASSUME MetaInit PROVE MetaTypeOK /\ HandleInv
    OBVIOUS
  <2>1. rivalry \in BOOLEAN /\ dir \in BOOLEAN
    BY Zenon DEF MetaInit
  <2> QED
    BY <2>1, MetadataAssumption
    DEF MetaInit, MetaTypeOK, HandleInv, Blank, Versions, Stages
<1>2. MetaTypeOK /\ HandleInv /\ [MetaNext]_metaVars => (MetaTypeOK /\ HandleInv)'
  BY MetaTypeStep, HandleStep
<1> QED
  BY <1>1, <1>2, PTL DEF MetaSpec

-----------------------------------------------------------------------------
(* As long as no two writes have overlapped, vm.json is one version.       *)

(* A step of _write_metadata that reports a missing file or directory changes *)
(* nothing but the name of the temporary file. *)
LEMMA NotFoundOr ==
  ASSUME NEW w \in Writers, WriteMetadata(w)
  PROVE  \/ NotFound(w)
         \/ WriteChunk(w) \/ Fsync(w)
         \/ (Open(w) \/ Replace(w) \/ SyncDir(w)) /\ ~NotFound(w)
BY DEF WriteMetadata

(* What open() does. *)
LEMMA OpenEffect ==
  ASSUME MetaTypeOK, PrivateInv, NEW w \in Writers, Open(w), ~NotFound(w)
  PROVE  \E i \in Inodes :
           /\ i \notin {json, jsonOnDisk, rfd}
           /\ tmp' = i /\ fd' = [fd EXCEPT ![w] = i]
           /\ content' = [content EXCEPT ![i] = Blank] /\ synced' = synced \ {i}
           /\ version' = version + 1 /\ ver' = [ver EXCEPT ![w] = version + 1]
           /\ at' = [at EXCEPT ![w] = 1]
           /\ stage[w] = "rest" /\ stage' = [stage EXCEPT ![w] = "write"]
           /\ ~rivalry' => Rivals(w) = {}
           /\ UNCHANGED <<dir, removal, json, jsonOnDisk, acked, rfd, got>>
<1> DEFINE i == IF tmp = NoFile THEN Fresh ELSE tmp
<1>1. i \in Inodes /\ i \notin {json, jsonOnDisk, rfd}
  BY FreshIsFree DEF MetaTypeOK, PrivateInv
<1>2. /\ tmp' = i /\ fd' = [fd EXCEPT ![w] = i]
      /\ content' = [content EXCEPT ![i] = Blank] /\ synced' = synced \ {i}
      /\ version' = version + 1 /\ ver' = [ver EXCEPT ![w] = version + 1]
      /\ at' = [at EXCEPT ![w] = 1]
      /\ stage[w] = "rest" /\ stage' = [stage EXCEPT ![w] = "write"]
      /\ ~rivalry' => Rivals(w) = {}
      /\ UNCHANGED <<dir, removal, json, jsonOnDisk, acked, rfd, got>>
  BY DEF Open, Mark, Step, dirVars, readerVars
<1> HIDE DEF i
<1> QED
  BY <1>1, <1>2

(* What a writer starts, it starts alone. *)
LEMMA TurnStep ==
  ASSUME ~rivalry', MetaTypeOK, TurnInv, [MetaNext]_metaVars
  PROVE  TurnInv'
<1> USE DEF TurnInv, MetaTypeOK
<1>1. ASSUME NEW w \in Writers, WriteMetadata(w) PROVE TurnInv'
  <2>1. CASE NotFound(w)
    BY <2>1 DEF NotFound, Writing
  <2>2. CASE Open(w) /\ ~NotFound(w)
    BY <2>2 DEF Open, Mark, Rivals, Step
  <2>3. CASE WriteChunk(w) \/ Fsync(w)
    BY <2>3 DEF WriteChunk, Fsync, Step, Writing
  <2>4. CASE (Replace(w) \/ SyncDir(w)) /\ ~NotFound(w)
    BY <2>4 DEF Replace, SyncDir, Step, Writing
  <2> QED
    BY <1>1, <2>1, <2>2, <2>3, <2>4, NotFoundOr
<1>2. CASE ReadOpen \/ ReadChunk \/ RemoveFiles \/ RemoveDir \/ UNCHANGED metaVars
  BY <1>2 DEF ReadOpen, ReadChunk, RemoveFiles, RemoveDir, metaVars, writerVars
<1>3. ASSUME NEW w \in Writers, KillWriter(w) PROVE TurnInv'
  BY <1>3 DEF KillWriter, Step, Writing
<1>4. CASE PowerFailure
  BY <1>4 DEF PowerFailure, Writing
<1> QED
  BY <1>1, <1>2, <1>3, <1>4 DEF MetaNext, MetaEnvironment

(* The file being written stays private until it is renamed. *)
LEMMA PrivateStep ==
  ASSUME ~rivalry', MetaTypeOK, HandleInv, TurnInv, PrivateInv, [MetaNext]_metaVars
  PROVE  PrivateInv'
<1>0. NoFile \notin Inodes
  BY MetadataAssumption
<1>1. ASSUME NEW w \in Writers, WriteMetadata(w) PROVE PrivateInv'
  <2>0. stage[w] \in Writing => \A o \in Writers \ {w} : stage[o] \notin Writing
    BY DEF TurnInv
  <2>1. CASE NotFound(w)
    BY <2>1 DEF NotFound, PrivateInv, MetaTypeOK, readerVars
  <2>2. CASE Open(w) /\ ~NotFound(w)
    <3>1. PICK i \in Inodes :
            /\ i \notin {json, jsonOnDisk, rfd}
            /\ tmp' = i /\ fd' = [fd EXCEPT ![w] = i]
            /\ stage' = [stage EXCEPT ![w] = "write"]
            /\ Rivals(w) = {}
            /\ UNCHANGED <<json, jsonOnDisk, rfd>>
      BY <2>2, OpenEffect
    <3> QED
      BY <3>1 DEF PrivateInv, MetaTypeOK, Rivals, Writing
  <2>3. CASE WriteChunk(w)
    BY <2>3 DEF WriteChunk, Step, PrivateInv, MetaTypeOK, names, readerVars
  <2>4. CASE Fsync(w)
    BY <2>4 DEF Fsync, Step, PrivateInv, MetaTypeOK, names, readerVars
  <2>5. CASE Replace(w) /\ ~NotFound(w)
    BY <2>0, <2>5 DEF Replace, Step, PrivateInv, MetaTypeOK, readerVars, Writing
  <2>6. CASE SyncDir(w) /\ ~NotFound(w)
    BY <2>0, <2>6 DEF SyncDir, Step, PrivateInv, MetaTypeOK, readerVars, Writing
  <2> QED
    BY <1>1, <2>1, <2>2, <2>3, <2>4, <2>5, <2>6, NotFoundOr
<1>2. CASE ReadOpen \/ ReadChunk
  BY <1>2 DEF ReadOpen, ReadChunk, PrivateInv, HandleInv, names, writerVars
<1>3. CASE RemoveFiles
  <2>1. rfd \in Inodes \cup {NoFile}
    BY DEF MetaTypeOK
  <2> QED
    BY <1>3, <2>1 DEF RemoveFiles, PrivateInv, HandleInv, writerVars, readerVars
<1>4. CASE RemoveDir \/ UNCHANGED metaVars
  BY <1>4 DEF RemoveDir, metaVars, PrivateInv, names, writerVars, readerVars
<1>5. ASSUME NEW w \in Writers, KillWriter(w) PROVE PrivateInv'
  BY <1>5 DEF KillWriter, Step, PrivateInv, MetaTypeOK, names, readerVars
<1>6. CASE PowerFailure
  BY <1>6 DEF PowerFailure, PrivateInv, Writing
<1> QED
  BY <1>1, <1>2, <1>3, <1>4, <1>5, <1>6 DEF MetaNext, MetaEnvironment

(* What vm.json names, or a reader has open, is not touched: a power failure  *)
(* leaves what is on disk, and ends the reader. *)
LEMMA Untouched ==
  ASSUME MetaTypeOK, HandleInv, PrivateInv, SolidInv, [MetaNext]_metaVars,
         NEW i \in {json, jsonOnDisk, rfd}, i # NoFile,
         PowerFailure => i \in {json, jsonOnDisk}
  PROVE  content'[i] = content[i] /\ (i \in synced => i \in synced')
<1>0. i \in Inodes
  BY DEF MetaTypeOK
<1>1. ASSUME NEW w \in Writers, WriteMetadata(w)
      PROVE  content'[i] = content[i] /\ (i \in synced => i \in synced')
  <2>1. CASE NotFound(w)
    BY <2>1 DEF NotFound
  <2>2. CASE Open(w) /\ ~NotFound(w)
    <3>1. PICK j \in Inodes :
            /\ j \notin {json, jsonOnDisk, rfd}
            /\ content' = [content EXCEPT ![j] = Blank] /\ synced' = synced \ {j}
      BY <2>2, OpenEffect
    <3> QED
      BY <1>0, <3>1 DEF MetaTypeOK
  <2>3. CASE WriteChunk(w)
    <3>1. fd[w] \in Inodes /\ fd[w] # i /\ at[w] \in Pieces /\ ver[w] \in Versions
      BY <2>3, MetadataAssumption
      DEF WriteChunk, HandleInv, PrivateInv, MetaTypeOK, Pieces
    <3> QED
      BY <1>0, <2>3, <3>1, ChunkType DEF WriteChunk, MetaTypeOK
  <2>4. CASE Fsync(w)
    BY <2>4 DEF Fsync
  <2>5. CASE (Replace(w) \/ SyncDir(w)) /\ ~NotFound(w)
    BY <2>5 DEF Replace, SyncDir
  <2> QED
    BY <1>1, <2>1, <2>2, <2>3, <2>4, <2>5, NotFoundOr
<1>2. CASE ReadOpen \/ ReadChunk \/ RemoveFiles \/ RemoveDir \/ UNCHANGED metaVars
  BY <1>2 DEF ReadOpen, ReadChunk, RemoveFiles, RemoveDir, metaVars
<1>3. ASSUME NEW w \in Writers, KillWriter(w)
      PROVE  content'[i] = content[i] /\ (i \in synced => i \in synced')
  BY <1>3 DEF KillWriter
<1>4. CASE PowerFailure
  <2>1. i \in synced
    BY <1>4 DEF SolidInv
  <2> QED
    BY <1>0, <1>4, <2>1 DEF PowerFailure, MetaTypeOK
<1> QED
  BY <1>1, <1>2, <1>3, <1>4 DEF MetaNext, MetaEnvironment

(* While one writes, no other moves, except to find the directory gone. *)
LEMMA Alone ==
  ASSUME ~rivalry', MetaTypeOK, TurnInv, NEW w \in Writers, NEW o \in Writers, o # w,
         WriteMetadata(o), ~NotFound(o)
  PROVE  stage'[w] = stage[w] /\ stage[w] \notin Writing
<1>1. Open(o) => Rivals(o) = {}
  BY DEF Open, Mark
<1>2. ~Open(o) => stage[o] \in Writing
  BY DEF WriteMetadata, WriteChunk, Fsync, Replace, SyncDir, Writing
<1>3. stage[w] \notin Writing
  BY <1>1, <1>2 DEF Rivals, TurnInv
<1> QED
  BY <1>3 DEF WriteMetadata, Open, WriteChunk, Fsync, Replace, SyncDir, NotFound, Step,
     MetaTypeOK

(* A write makes progress on its own file. *)
LEMMA ProgressStep ==
  ASSUME ~rivalry', MetaTypeOK, HandleInv, TurnInv, PrivateInv, ProgressInv,
         [MetaNext]_metaVars
  PROVE  ProgressInv'
<1> SUFFICES ASSUME NEW w \in Writers PROVE ProgressOf(w)'
  BY DEF ProgressInv
<1>0. ProgressOf(w) /\ NoFile \notin Inodes /\ Chunks \in Nat \ {0}
  BY MetadataAssumption DEF ProgressInv
<1>1. stage'[w] \notin Writing => ProgressOf(w)'
  BY DEF ProgressOf, Writing
<1>2. CASE WriteMetadata(w)
  <2>1. CASE NotFound(w)
    BY <1>1, <2>1 DEF NotFound, MetaTypeOK, Writing
  <2>2. CASE Open(w) /\ ~NotFound(w)
    <3>1. PICK i \in Inodes :
            /\ tmp' = i /\ fd' = [fd EXCEPT ![w] = i]
            /\ version' = version + 1 /\ ver' = [ver EXCEPT ![w] = version + 1]
            /\ at' = [at EXCEPT ![w] = 1]
            /\ stage' = [stage EXCEPT ![w] = "write"]
      BY <2>2, OpenEffect
    <3>2. stage'[w] = "write" /\ at'[w] = 1 /\ ver'[w] = version' /\ tmp' # NoFile
      BY <1>0, <3>1 DEF MetaTypeOK
    <3>3. version' > 0
      BY <3>1 DEF MetaTypeOK, Versions
    <3>4. \A k \in Pieces : ~(k < at'[w])
      BY <3>2 DEF Pieces
    <3> QED
      BY <3>2, <3>3, <3>4 DEF ProgressOf
  <2>3. CASE WriteChunk(w)
    <3>1. fd[w] \in Inodes /\ at[w] \in Pieces /\ ver[w] \in Versions
      BY <2>3, MetadataAssumption DEF WriteChunk, HandleInv, MetaTypeOK, Pieces
    <3>2. content'[fd[w]] = [content[fd[w]] EXCEPT ![at[w]] = ver[w]]
      BY <2>3, <3>1, ChunkType DEF WriteChunk, MetaTypeOK
    <3>3. /\ UNCHANGED <<tmp, json, removal, version, fd, ver>>
          /\ at'[w] = at[w] + 1
          /\ stage[w] = "write"
          /\ stage'[w] = IF at[w] = Chunks THEN "fsync" ELSE "write"
      BY <2>3 DEF WriteChunk, Step, MetaTypeOK, names, dirVars
    <3>4. \A k \in Pieces : k < at'[w] => content'[fd[w]][k] = ver[w]
      <4> SUFFICES ASSUME NEW k \in Pieces, k < at'[w]
                   PROVE  content'[fd[w]][k] = ver[w]
        OBVIOUS
      <4>1. content[fd[w]] \in [Pieces -> Versions]
        BY <3>1 DEF MetaTypeOK
      <4>2. k = at[w] \/ k < at[w]
        BY <3>1, <3>3 DEF Pieces
      <4> QED
        BY <1>0, <3>1, <3>2, <3>3, <4>1, <4>2 DEF ProgressOf
    <3>5. at[w] = Chunks => \A k \in Pieces : k < at'[w]
      BY <1>0, <3>3 DEF Pieces
    <3> QED
      BY <1>0, <3>3, <3>4, <3>5 DEF ProgressOf, Written, Writing
  <2>4. CASE Fsync(w)
    BY <1>0, <2>4 DEF Fsync, Step, MetaTypeOK, ProgressOf, Written, PrivateInv,
       HandleInv, Writing, names, dirVars
  <2>5. CASE Replace(w) /\ ~NotFound(w)
    BY <1>0, <2>5 DEF Replace, Step, MetaTypeOK, ProgressOf, Written, Writing, dirVars
  <2>6. CASE SyncDir(w) /\ ~NotFound(w)
    BY <1>1, <2>6 DEF SyncDir, Step, MetaTypeOK, Writing
  <2> QED
    BY <1>2, <2>1, <2>2, <2>3, <2>4, <2>5, <2>6, NotFoundOr
<1>3. ASSUME NEW o \in Writers, o # w, WriteMetadata(o) PROVE ProgressOf(w)'
  <2>1. CASE NotFound(o)
    BY <1>0, <1>3, <2>1 DEF NotFound, MetaTypeOK, ProgressOf, Written, dirVars
  <2>2. CASE ~NotFound(o)
    BY <1>1, <1>3, <2>2, Alone
  <2> QED
    BY <2>1, <2>2
<1>4. CASE ReadOpen \/ ReadChunk \/ UNCHANGED metaVars
  BY <1>0, <1>4 DEF ReadOpen, ReadChunk, metaVars, ProgressOf, Written, dirVars, names,
     writerVars
<1>5. CASE RemoveFiles \/ RemoveDir
  BY <1>0, <1>5 DEF RemoveFiles, RemoveDir, ProgressOf, Written, names, writerVars
<1>6. ASSUME NEW o \in Writers, KillWriter(o) PROVE ProgressOf(w)'
  <2>1. CASE o = w
    BY <1>1, <1>6, <2>1 DEF KillWriter, Step, MetaTypeOK, Writing
  <2>2. CASE o # w
    BY <1>0, <1>6, <2>2 DEF KillWriter, Step, MetaTypeOK, ProgressOf, Written, dirVars,
       names
  <2> QED
    BY <2>1, <2>2
<1>7. CASE PowerFailure
  BY <1>1, <1>7 DEF PowerFailure, Writing
<1> QED
  BY <1>2, <1>3, <1>4, <1>5, <1>6, <1>7 DEF MetaNext, MetaEnvironment

(* How the two names of vm.json move: to the temporary file when it is whole  *)
(* and on disk, to each other, or to nothing. *)
LEMMA NamesStep ==
  ASSUME [MetaNext]_metaVars
  PROVE  /\ \/ json' = json
            \/ \E w \in Writers :
                 /\ stage[w] = "replace" /\ tmp # NoFile /\ json' = tmp
                 /\ UNCHANGED <<content, synced, jsonOnDisk, rfd, got, removal, dir,
                                version, acked>>
            \/ json' = jsonOnDisk /\ PowerFailure
            \/ json' = NoFile /\ removal' = "files"
         /\ \/ jsonOnDisk' \in {jsonOnDisk, json}
            \/ jsonOnDisk' = NoFile /\ removal' = "files"
         /\ rfd' \in {NoFile, rfd, json}
         /\ removal' = "none" => removal = "none"
<1>1. ASSUME NEW w \in Writers, WriteMetadata(w)
      PROVE  /\ \/ json' = json
                \/ /\ stage[w] = "replace" /\ tmp # NoFile /\ json' = tmp
                   /\ UNCHANGED <<content, synced, jsonOnDisk, rfd, got, removal, dir,
                                  version, acked>>
             /\ jsonOnDisk' = jsonOnDisk \/ jsonOnDisk' = json
             /\ rfd' = rfd /\ removal' = removal
  <2>1. CASE NotFound(w)
    BY <2>1 DEF NotFound, dirVars, readerVars
  <2>2. CASE Open(w) /\ ~NotFound(w)
    BY <2>2 DEF Open, dirVars, readerVars
  <2>3. CASE WriteChunk(w) \/ Fsync(w)
    BY <2>3 DEF WriteChunk, Fsync, names, dirVars, readerVars
  <2>4. CASE Replace(w) /\ ~NotFound(w)
    BY <2>4 DEF Replace, dirVars, readerVars
  <2>5. CASE SyncDir(w) /\ ~NotFound(w)
    BY <2>5 DEF SyncDir, dirVars, readerVars
  <2> QED
    BY <1>1, <2>1, <2>2, <2>3, <2>4, <2>5, NotFoundOr
<1>2. CASE PowerFailure
  BY <1>2 DEF PowerFailure, dirVars
<1>3. CASE ReadOpen \/ ReadChunk \/ RemoveFiles \/ RemoveDir \/ UNCHANGED metaVars
  BY <1>3 DEF ReadOpen, ReadChunk, RemoveFiles, RemoveDir, metaVars, names, dirVars,
     readerVars
<1>4. ASSUME NEW w \in Writers, KillWriter(w)
      PROVE  UNCHANGED <<json, jsonOnDisk, rfd, removal>>
  BY <1>4 DEF KillWriter, names, dirVars, readerVars
<1> QED
  BY <1>1, <1>2, <1>3, <1>4 DEF MetaNext, MetaEnvironment

(* vm.json stays whole and on disk. *)
LEMMA SolidStep ==
  ASSUME MetaTypeOK, HandleInv, PrivateInv, ProgressInv, SolidInv, [MetaNext]_metaVars
  PROVE  SolidInv'
<1> DEFINE Solid(i) == i # NoFile => i \in synced /\ Whole(content[i])
           SolidNext(i) == i # NoFile => i \in synced' /\ Whole(content'[i])
<1>1. Solid(json) /\ Solid(jsonOnDisk)
  BY DEF SolidInv
<1>2. SolidNext(json) /\ SolidNext(jsonOnDisk)
  BY <1>1, Untouched
<1>3. SolidNext(json')
  <2>1. ASSUME NEW w \in Writers, stage[w] = "replace", tmp # NoFile, json' = tmp,
               UNCHANGED <<content, synced>>
        PROVE  SolidNext(json')
    <3>1. tmp \in synced /\ Written(tmp, ver[w]) /\ ver[w] = version /\ version > 0
      BY <2>1 DEF ProgressInv, ProgressOf, Writing
    <3>2. version \in 1..MaxVersion
      BY <3>1, MetadataAssumption DEF MetaTypeOK, Versions
    <3> QED
      BY <2>1, <3>1, <3>2 DEF Written, Whole
  <2> QED
    BY <1>2, <2>1, NamesStep
<1>4. SolidNext(jsonOnDisk')
  BY <1>2, NamesStep
<1>5. rfd' # NoFile => Whole(content'[rfd'])
  <2>1. CASE rfd' = json
    BY <1>2, <2>1
  <2>2. CASE rfd' = rfd
    <3>1. PowerFailure => rfd' = NoFile
      BY DEF PowerFailure
    <3> QED
      BY <2>2, <3>1, Untouched DEF SolidInv
  <2> QED
    BY <2>1, <2>2, NamesStep
<1> QED
  BY <1>3, <1>4, <1>5 DEF SolidInv

(* What the reader has is the beginning of its file, which nobody touches. *)
LEMMA ReadStep ==
  ASSUME MetaTypeOK, HandleInv, PrivateInv, SolidInv, ReadInv, [MetaNext]_metaVars
  PROVE  ReadInv'
<1>0. Chunks \in Nat \ {0} /\ NoFile \notin Inodes
  BY MetadataAssumption
<1>1. CASE ReadOpen \/ PowerFailure
  <2>1. got' = <<>>
    BY <1>1 DEF ReadOpen, PowerFailure
  <2> QED
    BY <1>0, <2>1 DEF ReadInv, EveryReadIsWhole
<1>2. CASE ReadChunk
  <2>1. rfd \in Inodes /\ Len(got) < Chunks /\ got \in Seq(Versions)
    BY <1>2 DEF ReadChunk, HandleInv, MetaTypeOK
  <2>2. Len(got) + 1 \in Pieces
    BY <1>0, <2>1 DEF Pieces
  <2>3. content[rfd][Len(got) + 1] \in Versions /\ content' = content
    BY <1>2, <2>1, <2>2 DEF MetaTypeOK, ReadChunk
  <2>4. /\ got' = Append(got, content[rfd][Len(got) + 1])
        /\ Len(got') = Len(got) + 1
    BY <1>2, <2>1, <2>3 DEF ReadChunk
  <2>5. \A k \in 1..Len(got') : got'[k] = content[rfd][k]
    <3> SUFFICES ASSUME NEW k \in 1..Len(got') PROVE got'[k] = content[rfd][k]
      OBVIOUS
    <3>1. k \in 1..Len(got) \/ k = Len(got) + 1
      BY <2>1, <2>4
    <3> QED
      BY <1>2, <2>1, <2>3, <2>4, <3>1 DEF ReadInv, ReadChunk
  <2>6. Len(got') = Chunks => Whole(got')
    <3> SUFFICES ASSUME Len(got') = Chunks PROVE Whole(got')
      OBVIOUS
    <3>1. \A k \in Pieces : got'[k] = content[rfd][k]
      BY <2>5 DEF Pieces
    <3>2. Whole(content[rfd])
      BY <1>2 DEF ReadChunk, SolidInv
    <3> QED
      BY <3>1, <3>2 DEF Whole
  <2>7. rfd' # NoFile => rfd' = rfd
    BY <1>2 DEF ReadChunk
  <2> QED
    BY <2>3, <2>5, <2>6, <2>7 DEF ReadInv, EveryReadIsWhole
<1>3. CASE ~(ReadOpen \/ PowerFailure \/ ReadChunk)
  <2>1. UNCHANGED <<rfd, got>>
    <3>1. ASSUME NEW w \in Writers, WriteMetadata(w) PROVE UNCHANGED <<rfd, got>>
      <4>1. NotFound(w) => UNCHANGED <<rfd, got>>
        BY DEF NotFound, readerVars
      <4> QED
        BY <3>1, <4>1 DEF WriteMetadata, Open, WriteChunk, Fsync, Replace, SyncDir,
           readerVars
    <3> QED
      BY <1>3, <3>1 DEF MetaNext, MetaEnvironment, RemoveFiles, RemoveDir, KillWriter,
         metaVars, readerVars
  <2>2. rfd # NoFile => content'[rfd] = content[rfd]
    BY <1>3, Untouched
  <2> QED
    BY <2>1, <2>2 DEF ReadInv, EveryReadIsWhole
<1> QED
  BY <1>1, <1>2, <1>3

(* Who acknowledges a version, and who hands one out. *)
LEMMA AckSteps ==
  ASSUME MetaTypeOK, AckInv, [MetaNext]_metaVars
  PROVE  /\ version' \in {version, version + 1}
         /\ \/ acked' = acked
            \/ \E w \in Writers :
                 /\ stage[w] = "sync" /\ acked' = ver[w]
                 /\ jsonOnDisk' = json
                 /\ UNCHANGED <<json, content, version>>
         /\ removal' = "none" => dir'
<1>0. removal = "none" => dir
  BY DEF AckInv
<1>1. ASSUME NEW w \in Writers, WriteMetadata(w)
      PROVE  /\ version' \in {version, version + 1}
             /\ \/ acked' = acked
                \/ /\ stage[w] = "sync" /\ acked' = ver[w]
                   /\ jsonOnDisk' = json
                   /\ UNCHANGED <<json, content, version>>
             /\ UNCHANGED <<dir, removal>>
  <2>1. CASE NotFound(w)
    BY <2>1 DEF NotFound, dirVars
  <2>2. CASE Open(w) /\ ~NotFound(w)
    BY <2>2 DEF Open, dirVars
  <2>3. CASE WriteChunk(w) \/ Fsync(w)
    BY <2>3 DEF WriteChunk, Fsync, dirVars
  <2>4. CASE Replace(w) /\ ~NotFound(w)
    BY <2>4 DEF Replace, dirVars
  <2>5. CASE SyncDir(w) /\ ~NotFound(w)
    BY <2>5 DEF SyncDir, dirVars
  <2> QED
    BY <1>1, <2>1, <2>2, <2>3, <2>4, <2>5, NotFoundOr
<1>2. CASE ReadOpen \/ ReadChunk \/ RemoveFiles \/ RemoveDir \/ PowerFailure
             \/ UNCHANGED metaVars
  BY <1>0, <1>2 DEF ReadOpen, ReadChunk, RemoveFiles, RemoveDir, PowerFailure, metaVars,
     dirVars
<1>3. ASSUME NEW w \in Writers, KillWriter(w)
      PROVE  UNCHANGED <<version, acked, dir, removal>>
  BY <1>3 DEF KillWriter, dirVars
<1> QED
  BY <1>0, <1>1, <1>2, <1>3 DEF MetaNext, MetaEnvironment

(* Both names stay as new as what has been acknowledged. *)
LEMMA AckStep ==
  ASSUME MetaTypeOK, HandleInv, PrivateInv, ProgressInv, SolidInv, AckInv,
         [MetaNext]_metaVars
  PROVE  AckInv'
<1>0. /\ acked \in Nat /\ version \in Nat /\ 1 \in Pieces
      /\ \A w \in Writers : ver[w] \in Nat
      /\ \A i \in Inodes : content[i][1] \in Nat
  BY MetadataAssumption DEF MetaTypeOK, Versions, Pieces
<1>1. acked' <= version'
  <2>1. CASE acked' = acked
    BY <1>0, <2>1, AckSteps DEF AckInv
  <2>2. ASSUME NEW w \in Writers, stage[w] = "sync", acked' = ver[w], version' = version
        PROVE  acked' <= version'
    BY <1>0, <2>2 DEF ProgressInv, ProgressOf, Writing
  <2> QED
    BY <2>1, <2>2, AckSteps
<1>2. ASSUME removal' = "none", acked' > 0
      PROVE  \A i \in {json', jsonOnDisk'} : i # NoFile /\ content'[i][1] >= acked'
  <2>0. removal = "none"
    BY <1>2, NamesStep
  <2>1. CASE acked' = acked
    <3>1. \A i \in {json, jsonOnDisk} : i # NoFile /\ content[i][1] >= acked
      BY <1>2, <2>0, <2>1 DEF AckInv
    <3>2. \A i \in {json, jsonOnDisk} : i # NoFile /\ content'[i][1] >= acked
      BY <3>1, Untouched
    <3>3. jsonOnDisk' \in {jsonOnDisk, json}
      BY <1>2, <3>1, NamesStep
    <3>4. ASSUME NEW w \in Writers, stage[w] = "replace", tmp # NoFile, json' = tmp,
                 content' = content
          PROVE  json' # NoFile /\ content'[json'][1] >= acked
      <4>1. content[tmp][1] = version
        BY <1>0, <3>4 DEF ProgressInv, ProgressOf, Written, Writing
      <4> QED
        BY <1>0, <3>4, <4>1 DEF AckInv
    <3>5. json' # NoFile /\ content'[json'][1] >= acked
      BY <1>2, <3>2, <3>4, NamesStep
    <3> QED
      BY <2>1, <3>2, <3>3, <3>5
  <2>2. ASSUME NEW w \in Writers, stage[w] = "sync", acked' = ver[w],
               jsonOnDisk' = json, UNCHANGED <<json, content>>
        PROVE  \A i \in {json', jsonOnDisk'} : i # NoFile /\ content'[i][1] >= acked'
    <3>1. json # NoFile /\ content[json][1] = ver[w]
      BY <1>0, <2>0, <2>2 DEF ProgressInv, ProgressOf, Written
    <3> QED
      BY <1>0, <2>2, <3>1
  <2> QED
    BY <2>1, <2>2, AckSteps
<1> QED
  BY <1>1, <1>2, AckSteps DEF AckInv

(* What has overlapped once has overlapped for ever. *)
LEMMA RivalryStays == [MetaNext]_metaVars => (rivalry => rivalry')
<1> SUFFICES ASSUME [MetaNext]_metaVars PROVE rivalry => rivalry'
  OBVIOUS
<1>1. ASSUME NEW w \in Writers, WriteMetadata(w) PROVE rivalry => rivalry'
  BY <1>1 DEF WriteMetadata, Open, Mark, WriteChunk, Fsync, Replace, SyncDir, NotFound
<1>2. CASE MetaEnvironment \/ UNCHANGED metaVars
  BY <1>2 DEF MetaEnvironment, ReadOpen, ReadChunk, RemoveFiles, RemoveDir, KillWriter,
     PowerFailure, metaVars, writerVars
<1> QED
  BY <1>1, <1>2 DEF MetaNext

(* The invariant of writes that have not overlapped. *)
LEMMA MetaInvAlways == MetaSpec => [](rivalry \/ MetaInv)
<1>1. MetaInit => MetaInv
  <2> SUFFICES ASSUME MetaInit PROVE MetaInv
    OBVIOUS
  <2>0. Chunks \in Nat \ {0}
    BY MetadataAssumption
  <2>1. HandleInv /\ TurnInv /\ PrivateInv
    BY DEF MetaInit, HandleInv, TurnInv, PrivateInv, Writing
  <2>2. ProgressInv /\ SolidInv
    BY DEF MetaInit, ProgressInv, ProgressOf, SolidInv, Writing
  <2>3. ReadInv /\ AckInv
    BY <2>0 DEF MetaInit, ReadInv, EveryReadIsWhole, AckInv
  <2> QED
    BY <2>1, <2>2, <2>3 DEF MetaInv
<1>2. MetaTypeOK /\ (rivalry \/ MetaInv) /\ [MetaNext]_metaVars => (rivalry \/ MetaInv)'
  BY RivalryStays, HandleStep, TurnStep, PrivateStep, ProgressStep, SolidStep, ReadStep, AckStep
  DEF MetaInv
<1> QED
  BY <1>1, <1>2, MetaTypeCorrect, PTL DEF MetaSpec

(* As long as no two writes have overlapped, a reader that has read vm.json   *)
(* to its end has read one version, whatever was replaced, removed or killed   *)
(* meanwhile. *)
THEOREM ReadsOneVersionAlways == MetaSpec => []ReadsOneVersion
<1>1. rivalry \/ MetaInv => ReadsOneVersion
  BY DEF MetaInv, ReadInv, EveryReadIsWhole, ReadsOneVersion
<1> QED
  BY <1>1, MetaInvAlways, PTL

(* As long as no two writes have overlapped, what _write_metadata has reported *)
(* as written is there after any kill and any power failure, until the        *)
(* removal. *)
THEOREM AckedSurvivesAlways == MetaSpec => []AckedSurvives
<1>1. rivalry \/ MetaInv => AckedSurvives
  BY DEF MetaInv, AckInv, SolidInv, AckedSurvives
<1> QED
  BY <1>1, MetaInvAlways, PTL

-----------------------------------------------------------------------------
(* Writes that may overlap.                                                *)

\* Writes that are under way together have crossed, and the temporary file of one
\* that has not is missing only when somebody removes the directory.
CrossInv ==
  /\ removal = "none" => dir
  /\ \A w, o \in Writers :
       w # o /\ stage[w] \in Writing /\ stage[o] \in Writing => w \in crossed
  /\ \A w \in Writers :
       /\ stage[w] \in {"write", "fsync", "replace"} /\ w \notin crossed /\ tmp = NoFile =>
            removal # "none"
       /\ stage[w] = "gone" => removal # "none" \/ w \in crossed

(* The step of one writer: it may open, and then it marks its rivals; it may   *)
(* take vm.json.tmp away, and then its rivals are marked already. *)
LEMMA CrossWrite ==
  ASSUME MetaTypeOK, CrossInv, NEW w \in Writers, WriteMetadata(w)
  PROVE  CrossInv'
<1>0. removal' = removal /\ dir' = dir
  BY DEF WriteMetadata, Open, WriteChunk, Fsync, Replace, SyncDir, NotFound, dirVars
<1>1. CASE Open(w) /\ ~NotFound(w)
  <2>1. /\ tmp' # NoFile /\ stage[w] = "rest" /\ stage' = [stage EXCEPT ![w] = "write"]
        /\ crossed' = IF Rivals(w) = {} THEN crossed \ {w} ELSE crossed \cup Rivals(w) \cup {w}
    BY <1>1, FreshIsFree, MetadataAssumption DEF Open, Mark, Step, MetaTypeOK
  <2> QED
    BY <1>0, <2>1 DEF CrossInv, Rivals, Writing, MetaTypeOK
<1>2. CASE WriteChunk(w) \/ Fsync(w)
  BY <1>0, <1>2 DEF WriteChunk, Fsync, Step, CrossInv, Writing, MetaTypeOK, names
<1>3. CASE Replace(w) /\ ~NotFound(w)
  <2>1. stage[w] = "replace" /\ stage' = [stage EXCEPT ![w] = "sync"] /\ crossed' = crossed
    BY <1>3 DEF Replace, Step
  <2> QED
    BY <1>0, <2>1 DEF CrossInv, Writing, MetaTypeOK
<1>4. CASE SyncDir(w) /\ ~NotFound(w)
  BY <1>0, <1>4 DEF SyncDir, Step, CrossInv, Writing, MetaTypeOK
<1>5. CASE NotFound(w)
  <2>1. /\ stage' = [stage EXCEPT ![w] = "gone"] /\ crossed' = crossed
        /\ tmp' = tmp \/ tmp' = NoFile
    BY <1>5 DEF NotFound
  <2>2. ~dir \/ (stage[w] = "replace" /\ tmp = NoFile)
    BY <1>5 DEF WriteMetadata, Open, WriteChunk, Fsync, Replace, SyncDir, NotFound, Step,
       MetaTypeOK
  <2> QED
    BY <1>0, <2>1, <2>2 DEF CrossInv, Writing, MetaTypeOK
<1> QED
  BY <1>1, <1>2, <1>3, <1>4, <1>5 DEF WriteMetadata

(* Nobody else starts a write, or takes its file but to remove the directory. *)
LEMMA CrossStep == MetaTypeOK /\ CrossInv /\ [MetaNext]_metaVars => CrossInv'
<1> SUFFICES ASSUME MetaTypeOK, CrossInv, [MetaNext]_metaVars PROVE CrossInv'
  OBVIOUS
<1>1. ASSUME NEW w \in Writers, WriteMetadata(w) PROVE CrossInv'
  BY <1>1, CrossWrite
<1>2. CASE ReadOpen \/ ReadChunk \/ UNCHANGED metaVars
  BY <1>2 DEF ReadOpen, ReadChunk, metaVars, writerVars, dirVars, names, CrossInv
<1>3. CASE RemoveFiles \/ RemoveDir
  BY <1>3 DEF RemoveFiles, RemoveDir, writerVars, names, CrossInv
<1>4. ASSUME NEW w \in Writers, KillWriter(w) PROVE CrossInv'
  BY <1>4 DEF KillWriter, Step, dirVars, names, CrossInv, Writing, MetaTypeOK
<1>5. CASE PowerFailure
  BY <1>5 DEF PowerFailure, dirVars, CrossInv, Writing, MetaTypeOK
<1> QED
  BY <1>1, <1>2, <1>3, <1>4, <1>5 DEF MetaNext, MetaEnvironment

(* Whoever writes beside whom: a writer is told that the directory is gone     *)
(* only when somebody is removing it, or another write has crossed its own. *)
THEOREM GoneMeansGoneAlways == MetaSpec => []GoneMeansGone
<1>1. MetaInit => CrossInv
  BY DEF MetaInit, CrossInv, Writing
<1>2. CrossInv => GoneMeansGone
  BY DEF CrossInv, GoneMeansGone
<1> QED
  BY <1>1, <1>2, CrossStep, MetaTypeCorrect, PTL DEF MetaSpec
=============================================================================
