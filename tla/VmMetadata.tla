----------------------------- MODULE VmMetadata ------------------------------
(***************************************************************************)
(* vm.json, the file through which the vmocs processes of one VM talk to    *)
(* each other: _write_metadata of launch.py opened up into its file         *)
(* operations, the readers (is_vm_stopping, teardown_vm, `vmocs list`) that *)
(* open and read the file while it is being replaced, the rmtree that       *)
(* removes it, and writers that are killed or lose power half way.          *)
(*                                                                         *)
(* Every writer uses the same name for its temporary file, vm.json.tmp.     *)
(* The supervisor, and the exit hook after it, write one after the other; a *)
(* user's `vmocs stop` writes while the supervisor does, and nothing orders *)
(* them.  The history variables tell the two cases apart.                  *)
(***************************************************************************)
EXTENDS Naturals, Sequences

CONSTANTS
  Writers,        \* the processes that write vm.json
  Chunks,         \* the pieces in which a version is written and read
  Inodes,         \* files
  NoFile,           \* no file
  MaxVersion,     \* bound on the versions written
  MaxFailures       \* bound on power failures

ASSUME MetadataAssumption ==
  /\ Chunks \in Nat \ {0} /\ MaxVersion \in Nat /\ MaxFailures \in Nat
  /\ NoFile \notin Inodes

\* The file system has a free inode whatever is named and held open.
ASSUME FreeInodeAssumption ==
  \A held \in [Writers -> Inodes \cup {NoFile}], i, j, k \in Inodes \cup {NoFile} :
    \E n \in Inodes : n \notin {i, j, k} \cup {held[w] : w \in Writers}

VARIABLES
  dir,            \* does the runtime directory exist?
  removal,        \* how far its removal has come
  tmp,            \* the file that vm.json.tmp names
  json,           \* the file that vm.json names
  jsonOnDisk,     \* the file that vm.json names after a power failure
  content,        \* each file's chunks: versions, 0 where nothing is written
  synced,        \* the files whose chunks are on disk
  version,        \* versions handed out so far
  acked,          \* the last version whose write has returned
  stage,             \* where each writer is
  fd,             \* the file each writer has open
  ver,            \* the version it writes
  at,             \* the chunk it writes next
  crossed,        \* history: the writers whose last write was not alone
  rivalry,        \* history: have two writes ever been under way together?
  rfd,            \* the file the reader has open
  got,            \* the chunks it has read
  failures          \* power failures so far

dirVars == <<dir, removal>>
names == <<tmp, json, jsonOnDisk>>
writerVars == <<stage, fd, ver, at, crossed, rivalry>>
readerVars == <<rfd, got>>
metaVars == <<dirVars, names, content, synced, version, acked, writerVars, readerVars,
          failures>>

Versions == 0..MaxVersion
Pieces == 1..Chunks
Blank == [k \in Pieces |-> 0]
Writing == {"write", "fsync", "replace", "sync"}
Stages == {"rest", "gone", "dead"} \cup Writing

\* The type invariant.
MetaTypeOK ==
  /\ dir \in BOOLEAN /\ removal \in {"none", "files", "done"}
  /\ {tmp, json, jsonOnDisk, rfd} \subseteq Inodes \cup {NoFile}
  /\ content \in [Inodes -> [Pieces -> Versions]]
  /\ synced \subseteq Inodes
  /\ version \in Versions /\ acked \in Versions
  /\ stage \in [Writers -> Stages]
  /\ fd \in [Writers -> Inodes \cup {NoFile}]
  /\ ver \in [Writers -> Versions]
  /\ at \in [Writers -> 1..Chunks + 1] /\ crossed \subseteq Writers
  /\ rivalry \in BOOLEAN
  /\ got \in Seq(Versions) /\ Len(got) <= Chunks
  /\ failures \in 0..MaxFailures

MetaInit ==
  /\ dir = TRUE /\ removal = "none"
  /\ tmp = NoFile /\ json = NoFile /\ jsonOnDisk = NoFile
  /\ content = [i \in Inodes |-> Blank] /\ synced = {}
  /\ version = 0 /\ acked = 0
  /\ stage = [w \in Writers |-> "rest"]
  /\ fd = [w \in Writers |-> NoFile]
  /\ ver = [w \in Writers |-> 0] /\ at = [w \in Writers |-> 1]
  /\ crossed = {} /\ rivalry = FALSE
  /\ rfd = NoFile /\ got = <<>>
  /\ failures = 0

-----------------------------------------------------------------------------
(* _write_metadata.                                                        *)

\* A file that nobody refers to, for open() to create.
Fresh == CHOOSE i \in Inodes :
           i \notin {tmp, json, jsonOnDisk, rfd} \cup {fd[w] : w \in Writers}

\* FileNotFoundError: raised, or with missing_ok, vm.json.tmp is unlinked
\* and the caller is told that the runtime directory has disappeared.
NotFound(w) ==
  /\ stage' = [stage EXCEPT ![w] = "gone"]
  /\ fd' = [fd EXCEPT ![w] = NoFile]
  /\ tmp' = tmp \/ tmp' = NoFile
  /\ UNCHANGED <<dirVars, json, jsonOnDisk, content, synced, version, acked, ver,
                 at, crossed, rivalry, readerVars, failures>>

Step(w, l) == stage' = [stage EXCEPT ![w] = l]

\* The other writers that are at it when w starts.
Rivals(w) == {o \in Writers \ {w} : stage[o] \in Writing}

\* w starts to write, alone or beside them.
Mark(w) ==
  /\ crossed' = IF Rivals(w) = {} THEN crossed \ {w} ELSE crossed \cup Rivals(w) \cup {w}
  /\ rivalry' = (rivalry \/ Rivals(w) # {})

\* (Mutant: the version is written over vm.json itself.)
OpenInPlace(w) ==
  /\ stage[w] = "rest" /\ version < MaxVersion /\ dir
  /\ LET i == IF json = NoFile THEN Fresh ELSE json IN
       /\ json' = i
       /\ tmp' = i
       /\ fd' = [fd EXCEPT ![w] = i]
       /\ content' = [content EXCEPT ![i] = Blank]
       /\ synced' = synced \ {i}
  /\ version' = version + 1
  /\ ver' = [ver EXCEPT ![w] = version']
  /\ at' = [at EXCEPT ![w] = 1]
  /\ Mark(w) /\ Step(w, "write")
  /\ UNCHANGED <<dirVars, jsonOnDisk, acked, readerVars, failures>>

\* open(vm.json.tmp, 'w') creates the file or truncates the one there.
Open(w) ==
  /\ stage[w] = "rest" /\ version < MaxVersion
  /\ \/ /\ dir
        /\ LET i == IF tmp = NoFile THEN Fresh ELSE tmp IN
             /\ tmp' = i
             /\ fd' = [fd EXCEPT ![w] = i]
             /\ content' = [content EXCEPT ![i] = Blank]
             /\ synced' = synced \ {i}
        /\ version' = version + 1
        /\ ver' = [ver EXCEPT ![w] = version']
        /\ at' = [at EXCEPT ![w] = 1]
        /\ Mark(w) /\ Step(w, "write")
        /\ UNCHANGED <<dirVars, json, jsonOnDisk, acked, readerVars, failures>>
     \/ ~dir /\ NotFound(w)

\* json.dump and flush, chunk by chunk, at the writer's own offset.
WriteChunk(w) ==
  /\ stage[w] = "write"
  /\ content' = [content EXCEPT ![fd[w]][at[w]] = ver[w]]
  /\ synced' = synced \ {fd[w]}
  /\ at' = [at EXCEPT ![w] = @ + 1]
  /\ Step(w, IF at[w] = Chunks THEN "fsync" ELSE "write")
  /\ UNCHANGED <<dirVars, names, version, acked, fd, ver, crossed, rivalry, readerVars, failures>>

\* fsync and close.
Fsync(w) ==
  /\ stage[w] = "fsync"
  /\ synced' = synced \cup {fd[w]}
  /\ fd' = [fd EXCEPT ![w] = NoFile]
  /\ Step(w, "replace")
  /\ UNCHANGED <<dirVars, names, content, version, acked, ver, at, crossed, rivalry, readerVars,
                 failures>>

\* os.replace renames whatever vm.json.tmp is by now.
Replace(w) ==
  /\ stage[w] = "replace"
  /\ \/ /\ tmp # NoFile
        /\ json' = tmp /\ tmp' = NoFile
        /\ Step(w, "sync")
        /\ UNCHANGED <<dirVars, jsonOnDisk, content, synced, version, acked, fd, ver,
                       at, crossed, rivalry, readerVars, failures>>
     \/ tmp = NoFile /\ NotFound(w)

\* (Mutant: the directory is not flushed.)
SyncDirSkipped(w) ==
  /\ stage[w] = "sync"
  /\ acked' = ver[w] /\ Step(w, "rest")
  /\ UNCHANGED <<dirVars, names, content, synced, version, fd, ver, at, crossed, rivalry,
                 readerVars, failures>>

\* (Mutant: the file's old name is flushed instead.)
SyncDirTemp(w) == stage[w] = "sync" /\ tmp = NoFile /\ NotFound(w)

\* Open and flush the directory, then return.
SyncDir(w) ==
  /\ stage[w] = "sync"
  /\ \/ /\ dir
        /\ jsonOnDisk' = json
        /\ acked' = ver[w]
        /\ Step(w, "rest")
        /\ UNCHANGED <<dirVars, tmp, json, content, synced, version, fd, ver, at, crossed, rivalry,
                       readerVars, failures>>
     \/ ~dir /\ NotFound(w)

WriteMetadata(w) ==
  Open(w) \/ WriteChunk(w) \/ Fsync(w) \/ Replace(w) \/ SyncDir(w)

-----------------------------------------------------------------------------
(* Readers, removal, crashes.                                              *)

\* A reader opens vm.json ...
ReadOpen ==
  /\ rfd = NoFile /\ json # NoFile
  /\ rfd' = json /\ got' = <<>>
  /\ UNCHANGED <<dirVars, names, content, synced, version, acked, writerVars, failures>>

\* ... reads it chunk by chunk, whatever happens to its name meanwhile, and
\* closes it after the last one.
ReadChunk ==
  /\ rfd # NoFile
  /\ got' = Append(got, content[rfd][Len(got) + 1])
  /\ rfd' = IF Len(got') = Chunks THEN NoFile ELSE rfd
  /\ UNCHANGED <<dirVars, names, content, synced, version, acked, writerVars, failures>>

\* rmtree: the files first ...
RemoveFiles ==
  /\ removal = "none" /\ dir
  /\ removal' = "files"
  /\ tmp' = NoFile /\ json' = NoFile /\ jsonOnDisk' = NoFile
  /\ UNCHANGED <<dir, content, synced, version, acked, writerVars, readerVars, failures>>

\* ... then the directory, unless a file has appeared in it.
RemoveDir ==
  /\ removal = "files"
  /\ removal' = "done"
  /\ dir' = (tmp # NoFile \/ json # NoFile)
  /\ UNCHANGED <<names, content, synced, version, acked, writerVars, readerVars,
                 failures>>

KillWriter(w) ==
  /\ stage[w] \in Writing
  /\ Step(w, "dead")
  /\ fd' = [fd EXCEPT ![w] = NoFile]
  /\ UNCHANGED <<dirVars, names, content, synced, version, acked, ver, at, crossed, rivalry,
                 readerVars, failures>>

\* The host loses power: everyone dies, a replacement that was not flushed
\* may be undone, and a file that was not flushed loses any of its chunks.
PowerFailure ==
  /\ failures < MaxFailures
  /\ failures' = failures + 1
  /\ stage' = [w \in Writers |-> IF stage[w] \in Writing THEN "dead" ELSE stage[w]]
  /\ fd' = [w \in Writers |-> NoFile]
  /\ rfd' = NoFile /\ got' = <<>>
  /\ json' \in {json, jsonOnDisk} /\ jsonOnDisk' = json'
  /\ \E lost \in SUBSET Pieces :
       content' = [i \in Inodes |-> [k \in Pieces |->
                     IF i \notin synced /\ k \in lost THEN 0 ELSE content[i][k]]]
  /\ synced' = Inodes
  /\ UNCHANGED <<dirVars, tmp, version, acked, ver, at, crossed, rivalry>>

MetaEnvironment ==
  \/ ReadOpen \/ ReadChunk \/ RemoveFiles \/ RemoveDir
  \/ (\E w \in Writers : KillWriter(w)) \/ PowerFailure

MetaNext == (\E w \in Writers : WriteMetadata(w)) \/ MetaEnvironment

MetaSpec == MetaInit /\ [][MetaNext]_metaVars

-----------------------------------------------------------------------------
(* Properties.                                                             *)

\* All chunks are of one version.
Whole(c) == \E v \in 1..MaxVersion : \A k \in Pieces : c[k] = v

(***************************************************************************)
(* "Atomically persist public VM state" (_write_metadata): as long as no    *)
(* two writes have overlapped, a reader that has read vm.json to its end    *)
(* has read one version, though the file was replaced, removed or its       *)
(* writer killed in between.                                               *)
(***************************************************************************)
ReadsOneVersion == ~rivalry /\ Len(got) = Chunks => Whole(got)

(***************************************************************************)
(* What _write_metadata has reported as written is there after any kill and *)
(* any power failure: until the directory is removed, and as long as no two *)
(* writes have overlapped, vm.json is a whole version and no older than the *)
(* last one acknowledged.                                                  *)
(***************************************************************************)
AckedSurvives ==
  ~rivalry /\ removal = "none" /\ acked > 0 =>
    json # NoFile /\ Whole(content[json]) /\ content[json][1] >= acked

(***************************************************************************)
(* "VM runtime disappeared before the checkpoint could be saved"            *)
(* (teardown_vm): a writer is told so only when somebody is removing the    *)
(* directory, or when another write has crossed its own and taken           *)
(* vm.json.tmp away.                                                        *)
(***************************************************************************)
GoneMeansGone ==
  \A w \in Writers : stage[w] = "gone" => removal # "none" \/ w \in crossed

(***************************************************************************)
(* The same whoever writes: atomically (_write_metadata).  Two writers put  *)
(* their chunks into one vm.json.tmp, and a reader gets both, or blanks.    *)
(***************************************************************************)
EveryReadIsWhole == Len(got) = Chunks => Whole(got)

(***************************************************************************)
(* The message alone: the runtime has disappeared (teardown_vm).            *)
(***************************************************************************)
DisappearedIsTrue == \A w \in Writers : stage[w] = "gone" => removal # "none"
=============================================================================
