----------------------------- MODULE LocalCopy -----------------------------
(***************************************************************************)
(* copy, move and rename of local files: SyncPath and AsyncPath of         *)
(* src/src/asanypath/local.py over destination_state, local_copy_file_sync *)
(* and run_transfer of _transfer.py.  Several calls run at once (tasks,    *)
(* threads or processes); each step is one operation on the file system,   *)
(* which is external: directory entries, the inodes they name, and handles *)
(* that keep an inode after its entry is gone.                             *)
(*                                                                         *)
(* A path is a string; two paths may resolve to one directory entry        *)
(* (relative and absolute, through a symbolic link).  The content of an    *)
(* inode is a sequence of blocks, each of one version of some file.        *)
(***************************************************************************)
EXTENDS Integers, Sequences, FiniteSets

CONSTANTS CpCalls,     \* calls of copy, move or rename
          CpPaths,     \* path strings
          CpEntries,   \* directory entries
          CpEntryOf,   \* the entry each path resolves to
          CpFileSize,  \* blocks of a whole file
          CpVersions,  \* bound: different contents at the start
          CpKinds      \* the calls made: records of atomic, force, remove, rename

\* Every file has the same, positive size; paths resolve to entries.
ASSUME CpAssumption ==
    /\ IsFiniteSet(CpCalls) /\ IsFiniteSet(CpEntries)
    /\ CpFileSize \in Nat \ {0} /\ CpVersions \in Nat
    /\ CpEntryOf \in [CpPaths -> CpEntries]
    /\ CpKinds \subseteq [atomic : BOOLEAN, force : BOOLEAN, remove : BOOLEAN, rename : BOOLEAN]

VARIABLES cpDir,     \* the inode of each entry, 0 when there is no file
          cpData,    \* the content of each inode
          cpPc,      \* where each call is
          cpArgs,    \* its arguments
          cpSource,  \* the inode its source handle is open on
          cpTarget,  \* the inode it writes: a temporary file's or the destination's
          cpPos,     \* blocks it has copied
          cpTemp,    \* the calls whose temporary file exists
          cpInitial  \* history: the versions that were there at the start

cpVars == <<cpDir, cpData, cpPc, cpArgs, cpSource, cpTarget, cpPos, cpTemp, cpInitial>>

CpOver == {"ok", "error", "killed"}
CpInodes == 1..(Cardinality(CpEntries) + 2 * Cardinality(CpCalls))
CpFirstInode == CHOOSE n \in [CpEntries -> 1..Cardinality(CpEntries)] :
                \A e, f \in CpEntries : n[e] = n[f] => e = f
CpHole == 0
CpAnyPath == CHOOSE path \in CpPaths : TRUE
CpAnyKind == [atomic |-> FALSE, force |-> FALSE, remove |-> FALSE, rename |-> FALSE]
CpNoArgs == [src |-> CpAnyPath, dst |-> CpAnyPath, kind |-> CpAnyKind]

CpFile(path) == cpDir[CpEntryOf[path]]
CpWhole(content) == Len(content) = CpFileSize /\ \A i \in 1..CpFileSize : content[i] = content[1]

\* A new inode: one that nothing names, writes or reads.
CpInUse == {cpDir[e] : e \in CpEntries}
             \cup {cpSource[c] : c \in CpCalls} \cup {cpTarget[c] : c \in CpCalls}
CpNewInode == CHOOSE i \in CpInodes \ CpInUse : TRUE

\* str(src) == str(dst)
CpSamePath(c) == cpArgs[c].src = cpArgs[c].dst

\* What destination_state compares once dst is a file: the checksums.
CpSameContent(c) == cpData[CpFile(cpArgs[c].src)] = cpData[CpFile(cpArgs[c].dst)]

\* remove_src and str(self) != str(dst)
CpRemoves(c) == cpArgs[c].kind.remove /\ ~CpSamePath(c)

\* os.link raises FileExistsError
CpCommitOverwrites(c) == FALSE
CpCommitRefused(c) == ~cpArgs[c].kind.force /\ CpFile(cpArgs[c].dst) # 0

\* The file that is written: a temporary one for atomic=True.
CpStages(c) == cpArgs[c].kind.atomic

\* dst_file.write at the handle's position.
CpWritten(content, at, block) ==
    [i \in 1..(IF Len(content) > at THEN Len(content) ELSE at + 1) |->
        IF i = at + 1 THEN block ELSE IF i <= Len(content) THEN content[i] ELSE CpHole]

-----------------------------------------------------------------------------
\* Any entries are files, with different contents or with the same.
CpInit ==
    /\ \E version \in [CpEntries -> 0..CpVersions] :
         /\ cpInitial = {version[e] : e \in CpEntries} \ {0}
         /\ cpDir = [e \in CpEntries |-> IF version[e] = 0 THEN 0 ELSE CpFirstInode[e]]
         /\ cpData = [i \in CpInodes |->
                      IF \E e \in CpEntries : CpFirstInode[e] = i
                      THEN [k \in 1..CpFileSize |-> version[CHOOSE e \in CpEntries : CpFirstInode[e] = i]]
                      ELSE <<>>]
    /\ cpPc = [c \in CpCalls |-> "idle"]
    /\ cpArgs = [c \in CpCalls |-> CpNoArgs]
    /\ cpSource = [c \in CpCalls |-> 0] /\ cpTarget = [c \in CpCalls |-> 0]
    /\ cpPos = [c \in CpCalls |-> 0]
    /\ cpTemp = {}

\* copy(src, dst, ...) or rename(src, dst, ...) is called.
CpCall(c) ==
    /\ cpPc[c] = "idle"
    /\ \E s, d \in CpPaths, k \in CpKinds :
         cpArgs' = [cpArgs EXCEPT ![c] = [src |-> s, dst |-> d, kind |-> k]]
    /\ cpPc' = [cpPc EXCEPT ![c] = "inspect"]
    /\ UNCHANGED <<cpDir, cpData, cpSource, cpTarget, cpPos, cpTemp>>

\* destination_state and require_force.
CpInspect(c) ==
    LET src == CpFile(cpArgs[c].src)
        dst == CpFile(cpArgs[c].dst)
        copying == IF cpArgs[c].kind.rename THEN "rename" ELSE "stage"
    IN  /\ cpPc[c] = "inspect"
        /\ cpPc' = [cpPc EXCEPT ![c] =
                    CASE CpSamePath(c) -> "remove"
                      [] ~CpSamePath(c) /\ dst = 0 -> copying
                      [] ~CpSamePath(c) /\ dst # 0 /\ src = 0 -> "error"
                      [] OTHER -> IF CpSameContent(c) THEN "remove"
                                  ELSE IF cpArgs[c].kind.force THEN copying ELSE "error"]
        /\ UNCHANGED <<cpDir, cpData, cpArgs, cpSource, cpTarget, cpPos, cpTemp>>

\* Path.rename
CpRename(c) ==
    /\ cpPc[c] = "rename"
    /\ \/ /\ CpFile(cpArgs[c].src) = 0
          /\ cpPc' = [cpPc EXCEPT ![c] = "error"]
          /\ UNCHANGED cpDir
       \/ /\ CpFile(cpArgs[c].src) # 0
          /\ cpPc' = [cpPc EXCEPT ![c] = "ok"]
          /\ cpDir' = IF CpEntryOf[cpArgs[c].src] = CpEntryOf[cpArgs[c].dst] THEN cpDir
                    ELSE [cpDir EXCEPT ![CpEntryOf[cpArgs[c].dst]] = CpFile(cpArgs[c].src),
                                     ![CpEntryOf[cpArgs[c].src]] = 0]
    /\ UNCHANGED <<cpData, cpArgs, cpSource, cpTarget, cpPos, cpTemp>>

\* Open the source and create (or truncate) what is written.
CpStage(c) ==
    /\ cpPc[c] = "stage"
    /\ CpFile(cpArgs[c].src) # 0
    /\ cpPc' = [cpPc EXCEPT ![c] = "copy"]
    /\ cpSource' = [cpSource EXCEPT ![c] = CpFile(cpArgs[c].src)]
    /\ \/ /\ CpStages(c)
          /\ cpTarget' = [cpTarget EXCEPT ![c] = CpNewInode]
          /\ cpData' = [cpData EXCEPT ![CpNewInode] = <<>>]
          /\ cpTemp' = cpTemp \cup {c}
          /\ UNCHANGED cpDir
       \/ /\ ~CpStages(c)
          /\ LET opened == IF CpFile(cpArgs[c].dst) = 0 THEN CpNewInode ELSE CpFile(cpArgs[c].dst)
             IN  /\ cpTarget' = [cpTarget EXCEPT ![c] = opened]
                 /\ cpData' = [cpData EXCEPT ![opened] = <<>>]
                 /\ cpDir' = [cpDir EXCEPT ![CpEntryOf[cpArgs[c].dst]] = opened]
          /\ UNCHANGED cpTemp
    /\ UNCHANGED <<cpArgs, cpPos>>

\* The source is gone, or the target cannot be opened.
CpStageFails(c) ==
    /\ cpPc[c] = "stage"
    /\ cpPc' = [cpPc EXCEPT ![c] = "error"]
    /\ UNCHANGED <<cpDir, cpData, cpArgs, cpSource, cpTarget, cpPos, cpTemp>>

\* Read a block and write it.
CpCopyBlock(c) ==
    /\ cpPc[c] = "copy"
    /\ cpPos[c] < Len(cpData[cpSource[c]])
    /\ cpData' = [cpData EXCEPT ![cpTarget[c]] =
                     CpWritten(@, cpPos[c], cpData[cpSource[c]][cpPos[c] + 1])]
    /\ cpPos' = [cpPos EXCEPT ![c] = @ + 1]
    /\ UNCHANGED <<cpDir, cpPc, cpArgs, cpSource, cpTarget, cpTemp>>

\* A read or a write raises: local_copy_file_sync lets it propagate.
CpCopyFails(c) ==
    /\ cpPc[c] = "copy"
    /\ cpPc' = [cpPc EXCEPT ![c] = "error"]
    /\ UNCHANGED <<cpDir, cpData, cpArgs, cpSource, cpTarget, cpPos, cpTemp>>

\* End of the source: close both files.
CpCopyEnds(c) ==
    /\ cpPc[c] = "copy"
    /\ cpPos[c] >= Len(cpData[cpSource[c]])
    /\ cpPc' = [cpPc EXCEPT ![c] = IF CpStages(c) THEN "commit" ELSE "remove"]
    /\ UNCHANGED <<cpDir, cpData, cpArgs, cpSource, cpTarget, cpPos, cpTemp>>

\* _commit_temp_sync: replace, or link and unlink; on failure the temporary
\* file is removed.
CpCommit(c) ==
    /\ cpPc[c] = "commit"
    /\ cpTemp' = cpTemp \ {c}
    /\ \/ /\ ~CpCommitRefused(c)
          /\ cpDir' = [cpDir EXCEPT ![CpEntryOf[cpArgs[c].dst]] = cpTarget[c]]
          /\ cpPc' = [cpPc EXCEPT ![c] = "remove"]
       \/ /\ cpPc' = [cpPc EXCEPT ![c] = "error"]
          /\ UNCHANGED cpDir
    /\ UNCHANGED <<cpData, cpArgs, cpSource, cpTarget, cpPos>>

\* run_transfer: remove the source when that was asked for, then return.
CpRemove(c) ==
    /\ cpPc[c] = "remove"
    /\ \/ /\ ~CpRemoves(c)
          /\ cpPc' = [cpPc EXCEPT ![c] = "ok"]
          /\ UNCHANGED cpDir
       \/ /\ CpRemoves(c) /\ CpFile(cpArgs[c].src) # 0
          /\ cpDir' = [cpDir EXCEPT ![CpEntryOf[cpArgs[c].src]] = 0]
          /\ cpPc' = [cpPc EXCEPT ![c] = "ok"]
       \/ /\ CpRemoves(c)
          /\ cpPc' = [cpPc EXCEPT ![c] = "error"]
          /\ UNCHANGED cpDir
    /\ UNCHANGED <<cpData, cpArgs, cpSource, cpTarget, cpPos, cpTemp>>

\* The process is killed.
CpKill(c) ==
    /\ cpPc[c] \notin CpOver \cup {"idle"}
    /\ cpPc' = [cpPc EXCEPT ![c] = "killed"]
    /\ UNCHANGED <<cpDir, cpData, cpArgs, cpSource, cpTarget, cpPos, cpTemp>>

CpStep(c) == \/ CpCall(c) \/ CpInspect(c) \/ CpRename(c) \/ CpStage(c) \/ CpStageFails(c)
             \/ CpCopyBlock(c) \/ CpCopyFails(c) \/ CpCopyEnds(c) \/ CpCommit(c) \/ CpRemove(c) \/ CpKill(c)

CpNext == (\E c \in CpCalls : CpStep(c)) /\ UNCHANGED cpInitial

CpDone == (\A c \in CpCalls : cpPc[c] \in CpOver) /\ UNCHANGED cpVars

CpSpec == CpInit /\ [][CpNext \/ CpDone]_cpVars
-----------------------------------------------------------------------------
\* Every variable has its type.
CpTypeOK ==
    /\ cpDir \in [CpEntries -> CpInodes \cup {0}]
    /\ cpData \in [CpInodes -> Seq(0..CpVersions)] /\ \A i \in CpInodes : Len(cpData[i]) <= CpFileSize
    /\ cpPc \in [CpCalls -> CpOver
                   \cup {"idle", "inspect", "rename", "stage", "copy", "commit", "remove"}]
    /\ cpSource \in [CpCalls -> CpInodes \cup {0}] /\ cpTarget \in [CpCalls -> CpInodes \cup {0}]
    /\ cpPos \in [CpCalls -> 0..CpFileSize]
    /\ cpTemp \subseteq CpCalls

CpCalled == {c \in CpCalls : cpPc[c] # "idle"}

\* "Use atomic=True to keep an existing local destination intact on failure":
\* while all calls are atomic (or renames), every file is whole at every
\* moment, whichever calls fail, are killed, or race for one destination.
CpAtomicFilesWhole ==
    (\A c \in CpCalled : cpArgs[c].kind.atomic \/ cpArgs[c].kind.rename) =>
        \A e \in CpEntries : cpDir[e] # 0 => CpWhole(cpData[cpDir[e]])

\* No call removes what another one takes for its destination.
CpNoCrossing ==
    \A c, d \in CpCalled :
        c # d /\ cpArgs[c].kind.remove => CpEntryOf[cpArgs[c].src] # CpEntryOf[cpArgs[d].dst]

\* "Moves remove the source only after a successful copy": atomic copies and
\* moves without force lose nothing, whichever of them fail, are killed or race
\* for one destination, as long as none removes another's destination: every
\* version that was there at the start is still the content of some file.
CpNothingLost ==
    /\ CpNoCrossing
    /\ \A c \in CpCalled : LET k == cpArgs[c].kind IN k.atomic /\ ~k.force /\ ~k.rename
    => \A v \in cpInitial : \E e \in CpEntries :
         cpDir[e] # 0 /\ cpData[cpDir[e]] = [i \in 1..CpFileSize |-> v]

\* Racing, failing and killed calls leave whole files, and all of them.
CpKeepsFiles == CpAtomicFilesWhole /\ CpNothingLost
=============================================================================
