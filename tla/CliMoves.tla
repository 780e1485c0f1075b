------------------------------ MODULE CliMoves ------------------------------
(***************************************************************************)
(* The commands mv, cp and rm of src/src/asanypath/cli.py ("stdin" is      *)
(* cp - DST, which writes its input without a look at DST).  mv and cp     *)
(* probe the destination and every source, decide where each goes, and     *)
(* hand the copies to the worker pool, where they run concurrently; rm     *)
(* probes and removes its paths one after the other.  Other programs may   *)
(* remove a source meanwhile.                                              *)
(*                                                                         *)
(* A source is one file or one directory with its content, which is the    *)
(* source's number; 0 is the content of something else.  The copy of an    *)
(* item is the contract of Moves: compare with what is at the target, then *)
(* write, then, for mv, remove the source.                                 *)
(***************************************************************************)
EXTENDS Integers, Sequences, FiniteSets

CONSTANTS CmSources,  \* bound on the number of sources
          CmNames,    \* their possible names
          CmWorkers   \* --concurrency

ASSUME CmAssumption == CmSources \in Nat \ {0} /\ CmWorkers \in Nat \ {0}

VARIABLES cmCmd,      \* the command
          cmForce,    \* --force
          cmRecursive,\* --recursive
          cmName,     \* the name of each source
          cmSrc,      \* what each source is: "file", "dir" or "gone"
          cmDst,      \* what the destination is: "absent", "file" or "dir"
          cmSlash,    \* the destination was written with a trailing slash
          cmAt,       \* the content at each target, -1 when there is none
          cmProbe,    \* (exists, is_dir) of the destination as probed
          cmPlan,     \* the targets decided so far
          cmItem,     \* where the item of each source is
          cmState,    \* "probe", "plan", "run" or "exit"
          cmExit,     \* the exit code
          cmVanished  \* sources another program removed

cmVars == <<cmCmd, cmForce, cmRecursive, cmName, cmSrc, cmDst, cmSlash, cmAt, cmProbe, cmPlan,
            cmItem, cmState, cmExit, cmVanished>>
cmGiven == <<cmCmd, cmForce, cmRecursive, cmName, cmSlash>>

CmCount == Len(cmName)
CmAll == 1..CmCount
\* A target: the destination itself, or a name in it.
CmSelf == "dst"
CmTargets == CmNames \cup {CmSelf}

CmInit ==
    /\ cmCmd \in {"mv", "cp", "rm", "stdin"} /\ cmForce \in BOOLEAN /\ cmRecursive \in BOOLEAN
    /\ \E n \in 1..CmSources : cmName \in [1..n -> CmNames]
    /\ cmSrc \in [CmAll -> {"file", "dir", "gone"}]
    /\ cmDst \in {"absent", "file", "dir"} /\ cmSlash \in BOOLEAN
    /\ cmCmd = "stdin" => CmCount = 1 /\ cmSrc[1] = "file" /\ ~cmForce /\ ~cmRecursive
    /\ cmCmd = "rm" => cmDst = "absent" /\ ~cmSlash
    /\ \E old \in {-1, 0, 1}, where \in CmTargets :
         /\ cmAt = [x \in CmTargets |-> IF x = where THEN old ELSE -1]
         /\ old # -1 => cmDst = (IF where = CmSelf THEN "file" ELSE "dir")
         /\ cmDst = "file" => old # -1
    /\ cmProbe = <<FALSE, FALSE>> /\ cmPlan = <<>> /\ cmItem = [i \in CmAll |-> "none"]
    /\ cmState = "probe" /\ cmExit = -1 /\ cmVanished = {}

CmLeave(code) == cmState' = "exit" /\ cmExit' = code

\* The sources go into the destination: it is a directory, is written as one,
\* or there are several of them.
CmInto == cmDst = "dir" \/ cmSlash \/ CmCount > 1

\* mv, cp: _exists_or_virtual_dir(dst), and the directory several sources need.
CmProbeDst ==
    /\ cmState = "probe" /\ cmCmd \in {"mv", "cp"}
    /\ cmProbe' = <<cmDst # "absent", CmInto>>
    /\ \/ /\ CmCount > 1 /\ ~cmSlash /\ cmDst = "file"
          /\ CmLeave(1) /\ UNCHANGED cmDst           \* mkdir: FileExistsError
       \/ /\ ~(CmCount > 1 /\ ~cmSlash /\ cmDst = "file")
          /\ cmState' = "plan" /\ UNCHANGED cmExit
          /\ cmDst' = IF CmCount > 1 /\ ~cmSlash THEN "dir" ELSE cmDst
    /\ UNCHANGED <<cmGiven, cmSrc, cmAt, cmPlan, cmItem, cmVanished>>

\* cp - DST: write_bytes, whatever is there; onto a directory it fails.
CmStdin ==
    /\ cmState = "probe" /\ cmCmd = "stdin"
    /\ \/ /\ cmDst # "dir"
          /\ cmAt' = [cmAt EXCEPT ![CmSelf] = 1] /\ cmDst' = "file"
          /\ cmPlan' = <<CmSelf>> /\ CmLeave(0)
       \/ (\E code \in {1, 2} : CmLeave(code)) /\ UNCHANGED <<cmAt, cmDst, cmPlan>>
    /\ UNCHANGED <<cmGiven, cmSrc, cmProbe, cmItem, cmVanished>>

\* Where a source goes.
CmTarget(i) ==
    IF CmCount > 1 THEN cmName[i]
    ELSE IF cmSrc[i] = "dir" THEN (IF cmProbe[1] /\ cmProbe[2] THEN cmName[i] ELSE CmSelf)
    ELSE IF cmProbe[2] THEN cmName[i] ELSE CmSelf

\* The next source is probed: a missing one, or a directory without -r, ends
\* the command before anything is transferred.
CmMissing(i) == cmSrc[i] = "gone"
CmRefused(i) == CmMissing(i) \/ (cmCmd = "cp" /\ cmSrc[i] = "dir" /\ ~cmRecursive)

CmPlanNext ==
    LET i == Len(cmPlan) + 1
    IN  /\ cmState = "plan" /\ i <= CmCount
        /\ \/ /\ CmRefused(i) /\ CmLeave(1) /\ UNCHANGED cmPlan
           \/ /\ ~CmRefused(i) /\ cmPlan' = Append(cmPlan, CmTarget(i))
              /\ UNCHANGED <<cmState, cmExit>>
        /\ UNCHANGED <<cmGiven, cmSrc, cmDst, cmAt, cmProbe, cmItem, cmVanished>>

\* The pool starts when every source has its target.
CmRun ==
    /\ cmState = "plan" /\ Len(cmPlan) = CmCount
    /\ cmState' = "run"
    /\ cmItem' = [i \in CmAll |-> "queued"]
    /\ UNCHANGED <<cmGiven, cmSrc, cmDst, cmAt, cmProbe, cmPlan, cmExit, cmVanished>>

CmBusy == {i \in CmAll : cmItem[i] \in {"write", "remove"}}
CmGo(i, place) == cmItem' = [cmItem EXCEPT ![i] = place]
CmSame == UNCHANGED <<cmGiven, cmDst, cmProbe, cmPlan, cmState, cmExit, cmVanished>>

\* A worker takes the item and looks at the target: equal content needs no
\* copy, other content needs --force.
CmCompare(i) ==
    LET there == cmAt[cmPlan[i]]
    IN  /\ cmState = "run" /\ cmItem[i] = "queued" /\ Cardinality(CmBusy) < CmWorkers
        /\ CmGo(i, IF cmSrc[i] = "gone" THEN "failed"
                   ELSE IF there = i THEN (IF cmCmd = "mv" THEN "remove" ELSE "ok")
                   ELSE IF there # -1 /\ ~cmForce THEN "failed" ELSE "write")
        /\ UNCHANGED <<cmSrc, cmAt>> /\ CmSame

\* The content is written over whatever is there by now, or the copy fails.
CmRemovesAnyway(i) == "remove"
CmAfterFailure(i) == "failed"

CmWrite(i) ==
    /\ cmState = "run" /\ cmItem[i] = "write"
    /\ \/ cmSrc[i] # "gone" /\ cmAt' = [cmAt EXCEPT ![cmPlan[i]] = i]
          /\ CmGo(i, IF cmCmd = "mv" THEN "remove" ELSE "ok")
       \/ CmGo(i, CmAfterFailure(i)) /\ UNCHANGED cmAt
    /\ UNCHANGED cmSrc /\ CmSame

CmRemove(i) ==
    /\ cmState = "run" /\ cmItem[i] = "remove"
    /\ \/ cmSrc' = [cmSrc EXCEPT ![i] = "gone"] /\ CmGo(i, "ok")
       \/ CmGo(i, "failed") /\ UNCHANGED cmSrc
    /\ UNCHANGED cmAt /\ CmSame

\* The pool is done: 2 if an item failed.
CmExitCode == IF \E i \in CmAll : cmItem[i] = "failed" THEN 2 ELSE 0

CmEnd ==
    /\ cmState = "run" /\ \A i \in CmAll : cmItem[i] \in {"ok", "failed"}
    /\ CmLeave(CmExitCode)
    /\ UNCHANGED <<cmGiven, cmSrc, cmDst, cmAt, cmProbe, cmPlan, cmItem, cmVanished>>

\* rm: the next path is probed; a missing one is passed with --force only, a
\* directory needs -r; then it is removed.
CmRmNext ==
    LET i == Len(cmPlan) + 1
    IN  /\ cmState = "probe" /\ cmCmd = "rm" /\ i <= CmCount
        /\ \/ /\ cmSrc[i] = "gone" /\ cmForce /\ cmPlan' = Append(cmPlan, CmSelf)
              /\ UNCHANGED <<cmState, cmExit, cmItem>>
           \/ /\ (cmSrc[i] = "gone" /\ ~cmForce) \/ (cmSrc[i] = "dir" /\ ~cmRecursive)
              /\ CmLeave(1) /\ UNCHANGED <<cmPlan, cmItem>>
           \/ /\ cmSrc[i] = "file" \/ (cmSrc[i] = "dir" /\ cmRecursive)
              /\ CmGo(i, "remove") /\ cmState' = "run" /\ UNCHANGED <<cmPlan, cmExit>>
        /\ UNCHANGED <<cmGiven, cmSrc, cmDst, cmAt, cmProbe, cmVanished>>

\* rmdir(recursive=True) or unlink(missing_ok=force)
CmRmRemove ==
    LET i == Len(cmPlan) + 1
    IN  /\ cmState = "run" /\ cmCmd = "rm" /\ i <= CmCount
        /\ \/ /\ cmSrc[i] # "gone" \/ cmForce
              /\ cmSrc' = [cmSrc EXCEPT ![i] = "gone"] /\ CmGo(i, "ok")
              /\ cmPlan' = Append(cmPlan, CmSelf) /\ cmState' = "probe" /\ UNCHANGED cmExit
           \/ /\ cmSrc[i] = "gone" /\ ~cmForce /\ CmLeave(1) /\ UNCHANGED <<cmSrc, cmPlan, cmItem>>
           \/ CmLeave(2) /\ UNCHANGED <<cmSrc, cmPlan, cmItem>>
        /\ UNCHANGED <<cmGiven, cmDst, cmAt, cmProbe, cmVanished>>

CmRmEnd ==
    /\ cmState = "probe" /\ cmCmd = "rm" /\ Len(cmPlan) = CmCount
    /\ CmLeave(0)
    /\ UNCHANGED <<cmGiven, cmSrc, cmDst, cmAt, cmProbe, cmPlan, cmItem, cmVanished>>

\* Another program removes a source.
CmVanish ==
    /\ cmState # "exit" /\ cmCmd # "stdin"
    /\ \E i \in CmAll : /\ cmSrc[i] # "gone" /\ cmSrc' = [cmSrc EXCEPT ![i] = "gone"]
                        /\ cmVanished' = cmVanished \cup {i}
    /\ UNCHANGED <<cmGiven, cmDst, cmAt, cmProbe, cmPlan, cmItem, cmState, cmExit>>

CmDone == cmState = "exit" /\ UNCHANGED cmVars

CmNext ==
    \/ CmProbeDst \/ CmStdin \/ CmPlanNext \/ CmRun \/ CmEnd \/ CmRmNext \/ CmRmRemove \/ CmRmEnd
    \/ \E i \in CmAll : cmCmd \in {"mv", "cp"} /\ (CmCompare(i) \/ CmWrite(i) \/ CmRemove(i))
    \/ CmVanish \/ CmDone

CmSpec == CmInit /\ [][CmNext]_cmVars
-----------------------------------------------------------------------------
\* Every variable has its type.
CmTypeOK ==
    /\ cmSrc \in [CmAll -> {"file", "dir", "gone"}] /\ cmDst \in {"absent", "file", "dir"}
    /\ cmAt \in [CmTargets -> -1..CmSources] /\ Len(cmPlan) <= CmCount
    /\ cmExit \in {-1, 0, 1, 2} /\ (cmExit = -1 <=> cmState # "exit")

\* Sources that go to the same place.
CmSharesTarget(i) == \E j \in CmAll \ {i} : cmName[j] = cmName[i]

\* mv: a source that mv removed is whole at its target, whatever failed or ran
\* at the same time; unless another source has the same name, in which case the
\* concurrent moves overwrite each other.
CmMovedIsThere ==
    cmCmd = "mv" => \A i \in CmAll \ cmVanished :
        cmItem[i] = "ok" => CmSharesTarget(i) \/ cmAt[cmPlan[i]] = i

\* Exit code 0 means that all was done: every path is gone (rm), at its target
\* (cp, also from stdin), or both (mv); same names apart.
CmExitZero ==
    cmExit = 0 => \A i \in CmAll :
        /\ cmCmd \in {"mv", "rm"} => cmSrc[i] = "gone"
        /\ cmCmd # "rm" => CmSharesTarget(i) \/ cmAt[cmPlan[i]] = i

\* What a command reports as done, item by item and by its exit code, is done.
CmReportsTruly == CmMovedIsThere /\ CmExitZero
=============================================================================
