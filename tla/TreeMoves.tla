----------------------------- MODULE TreeMoves -----------------------------
(***************************************************************************)
(* copy(recursive=True) and move of a directory.  A local source           *)
(* (SyncPath.copy, AsyncPath.copy of src/src/asanypath/local.py) is walked *)
(* directory by directory, its files are copied, and a move then removes   *)
(* the whole tree with rmtree.  A remote source (CloudPathMixin.copy of    *)
(* cloud.py) is listed, through the listing cache, directory by directory; *)
(* a move removes each object after its own copy and the directory only    *)
(* when a fresh listing finds it empty.                                    *)
(*                                                                         *)
(* Files are relative paths.  The destination is outside of the source, or *)
(* a new directory directly inside of it, which the walk does not enter:   *)
(* the source was listed before.  (The source itself as its destination is *)
(* neither copied nor removed.)  Somebody may add files to the source.     *)
(***************************************************************************)
EXTENDS Integers, FiniteSets

CONSTANTS TrDirs,     \* directories of the source; TrRoot is one of them
          TrRoot,
          TrIn,       \* the directory of each file
          TrLate      \* the files somebody may add while the call runs

TrFiles == DOMAIN TrIn

ASSUME TrAssumption ==
    /\ TrRoot \in TrDirs /\ TrIn \in [TrFiles -> TrDirs] /\ TrLate \subseteq TrFiles

VARIABLES trCall,    \* local source?, destination inside?, move?, force?
          trPc,      \* where the call is
          trSrc,     \* files in the source
          trDst,     \* files in the destination: "new" content or "old"
          trToList,  \* directories still to be listed
          trListed,  \* files listed and not yet dealt with
          trCached,  \* per directory: files the listing cache still shows, or none cached
          trAdded    \* history: files somebody added after the call began

trVars == <<trCall, trPc, trSrc, trDst, trToList, trListed, trCached, trAdded>>

TrOver == {"ok", "error"}
TrArgs == [local : BOOLEAN, inside : BOOLEAN, remove : BOOLEAN, force : BOOLEAN]
TrNoCall == [local |-> TRUE, inside |-> FALSE, remove |-> FALSE, force |-> FALSE]

\* The source of a leaf is removed by the transfer of the leaf itself.
TrLeafRemoved(f) == IF trCall.remove THEN trSrc \ {f} ELSE trSrc

\* rmdir() of a remote directory refuses one that is not empty.
TrRefused ==
    ~trCall.local /\ (trSrc # {} \/ (trCall.inside /\ \E f \in TrFiles : trDst[f] # "none"))

\* A copy that raises ends the whole call.
TrSkipFailure == trPc
TrAfterFailure == "error"

TrInit ==
    /\ trCall = TrNoCall /\ trPc = "idle"
    /\ trSrc = {} /\ trDst = [f \in TrFiles |-> "none"]
    /\ trToList = {} /\ trListed = {} /\ trCached = {} /\ trAdded = {}

\* The call.  Some files are at the destination already, equal or different
\* (at a new one inside the source there are none); a listing of a remote source may
\* have been cached before the last file was added to it.
TrCall ==
    /\ trPc = "idle"
    /\ trCall' \in TrArgs
    /\ trSrc' = TrFiles \ TrLate
    /\ \E old \in SUBSET (TrFiles \ TrLate), equal \in BOOLEAN :
         /\ trCall'.inside => old = {}
         /\ trDst' = [f \in TrFiles |-> CASE f \notin old -> "none"
                                         [] f \in old /\ equal -> "new"
                                         [] OTHER -> "old"]
    /\ trCached' \in {TrFiles \ TrLate} \cup {(TrFiles \ TrLate) \ {f} : f \in TrFiles}
    /\ trPc' = "walk" /\ trToList' = {TrRoot}
    /\ UNCHANGED <<trListed, trAdded>>

TrGoDown(d) == trToList' = (trToList \ {d}) \cup (IF d = TrRoot THEN TrDirs \ {TrRoot} ELSE {})

\* os.walk reaches a directory: what it holds now.
TrWalk(d) ==
    /\ trPc = "walk" /\ trCall.local /\ d \in trToList /\ trListed = {}
    /\ trListed' = {f \in trSrc : TrIn[f] = d}
    /\ TrGoDown(d)
    /\ UNCHANGED <<trCall, trPc, trSrc, trDst, trCached, trAdded>>

\* iterdir lists a directory: what the listing cache has, or the store.
TrIterdir(d) ==
    /\ trPc = "walk" /\ ~trCall.local /\ d \in trToList /\ trListed = {}
    /\ \E shown \in {trCached, trSrc} : trListed' = {f \in shown : TrIn[f] = d}
    /\ TrGoDown(d)
    /\ UNCHANGED <<trCall, trPc, trSrc, trDst, trCached, trAdded>>

\* One file of a local source: an equal one is skipped, a different one needs
\* force; its source stays.
TrCopyFile(f) ==
    /\ trPc = "walk" /\ trCall.local /\ f \in trListed \cap trSrc
    /\ trDst[f] = "old" => trCall.force
    /\ trListed' = trListed \ {f}
    /\ trDst' = [trDst EXCEPT ![f] = "new"]
    /\ UNCHANGED <<trCall, trPc, trSrc, trToList, trCached, trAdded>>

\* One object of a remote source: the same, and then a move removes it.
TrCopyLeaf(f) ==
    /\ trPc = "walk" /\ ~trCall.local /\ f \in trListed \cap trSrc
    /\ trDst[f] = "old" => trCall.force
    /\ trListed' = trListed \ {f}
    /\ trDst' = [trDst EXCEPT ![f] = "new"]
    /\ trSrc' = TrLeafRemoved(f)
    /\ UNCHANGED <<trCall, trPc, trToList, trCached, trAdded>>

\* The file is gone, or different without force, or its copy fails.
TrCopyRaises(f) ==
    /\ trPc = "walk" /\ f \in trListed
    /\ trListed' = trListed \ {f}
    /\ trPc' = TrAfterFailure
    /\ UNCHANGED <<trCall, trSrc, trDst, trToList, trCached, trAdded>>

\* The tree has been walked.
TrWalked ==
    /\ trPc = "walk" /\ trToList = {} /\ trListed = {}
    /\ trPc' = IF trCall.remove THEN "remove" ELSE "ok"
    /\ UNCHANGED <<trCall, trSrc, trDst, trToList, trListed, trCached, trAdded>>

\* shutil.rmtree(self._path), whatever is in there by now, file by file ...
TrRmtree(f) ==
    /\ trPc = "remove" /\ trCall.local
    /\ \/ f \in trSrc /\ trSrc' = trSrc \ {f} /\ UNCHANGED trDst
       \/ /\ trCall.inside /\ trDst[f] # "none"
          /\ trDst' = [trDst EXCEPT ![f] = "none"] /\ UNCHANGED trSrc
    /\ UNCHANGED <<trCall, trPc, trToList, trListed, trCached, trAdded>>

\* ... until it is empty; or rmdir(), which looks whether it is.
TrRemoved ==
    /\ trPc = "remove"
    /\ trCall.local => trSrc = {} /\ (trCall.inside => \A f \in TrFiles : trDst[f] = "none")
    /\ trPc' = IF TrRefused THEN "error" ELSE "ok"
    /\ UNCHANGED <<trCall, trSrc, trDst, trToList, trListed, trCached, trAdded>>

\* Listing or removing raises, or the call is cancelled.
TrFail ==
    /\ trPc \in {"walk", "remove"}
    /\ trPc' = "error"
    /\ UNCHANGED <<trCall, trSrc, trDst, trToList, trListed, trCached, trAdded>>

\* Somebody adds a file to the source.
TrAdd(f) ==
    /\ trPc \in {"walk", "remove"} /\ f \in TrLate \ (trSrc \cup trAdded)
    /\ trSrc' = trSrc \cup {f} /\ trAdded' = trAdded \cup {f}
    /\ UNCHANGED <<trCall, trPc, trDst, trToList, trListed, trCached>>

TrDone == trPc \in TrOver /\ UNCHANGED trVars

TrNext ==
    \/ TrCall \/ TrWalked \/ TrRemoved \/ TrFail \/ TrDone
    \/ \E d \in TrDirs : TrWalk(d) \/ TrIterdir(d)
    \/ \E f \in TrFiles : \/ TrCopyFile(f) \/ TrCopyLeaf(f) \/ TrCopyRaises(f)
                           \/ TrRmtree(f) \/ TrAdd(f)

TrSpec == TrInit /\ [][TrNext]_trVars
-----------------------------------------------------------------------------
\* Every variable has its type.
TrTypeOK ==
    /\ trCall \in TrArgs /\ trPc \in TrOver \cup {"idle", "walk", "remove"}
    /\ trSrc \subseteq TrFiles /\ trDst \in [TrFiles -> {"none", "old", "new"}]
    /\ trToList \subseteq TrDirs /\ trListed \subseteq TrFiles
    /\ trCached \subseteq TrFiles /\ trAdded \subseteq TrLate

TrLost == {f \in (TrFiles \ TrLate) \cup trAdded :
             trPc # "idle" /\ f \notin trSrc /\ trDst[f] # "new"}

\* "Moves remove the source only after a successful copy": no file of the tree
\* is lost, wherever the call fails.  For a local source this needs that
\* nobody adds files and that the destination is not inside the source: rmtree
\* looks at neither.  A remote source needs no such thing, not even a listing
\* that is up to date.
TrNothingLost == ~trCall.local \/ (trAdded = {} /\ ~trCall.inside) => TrLost = {}

\* The same without the conditions on a local source.
TrNeverLost == TrLost = {}

\* A move that returns left no file behind in the source.
TrMovedAll == trPc = "ok" /\ trCall.remove => trSrc = {}

\* A move of a tree keeps every file, and one that returns has moved them all.
TrKeepsTree == TrNothingLost /\ TrMovedAll
=============================================================================
