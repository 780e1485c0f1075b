------------------------------- MODULE Moves -------------------------------
(***************************************************************************)
(* copy, move, rename and replace of one file when the source or the       *)
(* destination is remote: CloudPathMixin of src/src/asanypath/cloud.py,    *)
(* AsyncPath.copy and copy_from of local.py, destination_state and         *)
(* run_transfer of _transfer.py.  (Between local files: LocalCopy.)        *)
(*                                                                         *)
(* One call runs; whoever else uses the source and the destination is the  *)
(* writer, who may come between any two of its requests.  A file written   *)
(* in place is torn until its last chunk.  How the source is read          *)
(* consistently is RangedTransfer, how an upload stays atomic is           *)
(* BackendUploads.                                                         *)
(***************************************************************************)
EXTENDS Integers

CONSTANTS MvKind,    \* the backend of each place: "s3", "gs", "file" or "sftp"
          MvWrites   \* bound: writes by others

MvPlaces == DOMAIN MvKind

\* One backend at least keeps objects; others write a bounded number of times.
ASSUME MvAssumption == MvWrites \in Nat /\ \E p \in MvPlaces : MvKind[p] \in {"s3", "gs"}

VARIABLES mvStore,   \* the content of each place
          mvCall,    \* the arguments
          mvPc,      \* where the call is
          mvHeld,    \* content it has read, or whose checksum it holds
          mvWritten, \* writes by others so far
          mvDirty,   \* history: others wrote source or destination since mvHeld was read
          mvLied     \* history: a server-side copy was confirmed but not made

mvVars == <<mvStore, mvCall, mvPc, mvHeld, mvWritten, mvDirty, mvLied>>

MvAbsent == 0
MvTorn == -1
MvOver == {"ok", "error"}
MvArgs == [src : MvPlaces, dst : MvPlaces, force : BOOLEAN, atomic : BOOLEAN, remove : BOOLEAN]
MvNoCall == [src |-> CHOOSE p \in MvPlaces : TRUE, dst |-> CHOOSE p \in MvPlaces : TRUE,
             force |-> FALSE, atomic |-> FALSE, remove |-> FALSE]

MvSrc == mvCall.src
MvDst == mvCall.dst
MvObjects == {"s3", "gs"}

\* str(src) == str(dst)
MvSamePath == MvSrc = MvDst

\* _can_server_side_copy: one native backend with equal credentials.
MvSameNative == MvKind[MvSrc] = MvKind[MvDst] /\ MvKind[MvSrc] \in MvObjects

\* atomic=True is for local or same-backend destinations.
MvUnsupported == mvCall.atomic /\ MvKind[MvDst] # "file" /\ ~MvSameNative

\* How the content gets there once the destination may be written.
MvHow == IF MvSameNative THEN "native"
         ELSE IF MvKind[MvDst] = "file" /\ ~mvCall.atomic THEN "truncate" ELSE "read"

\* needs_copy, destination_exists and force decide: skip the copy, make it
\* or refuse it.
MvAfterCompare(same) == IF same THEN "remove" ELSE IF mvCall.force THEN MvHow ELSE "error"

\* remove_src and not same_path
MvRemovesAlways == mvCall.remove
MvRemoves == mvCall.remove /\ ~MvSamePath

MvInit ==
    /\ mvStore = [p \in MvPlaces |-> MvAbsent]
    /\ mvCall = MvNoCall /\ mvPc = "idle" /\ mvHeld = MvAbsent
    /\ mvWritten = 0 /\ mvDirty = FALSE /\ mvLied = FALSE

\* The destination is absent, equal to the source or different.
MvGiven ==
    /\ \E there \in {MvAbsent, 1, 2} :
         mvStore' = [p \in MvPlaces |-> CASE p = mvCall'.src -> 1
                                         [] p # mvCall'.src /\ p = mvCall'.dst -> there
                                         [] OTHER -> MvAbsent]
    /\ UNCHANGED <<mvHeld, mvWritten, mvDirty, mvLied>>

\* The copy of a remote file.
MvCall ==
    /\ mvPc = "idle"
    /\ mvCall' \in {a \in MvArgs : MvKind[a.src] # "file"}
    /\ MvGiven
    /\ mvPc' = IF MvUnsupported' THEN "error" ELSE "probe"

\* The copy of a local file to a remote destination.
MvPush ==
    /\ mvPc = "idle"
    /\ mvCall' \in {a \in MvArgs : MvKind[a.src] = "file" /\ MvKind[a.dst] # "file"}
    /\ MvGiven
    /\ mvPc' = IF MvUnsupported' THEN "error" ELSE "probe"

\* rename within a backend, which does not look at atomic; move is the same,
\* replace forces.
MvRename(force) ==
    /\ mvPc = "idle"
    /\ mvCall' \in {a \in MvArgs : /\ MvKind[a.src] = MvKind[a.dst] /\ MvKind[a.src] \in MvObjects
                                   /\ a.remove /\ a.force = force}
    /\ MvGiven
    /\ mvPc' = "probe"

MvMove == \E force \in BOOLEAN : MvRename(force)
MvReplace == MvRename(TRUE)

\* destination_state: the paths are equal, or is there a file at dst?
MvProbe ==
    /\ mvPc = "probe"
    /\ mvPc' = IF MvSamePath THEN "remove"
               ELSE IF mvStore[MvDst] = MvAbsent THEN MvHow ELSE "checksum"
    /\ UNCHANGED <<mvStore, mvCall, mvHeld, mvWritten, mvDirty, mvLied>>

\* The content of the source is read: its checksum, or the whole of it.
MvTake(then) ==
    /\ mvStore[MvSrc] # MvAbsent
    /\ mvHeld' = mvStore[MvSrc] /\ mvDirty' = FALSE
    /\ mvPc' = then
    /\ UNCHANGED <<mvStore, mvCall, mvWritten, mvLied>>

MvChecksum == mvPc = "checksum" /\ MvTake("compare")

\* The checksum of the destination, which may be gone by now.
MvCompare ==
    /\ mvPc = "compare" /\ mvStore[MvDst] # MvAbsent
    /\ mvPc' = MvAfterCompare(mvStore[MvDst] = mvHeld)
    /\ UNCHANGED <<mvStore, mvCall, mvHeld, mvWritten, mvDirty, mvLied>>

\* _server_side_copy: only the status of the answer is looked at, and a
\* server may send it before the copy failed.
MvNative ==
    /\ mvPc = "native" /\ mvStore[MvSrc] # MvAbsent
    /\ mvHeld' = mvStore[MvSrc] /\ mvDirty' = FALSE
    /\ \/ /\ mvStore' = [mvStore EXCEPT ![MvDst] = mvStore[MvSrc]]
          /\ mvPc' \in {"remove", "error"} /\ UNCHANGED mvLied
       \/ mvPc' = "remove" /\ mvLied' = TRUE /\ UNCHANGED mvStore
    /\ UNCHANGED <<mvCall, mvWritten>>

\* copy_from without atomic: open("wb") before the first chunk is read.
MvTruncate ==
    /\ mvPc = "truncate"
    /\ mvStore' = [mvStore EXCEPT ![MvDst] = MvTorn]
    /\ mvPc' = "read"
    /\ UNCHANGED <<mvCall, mvHeld, mvWritten, mvDirty, mvLied>>

\* iter_transfer_chunks, read_bytes or the open file: all of the source.
MvRead == mvPc = "read" /\ MvTake("write")

\* An object is stored at once, a staged file is committed (without force only
\* onto nothing), a file written in place is complete; SFTP truncates first.
MvWrite ==
    /\ mvPc = "write"
    /\ IF MvKind[MvDst] = "sftp"
       THEN mvStore' = [mvStore EXCEPT ![MvDst] = MvTorn] /\ mvPc' = "append"
       ELSE /\ MvHow = "read" /\ MvKind[MvDst] = "file" /\ ~mvCall.force
                 => mvStore[MvDst] = MvAbsent
            /\ mvStore' = [mvStore EXCEPT ![MvDst] = mvHeld]
            /\ mvPc' \in {"remove"} \cup (IF MvKind[MvDst] = "file" THEN {} ELSE {"error"})
    /\ UNCHANGED <<mvCall, mvHeld, mvWritten, mvDirty, mvLied>>

\* The last chunk is appended.
MvAppend ==
    /\ mvPc = "append"
    /\ mvStore' = [mvStore EXCEPT ![MvDst] = mvHeld]
    /\ mvPc' = "remove"
    /\ UNCHANGED <<mvCall, mvHeld, mvWritten, mvDirty, mvLied>>

\* run_transfer: the copy function returned; unlink, whose answer may be lost.
MvRemove ==
    /\ mvPc = "remove"
    /\ \/ /\ MvRemoves
          /\ mvStore[MvSrc] # MvAbsent
          /\ mvStore' = [mvStore EXCEPT ![MvSrc] = MvAbsent]
          /\ mvPc' \in MvOver
       \/ ~MvRemoves /\ mvPc' = "ok" /\ UNCHANGED mvStore
    /\ UNCHANGED <<mvCall, mvHeld, mvWritten, mvDirty, mvLied>>

\* Any step raises, or the call is cancelled at it: nothing is undone.
MvFail ==
    /\ mvPc \notin MvOver \cup {"idle"}
    /\ mvPc' = "error"
    /\ UNCHANGED <<mvStore, mvCall, mvHeld, mvWritten, mvDirty, mvLied>>

\* Others write or delete the source or the destination.
MvOther ==
    /\ mvPc \notin MvOver \cup {"idle"} /\ mvWritten < MvWrites
    /\ \E p \in {MvSrc, MvDst}, content \in {MvAbsent, 1, 3} :
         mvStore' = [mvStore EXCEPT ![p] = content]
    /\ mvWritten' = mvWritten + 1
    /\ mvDirty' = TRUE
    /\ UNCHANGED <<mvCall, mvPc, mvHeld, mvLied>>

MvDone == mvPc \in MvOver /\ UNCHANGED mvVars

MvNext ==
    \/ MvCall \/ MvPush \/ MvMove \/ MvReplace \/ MvProbe \/ MvChecksum \/ MvCompare \/ MvNative \/ MvTruncate
    \/ MvRead \/ MvWrite \/ MvAppend \/ MvRemove \/ MvFail \/ MvOther \/ MvDone

MvSpec == MvInit /\ [][MvNext]_mvVars
-----------------------------------------------------------------------------
\* Every variable has its type.
MvTypeOK ==
    /\ mvStore \in [MvPlaces -> {MvAbsent, MvTorn, 1, 2, 3}] /\ mvCall \in MvArgs
    /\ mvPc \in MvOver \cup {"idle", "probe", "checksum", "compare", "native", "truncate",
                            "read", "write", "append", "remove"}
    /\ mvHeld \in {MvAbsent, 1, 2, 3}
    /\ mvWritten \in 0..MvWrites /\ mvDirty \in BOOLEAN /\ mvLied \in BOOLEAN

\* Nobody came between the read of the source and now, and no server lied.
MvUndisturbed == ~mvDirty /\ ~mvLied

\* "Moves remove the source only after a successful copy": what a call removes
\* is at that moment the content of the destination, whether it was copied or
\* found there, unless others wrote one of them since it was read or the
\* server confirmed a copy it did not make.
MvNothingLost ==
    [][mvPc = "remove" /\ mvPc' \in MvOver /\ mvStore'[MvSrc] # mvStore[MvSrc] /\ MvUndisturbed
         => mvStore'[MvDst] = mvStore[MvSrc]]_mvVars

\* A call that returns left the content it read at the destination, all of it;
\* a move left it only there.
MvOkMeansThere ==
    mvPc = "ok" /\ ~MvSamePath /\ MvUndisturbed =>
        /\ mvStore[MvDst] = mvHeld /\ mvHeld # MvAbsent
        /\ mvCall.remove <=> mvStore[MvSrc] = MvAbsent

\* "Use atomic=True to keep an existing local destination intact on failure",
\* and an object store has whole objects: wherever the call fails, such a
\* destination is not torn.
MvIntact == mvCall.atomic \/ MvKind[MvDst] \in MvObjects => mvStore[MvDst] # MvTorn

\* A move ends with its content at the source or at the destination, never at
\* neither, and what it reports agrees with that.
MvKeepsContent == MvNothingLost /\ []MvOkMeansThere /\ []MvIntact
=============================================================================
