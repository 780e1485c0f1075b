----------------------------- MODULE FileProofs -----------------------------
(***************************************************************************)
(* Proofs about the operations on files and objects, for any number of     *)
(* places, paths, tasks and handles: the move of one file (Moves), of a    *)
(* directory (TreeMoves), cloud objects opened as files (CloudFile), files *)
(* of SFTP and FTP servers (RemoteFiles), and files of the local file      *)
(* system (LocalCopy); at the end, the suite of all the transfers that TLC *)
(* checks (MCTransfers).                                                   *)
(***************************************************************************)
EXTENDS MCTransfers, TransferProofs, FiniteSetTheorems, TLAPS
-----------------------------------------------------------------------------
(* The move of one file.                                                   *)

MvRunning == {"probe", "checksum", "compare", "native", "truncate", "read", "write", "append", "remove"}

MvTypes ==
    /\ mvStore \in [MvPlaces -> Int] /\ mvCall \in MvArgs /\ mvHeld \in Int
    /\ mvPc \in MvOver \cup MvRunning \cup {"idle"}
    /\ mvDirty \in BOOLEAN /\ mvLied \in BOOLEAN

\* The call compares, reads and writes only between two places, and leaves only
\* a destination torn that may be so.
MvWays ==
    /\ mvPc \in MvRunning \ {"probe", "remove"} => ~MvSamePath
    /\ mvPc \in MvRunning /\ mvCall.atomic => MvKind[MvDst] # "sftp"
    /\ mvPc = "truncate" => ~mvCall.atomic /\ MvKind[MvDst] \notin MvObjects
    /\ mvPc = "append" => MvKind[MvDst] = "sftp"
    /\ mvStore[MvSrc] # MvTorn
    /\ mvPc \in {"compare", "write", "append"} => mvHeld # MvTorn

\* Unless somebody came in between, what the call holds is the source's, and
\* what it is about to remove is at the destination.
MvHolds ==
    ~MvSamePath /\ ~mvDirty /\ ~mvLied =>
        /\ mvPc \in {"compare", "write", "append", "remove"} => mvHeld = mvStore[MvSrc]
        /\ mvPc \in {"compare", "write", "append", "remove", "ok"} => mvHeld # MvAbsent
        /\ mvPc \in {"remove", "ok"} => mvStore[MvDst] = mvHeld
        /\ mvPc = "ok" => (mvCall.remove <=> mvStore[MvSrc] = MvAbsent)

MvInv == MvTypes /\ MvWays /\ MvHolds /\ MvIntact

\* The places of a call are places.
LEMMA MvEnds == ASSUME MvTypes PROVE MvSrc \in MvPlaces /\ MvDst \in MvPlaces /\ mvCall.atomic \in BOOLEAN
BY DEF MvTypes, MvArgs, MvSrc, MvDst

\* The steps that begin a call.
LEMMA MvCallKeeps ==
    ASSUME MvInv, MvCall \/ MvPush \/ MvMove \/ MvReplace
    PROVE  MvInv'
<1>1. /\ UNCHANGED <<mvHeld, mvWritten, mvDirty, mvLied>> /\ mvPc = "idle"
      /\ mvCall' \in MvArgs /\ mvPc' \in {"probe", "error"}
      /\ mvPc' = "probe" => ~mvCall'.atomic \/ MvKind[mvCall'.dst] # "sftp"
      /\ MvGiven
  BY DEF MvCall, MvPush, MvMove, MvReplace, MvRename, MvGiven, MvUnsupported, MvSameNative, MvObjects, MvDst, MvSrc
<1>2. PICK there \in {MvAbsent, 1, 2} :
         mvStore' = [p \in MvPlaces |-> CASE p = mvCall'.src -> 1
                                         [] p # mvCall'.src /\ p = mvCall'.dst -> there
                                         [] OTHER -> MvAbsent]
  BY <1>1 DEF MvGiven
<1>3. mvCall'.src \in MvPlaces /\ mvCall'.dst \in MvPlaces BY <1>1 DEF MvArgs
<1>4. /\ mvStore' \in [MvPlaces -> Int]
      /\ \A p \in MvPlaces : mvStore'[p] \in {MvAbsent, 1, 2}
  BY <1>2 DEF MvAbsent
<1>5. MvTypes' BY <1>1, <1>4 DEF MvInv, MvTypes, MvRunning, MvOver
<1>6. mvStore'[mvCall'.src] # MvTorn /\ mvStore'[mvCall'.dst] # MvTorn
  BY <1>3, <1>4 DEF MvAbsent, MvTorn
<1>7. MvWays' BY <1>1, <1>6 DEF MvWays, MvRunning, MvSrc, MvDst
<1>8. MvHolds' BY <1>1 DEF MvHolds
<1>9. MvIntact' BY <1>6 DEF MvIntact, MvDst
<1> QED BY <1>5, <1>7, <1>8, <1>9 DEF MvInv

\* The destination is probed.
LEMMA MvProbeKeeps == ASSUME MvInv, MvProbe PROVE MvInv'
<1>1. /\ UNCHANGED <<mvStore, mvCall, mvHeld, mvWritten, mvDirty, mvLied>> /\ mvPc = "probe"
      /\ mvPc' = IF MvSamePath THEN "remove" ELSE IF mvStore[MvDst] = MvAbsent THEN MvHow ELSE "checksum"
  BY DEF MvProbe
<1>2. /\ MvHow \in {"native", "truncate", "read"}
      /\ MvHow = "truncate" => MvKind[MvDst] = "file" /\ ~mvCall.atomic
  BY DEF MvHow
<1>3. MvTypes' BY <1>1, <1>2 DEF MvInv, MvTypes, MvRunning
<1>4. MvWays'
  BY <1>1, <1>2 DEF MvInv, MvWays, MvRunning, MvSamePath, MvSrc, MvDst, MvObjects
<1>5. MvHolds'
  BY <1>1, <1>2 DEF MvInv, MvHolds, MvSamePath, MvSrc, MvDst
<1>6. MvIntact' BY <1>1 DEF MvInv, MvIntact, MvDst
<1> QED BY <1>3, <1>4, <1>5, <1>6 DEF MvInv

\* The source is read.
LEMMA MvTakeKeeps == ASSUME MvInv, MvChecksum \/ MvRead PROVE MvInv'
<1>1. /\ UNCHANGED <<mvStore, mvCall, mvWritten, mvLied>> /\ mvDirty' = FALSE
      /\ mvStore[MvSrc] # MvAbsent /\ mvHeld' = mvStore[MvSrc]
      /\ mvPc \in {"checksum", "read"} /\ mvPc' \in {"compare", "write"}
  BY DEF MvChecksum, MvRead, MvTake
<1>2. MvSrc \in MvPlaces BY MvEnds DEF MvInv
<1>3. MvTypes'
  <2>1. mvHeld' \in Int BY <1>1, <1>2 DEF MvInv, MvTypes
  <2> QED BY <1>1, <2>1 DEF MvInv, MvTypes, MvRunning
<1>4. MvWays' BY <1>1 DEF MvInv, MvWays, MvRunning, MvSamePath, MvSrc, MvDst
<1>5. MvHolds' BY <1>1 DEF MvInv, MvHolds, MvSrc
<1>6. MvIntact' BY <1>1 DEF MvInv, MvIntact, MvDst
<1> QED BY <1>3, <1>4, <1>5, <1>6 DEF MvInv

\* The destination's checksum is compared.
LEMMA MvCompareKeeps == ASSUME MvInv, MvCompare PROVE MvInv'
<1>1. /\ UNCHANGED <<mvStore, mvCall, mvHeld, mvWritten, mvDirty, mvLied>> /\ mvPc = "compare"
      /\ mvPc' = IF mvStore[MvDst] = mvHeld THEN "remove" ELSE IF mvCall.force THEN MvHow ELSE "error"
  BY DEF MvCompare, MvAfterCompare
<1>2. /\ MvHow \in {"native", "truncate", "read"}
      /\ MvHow = "truncate" => MvKind[MvDst] = "file" /\ ~mvCall.atomic
  BY DEF MvHow
<1>3. MvTypes' BY <1>1, <1>2 DEF MvInv, MvTypes, MvRunning, MvOver
<1>4. MvWays'
  BY <1>1, <1>2 DEF MvInv, MvWays, MvRunning, MvSamePath, MvSrc, MvDst, MvObjects
<1>5. MvHolds'
  BY <1>1, <1>2 DEF MvInv, MvHolds, MvSamePath, MvSrc, MvDst
<1>6. MvIntact' BY <1>1 DEF MvInv, MvIntact, MvDst
<1> QED BY <1>3, <1>4, <1>5, <1>6 DEF MvInv

\* A step changes the destination alone: what holds of the store then.
LEMMA MvStores ==
    ASSUME MvTypes, NEW c \in Int, mvStore' = [mvStore EXCEPT ![MvDst] = c], mvCall' = mvCall
    PROVE  /\ mvStore' \in [MvPlaces -> Int] /\ mvStore'[MvDst'] = c
           /\ MvSrc' = MvSrc /\ MvDst' = MvDst /\ (MvSamePath' <=> MvSamePath)
           /\ ~MvSamePath => mvStore'[MvSrc'] = mvStore[MvSrc]
<1>1. MvSrc \in MvPlaces /\ MvDst \in MvPlaces BY MvEnds
<1>2. MvSrc' = MvSrc /\ MvDst' = MvDst /\ (MvSamePath' <=> MvSamePath) BY DEF MvSrc, MvDst, MvSamePath
<1>3. mvStore \in [MvPlaces -> Int] BY DEF MvTypes
<1>4. mvStore'[MvDst] = c /\ \A p \in MvPlaces : p # MvDst => mvStore'[p] = mvStore[p]
  BY <1>1, <1>3
<1>5. mvStore' \in [MvPlaces -> Int] BY <1>1, <1>3
<1> QED BY <1>1, <1>2, <1>4, <1>5 DEF MvSamePath

\* A copy by the server; it may have confirmed one it does not make.
LEMMA MvNativeKeeps == ASSUME MvInv, MvNative PROVE MvInv'
<1> DEFINE c == mvStore[MvSrc]
<1>1. /\ UNCHANGED <<mvCall, mvWritten>> /\ mvPc = "native" /\ c # MvAbsent
      /\ mvHeld' = c /\ mvDirty' = FALSE /\ mvPc' \in {"remove", "error"}
      /\ \/ mvStore' = [mvStore EXCEPT ![MvDst] = c] /\ mvLied' = mvLied
         \/ mvStore' = mvStore /\ mvLied' = TRUE
  BY DEF MvNative
<1>2. /\ MvTypes /\ MvSrc \in MvPlaces /\ c \in Int /\ c # MvTorn /\ ~MvSamePath
      /\ mvStore \in [MvPlaces -> Int]
  BY <1>1, MvEnds DEF MvInv, MvWays, MvRunning, MvTypes
<1> HIDE DEF c
<1>3. CASE mvStore' = [mvStore EXCEPT ![MvDst] = c] /\ mvLied' = mvLied
  <2>1. mvCall' = mvCall BY <1>1
  <2>2. /\ mvStore' \in [MvPlaces -> Int] /\ mvStore'[MvDst'] = c
        /\ MvSrc' = MvSrc /\ MvDst' = MvDst /\ ~MvSamePath' /\ mvStore'[MvSrc'] = c
    BY <1>2, <1>3, <2>1, MvStores DEF c
  <2>3. MvTypes' BY <1>1, <1>2, <1>3, <2>2 DEF MvInv, MvTypes, MvRunning, MvOver
  <2>4. MvWays' BY <1>1, <1>2, <2>2 DEF MvInv, MvWays, MvRunning
  <2>5. MvHolds' BY <1>1, <2>2 DEF MvHolds
  <2>6. MvIntact' BY <1>2, <2>2 DEF MvIntact
  <2> QED BY <2>3, <2>4, <2>5, <2>6 DEF MvInv
<1>4. CASE mvStore' = mvStore /\ mvLied' = TRUE
  <2>3. MvTypes' BY <1>1, <1>2, <1>4 DEF MvInv, MvTypes, MvRunning, MvOver
  <2>4. MvWays' BY <1>1, <1>4 DEF MvInv, MvWays, MvRunning, MvSamePath, MvSrc, MvDst
  <2>5. MvHolds' BY <1>4 DEF MvHolds
  <2>6. MvIntact' BY <1>1, <1>4 DEF MvInv, MvIntact, MvDst
  <2> QED BY <2>3, <2>4, <2>5, <2>6 DEF MvInv
<1> QED BY <1>1, <1>3, <1>4

\* A destination is torn while it is written in place.
LEMMA MvTearKeeps ==
    ASSUME MvInv, mvStore' = [mvStore EXCEPT ![MvDst] = MvTorn],
           UNCHANGED <<mvCall, mvHeld, mvWritten, mvDirty, mvLied>>,
           \/ mvPc = "truncate" /\ mvPc' = "read"
           \/ mvPc = "write" /\ mvPc' = "append" /\ MvKind[MvDst] = "sftp"
    PROVE  MvInv'
<1>1. MvTypes /\ MvTorn \in Int /\ mvCall' = mvCall /\ ~MvSamePath
  BY DEF MvInv, MvTorn, MvWays, MvRunning
<1>2. /\ mvStore' \in [MvPlaces -> Int]
      /\ MvSrc' = MvSrc /\ MvDst' = MvDst /\ ~MvSamePath' /\ mvStore'[MvSrc'] = mvStore[MvSrc]
  BY <1>1, MvStores
<1>3. ~mvCall.atomic /\ MvKind[MvDst] \notin MvObjects
  BY DEF MvInv, MvWays, MvRunning, MvObjects
<1>4. MvTypes' BY <1>1, <1>2 DEF MvTypes, MvRunning
<1>5. MvWays' BY <1>1, <1>2 DEF MvInv, MvWays, MvRunning
<1>6. MvHolds' BY <1>1, <1>2 DEF MvInv, MvHolds
<1>7. MvIntact' BY <1>1, <1>2, <1>3 DEF MvIntact
<1> QED BY <1>4, <1>5, <1>6, <1>7 DEF MvInv

\* What the call holds is all there.
LEMMA MvStoreKeeps ==
    ASSUME MvInv, mvStore' = [mvStore EXCEPT ![MvDst] = mvHeld],
           UNCHANGED <<mvCall, mvHeld, mvWritten, mvDirty, mvLied>>,
           mvPc \in {"write", "append"}, mvPc' \in {"remove", "error"}
    PROVE  MvInv'
<1>1. MvTypes /\ mvHeld \in Int /\ mvHeld # MvTorn /\ mvCall' = mvCall /\ ~MvSamePath
  BY DEF MvInv, MvTypes, MvWays, MvRunning
<1>2. /\ mvStore' \in [MvPlaces -> Int] /\ mvStore'[MvDst'] = mvHeld
      /\ MvSrc' = MvSrc /\ MvDst' = MvDst /\ ~MvSamePath' /\ mvStore'[MvSrc'] = mvStore[MvSrc]
  BY <1>1, MvStores
<1>4. MvTypes' BY <1>1, <1>2 DEF MvTypes, MvRunning, MvOver
<1>5. MvWays' BY <1>1, <1>2 DEF MvInv, MvWays, MvRunning
<1>6. MvHolds' BY <1>1, <1>2 DEF MvInv, MvHolds
<1>7. MvIntact' BY <1>1, <1>2 DEF MvIntact
<1> QED BY <1>4, <1>5, <1>6, <1>7 DEF MvInv

\* The content is written, at once or chunk by chunk.
LEMMA MvWriteKeeps == ASSUME MvInv, MvTruncate \/ MvWrite \/ MvAppend PROVE MvInv'
<1>1. UNCHANGED <<mvCall, mvHeld, mvWritten, mvDirty, mvLied>>
  BY DEF MvTruncate, MvWrite, MvAppend
<1>2. \/ /\ mvStore' = [mvStore EXCEPT ![MvDst] = MvTorn]
         /\ \/ mvPc = "truncate" /\ mvPc' = "read"
            \/ mvPc = "write" /\ mvPc' = "append" /\ MvKind[MvDst] = "sftp"
      \/ /\ mvStore' = [mvStore EXCEPT ![MvDst] = mvHeld]
         /\ mvPc \in {"write", "append"} /\ mvPc' \in {"remove", "error"}
  BY DEF MvTruncate, MvWrite, MvAppend
<1> QED BY <1>1, <1>2, MvTearKeeps, MvStoreKeeps

\* The source is removed when the destination has what the call holds.
LEMMA MvRemoveKeeps == ASSUME MvInv, MvRemove PROVE MvInv'
<1>1. /\ UNCHANGED <<mvCall, mvHeld, mvWritten, mvDirty, mvLied>> /\ mvPc = "remove" /\ mvPc' \in MvOver
      /\ \/ /\ MvRemoves /\ mvStore' = [mvStore EXCEPT ![MvSrc] = MvAbsent]
         \/ ~MvRemoves /\ mvStore' = mvStore
  BY DEF MvRemove, MvOver
<1>2. /\ MvSrc' = MvSrc /\ MvDst' = MvDst /\ (MvSamePath' <=> MvSamePath)
      /\ MvSrc \in MvPlaces /\ MvDst \in MvPlaces
  BY <1>1, MvEnds DEF MvInv, MvSrc, MvDst, MvSamePath
<1>3. CASE MvRemoves /\ mvStore' = [mvStore EXCEPT ![MvSrc] = MvAbsent]
  <2>1. ~MvSamePath /\ mvCall.remove BY <1>3 DEF MvRemoves
  <2>2. /\ mvStore' \in [MvPlaces -> Int] /\ mvStore'[MvSrc] = MvAbsent
        /\ mvStore'[MvDst] = mvStore[MvDst]
    BY <1>2, <1>3, <2>1 DEF MvInv, MvTypes, MvAbsent, MvSamePath
  <2>3. MvTypes' BY <1>1, <2>2 DEF MvInv, MvTypes
  <2>4. MvWays' BY <1>1, <1>2, <2>2 DEF MvWays, MvRunning, MvOver, MvAbsent, MvTorn
  <2>5. MvHolds' BY <1>1, <1>2, <2>1, <2>2 DEF MvInv, MvHolds, MvOver
  <2>6. MvIntact' BY <1>1, <1>2, <2>2 DEF MvInv, MvIntact
  <2> QED BY <2>3, <2>4, <2>5, <2>6 DEF MvInv
<1>4. CASE ~MvRemoves /\ mvStore' = mvStore
  <2>1. MvSamePath \/ ~mvCall.remove BY <1>4 DEF MvRemoves
  <2>3. MvTypes' BY <1>1, <1>4 DEF MvInv, MvTypes
  <2>4. MvWays' BY <1>1, <1>2, <1>4 DEF MvInv, MvWays, MvRunning, MvOver
  <2>5. MvHolds' BY <1>1, <1>2, <1>4, <2>1 DEF MvInv, MvHolds, MvOver
  <2>6. MvIntact' BY <1>1, <1>2, <1>4 DEF MvInv, MvIntact
  <2> QED BY <2>3, <2>4, <2>5, <2>6 DEF MvInv
<1> QED BY <1>1, <1>3, <1>4

\* An error undoes nothing; what others write is whole, and is remembered.
LEMMA MvOthersKeep == ASSUME MvInv, MvFail \/ MvOther PROVE MvInv'
<1>1. CASE MvFail
  <2>1. UNCHANGED <<mvStore, mvCall, mvHeld, mvDirty, mvLied>> /\ mvPc' = "error"
    BY <1>1 DEF MvFail
  <2> QED BY <2>1 DEF MvInv, MvTypes, MvWays, MvHolds, MvIntact, MvRunning, MvOver, MvSrc, MvDst
<1>2. CASE MvOther
  <2>1. UNCHANGED <<mvCall, mvPc, mvHeld, mvLied>> /\ mvDirty' = TRUE
    BY <1>2 DEF MvOther
  <2>2. PICK q \in {MvSrc, MvDst}, content \in {MvAbsent, 1, 3} :
           mvStore' = [mvStore EXCEPT ![q] = content]
    BY <1>2 DEF MvOther
  <2>3. content \in Int /\ content # MvTorn BY DEF MvAbsent, MvTorn
  <2>4. MvSrc' = MvSrc /\ MvDst' = MvDst /\ (MvSamePath' <=> MvSamePath)
        /\ MvSrc \in MvPlaces /\ MvDst \in MvPlaces
    BY <2>1, MvEnds DEF MvInv, MvSrc, MvDst, MvSamePath
  <2>5. /\ mvStore' \in [MvPlaces -> Int]
        /\ \A r \in MvPlaces : mvStore'[r] # MvTorn \/ mvStore'[r] = mvStore[r]
    BY <2>2, <2>3, <2>4 DEF MvInv, MvTypes
  <2>6. MvTypes' BY <2>1, <2>5 DEF MvInv, MvTypes
  <2>7. MvWays' BY <2>1, <2>4, <2>5 DEF MvInv, MvWays
  <2>8. MvHolds' BY <2>1 DEF MvHolds
  <2>9. MvIntact' BY <2>1, <2>4, <2>5 DEF MvInv, MvIntact
  <2> QED BY <2>6, <2>7, <2>8, <2>9 DEF MvInv
<1> QED BY <1>1, <1>2

\* MvInv holds initially.
LEMMA MvInitHolds == MvInit => MvInv
<1> SUFFICES ASSUME MvInit PROVE MvInv OBVIOUS
<1>1. MvNoCall \in MvArgs
  <2>1. (CHOOSE p \in MvPlaces : TRUE) \in MvPlaces
    BY MvAssumption
  <2> QED BY <2>1 DEF MvNoCall, MvArgs
<1>2. MvTypes
  <2>1. mvStore \in [MvPlaces -> Int] /\ mvHeld \in Int BY DEF MvInit, MvAbsent
  <2>2. mvDirty \in BOOLEAN /\ mvLied \in BOOLEAN BY DEF MvInit
  <2>3. mvCall \in MvArgs /\ mvPc = "idle" BY <1>1 DEF MvInit
  <2> QED BY <2>1, <2>2, <2>3 DEF MvTypes
<1>3. MvSrc \in MvPlaces /\ MvDst \in MvPlaces BY <1>2, MvEnds
<1> QED BY <1>2, <1>3 DEF MvInit, MvInv, MvWays, MvHolds, MvIntact, MvRunning, MvAbsent, MvTorn

\* Every step keeps MvInv.
LEMMA MvStepKeeps == MvInv /\ [MvNext]_mvVars => MvInv'
<1> SUFFICES ASSUME MvInv, [MvNext]_mvVars PROVE MvInv' OBVIOUS
<1>1. CASE MvCall \/ MvPush \/ MvMove \/ MvReplace BY <1>1, MvCallKeeps
<1>2. CASE MvProbe BY <1>2, MvProbeKeeps
<1>3. CASE MvChecksum \/ MvRead BY <1>3, MvTakeKeeps
<1>4. CASE MvCompare BY <1>4, MvCompareKeeps
<1>5. CASE MvNative BY <1>5, MvNativeKeeps
<1>6. CASE MvTruncate \/ MvWrite \/ MvAppend BY <1>6, MvWriteKeeps
<1>7. CASE MvRemove BY <1>7, MvRemoveKeeps
<1>8. CASE MvFail \/ MvOther BY <1>8, MvOthersKeep
<1>9. CASE UNCHANGED mvVars
  BY <1>9 DEF mvVars, MvInv, MvTypes, MvWays, MvHolds, MvIntact, MvSamePath, MvSrc, MvDst
<1> QED BY <1>1, <1>2, <1>3, <1>4, <1>5, <1>6, <1>7, <1>8, <1>9 DEF MvNext, MvDone

\* The invariant holds initially and every step keeps it.
LEMMA MvInvariance == MvSpec => []MvInv
<1>1. MvInit => MvInv BY MvInitHolds
<1>2. MvInv /\ [MvNext]_mvVars => MvInv' BY MvStepKeeps
<1> QED BY <1>1, <1>2, PTL DEF MvSpec

\* A move keeps its content, between any two places: the source is removed only
\* when the destination has what is removed (unless others wrote or the server
\* lied), a call that returns has done what it is for, and a destination that
\* must stay whole does so wherever the call fails.
THEOREM ContentKept == MvSpec => MvKeepsContent
<1>1. ASSUME MvInv, MvNext
      PROVE  mvPc = "remove" /\ mvPc' \in MvOver /\ mvStore'[MvSrc] # mvStore[MvSrc] /\ MvUndisturbed
               => mvStore'[MvDst] = mvStore[MvSrc]
  <2> SUFFICES ASSUME mvPc = "remove", mvStore'[MvSrc] # mvStore[MvSrc], MvUndisturbed, mvPc' \in MvOver
               PROVE  mvStore'[MvDst] = mvStore[MvSrc]
    OBVIOUS
  <2>1. MvRemoves /\ mvStore' = [mvStore EXCEPT ![MvSrc] = MvAbsent]
    <3>1. ~(MvCall \/ MvPush \/ MvMove \/ MvReplace \/ MvProbe \/ MvChecksum \/ MvCompare \/ MvNative)
      BY DEF MvCall, MvPush, MvMove, MvReplace, MvRename, MvProbe, MvChecksum, MvCompare, MvNative
    <3>2. ~(MvTruncate \/ MvRead \/ MvWrite \/ MvAppend \/ MvFail \/ MvOther \/ MvDone)
      BY DEF MvTruncate, MvRead, MvWrite, MvAppend, MvFail, MvOther, MvDone, MvOver
    <3> QED BY <1>1, <3>1, <3>2 DEF MvNext, MvRemove
  <2>2. ~MvSamePath /\ MvSrc \in MvPlaces /\ MvDst \in MvPlaces
    BY <1>1, <2>1, MvEnds DEF MvInv, MvRemoves
  <2>3. mvStore[MvDst] = mvStore[MvSrc]
    BY <1>1, <2>2 DEF MvInv, MvHolds, MvUndisturbed
  <2>4. mvStore'[MvDst] = mvStore[MvDst]
    BY <1>1, <2>1, <2>2 DEF MvInv, MvTypes, MvSamePath
  <2> QED BY <2>3, <2>4
<1>2. MvInv /\ [MvNext]_mvVars
        => [mvPc = "remove" /\ mvPc' \in MvOver /\ mvStore'[MvSrc] # mvStore[MvSrc] /\ MvUndisturbed
              => mvStore'[MvDst] = mvStore[MvSrc]]_mvVars
  BY <1>1
<1>3. MvInv => MvOkMeansThere
  BY DEF MvInv, MvHolds, MvOkMeansThere, MvUndisturbed
<1>4. MvInv => MvIntact
  BY DEF MvInv
<1> QED BY <1>2, <1>3, <1>4, MvInvariance, PTL DEF MvSpec, MvKeepsContent, MvNothingLost

-----------------------------------------------------------------------------
(* The move of a tree.                                                     *)

TrTypes ==
    /\ trPc \in TrOver \cup {"idle", "walk", "remove"}
    /\ trSrc \subseteq TrFiles /\ trAdded \subseteq TrFiles
    /\ trDst \in [TrFiles -> {"none", "old", "new"}]
    /\ trPc = "idle" => trAdded = {}

\* Whether the tree is safe: the source is remote, or is left to the call and
\* away from its destination.
TrGuarded == ~trCall.local \/ (trAdded = {} /\ ~trCall.inside)

\* A file is at the source or has arrived.
TrKept == trPc # "idle" /\ TrGuarded =>
              \A f \in (TrFiles \ TrLate) \cup trAdded : f \in trSrc \/ trDst[f] = "new"

\* What the walk of a local source has passed has arrived; when it is over, all
\* that rmtree finds has.
TrVisited ==
    trCall.local /\ trAdded = {} =>
        /\ trPc = "walk" => \A f \in trSrc : \/ trDst[f] = "new" \/ f \in trListed
                                             \/ TrIn[f] \in trToList \/ TrRoot \in trToList
        /\ trPc = "remove" /\ ~trCall.inside => \A f \in trSrc : trDst[f] = "new"

TrInv == TrTypes /\ TrKept /\ TrVisited /\ TrMovedAll

\* The call begins: all files are in the source.
LEMMA TrCallKeeps == ASSUME TrInv, TrCall PROVE TrInv'
<1>1. /\ UNCHANGED <<trListed, trAdded>> /\ trPc = "idle" /\ trPc' = "walk"
      /\ trSrc' = TrFiles \ TrLate /\ trToList' = {TrRoot}
  BY DEF TrCall
<1>2. trDst' \in [TrFiles -> {"none", "old", "new"}]
  <2>1. PICK old \in SUBSET (TrFiles \ TrLate), equal \in BOOLEAN :
           trDst' = [f \in TrFiles |-> CASE f \notin old -> "none"
                                         [] f \in old /\ equal -> "new"
                                         [] OTHER -> "old"]
    BY DEF TrCall
  <2> QED BY <2>1
<1>3. trAdded = {} /\ trAdded' = {} BY <1>1 DEF TrInv, TrTypes
<1>4. TrTypes' BY <1>1, <1>2, <1>3 DEF TrTypes
<1>5. TrKept' BY <1>1, <1>3 DEF TrKept
<1>6. TrVisited' BY <1>1 DEF TrVisited
<1>7. TrMovedAll' BY <1>1 DEF TrMovedAll
<1> QED BY <1>4, <1>5, <1>6, <1>7 DEF TrInv

\* A directory is listed; the walk goes on below it.
LEMMA TrListKeeps == ASSUME TrInv, NEW d \in TrDirs, TrWalk(d) \/ TrIterdir(d) PROVE TrInv'
<1>1. /\ UNCHANGED <<trCall, trPc, trSrc, trDst, trCached, trAdded>> /\ trPc = "walk" /\ trListed = {}
      /\ trCall.local => trListed' = {f \in trSrc : TrIn[f] = d}
      /\ trToList' = (trToList \ {d}) \cup (IF d = TrRoot THEN TrDirs \ {TrRoot} ELSE {})
  BY DEF TrWalk, TrIterdir, TrGoDown
<1>2. TrTypes' BY <1>1 DEF TrInv, TrTypes
<1>3. TrKept' BY <1>1 DEF TrInv, TrKept, TrGuarded
<1>4. TrVisited'
  <2> SUFFICES ASSUME trCall.local, trAdded = {}, NEW f \in trSrc, trDst[f] # "new", f \notin trListed'
               PROVE  TrIn[f] \in trToList' \/ TrRoot \in trToList'
    BY <1>1 DEF TrVisited
  <2>1. TrIn[f] \in trToList \/ TrRoot \in trToList
    BY <1>1 DEF TrInv, TrVisited
  <2>2. TrIn[f] \in TrDirs BY TrAssumption DEF TrInv, TrTypes
  <2>3. TrIn[f] # d BY <1>1
  <2> QED BY <1>1, <2>1, <2>2, <2>3
<1>5. TrMovedAll' BY <1>1 DEF TrMovedAll
<1> QED BY <1>2, <1>3, <1>4, <1>5 DEF TrInv

\* A file is copied; its source is removed only from a remote tree.
LEMMA TrCopyKeeps == ASSUME TrInv, NEW f \in TrFiles, TrCopyFile(f) \/ TrCopyLeaf(f) PROVE TrInv'
<1>1. /\ UNCHANGED <<trCall, trPc, trToList, trCached, trAdded>> /\ trPc = "walk"
      /\ trListed' = trListed \ {f} /\ trDst' = [trDst EXCEPT ![f] = "new"]
      /\ trSrc' \in {trSrc, trSrc \ {f}} /\ (trCall.local => trSrc' = trSrc)
  BY DEF TrCopyFile, TrCopyLeaf, TrLeafRemoved
<1>2. /\ trDst' \in [TrFiles -> {"none", "old", "new"}] /\ trDst'[f] = "new"
      /\ \A g \in TrFiles : trDst[g] = "new" => trDst'[g] = "new"
  BY <1>1 DEF TrInv, TrTypes
<1>3. TrTypes' BY <1>1, <1>2 DEF TrInv, TrTypes
<1>4. TrKept'
  <2> SUFFICES ASSUME TrGuarded, NEW g \in (TrFiles \ TrLate) \cup trAdded, trDst'[g] # "new"
               PROVE  g \in trSrc'
    BY <1>1 DEF TrKept, TrGuarded
  <2>1. g \in TrFiles /\ g # f /\ trDst[g] # "new" BY <1>2 DEF TrInv, TrTypes
  <2>2. g \in trSrc BY <1>1, <2>1 DEF TrInv, TrKept
  <2> QED BY <1>1, <2>1, <2>2
<1>5. TrVisited'
  <2> SUFFICES ASSUME trCall.local, trAdded = {}, NEW g \in trSrc, trDst'[g] # "new"
               PROVE  g \in trListed' \/ TrIn[g] \in trToList \/ TrRoot \in trToList
    BY <1>1 DEF TrVisited
  <2>1. g \in TrFiles /\ g # f /\ trDst[g] # "new" BY <1>2 DEF TrInv, TrTypes
  <2> QED BY <1>1, <2>1 DEF TrInv, TrVisited
<1>6. TrMovedAll' BY <1>1 DEF TrMovedAll
<1> QED BY <1>3, <1>4, <1>5, <1>6 DEF TrInv

\* A call that ends by an error removes nothing.
LEMMA TrErrorKeeps ==
    ASSUME TrInv, UNCHANGED <<trCall, trSrc, trDst, trAdded>>, trPc # "idle", trPc' = "error"
    PROVE  TrInv'
BY DEF TrInv, TrTypes, TrKept, TrGuarded, TrVisited, TrMovedAll, TrOver

\* The walk is over: all of a local source has been copied.
LEMMA TrWalkedKeeps == ASSUME TrInv, TrWalked PROVE TrInv'
<1>1. /\ UNCHANGED <<trCall, trSrc, trDst, trToList, trListed, trCached, trAdded>>
      /\ trPc = "walk" /\ trToList = {} /\ trListed = {}
      /\ trPc' = IF trCall.remove THEN "remove" ELSE "ok"
  BY DEF TrWalked
<1>2. TrTypes' BY <1>1 DEF TrInv, TrTypes, TrOver
<1>3. TrKept' BY <1>1 DEF TrInv, TrKept, TrGuarded
<1>4. TrVisited' BY <1>1 DEF TrInv, TrVisited
<1>5. TrMovedAll' BY <1>1 DEF TrMovedAll
<1> QED BY <1>2, <1>3, <1>4, <1>5 DEF TrInv

\* rmtree finds only what has arrived, unless somebody adds to the source or
\* the destination is in it.
LEMMA TrRmtreeKeeps == ASSUME TrInv, NEW f \in TrFiles, TrRmtree(f) PROVE TrInv'
<1>1. /\ UNCHANGED <<trCall, trPc, trToList, trListed, trCached, trAdded>> /\ trPc = "remove" /\ trCall.local
      /\ \/ f \in trSrc /\ trSrc' = trSrc \ {f} /\ trDst' = trDst
         \/ trCall.inside /\ trDst' = [trDst EXCEPT ![f] = "none"] /\ trSrc' = trSrc
  BY DEF TrRmtree
<1>2. trDst' \in [TrFiles -> {"none", "old", "new"}] /\ (~trCall.inside => trDst' = trDst)
  BY <1>1 DEF TrInv, TrTypes
<1>3. TrTypes' BY <1>1, <1>2 DEF TrInv, TrTypes
<1>4. TrKept' BY <1>1 DEF TrInv, TrKept, TrGuarded, TrVisited
<1>5. TrVisited' BY <1>1 DEF TrInv, TrVisited
<1>6. TrMovedAll' BY <1>1 DEF TrMovedAll
<1> QED BY <1>3, <1>4, <1>5, <1>6 DEF TrInv

\* The source is empty, or the move raises.
LEMMA TrRemovedKeeps == ASSUME TrInv, TrRemoved PROVE TrInv'
<1>1. /\ UNCHANGED <<trCall, trSrc, trDst, trToList, trListed, trCached, trAdded>> /\ trPc = "remove"
      /\ trPc' \in {"error", "ok"} /\ (trPc' = "ok" => trSrc = {})
  BY DEF TrRemoved, TrRefused
<1> QED BY <1>1 DEF TrInv, TrTypes, TrKept, TrGuarded, TrVisited, TrMovedAll, TrOver

\* Somebody adds a file.
LEMMA TrAddKeeps == ASSUME TrInv, NEW f \in TrFiles, TrAdd(f) PROVE TrInv'
<1>1. /\ UNCHANGED <<trCall, trPc, trDst, trToList, trListed, trCached>> /\ trPc \in {"walk", "remove"}
      /\ trSrc' = trSrc \cup {f} /\ trAdded' = trAdded \cup {f}
  BY DEF TrAdd
<1>2. TrTypes' BY <1>1 DEF TrInv, TrTypes
<1>3. TrKept' BY <1>1 DEF TrInv, TrKept, TrGuarded
<1>4. TrVisited' BY <1>1 DEF TrVisited
<1>5. TrMovedAll' BY <1>1 DEF TrMovedAll
<1> QED BY <1>2, <1>3, <1>4, <1>5 DEF TrInv

\* TrInv holds initially.
LEMMA TrInitHolds == TrInit => TrInv
BY DEF TrInit, TrInv, TrTypes, TrKept, TrVisited, TrMovedAll

\* Every step keeps TrInv.
LEMMA TrStepKeeps == TrInv /\ [TrNext]_trVars => TrInv'
<1> SUFFICES ASSUME TrInv, [TrNext]_trVars PROVE TrInv' OBVIOUS
<1>1. CASE TrCall BY <1>1, TrCallKeeps
<1>2. ASSUME NEW d \in TrDirs, TrWalk(d) \/ TrIterdir(d) PROVE TrInv' BY <1>2, TrListKeeps
<1>3. ASSUME NEW f \in TrFiles, TrCopyFile(f) \/ TrCopyLeaf(f) PROVE TrInv' BY <1>3, TrCopyKeeps
<1>4. ASSUME NEW f \in TrFiles, TrCopyRaises(f) PROVE TrInv'
  <2>1. UNCHANGED <<trCall, trSrc, trDst, trAdded>> /\ trPc # "idle" /\ trPc' = "error"
    BY <1>4 DEF TrCopyRaises, TrAfterFailure
  <2> QED BY <2>1, TrErrorKeeps
<1>5. CASE TrFail
  <2>1. UNCHANGED <<trCall, trSrc, trDst, trAdded>> /\ trPc # "idle" /\ trPc' = "error"
    BY <1>5 DEF TrFail
  <2> QED BY <2>1, TrErrorKeeps
<1>6. CASE TrWalked BY <1>6, TrWalkedKeeps
<1>7. ASSUME NEW f \in TrFiles, TrRmtree(f) PROVE TrInv' BY <1>7, TrRmtreeKeeps
<1>8. CASE TrRemoved BY <1>8, TrRemovedKeeps
<1>9. ASSUME NEW f \in TrFiles, TrAdd(f) PROVE TrInv' BY <1>9, TrAddKeeps
<1>10. CASE UNCHANGED trVars
  BY <1>10 DEF trVars, TrInv, TrTypes, TrKept, TrGuarded, TrVisited, TrMovedAll
<1> QED BY <1>1, <1>2, <1>3, <1>4, <1>5, <1>6, <1>7, <1>8, <1>9, <1>10 DEF TrNext, TrDone

\* No file of a tree is lost by its move, wherever that fails: of a local tree
\* if nobody adds to it and its destination is not in it, of a remote one
\* whatever others add and however old its listing is.  A move that returns has
\* left none behind.
THEOREM TreeKept == TrSpec => []TrKeepsTree
<1>1. TrInit => TrInv BY TrInitHolds
<1>2. TrInv /\ [TrNext]_trVars => TrInv' BY TrStepKeeps
<1>3. TrInv => TrKeepsTree
  BY DEF TrInv, TrKept, TrGuarded, TrKeepsTree, TrNothingLost, TrLost
<1> QED BY <1>1, <1>2, <1>3, PTL DEF TrSpec

-----------------------------------------------------------------------------
(* Handles on an object.                                                   *)

CfStates == CfClosed \cup {"none", "head", "fetch", "lazy", "buffer"}

CfTypes ==
    /\ cfObject \in Seq(CfBytes) /\ cfMode \in [CfHandles -> CfModes] /\ cfState \in [CfHandles -> CfStates]
    /\ cfSize \in [CfHandles -> Nat] /\ cfPos \in [CfHandles -> Nat] /\ cfReads \in [CfHandles -> Nat]
    /\ cfBuf \in [CfHandles -> Seq(CfBytes)] /\ cfSeen \in [CfHandles -> Seq(CfBytes)]
    /\ cfGot \in [CfHandles -> SUBSET (Nat \X CfBytes)] /\ cfChanged \in [CfHandles -> BOOLEAN]

\* What a handle has returned is what the object was when it was opened.
CfTrue(h) == \A got \in cfGot[h] : got[1] \in DOMAIN cfSeen[h] /\ got[2] = cfSeen[h][got[1]]

\* A handle stands within the size it was opened with; a lazy one still reads
\* the object it saw until that is replaced, any other its own buffer.
CfStands(h) ==
    /\ cfPos[h] <= cfSize[h] \/ cfMode[h] # "r"
    /\ cfState[h] \in {"none", "head", "fetch"} => cfGot[h] = {} /\ cfPos[h] = 0 /\ cfBuf[h] = <<>>
    /\ cfMode[h] # "r" => cfGot[h] = {} /\ cfState[h] \notin {"none", "head", "fetch", "lazy"}
    /\ cfState[h] = "lazy" => /\ cfSize[h] = Len(cfSeen[h]) /\ cfBuf[h] = <<>>
                              /\ ~cfChanged[h] => cfObject = cfSeen[h]
    /\ cfState[h] = "buffer" /\ cfMode[h] = "r" => cfBuf[h] = cfSeen[h] /\ cfSize[h] = Len(cfBuf[h])
    /\ cfBuf[h] # <<>> \/ ~cfChanged[h] => CfTrue(h)

CfInv == CfTypes /\ (\A h \in CfHandles : CfStands(h)) /\ CfUploadedWhole

\* A step of one handle that leaves the object and the other handles alone.
CfAlone(h) ==
    /\ cfObject' = cfObject
    /\ \A g \in CfHandles \ {h} :
         /\ cfMode'[g] = cfMode[g] /\ cfState'[g] = cfState[g] /\ cfSize'[g] = cfSize[g]
         /\ cfPos'[g] = cfPos[g] /\ cfBuf'[g] = cfBuf[g] /\ cfSeen'[g] = cfSeen[g]
         /\ cfGot'[g] = cfGot[g] /\ cfChanged'[g] = cfChanged[g]

\* Such a step keeps the invariant if the handle stands well after it, and
\* either has been open or keeps what it uploaded.
LEMMA CfHandleKeeps ==
    ASSUME CfInv, NEW h \in CfHandles, CfAlone(h), CfTypes', CfStands(h)', cfState[h] \notin CfClosed
    PROVE  CfInv'
<1>1. ASSUME NEW g \in CfHandles, g # h PROVE CfStands(g)'
  <2>1. /\ cfMode'[g] = cfMode[g] /\ cfState'[g] = cfState[g] /\ cfSize'[g] = cfSize[g]
        /\ cfPos'[g] = cfPos[g] /\ cfBuf'[g] = cfBuf[g] /\ cfSeen'[g] = cfSeen[g]
        /\ cfGot'[g] = cfGot[g] /\ (cfChanged'[g] <=> cfChanged[g]) /\ cfObject' = cfObject
    BY <1>1 DEF CfAlone
  <2>2. CfStands(g) BY DEF CfInv
  <2> QED BY <2>1, <2>2 DEF CfStands, CfTrue
<1>2. CfUploadedWhole'
  <2>1. CASE cfObject = CfFirst BY <2>1 DEF CfAlone, CfUploadedWhole
  <2>2. CASE \E g \in CfHandles : cfState[g] \in {"closed", "unsure"} /\ cfMode[g] # "r" /\ cfObject = cfBuf[g]
    <3>1. PICK g \in CfHandles : cfState[g] \in {"closed", "unsure"} /\ cfMode[g] # "r" /\ cfObject = cfBuf[g]
      BY <2>2
    <3>2. g # h BY <3>1 DEF CfClosed
    <3> QED BY <3>1, <3>2 DEF CfAlone, CfUploadedWhole
  <2> QED BY <2>1, <2>2 DEF CfInv, CfUploadedWhole
<1> QED BY <1>1, <1>2 DEF CfInv

\* A handle is opened; one for reading asks for the size first.
LEMMA CfOpenKeeps == ASSUME CfInv, NEW h \in CfHandles, NEW mode \in CfModes, CfOpen(h, mode) PROVE CfInv'
<1>1. /\ UNCHANGED <<cfObject, cfPos, cfSeen, cfGot, cfReads, cfChanged>> /\ cfState[h] = "none"
      /\ cfMode' = [cfMode EXCEPT ![h] = mode]
      /\ \/ /\ mode = "r" /\ cfState' = [cfState EXCEPT ![h] = "head"] /\ cfBuf' = cfBuf /\ cfSize' = cfSize
         \/ /\ mode # "r" /\ cfState' = [cfState EXCEPT ![h] = "buffer"]
            /\ cfBuf' = [cfBuf EXCEPT ![h] = <<>>] /\ cfSize' = [cfSize EXCEPT ![h] = Len(<<>>)]
  BY DEF CfOpen, CfMakeBuffer
<1>2. <<>> \in Seq(CfBytes) /\ Len(<<>>) = 0 OBVIOUS
<1>3. CfTypes /\ CfStands(h) BY DEF CfInv
<1>4. CfTypes'
  <2>1. cfState' \in [CfHandles -> CfStates] BY <1>1, <1>3 DEF CfTypes, CfStates
  <2>2. cfBuf' \in [CfHandles -> Seq(CfBytes)] /\ cfSize' \in [CfHandles -> Nat]
    <3>1. cfBuf \in [CfHandles -> Seq(CfBytes)] /\ cfSize \in [CfHandles -> Nat] BY <1>3 DEF CfTypes
    <3>2. CASE mode = "r" BY <1>1, <3>1, <3>2
    <3>3. CASE mode # "r"
      <4> DEFINE none == <<>>
      <4>1. cfBuf' = [cfBuf EXCEPT ![h] = none] /\ cfSize' = [cfSize EXCEPT ![h] = 0] BY <1>1, <1>2, <3>3
      <4>2. none \in Seq(CfBytes) BY <1>2
      <4> HIDE DEF none
      <4> QED BY <3>1, <4>1, <4>2
    <3> QED BY <3>2, <3>3
  <2>3. cfMode' \in [CfHandles -> CfModes] BY <1>1, <1>3 DEF CfTypes
  <2> QED BY <1>1, <1>3, <2>1, <2>2, <2>3 DEF CfTypes
<1>5. CfAlone(h) BY <1>1, <1>3 DEF CfAlone, CfTypes
<1>6. CfStands(h)'
  <2>1. /\ cfMode'[h] = mode /\ cfGot'[h] = {} /\ cfPos'[h] = 0 /\ cfBuf'[h] = <<>> /\ cfSize'[h] \in Nat
        /\ cfState'[h] = IF mode = "r" THEN "head" ELSE "buffer"
    BY <1>1, <1>2, <1>3 DEF CfTypes, CfStands
  <2> QED BY <2>1 DEF CfStands, CfTrue
<1> QED BY <1>1, <1>4, <1>5, <1>6, CfHandleKeeps DEF CfClosed

\* HEAD is answered, or is not.
LEMMA CfHeadKeeps == ASSUME CfInv, NEW h \in CfHandles, CfHead(h) PROVE CfInv'
<1>1. /\ UNCHANGED <<cfObject, cfMode, cfPos, cfBuf, cfGot, cfReads>> /\ cfState[h] = "head"
      /\ \/ /\ cfState' = [cfState EXCEPT ![h] = "lazy"] /\ cfSize' = [cfSize EXCEPT ![h] = Len(cfObject)]
            /\ cfSeen' = [cfSeen EXCEPT ![h] = cfObject] /\ cfChanged' = [cfChanged EXCEPT ![h] = FALSE]
         \/ /\ cfState' = [cfState EXCEPT ![h] = "fetch"]
            /\ UNCHANGED <<cfSize, cfSeen, cfChanged>>
  BY DEF CfHead, CfMakeReader
<1>3. CfTypes /\ CfStands(h) BY DEF CfInv
<1>4. CfTypes'
  <2>1. cfState' \in [CfHandles -> CfStates] BY <1>1, <1>3 DEF CfTypes, CfStates
  <2>2. Len(cfObject) \in Nat /\ cfObject \in Seq(CfBytes) BY <1>3 DEF CfTypes
  <2>3. cfSeen' \in [CfHandles -> Seq(CfBytes)] /\ cfSize' \in [CfHandles -> Nat]
    BY <1>1, <1>3, <2>2 DEF CfTypes
  <2>4. cfChanged' \in [CfHandles -> BOOLEAN] BY <1>1, <1>3 DEF CfTypes
  <2> QED BY <1>1, <1>3, <2>1, <2>3, <2>4 DEF CfTypes
<1>5. CfAlone(h) BY <1>1, <1>3 DEF CfAlone, CfTypes
<1>6. CfStands(h)'
  <2>1. /\ cfMode'[h] = "r" /\ cfGot'[h] = {} /\ cfPos'[h] = 0 /\ cfBuf'[h] = <<>> /\ cfSize'[h] \in Nat
        /\ cfState'[h] \in {"lazy", "fetch"}
        /\ cfState'[h] = "lazy" => cfSize'[h] = Len(cfSeen'[h]) /\ cfObject' = cfSeen'[h]
    BY <1>1, <1>3, <1>4 DEF CfTypes, CfStands
  <2> QED BY <2>1 DEF CfStands, CfTrue
<1> QED BY <1>1, <1>4, <1>5, <1>6, CfHandleKeeps DEF CfClosed

\* The whole object is fetched into the buffer.
LEMMA CfFetchKeeps == ASSUME CfInv, NEW h \in CfHandles, CfFetch(h) PROVE CfInv'
<1>1. /\ UNCHANGED <<cfObject, cfMode, cfPos, cfGot, cfReads, cfChanged>> /\ cfState[h] = "fetch"
      /\ cfState' = [cfState EXCEPT ![h] = "buffer"] /\ cfSize' = [cfSize EXCEPT ![h] = Len(cfObject)]
      /\ cfSeen' = [cfSeen EXCEPT ![h] = cfObject] /\ cfBuf' = [cfBuf EXCEPT ![h] = cfObject]
  BY DEF CfFetch, CfMakeBuffer
<1>3. CfTypes /\ CfStands(h) BY DEF CfInv
<1>4. CfTypes'
  <2>1. cfState' \in [CfHandles -> CfStates] BY <1>1, <1>3 DEF CfTypes, CfStates
  <2>2. Len(cfObject) \in Nat /\ cfObject \in Seq(CfBytes) BY <1>3 DEF CfTypes
  <2>3. cfSeen' \in [CfHandles -> Seq(CfBytes)] /\ cfBuf' \in [CfHandles -> Seq(CfBytes)]
        /\ cfSize' \in [CfHandles -> Nat]
    BY <1>1, <1>3, <2>2 DEF CfTypes
  <2> QED BY <1>1, <1>3, <2>1, <2>3 DEF CfTypes
<1>5. CfAlone(h) BY <1>1, <1>3 DEF CfAlone, CfTypes
<1>6. CfStands(h)'
  <2>1. /\ cfMode'[h] = "r" /\ cfGot'[h] = {} /\ cfPos'[h] = 0 /\ cfSize'[h] \in Nat
        /\ cfState'[h] = "buffer" /\ cfBuf'[h] = cfSeen'[h] /\ cfSize'[h] = Len(cfBuf'[h])
    BY <1>1, <1>3, <1>4 DEF CfTypes, CfStands
  <2> QED BY <2>1 DEF CfStands, CfTrue
<1> QED BY <1>1, <1>4, <1>5, <1>6, CfHandleKeeps DEF CfClosed

\* Bytes are written to the buffer of a handle for writing.
LEMMA CfWriteKeeps == ASSUME CfInv, NEW h \in CfHandles, CfWrite(h) PROVE CfInv'
<1>1. /\ UNCHANGED <<cfObject, cfMode, cfState, cfSize, cfPos, cfSeen, cfGot, cfReads, cfChanged>>
      /\ cfState[h] = "buffer" /\ cfMode[h] # "r"
      /\ cfBuf' = [cfBuf EXCEPT ![h] = Append(cfBuf[h], h)]
  BY DEF CfWrite
<1>3. CfTypes /\ CfStands(h) BY DEF CfInv
<1>4. CfTypes'
  <2>1. Append(cfBuf[h], h) \in Seq(CfBytes)
    <3>1. h \in CfBytes BY DEF CfBytes
    <3>2. cfBuf[h] \in Seq(CfBytes) BY <1>3 DEF CfTypes
    <3> QED BY <3>1, <3>2
  <2>2. cfBuf' \in [CfHandles -> Seq(CfBytes)] BY <1>1, <1>3, <2>1 DEF CfTypes
  <2> QED BY <1>1, <1>3, <2>2 DEF CfTypes
<1>5. CfAlone(h) BY <1>1, <1>3 DEF CfAlone, CfTypes
<1>6. CfStands(h)'
  <2>1. cfMode'[h] # "r" /\ cfGot'[h] = {} /\ cfState'[h] = "buffer" BY <1>1, <1>3 DEF CfStands
  <2> QED BY <2>1 DEF CfStands, CfTrue
<1> QED BY <1>1, <1>4, <1>5, <1>6, CfHandleKeeps DEF CfClosed

\* A seek ends within the object.
LEMMA CfSeekKeeps ==
    ASSUME CfInv, NEW h \in CfHandles, NEW offset \in Int, NEW whence \in 0..2, CfSeek(h, offset, whence)
    PROVE  CfInv'
<1> DEFINE to == CfSeekTo(h, offset, whence)
<1>1. /\ UNCHANGED <<cfObject, cfMode, cfState, cfSize, cfBuf, cfSeen, cfGot, cfChanged>>
      /\ cfState[h] = "lazy"
      /\ cfPos' = [cfPos EXCEPT ![h] = to]
      /\ cfReads' = [cfReads EXCEPT ![h] = cfReads[h] + 1]
  BY DEF CfSeek
<1>3. CfTypes /\ CfStands(h) BY DEF CfInv
<1>2. to \in Nat /\ to <= cfSize[h]
  <2>1. cfSize[h] \in Nat /\ cfPos[h] \in Nat BY <1>3 DEF CfTypes
  <2>2. CfSeekUnclamped(h, offset, whence) \in Int BY <2>1 DEF CfSeekUnclamped
  <2> QED BY <2>1, <2>2 DEF CfSeekTo, CfMax, CfMin
<1> HIDE DEF to
<1>4. CfTypes'
  <2>1. cfPos' \in [CfHandles -> Nat] /\ cfReads' \in [CfHandles -> Nat] BY <1>1, <1>2, <1>3 DEF CfTypes
  <2> QED BY <1>1, <1>3, <2>1 DEF CfTypes
<1>5. CfAlone(h) BY <1>1, <1>3 DEF CfAlone, CfTypes
<1>6. CfStands(h)'
  <2>1. cfPos'[h] <= cfSize'[h] BY <1>1, <1>2, <1>3 DEF CfTypes
  <2> QED BY <1>1, <1>3, <2>1 DEF CfStands, CfTrue
<1> QED BY <1>1, <1>4, <1>5, <1>6, CfHandleKeeps DEF CfClosed

\* What is read of a sequence from a position on is what stands there.
LEMMA CfSlice ==
    ASSUME NEW S, NEW s \in Seq(S), NEW pos \in Nat, NEW to \in Nat, NEW size \in Nat,
           to <= Len(s), to <= size, pos <= size
    PROVE  /\ SubSeq(s, pos + 1, to) \in Seq(S) /\ Len(SubSeq(s, pos + 1, to)) \in Nat
           /\ pos + Len(SubSeq(s, pos + 1, to)) <= size
           /\ \A i \in 1..Len(SubSeq(s, pos + 1, to)) :
                SubSeq(s, pos + 1, to)[i] = s[pos + i] /\ pos + i \in 1..Len(s)
<1>1. CASE pos <= to
  <2>1. SubSeq(s, pos + 1, to) = [i \in 1..(to - pos) |-> s[pos + i]] BY <1>1 DEF SubSeq
  <2>2. \A i \in 1..(to - pos) : pos + i \in 1..Len(s) BY <1>1
  <2>3. \A i \in 1..(to - pos) : s[pos + i] \in S BY <2>2
  <2>4. to - pos \in Nat BY <1>1
  <2>5. SubSeq(s, pos + 1, to) \in Seq(S) /\ Len(SubSeq(s, pos + 1, to)) = to - pos BY <2>1, <2>3, <2>4
  <2> QED BY <2>1, <2>2, <2>4, <2>5
<1>2. CASE ~(pos <= to)
  <2>1. SubSeq(s, pos + 1, to) = <<>> BY <1>2
  <2>2. <<>> \in Seq(S) /\ Len(<<>>) = 0 OBVIOUS
  <2> QED BY <2>1, <2>2
<1> QED BY <1>1, <1>2

\* A handle for reading returns the bytes where it stands and goes on.
LEMMA CfReadKeeps == ASSUME CfInv, NEW h \in CfHandles, NEW n \in Nat, CfRead(h, n) PROVE CfInv'
<1> DEFINE want == CfWant(h, n)
           from == IF cfState[h] = "lazy" THEN cfObject ELSE cfBuf[h]
           to == IF cfState[h] = "lazy" THEN CfMin(cfPos[h] + want, Len(cfObject)) ELSE cfPos[h] + want
           data == SubSeq(from, cfPos[h] + 1, to)
           new == {<<cfPos[h] + i, data[i]>> : i \in DOMAIN data}
<1>1. /\ UNCHANGED <<cfObject, cfMode, cfState, cfSize, cfBuf, cfSeen, cfChanged>>
      /\ cfState[h] \in {"lazy", "buffer"} /\ cfMode[h] = "r" /\ cfPos[h] < cfSize[h]
      /\ cfGot' = [cfGot EXCEPT ![h] = cfGot[h] \cup new]
      /\ cfPos' = [cfPos EXCEPT ![h] = cfPos[h] + Len(data)]
      /\ cfReads' = [cfReads EXCEPT ![h] = cfReads[h] + 1]
  <2>1. data = IF cfState[h] = "lazy" THEN CfRange(cfPos[h], want)
               ELSE SubSeq(cfBuf[h], cfPos[h] + 1, cfPos[h] + want)
    BY DEF CfRange
  <2> HIDE DEF want, data
  <2> QED BY <2>1 DEF CfRead, CfAdvanced, want
<1>2. CfTypes /\ CfStands(h) BY DEF CfInv
<1>3. /\ cfObject \in Seq(CfBytes) /\ cfBuf[h] \in Seq(CfBytes) /\ cfPos[h] \in Nat /\ cfSize[h] \in Nat
      /\ cfReads[h] \in Nat /\ cfGot[h] \in SUBSET (Nat \X CfBytes)
  BY <1>2 DEF CfTypes
<1>4. from \in Seq(CfBytes) /\ to \in Nat /\ to <= Len(from) /\ to <= cfSize[h]
  <2>1. want \in Nat /\ cfPos[h] + want <= cfSize[h] BY <1>1, <1>3 DEF CfWant, CfMin
  <2> HIDE DEF want
  <2>2. CASE cfState[h] = "lazy"
    <3>1. Len(cfObject) \in Nat BY <1>3
    <3>2. to \in Nat /\ to <= Len(cfObject) /\ to <= cfPos[h] + want BY <1>3, <2>1, <2>2, <3>1 DEF CfMin
    <3> QED BY <1>3, <2>1, <2>2, <3>2
  <2>3. CASE cfState[h] = "buffer"
    <3>1. cfSize[h] = Len(cfBuf[h]) BY <1>1, <1>2, <2>3 DEF CfStands
    <3> QED BY <1>3, <2>1, <2>3, <3>1
  <2> QED BY <1>1, <2>2, <2>3
<1> HIDE DEF from, to
<1>5. /\ data \in Seq(CfBytes) /\ Len(data) \in Nat /\ cfPos[h] + Len(data) <= cfSize[h]
      /\ \A i \in 1..Len(data) : data[i] = from[cfPos[h] + i] /\ cfPos[h] + i \in 1..Len(from)
  <2>1. cfPos[h] <= cfSize[h] BY <1>1, <1>3
  <2> QED BY <1>3, <1>4, <2>1, CfSlice
<1>6. \A got \in new : /\ got \in Nat \X CfBytes
                       /\ got[1] \in 1..Len(from) /\ got[2] = from[got[1]]
  <2> HIDE DEF data
  <2>1. DOMAIN data = 1..Len(data) /\ \A i \in 1..Len(data) : data[i] \in CfBytes BY <1>5
  <2> SUFFICES ASSUME NEW i \in 1..Len(data)
               PROVE  /\ <<cfPos[h] + i, data[i]>> \in Nat \X CfBytes
                      /\ cfPos[h] + i \in 1..Len(from) /\ data[i] = from[cfPos[h] + i]
    BY <2>1
  <2>2. cfPos[h] + i \in Nat BY <1>3, <1>5
  <2> QED BY <1>5, <2>1, <2>2
<1> HIDE DEF data, new
<1>7. CfTypes'
  <2>1. cfGot[h] \cup new \in SUBSET (Nat \X CfBytes) BY <1>3, <1>6
  <2>2. cfGot' \in [CfHandles -> SUBSET (Nat \X CfBytes)] BY <1>1, <1>2, <2>1 DEF CfTypes
  <2>3. cfPos[h] + Len(data) \in Nat /\ cfReads[h] + 1 \in Nat BY <1>3, <1>5
  <2>4. cfPos' \in [CfHandles -> Nat] /\ cfReads' \in [CfHandles -> Nat] BY <1>1, <1>2, <2>3 DEF CfTypes
  <2> QED BY <1>1, <1>2, <2>2, <2>4 DEF CfTypes
<1>8. CfAlone(h) BY <1>1, <1>2 DEF CfAlone, CfTypes
<1>9. CfStands(h)'
  <2>1. cfPos'[h] <= cfSize'[h] /\ cfGot'[h] = cfGot[h] \cup new BY <1>1, <1>2, <1>5 DEF CfTypes
  <2>2. cfBuf[h] # <<>> \/ ~cfChanged[h] => CfTrue(h)'
    <3> HAVE cfBuf[h] # <<>> \/ ~cfChanged[h]
    <3>1. from = cfSeen[h] BY <1>1, <1>2 DEF CfStands, from
    <3>2. DOMAIN from = 1..Len(from) BY <1>4
    <3>3. \A got \in cfGot[h] : got[1] \in DOMAIN cfSeen[h] /\ got[2] = cfSeen[h][got[1]]
      BY <1>2 DEF CfStands, CfTrue
    <3>4. cfSeen'[h] = cfSeen[h] BY <1>1
    <3> QED BY <1>6, <2>1, <3>1, <3>2, <3>3, <3>4 DEF CfTrue
  <2> QED BY <1>1, <1>2, <2>1, <2>2 DEF CfStands
<1> QED BY <1>1, <1>7, <1>8, <1>9, CfHandleKeeps DEF CfClosed

\* A handle ends: what was written is uploaded whole, or nothing changes.
LEMMA CfExitKeeps == ASSUME CfInv, NEW h \in CfHandles, NEW raised \in BOOLEAN, CfExit(h, raised) PROVE CfInv'
<1>1. /\ UNCHANGED <<cfMode, cfSize, cfPos, cfBuf, cfSeen, cfGot, cfReads>> /\ cfState[h] \in {"lazy", "buffer"}
      /\ \/ /\ cfMode[h] # "r" /\ cfObject' = cfBuf[h] /\ cfChanged' = [g \in CfHandles |-> TRUE]
            /\ \E end \in {"closed", "unsure"} : cfState' = [cfState EXCEPT ![h] = end]
         \/ /\ cfObject' = cfObject /\ cfChanged' = cfChanged
            /\ \E end \in {"closed", "failed"} : cfState' = [cfState EXCEPT ![h] = end]
  BY DEF CfExit, CfUploads
<1>2. CfTypes /\ (\A g \in CfHandles : CfStands(g)) BY DEF CfInv
<1>3. CASE /\ cfMode[h] # "r" /\ cfObject' = cfBuf[h] /\ cfChanged' = [g \in CfHandles |-> TRUE]
           /\ \E end \in {"closed", "unsure"} : cfState' = [cfState EXCEPT ![h] = end]
  <2>1. PICK end \in {"closed", "unsure"} : cfState' = [cfState EXCEPT ![h] = end] BY <1>3
  <2>2. CfTypes'
    <3>1. cfState' \in [CfHandles -> CfStates] BY <1>2, <2>1 DEF CfTypes, CfStates, CfClosed
    <3>2. cfObject' \in Seq(CfBytes) /\ cfChanged' \in [CfHandles -> BOOLEAN] BY <1>2, <1>3 DEF CfTypes
    <3> QED BY <1>1, <1>2, <3>1, <3>2 DEF CfTypes
  <2>3. ASSUME NEW g \in CfHandles PROVE CfStands(g)'
    <3>1. /\ cfChanged'[g] = TRUE /\ cfState'[g] = IF g = h THEN end ELSE cfState[g]
      BY <1>2, <1>3, <2>1 DEF CfTypes
    <3>2. cfBuf[g] # <<>> => CfTrue(g) BY <1>2 DEF CfStands
    <3>3. CfTrue(g)' <=> CfTrue(g) BY <1>1 DEF CfTrue
    <3>4. CfStands(g) BY <1>2
    <3>5. CASE g = h BY <1>1, <1>3, <3>1, <3>2, <3>3, <3>4, <3>5 DEF CfStands
    <3>6. CASE g # h BY <1>1, <3>1, <3>2, <3>3, <3>4, <3>6 DEF CfStands
    <3> QED BY <3>5, <3>6
  <2>4. CfUploadedWhole'
    <3>1. cfState'[h] \in {"closed", "unsure"} /\ cfMode'[h] # "r" /\ cfObject' = cfBuf'[h]
      BY <1>1, <1>2, <1>3, <2>1 DEF CfTypes
    <3> QED BY <3>1 DEF CfUploadedWhole
  <2> QED BY <2>2, <2>3, <2>4 DEF CfInv
<1>4. CASE /\ cfObject' = cfObject /\ cfChanged' = cfChanged
           /\ \E end \in {"closed", "failed"} : cfState' = [cfState EXCEPT ![h] = end]
  <2>1. PICK end \in {"closed", "failed"} : cfState' = [cfState EXCEPT ![h] = end] BY <1>4
  <2>2. CfTypes'
    <3>1. cfState' \in [CfHandles -> CfStates] BY <1>2, <2>1 DEF CfTypes, CfStates, CfClosed
    <3> QED BY <1>1, <1>2, <1>4, <3>1 DEF CfTypes
  <2>3. CfAlone(h) BY <1>1, <1>2, <1>4, <2>1 DEF CfAlone, CfTypes
  <2>4. CfStands(h)'
    <3>1. cfState'[h] = end BY <1>2, <2>1 DEF CfTypes
    <3>2. CfTrue(h)' <=> CfTrue(h) BY <1>1 DEF CfTrue
    <3>3. CfStands(h) BY <1>2
    <3> QED BY <1>1, <1>4, <3>1, <3>2, <3>3 DEF CfStands
  <2> QED BY <1>1, <2>2, <2>3, <2>4, CfHandleKeeps DEF CfClosed
<1> QED BY <1>1, <1>3, <1>4

\* No step of any handle breaks what handles and object keep.
LEMMA CfInvKept == CfInv /\ [CfNext]_cfVars => CfInv'
<1> SUFFICES ASSUME CfInv, [CfNext]_cfVars PROVE CfInv'
  OBVIOUS
<1>1. ASSUME NEW h \in CfHandles, NEW mode \in CfModes, CfOpen(h, mode) PROVE CfInv' BY <1>1, CfOpenKeeps
<1>2. ASSUME NEW h \in CfHandles, CfHead(h) PROVE CfInv' BY <1>2, CfHeadKeeps
<1>3. ASSUME NEW h \in CfHandles, CfFetch(h) PROVE CfInv' BY <1>3, CfFetchKeeps
<1>4. ASSUME NEW h \in CfHandles, CfWrite(h) PROVE CfInv' BY <1>4, CfWriteKeeps
<1>5. ASSUME NEW h \in CfHandles, NEW n \in 1..CfMaxLen, CfRead(h, n) PROVE CfInv'
  <2>1. n \in Nat BY CfAssumption
  <2> QED BY <1>5, <2>1, CfReadKeeps
<1>6. ASSUME NEW h \in CfHandles, NEW offset \in -1..1, NEW whence \in 0..2, CfSeek(h, offset, whence)
      PROVE  CfInv'
  BY <1>6, CfSeekKeeps
<1>7. ASSUME NEW h \in CfHandles, NEW raised \in BOOLEAN, CfExit(h, raised) PROVE CfInv' BY <1>7, CfExitKeeps
<1>8. CASE UNCHANGED cfVars
  BY <1>8 DEF cfVars, CfInv, CfTypes, CfStands, CfTrue, CfUploadedWhole
<1> QED BY <1>1, <1>2, <1>3, <1>4, <1>5, <1>6, <1>7, <1>8 DEF CfNext, CfDone

\* CfInv holds initially.
LEMMA CfInitHolds == CfInit => CfInv
<1> SUFFICES ASSUME CfInit PROVE CfInv
  OBVIOUS
<1>1. CfTypes
  <2>1. <<>> \in Seq(CfBytes) OBVIOUS
  <2>2. cfBuf \in [CfHandles -> Seq(CfBytes)] /\ cfSeen \in [CfHandles -> Seq(CfBytes)]
    <3> DEFINE none == <<>>
    <3>1. cfBuf = [h \in CfHandles |-> none] /\ cfSeen = [h \in CfHandles |-> none] BY DEF CfInit
    <3>2. none \in Seq(CfBytes) BY <2>1
    <3> HIDE DEF none
    <3> QED BY <3>1, <3>2
  <2>3. cfGot \in [CfHandles -> SUBSET (Nat \X CfBytes)] BY DEF CfInit
  <2>4. cfState \in [CfHandles -> CfStates] /\ cfMode \in [CfHandles -> CfModes] BY DEF CfInit, CfStates, CfModes
  <2>5. cfObject \in Seq(CfBytes) BY CfAssumption DEF CfInit
  <2>6. /\ cfSize \in [CfHandles -> Nat] /\ cfPos \in [CfHandles -> Nat] /\ cfReads \in [CfHandles -> Nat]
        /\ cfChanged \in [CfHandles -> BOOLEAN]
    BY DEF CfInit
  <2> QED BY <2>2, <2>3, <2>4, <2>5, <2>6 DEF CfTypes
<1>2. ASSUME NEW h \in CfHandles PROVE CfStands(h)
  BY DEF CfInit, CfStands, CfTrue
<1> QED BY <1>1, <1>2 DEF CfInit, CfInv, CfUploadedWhole

\* However many handles are open on an object, however they read, seek, write
\* and end (open, _CloudRawIO, __exit__), every byte a handle returns is that of
\* the object as it was opened, and the object holds what one handle wrote.
THEOREM NeverMixed == CfSpec => []CfNeverMixed
<1>1. CfInit => CfInv BY CfInitHolds
<1>2. CfInv => CfNeverMixed
  BY DEF CfInv, CfStands, CfTrue, CfNeverMixed, CfReadsAsOpened
<1> QED BY <1>1, <1>2, CfInvKept, PTL DEF CfSpec

-----------------------------------------------------------------------------
(* Files of SFTP and FTP servers.                                          *)

RfWriters == {"", "old", "empty", "mixed"} \cup RfTasks

\* Which operations make a request.
RfMakes(op, pc) ==
    /\ pc \in {"probe", "read", "put copy"} => op = "rename"
    /\ pc = "unlink dst" => op = "replace"
    /\ pc = "move" => op \in {"rename", "replace"}
    /\ pc = "unlink" => op \in {"rename", "unlink"}
    /\ pc = "put" => op = "write"
    /\ pc \in {"truncate", "append"} => op \in {"write", "upload"}
    /\ pc \in {"put empty", "stamp"} => op = "touch"
    /\ pc = "exists" => op \in {"touch", "mkdir"}
    /\ pc \in {"mkdir", "recheck"} => op = "mkdir"
    /\ pc \in {"attrs", "chmod"} => op = "policy"

\* Until a rename or a replace has the file under the new name, it has it
\* under the old one.
RfSourceKept(node, a, pc, saw) ==
    a.op \in {"rename", "replace"} /\ a.src # a.dst /\ saw.kind = "file" =>
        /\ pc \in {"probe", "move", "unlink dst", "read", "put copy"} => RfSameData(node[a.src], saw)
        /\ pc = "unlink" => RfSameData(node[a.dst], saw)
        /\ RfSameData(node[a.src], saw) \/ RfSameData(node[a.dst], saw)

\* What an upload, touch and mkdir know on the way, and leave.
RfUploads(t, node, a, pc) ==
    a.op \in {"write", "upload"} =>
        /\ pc \in {"append", "ok"} => node[a.src].by = t
        /\ pc = "ok" => node[a.src].whole
RfTouches(node, a, pc, saw) ==
    a.op = "touch" =>
        /\ pc = "exists" => node[a.src].kind = saw.kind
        /\ pc = "put empty" => saw.kind = "none"
        /\ pc \in {"exists", "stamp", "ok"} /\ saw.kind # "none" => RfSameData(node[a.src], saw)
RfMakesDir(backend, node, a, pc, saw) ==
    a.op = "mkdir" /\ backend = "ssh" =>
        /\ pc \in {"exists", "mkdir", "recheck"} => node[a.src].kind = saw.kind
        /\ pc = "ok" /\ saw.kind # "file" => node[a.src].kind = "dir"
RfSawMode(backend, node, a, pc, saw, cached) ==
    pc = "chmod" /\ ~(backend = "ssh" /\ cached # RfNotCached) => saw.mode = node[a.src].mode

\* What is known of a call while nobody else changes its paths.
RfFits(t, backend, node, a, pc, saw, cached, alone) ==
    /\ pc \in RfOver \cup RfRequests /\ (pc # "idle" => a \in RfArgs) /\ RfMakes(a.op, pc)
    /\ alone => /\ RfSourceKept(node, a, pc, saw)
                /\ RfUploads(t, node, a, pc) /\ RfTouches(node, a, pc, saw)
                /\ RfMakesDir(backend, node, a, pc, saw)
                /\ RfSawMode(backend, node, a, pc, saw, cached)

RfCallFits(t) == RfFits(t, rfBackend, rfNode, rfCall[t], rfPc[t], rfSaw[t], rfCached[t], rfAlone[t])

RfTypes ==
    /\ rfBackend \in {"ssh", "ftp"} /\ rfNode \in [RfPaths -> RfNodes]
    /\ DOMAIN rfCall = RfTasks /\ DOMAIN rfPc = RfTasks /\ rfCall = [t \in RfTasks |-> rfCall[t]]
    /\ rfPc = [t \in RfTasks |-> rfPc[t]] /\ rfSaw \in [RfTasks -> RfNodes]
    /\ rfCached \in [RfTasks -> (SUBSET RfPrincipals) \cup {RfNotCached}]
    /\ rfAlone \in [RfTasks -> BOOLEAN]

RfInv == RfTypes /\ RfGrantsKept /\ \A t \in RfTasks : RfCallFits(t)

\* The records of a file.
LEMMA RfRecords ==
    /\ RfNone \in RfNodes /\ RfNone.kind = "none" /\ RfNone.mode = {} /\ RfNone.given = {}
    /\ RfDir \in RfNodes /\ RfDir.kind = "dir" /\ RfDir.mode = {} /\ RfDir.given = {}
    /\ \A by \in RfWriters : /\ RfFile(by) \in RfNodes /\ RfFile(by).kind = "file" /\ RfFile(by).by = by
                             /\ RfFile(by).whole = TRUE
                             /\ RfFile(by).mode = {} /\ RfFile(by).given = {}
    /\ \A n, old \in RfNodes : /\ RfWith(n, old) \in RfNodes /\ RfSameData(RfWith(n, old), n)
                               /\ RfWith(n, old).mode = old.mode /\ RfWith(n, old).given = old.given
<1>1. RfNone \in RfNodes BY DEF RfNone, RfNodes
<1>2. RfNone.kind = "none" /\ RfNone.mode = {} /\ RfNone.given = {} /\ RfNone.by = "" /\ RfNone.whole = TRUE BY DEF RfNone
<1>3. RfDir \in RfNodes /\ RfDir.kind = "dir" /\ RfDir.mode = {} /\ RfDir.given = {}
  BY DEF RfDir, RfNone, RfNodes
<1>4. ASSUME NEW by \in RfWriters
      PROVE  /\ RfFile(by) \in RfNodes /\ RfFile(by).kind = "file" /\ RfFile(by).by = by /\ RfFile(by).whole = TRUE
             /\ RfFile(by).mode = {} /\ RfFile(by).given = {}
  BY DEF RfFile, RfNone, RfNodes, RfWriters
<1>5. ASSUME NEW n \in RfNodes, NEW old \in RfNodes
      PROVE  /\ RfWith(n, old) \in RfNodes /\ RfSameData(RfWith(n, old), n)
             /\ RfWith(n, old).mode = old.mode /\ RfWith(n, old).given = old.given
  BY DEF RfWith, RfNodes, RfSameData
<1> QED BY <1>1, <1>2, <1>3, <1>4, <1>5

\* A change that leaves the call's own paths alone leaves what it knows.
LEMMA RfOthersFit ==
    ASSUME NEW u, NEW backend, NEW node, NEW after, NEW a, NEW pc, NEW saw, NEW cached, NEW alone, NEW still,
           RfFits(u, backend, node, a, pc, saw, cached, alone),
           still => alone /\ after[a.src] = node[a.src] /\ after[a.dst] = node[a.dst]
    PROVE  RfFits(u, backend, after, a, pc, saw, cached, still)
BY DEF RfFits, RfSourceKept, RfUploads, RfTouches, RfMakesDir, RfSawMode

\* One task makes a request that changes files.
LEMMA RfChanged ==
    ASSUME RfInv, NEW t \in RfTasks, NEW node \in [RfPaths -> RfNodes], NEW place, RfChange(t, node), RfGo(t, place),
           UNCHANGED <<rfBackend, rfCall, rfSaw, rfCached>>,
           \A p \in RfPaths : node[p].given \subseteq node[p].mode,
           RfFits(t, rfBackend, node, rfCall[t], place, rfSaw[t], rfCached[t], rfAlone[t])
    PROVE  RfInv'
<1>1. /\ rfNode' = node /\ rfPc' = [rfPc EXCEPT ![t] = place]
      /\ rfAlone' = [u \in RfTasks |-> rfAlone[u] /\ (u = t \/ \A p \in {rfCall[u].src, rfCall[u].dst} :
                                                                  node[p] = rfNode[p])]
  BY DEF RfChange, RfGo
<1>2. RfTypes BY DEF RfInv
<1>3. RfTypes'
  <2>1. rfAlone' \in [RfTasks -> BOOLEAN] BY <1>1
  <2>2. rfPc' = [u \in RfTasks |-> rfPc'[u]] /\ DOMAIN rfPc' = RfTasks BY <1>1, <1>2 DEF RfTypes
  <2> QED BY <1>1, <1>2, <2>1, <2>2 DEF RfTypes
<1>4. RfGrantsKept' BY <1>1 DEF RfGrantsKept
<1>5. ASSUME NEW u \in RfTasks PROVE RfCallFits(u)'
  <2>1. CASE u = t
    <3>1. rfAlone'[t] = rfAlone[t] BY <1>1, <1>2 DEF RfTypes
    <3>2. rfPc'[t] = place BY <1>1, <1>2 DEF RfTypes
    <3> QED BY <1>1, <2>1, <3>1, <3>2 DEF RfCallFits
  <2>2. CASE u # t
    <3>1. RfCallFits(u) BY DEF RfInv
    <3>2. rfAlone'[u] => rfAlone[u] /\ node[rfCall[u].src] = rfNode[rfCall[u].src] /\ node[rfCall[u].dst] = rfNode[rfCall[u].dst]
      BY <1>1, <2>2
    <3>3. rfPc'[u] = rfPc[u] BY <1>1, <1>2, <2>2 DEF RfTypes
    <3>4. RfFits(u, rfBackend, node, rfCall[u], rfPc[u], rfSaw[u], rfCached[u], rfAlone'[u])
      BY <3>1, <3>2, RfOthersFit DEF RfCallFits
    <3> QED BY <1>1, <3>3, <3>4 DEF RfCallFits
  <2> QED BY <2>1, <2>2
<1> QED BY <1>3, <1>4, <1>5 DEF RfInv

\* One task makes a request that reads, or none.
LEMMA RfQuiet ==
    ASSUME RfInv, NEW t \in RfTasks, NEW place, NEW saw \in RfNodes, RfGo(t, place),
           rfSaw' = [rfSaw EXCEPT ![t] = saw], UNCHANGED <<rfBackend, rfNode, rfCall, rfCached, rfAlone>>,
           RfFits(t, rfBackend, rfNode, rfCall[t], place, saw, rfCached[t], rfAlone[t])
    PROVE  RfInv'
<1>1. rfPc' = [rfPc EXCEPT ![t] = place] BY DEF RfGo
<1>2. RfTypes BY DEF RfInv
<1>3. RfTypes'
  <2>1. rfPc' = [u \in RfTasks |-> rfPc'[u]] /\ DOMAIN rfPc' = RfTasks BY <1>1, <1>2 DEF RfTypes
  <2>2. rfSaw' \in [RfTasks -> RfNodes] BY <1>2 DEF RfTypes
  <2> QED BY <1>2, <2>1, <2>2 DEF RfTypes
<1>4. RfGrantsKept' BY DEF RfInv, RfGrantsKept
<1>5. ASSUME NEW u \in RfTasks PROVE RfCallFits(u)'
  <2>1. CASE u = t
    <3>1. rfPc'[t] = place /\ rfSaw'[t] = saw BY <1>1, <1>2 DEF RfTypes
    <3> QED BY <2>1, <3>1 DEF RfCallFits
  <2>2. CASE u # t
    <3>1. rfPc'[u] = rfPc[u] /\ rfSaw'[u] = rfSaw[u] BY <1>1, <1>2, <2>2 DEF RfTypes
    <3> QED BY <3>1 DEF RfInv, RfCallFits
  <2> QED BY <2>1, <2>2
<1> QED BY <1>3, <1>4, <1>5 DEF RfInv

\* The same, when nothing is read that is kept.
LEMMA RfGoes ==
    ASSUME RfInv, NEW t \in RfTasks, NEW place, RfGo(t, place),
           UNCHANGED <<rfBackend, rfNode, rfCall, rfSaw, rfCached, rfAlone>>,
           RfFits(t, rfBackend, rfNode, rfCall[t], place, rfSaw[t], rfCached[t], rfAlone[t])
    PROVE  RfInv'
<1>1. rfSaw[t] \in RfNodes /\ rfSaw' = [rfSaw EXCEPT ![t] = rfSaw[t]] BY DEF RfInv, RfTypes
<1> QED BY <1>1, RfQuiet

\* What a call that runs has.
LEMMA RfRuns ==
    ASSUME RfInv, NEW t \in RfTasks, rfPc[t] # "idle"
    PROVE  /\ rfCall[t] \in RfArgs /\ rfCall[t].src \in RfPaths /\ rfCall[t].dst \in RfPaths
           /\ rfCall[t].for \in RfPrincipals /\ RfSrc(t) \in RfNodes /\ RfDst(t) \in RfNodes /\ rfSaw[t] \in RfNodes
           /\ RfSrc(t) = rfNode[rfCall[t].src] /\ RfDst(t) = rfNode[rfCall[t].dst]
           /\ RfFits(t, rfBackend, rfNode, rfCall[t], rfPc[t], rfSaw[t], rfCached[t], rfAlone[t])
<1>1. RfFits(t, rfBackend, rfNode, rfCall[t], rfPc[t], rfSaw[t], rfCached[t], rfAlone[t]) BY DEF RfInv, RfCallFits
<1>2. rfCall[t] \in RfArgs BY <1>1 DEF RfFits
<1>3. rfCall[t].src \in RfPaths /\ rfCall[t].dst \in RfPaths /\ rfCall[t].for \in RfPrincipals BY <1>2 DEF RfArgs
<1> QED BY <1>1, <1>2, <1>3 DEF RfSrc, RfDst, RfInv, RfTypes

\* No call has been made.
LEMMA RfInitHolds == RfInit => RfInv
<1> SUFFICES ASSUME RfInit PROVE RfInv
  OBVIOUS
<1>1. /\ rfBackend \in {"ssh", "ftp"} /\ rfNode \in [RfPaths -> {RfNone, RfDir, RfFile("old")}]
      /\ rfCall = [t \in RfTasks |-> RfNoArgs] /\ rfPc = [t \in RfTasks |-> "idle"]
      /\ rfSaw = [t \in RfTasks |-> RfNone] /\ rfCached = [t \in RfTasks |-> RfNotCached]
      /\ rfAlone = [t \in RfTasks |-> TRUE]
  BY DEF RfInit
<1>2. "old" \in RfWriters BY DEF RfWriters
<1>3. {RfNone, RfDir, RfFile("old")} \subseteq RfNodes BY <1>2, RfRecords
<1>4. RfTypes BY <1>1, <1>3, RfRecords DEF RfTypes
<1>5. RfGrantsKept BY <1>1, <1>2, RfRecords DEF RfGrantsKept
<1>6. RfNoArgs.op = "write" BY DEF RfNoArgs
<1>7. ASSUME NEW t \in RfTasks PROVE RfCallFits(t)
  <2>1. rfPc[t] = "idle" /\ rfCall[t].op = "write" BY <1>1, <1>6
  <2> QED BY <2>1 DEF RfCallFits, RfFits, RfOver, RfMakes, RfSourceKept, RfUploads, RfTouches, RfMakesDir, RfSawMode
<1> QED BY <1>4, <1>5, <1>7 DEF RfInv

\* A call is made.
LEMMA RfCallKeeps == ASSUME RfInv, NEW t \in RfTasks, RfCall(t) PROVE RfInv'
<1>0. PICK a \in RfArgs :
        /\ rfCall' = [rfCall EXCEPT ![t] = a] /\ rfPc' = [rfPc EXCEPT ![t] = RfFirst(a)]
        /\ rfSaw' = [rfSaw EXCEPT ![t] = rfNode[a.src]]
        /\ \E mode \in {RfNotCached, rfNode[a.src].mode, rfCached[t]} : rfCached' = [rfCached EXCEPT ![t] = mode]
  BY DEF RfCall, RfGo
<1>1. PICK mode \in {RfNotCached, rfNode[a.src].mode, rfCached[t]} :
        /\ rfCall' = [rfCall EXCEPT ![t] = a] /\ rfPc' = [rfPc EXCEPT ![t] = RfFirst(a)]
        /\ rfSaw' = [rfSaw EXCEPT ![t] = rfNode[a.src]] /\ rfCached' = [rfCached EXCEPT ![t] = mode]
  BY <1>0
<1>2. rfAlone' = [rfAlone EXCEPT ![t] = TRUE] /\ UNCHANGED <<rfBackend, rfNode>> BY DEF RfCall
<1>3. RfTypes /\ RfGrantsKept BY DEF RfInv
<1>4. a.src \in RfPaths /\ a.op \in RfAllOps BY RfAssumption DEF RfArgs
<1> DEFINE node == rfNode[a.src]
<1>5. node \in RfNodes /\ node.mode \in SUBSET RfPrincipals BY <1>3, <1>4 DEF RfTypes, RfNodes
<1>6. mode \in (SUBSET RfPrincipals) \cup {RfNotCached} BY <1>3, <1>5 DEF RfTypes
<1> HIDE DEF node
<1>7. RfTypes'
  <2>1. rfCached' \in [RfTasks -> (SUBSET RfPrincipals) \cup {RfNotCached}] BY <1>1, <1>3, <1>6 DEF RfTypes
  <2>2. rfSaw' \in [RfTasks -> RfNodes] BY <1>1, <1>3, <1>5 DEF RfTypes, node
  <2>3. rfAlone' \in [RfTasks -> BOOLEAN] BY <1>2, <1>3 DEF RfTypes
  <2>4. rfPc' = [u \in RfTasks |-> rfPc'[u]] /\ DOMAIN rfPc' = RfTasks BY <1>1, <1>3 DEF RfTypes
  <2>5. rfCall' = [u \in RfTasks |-> rfCall'[u]] /\ DOMAIN rfCall' = RfTasks BY <1>1, <1>3 DEF RfTypes
  <2> QED BY <1>2, <1>3, <2>1, <2>2, <2>3, <2>4, <2>5 DEF RfTypes
<1>8. RfGrantsKept' BY <1>2, <1>3 DEF RfGrantsKept
<1>9. RfFits(t, rfBackend, rfNode, a, RfFirst(a), node, mode, TRUE)
  <2>1. RfFirst(a) \in RfOver \cup RfRequests /\ RfMakes(a.op, RfFirst(a))
    BY <1>4 DEF RfAllOps, RfFirst, RfOver, RfRequests, RfMakes
  <2>2. RfSourceKept(rfNode, a, RfFirst(a), node)
    BY <1>4 DEF RfAllOps, RfFirst, RfSourceKept, RfSameData, node
  <2>3. RfUploads(t, rfNode, a, RfFirst(a)) BY <1>4 DEF RfAllOps, RfFirst, RfUploads
  <2>4. RfTouches(rfNode, a, RfFirst(a), node) BY <1>4 DEF RfAllOps, RfFirst, RfTouches, RfSameData, node
  <2>5. RfMakesDir(rfBackend, rfNode, a, RfFirst(a), node) BY <1>4 DEF RfAllOps, RfFirst, RfMakesDir, node
  <2>6. RfFirst(a) # "chmod" BY <1>4 DEF RfAllOps, RfFirst
  <2> QED BY <2>1, <2>2, <2>3, <2>4, <2>5, <2>6 DEF RfFits, RfSawMode
<1>10. ASSUME NEW u \in RfTasks PROVE RfCallFits(u)'
  <2>1. CASE u = t
    <3>1. /\ rfCall'[t] = a /\ rfPc'[t] = RfFirst(a) /\ rfSaw'[t] = node /\ rfCached'[t] = mode
      BY <1>1, <1>3 DEF RfTypes, node
    <3>2. rfAlone'[t] = TRUE BY <1>2, <1>3 DEF RfTypes
    <3> QED BY <1>2, <1>9, <2>1, <3>1, <3>2 DEF RfCallFits
  <2>2. CASE u # t
    <3>1. /\ rfCall'[u] = rfCall[u] /\ rfPc'[u] = rfPc[u] /\ rfSaw'[u] = rfSaw[u] /\ rfCached'[u] = rfCached[u]
      BY <1>1, <1>3, <2>2 DEF RfTypes
    <3>2. rfAlone'[u] = rfAlone[u] BY <1>2, <1>3, <2>2 DEF RfTypes
    <3> QED BY <1>2, <3>1, <3>2 DEF RfInv, RfCallFits
  <2> QED BY <2>1, <2>2
<1> QED BY <1>7, <1>8, <1>10 DEF RfInv

\* Whether the path exists is asked, its time is set, a directory is looked
\* at again, or the call is given up.
LEMMA RfLooksKeep ==
    ASSUME RfInv, NEW t \in RfTasks, RfExists(t) \/ RfStamp(t) \/ RfRecheck(t) \/ RfFail(t)
    PROVE  RfInv'
<1>1. rfPc[t] # "idle" BY DEF RfExists, RfStamp, RfRecheck, RfFail, RfOver
<1> DEFINE a == rfCall[t]
           saw == rfSaw[t]
<1>2. /\ a \in RfArgs /\ saw \in RfNodes /\ RfSrc(t) \in RfNodes /\ RfSrc(t) = rfNode[a.src]
      /\ RfFits(t, rfBackend, rfNode, a, rfPc[t], saw, rfCached[t], rfAlone[t])
  BY <1>1, RfRuns
<1>3. rfBackend \in {"ssh", "ftp"} /\ RfSrc(t).kind \in {"none", "dir", "file"} /\ saw.kind \in {"none", "dir", "file"}
  BY <1>2 DEF RfInv, RfTypes, RfNodes
<1> HIDE DEF a, saw
<1>4. CASE RfExists(t)
  <2> DEFINE place == RfAfterExists(t, RfSrc(t).kind # "none")
  <2>1. rfPc[t] = "exists" /\ RfGo(t, place) /\ UNCHANGED <<rfBackend, rfNode, rfCall, rfSaw, rfCached, rfAlone>>
    BY <1>4 DEF RfExists
  <2>2. a.op \in {"touch", "mkdir"} BY <1>2, <2>1 DEF RfFits, RfMakes
  <2>3. /\ a.op = "touch" => /\ place \in {"put empty", "error", "stamp", "ok"}
                             /\ place = "put empty" <=> RfSrc(t).kind = "none"
        /\ a.op = "mkdir" => /\ place \in {"mkdir", "ok", "error"} /\ (place = "mkdir" <=> RfSrc(t).kind = "none")
                             /\ rfBackend = "ssh" => place # "ok"
    BY <1>3, <2>2 DEF RfAfterExists, a
  <2> HIDE DEF place
  <2>4. RfFits(t, rfBackend, rfNode, a, place, saw, rfCached[t], rfAlone[t])
    BY <1>2, <1>3, <2>1, <2>2, <2>3
    DEF RfFits, RfOver, RfRequests, RfMakes, RfSourceKept, RfUploads, RfTouches, RfMakesDir, RfSawMode, RfSameData
  <2> QED BY <2>1, <2>4, RfGoes DEF a, saw
<1>5. CASE RfStamp(t)
  <2> DEFINE place == IF RfSrc(t).kind = "none" THEN "error" ELSE "ok"
  <2>1. rfPc[t] = "stamp" /\ RfGo(t, place) /\ UNCHANGED <<rfBackend, rfNode, rfCall, rfSaw, rfCached, rfAlone>>
    BY <1>5 DEF RfStamp
  <2>2. place \in {"error", "ok"} OBVIOUS
  <2> HIDE DEF place
  <2>3. RfFits(t, rfBackend, rfNode, a, place, saw, rfCached[t], rfAlone[t])
    BY <1>2, <2>1, <2>2
    DEF RfFits, RfOver, RfRequests, RfMakes, RfSourceKept, RfUploads, RfTouches, RfMakesDir, RfSawMode
  <2> QED BY <2>1, <2>3, RfGoes DEF a, saw
<1>6. CASE RfRecheck(t)
  <2> DEFINE place == IF RfSrc(t).kind = "dir" THEN "ok" ELSE "error"
  <2>1. rfPc[t] = "recheck" /\ RfGo(t, place) /\ UNCHANGED <<rfBackend, rfNode, rfCall, rfSaw, rfCached, rfAlone>>
    BY <1>6 DEF RfRecheck
  <2>2. place \in {"error", "ok"} /\ (place = "ok" => rfNode[a.src].kind = "dir") BY <1>2
  <2> HIDE DEF place
  <2>3. RfFits(t, rfBackend, rfNode, a, place, saw, rfCached[t], rfAlone[t])
    BY <1>2, <2>1, <2>2
    DEF RfFits, RfOver, RfRequests, RfMakes, RfSourceKept, RfUploads, RfTouches, RfMakesDir, RfSawMode
  <2> QED BY <2>1, <2>3, RfGoes DEF a, saw
<1>7. CASE RfFail(t)
  <2>1. RfGo(t, "error") /\ UNCHANGED <<rfBackend, rfNode, rfCall, rfSaw, rfCached, rfAlone>> BY <1>7 DEF RfFail
  <2>2. RfFits(t, rfBackend, rfNode, a, "error", saw, rfCached[t], rfAlone[t])
    BY <1>2
    DEF RfFits, RfOver, RfRequests, RfMakes, RfSourceKept, RfUploads, RfTouches, RfMakesDir, RfSawMode
  <2> QED BY <2>1, <2>2, RfGoes DEF a, saw
<1> QED BY <1>4, <1>5, <1>6, <1>7

\* A rename compares, or reads what it will copy.
LEMMA RfRenameLooksKeep == ASSUME RfInv, NEW t \in RfTasks, RfProbe(t) \/ RfRead(t) PROVE RfInv'
<1>1. rfPc[t] # "idle" BY DEF RfProbe, RfRead
<1> DEFINE a == rfCall[t]
           saw == rfSaw[t]
<1>2. /\ a \in RfArgs /\ saw \in RfNodes /\ RfSrc(t) \in RfNodes /\ RfSrc(t) = rfNode[a.src] /\ RfDst(t) = rfNode[a.dst]
      /\ RfFits(t, rfBackend, rfNode, a, rfPc[t], saw, rfCached[t], rfAlone[t])
  BY <1>1, RfRuns
<1> HIDE DEF a, saw
<1>3. CASE RfProbe(t)
  <2> DEFINE place == RfAfterProbe(t)
  <2>1. rfPc[t] = "probe" /\ RfGo(t, place) /\ UNCHANGED <<rfBackend, rfNode, rfCall, rfSaw, rfCached, rfAlone>>
    BY <1>3 DEF RfProbe
  <2>2. place \in {"move", "unlink", "read", "error"} /\ (place = "unlink" => RfSameData(rfNode[a.dst], rfNode[a.src]))
    BY <1>2 DEF RfAfterProbe
  <2>3. a.op = "rename" BY <1>2, <2>1 DEF RfFits, RfMakes
  <2> HIDE DEF place
  <2>4. RfFits(t, rfBackend, rfNode, a, place, saw, rfCached[t], rfAlone[t])
    BY <1>2, <2>1, <2>2, <2>3
    DEF RfFits, RfOver, RfRequests, RfMakes, RfSourceKept, RfUploads, RfTouches, RfMakesDir, RfSawMode, RfSameData
  <2> QED BY <2>1, <2>4, RfGoes DEF a, saw
<1>4. CASE RfRead(t)
  <2>1. /\ rfPc[t] = "read" /\ RfGo(t, "put copy") /\ rfSaw' = [rfSaw EXCEPT ![t] = RfSrc(t)]
        /\ UNCHANGED <<rfBackend, rfNode, rfCall, rfCached, rfAlone>>
    BY <1>4 DEF RfRead
  <2>2. a.op = "rename" BY <1>2, <2>1 DEF RfFits, RfMakes
  <2>3. RfFits(t, rfBackend, rfNode, a, "put copy", RfSrc(t), rfCached[t], rfAlone[t])
    BY <1>2, <2>1, <2>2
    DEF RfFits, RfOver, RfRequests, RfMakes, RfSourceKept, RfUploads, RfTouches, RfMakesDir, RfSawMode, RfSameData
  <2> QED BY <1>2, <2>1, <2>3, RfQuiet DEF a
<1> QED BY <1>3, <1>4

\* A whole file is written.
LEMMA RfPutKeeps == ASSUME RfInv, NEW t \in RfTasks, RfPut(t) PROVE RfInv'
<1>1. rfPc[t] \in {"put", "put empty", "put copy"} /\ rfPc[t] # "idle" BY DEF RfPut
<1> DEFINE a == rfCall[t]
           saw == rfSaw[t]
           p == IF rfPc[t] = "put copy" THEN a.dst ELSE a.src
           file == CASE rfPc[t] = "put" -> RfFile(t)
                     [] rfPc[t] = "put empty" -> RfFile("empty")
                     [] rfPc[t] = "put copy" -> rfSaw[t]
           place == IF rfPc[t] = "put copy" THEN "unlink" ELSE "ok"
           node == [rfNode EXCEPT ![p] = RfWith(file, @)]
<1>2. RfChange(t, node) /\ RfGo(t, place) /\ UNCHANGED <<rfBackend, rfCall, rfSaw, rfCached>> BY DEF RfPut
<1>3. /\ a \in RfArgs /\ a.src \in RfPaths /\ a.dst \in RfPaths /\ saw \in RfNodes
      /\ RfFits(t, rfBackend, rfNode, a, rfPc[t], saw, rfCached[t], rfAlone[t])
  BY <1>1, RfRuns
<1>4. t \in RfWriters /\ "empty" \in RfWriters BY DEF RfWriters
<1>5. /\ p \in RfPaths /\ file \in RfNodes
      /\ rfPc[t] = "put" => file = RfFile(t) /\ p = a.src /\ place = "ok"
      /\ rfPc[t] = "put empty" => p = a.src /\ place = "ok"
      /\ rfPc[t] = "put copy" => file = saw /\ p = a.dst /\ place = "unlink"
  BY <1>1, <1>3, <1>4, RfRecords
<1>6. rfNode \in [RfPaths -> RfNodes] /\ RfGrantsKept BY DEF RfInv, RfTypes
<1>7. node = [rfNode EXCEPT ![p] = RfWith(file, rfNode[p])] OBVIOUS
<1> HIDE DEF a, saw, p, file, place, node
<1> DEFINE new == RfWith(file, rfNode[p])
<1>8. new \in RfNodes /\ RfSameData(new, file) /\ new.given \subseteq new.mode
  <2>1. rfNode[p] \in RfNodes /\ rfNode[p].given \subseteq rfNode[p].mode BY <1>5, <1>6 DEF RfGrantsKept
  <2>2. /\ RfWith(file, rfNode[p]) \in RfNodes /\ RfSameData(RfWith(file, rfNode[p]), file)
        /\ RfWith(file, rfNode[p]).mode = rfNode[p].mode /\ RfWith(file, rfNode[p]).given = rfNode[p].given
    BY <1>5, <2>1, RfRecords, Zenon
  <2> QED BY <2>1, <2>2
<1>9. node \in [RfPaths -> RfNodes] /\ node[p] = new /\ \A q \in RfPaths \ {p} : node[q] = rfNode[q]
  BY <1>5, <1>6, <1>7, <1>8
<1> HIDE DEF new
<1>10. \A q \in RfPaths : node[q].given \subseteq node[q].mode BY <1>6, <1>8, <1>9 DEF RfGrantsKept
<1>11. RfFits(t, rfBackend, node, a, place, saw, rfCached[t], rfAlone[t])
  <2>1. CASE rfPc[t] = "put"
    <3>1. a.op = "write" BY <1>3, <2>1 DEF RfFits, RfMakes
    <3>2. node[a.src].by = t /\ node[a.src].whole BY <1>4, <1>5, <1>8, <1>9, <2>1, RfRecords DEF RfSameData
    <3> QED BY <1>3, <1>5, <2>1, <3>1, <3>2
        DEF RfFits, RfOver, RfMakes, RfSourceKept, RfUploads, RfTouches, RfMakesDir, RfSawMode
  <2>2. CASE rfPc[t] = "put empty"
    <3>1. a.op = "touch" BY <1>3, <2>2 DEF RfFits, RfMakes
    <3> QED BY <1>3, <1>5, <2>2, <3>1
        DEF RfFits, RfOver, RfMakes, RfSourceKept, RfUploads, RfTouches, RfMakesDir, RfSawMode
  <2>3. CASE rfPc[t] = "put copy"
    <3>1. a.op = "rename" BY <1>3, <2>3 DEF RfFits, RfMakes
    <3>2. RfSameData(node[a.dst], saw) BY <1>5, <1>8, <1>9, <2>3
    <3> QED BY <1>3, <1>5, <2>3, <3>1, <3>2
        DEF RfFits, RfRequests, RfMakes, RfSourceKept, RfUploads, RfTouches, RfMakesDir, RfSawMode
  <2> QED BY <1>1, <2>1, <2>2, <2>3
<1> QED BY <1>2, <1>9, <1>10, <1>11, RfChanged DEF a, saw

\* The first chunk of an upload is written.
LEMMA RfTruncateKeeps == ASSUME RfInv, NEW t \in RfTasks, RfTruncate(t) PROVE RfInv'
<1>1. rfPc[t] = "truncate" /\ rfPc[t] # "idle" BY DEF RfTruncate
<1> DEFINE a == rfCall[t]
           saw == rfSaw[t]
           half == [RfFile(t) EXCEPT !.whole = FALSE]
           node == [rfNode EXCEPT ![a.src] = RfWith(half, @)]
<1>2. RfChange(t, node) /\ RfGo(t, "append") /\ UNCHANGED <<rfBackend, rfCall, rfSaw, rfCached>> BY DEF RfTruncate
<1>3. /\ a \in RfArgs /\ a.src \in RfPaths
      /\ RfFits(t, rfBackend, rfNode, a, rfPc[t], saw, rfCached[t], rfAlone[t])
  BY <1>1, RfRuns
<1>4. t \in RfWriters BY DEF RfWriters
<1>5. half \in RfNodes /\ half.by = t BY <1>4 DEF RfFile, RfNone, RfNodes, RfWriters
<1>6. rfNode \in [RfPaths -> RfNodes] /\ RfGrantsKept BY DEF RfInv, RfTypes
<1>7. node = [rfNode EXCEPT ![a.src] = RfWith(half, rfNode[a.src])] OBVIOUS
<1> HIDE DEF a, saw, half, node
<1> DEFINE new == RfWith(half, rfNode[a.src])
<1>8. new \in RfNodes /\ new.by = t /\ new.given \subseteq new.mode
  BY <1>3, <1>5, <1>6, RfRecords DEF RfGrantsKept, RfSameData
<1>9. node \in [RfPaths -> RfNodes] /\ node[a.src] = new /\ \A q \in RfPaths \ {a.src} : node[q] = rfNode[q]
  BY <1>3, <1>6, <1>7, <1>8
<1> HIDE DEF new
<1>10. \A q \in RfPaths : node[q].given \subseteq node[q].mode BY <1>6, <1>8, <1>9 DEF RfGrantsKept
<1>11. a.op \in {"write", "upload"} BY <1>1, <1>3 DEF RfFits, RfMakes
<1>12. RfFits(t, rfBackend, node, a, "append", saw, rfCached[t], rfAlone[t])
  BY <1>3, <1>8, <1>9, <1>11 DEF RfFits, RfOver, RfRequests, RfMakes, RfSourceKept, RfUploads, RfTouches, RfMakesDir, RfSawMode
<1> QED BY <1>2, <1>9, <1>10, <1>12, RfChanged DEF a, saw

\* The other chunks are written.
LEMMA RfAppendKeeps == ASSUME RfInv, NEW t \in RfTasks, RfAppend(t) PROVE RfInv'
<1>1. rfPc[t] = "append" /\ rfPc[t] # "idle" BY DEF RfAppend
<1> DEFINE a == rfCall[t]
           saw == rfSaw[t]
           node == [rfNode EXCEPT ![a.src].whole = (RfSrc(t).by = t),
                                  ![a.src].by = IF @ = t THEN @ ELSE "mixed"]
<1>2. RfChange(t, node) /\ RfGo(t, "ok") /\ UNCHANGED <<rfBackend, rfCall, rfSaw, rfCached>> BY DEF RfAppend
<1>3. /\ a \in RfArgs /\ a.src \in RfPaths /\ RfSrc(t) = rfNode[a.src] /\ RfSrc(t) \in RfNodes
      /\ RfFits(t, rfBackend, rfNode, a, rfPc[t], saw, rfCached[t], rfAlone[t])
  BY <1>1, RfRuns
<1> DEFINE old == rfNode[a.src]
           whole == (old.by = t)
           by == IF old.by = t THEN old.by ELSE "mixed"
           new == [old EXCEPT !.whole = whole, !.by = by]
<1>4. rfNode \in [RfPaths -> RfNodes] /\ RfGrantsKept BY DEF RfInv, RfTypes
<1>5. old \in RfNodes /\ whole \in BOOLEAN /\ by \in RfWriters BY <1>3 DEF RfWriters
<1>6. node = [rfNode EXCEPT ![a.src] = new] BY <1>3, <1>4 DEF RfNodes
<1>7. old.by = t => by = t /\ whole = TRUE OBVIOUS
<1> HIDE DEF a, saw, node, whole, by, old
<1>8. new \in RfNodes /\ new.by = by /\ new.whole = whole /\ new.mode = old.mode /\ new.given = old.given
  BY <1>5 DEF RfNodes, RfWriters
<1> HIDE DEF new
<1>9. node \in [RfPaths -> RfNodes] /\ node[a.src] = new /\ \A q \in RfPaths \ {a.src} : node[q] = rfNode[q]
  BY <1>3, <1>4, <1>6, <1>8
<1>10. \A q \in RfPaths : node[q].given \subseteq node[q].mode BY <1>3, <1>4, <1>8, <1>9 DEF RfGrantsKept, old
<1>11. a.op \in {"write", "upload"} /\ (rfAlone[t] => old.by = t) BY <1>1, <1>3 DEF RfFits, RfMakes, RfUploads, old
<1>12. RfFits(t, rfBackend, node, a, "ok", saw, rfCached[t], rfAlone[t])
  BY <1>3, <1>7, <1>8, <1>9, <1>11 DEF RfFits, RfOver, RfRequests, RfMakes, RfSourceKept, RfUploads, RfTouches, RfMakesDir, RfSawMode
<1> QED BY <1>2, <1>9, <1>10, <1>12, RfChanged DEF a, saw

\* The file gets its new name.
LEMMA RfMoveKeeps == ASSUME RfInv, NEW t \in RfTasks, RfMove(t) PROVE RfInv'
<1>1. rfPc[t] = "move" /\ rfPc[t] # "idle" BY DEF RfMove
<1> DEFINE a == rfCall[t]
           saw == rfSaw[t]
           node == [rfNode EXCEPT ![a.dst] = RfSrc(t), ![a.src] = RfNone]
<1>2. RfChange(t, node) /\ RfGo(t, "ok") /\ a.src # a.dst /\ UNCHANGED <<rfBackend, rfCall, rfSaw, rfCached>>
  BY DEF RfMove
<1>3. /\ a \in RfArgs /\ a.src \in RfPaths /\ a.dst \in RfPaths /\ RfSrc(t) = rfNode[a.src] /\ RfSrc(t) \in RfNodes
      /\ RfFits(t, rfBackend, rfNode, a, rfPc[t], saw, rfCached[t], rfAlone[t])
  BY <1>1, RfRuns
<1>4. rfNode \in [RfPaths -> RfNodes] /\ RfGrantsKept BY DEF RfInv, RfTypes
<1>5. /\ node \in [RfPaths -> RfNodes] /\ node[a.dst] = rfNode[a.src] /\ node[a.src] = RfNone
      /\ \A q \in RfPaths \ {a.src, a.dst} : node[q] = rfNode[q]
  BY <1>2, <1>3, <1>4, RfRecords
<1> HIDE DEF a, saw, node
<1>6. \A q \in RfPaths : node[q].given \subseteq node[q].mode BY <1>3, <1>4, <1>5, RfRecords DEF RfGrantsKept
<1>7. a.op \in {"rename", "replace"} BY <1>1, <1>3 DEF RfFits, RfMakes
<1>8. RfFits(t, rfBackend, node, a, "ok", saw, rfCached[t], rfAlone[t])
  BY <1>1, <1>2, <1>3, <1>5, <1>7 DEF RfFits, RfOver, RfRequests, RfMakes, RfSourceKept, RfUploads, RfTouches, RfMakesDir, RfSawMode
<1> QED BY <1>2, <1>5, <1>6, <1>8, RfChanged DEF a, saw

\* The path, or the target of a replace, is removed.
LEMMA RfUnlinkKeeps == ASSUME RfInv, NEW t \in RfTasks, RfUnlink(t) PROVE RfInv'
<1>1. rfPc[t] \in {"unlink", "unlink dst"} /\ rfPc[t] # "idle" BY DEF RfUnlink
<1> DEFINE a == rfCall[t]
           saw == rfSaw[t]
           p == IF rfPc[t] = "unlink dst" THEN a.dst ELSE a.src
           place == IF rfPc[t] = "unlink dst" THEN "move" ELSE "ok"
           node == [rfNode EXCEPT ![p] = RfNone]
<1>2. /\ RfChange(t, node) \/ UNCHANGED <<rfNode, rfAlone>>
      /\ RfGo(t, place) /\ UNCHANGED <<rfBackend, rfCall, rfSaw, rfCached>>
  BY DEF RfUnlink
<1>3. /\ a \in RfArgs /\ a.src \in RfPaths /\ a.dst \in RfPaths
      /\ RfFits(t, rfBackend, rfNode, a, rfPc[t], saw, rfCached[t], rfAlone[t])
  BY <1>1, RfRuns
<1>4. rfNode \in [RfPaths -> RfNodes] /\ RfGrantsKept BY DEF RfInv, RfTypes
<1>5. /\ p \in {a.src, a.dst}
      /\ rfPc[t] = "unlink" => p = a.src /\ place = "ok"
      /\ rfPc[t] = "unlink dst" => p = a.dst /\ place = "move"
  OBVIOUS
<1>6. node \in [RfPaths -> RfNodes] /\ node[p] = RfNone /\ \A q \in RfPaths \ {p} : node[q] = rfNode[q]
  BY <1>3, <1>4, <1>5, RfRecords
<1> HIDE DEF a, saw, p, place, node
<1>7. \A q \in RfPaths : node[q].given \subseteq node[q].mode BY <1>4, <1>6, RfRecords DEF RfGrantsKept
<1>8. ASSUME NEW after, after \in {rfNode, node}
      PROVE  RfFits(t, rfBackend, after, a, place, saw, rfCached[t], rfAlone[t])
  <2>1. CASE rfPc[t] = "unlink"
    <3>1. a.op \in {"rename", "unlink"} BY <1>3, <2>1 DEF RfFits, RfMakes
    <3>2. a.src # a.dst => after[a.dst] = rfNode[a.dst] BY <1>3, <1>5, <1>6, <1>8, <2>1
    <3> QED BY <1>3, <1>5, <2>1, <3>1, <3>2 DEF RfFits, RfOver, RfRequests, RfMakes, RfSourceKept, RfUploads, RfTouches, RfMakesDir, RfSawMode
  <2>2. CASE rfPc[t] = "unlink dst"
    <3>1. a.op = "replace" BY <1>3, <2>2 DEF RfFits, RfMakes
    <3>2. a.src # a.dst => after[a.src] = rfNode[a.src] BY <1>3, <1>5, <1>6, <1>8, <2>2
    <3> QED BY <1>3, <1>5, <2>2, <3>1, <3>2 DEF RfFits, RfOver, RfRequests, RfMakes, RfSourceKept, RfUploads, RfTouches, RfMakesDir, RfSawMode
  <2> QED BY <1>1, <2>1, <2>2
<1>9. CASE RfChange(t, node) BY <1>2, <1>6, <1>7, <1>8, <1>9, RfChanged DEF a, saw
<1>10. CASE UNCHANGED <<rfNode, rfAlone>> BY <1>2, <1>8, <1>10, RfGoes DEF a, saw
<1> QED BY <1>2, <1>9, <1>10

\* A directory is made, or the server refuses.
LEMMA RfMkdirKeeps == ASSUME RfInv, NEW t \in RfTasks, RfMkdir(t) PROVE RfInv'
<1>1. rfPc[t] = "mkdir" /\ rfPc[t] # "idle" BY DEF RfMkdir
<1> DEFINE a == rfCall[t]
           saw == rfSaw[t]
           node == [rfNode EXCEPT ![a.src] = RfDir]
<1>2. /\ UNCHANGED <<rfBackend, rfCall, rfSaw, rfCached>>
      /\ \/ RfChange(t, node) /\ RfGo(t, "ok")
         \/ \E then \in RfMkdirRefused(t) : RfGo(t, then) /\ UNCHANGED <<rfNode, rfAlone>>
  BY DEF RfMkdir
<1>3. /\ a \in RfArgs /\ a.src \in RfPaths /\ RfSrc(t) = rfNode[a.src] /\ RfSrc(t) \in RfNodes
      /\ RfFits(t, rfBackend, rfNode, a, rfPc[t], saw, rfCached[t], rfAlone[t])
  BY <1>1, RfRuns
<1>4. rfNode \in [RfPaths -> RfNodes] /\ RfGrantsKept /\ rfBackend \in {"ssh", "ftp"} BY DEF RfInv, RfTypes
<1>5. a.op = "mkdir" BY <1>1, <1>3 DEF RfFits, RfMakes
<1>6. CASE RfChange(t, node) /\ RfGo(t, "ok")
  <2>1. node \in [RfPaths -> RfNodes] /\ node[a.src] = RfDir /\ \A q \in RfPaths \ {a.src} : node[q] = rfNode[q]
    BY <1>3, <1>4, RfRecords
  <2>2. RfChange(t, node) /\ RfGo(t, "ok") BY <1>6
  <2> HIDE DEF a, saw, node
  <2>3. \A q \in RfPaths : node[q].given \subseteq node[q].mode BY <1>4, <2>1, RfRecords DEF RfGrantsKept
  <2>4. RfFits(t, rfBackend, node, a, "ok", saw, rfCached[t], rfAlone[t])
    BY <1>3, <1>5, <2>1, RfRecords DEF RfFits, RfOver, RfRequests, RfMakes, RfSourceKept, RfUploads, RfTouches, RfMakesDir, RfSawMode
  <2> QED BY <1>2, <2>1, <2>2, <2>3, <2>4, RfChanged DEF a, saw
<1>7. ASSUME NEW then \in RfMkdirRefused(t), RfGo(t, then), UNCHANGED <<rfNode, rfAlone>> PROVE RfInv'
  <2>1. /\ then \in {"ok", "recheck", "error"}
        /\ rfBackend = "ssh" /\ then = "ok" => rfNode[a.src].kind # "none"
    BY <1>3, <1>4 DEF RfMkdirRefused
  <2>2. rfNode[a.src].kind \in {"none", "dir", "file"} BY <1>3 DEF RfNodes
  <2> HIDE DEF a, saw, node
  <2>3. RfFits(t, rfBackend, rfNode, a, then, saw, rfCached[t], rfAlone[t])
    BY <1>1, <1>3, <1>5, <2>1, <2>2 DEF RfFits, RfOver, RfRequests, RfMakes, RfSourceKept, RfUploads, RfTouches, RfMakesDir, RfSawMode
  <2> QED BY <1>2, <1>7, <2>3, RfGoes DEF a, saw
<1> QED BY <1>2, <1>6, <1>7

\* An update of the grants reads the mode it starts from.
LEMMA RfAttrsKeep == ASSUME RfInv, NEW t \in RfTasks, RfAttrs(t) PROVE RfInv'
<1>1. rfPc[t] = "attrs" /\ rfPc[t] # "idle" BY DEF RfAttrs
<1> DEFINE a == rfCall[t]
           mode == RfMode(t)
           saw == [RfNone EXCEPT !.mode = mode]
<1>2. /\ rfSaw' = [rfSaw EXCEPT ![t] = saw] /\ RfGo(t, "chmod")
      /\ UNCHANGED <<rfBackend, rfNode, rfCall, rfCached, rfAlone>>
  BY DEF RfAttrs
<1>3. /\ a \in RfArgs /\ a.src \in RfPaths /\ RfSrc(t) = rfNode[a.src] /\ RfSrc(t) \in RfNodes
      /\ RfFits(t, rfBackend, rfNode, a, rfPc[t], rfSaw[t], rfCached[t], rfAlone[t])
  BY <1>1, RfRuns
<1>4. rfCached[t] \in (SUBSET RfPrincipals) \cup {RfNotCached} BY DEF RfInv, RfTypes
<1>5. mode \in SUBSET RfPrincipals /\ (~RfFromListing(t) => mode = rfNode[a.src].mode)
  BY <1>3, <1>4 DEF RfMode, RfFromListing, RfNodes
<1> HIDE DEF mode
<1>6. saw \in RfNodes /\ saw.mode = mode BY <1>5 DEF RfNone, RfNodes
<1>7. a.op = "policy" BY <1>1, <1>3 DEF RfFits, RfMakes
<1> HIDE DEF a, saw
<1>8. RfFits(t, rfBackend, rfNode, a, "chmod", saw, rfCached[t], rfAlone[t])
  BY <1>3, <1>5, <1>6, <1>7
  DEF RfFits, RfOver, RfRequests, RfMakes, RfSourceKept, RfUploads, RfTouches, RfMakesDir, RfSawMode, RfFromListing
<1> QED BY <1>2, <1>6, <1>8, RfQuiet DEF a

\* ... and sets all of it.
LEMMA RfChmodKeeps == ASSUME RfInv, NEW t \in RfTasks, RfChmod(t) PROVE RfInv'
<1>1. rfPc[t] = "chmod" /\ rfPc[t] # "idle" BY DEF RfChmod
<1> DEFINE a == rfCall[t]
           saw == rfSaw[t]
           mode == rfSaw[t].mode \cup {a.for}
           node == [rfNode EXCEPT ![a.src].mode = mode,
                                  ![a.src].given = IF rfAlone[t] /\ ~RfFromListing(t) THEN @ \cup {a.for} ELSE mode]
<1>2. RfChange(t, node) /\ RfGo(t, "ok") /\ UNCHANGED <<rfBackend, rfCall, rfSaw, rfCached>> BY DEF RfChmod
<1>3. /\ a \in RfArgs /\ a.src \in RfPaths /\ a.for \in RfPrincipals /\ saw \in RfNodes
      /\ RfFits(t, rfBackend, rfNode, a, rfPc[t], saw, rfCached[t], rfAlone[t])
  BY <1>1, RfRuns
<1> DEFINE old == rfNode[a.src]
           given == IF rfAlone[t] /\ ~RfFromListing(t) THEN old.given \cup {a.for} ELSE mode
           new == [old EXCEPT !.mode = mode, !.given = given]
<1>4. rfNode \in [RfPaths -> RfNodes] /\ RfGrantsKept BY DEF RfInv, RfTypes
<1>5. old \in RfNodes /\ old.given \subseteq old.mode BY <1>3, <1>4 DEF RfGrantsKept
<1>6. mode \in SUBSET RfPrincipals /\ given \in SUBSET RfPrincipals BY <1>3, <1>5 DEF RfNodes
<1>7. rfAlone[t] /\ ~RfFromListing(t) => saw.mode = old.mode BY <1>1, <1>3 DEF RfFits, RfSawMode, RfFromListing
<1>8. given \subseteq mode BY <1>5, <1>7
<1>9. node = [rfNode EXCEPT ![a.src] = new] BY <1>3, <1>4 DEF RfNodes
<1>10. a.op = "policy" BY <1>1, <1>3 DEF RfFits, RfMakes
<1> HIDE DEF a, saw, mode, node, old, given
<1>11. new \in RfNodes /\ new.mode = mode /\ new.given = given BY <1>5, <1>6 DEF RfNodes
<1> HIDE DEF new
<1>12. node \in [RfPaths -> RfNodes] /\ node[a.src] = new /\ \A q \in RfPaths \ {a.src} : node[q] = rfNode[q]
  BY <1>3, <1>4, <1>9, <1>11
<1>13. \A q \in RfPaths : node[q].given \subseteq node[q].mode BY <1>4, <1>8, <1>11, <1>12 DEF RfGrantsKept
<1>14. RfFits(t, rfBackend, node, a, "ok", saw, rfCached[t], rfAlone[t])
  BY <1>3, <1>10 DEF RfFits, RfOver, RfRequests, RfMakes, RfSourceKept, RfUploads, RfTouches, RfMakesDir, RfSawMode
<1> QED BY <1>2, <1>12, <1>13, <1>14, RfChanged DEF a, saw

\* Whatever is called and whichever request comes next.
LEMMA RfStepKeeps == RfInv /\ [RfNext]_rfVars => RfInv'
<1> SUFFICES ASSUME RfInv, [RfNext]_rfVars PROVE RfInv'
  OBVIOUS
<1>1. CASE UNCHANGED rfVars
  BY <1>1 DEF rfVars, RfInv, RfTypes, RfGrantsKept, RfCallFits
<1>2. CASE RfDone BY <1>1, <1>2 DEF RfDone
<1>3. ASSUME NEW t \in RfTasks,
             \/ RfCall(t) \/ RfExists(t) \/ RfStamp(t) \/ RfPut(t) \/ RfTruncate(t)
             \/ RfAppend(t) \/ RfProbe(t) \/ RfMove(t) \/ RfRead(t) \/ RfUnlink(t)
             \/ RfMkdir(t) \/ RfRecheck(t) \/ RfAttrs(t) \/ RfChmod(t) \/ RfFail(t)
      PROVE  RfInv'
  BY <1>3, RfCallKeeps, RfLooksKeep, RfRenameLooksKeep, RfPutKeeps, RfTruncateKeeps, RfAppendKeeps, RfMoveKeeps,
     RfUnlinkKeeps, RfMkdirKeeps, RfAttrsKeep, RfChmodKeeps
<1> QED BY <1>1, <1>2, <1>3 DEF RfNext

\* What is known of every call is what RfKeepsFiles says.
LEMMA RfInvGivesKept == RfInv => RfKeepsFiles
<1> SUFFICES ASSUME RfInv PROVE RfKeepsFiles
  OBVIOUS
<1>1. RfNothingLost
  <2> SUFFICES ASSUME NEW t \in RfTasks, rfCall[t].op \in {"rename", "replace"}, rfCall[t].src # rfCall[t].dst,
                      rfAlone[t], rfSaw[t].kind = "file"
               PROVE  \E p \in {rfCall[t].src, rfCall[t].dst} : RfSameData(rfNode[p], rfSaw[t])
    BY DEF RfNothingLost
  <2>1. RfSourceKept(rfNode, rfCall[t], rfPc[t], rfSaw[t]) BY DEF RfInv, RfCallFits, RfFits
  <2> QED BY <2>1 DEF RfSourceKept
<1>2. RfOkMeansDone
  <2> SUFFICES ASSUME NEW t \in RfTasks, rfPc[t] = "ok", rfAlone[t]
               PROVE  LET a == rfCall[t]
                          node == rfNode[a.src]
                      IN  /\ a.op \in {"write", "upload"} => node.by = t /\ node.whole
                          /\ a.op = "touch" /\ rfSaw[t].kind # "none" => RfSameData(node, rfSaw[t])
                          /\ a.op = "mkdir" /\ rfBackend = "ssh" /\ rfSaw[t].kind # "file" => node.kind = "dir"
    BY DEF RfOkMeansDone
  <2>1. /\ RfUploads(t, rfNode, rfCall[t], rfPc[t]) /\ RfTouches(rfNode, rfCall[t], rfPc[t], rfSaw[t])
        /\ RfMakesDir(rfBackend, rfNode, rfCall[t], rfPc[t], rfSaw[t])
    BY DEF RfInv, RfCallFits, RfFits
  <2> QED BY <2>1 DEF RfUploads, RfTouches, RfMakesDir
<1> QED BY <1>1, <1>2 DEF RfInv, RfKeepsFiles

\* On SSH and FTP too: wherever a rename or a replace stops the file is still
\* there under one of its names, a call that returns has done what it is for,
\* and a grant is only lost to an update that overlaps or that starts from the
\* mode of an old listing.
THEOREM KeepsFiles == RfSpec => []RfKeepsFiles
<1> QED BY RfInitHolds, RfStepKeeps, RfInvGivesKept, PTL DEF RfSpec

-----------------------------------------------------------------------------
(* Local files.                                                            *)

CpPlaces == CpOver \cup {"idle", "inspect", "rename", "stage", "copy", "commit", "remove"}
CpArgRecords ==
    [src : CpPaths, dst : CpPaths, kind : [atomic : BOOLEAN, force : BOOLEAN, remove : BOOLEAN, rename : BOOLEAN]]
CpCopying(c) == cpPc[c] \in {"copy", "commit"}

CpTypes ==
    /\ cpDir \in [CpEntries -> CpInodes \cup {0}] /\ cpData \in [CpInodes -> Seq(Nat)]
    /\ cpPc \in [CpCalls -> CpPlaces] /\ cpArgs \in [CpCalls -> CpArgRecords \cup {CpNoArgs}]
    /\ cpSource \in [CpCalls -> CpInodes \cup {0}] /\ cpTarget \in [CpCalls -> CpInodes \cup {0}]
    /\ cpPos \in [CpCalls -> Nat]
    /\ \A c \in CpCalls : cpPc[c] # "idle" => cpArgs[c] \in CpArgRecords

\* A call has handles from the time it stages to its end, and a rename has none.
CpHandles(c) ==
    /\ cpPc[c] \in {"idle", "inspect", "rename", "stage"} => cpSource[c] = 0 /\ cpTarget[c] = 0 /\ cpPos[c] = 0
    /\ CpCopying(c) => cpSource[c] # 0 /\ cpTarget[c] # 0
    /\ CpCopying(c) \/ cpPc[c] = "stage" => ~cpArgs[c].kind.rename
    /\ cpPc[c] = "rename" => cpArgs[c].kind.rename
    /\ cpPc[c] = "commit" => cpArgs[c].kind.atomic

\* Under which calls the files stay whole, and under which none is lost.
CpAtomically == \A c \in CpCalled : cpArgs[c].kind.atomic \/ cpArgs[c].kind.rename
CpGently ==
    /\ CpNoCrossing
    /\ \A c \in CpCalled : cpArgs[c].kind.atomic /\ ~cpArgs[c].kind.force /\ ~cpArgs[c].kind.rename

\* The files are whole, and what a call writes is a beginning of its source that
\* nobody else can see.
CpFilesWhole == \A e \in CpEntries : cpDir[e] # 0 => CpWhole(cpData[cpDir[e]])
CpApart(c) ==
    /\ \A e \in CpEntries : cpDir[e] # cpTarget[c]
    /\ \A d \in CpCalls : CpCopying(d) => cpTarget[c] # cpSource[d] /\ (d # c => cpTarget[c] # cpTarget[d])
CpWritesOn(c) ==
    /\ CpWhole(cpData[cpSource[c]]) /\ cpPos[c] <= CpFileSize
    /\ Len(cpData[cpTarget[c]]) = cpPos[c]
    /\ \A i \in 1..cpPos[c] : cpData[cpTarget[c]][i] = cpData[cpSource[c]][i]
    /\ cpPc[c] = "commit" => cpPos[c] = CpFileSize
CpUnseen == \A c \in CpCalls : CpCopying(c) => CpApart(c) /\ CpWritesOn(c)

\* What was there is there, and what a call is going to remove is at its
\* destination.
CpAll(v) == [i \in 1..CpFileSize |-> v]
CpKept == \A v \in cpInitial : \E e \in CpEntries : cpDir[e] # 0 /\ cpData[cpDir[e]] = CpAll(v)
CpMayRemove(c) ==
    CpRemoves(c) =>
        /\ CpCopying(c) => CpFile(cpArgs[c].src) \in {0, cpSource[c]}
        /\ cpPc[c] = "remove" =>
             /\ CpFile(cpArgs[c].dst) # 0
             /\ CpFile(cpArgs[c].src) # 0 => CpSameContent(c)

CpInv ==
    /\ CpTypes /\ \A c \in CpCalls : CpHandles(c)
    /\ CpAtomically => CpFilesWhole /\ CpUnseen
    /\ CpGently => CpKept /\ \A c \in CpCalls : cpPc[c] # "idle" => CpMayRemove(c)

\* Calls are only added, with any arguments.
LEMMA CpCalmer ==
    ASSUME \A c \in CpCalled : c \in CpCalled' /\ cpArgs'[c] = cpArgs[c]
    PROVE  (CpAtomically' => CpAtomically) /\ (CpGently' => CpGently)
BY DEF CpAtomically, CpGently, CpNoCrossing

\* Who keeps files keeps them whole.
LEMMA CpGentle == CpGently => CpAtomically
BY DEF CpGently, CpAtomically

\* A function has at most as many values as arguments.
LEMMA FewerValues ==
    ASSUME NEW S, IsFiniteSet(S), NEW f, f = [x \in S |-> f[x]]
    PROVE  LET T == {f[x] : x \in S} IN IsFiniteSet(T) /\ Cardinality(T) <= Cardinality(S)
<1> DEFINE T == {f[x] : x \in S}
<1>1. f \in [S -> T] OBVIOUS
<1>2. \A t \in T : \E x \in S : f[x] = t OBVIOUS
<1> HIDE DEF T
<1>3. f \in Surjection(S, T) BY <1>1, <1>2 DEF Surjection
<1>4. IsFiniteSet(T) /\ Cardinality(T) <= Cardinality(S) BY <1>3, FS_Surjection
<1> QED BY <1>4 DEF T

\* There is an inode for every call that has not staged yet.
LEMMA CpFresh ==
    ASSUME CpTypes, NEW c \in CpCalls, cpSource[c] = 0, cpTarget[c] = 0
    PROVE  CpNewInode \in CpInodes /\ CpNewInode # 0 /\ CpNewInode \notin CpInUse
<1> DEFINE D == {cpDir[e] : e \in CpEntries}
           Others == CpCalls \ {c}
           source == [d \in Others |-> cpSource[d]]
           target == [d \in Others |-> cpTarget[d]]
           S == {source[d] : d \in Others}
           T == {target[d] : d \in Others}
           nE == Cardinality(CpEntries)
           nC == Cardinality(CpCalls)
<1>1. IsFiniteSet(CpEntries) /\ IsFiniteSet(CpCalls) BY CpAssumption
<1>2. nE \in Nat /\ nC \in Nat BY <1>1, FS_CardinalityType
<1>3. IsFiniteSet(Others) /\ Cardinality(Others) = nC - 1 BY <1>1, FS_RemoveElement
<1>4. IsFiniteSet(D) /\ Cardinality(D) <= nE
  <2>1. cpDir = [e \in CpEntries |-> cpDir[e]] BY DEF CpTypes
  <2> QED BY <1>1, <2>1, FewerValues
<1>5. IsFiniteSet(S) /\ Cardinality(S) <= nC - 1
  <2>1. source = [d \in Others |-> source[d]] OBVIOUS
  <2> HIDE DEF source, Others
  <2>2. IsFiniteSet(S) /\ Cardinality(S) <= Cardinality(Others) BY <1>3, <2>1, FewerValues
  <2> HIDE DEF S
  <2> QED BY <1>3, <2>2
<1>6. IsFiniteSet(T) /\ Cardinality(T) <= nC - 1
  <2>1. target = [d \in Others |-> target[d]] OBVIOUS
  <2> HIDE DEF target, Others
  <2>2. IsFiniteSet(T) /\ Cardinality(T) <= Cardinality(Others) BY <1>3, <2>1, FewerValues
  <2> HIDE DEF T
  <2> QED BY <1>3, <2>2
<1>7. CpInUse \subseteq {0} \cup (D \cup (S \cup T))
  <2>1. \A d \in CpCalls : cpSource[d] \in {0} \cup S /\ cpTarget[d] \in {0} \cup T
    <3> SUFFICES ASSUME NEW d \in CpCalls PROVE cpSource[d] \in {0} \cup S /\ cpTarget[d] \in {0} \cup T
      OBVIOUS
    <3>1. CASE d = c BY <3>1
    <3>2. CASE d # c
      <4>1. d \in Others /\ source[d] = cpSource[d] /\ target[d] = cpTarget[d] BY <3>2
      <4> HIDE DEF source, target, Others
      <4> QED BY <4>1
    <3> QED BY <3>1, <3>2
  <2> HIDE DEF S, T
  <2> QED BY <2>1 DEF CpInUse
<1>8. CpInodes = 1..(nE + 2 * nC) BY DEF CpInodes
<1> HIDE DEF S, T, D, nE, nC
<1>9. IsFiniteSet(S \cup T) /\ Cardinality(S \cup T) <= 2 * nC - 2
  <2>1. /\ IsFiniteSet(S \cup T)
        /\ Cardinality(S \cup T) = Cardinality(S) + Cardinality(T) - Cardinality(S \cap T)
    BY <1>5, <1>6, FS_Union
  <2>2. S \cap T \in SUBSET S OBVIOUS
  <2>3. Cardinality(S \cap T) \in Nat BY <1>5, <2>2, FS_Subset, FS_CardinalityType
  <2>4. Cardinality(S) \in Nat /\ Cardinality(T) \in Nat BY <1>5, <1>6, FS_CardinalityType
  <2> QED BY <1>2, <1>5, <1>6, <2>1, <2>3, <2>4
<1>10. IsFiniteSet(D \cup (S \cup T)) /\ Cardinality(D \cup (S \cup T)) <= nE + 2 * nC - 2
  <2> DEFINE U == S \cup T
  <2>0. IsFiniteSet(U) /\ Cardinality(U) <= 2 * nC - 2 BY <1>9
  <2> HIDE DEF U
  <2>1. /\ IsFiniteSet(D \cup U)
        /\ Cardinality(D \cup U) = Cardinality(D) + Cardinality(U) - Cardinality(D \cap U)
    BY <1>4, <2>0, FS_Union
  <2>2. D \cap U \in SUBSET D OBVIOUS
  <2>3. Cardinality(D \cap U) \in Nat BY <1>4, <2>2, FS_Subset, FS_CardinalityType
  <2>4. Cardinality(D) \in Nat /\ Cardinality(U) \in Nat BY <1>4, <2>0, FS_CardinalityType
  <2>5. IsFiniteSet(D \cup U) /\ Cardinality(D \cup U) <= nE + 2 * nC - 2 BY <1>2, <1>4, <2>0, <2>1, <2>3, <2>4
  <2> QED BY <2>5 DEF U
<1>11. CpInodes \ CpInUse # {}
  <2> SUFFICES ASSUME CpInodes \subseteq CpInUse PROVE FALSE
    OBVIOUS
  <2> DEFINE U == D \cup (S \cup T)
  <2>1. CpInodes \subseteq U
    <3>1. 0 \notin CpInodes BY <1>2, <1>8
    <3> QED BY <1>7, <3>1
  <2>2. IsFiniteSet(U) /\ Cardinality(U) <= nE + 2 * nC - 2 BY <1>10
  <2> HIDE DEF U
  <2>3. Cardinality(CpInodes) <= Cardinality(U) BY <2>1, <2>2, FS_Subset
  <2> DEFINE m == nE + 2 * nC
  <2>4. m \in Nat /\ CpInodes = 1..m BY <1>2, <1>8
  <2> HIDE DEF m
  <2>5. Cardinality(CpInodes) = m
    <3>1. 1 \in Int /\ m \in Int BY <2>4
    <3>2. Cardinality(1..m) = IF 1 > m THEN 0 ELSE m - 1 + 1 BY <3>1, FS_Interval
    <3> QED BY <2>4, <3>2
  <2>6. nC >= 1
    <3>1. Cardinality(Others) \in Nat BY <1>3, FS_CardinalityType
    <3> QED BY <1>2, <1>3, <3>1
  <2>7. Cardinality(U) \in Nat BY <2>2, FS_CardinalityType
  <2> QED BY <1>2, <2>2, <2>3, <2>4, <2>5, <2>6, <2>7 DEF m
<1>12. CpNewInode \in CpInodes \ CpInUse BY <1>11 DEF CpNewInode
<1>13. 0 \notin CpInodes BY <1>2, <1>8
<1> QED BY <1>12, <1>13

\* A call goes on, and changes no file and no handle.
LEMMA CpMoves ==
    ASSUME CpInv, NEW c \in CpCalls, NEW place \in CpPlaces \ {"idle", "copy"}, cpPc[c] # "idle",
           cpPc' = [cpPc EXCEPT ![c] = place],
           UNCHANGED <<cpDir, cpData, cpArgs, cpSource, cpTarget, cpPos, cpInitial>>,
           place \in {"inspect", "rename", "stage"} => cpPc[c] = "inspect",
           place = "stage" => ~cpArgs[c].kind.rename, place = "rename" => cpArgs[c].kind.rename,
           place = "commit" => cpPc[c] = "copy" /\ cpArgs[c].kind.atomic /\ cpPos[c] >= Len(cpData[cpSource[c]]),
           place = "remove" /\ CpGently /\ CpRemoves(c) =>
             CpFile(cpArgs[c].dst) # 0 /\ (CpFile(cpArgs[c].src) # 0 => CpSameContent(c))
    PROVE  CpInv'
<1>1. CpTypes /\ \A d \in CpCalls : CpHandles(d) BY DEF CpInv
<1>2. cpPc'[c] = place /\ \A d \in CpCalls : d # c => cpPc'[d] = cpPc[d] BY <1>1 DEF CpTypes
<1>3. CpTypes' BY <1>1 DEF CpTypes
<1>4. \A d \in CpCalls : CpHandles(d)' BY <1>1, <1>2 DEF CpHandles, CpCopying, CpTypes
<1>5. (CpAtomically' => CpAtomically) /\ (CpGently' => CpGently)
  <2>1. \A d \in CpCalled : d \in CpCalled' /\ cpArgs'[d] = cpArgs[d] BY <1>2 DEF CpCalled
  <2> QED BY <2>1, CpCalmer
<1>6. \A d \in CpCalls : CpCopying(d)' => CpCopying(d) BY <1>2 DEF CpCopying
<1>7. ASSUME CpAtomically' PROVE CpFilesWhole' /\ CpUnseen'
  <2>1. CpFilesWhole /\ CpUnseen BY <1>5, <1>7 DEF CpInv
  <2>2. CpFilesWhole' BY <2>1 DEF CpFilesWhole
  <2>3. ASSUME NEW d \in CpCalls, CpCopying(d)' PROVE CpApart(d)' /\ CpWritesOn(d)'
    <3>1. CpCopying(d) /\ CpApart(d) /\ CpWritesOn(d) BY <1>6, <2>1, <2>3 DEF CpUnseen
    <3>2. CpApart(d)' BY <1>6, <3>1 DEF CpApart
    <3>3. cpPc'[d] = "commit" => cpPos[d] = CpFileSize
      <4>1. CASE d # c BY <1>2, <3>1, <4>1 DEF CpWritesOn
      <4>2. CASE d = c /\ place = "commit"
        <5>1. cpPos[c] >= CpFileSize BY <3>1, <4>2 DEF CpWritesOn, CpWhole
        <5> QED BY <1>1, <3>1, <4>2, <5>1, CpAssumption DEF CpWritesOn, CpTypes
      <4>3. CASE d = c /\ place # "commit" BY <1>2, <4>3
      <4> QED BY <4>1, <4>2, <4>3
    <3> QED BY <3>1, <3>2, <3>3 DEF CpWritesOn
  <2> QED BY <2>2, <2>3 DEF CpUnseen
<1>8. ASSUME CpGently' PROVE CpKept' /\ \A d \in CpCalls : cpPc'[d] # "idle" => CpMayRemove(d)'
  <2>1. CpGently /\ CpKept /\ \A d \in CpCalls : cpPc[d] # "idle" => CpMayRemove(d) BY <1>5, <1>8 DEF CpInv
  <2>2. CpKept' BY <2>1 DEF CpKept
  <2>3. ASSUME NEW d \in CpCalls, cpPc'[d] # "idle" PROVE CpMayRemove(d)'
    <3>1. CpMayRemove(d) BY <1>2, <2>1, <2>3
    <3>2. CASE d # c BY <1>2, <3>1, <3>2 DEF CpMayRemove, CpRemoves, CpSamePath, CpCopying, CpFile, CpSameContent
    <3>3. CASE d = c
      <4>1. place = "remove" /\ CpRemoves(c) => CpFile(cpArgs[c].dst) # 0 /\ (CpFile(cpArgs[c].src) # 0 => CpSameContent(c))
        BY <2>1
      <4> QED BY <1>2, <1>6, <3>1, <3>3, <4>1 DEF CpMayRemove, CpRemoves, CpSamePath, CpFile, CpSameContent
    <3> QED BY <3>2, <3>3
  <2> QED BY <2>2, <2>3
<1> QED BY <1>3, <1>4, <1>7, <1>8 DEF CpInv

\* The steps that only read.
LEMMA CpInspectKeeps == ASSUME CpInv, NEW c \in CpCalls, CpInspect(c), UNCHANGED cpInitial PROVE CpInv'
<1> DEFINE place ==
      LET src == CpFile(cpArgs[c].src)
          dst == CpFile(cpArgs[c].dst)
          copying == IF cpArgs[c].kind.rename THEN "rename" ELSE "stage"
      IN  CASE CpSamePath(c) -> "remove"
            [] ~CpSamePath(c) /\ dst = 0 -> copying
            [] ~CpSamePath(c) /\ dst # 0 /\ src = 0 -> "error"
            [] OTHER -> IF CpSameContent(c) THEN "remove" ELSE IF cpArgs[c].kind.force THEN copying ELSE "error"
<1>1. /\ cpPc[c] = "inspect" /\ cpPc' = [cpPc EXCEPT ![c] = place]
      /\ UNCHANGED <<cpDir, cpData, cpArgs, cpSource, cpTarget, cpPos>>
  BY DEF CpInspect
<1>2. place \in {"remove", "rename", "stage", "error"} OBVIOUS
<1>3. (place = "stage" => ~cpArgs[c].kind.rename) /\ (place = "rename" => cpArgs[c].kind.rename) OBVIOUS
<1>4. place = "remove" /\ CpRemoves(c) =>
        CpFile(cpArgs[c].dst) # 0 /\ (CpFile(cpArgs[c].src) # 0 => CpSameContent(c))
  BY DEF CpRemoves
<1> HIDE DEF place
<1>5. place \in CpPlaces \ {"idle", "copy"} BY <1>2 DEF CpPlaces, CpOver
<1> QED BY <1>1, <1>2, <1>3, <1>4, <1>5, CpMoves

\* A call fails or is killed.
LEMMA CpEndsKeep ==
    ASSUME CpInv, NEW c \in CpCalls, CpStageFails(c) \/ CpCopyFails(c) \/ CpKill(c), UNCHANGED cpInitial
    PROVE  CpInv'
<1>1. PICK place \in {"error", "killed"} : cpPc' = [cpPc EXCEPT ![c] = place]
  BY DEF CpStageFails, CpCopyFails, CpKill
<1>2. cpPc[c] # "idle" /\ UNCHANGED <<cpDir, cpData, cpArgs, cpSource, cpTarget, cpPos>>
  BY DEF CpStageFails, CpCopyFails, CpKill
<1>3. place \in CpPlaces \ {"idle", "copy"} BY DEF CpPlaces, CpOver
<1> QED BY <1>1, <1>2, <1>3, CpMoves

\* The end of the source.
LEMMA CpCopyEndsKeeps == ASSUME CpInv, NEW c \in CpCalls, CpCopyEnds(c), UNCHANGED cpInitial PROVE CpInv'
<1> DEFINE place == IF CpStages(c) THEN "commit" ELSE "remove"
<1>1. /\ cpPc[c] = "copy" /\ cpPos[c] >= Len(cpData[cpSource[c]]) /\ cpPc' = [cpPc EXCEPT ![c] = place]
      /\ UNCHANGED <<cpDir, cpData, cpArgs, cpSource, cpTarget, cpPos>>
  BY DEF CpCopyEnds
<1>2. place \in {"commit", "remove"} /\ (place = "commit" => cpArgs[c].kind.atomic) BY DEF CpStages
<1>3. ~(place = "remove" /\ CpGently)
  <2> SUFFICES ASSUME CpGently PROVE cpArgs[c].kind.atomic
    BY DEF CpStages
  <2>1. c \in CpCalled BY <1>1 DEF CpCalled
  <2> QED BY <2>1 DEF CpGently
<1> HIDE DEF place
<1>4. place \in CpPlaces \ {"idle", "copy"} BY <1>2 DEF CpPlaces
<1> QED BY <1>1, <1>2, <1>3, <1>4, CpMoves

\* A call begins.
LEMMA CpCallKeeps == ASSUME CpInv, NEW c \in CpCalls, CpCall(c), UNCHANGED cpInitial PROVE CpInv'
<1>1. CpTypes /\ \A d \in CpCalls : CpHandles(d) BY DEF CpInv
<1>2. PICK args \in CpArgRecords : cpArgs' = [cpArgs EXCEPT ![c] = args]
  <2>1. PICK s \in CpPaths, d \in CpPaths, k \in CpKinds : cpArgs' = [cpArgs EXCEPT ![c] = [src |-> s, dst |-> d, kind |-> k]]
    BY DEF CpCall
  <2>2. k \in [atomic : BOOLEAN, force : BOOLEAN, remove : BOOLEAN, rename : BOOLEAN] BY CpAssumption
  <2>3. [src |-> s, dst |-> d, kind |-> k] \in CpArgRecords BY <2>2 DEF CpArgRecords
  <2> QED BY <2>1, <2>3
<1>3. /\ cpPc[c] = "idle" /\ cpPc' = [cpPc EXCEPT ![c] = "inspect"]
      /\ UNCHANGED <<cpDir, cpData, cpSource, cpTarget, cpPos>>
  BY DEF CpCall
<1>4. /\ cpPc'[c] = "inspect" /\ cpArgs'[c] = args
      /\ \A d \in CpCalls : d # c => cpPc'[d] = cpPc[d] /\ cpArgs'[d] = cpArgs[d]
  BY <1>1, <1>2, <1>3 DEF CpTypes
<1>5. CpTypes'
  <2>1. "inspect" \in CpPlaces BY DEF CpPlaces
  <2>2. cpPc' \in [CpCalls -> CpPlaces] /\ cpArgs' \in [CpCalls -> CpArgRecords \cup {CpNoArgs}]
    BY <1>1, <1>2, <1>3, <2>1 DEF CpTypes
  <2>3. \A d \in CpCalls : cpPc'[d] # "idle" => cpArgs'[d] \in CpArgRecords BY <1>1, <1>4 DEF CpTypes
  <2> QED BY <1>1, <1>3, <2>2, <2>3 DEF CpTypes
<1>6. \A d \in CpCalls : CpCopying(d)' => CpCopying(d) /\ d # c BY <1>4 DEF CpCopying
<1>7. \A d \in CpCalls : CpHandles(d)'
  <2> SUFFICES ASSUME NEW d \in CpCalls PROVE CpHandles(d)'
    OBVIOUS
  <2>1. CASE d = c BY <1>1, <1>3, <1>4, <2>1 DEF CpHandles, CpCopying
  <2>2. CASE d # c BY <1>1, <1>3, <1>4, <2>2 DEF CpHandles, CpCopying
  <2> QED BY <2>1, <2>2
<1>8. (CpAtomically' => CpAtomically) /\ (CpGently' => CpGently)
  <2>1. \A d \in CpCalled : d \in CpCalled' /\ cpArgs'[d] = cpArgs[d] BY <1>3, <1>4 DEF CpCalled
  <2> QED BY <2>1, CpCalmer
<1>9. ASSUME CpAtomically' PROVE CpFilesWhole' /\ CpUnseen'
  <2>1. CpFilesWhole /\ CpUnseen BY <1>8, <1>9 DEF CpInv
  <2>2. CpFilesWhole' BY <1>3, <2>1 DEF CpFilesWhole
  <2>3. ASSUME NEW d \in CpCalls, CpCopying(d)' PROVE CpApart(d)' /\ CpWritesOn(d)'
    <3>1. d # c /\ CpApart(d) /\ CpWritesOn(d) BY <1>6, <2>1, <2>3 DEF CpUnseen
    <3>2. CpApart(d)' BY <1>3, <1>6, <3>1 DEF CpApart
    <3>3. CpWritesOn(d)' BY <1>3, <1>4, <3>1 DEF CpWritesOn
    <3> QED BY <3>2, <3>3
  <2> QED BY <2>2, <2>3 DEF CpUnseen
<1>10. ASSUME CpGently' PROVE CpKept' /\ \A d \in CpCalls : cpPc'[d] # "idle" => CpMayRemove(d)'
  <2>1. CpKept /\ \A d \in CpCalls : cpPc[d] # "idle" => CpMayRemove(d) BY <1>8, <1>10 DEF CpInv
  <2>2. CpKept' BY <1>3, <2>1 DEF CpKept
  <2>3. ASSUME NEW d \in CpCalls, cpPc'[d] # "idle" PROVE CpMayRemove(d)'
    <3>1. CASE d = c BY <1>4, <1>6, <3>1 DEF CpMayRemove
    <3>2. CASE d # c
      <4>1. cpArgs'[d] = cpArgs[d] /\ cpPc'[d] = cpPc[d] /\ CpMayRemove(d) BY <1>4, <2>1, <2>3, <3>2
      <4> QED BY <1>3, <4>1 DEF CpMayRemove, CpRemoves, CpSamePath, CpCopying, CpFile, CpSameContent
    <3> QED BY <3>1, <3>2
  <2> QED BY <2>2, <2>3
<1> QED BY <1>5, <1>7, <1>9, <1>10 DEF CpInv

\* A call has changed which inodes the entries name: each names one that was
\* named before, the file the call has staged, or none.
LEMMA CpEnters ==
    ASSUME CpInv, NEW c \in CpCalls, NEW place \in {"ok", "remove"}, cpPc[c] # "idle",
           cpPc' = [cpPc EXCEPT ![c] = place],
           UNCHANGED <<cpData, cpArgs, cpSource, cpTarget, cpPos, cpInitial>>,
           cpDir' \in [CpEntries -> CpInodes \cup {0}],
           \A e \in CpEntries : \/ cpDir'[e] = 0 \/ \E f \in CpEntries : cpDir'[e] = cpDir[f]
                                \/ cpPc[c] = "commit" /\ cpDir'[e] = cpTarget[c],
           CpGently /\ CpGently' => CpKept' /\ \A d \in CpCalls : cpPc'[d] # "idle" => CpMayRemove(d)'
    PROVE  CpInv'
<1>1. CpTypes /\ \A d \in CpCalls : CpHandles(d) BY DEF CpInv
<1>2. cpPc'[c] = place /\ \A d \in CpCalls : d # c => cpPc'[d] = cpPc[d] BY <1>1 DEF CpTypes
<1>3. CpTypes'
  <2>1. place \in CpPlaces BY DEF CpPlaces, CpOver
  <2> QED BY <1>1, <2>1 DEF CpTypes
<1>4. \A d \in CpCalls : CpHandles(d)' BY <1>1, <1>2 DEF CpHandles, CpCopying
<1>5. (CpAtomically' => CpAtomically) /\ (CpGently' => CpGently)
  <2>1. \A d \in CpCalled : d \in CpCalled' /\ cpArgs'[d] = cpArgs[d] BY <1>2 DEF CpCalled
  <2> QED BY <2>1, CpCalmer
<1>6. \A d \in CpCalls : CpCopying(d)' => CpCopying(d) /\ d # c BY <1>2 DEF CpCopying
<1>7. ASSUME CpAtomically' PROVE CpFilesWhole' /\ CpUnseen'
  <2>1. CpFilesWhole /\ CpUnseen BY <1>5, <1>7 DEF CpInv
  <2>2. ASSUME cpPc[c] = "commit" PROVE CpWhole(cpData[cpTarget[c]])
    <3>1. CpWritesOn(c) BY <2>1, <2>2 DEF CpUnseen, CpCopying
    <3> QED BY <2>2, <3>1, CpAssumption DEF CpWritesOn, CpWhole
  <2>3. CpFilesWhole'
    <3> SUFFICES ASSUME NEW e \in CpEntries, cpDir'[e] # 0 PROVE CpWhole(cpData[cpDir'[e]])
      BY DEF CpFilesWhole, CpWhole
    <3>1. CASE \E f \in CpEntries : cpDir'[e] = cpDir[f] BY <2>1, <3>1 DEF CpFilesWhole
    <3>2. CASE cpPc[c] = "commit" /\ cpDir'[e] = cpTarget[c] BY <2>2, <3>2
    <3> QED BY <3>1, <3>2
  <2>4. ASSUME NEW d \in CpCalls, CpCopying(d)' PROVE CpApart(d)' /\ CpWritesOn(d)'
    <3>1. d # c /\ CpCopying(d) /\ CpApart(d) /\ CpWritesOn(d) BY <1>6, <2>1, <2>4 DEF CpUnseen
    <3>2. \A e \in CpEntries : cpDir'[e] # cpTarget[d]
      <4>1. cpTarget[d] # 0 /\ \A f \in CpEntries : cpDir[f] # cpTarget[d] BY <1>1, <3>1 DEF CpHandles, CpApart
      <4>2. cpPc[c] = "commit" => cpTarget[c] # cpTarget[d] BY <3>1 DEF CpApart, CpCopying
      <4> QED BY <4>1, <4>2
    <3>3. CpApart(d)' BY <1>6, <3>1, <3>2 DEF CpApart
    <3>4. CpWritesOn(d)' BY <1>2, <3>1 DEF CpWritesOn
    <3> QED BY <3>3, <3>4
  <2> QED BY <2>3, <2>4 DEF CpUnseen
<1> QED BY <1>3, <1>4, <1>5, <1>7 DEF CpInv

\* Path.rename gives the inode another name.
LEMMA CpRenameKeeps == ASSUME CpInv, NEW c \in CpCalls, CpRename(c), UNCHANGED cpInitial PROVE CpInv'
<1>1. CpTypes /\ CpHandles(c) BY DEF CpInv
<1>2. cpPc[c] = "rename" /\ UNCHANGED <<cpData, cpArgs, cpSource, cpTarget, cpPos>> BY DEF CpRename
<1>3. CASE cpPc' = [cpPc EXCEPT ![c] = "error"] /\ UNCHANGED cpDir
  <2>1. "error" \in CpPlaces \ {"idle", "copy"} BY DEF CpPlaces, CpOver
  <2> QED BY <1>2, <1>3, <2>1, CpMoves
<1>4. CASE /\ cpPc' = [cpPc EXCEPT ![c] = "ok"]
           /\ cpDir' = IF CpEntryOf[cpArgs[c].src] = CpEntryOf[cpArgs[c].dst] THEN cpDir
                       ELSE [cpDir EXCEPT ![CpEntryOf[cpArgs[c].dst]] = CpFile(cpArgs[c].src),
                                          ![CpEntryOf[cpArgs[c].src]] = 0]
  <2> DEFINE s == CpEntryOf[cpArgs[c].src]
             d == CpEntryOf[cpArgs[c].dst]
  <2>1. s \in CpEntries /\ d \in CpEntries BY <1>1, <1>2, CpAssumption DEF CpTypes, CpArgRecords
  <2>2. cpDir' = IF s = d THEN cpDir ELSE [cpDir EXCEPT ![d] = cpDir[s], ![s] = 0] BY <1>4 DEF CpFile
  <2> HIDE DEF s, d
  <2>3. cpDir' \in [CpEntries -> CpInodes \cup {0}] BY <1>1, <2>1, <2>2 DEF CpTypes
  <2>4. ASSUME NEW e \in CpEntries PROVE cpDir'[e] = 0 \/ \E f \in CpEntries : cpDir'[e] = cpDir[f]
    <3>1. cpDir'[e] \in {0, cpDir[s], cpDir[e]} BY <1>1, <2>1, <2>2 DEF CpTypes
    <3> QED BY <2>1, <3>1
  <2>5. ~CpGently
    <3>1. cpArgs[c].kind.rename /\ c \in CpCalled BY <1>1, <1>2 DEF CpHandles, CpCalled
    <3> QED BY <3>1 DEF CpGently
  <2> QED BY <1>2, <1>4, <2>3, <2>4, <2>5, CpEnters
<1> QED BY <1>3, <1>4 DEF CpRename

\* No two paths are one entry.
CpNoAlias == \A p, q \in CpPaths : CpEntryOf[p] = CpEntryOf[q] => p = q

\* The removal of the source.
LEMMA CpRemoveKeeps == ASSUME CpNoAlias, CpInv, NEW c \in CpCalls, CpRemove(c), UNCHANGED cpInitial PROVE CpInv'
<1>1. CpTypes /\ CpHandles(c) BY DEF CpInv
<1>2. cpPc[c] = "remove" /\ UNCHANGED <<cpData, cpArgs, cpSource, cpTarget, cpPos>> BY DEF CpRemove
<1>3. CASE UNCHANGED cpDir
  <2>1. PICK place \in {"ok", "error"} : cpPc' = [cpPc EXCEPT ![c] = place] BY DEF CpRemove
  <2>2. place \in CpPlaces \ {"idle", "copy"} BY DEF CpPlaces, CpOver
  <2> QED BY <1>2, <1>3, <2>1, <2>2, CpMoves
<1>4. CASE /\ CpRemoves(c) /\ CpFile(cpArgs[c].src) # 0
           /\ cpDir' = [cpDir EXCEPT ![CpEntryOf[cpArgs[c].src]] = 0]
           /\ cpPc' = [cpPc EXCEPT ![c] = "ok"]
  <2> DEFINE s == CpEntryOf[cpArgs[c].src]
             d == CpEntryOf[cpArgs[c].dst]
  <2>1. cpArgs[c] \in CpArgRecords /\ s \in CpEntries /\ d \in CpEntries
    BY <1>1, <1>2, CpAssumption DEF CpTypes, CpArgRecords
  <2>2. cpDir' = [cpDir EXCEPT ![s] = 0] BY <1>4
  <2>3. s # d BY <1>4, <2>1 DEF CpNoAlias, CpRemoves, CpSamePath, CpArgRecords
  <2>4. \A path \in CpPaths : CpEntryOf[path] \in CpEntries BY CpAssumption
  <2>5. \A e \in CpEntries : cpDir'[e] = IF e = s THEN 0 ELSE cpDir[e] BY <1>1, <2>2 DEF CpTypes
  <2>6. cpDir' \in [CpEntries -> CpInodes \cup {0}] BY <1>1, <2>1, <2>2 DEF CpTypes
  <2>7. \A e \in CpEntries : cpDir'[e] = 0 \/ \E f \in CpEntries : cpDir'[e] = cpDir[f] BY <2>5
  <2>8. ASSUME CpGently, CpGently' PROVE CpKept' /\ \A q \in CpCalls : cpPc'[q] # "idle" => CpMayRemove(q)'
    <3>1. CpKept /\ \A q \in CpCalls : cpPc[q] # "idle" => CpMayRemove(q) BY <2>8 DEF CpInv
    <3>2. cpDir[d] # 0 /\ cpData[cpDir[s]] = cpData[cpDir[d]]
      <4>1. CpMayRemove(c) BY <1>2, <3>1
      <4> QED BY <1>2, <1>4, <4>1 DEF CpMayRemove, CpFile, CpSameContent
    <3>3. ASSUME NEW v \in cpInitial PROVE \E e \in CpEntries : cpDir'[e] # 0 /\ cpData'[cpDir'[e]] = CpAll(v)
      <4>1. PICK e \in CpEntries : cpDir[e] # 0 /\ cpData[cpDir[e]] = CpAll(v) BY <3>1 DEF CpKept
      <4>2. CASE e = s
        <5>1. cpDir'[d] # 0 /\ cpData'[cpDir'[d]] = CpAll(v) BY <1>2, <2>1, <2>3, <2>5, <3>2, <4>1, <4>2
        <5> QED BY <2>1, <5>1
      <4>3. CASE e # s
        <5>1. cpDir'[e] # 0 /\ cpData'[cpDir'[e]] = CpAll(v) BY <1>2, <2>5, <4>1, <4>3
        <5> QED BY <5>1
      <4> QED BY <4>2, <4>3
    <3>4. CpKept' BY <3>3 DEF CpKept, CpAll
    <3>5. ASSUME NEW q \in CpCalls, cpPc'[q] # "idle" PROVE CpMayRemove(q)'
      <4>1. CASE q = c
        <5>1. cpPc'[q] = "ok" BY <1>1, <1>4, <4>1 DEF CpTypes
        <5> QED BY <5>1 DEF CpMayRemove, CpCopying
      <4>2. CASE q # c
        <5>1. cpPc'[q] = cpPc[q] /\ cpPc[q] # "idle" BY <1>1, <1>4, <3>5, <4>2 DEF CpTypes
        <5>2. CpMayRemove(q) BY <3>1, <5>1
        <5>3. cpArgs[q] \in CpArgRecords BY <1>1, <5>1 DEF CpTypes
        <5>4. CpEntryOf[cpArgs[q].dst] # s
          <6>1. c \in CpCalled /\ q \in CpCalled /\ cpArgs[c].kind.remove BY <1>2, <1>4, <5>1 DEF CpCalled, CpRemoves
          <6> QED BY <2>8, <4>2, <6>1 DEF CpGently, CpNoCrossing
        <5> DEFINE qs == CpEntryOf[cpArgs[q].src]
                   qd == CpEntryOf[cpArgs[q].dst]
        <5>5. qs \in CpEntries /\ qd \in CpEntries BY <2>4, <5>3 DEF CpArgRecords
        <5>6. cpDir'[qd] = cpDir[qd] /\ cpDir'[qs] \in {0, cpDir[qs]} BY <2>5, <5>4, <5>5
        <5>7. cpArgs'[q] = cpArgs[q] /\ cpSource'[q] = cpSource[q] /\ cpData' = cpData BY <1>2
        <5> QED BY <5>1, <5>2, <5>6, <5>7 DEF CpMayRemove, CpRemoves, CpSamePath, CpCopying, CpFile, CpSameContent
      <4> QED BY <4>1, <4>2
    <3> QED BY <3>4, <3>5
  <2> HIDE DEF s, d
  <2> QED BY <1>2, <1>4, <2>6, <2>7, <2>8, CpEnters
<1> QED BY <1>2, <1>3, <1>4 DEF CpRemove

\* The staged file gets its name.
LEMMA CpCommitKeeps == ASSUME CpNoAlias, CpInv, NEW c \in CpCalls, CpCommit(c), UNCHANGED cpInitial PROVE CpInv'
<1>1. CpTypes /\ CpHandles(c) BY DEF CpInv
<1>2. cpPc[c] = "commit" /\ UNCHANGED <<cpData, cpArgs, cpSource, cpTarget, cpPos>> BY DEF CpCommit
<1>3. CASE UNCHANGED cpDir /\ cpPc' = [cpPc EXCEPT ![c] = "error"]
  <2>1. "error" \in CpPlaces \ {"idle", "copy"} BY DEF CpPlaces, CpOver
  <2> QED BY <1>2, <1>3, <2>1, CpMoves
<1>4. CASE /\ ~CpCommitRefused(c) /\ cpPc' = [cpPc EXCEPT ![c] = "remove"]
           /\ cpDir' = [cpDir EXCEPT ![CpEntryOf[cpArgs[c].dst]] = cpTarget[c]]
  <2> DEFINE s == CpEntryOf[cpArgs[c].src]
             d == CpEntryOf[cpArgs[c].dst]
  <2>1. cpArgs[c] \in CpArgRecords /\ s \in CpEntries /\ d \in CpEntries
    BY <1>1, <1>2, CpAssumption DEF CpTypes, CpArgRecords
  <2>2. cpDir' = [cpDir EXCEPT ![d] = cpTarget[c]] BY <1>4
  <2>3. CpRemoves(c) => s # d BY <2>1 DEF CpNoAlias, CpRemoves, CpSamePath, CpArgRecords
  <2>4. \A path \in CpPaths : CpEntryOf[path] \in CpEntries BY CpAssumption
  <2>5. \A e \in CpEntries : cpDir'[e] = IF e = d THEN cpTarget[c] ELSE cpDir[e] BY <1>1, <2>2 DEF CpTypes
  <2>6. cpDir' \in [CpEntries -> CpInodes \cup {0}] BY <1>1, <2>1, <2>2 DEF CpTypes
  <2>7. \A e \in CpEntries : \/ \E f \in CpEntries : cpDir'[e] = cpDir[f]
                             \/ cpDir'[e] = cpTarget[c]
    BY <2>5
  <2>8. ASSUME CpGently, CpGently' PROVE CpKept' /\ \A q \in CpCalls : cpPc'[q] # "idle" => CpMayRemove(q)'
    <3>1. CpKept /\ \A q \in CpCalls : cpPc[q] # "idle" => CpMayRemove(q) BY <2>8 DEF CpInv
    <3>2. cpDir[d] = 0
      <4>1. c \in CpCalled BY <1>2 DEF CpCalled
      <4>2. ~cpArgs[c].kind.force BY <2>8, <4>1 DEF CpGently
      <4> QED BY <1>4, <4>2 DEF CpCommitRefused, CpFile
    <3>3. ASSUME NEW v \in cpInitial PROVE \E e \in CpEntries : cpDir'[e] # 0 /\ cpData'[cpDir'[e]] = CpAll(v)
      <4>1. PICK e \in CpEntries : cpDir[e] # 0 /\ cpData[cpDir[e]] = CpAll(v) BY <3>1 DEF CpKept
      <4>2. cpDir'[e] # 0 /\ cpData'[cpDir'[e]] = CpAll(v) BY <1>2, <2>5, <3>2, <4>1
      <4> QED BY <4>2
    <3>4. CpKept' BY <3>3 DEF CpKept, CpAll
    <3>5. cpTarget[c] # 0 /\ cpSource[c] # 0 BY <1>1, <1>2 DEF CpHandles, CpCopying
    <3>6. cpData[cpSource[c]] = cpData[cpTarget[c]]
      <4>1. CpWritesOn(c) BY <1>2, <2>8, CpGentle DEF CpInv, CpUnseen, CpCopying
      <4>2. cpData[cpSource[c]] \in Seq(Nat) /\ cpData[cpTarget[c]] \in Seq(Nat) BY <1>1, <3>5 DEF CpTypes
      <4>3. Len(cpData[cpSource[c]]) = CpFileSize /\ Len(cpData[cpTarget[c]]) = CpFileSize
        BY <1>2, <4>1 DEF CpWritesOn, CpWhole
      <4>4. \A i \in 1..CpFileSize : cpData[cpTarget[c]][i] = cpData[cpSource[c]][i] BY <1>2, <4>1 DEF CpWritesOn
      <4> DEFINE A == cpData[cpSource[c]]
                 B == cpData[cpTarget[c]]
      <4> HIDE DEF A, B
      <4>5. A \in Seq(Nat) /\ B \in Seq(Nat) /\ Len(A) = CpFileSize /\ Len(B) = CpFileSize BY <4>2, <4>3 DEF A, B
      <4>6. \A i \in 1..CpFileSize : A[i] = B[i] BY <4>4 DEF A, B
      <4>7. A = B BY <4>5, <4>6
      <4> QED BY <4>7 DEF A, B
    <3>7. ASSUME NEW q \in CpCalls, cpPc'[q] # "idle" PROVE CpMayRemove(q)'
      <4>0. cpArgs'[q] = cpArgs[q] /\ cpSource'[q] = cpSource[q] /\ cpData' = cpData BY <1>2
      <4>1. CASE q = c
        <5>1. cpPc'[q] = "remove" BY <1>1, <1>4, <4>1 DEF CpTypes
        <5>2. ASSUME CpRemoves(c) PROVE cpDir'[d] # 0 /\ (cpDir'[s] # 0 => cpData[cpDir'[s]] = cpData[cpDir'[d]])
          <6>1. cpDir'[d] = cpTarget[c] /\ cpDir'[s] = cpDir[s] BY <2>1, <2>3, <2>5, <5>2
          <6>2. CpMayRemove(c) BY <1>2, <3>1
          <6>3. cpDir[s] \in {0, cpSource[c]} BY <1>2, <5>2, <6>2 DEF CpMayRemove, CpFile, CpCopying
          <6> QED BY <3>5, <3>6, <6>1, <6>3
        <5> QED BY <4>0, <4>1, <5>1, <5>2 DEF CpMayRemove, CpRemoves, CpSamePath, CpCopying, CpFile, CpSameContent
      <4>2. CASE q # c
        <5>1. cpPc'[q] = cpPc[q] /\ cpPc[q] # "idle" BY <1>1, <1>4, <3>7, <4>2 DEF CpTypes
        <5>2. CpMayRemove(q) BY <3>1, <5>1
        <5>3. cpArgs[q] \in CpArgRecords BY <1>1, <5>1 DEF CpTypes
        <5> DEFINE qs == CpEntryOf[cpArgs[q].src]
                   qd == CpEntryOf[cpArgs[q].dst]
        <5>4. qs \in CpEntries /\ qd \in CpEntries BY <2>4, <5>3 DEF CpArgRecords
        <5>5. ASSUME CpRemoves(q) PROVE qs # d
          <6>1. c \in CpCalled /\ q \in CpCalled /\ cpArgs[q].kind.remove BY <1>2, <5>1, <5>5 DEF CpCalled, CpRemoves
          <6> QED BY <2>8, <4>2, <6>1 DEF CpGently, CpNoCrossing
        <5>6. cpDir[qd] # 0 => cpDir'[qd] = cpDir[qd] BY <2>5, <3>2, <5>4
        <5>7. CpRemoves(q) => cpDir'[qs] = cpDir[qs] BY <2>5, <5>4, <5>5
        <5> QED BY <4>0, <5>1, <5>2, <5>6, <5>7 DEF CpMayRemove, CpRemoves, CpSamePath, CpCopying, CpFile, CpSameContent
      <4> QED BY <4>1, <4>2
    <3> QED BY <3>4, <3>7
  <2> HIDE DEF s, d
  <2> QED BY <1>2, <1>4, <2>6, <2>7, <2>8, CpEnters
<1> QED BY <1>2, <1>3, <1>4 DEF CpCommit

\* A call that does not stage may do what it likes, as far as this goes.
LEMMA CpInPlace ==
    ASSUME NEW c \in CpCalls, cpPc[c] # "idle", ~cpArgs[c].kind.atomic, ~cpArgs[c].kind.rename
    PROVE  ~CpAtomically /\ ~CpGently
<1>1. c \in CpCalled BY DEF CpCalled
<1>2. ~CpAtomically BY <1>1 DEF CpAtomically
<1> QED BY <1>2, CpGentle

\* The source is opened, and a temporary file made or the destination emptied.
LEMMA CpStageKeeps == ASSUME CpInv, NEW c \in CpCalls, CpStage(c), UNCHANGED cpInitial PROVE CpInv'
<1> DEFINE n == CpNewInode
           s == CpFile(cpArgs[c].src)
           t == cpTarget'[c]
<1>1. CpTypes /\ \A d \in CpCalls : CpHandles(d) BY DEF CpInv
<1>2. /\ cpPc[c] = "stage" /\ s # 0 /\ cpPc' = [cpPc EXCEPT ![c] = "copy"]
      /\ cpSource' = [cpSource EXCEPT ![c] = s] /\ UNCHANGED <<cpArgs, cpPos>>
  BY DEF CpStage
<1>3. cpSource[c] = 0 /\ cpTarget[c] = 0 /\ cpPos[c] = 0 /\ ~cpArgs[c].kind.rename BY <1>1, <1>2 DEF CpHandles
<1>4. n \in CpInodes /\ n # 0 /\ n \notin CpInUse BY <1>1, <1>3, CpFresh
<1>5. cpArgs[c] \in CpArgRecords BY <1>1, <1>2 DEF CpTypes
<1>6. \A path \in CpPaths : CpEntryOf[path] \in CpEntries /\ CpFile(path) \in CpInodes \cup {0}
  BY <1>1, CpAssumption DEF CpTypes, CpFile
<1>7. s \in CpInodes BY <1>2, <1>5, <1>6 DEF CpArgRecords
<1>8. /\ t \in CpInodes \ {0} /\ cpTarget' = [cpTarget EXCEPT ![c] = t] /\ cpData' = [cpData EXCEPT ![t] = <<>>]
      /\ \/ cpArgs[c].kind.atomic /\ t = n /\ cpDir' = cpDir
         \/ ~cpArgs[c].kind.atomic /\ cpDir' = [cpDir EXCEPT ![CpEntryOf[cpArgs[c].dst]] = t]
  <2>1. CASE cpArgs[c].kind.atomic
    <3>1. cpTarget' = [cpTarget EXCEPT ![c] = n] /\ cpData' = [cpData EXCEPT ![n] = <<>>] /\ cpDir' = cpDir
      BY <2>1 DEF CpStage, CpStages
    <3>2. t = n BY <1>1, <3>1 DEF CpTypes
    <3> HIDE DEF t, n
    <3> QED BY <1>4, <2>1, <3>1, <3>2
  <2>2. CASE ~cpArgs[c].kind.atomic
    <3> DEFINE opened == IF CpFile(cpArgs[c].dst) = 0 THEN n ELSE CpFile(cpArgs[c].dst)
    <3>1. /\ cpTarget' = [cpTarget EXCEPT ![c] = opened] /\ cpData' = [cpData EXCEPT ![opened] = <<>>]
          /\ cpDir' = [cpDir EXCEPT ![CpEntryOf[cpArgs[c].dst]] = opened]
      BY <2>2 DEF CpStage, CpStages
    <3>2. opened \in CpInodes \ {0} BY <1>4, <1>5, <1>6 DEF CpArgRecords
    <3>3. t = opened BY <1>1, <3>1 DEF CpTypes
    <3> HIDE DEF t, opened
    <3> QED BY <2>2, <3>1, <3>2, <3>3
  <2> QED BY <2>1, <2>2
<1> HIDE DEF n, s, t
<1>9. /\ cpPc'[c] = "copy" /\ cpSource'[c] = s /\ cpTarget'[c] = t
      /\ \A d \in CpCalls : d # c => cpPc'[d] = cpPc[d] /\ cpSource'[d] = cpSource[d] /\ cpTarget'[d] = cpTarget[d]
  BY <1>1, <1>2, <1>8 DEF CpTypes
<1>10. CpTypes'
  <2>1. "copy" \in CpPlaces BY DEF CpPlaces
  <2>2. cpPc' \in [CpCalls -> CpPlaces] BY <1>1, <1>2, <2>1 DEF CpTypes
  <2>3. cpSource' \in [CpCalls -> CpInodes \cup {0}] /\ cpTarget' \in [CpCalls -> CpInodes \cup {0}]
    BY <1>1, <1>2, <1>7, <1>8 DEF CpTypes
  <2>4. <<>> \in Seq(Nat) OBVIOUS
  <2>5. cpData' \in [CpInodes -> Seq(Nat)] BY <1>1, <1>8, <2>4 DEF CpTypes
  <2>6. cpDir' \in [CpEntries -> CpInodes \cup {0}] BY <1>1, <1>8 DEF CpTypes
  <2>7. \A d \in CpCalls : cpPc'[d] # "idle" => cpArgs'[d] \in CpArgRecords
    BY <1>1, <1>2, <1>5, <1>9 DEF CpTypes
  <2> QED BY <1>1, <1>2, <2>2, <2>3, <2>5, <2>6, <2>7 DEF CpTypes
<1>11. \A d \in CpCalls : CpHandles(d)'
  <2> SUFFICES ASSUME NEW d \in CpCalls PROVE CpHandles(d)'
    OBVIOUS
  <2>1. CASE d = c BY <1>2, <1>3, <1>8, <1>9, <2>1 DEF CpHandles, CpCopying
  <2>2. CASE d # c BY <1>1, <1>2, <1>9, <2>2 DEF CpHandles, CpCopying
  <2> QED BY <2>1, <2>2
<1>12. (CpAtomically' => CpAtomically) /\ (CpGently' => CpGently)
  <2>1. \A d \in CpCalled : d \in CpCalled' /\ cpArgs'[d] = cpArgs[d] BY <1>2, <1>9 DEF CpCalled
  <2> QED BY <2>1, CpCalmer
<1>13. ~cpArgs[c].kind.atomic => ~CpAtomically /\ ~CpGently BY <1>2, <1>3, CpInPlace
<1>14. CASE ~cpArgs[c].kind.atomic BY <1>10, <1>11, <1>12, <1>13, <1>14 DEF CpInv
<1>15. CASE cpArgs[c].kind.atomic
  <2>1. t = n /\ cpDir' = cpDir BY <1>8, <1>15
  <2>2. /\ \A e \in CpEntries : cpDir[e] # t
        /\ \A d \in CpCalls : cpSource[d] # t /\ cpTarget[d] # t
    BY <1>4, <2>1 DEF CpInUse
  <2>3. \A i \in CpInodes : cpData'[i] = IF i = t THEN <<>> ELSE cpData[i] BY <1>1, <1>8 DEF CpTypes
  <2>4. \A e \in CpEntries : cpDir[e] # 0 => cpData'[cpDir[e]] = cpData[cpDir[e]] BY <1>1, <2>2, <2>3 DEF CpTypes
  <2>5. \E e \in CpEntries : cpDir[e] = s BY <1>5, <1>6 DEF CpArgRecords, CpFile, s
  <2>6. s # t BY <2>2, <2>5
  <2>7. ASSUME CpAtomically' PROVE CpFilesWhole' /\ CpUnseen'
    <3>1. CpFilesWhole /\ CpUnseen BY <1>12, <2>7 DEF CpInv
    <3>2. CpFilesWhole' BY <2>1, <2>4, <3>1 DEF CpFilesWhole, CpWhole
    <3>3. ASSUME NEW d \in CpCalls, d # c, CpCopying(d)' PROVE CpApart(d)' /\ CpWritesOn(d)'
      <4>1. CpCopying(d) /\ CpApart(d) /\ CpWritesOn(d) BY <1>9, <3>1, <3>3 DEF CpUnseen, CpCopying
      <4>2. cpTarget[d] \in CpInodes /\ cpSource[d] \in CpInodes BY <1>1, <4>1 DEF CpTypes, CpHandles
      <4>3. cpData'[cpTarget[d]] = cpData[cpTarget[d]] /\ cpData'[cpSource[d]] = cpData[cpSource[d]]
        BY <2>2, <2>3, <4>2
      <4>4. cpPc'[d] = cpPc[d] /\ cpTarget'[d] = cpTarget[d] /\ cpSource'[d] = cpSource[d] /\ cpPos'[d] = cpPos[d]
        BY <1>2, <1>9, <3>3
      <4>5. CpWritesOn(d)' BY <4>1, <4>3, <4>4 DEF CpWritesOn, CpWhole
      <4>6. ASSUME NEW q \in CpCalls, CpCopying(q)'
            PROVE  cpTarget'[d] # cpSource'[q] /\ (q # d => cpTarget'[d] # cpTarget'[q])
        <5>1. CASE q = c
          <6>1. cpTarget[d] # s BY <2>5, <4>1 DEF CpApart
          <6> QED BY <1>9, <2>2, <4>4, <5>1, <6>1
        <5>2. CASE q # c BY <1>9, <4>1, <4>4, <4>6, <5>2 DEF CpApart, CpCopying
        <5> QED BY <5>1, <5>2
      <4>7. CpApart(d)' BY <2>1, <4>1, <4>4, <4>6 DEF CpApart
      <4> QED BY <4>5, <4>7
    <3>4. CpApart(c)'
      <4>1. ASSUME NEW q \in CpCalls, CpCopying(q)' PROVE cpTarget'[c] # cpSource'[q] /\ (q # c => cpTarget'[c] # cpTarget'[q])
        BY <1>9, <2>2, <2>6
      <4> QED BY <1>9, <2>1, <2>2, <4>1 DEF CpApart
    <3>5. CpWritesOn(c)'
      <4>1. cpData'[cpTarget'[c]] = <<>> /\ cpPos'[c] = 0 BY <1>2, <1>3, <1>8, <1>9, <2>3
      <4>2. CpWhole(cpData[s]) BY <1>2, <2>5, <3>1 DEF CpFilesWhole
      <4>3. cpData'[cpSource'[c]] = cpData[s] BY <1>7, <1>9, <2>3, <2>6
      <4> QED BY <1>9, <4>1, <4>2, <4>3, CpAssumption DEF CpWritesOn, CpWhole
    <3> QED BY <3>2, <3>3, <3>4, <3>5 DEF CpUnseen
  <2>8. ASSUME CpGently' PROVE CpKept' /\ \A d \in CpCalls : cpPc'[d] # "idle" => CpMayRemove(d)'
    <3>1. CpKept /\ \A d \in CpCalls : cpPc[d] # "idle" => CpMayRemove(d) BY <1>12, <2>8 DEF CpInv
    <3>2. CpKept' BY <2>1, <2>4, <3>1 DEF CpKept
    <3>3. ASSUME NEW d \in CpCalls, cpPc'[d] # "idle" PROVE CpMayRemove(d)'
      <4>0. cpArgs'[d] = cpArgs[d] /\ \A path \in CpPaths : CpFile(path)' = CpFile(path) BY <1>2, <2>1 DEF CpFile
      <4>1. CASE d = c
        <5>1. cpDir'[CpEntryOf[cpArgs[c].src]] = s BY <2>1 DEF CpFile, s
        <5> QED BY <1>9, <4>0, <4>1, <5>1 DEF CpMayRemove, CpFile
      <4>2. CASE d # c
        <5>1. cpPc'[d] = cpPc[d] /\ cpSource'[d] = cpSource[d] /\ CpMayRemove(d) BY <1>9, <3>1, <3>3, <4>2
        <5>2. cpArgs[d] \in CpArgRecords BY <1>1, <3>3, <5>1 DEF CpTypes
        <5>3. CpFile(cpArgs[d].src) # 0 /\ CpFile(cpArgs[d].dst) # 0 => (CpSameContent(d)' <=> CpSameContent(d))
          BY <1>6, <2>1, <2>4, <4>0, <5>2 DEF CpSameContent, CpFile, CpArgRecords
        <5> QED BY <2>1, <4>0, <5>1, <5>2, <5>3 DEF CpMayRemove, CpRemoves, CpSamePath, CpCopying, CpFile, CpArgRecords
      <4> QED BY <4>1, <4>2
    <3> QED BY <3>2, <3>3
  <2> QED BY <1>10, <1>11, <2>7, <2>8 DEF CpInv
<1> QED BY <1>14, <1>15

\* What a write makes of the staged file.
LEMMA CpWrittenIs ==
    ASSUME NEW content \in Seq(Nat), NEW at \in Nat, NEW block \in Nat
    PROVE  /\ CpWritten(content, at, block) \in Seq(Nat)
           /\ Len(content) = at =>
                /\ Len(CpWritten(content, at, block)) = at + 1
                /\ \A i \in 1..(at + 1) : CpWritten(content, at, block)[i] = IF i = at + 1 THEN block ELSE content[i]
<1> DEFINE m == IF Len(content) > at THEN Len(content) ELSE at + 1
           new == CpWritten(content, at, block)
<1>1. m \in Nat /\ new = [i \in 1..m |-> IF i = at + 1 THEN block ELSE IF i <= Len(content) THEN content[i] ELSE CpHole]
  BY DEF CpWritten
<1>2. \A i \in 1..m : new[i] \in Nat BY <1>1 DEF CpHole
<1> HIDE DEF new, m
<1>3. new = [i \in 1..m |-> new[i]] BY <1>1
<1>4. new \in Seq(Nat) /\ Len(new) = m BY <1>1, <1>2, <1>3
<1>5. ASSUME Len(content) = at
      PROVE  Len(new) = at + 1 /\ \A i \in 1..(at + 1) : new[i] = IF i = at + 1 THEN block ELSE content[i]
  <2>1. m = at + 1 BY <1>5 DEF m
  <2> QED BY <1>1, <1>4, <1>5, <2>1
<1> QED BY <1>4, <1>5 DEF new

\* A block is read and written.
LEMMA CpCopyBlockKeeps == ASSUME CpInv, NEW c \in CpCalls, CpCopyBlock(c), UNCHANGED cpInitial PROVE CpInv'
<1> DEFINE t == cpTarget[c]
           s == cpSource[c]
           p == cpPos[c]
           new == CpWritten(cpData[t], p, cpData[s][p + 1])
<1>1. CpTypes /\ \A d \in CpCalls : CpHandles(d) BY DEF CpInv
<1>2. /\ cpPc[c] = "copy" /\ p < Len(cpData[s]) /\ cpData' = [cpData EXCEPT ![t] = new]
      /\ cpPos' = [cpPos EXCEPT ![c] = p + 1] /\ UNCHANGED <<cpDir, cpPc, cpArgs, cpSource, cpTarget>>
  BY DEF CpCopyBlock
<1>3. t \in CpInodes /\ s \in CpInodes /\ p \in Nat BY <1>1, <1>2 DEF CpTypes, CpHandles, CpCopying
<1>4. cpData[t] \in Seq(Nat) /\ cpData[s] \in Seq(Nat) BY <1>1, <1>3 DEF CpTypes
<1>5. cpData[s][p + 1] \in Nat BY <1>2, <1>3, <1>4
<1>6. /\ new \in Seq(Nat)
      /\ Len(cpData[t]) = p => /\ Len(new) = p + 1
                               /\ \A i \in 1..(p + 1) : new[i] = IF i = p + 1 THEN cpData[s][p + 1] ELSE cpData[t][i]
  <2> DEFINE content == cpData[t]
             block == cpData[s][p + 1]
  <2>1. content \in Seq(Nat) /\ block \in Nat /\ p \in Nat BY <1>3, <1>4, <1>5
  <2> HIDE DEF content, block, p
  <2> QED BY <2>1, CpWrittenIs DEF content, block
<1> HIDE DEF new, t, s, p
<1>7. \A i \in CpInodes : cpData'[i] = IF i = t THEN new ELSE cpData[i] BY <1>1, <1>2 DEF CpTypes
<1>8. \A d \in CpCalls : cpPos'[d] = IF d = c THEN p + 1 ELSE cpPos[d] BY <1>1, <1>2 DEF CpTypes
<1>9. CpTypes'
  <2>1. cpData' \in [CpInodes -> Seq(Nat)] /\ cpPos' \in [CpCalls -> Nat] BY <1>1, <1>2, <1>3, <1>6 DEF CpTypes
  <2> QED BY <1>1, <1>2, <2>1 DEF CpTypes
<1>10. \A d \in CpCalls : CpHandles(d)'
  <2> SUFFICES ASSUME NEW d \in CpCalls PROVE CpHandles(d)'
    OBVIOUS
  <2>1. CpHandles(d) BY <1>1
  <2>2. d # c => cpPos'[d] = cpPos[d] BY <1>8
  <2> QED BY <1>2, <2>1, <2>2 DEF CpHandles, CpCopying
<1>11. (CpAtomically' => CpAtomically) /\ (CpGently' => CpGently)
  <2>1. \A d \in CpCalled : d \in CpCalled' /\ cpArgs'[d] = cpArgs[d] BY <1>2 DEF CpCalled
  <2> QED BY <2>1, CpCalmer
<1>12. ASSUME CpAtomically
       PROVE  /\ \A e \in CpEntries : cpDir[e] # t /\ (cpDir[e] # 0 => cpData'[cpDir[e]] = cpData[cpDir[e]])
              /\ \A d \in CpCalls : CpCopying(d) => cpData'[cpSource[d]] = cpData[cpSource[d]]
              /\ \A d \in CpCalls : CpCopying(d) /\ d # c => cpData'[cpTarget[d]] = cpData[cpTarget[d]]
  <2>1. CpApart(c) BY <1>2, <1>12 DEF CpInv, CpUnseen, CpCopying
  <2>2. \A e \in CpEntries : cpDir[e] # t /\ (cpDir[e] # 0 => cpDir[e] \in CpInodes) BY <1>1, <2>1 DEF CpApart, CpTypes, t
  <2>3. \A d \in CpCalls : CpCopying(d) => cpSource[d] \in CpInodes /\ cpTarget[d] \in CpInodes
    BY <1>1 DEF CpTypes, CpHandles
  <2>4. \A d \in CpCalls : CpCopying(d) => cpSource[d] # t /\ (d # c => cpTarget[d] # t) BY <2>1 DEF CpApart, t
  <2> QED BY <1>7, <2>2, <2>3, <2>4
<1>13. ASSUME CpAtomically' PROVE CpFilesWhole' /\ CpUnseen'
  <2>1. CpAtomically /\ CpFilesWhole /\ CpUnseen BY <1>11, <1>13 DEF CpInv
  <2>2. CpFilesWhole' BY <1>2, <1>12, <2>1 DEF CpFilesWhole, CpWhole
  <2>3. ASSUME NEW d \in CpCalls, CpCopying(d) PROVE CpApart(d)'
    <3>1. CpApart(d) BY <2>1, <2>3 DEF CpUnseen
    <3> QED BY <1>2, <3>1 DEF CpApart, CpCopying
  <2>4. ASSUME NEW d \in CpCalls, CpCopying(d) PROVE CpWritesOn(d)'
    <3>1. CpWritesOn(d) BY <2>1, <2>4 DEF CpUnseen
    <3>2. CASE d # c
      <4>1. /\ cpData'[cpSource'[d]] = cpData[cpSource[d]] /\ cpData'[cpTarget'[d]] = cpData[cpTarget[d]]
            /\ cpPos'[d] = cpPos[d] /\ cpPc'[d] = cpPc[d]
        BY <1>2, <1>8, <1>12, <2>1, <2>4, <3>2
      <4> QED BY <3>1, <4>1 DEF CpWritesOn, CpWhole
    <3>3. CASE d = c
      <4>1. /\ cpData'[cpSource'[c]] = cpData[s] /\ cpData'[cpTarget'[c]] = new
            /\ cpPos'[c] = p + 1 /\ cpPc'[c] = "copy"
        BY <1>2, <1>3, <1>7, <1>8, <1>12, <2>1, <2>4, <3>3 DEF s, t
      <4>2. /\ CpWhole(cpData[s]) /\ Len(cpData[t]) = p /\ \A i \in 1..p : cpData[t][i] = cpData[s][i]
        BY <3>1, <3>3 DEF CpWritesOn, s, t, p
      <4>3. p + 1 <= CpFileSize BY <1>2, <1>3, <4>2, CpAssumption DEF CpWhole
      <4>4. Len(new) = p + 1 /\ \A i \in 1..(p + 1) : new[i] = IF i = p + 1 THEN cpData[s][p + 1] ELSE cpData[t][i]
        BY <1>6, <4>2
      <4>5. \A i \in 1..(p + 1) : new[i] = cpData[s][i] BY <1>3, <4>2, <4>4
      <4>6. CpWhole(cpData'[cpSource'[c]]) BY <4>1, <4>2
      <4>7. CpWritesOn(c)'
        <5>1. CpWhole(cpData[cpSource[c]])' BY <4>6
        <5>2. cpPos'[c] <= CpFileSize BY <4>1, <4>3
        <5>3. Len(cpData'[cpTarget'[c]]) = cpPos'[c] BY <4>1, <4>4
        <5>4. \A i \in 1..cpPos'[c] : cpData'[cpTarget'[c]][i] = cpData'[cpSource'[c]][i] BY <4>1, <4>5
        <5> QED BY <4>1, <5>1, <5>2, <5>3, <5>4 DEF CpWritesOn
      <4> QED BY <3>3, <4>7
    <3> QED BY <3>2, <3>3
  <2>5. \A d \in CpCalls : CpCopying(d)' => CpCopying(d) BY <1>2 DEF CpCopying
  <2> QED BY <2>2, <2>3, <2>4, <2>5 DEF CpUnseen
<1>14. ASSUME CpGently' PROVE CpKept' /\ \A d \in CpCalls : cpPc'[d] # "idle" => CpMayRemove(d)'
  <2>1. CpAtomically /\ CpKept /\ \A d \in CpCalls : cpPc[d] # "idle" => CpMayRemove(d)
    BY <1>11, <1>14, CpGentle DEF CpInv
  <2>2. \A e \in CpEntries : cpDir[e] # 0 => cpData'[cpDir[e]] = cpData[cpDir[e]] BY <1>12, <2>1
  <2>3. CpKept' BY <1>2, <2>1, <2>2 DEF CpKept
  <2>4. ASSUME NEW d \in CpCalls, cpPc'[d] # "idle" PROVE CpMayRemove(d)'
    <3>1. cpPc[d] # "idle" /\ CpMayRemove(d) BY <1>2, <2>1, <2>4
    <3>2. cpArgs[d] \in CpArgRecords BY <1>1, <3>1 DEF CpTypes
    <3>3. \A path \in CpPaths : CpEntryOf[path] \in CpEntries BY CpAssumption
    <3>4. CpFile(cpArgs[d].src) # 0 /\ CpFile(cpArgs[d].dst) # 0 => (CpSameContent(d)' <=> CpSameContent(d))
      BY <1>2, <2>2, <3>2, <3>3 DEF CpSameContent, CpFile, CpArgRecords
    <3> QED BY <1>2, <3>1, <3>4 DEF CpMayRemove, CpRemoves, CpSamePath, CpCopying, CpFile
  <2> QED BY <2>3, <2>4
<1> QED BY <1>9, <1>10, <1>13, <1>14 DEF CpInv

\* Every entry has an inode of its own to begin with.
LEMMA CpFirstIs ==
    /\ CpFirstInode \in [CpEntries -> 1..Cardinality(CpEntries)]
    /\ \A e, f \in CpEntries : CpFirstInode[e] = CpFirstInode[f] => e = f
<1> DEFINE n == Cardinality(CpEntries)
           OneEach(g) == \A e, f \in CpEntries : g[e] = g[f] => e = f
<1>1. ExistsBijection(1..n, CpEntries) BY CpAssumption, FS_CardinalityType
<1> HIDE DEF n
<1>2. PICK b \in [1..n -> CpEntries] : \A e \in CpEntries : \E i \in 1..n : b[i] = e
  BY <1>1 DEF ExistsBijection, Bijection, Surjection
<1> DEFINE g == [e \in CpEntries |-> CHOOSE i \in 1..n : b[i] = e]
<1>3. \A e \in CpEntries : g[e] \in 1..n /\ b[g[e]] = e BY <1>2
<1>4. g \in [CpEntries -> 1..n]
  <2>1. g = [e \in CpEntries |-> g[e]] OBVIOUS
  <2> HIDE DEF g
  <2> QED BY <1>3, <2>1
<1>5. OneEach(g) BY <1>3
<1> HIDE DEF g
<1>6. \E h \in [CpEntries -> 1..n] : OneEach(h) BY <1>4, <1>5
<1>7. CpFirstInode = CHOOSE h \in [CpEntries -> 1..n] : OneEach(h) BY DEF CpFirstInode, n
<1> HIDE DEF OneEach
<1>8. CpFirstInode \in [CpEntries -> 1..n] /\ OneEach(CpFirstInode) BY <1>6, <1>7
<1> QED BY <1>8 DEF OneEach, n

\* The files are there, and no call has begun.
LEMMA CpInitHolds == CpInit => CpInv
<1> SUFFICES ASSUME CpInit PROVE CpInv
  OBVIOUS
<1> DEFINE n == Cardinality(CpEntries)
           first(i) == CHOOSE e \in CpEntries : CpFirstInode[e] = i
<1>1. PICK version \in [CpEntries -> 0..CpVersions] :
        /\ cpInitial = {version[e] : e \in CpEntries} \ {0}
        /\ cpDir = [e \in CpEntries |-> IF version[e] = 0 THEN 0 ELSE CpFirstInode[e]]
        /\ cpData = [i \in CpInodes |-> IF \E e \in CpEntries : CpFirstInode[e] = i
                                        THEN [k \in 1..CpFileSize |-> version[first(i)]] ELSE <<>>]
  BY DEF CpInit
<1>2. /\ cpPc = [c \in CpCalls |-> "idle"] /\ cpArgs = [c \in CpCalls |-> CpNoArgs]
      /\ cpSource = [c \in CpCalls |-> 0] /\ cpTarget = [c \in CpCalls |-> 0] /\ cpPos = [c \in CpCalls |-> 0]
  BY DEF CpInit
<1>3. \A e \in CpEntries : CpFirstInode[e] \in 1..n /\ first(CpFirstInode[e]) = e BY CpFirstIs
<1>4. \A e \in CpEntries : CpFirstInode[e] \in CpInodes /\ CpFirstInode[e] # 0
  <2>1. n \in Nat /\ Cardinality(CpCalls) \in Nat BY CpAssumption, FS_CardinalityType
  <2> HIDE DEF n, first
  <2>2. CpInodes = 1..(n + 2 * Cardinality(CpCalls)) BY DEF CpInodes, n
  <2>3. \A i \in 1..n : i \in CpInodes /\ i # 0 BY <2>1, <2>2
  <2> QED BY <1>3, <2>3
<1>5. \A i \in CpInodes : (\E e \in CpEntries : CpFirstInode[e] = i) => first(i) \in CpEntries OBVIOUS
<1> HIDE DEF first
<1>6. ASSUME NEW e \in CpEntries, cpDir[e] # 0
      PROVE  version[e] # 0 /\ cpData[cpDir[e]] = CpAll(version[e])
  <2>1. version[e] # 0 /\ cpDir[e] = CpFirstInode[e] BY <1>1, <1>6
  <2>2. cpData[CpFirstInode[e]] = [k \in 1..CpFileSize |-> version[first(CpFirstInode[e])]] BY <1>1, <1>4
  <2> QED BY <1>3, <2>1, <2>2 DEF CpAll
<1>7. CpTypes
  <2>1. cpDir \in [CpEntries -> CpInodes \cup {0}] BY <1>1, <1>4
  <2>2. \A i \in CpInodes : cpData[i] \in Seq(Nat)
    <3> SUFFICES ASSUME NEW i \in CpInodes PROVE cpData[i] \in Seq(Nat)
      OBVIOUS
    <3>1. CASE \E e \in CpEntries : CpFirstInode[e] = i
      <4>1. version[first(i)] \in Nat BY <1>1, <1>5, <3>1, CpAssumption
      <4>2. cpData[i] = [k \in 1..CpFileSize |-> version[first(i)]] BY <1>1, <3>1
      <4> QED BY <4>1, <4>2, CpAssumption
    <3>2. CASE ~\E e \in CpEntries : CpFirstInode[e] = i BY <1>1, <3>2
    <3> QED BY <3>1, <3>2
  <2>3. cpData \in [CpInodes -> Seq(Nat)] BY <1>1, <2>2
  <2>4. "idle" \in CpPlaces /\ 0 \in CpInodes \cup {0} /\ 0 \in Nat BY DEF CpPlaces
  <2> QED BY <1>2, <2>1, <2>3, <2>4 DEF CpTypes
<1>8. \A c \in CpCalls : cpPc[c] = "idle" /\ cpSource[c] = 0 /\ cpTarget[c] = 0 /\ cpPos[c] = 0 BY <1>2
<1>9. (\A c \in CpCalls : CpHandles(c)) /\ CpUnseen BY <1>8 DEF CpHandles, CpUnseen, CpCopying
<1>10. CpFilesWhole
  <2> SUFFICES ASSUME NEW e \in CpEntries, cpDir[e] # 0 PROVE CpWhole(cpData[cpDir[e]])
    BY DEF CpFilesWhole
  <2>1. cpData[cpDir[e]] = [k \in 1..CpFileSize |-> version[e]] BY <1>6 DEF CpAll
  <2> QED BY <2>1, CpAssumption DEF CpWhole
<1>11. CpKept
  <2> SUFFICES ASSUME NEW v \in cpInitial PROVE \E e \in CpEntries : cpDir[e] # 0 /\ cpData[cpDir[e]] = CpAll(v)
    BY DEF CpKept
  <2>1. PICK e \in CpEntries : version[e] = v /\ v # 0 BY <1>1
  <2>2. cpDir[e] # 0 BY <1>1, <1>4, <2>1
  <2> QED BY <1>6, <2>1, <2>2
<1> QED BY <1>7, <1>8, <1>9, <1>10, <1>11 DEF CpInv

\* Every step keeps the invariant.
LEMMA CpStepKeeps == ASSUME CpNoAlias PROVE CpInv /\ [CpNext \/ CpDone]_cpVars => CpInv'
<1> SUFFICES ASSUME CpInv, [CpNext \/ CpDone]_cpVars PROVE CpInv'
  OBVIOUS
<1>1. ASSUME NEW c \in CpCalls, CpStep(c), UNCHANGED cpInitial PROVE CpInv'
  BY <1>1, CpCallKeeps, CpInspectKeeps, CpRenameKeeps, CpStageKeeps, CpEndsKeep, CpCopyBlockKeeps, CpCopyEndsKeeps,
     CpCommitKeeps, CpRemoveKeeps
  DEF CpStep
<1>2. ASSUME UNCHANGED cpVars PROVE CpInv'
  BY <1>2
  DEF CpInv, CpTypes, CpHandles, CpCopying, CpAtomically, CpGently, CpNoCrossing, CpCalled, CpFilesWhole, CpWhole, CpUnseen,
      CpApart, CpWritesOn, CpKept, CpMayRemove, CpRemoves, CpSamePath, CpFile, CpSameContent, cpVars
<1> QED BY <1>1, <1>2 DEF CpNext, CpDone

\* Racing, failing and killed copies, moves and renames of local files leave
\* every file whole when they are atomic, and lose none when they are not
\* forced and none removes another's destination, for any number of calls and
\* blocks; provided that no two paths are one entry.
THEOREM LocalKept == ASSUME CpNoAlias PROVE CpSpec => []CpKeepsFiles
<1>1. CpInv => CpKeepsFiles
  <2> SUFFICES ASSUME CpInv PROVE CpKeepsFiles
    OBVIOUS
  <2>1. CpAtomicFilesWhole BY DEF CpInv, CpAtomically, CpFilesWhole, CpAtomicFilesWhole
  <2>2. CpNothingLost BY DEF CpInv, CpGently, CpKept, CpAll, CpNothingLost
  <2> QED BY <2>1, <2>2 DEF CpKeepsFiles
<1> QED BY <1>1, CpInitHolds, CpStepKeeps, PTL DEF CpSpec

-----------------------------------------------------------------------------
(* The types of all of them.                                               *)

\* A move of a file keeps its types.
LEMMA MvTypeKept == MvInv /\ MvTypeOK /\ [MvNext]_mvVars => MvTypeOK'
<1> SUFFICES ASSUME MvInv, MvTypeOK, [MvNext]_mvVars PROVE MvTypeOK'
  OBVIOUS
<1>1. MvInv' BY MvStepKeeps
<1>2. /\ mvCall' \in MvArgs /\ mvDirty' \in BOOLEAN /\ mvLied' \in BOOLEAN
      /\ mvPc' \in MvOver \cup {"idle", "probe", "checksum", "compare", "native", "truncate",
                                "read", "write", "append", "remove"}
  BY <1>1 DEF MvInv, MvTypes, MvRunning
<1> DEFINE Contents == {MvAbsent, MvTorn, 1, 2, 3}
           Held == {MvAbsent, 1, 2, 3}
           Fits == mvStore' \in [MvPlaces -> Contents] /\ mvHeld' \in Held /\ mvWritten' \in 0..MvWrites
<1>3. MvSrc \in MvPlaces /\ MvDst \in MvPlaces BY MvEnds DEF MvInv
<1>4. mvStore \in [MvPlaces -> Contents] /\ mvHeld \in Held /\ mvWritten \in 0..MvWrites BY DEF MvTypeOK
<1>5. mvStore[MvSrc] \in Contents /\ mvStore[MvSrc] # MvTorn BY <1>3, <1>4 DEF MvInv, MvWays
<1>6. Held \subseteq Contents /\ MvTorn \in Contents /\ MvAbsent \in Held /\ {1, 2, 3} \subseteq Held OBVIOUS
<1>7. mvStore[MvSrc] \in Held BY <1>5
<1>8. ASSUME MvGiven PROVE Fits
  <2>1. PICK there \in {MvAbsent, 1, 2} :
          mvStore' = [p \in MvPlaces |-> CASE p = mvCall'.src -> 1
                                           [] p # mvCall'.src /\ p = mvCall'.dst -> there
                                           [] OTHER -> MvAbsent]
    BY <1>8 DEF MvGiven
  <2>2. there \in Contents /\ 1 \in Contents /\ MvAbsent \in Contents BY <2>1
  <2> HIDE DEF Contents
  <2>3. mvStore' \in [MvPlaces -> Contents] BY <2>1, <2>2
  <2> QED BY <1>4, <1>8, <2>3 DEF MvGiven
<1> HIDE DEF Contents, Held
<1>9. ASSUME MvCall \/ MvPush \/ MvMove \/ MvReplace PROVE Fits
  <2>1. MvGiven BY <1>9 DEF MvCall, MvPush, MvMove, MvReplace, MvRename
  <2> QED BY <1>8, <2>1
<1>10. ASSUME MvProbe \/ MvCompare \/ MvFail \/ MvDone \/ UNCHANGED mvVars PROVE Fits
  BY <1>4, <1>10 DEF MvProbe, MvCompare, MvFail, MvDone, mvVars
<1>11. ASSUME MvChecksum \/ MvRead PROVE Fits
  BY <1>4, <1>7, <1>11 DEF MvChecksum, MvRead, MvTake
<1>12. ASSUME MvNative PROVE Fits
  <2>1. /\ mvHeld' = mvStore[MvSrc] /\ mvWritten' = mvWritten
        /\ mvStore' = mvStore \/ mvStore' = [mvStore EXCEPT ![MvDst] = mvStore[MvSrc]]
    BY <1>12 DEF MvNative
  <2> QED BY <1>3, <1>4, <1>5, <1>7, <2>1
<1>13. ASSUME MvTruncate \/ MvWrite \/ MvAppend \/ MvRemove PROVE Fits
  <2>1. /\ mvHeld' = mvHeld /\ mvWritten' = mvWritten
        /\ \/ mvStore' = mvStore
           \/ \E c \in {MvTorn, MvAbsent, mvHeld}, p \in {MvSrc, MvDst} : mvStore' = [mvStore EXCEPT ![p] = c]
    BY <1>13 DEF MvTruncate, MvWrite, MvAppend, MvRemove
  <2> QED BY <1>3, <1>4, <1>6, <2>1
<1>14. ASSUME MvOther PROVE Fits
  <2>1. PICK p \in {MvSrc, MvDst}, c \in {MvAbsent, 1, 3} : mvStore' = [mvStore EXCEPT ![p] = c]
    BY <1>14 DEF MvOther
  <2>2. c \in Contents BY <1>6, <2>1 DEF Contents
  <2>3. mvStore' \in [MvPlaces -> Contents] BY <1>3, <1>4, <2>1, <2>2
  <2>4. mvHeld' = mvHeld /\ mvWritten < MvWrites /\ mvWritten' = mvWritten + 1 BY <1>14 DEF MvOther
  <2> QED BY <1>4, <2>3, <2>4, MvAssumption
<1>15. Fits BY <1>9, <1>10, <1>11, <1>12, <1>13, <1>14 DEF MvNext
<1> QED BY <1>2, <1>15 DEF MvTypeOK, Contents, Held

\* A move of a tree keeps its types.
LEMMA TrTypeKept == TrInv /\ TrTypeOK /\ [TrNext]_trVars => TrTypeOK'
<1> SUFFICES ASSUME TrInv, TrTypeOK, [TrNext]_trVars PROVE TrTypeOK'
  OBVIOUS
<1>1. TrInv' BY TrStepKeeps
<1>2. /\ trPc' \in TrOver \cup {"idle", "walk", "remove"} /\ trSrc' \subseteq TrFiles
      /\ trDst' \in [TrFiles -> {"none", "old", "new"}]
  BY <1>1 DEF TrInv, TrTypes
<1> DEFINE Fits == /\ trCall' \in TrArgs /\ trToList' \subseteq TrDirs /\ trListed' \subseteq TrFiles
                   /\ trCached' \subseteq TrFiles /\ trAdded' \subseteq TrLate
<1>3. /\ trCall \in TrArgs /\ trToList \subseteq TrDirs /\ trListed \subseteq TrFiles
      /\ trCached \subseteq TrFiles /\ trAdded \subseteq TrLate /\ trSrc \subseteq TrFiles
  BY DEF TrTypeOK
<1>4. TrRoot \in TrDirs BY TrAssumption
<1>5. ASSUME TrCall PROVE Fits BY <1>3, <1>4, <1>5 DEF TrCall
<1>6. ASSUME NEW d \in TrDirs, TrWalk(d) \/ TrIterdir(d) PROVE Fits
  BY <1>3, <1>6 DEF TrWalk, TrIterdir, TrGoDown
<1>7. ASSUME NEW f \in TrFiles, TrCopyFile(f) \/ TrCopyLeaf(f) \/ TrCopyRaises(f) \/ TrRmtree(f) PROVE Fits
  BY <1>3, <1>7 DEF TrCopyFile, TrCopyLeaf, TrCopyRaises, TrRmtree
<1>8. ASSUME NEW f \in TrFiles, TrAdd(f) PROVE Fits BY <1>3, <1>8 DEF TrAdd
<1>9. ASSUME TrWalked \/ TrRemoved \/ TrFail \/ TrDone \/ UNCHANGED trVars PROVE Fits
  BY <1>3, <1>9 DEF TrWalked, TrRemoved, TrFail, TrDone, trVars
<1>10. Fits BY <1>5, <1>6, <1>7, <1>8, <1>9 DEF TrNext
<1> QED BY <1>2, <1>10 DEF TrTypeOK

\* A handle that is written to stays at its start, so every handle stands
\* within its object.
CfStill == \A h \in CfHandles : cfMode[h] # "r" => cfPos[h] = 0

\* Whatever is done with the handles.
LEMMA CfStillKept == CfInv /\ CfStill /\ [CfNext]_cfVars => CfStill'
<1> SUFFICES ASSUME CfInv, CfStill, [CfNext]_cfVars, NEW h \in CfHandles, cfMode'[h] # "r" PROVE cfPos'[h] = 0
  BY DEF CfStill
<1>1. /\ cfMode \in [CfHandles -> CfModes] /\ cfPos \in [CfHandles -> Nat] /\ CfStands(h)
      /\ cfMode[h] # "r" => cfPos[h] = 0
  BY DEF CfInv, CfTypes, CfStill
<1>2. ASSUME NEW g \in CfHandles, NEW mode \in CfModes, CfOpen(g, mode) PROVE cfPos'[h] = 0
  <2>1. cfMode' = [cfMode EXCEPT ![g] = mode] /\ cfState[g] = "none" /\ cfPos' = cfPos BY <1>2 DEF CfOpen
  <2> QED BY <1>1, <2>1 DEF CfStands
<1>3. ASSUME NEW g \in CfHandles, CfHead(g) \/ CfFetch(g) \/ CfWrite(g) \/ (\E raised \in BOOLEAN : CfExit(g, raised))
      PROVE  cfPos'[h] = 0
  BY <1>1, <1>3 DEF CfHead, CfFetch, CfWrite, CfExit
<1>4. ASSUME NEW g \in CfHandles, NEW n \in 1..CfMaxLen, CfRead(g, n) PROVE cfPos'[h] = 0
  <2>1. cfMode[g] = "r" /\ cfMode' = cfMode /\ \E to : cfPos' = [cfPos EXCEPT ![g] = to] BY <1>4 DEF CfRead
  <2> QED BY <1>1, <2>1
<1>5. ASSUME NEW g \in CfHandles, NEW offset \in -1..1, NEW whence \in 0..2, CfSeek(g, offset, whence)
      PROVE  cfPos'[h] = 0
  <2>1. cfState[g] = "lazy" /\ cfMode' = cfMode /\ \E to : cfPos' = [cfPos EXCEPT ![g] = to] BY <1>5 DEF CfSeek
  <2>2. cfMode[g] = "r" BY <2>1 DEF CfInv, CfStands
  <2> QED BY <1>1, <2>1, <2>2
<1>6. CASE CfDone \/ UNCHANGED cfVars BY <1>1, <1>6 DEF CfDone, cfVars
<1> QED BY <1>2, <1>3, <1>4, <1>5, <1>6 DEF CfNext

\* So the variables have their types.
LEMMA CfTyped == CfInv /\ CfStill => CfTypeOK
<1> SUFFICES ASSUME CfInv, CfStill PROVE CfTypeOK
  OBVIOUS
<1>1. ASSUME NEW h \in CfHandles PROVE cfPos[h] \in 0..cfSize[h] /\ cfBuf[h] \in Seq(CfBytes)
  <2>1. /\ cfPos[h] \in Nat /\ cfSize[h] \in Nat /\ cfBuf[h] \in Seq(CfBytes) /\ CfStands(h)
        /\ cfMode[h] # "r" => cfPos[h] = 0
    BY DEF CfInv, CfTypes, CfStill
  <2> QED BY <2>1 DEF CfStands
<1> QED BY <1>1 DEF CfInv, CfTypes, CfStates, CfTypeOK

\* A task has the arguments of its call, or none yet.
RfCallsFit == rfCall \in [RfTasks -> RfArgs \cup {RfNoArgs}] /\ rfCalls \in 0..RfMaxCalls

\* So the variables have their types.
LEMMA RfCallsFitTyped == RfInv /\ RfCallsFit => RfTypeOK
<1> SUFFICES ASSUME RfInv, RfCallsFit PROVE RfTypeOK
  OBVIOUS
<1>1. ASSUME NEW t \in RfTasks PROVE rfPc[t] \in RfOver \cup RfRequests
  BY DEF RfInv, RfCallFits, RfFits
<1>2. rfPc \in [RfTasks -> RfOver \cup RfRequests] BY <1>1 DEF RfInv, RfTypes
<1> QED BY <1>2 DEF RfInv, RfTypes, RfCallsFit, RfTypeOK

\* No call is under way at first.
LEMMA RfCallsFitInit == RfInit => RfCallsFit
BY RfAssumption DEF RfInit, RfCallsFit

\* Whatever the tasks call.
LEMMA RfCallsFitKept == RfCallsFit /\ [RfNext]_rfVars => RfCallsFit'
<1> SUFFICES ASSUME RfCallsFit, [RfNext]_rfVars PROVE RfCallsFit'
  OBVIOUS
<1>1. ASSUME NEW t \in RfTasks, RfCall(t) PROVE RfCallsFit'
  <2>1. PICK a \in RfArgs : rfCall' = [rfCall EXCEPT ![t] = a] BY <1>1 DEF RfCall
  <2>2. rfCalls < RfMaxCalls /\ rfCalls' = rfCalls + 1 BY <1>1 DEF RfCall
  <2>3. rfCall' \in [RfTasks -> RfArgs \cup {RfNoArgs}]
    <3> HIDE DEF RfArgs, RfNoArgs
    <3> QED BY <2>1 DEF RfCallsFit
  <2> QED BY <2>2, <2>3, RfAssumption DEF RfCallsFit
<1>2. ASSUME NEW t \in RfTasks,
             \/ RfExists(t) \/ RfStamp(t) \/ RfPut(t) \/ RfTruncate(t) \/ RfAppend(t) \/ RfProbe(t) \/ RfMove(t)
             \/ RfRead(t) \/ RfUnlink(t) \/ RfMkdir(t) \/ RfRecheck(t) \/ RfAttrs(t) \/ RfChmod(t) \/ RfFail(t)
      PROVE  UNCHANGED <<rfCall, rfCalls>>
  BY <1>2 DEF RfExists, RfStamp, RfPut, RfTruncate, RfAppend, RfProbe, RfMove, RfRead, RfUnlink, RfMkdir,
              RfRecheck, RfAttrs, RfChmod, RfFail
<1>3. RfDone \/ UNCHANGED rfVars => UNCHANGED <<rfCall, rfCalls>> BY DEF RfDone, rfVars
<1>4. UNCHANGED <<rfCall, rfCalls>> => RfCallsFit' BY DEF RfCallsFit
<1> QED BY <1>1, <1>2, <1>3, <1>4 DEF RfNext

\* No content of a local file is longer than a file, and no call copies more.
CpShort ==
    /\ cpData \in [CpInodes -> Seq(0..CpVersions)]
    /\ \A i \in CpInodes : Len(cpData[i]) <= CpFileSize
    /\ \A c \in CpCalls : cpPos[c] <= CpFileSize
    /\ cpTemp \subseteq CpCalls
CpBase == CpTypes /\ (\A c \in CpCalls : CpHandles(c)) /\ CpShort

\* So the variables have their types.
LEMMA CpBaseTyped == CpBase => CpTypeOK
<1> SUFFICES ASSUME CpBase PROVE CpTypeOK
  OBVIOUS
<1>1. \A c \in CpCalls : cpPos[c] \in Nat /\ cpPos[c] <= CpFileSize BY DEF CpBase, CpTypes, CpShort
<1>2. cpPos \in [CpCalls -> 0..CpFileSize] BY <1>1, CpAssumption DEF CpBase, CpTypes
<1> QED BY <1>2 DEF CpBase, CpTypes, CpPlaces, CpShort, CpTypeOK

\* Inodes are numbered from 1, as many as may be needed.
LEMMA CpNumbers == CpInodes \subseteq Nat \ {0}
<1>1. Cardinality(CpEntries) \in Nat /\ Cardinality(CpCalls) \in Nat BY CpAssumption, FS_CardinalityType
<1> QED BY <1>1 DEF CpInodes

\* It holds of the files at the start.
LEMMA CpBaseInit == CpInit => CpBase
<1> SUFFICES ASSUME CpInit PROVE CpBase
  OBVIOUS
<1>1. CpTypes /\ \A c \in CpCalls : CpHandles(c) BY CpInitHolds DEF CpInv
<1>2. PICK version \in [CpEntries -> 0..CpVersions] :
        cpData = [i \in CpInodes |->
                      IF \E e \in CpEntries : CpFirstInode[e] = i
                      THEN [k \in 1..CpFileSize |-> version[CHOOSE e \in CpEntries : CpFirstInode[e] = i]]
                      ELSE <<>>]
  BY DEF CpInit
<1>3. CpFileSize \in Nat BY CpAssumption
<1>4. ASSUME NEW i \in CpInodes PROVE cpData[i] \in Seq(0..CpVersions) /\ Len(cpData[i]) <= CpFileSize
  <2>1. CASE \E e \in CpEntries : CpFirstInode[e] = i
    <3> DEFINE e == CHOOSE f \in CpEntries : CpFirstInode[f] = i
    <3>1. e \in CpEntries BY <2>1
    <3> HIDE DEF e
    <3>2. version[e] \in 0..CpVersions BY <3>1
    <3>3. cpData[i] = [k \in 1..CpFileSize |-> version[e]] BY <1>2, <2>1 DEF e
    <3>4. [k \in 1..CpFileSize |-> version[e]] \in Seq(0..CpVersions)
          /\ Len([k \in 1..CpFileSize |-> version[e]]) = CpFileSize
      BY <1>3, <3>2
    <3> QED BY <1>3, <3>3, <3>4
  <2>2. CASE ~\E e \in CpEntries : CpFirstInode[e] = i
    <3>1. cpData[i] = <<>> BY <1>2, <2>2
    <3>2. Len(cpData[i]) = 0 BY <3>1
    <3> QED BY <1>3, <3>1, <3>2
  <2> QED BY <2>1, <2>2
<1>5. cpData \in [CpInodes -> Seq(0..CpVersions)]
  <2>1. cpData = [i \in CpInodes |-> cpData[i]] BY <1>2
  <2> QED BY <1>4, <2>1
<1>6. cpPos = [c \in CpCalls |-> 0] /\ cpTemp = {} BY DEF CpInit
<1>7. \A c \in CpCalls : cpPos[c] <= CpFileSize BY <1>3, <1>6
<1> QED BY <1>1, <1>4, <1>5, <1>6, <1>7 DEF CpBase, CpShort

\* A sequence of some elements is one of more elements.
LEMMA WiderSeq == ASSUME NEW S, NEW T, S \subseteq T, NEW s \in Seq(S) PROVE s \in Seq(T)
<1>1. Len(s) \in Nat /\ s = [i \in 1..Len(s) |-> s[i]] /\ \A i \in 1..Len(s) : s[i] \in S OBVIOUS
<1> DEFINE n == Len(s)
<1>2. n \in Nat /\ \A i \in 1..n : s[i] \in T BY <1>1
<1> HIDE DEF n
<1>3. [i \in 1..n |-> s[i]] \in Seq(T) BY <1>2
<1> QED BY <1>1, <1>3 DEF n

\* A step of a call that leaves the content of the files short, with the handles
\* it then has.
LEMMA CpBaseMoves ==
    ASSUME CpBase, NEW c \in CpCalls, NEW place \in CpPlaces \ {"idle"},
           NEW a \in CpArgRecords, NEW source \in CpInodes \cup {0}, NEW target \in CpInodes \cup {0},
           NEW pos \in 0..CpFileSize,
           cpPc' = [cpPc EXCEPT ![c] = place], cpArgs' = [cpArgs EXCEPT ![c] = a],
           cpSource' = [cpSource EXCEPT ![c] = source], cpTarget' = [cpTarget EXCEPT ![c] = target],
           cpPos' = [cpPos EXCEPT ![c] = pos],
           place \in {"inspect", "rename", "stage"} => source = 0 /\ target = 0 /\ pos = 0,
           place \in {"copy", "commit"} => source # 0 /\ target # 0,
           place \in {"copy", "commit", "stage"} => ~a.kind.rename,
           place = "rename" => a.kind.rename, place = "commit" => a.kind.atomic,
           cpDir' \in [CpEntries -> CpInodes \cup {0}],
           cpData' \in [CpInodes -> Seq(0..CpVersions)], \A i \in CpInodes : Len(cpData'[i]) <= CpFileSize,
           cpTemp' \subseteq CpCalls
    PROVE  CpBase'
<1>1. CpTypes /\ (\A d \in CpCalls : CpHandles(d)) /\ CpShort BY DEF CpBase
<1>2. /\ cpPc'[c] = place /\ cpArgs'[c] = a /\ cpSource'[c] = source /\ cpTarget'[c] = target /\ cpPos'[c] = pos
      /\ \A d \in CpCalls : d # c => /\ cpPc'[d] = cpPc[d] /\ cpArgs'[d] = cpArgs[d] /\ cpSource'[d] = cpSource[d]
                                     /\ cpTarget'[d] = cpTarget[d] /\ cpPos'[d] = cpPos[d]
  BY <1>1 DEF CpTypes
<1>3. cpData' \in [CpInodes -> Seq(Nat)]
  <2>1. 0..CpVersions \subseteq Nat BY CpAssumption
  <2>2. \A i \in CpInodes : cpData'[i] \in Seq(Nat) BY <2>1, WiderSeq
  <2> QED BY <2>2
<1>4. pos \in Nat /\ pos <= CpFileSize BY CpAssumption
<1>5. CpTypes'
  <2>1. /\ cpPc' \in [CpCalls -> CpPlaces] /\ cpArgs' \in [CpCalls -> CpArgRecords \cup {CpNoArgs}]
        /\ cpSource' \in [CpCalls -> CpInodes \cup {0}] /\ cpTarget' \in [CpCalls -> CpInodes \cup {0}]
        /\ cpPos' \in [CpCalls -> Nat]
    <3> HIDE DEF CpArgRecords, CpNoArgs
    <3> QED BY <1>1, <1>4 DEF CpTypes
  <2>2. \A d \in CpCalls : cpPc'[d] # "idle" => cpArgs'[d] \in CpArgRecords BY <1>1, <1>2 DEF CpTypes
  <2> QED BY <1>3, <2>1, <2>2 DEF CpTypes
<1>6. ASSUME NEW d \in CpCalls PROVE CpHandles(d)'
  <2>1. CASE d = c
    <3>1. place # "idle" OBVIOUS
    <3> QED BY <1>2, <2>1, <3>1 DEF CpHandles, CpCopying
  <2>2. CASE d # c BY <1>1, <1>2, <2>2 DEF CpHandles, CpCopying
  <2> QED BY <2>1, <2>2
<1>7. \A d \in CpCalls : cpPos'[d] <= CpFileSize BY <1>1, <1>2, <1>4 DEF CpShort
<1>8. CpShort' BY <1>7 DEF CpShort
<1> QED BY <1>5, <1>6, <1>8 DEF CpBase

\* A call that has not ended has the arguments it was made with.
LEMMA CpBaseArgs ==
    ASSUME CpBase, NEW c \in CpCalls, cpPc[c] # "idle"
    PROVE  /\ cpArgs[c] \in CpArgRecords /\ cpArgs = [cpArgs EXCEPT ![c] = cpArgs[c]]
           /\ cpSource = [cpSource EXCEPT ![c] = cpSource[c]] /\ cpTarget = [cpTarget EXCEPT ![c] = cpTarget[c]]
           /\ cpPos = [cpPos EXCEPT ![c] = cpPos[c]]
           /\ cpSource[c] \in CpInodes \cup {0} /\ cpTarget[c] \in CpInodes \cup {0} /\ cpPos[c] \in 0..CpFileSize
           /\ CpEntryOf[cpArgs[c].src] \in CpEntries /\ CpEntryOf[cpArgs[c].dst] \in CpEntries
<1>1. CpTypes /\ CpShort BY DEF CpBase
<1>2. cpArgs[c] \in CpArgRecords /\ cpPos[c] \in Nat /\ cpPos[c] <= CpFileSize BY <1>1 DEF CpTypes, CpShort
<1>3. cpArgs[c].src \in CpPaths /\ cpArgs[c].dst \in CpPaths BY <1>2 DEF CpArgRecords
<1>4. /\ cpArgs = [cpArgs EXCEPT ![c] = cpArgs[c]]
      /\ cpSource = [cpSource EXCEPT ![c] = cpSource[c]] /\ cpTarget = [cpTarget EXCEPT ![c] = cpTarget[c]]
      /\ cpPos = [cpPos EXCEPT ![c] = cpPos[c]]
  <2> HIDE DEF CpArgRecords, CpNoArgs
  <2> QED BY <1>1 DEF CpTypes
<1> QED BY <1>1, <1>2, <1>3, <1>4, CpAssumption DEF CpTypes

\* Steps that touch no content and no handle.
LEMMA CpBasePlaces ==
    ASSUME CpBase, NEW c \in CpCalls, cpPc[c] # "idle", NEW place \in CpPlaces \ {"idle"},
           cpPc' = [cpPc EXCEPT ![c] = place],
           UNCHANGED <<cpData, cpArgs, cpSource, cpTarget, cpPos>>, cpTemp' \subseteq cpTemp,
           cpDir' \in [CpEntries -> CpInodes \cup {0}],
           \/ place \in CpOver \cup {"remove"}
           \/ place = "rename" /\ cpPc[c] = "inspect" /\ cpArgs[c].kind.rename
           \/ place = "stage" /\ cpPc[c] = "inspect" /\ ~cpArgs[c].kind.rename
           \/ place = "commit" /\ cpPc[c] = "copy" /\ cpArgs[c].kind.atomic
    PROVE  CpBase'
<1>1. CpTypes /\ CpHandles(c) /\ CpShort BY DEF CpBase
<1>2. place \notin {"inspect", "copy"} BY DEF CpOver
<1>3. place \in {"rename", "stage"} => cpSource[c] = 0 /\ cpTarget[c] = 0 /\ cpPos[c] = 0
  BY <1>1 DEF CpHandles, CpOver
<1>4. place = "commit" => cpSource[c] # 0 /\ cpTarget[c] # 0 /\ ~cpArgs[c].kind.rename /\ cpArgs[c].kind.atomic
  BY <1>1 DEF CpHandles, CpCopying, CpOver
<1>5. (place = "rename" => cpArgs[c].kind.rename) /\ (place = "stage" => ~cpArgs[c].kind.rename)
  BY DEF CpOver
<1>6. /\ cpData' \in [CpInodes -> Seq(0..CpVersions)] /\ \A i \in CpInodes : Len(cpData'[i]) <= CpFileSize
      /\ cpTemp' \subseteq CpCalls
  BY <1>1 DEF CpShort
<1> DEFINE a == cpArgs[c]
           source == cpSource[c]
           target == cpTarget[c]
           pos == cpPos[c]
<1>7. /\ a \in CpArgRecords /\ source \in CpInodes \cup {0} /\ target \in CpInodes \cup {0} /\ pos \in 0..CpFileSize
      /\ cpArgs' = [cpArgs EXCEPT ![c] = a] /\ cpSource' = [cpSource EXCEPT ![c] = source]
      /\ cpTarget' = [cpTarget EXCEPT ![c] = target] /\ cpPos' = [cpPos EXCEPT ![c] = pos]
  BY CpBaseArgs
<1>8. /\ place \in {"inspect", "rename", "stage"} => source = 0 /\ target = 0 /\ pos = 0
      /\ place \in {"copy", "commit"} => source # 0 /\ target # 0
      /\ place \in {"copy", "commit", "stage"} => ~a.kind.rename
      /\ place = "rename" => a.kind.rename
      /\ place = "commit" => a.kind.atomic
  BY <1>2, <1>3, <1>4, <1>5
<1> HIDE DEF a, source, target, pos
<1> QED BY <1>6, <1>7, <1>8, CpBaseMoves

\* A call begins.
LEMMA CpBaseCall == ASSUME CpBase, NEW c \in CpCalls, CpCall(c) PROVE CpBase'
<1>1. /\ cpPc[c] = "idle" /\ UNCHANGED <<cpDir, cpData, cpSource, cpTarget, cpPos, cpTemp>>
      /\ cpPc' = [cpPc EXCEPT ![c] = "inspect"]
  BY DEF CpCall
<1>2. PICK s \in CpPaths, d \in CpPaths, k \in CpKinds :
        cpArgs' = [cpArgs EXCEPT ![c] = [src |-> s, dst |-> d, kind |-> k]]
  BY DEF CpCall
<1> DEFINE a == [src |-> s, dst |-> d, kind |-> k]
<1>3. a \in CpArgRecords BY <1>2, CpAssumption DEF CpArgRecords
<1>4. cpArgs' = [cpArgs EXCEPT ![c] = a] BY <1>2
<1>5. CpTypes /\ CpHandles(c) /\ CpShort BY DEF CpBase
<1>6. cpSource[c] = 0 /\ cpTarget[c] = 0 /\ cpPos[c] = 0 BY <1>1, <1>5 DEF CpHandles
<1>7. /\ cpSource' = [cpSource EXCEPT ![c] = 0] /\ cpTarget' = [cpTarget EXCEPT ![c] = 0]
      /\ cpPos' = [cpPos EXCEPT ![c] = 0]
  BY <1>1, <1>5, <1>6 DEF CpTypes
<1>8. /\ cpDir' \in [CpEntries -> CpInodes \cup {0}]
      /\ cpData' \in [CpInodes -> Seq(0..CpVersions)] /\ \A i \in CpInodes : Len(cpData'[i]) <= CpFileSize
      /\ cpTemp' \subseteq CpCalls
  BY <1>1, <1>5 DEF CpTypes, CpShort
<1>9. 0 \in CpInodes \cup {0} /\ 0 \in 0..CpFileSize /\ "inspect" \in CpPlaces \ {"idle"}
  BY CpAssumption DEF CpPlaces
<1> HIDE DEF a
<1> QED BY <1>1, <1>3, <1>4, <1>7, <1>8, <1>9, CpBaseMoves

\* A call opens its source, and a temporary file when it stages.
LEMMA CpBaseStage == ASSUME CpBase, NEW c \in CpCalls, CpStage(c) PROVE CpBase'
<1>1. CpTypes /\ CpHandles(c) /\ CpShort BY DEF CpBase
<1>2. /\ cpPc[c] = "stage" /\ CpFile(cpArgs[c].src) # 0 /\ cpPc' = [cpPc EXCEPT ![c] = "copy"]
      /\ cpSource' = [cpSource EXCEPT ![c] = CpFile(cpArgs[c].src)] /\ UNCHANGED <<cpArgs, cpPos>>
  BY DEF CpStage
<1>3. cpSource[c] = 0 /\ cpTarget[c] = 0 /\ cpPos[c] = 0 /\ ~cpArgs[c].kind.rename
  BY <1>1, <1>2 DEF CpHandles
<1>4. /\ cpArgs[c] \in CpArgRecords /\ cpArgs = [cpArgs EXCEPT ![c] = cpArgs[c]]
      /\ cpPos = [cpPos EXCEPT ![c] = 0]
      /\ CpEntryOf[cpArgs[c].src] \in CpEntries /\ CpEntryOf[cpArgs[c].dst] \in CpEntries
  BY <1>2, <1>3, CpBaseArgs
<1>5. CpFile(cpArgs[c].src) \in CpInodes /\ CpFile(cpArgs[c].dst) \in CpInodes \cup {0}
  BY <1>1, <1>2, <1>4 DEF CpTypes, CpFile
<1>6. CpNewInode \in CpInodes BY <1>1, <1>3, CpFresh
<1>7. \E opened \in CpInodes :
        /\ cpTarget' = [cpTarget EXCEPT ![c] = opened] /\ cpData' = [cpData EXCEPT ![opened] = <<>>]
        /\ \/ cpTemp' = cpTemp \cup {c} /\ cpDir' = cpDir
           \/ cpDir' = [cpDir EXCEPT ![CpEntryOf[cpArgs[c].dst]] = opened] /\ cpTemp' = cpTemp
  <2>1. CASE /\ cpTarget' = [cpTarget EXCEPT ![c] = CpNewInode]
             /\ cpData' = [cpData EXCEPT ![CpNewInode] = <<>>]
             /\ cpTemp' = cpTemp \cup {c} /\ cpDir' = cpDir
    BY <1>6, <2>1
  <2>2. CASE LET opened == IF CpFile(cpArgs[c].dst) = 0 THEN CpNewInode ELSE CpFile(cpArgs[c].dst)
             IN  /\ cpTarget' = [cpTarget EXCEPT ![c] = opened] /\ cpData' = [cpData EXCEPT ![opened] = <<>>]
                 /\ cpDir' = [cpDir EXCEPT ![CpEntryOf[cpArgs[c].dst]] = opened] /\ cpTemp' = cpTemp
    <3> DEFINE opened == IF CpFile(cpArgs[c].dst) = 0 THEN CpNewInode ELSE CpFile(cpArgs[c].dst)
    <3>1. opened \in CpInodes BY <1>5, <1>6
    <3>2. /\ cpTarget' = [cpTarget EXCEPT ![c] = opened] /\ cpData' = [cpData EXCEPT ![opened] = <<>>]
          /\ cpDir' = [cpDir EXCEPT ![CpEntryOf[cpArgs[c].dst]] = opened] /\ cpTemp' = cpTemp
      BY <2>2
    <3> HIDE DEF opened
    <3> QED BY <3>1, <3>2
  <2> QED BY <2>1, <2>2 DEF CpStage
<1>8. PICK opened \in CpInodes :
        /\ cpTarget' = [cpTarget EXCEPT ![c] = opened] /\ cpData' = [cpData EXCEPT ![opened] = <<>>]
        /\ \/ cpTemp' = cpTemp \cup {c} /\ cpDir' = cpDir
           \/ cpDir' = [cpDir EXCEPT ![CpEntryOf[cpArgs[c].dst]] = opened] /\ cpTemp' = cpTemp
  BY <1>7
<1>9. opened # 0 /\ CpFile(cpArgs[c].src) # 0 /\ opened \in CpInodes \cup {0} /\ CpFile(cpArgs[c].src) \in CpInodes \cup {0}
  BY <1>2, <1>5, CpNumbers
<1>10. /\ cpDir' \in [CpEntries -> CpInodes \cup {0}] /\ cpTemp' \subseteq CpCalls
  BY <1>1, <1>4, <1>8 DEF CpTypes, CpShort
<1>11. cpData' \in [CpInodes -> Seq(0..CpVersions)] /\ \A i \in CpInodes : Len(cpData'[i]) <= CpFileSize
  <2>1. <<>> \in Seq(0..CpVersions) /\ Len(<<>>) = 0 /\ CpFileSize \in Nat BY CpAssumption
  <2>2. \A i \in CpInodes : cpData'[i] = IF i = opened THEN <<>> ELSE cpData[i] BY <1>1, <1>8 DEF CpTypes
  <2>3. cpData' \in [CpInodes -> Seq(0..CpVersions)] BY <1>1, <1>8, <2>1 DEF CpShort
  <2> QED BY <1>1, <2>1, <2>2, <2>3 DEF CpShort
<1>12. "copy" \in CpPlaces \ {"idle"} /\ 0 \in 0..CpFileSize BY CpAssumption DEF CpPlaces
<1> DEFINE a == cpArgs[c]
           source == CpFile(cpArgs[c].src)
<1>13. a \in CpArgRecords /\ ~a.kind.rename /\ cpArgs' = [cpArgs EXCEPT ![c] = a] /\ cpPos' = [cpPos EXCEPT ![c] = 0]
       /\ source \in CpInodes \cup {0} /\ source # 0 /\ cpSource' = [cpSource EXCEPT ![c] = source]
  BY <1>2, <1>3, <1>4, <1>9
<1> HIDE DEF a, source
<1> QED BY <1>2, <1>8, <1>9, <1>10, <1>11, <1>12, <1>13, CpBaseMoves

\* One block is written at the handle's position: the content grows to it at most.
LEMMA CpWrites ==
    ASSUME NEW content \in Seq(0..CpVersions), Len(content) <= CpFileSize, CpVersions \in Nat,
           NEW at \in Nat, at < CpFileSize, NEW block \in 0..CpVersions, CpFileSize \in Nat
    PROVE  CpWritten(content, at, block) \in Seq(0..CpVersions) /\ Len(CpWritten(content, at, block)) <= CpFileSize
<1> DEFINE n == IF Len(content) > at THEN Len(content) ELSE at + 1
           v(i) == IF i = at + 1 THEN block ELSE IF i <= Len(content) THEN content[i] ELSE CpHole
<1>1. n \in Nat /\ n <= CpFileSize OBVIOUS
<1>2. \A i \in 1..n : v(i) \in 0..CpVersions BY DEF CpHole
<1> HIDE DEF n, v
<1>3. [i \in 1..n |-> v(i)] \in Seq(0..CpVersions) /\ Len([i \in 1..n |-> v(i)]) = n BY <1>1, <1>2
<1> QED BY <1>1, <1>3 DEF CpWritten, n, v

\* A call copies a block.
LEMMA CpBaseCopyBlock == ASSUME CpBase, NEW c \in CpCalls, CpCopyBlock(c) PROVE CpBase'
<1>1. CpTypes /\ CpHandles(c) /\ CpShort BY DEF CpBase
<1>2. /\ cpPc[c] = "copy" /\ cpPos[c] < Len(cpData[cpSource[c]])
      /\ cpData' = [cpData EXCEPT ![cpTarget[c]] =
                       CpWritten(cpData[cpTarget[c]], cpPos[c], cpData[cpSource[c]][cpPos[c] + 1])]
      /\ cpPos' = [cpPos EXCEPT ![c] = cpPos[c] + 1]
      /\ UNCHANGED <<cpDir, cpPc, cpArgs, cpSource, cpTarget, cpTemp>>
  BY DEF CpCopyBlock
<1>3. cpSource[c] # 0 /\ cpTarget[c] # 0 /\ ~cpArgs[c].kind.rename BY <1>1, <1>2 DEF CpHandles, CpCopying
<1>4. /\ cpArgs[c] \in CpArgRecords /\ cpArgs = [cpArgs EXCEPT ![c] = cpArgs[c]]
      /\ cpSource = [cpSource EXCEPT ![c] = cpSource[c]] /\ cpTarget = [cpTarget EXCEPT ![c] = cpTarget[c]]
      /\ cpSource[c] \in CpInodes /\ cpTarget[c] \in CpInodes /\ cpPos[c] \in 0..CpFileSize
      /\ cpPc = [cpPc EXCEPT ![c] = "copy"]
  BY <1>1, <1>2, <1>3, CpBaseArgs DEF CpTypes
<1> DEFINE from == cpData[cpSource[c]]
           to == cpData[cpTarget[c]]
           at == cpPos[c]
           block == from[at + 1]
<1>5. from \in Seq(0..CpVersions) /\ to \in Seq(0..CpVersions) /\ Len(to) <= CpFileSize /\ Len(from) <= CpFileSize
  BY <1>1, <1>4 DEF CpShort
<1>6. at \in Nat /\ at < Len(from) /\ CpFileSize \in Nat /\ CpVersions \in Nat BY <1>2, <1>4, CpAssumption
<1>7. cpData' = [cpData EXCEPT ![cpTarget[c]] = CpWritten(to, at, block)] BY <1>2
<1>8. cpPos' = [cpPos EXCEPT ![c] = at + 1] BY <1>2
<1> HIDE DEF from, to, at
<1>9. at < CpFileSize /\ at + 1 \in 0..CpFileSize /\ block \in 0..CpVersions BY <1>5, <1>6
<1> HIDE DEF block
<1>10. CpWritten(to, at, block) \in Seq(0..CpVersions) /\ Len(CpWritten(to, at, block)) <= CpFileSize
  BY <1>5, <1>6, <1>9, CpWrites
<1>11. cpData' \in [CpInodes -> Seq(0..CpVersions)] /\ \A i \in CpInodes : Len(cpData'[i]) <= CpFileSize
  <2> DEFINE written == CpWritten(to, at, block)
  <2>1. written \in Seq(0..CpVersions) /\ Len(written) <= CpFileSize BY <1>10
  <2>2. cpData' = [cpData EXCEPT ![cpTarget[c]] = written] BY <1>7
  <2> HIDE DEF written
  <2>3. \A i \in CpInodes : cpData'[i] = IF i = cpTarget[c] THEN written ELSE cpData[i] BY <1>1, <2>2 DEF CpTypes
  <2> QED BY <1>1, <2>1, <2>2, <2>3 DEF CpShort
<1>12. "copy" \in CpPlaces \ {"idle"} BY DEF CpPlaces
<1> DEFINE a == cpArgs[c]
           source == cpSource[c]
           target == cpTarget[c]
           pos == at + 1
<1>13. /\ a \in CpArgRecords /\ ~a.kind.rename /\ cpArgs' = [cpArgs EXCEPT ![c] = a]
       /\ source \in CpInodes \cup {0} /\ target \in CpInodes \cup {0} /\ source # 0 /\ target # 0 /\ pos \in 0..CpFileSize
       /\ cpSource' = [cpSource EXCEPT ![c] = source] /\ cpTarget' = [cpTarget EXCEPT ![c] = target]
       /\ cpPos' = [cpPos EXCEPT ![c] = pos] /\ cpPc' = [cpPc EXCEPT ![c] = "copy"]
  BY <1>2, <1>3, <1>4, <1>8, <1>9
<1>14. cpDir' \in [CpEntries -> CpInodes \cup {0}] /\ cpTemp' \subseteq CpCalls BY <1>1, <1>2 DEF CpTypes, CpShort
<1> HIDE DEF a, source, target, pos
<1> QED BY <1>11, <1>12, <1>13, <1>14, CpBaseMoves

\* The other steps of a call.
LEMMA CpBaseRest ==
    ASSUME CpBase, NEW c \in CpCalls,
           \/ CpInspect(c) \/ CpRename(c) \/ CpStageFails(c) \/ CpCopyFails(c) \/ CpCopyEnds(c)
           \/ CpCommit(c) \/ CpRemove(c) \/ CpKill(c)
    PROVE  CpBase'
<1>1. CpTypes /\ CpHandles(c) /\ CpShort BY DEF CpBase
<1>2. CASE CpInspect(c)
  <2> DEFINE copying == IF cpArgs[c].kind.rename THEN "rename" ELSE "stage"
             place == CASE CpSamePath(c) -> "remove"
                        [] ~CpSamePath(c) /\ CpFile(cpArgs[c].dst) = 0 -> copying
                        [] ~CpSamePath(c) /\ CpFile(cpArgs[c].dst) # 0 /\ CpFile(cpArgs[c].src) = 0 -> "error"
                        [] OTHER -> IF CpSameContent(c) THEN "remove"
                                    ELSE IF cpArgs[c].kind.force THEN copying ELSE "error"
  <2>1. place \in {"remove", "error", copying} OBVIOUS
  <2>2. (copying = "rename" /\ cpArgs[c].kind.rename) \/ (copying = "stage" /\ ~cpArgs[c].kind.rename) OBVIOUS
  <2>3. /\ cpPc[c] = "inspect" /\ cpPc' = [cpPc EXCEPT ![c] = place]
        /\ UNCHANGED <<cpDir, cpData, cpArgs, cpSource, cpTarget, cpPos, cpTemp>>
    BY <1>2 DEF CpInspect
  <2> HIDE DEF place, copying
  <2>4. place \in CpPlaces \ {"idle"} BY <2>1, <2>2 DEF CpPlaces, CpOver
  <2>5. cpDir' \in [CpEntries -> CpInodes \cup {0}] BY <1>1, <2>3 DEF CpTypes
  <2>6. \/ place \in CpOver \cup {"remove"}
        \/ place = "rename" /\ cpPc[c] = "inspect" /\ cpArgs[c].kind.rename
        \/ place = "stage" /\ cpPc[c] = "inspect" /\ ~cpArgs[c].kind.rename
    BY <2>1, <2>2, <2>3 DEF CpOver
  <2> QED BY <2>3, <2>4, <2>5, <2>6, CpBasePlaces
<1>3. CASE CpRename(c) \/ CpStageFails(c) \/ CpCopyFails(c) \/ CpCommit(c) \/ CpRemove(c) \/ CpKill(c)
  <2>1. /\ cpPc[c] # "idle" /\ UNCHANGED <<cpData, cpArgs, cpSource, cpTarget, cpPos>> /\ cpTemp' \subseteq cpTemp
        /\ \E place \in CpOver \cup {"remove"} : cpPc' = [cpPc EXCEPT ![c] = place]
    BY <1>3 DEF CpRename, CpStageFails, CpCopyFails, CpCommit, CpRemove, CpKill, CpOver
  <2>2. /\ cpArgs[c] \in CpArgRecords /\ cpTarget[c] \in CpInodes \cup {0}
        /\ CpEntryOf[cpArgs[c].src] \in CpEntries /\ CpEntryOf[cpArgs[c].dst] \in CpEntries
    BY <2>1, CpBaseArgs
  <2> DEFINE s == CpEntryOf[cpArgs[c].src]
             d == CpEntryOf[cpArgs[c].dst]
  <2>3. \/ cpDir' = cpDir \/ cpDir' = [cpDir EXCEPT ![d] = cpDir[s], ![s] = 0]
        \/ cpDir' = [cpDir EXCEPT ![d] = cpTarget[c]] \/ cpDir' = [cpDir EXCEPT ![s] = 0]
    BY <1>3 DEF CpRename, CpStageFails, CpCopyFails, CpCommit, CpRemove, CpKill, CpFile
  <2>4. s \in CpEntries /\ d \in CpEntries BY <2>2
  <2> HIDE DEF s, d
  <2>5. cpDir' \in [CpEntries -> CpInodes \cup {0}] BY <1>1, <2>2, <2>3, <2>4 DEF CpTypes
  <2>6. PICK place \in CpOver \cup {"remove"} : cpPc' = [cpPc EXCEPT ![c] = place] BY <2>1
  <2>7. place \in CpPlaces \ {"idle"} BY <2>6 DEF CpPlaces, CpOver
  <2> QED BY <2>1, <2>5, <2>6, <2>7, CpBasePlaces
<1>4. CASE CpCopyEnds(c)
  <2> DEFINE place == IF CpStages(c) THEN "commit" ELSE "remove"
  <2>1. /\ cpPc[c] = "copy" /\ UNCHANGED <<cpDir, cpData, cpArgs, cpSource, cpTarget, cpPos, cpTemp>>
        /\ cpPc' = [cpPc EXCEPT ![c] = place]
    BY <1>4 DEF CpCopyEnds
  <2>2. place = "remove" \/ (place = "commit" /\ cpArgs[c].kind.atomic) BY DEF CpStages
  <2>3. cpDir' \in [CpEntries -> CpInodes \cup {0}] /\ cpPc[c] # "idle" BY <1>1, <2>1 DEF CpTypes
  <2> HIDE DEF place
  <2>4. place \in CpPlaces \ {"idle"} BY <2>2 DEF CpPlaces
  <2>5. \/ place \in CpOver \cup {"remove"}
        \/ place = "commit" /\ cpPc[c] = "copy" /\ cpArgs[c].kind.atomic
    BY <2>1, <2>2
  <2> QED BY <2>1, <2>3, <2>4, <2>5, CpBasePlaces
<1> QED BY <1>2, <1>3, <1>4

\* Whatever the calls do.
LEMMA CpBaseKept == CpBase /\ [CpNext \/ CpDone]_cpVars => CpBase'
<1> SUFFICES ASSUME CpBase, [CpNext \/ CpDone]_cpVars PROVE CpBase'
  OBVIOUS
<1>1. ASSUME NEW c \in CpCalls, CpStep(c) PROVE CpBase'
  BY <1>1, CpBaseCall, CpBaseStage, CpBaseCopyBlock, CpBaseRest DEF CpStep
<1>2. CASE UNCHANGED cpVars
  <2>1. UNCHANGED <<cpDir, cpData, cpPc, cpArgs, cpSource, cpTarget, cpPos, cpTemp>> BY <1>2 DEF cpVars
  <2>2. CpTypes' BY <2>1 DEF CpBase, CpTypes
  <2>3. CpShort' BY <2>1 DEF CpBase, CpShort
  <2>4. \A c \in CpCalls : CpHandles(c)' BY <2>1 DEF CpBase, CpHandles, CpCopying
  <2> QED BY <2>2, <2>3, <2>4 DEF CpBase
<1> QED BY <1>1, <1>2 DEF CpNext, CpDone

\* They begin with their types.
LEMMA MvTypeInit == MvInit => MvTypeOK
<1> SUFFICES ASSUME MvInit PROVE MvTypeOK
  OBVIOUS
<1>1. MvInv BY MvInitHolds
<1> QED BY <1>1, MvAssumption DEF MvInit, MvTypeOK, MvInv, MvTypes

\* The variables of a tree move have their types at first.
LEMMA TrTypeInit == TrInit => TrTypeOK
<1> SUFFICES ASSUME TrInit PROVE TrTypeOK
  OBVIOUS
<1>1. TrInv BY TrInitHolds
<1> QED BY <1>1 DEF TrInit, TrTypeOK, TrInv, TrTypes, TrNoCall, TrArgs

\* No handle is open at first.
LEMMA CfStillInit == CfInit => CfStill
BY DEF CfInit, CfStill

\* Whatever calls, failures and other writers meet in them, every variable of the
\* components that move content keeps its type: in particular a download never
\* counts more than it found the object to have (cloud.py, download), the position
\* of a file handle is one of its object's (_CloudRawIO.seek), no local copy is
\* longer than a file (_transfer.py, local_copy_file_sync), and a command has an
\* exit code when, and only when, it has left (cli.py).
THEOREM TransfersTyped == Spec => []TransfersTypeOK
<1> DEFINE All == /\ suite = "resume"    => RdInv /\ RdBounded
                  /\ suite = "ranges"    => RtInv /\ RtOfBatch
                  /\ suite = "local"     => CpBase
                  /\ suite = "move"      => MvInv /\ MvTypeOK
                  /\ suite = "tree"      => TrInv /\ TrTypeOK
                  /\ suite = "file"      => CfInv /\ CfStill
                  /\ suite = "mv"        => CmInv /\ CmWithin
                  /\ suite = "progress"  => PgTypeOK
                  /\ suite = "remote"    => RfInv /\ RfCallsFit
                  /\ suite = "tokens"    => TkInv /\ TkTypeOK
                  /\ suite \in {"resume", "ranges", "local", "move", "tree", "file", "mv", "progress",
                                "remote", "tokens"}
<1>1. Init => All
  BY RdInitHolds, RdBoundedInit, RtInitHolds, RtOfBatchInit, CpBaseInit, MvInitHolds, MvTypeInit, TrInitHolds,
     TrTypeInit, CfInitHolds, CfStillInit, CmInitHolds, CmWithinInit, PgTypeInit, RfInitHolds, RfCallsFitInit,
     TkInitHolds, TkTypeInit
  DEF Init
<1>2. All /\ [Next]_allVars => All'
  <2> SUFFICES ASSUME All, [Next]_allVars PROVE All'
    OBVIOUS
  <2>1. suite' = suite BY DEF Next, allVars
  <2>2. CASE suite = "resume"
    <3>1. [RdNext \/ RdStopped]_rdVars BY <2>2 DEF Next, allVars, downloads
    <3> QED BY <2>1, <2>2, <3>1, RdStepKeeps, RdBoundedKept
  <2>3. CASE suite = "ranges"
    <3>1. [RtNext]_rtVars BY <2>3 DEF Next, allVars, downloads
    <3> QED BY <2>1, <2>3, <3>1, RtStepKeeps, RtOfBatchKept
  <2>4. CASE suite = "local"
    <3>1. [CpNext \/ CpDone]_cpVars BY <2>4 DEF Next, allVars, moves
    <3> QED BY <2>1, <2>4, <3>1, CpBaseKept
  <2>5. CASE suite = "move"
    <3>1. [MvNext]_mvVars BY <2>5 DEF Next, allVars, moves
    <3> QED BY <2>1, <2>5, <3>1, MvStepKeeps, MvTypeKept
  <2>6. CASE suite = "tree"
    <3>1. [TrNext]_trVars BY <2>6 DEF Next, allVars, moves
    <3> QED BY <2>1, <2>6, <3>1, TrStepKeeps, TrTypeKept
  <2>7. CASE suite = "file"
    <3>1. [CfNext]_cfVars BY <2>7 DEF Next, allVars, commands
    <3> QED BY <2>1, <2>7, <3>1, CfInvKept, CfStillKept
  <2>8. CASE suite = "mv"
    <3>1. [CmNext]_cmVars BY <2>8 DEF Next, allVars, commands
    <3> QED BY <2>1, <2>8, <3>1, CmStepKeeps, CmWithinKept
  <2>9. CASE suite = "progress"
    <3>1. [PgNext]_pgVars BY <2>9 DEF Next, allVars, commands
    <3> QED BY <2>1, <2>9, <3>1, PgTypeKept
  <2>10. CASE suite = "remote"
    <3>1. [RfNext]_rfVars BY <2>10 DEF Next, allVars, remotes
    <3> QED BY <2>1, <2>10, <3>1, RfStepKeeps, RfCallsFitKept
  <2>11. CASE suite = "tokens"
    <3>1. [TkNext]_tkVars BY <2>11 DEF Next, allVars, remotes
    <3> QED BY <2>1, <2>11, <3>1, TkStepKeeps, TkTypeKept
  <2> QED BY <2>2, <2>3, <2>4, <2>5, <2>6, <2>7, <2>8, <2>9, <2>10, <2>11
<1>3. All => TransfersTypeOK
  <2> SUFFICES ASSUME All PROVE TransfersTypeOK
    OBVIOUS
  <2>1. /\ suite = "resume" => RdTypeOK
        /\ suite = "ranges" => RtTypeOK
        /\ suite = "local" => CpTypeOK
        /\ suite = "file" => CfTypeOK
        /\ suite = "mv" => CmTypeOK
        /\ suite = "remote" => RfTypeOK
    BY RdBoundedTyped, RtOfBatchTyped, CpBaseTyped, CfTyped, CmWithinTyped, RfCallsFitTyped
  <2> QED BY <2>1 DEF TransfersTypeOK
<1> QED BY <1>1, <1>2, <1>3, PTL DEF Spec
=============================================================================
