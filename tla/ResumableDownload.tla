------------------------- MODULE ResumableDownload -------------------------
(***************************************************************************)
(* CloudPathMixin.download of src/src/asanypath/cloud.py with the sidecar  *)
(* state of _resume.py: bytes stream into <dst>.part, <dst>.part.meta      *)
(* records the identity and size of the object they belong to, and the     *)
(* finished part is renamed to dst.  Attempts fail, are killed at any      *)
(* point and are started again; the object at the key is overwritten at    *)
(* any moment.                                                             *)
(*                                                                         *)
(* Contents are sequences of blocks <<version, index>>.  The file handle   *)
(* buffers what is written to it: a kill loses any suffix of the buffer.   *)
(***************************************************************************)
EXTENDS Integers, Sequences

CONSTANTS RdMaxVersion,   \* bound: versions the object goes through
          RdMaxSize,      \* bound: blocks of the largest version
          RdWindow,       \* chunk: blocks asked for by one range read
          RdMaxStarts,    \* bound: attempts
          RdHasIdentity   \* the server sends an ETag or a Last-Modified

ASSUME RdAssumption ==
    /\ RdMaxVersion \in Nat \ {0} /\ RdMaxSize \in Nat \ {0}
    /\ RdWindow \in Nat \ {0} /\ RdMaxStarts \in Nat
    /\ RdHasIdentity \in BOOLEAN

VARIABLES rdSizes,    \* the size of each version
          rdVersion,  \* the version now at the key
          rdPc,       \* where the download coroutine is
          rdProbed,   \* (size, identity) as _resume_identity returned them
          rdOffset,   \* offset of the next range read
          rdData,     \* blocks in hand
          rdBuffer,   \* blocks written to the handle but not yet to the file
          rdDst,      \* the destination file
          rdPart,     \* <dst>.part
          rdMeta,     \* <dst>.part.meta
          rdStarts,   \* attempts so far
          rdChanged   \* history: the object changed since the attempt's probe

rdRemote  == <<rdSizes, rdVersion>>
rdLocal   == <<rdPc, rdProbed, rdOffset, rdData, rdBuffer>>
rdHistory == <<rdStarts, rdChanged>>
rdVars    == <<rdRemote, rdLocal, rdDst, rdPart, rdMeta, rdHistory>>

RdAbsent     == [there |-> FALSE, blocks |-> <<>>]
RdFile(s)    == [there |-> TRUE, blocks |-> s]
RdFileLen(f) == Len(f.blocks)
RdNoMeta     == [kind |-> "absent", size |-> 0, identity |-> 0]
RdCorrupt    == [kind |-> "corrupt", size |-> 0, identity |-> 0]
RdMeta(p)    == [kind |-> "valid", size |-> p.size, identity |-> p.identity]
RdUnprobed   == [size |-> 0, identity |-> 0]

RdVersions == 1..RdMaxVersion
RdWhole(v) == [i \in 1..rdSizes[v] |-> <<v, i>>]

\* The object's ETag or Last-Modified; 0 (None) when it has neither.
RdIdentity(v) == IF RdHasIdentity THEN v ELSE 0

RdSmaller(a, b) == IF a < b THEN a ELSE b

\* range_read of bytes first..last: what the object now has of them; nothing
\* when it ends before first (the request layer turns a 416 into no bytes).
RdRangeRead(first, last) ==
    SubSeq(RdWhole(rdVersion), first + 1, RdSmaller(last + 1, rdSizes[rdVersion]))

\* min(offset + chunk, size) - 1
RdLastAsked == RdSmaller(rdOffset + RdWindow, rdProbed.size) - 1

\* read_meta(meta) is not None, its identity and size are the probed ones and
\* the part is not longer than that.
RdResumableWhateverChanged == rdPart.there /\ RdFileLen(rdPart) <= rdProbed.size
RdResumable == rdPart.there /\ rdMeta = RdMeta(rdProbed) /\ RdFileLen(rdPart) <= rdProbed.size

\* offset = part.stat().st_size
RdResumeOffset == RdFileLen(rdPart)

RdPrefixes(s) == {SubSeq(s, 1, n) : n \in 0..Len(s)}

-----------------------------------------------------------------------------
RdInit ==
    /\ rdSizes \in [RdVersions -> 0..RdMaxSize]
    /\ rdVersion = 1
    /\ rdPc = "idle" /\ rdProbed = RdUnprobed /\ rdOffset = 0 /\ rdData = <<>> /\ rdBuffer = <<>>
    /\ rdDst = RdAbsent /\ rdPart = RdAbsent /\ rdMeta = RdNoMeta
    /\ rdStarts = 0 /\ rdChanged = FALSE

\* Somebody overwrites the object.
RdOverwrite ==
    /\ rdVersion < RdMaxVersion
    /\ rdVersion' = rdVersion + 1
    /\ rdChanged' = TRUE
    /\ UNCHANGED <<rdSizes, rdLocal, rdDst, rdPart, rdMeta, rdStarts>>

\* download is called and its HEAD is answered; without an answer, or when
\* the backend has no range reads, the object is read in a single pass.
RdProbe ==
    /\ rdPc = "idle" /\ rdStarts < RdMaxStarts
    /\ rdStarts' = rdStarts + 1
    /\ rdChanged' = FALSE
    /\ \/ /\ rdProbed' = [size |-> rdSizes[rdVersion], identity |-> RdIdentity(rdVersion)]
          /\ rdPc' = "probed"
       \/ /\ rdProbed' = RdUnprobed
          /\ rdPc' = "single"
    /\ rdOffset' = 0 /\ rdData' = <<>>
    /\ UNCHANGED <<rdRemote, rdBuffer, rdDst, rdPart, rdMeta>>

\* data = await self._read_bytes_uncached()
RdSinglePassRead ==
    /\ rdPc = "single"
    /\ rdData' = RdWhole(rdVersion)
    /\ rdPc' = "write dst"
    /\ UNCHANGED <<rdRemote, rdProbed, rdOffset, rdBuffer, rdDst, rdPart, rdMeta, rdHistory>>

\* dst.write_bytes(data)
RdSinglePassWrite ==
    /\ rdPc = "write dst"
    /\ rdDst' = RdFile(rdData)
    /\ rdPc' = "idle" /\ rdData' = <<>>
    /\ UNCHANGED <<rdRemote, rdProbed, rdOffset, rdBuffer, rdPart, rdMeta, rdStarts, rdChanged>>

\* Continue behind the bytes of an earlier attempt.
RdResume ==
    /\ rdPc = "probed"
    /\ RdResumable /\ RdResumeOffset > 0
    /\ rdOffset' = RdResumeOffset
    /\ rdPc' = "open"
    /\ UNCHANGED <<rdRemote, rdProbed, rdData, rdBuffer, rdDst, rdPart, rdMeta, rdHistory>>

\* Start afresh, because resume=False or because there is nothing to continue:
\* remove the part, then the sidecar, and write a new sidecar.
RdStartFresh ==
    /\ rdPc = "probed"
    /\ rdPc' = "unlinked part"
    /\ rdPart' = RdAbsent
    /\ UNCHANGED <<rdRemote, rdProbed, rdOffset, rdData, rdBuffer, rdDst, rdMeta, rdHistory>>

RdUnlinkMeta ==
    /\ rdPc = "unlinked part"
    /\ rdPc' = "write meta"
    /\ rdMeta' = RdNoMeta
    /\ UNCHANGED <<rdRemote, rdProbed, rdOffset, rdData, rdBuffer, rdDst, rdPart, rdHistory>>

RdWriteMeta ==
    /\ rdPc = "write meta"
    /\ rdPc' = "open"
    /\ rdMeta' = RdMeta(rdProbed)
    /\ UNCHANGED <<rdRemote, rdProbed, rdOffset, rdData, rdBuffer, rdDst, rdPart, rdHistory>>

\* part.open("ab" if offset else "wb")
RdOpenPart ==
    /\ rdPc = "open"
    /\ rdPart' = IF rdOffset = 0 THEN RdFile(<<>>) ELSE rdPart
    /\ rdPc' = "fetch"
    /\ UNCHANGED <<rdRemote, rdProbed, rdOffset, rdData, rdBuffer, rdDst, rdMeta, rdHistory>>

\* One turn of the loop: a range read that returns something, and its write.
RdFetch ==
    /\ rdPc = "fetch" /\ rdOffset < rdProbed.size
    /\ RdRangeRead(rdOffset, RdLastAsked) # <<>>
    /\ rdData' = RdRangeRead(rdOffset, RdLastAsked)
    /\ rdPc' = "write"
    /\ UNCHANGED <<rdRemote, rdProbed, rdOffset, rdBuffer, rdDst, rdPart, rdMeta, rdHistory>>

\* fh.write(data): any prefix of the buffer may reach the file at once.
RdWrite ==
    /\ rdPc = "write"
    /\ LET pending == rdBuffer \o rdData
       IN  \E flushed \in RdPrefixes(pending) :
             /\ rdPart' = RdFile(rdPart.blocks \o flushed)
             /\ rdBuffer' = SubSeq(pending, Len(flushed) + 1, Len(pending))
    /\ rdOffset' = rdOffset + Len(rdData)
    /\ rdData' = <<>>
    /\ rdPc' = "fetch"
    /\ UNCHANGED <<rdRemote, rdProbed, rdDst, rdMeta, rdHistory>>

\* The loop is over, at the probed size or at an empty read; fh.close.
RdCloseLoop ==
    /\ rdPc = "fetch"
    /\ rdOffset >= rdProbed.size \/ RdRangeRead(rdOffset, RdLastAsked) = <<>>
    /\ rdPart' = RdFile(rdPart.blocks \o rdBuffer) /\ rdBuffer' = <<>>
    /\ rdPc' = "rename"
    /\ UNCHANGED <<rdRemote, rdProbed, rdOffset, rdData, rdDst, rdMeta, rdHistory>>

\* os.replace(part, dst)
RdRename ==
    /\ rdPc = "rename"
    /\ rdDst' = rdPart /\ rdPart' = RdAbsent
    /\ rdPc' = "unlink meta"
    /\ UNCHANGED <<rdRemote, rdProbed, rdOffset, rdData, rdBuffer, rdMeta, rdStarts, rdChanged>>

RdFinish ==
    /\ rdPc = "unlink meta"
    /\ rdMeta' = RdNoMeta
    /\ rdPc' = "idle"
    /\ UNCHANGED <<rdRemote, rdProbed, rdOffset, rdData, rdBuffer, rdDst, rdPart, rdHistory>>

\* A range read, a write or the single pass raises (or the task is cancelled):
\* the handle is closed and the exception propagates.
RdFail ==
    /\ rdPc \in {"single", "fetch", "write"}
    /\ rdPart' = IF rdPc = "single" THEN rdPart ELSE RdFile(rdPart.blocks \o rdBuffer)
    /\ rdBuffer' = <<>> /\ rdData' = <<>>
    /\ rdPc' = "idle"
    /\ UNCHANGED <<rdRemote, rdProbed, rdOffset, rdDst, rdMeta, rdHistory>>

\* The process is killed: what a file operation was doing is done in part.
RdKill ==
    /\ rdPc # "idle"
    /\ rdPc' = "idle" /\ rdBuffer' = <<>> /\ rdData' = <<>>
    /\ \E kept \in RdPrefixes(rdBuffer) :
         rdPart' = IF rdPc \in {"fetch", "write"} THEN RdFile(rdPart.blocks \o kept) ELSE rdPart
    /\ rdMeta' \in IF rdPc = "write meta" THEN {rdMeta, RdCorrupt} ELSE {rdMeta}
    /\ \/ UNCHANGED rdDst
       \/ rdPc = "write dst" /\ \E kept \in RdPrefixes(rdData) : rdDst' = RdFile(kept)
    /\ UNCHANGED <<rdRemote, rdProbed, rdOffset, rdStarts, rdChanged>>

RdAttempt == \/ RdProbe \/ RdSinglePassRead \/ RdSinglePassWrite \/ RdResume \/ RdStartFresh
           \/ RdUnlinkMeta \/ RdWriteMeta \/ RdOpenPart \/ RdFetch \/ RdWrite \/ RdCloseLoop
           \/ RdRename \/ RdFinish

RdNext == RdAttempt \/ RdOverwrite \/ RdFail \/ RdKill

RdStopped == rdPc = "idle" /\ rdStarts = RdMaxStarts /\ UNCHANGED rdVars

RdSpec == RdInit /\ [][RdNext \/ RdStopped]_rdVars
-----------------------------------------------------------------------------
RdContents == UNION {[1..n -> RdVersions \X (1..RdMaxSize)] : n \in 0..RdMaxSize}

\* Every variable has its type; an attempt never counts more bytes than it
\* found the object to have.
RdTypeOK ==
    /\ rdSizes \in [RdVersions -> 0..RdMaxSize]
    /\ rdVersion \in RdVersions
    /\ rdOffset \in 0..RdMaxSize
    /\ rdPc \in {"fetch", "write", "rename"} => rdOffset <= rdProbed.size
    /\ rdProbed.size \in 0..RdMaxSize /\ rdProbed.identity \in 0..RdMaxVersion
    /\ rdData \in RdContents /\ rdBuffer \in RdContents
    /\ rdDst.blocks \in RdContents /\ rdPart.blocks \in RdContents
    /\ rdMeta.kind \in {"absent", "corrupt", "valid"}

\* While an attempt streams, what is in the file and in the handle's buffer is
\* exactly what it has counted, also when it continued behind what a killed
\* attempt had left: the next range read neither repeats nor skips a byte.
RdOffsetMatchesPart ==
    rdPc = "fetch" => rdOffset = RdFileLen(rdPart) + Len(rdBuffer)

\* When the rename is due and the object did not change since this attempt
\* probed it, the part file is that object, byte for byte, whatever earlier
\* attempts on earlier versions left behind.
RdNoStitchAcrossAttempts ==
    rdPc = "rename" /\ ~rdChanged => rdPart = RdFile(RdWhole(rdVersion))

\* A resumed download continues the right object at the right place.
RdResumesRight == RdOffsetMatchesPart /\ RdNoStitchAcrossAttempts
=============================================================================
