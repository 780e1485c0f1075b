----------------------------- MODULE CloudFile -----------------------------
(***************************************************************************)
(* File handles on objects: _CloudFile and _CloudRawIO of                  *)
(* src/src/asanypath/cloud.py.  A small object is fetched when the handle  *)
(* is opened; a large one is read by range requests against the size that  *)
(* HEAD told; what is written goes to a buffer that is uploaded when the   *)
(* with block ends without an exception.  Handles on one object are used   *)
(* side by side.                                                           *)
(*                                                                         *)
(* Contents are sequences of bytes, each the name of the handle that wrote *)
(* it.                                                                     *)
(***************************************************************************)
EXTENDS Integers, Sequences

CONSTANTS CfHandles,   \* handles opened on the object
          CfFirst,     \* what the object holds at the start
          CfChunk,     \* bytes up to which an object is fetched at once
          CfMaxLen     \* bound: bytes written to a handle, and reads of one

CfBytes == CfHandles \cup {CfFirst[i] : i \in DOMAIN CfFirst}

ASSUME CfAssumption ==
    /\ CfFirst \in Seq(CfBytes) /\ CfChunk \in Nat \ {0} /\ CfMaxLen \in Nat

CfModes == {"r", "w", "a"}
CfClosed == {"closed", "unsure", "failed"}   \* unsure: the upload is there, its answer was lost

VARIABLES cfObject,  \* the object's content
          cfMode,    \* the mode of each handle
          cfState,   \* "none", "head", "fetch", "lazy", "buffer" or how it ended
          cfSize,    \* _CloudRawIO._size
          cfPos,     \* its position
          cfBuf,     \* the buffer: what was fetched or written
          cfSeen,    \* history: the object when this handle was opened
          cfGot,     \* history: pairs of position and byte this handle returned
          cfReads,   \* reads and seeks so far
          cfChanged  \* history: the object was replaced since this handle was opened

cfVars == <<cfObject, cfMode, cfState, cfSize, cfPos, cfBuf, cfSeen, cfGot, cfReads, cfChanged>>

CfMin(a, b) == IF a < b THEN a ELSE b
CfMax(a, b) == IF a > b THEN a ELSE b

\* Range read of n bytes at pos, as far as the object reaches.
CfRange(pos, n) == SubSeq(cfObject, pos + 1, CfMin(pos + n, Len(cfObject)))

\* n_want = min(len(b), self._size - self._pos)
CfWant(h, n) == CfMin(n, cfSize[h] - cfPos[h])

\* self._pos += n
CfAdvanced(h, data) == cfPos[h] + Len(data)

\* whence 0, 1 and 2, then clamped to the object.
CfSeekUnclamped(h, offset, whence) ==
    CASE whence = 0 -> offset [] whence = 1 -> cfPos[h] + offset [] whence = 2 -> cfSize[h] + offset
CfSeekTo(h, offset, whence) ==
    CfMax(0, CfMin(CfSeekUnclamped(h, offset, whence), cfSize[h]))

\* __exit__ uploads only when the block raised nothing.
CfUploadsAlways(raised) == TRUE
CfUploads(raised) == ~raised

CfInit ==
    /\ cfObject = CfFirst
    /\ cfMode = [h \in CfHandles |-> "r"] /\ cfState = [h \in CfHandles |-> "none"]
    /\ cfSize = [h \in CfHandles |-> 0] /\ cfPos = [h \in CfHandles |-> 0]
    /\ cfBuf = [h \in CfHandles |-> <<>>] /\ cfSeen = [h \in CfHandles |-> <<>>]
    /\ cfGot = [h \in CfHandles |-> {}] /\ cfReads = [h \in CfHandles |-> 0]
    /\ cfChanged = [h \in CfHandles |-> FALSE]

\* _make_buffer: a BytesIO of what was fetched, a spooled file for writing.
CfMakeBuffer(h, data) ==
    /\ cfState' = [cfState EXCEPT ![h] = "buffer"]
    /\ cfBuf' = [cfBuf EXCEPT ![h] = data]
    /\ cfSize' = [cfSize EXCEPT ![h] = Len(data)]

\* _make_reader: a _CloudRawIO of that size at position 0.
CfMakeReader(h) ==
    /\ cfState' = [cfState EXCEPT ![h] = "lazy"]
    /\ cfSize' = [cfSize EXCEPT ![h] = Len(cfObject)]

\* open(mode) and __enter__: a write handle starts with an empty buffer, in
\* append mode too; a read handle asks for the size first.
CfOpen(h, mode) ==
    /\ cfState[h] = "none"
    /\ cfMode' = [cfMode EXCEPT ![h] = mode]
    /\ IF mode = "r" THEN cfState' = [cfState EXCEPT ![h] = "head"] /\ UNCHANGED <<cfBuf, cfSize>>
       ELSE CfMakeBuffer(h, <<>>)
    /\ UNCHANGED <<cfObject, cfPos, cfSeen, cfGot, cfReads, cfChanged>>

\* HEAD: large objects are read lazily, small ones at once, and so is one
\* whose HEAD failed.
CfHead(h) ==
    /\ cfState[h] = "head"
    /\ \/ /\ Len(cfObject) > CfChunk
          /\ CfMakeReader(h)
          /\ cfSeen' = [cfSeen EXCEPT ![h] = cfObject]
          /\ cfChanged' = [cfChanged EXCEPT ![h] = FALSE]
       \/ /\ cfState' = [cfState EXCEPT ![h] = "fetch"]
          /\ UNCHANGED <<cfSize, cfSeen, cfChanged>>
    /\ UNCHANGED <<cfObject, cfMode, cfPos, cfBuf, cfGot, cfReads>>

\* read_bytes() of the whole object into a BytesIO.
CfFetch(h) ==
    /\ cfState[h] = "fetch"
    /\ CfMakeBuffer(h, cfObject)
    /\ cfSeen' = [cfSeen EXCEPT ![h] = cfObject]
    /\ UNCHANGED <<cfObject, cfMode, cfPos, cfGot, cfReads, cfChanged>>

\* read(n): from the buffer, or by one range request.
CfRead(h, n) ==
    LET want == CfWant(h, n)
        data == IF cfState[h] = "lazy" THEN CfRange(cfPos[h], want)
                ELSE SubSeq(cfBuf[h], cfPos[h] + 1, cfPos[h] + want)
    IN  /\ cfState[h] \in {"lazy", "buffer"} /\ cfMode[h] = "r"
        /\ cfReads[h] < CfMaxLen /\ cfPos[h] < cfSize[h]
        /\ cfGot' = [cfGot EXCEPT ![h] = @ \cup {<<cfPos[h] + i, data[i]>> : i \in DOMAIN data}]
        /\ cfPos' = [cfPos EXCEPT ![h] = CfAdvanced(h, data)]
        /\ cfReads' = [cfReads EXCEPT ![h] = @ + 1]
        /\ UNCHANGED <<cfObject, cfMode, cfState, cfSize, cfBuf, cfSeen, cfChanged>>

CfSeek(h, offset, whence) ==
    /\ cfState[h] = "lazy" /\ cfReads[h] < CfMaxLen
    /\ cfPos' = [cfPos EXCEPT ![h] = CfSeekTo(h, offset, whence)]
    /\ cfReads' = [cfReads EXCEPT ![h] = @ + 1]
    /\ UNCHANGED <<cfObject, cfMode, cfState, cfSize, cfBuf, cfSeen, cfGot, cfChanged>>

CfWrite(h) ==
    /\ cfState[h] = "buffer" /\ cfMode[h] # "r" /\ Len(cfBuf[h]) < CfMaxLen
    /\ cfBuf' = [cfBuf EXCEPT ![h] = Append(@, h)]
    /\ UNCHANGED <<cfObject, cfMode, cfState, cfSize, cfPos, cfSeen, cfGot, cfReads, cfChanged>>

\* __exit__ or __aexit__: the buffer is uploaded, which may fail, and closed.
CfExit(h, raised) ==
    /\ cfState[h] \in {"lazy", "buffer"}
    /\ \/ /\ cfMode[h] # "r" /\ CfUploads(raised)
          /\ cfObject' = cfBuf[h]
          /\ cfChanged' = [g \in CfHandles |-> TRUE]
          /\ \E end \in IF raised THEN {"failed"} ELSE {"closed", "unsure"} :
               cfState' = [cfState EXCEPT ![h] = end]
       \/ /\ cfState' = [cfState EXCEPT ![h] = IF cfMode[h] = "r" /\ ~raised THEN "closed" ELSE "failed"]
          /\ UNCHANGED <<cfObject, cfChanged>>
    /\ UNCHANGED <<cfMode, cfSize, cfPos, cfBuf, cfSeen, cfGot, cfReads>>

CfDone == (\A h \in CfHandles : cfState[h] \in CfClosed) /\ UNCHANGED cfVars

CfNext ==
    \/ \E h \in CfHandles :
         \/ \E mode \in CfModes : CfOpen(h, mode)
         \/ CfHead(h) \/ CfFetch(h) \/ CfWrite(h)
         \/ \E n \in 1..CfMaxLen : CfRead(h, n)
         \/ \E offset \in -1..1, whence \in 0..2 : CfSeek(h, offset, whence)
         \/ \E raised \in BOOLEAN : CfExit(h, raised)
    \/ CfDone

CfSpec == CfInit /\ [][CfNext]_cfVars
-----------------------------------------------------------------------------
\* Every variable has its type; a position is one of the object's.
CfTypeOK ==
    /\ cfObject \in Seq(CfBytes) /\ cfMode \in [CfHandles -> CfModes]
    /\ cfState \in [CfHandles -> CfClosed \cup {"none", "head", "fetch", "lazy", "buffer"}]
    /\ \A h \in CfHandles : cfPos[h] \in 0..cfSize[h] /\ cfBuf[h] \in Seq(CfBytes)

\* Whatever a handle reads and seeks, every byte it returns is the byte at
\* that position of the object as it was opened; a large object that is
\* replaced meanwhile is the exception (its ranges are not pinned).
CfReadsAsOpened ==
    \A h \in CfHandles : cfBuf[h] # <<>> \/ ~cfChanged[h] =>
        \A got \in cfGot[h] : got[1] \in DOMAIN cfSeen[h] /\ got[2] = cfSeen[h][got[1]]

\* "Write mode buffers all writes and uploads on close": the object only ever
\* holds its first content or all that one handle wrote in a with block that
\* raised nothing.
CfUploadedWhole ==
    \/ cfObject = CfFirst
    \/ \E h \in CfHandles : cfState[h] \in {"closed", "unsure"} /\ cfMode[h] # "r" /\ cfObject = cfBuf[h]

\* Handles on one object neither show nor store a mixture.
CfNeverMixed == CfReadsAsOpened /\ CfUploadedWhole
=============================================================================
