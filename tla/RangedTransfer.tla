--------------------------- MODULE RangedTransfer ---------------------------
(***************************************************************************)
(* iter_transfer_chunks of src/src/asanypath/_transfer.py: how a copy      *)
(* reads its source.  Small chunks are streamed by iter_bytes; a source of *)
(* unknown or small size is read whole; any other is read in windows, a    *)
(* batch of tasks at a time, and its metadata is compared at the end.      *)
(* The object is overwritten at any moment.                                *)
(*                                                                         *)
(* Sizes count windows.  Metadata (size, mtime, ETag, generation,          *)
(* checksums) is the token that version of the object shows; two versions  *)
(* may show the same one, an mtime of one second for instance.             *)
(***************************************************************************)
EXTENDS Integers, Sequences, FiniteSets

CONSTANTS RtSize,     \* windows of each version of the object
          RtToken,    \* the metadata each version shows
          RtStreams   \* bound: window reads at a time

ASSUME RtAssumption ==
    /\ RtSize \in Seq(Nat \ {0}) /\ Len(RtSize) > 0
    /\ RtToken \in Seq(Nat) /\ Len(RtToken) = Len(RtSize)
    /\ RtStreams \in Nat \ {0}

RtVersions == DOMAIN RtSize

\* How window reads are conditioned: on an ETag or a generation, on a
\* modification time, or not at all (no _conditional_range_read).
RtConditions == {"exact", "time", "none"}
RtModes == {"stream", "whole", "ranges", "probe"}

VARIABLES rtVersion,  \* the version now at the source
          rtPc,       \* where the generator is
          rtHow,      \* the condition of its window reads
          rtMeta,     \* the version whose metadata it holds; 0 before stat_fn
          rtNext,     \* the first window not yet asked for
          rtTasks,    \* the windows being read
          rtGot,      \* version read for each window of the batch
          rtOut       \* versions of the windows it yielded, in order

rtVars == <<rtVersion, rtPc, rtHow, rtMeta, rtNext, rtTasks, rtGot, rtOut>>

RtOver == {"ok", "error", "closed"}
RtContent(v) == [i \in 1..RtSize[v] |-> v]

\* The read of a window is answered, and not with 412.
RtConditionMet(v) ==
    CASE rtHow = "exact" -> v = rtMeta
      [] rtHow = "time"  -> RtToken[v] = RtToken[rtMeta]
      [] rtHow = "none"  -> TRUE

\* before is not None and before != after, over all fields.
RtChanged(v) == RtToken[v] # RtToken[rtMeta] \/ RtSize[v] # RtSize[rtMeta]

\* finally: cancel what is not done, and await all of it.
RtAbandoned == "error"
RtDraining == IF rtTasks = {} THEN "error" ELSE "drain"

RtInit ==
    /\ rtVersion = 1 /\ rtPc = "idle" /\ rtHow = "none" /\ rtMeta = 0
    /\ rtNext = 1 /\ rtTasks = {} /\ rtGot = <<>> /\ rtOut = <<>>

\* The copy asks for its first chunk: chunk_size, the source's range support
\* and its budget choose the mode; stat_fn is called unless it streams.
RtCall ==
    /\ rtPc = "idle"
    /\ \E mode \in RtModes, how \in RtConditions :
         /\ rtPc' = mode
         /\ rtHow' = IF mode \in {"ranges", "probe"} THEN how ELSE "none"
         /\ rtMeta' = IF mode \in {"ranges", "probe"} THEN rtVersion ELSE 0
    /\ UNCHANGED <<rtVersion, rtNext, rtTasks, rtGot, rtOut>>

\* src.iter_bytes: the next window of whatever is there; a short or an empty
\* one is the last.
RtStream ==
    /\ rtPc = "stream"
    /\ IF rtNext <= RtSize[rtVersion]
       THEN /\ rtOut' = Append(rtOut, rtVersion) /\ rtNext' = rtNext + 1
            /\ rtPc' \in {"stream"} \cup (IF rtNext = RtSize[rtVersion] THEN {"ok"} ELSE {})
       ELSE rtPc' = "ok" /\ UNCHANGED <<rtOut, rtNext>>
    /\ UNCHANGED <<rtVersion, rtHow, rtMeta, rtTasks, rtGot>>

\* src.read_bytes(): one request.
RtWhole ==
    /\ rtPc = "whole"
    /\ rtOut' = RtContent(rtVersion)
    /\ rtPc' = "ok"
    /\ UNCHANGED <<rtVersion, rtHow, rtMeta, rtNext, rtTasks, rtGot>>

\* The first window of an HTTP source.  A server without ranges answers with
\* the whole body, which is taken when it has the size stat told.
RtProbe ==
    /\ rtPc = "probe"
    /\ \/ /\ RtConditionMet(rtVersion)
          /\ rtOut' = <<rtVersion>> /\ rtNext' = 2 /\ rtPc' = "ranges"
       \/ /\ RtSize[rtVersion] = RtSize[rtMeta]
          /\ rtOut' = RtContent(rtVersion) /\ rtPc' = "ok" /\ UNCHANGED rtNext
       \/ /\ rtPc' = "error" /\ UNCHANGED <<rtOut, rtNext>>
    /\ UNCHANGED <<rtVersion, rtHow, rtMeta, rtTasks, rtGot>>

\* Start a batch: as many tasks as the budget leaves this file now.
RtBatch ==
    /\ rtPc = "ranges" /\ rtTasks = {} /\ rtNext <= RtSize[rtMeta]
    /\ \E streams \in 1..RtStreams :
         LET windows == {w \in rtNext..RtSize[rtMeta] : w < rtNext + streams}
         IN  /\ rtTasks' = windows
             /\ rtNext' = rtNext + Cardinality(windows)
             /\ rtGot' = [w \in windows |-> 0]
    /\ rtPc' = "batch"
    /\ UNCHANGED <<rtVersion, rtHow, rtMeta, rtOut>>

\* read_range: a window that is not complete raises.
RtRead(w) ==
    /\ rtPc = "batch" /\ w \in rtTasks
    /\ RtConditionMet(rtVersion) /\ w <= RtSize[rtVersion]
    /\ rtGot' = [rtGot EXCEPT ![w] = rtVersion]
    /\ rtTasks' = rtTasks \ {w}
    /\ UNCHANGED <<rtVersion, rtPc, rtHow, rtMeta, rtNext, rtOut>>

\* A read fails (412, a short body, the network) or the copy is cancelled:
\* gather raises.
RtReadFails(w) ==
    /\ rtPc = "batch" /\ w \in rtTasks
    /\ rtPc' = RtDraining
    /\ UNCHANGED <<rtVersion, rtHow, rtMeta, rtNext, rtTasks, rtGot, rtOut>>

\* A cancelled read ends.
RtDrained(w) ==
    /\ rtPc = "drain" /\ w \in rtTasks
    /\ rtTasks' = rtTasks \ {w}
    /\ rtPc' = IF rtTasks = {w} THEN "error" ELSE "drain"
    /\ UNCHANGED <<rtVersion, rtHow, rtMeta, rtNext, rtGot, rtOut>>

\* gather returned: the chunks are yielded in the order of the windows.
RtYield ==
    /\ rtPc = "batch" /\ rtTasks = {}
    /\ LET first == rtNext - Cardinality(DOMAIN rtGot)
       IN  rtOut' = rtOut \o [i \in 1..Cardinality(DOMAIN rtGot) |-> rtGot[first + i - 1]]
    /\ rtGot' = <<>>
    /\ rtPc' = "ranges"
    /\ UNCHANGED <<rtVersion, rtHow, rtMeta, rtNext, rtTasks>>

\* The metadata is read again and compared.
RtFinal ==
    /\ rtPc = "ranges" /\ rtTasks = {} /\ rtNext > RtSize[rtMeta]
    /\ rtPc' = IF RtChanged(rtVersion) THEN "error" ELSE "ok"
    /\ UNCHANGED <<rtVersion, rtHow, rtMeta, rtNext, rtTasks, rtGot, rtOut>>

\* Streaming, reading the whole or the last stat raises, or is cancelled.
RtFail ==
    /\ rtPc \in {"stream", "whole", "ranges"}
    /\ rtPc' = "error"
    /\ UNCHANGED <<rtVersion, rtHow, rtMeta, rtNext, rtTasks, rtGot, rtOut>>

\* The consumer closes the generator at a yield.
RtClose ==
    /\ rtPc \in {"stream", "ranges"} /\ rtOut # <<>>
    /\ rtPc' = "closed"
    /\ UNCHANGED <<rtVersion, rtHow, rtMeta, rtNext, rtTasks, rtGot, rtOut>>

\* Somebody overwrites the source.
RtOverwrite ==
    /\ rtPc \notin RtOver /\ rtVersion + 1 \in RtVersions
    /\ rtVersion' = rtVersion + 1
    /\ UNCHANGED <<rtPc, rtHow, rtMeta, rtNext, rtTasks, rtGot, rtOut>>

RtDone == rtPc \in RtOver /\ UNCHANGED rtVars

RtNext ==
    \/ RtCall \/ RtStream \/ RtWhole \/ RtProbe \/ RtBatch
    \/ \E w \in rtTasks : RtRead(w) \/ RtReadFails(w) \/ RtDrained(w)
    \/ RtYield \/ RtFinal \/ RtFail \/ RtClose \/ RtOverwrite \/ RtDone

RtSpec == RtInit /\ [][RtNext]_rtVars
-----------------------------------------------------------------------------
\* Every variable has its type.
RtTypeOK ==
    /\ rtVersion \in RtVersions /\ rtMeta \in RtVersions \cup {0}
    /\ rtPc \in RtOver \cup RtModes \cup {"idle", "batch", "drain"}
    /\ rtHow \in RtConditions /\ rtNext \in Nat
    /\ \A w \in rtTasks : w \in DOMAIN rtGot
    /\ \A i \in DOMAIN rtOut : rtOut[i] \in RtVersions

\* The versions that were there since stat_fn show different metadata.
RtTellsApart ==
    \A v, w \in RtVersions : v # w /\ rtMeta <= v /\ rtMeta <= w
        => RtToken[v] # RtToken[w] \/ RtSize[v] # RtSize[w]

\* "S3/Azure ETags, GCS generations, and HTTP conditional requests pin the
\* source version when available.  Other sources are checked against fresh
\* metadata after the download": a ranged read that ends normally yielded one
\* version, complete and in order, if its reads were pinned to it or if the
\* metadata tells the versions apart.
RtOneVersion ==
    rtPc = "ok" /\ rtMeta # 0 /\ (rtHow = "exact" \/ RtTellsApart) =>
        \E v \in RtVersions : rtOut = RtContent(v)

\* When the generator has ended, for whatever reason, none of its reads is
\* still running (and holding a slot of the budget).
RtNoReadLeft == rtPc \in RtOver => rtTasks = {}

\* A ranged read delivers one version and leaves nothing running.
RtConsistent == RtOneVersion /\ RtNoReadLeft
=============================================================================
