--------------------------- MODULE TransferProofs ---------------------------
(***************************************************************************)
(* Proofs about single transfers, for any number and size of versions,     *)
(* attempts and blocks: the resumable download (ResumableDownload), the    *)
(* ranged reads of a copy's source (RangedTransfer), the progress that a   *)
(* copy reports (CopyProgress), the tokens that are sent (ServiceTokens),  *)
(* and the commands mv, cp and rm (CliMoves).                              *)
(***************************************************************************)
EXTENDS ResumableDownload, RangedTransfer, CopyProgress, ServiceTokens, CliMoves,
        FiniteSetTheorems, SequenceTheorems, TLAPS
-----------------------------------------------------------------------------
(* The resumable download.                                                 *)

RdBlocks == Nat \X Nat
RdAttempting == {"probed", "unlinked part", "write meta", "open", "fetch", "write", "rename"}

RdTypes ==
    /\ rdSizes \in [RdVersions -> Nat] /\ rdVersion \in RdVersions
    /\ rdProbed \in [size : Nat, identity : Nat] /\ rdOffset \in Nat
    /\ rdData \in Seq(RdBlocks) /\ rdBuffer \in Seq(RdBlocks)
    /\ rdPart \in [there : BOOLEAN, blocks : Seq(RdBlocks)]
    /\ rdMeta \in [kind : {"absent", "corrupt", "valid"}, size : Nat, identity : Nat]

\* The handle's buffer and the part file follow the attempt.
RdStreams ==
    /\ rdPc \notin {"fetch", "write"} => rdBuffer = <<>>
    /\ rdPc \in {"fetch", "write"} => rdOffset = Len(rdPart.blocks) + Len(rdBuffer)
    /\ rdPc \in {"probed", "unlinked part", "write meta"} => rdOffset = 0
    /\ rdPc = "open" /\ rdOffset # 0 => rdOffset = Len(rdPart.blocks)
    /\ rdPc \in {"unlinked part", "write meta"} => rdPart.blocks = <<>>

\* The elements of s are the blocks of version v behind the first k.
RdBehind(s, v, k) == \A i \in 1..Len(s) : s[i] = <<v, k + i>>

\* What the file and the buffer hold is the beginning of version v.
RdBegins(v) ==
    /\ Len(rdPart.blocks) + Len(rdBuffer) <= rdSizes[v]
    /\ RdBehind(rdPart.blocks, v, 0) /\ RdBehind(rdBuffer, v, Len(rdPart.blocks))

\* An attempt knows the version it probed, and its sidecar names it.
RdIdentified ==
    /\ rdPc \in RdAttempting =>
         /\ rdProbed.identity <= rdVersion
         /\ IF rdChanged THEN rdProbed.identity < rdVersion
            ELSE rdProbed.size = rdSizes[rdVersion] /\ rdProbed.identity = rdVersion
    /\ rdPc \in {"open", "fetch", "write", "rename"} => rdMeta = RdMeta(rdProbed)
    /\ rdMeta.kind = "valid" => rdMeta.identity <= rdVersion

\* What the sidecar says belongs to the version now at the key does so; a
\* version that is gone never comes back.
RdBelongs ==
    /\ rdMeta.kind = "valid" /\ rdMeta.identity = rdVersion => RdBegins(rdVersion)
    /\ rdPc = "write" /\ ~rdChanged =>
         rdOffset + Len(rdData) <= rdSizes[rdVersion] /\ RdBehind(rdData, rdVersion, rdOffset)
    /\ rdPc = "rename" =>
         /\ rdPart = RdFile(rdPart.blocks)
         /\ ~rdChanged => Len(rdPart.blocks) = rdSizes[rdVersion]

RdInv == RdTypes /\ RdStreams /\ (RdHasIdentity => RdIdentified /\ RdBelongs)

\* What a range read returns is the blocks behind the offset; it is not empty
\* when the object has some.
LEMMA RdReads ==
    ASSUME RdTypes, NEW first \in Nat, NEW last \in Nat, first <= last
    PROVE  LET d == RdRangeRead(first, last)
           IN  /\ d \in Seq(RdBlocks)
               /\ RdBehind(d, rdVersion, first)
               /\ d # <<>> => first + Len(d) <= rdSizes[rdVersion]
               /\ first < rdSizes[rdVersion] => d # <<>>
<1> DEFINE size == rdSizes[rdVersion]
           whole == RdWhole(rdVersion)
           end == RdSmaller(last + 1, size)
           d == SubSeq(whole, first + 1, end)
<1>1. size \in Nat /\ rdVersion \in Nat
  BY RdAssumption DEF RdTypes, RdVersions
<1>2. whole \in Seq(RdBlocks) /\ Len(whole) = size /\ \A i \in 1..size : whole[i] = <<rdVersion, i>>
  BY <1>1 DEF RdWhole, RdBlocks
<1>3. end \in Nat /\ end <= size /\ (first < size => end >= first + 1)
  BY <1>1 DEF RdSmaller
<1> HIDE DEF size, whole, end
<1>4. /\ d \in Seq(RdBlocks) /\ Len(d) = IF first + 1 <= end THEN end - first ELSE 0
      /\ \A i \in 1..Len(d) : d[i] = whole[first + i]
  BY <1>2, <1>3
<1> HIDE DEF d
<1>5. d # <<>> => Len(d) > 0
  BY <1>4
<1>6. /\ \A i \in 1..Len(d) : d[i] = <<rdVersion, first + i>>
      /\ d # <<>> => first + Len(d) <= size
      /\ first < size => Len(d) > 0
  BY <1>1, <1>2, <1>3, <1>4, <1>5
<1>7. first < size => d # <<>>
  BY <1>6
<1> QED BY <1>4, <1>6, <1>7 DEF d, size, whole, end, RdRangeRead, RdBehind

\* The bytes asked for in one turn of the loop.
LEMMA RdAsks ==
    ASSUME RdTypes, rdOffset < rdProbed.size
    PROVE  RdLastAsked \in Nat /\ rdOffset <= RdLastAsked
<1>1. rdOffset \in Nat /\ rdProbed.size \in Nat /\ RdWindow \in Nat \ {0}
  BY RdAssumption DEF RdTypes
<1> QED BY <1>1 DEF RdLastAsked, RdSmaller

\* Files and sidecars are of their types.
LEMMA RdRecords ==
    /\ RdAbsent \in [there : BOOLEAN, blocks : Seq(RdBlocks)] /\ RdAbsent.blocks = <<>> /\ Len(<<>>) = 0
    /\ \A s \in Seq(RdBlocks) : RdFile(s) \in [there : BOOLEAN, blocks : Seq(RdBlocks)] /\ RdFile(s).blocks = s
    /\ RdNoMeta \in [kind : {"absent", "corrupt", "valid"}, size : Nat, identity : Nat]
    /\ RdNoMeta.kind = "absent" /\ RdCorrupt.kind = "corrupt"
    /\ RdCorrupt \in [kind : {"absent", "corrupt", "valid"}, size : Nat, identity : Nat]
    /\ \A p \in [size : Nat, identity : Nat] :
         /\ RdMeta(p) \in [kind : {"absent", "corrupt", "valid"}, size : Nat, identity : Nat]
         /\ RdMeta(p).kind = "valid" /\ RdMeta(p).identity = p.identity
<1>1. <<>> \in Seq(RdBlocks) /\ Len(<<>>) = 0 OBVIOUS
<1>2. RdAbsent \in [there : BOOLEAN, blocks : Seq(RdBlocks)] /\ RdAbsent.blocks = <<>>
  BY <1>1 DEF RdAbsent
<1> QED BY <1>1, <1>2 DEF RdFile, RdNoMeta, RdCorrupt, RdMeta

\* What the part belongs to is not touched by a step that leaves files, buffer
\* and object alone, ...
LEMMA RdStillBelongs ==
    ASSUME RdBelongs, UNCHANGED <<rdSizes, rdVersion, rdBuffer, rdPart, rdMeta>>,
           rdPc' \notin {"write", "rename"}
    PROVE  RdBelongs'
BY DEF RdBelongs, RdBegins

\* ... and an empty part belongs to any version.
LEMMA RdEmptyBelongs ==
    ASSUME RdTypes', rdBuffer' = <<>>, rdPart'.blocks = <<>>, rdPc' \notin {"write", "rename"}
    PROVE  RdBelongs'
<1>1. rdSizes'[rdVersion'] \in Nat /\ Len(<<>>) = 0
  BY DEF RdTypes
<1>2. RdBehind(<<>>, rdVersion', 0)
  BY DEF RdBehind
<1> QED BY <1>1, <1>2 DEF RdBelongs, RdBegins

\* A handle flushes the first n of the pending elements b \o d to the file p:
\* what the file holds then, ...
RdFlushed(p, b, d, n) == p \o SubSeq(b \o d, 1, n)

\* ... and what stays in the buffer.
RdPending(b, d, n) == SubSeq(b \o d, n + 1, Len(b \o d))

\* Together they hold what they held, and the data.
LEMMA RdFlushes ==
    ASSUME NEW S, NEW p \in Seq(S), NEW b \in Seq(S), NEW d \in Seq(S), NEW n \in 0..Len(b \o d)
    PROVE  /\ RdFlushed(p, b, d, n) \in Seq(S) /\ Len(RdFlushed(p, b, d, n)) = Len(p) + n
           /\ RdPending(b, d, n) \in Seq(S) /\ Len(RdPending(b, d, n)) = Len(b) + Len(d) - n
           /\ Len(SubSeq(b \o d, 1, n)) = n
           /\ \A i \in 1..Len(RdFlushed(p, b, d, n)) :
                RdFlushed(p, b, d, n)[i] = IF i <= Len(p) THEN p[i]
                                           ELSE IF i - Len(p) <= Len(b) THEN b[i - Len(p)]
                                           ELSE d[i - Len(p) - Len(b)]
           /\ \A i \in 1..Len(RdPending(b, d, n)) :
                RdPending(b, d, n)[i] = IF n + i <= Len(b) THEN b[n + i] ELSE d[n + i - Len(b)]
<1> DEFINE pending == b \o d
           f == SubSeq(pending, 1, n)
           q == p \o f
           r == SubSeq(pending, n + 1, Len(pending))
<1>1. /\ pending \in Seq(S) /\ Len(pending) = Len(b) + Len(d)
      /\ \A i \in 1..Len(pending) : pending[i] = IF i <= Len(b) THEN b[i] ELSE d[i - Len(b)]
  BY ConcatProperties
<1>2. n \in Nat /\ n <= Len(pending) /\ Len(b) \in Nat /\ Len(d) \in Nat /\ Len(p) \in Nat
  OBVIOUS
<1> HIDE DEF pending
<1>3. f \in Seq(S) /\ Len(f) = n /\ \A i \in 1..n : f[i] = pending[i]
  BY <1>1, <1>2
<1>4. /\ r \in Seq(S) /\ Len(r) = Len(pending) - n
      /\ \A i \in 1..Len(r) : r[i] = pending[n + i]
  BY <1>1, <1>2
<1> HIDE DEF f, r
<1>5. /\ q \in Seq(S) /\ Len(q) = Len(p) + n
      /\ \A i \in 1..Len(q) : q[i] = IF i <= Len(p) THEN p[i] ELSE f[i - Len(p)]
  <2>1. p \in Seq(S) /\ f \in Seq(S) /\ Len(f) = n
    BY <1>3
  <2>2. /\ q \in Seq(S) /\ Len(q) = Len(p) + Len(f)
        /\ \A i \in 1..Len(p) + Len(f) : q[i] = IF i <= Len(p) THEN p[i] ELSE f[i - Len(p)]
    BY ONLY <2>1, ConcatProperties, Zenon
  <2> HIDE DEF q
  <2> QED BY ONLY <2>1, <2>2, Zenon
<1> HIDE DEF q
<1>6. \A i \in 1..Len(q) : q[i] = IF i <= Len(p) THEN p[i]
                                 ELSE IF i - Len(p) <= Len(b) THEN b[i - Len(p)]
                                 ELSE d[i - Len(p) - Len(b)]
  <2> SUFFICES ASSUME NEW i \in 1..Len(q), i > Len(p)
               PROVE  q[i] = IF i - Len(p) <= Len(b) THEN b[i - Len(p)] ELSE d[i - Len(p) - Len(b)]
    BY <1>2, <1>5
  <2>1. i - Len(p) \in 1..n /\ i - Len(p) \in 1..Len(pending) /\ i \in Nat
    BY <1>1, <1>2, <1>5
  <2>2. q[i] = pending[i - Len(p)]
    BY <1>2, <1>3, <1>5, <2>1
  <2> QED BY <1>1, <2>1, <2>2
<1>7. \A i \in 1..Len(r) : r[i] = IF n + i <= Len(b) THEN b[n + i] ELSE d[n + i - Len(b)]
  BY <1>1, <1>2, <1>4
<1>8. Len(r) = Len(b) + Len(d) - n
  BY <1>1, <1>4
<1>9. RdFlushed(p, b, d, n) = q /\ RdPending(b, d, n) = r /\ SubSeq(b \o d, 1, n) = f
  BY DEF RdFlushed, RdPending, pending, f, q, r
<1> QED BY <1>3, <1>4, <1>5, <1>6, <1>7, <1>8, <1>9

\* When file, buffer and data were in order, file and buffer are so afterwards.
LEMMA RdFlushesInOrder ==
    ASSUME NEW S, NEW p \in Seq(S), NEW b \in Seq(S), NEW d \in Seq(S),
           NEW n \in 0..Len(b \o d), NEW v,
           RdBehind(p, v, 0), RdBehind(b, v, Len(p)), RdBehind(d, v, Len(p) + Len(b))
    PROVE  /\ RdBehind(RdFlushed(p, b, d, n), v, 0)
           /\ RdBehind(RdPending(b, d, n), v, Len(RdFlushed(p, b, d, n)))
<1> DEFINE q == RdFlushed(p, b, d, n)
           r == RdPending(b, d, n)
           lp == Len(p)
           lb == Len(b)
           ld == Len(d)
<1>1. /\ Len(q) = lp + n /\ Len(r) = lb + ld - n
      /\ \A i \in 1..Len(q) : q[i] = IF i <= lp THEN p[i]
                                    ELSE IF i - lp <= lb THEN b[i - lp] ELSE d[i - lp - lb]
      /\ \A i \in 1..Len(r) : r[i] = IF n + i <= lb THEN b[n + i] ELSE d[n + i - lb]
  BY RdFlushes
<1>2. lp \in Nat /\ lb \in Nat /\ ld \in Nat /\ n \in Nat /\ n <= lb + ld
  <2>1. Len(b \o d) = lb + ld OBVIOUS
  <2> QED BY <2>1
<1>3. /\ \A i \in 1..lp : p[i] = <<v, i>>
      /\ \A i \in 1..lb : b[i] = <<v, lp + i>>
      /\ \A i \in 1..ld : d[i] = <<v, lp + lb + i>>
  BY <1>2 DEF RdBehind
<1> HIDE DEF q, r, lp, lb, ld
<1>4. ASSUME NEW i \in 1..Len(q) PROVE q[i] = <<v, i>>
  <2>1. i \in Nat /\ i >= 1 /\ i <= lp + n
    BY <1>1, <1>2
  <2>2. CASE i <= lp
    <3>1. i \in 1..lp BY <1>2, <2>1, <2>2
    <3>2. q[i] = p[i] BY <1>1, <2>2
    <3> QED BY <1>3, <3>1, <3>2
  <2>3. CASE i > lp /\ i - lp <= lb
    <3>1. i - lp \in 1..lb /\ lp + (i - lp) = i BY <1>2, <2>1, <2>3
    <3>2. ~(i <= lp) BY <1>2, <2>1, <2>3
    <3> QED BY <1>1, <1>3, <2>3, <3>1, <3>2
  <2>4. CASE i > lp /\ i - lp > lb
    <3>1. i - lp - lb \in 1..ld /\ lp + lb + (i - lp - lb) = i BY <1>2, <2>1, <2>4
    <3>2. ~(i <= lp) /\ ~(i - lp <= lb) BY <1>2, <2>1, <2>4
    <3> QED BY <1>1, <1>3, <3>1, <3>2
  <2> QED BY <1>2, <2>1, <2>2, <2>3, <2>4
<1>5. ASSUME NEW i \in 1..Len(r) PROVE r[i] = <<v, Len(q) + i>>
  <2>1. i \in Nat /\ i >= 1 /\ i <= lb + ld - n
    BY <1>1, <1>2
  <2>2. CASE n + i <= lb
    <3>1. n + i \in 1..lb /\ lp + (n + i) = Len(q) + i BY <1>1, <1>2, <2>1, <2>2
    <3> QED BY <1>1, <1>3, <2>2, <3>1
  <2>3. CASE n + i > lb
    <3>1. n + i - lb \in 1..ld /\ lp + lb + (n + i - lb) = Len(q) + i BY <1>1, <1>2, <2>1, <2>3
    <3>2. ~(n + i <= lb) BY <1>2, <2>1, <2>3
    <3> QED BY <1>1, <1>3, <3>1, <3>2
  <2>4. n + i <= lb \/ n + i > lb BY <1>2, <2>1
  <2> QED BY <2>2, <2>3, <2>4
<1>6. Len(q) \in Nat BY <1>1, <1>2
<1>7. RdBehind(q, v, 0)
  <2>1. ASSUME NEW i \in 1..Len(q) PROVE q[i] = <<v, 0 + i>> BY <1>4, <1>6
  <2> QED BY <2>1 DEF RdBehind
<1>8. RdBehind(r, v, Len(q))
  BY <1>5 DEF RdBehind
<1> QED BY <1>7, <1>8 DEF q, r

\* RdProbe keeps the invariant.
LEMMA RdProbeKeeps == ASSUME RdInv, RdProbe PROVE RdInv'
<1>1. /\ UNCHANGED <<rdSizes, rdVersion, rdBuffer, rdPart, rdMeta>> /\ rdChanged' = FALSE
      /\ rdPc = "idle" /\ rdOffset' = 0 /\ rdData' = <<>>
      /\ \/ /\ rdProbed' = [size |-> rdSizes[rdVersion], identity |-> RdIdentity(rdVersion)]
            /\ rdPc' = "probed"
         \/ rdProbed' = RdUnprobed /\ rdPc' = "single"
  BY DEF RdProbe, rdRemote
<1>2. rdVersion \in Nat /\ rdSizes[rdVersion] \in Nat /\ RdIdentity(rdVersion) \in Nat
  BY RdAssumption DEF RdInv, RdTypes, RdVersions, RdIdentity
<1>3. RdTypes'
  <2>1. rdProbed' \in [size : Nat, identity : Nat] BY <1>1, <1>2 DEF RdUnprobed
  <2>2. rdData' \in Seq(RdBlocks) BY <1>1
  <2> QED BY <1>1, <2>1, <2>2 DEF RdInv, RdTypes
<1>4. RdStreams'
  BY <1>1 DEF RdInv, RdStreams
<1>5. ASSUME RdHasIdentity PROVE RdIdentified' /\ RdBelongs'
  <2>1. RdIdentified /\ RdBelongs BY <1>5 DEF RdInv
  <2>2. RdIdentity(rdVersion) = rdVersion BY <1>5 DEF RdIdentity
  <2>3. rdPc' = "probed" => rdProbed'.identity = rdVersion /\ rdProbed'.size = rdSizes[rdVersion]
    BY <1>1, <2>2
  <2>4. rdPc' \in {"probed", "single"} BY <1>1
  <2>5. rdPc' \in RdAttempting =>
          /\ rdProbed'.identity <= rdVersion'
          /\ IF rdChanged' THEN rdProbed'.identity < rdVersion'
             ELSE rdProbed'.size = rdSizes'[rdVersion'] /\ rdProbed'.identity = rdVersion'
    <3>1. ~rdChanged' BY <1>1
    <3>2. rdVersion' = rdVersion /\ rdSizes' = rdSizes BY <1>1
    <3>3. rdPc' \in RdAttempting => rdPc' = "probed" BY <2>4 DEF RdAttempting
    <3>4. rdPc' = "probed" => /\ rdProbed'.identity <= rdVersion'
                              /\ rdProbed'.size = rdSizes'[rdVersion']
                              /\ rdProbed'.identity = rdVersion'
      BY <1>2, <2>3, <3>2
    <3> QED BY <3>1, <3>3, <3>4, Zenon
  <2>6. rdMeta'.kind = "valid" => rdMeta'.identity <= rdVersion'
    BY <1>1, <2>1 DEF RdIdentified
  <2>7. RdIdentified'
    BY <2>4, <2>5, <2>6 DEF RdIdentified
  <2>8. RdBelongs'
    BY <1>1, <2>1, <2>4, RdStillBelongs
  <2> QED BY <2>7, <2>8
<1> QED BY <1>3, <1>4, <1>5 DEF RdInv

\* The single pass does not touch the part file.
LEMMA RdSinglePassKeeps == ASSUME RdInv, RdSinglePassRead \/ RdSinglePassWrite PROVE RdInv'
<1>1. /\ UNCHANGED <<rdSizes, rdVersion, rdProbed, rdOffset, rdBuffer, rdPart, rdMeta, rdChanged>>
      /\ rdData' \in {RdWhole(rdVersion), <<>>} /\ rdPc \in {"single", "write dst"}
      /\ rdPc' \in {"write dst", "idle"}
  BY DEF RdSinglePassRead, RdSinglePassWrite, rdRemote, rdHistory
<1>2. rdData' \in Seq(RdBlocks)
  <2>1. rdVersion \in Nat /\ rdSizes[rdVersion] \in Nat
    BY RdAssumption DEF RdInv, RdTypes, RdVersions
  <2>2. RdWhole(rdVersion) \in Seq(RdBlocks)
    BY <2>1 DEF RdWhole, RdBlocks
  <2>3. <<>> \in Seq(RdBlocks) OBVIOUS
  <2> QED BY <1>1, <2>2, <2>3
<1>3. RdTypes'
  BY <1>1, <1>2 DEF RdInv, RdTypes
<1>4. RdStreams'
  BY <1>1 DEF RdInv, RdStreams
<1>5. ASSUME RdHasIdentity PROVE RdIdentified' /\ RdBelongs'
  <2>1. RdIdentified /\ RdBelongs BY <1>5 DEF RdInv
  <2> QED BY <1>1, <2>1, RdStillBelongs DEF RdIdentified, RdAttempting
<1> QED BY <1>3, <1>4, <1>5 DEF RdInv

\* Continuing keeps the invariant: the sidecar is that of the probed version.
LEMMA RdResumeKeeps == ASSUME RdInv, RdResume PROVE RdInv'
<1>1. /\ UNCHANGED <<rdSizes, rdVersion, rdProbed, rdData, rdBuffer, rdPart, rdMeta, rdChanged>>
      /\ rdOffset' = Len(rdPart.blocks) /\ rdPc = "probed" /\ rdPc' = "open" /\ rdMeta = RdMeta(rdProbed)
  BY DEF RdResume, RdResumeOffset, RdResumable, RdFileLen, rdRemote, rdHistory
<1>2. RdTypes'
  BY <1>1 DEF RdInv, RdTypes
<1>3. RdStreams'
  BY <1>1 DEF RdInv, RdStreams
<1>4. ASSUME RdHasIdentity PROVE RdIdentified' /\ RdBelongs'
  <2>1. RdIdentified /\ RdBelongs BY <1>4 DEF RdInv
  <2> QED BY <1>1, <2>1, RdStillBelongs DEF RdIdentified, RdAttempting, RdMeta
<1> QED BY <1>2, <1>3, <1>4 DEF RdInv

\* Starting afresh empties the part before the sidecar changes.
LEMMA RdFreshKeeps ==
    ASSUME RdInv, RdStartFresh \/ RdUnlinkMeta \/ RdWriteMeta
    PROVE  RdInv'
<1>1. /\ UNCHANGED <<rdSizes, rdVersion, rdProbed, rdOffset, rdData, rdBuffer, rdChanged>>
      /\ rdPc \in {"probed", "unlinked part", "write meta"}
      /\ \/ rdPc' = "unlinked part" /\ rdMeta' = rdMeta /\ rdPart' = RdAbsent
         \/ rdPc' = "write meta" /\ rdMeta' = RdNoMeta /\ rdPart' = rdPart /\ rdPart.blocks = <<>>
         \/ rdPc' = "open" /\ rdMeta' = RdMeta(rdProbed) /\ rdPart' = rdPart /\ rdPart.blocks = <<>>
      /\ rdBuffer' = <<>>
  BY DEF RdStartFresh, RdUnlinkMeta, RdWriteMeta, rdRemote, rdHistory, RdInv, RdStreams
<1>2. rdPart'.blocks = <<>>
  BY <1>1, RdRecords
<1>3. RdTypes'
  <2>1. rdPart' \in [there : BOOLEAN, blocks : Seq(RdBlocks)]
    BY <1>1, RdRecords DEF RdInv, RdTypes
  <2>2. rdMeta' \in [kind : {"absent", "corrupt", "valid"}, size : Nat, identity : Nat]
    <3>1. /\ rdProbed \in [size : Nat, identity : Nat]
          /\ rdMeta \in [kind : {"absent", "corrupt", "valid"}, size : Nat, identity : Nat]
      BY DEF RdInv, RdTypes
    <3>2. CASE rdMeta' = rdMeta BY <3>1, <3>2
    <3>3. CASE rdMeta' = RdNoMeta BY <3>3, RdRecords
    <3>4. CASE rdMeta' = RdMeta(rdProbed) BY <3>1, <3>4, RdRecords
    <3> QED BY <1>1, <3>2, <3>3, <3>4
  <2> QED BY <1>1, <2>1, <2>2 DEF RdInv, RdTypes
<1>4. RdStreams'
  BY <1>1, <1>2 DEF RdInv, RdStreams
<1>5. ASSUME RdHasIdentity PROVE RdIdentified' /\ RdBelongs'
  <2>1. RdIdentified BY <1>5 DEF RdInv
  <2>2. /\ rdProbed.identity <= rdVersion /\ rdProbed \in [size : Nat, identity : Nat]
        /\ RdMeta(rdProbed).identity = rdProbed.identity
    BY <1>1, <2>1, RdRecords DEF RdIdentified, RdAttempting, RdInv, RdTypes
  <2>3. RdIdentified'
    BY <1>1, <2>1, <2>2, RdRecords DEF RdIdentified, RdAttempting
  <2>4. rdPc' \notin {"write", "rename"} BY <1>1
  <2> QED BY <1>1, <1>2, <1>3, <2>3, <2>4, RdEmptyBelongs
<1> QED BY <1>3, <1>4, <1>5 DEF RdInv

\* Opening the part for writing truncates it, for appending leaves it alone.
LEMMA RdOpenPartKeeps == ASSUME RdInv, RdOpenPart PROVE RdInv'
<1>1. /\ UNCHANGED <<rdSizes, rdVersion, rdProbed, rdOffset, rdData, rdBuffer, rdMeta, rdChanged>>
      /\ rdPc = "open" /\ rdPc' = "fetch"
      /\ rdPart' = IF rdOffset = 0 THEN RdFile(<<>>) ELSE rdPart
  BY DEF RdOpenPart, rdRemote, rdHistory
<1>2. <<>> \in Seq(RdBlocks) /\ Len(<<>>) = 0 OBVIOUS
<1>3. /\ rdPart' \in [there : BOOLEAN, blocks : Seq(RdBlocks)]
      /\ IF rdOffset = 0 THEN rdPart'.blocks = <<>> ELSE rdPart' = rdPart
  BY <1>1, <1>2, RdRecords DEF RdInv, RdTypes
<1>4. RdTypes'
  BY <1>1, <1>3 DEF RdInv, RdTypes
<1>5. rdBuffer' = <<>> /\ rdOffset' = Len(rdPart'.blocks) + Len(rdBuffer')
  BY <1>1, <1>2, <1>3 DEF RdInv, RdStreams, RdTypes
<1>6. RdStreams'
  BY <1>1, <1>5 DEF RdStreams
<1>7. ASSUME RdHasIdentity PROVE RdIdentified' /\ RdBelongs'
  <2>1. RdIdentified /\ RdBelongs BY <1>7 DEF RdInv
  <2>2. RdIdentified' BY <1>1, <2>1 DEF RdIdentified, RdAttempting
  <2>3. CASE rdOffset = 0
    BY <1>1, <1>3, <1>4, <1>5, <2>2, <2>3, RdEmptyBelongs
  <2>4. CASE rdOffset # 0
    <3>1. UNCHANGED <<rdSizes, rdVersion, rdBuffer, rdPart, rdMeta>> BY <1>1, <1>3, <2>4
    <3> QED BY <1>1, <2>1, <2>2, <3>1, RdStillBelongs
  <2> QED BY <2>3, <2>4
<1> QED BY <1>4, <1>6, <1>7 DEF RdInv

\* A range read brings the blocks behind the offset.
LEMMA RdFetchKeeps == ASSUME RdInv, RdFetch PROVE RdInv'
<1> DEFINE d == RdRangeRead(rdOffset, RdLastAsked)
<1>1. /\ UNCHANGED <<rdSizes, rdVersion, rdProbed, rdOffset, rdBuffer, rdPart, rdMeta, rdChanged>>
      /\ rdPc = "fetch" /\ rdPc' = "write" /\ rdOffset < rdProbed.size
      /\ rdData' = d /\ d # <<>>
  BY DEF RdFetch, rdRemote, rdHistory
<1>2. RdTypes /\ rdOffset \in Nat BY DEF RdInv, RdTypes
<1>3. RdLastAsked \in Nat /\ rdOffset <= RdLastAsked
  BY <1>1, <1>2, RdAsks
<1>4. /\ d \in Seq(RdBlocks)
      /\ RdBehind(d, rdVersion, rdOffset) /\ rdOffset + Len(d) <= rdSizes[rdVersion]
  BY <1>1, <1>2, <1>3, RdReads
<1> HIDE DEF d
<1>5. RdTypes'
  BY <1>1, <1>4 DEF RdInv, RdTypes
<1>6. RdStreams'
  BY <1>1 DEF RdInv, RdStreams
<1>7. ASSUME RdHasIdentity PROVE RdIdentified' /\ RdBelongs'
  <2>1. RdIdentified /\ RdBelongs BY <1>7 DEF RdInv
  <2>2. RdIdentified' BY <1>1, <2>1 DEF RdIdentified, RdAttempting
  <2>3. RdBelongs' BY <1>1, <1>4, <2>1 DEF RdBelongs, RdBegins
  <2> QED BY <2>2, <2>3
<1> QED BY <1>5, <1>6, <1>7 DEF RdInv

\* A write puts them behind what the file and the buffer hold.
LEMMA RdWriteKeeps == ASSUME RdInv, RdWrite PROVE RdInv'
<1> DEFINE p == rdPart.blocks
           b == rdBuffer
           d == rdData
<1>1. /\ UNCHANGED <<rdSizes, rdVersion, rdProbed, rdMeta, rdChanged>>
      /\ rdPc = "write" /\ rdPc' = "fetch"
      /\ rdOffset' = rdOffset + Len(d) /\ rdData' = <<>>
  BY DEF RdWrite, rdRemote, rdHistory
<1>2. PICK n \in 0..Len(b \o d) :
        /\ rdPart' = RdFile(p \o SubSeq(b \o d, 1, n))
        /\ rdBuffer' = SubSeq(b \o d, Len(SubSeq(b \o d, 1, n)) + 1, Len(b \o d))
  BY DEF RdWrite, RdPrefixes
<1> DEFINE q == RdFlushed(p, b, d, n)
           r == RdPending(b, d, n)
<1>3. p \in Seq(RdBlocks) /\ b \in Seq(RdBlocks) /\ d \in Seq(RdBlocks)
  BY DEF RdInv, RdTypes
<1>4. /\ q \in Seq(RdBlocks) /\ Len(q) = Len(p) + n
      /\ r \in Seq(RdBlocks) /\ Len(r) = Len(b) + Len(d) - n
      /\ Len(SubSeq(b \o d, 1, n)) = n
  BY <1>3, RdFlushes
<1>5. rdPart' = RdFile(q) /\ rdBuffer' = r
  BY <1>2, <1>4 DEF RdFlushed, RdPending
<1>6. n \in Nat /\ Len(p) \in Nat /\ Len(b) \in Nat /\ Len(d) \in Nat /\ rdOffset \in Nat
  BY <1>3 DEF RdInv, RdTypes
<1>7. rdOffset = Len(p) + Len(b)
  BY <1>1 DEF RdInv, RdStreams
<1>8. RdBehind(p, rdVersion, 0) /\ RdBehind(b, rdVersion, Len(p)) /\ RdBehind(d, rdVersion, Len(p) + Len(b))
      => RdBehind(q, rdVersion, 0) /\ RdBehind(r, rdVersion, Len(q))
  BY <1>3, RdFlushesInOrder
<1> HIDE DEF q, r
<1>9. Len(q) + Len(r) = rdOffset + Len(d)
  <2> DEFINE lq == Len(q)
             lr == Len(r)
             lp == Len(p)
             lb == Len(b)
             ld == Len(d)
  <2>1. lq = lp + n /\ lr = lb + ld - n /\ rdOffset = lp + lb BY <1>4, <1>7
  <2>2. lp \in Nat /\ lb \in Nat /\ ld \in Nat BY <1>6
  <2> HIDE DEF lq, lr, lp, lb, ld
  <2>3. lq + lr = rdOffset + ld BY <1>6, <2>1, <2>2
  <2> QED BY <2>3 DEF lq, lr, ld
<1>10. rdPart' \in [there : BOOLEAN, blocks : Seq(RdBlocks)] /\ rdPart'.blocks = q
  BY <1>4, <1>5, RdRecords
<1>11. RdTypes'
  <2>1. <<>> \in Seq(RdBlocks) OBVIOUS
  <2>2. rdOffset' \in Nat BY <1>1, <1>6
  <2> QED BY <1>1, <1>4, <1>5, <1>10, <2>1, <2>2 DEF RdInv, RdTypes
<1>12. RdStreams'
  BY <1>1, <1>5, <1>9, <1>10 DEF RdStreams
<1>13. ASSUME RdHasIdentity PROVE RdIdentified' /\ RdBelongs'
  <2>1. RdIdentified /\ RdBelongs BY <1>13 DEF RdInv
  <2>2. RdIdentified' BY <1>1, <2>1 DEF RdIdentified, RdAttempting
  <2>3. ASSUME rdMeta.kind = "valid", rdMeta.identity = rdVersion PROVE RdBegins(rdVersion)'
    <3>1. rdMeta = RdMeta(rdProbed) /\ rdProbed.identity = rdVersion /\ rdVersion \in Nat
      BY <1>1, <2>1, <2>3, RdRecords, RdAssumption DEF RdIdentified, RdInv, RdTypes, RdVersions
    <3>2. ~rdChanged
      BY <1>1, <2>1, <3>1 DEF RdIdentified, RdAttempting
    <3>3. /\ rdOffset + Len(d) <= rdSizes[rdVersion]
          /\ RdBehind(d, rdVersion, Len(p) + Len(b))
      BY <1>1, <1>7, <2>1, <3>2 DEF RdBelongs
    <3>4. RdBehind(p, rdVersion, 0) /\ RdBehind(b, rdVersion, Len(p))
      BY <2>1, <2>3 DEF RdBelongs, RdBegins
    <3>5. RdBehind(q, rdVersion, 0) /\ RdBehind(r, rdVersion, Len(q))
      BY <1>8, <3>3, <3>4
    <3>6. rdVersion' = rdVersion /\ rdSizes' = rdSizes BY <1>1
    <3> QED BY <1>5, <1>9, <1>10, <3>3, <3>5, <3>6 DEF RdBegins
  <2>4. RdBelongs'
    BY <1>1, <2>3 DEF RdBelongs
  <2> QED BY <2>2, <2>4
<1> QED BY <1>11, <1>12, <1>13 DEF RdInv

\* The handle is closed or lost: k, a beginning of its buffer, reaches the file.
LEMMA RdStreamEnds ==
    ASSUME RdInv, NEW k \in Seq(RdBlocks), Len(k) <= Len(rdBuffer),
           \A i \in 1..Len(k) : k[i] = rdBuffer[i],
           UNCHANGED <<rdSizes, rdVersion>>,
           rdPart' = RdFile(rdPart.blocks \o k), rdBuffer' = <<>>
    PROVE  /\ rdPart' \in [there : BOOLEAN, blocks : Seq(RdBlocks)]
           /\ rdPart' = RdFile(rdPart'.blocks)
           /\ Len(rdPart'.blocks) = Len(rdPart.blocks) + Len(k)
           /\ RdBegins(rdVersion) => RdBegins(rdVersion)'
<1> DEFINE p == rdPart.blocks
           q == p \o k
           lp == Len(p)
           lk == Len(k)
<1>1. p \in Seq(RdBlocks) /\ rdBuffer \in Seq(RdBlocks) /\ lp \in Nat /\ lk \in Nat /\ Len(rdBuffer) \in Nat
  BY DEF RdInv, RdTypes
<1>2. /\ q \in Seq(RdBlocks) /\ Len(q) = lp + lk
      /\ \A i \in 1..lp + lk : q[i] = IF i <= lp THEN p[i] ELSE k[i - lp]
  BY <1>1
<1>3. rdPart' = RdFile(q) OBVIOUS
<1> HIDE DEF q
<1>4. rdPart' \in [there : BOOLEAN, blocks : Seq(RdBlocks)] /\ rdPart'.blocks = q
  BY <1>2, <1>3, RdRecords
<1>5. ASSUME RdBegins(rdVersion) PROVE RdBegins(rdVersion)'
  <2>1. /\ lp + Len(rdBuffer) <= rdSizes[rdVersion]
        /\ \A i \in 1..lp : p[i] = <<rdVersion, 0 + i>>
        /\ \A i \in 1..Len(rdBuffer) : rdBuffer[i] = <<rdVersion, lp + i>>
    BY <1>5 DEF RdBegins, RdBehind
  <2>2. rdSizes[rdVersion] \in Nat BY DEF RdInv, RdTypes
  <2> HIDE DEF p, lp, lk
  <2>3. ASSUME NEW i \in 1..lp + lk PROVE q[i] = <<rdVersion, 0 + i>>
    <3>1. i \in Nat /\ i >= 1 /\ i <= lp + lk BY <1>1
    <3>2. CASE i <= lp
      <4>1. i \in 1..lp BY <1>1, <3>1, <3>2
      <4>2. q[i] = p[i] BY <1>2, <3>2
      <4> QED BY <2>1, <4>1, <4>2
    <3>3. CASE ~(i <= lp)
      <4>1. i - lp \in 1..lk /\ i - lp \in 1..Len(rdBuffer) /\ lp + (i - lp) = 0 + i
        BY <1>1, <3>1, <3>3 DEF lk
      <4>2. q[i] = k[i - lp] BY <1>2, <3>3
      <4>3. k[i - lp] = rdBuffer[i - lp] BY <4>1 DEF lk
      <4> QED BY <2>1, <4>1, <4>2, <4>3
    <3> QED BY <3>2, <3>3
  <2>4. RdBehind(q, rdVersion, 0)
    BY <1>2, <2>3 DEF RdBehind
  <2>5. RdBehind(<<>>, rdVersion, Len(q)) /\ Len(<<>>) = 0
    BY DEF RdBehind
  <2>6. Len(q) + 0 <= rdSizes[rdVersion]
    BY <1>1, <1>2, <2>1, <2>2 DEF lk
  <2>7. rdVersion' = rdVersion /\ rdSizes' = rdSizes OBVIOUS
  <2> QED BY <1>4, <2>4, <2>5, <2>6, <2>7 DEF RdBegins
<1> QED BY <1>2, <1>3, <1>4, <1>5 DEF lp, lk, p

\* When the loop ends at an unchanged object, all of it is in the part.
LEMMA RdCloseLoopKeeps == ASSUME RdInv, RdCloseLoop PROVE RdInv'
<1>1. /\ UNCHANGED <<rdSizes, rdVersion, rdProbed, rdOffset, rdData, rdMeta, rdChanged>>
      /\ rdPc = "fetch" /\ rdPc' = "rename"
      /\ rdOffset >= rdProbed.size \/ RdRangeRead(rdOffset, RdLastAsked) = <<>>
      /\ rdPart' = RdFile(rdPart.blocks \o rdBuffer) /\ rdBuffer' = <<>>
  BY DEF RdCloseLoop, rdRemote, rdHistory
<1>2. RdTypes /\ rdBuffer \in Seq(RdBlocks) /\ Len(rdBuffer) <= Len(rdBuffer) /\ rdOffset \in Nat
      /\ rdVersion \in Nat /\ rdProbed.size \in Nat /\ rdSizes[rdVersion] \in Nat
  BY RdAssumption DEF RdInv, RdTypes, RdVersions
<1>3. UNCHANGED <<rdSizes, rdVersion>>
  BY <1>1
<1>4. /\ rdPart' \in [there : BOOLEAN, blocks : Seq(RdBlocks)]
      /\ rdPart' = RdFile(rdPart'.blocks)
      /\ Len(rdPart'.blocks) = Len(rdPart.blocks) + Len(rdBuffer)
      /\ RdBegins(rdVersion) => RdBegins(rdVersion)'
  BY <1>1, <1>2, <1>3, RdStreamEnds
<1>5. Len(rdPart'.blocks) = rdOffset
  BY <1>1, <1>4 DEF RdInv, RdStreams
<1>6. RdTypes'
  <2>1. <<>> \in Seq(RdBlocks) OBVIOUS
  <2> QED BY <1>1, <1>4, <2>1 DEF RdInv, RdTypes
<1>7. RdStreams'
  BY <1>1 DEF RdStreams
<1>8. ASSUME RdHasIdentity PROVE RdIdentified' /\ RdBelongs'
  <2>1. RdIdentified /\ RdBelongs BY <1>8 DEF RdInv
  <2>2. RdIdentified' BY <1>1, <2>1 DEF RdIdentified, RdAttempting
  <2>3. ASSUME ~rdChanged PROVE rdOffset = rdSizes[rdVersion]
    <3>1. rdProbed.size = rdSizes[rdVersion] /\ rdProbed.identity = rdVersion /\ rdMeta = RdMeta(rdProbed)
      BY <1>1, <2>1, <2>3 DEF RdIdentified, RdAttempting
    <3>2. rdMeta.kind = "valid" /\ rdMeta.identity = rdVersion
      BY <3>1, RdRecords DEF RdInv, RdTypes
    <3>3. rdOffset <= rdSizes[rdVersion]
      BY <1>1, <2>1, <3>2 DEF RdBelongs, RdBegins, RdInv, RdStreams
    <3>4. rdOffset < rdSizes[rdVersion] => RdRangeRead(rdOffset, RdLastAsked) # <<>>
      BY <1>2, <3>1, RdAsks, RdReads
    <3> QED BY <1>1, <1>2, <3>1, <3>3, <3>4
  <2>4. RdBelongs'
    BY <1>1, <1>4, <1>5, <2>1, <2>3 DEF RdBelongs
  <2> QED BY <2>2, <2>4
<1> QED BY <1>6, <1>7, <1>8 DEF RdInv

\* The rename takes the part away; its sidecar follows.
LEMMA RdRenameKeeps == ASSUME RdInv, RdRename \/ RdFinish PROVE RdInv'
<1>1. /\ UNCHANGED <<rdSizes, rdVersion, rdProbed, rdOffset, rdData, rdBuffer, rdChanged>>
      /\ rdPc \in {"rename", "unlink meta"} /\ rdPc' \in {"unlink meta", "idle"}
      /\ \/ rdPart' = RdAbsent /\ rdMeta' = rdMeta
         \/ rdPart' = rdPart /\ rdMeta' = RdNoMeta
  BY DEF RdRename, RdFinish, rdRemote, rdHistory
<1>2. rdBuffer' = <<>>
  BY <1>1 DEF RdInv, RdStreams
<1>3. RdTypes'
  BY <1>1, RdRecords DEF RdInv, RdTypes
<1>4. RdStreams'
  BY <1>1, <1>2 DEF RdStreams
<1>5. ASSUME RdHasIdentity PROVE RdIdentified' /\ RdBelongs'
  <2>1. RdIdentified /\ RdBelongs BY <1>5 DEF RdInv
  <2>2. RdIdentified' BY <1>1, <2>1, RdRecords DEF RdIdentified, RdAttempting
  <2>3. rdPc' \notin {"write", "rename"} BY <1>1
  <2>4. CASE rdPart' = RdAbsent
    BY <1>2, <1>3, <2>2, <2>3, <2>4, RdRecords, RdEmptyBelongs
  <2>5. CASE rdMeta' = RdNoMeta
    BY <2>2, <2>3, <2>5, RdRecords DEF RdBelongs
  <2> QED BY <1>1, <2>4, <2>5
<1> QED BY <1>3, <1>4, <1>5 DEF RdInv

\* The attempt ends early: what reached the part still belongs to its sidecar.
LEMMA RdAttemptEnds ==
    ASSUME RdInv, UNCHANGED <<rdSizes, rdVersion, rdProbed, rdOffset, rdChanged>>,
           rdPc' = "idle", rdBuffer' = <<>>, rdData' = <<>>, rdMeta' \in {rdMeta, RdCorrupt},
           NEW k \in Seq(RdBlocks), Len(k) <= Len(rdBuffer), \A i \in 1..Len(k) : k[i] = rdBuffer[i],
           \/ rdPart' = RdFile(rdPart.blocks \o k)
           \/ rdPart' = rdPart /\ rdBuffer = <<>>
    PROVE  RdInv'
<1>1. UNCHANGED <<rdSizes, rdVersion>> OBVIOUS
<1>2. /\ rdPart' \in [there : BOOLEAN, blocks : Seq(RdBlocks)]
      /\ RdBegins(rdVersion) => RdBegins(rdVersion)'
  <2>1. CASE rdPart' = RdFile(rdPart.blocks \o k)
    BY <1>1, <2>1, RdStreamEnds
  <2>2. CASE rdPart' = rdPart /\ rdBuffer = <<>>
    BY <2>2 DEF RdInv, RdTypes, RdBegins
  <2> QED BY <2>1, <2>2
<1>3. RdTypes'
  <2>1. <<>> \in Seq(RdBlocks) OBVIOUS
  <2>2. rdMeta' \in [kind : {"absent", "corrupt", "valid"}, size : Nat, identity : Nat]
    BY RdRecords DEF RdInv, RdTypes
  <2> QED BY <1>2, <2>1, <2>2 DEF RdInv, RdTypes
<1>4. RdStreams'
  BY DEF RdStreams
<1>5. ASSUME RdHasIdentity PROVE RdIdentified' /\ RdBelongs'
  <2>1. RdIdentified /\ RdBelongs BY <1>5 DEF RdInv
  <2>2. rdMeta'.kind = "valid" => rdMeta' = rdMeta BY RdRecords
  <2> QED BY <1>2, <2>1, <2>2 DEF RdIdentified, RdAttempting, RdBelongs
<1> QED BY <1>3, <1>4, <1>5 DEF RdInv

\* An exception closes the handle: the whole buffer reaches the file.
LEMMA RdFailKeeps == ASSUME RdInv, RdFail PROVE RdInv'
<1>1. /\ UNCHANGED <<rdSizes, rdVersion, rdProbed, rdOffset, rdChanged>>
      /\ rdPc' = "idle" /\ rdBuffer' = <<>> /\ rdData' = <<>> /\ rdMeta' \in {rdMeta, RdCorrupt}
      /\ rdPart' = IF rdPc = "single" THEN rdPart ELSE RdFile(rdPart.blocks \o rdBuffer)
  BY DEF RdFail, rdRemote, rdHistory
<1>2. \/ rdPart' = RdFile(rdPart.blocks \o rdBuffer)
      \/ rdPart' = rdPart /\ rdBuffer = <<>>
  BY <1>1 DEF RdInv, RdStreams
<1>3. rdBuffer \in Seq(RdBlocks) /\ Len(rdBuffer) <= Len(rdBuffer)
  BY DEF RdInv, RdTypes
<1> QED BY <1>1, <1>2, <1>3, RdAttemptEnds

\* A kill loses what of the buffer has not reached the file.
LEMMA RdKillKeeps == ASSUME RdInv, RdKill PROVE RdInv'
<1>1. /\ UNCHANGED <<rdSizes, rdVersion, rdProbed, rdOffset, rdChanged>>
      /\ rdPc' = "idle" /\ rdBuffer' = <<>> /\ rdData' = <<>> /\ rdMeta' \in {rdMeta, RdCorrupt}
  BY DEF RdKill, rdRemote
<1>2. PICK n \in 0..Len(rdBuffer) :
        rdPart' = IF rdPc \in {"fetch", "write"} THEN RdFile(rdPart.blocks \o SubSeq(rdBuffer, 1, n)) ELSE rdPart
  BY DEF RdKill, RdPrefixes
<1> DEFINE k == SubSeq(rdBuffer, 1, n)
<1>3. rdBuffer \in Seq(RdBlocks) BY DEF RdInv, RdTypes
<1>4. k \in Seq(RdBlocks) /\ Len(k) <= Len(rdBuffer) /\ \A i \in 1..Len(k) : k[i] = rdBuffer[i]
  BY <1>3
<1> HIDE DEF k
<1>5. \/ rdPart' = RdFile(rdPart.blocks \o k)
      \/ rdPart' = rdPart /\ rdBuffer = <<>>
  BY <1>2 DEF k, RdInv, RdStreams
<1> QED BY <1>1, <1>4, <1>5, RdAttemptEnds

\* A new version at the key: nothing in the part or the sidecar is of it.
LEMMA RdOverwriteKeeps == ASSUME RdInv, RdOverwrite PROVE RdInv'
<1>1. /\ UNCHANGED <<rdSizes, rdPc, rdProbed, rdOffset, rdData, rdBuffer, rdPart, rdMeta>>
      /\ rdVersion < RdMaxVersion /\ rdVersion' = rdVersion + 1 /\ rdChanged' = TRUE
  BY DEF RdOverwrite, rdLocal
<1>2. rdVersion \in Nat /\ rdVersion' \in RdVersions
  BY <1>1, RdAssumption DEF RdInv, RdTypes, RdVersions
<1>3. RdTypes'
  BY <1>1, <1>2 DEF RdInv, RdTypes
<1>4. RdStreams'
  BY <1>1 DEF RdInv, RdStreams
<1>5. ASSUME RdHasIdentity PROVE RdIdentified' /\ RdBelongs'
  <2>1. RdIdentified /\ RdBelongs BY <1>5 DEF RdInv
  <2>2. rdProbed.identity \in Nat /\ rdMeta.identity \in Nat BY DEF RdInv, RdTypes
  <2>3. rdPc \in RdAttempting => rdProbed.identity <= rdVersion
    BY <2>1 DEF RdIdentified
  <2>4. rdPc' \in RdAttempting => rdProbed'.identity < rdVersion' /\ rdProbed'.identity <= rdVersion'
    BY <1>1, <1>2, <2>2, <2>3
  <2>5. rdMeta.kind = "valid" => rdMeta.identity <= rdVersion
    BY <2>1 DEF RdIdentified
  <2>6. rdMeta'.kind = "valid" => rdMeta'.identity <= rdVersion' /\ rdMeta'.identity # rdVersion'
    BY <1>1, <1>2, <2>2, <2>5
  <2>7. RdIdentified'
    BY <1>1, <2>1, <2>4, <2>6 DEF RdIdentified
  <2>8. RdBelongs'
    BY <1>1, <2>1, <2>6 DEF RdBelongs
  <2> QED BY <2>7, <2>8
<1> QED BY <1>3, <1>4, <1>5 DEF RdInv

\* RdInv holds initially.
LEMMA RdInitHolds == RdInit => RdInv
<1> SUFFICES ASSUME RdInit PROVE RdInv OBVIOUS
<1>1. rdVersion \in RdVersions /\ rdSizes \in [RdVersions -> Nat]
  BY RdAssumption DEF RdInit, RdVersions
<1>2. rdProbed \in [size : Nat, identity : Nat] /\ rdOffset \in Nat
  BY DEF RdInit, RdUnprobed
<1>3. rdData \in Seq(RdBlocks) /\ rdBuffer \in Seq(RdBlocks)
  BY DEF RdInit
<1>4. RdTypes
  BY <1>1, <1>2, <1>3, RdRecords DEF RdInit, RdTypes
<1>5. RdStreams
  BY DEF RdInit, RdStreams
<1>6. RdIdentified /\ RdBelongs
  BY RdRecords DEF RdInit, RdIdentified, RdBelongs, RdAttempting
<1> QED BY <1>4, <1>5, <1>6 DEF RdInv

\* Every step keeps RdInv.
LEMMA RdStepKeeps == RdInv /\ [RdNext \/ RdStopped]_rdVars => RdInv'
<1> SUFFICES ASSUME RdInv, [RdNext \/ RdStopped]_rdVars PROVE RdInv' OBVIOUS
<1>1. CASE RdAttempt
  BY <1>1, RdProbeKeeps, RdSinglePassKeeps, RdResumeKeeps, RdFreshKeeps, RdOpenPartKeeps, RdFetchKeeps,
     RdWriteKeeps, RdCloseLoopKeeps, RdRenameKeeps DEF RdAttempt
<1>2. CASE RdOverwrite BY <1>2, RdOverwriteKeeps
<1>3. CASE RdFail BY <1>3, RdFailKeeps
<1>4. CASE RdKill BY <1>4, RdKillKeeps
<1>5. CASE UNCHANGED rdVars
  BY <1>5 DEF rdVars, rdRemote, rdLocal, rdHistory, RdInv, RdTypes, RdStreams, RdIdentified, RdBelongs, RdBegins
<1> QED BY <1>1, <1>2, <1>3, <1>4, <1>5 DEF RdNext, RdStopped

\* The invariant holds initially and every step keeps it.
LEMMA RdInvariance == RdSpec => []RdInv
<1>1. RdInit => RdInv BY RdInitHolds
<1>2. RdInv /\ [RdNext \/ RdStopped]_rdVars => RdInv' BY RdStepKeeps
<1> QED BY <1>1, <1>2, PTL DEF RdSpec

\* While an attempt streams, file and buffer hold exactly what it has counted,
\* whatever earlier attempts left and however they ended: the next range read
\* neither repeats nor skips a byte.
THEOREM OffsetKept == RdSpec => []RdOffsetMatchesPart
<1>1. RdInv => RdOffsetMatchesPart
  BY DEF RdInv, RdStreams, RdOffsetMatchesPart, RdFileLen
<1> QED BY <1>1, RdInvariance, PTL

\* From a server that names the versions of its objects, a resumed download
\* continues the right object at the right place: what is about to be renamed is
\* the object the attempt probed, unless that changed under it.
THEOREM ResumedRight == ASSUME RdHasIdentity PROVE RdSpec => []RdResumesRight
<1>1. ASSUME RdInv PROVE RdResumesRight
  <2>1. RdOffsetMatchesPart
    BY <1>1 DEF RdInv, RdStreams, RdOffsetMatchesPart, RdFileLen
  <2>2. ASSUME rdPc = "rename", ~rdChanged PROVE rdPart = RdFile(RdWhole(rdVersion))
    <3> DEFINE s == rdPart.blocks
    <3>1. RdTypes /\ RdIdentified /\ RdBelongs BY <1>1 DEF RdInv
    <3>2. rdVersion \in Nat /\ rdSizes[rdVersion] \in Nat /\ s \in Seq(RdBlocks)
      BY <3>1, RdAssumption DEF RdTypes, RdVersions
    <3>3. rdPart = RdFile(s) /\ Len(s) = rdSizes[rdVersion]
      BY <2>2, <3>1 DEF RdBelongs
    <3>4. rdMeta.kind = "valid" /\ rdMeta.identity = rdVersion
      BY <2>2, <3>1, RdRecords DEF RdIdentified, RdAttempting, RdTypes
    <3>5. RdBehind(s, rdVersion, 0)
      BY <3>1, <3>4 DEF RdBelongs, RdBegins
    <3> HIDE DEF s
    <3>6. \A i \in 1..rdSizes[rdVersion] : s[i] = <<rdVersion, i>>
      BY <3>2, <3>3, <3>5 DEF RdBehind
    <3>7. s = [i \in 1..rdSizes[rdVersion] |-> s[i]]
      BY <3>2, <3>3
    <3>8. s = RdWhole(rdVersion)
      BY <3>6, <3>7 DEF RdWhole
    <3> QED BY <3>3, <3>8
  <2> QED BY <2>1, <2>2 DEF RdResumesRight, RdNoStitchAcrossAttempts
<1> QED BY <1>1, RdInvariance, PTL

\* No content is longer than the largest version, and an attempt asks for no
\* byte behind the size it probed.
RdPieces == RdVersions \X (1..RdMaxSize)
RdBounded ==
    /\ rdSizes \in [RdVersions -> 0..RdMaxSize]
    /\ rdProbed.size \in 0..RdMaxSize /\ rdProbed.identity \in 0..RdMaxVersion
    /\ rdData \in Seq(RdPieces) /\ Len(rdData) <= RdMaxSize
    /\ rdDst.blocks \in Seq(RdPieces) /\ Len(rdDst.blocks) <= RdMaxSize
    /\ rdPart.blocks \in Seq(RdPieces) /\ rdBuffer \in Seq(RdPieces)
    /\ Len(rdPart.blocks) + Len(rdBuffer) <= RdMaxSize
    /\ rdOffset <= RdMaxSize
    /\ rdPc \in {"open", "fetch", "write", "rename"} => rdOffset <= rdProbed.size
    /\ rdPc = "write" => rdOffset + Len(rdData) <= rdProbed.size

\* So the variables have their types.
LEMMA RdBoundedTyped == RdInv /\ RdBounded => RdTypeOK
<1> SUFFICES ASSUME RdInv, RdBounded PROVE RdTypeOK
  OBVIOUS
<1>1. ASSUME NEW s \in Seq(RdPieces), Len(s) <= RdMaxSize PROVE s \in RdContents
  <2>1. s \in [1..Len(s) -> RdPieces] /\ Len(s) \in 0..RdMaxSize BY <1>1
  <2> QED BY <2>1 DEF RdContents, RdPieces
<1>2. Len(rdPart.blocks) <= RdMaxSize /\ Len(rdBuffer) <= RdMaxSize
  <2>1. /\ rdPart.blocks \in Seq(RdPieces) /\ rdBuffer \in Seq(RdPieces)
        /\ Len(rdPart.blocks) + Len(rdBuffer) <= RdMaxSize
    BY DEF RdBounded
  <2>2. Len(rdPart.blocks) \in Nat /\ Len(rdBuffer) \in Nat BY <2>1
  <2> QED BY <2>1, <2>2, RdAssumption
<1>3. /\ rdData \in RdContents /\ rdBuffer \in RdContents
      /\ rdDst.blocks \in RdContents /\ rdPart.blocks \in RdContents
  BY <1>1, <1>2 DEF RdBounded
<1> QED BY <1>3, RdAssumption DEF RdInv, RdTypes, RdBounded, RdTypeOK

\* Nothing has been fetched.
LEMMA RdBoundedInit == RdInit => RdBounded
<1> SUFFICES ASSUME RdInit PROVE RdBounded
  OBVIOUS
<1>1. <<>> \in Seq(RdPieces) /\ Len(<<>>) = 0 OBVIOUS
<1>2. RdUnprobed.size = 0 /\ RdUnprobed.identity = 0 /\ RdAbsent.blocks = <<>>
  BY DEF RdUnprobed, RdAbsent
<1> QED BY <1>1, <1>2, RdAssumption DEF RdInit, RdBounded

\* A whole version is short enough.
LEMMA RdWholeBounded ==
    ASSUME RdInv, RdBounded
    PROVE  /\ RdWhole(rdVersion) \in Seq(RdPieces) /\ Len(RdWhole(rdVersion)) <= RdMaxSize
           /\ Len(RdWhole(rdVersion)) = rdSizes[rdVersion]
<1>1. rdVersion \in RdVersions /\ rdSizes[rdVersion] \in 0..RdMaxSize BY DEF RdInv, RdTypes, RdBounded
<1> DEFINE size == rdSizes[rdVersion]
<1>2. size \in Nat /\ size <= RdMaxSize BY <1>1, RdAssumption
<1> HIDE DEF size
<1>3. \A i \in 1..size : <<rdVersion, i>> \in RdPieces BY <1>1, <1>2, RdAssumption DEF RdPieces
<1>4. [i \in 1..size |-> <<rdVersion, i>>] \in Seq(RdPieces) /\ Len([i \in 1..size |-> <<rdVersion, i>>]) = size
  BY <1>2, <1>3
<1> QED BY <1>2, <1>4 DEF RdWhole, size

\* Prefixes and suffixes.
LEMMA RdCuts ==
    ASSUME NEW S, NEW s \in Seq(S), NEW k \in RdPrefixes(s)
    PROVE  k \in Seq(S) /\ Len(k) <= Len(s) /\ Len(k) \in Nat
<1>1. PICK n \in 0..Len(s) : k = SubSeq(s, 1, n) BY DEF RdPrefixes
<1>2. n \in Nat /\ n <= Len(s) /\ Len(s) \in Nat BY <1>1
<1>3. SubSeq(s, 1, n) \in Seq(S) /\ Len(SubSeq(s, 1, n)) = n BY <1>2
<1> QED BY <1>1, <1>2, <1>3

\* An attempt receives a block.
LEMMA RdFetchBounded == ASSUME RdInv, RdBounded, RdFetch PROVE RdBounded'
<1>1. /\ UNCHANGED <<rdSizes, rdVersion, rdProbed, rdOffset, rdBuffer, rdDst, rdPart>>
      /\ rdPc = "fetch" /\ rdPc' = "write" /\ rdOffset < rdProbed.size
      /\ rdData' = RdRangeRead(rdOffset, RdLastAsked)
  BY DEF RdFetch, rdRemote
<1> DEFINE size == rdSizes[rdVersion]
           end == RdSmaller(RdLastAsked + 1, size)
           s == RdWhole(rdVersion)
           d == SubSeq(s, rdOffset + 1, end)
<1>2. /\ rdOffset \in Nat /\ rdProbed.size \in Nat /\ size \in Nat /\ RdMaxSize \in Nat /\ RdWindow \in Nat \ {0}
      /\ size <= RdMaxSize /\ rdProbed.size <= RdMaxSize
  <2>1. rdVersion \in RdVersions /\ size \in 0..RdMaxSize BY DEF RdInv, RdTypes, RdBounded
  <2> QED BY <2>1, RdAssumption DEF RdInv, RdTypes, RdBounded
<1>3. end \in Int /\ end <= size /\ end <= rdProbed.size
  BY <1>2 DEF RdSmaller, RdLastAsked
<1>4. s \in Seq(RdPieces) /\ Len(s) = size BY RdWholeBounded
<1> HIDE DEF size, end, s
<1>5. d \in Seq(RdPieces) /\ Len(d) = IF rdOffset + 1 <= end THEN end - rdOffset ELSE 0
  BY <1>2, <1>3, <1>4
<1> HIDE DEF d
<1>6. Len(d) <= RdMaxSize /\ rdOffset + Len(d) <= rdProbed.size
  BY <1>1, <1>2, <1>3, <1>5
<1>7. rdData' = d BY <1>1 DEF RdRangeRead, d, s, end, size
<1> QED BY <1>1, <1>2, <1>5, <1>6, <1>7 DEF RdBounded

\* It writes the block.
LEMMA RdWriteBounded == ASSUME RdInv, RdBounded, RdWrite PROVE RdBounded'
<1>1. /\ UNCHANGED <<rdSizes, rdVersion, rdProbed, rdDst>>
      /\ rdPc = "write" /\ rdPc' = "fetch" /\ rdOffset' = rdOffset + Len(rdData) /\ rdData' = <<>>
  BY DEF RdWrite, rdRemote
<1>2. PICK flushed \in RdPrefixes(rdBuffer \o rdData) :
        /\ rdPart' = RdFile(rdPart.blocks \o flushed)
        /\ rdBuffer' = SubSeq(rdBuffer \o rdData, Len(flushed) + 1, Len(rdBuffer \o rdData))
  BY DEF RdWrite
<1>3. PICK n \in 0..Len(rdBuffer \o rdData) : flushed = SubSeq(rdBuffer \o rdData, 1, n)
  BY <1>2 DEF RdPrefixes
<1>4. rdPart.blocks \in Seq(RdPieces) /\ rdBuffer \in Seq(RdPieces) /\ rdData \in Seq(RdPieces)
  BY DEF RdBounded
<1> DEFINE q == RdFlushed(rdPart.blocks, rdBuffer, rdData, n)
           r == RdPending(rdBuffer, rdData, n)
<1>5. /\ q \in Seq(RdPieces) /\ Len(q) = Len(rdPart.blocks) + n
      /\ r \in Seq(RdPieces) /\ Len(r) = Len(rdBuffer) + Len(rdData) - n
      /\ Len(flushed) = n
  <2>1. /\ q \in Seq(RdPieces) /\ Len(q) = Len(rdPart.blocks) + n
        /\ r \in Seq(RdPieces) /\ Len(r) = Len(rdBuffer) + Len(rdData) - n
        /\ Len(SubSeq(rdBuffer \o rdData, 1, n)) = n
    BY ONLY <1>3, <1>4, RdFlushes
  <2> QED BY <1>3, <2>1
<1>6. rdPart'.blocks = q /\ rdBuffer' = r
  <2>1. rdPart'.blocks = rdPart.blocks \o flushed BY <1>2 DEF RdFile
  <2> QED BY <1>2, <1>3, <1>5, <2>1 DEF RdFlushed, RdPending
<1> HIDE DEF q, r
<1>7. /\ rdOffset = Len(rdPart.blocks) + Len(rdBuffer) /\ rdOffset + Len(rdData) <= rdProbed.size
      /\ rdProbed.size <= RdMaxSize /\ rdProbed.size \in Nat
      /\ Len(rdPart.blocks) \in Nat /\ Len(rdBuffer) \in Nat /\ Len(rdData) \in Nat /\ RdMaxSize \in Nat /\ n \in Nat
  <2>1. rdProbed.size \in 0..RdMaxSize BY DEF RdBounded
  <2> QED BY <1>1, <1>4, <2>1, RdAssumption DEF RdBounded, RdInv, RdStreams
<1>8. Len(q) + Len(r) <= RdMaxSize /\ rdOffset' <= RdMaxSize /\ rdOffset' <= rdProbed.size
  <2> DEFINE lp == Len(rdPart.blocks)
             lb == Len(rdBuffer)
             ld == Len(rdData)
             top == rdProbed.size
  <2>1. Len(q) = lp + n /\ Len(r) = lb + ld - n /\ rdOffset' = rdOffset + ld BY <1>1, <1>5
  <2>2. /\ rdOffset = lp + lb /\ rdOffset + ld <= top /\ top <= RdMaxSize /\ top \in Nat
        /\ lp \in Nat /\ lb \in Nat /\ ld \in Nat /\ RdMaxSize \in Nat /\ n \in Nat
    BY <1>7
  <2> HIDE DEF lp, lb, ld, top
  <2>3. Len(q) + Len(r) <= RdMaxSize /\ rdOffset' <= RdMaxSize /\ rdOffset' <= top BY <2>1, <2>2
  <2> QED BY <2>3 DEF top
<1>9. <<>> \in Seq(RdPieces) /\ Len(<<>>) = 0 OBVIOUS
<1> QED BY <1>1, <1>5, <1>6, <1>7, <1>8, <1>9 DEF RdBounded

\* The handle leaves what it keeps of its buffer in the file.
LEMMA RdDrops ==
    ASSUME RdBounded, NEW k \in Seq(RdPieces), Len(k) <= Len(rdBuffer), rdPart' = RdFile(rdPart.blocks \o k),
           rdBuffer' = <<>>
    PROVE  /\ rdPart'.blocks \in Seq(RdPieces) /\ rdBuffer' \in Seq(RdPieces)
           /\ Len(rdPart'.blocks) + Len(rdBuffer') <= RdMaxSize
<1>1. /\ rdPart.blocks \in Seq(RdPieces) /\ rdBuffer \in Seq(RdPieces)
      /\ Len(rdPart.blocks) + Len(rdBuffer) <= RdMaxSize /\ RdMaxSize \in Nat
  BY RdAssumption DEF RdBounded
<1>2. rdPart'.blocks = rdPart.blocks \o k BY DEF RdFile
<1>3. rdPart.blocks \o k \in Seq(RdPieces) /\ Len(rdPart.blocks \o k) = Len(rdPart.blocks) + Len(k) BY <1>1
<1>4. <<>> \in Seq(RdPieces) /\ Len(<<>>) = 0 OBVIOUS
<1>5. Len(rdPart.blocks) \in Nat /\ Len(k) \in Nat /\ Len(rdBuffer) \in Nat BY <1>1
<1> QED BY <1>1, <1>2, <1>3, <1>4, <1>5

\* It ends or fails.
LEMMA RdEndBounded == ASSUME RdInv, RdBounded, RdCloseLoop \/ RdFail PROVE RdBounded'
<1>1. /\ UNCHANGED <<rdSizes, rdVersion, rdProbed, rdOffset, rdDst>>
      /\ rdData' \in {rdData, <<>>} /\ rdPc' \in {"rename", "idle"} /\ (rdPc' = "rename" => rdPc = "fetch")
      /\ rdPart' = rdPart \/ rdPart' = RdFile(rdPart.blocks \o rdBuffer)
      /\ rdBuffer' = <<>>
  BY DEF RdCloseLoop, RdFail, rdRemote
<1>2. <<>> \in Seq(RdPieces) /\ Len(<<>>) = 0 /\ RdMaxSize \in Nat BY RdAssumption
<1>3. /\ rdPart'.blocks \in Seq(RdPieces) /\ rdBuffer' \in Seq(RdPieces)
      /\ Len(rdPart'.blocks) + Len(rdBuffer') <= RdMaxSize
  <2>1. ASSUME rdPart' = RdFile(rdPart.blocks \o rdBuffer)
        PROVE  /\ rdPart'.blocks \in Seq(RdPieces) /\ rdBuffer' \in Seq(RdPieces)
               /\ Len(rdPart'.blocks) + Len(rdBuffer') <= RdMaxSize
    <3>1. rdBuffer \in Seq(RdPieces) BY DEF RdBounded
    <3>2. Len(rdBuffer) <= Len(rdBuffer) BY <3>1
    <3> QED BY <1>1, <2>1, <3>1, <3>2, RdDrops
  <2>2. ASSUME rdPart' = rdPart
        PROVE  /\ rdPart'.blocks \in Seq(RdPieces) /\ rdBuffer' \in Seq(RdPieces)
               /\ Len(rdPart'.blocks) + Len(rdBuffer') <= RdMaxSize
    <3>1. /\ rdPart.blocks \in Seq(RdPieces) /\ rdBuffer \in Seq(RdPieces)
          /\ Len(rdPart.blocks) + Len(rdBuffer) <= RdMaxSize
      BY DEF RdBounded
    <3>2. Len(rdPart.blocks) \in Nat /\ Len(rdBuffer) \in Nat BY <3>1
    <3> QED BY <1>1, <1>2, <2>2, <3>1, <3>2
  <2> QED BY <1>1, <2>1, <2>2
<1>4. rdPc' # "write" /\ (rdPc' \in {"open", "fetch", "write", "rename"} => rdOffset' <= rdProbed'.size)
  BY <1>1 DEF RdBounded
<1>5. rdData' \in Seq(RdPieces) /\ Len(rdData') <= RdMaxSize
  <2>1. CASE rdData' = <<>>
    <3>1. Len(rdData') = 0 BY <2>1
    <3> QED BY <1>2, <2>1, <3>1
  <2>2. CASE rdData' = rdData BY <2>2 DEF RdBounded
  <2> QED BY <1>1, <2>1, <2>2
<1>6. UNCHANGED <<rdSizes, rdProbed, rdOffset, rdDst>> BY <1>1
<1> QED BY <1>3, <1>4, <1>5, <1>6 DEF RdBounded

\* The process is killed.
LEMMA RdKillBounded == ASSUME RdInv, RdBounded, RdKill PROVE RdBounded'
<1>1. /\ UNCHANGED <<rdSizes, rdVersion, rdProbed, rdOffset>>
      /\ rdData' = <<>> /\ rdPc' = "idle" /\ rdBuffer' = <<>>
  BY DEF RdKill, rdRemote
<1>2. <<>> \in Seq(RdPieces) /\ Len(<<>>) = 0 /\ RdMaxSize \in Nat BY RdAssumption
<1>3. /\ rdPart.blocks \in Seq(RdPieces) /\ rdBuffer \in Seq(RdPieces)
      /\ Len(rdPart.blocks) + Len(rdBuffer) <= RdMaxSize /\ rdData \in Seq(RdPieces) /\ Len(rdData) <= RdMaxSize
  BY DEF RdBounded
<1>4. /\ rdPart'.blocks \in Seq(RdPieces) /\ rdBuffer' \in Seq(RdPieces)
      /\ Len(rdPart'.blocks) + Len(rdBuffer') <= RdMaxSize
  <2>1. PICK kept \in RdPrefixes(rdBuffer) :
          rdPart' = IF rdPc \in {"fetch", "write"} THEN RdFile(rdPart.blocks \o kept) ELSE rdPart
    BY DEF RdKill
  <2>2. kept \in Seq(RdPieces) /\ Len(kept) <= Len(rdBuffer) BY <1>3, <2>1, RdCuts
  <2>3. CASE rdPart' = rdPart
    <3>1. Len(rdPart.blocks) \in Nat /\ Len(rdBuffer) \in Nat BY <1>3
    <3> QED BY <1>1, <1>2, <1>3, <2>3, <3>1
  <2>4. CASE rdPart' = RdFile(rdPart.blocks \o kept) BY <1>1, <2>2, <2>4, RdDrops
  <2> QED BY <2>1, <2>3, <2>4
<1>5. rdDst'.blocks \in Seq(RdPieces) /\ Len(rdDst'.blocks) <= RdMaxSize
  <2>1. CASE rdDst' = rdDst BY <2>1 DEF RdBounded
  <2>2. ASSUME NEW kept \in RdPrefixes(rdData), rdDst' = RdFile(kept)
        PROVE  rdDst'.blocks \in Seq(RdPieces) /\ Len(rdDst'.blocks) <= RdMaxSize
    <3>1. kept \in Seq(RdPieces) /\ Len(kept) <= Len(rdData) /\ Len(kept) \in Nat BY <1>3, RdCuts
    <3>2. rdDst'.blocks = kept /\ Len(rdData) \in Nat BY <1>3, <2>2 DEF RdFile
    <3> QED BY <1>2, <1>3, <3>1, <3>2
  <2> QED BY <2>1, <2>2 DEF RdKill
<1> QED BY <1>1, <1>2, <1>4, <1>5 DEF RdBounded

\* The other steps of a download.
LEMMA RdRestBounded ==
    ASSUME RdInv, RdBounded,
           \/ RdProbe \/ RdSinglePassRead \/ RdSinglePassWrite \/ RdResume \/ RdStartFresh \/ RdUnlinkMeta
           \/ RdWriteMeta \/ RdOpenPart \/ RdRename \/ RdFinish \/ RdOverwrite \/ RdStopped \/ UNCHANGED rdVars
    PROVE  RdBounded'
<1>1. <<>> \in Seq(RdPieces) /\ Len(<<>>) = 0 /\ RdMaxSize \in Nat /\ RdMaxVersion \in Nat BY RdAssumption
<1>2. /\ rdPart.blocks \in Seq(RdPieces) /\ rdBuffer \in Seq(RdPieces)
      /\ Len(rdPart.blocks) + Len(rdBuffer) <= RdMaxSize /\ rdData \in Seq(RdPieces) /\ Len(rdData) <= RdMaxSize
      /\ rdProbed.size \in 0..RdMaxSize
  BY DEF RdBounded
<1>3. Len(rdPart.blocks) \in Nat /\ Len(rdBuffer) \in Nat /\ Len(rdData) \in Nat BY <1>2
<1>4. CASE RdProbe
  <2>1. /\ UNCHANGED <<rdSizes, rdVersion, rdBuffer, rdDst, rdPart>> /\ rdOffset' = 0 /\ rdData' = <<>>
        /\ rdPc' \in {"probed", "single"}
        /\ \/ rdProbed' = [size |-> rdSizes[rdVersion], identity |-> RdIdentity(rdVersion)]
           \/ rdProbed' = RdUnprobed
    BY <1>4 DEF RdProbe, rdRemote
  <2>2. rdVersion \in RdVersions /\ rdSizes[rdVersion] \in 0..RdMaxSize BY DEF RdInv, RdTypes, RdBounded
  <2>3. RdIdentity(rdVersion) \in 0..RdMaxVersion BY <1>1, <2>2 DEF RdIdentity, RdVersions
  <2>4. rdProbed'.size \in 0..RdMaxSize /\ rdProbed'.identity \in 0..RdMaxVersion
    BY <1>1, <2>1, <2>2, <2>3 DEF RdUnprobed
  <2> QED BY <1>1, <2>1, <2>4 DEF RdBounded
<1>5. CASE RdSinglePassRead
  <2>1. /\ UNCHANGED <<rdSizes, rdVersion, rdProbed, rdOffset, rdBuffer, rdDst, rdPart>>
        /\ rdPc' = "write dst" /\ rdData' = RdWhole(rdVersion)
    BY <1>5 DEF RdSinglePassRead, rdRemote
  <2> QED BY <2>1, RdWholeBounded DEF RdBounded
<1>6. CASE RdSinglePassWrite
  <2>1. /\ UNCHANGED <<rdSizes, rdVersion, rdProbed, rdOffset, rdBuffer, rdPart>>
        /\ rdPc' = "idle" /\ rdData' = <<>> /\ rdDst'.blocks = rdData
    BY <1>6 DEF RdSinglePassWrite, rdRemote, RdFile
  <2> QED BY <1>1, <1>2, <2>1 DEF RdBounded
<1>7. CASE RdResume
  <2>1. /\ UNCHANGED <<rdSizes, rdVersion, rdProbed, rdData, rdBuffer, rdDst, rdPart>>
        /\ rdOffset' = Len(rdPart.blocks) /\ rdPc' = "open" /\ Len(rdPart.blocks) <= rdProbed.size
    BY <1>7 DEF RdResume, RdResumeOffset, RdResumable, RdFileLen, rdRemote
  <2>2. rdOffset' <= RdMaxSize BY <1>1, <1>2, <1>3, <2>1
  <2> QED BY <2>1, <2>2 DEF RdBounded
<1>8. CASE RdStartFresh
  <2>1. /\ UNCHANGED <<rdSizes, rdVersion, rdProbed, rdData, rdOffset, rdBuffer, rdDst>>
        /\ rdPc' = "unlinked part" /\ rdPart'.blocks = <<>>
    BY <1>8 DEF RdStartFresh, rdRemote, RdAbsent
  <2>2. Len(rdPart'.blocks) = 0 /\ Len(rdBuffer') = Len(rdBuffer) BY <2>1
  <2>3. Len(rdPart'.blocks) + Len(rdBuffer') <= RdMaxSize BY <1>1, <1>2, <1>3, <2>2
  <2> QED BY <1>1, <2>1, <2>3 DEF RdBounded
<1>9. CASE RdUnlinkMeta \/ RdFinish
  <2>1. /\ UNCHANGED <<rdSizes, rdVersion, rdProbed, rdData, rdOffset, rdBuffer, rdDst, rdPart>>
        /\ rdPc' \in {"write meta", "idle"}
    BY <1>9 DEF RdUnlinkMeta, RdFinish, rdRemote
  <2> QED BY <2>1 DEF RdBounded
<1>10. CASE RdWriteMeta
  <2>1. /\ UNCHANGED <<rdSizes, rdVersion, rdProbed, rdData, rdOffset, rdBuffer, rdDst, rdPart>>
        /\ rdPc = "write meta" /\ rdPc' = "open"
    BY <1>10 DEF RdWriteMeta, rdRemote
  <2>2. rdOffset = 0 BY <2>1 DEF RdInv, RdStreams
  <2>3. rdOffset <= rdProbed.size
    <3> DEFINE size == rdProbed.size
    <3>1. size \in 0..RdMaxSize BY <1>2
    <3> HIDE DEF size
    <3>2. rdOffset <= size BY <1>1, <2>2, <3>1
    <3> QED BY <3>2 DEF size
  <2>4. rdOffset' <= rdProbed'.size /\ rdPc' # "write" BY <2>1, <2>3
  <2> QED BY <2>1, <2>4 DEF RdBounded
<1>11. CASE RdOpenPart
  <2>1. /\ UNCHANGED <<rdSizes, rdVersion, rdProbed, rdData, rdOffset, rdBuffer, rdDst>>
        /\ rdPc = "open" /\ rdPc' = "fetch" /\ (rdPart' = RdFile(<<>>) \/ rdPart' = rdPart)
    BY <1>11 DEF RdOpenPart, rdRemote
  <2>2. rdPart'.blocks = <<>> \/ rdPart' = rdPart BY <2>1 DEF RdFile
  <2>3. ASSUME rdPart'.blocks = <<>>
        PROVE  Len(rdPart'.blocks) + Len(rdBuffer') <= RdMaxSize /\ rdPart'.blocks \in Seq(RdPieces)
    <3>1. Len(rdPart'.blocks) = 0 /\ Len(rdBuffer') = Len(rdBuffer) BY <2>1, <2>3
    <3> QED BY <1>1, <1>2, <1>3, <2>3, <3>1
  <2>4. Len(rdPart'.blocks) + Len(rdBuffer') <= RdMaxSize /\ rdPart'.blocks \in Seq(RdPieces)
    BY <1>2, <2>1, <2>2, <2>3
  <2> QED BY <2>1, <2>4 DEF RdBounded
<1>12. CASE RdRename
  <2>1. /\ UNCHANGED <<rdSizes, rdVersion, rdProbed, rdData, rdOffset, rdBuffer>>
        /\ rdPc' = "unlink meta" /\ rdDst' = rdPart /\ rdPart'.blocks = <<>>
    BY <1>12 DEF RdRename, rdRemote, RdAbsent
  <2>2. /\ Len(rdPart'.blocks) = 0 /\ Len(rdBuffer') = Len(rdBuffer)
        /\ Len(rdDst'.blocks) = Len(rdPart.blocks)
    BY <2>1
  <2>3. Len(rdPart'.blocks) + Len(rdBuffer') <= RdMaxSize /\ Len(rdDst'.blocks) <= RdMaxSize
    BY <1>1, <1>2, <1>3, <2>2
  <2> QED BY <1>1, <1>2, <2>1, <2>3 DEF RdBounded
<1>13. CASE RdOverwrite \/ RdStopped \/ UNCHANGED rdVars
  <2>1. UNCHANGED <<rdPc, rdSizes, rdProbed, rdData, rdOffset, rdBuffer, rdDst, rdPart>>
    BY <1>13 DEF RdOverwrite, RdStopped, rdLocal, rdVars, rdRemote
  <2> QED BY <2>1 DEF RdBounded
<1> QED BY <1>4, <1>5, <1>6, <1>7, <1>8, <1>9, <1>10, <1>11, <1>12, <1>13

\* Whatever happens to the download.
LEMMA RdBoundedKept == RdInv /\ RdBounded /\ [RdNext \/ RdStopped]_rdVars => RdBounded'
BY RdFetchBounded, RdWriteBounded, RdEndBounded, RdKillBounded, RdRestBounded DEF RdNext, RdAttempt
-----------------------------------------------------------------------------
(* The ranged reads of a copy's source.                                    *)

RtRunning == {"ranges", "batch"}

\* A window may have been read from a version that was there since stat_fn; from
\* that of stat_fn alone when the reads are pinned to it.
RtMayRead(v) == v \in RtVersions /\ rtMeta <= v /\ v <= rtVersion /\ (rtHow = "exact" => v = rtMeta)

RtTypes ==
    /\ rtVersion \in RtVersions /\ rtMeta \in RtVersions \cup {0} /\ rtMeta <= rtVersion
    /\ rtNext \in Nat /\ rtOut \in Seq(RtVersions)
    /\ rtPc \in RtOver \cup RtModes \cup {"idle", "batch", "drain"}
    /\ rtPc \in {"probe", "ranges", "batch"} => rtMeta # 0
    /\ rtPc \in {"stream", "whole"} => rtMeta = 0

\* The windows that are being read are of the batch that has been asked for.
RtTasksOfBatch == rtTasks # {} => rtPc \in {"batch", "drain"}

\* Of the windows before rtNext, the first were yielded and the others are in
\* the batch.
RtWindows ==
    /\ rtPc \in {"idle", "probe"} => rtNext = 1 /\ rtOut = <<>>
    /\ rtPc \in RtRunning => rtNext <= RtSize[rtMeta] + 1
    /\ rtPc = "ranges" => Len(rtOut) = rtNext - 1
    /\ rtPc = "batch" => /\ rtGot \in [(Len(rtOut) + 1)..(rtNext - 1) -> RtVersions \cup {0}]
                         /\ Len(rtOut) < rtNext

\* What was yielded, and what was read of the batch, are of versions that may be.
RtReads ==
    /\ rtPc \in RtRunning => \A i \in 1..Len(rtOut) : RtMayRead(rtOut[i])
    /\ rtPc = "batch" => \A w \in (DOMAIN rtGot) \ rtTasks : RtMayRead(rtGot[w])

RtInv == RtTypes /\ RtTasksOfBatch /\ RtWindows /\ RtReads /\ RtOneVersion

\* Versions count from 1, and each has a window or more.
LEMMA RtConstants ==
    /\ RtVersions \subseteq Nat \ {0} /\ 1 \in RtVersions
    /\ \A v \in RtVersions : RtSize[v] \in Nat \ {0}
BY RtAssumption DEF RtVersions

\* The content of a version is that many windows of it, and nothing else is.
LEMMA RtContents ==
    ASSUME NEW v \in RtVersions
    PROVE  /\ RtContent(v) \in Seq(RtVersions)
           /\ \A s \in Seq(RtVersions) :
                Len(s) = RtSize[v] /\ (\A i \in 1..Len(s) : s[i] = v) => s = RtContent(v)
<1>1. RtSize[v] \in Nat BY RtConstants
<1>2. RtContent(v) \in Seq(RtVersions) BY <1>1 DEF RtContent
<1>3. ASSUME NEW s \in Seq(RtVersions), Len(s) = RtSize[v], \A i \in 1..Len(s) : s[i] = v
      PROVE  s = RtContent(v)
  <2>1. s = [i \in 1..RtSize[v] |-> s[i]] BY <1>3
  <2> QED BY <1>3, <2>1 DEF RtContent
<1> QED BY <1>2, <1>3

\* Before the first chunk nothing was read.
LEMMA RtCallKeeps == ASSUME RtInv, RtCall PROVE RtInv'
<1>1. /\ UNCHANGED <<rtVersion, rtNext, rtTasks, rtGot, rtOut>> /\ rtPc = "idle"
      /\ rtPc' \in RtModes /\ rtMeta' = IF rtPc' \in {"ranges", "probe"} THEN rtVersion ELSE 0
  BY DEF RtCall
<1>2. rtNext = 1 /\ rtOut = <<>> /\ rtTasks = {} /\ Len(<<>>) = 0
  BY <1>1 DEF RtInv, RtTasksOfBatch, RtWindows
<1>3. rtVersion \in RtVersions /\ rtVersion \in Nat \ {0} /\ RtSize[rtVersion] \in Nat \ {0}
  BY RtConstants DEF RtInv, RtTypes
<1>4. RtTypes'
  BY <1>1, <1>3 DEF RtInv, RtTypes, RtModes
<1>5. RtTasksOfBatch'
  BY <1>1, <1>2 DEF RtTasksOfBatch
<1>6. RtWindows'
  BY <1>1, <1>2, <1>3 DEF RtWindows, RtRunning, RtModes
<1>7. RtReads'
  BY <1>1, <1>2 DEF RtReads, RtModes
<1>8. RtOneVersion'
  BY <1>1 DEF RtOneVersion, RtModes
<1> QED BY <1>4, <1>5, <1>6, <1>7, <1>8 DEF RtInv

\* A stream and a single read hold no metadata.
LEMMA RtUnpinnedKeeps == ASSUME RtInv, RtStream \/ RtWhole PROVE RtInv'
<1>1. /\ UNCHANGED <<rtVersion, rtHow, rtMeta, rtTasks, rtGot>>
      /\ rtPc \in {"stream", "whole"} /\ rtPc' \in {"stream", "ok"}
      /\ rtNext' \in {rtNext, rtNext + 1}
      /\ rtOut' \in {rtOut, Append(rtOut, rtVersion), RtContent(rtVersion)}
  BY DEF RtStream, RtWhole
<1>2. rtNext \in Nat /\ rtVersion \in RtVersions /\ rtOut \in Seq(RtVersions) /\ rtMeta = 0
  BY <1>1 DEF RtInv, RtTypes
<1>3. Append(rtOut, rtVersion) \in Seq(RtVersions) /\ RtContent(rtVersion) \in Seq(RtVersions)
  BY <1>2, RtContents
<1>4. RtTypes'
  <2>1. rtNext' \in Nat BY <1>1, <1>2
  <2>2. rtOut' \in Seq(RtVersions) BY <1>1, <1>2, <1>3
  <2> QED BY <1>1, <1>2, <2>1, <2>2 DEF RtInv, RtTypes, RtOver, RtModes
<1>5. RtTasksOfBatch' BY <1>1 DEF RtInv, RtTasksOfBatch
<1>6. RtWindows' BY <1>1 DEF RtWindows, RtRunning
<1>7. RtReads' BY <1>1 DEF RtReads, RtRunning
<1>8. RtOneVersion' BY <1>1, <1>2 DEF RtOneVersion
<1> QED BY <1>4, <1>5, <1>6, <1>7, <1>8 DEF RtInv

\* The first window of an HTTP source; a whole body is of one version.
LEMMA RtProbeKeeps == ASSUME RtInv, RtProbe PROVE RtInv'
<1>1. UNCHANGED <<rtVersion, rtHow, rtMeta, rtTasks, rtGot>> /\ rtPc = "probe"
  BY DEF RtProbe
<1>2. /\ rtVersion \in RtVersions /\ rtMeta \in RtVersions /\ rtMeta <= rtVersion
      /\ rtNext = 1 /\ rtOut = <<>> /\ rtTasks = {} /\ rtOut \in Seq(RtVersions)
  BY <1>1 DEF RtInv, RtTypes, RtWindows, RtTasksOfBatch
<1>3. rtVersion \in Nat /\ rtMeta \in Nat /\ RtSize[rtMeta] \in Nat \ {0}
  BY <1>2, RtConstants
<1>4. CASE RtConditionMet(rtVersion) /\ rtOut' = <<rtVersion>> /\ rtNext' = 2 /\ rtPc' = "ranges"
  <2>1. rtOut' \in Seq(RtVersions) /\ Len(rtOut') = 1 /\ rtOut'[1] = rtVersion
    BY <1>2, <1>4
  <2>2. rtHow = "exact" => rtVersion = rtMeta
    BY <1>4 DEF RtConditionMet
  <2>3. RtTypes' BY <1>1, <1>2, <1>4, <2>1 DEF RtInv, RtTypes, RtOver, RtModes
  <2>4. RtTasksOfBatch' BY <1>1, <1>2 DEF RtTasksOfBatch
  <2>5. RtWindows' BY <1>1, <1>3, <1>4, <2>1 DEF RtWindows
  <2>6. RtReads'
    <3>1. RtMayRead(rtVersion)' BY <1>1, <1>2, <1>3, <2>2 DEF RtMayRead
    <3>2. \A i \in 1..Len(rtOut') : rtOut'[i] = rtVersion' BY <1>1, <2>1
    <3> QED BY <1>4, <3>1, <3>2 DEF RtReads, RtMayRead
  <2>7. RtOneVersion' BY <1>4 DEF RtOneVersion
  <2> QED BY <2>3, <2>4, <2>5, <2>6, <2>7 DEF RtInv
<1>5. CASE rtOut' = RtContent(rtVersion) /\ rtPc' = "ok" /\ rtNext' = rtNext
  <2>1. RtTypes' BY <1>1, <1>2, <1>3, <1>5, RtContents DEF RtInv, RtTypes, RtOver
  <2>2. RtTasksOfBatch' BY <1>1, <1>2 DEF RtTasksOfBatch
  <2>3. RtWindows' /\ RtReads' BY <1>5 DEF RtWindows, RtReads, RtRunning
  <2>4. RtOneVersion' BY <1>2, <1>5 DEF RtOneVersion
  <2> QED BY <2>1, <2>2, <2>3, <2>4 DEF RtInv
<1>6. CASE rtPc' = "error" /\ rtOut' = rtOut /\ rtNext' = rtNext
  <2>1. RtTypes' BY <1>1, <1>2, <1>6 DEF RtInv, RtTypes, RtOver
  <2>2. RtTasksOfBatch' BY <1>1, <1>2 DEF RtTasksOfBatch
  <2>3. RtWindows' /\ RtReads' BY <1>6 DEF RtWindows, RtReads, RtRunning
  <2>4. RtOneVersion' BY <1>6 DEF RtOneVersion
  <2> QED BY <2>1, <2>2, <2>3, <2>4 DEF RtInv
<1> QED BY <1>4, <1>5, <1>6 DEF RtProbe

\* A batch is the next windows, none left out.
LEMMA RtBatchKeeps == ASSUME RtInv, RtBatch PROVE RtInv'
<1>1. /\ UNCHANGED <<rtVersion, rtHow, rtMeta, rtOut>>
      /\ rtPc = "ranges" /\ rtPc' = "batch" /\ rtNext <= RtSize[rtMeta]
  BY DEF RtBatch
<1>2. PICK streams \in 1..RtStreams :
        LET windows == {w \in rtNext..RtSize[rtMeta] : w < rtNext + streams}
        IN  /\ rtTasks' = windows
            /\ rtNext' = rtNext + Cardinality(windows)
            /\ rtGot' = [w \in windows |-> 0]
  BY DEF RtBatch
<1> DEFINE last == IF RtSize[rtMeta] < rtNext + streams THEN RtSize[rtMeta] ELSE rtNext + streams - 1
           windows == {w \in rtNext..RtSize[rtMeta] : w < rtNext + streams}
<1>3. /\ rtMeta \in RtVersions /\ rtNext \in Nat /\ RtSize[rtMeta] \in Nat /\ streams \in Nat \ {0}
      /\ Len(rtOut) = rtNext - 1 /\ Len(rtOut) \in Nat
  BY <1>1, RtConstants, RtAssumption DEF RtInv, RtTypes, RtWindows
<1>4. windows = rtNext..last /\ last \in Nat /\ rtNext <= last /\ last <= RtSize[rtMeta]
  BY <1>1, <1>3
<1> HIDE DEF last
<1>5. Cardinality(rtNext..last) = last - rtNext + 1
  BY <1>3, <1>4, FS_Interval
<1>6. rtTasks' = rtNext..last /\ rtNext' = last + 1 /\ rtGot' = [w \in rtNext..last |-> 0]
  <2>1. rtTasks' = windows /\ rtNext' = rtNext + Cardinality(windows) /\ rtGot' = [w \in windows |-> 0]
    BY <1>2
  <2> HIDE DEF windows
  <2>2. rtNext' = rtNext + (last - rtNext + 1) BY <1>4, <1>5, <2>1
  <2> QED BY <1>3, <1>4, <2>1, <2>2
<1>7. RtTypes' BY <1>1, <1>3, <1>4, <1>6 DEF RtInv, RtTypes
<1>8. RtTasksOfBatch' BY <1>1 DEF RtTasksOfBatch
<1>9. RtWindows'
  <2>1. (Len(rtOut') + 1)..(rtNext' - 1) = rtNext..last BY <1>1, <1>3, <1>4, <1>6
  <2>2. rtGot' \in [rtNext..last -> RtVersions \cup {0}] BY <1>6
  <2> QED BY <1>1, <1>3, <1>4, <1>6, <2>1, <2>2 DEF RtWindows, RtRunning
<1>10. RtReads'
  <2>1. DOMAIN rtGot' = rtTasks' BY <1>6
  <2>2. \A v : RtMayRead(v) <=> RtMayRead(v)' BY <1>1 DEF RtMayRead
  <2>3. \A i \in 1..Len(rtOut) : RtMayRead(rtOut[i]) BY <1>1 DEF RtInv, RtReads, RtRunning
  <2> QED BY <1>1, <2>1, <2>2, <2>3 DEF RtReads, RtMayRead
<1>11. RtOneVersion' BY <1>1 DEF RtOneVersion
<1> QED BY <1>7, <1>8, <1>9, <1>10, <1>11 DEF RtInv

\* A window's read is answered by the version that is there.
LEMMA RtReadKeeps == ASSUME RtInv, NEW w \in rtTasks, RtRead(w) PROVE RtInv'
<1>1. /\ UNCHANGED <<rtVersion, rtPc, rtHow, rtMeta, rtNext, rtOut>>
      /\ rtPc = "batch" /\ RtConditionMet(rtVersion)
      /\ rtGot' = [rtGot EXCEPT ![w] = rtVersion] /\ rtTasks' = rtTasks \ {w}
  BY DEF RtRead
<1>2. rtVersion \in RtVersions /\ rtMeta \in RtVersions /\ rtMeta <= rtVersion /\ rtVersion \in Nat
      /\ rtGot \in [(Len(rtOut) + 1)..(rtNext - 1) -> RtVersions \cup {0}]
  BY <1>1, RtConstants DEF RtInv, RtTypes, RtWindows
<1>3. DOMAIN rtGot' = DOMAIN rtGot /\ rtGot' \in [(Len(rtOut) + 1)..(rtNext - 1) -> RtVersions \cup {0}]
      /\ \A u \in DOMAIN rtGot : rtGot'[u] = IF u = w THEN rtVersion ELSE rtGot[u]
  BY <1>1, <1>2
<1>4. RtMayRead(rtVersion)
  <2>1. rtHow = "exact" => rtVersion = rtMeta BY <1>1 DEF RtConditionMet
  <2>2. rtVersion <= rtVersion BY <1>2
  <2> QED BY <1>2, <2>1, <2>2 DEF RtMayRead
<1>5. RtTypes' BY <1>1 DEF RtInv, RtTypes
<1>6. RtTasksOfBatch' BY <1>1 DEF RtTasksOfBatch
<1>7. RtWindows' BY <1>1, <1>3 DEF RtInv, RtWindows, RtRunning
<1>8. RtReads'
  <2>1. \A v : RtMayRead(v) <=> RtMayRead(v)' BY <1>1 DEF RtMayRead
  <2>2. \A i \in 1..Len(rtOut) : RtMayRead(rtOut[i]) BY <1>1 DEF RtInv, RtReads, RtRunning
  <2>3. \A u \in (DOMAIN rtGot) \ rtTasks : RtMayRead(rtGot[u]) BY <1>1 DEF RtInv, RtReads
  <2>4. \A u \in (DOMAIN rtGot') \ rtTasks' : RtMayRead(rtGot'[u]) BY <1>1, <1>3, <1>4, <2>3
  <2> QED BY <1>1, <2>1, <2>2, <2>4 DEF RtReads, RtMayRead
<1>9. RtOneVersion' BY <1>1 DEF RtOneVersion
<1> QED BY <1>5, <1>6, <1>7, <1>8, <1>9 DEF RtInv

\* The batch is complete: its windows follow those that were yielded.
LEMMA RtYieldKeeps == ASSUME RtInv, RtYield PROVE RtInv'
<1> DEFINE n == Cardinality(DOMAIN rtGot)
           first == rtNext - n
           batch == [i \in 1..n |-> rtGot[first + i - 1]]
           out == rtOut \o batch
           lo == Len(rtOut)
<1>1. /\ UNCHANGED <<rtVersion, rtHow, rtMeta, rtNext, rtTasks>>
      /\ rtPc = "batch" /\ rtPc' = "ranges" /\ rtTasks = {} /\ rtOut' = out
  BY DEF RtYield
<1>2. /\ rtOut \in Seq(RtVersions) /\ lo \in Nat /\ rtNext \in Nat /\ lo < rtNext
      /\ DOMAIN rtGot = (lo + 1)..(rtNext - 1)
      /\ \A i \in 1..lo : RtMayRead(rtOut[i])
      /\ \A w \in DOMAIN rtGot : RtMayRead(rtGot[w])
  BY <1>1 DEF RtInv, RtTypes, RtWindows, RtReads, RtRunning
<1>3. n = rtNext - 1 - lo
  <2> DEFINE a == lo + 1
             b == rtNext - 1
  <2>1. a \in Int /\ b \in Int /\ b - a + 1 = rtNext - 1 - lo /\ (a > b => rtNext - 1 - lo = 0)
    <3> HIDE DEF lo
    <3> QED BY <1>2
  <2>2. DOMAIN rtGot = a..b BY <1>2
  <2> HIDE DEF a, b
  <2>3. Cardinality(a..b) = IF a > b THEN 0 ELSE b - a + 1 BY <2>1, FS_Interval
  <2> QED BY <2>1, <2>2, <2>3
<1>4. n \in Nat /\ first = lo + 1
  <2> HIDE DEF lo, n
  <2> QED BY <1>2, <1>3
<1> HIDE DEF n, first, lo
<1>5. \A i \in 1..n : first + i - 1 \in DOMAIN rtGot
  BY <1>2, <1>3, <1>4
<1>6. \A i \in 1..n : RtMayRead(batch[i])
  BY <1>2, <1>5
<1>7. batch \in Seq(RtVersions) /\ Len(batch) = n
  BY <1>4, <1>6 DEF RtMayRead
<1> HIDE DEF batch
<1>8. /\ out \in Seq(RtVersions) /\ Len(out) = lo + n
      /\ \A i \in 1..lo + n : out[i] = IF i <= lo THEN rtOut[i] ELSE batch[i - lo]
  BY <1>2, <1>7 DEF lo
<1> HIDE DEF out
<1>9. \A i \in 1..lo + n : RtMayRead(out[i])
  <2> SUFFICES ASSUME NEW i \in 1..lo + n PROVE RtMayRead(out[i]) OBVIOUS
  <2>1. CASE i <= lo
    <3>1. i \in 1..lo BY <1>2, <1>4, <2>1
    <3> QED BY <1>2, <1>8, <2>1, <3>1
  <2>2. CASE ~(i <= lo)
    <3>1. i - lo \in 1..n BY <1>2, <1>4, <2>2
    <3> QED BY <1>6, <1>8, <2>2, <3>1
  <2> QED BY <2>1, <2>2
<1>10. Len(out) = rtNext - 1
  BY <1>2, <1>3, <1>4, <1>8
<1>11. RtTypes' BY <1>1, <1>8 DEF RtInv, RtTypes, RtModes
<1>12. RtTasksOfBatch' BY <1>1 DEF RtTasksOfBatch
<1>13. RtWindows' BY <1>1, <1>10 DEF RtInv, RtWindows, RtRunning
<1>14. RtReads'
  <2>1. \A v : RtMayRead(v) <=> RtMayRead(v)' BY <1>1 DEF RtMayRead
  <2> QED BY <1>1, <1>8, <1>9, <2>1 DEF RtReads, RtMayRead
<1>15. RtOneVersion' BY <1>1 DEF RtOneVersion
<1> QED BY <1>11, <1>12, <1>13, <1>14, <1>15 DEF RtInv

\* The last comparison of the metadata: what changed and shows it is an error,
\* and with the metadata of stat_fn no other version can have been read.
LEMMA RtFinalKeeps == ASSUME RtInv, RtFinal, rtPc' = "ok" PROVE RtInv'
<1>1. /\ UNCHANGED <<rtVersion, rtHow, rtMeta, rtNext, rtTasks, rtGot, rtOut>>
      /\ rtPc = "ranges" /\ rtTasks = {} /\ rtNext > RtSize[rtMeta] /\ ~RtChanged(rtVersion)
  BY DEF RtFinal
<1>2. /\ rtVersion \in RtVersions /\ rtMeta \in RtVersions /\ rtMeta <= rtVersion
      /\ rtVersion \in Nat /\ rtMeta \in Nat /\ RtSize[rtMeta] \in Nat
      /\ rtOut \in Seq(RtVersions) /\ rtNext \in Nat
      /\ Len(rtOut) = RtSize[rtMeta]
      /\ \A i \in 1..Len(rtOut) : RtMayRead(rtOut[i])
  BY <1>1, RtConstants DEF RtInv, RtTypes, RtWindows, RtReads, RtRunning
<1>3. ASSUME rtHow = "exact" \/ RtTellsApart PROVE rtOut = RtContent(rtMeta)
  <2>1. rtHow = "exact" \/ rtVersion = rtMeta
    BY <1>1, <1>2, <1>3 DEF RtTellsApart, RtChanged
  <2>2. ASSUME NEW i \in 1..Len(rtOut) PROVE rtOut[i] = rtMeta
    <3>1. RtMayRead(rtOut[i]) BY <1>2
    <3>2. rtOut[i] \in Nat BY <3>1, RtConstants DEF RtMayRead
    <3> QED BY <1>2, <2>1, <3>1, <3>2 DEF RtMayRead
  <2> QED BY <1>2, <2>2, RtContents
<1>4. RtTypes' BY <1>1 DEF RtInv, RtTypes, RtOver
<1>5. RtTasksOfBatch' BY <1>1 DEF RtTasksOfBatch
<1>6. RtWindows' /\ RtReads' BY DEF RtWindows, RtReads, RtRunning
<1>7. RtOneVersion'
  BY <1>1, <1>2, <1>3 DEF RtOneVersion, RtTellsApart
<1> QED BY <1>4, <1>5, <1>6, <1>7 DEF RtInv

\* Every other way to end delivers nothing more.
LEMMA RtEndsKeep ==
    ASSUME RtInv, UNCHANGED <<rtVersion, rtHow, rtMeta, rtNext, rtOut>>,
           rtPc' \in {"error", "closed", "drain"}, rtTasks' # {} => rtPc' = "drain"
    PROVE  RtInv'
<1>1. RtTypes' BY DEF RtInv, RtTypes, RtOver
<1>2. RtTasksOfBatch' BY DEF RtTasksOfBatch
<1>3. RtWindows' /\ RtReads' BY DEF RtWindows, RtReads, RtRunning
<1>4. RtOneVersion' BY DEF RtOneVersion
<1> QED BY <1>1, <1>2, <1>3, <1>4 DEF RtInv

\* A new version is there: it may be read from now on, unless the reads are
\* pinned.
LEMMA RtOverwriteKeeps == ASSUME RtInv, RtOverwrite PROVE RtInv'
<1>1. /\ UNCHANGED <<rtPc, rtHow, rtMeta, rtNext, rtTasks, rtGot, rtOut>>
      /\ rtPc \notin RtOver /\ rtVersion + 1 \in RtVersions /\ rtVersion' = rtVersion + 1
  BY DEF RtOverwrite
<1>2. rtVersion \in Nat /\ rtMeta \in Nat /\ rtMeta <= rtVersion
  BY RtConstants DEF RtInv, RtTypes
<1>3. RtTypes' BY <1>1, <1>2 DEF RtInv, RtTypes
<1>4. RtTasksOfBatch' BY <1>1 DEF RtInv, RtTasksOfBatch
<1>5. RtWindows' BY <1>1 DEF RtInv, RtWindows
<1>6. RtReads'
  <2>1. \A v : RtMayRead(v) => RtMayRead(v)'
    <3> SUFFICES ASSUME NEW v, RtMayRead(v) PROVE RtMayRead(v)' OBVIOUS
    <3>1. v \in Nat /\ v \in RtVersions BY RtConstants DEF RtMayRead
    <3> QED BY <1>1, <1>2, <3>1 DEF RtMayRead
  <2>2. rtPc \in RtRunning => \A i \in 1..Len(rtOut) : RtMayRead(rtOut[i])
    BY DEF RtInv, RtReads
  <2>3. rtPc = "batch" => \A w \in (DOMAIN rtGot) \ rtTasks : RtMayRead(rtGot[w])
    BY DEF RtInv, RtReads
  <2> QED BY <1>1, <2>1, <2>2, <2>3 DEF RtReads, RtMayRead
<1>7. RtOneVersion' BY <1>1 DEF RtOneVersion, RtOver
<1> QED BY <1>3, <1>4, <1>5, <1>6, <1>7 DEF RtInv

\* RtInv holds initially.
LEMMA RtInitHolds == RtInit => RtInv
<1> SUFFICES ASSUME RtInit PROVE RtInv OBVIOUS
<1>1. rtOut \in Seq(RtVersions) BY DEF RtInit
<1>2. RtTypes BY <1>1, RtConstants DEF RtInit, RtTypes
<1> QED BY <1>2 DEF RtInit, RtInv, RtTasksOfBatch, RtWindows, RtReads, RtOneVersion, RtRunning

\* Every step keeps RtInv.
LEMMA RtStepKeeps == RtInv /\ [RtNext]_rtVars => RtInv'
<1> SUFFICES ASSUME RtInv, [RtNext]_rtVars PROVE RtInv' OBVIOUS
<1>1. CASE RtCall BY <1>1, RtCallKeeps
<1>2. CASE RtStream \/ RtWhole BY <1>2, RtUnpinnedKeeps
<1>3. CASE RtProbe BY <1>3, RtProbeKeeps
<1>4. CASE RtBatch BY <1>4, RtBatchKeeps
<1>5. ASSUME NEW w \in rtTasks, RtRead(w) PROVE RtInv' BY <1>5, RtReadKeeps
<1>6. ASSUME NEW w \in rtTasks, RtReadFails(w) \/ RtDrained(w) PROVE RtInv'
  <2>1. /\ UNCHANGED <<rtVersion, rtHow, rtMeta, rtNext, rtOut>>
        /\ rtPc' \in {"error", "closed", "drain"} /\ (rtTasks' # {} => rtPc' = "drain")
    BY <1>6 DEF RtReadFails, RtDrained, RtDraining
  <2> QED BY <2>1, RtEndsKeep
<1>7. CASE RtYield BY <1>7, RtYieldKeeps
<1>8. CASE RtFinal
  <2>1. CASE rtPc' = "ok" BY <1>8, <2>1, RtFinalKeeps
  <2>2. CASE rtPc' # "ok"
    <3>1. /\ UNCHANGED <<rtVersion, rtHow, rtMeta, rtNext, rtOut>>
          /\ rtPc' \in {"error", "closed", "drain"} /\ (rtTasks' # {} => rtPc' = "drain")
      BY <1>8, <2>2 DEF RtFinal
    <3> QED BY <3>1, RtEndsKeep
  <2> QED BY <2>1, <2>2
<1>9. CASE RtFail \/ RtClose
  <2>1. /\ UNCHANGED <<rtVersion, rtHow, rtMeta, rtNext, rtOut>>
        /\ rtPc' \in {"error", "closed", "drain"} /\ (rtTasks' # {} => rtPc' = "drain")
    BY <1>9 DEF RtFail, RtClose, RtInv, RtTasksOfBatch
  <2> QED BY <2>1, RtEndsKeep
<1>10. CASE RtOverwrite BY <1>10, RtOverwriteKeeps
<1>11. CASE UNCHANGED rtVars
  BY <1>11 DEF rtVars, RtInv, RtTypes, RtTasksOfBatch, RtWindows, RtReads, RtMayRead, RtOneVersion, RtTellsApart
<1> QED BY <1>1, <1>2, <1>3, <1>4, <1>5, <1>6, <1>7, <1>8, <1>9, <1>10, <1>11 DEF RtNext, RtDone

\* A ranged read that ends normally delivers one version, complete and in
\* order, when its reads are pinned to a version or the metadata tells the
\* versions apart; and no read outlives the generator.
THEOREM OneVersionRead == RtSpec => []RtConsistent
<1>1. RtInit => RtInv BY RtInitHolds
<1>2. RtInv /\ [RtNext]_rtVars => RtInv' BY RtStepKeeps
<1>3. RtInv => RtConsistent
  BY DEF RtInv, RtTasksOfBatch, RtConsistent, RtNoReadLeft, RtOver
<1> QED BY <1>1, <1>2, <1>3, PTL DEF RtSpec

\* The condition of the reads is one of the three, and the windows that are read
\* are of the batch.
RtOfBatch == rtHow \in RtConditions /\ rtTasks \subseteq DOMAIN rtGot

\* So the variables have their types.
LEMMA RtOfBatchTyped == RtInv /\ RtOfBatch => RtTypeOK
BY DEF RtInv, RtTypes, RtOfBatch, RtTypeOK

\* Whatever the reads do.
LEMMA RtOfBatchKept == RtOfBatch /\ [RtNext]_rtVars => RtOfBatch'
<1> SUFFICES ASSUME RtOfBatch, [RtNext]_rtVars PROVE RtOfBatch'
  OBVIOUS
<1>1. CASE RtCall BY <1>1 DEF RtCall, RtOfBatch, RtConditions
<1>2. CASE RtBatch
  <2>1. PICK streams \in 1..RtStreams :
          LET windows == {w \in rtNext..RtSize[rtMeta] : w < rtNext + streams}
          IN  rtTasks' = windows /\ rtGot' = [w \in windows |-> 0]
    BY <1>2 DEF RtBatch
  <2>2. rtTasks' \subseteq DOMAIN rtGot' BY <2>1
  <2>3. rtHow' = rtHow BY <1>2 DEF RtBatch
  <2> QED BY <2>2, <2>3 DEF RtOfBatch
<1>3. ASSUME NEW w \in rtTasks, RtRead(w) PROVE RtOfBatch'
  <2>1. /\ rtHow' = rtHow /\ rtTasks' = rtTasks \ {w}
        /\ rtGot' = [rtGot EXCEPT ![w] = rtVersion]
    BY <1>3 DEF RtRead
  <2>2. DOMAIN rtGot' = DOMAIN rtGot BY <2>1
  <2> QED BY <2>1, <2>2 DEF RtOfBatch
<1>4. ASSUME NEW w \in rtTasks, RtReadFails(w) \/ RtDrained(w) PROVE RtOfBatch'
  BY <1>4 DEF RtReadFails, RtDrained, RtOfBatch
<1>5. CASE RtYield
  <2>1. rtHow' = rtHow /\ rtTasks' = rtTasks /\ rtTasks = {} BY <1>5 DEF RtYield
  <2> QED BY <2>1 DEF RtOfBatch
<1>6. CASE RtStream \/ RtWhole \/ RtProbe \/ RtFinal \/ RtFail \/ RtClose \/ RtOverwrite \/ RtDone \/ UNCHANGED rtVars
  BY <1>6 DEF RtStream, RtWhole, RtProbe, RtFinal, RtFail, RtClose, RtOverwrite, RtDone, rtVars, RtOfBatch
<1> QED BY <1>1, <1>2, <1>3, <1>4, <1>5, <1>6 DEF RtNext

\* No batch has begun.
LEMMA RtOfBatchInit == RtInit => RtOfBatch
BY DEF RtInit, RtOfBatch, RtConditions
-----------------------------------------------------------------------------
(* The progress a copy reports.                                            *)

\* What was reported last is what is shown; sizes are numbers.
PgInv ==
    /\ pgDone \in Nat /\ pgDst \in Int /\ pgPolled \in Int /\ pgLast \in Nat
    /\ pgShown = pgLast /\ pgTotal = pgLast

\* What _emit_progress does with a total that is not below the last one.
LEMMA PgEmits ==
    ASSUME PgInv, NEW total \in Int, total >= pgLast, PgEmit(total - pgLast, total)
    PROVE  pgLast' \in Nat /\ pgShown' = pgLast' /\ pgTotal' = pgLast' /\ pgLast' >= pgLast
<1>1. pgLast' = total /\ pgTotal' = total
      /\ pgShown' = IF total - pgLast > 0 THEN pgShown + (total - pgLast) ELSE pgShown
  BY DEF PgEmit, PgReceived
<1>2. pgLast \in Nat /\ pgShown = pgLast BY DEF PgInv
<1> QED BY <1>1, <1>2

\* The progress that is shown adds up to the total that is shown, and never
\* goes back, whether the monitor, a callback or the final report shows it, and
\* whatever was at the destination before.
THEOREM ProgressAddsUp == PgSpec => PgConsistent
<1> DEFINE Kept == pgLast' \in Nat /\ pgShown' = pgLast' /\ pgTotal' = pgLast' /\ pgLast' >= pgLast
<1>1. PgInit => PgInv
  BY PgAssumption DEF PgInit, PgInv
<1>2. ASSUME PgInv, PgNext PROVE PgInv' /\ Kept
  <2>0. pgDone \in Nat /\ pgDst \in Int /\ pgPolled \in Int /\ pgLast \in Nat
    BY <1>2 DEF PgInv
  <2>1. UNCHANGED <<pgLast, pgShown, pgTotal>> => Kept
    BY <1>2 DEF PgInv
  <2>2. Kept
    <3>1. CASE PgWrite
      <4>1. CASE pgCalls
        <5>1. pgDone' \in Nat /\ PgAtLeast(pgDone') \in Int /\ PgAtLeast(pgDone') >= pgLast
          BY <2>0, <3>1 DEF PgWrite, PgAtLeast
        <5>2. PgEmit(PgAtLeast(pgDone') - pgLast, PgAtLeast(pgDone'))
          BY <3>1, <4>1 DEF PgWrite
        <5> HIDE DEF Kept
        <5> QED BY <1>2, <5>1, <5>2, PgEmits DEF Kept
      <4>2. CASE ~pgCalls BY <2>1, <3>1, <4>2 DEF PgWrite
      <4> QED BY <4>1, <4>2
    <3>2. CASE PgPolled
      <4>1. CASE ~pgEmitted /\ pgPolled > pgLast
        <5>1. pgPolled >= pgLast /\ PgEmit(pgPolled - pgLast, pgPolled)
          BY <2>0, <3>2, <4>1 DEF PgPolled
        <5> QED BY <1>2, <2>0, <5>1, PgEmits
      <4>2. CASE ~(~pgEmitted /\ pgPolled > pgLast) BY <2>1, <3>2, <4>2 DEF PgPolled
      <4> QED BY <4>1, <4>2
    <3>3. CASE PgReturn
      <4>1. CASE pgState = "copied" /\ ~pgEmitted /\ PgGetSize > pgLast
        <5>1. PgGetSize \in Int /\ PgGetSize >= pgLast /\ PgEmit(PgGetSize - pgLast, PgGetSize)
          BY <2>0, <3>3, <4>1 DEF PgReturn, PgGetSize
        <5> QED BY <1>2, <5>1, PgEmits
      <4>2. CASE ~(pgState = "copied" /\ ~pgEmitted /\ PgGetSize > pgLast) BY <2>1, <3>3, <4>2 DEF PgReturn
      <4> QED BY <4>1, <4>2
    <3>4. CASE PgWake \/ PgCopied \/ PgDone
      BY <2>1, <3>4 DEF PgWake, PgCopied, PgDone, pgVars
    <3> QED BY <1>2, <3>1, <3>2, <3>3, <3>4 DEF PgNext
  <2>3. pgDone' \in Nat /\ pgDst' \in Int /\ pgPolled' \in Int
    BY <1>2, <2>0, PgAssumption DEF PgNext, PgWrite, PgWake, PgPolled, PgCopied, PgReturn, PgDone, pgVars, PgGetSize
  <2> QED BY <2>2, <2>3 DEF PgInv
<1>3. ASSUME PgInv, UNCHANGED pgVars PROVE PgInv'
  BY <1>3 DEF PgInv, pgVars
<1>4. ASSUME PgInv, PgNext PROVE PgAddsUp' /\ pgTotal' >= pgTotal
  BY <1>2, <1>4 DEF PgAddsUp, PgInv
<1>5. PgInv /\ [PgNext]_pgVars => PgInv'
  BY <1>2, <1>3
<1>6. PgInv /\ [PgNext]_pgVars => [PgAddsUp' /\ pgTotal' >= pgTotal]_pgVars
  BY <1>4
<1> HIDE DEF Kept
<1> QED BY <1>1, <1>5, <1>6, PTL DEF PgSpec, PgConsistent

\* What others may do to the progress of a copy keeps its types.
LEMMA PgTypeKept == PgTypeOK /\ [PgNext]_pgVars => PgTypeOK'
<1> SUFFICES ASSUME PgTypeOK, [PgNext]_pgVars PROVE PgTypeOK'
  OBVIOUS
<1>1. PgSize \in Nat BY PgAssumption
<1> USE <1>1 DEF PgTypeOK
<1>2. CASE PgWrite BY <1>2 DEF PgWrite
<1>3. CASE PgWake BY <1>3 DEF PgWake
<1>4. CASE PgPolled BY <1>4 DEF PgPolled
<1>5. CASE PgCopied BY <1>5 DEF PgCopied
<1>6. CASE PgReturn BY <1>6 DEF PgReturn, PgCancelled
<1>7. CASE PgDone \/ UNCHANGED pgVars BY <1>7 DEF PgDone, pgVars
<1> QED BY <1>2, <1>3, <1>4, <1>5, <1>6, <1>7 DEF PgNext

\* Nothing is shown at first.
LEMMA PgTypeInit == PgInit => PgTypeOK
BY PgAssumption DEF PgInit, PgTypeOK
-----------------------------------------------------------------------------
(* The tokens that are sent.                                               *)

TkTokens == [from : {"anonymous", "env", "given", "ring", "jfrog"}, for : TkOrNone]
TkEnvs == [token : TkOrNone, base : TkOrNone]
TkPaths == [kind : {"none", "art", "http"}, at : TkOrNone, token : TkTokens, explicit : BOOLEAN,
            late : BOOLEAN, url : Nat, memo : {<<>>} \cup (TkEnvs \X Nat \X TkOrNone)]

\* An environment names a service twice or leaves one of the two out.
TkEnvsFit ==
    /\ tkArtEnv \in TkEnvs /\ tkHttpEnv \in TkEnvs
    /\ tkArtEnv.base \in {tkArtEnv.token, "none"}
    /\ tkHttpEnv.base = tkHttpEnv.token \/ "none" \in {tkHttpEnv.token, tkHttpEnv.base}

\* What the process knows of a service is a token for it, and the one that was
\* passed if one was.
TkKnownFits ==
    /\ tkKnown \in [TkServices -> TkTokens] /\ tkRing \in [TkServices -> {"none", "ring", "given"}]
    /\ \A s \in TkServices : /\ tkKnown[s].for \in {s, "none"}
                             /\ s \in tkGiven => tkKnown[s] = TkToken("given", s)

\* The headers an environment gives to a service.
TkGives(env, s) == IF TkAllowed(env.base, s) THEN env.token ELSE "none"

\* An object has a token for its service; its memo is no younger than its URL
\* object, and holds what its environment gives to the URL it was made for.
TkObjectFits(object) ==
    /\ object \in TkPaths
    /\ object.kind \in {"art", "http"} => object.at \in TkServices
    /\ object.kind = "art" => object.token.for \in {object.at, "none"}
    /\ object.late => object.token.from \in {"given", "env"}
    /\ object.url <= tkSteps
    /\ object.memo # <<>> =>
         /\ object.memo[2] <= tkSteps
         /\ object.memo[2] = object.url => object.memo[3] = TkGives(object.memo[1], object.at)

TkInv ==
    /\ tkSteps \in Nat /\ tkGiven \subseteq TkServices
    /\ TkEnvsFit /\ TkKnownFits
    /\ tkObject \in [TkObjects -> TkPaths]
    /\ \A o \in TkObjects : TkObjectFits(tkObject[o])
    /\ TkSentHome

\* The token that is found for a service is for it; where one was passed, it is
\* that one or the environment's.
LEMMA TkFoundFits ==
    ASSUME TkInv, NEW s \in TkServices
    PROVE  /\ TkFound(s) \in TkTokens /\ TkFound(s).for \in {s, "none"}
           /\ s \in tkGiven => TkFound(s) = TkToken("given", s) \/ TkFound(s).from = "env"
<1>1. s # "none" /\ tkKnown[s] \in TkTokens /\ tkRing[s] \in {"none", "ring", "given"}
  BY TkAssumption DEF TkInv, TkKnownFits
<1>2. CASE TkAllowed(tkArtEnv.base, s)
  <2>1. tkArtEnv.token = s BY <1>1, <1>2 DEF TkInv, TkEnvsFit, TkAllowed
  <2>2. TkFound(s) = TkToken("env", s) BY <1>2, <2>1 DEF TkFound
  <2> QED BY <2>2 DEF TkToken, TkTokens, TkOrNone
<1>3. CASE ~TkAllowed(tkArtEnv.base, s) /\ tkKnown[s] # TkNoToken
  <2>1. TkFound(s) = tkKnown[s] BY <1>3 DEF TkFound
  <2> QED BY <1>1, <2>1 DEF TkInv, TkKnownFits, TkToken
<1>4. CASE ~TkAllowed(tkArtEnv.base, s) /\ tkKnown[s] = TkNoToken
  <2>1. s \notin tkGiven BY <1>4 DEF TkInv, TkKnownFits, TkNoToken, TkToken
  <2>2. CASE tkRing[s] # "none"
    <3>1. TkFound(s) = TkToken(tkRing[s], s) BY <1>4, <2>2 DEF TkFound
    <3> QED BY <1>1, <2>1, <2>2, <3>1 DEF TkToken, TkTokens, TkOrNone
  <2>3. CASE tkRing[s] = "none"
    <3>1. TkFound(s) \in {TkToken("jfrog", s), TkNoToken} BY <1>4, <2>3 DEF TkFound
    <3> QED BY <2>1, <3>1 DEF TkToken, TkNoToken, TkTokens, TkOrNone
  <2> QED BY <2>2, <2>3
<1> QED BY <1>2, <1>3, <1>4

\* Making an Artifactory path leaves every object and what is known fitting.
LEMMA TkConstructFits ==
    ASSUME TkInv, TkStep, NEW o \in TkObjects, NEW s \in TkServices, NEW explicit \in BOOLEAN,
           TkConstruct(o, s, explicit), tkGiven' = IF explicit THEN tkGiven \cup {s} ELSE tkGiven,
           UNCHANGED <<tkArtEnv, tkHttpEnv, tkJfrog, tkSent>>
    PROVE  TkInv'
<1> DEFINE token == IF explicit THEN TkToken("given", s) ELSE TkFound(s)
<1>1. /\ token \in TkTokens /\ token.for \in {s, "none"}
      /\ explicit => token = TkToken("given", s)
      /\ s \in tkGiven => token = TkToken("given", s) \/ token.from = "env"
  BY TkFoundFits DEF TkToken, TkTokens, TkOrNone
<1> HIDE DEF token
<1>2. /\ tkObject' = [tkObject EXCEPT ![o] =
                        [kind |-> "art", at |-> s, token |-> token, explicit |-> explicit,
                         late |-> s \in tkGiven, url |-> 0, memo |-> <<>>]]
      /\ tkKnown' = TkRemembers(s, token)
      /\ tkRing' = IF explicit /\ tkKnown[s] # token THEN [tkRing EXCEPT ![s] = "given"] ELSE tkRing
  BY DEF TkConstruct, token
<1>3. tkSteps' = tkSteps + 1 /\ tkSteps \in Nat
  BY DEF TkStep, TkInv
<1>4. TkKnownFits'
  BY <1>1, <1>2 DEF TkInv, TkKnownFits, TkRemembers, TkToken, TkNoToken, TkTokens
<1>5. ASSUME NEW q \in TkObjects PROVE TkObjectFits(tkObject[q])'
  <2>1. CASE q = o
    BY <1>1, <1>2, <1>3, <2>1 DEF TkInv, TkObjectFits, TkPaths, TkOrNone, TkToken
  <2>2. CASE q # o
    <3>1. tkObject'[q] = tkObject[q] /\ TkObjectFits(tkObject[q]) /\ tkObject[q] \in TkPaths
      BY <1>2, <2>2 DEF TkInv
    <3>2. tkObject[q].url \in Nat /\ (tkObject[q].memo # <<>> => tkObject[q].memo[2] \in Nat)
      BY <3>1 DEF TkPaths
    <3> QED BY <1>3, <3>1, <3>2 DEF TkObjectFits, TkGives, TkAllowed
  <2> QED BY <2>1, <2>2
<1>6. tkObject' \in [TkObjects -> TkPaths]
  BY <1>1, <1>2 DEF TkInv, TkPaths, TkOrNone
<1> QED BY <1>3, <1>4, <1>5, <1>6 DEF TkInv, TkEnvsFit, TkSentHome

\* An object a step leaves alone still fits when the step counter goes on.
LEMMA TkOthersFit ==
    ASSUME TkInv, NEW o \in TkObjects, tkObject'[o] = tkObject[o],
           tkSteps' \in {tkSteps, tkSteps + 1}
    PROVE  TkObjectFits(tkObject[o])'
<1>1. tkSteps \in Nat /\ TkObjectFits(tkObject[o]) /\ tkObject[o] \in TkPaths
  BY DEF TkInv
<1>2. tkObject[o].url \in Nat /\ (tkObject[o].memo # <<>> => tkObject[o].memo[2] \in Nat)
  BY <1>1 DEF TkPaths
<1> QED BY <1>1, <1>2 DEF TkObjectFits, TkGives, TkAllowed

\* The headers of an HTTP path are those its environment gives to its service
\* now, memoized or not.
LEMMA TkHeadersFit ==
    ASSUME TkInv, NEW o \in TkObjects
    PROVE  TkHeaders(o) = TkGives(tkHttpEnv, tkObject[o].at)
<1>1. TkObjectFits(tkObject[o])
  BY DEF TkInv
<1> QED BY <1>1 DEF TkHeaders, TkMemoValid, TkSameEnv, TkObjectFits, TkGives

\* A path of the kinds that have no token of their own.
LEMMA TkHttpFits ==
    ASSUME TkInv, NEW o \in TkObjects, TkHttp(o)
    PROVE  TkInv'
<1>1. PICK s \in TkServices, from \in TkObjects :
        tkObject' = [tkObject EXCEPT ![o] = [TkNothing EXCEPT !.kind = "http", !.at = s,
                       !.url = tkSteps',
                       !.memo = IF tkObject[from].kind = "http" THEN tkObject[from].memo ELSE <<>>]]
  BY DEF TkHttp
<1> DEFINE memo == IF tkObject[from].kind = "http" THEN tkObject[from].memo ELSE <<>>
           path == [TkNothing EXCEPT !.kind = "http", !.at = s, !.url = tkSteps', !.memo = memo]
<1>2. tkObject' = [tkObject EXCEPT ![o] = path]
  BY <1>1
<1>3. tkSteps' = tkSteps + 1 /\ tkSteps \in Nat
  BY DEF TkHttp, TkStep, TkInv
<1>4. /\ memo \in {<<>>} \cup (TkEnvs \X Nat \X TkOrNone)
      /\ memo # <<>> => memo[2] \in Nat /\ memo[2] <= tkSteps
  <2>1. tkObject[from] \in TkPaths /\ TkObjectFits(tkObject[from]) BY DEF TkInv
  <2> QED BY <2>1 DEF TkPaths, TkObjectFits
<1> HIDE DEF memo
<1>5. /\ path \in TkPaths /\ path.kind = "http" /\ path.at = s /\ path.url = tkSteps'
      /\ path.memo = memo /\ path.late = FALSE
  <2>1. TkNothing \in TkPaths /\ TkNothing.late = FALSE
    BY DEF TkNothing, TkPaths, TkTokens, TkNoToken, TkOrNone
  <2>2. s \in TkOrNone /\ tkSteps' \in Nat
    BY <1>3 DEF TkOrNone
  <2> QED BY <1>4, <2>1, <2>2 DEF TkPaths
<1> HIDE DEF path
<1>6. memo # <<>> => memo[2] # tkSteps' /\ memo[2] <= tkSteps'
  BY <1>3, <1>4
<1>7. ASSUME NEW q \in TkObjects PROVE TkObjectFits(tkObject[q])'
  <2>1. CASE q = o
    <3>1. tkObject'[q] = path BY <1>2, <2>1 DEF TkInv
    <3> QED BY <1>3, <1>5, <1>6, <3>1 DEF TkObjectFits
  <2>2. CASE q # o
    <3>1. tkObject'[q] = tkObject[q] BY <1>2, <2>2 DEF TkInv
    <3> QED BY <1>3, <3>1, TkOthersFit
  <2> QED BY <2>1, <2>2
<1>8. tkObject' \in [TkObjects -> TkPaths]
  BY <1>2, <1>5 DEF TkInv
<1> QED BY <1>3, <1>7, <1>8 DEF TkHttp, TkInv, TkEnvsFit, TkKnownFits, TkSentHome

\* A request sends the headers, or the token, of the service it goes to.
LEMMA TkRequestFits ==
    ASSUME TkInv, NEW o \in TkObjects, TkRequest(o)
    PROVE  TkInv'
<1>1. tkSteps' = tkSteps + 1 /\ tkSteps \in Nat
  BY DEF TkRequest, TkStep, TkInv
<1>2. TkObjectFits(tkObject[o]) /\ tkObject[o] \in TkPaths
  BY DEF TkInv
<1>3. UNCHANGED <<tkArtEnv, tkHttpEnv, tkRing, tkKnown, tkJfrog, tkGiven>>
  BY DEF TkRequest
<1> SUFFICES (\A q \in TkObjects : TkObjectFits(tkObject[q])') /\ tkObject' \in [TkObjects -> TkPaths]
             /\ TkSentHome'
  BY <1>1, <1>3 DEF TkInv, TkEnvsFit, TkKnownFits
<1>4. CASE tkObject[o].kind = "art" /\ UNCHANGED tkObject /\
           tkSent' = {[to |-> tkObject[o].at, now |-> tkObject[o].token.for,
                       for |-> tkObject[o].token.for]}
  <2>1. TkSentHome' BY <1>2, <1>4 DEF TkSentHome, TkObjectFits
  <2> QED BY <1>1, <1>4, <2>1, TkOthersFit DEF TkInv
<1>5. ASSUME tkObject[o].kind = "http", NEW to \in TkServices,
             tkSent' = {[to |-> to, now |-> tkHttpEnv.token,
                         for |-> IF to = tkObject[o].at THEN TkHeaders(o) ELSE "none"]},
             tkObject' = IF to = tkObject[o].at
                         THEN [tkObject EXCEPT ![o].memo = <<tkHttpEnv, tkObject[o].url, TkHeaders(o)>>]
                         ELSE tkObject
      PROVE  (\A q \in TkObjects : TkObjectFits(tkObject[q])') /\ tkObject' \in [TkObjects -> TkPaths]
             /\ TkSentHome'
  <2> DEFINE headers == TkGives(tkHttpEnv, tkObject[o].at)
  <2>1. TkHeaders(o) = headers BY TkHeadersFit
  <2>2. /\ tkHttpEnv \in TkEnvs /\ headers \in TkOrNone /\ tkObject[o].at \in TkServices
        /\ headers # "none" => headers = tkObject[o].at /\ headers = tkHttpEnv.token
    BY <1>2, <1>5 DEF TkInv, TkEnvsFit, TkGives, TkAllowed, TkEnvs, TkOrNone, TkObjectFits
  <2>3. TkSentHome'
    BY <1>5, <2>1, <2>2 DEF TkSentHome
  <2>4. CASE to # tkObject[o].at
    BY <1>1, <1>5, <2>3, <2>4, TkOthersFit DEF TkInv
  <2>5. CASE to = tkObject[o].at
    <3> DEFINE path == [tkObject[o] EXCEPT !.memo = <<tkHttpEnv, tkObject[o].url, headers>>]
    <3>1. tkObject' = [tkObject EXCEPT ![o] = path]
      BY <1>5, <2>1, <2>5 DEF TkInv
    <3>2. /\ path \in TkPaths /\ path.url = tkObject[o].url /\ path.at = tkObject[o].at
          /\ path.memo = <<tkHttpEnv, tkObject[o].url, headers>>
          /\ path.kind = "http" /\ path.late = tkObject[o].late /\ path.token = tkObject[o].token
      BY <1>2, <1>5, <2>2 DEF TkPaths
    <3> HIDE DEF path
    <3>3. tkObject[o].url \in Nat /\ tkObject[o].url <= tkSteps'
      <4>1. tkObject[o].url \in Nat BY <1>2 DEF TkPaths
      <4> QED BY <1>1, <1>2, <4>1 DEF TkObjectFits
    <3>4. ASSUME NEW q \in TkObjects PROVE TkObjectFits(tkObject[q])'
      <4>1. CASE q = o
        <5>1. tkObject'[q] = path BY <3>1, <4>1 DEF TkInv
        <5> QED BY <1>2, <2>2, <3>2, <3>3, <5>1 DEF TkObjectFits, TkGives, TkAllowed
      <4>2. CASE q # o
        <5>1. tkObject'[q] = tkObject[q] BY <3>1, <4>2 DEF TkInv
        <5> QED BY <1>1, <5>1, TkOthersFit
      <4> QED BY <4>1, <4>2
    <3>5. tkObject' \in [TkObjects -> TkPaths]
      BY <3>1, <3>2 DEF TkInv
    <3> QED BY <2>3, <3>4, <3>5
  <2> QED BY <2>4, <2>5
<1> QED BY <1>4, <1>5 DEF TkRequest, TkSameOrigin

\* A path derived from an Artifactory path within its authority is that path
\* again as far as its credentials go; any other finds its own.
LEMMA TkDeriveFits ==
    ASSUME TkInv, NEW o \in TkObjects, NEW from \in TkObjects, TkDerive(o, from)
    PROVE  TkInv'
<1>1. PICK s \in TkServices :
        IF TkKeepsAuthority(from, s)
        THEN /\ tkObject' = [tkObject EXCEPT ![o] = [tkObject[from] EXCEPT !.at = s]]
             /\ UNCHANGED <<tkKnown, tkRing>>
        ELSE TkConstruct(o, s, FALSE)
  BY DEF TkDerive
<1>2. TkStep /\ UNCHANGED <<tkArtEnv, tkHttpEnv, tkJfrog, tkSent, tkGiven>>
  BY DEF TkDerive
<1>3. CASE ~TkKeepsAuthority(from, s)
  BY <1>1, <1>2, <1>3, TkConstructFits
<1>4. CASE TkKeepsAuthority(from, s)
  <2>1. TkObjectFits(tkObject[from]) /\ tkObject[from] \in TkPaths /\ tkObject[from].at = s
    BY <1>4 DEF TkInv, TkKeepsAuthority
  <2>2. tkObject' = [tkObject EXCEPT ![o] = tkObject[from]]
    BY <1>1, <1>4, <2>1 DEF TkPaths
  <2>3. tkSteps' = tkSteps + 1 /\ tkSteps \in Nat
    BY <1>2 DEF TkStep, TkInv
  <2>4. ASSUME NEW q \in TkObjects PROVE TkObjectFits(tkObject[q])'
    <3>1. CASE q = o
      <4>1. tkObject'[q] = tkObject[from] BY <2>2, <3>1 DEF TkInv
      <4>2. tkObject[from].url \in Nat /\ (tkObject[from].memo # <<>> => tkObject[from].memo[2] \in Nat)
        BY <2>1 DEF TkPaths
      <4> QED BY <2>1, <2>3, <4>1, <4>2 DEF TkObjectFits, TkGives, TkAllowed
    <3>2. CASE q # o
      <4>1. tkObject'[q] = tkObject[q] BY <2>2, <3>2 DEF TkInv
      <4> QED BY <2>3, <4>1, TkOthersFit
    <3> QED BY <3>1, <3>2
  <2> QED BY <1>1, <1>2, <1>4, <2>2, <2>3, <2>4 DEF TkInv, TkEnvsFit, TkKnownFits, TkSentHome
<1> QED BY <1>3, <1>4

\* TkInv holds initially.
LEMMA TkInitHolds == TkInit => TkInv
<1> SUFFICES ASSUME TkInit PROVE TkInv
  OBVIOUS
<1>1. PICK s \in TkServices, base \in TkOrNone :
        base \in {s, "none"} /\ tkArtEnv = [token |-> s, base |-> base]
  BY DEF TkInit
<1>2. TkNothing \in TkPaths /\ TkNoToken \in TkTokens /\ TkNoToken.for = "none"
  BY DEF TkNothing, TkNoToken, TkPaths, TkTokens, TkOrNone
<1>3. TkEnvsFit
  BY <1>1 DEF TkInit, TkEnvsFit, TkEnvs, TkOrNone
<1>4. TkKnownFits
  BY <1>2 DEF TkInit, TkKnownFits
<1>5. \A o \in TkObjects : TkObjectFits(tkObject[o])
  BY <1>2 DEF TkInit, TkObjectFits, TkNothing
<1> QED BY <1>2, <1>3, <1>4, <1>5 DEF TkInit, TkInv, TkSentHome

\* Every step keeps TkInv.
LEMMA TkStepKeeps == TkInv /\ [TkNext]_tkVars => TkInv'
<1> SUFFICES ASSUME TkInv, [TkNext]_tkVars PROVE TkInv'
  OBVIOUS
<1>1. CASE UNCHANGED tkVars
  BY <1>1, TkOthersFit DEF tkVars, TkInv, TkEnvsFit, TkKnownFits, TkSentHome
<1>2. ASSUME NEW o \in TkObjects, TkMake(o) PROVE TkInv'
  BY <1>2, TkConstructFits DEF TkMake
<1>3. CASE TkHttpEnv
  <2>1. TkEnvsFit'
    BY <1>3 DEF TkHttpEnv, TkInv, TkEnvsFit, TkEnvs
  <2>2. \A o \in TkObjects : TkObjectFits(tkObject[o])'
    BY <1>3, TkOthersFit DEF TkHttpEnv, TkStep
  <2> QED BY <1>3, <2>1, <2>2 DEF TkHttpEnv, TkStep, TkInv, TkKnownFits, TkSentHome
<1>4. CASE TkExpire
  <2>1. \A o \in TkObjects : TkObjectFits(tkObject[o])'
    BY <1>4, TkOthersFit DEF TkExpire
  <2> QED BY <1>4, <2>1 DEF TkExpire, TkInv, TkEnvsFit, TkKnownFits, TkSentHome
<1> QED BY <1>1, <1>2, <1>3, <1>4, TkHttpFits, TkRequestFits, TkDeriveFits DEF TkNext, TkDone

\* TkInv is inductive.
LEMMA TkInvariance == TkSpec => []TkInv
<1>1. TkInit => TkInv BY TkInitHolds
<1>2. TkInv /\ [TkNext]_tkVars => TkInv' BY TkStepKeeps
<1> QED BY <1>1, <1>2, PTL DEF TkSpec

\* Whatever paths are made and derived, and whatever the environment and the
\* keyring do meanwhile, a request carries the token of the service it goes to
\* and of no other, and a token that was passed for a service stays in use.
THEOREM RightToken == TkSpec => []TkRightToken
<1>1. TkInv => TkRightToken
  BY DEF TkInv, TkObjectFits, TkRightToken, TkGivenKept
<1> QED BY <1>1, TkInvariance, PTL

\* Requests and environments keep the types of the tokens.
LEMMA TkTypeKept == TkInv /\ TkTypeOK /\ [TkNext]_tkVars => TkTypeOK'
<1> SUFFICES ASSUME TkInv, TkTypeOK, [TkNext]_tkVars PROVE TkTypeOK'
  OBVIOUS
<1>1. TkInv' BY TkStepKeeps
<1>2. tkSteps \in 0..TkMaxSteps /\ TkMaxSteps \in Nat BY TkAssumption DEF TkTypeOK
<1>3. tkJfrog' = tkJfrog /\ tkSteps' \in 0..TkMaxSteps
  <2>1. ASSUME TkStep PROVE tkSteps' \in 0..TkMaxSteps BY <1>2, <2>1 DEF TkStep
  <2>2. ASSUME NEW o \in TkObjects, TkMake(o) \/ TkHttp(o) \/ TkRequest(o) \/ (\E from \in TkObjects : TkDerive(o, from))
        PROVE  TkStep /\ tkJfrog' = tkJfrog
    BY <2>2 DEF TkMake, TkHttp, TkRequest, TkDerive
  <2>3. TkHttpEnv => TkStep /\ tkJfrog' = tkJfrog BY DEF TkHttpEnv
  <2>4. TkExpire \/ TkDone \/ UNCHANGED tkVars => tkJfrog' = tkJfrog /\ tkSteps' = tkSteps
    BY DEF TkExpire, TkDone, tkVars
  <2> QED BY <1>2, <2>1, <2>2, <2>3, <2>4 DEF TkNext
<1>4. ASSUME NEW o \in TkObjects PROVE tkObject'[o].at \in TkOrNone /\ tkObject'[o].token.for \in TkOrNone
  <2>1. tkObject'[o] \in TkPaths BY <1>1 DEF TkInv
  <2> QED BY <2>1 DEF TkPaths, TkTokens
<1> QED BY <1>1, <1>3, <1>4 DEF TkInv, TkKnownFits, TkTypeOK

\* Nothing has been sent at first.
LEMMA TkTypeInit == TkInit => TkTypeOK
<1> SUFFICES ASSUME TkInit PROVE TkTypeOK
  OBVIOUS
<1>1. TkInv BY TkInitHolds
<1>2. \A o \in TkObjects : tkObject[o] \in TkPaths BY <1>1 DEF TkInv
<1>3. \A o \in TkObjects : tkObject[o].at \in TkOrNone /\ tkObject[o].token.for \in TkOrNone
  BY <1>2 DEF TkPaths, TkTokens
<1> QED BY <1>1, <1>3, TkAssumption DEF TkInit, TkInv, TkKnownFits, TkTypeOK
-----------------------------------------------------------------------------
(* mv, cp and rm.                                                          *)

CmPlaces == {"none", "queued", "write", "remove", "ok", "failed"}
CmMoving == cmCmd \in {"mv", "cp"}
CmHere(i) == CmSharesTarget(i) \/ cmAt[cmPlan[i]] = i

CmTypes ==
    /\ cmCmd \in {"mv", "cp", "rm", "stdin"}
    /\ cmName \in Seq(CmNames) /\ CmCount \in Nat \ {0}
    /\ cmSrc \in [CmAll -> {"file", "dir", "gone"}] /\ cmItem \in [CmAll -> CmPlaces]
    /\ cmAt \in [CmTargets -> Int] /\ cmPlan \in Seq(CmTargets) /\ Len(cmPlan) <= CmCount
    /\ cmState \in {"probe", "plan", "run", "exit"}
    /\ cmState # "exit" => cmExit = -1

\* Which command is in which state; the copies begin when all is planned, and
\* rm removes the path it has just probed.
CmPhases ==
    /\ cmState = "plan" => CmMoving
    /\ cmState = "run" => CmMoving \/ cmCmd = "rm"
    /\ cmState \in {"probe", "plan"} /\ CmMoving => \A i \in CmAll : cmItem[i] = "none"
    /\ cmState = "run" /\ CmMoving => Len(cmPlan) = CmCount
    /\ cmState = "run" /\ cmCmd = "rm" => Len(cmPlan) + 1 \in CmAll /\ cmItem[Len(cmPlan) + 1] = "remove"
    /\ cmCmd = "stdin" => CmCount = 1

\* Several sources go to their names, so only one of the same name can write
\* over another; what was written and what was removed stays so.
CmDoneSoFar ==
    /\ CmMoving /\ CmCount > 1 => \A i \in 1..Len(cmPlan) : cmPlan[i] = cmName[i]
    /\ CmMoving => \A i \in CmAll : cmItem[i] \in {"remove", "ok"} => CmHere(i)
    /\ cmCmd = "mv" => \A i \in CmAll : cmItem[i] = "ok" => cmSrc[i] = "gone"
    /\ cmCmd = "rm" => \A i \in 1..Len(cmPlan) : cmSrc[i] = "gone"

CmInv == CmTypes /\ CmPhases /\ CmDoneSoFar /\ CmExitZero

\* A command starts with nothing planned or done.
LEMMA CmInitHolds == CmInit => CmInv
<1> SUFFICES ASSUME CmInit PROVE CmInv
  OBVIOUS
<1>1. PICK n \in 1..CmSources : cmName \in [1..n -> CmNames] BY DEF CmInit
<1>2. cmName \in Seq(CmNames) /\ Len(cmName) = n /\ n \in Nat \ {0} BY <1>1, CmAssumption
<1>3. PICK old \in {-1, 0, 1}, where \in CmTargets : cmAt = [x \in CmTargets |-> IF x = where THEN old ELSE -1]
  BY DEF CmInit
<1>4. cmAt \in [CmTargets -> Int] BY <1>3
<1>5. cmItem = [i \in CmAll |-> "none"] /\ cmPlan = <<>> /\ cmState = "probe" /\ cmExit = -1
      /\ cmSrc \in [CmAll -> {"file", "dir", "gone"}] /\ cmCmd \in {"mv", "cp", "rm", "stdin"}
      /\ (cmCmd = "stdin" => CmCount = 1)
  BY DEF CmInit
<1>6. Len(cmPlan) = 0 /\ cmPlan \in Seq(CmTargets) BY <1>5
<1>7. CmTypes BY <1>2, <1>4, <1>5, <1>6 DEF CmTypes, CmCount, CmPlaces
<1>8. CmPhases BY <1>5 DEF CmPhases
<1>9. CmDoneSoFar BY <1>5, <1>6 DEF CmDoneSoFar
<1>10. CmExitZero BY <1>5 DEF CmExitZero
<1> QED BY <1>7, <1>8, <1>9, <1>10 DEF CmInv

\* What mv and cp, or rm, must know to keep the invariant without a copy.
LEMMA CmStill ==
    ASSUME CmInv, UNCHANGED <<cmGiven, cmSrc, cmAt, cmItem, cmPlan>>, CmPhases',
           cmState' \in {"probe", "plan", "run", "exit"}, cmState' # "exit" => cmExit' = -1, CmExitZero'
    PROVE  CmInv'
<1>1. UNCHANGED <<cmCmd, cmName, cmSrc, cmAt, cmItem, cmPlan>> BY DEF cmGiven
<1>2. CmCount' = CmCount /\ CmAll' = CmAll /\ (CmMoving' <=> CmMoving) BY <1>1 DEF CmCount, CmAll, CmMoving
<1>3. CmTypes' BY <1>1, <1>2 DEF CmInv, CmTypes
<1>4. CmDoneSoFar' BY <1>1, <1>2 DEF CmInv, CmDoneSoFar, CmHere, CmSharesTarget
<1> QED BY <1>3, <1>4 DEF CmInv

\* The destination is probed.
LEMMA CmProbeDstKeeps == ASSUME CmInv, CmProbeDst PROVE CmInv'
<1>1. /\ cmState = "probe" /\ cmCmd \in {"mv", "cp"}
      /\ UNCHANGED <<cmGiven, cmSrc, cmAt, cmPlan, cmItem>>
      /\ (cmState' = "exit" /\ cmExit' = 1) \/ (cmState' = "plan" /\ cmExit' = cmExit)
  BY DEF CmProbeDst, CmLeave
<1>2. CmTypes /\ CmPhases BY DEF CmInv
<1>3. cmExit = -1 BY <1>1, <1>2 DEF CmTypes
<1>4. CmExitZero' BY <1>1, <1>3 DEF CmExitZero
<1>5. CmPhases' BY <1>1, <1>2 DEF CmPhases, CmMoving, cmGiven, CmAll, CmCount
<1> QED BY <1>1, <1>3, <1>4, <1>5, CmStill

\* cp - DST writes its input.
LEMMA CmStdinKeeps == ASSUME CmInv, CmStdin PROVE CmInv'
<1>1. /\ cmState = "probe" /\ cmCmd = "stdin" /\ UNCHANGED <<cmGiven, cmSrc, cmProbe, cmItem, cmVanished>>
      /\ cmState' = "exit"
      /\ \/ /\ cmAt' = [cmAt EXCEPT ![CmSelf] = 1] /\ cmPlan' = <<CmSelf>> /\ cmExit' = 0
         \/ cmExit' \in {1, 2} /\ UNCHANGED <<cmAt, cmPlan>>
  BY DEF CmStdin, CmLeave
<1>2. CmTypes /\ CmPhases BY DEF CmInv
<1>3. UNCHANGED <<cmCmd, cmName, cmSrc, cmItem>> BY <1>1 DEF cmGiven
<1>4. CmCount' = CmCount /\ CmAll' = CmAll /\ CmCount = 1 BY <1>1, <1>2, <1>3 DEF CmCount, CmAll, CmPhases
<1>5. CmSelf \in CmTargets BY DEF CmTargets
<1>6. <<CmSelf>> \in Seq(CmTargets) /\ Len(<<CmSelf>>) = 1 /\ <<CmSelf>>[1] = CmSelf BY <1>5
<1>7. CmTypes'
  <2>1. cmAt' \in [CmTargets -> Int] BY <1>1, <1>2 DEF CmTypes
  <2>2. cmPlan' \in Seq(CmTargets) /\ Len(cmPlan') <= CmCount
    <3>1. CASE cmPlan' = <<CmSelf>>
      <4>1. cmPlan' \in Seq(CmTargets) /\ Len(cmPlan') = 1 BY <1>6, <3>1
      <4> QED BY <1>4, <4>1
    <3>2. CASE UNCHANGED cmPlan BY <1>2, <3>2 DEF CmTypes
    <3> QED BY <1>1, <3>1, <3>2
  <2> QED BY <1>1, <1>2, <1>3, <1>4, <2>1, <2>2 DEF CmTypes
<1>8. CmPhases' BY <1>1, <1>3, <1>4 DEF CmPhases
<1>9. CmDoneSoFar' BY <1>1, <1>3 DEF CmDoneSoFar, CmMoving
<1>10. CmExitZero'
  <2> SUFFICES ASSUME cmExit' = 0, NEW i \in CmAll PROVE cmAt'[cmPlan'[i]] = i
    BY <1>1, <1>3, <1>4 DEF CmExitZero
  <2>1. cmAt' = [cmAt EXCEPT ![CmSelf] = 1] /\ cmPlan' = <<CmSelf>> BY <1>1
  <2>2. i = 1 BY <1>4 DEF CmAll
  <2>3. cmAt'[CmSelf] = 1 BY <1>2, <1>5, <2>1 DEF CmTypes
  <2> QED BY <1>6, <2>1, <2>2, <2>3
<1> QED BY <1>7, <1>8, <1>9, <1>10 DEF CmInv

\* A source gets its target.
LEMMA CmPlanNextKeeps == ASSUME CmInv, CmPlanNext PROVE CmInv'
<1> DEFINE i == Len(cmPlan) + 1
<1>1. /\ cmState = "plan" /\ i <= CmCount /\ UNCHANGED <<cmGiven, cmSrc, cmDst, cmAt, cmProbe, cmItem, cmVanished>>
      /\ \/ cmState' = "exit" /\ cmExit' = 1 /\ UNCHANGED cmPlan
         \/ cmPlan' = Append(cmPlan, CmTarget(i)) /\ UNCHANGED <<cmState, cmExit>>
  BY DEF CmPlanNext, CmLeave
<1>2. CmTypes /\ CmPhases /\ CmDoneSoFar BY DEF CmInv
<1>3. UNCHANGED <<cmCmd, cmName, cmSrc, cmAt, cmItem>> BY <1>1 DEF cmGiven
<1>4. cmExit = -1 /\ CmMoving BY <1>1, <1>2 DEF CmTypes, CmPhases
<1>5. CASE cmState' = "exit" /\ cmExit' = 1 /\ UNCHANGED cmPlan
  <2>1. CmExitZero' BY <1>5 DEF CmExitZero
  <2>2. CmPhases' BY <1>2, <1>3, <1>4, <1>5 DEF CmPhases, CmMoving, CmAll, CmCount
  <2> QED BY <1>1, <1>5, <2>1, <2>2, CmStill
<1>6. CASE cmPlan' = Append(cmPlan, CmTarget(i)) /\ UNCHANGED <<cmState, cmExit>>
  <2>1. CmCount' = CmCount /\ CmAll' = CmAll /\ (CmMoving' <=> CmMoving) BY <1>3 DEF CmCount, CmAll, CmMoving
  <2>2. cmPlan \in Seq(CmTargets) /\ Len(cmPlan) \in Nat BY <1>2 DEF CmTypes
  <2>3. i \in CmAll /\ cmName[i] \in CmNames BY <1>1, <1>2, <2>2 DEF CmTypes, CmAll, CmCount
  <2>4. CmTarget(i) \in CmTargets /\ (CmCount > 1 => CmTarget(i) = cmName[i])
    BY <2>3 DEF CmTarget, CmTargets
  <2>5. /\ cmPlan' \in Seq(CmTargets) /\ Len(cmPlan') = i /\ cmPlan'[i] = CmTarget(i)
        /\ \A j \in 1..Len(cmPlan) : cmPlan'[j] = cmPlan[j]
    BY <1>6, <2>2, <2>4
  <2> HIDE DEF i
  <2>6. CmTypes' BY <1>1, <1>2, <1>3, <1>6, <2>1, <2>5 DEF CmTypes
  <2>7. CmPhases' BY <1>1, <1>2, <1>3, <1>6, <2>1 DEF CmPhases
  <2>8. CmDoneSoFar'
    <3>1. \A j \in 1..i : j \in 1..Len(cmPlan) \/ j = i BY <2>2 DEF i
    <3>2. CmCount > 1 => \A j \in 1..i : cmPlan'[j] = cmName[j] BY <1>2, <1>4, <2>4, <2>5, <3>1 DEF CmDoneSoFar
    <3>3. \A j \in CmAll : cmItem[j] = "none" BY <1>1, <1>2, <1>4 DEF CmPhases
    <3>4. cmCmd # "rm" BY <1>4 DEF CmMoving
    <3> QED BY <1>3, <2>1, <2>5, <3>2, <3>3, <3>4 DEF CmDoneSoFar
  <2>9. CmExitZero' BY <1>4, <1>6 DEF CmExitZero
  <2> QED BY <2>6, <2>7, <2>8, <2>9 DEF CmInv
<1> QED BY <1>1, <1>5, <1>6

\* The copies are queued.
LEMMA CmRunKeeps == ASSUME CmInv, CmRun PROVE CmInv'
<1>1. /\ cmState = "plan" /\ Len(cmPlan) = CmCount /\ cmState' = "run" /\ cmItem' = [i \in CmAll |-> "queued"]
      /\ UNCHANGED <<cmCmd, cmName, cmSrc, cmAt, cmPlan, cmExit>>
  BY DEF CmRun, cmGiven
<1>2. CmTypes /\ CmPhases /\ CmDoneSoFar BY DEF CmInv
<1>3. cmExit = -1 /\ CmMoving BY <1>1, <1>2 DEF CmTypes, CmPhases
<1>4. CmCount' = CmCount /\ CmAll' = CmAll /\ (CmMoving' <=> CmMoving) BY <1>1 DEF CmCount, CmAll, CmMoving
<1>5. CmTypes' BY <1>1, <1>2, <1>3, <1>4 DEF CmTypes, CmPlaces
<1>6. CmPhases' BY <1>1, <1>2, <1>3, <1>4 DEF CmPhases, CmMoving
<1>7. CmDoneSoFar' BY <1>1, <1>2, <1>4 DEF CmDoneSoFar
<1>8. CmExitZero' BY <1>1, <1>3 DEF CmExitZero
<1> QED BY <1>5, <1>6, <1>7, <1>8 DEF CmInv

\* What a step of one copy may do: write its own target, remove its own source.
LEMMA CmItemKeeps ==
    ASSUME CmInv, NEW i \in CmAll, CmMoving, cmState = "run", NEW place \in CmPlaces,
           cmItem' = [cmItem EXCEPT ![i] = place],
           UNCHANGED <<cmCmd, cmName, cmPlan, cmState, cmExit>>,
           cmAt' = cmAt \/ cmAt' = [cmAt EXCEPT ![cmPlan[i]] = i],
           cmSrc' = cmSrc \/ cmSrc' = [cmSrc EXCEPT ![i] = "gone"],
           place \in {"remove", "ok"} => cmAt'[cmPlan[i]] = i \/ (cmAt' = cmAt /\ cmItem[i] = "remove"),
           place = "ok" /\ cmCmd = "mv" => cmSrc'[i] = "gone"
    PROVE  CmInv'
<1>1. CmTypes /\ CmPhases /\ CmDoneSoFar BY DEF CmInv
<1>2. cmExit = -1 /\ Len(cmPlan) = CmCount /\ cmCmd \in {"mv", "cp"} BY <1>1 DEF CmTypes, CmPhases, CmMoving
<1>3. CmCount' = CmCount /\ CmAll' = CmAll /\ (CmMoving' <=> CmMoving) BY DEF CmCount, CmAll, CmMoving
<1>4. \A j \in CmAll : j \in 1..Len(cmPlan) /\ cmPlan[j] \in CmTargets BY <1>1, <1>2 DEF CmTypes, CmAll
<1>5. CmAll \subseteq Int BY <1>1 DEF CmAll, CmTypes
<1>6. CmTypes'
  <2>1. cmAt' \in [CmTargets -> Int] BY <1>1, <1>4, <1>5 DEF CmTypes
  <2>2. cmSrc' \in [CmAll -> {"file", "dir", "gone"}] BY <1>1 DEF CmTypes
  <2>3. cmItem' \in [CmAll -> CmPlaces] BY <1>1 DEF CmTypes
  <2> QED BY <1>1, <1>3, <2>1, <2>2, <2>3 DEF CmTypes
<1>7. CmPhases' BY <1>1, <1>2, <1>3 DEF CmPhases, CmMoving
<1>8. CmDoneSoFar'
  <2>1. cmItem'[i] = place /\ \A j \in CmAll \ {i} : cmItem'[j] = cmItem[j] BY <1>1 DEF CmTypes
  <2>2. \A j \in CmAll : CmSharesTarget(j)' <=> CmSharesTarget(j) BY <1>3 DEF CmSharesTarget
  <2>3. ASSUME NEW j \in CmAll, cmItem'[j] \in {"remove", "ok"} PROVE CmHere(j)'
    <3>1. CASE j = i
      <4>1. cmItem[i] = "remove" => CmHere(i) BY <1>1 DEF CmDoneSoFar
      <4> QED BY <2>1, <2>2, <2>3, <3>1, <4>1 DEF CmHere
    <3>2. CASE j # i
      <4>1. CmHere(j) BY <1>1, <2>1, <2>3, <3>2 DEF CmDoneSoFar
      <4>2. CASE CmSharesTarget(j) BY <2>2, <4>2 DEF CmHere
      <4>3. CASE ~CmSharesTarget(j)
        <5>1. CmCount > 1 BY <1>1, <3>2 DEF CmAll, CmTypes
        <5>2. cmPlan[j] = cmName[j] /\ cmPlan[i] = cmName[i] BY <1>1, <1>4, <5>1 DEF CmDoneSoFar
        <5>3. cmName[j] # cmName[i] BY <3>2, <4>3 DEF CmSharesTarget
        <5>4. cmAt'[cmPlan[j]] = cmAt[cmPlan[j]] BY <1>1, <1>4, <5>2, <5>3 DEF CmTypes
        <5> QED BY <4>1, <4>3, <5>4 DEF CmHere
      <4> QED BY <4>2, <4>3
    <3> QED BY <3>1, <3>2
  <2>4. ASSUME cmCmd = "mv", NEW j \in CmAll, cmItem'[j] = "ok" PROVE cmSrc'[j] = "gone"
    <3>1. CASE j = i BY <2>1, <2>4, <3>1
    <3>2. CASE j # i
      <4>1. cmSrc[j] = "gone" BY <1>1, <2>1, <2>4, <3>2 DEF CmDoneSoFar
      <4> QED BY <1>1, <4>1, <3>2 DEF CmTypes
    <3> QED BY <3>1, <3>2
  <2> QED BY <1>1, <1>2, <1>3, <2>3, <2>4 DEF CmDoneSoFar
<1>9. CmExitZero' BY <1>2 DEF CmExitZero
<1> QED BY <1>6, <1>7, <1>8, <1>9 DEF CmInv

\* A worker compares, writes or removes.
LEMMA CmCopyKeeps ==
    ASSUME CmInv, NEW i \in CmAll, cmCmd \in {"mv", "cp"}, CmCompare(i) \/ CmWrite(i) \/ CmRemove(i)
    PROVE  CmInv'
<1>1. CmTypes /\ CmMoving BY DEF CmInv, CmMoving
<1>2. CASE CmCompare(i)
  <2> DEFINE place == IF cmSrc[i] = "gone" THEN "failed"
                      ELSE IF cmAt[cmPlan[i]] = i THEN (IF cmCmd = "mv" THEN "remove" ELSE "ok")
                      ELSE IF cmAt[cmPlan[i]] # -1 /\ ~cmForce THEN "failed" ELSE "write"
  <2>1. /\ cmState = "run" /\ cmItem' = [cmItem EXCEPT ![i] = place]
        /\ UNCHANGED <<cmSrc, cmAt, cmCmd, cmName, cmPlan, cmState, cmExit>>
    BY <1>2 DEF CmCompare, CmGo, CmSame, cmGiven
  <2>2. place \in CmPlaces /\ (place \in {"remove", "ok"} => cmAt[cmPlan[i]] = i) /\ (place = "ok" => cmCmd # "mv")
    BY DEF CmPlaces
  <2> HIDE DEF place
  <2> QED BY <1>1, <2>1, <2>2, CmItemKeeps
<1>3. CASE CmWrite(i)
  <2>1. /\ cmState = "run" /\ UNCHANGED <<cmSrc, cmCmd, cmName, cmPlan, cmState, cmExit>>
        /\ \/ /\ cmAt' = [cmAt EXCEPT ![cmPlan[i]] = i]
              /\ cmItem' = [cmItem EXCEPT ![i] = IF cmCmd = "mv" THEN "remove" ELSE "ok"]
           \/ cmItem' = [cmItem EXCEPT ![i] = "failed"] /\ UNCHANGED cmAt
    BY <1>3 DEF CmWrite, CmGo, CmSame, cmGiven, CmAfterFailure
  <2>2. CASE /\ cmAt' = [cmAt EXCEPT ![cmPlan[i]] = i]
             /\ cmItem' = [cmItem EXCEPT ![i] = IF cmCmd = "mv" THEN "remove" ELSE "ok"]
    <3> DEFINE place == IF cmCmd = "mv" THEN "remove" ELSE "ok"
    <3>1. place \in CmPlaces /\ (place = "ok" => cmCmd # "mv") BY DEF CmPlaces
    <3>2. cmPlan[i] \in CmTargets BY <1>1, <2>1 DEF CmInv, CmTypes, CmPhases, CmAll
    <3>3. cmAt'[cmPlan[i]] = i BY <1>1, <2>2, <3>2 DEF CmTypes
    <3>4. cmItem' = [cmItem EXCEPT ![i] = place] BY <2>2
    <3> HIDE DEF place
    <3> QED BY <1>1, <2>1, <2>2, <3>1, <3>3, <3>4, CmItemKeeps
  <2>3. CASE cmItem' = [cmItem EXCEPT ![i] = "failed"] /\ UNCHANGED cmAt
    <3>1. "failed" \in CmPlaces BY DEF CmPlaces
    <3> QED BY <1>1, <2>1, <2>3, <3>1, CmItemKeeps
  <2> QED BY <2>1, <2>2, <2>3
<1>4. CASE CmRemove(i)
  <2>1. /\ cmState = "run" /\ cmItem[i] = "remove" /\ UNCHANGED <<cmAt, cmCmd, cmName, cmPlan, cmState, cmExit>>
        /\ \/ cmSrc' = [cmSrc EXCEPT ![i] = "gone"] /\ cmItem' = [cmItem EXCEPT ![i] = "ok"]
           \/ cmItem' = [cmItem EXCEPT ![i] = "failed"] /\ UNCHANGED cmSrc
    BY <1>4 DEF CmRemove, CmGo, CmSame, cmGiven
  <2>2. "failed" \in CmPlaces /\ "ok" \in CmPlaces BY DEF CmPlaces
  <2>3. cmSrc' = [cmSrc EXCEPT ![i] = "gone"] => cmSrc'[i] = "gone" BY <1>1 DEF CmTypes
  <2>4. CASE cmSrc' = [cmSrc EXCEPT ![i] = "gone"] /\ cmItem' = [cmItem EXCEPT ![i] = "ok"]
    BY <1>1, <2>1, <2>2, <2>3, <2>4, CmItemKeeps
  <2>5. CASE cmItem' = [cmItem EXCEPT ![i] = "failed"] /\ UNCHANGED cmSrc
    BY <1>1, <2>1, <2>2, <2>5, CmItemKeeps
  <2> QED BY <2>1, <2>4, <2>5
<1> QED BY <1>2, <1>3, <1>4

\* The pool is done.
LEMMA CmEndKeeps == ASSUME CmInv, CmEnd PROVE CmInv'
<1>1. /\ cmState = "run" /\ (\A i \in CmAll : cmItem[i] \in {"ok", "failed"})
      /\ cmState' = "exit" /\ cmExit' = CmExitCode
      /\ UNCHANGED <<cmGiven, cmSrc, cmAt, cmPlan, cmItem>>
  BY DEF CmEnd, CmLeave
<1>2. CmTypes /\ CmPhases /\ CmDoneSoFar BY DEF CmInv
<1>3. UNCHANGED <<cmCmd, cmName, cmSrc, cmAt, cmPlan, cmItem>> BY <1>1 DEF cmGiven
<1>4. CmMoving
  <2>1. cmCmd # "rm" BY <1>1, <1>2 DEF CmPhases
  <2> QED BY <1>1, <1>2, <2>1 DEF CmPhases
<1>5. CmPhases' BY <1>1, <1>2, <1>3, <1>4 DEF CmPhases, CmMoving, CmAll, CmCount
<1>6. CmExitZero'
  <2> SUFFICES ASSUME cmExit' = 0, NEW i \in CmAll
               PROVE  (cmCmd = "mv" => cmSrc[i] = "gone") /\ CmHere(i)
    BY <1>3, <1>4 DEF CmExitZero, CmMoving, CmHere, CmSharesTarget, CmAll, CmCount
  <2>1. cmItem[i] = "ok" BY <1>1 DEF CmExitCode
  <2> QED BY <1>2, <1>4, <2>1 DEF CmDoneSoFar
<1> QED BY <1>1, <1>5, <1>6, CmStill

\* rm probes the next path.
LEMMA CmRmNextKeeps == ASSUME CmInv, CmRmNext PROVE CmInv'
<1> DEFINE i == Len(cmPlan) + 1
<1>1. /\ cmState = "probe" /\ cmCmd = "rm" /\ i <= CmCount
      /\ UNCHANGED <<cmGiven, cmSrc, cmAt>>
      /\ \/ cmSrc[i] = "gone" /\ cmPlan' = Append(cmPlan, CmSelf) /\ UNCHANGED <<cmState, cmExit, cmItem>>
         \/ cmState' = "exit" /\ cmExit' = 1 /\ UNCHANGED <<cmPlan, cmItem>>
         \/ cmItem' = [cmItem EXCEPT ![i] = "remove"] /\ cmState' = "run" /\ UNCHANGED <<cmPlan, cmExit>>
  BY DEF CmRmNext, CmLeave, CmGo
<1>2. CmTypes /\ CmPhases /\ CmDoneSoFar BY DEF CmInv
<1>3. UNCHANGED <<cmCmd, cmName, cmSrc, cmAt>> BY <1>1 DEF cmGiven
<1>4. CmCount' = CmCount /\ CmAll' = CmAll /\ cmExit = -1 BY <1>1, <1>2, <1>3 DEF CmCount, CmAll, CmTypes
<1>5. cmPlan \in Seq(CmTargets) /\ Len(cmPlan) \in Nat /\ CmSelf \in CmTargets BY <1>2 DEF CmTypes, CmTargets
<1>6. i \in CmAll BY <1>1, <1>2, <1>5 DEF CmAll, CmTypes
<1>7. cmPlan' = Append(cmPlan, CmSelf) => cmPlan' \in Seq(CmTargets) /\ Len(cmPlan') = i BY <1>5
<1>8. CmExitZero' BY <1>1, <1>4 DEF CmExitZero
<1>9. \A j \in 1..i : j \in 1..Len(cmPlan) \/ j = i BY <1>5
<1> HIDE DEF i
<1>10. CmTypes'
  <2>1. cmPlan' \in Seq(CmTargets) /\ Len(cmPlan') <= CmCount BY <1>1, <1>2, <1>7 DEF CmTypes
  <2>2. cmItem' \in [CmAll -> CmPlaces] BY <1>1, <1>2 DEF CmTypes, CmPlaces
  <2> QED BY <1>1, <1>2, <1>3, <1>4, <2>1, <2>2 DEF CmTypes
<1>11. cmItem' = [cmItem EXCEPT ![i] = "remove"] => cmItem'[i] = "remove" BY <1>2, <1>6 DEF CmTypes
<1>12. CmPhases' BY <1>1, <1>3, <1>4, <1>6, <1>11 DEF CmPhases, CmMoving, i
<1>13. CmDoneSoFar'
  <2>1. \A j \in 1..Len(cmPlan) : cmSrc[j] = "gone" BY <1>1, <1>2 DEF CmDoneSoFar
  <2>2. \A j \in 1..Len(cmPlan') : cmSrc[j] = "gone" BY <1>1, <1>7, <1>9, <2>1
  <2> QED BY <1>1, <1>3, <2>2 DEF CmDoneSoFar, CmMoving
<1> QED BY <1>8, <1>10, <1>12, <1>13 DEF CmInv

\* rm removes it.
LEMMA CmRmRemoveKeeps == ASSUME CmInv, CmRmRemove PROVE CmInv'
<1> DEFINE i == Len(cmPlan) + 1
<1>1. /\ cmState = "run" /\ cmCmd = "rm" /\ i <= CmCount
      /\ UNCHANGED <<cmGiven, cmAt>>
      /\ \/ /\ cmSrc' = [cmSrc EXCEPT ![i] = "gone"] /\ cmItem' = [cmItem EXCEPT ![i] = "ok"]
            /\ cmPlan' = Append(cmPlan, CmSelf) /\ cmState' = "probe" /\ UNCHANGED cmExit
         \/ cmState' = "exit" /\ cmExit' \in {1, 2} /\ UNCHANGED <<cmSrc, cmPlan, cmItem>>
  BY DEF CmRmRemove, CmLeave, CmGo
<1>2. CmTypes /\ CmPhases /\ CmDoneSoFar BY DEF CmInv
<1>3. UNCHANGED <<cmCmd, cmName, cmAt>> BY <1>1 DEF cmGiven
<1>4. CmCount' = CmCount /\ CmAll' = CmAll /\ cmExit = -1 BY <1>1, <1>2, <1>3 DEF CmCount, CmAll, CmTypes
<1>5. CASE cmState' = "exit" /\ cmExit' \in {1, 2} /\ UNCHANGED <<cmSrc, cmPlan, cmItem>>
  <2>1. CmExitZero' BY <1>5 DEF CmExitZero
  <2>2. CmPhases' BY <1>1, <1>3, <1>5 DEF CmPhases, CmMoving
  <2> QED BY <1>1, <1>5, <2>1, <2>2, CmStill
<1>6. CASE /\ cmSrc' = [cmSrc EXCEPT ![i] = "gone"] /\ cmItem' = [cmItem EXCEPT ![i] = "ok"]
           /\ cmPlan' = Append(cmPlan, CmSelf) /\ cmState' = "probe" /\ UNCHANGED cmExit
  <2>1. cmPlan \in Seq(CmTargets) /\ Len(cmPlan) \in Nat /\ CmSelf \in CmTargets BY <1>2 DEF CmTypes, CmTargets
  <2>2. i \in CmAll BY <1>1, <1>2, <2>1 DEF CmAll, CmTypes
  <2>3. cmPlan' \in Seq(CmTargets) /\ Len(cmPlan') = i BY <1>6, <2>1
  <2>4. \A j \in 1..i : j \in 1..Len(cmPlan) \/ j = i BY <2>1
  <2>5. \A j \in 1..i : j \in CmAll BY <1>1, <1>2, <2>1 DEF CmAll, CmTypes
  <2> HIDE DEF i
  <2>6. CmTypes'
    <3>1. cmSrc' \in [CmAll -> {"file", "dir", "gone"}] BY <1>2, <1>6 DEF CmTypes
    <3>2. cmItem' \in [CmAll -> CmPlaces] BY <1>2, <1>6 DEF CmTypes, CmPlaces
    <3> QED BY <1>1, <1>2, <1>3, <1>4, <1>6, <2>3, <3>1, <3>2 DEF CmTypes
  <2>7. CmPhases' BY <1>1, <1>3, <1>6 DEF CmPhases, CmMoving
  <2>8. CmDoneSoFar'
    <3>1. \A j \in 1..Len(cmPlan) : cmSrc[j] = "gone" BY <1>1, <1>2 DEF CmDoneSoFar
    <3>2. cmSrc'[i] = "gone" /\ \A j \in CmAll \ {i} : cmSrc'[j] = cmSrc[j] BY <1>2, <1>6, <2>2 DEF CmTypes
    <3>3. \A j \in 1..Len(cmPlan') : cmSrc'[j] = "gone" BY <2>3, <2>4, <2>5, <3>1, <3>2
    <3> QED BY <1>1, <1>3, <3>3 DEF CmDoneSoFar, CmMoving
  <2>9. CmExitZero' BY <1>4, <1>6 DEF CmExitZero
  <2> QED BY <2>6, <2>7, <2>8, <2>9 DEF CmInv
<1> QED BY <1>1, <1>5, <1>6

\* rm is done.
LEMMA CmRmEndKeeps == ASSUME CmInv, CmRmEnd PROVE CmInv'
<1>1. /\ cmState = "probe" /\ cmCmd = "rm" /\ Len(cmPlan) = CmCount /\ cmState' = "exit" /\ cmExit' = 0
      /\ UNCHANGED <<cmGiven, cmSrc, cmAt, cmPlan, cmItem>>
  BY DEF CmRmEnd, CmLeave
<1>2. CmDoneSoFar BY DEF CmInv
<1>3. UNCHANGED <<cmCmd, cmName>> BY <1>1 DEF cmGiven
<1>4. CmPhases' BY <1>1, <1>3 DEF CmPhases, CmMoving
<1>5. CmExitZero' BY <1>1, <1>2, <1>3 DEF CmExitZero, CmDoneSoFar, CmAll, CmCount
<1> QED BY <1>1, <1>4, <1>5, CmStill

\* Another program removes a source.
LEMMA CmVanishKeeps == ASSUME CmInv, CmVanish PROVE CmInv'
<1>1. PICK i \in CmAll : cmSrc' = [cmSrc EXCEPT ![i] = "gone"] BY DEF CmVanish
<1>2. cmState # "exit" /\ UNCHANGED <<cmCmd, cmName, cmAt, cmPlan, cmItem, cmState, cmExit>> BY DEF CmVanish, cmGiven
<1>3. CmTypes /\ CmPhases /\ CmDoneSoFar BY DEF CmInv
<1>4. CmCount' = CmCount /\ CmAll' = CmAll /\ (CmMoving' <=> CmMoving) BY <1>2 DEF CmCount, CmAll, CmMoving
<1>5. cmSrc' \in [CmAll -> {"file", "dir", "gone"}] BY <1>1, <1>3 DEF CmTypes
<1>6. CmTypes' BY <1>2, <1>3, <1>4, <1>5 DEF CmTypes
<1>7. CmPhases' BY <1>2, <1>3, <1>4 DEF CmPhases
<1>8. CmDoneSoFar'
  <2>1. \A j \in CmAll : cmSrc[j] = "gone" => cmSrc'[j] = "gone" BY <1>1, <1>3 DEF CmTypes
  <2>2. \A j \in CmAll : CmHere(j)' <=> CmHere(j) BY <1>2, <1>4 DEF CmHere, CmSharesTarget
  <2>3. 1..Len(cmPlan) \subseteq CmAll BY <1>3 DEF CmTypes, CmAll
  <2> QED BY <1>2, <1>3, <1>4, <2>1, <2>2, <2>3 DEF CmDoneSoFar
<1>9. CmExitZero' BY <1>2, <1>3 DEF CmExitZero, CmTypes
<1> QED BY <1>6, <1>7, <1>8, <1>9 DEF CmInv

\* Every step keeps the invariant.
LEMMA CmStepKeeps == CmInv /\ [CmNext]_cmVars => CmInv'
<1> SUFFICES ASSUME CmInv, [CmNext]_cmVars PROVE CmInv'
  OBVIOUS
<1>1. CASE UNCHANGED cmVars \/ CmDone
  <2>1. UNCHANGED <<cmCmd, cmForce, cmRecursive, cmName, cmSlash, cmSrc, cmAt, cmItem, cmPlan, cmState, cmExit>>
    BY <1>1 DEF cmVars, CmDone
  <2>2. CmPhases' /\ CmExitZero'
    BY <2>1 DEF CmInv, CmPhases, CmExitZero, CmMoving, CmAll, CmCount, CmSharesTarget
  <2>3. cmState' \in {"probe", "plan", "run", "exit"} /\ (cmState' # "exit" => cmExit' = -1)
    BY <2>1 DEF CmInv, CmTypes
  <2> QED BY <2>1, <2>2, <2>3, CmStill DEF cmGiven
<1>2. CASE CmProbeDst BY <1>2, CmProbeDstKeeps
<1>3. CASE CmStdin BY <1>3, CmStdinKeeps
<1>4. CASE CmPlanNext BY <1>4, CmPlanNextKeeps
<1>5. CASE CmRun BY <1>5, CmRunKeeps
<1>6. CASE CmEnd BY <1>6, CmEndKeeps
<1>7. CASE CmRmNext BY <1>7, CmRmNextKeeps
<1>8. CASE CmRmRemove BY <1>8, CmRmRemoveKeeps
<1>9. CASE CmRmEnd BY <1>9, CmRmEndKeeps
<1>10. CASE \E i \in CmAll : cmCmd \in {"mv", "cp"} /\ (CmCompare(i) \/ CmWrite(i) \/ CmRemove(i))
  BY <1>10, CmCopyKeeps
<1>11. CASE CmVanish BY <1>11, CmVanishKeeps
<1> QED BY <1>1, <1>2, <1>3, <1>4, <1>5, <1>6, <1>7, <1>8, <1>9, <1>10, <1>11 DEF CmNext

\* A source that mv removed is whole at its target, and exit code 0 of mv, cp
\* and rm means that all was done, whatever fails and whatever others remove.
THEOREM ReportsTruly == CmSpec => []CmReportsTruly
<1>1. CmSpec => []CmInv BY CmInitHolds, CmStepKeeps, PTL DEF CmSpec
<1>2. CmInv => CmReportsTruly
  BY DEF CmInv, CmReportsTruly, CmMovedIsThere, CmDoneSoFar, CmMoving, CmHere
<1> QED BY <1>1, <1>2, PTL

\* A command that has not left has no exit code, and the number of a source is
\* the content it brings.
CmWithin ==
    /\ CmCount <= CmSources /\ cmDst \in {"absent", "file", "dir"}
    /\ cmAt \in [CmTargets -> -1..CmSources]
    /\ cmExit \in {-1, 0, 1, 2} /\ (cmExit = -1 <=> cmState # "exit")

\* So the variables have their types.
LEMMA CmWithinTyped == CmInv /\ CmWithin => CmTypeOK
BY DEF CmInv, CmTypes, CmWithin, CmTypeOK

\* Nothing has been done.
LEMMA CmWithinInit == CmInit => CmWithin
<1> SUFFICES ASSUME CmInit PROVE CmWithin
  OBVIOUS
<1>1. PICK n \in 1..CmSources : cmName \in [1..n -> CmNames] BY DEF CmInit
<1>2. Len(cmName) = n /\ n <= CmSources BY <1>1, CmAssumption
<1>3. PICK old \in {-1, 0, 1}, where \in CmTargets : cmAt = [x \in CmTargets |-> IF x = where THEN old ELSE -1]
  BY DEF CmInit
<1>4. old \in -1..CmSources /\ -1 \in -1..CmSources BY <1>3, CmAssumption
<1>5. cmAt \in [CmTargets -> -1..CmSources] BY <1>3, <1>4
<1> QED BY <1>2, <1>5 DEF CmInit, CmWithin, CmCount

\* A command that leaves has a code; whatever else it does stays within.
LEMMA CmWithinKept == CmInv /\ CmWithin /\ [CmNext]_cmVars => CmWithin'
<1> SUFFICES ASSUME CmInv, CmWithin, [CmNext]_cmVars PROVE CmWithin'
  OBVIOUS
<1> DEFINE Codes == cmExit' \in {-1, 0, 1, 2} /\ (cmExit' = -1 <=> cmState' # "exit")
           Same == UNCHANGED <<cmName, cmAt, cmDst>>
<1>1. CmTypes /\ CmPhases BY DEF CmInv
<1>2. ASSUME NEW code \in {0, 1, 2}, CmLeave(code) PROVE Codes BY <1>2 DEF CmLeave
<1>3. ASSUME UNCHANGED <<cmState, cmExit>> PROVE Codes BY <1>3 DEF CmWithin
<1>4. ASSUME cmExit' = cmExit, cmState # "exit", cmState' # "exit" PROVE Codes BY <1>4 DEF CmWithin
<1>5. ASSUME Codes, Same PROVE CmWithin' BY <1>5 DEF CmWithin, CmCount
<1> HIDE DEF Codes
<1>6. CASE CmProbeDst
  <2>1. cmState = "probe" /\ UNCHANGED <<cmName, cmAt>> /\ cmDst' \in {cmDst, "dir"} BY <1>6 DEF CmProbeDst, cmGiven
  <2>2. CmLeave(1) \/ (cmState' = "plan" /\ cmExit' = cmExit) BY <1>6 DEF CmProbeDst
  <2>3. Codes BY <1>2, <1>4, <2>1, <2>2
  <2> QED BY <2>1, <2>3 DEF CmWithin, CmCount, Codes
<1>7. CASE CmStdin
  <2>1. cmName' = cmName /\ \/ cmAt' = [cmAt EXCEPT ![CmSelf] = 1] /\ cmDst' = "file"
                            \/ UNCHANGED <<cmAt, cmDst>>
    BY <1>7 DEF CmStdin, cmGiven
  <2>2. \E code \in {0, 1, 2} : CmLeave(code) BY <1>7 DEF CmStdin
  <2>3. Codes BY <1>2, <2>2
  <2>4. 1 \in -1..CmSources BY CmAssumption
  <2>5. cmAt' \in [CmTargets -> -1..CmSources] BY <2>1, <2>4 DEF CmWithin
  <2> QED BY <2>1, <2>3, <2>5 DEF CmWithin, CmCount, Codes
<1>8. CASE CmPlanNext
  <2>1. Same /\ (CmLeave(1) \/ UNCHANGED <<cmState, cmExit>>) BY <1>8 DEF CmPlanNext, cmGiven
  <2> QED BY <1>2, <1>3, <1>5, <2>1
<1>9. CASE CmRun
  <2>1. Same /\ cmExit' = cmExit /\ cmState = "plan" /\ cmState' = "run" BY <1>9 DEF CmRun, cmGiven
  <2> QED BY <1>4, <1>5, <2>1
<1>10. CASE CmEnd \/ CmRmEnd
  <2>1. Same /\ \E code \in {0, 2} : CmLeave(code) BY <1>10 DEF CmEnd, CmRmEnd, CmExitCode, cmGiven
  <2> QED BY <1>2, <1>5, <2>1
<1>11. CASE CmRmNext
  <2>1. /\ Same /\ cmState = "probe"
        /\ CmLeave(1) \/ UNCHANGED <<cmState, cmExit>> \/ (cmState' = "run" /\ cmExit' = cmExit)
    BY <1>11 DEF CmRmNext, cmGiven
  <2> QED BY <1>2, <1>3, <1>4, <1>5, <2>1
<1>12. CASE CmRmRemove
  <2>1. /\ Same /\ cmState = "run"
        /\ CmLeave(1) \/ CmLeave(2) \/ (cmState' = "probe" /\ cmExit' = cmExit)
    BY <1>12 DEF CmRmRemove, cmGiven
  <2> QED BY <1>2, <1>4, <1>5, <2>1
<1>13. ASSUME NEW i \in CmAll, CmCompare(i) \/ CmRemove(i) PROVE CmWithin'
  <2>1. Same /\ UNCHANGED <<cmState, cmExit>> BY <1>13 DEF CmCompare, CmRemove, CmSame, cmGiven
  <2> QED BY <1>3, <1>5, <2>1
<1>14. ASSUME NEW i \in CmAll, CmWrite(i) PROVE CmWithin'
  <2>1. UNCHANGED <<cmName, cmDst, cmState, cmExit>> BY <1>14 DEF CmWrite, CmSame, cmGiven
  <2>2. cmAt' = cmAt \/ cmAt' = [cmAt EXCEPT ![cmPlan[i]] = i] BY <1>14 DEF CmWrite
  <2>3. i \in -1..CmSources
    <3>1. CmCount \in Nat /\ CmCount <= CmSources BY <1>1 DEF CmTypes, CmWithin
    <3> QED BY <3>1, CmAssumption DEF CmAll
  <2>4. cmAt' \in [CmTargets -> -1..CmSources] BY <2>2, <2>3 DEF CmWithin
  <2>5. Codes BY <1>3, <2>1
  <2> QED BY <2>1, <2>4, <2>5 DEF CmWithin, CmCount, Codes
<1>15. CASE CmVanish \/ CmDone \/ UNCHANGED cmVars
  <2>1. Same /\ UNCHANGED <<cmState, cmExit>> BY <1>15 DEF CmVanish, CmDone, cmVars, cmGiven
  <2> QED BY <1>3, <1>5, <2>1
<1> QED BY <1>6, <1>7, <1>8, <1>9, <1>10, <1>11, <1>12, <1>13, <1>14, <1>15 DEF CmNext
=============================================================================
