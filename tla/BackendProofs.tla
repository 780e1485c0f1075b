---------------------------- MODULE BackendProofs ----------------------------
(***************************************************************************)
(* Proofs about the uploads of the S3, Azure and GCS backends, for any     *)
(* number of uploads, workers, slots and parts: BackendUploads implements  *)
(* AtomicUpload, and leaves on the server what its callers believe.        *)
(*                                                                         *)
(* Every step of a backend is a step of upload_parts or leaves it alone,   *)
(* so all that UploadPartsProofs shows holds here; what the backends add   *)
(* to it are BkInv and one invariant for each of them.                     *)
(***************************************************************************)
EXTENDS BackendUploads, UploadPartsProofs
-----------------------------------------------------------------------------
(* upload_parts inside the backends.                                       *)

\* A step of one upload in upload_parts: it declares nothing and changes the
\* place of no other upload.
LEMMA PoolMoves ==
    ASSUME TypeOK, NEW f \in Files,
           EnterScope(f) \/ JobStep(f) \/ Cancel(f) \/ \E w \in Workers : WorkerStep(f, w) \/ ThreadStep(f, w)
    PROVE  [Next \/ Idle]_vars /\ UNCHANGED source /\ \A g \in Files \ {f} : job'[g] = job[g]
<1>1. Next BY DEF Next
<1>2. CASE EnterScope(f) BY <1>1, <1>2 DEF EnterScope, TypeOK
<1>3. CASE JobStep(f) BY <1>1, <1>3 DEF JobStep, SpawnWorkers, Spawn, Settle, Return, TypeOK
<1>4. CASE Cancel(f)
  BY <1>1, <1>4 DEF Cancel, CancelInScope, CancelGathered, CancelResuming, TypeOK
<1>5. ASSUME NEW w \in Workers, WorkerStep(f, w) PROVE UNCHANGED source /\ job' = job
  BY <1>5 DEF WorkerStep, AcquireSlot, StartRead, UploadDone, UploadFail
<1>6. ASSUME NEW w \in Workers, ThreadStep(f, w) PROVE UNCHANGED source /\ job' = job
  BY <1>6 DEF ThreadStep, ReadChunk, ReadEnd, ReadJoined, ReadAbandoned
<1> QED BY <1>1, <1>2, <1>3, <1>4, <1>5, <1>6

\* A worker or a thread leaves the place of the coroutines alone.
LEMMA WorkerMoves ==
    ASSUME NEW f \in Files, NEW w \in Workers, WorkerStep(f, w) \/ ThreadStep(f, w)
    PROVE  job' = job /\ UNCHANGED source
BY DEF WorkerStep, AcquireSlot, StartRead, UploadDone, UploadFail,
       ThreadStep, ReadChunk, ReadEnd, ReadJoined, ReadAbandoned

\* Every step of a backend is one of upload_parts, or leaves it alone.
LEMMA BackendDrives == [UploadsNext \/ UploadsIdle]_allvars => [Next \/ Idle]_vars
<1> SUFFICES ASSUME [UploadsNext \/ UploadsIdle]_allvars PROVE [Next \/ Idle]_vars
  OBVIOUS
<1>1. CASE UNCHANGED allvars BY <1>1 DEF allvars
<1>2. CASE UploadsIdle BY <1>2 DEF UploadsIdle, allvars
<1>3. CASE S3Next
  <2> SUFFICES ASSUME NEW f \in Files,
                      \/ S3Pool(f) \/ RequestCreate(f) \/ CreateAnswered(f) \/ Created(f)
                      \/ CreationSettled(f) \/ PartsUploaded(f) \/ ServerCompletes(f)
                      \/ CompleteAnswered(f) \/ AbortAnswered(f)
                      \/ CancelCreate(f) \/ CancelComplete(f) \/ CancelCleanup(f)
                      \/ \E w \in Workers : S3Thread(f, w)
               PROVE  Next \/ UNCHANGED vars
    BY <1>3 DEF S3Next
  <2>1. CASE S3Pool(f) \/ Created(f) \/ \E w \in Workers : S3Thread(f, w)
    BY <2>1 DEF S3Pool, Created, S3Thread, Next
  <2>2. CASE ~(S3Pool(f) \/ Created(f) \/ \E w \in Workers : S3Thread(f, w))
    BY <2>2 DEF RequestCreate, CreateAnswered, CreationSettled, PartsUploaded, ServerCompletes, CompleteAnswered,
                AbortAnswered, CancelCreate, CancelComplete, CancelCleanup
  <2> QED BY <2>1, <2>2
<1>4. CASE AzNext
  <2> SUFFICES ASSUME NEW f \in Files,
                      \/ AzPool(f) \/ BlockUpload(f) \/ PartsStaged(f) \/ ServerCommits(f) \/ CommitAnswered(f)
                      \/ \E w \in Workers : ServerStages(f, w) \/ PutBlockAnswered(f, w) \/ AzThread(f, w)
               PROVE  Next \/ UNCHANGED vars
    BY <1>4 DEF AzNext
  <2>1. CASE AzPool(f) \/ BlockUpload(f) BY <2>1 DEF AzPool, BlockUpload, Next, WorkerStep
  <2>2. CASE PartsStaged(f) \/ ServerCommits(f) \/ CommitAnswered(f)
    BY <2>2 DEF PartsStaged, ServerCommits, CommitAnswered
  <2>3. ASSUME NEW w \in Workers, ServerStages(f, w) \/ PutBlockAnswered(f, w) \/ AzThread(f, w)
        PROVE  Next \/ UNCHANGED vars
    BY <2>3 DEF ServerStages, PutBlockAnswered, AzThread, Next, WorkerStep
  <2> QED BY <2>1, <2>2, <2>3
<1>5. CASE GcsNext
  <2> SUFFICES ASSUME NEW f \in Files,
                      \/ GcsPool(f) \/ StartSession(f) \/ SessionStarted(f) \/ PartsSent(f) \/ CancelChunk(f)
                      \/ \E chunk \in Sent(f) \cup stray[f] : ServerPersists(f, chunk)
                      \/ \E w \in Workers : ChunkAnswered(f, w) \/ GcsThread(f, w)
               PROVE  Next \/ UNCHANGED vars
    BY <1>5 DEF GcsNext
  <2>1. CASE GcsPool(f) BY <2>1 DEF GcsPool, Next, JobStep, SpawnWorkers, WorkerStep
  <2>2. CASE StartSession(f) \/ SessionStarted(f) \/ PartsSent(f) \/ CancelChunk(f)
    BY <2>2 DEF StartSession, SessionStarted, PartsSent, CancelChunk, Next
  <2>3. ASSUME NEW chunk, ServerPersists(f, chunk) PROVE UNCHANGED vars BY <2>3 DEF ServerPersists
  <2>4. ASSUME NEW w \in Workers, ChunkAnswered(f, w) \/ GcsThread(f, w) PROVE Next
    BY <2>4 DEF ChunkAnswered, GcsThread, Next, WorkerStep
  <2> QED BY <2>1, <2>2, <2>3, <2>4
<1> QED BY <1>1, <1>2, <1>3, <1>4, <1>5 DEF UploadsNext

\* So the backends' uploads behave as upload_parts does, with all it promises.
THEOREM UploadsAreParts == UploadsSpec => Spec
<1>1. UploadsInit => Init BY DEF UploadsInit, CloudInit
<1> QED BY <1>1, BackendDrives, PTL DEF UploadsSpec, Spec

\* What upload_parts gives its callers.
PartsInv == IndInv /\ CompleteWhenOk

\* It gives it to the backends too.
LEMMA PartsAlways == UploadsSpec => []PartsInv
<1> QED BY UploadsAreParts, Invariance, Complete, PTL DEF PartsInv
-----------------------------------------------------------------------------
(* What the three callers of upload_parts have in common.                  *)

Places == {"idle", "create", "await creation", "start", "upload", "complete", "commit", "abort"} \cup CallerOver

\* Files have the size that was declared; the object is one upload's whole file,
\* or what was there before; a call that returned normally has stored its file,
\* or was misled.
CloudTypes ==
    /\ parts = declared /\ caller \in [Files -> Places] /\ stored \subseteq Files
    /\ backend \in {"s3", "azure", "gcs"}
    /\ object = Old \/ \E g \in Files : object = WholeFile(g)
    /\ \A f \in Files : caller[f] = "ok" => f \in stored \cup misled

\* upload_parts has not begun before its call, and is over after it.
CallFollows(f) ==
    /\ caller[f] \in {"idle", "create", "await creation", "start"} => job[f] = "idle"
    /\ caller[f] \in {"abort", "complete", "commit"} \cup CallerOver => job[f] \notin Running

CloudInv == CloudTypes /\ \A f \in Files : CallFollows(f)

\* What a step does to the caller and the object: nothing, the call of f moves
\* on, or the server stores the whole file of f.
Stays == UNCHANGED <<caller, object, stored>>
Moves(f) ==
    /\ caller[f] \notin CallerOver
    /\ \E p \in Places : Goto(f, p) /\ (p = "ok" => f \in stored \cup misled)
    /\ UNCHANGED <<object, stored>>
Stores(f) == f \notin stored /\ Store(f, WholeFile(f)) /\ UNCHANGED caller

\* A step of one upload, as the others see it.
StepOf(f) ==
    /\ UNCHANGED <<source, backend>>
    /\ Stays \/ Moves(f) \/ Stores(f)
    /\ CallFollows(f)'
    /\ \A g \in Files \ {f} : job'[g] = job[g]

\* Nobody is misled once the call is over.
Misleads ==
    /\ misled \subseteq misled'
    /\ \A g \in Files : caller[g] \in CallerOver => (g \in misled' <=> g \in misled)

\* Whole files of uploads are sequences of their parts, never empty, all different.
LEMMA WholeFiles ==
    ASSUME TypeOK, parts = declared, NEW f \in Files
    PROVE  /\ parts[f] \in Parts /\ parts[f] \in Nat /\ WholeFile(f) # Old
           /\ WholeFile(f) \in [1..parts[f] -> {f} \X Nat]
           /\ \A g \in Files : WholeFile(g) = WholeFile(f) => g = f
<1>1. \A g \in Files : parts[g] \in Parts /\ parts[g] \in Nat /\ 1 \in 1..parts[g]
  BY SizeAssumption DEF TypeOK, Parts
<1>2. \A g \in Files : 1 \in DOMAIN WholeFile(g) /\ WholeFile(g)[1] = <<g, 1>> BY <1>1 DEF WholeFile
<1>3. WholeFile(f) # <<>> BY <1>2
<1>4. \A g \in Files : WholeFile(g) = WholeFile(f) => g = f
  <2> SUFFICES ASSUME NEW g \in Files, WholeFile(g) = WholeFile(f) PROVE g = f
    OBVIOUS
  <2>1. <<g, 1>> = <<f, 1>> BY <1>2
  <2> QED BY <2>1
<1>5. WholeFile(f) \in [1..parts[f] -> {f} \X Nat] BY <1>1 DEF WholeFile
<1> QED BY <1>1, <1>3, <1>4, <1>5 DEF Old

\* Such a step keeps what the callers have in common.
LEMMA StepKeepsCloud ==
    ASSUME TypeOK, CloudInv, NEW f \in Files, StepOf(f), Misleads
    PROVE  CloudInv'
<1>1. CloudTypes /\ \A g \in Files : CallFollows(g) BY DEF CloudInv
<1>2. UNCHANGED <<parts, declared, backend>> BY DEF StepOf, source
<1>3. \A g \in Files : WholeFile(g)' = WholeFile(g) BY <1>2 DEF WholeFile
<1>4. CloudTypes'
  <2> misled \subseteq misled' BY DEF Misleads
  <2>1. CASE Stays BY <1>1, <1>2, <1>3, <2>1 DEF Stays, CloudTypes
  <2>2. CASE Moves(f) BY <1>1, <1>2, <1>3, <2>2 DEF Moves, Goto, CloudTypes
  <2>3. CASE Stores(f) BY <1>1, <1>2, <1>3, <2>3 DEF Stores, Store, CloudTypes
  <2> QED BY <2>1, <2>2, <2>3 DEF StepOf
<1>5. \A g \in Files \ {f} : caller'[g] = caller[g] /\ job'[g] = job[g]
  BY <1>1 DEF StepOf, Stays, Moves, Goto, Stores, CloudTypes
<1>6. \A g \in Files : CallFollows(g)' BY <1>1, <1>5 DEF StepOf, CallFollows
<1> QED BY <1>4, <1>6 DEF CloudInv

\* Who the object belongs to.
OwnerMatches ==
    /\ object = Old => Owner = "before"
    /\ \A f \in Files : object = WholeFile(f) => Owner = f

\* The owner is the upload whose whole file the object is.
LEMMA OwnerIs == TypeOK /\ parts = declared => OwnerMatches
<1> SUFFICES ASSUME TypeOK, parts = declared PROVE OwnerMatches
  OBVIOUS
<1>1. object = Old => Owner = "before"
  <2>1. object = Old => ~\E f \in Files : object = WholeFile(f) BY WholeFiles
  <2> QED BY <2>1 DEF Owner
<1>2. ASSUME NEW f \in Files, object = WholeFile(f) PROVE Owner = f
  <2>1. object # Old BY <1>2, WholeFiles
  <2>2. \A g \in Files : object = WholeFile(g) => g = f BY <1>2, WholeFiles
  <2>3. (CHOOSE g \in Files : object = WholeFile(g)) = f BY <1>2, <2>2
  <2> QED BY <1>2, <2>1, <2>3 DEF Owner
<1> QED BY <1>1, <1>2 DEF OwnerMatches

\* A step of one upload is a step of the abstract uploads, or none.
LEMMA StepImplements ==
    ASSUME TypeOK, TypeOK', CloudInv, NEW f \in Files, StepOf(f), Misleads
    PROVE  [Abstract!Next]_(Abstract!vars)
<1>1. CloudTypes BY DEF CloudInv
<1>2. UNCHANGED <<parts, declared>> BY DEF StepOf, source
<1>3. \A g \in Files : WholeFile(g)' = WholeFile(g) BY <1>2 DEF WholeFile
<1>4. caller[f] \in Places BY <1>1 DEF CloudTypes
<1>5. OwnerMatches /\ OwnerMatches'
  <2>1. (TypeOK /\ parts = declared => OwnerMatches)' BY OwnerIs, PTL
  <2> QED BY <1>1, <1>2, <2>1, OwnerIs DEF CloudTypes
<1>6. object' = object => Owner' = Owner BY <1>1, <1>3, <1>5 DEF CloudTypes, OwnerMatches, Old
<1> \A g \in Files : caller[g] = "ok" => (g \in misled' <=> g \in misled) BY DEF Misleads, CallerOver
<1>7. CASE Stays
  <2>1. \A g \in Files : CallOf(g)' = CallOf(g) BY <1>7 DEF Stays, CallOf
  <2> QED BY <1>6, <1>7, <2>1 DEF Stays, Abstract!vars
<1>8. CASE Moves(f)
  <2> DEFINE call == [g \in Files |-> CallOf(g)]
  <2>1. PICK p \in Places : caller' = [caller EXCEPT ![f] = p] /\ (p = "ok" => f \in stored \cup misled)
    BY <1>8 DEF Moves, Goto
  <2>2. UNCHANGED <<object, stored>> /\ Owner' = Owner BY <1>6, <1>8 DEF Moves
  <2>3. call[f] = "running" BY <1>4, <1>8 DEF Moves, CallOf, CallerOver
  <2>4. \A g \in Files \ {f} : CallOf(g)' = CallOf(g) BY <1>1, <2>1 DEF CloudTypes, CallOf
  <2>5. CallOf(f)' = IF p = "ok" /\ f \notin misled' THEN "ok"
                     ELSE IF p \in CallerOver THEN "raised" ELSE "running"
    BY <1>1, <2>1 DEF CloudTypes, CallOf, CallerOver
  <2>6. call' = [call EXCEPT ![f] = CallOf(f)'] BY <2>4
  <2>7. CASE p = "ok" /\ f \notin misled'
    <3>1. call' = [call EXCEPT ![f] = "ok"] BY <2>5, <2>6, <2>7
    <3>2. f \in stored BY <2>1, <2>7 DEF Misleads
    <3>3. Abstract!ReturnOk(f) BY <2>2, <2>3, <3>1, <3>2 DEF Abstract!ReturnOk
    <3> QED BY <3>3 DEF Abstract!Next
  <2>8. CASE p \in CallerOver /\ ~(p = "ok" /\ f \notin misled')
    <3>1. call' = [call EXCEPT ![f] = "raised"] BY <2>5, <2>6, <2>8
    <3>2. Abstract!Raise(f) BY <2>2, <2>3, <3>1 DEF Abstract!Raise
    <3> QED BY <3>2 DEF Abstract!Next
  <2>9. CASE p \notin CallerOver
    <3>1. call' = call BY <2>3, <2>5, <2>6, <2>9 DEF CallerOver
    <3> QED BY <2>2, <3>1 DEF Abstract!vars
  <2> QED BY <2>7, <2>8, <2>9 DEF CallerOver
<1>9. CASE Stores(f)
  <2>1. object' = WholeFile(f) /\ stored' = stored \cup {f} /\ caller' = caller /\ f \notin stored
    BY <1>9 DEF Stores, Store
  <2>2. Owner' = f BY <1>3, <1>5, <2>1 DEF OwnerMatches
  <2>3. \A g \in Files : CallOf(g)' = CallOf(g) BY <2>1 DEF CallOf
  <2>4. CallOf(f) \in {"running", "raised"} BY <1>1, <2>1 DEF CloudTypes, CallOf
  <2>5. Abstract!Commit(f) BY <2>1, <2>2, <2>3, <2>4 DEF Abstract!Commit
  <2> QED BY <2>5 DEF Abstract!Next
<1> QED BY <1>7, <1>8, <1>9 DEF StepOf
-----------------------------------------------------------------------------
(* Results in source order.                                                *)

PartOf(i) == [number |-> i, content |-> i]

\* k numbered parts are k.
LEMMA PartsCounted ==
    ASSUME NEW k \in Nat
    PROVE  LET first == {PartOf(i) : i \in 1..k}
           IN  IsFiniteSet(first) /\ Cardinality(first) = k
<1> DEFINE first == {PartOf(i) : i \in 1..k}
           nth == [i \in 1..k |-> PartOf(i)]
<1>1. nth \in [1..k -> first] /\ \A r \in first : \E i \in 1..k : nth[i] = r OBVIOUS
<1>2. \A i, j \in 1..k : nth[i] = nth[j] => i = j BY DEF PartOf
<1>3. nth \in Bijection(1..k, first) BY <1>1, <1>2 DEF Bijection, Injection, Surjection, IsInjective
<1>4. IsFiniteSet(1..k) /\ Cardinality(1..k) = k BY FS_Interval
<1> HIDE DEF first, nth
<1>5. ExistsBijection(1..k, first) BY <1>3 DEF ExistsBijection
<1>6. IsFiniteSet(first) /\ Cardinality(first) = k BY <1>4, <1>5, FS_Bijection
<1> QED BY <1>6 DEF first

\* What upload_parts returns normally is every part under its number, so the
\* list sorted by number is the whole file.
LEMMA ResultsInOrder ==
    ASSUME PartsInv, parts = declared, NEW f \in Files, job[f] = "ok"
    PROVE  /\ results[f] = {PartOf(i) : i \in 1..parts[f]} /\ Cardinality(results[f]) = parts[f]
           /\ InOrder(f) = WholeFile(f)
<1>1. parts[f] \in Nat BY WholeFiles DEF PartsInv, IndInv
<1>2. \A r \in results[f] : r = PartOf(r.number)
  <2> SUFFICES ASSUME NEW r \in results[f] PROVE r = PartOf(r.number)
    OBVIOUS
  <2>1. r \in [number : Parts, content : Parts] BY DEF PartsInv, IndInv, TypeOK
  <2>2. r.number = r.content BY DEF PartsInv, IndInv, FileInv, PartsNumbered
  <2> QED BY <2>1, <2>2 DEF PartOf
<1>3. {r.number : r \in results[f]} = 1..parts[f] BY DEF PartsInv, CompleteWhenOk
<1>4. results[f] = {PartOf(i) : i \in 1..parts[f]}
  <2>1. ASSUME NEW r \in results[f] PROVE r \in {PartOf(i) : i \in 1..parts[f]}
    <3>1. r.number \in 1..parts[f] BY <1>3
    <3> QED BY <1>2, <3>1
  <2>2. ASSUME NEW i \in 1..parts[f] PROVE PartOf(i) \in results[f]
    <3>1. PICK r \in results[f] : r.number = i BY <1>3
    <3> QED BY <1>2, <3>1
  <2> QED BY <2>1, <2>2
<1>5. Cardinality(results[f]) = parts[f] BY <1>1, <1>4, PartsCounted
<1> DEFINE nth(i) == CHOOSE r \in results[f] : Cardinality({x \in results[f] : x.number < r.number}) = i - 1
<1>6. ASSUME NEW i \in 1..parts[f] PROVE nth(i) = PartOf(i)
  <2>1. \A k \in 1..parts[f] : Cardinality({x \in results[f] : x.number < k}) = k - 1
    <3> SUFFICES ASSUME NEW k \in 1..parts[f]
                 PROVE  {x \in results[f] : x.number < k} = {PartOf(j) : j \in 1..(k - 1)} /\ k - 1 \in Nat
      BY PartsCounted
    <3>1. \A j \in 1..parts[f] : PartOf(j).number = j BY DEF PartOf
    <3>2. \A j \in 1..(k - 1) : j \in 1..parts[f] /\ j < k BY <1>1
    <3>3. \A j \in 1..parts[f] : j < k => j \in 1..(k - 1) BY <1>1
    <3> QED BY <1>1, <1>4, <3>1, <3>2, <3>3
  <2>2. \A r \in results[f] : r.number \in 1..parts[f] /\ r = PartOf(r.number) BY <1>2, <1>3
  <2>3. \A r \in results[f] : Cardinality({x \in results[f] : x.number < r.number}) = r.number - 1 BY <2>1, <2>2
  <2>4. PartOf(i) \in results[f] /\ PartOf(i).number = i BY <1>4 DEF PartOf
  <2>5. \A r \in results[f] : r.number - 1 = i - 1 => r = PartOf(i) BY <1>1, <2>2
  <2> QED BY <2>3, <2>4, <2>5
<1>7. InOrder(f) = WholeFile(f)
  <2>1. InOrder(f) = [i \in 1..Cardinality(results[f]) |-> <<f, nth(i).content>>] BY DEF InOrder
  <2> HIDE DEF nth
  <2>2. \A i \in 1..parts[f] : nth(i).content = i BY <1>6 DEF PartOf
  <2> QED BY <1>5, <2>1, <2>2 DEF WholeFile
<1> QED BY <1>4, <1>5, <1>7

-----------------------------------------------------------------------------
(* S3.                                                                     *)

S3Types ==
    /\ creation \in [Files -> {"none", "pending", "created", "failed", "cancelled"}]
    /\ server \in [Files -> {"none", "open", "completed", "aborted"}]
    /\ pending \in [Files -> {"none", "error", "cancelled"}] /\ cut \in [Files -> BOOLEAN]

\* An upload is open on the server only while somebody is left to close it,
\* unless the cleanup could not do its work; it is completed when it has been stored.
S3Call(f) ==
    /\ caller[f] = "idle" => creation[f] = "none" /\ server[f] = "none"
    /\ creation[f] = "pending" => caller[f] \in {"create", "await creation"} /\ server[f] = "none"
    /\ server[f] = "completed" <=> f \in stored
    /\ creation[f] \in {"failed", "cancelled"} /\ server[f] = "open" => cut[f]
    /\ caller[f] \in CallerOver /\ server[f] = "open" => cut[f]
    /\ caller[f] = "abort" => pending[f] \in {"error", "cancelled"}

S3Inv ==
    /\ S3Types
    /\ backend = "s3" => \A f \in Files : S3Call(f)
    /\ backend # "s3" => \A f \in Files : server[f] = "none"

\* What a step of one upload leaves alone on S3.
S3Frame(f) ==
    \A g \in Files \ {f} : /\ caller'[g] = caller[g] /\ creation'[g] = creation[g] /\ server'[g] = server[g]
                           /\ pending'[g] = pending[g] /\ cut'[g] = cut[g] /\ (g \in stored' <=> g \in stored)

\* So on S3 it is enough to look at the upload that takes the step.
LEMMA S3OneMoves ==
    ASSUME S3Inv, backend = "s3", backend' = backend, NEW f \in Files, S3Frame(f), S3Types', S3Call(f)'
    PROVE  S3Inv'
<1>1. ASSUME NEW g \in Files PROVE S3Call(g)'
  <2>1. CASE g = f BY <2>1
  <2>2. CASE g # f
    <3>1. S3Call(g) BY DEF S3Inv
    <3>2. /\ caller'[g] = caller[g] /\ creation'[g] = creation[g] /\ server'[g] = server[g]
          /\ pending'[g] = pending[g] /\ cut'[g] = cut[g] /\ (g \in stored' <=> g \in stored)
      BY <2>2 DEF S3Frame
    <3> QED BY <3>1, <3>2, Zenon DEF S3Call
  <2> QED BY <2>1, <2>2
<1> QED BY <1>1 DEF S3Inv

\* upload_parts at work, or a thread of it, changes nothing here.
LEMMA S3PoolSteps ==
    ASSUME PartsInv, CloudInv, S3Inv, backend = "s3", backend' = backend, NEW f \in Files,
           S3Pool(f) \/ \E w \in Workers : S3Thread(f, w)
    PROVE  StepOf(f) /\ S3Inv'
<1>1. TypeOK /\ CallFollows(f) BY DEF PartsInv, IndInv, CloudInv
<1>2. UNCHANGED <<caller, object, stored, creation, server, pending, cut>>
  BY DEF S3Pool, S3Thread, cloudvars, s3vars
<1>3. CASE S3Pool(f)
  <2>1. UNCHANGED source /\ (\A g \in Files \ {f} : job'[g] = job[g]) /\ caller[f] = "upload"
    BY <1>1, <1>3, PoolMoves DEF S3Pool
  <2>2. CallFollows(f)' BY <1>2, <2>1 DEF CallFollows, CallerOver
  <2> QED BY <1>2, <2>1, <2>2 DEF StepOf, Stays, S3Inv, S3Types, S3Call
<1>4. CASE \E w \in Workers : S3Thread(f, w)
  <2>1. UNCHANGED <<source, job>> BY <1>4, WorkerMoves DEF S3Thread
  <2> QED BY <1>1, <1>2, <2>1 DEF StepOf, Stays, CallFollows, S3Inv, S3Types, S3Call
<1> QED BY <1>3, <1>4

\* The multipart upload is asked for.
LEMMA RequestCreateSteps ==
    ASSUME PartsInv, CloudInv, S3Inv, backend = "s3", backend' = backend, NEW f \in Files, RequestCreate(f)
    PROVE  StepOf(f) /\ S3Inv'
<1>1. /\ caller[f] = "idle" /\ caller' = [caller EXCEPT ![f] = "create"]
      /\ creation' = [creation EXCEPT ![f] = "pending"]
      /\ UNCHANGED <<source, job, object, stored, server, pending, cut>>
  BY DEF RequestCreate, Goto, vars, s3vars
<1>2. CloudTypes /\ CallFollows(f) /\ S3Types /\ S3Call(f) /\ TypeOK BY DEF CloudInv, S3Inv, PartsInv, IndInv
<1>4. StepOf(f)
  <2>1. Moves(f)
    <3> DEFINE p == "create"
    <3>1. Goto(f, p) /\ p \in Places /\ p # "ok" BY <1>1 DEF Goto, Places, CallerOver
    <3> HIDE DEF p
    <3>2. caller[f] \notin CallerOver BY <1>1 DEF CallerOver
    <3> QED BY <1>1, <3>1, <3>2 DEF Moves
  <2>2. CallFollows(f)' BY <1>1, <1>2 DEF CallFollows, CloudTypes, CallerOver, Returned, Running, S3Types
  <2> QED BY <1>1, <2>1, <2>2 DEF StepOf
<1>5. S3Types' BY <1>1, <1>2 DEF S3Types
<1>6. S3Frame(f) BY <1>1, <1>2 DEF S3Frame, S3Types, CloudTypes
<1>7. S3Call(f)'
  <2> USE <1>1, <1>2 DEF S3Types, CloudTypes, CallerOver
  <2>1. caller'[f] = "idle" => creation'[f] = "none" /\ server'[f] = "none" BY DEF S3Call
  <2>2. creation'[f] = "pending" => caller'[f] \in {"create", "await creation"} /\ server'[f] = "none" BY DEF S3Call
  <2>3. server'[f] = "completed" <=> f \in stored' BY DEF S3Call
  <2>4. creation'[f] \in {"failed", "cancelled"} /\ server'[f] = "open" => cut'[f] BY DEF S3Call
  <2>5. caller'[f] \in CallerOver /\ server'[f] = "open" => cut'[f] BY DEF S3Call
  <2>6. caller'[f] = "abort" => pending'[f] \in {"error", "cancelled"} BY DEF S3Call
  <2> QED BY <2>1, <2>2, <2>3, <2>4, <2>5, <2>6, Zenon DEF S3Call
<1> QED BY <1>4, <1>5, <1>6, <1>7, S3OneMoves

\* The server creates it, or does not; the answer may be lost.
LEMMA CreateAnsweredSteps ==
    ASSUME PartsInv, CloudInv, S3Inv, backend = "s3", backend' = backend, NEW f \in Files, CreateAnswered(f)
    PROVE  StepOf(f) /\ S3Inv'
<1>1. /\ creation[f] = "pending" /\ UNCHANGED <<source, job, caller, object, stored, pending>>
      /\ \/ creation' = [creation EXCEPT ![f] = "created"] /\ server' = [server EXCEPT ![f] = "open"] /\ cut' = cut
         \/ creation' = [creation EXCEPT ![f] = "failed"] /\ server' = server /\ cut' = cut
         \/ /\ creation' = [creation EXCEPT ![f] = "failed"] /\ server' = [server EXCEPT ![f] = "open"]
            /\ cut' = [cut EXCEPT ![f] = TRUE]
  BY DEF CreateAnswered, Goto, vars, s3vars, cloudvars
<1>2. CloudTypes /\ CallFollows(f) /\ S3Types /\ S3Call(f) /\ TypeOK BY DEF CloudInv, S3Inv, PartsInv, IndInv
<1>4. StepOf(f)
  <2>1. Stays BY <1>1 DEF Stays
  <2>2. CallFollows(f)' BY <1>1, <1>2 DEF CallFollows, CloudTypes, CallerOver, Returned, Running, S3Types
  <2> QED BY <1>1, <2>1, <2>2 DEF StepOf
<1>5. S3Types' BY <1>1, <1>2 DEF S3Types
<1>6. S3Frame(f) BY <1>1, <1>2 DEF S3Frame, S3Types, CloudTypes
<1>7. S3Call(f)'
  <2> USE <1>1, <1>2 DEF S3Types, CloudTypes, CallerOver
  <2>1. caller'[f] = "idle" => creation'[f] = "none" /\ server'[f] = "none" BY DEF S3Call
  <2>2. creation'[f] = "pending" => caller'[f] \in {"create", "await creation"} /\ server'[f] = "none" BY DEF S3Call
  <2>3. server'[f] = "completed" <=> f \in stored' BY DEF S3Call
  <2>4. creation'[f] \in {"failed", "cancelled"} /\ server'[f] = "open" => cut'[f] BY DEF S3Call
  <2>5. caller'[f] \in CallerOver /\ server'[f] = "open" => cut'[f] BY DEF S3Call
  <2>6. caller'[f] = "abort" => pending'[f] \in {"error", "cancelled"} BY DEF S3Call
  <2> QED BY <2>1, <2>2, <2>3, <2>4, <2>5, <2>6, Zenon DEF S3Call
<1> QED BY <1>4, <1>5, <1>6, <1>7, S3OneMoves

\* The except block, or the caller itself, learns how the creation ended.
LEMMA CreationSettledSteps ==
    ASSUME PartsInv, CloudInv, S3Inv, backend = "s3", backend' = backend, NEW f \in Files, CreationSettled(f)
    PROVE  StepOf(f) /\ S3Inv'
<1>1. /\ \/ caller[f] = "create" /\ creation[f] = "failed"
         \/ caller[f] = "await creation" /\ creation[f] \in {"created", "failed", "cancelled"}
      /\ pending' = [pending EXCEPT ![f] = InHand(f)]
      /\ caller' = [caller EXCEPT ![f] = IF creation[f] = "created" THEN "abort" ELSE InHand(f)]
      /\ UNCHANGED <<source, job, object, stored, creation, server, cut>>
  BY DEF CreationSettled, Goto, vars, s3vars
<1>2. CloudTypes /\ CallFollows(f) /\ S3Types /\ S3Call(f) /\ TypeOK BY DEF CloudInv, S3Inv, PartsInv, IndInv
<1>3. InHand(f) \in {"error", "cancelled"} BY <1>2 DEF S3Types, InHand
<1>4. StepOf(f)
  <2>1. Moves(f)
    <3> DEFINE p == IF creation[f] = "created" THEN "abort" ELSE InHand(f)
    <3>1. Goto(f, p) /\ p \in Places /\ p # "ok" BY <1>1, <1>3 DEF Goto, Places, CallerOver
    <3> HIDE DEF p
    <3>2. caller[f] \notin CallerOver BY <1>1 DEF CallerOver
    <3> QED BY <1>1, <3>1, <3>2 DEF Moves
  <2>2. CallFollows(f)' BY <1>1, <1>2, <1>3 DEF CallFollows, CloudTypes, CallerOver, Returned, Running, S3Types
  <2> QED BY <1>1, <2>1, <2>2 DEF StepOf
<1>5. S3Types' BY <1>1, <1>2, <1>3 DEF S3Types
<1>6. S3Frame(f) BY <1>1, <1>2 DEF S3Frame, S3Types, CloudTypes
<1>7. S3Call(f)'
  <2> USE <1>1, <1>2, <1>3 DEF S3Types, CloudTypes, CallerOver
  <2>1. caller'[f] = "idle" => creation'[f] = "none" /\ server'[f] = "none" BY DEF S3Call
  <2>2. creation'[f] = "pending" => caller'[f] \in {"create", "await creation"} /\ server'[f] = "none" BY DEF S3Call
  <2>3. server'[f] = "completed" <=> f \in stored' BY DEF S3Call
  <2>4. creation'[f] \in {"failed", "cancelled"} /\ server'[f] = "open" => cut'[f] BY DEF S3Call
  <2>5. caller'[f] \in CallerOver /\ server'[f] = "open" => cut'[f] BY DEF S3Call
  <2>6. caller'[f] = "abort" => pending'[f] \in {"error", "cancelled"} BY DEF S3Call
  <2> QED BY <2>1, <2>2, <2>3, <2>4, <2>5, <2>6, Zenon DEF S3Call
<1> QED BY <1>4, <1>5, <1>6, <1>7, S3OneMoves

\* upload_parts is over.
LEMMA PartsUploadedSteps ==
    ASSUME PartsInv, CloudInv, S3Inv, backend = "s3", backend' = backend, NEW f \in Files, PartsUploaded(f)
    PROVE  StepOf(f) /\ S3Inv'
<1>1. /\ caller[f] = "upload" /\ job[f] \in Returned
      /\ caller' = [caller EXCEPT ![f] = IF job[f] = "ok" THEN "complete" ELSE "abort"]
      /\ pending' = [pending EXCEPT ![f] = IF job[f] = "ok" THEN @ ELSE job[f]]
      /\ UNCHANGED <<source, job, object, stored, creation, server, cut>>
  BY DEF PartsUploaded, Goto, vars, s3vars
<1>2. CloudTypes /\ CallFollows(f) /\ S3Types /\ S3Call(f) /\ TypeOK BY DEF CloudInv, S3Inv, PartsInv, IndInv
<1>3. job[f] = "ok" \/ job[f] \in {"error", "cancelled"} BY <1>1 DEF Returned
<1>4. StepOf(f)
  <2>1. Moves(f)
    <3> DEFINE p == IF job[f] = "ok" THEN "complete" ELSE "abort"
    <3>1. Goto(f, p) /\ p \in Places /\ p # "ok" BY <1>1, <1>3 DEF Goto, Places, CallerOver
    <3> HIDE DEF p
    <3>2. caller[f] \notin CallerOver BY <1>1 DEF CallerOver
    <3> QED BY <1>1, <3>1, <3>2 DEF Moves
  <2>2. CallFollows(f)' BY <1>1, <1>2, <1>3 DEF CallFollows, CloudTypes, CallerOver, Returned, Running, S3Types
  <2> QED BY <1>1, <2>1, <2>2 DEF StepOf
<1>5. S3Types' BY <1>1, <1>2, <1>3 DEF S3Types
<1>6. S3Frame(f) BY <1>1, <1>2 DEF S3Frame, S3Types, CloudTypes
<1>7. S3Call(f)'
  <2> USE <1>1, <1>2, <1>3 DEF S3Types, CloudTypes, CallerOver
  <2>1. caller'[f] = "idle" => creation'[f] = "none" /\ server'[f] = "none" BY DEF S3Call
  <2>2. creation'[f] = "pending" => caller'[f] \in {"create", "await creation"} /\ server'[f] = "none" BY DEF S3Call
  <2>3. server'[f] = "completed" <=> f \in stored' BY DEF S3Call
  <2>4. creation'[f] \in {"failed", "cancelled"} /\ server'[f] = "open" => cut'[f] BY DEF S3Call
  <2>5. caller'[f] \in CallerOver /\ server'[f] = "open" => cut'[f] BY DEF S3Call
  <2>6. caller'[f] = "abort" => pending'[f] \in {"error", "cancelled"} BY DEF S3Call
  <2> QED BY <2>1, <2>2, <2>3, <2>4, <2>5, <2>6, Zenon DEF S3Call
<1> QED BY <1>4, <1>5, <1>6, <1>7, S3OneMoves

\* The server puts the parts together: they are the whole file.
LEMMA ServerCompletesSteps ==
    ASSUME PartsInv, CloudInv, S3Inv, backend = "s3", backend' = backend, NEW f \in Files, ServerCompletes(f)
    PROVE  StepOf(f) /\ S3Inv'
<1>1. /\ server[f] = "open" /\ server' = [server EXCEPT ![f] = "completed"]
      /\ job[f] = "ok" /\ caller[f] # "idle" /\ Store(f, InOrder(f))
      /\ UNCHANGED <<source, job, caller, creation, pending, cut>>
  BY DEF ServerCompletes, Goto, vars, s3vars
<1>2. CloudTypes /\ CallFollows(f) /\ S3Types /\ S3Call(f) /\ TypeOK BY DEF CloudInv, S3Inv, PartsInv, IndInv
<1>3. /\ f \notin stored /\ object' = WholeFile(f) /\ stored' = stored \cup {f} /\ InOrder(f) = WholeFile(f)
      /\ creation[f] # "pending"
  BY <1>1, <1>2, ResultsInOrder DEF CloudTypes, S3Call, Store
<1>4. StepOf(f)
  <2>1. Stores(f) BY <1>1, <1>2, <1>3 DEF Stores, CloudTypes, Places, CallerOver, Goto, Store, S3Types
  <2>2. CallFollows(f)' BY <1>1, <1>2, <1>3 DEF CallFollows, CloudTypes, CallerOver, Returned, Running, S3Types
  <2> QED BY <1>1, <2>1, <2>2 DEF StepOf
<1>5. S3Types' BY <1>1, <1>2, <1>3 DEF S3Types
<1>6. S3Frame(f) BY <1>1, <1>2, <1>3 DEF S3Frame, S3Types, CloudTypes
<1>7. S3Call(f)'
  <2> USE <1>1, <1>2, <1>3 DEF S3Types, CloudTypes, CallerOver
  <2>1. caller'[f] = "idle" => creation'[f] = "none" /\ server'[f] = "none" BY DEF S3Call
  <2>2. creation'[f] = "pending" => caller'[f] \in {"create", "await creation"} /\ server'[f] = "none" BY DEF S3Call
  <2>3. server'[f] = "completed" <=> f \in stored' BY DEF S3Call
  <2>4. creation'[f] \in {"failed", "cancelled"} /\ server'[f] = "open" => cut'[f] BY DEF S3Call
  <2>5. caller'[f] \in CallerOver /\ server'[f] = "open" => cut'[f] BY DEF S3Call
  <2>6. caller'[f] = "abort" => pending'[f] \in {"error", "cancelled"} BY DEF S3Call
  <2> QED BY <2>1, <2>2, <2>3, <2>4, <2>5, <2>6, Zenon DEF S3Call
<1> QED BY <1>4, <1>5, <1>6, <1>7, S3OneMoves

\* The completion is confirmed, or the request fails.
LEMMA CompleteAnsweredSteps ==
    ASSUME PartsInv, CloudInv, S3Inv, backend = "s3", backend' = backend, NEW f \in Files, CompleteAnswered(f)
    PROVE  StepOf(f) /\ S3Inv'
<1>1. /\ caller[f] = "complete" /\ UNCHANGED <<source, job, object, stored, creation, server, cut>>
      /\ \/ server[f] = "completed" /\ caller' = [caller EXCEPT ![f] = "ok"] /\ pending' = pending
         \/ caller' = [caller EXCEPT ![f] = "abort"] /\ pending' = [pending EXCEPT ![f] = "error"]
  BY DEF CompleteAnswered, Goto, vars, s3vars, Confirmed
<1>2. CloudTypes /\ CallFollows(f) /\ S3Types /\ S3Call(f) /\ TypeOK BY DEF CloudInv, S3Inv, PartsInv, IndInv
<1>3. server[f] = "completed" => f \in stored BY <1>2 DEF S3Call
<1>4. StepOf(f)
  <2>1. Moves(f)
    <3>1. \E p \in {"ok", "abort"} : Goto(f, p) /\ (p = "ok" => f \in stored) BY <1>1, <1>3 DEF Goto
    <3>2. caller[f] \notin CallerOver /\ UNCHANGED <<object, stored>> BY <1>1 DEF CallerOver
    <3> QED BY <3>1, <3>2 DEF Moves, Places, CallerOver
  <2>2. CallFollows(f)' BY <1>1, <1>2, <1>3 DEF CallFollows, CloudTypes, CallerOver, Returned, Running, S3Types
  <2> QED BY <1>1, <2>1, <2>2 DEF StepOf
<1>5. S3Types' BY <1>1, <1>2, <1>3 DEF S3Types
<1>6. S3Frame(f) BY <1>1, <1>2 DEF S3Frame, S3Types, CloudTypes
<1>7. S3Call(f)'
  <2> USE <1>1, <1>2, <1>3 DEF S3Types, CloudTypes, CallerOver
  <2>1. caller'[f] = "idle" => creation'[f] = "none" /\ server'[f] = "none" BY DEF S3Call
  <2>2. creation'[f] = "pending" => caller'[f] \in {"create", "await creation"} /\ server'[f] = "none" BY DEF S3Call
  <2>3. server'[f] = "completed" <=> f \in stored' BY DEF S3Call
  <2>4. creation'[f] \in {"failed", "cancelled"} /\ server'[f] = "open" => cut'[f] BY DEF S3Call
  <2>5. caller'[f] \in CallerOver /\ server'[f] = "open" => cut'[f] BY DEF S3Call
  <2>6. caller'[f] = "abort" => pending'[f] \in {"error", "cancelled"} BY DEF S3Call
  <2> QED BY <2>1, <2>2, <2>3, <2>4, <2>5, <2>6, Zenon DEF S3Call
<1> QED BY <1>4, <1>5, <1>6, <1>7, S3OneMoves

\* The abort is done, or fails.
LEMMA AbortAnsweredSteps ==
    ASSUME PartsInv, CloudInv, S3Inv, backend = "s3", backend' = backend, NEW f \in Files, AbortAnswered(f)
    PROVE  StepOf(f) /\ S3Inv'
<1>1. /\ caller[f] = "abort" /\ caller' = [caller EXCEPT ![f] = pending[f]]
      /\ UNCHANGED <<source, job, object, stored, creation, pending>>
      /\ \/ server[f] = "open" /\ server' = [server EXCEPT ![f] = "aborted"] /\ cut' = cut
         \/ server' = server /\ cut' = [cut EXCEPT ![f] = TRUE]
  BY DEF AbortAnswered, Goto, vars, s3vars
<1>2. CloudTypes /\ CallFollows(f) /\ S3Types /\ S3Call(f) /\ TypeOK BY DEF CloudInv, S3Inv, PartsInv, IndInv
<1>3. pending[f] \in {"error", "cancelled"} BY <1>1, <1>2 DEF S3Call
<1>4. StepOf(f)
  <2>1. Moves(f)
    <3> DEFINE p == pending[f]
    <3>1. Goto(f, p) /\ p \in Places /\ p # "ok" BY <1>1, <1>3 DEF Goto, Places, CallerOver
    <3> HIDE DEF p
    <3>2. caller[f] \notin CallerOver BY <1>1 DEF CallerOver
    <3> QED BY <1>1, <3>1, <3>2 DEF Moves
  <2>2. CallFollows(f)' BY <1>1, <1>2, <1>3 DEF CallFollows, CloudTypes, CallerOver, Returned, Running, S3Types
  <2> QED BY <1>1, <2>1, <2>2 DEF StepOf
<1>5. S3Types' BY <1>1, <1>2, <1>3 DEF S3Types
<1>6. S3Frame(f) BY <1>1, <1>2 DEF S3Frame, S3Types, CloudTypes
<1>7. S3Call(f)'
  <2> USE <1>1, <1>2, <1>3 DEF S3Types, CloudTypes, CallerOver
  <2>1. caller'[f] = "idle" => creation'[f] = "none" /\ server'[f] = "none" BY DEF S3Call
  <2>2. creation'[f] = "pending" => caller'[f] \in {"create", "await creation"} /\ server'[f] = "none" BY DEF S3Call
  <2>3. server'[f] = "completed" <=> f \in stored' BY DEF S3Call
  <2>4. creation'[f] \in {"failed", "cancelled"} /\ server'[f] = "open" => cut'[f] BY DEF S3Call
  <2>5. caller'[f] \in CallerOver /\ server'[f] = "open" => cut'[f] BY DEF S3Call
  <2>6. caller'[f] = "abort" => pending'[f] \in {"error", "cancelled"} BY DEF S3Call
  <2> QED BY <2>1, <2>2, <2>3, <2>4, <2>5, <2>6, Zenon DEF S3Call
<1> QED BY <1>4, <1>5, <1>6, <1>7, S3OneMoves

\* Cancelled while the upload is created: the shielded creation goes on.
LEMMA CancelCreateSteps ==
    ASSUME PartsInv, CloudInv, S3Inv, backend = "s3", backend' = backend, NEW f \in Files, CancelCreate(f)
    PROVE  StepOf(f) /\ S3Inv'
<1>1. /\ caller[f] = "create" /\ caller' = [caller EXCEPT ![f] = "await creation"]
      /\ pending' = [pending EXCEPT ![f] = "cancelled"]
      /\ UNCHANGED <<source, job, object, stored, creation, server, cut>>
  BY DEF CancelCreate, Goto, vars, s3vars, CreationShielded
<1>2. CloudTypes /\ CallFollows(f) /\ S3Types /\ S3Call(f) /\ TypeOK BY DEF CloudInv, S3Inv, PartsInv, IndInv
<1>4. StepOf(f)
  <2>1. Moves(f)
    <3> DEFINE p == "await creation"
    <3>1. Goto(f, p) /\ p \in Places /\ p # "ok" BY <1>1 DEF Goto, Places, CallerOver
    <3> HIDE DEF p
    <3>2. caller[f] \notin CallerOver BY <1>1 DEF CallerOver
    <3> QED BY <1>1, <3>1, <3>2 DEF Moves
  <2>2. CallFollows(f)' BY <1>1, <1>2 DEF CallFollows, CloudTypes, CallerOver, Returned, Running, S3Types
  <2> QED BY <1>1, <2>1, <2>2 DEF StepOf
<1>5. S3Types' BY <1>1, <1>2 DEF S3Types
<1>6. S3Frame(f) BY <1>1, <1>2 DEF S3Frame, S3Types, CloudTypes
<1>7. S3Call(f)'
  <2> USE <1>1, <1>2 DEF S3Types, CloudTypes, CallerOver
  <2>1. caller'[f] = "idle" => creation'[f] = "none" /\ server'[f] = "none" BY DEF S3Call
  <2>2. creation'[f] = "pending" => caller'[f] \in {"create", "await creation"} /\ server'[f] = "none" BY DEF S3Call
  <2>3. server'[f] = "completed" <=> f \in stored' BY DEF S3Call
  <2>4. creation'[f] \in {"failed", "cancelled"} /\ server'[f] = "open" => cut'[f] BY DEF S3Call
  <2>5. caller'[f] \in CallerOver /\ server'[f] = "open" => cut'[f] BY DEF S3Call
  <2>6. caller'[f] = "abort" => pending'[f] \in {"error", "cancelled"} BY DEF S3Call
  <2> QED BY <2>1, <2>2, <2>3, <2>4, <2>5, <2>6, Zenon DEF S3Call
<1> QED BY <1>4, <1>5, <1>6, <1>7, S3OneMoves

\* Cancelled while the upload is completed.
LEMMA CancelCompleteSteps ==
    ASSUME PartsInv, CloudInv, S3Inv, backend = "s3", backend' = backend, NEW f \in Files, CancelComplete(f)
    PROVE  StepOf(f) /\ S3Inv'
<1>1. /\ caller[f] = "complete" /\ caller' = [caller EXCEPT ![f] = "abort"]
      /\ pending' = [pending EXCEPT ![f] = "cancelled"]
      /\ UNCHANGED <<source, job, object, stored, creation, server, cut>>
  BY DEF CancelComplete, Goto, vars, s3vars
<1>2. CloudTypes /\ CallFollows(f) /\ S3Types /\ S3Call(f) /\ TypeOK BY DEF CloudInv, S3Inv, PartsInv, IndInv
<1>4. StepOf(f)
  <2>1. Moves(f)
    <3> DEFINE p == "abort"
    <3>1. Goto(f, p) /\ p \in Places /\ p # "ok" BY <1>1 DEF Goto, Places, CallerOver
    <3> HIDE DEF p
    <3>2. caller[f] \notin CallerOver BY <1>1 DEF CallerOver
    <3> QED BY <1>1, <3>1, <3>2 DEF Moves
  <2>2. CallFollows(f)' BY <1>1, <1>2 DEF CallFollows, CloudTypes, CallerOver, Returned, Running, S3Types
  <2> QED BY <1>1, <2>1, <2>2 DEF StepOf
<1>5. S3Types' BY <1>1, <1>2 DEF S3Types
<1>6. S3Frame(f) BY <1>1, <1>2 DEF S3Frame, S3Types, CloudTypes
<1>7. S3Call(f)'
  <2> USE <1>1, <1>2 DEF S3Types, CloudTypes, CallerOver
  <2>1. caller'[f] = "idle" => creation'[f] = "none" /\ server'[f] = "none" BY DEF S3Call
  <2>2. creation'[f] = "pending" => caller'[f] \in {"create", "await creation"} /\ server'[f] = "none" BY DEF S3Call
  <2>3. server'[f] = "completed" <=> f \in stored' BY DEF S3Call
  <2>4. creation'[f] \in {"failed", "cancelled"} /\ server'[f] = "open" => cut'[f] BY DEF S3Call
  <2>5. caller'[f] \in CallerOver /\ server'[f] = "open" => cut'[f] BY DEF S3Call
  <2>6. caller'[f] = "abort" => pending'[f] \in {"error", "cancelled"} BY DEF S3Call
  <2> QED BY <2>1, <2>2, <2>3, <2>4, <2>5, <2>6, Zenon DEF S3Call
<1> QED BY <1>4, <1>5, <1>6, <1>7, S3OneMoves

\* Cancelled again in the except block.
LEMMA CancelCleanupSteps ==
    ASSUME PartsInv, CloudInv, S3Inv, backend = "s3", backend' = backend, NEW f \in Files, CancelCleanup(f)
    PROVE  StepOf(f) /\ S3Inv'
<1>1. /\ \/ /\ caller[f] = "await creation" /\ creation[f] = "pending"
            /\ creation' = [creation EXCEPT ![f] = "cancelled"]
            /\ server' \in {server, [server EXCEPT ![f] = "open"]}
         \/ /\ caller[f] = "abort" /\ creation' = creation
            /\ server' \in {server, [server EXCEPT ![f] = IF @ = "open" THEN "aborted" ELSE @]}
      /\ caller' = [caller EXCEPT ![f] = "cancelled"]
      /\ pending' = [pending EXCEPT ![f] = "cancelled"] /\ cut' = [cut EXCEPT ![f] = TRUE]
      /\ UNCHANGED <<source, job, object, stored>>
  BY DEF CancelCleanup, Goto, vars, s3vars
<1>2. CloudTypes /\ CallFollows(f) /\ S3Types /\ S3Call(f) /\ TypeOK BY DEF CloudInv, S3Inv, PartsInv, IndInv
<1>4. StepOf(f)
  <2>1. Moves(f)
    <3> DEFINE p == "cancelled"
    <3>1. Goto(f, p) /\ p \in Places /\ p # "ok" BY <1>1 DEF Goto, Places, CallerOver
    <3> HIDE DEF p
    <3>2. caller[f] \notin CallerOver BY <1>1 DEF CallerOver
    <3> QED BY <1>1, <3>1, <3>2 DEF Moves
  <2>2. CallFollows(f)' BY <1>1, <1>2 DEF CallFollows, CloudTypes, CallerOver, Returned, Running, S3Types
  <2> QED BY <1>1, <2>1, <2>2 DEF StepOf
<1>5. S3Types' BY <1>1, <1>2 DEF S3Types
<1>6. S3Frame(f) BY <1>1, <1>2 DEF S3Frame, S3Types, CloudTypes
<1>7. S3Call(f)'
  <2> USE <1>1, <1>2 DEF S3Types, CloudTypes, CallerOver
  <2>1. caller'[f] = "idle" => creation'[f] = "none" /\ server'[f] = "none" BY DEF S3Call
  <2>2. creation'[f] = "pending" => caller'[f] \in {"create", "await creation"} /\ server'[f] = "none" BY DEF S3Call
  <2>3. server'[f] = "completed" <=> f \in stored' BY DEF S3Call
  <2>4. creation'[f] \in {"failed", "cancelled"} /\ server'[f] = "open" => cut'[f] BY DEF S3Call
  <2>5. caller'[f] \in CallerOver /\ server'[f] = "open" => cut'[f] BY DEF S3Call
  <2>6. caller'[f] = "abort" => pending'[f] \in {"error", "cancelled"} BY DEF S3Call
  <2> QED BY <2>1, <2>2, <2>3, <2>4, <2>5, <2>6, Zenon DEF S3Call
<1> QED BY <1>4, <1>5, <1>6, <1>7, S3OneMoves

\* The upload is created: upload_parts begins.
LEMMA CreatedSteps ==
    ASSUME PartsInv, CloudInv, S3Inv, backend = "s3", backend' = backend, NEW f \in Files, Created(f)
    PROVE  StepOf(f) /\ S3Inv'
<1>1. /\ caller[f] = "create" /\ creation[f] = "created" /\ caller' = [caller EXCEPT ![f] = "upload"]
      /\ EnterScope(f) /\ UNCHANGED <<object, stored, creation, server, pending, cut>>
  BY DEF Created, Goto, s3vars
<1>2. CloudTypes /\ S3Types /\ S3Call(f) /\ TypeOK BY DEF CloudInv, S3Inv, PartsInv, IndInv
<1>3. UNCHANGED source /\ \A g \in Files \ {f} : job'[g] = job[g] BY <1>1, <1>2, PoolMoves
<1>4. caller'[f] = "upload" BY <1>1, <1>2 DEF CloudTypes
<1>5. Moves(f) BY <1>1 DEF Moves, Goto, Places, CallerOver
<1>6. CallFollows(f)' BY <1>4 DEF CallFollows, CallerOver
<1>7. StepOf(f) BY <1>3, <1>5, <1>6 DEF StepOf
<1>8. S3Frame(f) BY <1>1, <1>2 DEF S3Frame, CloudTypes
<1>9. S3Types' BY <1>1, <1>2 DEF S3Types
<1>10. S3Call(f)' BY <1>1, <1>2, <1>4 DEF S3Call, CallerOver
<1> QED BY <1>7, <1>8, <1>9, <1>10, S3OneMoves

\* Every step on S3.
LEMMA S3Steps ==
    ASSUME PartsInv, CloudInv, S3Inv, backend = "s3", backend' = backend, S3Next
    PROVE  S3Inv' /\ \E f \in Files : StepOf(f)
<1>1. PICK f \in Files : \/ S3Pool(f) \/ RequestCreate(f) \/ CreateAnswered(f) \/ Created(f)
                         \/ CreationSettled(f) \/ PartsUploaded(f) \/ ServerCompletes(f)
                         \/ CompleteAnswered(f) \/ AbortAnswered(f)
                         \/ CancelCreate(f) \/ CancelComplete(f) \/ CancelCleanup(f)
                         \/ \E w \in Workers : S3Thread(f, w)
  BY DEF S3Next
<1>2. StepOf(f) /\ S3Inv'
  BY <1>1, S3PoolSteps, RequestCreateSteps, CreateAnsweredSteps, CreatedSteps, CreationSettledSteps,
     PartsUploadedSteps, ServerCompletesSteps, CompleteAnsweredSteps, AbortAnsweredSteps, CancelCreateSteps,
     CancelCompleteSteps, CancelCleanupSteps
<1> QED BY <1>2

-----------------------------------------------------------------------------
(* Azure.                                                                  *)

\* Every uncommitted block is the part its id names, of the upload its id names.
Block(f, n) == [id |-> BlockId(f, n), writer |-> f, content |-> n]
AzInv == backend = "azure" => \A b \in staged : \E g \in Files : \E n \in Nat : b = Block(g, n)

\* upload_parts at work, or a thread of it, changes nothing here.
LEMMA AzPoolSteps ==
    ASSUME PartsInv, CloudInv, AzInv, backend' = backend, NEW f \in Files,
           AzPool(f) \/ \E w \in Workers : AzThread(f, w) \/ PutBlockAnswered(f, w)
    PROVE  StepOf(f) /\ AzInv'
<1>1. TypeOK /\ CallFollows(f) BY DEF PartsInv, IndInv, CloudInv
<1>2. UNCHANGED <<caller, object, stored, staged>> BY DEF AzPool, AzThread, PutBlockAnswered, cloudvars
<1>3. CASE AzPool(f)
  <2>1. UNCHANGED source /\ (\A g \in Files \ {f} : job'[g] = job[g]) /\ caller[f] = "upload"
    BY <1>1, <1>3, PoolMoves DEF AzPool, WorkerStep
  <2>2. CallFollows(f)' BY <1>2, <2>1 DEF CallFollows, CallerOver
  <2> QED BY <1>2, <2>1, <2>2 DEF StepOf, Stays, AzInv
<1>4. CASE \E w \in Workers : AzThread(f, w) \/ PutBlockAnswered(f, w)
  <2>1. UNCHANGED <<source, job>> BY <1>4, WorkerMoves DEF AzThread, PutBlockAnswered, WorkerStep
  <2> QED BY <1>1, <1>2, <2>1 DEF StepOf, Stays, CallFollows, AzInv
<1> QED BY <1>3, <1>4

\* The upload begins.
LEMMA BlockUploadSteps ==
    ASSUME PartsInv, CloudInv, AzInv, backend' = backend, NEW f \in Files, BlockUpload(f)
    PROVE  StepOf(f) /\ AzInv'
<1>1. /\ caller[f] = "idle" /\ caller' = [caller EXCEPT ![f] = "upload"]
      /\ EnterScope(f) /\ UNCHANGED <<object, stored, staged>>
  BY DEF BlockUpload, Goto
<1>2. CloudTypes /\ TypeOK BY DEF CloudInv, PartsInv, IndInv
<1>3. UNCHANGED source /\ \A g \in Files \ {f} : job'[g] = job[g] BY <1>1, <1>2, PoolMoves
<1>4. caller'[f] = "upload" BY <1>1, <1>2 DEF CloudTypes
<1>5. Moves(f) BY <1>1 DEF Moves, Goto, Places, CallerOver
<1>6. CallFollows(f)' BY <1>4 DEF CallFollows, CallerOver
<1> QED BY <1>1, <1>3, <1>5, <1>6 DEF StepOf, AzInv

\* The server stages the part a worker sends, under its number.
LEMMA ServerStagesSteps ==
    ASSUME PartsInv, CloudInv, AzInv, backend' = backend, NEW f \in Files, NEW w \in Workers, ServerStages(f, w)
    PROVE  StepOf(f) /\ AzInv'
<1>1. /\ worker[f][w] = "upload" /\ staged' = Staged(f, held[f][w])
      /\ UNCHANGED <<source, job, caller, object, stored>>
  BY DEF ServerStages, vars, cloudvars
<1>2. StepOf(f) BY <1>1 DEF StepOf, Stays, CloudInv, CallFollows
<1>3. held[f][w] \in [number : Parts, content : Parts] /\ held[f][w].number = held[f][w].content
  BY <1>1 DEF PartsInv, IndInv, FileInv, PartsNumbered
<1>4. held[f][w].number \in Nat BY <1>3, SizeAssumption DEF Parts
<1>5. \A b \in staged' : b \in staged \/ b = Block(f, held[f][w].number) BY <1>1, <1>3 DEF Staged, Block
<1> QED BY <1>2, <1>4, <1>5 DEF AzInv, Block

\* upload_parts is over.
LEMMA PartsStagedSteps ==
    ASSUME PartsInv, CloudInv, AzInv, backend' = backend, NEW f \in Files, PartsStaged(f)
    PROVE  StepOf(f) /\ AzInv'
<1> DEFINE p == IF job[f] = "ok" THEN "commit" ELSE job[f]
<1>1. /\ caller[f] = "upload" /\ job[f] \in Returned /\ Goto(f, p)
      /\ UNCHANGED <<source, job, object, stored, staged>>
  BY DEF PartsStaged, vars
<1>2. p \in {"commit", "error", "cancelled"} BY <1>1 DEF Returned
<1> HIDE DEF p
<1>3. CloudTypes BY DEF CloudInv
<1>4. caller[f] \notin CallerOver /\ p \in Places /\ p # "ok" BY <1>1, <1>2 DEF CallerOver, Places
<1>5. Moves(f) BY <1>1, <1>4 DEF Moves
<1>6. caller'[f] = p BY <1>1, <1>3 DEF CloudTypes, Goto
<1>7. CallFollows(f)' BY <1>1, <1>2, <1>6 DEF CallFollows, Returned, Running
<1> QED BY <1>1, <1>5, <1>7 DEF StepOf, AzInv

\* The server commits the list: the whole file, for every id names its own part.
LEMMA ServerCommitsSteps ==
    ASSUME PartsInv, CloudInv, AzInv, backend = "azure", backend' = backend, NEW f \in Files, ServerCommits(f)
    PROVE  StepOf(f) /\ AzInv'
<1>1. /\ job[f] = "ok" /\ f \notin stored /\ Store(f, Listed(BlockIds(f))) /\ staged' = {}
      /\ \A i \in DOMAIN BlockIds(f) : \E b \in staged : b.id = BlockIds(f)[i]
      /\ UNCHANGED <<source, job, caller>>
  BY DEF ServerCommits, vars
<1>2. parts = declared /\ TypeOK BY DEF CloudInv, CloudTypes, PartsInv, IndInv
<1>3. Cardinality(results[f]) = parts[f] /\ parts[f] \in Nat BY <1>1, <1>2, ResultsInOrder, WholeFiles
<1>4. BlockIds(f) = [i \in 1..parts[f] |-> BlockId(f, i)] BY <1>3 DEF BlockIds
<1>5. DOMAIN BlockIds(f) = 1..parts[f] /\ Len(BlockIds(f)) = parts[f] BY <1>3, <1>4
<1>6. ASSUME NEW i \in 1..parts[f]
      PROVE  (LET b == CHOOSE c \in staged : c.id = BlockIds(f)[i] IN <<b.writer, b.content>>) = <<f, i>>
  <2> DEFINE b == CHOOSE c \in staged : c.id = BlockIds(f)[i]
  <2>1. b \in staged /\ b.id = BlockIds(f)[i] BY <1>1, <1>5
  <2> HIDE DEF b
  <2>2. b.id = BlockId(f, i) BY <1>4, <2>1
  <2>3. PICK g \in Files : \E n \in Nat : b = Block(g, n) BY <2>1 DEF AzInv
  <2>4. PICK n \in Nat : b = Block(g, n) BY <2>3
  <2>5. BlockId(g, n) = BlockId(f, i) BY <2>2, <2>4 DEF Block
  <2>6. g = f /\ n = i BY <2>5 DEF BlockId
  <2>7. b.writer = f /\ b.content = i BY <2>4, <2>6 DEF Block
  <2> QED BY <2>7 DEF b
<1>7. Listed(BlockIds(f)) = WholeFile(f) BY <1>5, <1>6 DEF Listed, WholeFile
<1>8. Stores(f) BY <1>1, <1>7 DEF Stores
<1> QED BY <1>1, <1>8 DEF StepOf, CloudInv, CallFollows, AzInv

\* The commit is answered, or the call gives up.
LEMMA CommitAnsweredSteps ==
    ASSUME PartsInv, CloudInv, AzInv, backend' = backend, NEW f \in Files, CommitAnswered(f)
    PROVE  StepOf(f) /\ AzInv'
<1>1. caller[f] = "commit" /\ UNCHANGED <<source, job, object, stored, staged>> BY DEF CommitAnswered, vars
<1>2. PICK p \in CallerOver : Goto(f, p) /\ (p = "ok" => f \in stored) BY DEF CommitAnswered, CallerOver
<1>3. CloudTypes /\ CallFollows(f) BY DEF CloudInv
<1>4. Moves(f)
  <2>1. p \in Places /\ caller[f] \notin CallerOver BY <1>1 DEF Places, CallerOver
  <2> QED BY <1>1, <1>2, <2>1 DEF Moves
<1>5. caller'[f] = p BY <1>2, <1>3 DEF CloudTypes, Goto
<1>6. CallFollows(f)' BY <1>1, <1>3, <1>5 DEF CallFollows, CallerOver
<1> QED BY <1>1, <1>4, <1>6 DEF StepOf, AzInv

\* Every step on Azure.
LEMMA AzSteps ==
    ASSUME PartsInv, CloudInv, AzInv, backend = "azure", backend' = backend, AzNext
    PROVE  AzInv' /\ \E f \in Files : StepOf(f)
<1>1. PICK f \in Files : \/ AzPool(f) \/ BlockUpload(f) \/ PartsStaged(f) \/ ServerCommits(f) \/ CommitAnswered(f)
                         \/ \E w \in Workers : ServerStages(f, w) \/ PutBlockAnswered(f, w) \/ AzThread(f, w)
  BY DEF AzNext
<1>2. StepOf(f) /\ AzInv'
  BY <1>1, AzPoolSteps, BlockUploadSteps, PartsStagedSteps, ServerCommitsSteps, CommitAnsweredSteps,
     ServerStagesSteps
<1> QED BY <1>2

-----------------------------------------------------------------------------
(* GCS.                                                                    *)

GcTypes ==
    /\ offset \in [Files -> Nat] /\ stray \in [Files -> SUBSET [at : Nat, content : Nat]]
    /\ persisted \in [Files -> Seq(Files \X Nat)]

\* What the session has is a prefix of the file, at most one chunk ahead of the
\* offset and, unless the upload was misled, not behind it; the object is there
\* when it is the whole file.
GcSession(f) ==
    /\ Len(persisted[f]) <= offset[f] + 1 /\ Len(persisted[f]) <= declared[f]
    /\ f \in misled \/ offset[f] <= Len(persisted[f])
    /\ \A i \in 1..Len(persisted[f]) : persisted[f][i] = <<f, i>>
    /\ f \in stored <=> Len(persisted[f]) = declared[f]
    /\ \A c \in stray[f] : c.content = c.at + 1 /\ c.at <= offset[f]

\* The one worker there is reads and sends the chunk at the offset.
GcSender(f) ==
    /\ \A w \in Workers : w # 1 => worker[f][w] = "unused"
    /\ job[f] \in {"idle", "scope"} => part_number[f] = 0 /\ offset[f] = 0
    /\ 1 \in Workers => /\ worker[f][1] \in {"slot", "lock", "read"} => part_number[f] = offset[f]
                        /\ worker[f][1] = "upload" => /\ part_number[f] = offset[f] + 1
                                                      /\ held[f][1].content = offset[f] + 1
    /\ \A r \in results[f] : r.number <= offset[f]

GcInv == backend = "gcs" => GcTypes /\ \A f \in Files : GcSession(f) /\ GcSender(f)

\* A step of upload_parts leaves the workers of the other uploads alone.
GcAlone(g) ==
    /\ worker'[g] = worker[g] /\ held'[g] = held[g] /\ part_number'[g] = part_number[g] /\ results'[g] = results[g]

\* Every action of upload_parts does so.
LEMMA GcOthersAlone ==
    ASSUME TypeOK, NEW f \in Files,
           EnterScope(f) \/ JobStep(f) \/ Cancel(f) \/ \E w \in Workers : WorkerStep(f, w) \/ ThreadStep(f, w)
    PROVE  \A g \in Files \ {f} : GcAlone(g)
<1>1. CASE EnterScope(f) BY <1>1 DEF EnterScope, pool, outputs, GcAlone
<1>2. CASE SpawnWorkers(f) BY <1>2 DEF SpawnWorkers, Spawn, outputs, TypeOK, GcAlone
<1>3. CASE Settle(f)
  <2>1. CancelWorkers(f) /\ UNCHANGED <<part_number, results>> BY <1>3 DEF Settle, outputs
  <2> QED BY <2>1, CancelWorkersMoves DEF GcAlone
<1>4. CASE Return(f) BY <1>4 DEF Return, pool, outputs, GcAlone
<1>5. CASE Cancel(f)
  <2>1. UNCHANGED <<part_number, results>> BY <1>5 DEF Cancel, outputs
  <2>2. CancelWorkers(f) \/ UNCHANGED <<worker, held>>
    BY <1>5 DEF Cancel, CancelInScope, CancelGathered, CancelResuming
  <2> QED BY <2>1, <2>2, CancelWorkersMoves DEF GcAlone
<1>6. ASSUME NEW w \in Workers, WorkerStep(f, w) PROVE \A g \in Files \ {f} : GcAlone(g)
  BY <1>6 DEF WorkerStep, AcquireSlot, StartRead, UploadDone, UploadFail, outputs, TypeOK, GcAlone
<1>7. ASSUME NEW w \in Workers, ThreadStep(f, w) PROVE \A g \in Files \ {f} : GcAlone(g)
  BY <1>7 DEF ThreadStep, ReadChunk, ReadEnd, ReadJoined, ReadAbandoned, outputs, TypeOK, GcAlone
<1> QED BY <1>1, <1>2, <1>3, <1>4, <1>5, <1>6, <1>7 DEF JobStep

\* The offset of an upload is only moved by that upload.
LEMMA GcOneMoves ==
    ASSUME GcInv, backend = "gcs", backend' = backend, UNCHANGED source, NEW f \in Files, GcTypes',
           GcSession(f)', GcSender(f)',
           \A g \in Files \ {f} : /\ GcAlone(g) /\ job'[g] = job[g] /\ offset'[g] = offset[g]
                                  /\ persisted'[g] = persisted[g] /\ stray'[g] = stray[g]
                                  /\ (g \in stored' <=> g \in stored) /\ (g \in misled' <=> g \in misled)
    PROVE  GcInv'
<1>1. ASSUME NEW g \in Files PROVE GcSession(g)' /\ GcSender(g)'
  <2>1. CASE g = f BY <2>1
  <2>2. CASE g # f
    <3>1. GcSession(g) /\ GcSender(g) BY DEF GcInv
    <3>2. /\ GcAlone(g) /\ job'[g] = job[g] /\ offset'[g] = offset[g]
          /\ persisted'[g] = persisted[g] /\ stray'[g] = stray[g]
          /\ (g \in stored' <=> g \in stored) /\ (g \in misled' <=> g \in misled)
      BY <2>2
    <3>3. declared' = declared BY DEF source
    <3>4. GcSession(g)' BY <3>1, <3>2, <3>3 DEF GcSession
    <3>5. GcSender(g)' BY <3>1, <3>2 DEF GcSender, GcAlone, Workers
    <3> QED BY <3>4, <3>5
  <2> QED BY <2>1, <2>2
<1> QED BY <1>1 DEF GcInv

\* Cancelling ends the sender, or makes it wait for its thread.
LEMMA GcCancelled ==
    ASSUME TypeOK, NEW f \in Files, GcSender(f), CancelWorkers(f) \/ UNCHANGED <<worker, held>>,
           UNCHANGED <<part_number, results, offset>>,
           job'[f] \in {"idle", "scope"} => job[f] \in {"idle", "scope"}
    PROVE  GcSender(f)'
<1>1. CASE UNCHANGED <<worker, held>> BY <1>1 DEF GcSender, Workers
<1>2. CASE CancelWorkers(f)
  <2>1. \A v \in Workers : worker'[f][v] = AfterCancel(worker[f][v]) BY <1>2, CancelWorkersMoves
  <2>2. \A v \in Workers : worker'[f][v] \notin {"slot", "lock", "read", "upload"}
    <3>1. \A v \in Workers : worker[f][v] \in WorkerStates BY DEF TypeOK
    <3> QED BY <2>1, <3>1 DEF AfterCancel, WorkerStates, Waiting, Holding, Ended
  <2>3. \A v \in Workers : v # 1 => worker'[f][v] = "unused" BY <2>1 DEF GcSender, AfterCancel
  <2> QED BY <2>2, <2>3 DEF GcSender, Workers
<1> QED BY <1>1, <1>2

\* The sender waits, reads and ends as a worker of upload_parts.
LEMMA GcSenderWorks ==
    ASSUME PartsInv, NEW f \in Files, GcSender(f), offset' = offset, offset[f] \in Nat,
           \/ Spawn(f, 1) /\ job[f] = "scope"
           \/ Settle(f) \/ Return(f) \/ Cancel(f)
           \/ \E w \in Workers : AcquireSlot(f, w) \/ StartRead(f, w) \/ UploadFail(f, w) \/ ThreadStep(f, w)
    PROVE  GcSender(f)'
<1>1. TypeOK /\ FileInv(f) BY DEF PartsInv, IndInv
<1>2. CASE Spawn(f, 1) /\ job[f] = "scope"
  <2>1. /\ job' = [job EXCEPT ![f] = "gather"] /\ UNCHANGED <<held, part_number, results>>
        /\ worker' = [worker EXCEPT ![f] = [w \in Workers |-> IF w <= 1 THEN "slot" ELSE "unused"]]
    BY <1>2 DEF Spawn, outputs
  <2>2. \A w \in Workers : worker'[f][w] = IF w <= 1 THEN "slot" ELSE "unused" BY <1>1, <2>1 DEF TypeOK
  <2>3. \A w \in Workers : w # 1 => ~(w <= 1) BY BudgetAssumption DEF Workers
  <2>4. job'[f] = "gather" BY <1>1, <2>1 DEF TypeOK
  <2> QED BY <1>2, <2>1, <2>2, <2>3, <2>4 DEF GcSender, Workers
<1>3. CASE Settle(f)
  <2>1. CancelWorkers(f) /\ UNCHANGED <<part_number, results>> /\ job' = [job EXCEPT ![f] = "settle"]
    BY <1>3 DEF Settle, outputs
  <2>2. job'[f] = "settle" BY <1>1, <2>1 DEF TypeOK
  <2> QED BY <1>1, <2>1, <2>2, GcCancelled
<1>4. CASE Return(f)
  <2>1. /\ UNCHANGED <<worker, held, part_number, results>>
        /\ job' = [job EXCEPT ![f] = IF raised[f] = "none" THEN "ok" ELSE raised[f]]
    BY <1>4 DEF Return, pool, outputs
  <2>2. job'[f] \notin {"idle", "scope"} BY <1>1, <2>1 DEF TypeOK
  <2> QED BY <1>1, <2>1, <2>2, GcCancelled
<1>5. CASE Cancel(f)
  <2>1. UNCHANGED <<part_number, results>> BY <1>5 DEF Cancel, outputs
  <2>2. CancelWorkers(f) \/ UNCHANGED <<worker, held>>
    BY <1>5 DEF Cancel, CancelInScope, CancelGathered, CancelResuming
  <2>3. job'[f] \in {"idle", "scope"} => job[f] \in {"idle", "scope"}
    BY <1>1, <1>5 DEF Cancel, CancelInScope, CancelGathered, CancelResuming, TypeOK
  <2> QED BY <1>1, <2>1, <2>2, <2>3, GcCancelled
<1>6. ASSUME NEW w \in Workers, AcquireSlot(f, w) \/ StartRead(f, w) PROVE GcSender(f)'
  <2>1. /\ UNCHANGED <<job, held, part_number, results>> /\ worker[f][w] \in {"slot", "lock"}
        /\ \E to \in {"lock", "read"} : worker' = [worker EXCEPT ![f][w] = to]
    BY <1>6 DEF AcquireSlot, StartRead, outputs
  <2>2. \A v \in Workers : worker'[f][v] = worker[f][v] \/ (v = w /\ worker'[f][v] \in {"lock", "read"})
    BY <1>1, <2>1 DEF TypeOK
  <2> QED BY <2>1, <2>2 DEF GcSender, Workers
<1>7. ASSUME NEW w \in Workers, UploadFail(f, w) \/ ReadEnd(f, w) \/ ReadJoined(f, w) \/ ReadAbandoned(f, w)
      PROVE  GcSender(f)'
  <2>1. /\ UNCHANGED <<job, part_number, results>> /\ worker[f][w] # "unused"
        /\ worker' = worker \/ \E to \in {"done", "failed", "stopped"} : worker' = [worker EXCEPT ![f][w] = to]
        /\ held' = held \/ (worker' = [worker EXCEPT ![f][w] = "failed"] /\ held' = [held EXCEPT ![f][w] = Nothing])
    BY <1>7 DEF UploadFail, ReadEnd, ReadJoined, ReadAbandoned, outputs
  <2>2. \A v \in Workers : /\ worker'[f][v] = worker[f][v] \/ (v = w /\ worker'[f][v] \in {"done", "failed", "stopped"})
                           /\ held'[f][v] = held[f][v] \/ (v = w /\ worker'[f][v] = "failed")
    BY <1>1, <2>1 DEF TypeOK
  <2>3. w = 1 BY <2>1 DEF GcSender
  <2> QED BY <2>1, <2>2, <2>3 DEF GcSender, Workers
<1>8. ASSUME NEW w \in Workers, ReadChunk(f, w) PROVE GcSender(f)'
  <2>1. /\ UNCHANGED <<job, results>> /\ worker[f][w] = "read" /\ worker' = [worker EXCEPT ![f][w] = "upload"]
        /\ part_number' = [part_number EXCEPT ![f] = @ + 1]
        /\ held' = [held EXCEPT ![f][w] = [number |-> NextNumber(f), content |-> position[f] + 1]]
    BY <1>8 DEF ReadChunk
  <2>2. w = 1 BY <2>1 DEF GcSender
  <2>3. part_number[f] = offset[f] BY <2>1, <2>2 DEF GcSender
  <2>4. position[f] = part_number[f]
    BY <1>1, <2>1 DEF FileInv, NumbersFollowReads, Leaving, Ended
  <2>5. /\ part_number'[f] = offset[f] + 1 /\ worker'[f][1] = "upload"
        /\ \A v \in Workers : v # 1 => worker'[f][v] = worker[f][v]
    BY <1>1, <2>1, <2>2, <2>3 DEF TypeOK
  <2>6. held'[f][1].content = offset[f] + 1 BY <1>1, <2>1, <2>2, <2>3, <2>4 DEF TypeOK
  <2>7. job[f] \notin {"idle", "scope"} BY <1>1, <2>1 DEF FileInv, WorkersFollowJob
  <2> QED BY <2>1, <2>5, <2>6, <2>7 DEF GcSender, Workers
<1> QED BY <1>2, <1>3, <1>4, <1>5, <1>6, <1>7, <1>8 DEF ThreadStep

\* The chunk on the way is the one at the offset.
LEMMA SentIsNext ==
    ASSUME NEW f \in Files, GcSender(f), offset[f] \in Nat, NEW c \in Sent(f)
    PROVE  c = [at |-> offset[f], content |-> offset[f] + 1] /\ c \in [at : Nat, content : Nat]
<1>1. PICK w \in Workers : worker[f][w] = "upload" /\ c = [at |-> offset[f], content |-> held[f][w].content]
  BY DEF Sent
<1>2. w = 1 BY <1>1 DEF GcSender
<1>3. held[f][1].content = offset[f] + 1 BY <1>1, <1>2 DEF GcSender
<1>4. c = [at |-> offset[f], content |-> offset[f] + 1] BY <1>1, <1>2, <1>3
<1> QED BY <1>4

\* So it may be left to arrive later.
LEMMA StrayGrows ==
    ASSUME NEW f \in Files, GcTypes, GcSession(f), GcSender(f), stray' = [stray EXCEPT ![f] = @ \cup Sent(f)],
           UNCHANGED <<declared, stored, offset, persisted, misled>>
    PROVE  /\ GcTypes' /\ GcSession(f)' /\ \A g \in Files \ {f} : stray'[g] = stray[g]
<1>1. offset[f] \in Nat BY DEF GcTypes
<1>2. \A c \in Sent(f) : c.content = c.at + 1 /\ c.at <= offset[f] /\ c \in [at : Nat, content : Nat]
  <2> SUFFICES ASSUME NEW c \in Sent(f)
               PROVE  c.content = c.at + 1 /\ c.at <= offset[f] /\ c \in [at : Nat, content : Nat]
    OBVIOUS
  <2>1. c = [at |-> offset[f], content |-> offset[f] + 1] /\ c \in [at : Nat, content : Nat]
    BY <1>1, SentIsNext
  <2> QED BY <1>1, <2>1
<1>3. stray'[f] = stray[f] \cup Sent(f) /\ \A g \in Files \ {f} : stray'[g] = stray[g] BY DEF GcTypes
<1>4. stray' \in [Files -> SUBSET [at : Nat, content : Nat]]
  <2>1. stray[f] \cup Sent(f) \in SUBSET [at : Nat, content : Nat] BY <1>2 DEF GcTypes
  <2> QED BY <2>1 DEF GcTypes
<1>5. GcTypes' BY <1>4 DEF GcTypes
<1>6. GcSession(f)' BY <1>2, <1>3 DEF GcSession
<1> QED BY <1>3, <1>5, <1>6

\* The session is asked for.
LEMMA StartSessionSteps ==
    ASSUME PartsInv, CloudInv, GcInv, backend = "gcs", backend' = backend, NEW f \in Files, StartSession(f)
    PROVE  StepOf(f) /\ GcInv'
<1>1. /\ caller[f] = "idle" /\ caller' = [caller EXCEPT ![f] = "start"]
      /\ UNCHANGED <<source, job, object, stored, worker, held, part_number, results, offset, persisted, stray>>
      /\ misled' = misled
  BY DEF StartSession, Goto, vars, pool, outputs, gcsvars
<1>2. CloudTypes /\ CallFollows(f) BY DEF CloudInv
<1>3. Moves(f) BY <1>1 DEF Moves, Goto, Places, CallerOver
<1>4. CallFollows(f)' BY <1>1, <1>2 DEF CallFollows, CloudTypes, CallerOver
<1>5. StepOf(f) BY <1>1, <1>3, <1>4 DEF StepOf
<1>6. GcInv' BY <1>1 DEF GcInv, GcTypes, GcSession, GcSender, source
<1> QED BY <1>5, <1>6

\* The session is there, and upload_parts begins; or it is not.
LEMMA SessionStartedSteps ==
    ASSUME PartsInv, CloudInv, GcInv, backend = "gcs", backend' = backend, NEW f \in Files, SessionStarted(f)
    PROVE  StepOf(f) /\ GcInv'
<1>1. caller[f] = "start" /\ UNCHANGED <<object, stored, offset, persisted, stray, misled>>
  BY DEF SessionStarted, gcsvars
<1>2. CloudTypes /\ CallFollows(f) /\ TypeOK /\ GcTypes /\ (\A g \in Files : GcSession(g) /\ GcSender(g))
  BY DEF CloudInv, PartsInv, IndInv, GcInv
<1>3. CASE Goto(f, "upload") /\ EnterScope(f)
  <2>1. caller'[f] = "upload" BY <1>2, <1>3 DEF CloudTypes, Goto
  <2>2. UNCHANGED source /\ \A g \in Files \ {f} : job'[g] = job[g] BY <1>2, <1>3, PoolMoves
  <2>3. Moves(f)
    <3> DEFINE p == "upload"
    <3>1. Goto(f, p) /\ p \in Places /\ p # "ok" /\ caller[f] \notin CallerOver BY <1>1, <1>3 DEF Places, CallerOver
    <3> HIDE DEF p
    <3> QED BY <1>1, <3>1 DEF Moves
  <2>4. CallFollows(f)' BY <2>1 DEF CallFollows, CallerOver
  <2>5. StepOf(f) BY <2>2, <2>3, <2>4 DEF StepOf
  <2>6. UNCHANGED <<worker, held, part_number, results>> /\ job[f] = "idle" BY <1>3 DEF EnterScope, pool, outputs
  <2>7. GcSender(f)' BY <1>1, <1>2, <2>6 DEF GcSender, Workers
  <2>8. GcTypes' /\ GcSession(f)' BY <1>1, <1>2, <2>2 DEF GcTypes, GcSession, source
  <2>9. GcInv' BY <1>1, <2>2, <2>6, <2>7, <2>8, GcOneMoves DEF GcAlone
  <2> QED BY <2>5, <2>9
<1>4. CASE \E p \in {"error", "cancelled"} : Goto(f, p) /\ UNCHANGED vars
  <2>1. PICK p \in {"error", "cancelled"} : Goto(f, p) BY <1>4
  <2>2. UNCHANGED <<source, job, worker, held, part_number, results>> BY <1>4 DEF vars, pool, outputs
  <2>3. caller'[f] = p BY <1>2, <2>1 DEF CloudTypes, Goto
  <2>4. caller[f] \notin CallerOver /\ p \in Places /\ p # "ok" BY <1>1 DEF CallerOver, Places
  <2>5. Moves(f) BY <1>1, <2>1, <2>4 DEF Moves
  <2>6. job[f] = "idle" BY <1>1, <1>2 DEF CallFollows
  <2>7. CallFollows(f)' BY <2>2, <2>3, <2>6 DEF CallFollows, CallerOver, Running
  <2>8. StepOf(f) BY <2>2, <2>5, <2>7 DEF StepOf
  <2>9. GcInv' BY <1>1, <2>2 DEF GcInv, GcTypes, GcSession, GcSender, source
  <2> QED BY <2>8, <2>9
<1> QED BY <1>3, <1>4 DEF SessionStarted

\* upload_parts is over: when it returns normally the offset has reached the end
\* of the file, so the server has stored it, unless it misled the upload.
LEMMA PartsSentSteps ==
    ASSUME PartsInv, CloudInv, GcInv, backend = "gcs", backend' = backend, NEW f \in Files, PartsSent(f)
    PROVE  StepOf(f) /\ GcInv'
<1>1. /\ caller[f] = "upload" /\ job[f] \in Returned /\ Goto(f, job[f])
      /\ UNCHANGED <<source, job, object, stored, worker, held, part_number, results, offset, persisted, stray>>
      /\ misled' = misled
  BY DEF PartsSent, vars, pool, outputs, gcsvars
<1>2. CloudTypes /\ TypeOK /\ GcTypes /\ GcSession(f) /\ GcSender(f) BY DEF CloudInv, PartsInv, IndInv, GcInv
<1>3. job[f] = "ok" => f \in stored \cup misled
  <2> SUFFICES ASSUME job[f] = "ok", f \notin misled PROVE f \in stored
    OBVIOUS
  <2>1. parts[f] \in Parts /\ parts[f] = declared[f] /\ parts[f] \in Nat BY <1>2, WholeFiles DEF CloudTypes
  <2>2. parts[f] \in 1..parts[f] BY <2>1 DEF Parts
  <2>3. PICK r \in results[f] : r.number = parts[f] BY <2>2 DEF PartsInv, CompleteWhenOk
  <2>4. parts[f] <= offset[f] BY <1>2, <2>3 DEF GcSender
  <2>5. offset[f] \in Nat /\ Len(persisted[f]) \in Nat BY <1>2 DEF GcTypes
  <2>6. Len(persisted[f]) = declared[f] BY <1>2, <2>1, <2>4, <2>5 DEF GcSession
  <2> QED BY <1>2, <2>6 DEF GcSession
<1>4. Moves(f)
  <2> DEFINE p == job[f]
  <2>1. Goto(f, p) /\ p \in Places /\ (p = "ok" => f \in stored \cup misled) /\ caller[f] \notin CallerOver
    BY <1>1, <1>3 DEF Places, CallerOver, Returned
  <2> HIDE DEF p
  <2> QED BY <1>1, <2>1 DEF Moves
<1>5. caller'[f] = job[f] BY <1>1, <1>2 DEF CloudTypes, Goto
<1>6. CallFollows(f)' BY <1>1, <1>5 DEF CallFollows, Returned, Running
<1>7. StepOf(f) BY <1>1, <1>4, <1>6 DEF StepOf
<1>8. GcInv' BY <1>1 DEF GcInv, GcTypes, GcSession, GcSender, source
<1> QED BY <1>7, <1>8

\* upload_parts at work, cancelled, or a thread of it: the session stays.
LEMMA GcsPoolSteps ==
    ASSUME PartsInv, CloudInv, GcInv, backend = "gcs", backend' = backend, NEW f \in Files,
           GcsPool(f) \/ CancelChunk(f) \/ \E w \in Workers : GcsThread(f, w)
    PROVE  StepOf(f) /\ GcInv'
<1>1. CloudTypes /\ CallFollows(f) /\ TypeOK /\ GcTypes /\ GcSession(f) /\ GcSender(f)
  BY DEF CloudInv, PartsInv, IndInv, GcInv
<1>2. UNCHANGED <<caller, object, stored, offset, persisted, misled>>
  BY DEF GcsPool, CancelChunk, GcsThread, cloudvars, gcsvars
<1>3. offset[f] \in Nat BY <1>1 DEF GcTypes
<1>4. /\ UNCHANGED source /\ \A g \in Files \ {f} : job'[g] = job[g] /\ GcAlone(g)
      /\ CallFollows(f)' /\ GcSender(f)'
  <2>1. CASE GcsPool(f) \/ CancelChunk(f)
    <3>1. \/ Spawn(f, 1) /\ job[f] = "scope"
          \/ Settle(f) \/ Return(f) \/ Cancel(f)
          \/ \E w \in Workers : AcquireSlot(f, w) \/ StartRead(f, w)
      BY <2>1 DEF GcsPool, CancelChunk
    <3>2. EnterScope(f) \/ JobStep(f) \/ Cancel(f) \/ \E w \in Workers : WorkerStep(f, w)
      BY <3>1 DEF JobStep, SpawnWorkers, WorkerStep
    <3>3. UNCHANGED source /\ \A g \in Files \ {f} : job'[g] = job[g] BY <1>1, <3>2, PoolMoves
    <3>4. \A g \in Files \ {f} : GcAlone(g) BY <1>1, <3>2, GcOthersAlone
    <3>5. GcSender(f)' BY <1>1, <1>2, <1>3, <3>1, GcSenderWorks
    <3>6. caller'[f] = "upload" BY <1>2, <2>1 DEF GcsPool, CancelChunk
    <3>7. CallFollows(f)' BY <3>6 DEF CallFollows, CallerOver
    <3> QED BY <3>3, <3>4, <3>5, <3>7
  <2>2. ASSUME NEW w \in Workers, GcsThread(f, w)
        PROVE  /\ UNCHANGED source /\ \A g \in Files \ {f} : job'[g] = job[g] /\ GcAlone(g)
               /\ CallFollows(f)' /\ GcSender(f)'
    <3>1. ThreadStep(f, w) BY <2>2 DEF GcsThread
    <3>2. UNCHANGED source /\ job' = job BY <3>1, WorkerMoves
    <3>3. \A g \in Files \ {f} : GcAlone(g) BY <1>1, <3>1, GcOthersAlone
    <3>4. GcSender(f)' BY <1>1, <1>2, <1>3, <3>1, GcSenderWorks
    <3>5. CallFollows(f)' BY <1>1, <1>2, <3>2 DEF CallFollows
    <3> QED BY <3>2, <3>3, <3>4, <3>5
  <2> QED BY <2>1, <2>2
<1>5. StepOf(f) BY <1>2, <1>4 DEF StepOf, Stays
<1>6. GcTypes' /\ GcSession(f)' /\ \A g \in Files \ {f} : stray'[g] = stray[g]
  <2>1. declared' = declared BY <1>4 DEF source
  <2>2. stray' = stray \/ stray' = [stray EXCEPT ![f] = @ \cup Sent(f)] BY DEF GcsPool, CancelChunk, GcsThread, gcsvars
  <2>3. CASE stray' = stray BY <1>1, <1>2, <2>1, <2>3 DEF GcTypes, GcSession
  <2>4. CASE stray' = [stray EXCEPT ![f] = @ \cup Sent(f)] BY <1>1, <1>2, <2>1, <2>4, StrayGrows
  <2> QED BY <2>2, <2>3, <2>4
<1>7. GcInv' BY <1>2, <1>4, <1>6, GcOneMoves
<1> QED BY <1>5, <1>7

\* The session takes the part after those it has; with the last one the whole
\* file is stored.
LEMMA ServerPersistsSteps ==
    ASSUME PartsInv, CloudInv, GcInv, backend = "gcs", backend' = backend, NEW f \in Files,
           NEW chunk \in Sent(f) \cup stray[f], ServerPersists(f, chunk)
    PROVE  StepOf(f) /\ GcInv'
<1> DEFINE n == Len(persisted[f])
           after == Append(persisted[f], <<f, chunk.content>>)
<1>1. /\ chunk.at < declared[f] /\ chunk.at = n /\ persisted' = [persisted EXCEPT ![f] = after]
      /\ IF Len(after) = declared[f] THEN Store(f, after) ELSE UNCHANGED <<object, stored>>
      /\ UNCHANGED <<source, job, caller, worker, held, part_number, results, offset, stray, misled>>
  BY DEF ServerPersists, Expected, vars, pool, outputs
<1>2. CloudTypes /\ CallFollows(f) /\ TypeOK /\ GcTypes /\ GcSession(f) /\ GcSender(f)
  BY DEF CloudInv, PartsInv, IndInv, GcInv
<1>3. /\ persisted[f] \in Seq(Files \X Nat) /\ n \in Nat /\ offset[f] \in Nat
      /\ parts[f] = declared[f] /\ parts[f] \in Nat
  <2>1. persisted[f] \in Seq(Files \X Nat) /\ offset[f] \in Nat BY <1>2 DEF GcTypes
  <2>2. parts[f] = declared[f] /\ parts[f] \in Nat BY <1>2, WholeFiles DEF CloudTypes
  <2> QED BY <2>1, <2>2
<1>4. chunk.content = n + 1 /\ chunk.at <= offset[f]
  <2>1. CASE chunk \in stray[f] BY <1>1, <1>2, <2>1 DEF GcSession
  <2>2. CASE chunk \in Sent(f)
    <3>1. chunk = [at |-> offset[f], content |-> offset[f] + 1] BY <1>2, <1>3, <2>2, SentIsNext
    <3> QED BY <1>1, <1>3, <3>1
  <2> QED BY <2>1, <2>2
<1>5. n <= offset[f] BY <1>1, <1>4
<1>6. after = Append(persisted[f], <<f, n + 1>>) /\ <<f, n + 1>> \in Files \X Nat BY <1>3, <1>4
<1>7. /\ after \in Seq(Files \X Nat) /\ Len(after) = n + 1
      /\ \A i \in 1..(n + 1) : after[i] = IF i = n + 1 THEN <<f, n + 1>> ELSE persisted[f][i]
  <2> HIDE DEF after
  <2> QED BY <1>3, <1>6
<1>8. \A i \in 1..(n + 1) : after[i] = <<f, i>>
  <2>1. \A i \in 1..(n + 1) : i # n + 1 => i \in 1..n BY <1>3
  <2> HIDE DEF after
  <2> QED BY <1>2, <1>7, <2>1 DEF GcSession
<1> HIDE DEF after
<1>9. persisted'[f] = after /\ \A g \in Files \ {f} : persisted'[g] = persisted[g]
  BY <1>1, <1>2 DEF GcTypes
<1>10. f \notin stored BY <1>1, <1>2, <1>3 DEF GcSession
<1>11. Stays \/ Stores(f)
  <2>1. CASE Len(after) = declared[f]
    <3>1. after = WholeFile(f)
      <4>1. DOMAIN after = 1..(n + 1) /\ after = [i \in 1..(n + 1) |-> after[i]] BY <1>3, <1>7
      <4>2. n + 1 = parts[f] BY <1>3, <1>7, <2>1
      <4> QED BY <1>8, <4>1, <4>2 DEF WholeFile
    <3> QED BY <1>1, <1>10, <2>1, <3>1 DEF Stores
  <2>2. CASE Len(after) # declared[f] BY <1>1, <2>2 DEF Stays
  <2> QED BY <2>1, <2>2
<1>12. CallFollows(f)' BY <1>1, <1>2 DEF CallFollows
<1>13. StepOf(f) BY <1>1, <1>11, <1>12 DEF StepOf
<1>14. (f \in stored' <=> Len(after) = declared[f]) /\ \A g \in Files \ {f} : g \in stored' <=> g \in stored
  BY <1>1, <1>10 DEF Store
<1>15. GcTypes' BY <1>1, <1>2, <1>7, <1>9 DEF GcTypes
<1>16. GcSession(f)'
  <2>1. declared' = declared /\ n + 1 <= declared[f] BY <1>1, <1>3 DEF source
  <2>2. n + 1 <= offset[f] + 1 /\ (offset[f] <= n => offset[f] <= n + 1) BY <1>3, <1>5
  <2> QED BY <1>1, <1>2, <1>5, <1>7, <1>8, <1>9, <1>14, <2>1, <2>2 DEF GcSession
<1>17. GcSender(f)' BY <1>1, <1>2 DEF GcSender
<1>18. GcInv' BY <1>1, <1>9, <1>14, <1>15, <1>16, <1>17, GcOneMoves DEF GcAlone
<1> QED BY <1>13, <1>18

\* The chunk is answered and the offset follows, or it fails and may arrive later.
LEMMA ChunkAnsweredSteps ==
    ASSUME PartsInv, CloudInv, GcInv, backend = "gcs", backend' = backend, NEW f \in Files, NEW w \in Workers,
           ChunkAnswered(f, w)
    PROVE  StepOf(f) /\ GcInv' /\ Misleads
<1>1. UNCHANGED <<caller, object, stored, persisted>> BY DEF ChunkAnswered, cloudvars
<1>2. CloudTypes /\ CallFollows(f) /\ TypeOK /\ FileInv(f) /\ GcTypes /\ GcSession(f) /\ GcSender(f)
  BY DEF CloudInv, PartsInv, IndInv, GcInv
<1>3. WorkerStep(f, w) BY DEF ChunkAnswered, WorkerStep
<1>4. UNCHANGED <<source, job>> /\ \A g \in Files \ {f} : GcAlone(g) BY <1>2, <1>3, WorkerMoves, GcOthersAlone
<1>5. declared' = declared BY <1>4 DEF source
<1>6. offset[f] \in Nat /\ Len(persisted[f]) \in Nat BY <1>2 DEF GcTypes
<1>7. StepOf(f) BY <1>1, <1>2, <1>4 DEF StepOf, Stays, CallFollows
<1>10. Misleads
  <2>1. worker[f][w] = "upload" BY DEF ChunkAnswered, UploadDone, UploadFail
  <2>2. job[f] \in Running BY <1>2, <2>1 DEF FileInv, WorkersFollowJob, Running, Ended, TypeOK
  <2>3. caller[f] \notin CallerOver BY <1>2, <2>2 DEF CallFollows
  <2>4. misled' = misled \/ misled' = misled \cup {f} BY DEF ChunkAnswered
  <2> QED BY <2>3, <2>4 DEF Misleads
<1>8. CASE UploadFail(f, w) /\ stray' = [stray EXCEPT ![f] = @ \cup Sent(f)] /\ UNCHANGED <<offset, misled>>
  <2>1. GcTypes' /\ GcSession(f)' /\ \A g \in Files \ {f} : stray'[g] = stray[g] BY <1>1, <1>2, <1>5, <1>8, StrayGrows
  <2>2. GcSender(f)' BY <1>2, <1>6, <1>8, GcSenderWorks
  <2> QED BY <1>1, <1>4, <1>7, <1>8, <1>10, <2>1, <2>2, GcOneMoves
<1>9. CASE /\ UploadDone(f, w) /\ offset' = [offset EXCEPT ![f] = OffsetAfter(f)] /\ UNCHANGED stray
           /\ misled' = IF offset[f] < Len(persisted[f]) THEN misled ELSE misled \cup {f}
  <2>1. /\ offset[f] < Len(persisted[f]) => offset[f] + 1 <= Len(persisted[f])
        /\ ~(offset[f] < Len(persisted[f])) => f \in misled'
        /\ \A g \in Files \ {f} : g \in misled' <=> g \in misled
    BY <1>6, <1>9
  <2>2. offset'[f] = offset[f] + 1 /\ \A g \in Files \ {f} : offset'[g] = offset[g]
    BY <1>2, <1>9 DEF GcTypes, OffsetAfter
  <2>3. GcTypes'
    <3>1. offset' \in [Files -> Nat] BY <1>2, <1>6, <1>9 DEF GcTypes, OffsetAfter
    <3> QED BY <1>1, <1>2, <1>9, <3>1 DEF GcTypes
  <2>4. GcSession(f)'
    <3>1. /\ Len(persisted[f]) <= offset'[f] + 1
          /\ f \in misled' \/ offset'[f] <= Len(persisted[f])
      BY <1>2, <1>6, <2>1, <2>2 DEF GcSession
    <3>2. \A c \in stray[f] : c.at <= offset'[f] BY <1>2, <1>6, <2>2 DEF GcSession, GcTypes
    <3> QED BY <1>1, <1>2, <1>5, <1>9, <3>1, <3>2 DEF GcSession
  <2>5. /\ worker[f][w] = "upload" /\ worker' = [worker EXCEPT ![f][w] = "slot"]
        /\ results' = [results EXCEPT ![f] = @ \cup {held[f][w]}] /\ part_number' = part_number
    BY <1>9 DEF UploadDone
  <2>6. w = 1 BY <1>2, <2>5 DEF GcSender
  <2>7. worker'[f][1] = "slot" /\ (\A v \in Workers : v # 1 => worker'[f][v] = worker[f][v])
    BY <1>2, <2>5, <2>6 DEF TypeOK
  <2>8. part_number[f] = offset[f] + 1 /\ held[f][w].number = offset[f] + 1
    BY <1>2, <2>5, <2>6 DEF GcSender, FileInv, PartsNumbered
  <2>9. results'[f] = results[f] \cup {held[f][w]} BY <1>2, <2>5 DEF TypeOK
  <2>10. \A r \in results'[f] : r.number <= offset'[f]
    <3>1. \A r \in results[f] : r.number \in Nat BY <1>2, SizeAssumption DEF TypeOK, Parts
    <3> QED BY <1>2, <1>6, <2>2, <2>8, <2>9, <3>1 DEF GcSender
  <2>11. job'[f] \notin {"idle", "scope"} BY <1>2, <1>4, <2>5 DEF FileInv, WorkersFollowJob
  <2>12. GcSender(f)' BY <1>2, <2>2, <2>5, <2>7, <2>8, <2>10, <2>11 DEF GcSender, Workers
  <2> QED BY <1>1, <1>4, <1>7, <1>9, <1>10, <2>1, <2>2, <2>3, <2>4, <2>12, GcOneMoves
<1> QED BY <1>8, <1>9, <1>10 DEF ChunkAnswered

\* Every step on GCS.
LEMMA GcSteps ==
    ASSUME PartsInv, CloudInv, GcInv, backend = "gcs", backend' = backend, GcsNext
    PROVE  GcInv' /\ Misleads /\ \E f \in Files : StepOf(f)
<1>1. PICK f \in Files : \/ GcsPool(f) \/ StartSession(f) \/ SessionStarted(f) \/ PartsSent(f) \/ CancelChunk(f)
                         \/ \E chunk \in Sent(f) \cup stray[f] : ServerPersists(f, chunk)
                         \/ \E w \in Workers : ChunkAnswered(f, w) \/ GcsThread(f, w)
  BY DEF GcsNext
<1>2. StepOf(f) /\ GcInv'
  BY <1>1, GcsPoolSteps, StartSessionSteps, SessionStartedSteps, PartsSentSteps, ServerPersistsSteps,
     ChunkAnsweredSteps
<1>3. Misleads
  <2>1. CASE \E w \in Workers : ChunkAnswered(f, w) BY <2>1, ChunkAnsweredSteps
  <2>2. CASE misled' = misled BY <2>2 DEF Misleads
  <2> QED BY <1>1, <2>1, <2>2
       DEF GcsPool, StartSession, SessionStarted, PartsSent, CancelChunk, ServerPersists, GcsThread, gcsvars
<1> QED BY <1>2, <1>3

-----------------------------------------------------------------------------
(* All backends.                                                           *)

BkInv == CloudInv /\ S3Inv /\ AzInv /\ GcInv

\* No call has begun, and the server has nothing.
LEMMA BkInit == UploadsInit => BkInv
<1> SUFFICES ASSUME UploadsInit PROVE BkInv
  OBVIOUS
<1>1. /\ parts = declared /\ declared \in [Files -> Parts] /\ caller = [f \in Files |-> "idle"]
      /\ object = Old /\ stored = {} /\ job = [f \in Files |-> "idle"]
      /\ worker = [f \in Files |-> [w \in Workers |-> "unused"]] /\ part_number = [f \in Files |-> 0]
      /\ results = [f \in Files |-> {}] /\ backend \in {"s3", "azure", "gcs"}
  BY DEF UploadsInit, CloudInit, Init
<1>2. CloudInv BY <1>1 DEF CloudInv, CloudTypes, CallFollows, Places, CallerOver
<1>3. S3Inv BY <1>1 DEF UploadsInit, S3Init, S3Inv, S3Types, S3Call, CallerOver
<1>4. AzInv BY DEF UploadsInit, AzInit, AzInv
<1>5. GcInv
  <2>1. /\ offset = [f \in Files |-> 0] /\ persisted = [f \in Files |-> <<>>] /\ stray = [f \in Files |-> {}]
    BY DEF UploadsInit, GcsInit
  <2>2. GcTypes BY <2>1 DEF GcTypes
  <2>3. ASSUME NEW f \in Files PROVE GcSession(f)
    <3>1. declared[f] \in Nat /\ declared[f] > 0 BY <1>1, SizeAssumption DEF Parts
    <3>2. persisted[f] = <<>> /\ offset[f] = 0 /\ stray[f] = {} /\ f \notin stored BY <1>1, <2>1
    <3>3. Len(persisted[f]) = 0 BY <3>2
    <3> QED BY <3>1, <3>2, <3>3 DEF GcSession
  <2>4. \A f \in Files : GcSender(f) BY <1>1, <2>1 DEF GcSender, Workers
  <2> QED BY <2>2, <2>3, <2>4 DEF GcInv
<1> QED BY <1>2, <1>3, <1>4, <1>5 DEF BkInv

\* Where no call moves, nothing moves.
LEMMA BkStutters == BkInv /\ UNCHANGED allvars => BkInv'
<1> SUFFICES ASSUME BkInv, UNCHANGED allvars PROVE BkInv'
  OBVIOUS
<1>1. UNCHANGED <<source, job, caller, object, stored, creation, server, pending, cut, staged, offset, persisted,
                  stray, misled, backend, worker, held, part_number, results>>
  BY DEF allvars, vars, cloudvars, s3vars, gcsvars, pool, outputs
<1>2. UNCHANGED <<declared, parts>> BY <1>1 DEF source
<1>3. CloudInv'
  <2>1. \A g \in Files : WholeFile(g)' = WholeFile(g) BY <1>2 DEF WholeFile
  <2> QED BY <1>1, <1>2, <2>1 DEF BkInv, CloudInv, CloudTypes, CallFollows
<1>4. S3Inv' BY <1>1 DEF BkInv, S3Inv, S3Types, S3Call
<1>5. AzInv' BY <1>1 DEF BkInv, AzInv
<1>6. GcInv' BY <1>1, <1>2 DEF BkInv, GcInv, GcTypes, GcSession, GcSender
<1> QED BY <1>3, <1>4, <1>5, <1>6 DEF BkInv

\* On every backend a step is the step of one upload.
LEMMA OneUploadSteps ==
    ASSUME PartsInv, BkInv, UploadsNext
    PROVE  BkInv' /\ Misleads /\ \E f \in Files : StepOf(f)
<1>1. CloudInv /\ S3Inv /\ AzInv /\ GcInv /\ backend' = backend /\ TypeOK
  BY DEF BkInv, UploadsNext, PartsInv, IndInv
<1>2. CASE backend = "s3" /\ S3Next /\ UNCHANGED gcsvars
  <2>0. Misleads BY <1>2 DEF gcsvars, Misleads
  <2>1. S3Inv' /\ \E f \in Files : StepOf(f) BY <1>1, <1>2, S3Steps
  <2>2. CloudInv' BY <1>1, <2>0, <2>1, StepKeepsCloud
  <2>3. AzInv' /\ GcInv' BY <1>1, <1>2 DEF AzInv, GcInv
  <2> QED BY <2>0, <2>1, <2>2, <2>3 DEF BkInv
<1>3. CASE backend = "azure" /\ AzNext /\ UNCHANGED <<s3vars, gcsvars>>
  <2>0. Misleads BY <1>3 DEF gcsvars, Misleads
  <2>1. AzInv' /\ \E f \in Files : StepOf(f) BY <1>1, <1>3, AzSteps
  <2>2. CloudInv' BY <1>1, <2>0, <2>1, StepKeepsCloud
  <2>3. S3Inv' /\ GcInv' BY <1>1, <1>3 DEF S3Inv, S3Types, s3vars, GcInv
  <2> QED BY <2>0, <2>1, <2>2, <2>3 DEF BkInv
<1>4. CASE backend = "gcs" /\ GcsNext /\ UNCHANGED s3vars
  <2>1. GcInv' /\ Misleads /\ \E f \in Files : StepOf(f) BY <1>1, <1>4, GcSteps
  <2>2. CloudInv' BY <1>1, <2>1, StepKeepsCloud
  <2>3. S3Inv' /\ AzInv' BY <1>1, <1>4 DEF S3Inv, S3Types, s3vars, AzInv
  <2> QED BY <2>1, <2>2, <2>3 DEF BkInv
<1> QED BY <1>2, <1>3, <1>4 DEF UploadsNext

\* So the invariant holds throughout.
LEMMA BkAlways == UploadsSpec => [](PartsInv /\ BkInv)
<1>1. PartsInv /\ BkInv /\ [UploadsNext \/ UploadsIdle]_allvars => BkInv'
  BY OneUploadSteps, BkStutters DEF UploadsIdle
<1> QED BY <1>1, BkInit, PartsAlways, PTL DEF UploadsSpec

\* S3's except block begins when upload_parts is over, and a call ends after it.
LEMMA AbortsSettled == PartsInv /\ BkInv => AbortAfterSettle
<1> SUFFICES ASSUME PartsInv, BkInv, NEW f \in Files, caller[f] = "abort" \/ caller[f] \in CallerOver,
                    NEW w \in Workers
             PROVE  worker[f][w] \in Ended
  BY DEF AbortAfterSettle
<1>1. TypeOK /\ CallFollows(f) /\ WorkersFollowJob(f) BY DEF PartsInv, BkInv, IndInv, FileInv, CloudInv
<1>2. job[f] \in Returned \cup {"idle"} BY <1>1 DEF CallFollows, TypeOK
<1> QED BY <1>1, <1>2 DEF WorkersFollowJob, Ended

\* GCS's session is the beginning of the file.
LEMMA SessionsArePrefixes == PartsInv /\ BkInv => GcsSessionIsPrefix
<1> SUFFICES ASSUME PartsInv, BkInv, backend = "gcs", NEW f \in Files
             PROVE  /\ persisted[f] = SubSeq(WholeFile(f), 1, Len(persisted[f]))
                    /\ Len(persisted[f]) <= offset[f] + 1 /\ (f \in misled \/ offset[f] <= Len(persisted[f]))
                    /\ \A chunk \in Sent(f) : chunk.at = chunk.content - 1
  BY DEF GcsSessionIsPrefix, SessionIsPrefix
<1>1. TypeOK /\ parts = declared /\ GcTypes /\ GcSession(f) /\ GcSender(f)
  BY DEF PartsInv, IndInv, BkInv, CloudInv, CloudTypes, GcInv
<1>2. persisted[f] \in Seq(Files \X Nat) /\ offset[f] \in Nat BY <1>1 DEF GcTypes
<1>3. parts[f] \in Nat /\ parts[f] = declared[f] BY <1>1, WholeFiles
<1>4. persisted[f] = SubSeq(WholeFile(f), 1, Len(persisted[f]))
  <2> DEFINE n == Len(persisted[f])
  <2>1. n \in Nat /\ n <= parts[f] BY <1>1, <1>2, <1>3 DEF GcSession
  <2>2. persisted[f] = [i \in 1..n |-> persisted[f][i]] BY <1>2
  <2>3. SubSeq(WholeFile(f), 1, n) = [i \in 1..n |-> WholeFile(f)[i]] BY <2>1
  <2>4. \A i \in 1..n : persisted[f][i] = <<f, i>> /\ WholeFile(f)[i] = <<f, i>>
    BY <1>1, <1>3, <2>1 DEF GcSession, WholeFile
  <2> HIDE DEF n
  <2>5. SubSeq(WholeFile(f), 1, n) = persisted[f] BY <2>2, <2>3, <2>4
  <2> QED BY <2>5 DEF n
<1>5. \A chunk \in Sent(f) : chunk.at = chunk.content - 1
  <2> SUFFICES ASSUME NEW chunk \in Sent(f) PROVE chunk.at = chunk.content - 1
    OBVIOUS
  <2>1. chunk = [at |-> offset[f], content |-> offset[f] + 1] BY <1>1, <1>2, SentIsNext
  <2> QED BY <1>2, <2>1
<1> QED BY <1>1, <1>4, <1>5 DEF GcSession

\* What an upload leaves on the server is what its call believes to have left:
\* no worker sends parts behind an abort, no multipart upload stays open, and a
\* resumable session is as long as its offset says.
THEOREM InStep == UploadsSpec => []ServerInStep
<1>1. S3Inv /\ CloudInv => NoOrphanUpload
  BY DEF S3Inv, S3Call, NoOrphanUpload, CloudInv, CloudTypes
<1>2. PartsInv /\ BkInv => ServerInStep
  BY <1>1, AbortsSettled, SessionsArePrefixes DEF BkInv, ServerInStep
<1> QED BY <1>2, BkAlways, PTL

\* Whatever a backend does inside, its uploads replace the object one by one by
\* the whole of one file, in source order, and one that returns has done so.
THEOREM UploadsAtomic == UploadsSpec => UploadIsAtomic
<1>1. UploadsInit => Abstract!Init
  <2> SUFFICES ASSUME UploadsInit PROVE Abstract!Init
    OBVIOUS
  <2>1. object = Old /\ stored = {} /\ caller = [f \in Files |-> "idle"] BY DEF UploadsInit, CloudInit
  <2>2. Init BY DEF UploadsInit, CloudInit
  <2>3. Owner = "before"
    <3>1. TypeOK /\ parts = declared BY <2>2, InitHolds DEF IndInv, UploadsInit, CloudInit
    <3> QED BY <2>1, <3>1, OwnerIs DEF OwnerMatches
  <2>4. [f \in Files |-> CallOf(f)] = [f \in Files |-> "running"] BY <2>1 DEF CallOf
  <2> QED BY <2>1, <2>3, <2>4 DEF Abstract!Init
<1>2. PartsInv /\ PartsInv' /\ BkInv /\ [UploadsNext \/ UploadsIdle]_allvars => [Abstract!Next]_(Abstract!vars)
  <2> SUFFICES ASSUME PartsInv, PartsInv', BkInv, [UploadsNext \/ UploadsIdle]_allvars
               PROVE  [Abstract!Next]_(Abstract!vars)
    OBVIOUS
  <2>1. TypeOK /\ TypeOK' /\ CloudInv BY DEF PartsInv, IndInv, BkInv
  <2>2. CASE UploadsNext BY <2>1, <2>2, OneUploadSteps, StepImplements
  <2>3. CASE UNCHANGED allvars
    <3>1. UNCHANGED <<object, stored, caller, parts, misled>> BY <2>3 DEF allvars, vars, cloudvars, source, gcsvars
    <3>2. Owner' = Owner BY <3>1 DEF Owner, WholeFile
    <3>3. [g \in Files |-> CallOf(g)]' = [g \in Files |-> CallOf(g)] BY <3>1 DEF CallOf
    <3> QED BY <3>1, <3>2, <3>3 DEF CallOf, Abstract!vars
  <2> QED BY <2>2, <2>3 DEF UploadsIdle
<1> QED BY <1>1, <1>2, BkAlways, PTL DEF UploadsSpec, UploadIsAtomic, Abstract!Spec

=============================================================================
