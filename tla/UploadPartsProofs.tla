------------------------- MODULE UploadPartsProofs -------------------------
(***************************************************************************)
(* Proofs about UploadParts, for any number of uploads, workers, slots and *)
(* parts.  The properties are not inductive by themselves; IndInv is.      *)
(***************************************************************************)
EXTENDS UploadParts, FiniteSetTheorems, TLAPS

\* A worker that has ended or is about to end without another read.
Leaving == Ended \cup {"join"}

\* Where the workers of an upload may be, given where its coroutine is.
WorkersFollowJob(f) ==
    /\ job[f] \in {"idle", "scope"} =>
         /\ \A w \in Workers : worker[f][w] = "unused"
         /\ position[f] = part_number[f]
    /\ job[f] \in Returned => \A w \in Workers : worker[f][w] \in Ended

\* Cancelling reaches all the workers of an upload at once, so none of them
\* reads again once one is stopped or waits for its thread.
StopTogether(f) ==
    (\E w \in Workers : worker[f][w] \in {"join", "stopped"}) =>
        \A w \in Workers : worker[f][w] \in Leaving

\* A thread belongs to a worker that holds the read lock, or to one that left;
\* there is one thread at most.
ThreadsAndLock(f) ==
    /\ \A w \in Workers :
         /\ worker[f][w] \in {"read", "join"} => read_lock[f] = w /\ w \in reading[f]
         /\ w \in reading[f] => worker[f][w] \in {"read", "join", "stopped"}
    /\ \A v, w \in reading[f] : v = w

\* Numbers run behind the file only by reads of workers that were leaving.
NumbersFollowReads(f) ==
    /\ part_number[f] <= position[f]
    /\ position[f] <= parts[f]
    /\ position[f] # part_number[f] =>
         /\ \A w \in Workers : worker[f][w] \in Leaving
         /\ \E w \in Workers : worker[f][w] \in {"stopped", "failed"}

\* The parts in hand and the parts uploaded carry the number of their place.
PartsNumbered(f) ==
    /\ \A r \in results[f] : r.number = r.content
    /\ \A w \in Workers : worker[f][w] = "upload" =>
         held[f][w] \in [number : Parts, content : Parts] /\ held[f][w].number = held[f][w].content

\* Without a cancellation from outside no thread is left behind.
OnlyCancelAbandons(f) ==
    ~interrupted[f] =>
        /\ job[f] = "gather" => \A w \in Workers : worker[f][w] \notin {"join", "stopped"}
        /\ \A w \in reading[f] : worker[f][w] \in {"read", "join"}

FileInv(f) == /\ WorkersFollowJob(f) /\ StopTogether(f) /\ ThreadsAndLock(f)
              /\ NumbersFollowReads(f) /\ PartsNumbered(f) /\ OnlyCancelAbandons(f)

IndInv == TypeOK /\ \A f \in Files : FileInv(f)

-----------------------------------------------------------------------------
(* A step of one upload leaves the others alone.                           *)

Frame(g) ==
    /\ parts'[g] = parts[g] /\ job'[g] = job[g] /\ interrupted'[g] = interrupted[g]
    /\ worker'[g] = worker[g] /\ read_lock'[g] = read_lock[g] /\ reading'[g] = reading[g]
    /\ position'[g] = position[g] /\ part_number'[g] = part_number[g]
    /\ held'[g] = held[g] /\ results'[g] = results[g]

\* The invariant of an upload mentions nothing but that upload's state.
LEMMA FrameKeeps ==
    ASSUME NEW g \in Files, FileInv(g), Frame(g)
    PROVE  FileInv(g)'
<1> USE DEF Frame, FileInv
<1>1. WorkersFollowJob(g)' BY DEF WorkersFollowJob
<1>2. StopTogether(g)' BY DEF StopTogether
<1>3. ThreadsAndLock(g)' BY DEF ThreadsAndLock
<1>4. NumbersFollowReads(g)' BY DEF NumbersFollowReads
<1>5. PartsNumbered(g)' BY DEF PartsNumbered
<1>6. OnlyCancelAbandons(g)' BY DEF OnlyCancelAbandons
<1> QED BY <1>1, <1>2, <1>3, <1>4, <1>5, <1>6

\* So it is enough to look at the upload that takes the step.
LEMMA OneUploadMoves ==
    ASSUME IndInv, NEW f \in Files, TypeOK', FileInv(f)', \A g \in Files \ {f} : Frame(g)
    PROVE  IndInv'
<1>1. ASSUME NEW g \in Files PROVE FileInv(g)'
  <2>1. CASE g = f BY <2>1
  <2>2. CASE g # f
    <3>1. FileInv(g) /\ Frame(g) BY <2>2 DEF IndInv
    <3> QED BY <3>1, FrameKeeps
  <2> QED BY <2>1, <2>2
<1> QED BY <1>1 DEF IndInv

-----------------------------------------------------------------------------
\* AcquireSlot keeps the invariant.
LEMMA AcquireSlotKeeps ==
    ASSUME IndInv, NEW f \in Files, NEW w \in Workers, AcquireSlot(f, w)
    PROVE  IndInv'
<1>1. UNCHANGED <<declared, parts, job, interrupted, raised, active_files, read_lock, reading,
                  held, position, part_number, results>>
  BY DEF AcquireSlot, source, outputs
<1>2. TypeOK'
  <2>1. worker' \in [Files -> [Workers -> WorkerStates]]
    BY DEF IndInv, TypeOK, AcquireSlot, WorkerStates, Holding
  <2>2. slots' \in Int
    BY DEF IndInv, TypeOK, AcquireSlot
  <2> QED BY <1>1, <2>1, <2>2 DEF IndInv, TypeOK
<1>3. \A g \in Files \ {f} : Frame(g)
  BY <1>1 DEF IndInv, TypeOK, AcquireSlot, Frame
<1>4. FileInv(f)'
  <2>1. /\ worker[f][w] = "slot"
        /\ \A v \in Workers : worker'[f][v] = IF v = w THEN "lock" ELSE worker[f][v]
    BY DEF IndInv, TypeOK, AcquireSlot
  <2>2. FileInv(f) BY DEF IndInv
  <2> USE <1>1, <2>1, <2>2 DEF FileInv, Ended, Leaving
  <2>3. WorkersFollowJob(f)' BY DEF WorkersFollowJob
  <2>4. StopTogether(f)' BY DEF StopTogether
  <2>5. ThreadsAndLock(f)' BY DEF ThreadsAndLock, IndInv, TypeOK
  <2>6. NumbersFollowReads(f)' BY DEF NumbersFollowReads
  <2>7. PartsNumbered(f)' BY DEF PartsNumbered
  <2>8. OnlyCancelAbandons(f)' BY DEF OnlyCancelAbandons, IndInv, TypeOK
  <2> QED BY <2>3, <2>4, <2>5, <2>6, <2>7, <2>8
<1> QED BY <1>2, <1>3, <1>4, OneUploadMoves

\* StartRead keeps the invariant.
LEMMA StartReadKeeps ==
    ASSUME IndInv, NEW f \in Files, NEW w \in Workers, StartRead(f, w)
    PROVE  IndInv'
<1>1. UNCHANGED <<declared, parts, job, interrupted, raised, active_files, slots, held,
                  position, part_number, results>>
  BY DEF StartRead, source, budget, outputs
<1>2. TypeOK'
  <2>1. worker' \in [Files -> [Workers -> WorkerStates]]
    BY DEF IndInv, TypeOK, StartRead, WorkerStates, Holding
  <2>2. read_lock' \in [Files -> Workers \cup {0}] /\ reading' \in [Files -> SUBSET Workers]
    BY DEF IndInv, TypeOK, StartRead
  <2> QED BY <1>1, <2>1, <2>2 DEF IndInv, TypeOK
<1>3. \A g \in Files \ {f} : Frame(g)
  BY <1>1 DEF IndInv, TypeOK, StartRead, Frame
<1>4. FileInv(f)'
  <2>1. /\ worker[f][w] = "lock" /\ read_lock[f] = 0
        /\ read_lock'[f] = w /\ reading'[f] = reading[f] \cup {w}
        /\ \A v \in Workers : worker'[f][v] = IF v = w THEN "read" ELSE worker[f][v]
    BY DEF IndInv, TypeOK, StartRead, LockFree
  <2>2. FileInv(f) /\ reading[f] \subseteq Workers /\ 0 \notin Workers
    BY DEF IndInv, TypeOK, Workers
  <2> USE <1>1, <2>1, <2>2 DEF FileInv, Ended, Leaving
  <2>3. reading[f] = {} BY DEF ThreadsAndLock, StopTogether
  <2>4. WorkersFollowJob(f)' BY DEF WorkersFollowJob
  <2>5. StopTogether(f)' BY DEF StopTogether
  <2>6. ThreadsAndLock(f)' BY <2>3 DEF ThreadsAndLock
  <2>7. NumbersFollowReads(f)' BY DEF NumbersFollowReads
  <2>8. PartsNumbered(f)' BY DEF PartsNumbered
  <2>9. OnlyCancelAbandons(f)' BY <2>3 DEF OnlyCancelAbandons
  <2> QED BY <2>4, <2>5, <2>6, <2>7, <2>8, <2>9
<1> QED BY <1>2, <1>3, <1>4, OneUploadMoves

\* ReadChunk keeps the invariant.
LEMMA ReadChunkKeeps ==
    ASSUME IndInv, NEW f \in Files, NEW w \in Workers, ReadChunk(f, w)
    PROVE  IndInv'
<1>1. UNCHANGED <<declared, parts, job, interrupted, raised, active_files, slots, results>>
  BY DEF ReadChunk, source, budget
<1>2. /\ worker[f][w] = "read" /\ w \in reading[f] /\ position[f] < parts[f]
      /\ read_lock'[f] = 0 /\ reading'[f] = reading[f] \ {w}
      /\ position'[f] = position[f] + 1 /\ part_number'[f] = part_number[f] + 1
      /\ held'[f][w] = [number |-> part_number[f] + 1, content |-> position[f] + 1]
      /\ \A v \in Workers : /\ worker'[f][v] = IF v = w THEN "upload" ELSE worker[f][v]
                            /\ v # w => held'[f][v] = held[f][v]
  BY SizeAssumption DEF IndInv, TypeOK, ReadChunk, AtEof, NextNumber, LockReleased
<1>3. FileInv(f) /\ reading[f] \subseteq Workers
      /\ position[f] \in Nat /\ part_number[f] \in Nat /\ parts[f] \in 0..MaxParts
  BY SizeAssumption DEF IndInv, TypeOK
<1>4. position[f] = part_number[f]
  BY <1>2, <1>3 DEF FileInv, NumbersFollowReads, Leaving, Ended
<1>5. position[f] + 1 \in Parts
  BY <1>2, <1>3, SizeAssumption DEF Parts
<1>6. TypeOK'
  <2>1. worker' \in [Files -> [Workers -> WorkerStates]]
    BY DEF IndInv, TypeOK, ReadChunk, WorkerStates, Holding
  <2>2. read_lock' \in [Files -> Workers \cup {0}] /\ reading' \in [Files -> SUBSET Workers]
    BY DEF IndInv, TypeOK, ReadChunk, LockReleased
  <2>3. position' \in [Files -> 0..MaxParts] /\ part_number' \in [Files -> 0..MaxParts]
    BY <1>4, <1>5, SizeAssumption DEF IndInv, TypeOK, ReadChunk, Parts
  <2>4. held' \in [Files -> [Workers -> [number : 0..MaxParts, content : 0..MaxParts]]]
    <3>1. [number |-> NextNumber(f), content |-> position[f] + 1]
            \in [number : 0..MaxParts, content : 0..MaxParts]
      BY <1>4, <1>5, SizeAssumption DEF NextNumber, Parts
    <3> QED BY <3>1 DEF IndInv, TypeOK, ReadChunk
  <2> QED BY <1>1, <2>1, <2>2, <2>3, <2>4 DEF IndInv, TypeOK
<1>7. \A g \in Files \ {f} : Frame(g)
  BY <1>1 DEF IndInv, TypeOK, ReadChunk, LockReleased, Frame
<1>8. FileInv(f)'
  <2> USE <1>1, <1>2, <1>3 DEF FileInv, Ended, Leaving
  <2>1. WorkersFollowJob(f)' BY DEF WorkersFollowJob
  <2>2. StopTogether(f)' BY DEF StopTogether
  <2>3. ThreadsAndLock(f)' BY DEF ThreadsAndLock
  <2>4. NumbersFollowReads(f)' BY <1>4 DEF NumbersFollowReads
  <2>5. PartsNumbered(f)' BY <1>4, <1>5 DEF PartsNumbered
  <2>6. OnlyCancelAbandons(f)' BY DEF OnlyCancelAbandons, ThreadsAndLock
  <2> QED BY <2>1, <2>2, <2>3, <2>4, <2>5, <2>6
<1> QED BY <1>6, <1>7, <1>8, OneUploadMoves

\* ReadEnd keeps the invariant.
LEMMA ReadEndKeeps ==
    ASSUME IndInv, NEW f \in Files, NEW w \in Workers, ReadEnd(f, w)
    PROVE  IndInv'
<1>1. UNCHANGED <<declared, parts, job, interrupted, raised, active_files, held, position,
                  part_number, results>>
  BY DEF ReadEnd, source, outputs
<1>2. PICK end \in {"done", "failed"} : worker' = [worker EXCEPT ![f][w] = end]
  BY DEF ReadEnd
<1>3. TypeOK'
  <2>1. worker' \in [Files -> [Workers -> WorkerStates]]
    BY <1>2 DEF IndInv, TypeOK, WorkerStates, Ended
  <2>2. /\ read_lock' \in [Files -> Workers \cup {0}] /\ reading' \in [Files -> SUBSET Workers]
        /\ slots' \in Int
    BY DEF IndInv, TypeOK, ReadEnd, LockReleased
  <2> QED BY <1>1, <2>1, <2>2 DEF IndInv, TypeOK
<1>4. \A g \in Files \ {f} : Frame(g)
  BY <1>1, <1>2 DEF IndInv, TypeOK, ReadEnd, LockReleased, Frame
<1>5. FileInv(f)'
  <2>1. /\ worker[f][w] = "read" /\ w \in reading[f]
        /\ read_lock'[f] = 0 /\ reading'[f] = reading[f] \ {w}
        /\ \A v \in Workers : worker'[f][v] = IF v = w THEN end ELSE worker[f][v]
    BY <1>2 DEF IndInv, TypeOK, ReadEnd, LockReleased
  <2>2. FileInv(f) /\ reading[f] \subseteq Workers /\ end \in {"done", "failed"}
    BY <1>2 DEF IndInv, TypeOK
  <2> USE <1>1, <2>1, <2>2 DEF FileInv, Ended, Leaving
  <2>3. WorkersFollowJob(f)' BY DEF WorkersFollowJob
  <2>4. StopTogether(f)' BY DEF StopTogether
  <2>5. ThreadsAndLock(f)' BY DEF ThreadsAndLock
  <2>6. NumbersFollowReads(f)' BY DEF NumbersFollowReads
  <2>7. PartsNumbered(f)' BY DEF PartsNumbered
  <2>8. OnlyCancelAbandons(f)' BY DEF OnlyCancelAbandons, ThreadsAndLock
  <2> QED BY <2>3, <2>4, <2>5, <2>6, <2>7, <2>8
<1> QED BY <1>3, <1>4, <1>5, OneUploadMoves

\* ReadJoined keeps the invariant.
LEMMA ReadJoinedKeeps ==
    ASSUME IndInv, NEW f \in Files, NEW w \in Workers, ReadJoined(f, w)
    PROVE  IndInv'
<1>1. UNCHANGED <<declared, parts, job, interrupted, raised, active_files, held, part_number,
                  results>>
  BY DEF ReadJoined, source, outputs
<1>2. PICK end \in {"stopped", "failed"} : worker' = [worker EXCEPT ![f][w] = end]
  BY DEF ReadJoined
<1>3. /\ worker[f][w] = "join" /\ w \in reading[f]
      /\ read_lock'[f] = 0 /\ reading'[f] = reading[f] \ {w}
      /\ position'[f] = IF position[f] >= parts[f] THEN position[f] ELSE position[f] + 1
      /\ \A v \in Workers : worker'[f][v] = IF v = w THEN end ELSE worker[f][v]
  BY <1>2 DEF IndInv, TypeOK, ReadJoined, LockReleased, AtEof
<1>4. /\ FileInv(f) /\ reading[f] \subseteq Workers /\ end \in {"stopped", "failed"}
      /\ position[f] \in Nat /\ part_number[f] \in Nat /\ parts[f] \in 0..MaxParts
  BY <1>2, SizeAssumption DEF IndInv, TypeOK
<1>5. TypeOK'
  <2>1. worker' \in [Files -> [Workers -> WorkerStates]]
    BY <1>2 DEF IndInv, TypeOK, WorkerStates, Ended
  <2>2. /\ read_lock' \in [Files -> Workers \cup {0}] /\ reading' \in [Files -> SUBSET Workers]
        /\ slots' \in Int
    BY DEF IndInv, TypeOK, ReadJoined, LockReleased
  <2>3. position' \in [Files -> 0..MaxParts]
    BY <1>4, SizeAssumption DEF IndInv, TypeOK, ReadJoined, AtEof
  <2> QED BY <1>1, <2>1, <2>2, <2>3 DEF IndInv, TypeOK
<1>6. \A g \in Files \ {f} : Frame(g)
  BY <1>1, <1>2 DEF IndInv, TypeOK, ReadJoined, LockReleased, Frame
<1>7. FileInv(f)'
  <2> USE <1>1, <1>3, <1>4 DEF FileInv, Ended, Leaving
  <2>1. WorkersFollowJob(f)' BY DEF WorkersFollowJob
  <2>2. StopTogether(f)' BY DEF StopTogether
  <2>3. ThreadsAndLock(f)' BY DEF ThreadsAndLock
  <2>4. NumbersFollowReads(f)' BY DEF NumbersFollowReads, StopTogether
  <2>5. PartsNumbered(f)' BY DEF PartsNumbered
  <2>6. OnlyCancelAbandons(f)' BY DEF OnlyCancelAbandons, ThreadsAndLock
  <2> QED BY <2>1, <2>2, <2>3, <2>4, <2>5, <2>6
<1> QED BY <1>5, <1>6, <1>7, OneUploadMoves

\* ReadAbandoned keeps the invariant.
LEMMA ReadAbandonedKeeps ==
    ASSUME IndInv, NEW f \in Files, NEW w \in Workers, ReadAbandoned(f, w)
    PROVE  IndInv'
<1>1. UNCHANGED <<declared, parts, job, interrupted, raised, active_files, slots, worker, read_lock,
                  held, part_number, results>>
  BY DEF ReadAbandoned, source, budget, outputs
<1>2. /\ worker[f][w] = "stopped" /\ w \in reading[f] /\ reading'[f] = reading[f] \ {w}
      /\ position'[f] = IF position[f] >= parts[f] THEN position[f] ELSE position[f] + 1
  BY DEF IndInv, TypeOK, ReadAbandoned, AtEof
<1>3. /\ FileInv(f) /\ reading[f] \subseteq Workers
      /\ position[f] \in Nat /\ part_number[f] \in Nat /\ parts[f] \in 0..MaxParts
  BY SizeAssumption DEF IndInv, TypeOK
<1>4. TypeOK'
  <2>1. reading' \in [Files -> SUBSET Workers]
    BY DEF IndInv, TypeOK, ReadAbandoned
  <2>2. position' \in [Files -> 0..MaxParts]
    BY <1>3, SizeAssumption DEF IndInv, TypeOK, ReadAbandoned, AtEof
  <2> QED BY <1>1, <2>1, <2>2 DEF IndInv, TypeOK
<1>5. \A g \in Files \ {f} : Frame(g)
  BY <1>1 DEF IndInv, TypeOK, ReadAbandoned, Frame
<1>6. FileInv(f)'
  <2> USE <1>1, <1>2, <1>3 DEF FileInv, Ended, Leaving
  <2>1. WorkersFollowJob(f)' BY DEF WorkersFollowJob
  <2>2. StopTogether(f)' BY DEF StopTogether
  <2>3. ThreadsAndLock(f)' BY DEF ThreadsAndLock, StopTogether
  <2>4. NumbersFollowReads(f)' BY DEF NumbersFollowReads, StopTogether
  <2>5. PartsNumbered(f)' BY DEF PartsNumbered
  <2>6. OnlyCancelAbandons(f)' BY DEF OnlyCancelAbandons, ThreadsAndLock
  <2> QED BY <2>1, <2>2, <2>3, <2>4, <2>5, <2>6
<1> QED BY <1>4, <1>5, <1>6, OneUploadMoves

\* UploadDone keeps the invariant.
LEMMA UploadDoneKeeps ==
    ASSUME IndInv, NEW f \in Files, NEW w \in Workers, UploadDone(f, w)
    PROVE  IndInv'
<1>1. UNCHANGED <<declared, parts, job, interrupted, raised, active_files, read_lock, reading,
                  position, part_number>>
  BY DEF UploadDone, source
<1>2. /\ worker[f][w] = "upload" /\ results'[f] = results[f] \cup {held[f][w]}
      /\ \A v \in Workers : /\ worker'[f][v] = IF v = w THEN "slot" ELSE worker[f][v]
                            /\ v # w => held'[f][v] = held[f][v]
  BY DEF IndInv, TypeOK, UploadDone
<1>3. FileInv(f) /\ reading[f] \subseteq Workers
  BY DEF IndInv, TypeOK
<1>4. held[f][w] \in [number : Parts, content : Parts] /\ held[f][w].number = held[f][w].content
  BY <1>2, <1>3 DEF FileInv, PartsNumbered
<1>5. TypeOK'
  <2>1. worker' \in [Files -> [Workers -> WorkerStates]]
    BY DEF IndInv, TypeOK, UploadDone, WorkerStates, Waiting
  <2>2. held' \in [Files -> [Workers -> [number : 0..MaxParts, content : 0..MaxParts]]]
    <3>1. Nothing \in [number : 0..MaxParts, content : 0..MaxParts]
      BY SizeAssumption DEF Nothing
    <3> QED BY <3>1 DEF IndInv, TypeOK, UploadDone
  <2>3. results' \in [Files -> SUBSET [number : Parts, content : Parts]]
    BY <1>4 DEF IndInv, TypeOK, UploadDone
  <2>4. slots' \in Int BY DEF IndInv, TypeOK, UploadDone
  <2> QED BY <1>1, <2>1, <2>2, <2>3, <2>4 DEF IndInv, TypeOK
<1>6. \A g \in Files \ {f} : Frame(g)
  BY <1>1 DEF IndInv, TypeOK, UploadDone, Frame
<1>7. FileInv(f)'
  <2> USE <1>1, <1>2, <1>3 DEF FileInv, Ended, Leaving
  <2>1. WorkersFollowJob(f)' BY DEF WorkersFollowJob
  <2>2. StopTogether(f)' BY DEF StopTogether
  <2>3. ThreadsAndLock(f)' BY DEF ThreadsAndLock
  <2>4. NumbersFollowReads(f)' BY DEF NumbersFollowReads
  <2>5. PartsNumbered(f)' BY <1>4 DEF PartsNumbered
  <2>6. OnlyCancelAbandons(f)' BY DEF OnlyCancelAbandons
  <2> QED BY <2>1, <2>2, <2>3, <2>4, <2>5, <2>6
<1> QED BY <1>5, <1>6, <1>7, OneUploadMoves

\* UploadFail keeps the invariant.
LEMMA UploadFailKeeps ==
    ASSUME IndInv, NEW f \in Files, NEW w \in Workers, UploadFail(f, w)
    PROVE  IndInv'
<1>1. UNCHANGED <<declared, parts, job, interrupted, raised, active_files, read_lock, reading,
                  position, part_number, results>>
  BY DEF UploadFail, source, outputs
<1>2. /\ worker[f][w] = "upload"
      /\ \A v \in Workers : /\ worker'[f][v] = IF v = w THEN "failed" ELSE worker[f][v]
                            /\ v # w => held'[f][v] = held[f][v]
  BY DEF IndInv, TypeOK, UploadFail
<1>3. FileInv(f) /\ reading[f] \subseteq Workers
  BY DEF IndInv, TypeOK
<1>4. TypeOK'
  <2>1. worker' \in [Files -> [Workers -> WorkerStates]]
    BY DEF IndInv, TypeOK, UploadFail, WorkerStates, Ended
  <2>2. held' \in [Files -> [Workers -> [number : 0..MaxParts, content : 0..MaxParts]]]
    <3>1. Nothing \in [number : 0..MaxParts, content : 0..MaxParts]
      BY SizeAssumption DEF Nothing
    <3> QED BY <3>1 DEF IndInv, TypeOK, UploadFail
  <2>3. slots' \in Int BY DEF IndInv, TypeOK, UploadFail
  <2> QED BY <1>1, <2>1, <2>2, <2>3 DEF IndInv, TypeOK
<1>5. \A g \in Files \ {f} : Frame(g)
  BY <1>1 DEF IndInv, TypeOK, UploadFail, Frame
<1>6. FileInv(f)'
  <2> USE <1>1, <1>2, <1>3 DEF FileInv, Ended, Leaving
  <2>1. WorkersFollowJob(f)' BY DEF WorkersFollowJob
  <2>2. StopTogether(f)' BY DEF StopTogether
  <2>3. ThreadsAndLock(f)' BY DEF ThreadsAndLock
  <2>4. NumbersFollowReads(f)' BY DEF NumbersFollowReads
  <2>5. PartsNumbered(f)' BY DEF PartsNumbered
  <2>6. OnlyCancelAbandons(f)' BY DEF OnlyCancelAbandons
  <2> QED BY <2>1, <2>2, <2>3, <2>4, <2>5, <2>6
<1> QED BY <1>4, <1>5, <1>6, OneUploadMoves

-----------------------------------------------------------------------------
\* EnterScope keeps the invariant.
LEMMA EnterScopeKeeps ==
    ASSUME IndInv, NEW f \in Files, EnterScope(f)
    PROVE  IndInv'
<1>1. UNCHANGED <<declared, parts, interrupted, raised, slots, worker, read_lock, reading, held,
                  position, part_number, results>>
  BY DEF EnterScope, source, pool, outputs
<1>2. job[f] = "idle" /\ job'[f] = "scope" /\ FileInv(f)
  BY DEF IndInv, TypeOK, EnterScope
<1>3. TypeOK'
  <2>1. job' \in [Files -> Running \cup Returned \cup {"idle"}] /\ active_files' \in Int
    BY DEF IndInv, TypeOK, EnterScope, Running
  <2> QED BY <1>1, <2>1 DEF IndInv, TypeOK
<1>4. \A g \in Files \ {f} : Frame(g)
  BY <1>1 DEF IndInv, TypeOK, EnterScope, Frame
<1>5. FileInv(f)'
  <2> USE <1>1, <1>2 DEF FileInv
  <2>1. WorkersFollowJob(f)' BY DEF WorkersFollowJob, Returned
  <2>2. StopTogether(f)' BY DEF StopTogether
  <2>3. ThreadsAndLock(f)' BY DEF ThreadsAndLock
  <2>4. NumbersFollowReads(f)' BY DEF NumbersFollowReads
  <2>5. PartsNumbered(f)' BY DEF PartsNumbered
  <2>6. OnlyCancelAbandons(f)' BY DEF OnlyCancelAbandons
  <2> QED BY <2>1, <2>2, <2>3, <2>4, <2>5, <2>6
<1> QED BY <1>3, <1>4, <1>5, OneUploadMoves

\* SpawnWorkers keeps the invariant.
LEMMA SpawnWorkersKeeps ==
    ASSUME IndInv, NEW f \in Files, SpawnWorkers(f)
    PROVE  IndInv'
<1>1. PICK n \in {1, WorkerCount(declared[f], active_files)} : Spawn(f, n)
  BY DEF SpawnWorkers
<1>2. UNCHANGED <<declared, parts, interrupted, raised, active_files, slots, read_lock, reading,
                  held, position, part_number, results>>
  BY <1>1 DEF Spawn, source, budget, outputs
<1>3. /\ job[f] = "scope" /\ job'[f] = "gather" /\ FileInv(f) /\ reading[f] \subseteq Workers
      /\ \A v \in Workers : worker'[f][v] \in {"slot", "unused"}
  BY <1>1 DEF IndInv, TypeOK, SpawnWorkers, Spawn
<1>4. TypeOK'
  <2>1. job' \in [Files -> Running \cup Returned \cup {"idle"}]
    BY <1>1 DEF IndInv, TypeOK, Spawn, Running
  <2>2. worker' \in [Files -> [Workers -> WorkerStates]]
    BY <1>1 DEF IndInv, TypeOK, Spawn, WorkerStates, Waiting, Ended
  <2> QED BY <1>2, <2>1, <2>2 DEF IndInv, TypeOK
<1>5. \A g \in Files \ {f} : Frame(g)
  BY <1>1, <1>2 DEF IndInv, TypeOK, Spawn, Frame
<1>6. FileInv(f)'
  <2> USE <1>2, <1>3 DEF FileInv
  <2>1. reading[f] = {} /\ position[f] = part_number[f]
    BY DEF WorkersFollowJob, ThreadsAndLock
  <2>2. WorkersFollowJob(f)' BY DEF WorkersFollowJob, Returned
  <2>3. StopTogether(f)' BY DEF StopTogether
  <2>4. ThreadsAndLock(f)' BY <2>1 DEF ThreadsAndLock
  <2>5. NumbersFollowReads(f)' BY <2>1 DEF NumbersFollowReads
  <2>6. PartsNumbered(f)' BY DEF PartsNumbered
  <2>7. OnlyCancelAbandons(f)' BY <2>1 DEF OnlyCancelAbandons
  <2> QED BY <2>2, <2>3, <2>4, <2>5, <2>6, <2>7
<1> QED BY <1>4, <1>5, <1>6, OneUploadMoves

\* What cancelling the workers does, worker by worker.
LEMMA CancelWorkersMoves ==
    ASSUME TypeOK, NEW f \in Files, CancelWorkers(f)
    PROVE  /\ \A v \in Workers : worker'[f][v] = AfterCancel(worker[f][v])
           /\ read_lock'[f] # read_lock[f] => worker'[f][read_lock[f]] \notin Holding
           /\ \A g \in Files \ {f} : /\ worker'[g] = worker[g] /\ held'[g] = held[g]
                                      /\ read_lock'[g] = read_lock[g]
           /\ worker' \in [Files -> [Workers -> WorkerStates]]
           /\ slots' \in Int
           /\ read_lock' \in [Files -> Workers \cup {0}]
           /\ held' \in [Files -> [Workers -> [number : 0..MaxParts, content : 0..MaxParts]]]
<1> DEFINE after == [w \in Workers |-> AfterCancel(worker[f][w])]
           freed == {w \in Workers : worker[f][w] \in Holding /\ after[w] \notin Holding}
<1>1. /\ worker' = [worker EXCEPT ![f] = after]
      /\ slots' = slots + Cardinality(freed)
      /\ read_lock' = [read_lock EXCEPT ![f] = IF @ \in freed THEN 0 ELSE @]
      /\ held' = [held EXCEPT ![f] = [w \in Workers |-> Nothing]]
  BY DEF CancelWorkers
<1>2. Cardinality(freed) \in Nat
  <2>1. IsFiniteSet(Workers) BY BudgetAssumption, FS_Interval DEF Workers
  <2>2. IsFiniteSet(freed) BY <2>1, FS_Subset
  <2> QED BY <2>2, FS_CardinalityType
<1>3. after \in [Workers -> WorkerStates]
  BY DEF TypeOK, AfterCancel, WorkerStates, Waiting, Holding, Ended
<1>4. Nothing \in [number : 0..MaxParts, content : 0..MaxParts]
  BY SizeAssumption DEF Nothing
<1>5. /\ \A v \in Workers : worker'[f][v] = AfterCancel(worker[f][v])
      /\ worker' \in [Files -> [Workers -> WorkerStates]]
  BY <1>1, <1>3 DEF TypeOK
<1>6. read_lock'[f] # read_lock[f] => worker'[f][read_lock[f]] \notin Holding
  BY <1>1, <1>5 DEF TypeOK
<1>7. slots' \in Int BY <1>1, <1>2 DEF TypeOK
<1>8. read_lock' \in [Files -> Workers \cup {0}] BY <1>1 DEF TypeOK
<1>9. held' \in [Files -> [Workers -> [number : 0..MaxParts, content : 0..MaxParts]]]
  BY <1>1, <1>4 DEF TypeOK
<1>10. \A g \in Files \ {f} : /\ worker'[g] = worker[g] /\ held'[g] = held[g]
                              /\ read_lock'[g] = read_lock[g]
  BY <1>1 DEF TypeOK
<1> QED BY <1>5, <1>6, <1>7, <1>8, <1>9, <1>10

\* After it the workers are leaving together, and the rest still holds.
LEMMA CancelWorkersKeeps ==
    ASSUME TypeOK, NEW f \in Files, FileInv(f), CancelWorkers(f),
           UNCHANGED <<parts, reading, position, part_number, results>>
    PROVE  /\ \A v \in Workers : worker'[f][v] \in Leaving
           /\ StopTogether(f)' /\ ThreadsAndLock(f)'
           /\ NumbersFollowReads(f)' /\ PartsNumbered(f)'
<1>1. /\ \A v \in Workers : worker'[f][v] = AfterCancel(worker[f][v])
      /\ read_lock'[f] # read_lock[f] => worker'[f][read_lock[f]] \notin Holding
  BY CancelWorkersMoves
<1>2. /\ \A v \in Workers : worker[f][v] \in WorkerStates
      /\ reading[f] \subseteq Workers
  BY DEF TypeOK
<1>3. \A v \in Workers : worker'[f][v] \in Leaving
  BY <1>1, <1>2 DEF AfterCancel, WorkerStates, Waiting, Holding, Ended, Leaving
<1>4. StopTogether(f)' BY <1>3 DEF StopTogether
<1>5. ThreadsAndLock(f)'
  BY <1>1, <1>2 DEF FileInv, ThreadsAndLock, AfterCancel, WorkerStates, Waiting, Holding, Ended
<1>6. NumbersFollowReads(f)'
  BY <1>1, <1>3 DEF FileInv, NumbersFollowReads, AfterCancel
<1>7. PartsNumbered(f)'
  BY <1>3 DEF FileInv, PartsNumbered, Leaving, Ended
<1> QED BY <1>3, <1>4, <1>5, <1>6, <1>7

\* Cancel keeps the invariant.
LEMMA CancelKeeps ==
    ASSUME IndInv, NEW f \in Files, Cancel(f)
    PROVE  IndInv'
<1>1. /\ UNCHANGED <<declared, parts, reading, position, part_number, results>>
      /\ interrupted' = [interrupted EXCEPT ![f] = TRUE]
  BY DEF Cancel, source, outputs
<1>2. TypeOK /\ FileInv(f) /\ interrupted'[f]
  BY <1>1 DEF IndInv, TypeOK
<1>3. interrupted' \in [Files -> BOOLEAN]
  BY <1>1 DEF IndInv, TypeOK
<1>4. OnlyCancelAbandons(f)'
  BY <1>2 DEF OnlyCancelAbandons
<1>5. CASE CancelInScope(f)
  <2>1. UNCHANGED <<raised, slots, worker, read_lock, held>> /\ job[f] = "scope"
    BY <1>5 DEF CancelInScope
  <2>2. TypeOK'
    <3>1. job' \in [Files -> Running \cup Returned \cup {"idle"}] /\ active_files' \in Int
      BY <1>5 DEF IndInv, TypeOK, CancelInScope, LeaveScope, Returned
    <3> QED BY <1>1, <1>3, <2>1, <3>1 DEF IndInv, TypeOK
  <2>3. \A g \in Files \ {f} : Frame(g)
    BY <1>1, <1>5, <2>1 DEF IndInv, TypeOK, CancelInScope, Frame
  <2>4. FileInv(f)'
    <3> USE <1>1, <1>2, <2>1 DEF FileInv
    <3>1. WorkersFollowJob(f)'
      BY <1>5 DEF WorkersFollowJob, CancelInScope, IndInv, TypeOK, Ended
    <3>2. StopTogether(f)' BY DEF StopTogether
    <3>3. ThreadsAndLock(f)' BY DEF ThreadsAndLock
    <3>4. NumbersFollowReads(f)' BY DEF NumbersFollowReads
    <3>5. PartsNumbered(f)' BY DEF PartsNumbered
    <3> QED BY <1>4, <3>1, <3>2, <3>3, <3>4, <3>5
  <2> QED BY <2>2, <2>3, <2>4, OneUploadMoves
<1>6. CASE CancelGathered(f)
  <2>1. CancelWorkers(f) /\ UNCHANGED <<job, active_files>> /\ job[f] \in {"gather", "settle"}
    BY <1>6 DEF CancelGathered
  <2>2. raised' \in [Files -> {"none", "error", "cancelled"}]
    BY <1>6 DEF IndInv, TypeOK, CancelGathered
  <2>3. TypeOK'
    BY <1>1, <1>2, <1>3, <2>1, <2>2, CancelWorkersMoves DEF TypeOK
  <2>4. \A g \in Files \ {f} : Frame(g)
    BY <1>1, <1>2, <2>1, CancelWorkersMoves DEF TypeOK, Frame
  <2>5. WorkersFollowJob(f)'
    BY <2>1 DEF WorkersFollowJob, Returned
  <2>6. FileInv(f)'
    BY <1>1, <1>2, <1>4, <2>1, <2>5, CancelWorkersKeeps DEF FileInv
  <2> QED BY <2>3, <2>4, <2>6, OneUploadMoves
<1>7. CASE CancelResuming(f)
  <2>1. UNCHANGED <<job, active_files, slots, worker, read_lock, held>>
    BY <1>7 DEF CancelResuming, budget
  <2>2. raised' \in [Files -> {"none", "error", "cancelled"}]
    BY <1>7 DEF IndInv, TypeOK, CancelResuming
  <2>3. TypeOK' BY <1>1, <1>2, <1>3, <2>1, <2>2 DEF TypeOK
  <2>4. \A g \in Files \ {f} : Frame(g)
    BY <1>1, <1>2, <2>1 DEF TypeOK, Frame
  <2>5. FileInv(f)'
    <3> USE <1>1, <1>2, <2>1 DEF FileInv
    <3>1. WorkersFollowJob(f)' BY DEF WorkersFollowJob
    <3>2. StopTogether(f)' BY DEF StopTogether
    <3>3. ThreadsAndLock(f)' BY DEF ThreadsAndLock
    <3>4. NumbersFollowReads(f)' BY DEF NumbersFollowReads
    <3>5. PartsNumbered(f)' BY DEF PartsNumbered
    <3> QED BY <1>4, <3>1, <3>2, <3>3, <3>4, <3>5
  <2> QED BY <2>3, <2>4, <2>5, OneUploadMoves
<1> QED BY <1>5, <1>6, <1>7 DEF Cancel

\* Settle keeps the invariant.
LEMMA SettleKeeps ==
    ASSUME IndInv, NEW f \in Files, Settle(f)
    PROVE  IndInv'
<1>1. /\ UNCHANGED <<declared, parts, interrupted, active_files, reading, position, part_number,
                     results>>
      /\ CancelWorkers(f)
      /\ job[f] = "gather" /\ job' = [job EXCEPT ![f] = "settle"]
  BY DEF Settle, source, outputs
<1>2. TypeOK /\ FileInv(f) /\ job'[f] = "settle"
  BY <1>1 DEF IndInv, TypeOK
<1>3. TypeOK'
  <2>1. job' \in [Files -> Running \cup Returned \cup {"idle"}]
    BY <1>1 DEF IndInv, TypeOK, Running
  <2>2. raised' \in [Files -> {"none", "error", "cancelled"}]
    <3>1. FirstRaised(f) \subseteq {"none", "error", "cancelled"}
      BY DEF FirstRaised
    <3>2. PICK exc \in FirstRaised(f) :
            raised' = [raised EXCEPT ![f] = IF @ = "none" THEN exc ELSE @]
      BY DEF Settle
    <3> QED BY <3>1, <3>2 DEF IndInv, TypeOK
  <2> QED BY <1>1, <1>2, <2>1, <2>2, CancelWorkersMoves DEF TypeOK
<1>4. \A g \in Files \ {f} : Frame(g)
  BY <1>1, <1>2, CancelWorkersMoves DEF TypeOK, Frame
<1>5. WorkersFollowJob(f)'
  BY <1>2 DEF WorkersFollowJob, Returned
<1>6. OnlyCancelAbandons(f)'
  <2>1. /\ \A v \in Workers : worker'[f][v] = AfterCancel(worker[f][v])
        /\ reading[f] \subseteq Workers
    BY <1>1, <1>2, CancelWorkersMoves DEF TypeOK
  <2> QED BY <1>1, <1>2, <2>1 DEF FileInv, OnlyCancelAbandons, AfterCancel
<1>7. FileInv(f)'
  BY <1>1, <1>2, <1>5, <1>6, CancelWorkersKeeps DEF FileInv
<1> QED BY <1>3, <1>4, <1>7, OneUploadMoves

\* Return keeps the invariant.
LEMMA ReturnKeeps ==
    ASSUME IndInv, NEW f \in Files, Return(f)
    PROVE  IndInv'
<1>1. UNCHANGED <<declared, parts, interrupted, raised, slots, worker, read_lock, reading, held,
                  position, part_number, results>>
  BY DEF Return, source, pool, outputs
<1>2. job'[f] \in Returned /\ FileInv(f) /\ \A w \in Workers : worker[f][w] \in Ended
  BY DEF IndInv, TypeOK, Return, AllEnded, Returned
<1>3. TypeOK'
  <2>1. job' \in [Files -> Running \cup Returned \cup {"idle"}] /\ active_files' \in Int
    BY DEF IndInv, TypeOK, Return, LeaveScope, Returned
  <2> QED BY <1>1, <2>1 DEF IndInv, TypeOK
<1>4. \A g \in Files \ {f} : Frame(g)
  BY <1>1 DEF IndInv, TypeOK, Return, Frame
<1>5. FileInv(f)'
  <2> USE <1>1, <1>2 DEF FileInv
  <2>1. WorkersFollowJob(f)' BY DEF WorkersFollowJob, Returned
  <2>2. StopTogether(f)' BY DEF StopTogether
  <2>3. ThreadsAndLock(f)' BY DEF ThreadsAndLock
  <2>4. NumbersFollowReads(f)' BY DEF NumbersFollowReads
  <2>5. PartsNumbered(f)' BY DEF PartsNumbered
  <2>6. OnlyCancelAbandons(f)' BY DEF OnlyCancelAbandons, Returned
  <2> QED BY <2>1, <2>2, <2>3, <2>4, <2>5, <2>6
<1> QED BY <1>3, <1>4, <1>5, OneUploadMoves

-----------------------------------------------------------------------------
\* The invariant holds when no upload has started.
LEMMA InitHolds == Init => IndInv
<1> SUFFICES ASSUME Init PROVE IndInv
  OBVIOUS
<1>1. TypeOK
  <2>1. Nothing \in [number : 0..MaxParts, content : 0..MaxParts]
    BY SizeAssumption DEF Nothing
  <2> QED BY <2>1, BudgetAssumption, SizeAssumption
          DEF Init, TypeOK, WorkerStates, Ended
<1>2. ASSUME NEW f \in Files PROVE FileInv(f)
  BY SizeAssumption DEF Init, FileInv, WorkersFollowJob, StopTogether, ThreadsAndLock, NumbersFollowReads,
         PartsNumbered, OnlyCancelAbandons, Returned, Leaving, Ended
<1> QED BY <1>1, <1>2 DEF IndInv

\* Every step of upload_parts, its workers and its threads keeps the invariant.
LEMMA NextKeeps == IndInv /\ [Next \/ Idle]_vars => IndInv'
<1> SUFFICES ASSUME IndInv, [Next \/ Idle]_vars PROVE IndInv'
  OBVIOUS
<1>1. CASE UNCHANGED vars
  <2>1. UNCHANGED <<declared, parts, job, interrupted, raised, active_files, slots, worker,
                    read_lock, reading, held, position, part_number, results>>
    BY <1>1 DEF vars, source, budget, pool, outputs
  <2>2. TypeOK' BY <2>1 DEF IndInv, TypeOK
  <2>3. ASSUME NEW g \in Files PROVE FileInv(g)'
    BY <2>1, FrameKeeps DEF IndInv, Frame
  <2> QED BY <2>2, <2>3 DEF IndInv
<1>2. CASE Idle BY <1>1, <1>2 DEF Idle
<1>3. ASSUME NEW f \in Files, EnterScope(f) \/ JobStep(f) \/ Cancel(f) PROVE IndInv'
  BY <1>3, EnterScopeKeeps, SpawnWorkersKeeps, SettleKeeps, ReturnKeeps, CancelKeeps DEF JobStep
<1>4. ASSUME NEW f \in Files, NEW w \in Workers, WorkerStep(f, w) PROVE IndInv'
  BY <1>4, AcquireSlotKeeps, StartReadKeeps, UploadDoneKeeps, UploadFailKeeps DEF WorkerStep
<1>5. ASSUME NEW f \in Files, NEW w \in Workers, ThreadStep(f, w) PROVE IndInv'
  BY <1>5, ReadChunkKeeps, ReadEndKeeps, ReadJoinedKeeps, ReadAbandonedKeeps DEF ThreadStep
<1> QED BY <1>1, <1>2, <1>3, <1>4, <1>5 DEF Next

\* The inductive invariant holds in every reachable state of upload_parts.
THEOREM Invariance == Spec => []IndInv
BY InitHolds, NextKeeps, PTL DEF Spec

\* Every variable of upload_parts and of its budget keeps its type, for any
\* number of files, workers, slots and parts; part numbers stay within the file.
THEOREM TypeCorrect == Spec => []TypeOK
<1>1. IndInv => TypeOK BY DEF IndInv
<1> QED BY <1>1, Invariance, PTL

\* fileobj.read never runs in two threads at once, although a cancelled worker
\* may leave its thread and the read lock behind.
THEOREM ReadsAlone == Spec => []OneReader
<1>1. IndInv => OneReader BY DEF IndInv, FileInv, ThreadsAndLock, OneReader
<1> QED BY <1>1, Invariance, PTL

\* Every part is numbered by its place in the file, whatever the interleaving
\* of workers and cancellations.
THEOREM SourceOrder == Spec => []NumberedInSourceOrder
<1>1. IndInv => NumberedInSourceOrder
  BY DEF IndInv, FileInv, PartsNumbered, NumberedInSourceOrder
<1> QED BY <1>1, Invariance, PTL

\* When upload_parts is over none of its workers is: nothing is sent after it.
THEOREM Settled == Spec => []SettledWhenReturned
<1>1. IndInv => SettledWhenReturned
  BY DEF IndInv, FileInv, WorkersFollowJob, SettledWhenReturned
<1> QED BY <1>1, Invariance, PTL

\* Unless it was cancelled, upload_parts is over only when no thread reads.
THEOREM Joined == Spec => []JoinedUnlessCancelled
<1>1. IndInv => JoinedUnlessCancelled
  <2> SUFFICES ASSUME IndInv, NEW f \in Files, job[f] \in Returned, ~interrupted[f]
               PROVE  reading[f] = {}
    BY DEF JoinedUnlessCancelled
  <2> QED BY DEF IndInv, TypeOK, FileInv, WorkersFollowJob, OnlyCancelAbandons, Ended
<1> QED BY <1>1, Invariance, PTL

\* When upload_parts is over its caller may abort the upload and, unless it was
\* cancelled, close the file: nothing is sent or read any more.
THEOREM LeavesNothing == Spec => []NothingLeftBehind
<1>1. SettledWhenReturned /\ JoinedUnlessCancelled => NothingLeftBehind
  BY DEF NothingLeftBehind
<1> QED BY <1>1, Settled, Joined, PTL
-----------------------------------------------------------------------------
(* The budget.  A step takes one slot, gives one back, gives back those of  *)
(* the workers it cancels, or leaves the slots alone.                      *)

\* The holders are finitely many.
LEMMA HoldersFinite == IsFiniteSet(Holders) /\ IsFiniteSet(Workers)
<1>1. IsFiniteSet(Workers) BY BudgetAssumption, FS_Interval DEF Workers
<1>2. IsFiniteSet(Files \X Workers) BY <1>1, SizeAssumption, FS_Product
<1>3. Holders \in SUBSET (Files \X Workers) BY DEF Holders
<1> QED BY <1>1, <1>2, <1>3, FS_Subset

\* As many workers of one upload as there are workers.
LEMMA PairsCounted ==
    ASSUME NEW f, NEW S, IsFiniteSet(S)
    PROVE  LET pairs == {<<f, w>> : w \in S}
           IN  IsFiniteSet(pairs) /\ Cardinality(pairs) = Cardinality(S)
<1> DEFINE pairs == {<<f, w>> : w \in S}
           pair  == [w \in S |-> <<f, w>>]
<1>1. pair \in [S -> pairs] OBVIOUS
<1>2. IsInjective(pair) BY DEF IsInjective
<1>3. \A t \in pairs : \E w \in S : pair[w] = t OBVIOUS
<1>4. pair \in Bijection(S, pairs)
  BY <1>1, <1>2, <1>3 DEF Bijection, Injection, Surjection
<1>5. ExistsBijection(S, pairs) BY <1>4 DEF ExistsBijection
<1> QED BY <1>5, FS_Bijection

\* No worker begins or ends to hold a slot.
LEMMA SlotsStay ==
    ASSUME SlotsConserved, slots' = slots,
           \A g \in Files, v \in Workers : worker'[g][v] \in Holding <=> worker[g][v] \in Holding
    PROVE  SlotsConserved'
<1>1. Holders' = Holders BY DEF Holders
<1> QED BY <1>1 DEF SlotsConserved

\* One worker takes a free slot.
LEMMA SlotTaken ==
    ASSUME TypeOK, SlotsConserved, NEW f \in Files, NEW w \in Workers, slots > 0, slots' = slots - 1,
           worker[f][w] \notin Holding, worker'[f][w] \in Holding,
           \A g \in Files, v \in Workers : g # f \/ v # w => worker'[g][v] = worker[g][v]
    PROVE  SlotsConserved'
<1>1. Holders' = Holders \cup {<<f, w>>} /\ <<f, w>> \notin Holders
  BY DEF Holders
<1>2. Cardinality(Holders') = Cardinality(Holders) + 1
  BY <1>1, HoldersFinite, FS_AddElement
<1>3. Cardinality(Holders) \in Nat BY HoldersFinite, FS_CardinalityType
<1> QED BY <1>2, <1>3 DEF SlotsConserved, TypeOK

\* One worker gives its slot back.
LEMMA SlotReturned ==
    ASSUME TypeOK, SlotsConserved, NEW f \in Files, NEW w \in Workers, slots' = slots + 1,
           worker[f][w] \in Holding, worker'[f][w] \notin Holding,
           \A g \in Files, v \in Workers : g # f \/ v # w => worker'[g][v] = worker[g][v]
    PROVE  SlotsConserved'
<1>1. Holders' = Holders \ {<<f, w>>} /\ <<f, w>> \in Holders
  BY DEF Holders
<1>2. Cardinality(Holders') = Cardinality(Holders) - 1
  BY <1>1, HoldersFinite, FS_RemoveElement
<1>3. Cardinality(Holders) \in Nat BY HoldersFinite, FS_CardinalityType
<1> QED BY <1>2, <1>3 DEF SlotsConserved, TypeOK

\* The workers of an upload that are cancelled give their slots back, except
\* those that wait for their threads.
LEMMA SlotsOfCancelled ==
    ASSUME TypeOK, SlotsConserved, NEW f \in Files, CancelWorkers(f)
    PROVE  SlotsConserved'
<1> DEFINE after == [w \in Workers |-> AfterCancel(worker[f][w])]
           freed == {w \in Workers : worker[f][w] \in Holding /\ after[w] \notin Holding}
           left  == {<<f, w>> : w \in freed}
<1>1. worker' = [worker EXCEPT ![f] = after] /\ slots' = slots + Cardinality(freed)
  BY DEF CancelWorkers
<1>2. \A w \in Workers : after[w] \in Holding => worker[f][w] \in Holding
  BY DEF AfterCancel, Holding
<1>3. left \in SUBSET Holders /\ Holders' = Holders \ left
  BY <1>1, <1>2 DEF Holders, TypeOK
<1>4. IsFiniteSet(freed) BY HoldersFinite, FS_Subset
<1>5. IsFiniteSet(left) /\ Cardinality(left) = Cardinality(freed) BY <1>4, PairsCounted
<1>6. Cardinality(Holders') = Cardinality(Holders) - Cardinality(left)
  <2>1. Cardinality(Holders \ left) = Cardinality(Holders) - Cardinality(Holders \cap left)
    BY HoldersFinite, <1>5, FS_Difference
  <2>2. Holders \cap left = left BY <1>3
  <2> QED BY <1>3, <2>1, <2>2
<1>7. Cardinality(Holders) \in Nat /\ Cardinality(freed) \in Nat
  BY <1>4, HoldersFinite, FS_CardinalityType
<1> QED BY <1>1, <1>5, <1>6, <1>7 DEF SlotsConserved, TypeOK

\* The uploads active_files counts.
Inside == {f \in Files : job[f] \in Running}

\* A step that enters or leaves no scope keeps the count.
LEMMA FilesStay ==
    ASSUME ActiveFilesExact, active_files' = active_files,
           \A g \in Files : job'[g] \in Running <=> job[g] \in Running
    PROVE  ActiveFilesExact'
<1>1. Inside' = Inside BY DEF Inside
<1> QED BY <1>1 DEF ActiveFilesExact, Inside

\* Entering a scope counts one upload more,
LEMMA FileEnters ==
    ASSUME ActiveFilesExact, NEW f \in Files, active_files' = active_files + 1,
           job[f] \notin Running, job'[f] \in Running, \A g \in Files \ {f} : job'[g] = job[g]
    PROVE  ActiveFilesExact'
<1>1. Inside' = Inside \cup {f} /\ f \notin Inside BY DEF Inside
<1>2. IsFiniteSet(Inside)
  <2>1. Inside \in SUBSET Files BY DEF Inside
  <2> QED BY <2>1, SizeAssumption, FS_Subset
<1>3. Cardinality(Inside') = Cardinality(Inside) + 1 BY <1>1, <1>2, FS_AddElement
<1> QED BY <1>3 DEF ActiveFilesExact, Inside

\* and leaving it one less.
LEMMA FileLeaves ==
    ASSUME ActiveFilesExact, NEW f \in Files, LeaveScope,
           job[f] \in Running, job'[f] \notin Running, \A g \in Files \ {f} : job'[g] = job[g]
    PROVE  ActiveFilesExact'
<1>1. Inside' = Inside \ {f} /\ f \in Inside BY DEF Inside
<1>2. IsFiniteSet(Inside)
  <2>1. Inside \in SUBSET Files BY DEF Inside
  <2> QED BY <2>1, SizeAssumption, FS_Subset
<1>3. Cardinality(Inside') = Cardinality(Inside) - 1 BY <1>1, <1>2, FS_RemoveElement
<1> QED BY <1>3 DEF ActiveFilesExact, Inside, LeaveScope

\* Every step of a worker keeps the accounting.
LEMMA WorkerKeepsBudget ==
    ASSUME IndInv, BudgetExact, NEW f \in Files, NEW w \in Workers,
           WorkerStep(f, w) \/ ThreadStep(f, w)
    PROVE  BudgetExact'
<1> USE DEF IndInv, BudgetExact
<1>1. ActiveFilesExact'
  <2>1. UNCHANGED <<active_files, job>>
    BY DEF WorkerStep, ThreadStep, AcquireSlot, StartRead, UploadDone, UploadFail, ReadChunk, ReadEnd,
           ReadJoined, ReadAbandoned, budget
  <2> QED BY <2>1, FilesStay
<1>2. CASE AcquireSlot(f, w)
  <2>1. /\ slots > 0 /\ slots' = slots - 1
        /\ worker[f][w] \notin Holding /\ worker'[f][w] \in Holding
        /\ \A g \in Files, v \in Workers : g # f \/ v # w => worker'[g][v] = worker[g][v]
    BY <1>2 DEF AcquireSlot, SlotFree, TypeOK, Holding
  <2> QED BY <1>1, <2>1, SlotTaken
<1>3. CASE ReadEnd(f, w) \/ ReadJoined(f, w) \/ UploadDone(f, w) \/ UploadFail(f, w)
  <2>1. /\ worker[f][w] \in Holding /\ worker'[f][w] \notin Holding /\ slots' = slots + 1
        /\ \A g \in Files, v \in Workers : g # f \/ v # w => worker'[g][v] = worker[g][v]
    BY <1>3 DEF ReadEnd, ReadJoined, UploadDone, UploadFail, TypeOK, Holding
  <2> QED BY <1>1, <2>1, SlotReturned
<1>4. CASE StartRead(f, w) \/ ReadChunk(f, w) \/ ReadAbandoned(f, w)
  <2>1. /\ slots' = slots
        /\ \A g \in Files, v \in Workers : worker'[g][v] \in Holding <=> worker[g][v] \in Holding
    BY <1>4 DEF StartRead, ReadChunk, ReadAbandoned, budget, TypeOK, Holding
  <2> QED BY <1>1, <2>1, SlotsStay
<1> QED BY <1>2, <1>3, <1>4 DEF WorkerStep, ThreadStep

\* And so does every step of the coroutine, and its cancellation.
LEMMA JobKeepsBudget ==
    ASSUME IndInv, BudgetExact, NEW f \in Files, EnterScope(f) \/ JobStep(f) \/ Cancel(f)
    PROVE  BudgetExact'
<1> USE DEF IndInv, BudgetExact
<1>1. CASE EnterScope(f)
  <2>1. ActiveFilesExact'
    BY <1>1, FileEnters DEF EnterScope, TypeOK, Running
  <2>2. SlotsConserved'
    BY <1>1, SlotsStay DEF EnterScope, pool
  <2> QED BY <2>1, <2>2
<1>2. CASE SpawnWorkers(f)
  <2>1. PICK n \in {1, WorkerCount(declared[f], active_files)} : Spawn(f, n)
    BY <1>2 DEF SpawnWorkers
  <2>2. /\ slots' = slots /\ active_files' = active_files
        /\ job[f] = "scope" /\ job' = [job EXCEPT ![f] = "gather"]
        /\ worker' = [worker EXCEPT ![f] = [w \in Workers |-> IF w <= n THEN "slot" ELSE "unused"]]
    BY <1>2, <2>1 DEF SpawnWorkers, Spawn, budget
  <2>3. ActiveFilesExact' BY <2>2, FilesStay DEF TypeOK, Running
  <2>4. \A v \in Workers : worker[f][v] \notin Holding
    BY <2>2 DEF FileInv, WorkersFollowJob, Holding
  <2>5. SlotsConserved' BY <2>2, <2>4, SlotsStay DEF TypeOK, Holding
  <2> QED BY <2>3, <2>5
<1>3. CASE Settle(f)
  <2>1. ActiveFilesExact' BY <1>3, FilesStay DEF Settle, TypeOK, Running
  <2>2. SlotsConserved' BY <1>3, SlotsOfCancelled DEF Settle
  <2> QED BY <2>1, <2>2
<1>4. CASE Return(f)
  <2>1. job[f] \in Running /\ job'[f] \notin Running
    BY <1>4 DEF Return, TypeOK, Running
  <2>2. ActiveFilesExact' BY <1>4, <2>1, FileLeaves DEF Return, TypeOK
  <2>3. SlotsConserved' BY <1>4, SlotsStay DEF Return, pool
  <2> QED BY <2>2, <2>3
<1>5. CASE CancelInScope(f)
  <2>1. ActiveFilesExact' BY <1>5, FileLeaves DEF CancelInScope, TypeOK, Running
  <2>2. SlotsConserved' BY <1>5, SlotsStay DEF CancelInScope
  <2> QED BY <2>1, <2>2
<1>6. CASE CancelGathered(f)
  <2>1. ActiveFilesExact' BY <1>6, FilesStay DEF CancelGathered
  <2>2. SlotsConserved' BY <1>6, SlotsOfCancelled DEF CancelGathered
  <2> QED BY <2>1, <2>2
<1>7. CASE CancelResuming(f)
  <2>1. ActiveFilesExact' BY <1>7, FilesStay DEF CancelResuming, budget
  <2>2. SlotsConserved' BY <1>7, SlotsStay DEF CancelResuming, budget
  <2> QED BY <2>1, <2>2
<1> QED BY <1>1, <1>2, <1>3, <1>4, <1>5, <1>6, <1>7 DEF JobStep, Cancel

\* No slot of the shared budget is lost or given back twice, and active_files
\* counts the uploads in their scope, whatever fails and is cancelled.
THEOREM BudgetKept == Spec => []BudgetExact
<1>1. Init => BudgetExact
  <2> SUFFICES ASSUME Init PROVE BudgetExact
    OBVIOUS
  <2>1. Holders = {} /\ Inside = {} BY DEF Init, Holders, Holding, Inside, Running
  <2>2. Cardinality({}) = 0 BY FS_EmptySet
  <2>3. SlotsConserved
    <3>1. slots = Ceiling /\ Ceiling \in Nat BY BudgetAssumption DEF Init
    <3> QED BY <2>1, <2>2, <3>1 DEF SlotsConserved
  <2>4. ActiveFilesExact
    <3>1. active_files = 0 BY DEF Init
    <3>2. Cardinality(Inside) = 0 BY <2>1, <2>2
    <3> QED BY <3>1, <3>2 DEF ActiveFilesExact, Inside
  <2> QED BY <2>3, <2>4 DEF BudgetExact
<1>2. IndInv /\ BudgetExact /\ [Next \/ Idle]_vars => BudgetExact'
  <2> SUFFICES ASSUME IndInv, BudgetExact, [Next \/ Idle]_vars PROVE BudgetExact'
    OBVIOUS
  <2>1. CASE UNCHANGED vars \/ Idle
    BY <2>1, SlotsStay, FilesStay DEF BudgetExact, Idle, vars, budget, pool
  <2>2. CASE Next BY <2>2, WorkerKeepsBudget, JobKeepsBudget DEF Next
  <2> QED BY <2>1, <2>2
<1> QED BY <1>1, <1>2, Invariance, PTL DEF Spec

-----------------------------------------------------------------------------
(* Completeness.  As long as no worker failed or was stopped, every number *)
(* that was taken is uploaded or in a worker's hands; a normal return      *)
(* needs all of them at the end of the file.                               *)

NoneDropped(f) ==
    (\A w \in Workers : worker[f][w] \notin {"failed", "stopped"}) =>
        \A n \in 1..part_number[f] :
            \/ \E r \in results[f] : r.number = n
            \/ \E w \in Workers : worker[f][w] = "upload" /\ held[f][w].number = n

NumbersTaken(f) ==
    /\ \A r \in results[f] : r.number \in 1..part_number[f]
    /\ \A w \in Workers : worker[f][w] = "upload" => held[f][w].number \in 1..part_number[f]

\* What a return without an exception rests on.
EndsAtTheEnd(f) ==
    /\ \A w \in Workers : worker[f][w] = "done" => position[f] >= parts[f]
    /\ job[f] \in {"gather", "settle", "ok"} => worker[f][1] # "unused"
    /\ (job[f] = "settle" /\ raised[f] = "none") \/ job[f] = "ok" =>
           \A w \in Workers : worker[f][w] \in {"unused", "done"}

Accounted(f) == NoneDropped(f) /\ NumbersTaken(f) /\ EndsAtTheEnd(f)

AllAccounted == \A f \in Files : Accounted(f)

\* A step that leaves an upload alone keeps its accounts.
LEMMA FrameAccounts ==
    ASSUME NEW g \in Files, Accounted(g), Frame(g), raised'[g] = raised[g]
    PROVE  Accounted(g)'
<1> USE DEF Frame, Accounted
<1>1. NoneDropped(g)' BY DEF NoneDropped
<1>2. NumbersTaken(g)' BY DEF NumbersTaken
<1>3. EndsAtTheEnd(g)' BY DEF EndsAtTheEnd
<1> QED BY <1>1, <1>2, <1>3

\* A step of f keeps the accounts of the other uploads.
LEMMA OthersAccounted ==
    ASSUME IndInv, AllAccounted, NEW f \in Files,
           \A g \in Files \ {f} : Frame(g) /\ raised'[g] = raised[g], Accounted(f)'
    PROVE  AllAccounted'
<1> SUFFICES ASSUME NEW g \in Files PROVE Accounted(g)'
  BY DEF AllAccounted
<1>1. CASE g = f BY <1>1
<1>2. CASE g # f BY <1>2, FrameAccounts DEF AllAccounted
<1> QED BY <1>1, <1>2

\* Steps that move a worker but no part.
LEMMA WaitingAccounts ==
    ASSUME IndInv, AllAccounted, NEW f \in Files, NEW w \in Workers,
           AcquireSlot(f, w) \/ StartRead(f, w) \/ ReadEnd(f, w)
    PROVE  AllAccounted'
<1>1. UNCHANGED <<parts, job, interrupted, raised, held, position, part_number, results>>
  BY DEF AcquireSlot, StartRead, ReadEnd, source, outputs
<1>2. PICK place \in {"lock", "read", "done", "failed"} :
        /\ worker[f][w] \in {"slot", "lock", "read"}
        /\ worker' = [worker EXCEPT ![f][w] = place]
        /\ place = "done" => position[f] >= parts[f]
  BY DEF AcquireSlot, StartRead, ReadEnd, AtEof
<1>3. \A g \in Files \ {f} : Frame(g) /\ raised'[g] = raised[g]
  BY <1>1, <1>2 DEF IndInv, TypeOK, Frame, AcquireSlot, StartRead, ReadEnd, LockReleased
<1>4. \A v \in Workers : worker'[f][v] = IF v = w THEN place ELSE worker[f][v]
  BY <1>2 DEF IndInv, TypeOK
<1> USE <1>1, <1>2, <1>4 DEF AllAccounted, Accounted
<1>5. NoneDropped(f)' BY DEF NoneDropped
<1>6. NumbersTaken(f)' BY DEF NumbersTaken
<1>7. EndsAtTheEnd(f)' BY DEF EndsAtTheEnd
<1> QED BY <1>3, <1>5, <1>6, <1>7, OthersAccounted

\* A read that returns a part takes the next number and puts it in hand.
LEMMA ReadAccounts ==
    ASSUME IndInv, AllAccounted, NEW f \in Files, NEW w \in Workers, ReadChunk(f, w)
    PROVE  AllAccounted'
<1>1. UNCHANGED <<parts, job, interrupted, raised, results>>
  BY DEF ReadChunk, source
<1>2. /\ worker[f][w] = "read" /\ position'[f] = position[f] + 1
      /\ part_number'[f] = part_number[f] + 1 /\ held'[f][w].number = part_number[f] + 1
      /\ \A v \in Workers : /\ worker'[f][v] = IF v = w THEN "upload" ELSE worker[f][v]
                            /\ v # w => held'[f][v] = held[f][v]
      /\ position[f] \in Nat /\ part_number[f] \in Nat /\ parts[f] \in Nat
  BY SizeAssumption DEF IndInv, TypeOK, ReadChunk, NextNumber
<1>3. \A g \in Files \ {f} : Frame(g) /\ raised'[g] = raised[g]
  BY <1>1 DEF IndInv, TypeOK, ReadChunk, LockReleased, Frame
<1> USE <1>1, <1>2 DEF AllAccounted, Accounted
<1>4. NoneDropped(f)'
  <2> SUFFICES ASSUME \A v \in Workers : worker'[f][v] \notin {"failed", "stopped"},
                      NEW n \in 1..(part_number[f] + 1)
               PROVE  \/ \E r \in results[f] : r.number = n
                      \/ \E v \in Workers : worker'[f][v] = "upload" /\ held'[f][v].number = n
    BY DEF NoneDropped
  <2>1. CASE n = part_number[f] + 1 BY <2>1
  <2>2. CASE n \in 1..part_number[f]
    <3>1. \A v \in Workers : worker[f][v] \notin {"failed", "stopped"} OBVIOUS
    <3>2. \/ \E r \in results[f] : r.number = n
          \/ \E v \in Workers : worker[f][v] = "upload" /\ held[f][v].number = n
      BY <2>2, <3>1 DEF NoneDropped
    <3> QED BY <3>2
  <2> QED BY <2>1, <2>2
<1>5. NumbersTaken(f)' BY DEF NumbersTaken
<1>6. EndsAtTheEnd(f)'
  <2>1. 1 \in Workers BY BudgetAssumption DEF Workers
  <2> QED BY <2>1 DEF EndsAtTheEnd
<1> QED BY <1>3, <1>4, <1>5, <1>6, OthersAccounted

\* A part leaves a worker's hands: it is uploaded, or the worker has failed.
LEMMA UploadAccounts ==
    ASSUME IndInv, AllAccounted, NEW f \in Files, NEW w \in Workers,
           UploadDone(f, w) \/ UploadFail(f, w)
    PROVE  AllAccounted'
<1>1. UNCHANGED <<parts, job, interrupted, raised, position, part_number>>
  BY DEF UploadDone, UploadFail, source, outputs
<1>2. PICK place \in {"slot", "failed"} :
        /\ worker' = [worker EXCEPT ![f][w] = place]
        /\ results' = IF place = "slot" THEN [results EXCEPT ![f] = @ \cup {held[f][w]}] ELSE results
        /\ held' = [held EXCEPT ![f][w] = Nothing]
  BY DEF UploadDone, UploadFail, outputs
<1>3. /\ worker[f][w] = "upload"
      /\ results[f] \subseteq results'[f] /\ results'[f] \subseteq results[f] \cup {held[f][w]}
      /\ place = "slot" => held[f][w] \in results'[f]
      /\ \A v \in Workers : /\ worker'[f][v] = IF v = w THEN place ELSE worker[f][v]
                            /\ v # w => held'[f][v] = held[f][v]
  BY <1>2 DEF IndInv, TypeOK, UploadDone, UploadFail
<1>4. \A g \in Files \ {f} : Frame(g) /\ raised'[g] = raised[g]
  BY <1>1, <1>2 DEF IndInv, TypeOK, UploadDone, UploadFail, Frame
<1> USE <1>1, <1>3 DEF AllAccounted, Accounted
<1>5. NoneDropped(f)' BY DEF NoneDropped
<1>6. NumbersTaken(f)' BY DEF NumbersTaken
<1>7. EndsAtTheEnd(f)'
  <2>1. 1 \in Workers BY BudgetAssumption DEF Workers
  <2> QED BY <2>1 DEF EndsAtTheEnd
<1> QED BY <1>4, <1>5, <1>6, <1>7, OthersAccounted

\* A thread that ends behind a cancelled worker reads on at most.
LEMMA JoinAccounts ==
    ASSUME IndInv, AllAccounted, NEW f \in Files, NEW w \in Workers,
           ReadJoined(f, w) \/ ReadAbandoned(f, w)
    PROVE  AllAccounted'
<1>1. UNCHANGED <<parts, job, interrupted, raised, held, part_number, results>>
  BY DEF ReadJoined, ReadAbandoned, source, outputs
<1>2. PICK place \in {"stopped", "failed"} : worker' = [worker EXCEPT ![f][w] = place]
  <2>1. CASE ReadJoined(f, w) BY <2>1 DEF ReadJoined
  <2>2. CASE ReadAbandoned(f, w)
    <3>1. worker' = [worker EXCEPT ![f][w] = "stopped"]
      BY <2>2 DEF ReadAbandoned, IndInv, TypeOK
    <3> QED BY <3>1
  <2> QED BY <2>1, <2>2
<1>3. /\ worker[f][w] \in {"join", "stopped"} /\ position'[f] \in {position[f], position[f] + 1}
      /\ \A v \in Workers : worker'[f][v] = IF v = w THEN place ELSE worker[f][v]
      /\ position[f] \in Nat /\ parts[f] \in Nat
  BY <1>2, SizeAssumption DEF IndInv, TypeOK, ReadJoined, ReadAbandoned
<1>4. \A g \in Files \ {f} : Frame(g) /\ raised'[g] = raised[g]
  BY <1>1, <1>2 DEF IndInv, TypeOK, ReadJoined, ReadAbandoned, LockReleased, Frame
<1> USE <1>1, <1>3 DEF AllAccounted, Accounted
<1>5. NoneDropped(f)' BY DEF NoneDropped
<1>6. NumbersTaken(f)' BY DEF NumbersTaken
<1>7. EndsAtTheEnd(f)'
  <2>1. 1 \in Workers BY BudgetAssumption DEF Workers
  <2> QED BY <2>1 DEF EndsAtTheEnd
<1> QED BY <1>4, <1>5, <1>6, <1>7, OthersAccounted

\* Cancelled workers hold nothing, and one that held a part is stopped.
LEMMA CancelledAccounts ==
    ASSUME TypeOK, NEW f \in Files, Accounted(f), CancelWorkers(f),
           UNCHANGED <<parts, position, part_number, results>>
    PROVE  /\ NoneDropped(f)' /\ NumbersTaken(f)'
           /\ \A v \in Workers : /\ worker'[f][v] = "done" => position[f] >= parts[f]
                                 /\ worker'[f][v] = "unused" <=> worker[f][v] = "unused"
                                 /\ worker[f][v] \in {"unused", "done"} => worker'[f][v] = worker[f][v]
<1>1. /\ \A v \in Workers : worker'[f][v] = AfterCancel(worker[f][v])
      /\ \A v \in Workers : worker[f][v] \in WorkerStates
  BY CancelWorkersMoves DEF TypeOK
<1> USE <1>1 DEF Accounted, AfterCancel, WorkerStates, Waiting, Holding, Ended
<1>2. NoneDropped(f)' BY DEF NoneDropped
<1>3. NumbersTaken(f)' BY DEF NumbersTaken
<1>4. \A v \in Workers : /\ worker'[f][v] = "done" => position[f] >= parts[f]
                         /\ worker'[f][v] = "unused" <=> worker[f][v] = "unused"
                         /\ worker[f][v] \in {"unused", "done"} => worker'[f][v] = worker[f][v]
  BY DEF EndsAtTheEnd
<1> QED BY <1>2, <1>3, <1>4

\* There is a first worker, at least.
LEMMA SomeWorker ==
    ASSUME TypeOK, BudgetExact, NEW f \in Files, job[f] = "scope"
    PROVE  WorkerCount(declared[f], active_files) \in Nat \ {0}
<1> DEFINE share == IF Floor \div active_files > 1 THEN Floor \div active_files ELSE 1
<1>1. active_files \in Nat \ {0}
  <2>1. f \in Inside /\ Inside \in SUBSET Files BY DEF Inside, Running
  <2>2. IsFiniteSet(Inside) BY <2>1, SizeAssumption, FS_Subset
  <2>3. Cardinality(Inside) \in Nat /\ Cardinality(Inside) # 0
    BY <2>1, <2>2, FS_CardinalityType, FS_EmptySet
  <2> QED BY <2>3 DEF BudgetExact, ActiveFilesExact, Inside
<1>2. share \in Nat \ {0}
  <2>1. Floor \div active_files \in Int BY <1>1, BudgetAssumption
  <2> QED BY <2>1
<1>3. declared[f] \in Nat \ {0} BY SizeAssumption DEF TypeOK, Parts
<1>4. PerFileCap \in Nat \ {0} BY BudgetAssumption
<1> HIDE DEF share
<1>5. WorkerCount(declared[f], active_files) =
        LET most  == IF declared[f] > 1 THEN declared[f] ELSE 1
            least == IF share < most THEN share ELSE most
        IN  IF PerFileCap < least THEN PerFileCap ELSE least
  BY DEF WorkerCount, share
<1> QED BY <1>2, <1>3, <1>4, <1>5

\* Steps of the coroutine before its workers exist, and its return.
LEMMA ScopeAccounts ==
    ASSUME IndInv, BudgetExact, AllAccounted, NEW f \in Files,
           EnterScope(f) \/ SpawnWorkers(f) \/ Return(f)
    PROVE  AllAccounted'
<1>1. UNCHANGED <<parts, interrupted, raised, read_lock, reading, held, position, part_number, results>>
  BY DEF EnterScope, SpawnWorkers, Spawn, Return, source, pool, outputs
<1>2. CASE EnterScope(f) \/ Return(f)
  <2>1. worker' = worker BY <1>2 DEF EnterScope, Return, pool
  <2>2. /\ job'[f] \in {"scope", "ok", "error", "cancelled"}
        /\ job'[f] = "ok" => job[f] = "settle" /\ raised[f] = "none"
        /\ \A g \in Files \ {f} : job'[g] = job[g]
    BY <1>2 DEF EnterScope, Return, IndInv, TypeOK
  <2>3. \A g \in Files \ {f} : Frame(g) /\ raised'[g] = raised[g]
    BY <1>1, <2>1, <2>2 DEF Frame
  <2> USE <1>1, <2>1, <2>2 DEF AllAccounted, Accounted
  <2>4. NoneDropped(f)' BY DEF NoneDropped
  <2>5. NumbersTaken(f)' BY DEF NumbersTaken
  <2>6. EndsAtTheEnd(f)' BY DEF EndsAtTheEnd
  <2> QED BY <2>3, <2>4, <2>5, <2>6, OthersAccounted
<1>3. CASE SpawnWorkers(f)
  <2>1. PICK n \in {1, WorkerCount(declared[f], active_files)} : Spawn(f, n)
    BY <1>3 DEF SpawnWorkers
  <2>2. n \in Nat \ {0} BY <1>3, SomeWorker DEF IndInv, SpawnWorkers
  <2>3. /\ job[f] = "scope" /\ job'[f] = "gather"
        /\ \A v \in Workers : worker'[f][v] = IF v <= n THEN "slot" ELSE "unused"
        /\ \A v \in Workers : worker[f][v] = "unused"
    BY <1>3, <2>1 DEF SpawnWorkers, Spawn, IndInv, TypeOK, FileInv, WorkersFollowJob
  <2>4. \A g \in Files \ {f} : Frame(g) /\ raised'[g] = raised[g]
    BY <1>1, <2>1 DEF IndInv, TypeOK, Spawn, Frame
  <2> USE <1>1, <2>3 DEF AllAccounted, Accounted
  <2>5. NoneDropped(f)' BY DEF NoneDropped
  <2>6. NumbersTaken(f)' BY DEF NumbersTaken
  <2>7. EndsAtTheEnd(f)'
    <3>1. 1 \in Workers /\ 1 <= n BY <2>2, BudgetAssumption DEF Workers
    <3> QED BY <3>1 DEF EndsAtTheEnd
  <2> QED BY <2>4, <2>5, <2>6, <2>7, OthersAccounted
<1> QED BY <1>2, <1>3

\* Settling keeps raised = "none" only when every worker met the end of the file.
LEMMA SettleAccounts ==
    ASSUME IndInv, AllAccounted, NEW f \in Files, Settle(f)
    PROVE  AllAccounted'
<1>1. /\ UNCHANGED <<parts, interrupted, reading, position, part_number, results>>
      /\ CancelWorkers(f) /\ TypeOK /\ job[f] = "gather" /\ job' = [job EXCEPT ![f] = "settle"]
  BY DEF Settle, source, outputs, IndInv
<1>2. PICK exc \in FirstRaised(f) : raised' = [raised EXCEPT ![f] = IF @ = "none" THEN exc ELSE @]
  BY DEF Settle
<1>3. raised'[f] = "none" => \A w \in Workers : worker[f][w] \in {"unused", "done"}
  BY <1>1, <1>2 DEF TypeOK, FirstRaised
<1>4. \A g \in Files \ {f} : Frame(g) /\ raised'[g] = raised[g]
  BY <1>1, <1>2, CancelWorkersMoves DEF TypeOK, Frame
<1>5. Accounted(f) /\ job'[f] = "settle" BY <1>1 DEF AllAccounted, TypeOK
<1>6. /\ NoneDropped(f)' /\ NumbersTaken(f)'
      /\ \A v \in Workers : /\ worker'[f][v] = "done" => position[f] >= parts[f]
                            /\ worker'[f][v] = "unused" <=> worker[f][v] = "unused"
                            /\ worker[f][v] \in {"unused", "done"} => worker'[f][v] = worker[f][v]
  BY <1>1, <1>5, CancelledAccounts
<1>7. EndsAtTheEnd(f)'
  <2>1. 1 \in Workers BY BudgetAssumption DEF Workers
  <2> QED BY <1>1, <1>3, <1>5, <1>6, <2>1 DEF Accounted, EndsAtTheEnd
<1> QED BY <1>4, <1>6, <1>7, OthersAccounted DEF Accounted

\* A cancelled upload raises.
LEMMA CancelAccounts ==
    ASSUME IndInv, AllAccounted, NEW f \in Files, Cancel(f)
    PROVE  AllAccounted'
<1>1. UNCHANGED <<parts, reading, position, part_number, results>> /\ TypeOK /\ Accounted(f)
  BY DEF Cancel, source, outputs, IndInv, AllAccounted
<1>2. \A g \in Files \ {f} : interrupted'[g] = interrupted[g]
  BY <1>1 DEF Cancel, TypeOK
<1>3. 1 \in Workers BY BudgetAssumption DEF Workers
<1>4. CASE CancelInScope(f) \/ CancelResuming(f)
  <2>1. /\ UNCHANGED <<worker, read_lock, held>>
        /\ \A g \in Files \ {f} : job'[g] = job[g] /\ raised'[g] = raised[g]
        /\ job'[f] = "cancelled" \/ (job'[f] = job[f] /\ job[f] \in {"gather", "settle"}
                                     /\ raised'[f] = "cancelled")
    BY <1>1, <1>4 DEF CancelInScope, CancelResuming, TypeOK
  <2>2. \A g \in Files \ {f} : Frame(g) /\ raised'[g] = raised[g]
    BY <1>1, <1>2, <2>1 DEF Frame
  <2> USE <1>1, <2>1 DEF Accounted
  <2>3. NoneDropped(f)' BY DEF NoneDropped
  <2>4. NumbersTaken(f)' BY DEF NumbersTaken
  <2>5. EndsAtTheEnd(f)' BY DEF EndsAtTheEnd
  <2> QED BY <2>2, <2>3, <2>4, <2>5, OthersAccounted
<1>5. CASE CancelGathered(f)
  <2>1. /\ CancelWorkers(f) /\ job' = job /\ job[f] \in {"gather", "settle"}
        /\ raised' = [raised EXCEPT ![f] = IF job[f] = "settle" THEN "cancelled" ELSE @]
    BY <1>5 DEF CancelGathered
  <2>2. \A g \in Files \ {f} : Frame(g) /\ raised'[g] = raised[g]
    BY <1>1, <1>2, <2>1, CancelWorkersMoves DEF TypeOK, Frame
  <2>3. /\ NoneDropped(f)' /\ NumbersTaken(f)'
        /\ \A v \in Workers : /\ worker'[f][v] = "done" => position[f] >= parts[f]
                              /\ worker'[f][v] = "unused" <=> worker[f][v] = "unused"
    BY <1>1, <2>1, CancelledAccounts
  <2>4. job[f] = "settle" => raised'[f] = "cancelled" BY <1>1, <2>1 DEF TypeOK
  <2>5. EndsAtTheEnd(f)'
    BY <1>1, <1>3, <2>1, <2>3, <2>4 DEF Accounted, EndsAtTheEnd
  <2> QED BY <2>2, <2>3, <2>5, OthersAccounted DEF Accounted
<1> QED BY <1>4, <1>5 DEF Cancel

\* Every part is accounted for in every reachable state.
LEMMA Accounting == Spec => []AllAccounted
<1>1. Init => AllAccounted
  BY DEF Init, AllAccounted, Accounted, NoneDropped, NumbersTaken, EndsAtTheEnd
<1>2. IndInv /\ BudgetExact /\ AllAccounted /\ [Next \/ Idle]_vars => AllAccounted'
  <2> SUFFICES ASSUME IndInv, BudgetExact, AllAccounted, [Next \/ Idle]_vars PROVE AllAccounted'
    OBVIOUS
  <2>1. CASE UNCHANGED vars \/ Idle
    <3>1. \A g \in Files : Frame(g) /\ raised'[g] = raised[g]
      BY <2>1 DEF Idle, vars, source, pool, outputs, Frame
    <3> QED BY <3>1, FrameAccounts DEF AllAccounted
  <2>2. CASE Next
    <3>1. ASSUME NEW f \in Files, EnterScope(f) \/ JobStep(f) \/ Cancel(f) PROVE AllAccounted'
      BY <3>1, ScopeAccounts, SettleAccounts, CancelAccounts DEF JobStep
    <3>2. ASSUME NEW f \in Files, NEW w \in Workers, WorkerStep(f, w) \/ ThreadStep(f, w)
          PROVE  AllAccounted'
      BY <3>2, WaitingAccounts, ReadAccounts, UploadAccounts, JoinAccounts DEF WorkerStep, ThreadStep
    <3> QED BY <2>2, <3>1, <3>2 DEF Next
  <2> QED BY <2>1, <2>2
<1> QED BY <1>1, <1>2, Invariance, BudgetKept, PTL DEF Spec

\* upload_parts returns normally only when every part of the file was uploaded:
\* no part is dropped by a worker that failed or was cancelled without the call
\* raising for it.
THEOREM Complete == Spec => []CompleteWhenOk
<1>1. IndInv /\ AllAccounted => CompleteWhenOk
  <2> SUFFICES ASSUME IndInv, AllAccounted, NEW f \in Files, job[f] = "ok"
               PROVE  {r.number : r \in results[f]} = 1..parts[f]
    BY DEF CompleteWhenOk
  <2>1. /\ \A w \in Workers : worker[f][w] \in {"unused", "done"}
        /\ worker[f][1] = "done" /\ position[f] >= parts[f] /\ 1 \in Workers
    BY BudgetAssumption DEF AllAccounted, Accounted, EndsAtTheEnd, Workers
  <2>2. part_number[f] = parts[f]
    <3>1. part_number[f] \in Nat /\ position[f] \in Nat /\ parts[f] \in Nat
      BY SizeAssumption DEF IndInv, TypeOK
    <3>2. NumbersFollowReads(f) BY DEF IndInv, FileInv
    <3> QED BY <2>1, <3>1, <3>2 DEF NumbersFollowReads
  <2>3. \A n \in 1..parts[f] : \E r \in results[f] : r.number = n
    BY <2>1, <2>2 DEF AllAccounted, Accounted, NoneDropped
  <2>4. \A r \in results[f] : r.number \in 1..parts[f]
    BY <2>2 DEF AllAccounted, Accounted, NumbersTaken
  <2> QED BY <2>3, <2>4
<1> QED BY <1>1, Invariance, Accounting, PTL

-----------------------------------------------------------------------------
(* No wait is endless: what the liveness of upload_parts rests on.          *)

\* A held read lock is held by a worker whose thread reads.
LockInUse == \A f \in Files : read_lock[f] # 0 => worker[f][read_lock[f]] \in {"read", "join"}

\* Every step keeps that.
LEMMA LockInUseKeeps == IndInv /\ LockInUse /\ [Next \/ Idle]_vars => LockInUse'
<1> SUFFICES ASSUME IndInv, LockInUse, [Next \/ Idle]_vars, NEW g \in Files, read_lock'[g] # 0
             PROVE  worker'[g][read_lock'[g]] \in {"read", "join"}
  BY DEF LockInUse
<1> USE DEF LockInUse
<1>1. TypeOK /\ FileInv(g) BY DEF IndInv
<1>2. CASE UNCHANGED vars \/ Idle
  <2>1. UNCHANGED <<worker, read_lock>> BY <1>2 DEF Idle, vars, pool
  <2> QED BY <2>1
<1>3. ASSUME NEW f \in Files, EnterScope(f) \/ SpawnWorkers(f) PROVE worker'[g][read_lock'[g]] \in {"read", "join"}
  <2>1. CASE EnterScope(f) BY <2>1 DEF EnterScope, pool
  <2>2. CASE SpawnWorkers(f)
    <3>1. read_lock' = read_lock /\ job[f] = "scope" /\ \A h \in Files \ {f} : worker'[h] = worker[h]
      BY <1>1, <2>2 DEF SpawnWorkers, Spawn, TypeOK
    <3>2. \A w \in Workers : worker[f][w] = "unused" BY <3>1 DEF IndInv, FileInv, WorkersFollowJob
    <3>3. read_lock[f] \in Workers \cup {0} BY DEF IndInv, TypeOK
    <3> QED BY <3>1, <3>2, <3>3
  <2> QED BY <1>3, <2>1, <2>2
<1>4. ASSUME NEW f \in Files, Return(f) PROVE worker'[g][read_lock'[g]] \in {"read", "join"}
  BY <1>4 DEF Return, pool
<1>5. ASSUME NEW f \in Files, CancelWorkers(f) PROVE worker'[g][read_lock'[g]] \in {"read", "join"}
  <2> DEFINE after == [w \in Workers |-> AfterCancel(worker[f][w])]
             freed == {w \in Workers : worker[f][w] \in Holding /\ after[w] \notin Holding}
  <2>1. /\ worker' = [worker EXCEPT ![f] = after]
        /\ read_lock' = [read_lock EXCEPT ![f] = IF @ \in freed THEN 0 ELSE @]
    BY <1>5 DEF CancelWorkers
  <2>2. CASE g # f BY <1>1, <2>1, <2>2 DEF TypeOK
  <2>3. CASE g = f
    <3> DEFINE h == read_lock[f]
    <3>1. worker'[f] = after /\ read_lock'[f] = (IF h \in freed THEN 0 ELSE h) BY <1>1, <2>1, <2>3 DEF TypeOK
    <3>2. h # 0 /\ h \notin freed /\ read_lock'[f] = h BY <2>3, <3>1
    <3>3. h \in Workers /\ worker[f][h] \in {"read", "join"} BY <1>1, <2>3, <3>2 DEF TypeOK
    <3>4. after[h] \in Holding BY <3>2, <3>3 DEF Holding
    <3>5. after[h] = AfterCancel(worker[f][h]) BY <3>3
    <3> HIDE DEF after, freed
    <3>6. AfterCancel(worker[f][h]) \in {"join", "stopped"} BY <3>3 DEF AfterCancel
    <3> QED BY <2>3, <3>1, <3>2, <3>4, <3>5, <3>6 DEF Holding
  <2> QED BY <2>2, <2>3
<1>6. ASSUME NEW f \in Files, Settle(f) PROVE worker'[g][read_lock'[g]] \in {"read", "join"}
  BY <1>5, <1>6 DEF Settle
<1>7. ASSUME NEW f \in Files, Cancel(f) PROVE worker'[g][read_lock'[g]] \in {"read", "join"}
  <2>1. CASE CancelGathered(f) BY <1>5, <2>1 DEF CancelGathered
  <2>2. CASE CancelInScope(f) \/ CancelResuming(f) BY <2>2 DEF CancelInScope, CancelResuming
  <2> QED BY <1>7, <2>1, <2>2 DEF Cancel
<1>8. ASSUME NEW f \in Files, NEW w \in Workers, WorkerStep(f, w) \/ ThreadStep(f, w)
      PROVE  worker'[g][read_lock'[g]] \in {"read", "join"}
  <2>1. \A h \in Files \ {f} : worker'[h] = worker[h] /\ read_lock'[h] = read_lock[h]
    BY <1>1, <1>8 DEF WorkerStep, ThreadStep, AcquireSlot, StartRead, UploadDone, UploadFail, ReadChunk, ReadEnd,
       ReadJoined, ReadAbandoned, TypeOK, LockReleased
  <2>2. CASE g # f BY <2>1, <2>2
  <2>3. CASE g = f
    <3>1. CASE StartRead(f, w)
      BY <1>1, <2>3, <3>1 DEF StartRead, TypeOK
    <3>2. CASE ReadChunk(f, w) \/ ReadEnd(f, w) \/ ReadJoined(f, w)
      BY <1>1, <2>3, <3>2 DEF ReadChunk, ReadEnd, ReadJoined, TypeOK, LockReleased
    <3>3. CASE AcquireSlot(f, w) \/ UploadDone(f, w) \/ UploadFail(f, w) \/ ReadAbandoned(f, w)
      <4>1. read_lock' = read_lock /\ \A v \in Workers : worker[f][v] \in {"read", "join"} => worker'[f][v] = worker[f][v]
        BY <1>1, <2>3, <3>3 DEF AcquireSlot, UploadDone, UploadFail, ReadAbandoned, TypeOK
      <4>2. read_lock[f] \in Workers \cup {0} BY DEF IndInv, TypeOK
      <4> QED BY <2>3, <4>1, <4>2
    <3> QED BY <1>8, <3>1, <3>2, <3>3 DEF WorkerStep, ThreadStep
  <2> QED BY <2>2, <2>3
<1> QED BY <1>2, <1>3, <1>4, <1>6, <1>7, <1>8 DEF Next, JobStep

\* What a worker waits for, or what its thread or request does, may be there now.
CanWork(f, w) ==
    \/ worker[f][w] = "slot" /\ SlotFree
    \/ worker[f][w] = "lock" /\ LockFree(f)
    \/ worker[f][w] \in {"read", "join"} /\ w \in reading[f]
    \/ worker[f][w] = "upload"

CanGoOn(f) ==
    \/ job[f] = "scope"
    \/ job[f] = "gather" /\ GatherOver(f)
    \/ job[f] = "settle" /\ AllEnded(f)
    \/ \E w \in Workers : CanWork(f, w)

\* An upload in its scope can go on, or waits for slots that others hold, one of
\* which is about to be given back or used.
NeverStuck ==
    \A f \in Files : job[f] \in Running =>
        CanGoOn(f) \/ (slots = 0 /\ \E g \in Files : \E w \in Workers : worker[g][w] \in Holding /\ CanWork(g, w))

\* Of a worker that has a slot, it or the holder of the read lock can go on.
LEMMA HolderWorks ==
    ASSUME IndInv, LockInUse, NEW f \in Files, NEW w \in Workers, worker[f][w] \in Holding
    PROVE  \E v \in Workers : worker[f][v] \in Holding /\ CanWork(f, v)
<1>1. TypeOK /\ FileInv(f) BY DEF IndInv
<1>2. CASE worker[f][w] # "lock" \/ read_lock[f] = 0
  BY <1>1, <1>2 DEF Holding, CanWork, LockFree, FileInv, ThreadsAndLock
<1>3. CASE worker[f][w] = "lock" /\ read_lock[f] # 0
  <2>1. read_lock[f] \in Workers /\ worker[f][read_lock[f]] \in {"read", "join"} BY <1>1, <1>3 DEF TypeOK, LockInUse
  <2>2. read_lock[f] \in reading[f] BY <1>1, <2>1 DEF FileInv, ThreadsAndLock
  <2> QED BY <2>1, <2>2 DEF Holding, CanWork
<1> QED BY <1>2, <1>3

\* Nobody waits for ever on everyone: whenever an upload is in its scope, it can
\* go on, or it waits for slots of the budget that uploads hold of which one can
\* go on, whatever was cancelled and whichever threads were left behind.
THEOREM Unstuck == Spec => []NeverStuck
<1>1. Init => LockInUse BY DEF Init, LockInUse
<1>2. IndInv /\ LockInUse /\ BudgetExact => NeverStuck
  <2> SUFFICES ASSUME IndInv, LockInUse, BudgetExact, NEW f \in Files, job[f] \in Running, ~CanGoOn(f)
               PROVE  slots = 0 /\ \E g \in Files : \E w \in Workers : worker[g][w] \in Holding /\ CanWork(g, w)
    BY DEF NeverStuck
  <2>1. TypeOK /\ FileInv(f) BY DEF IndInv
  <2>2. PICK w \in Workers : worker[f][w] \notin Ended
    BY DEF CanGoOn, Running, GatherOver, AllEnded
  <2>3. \A v \in Workers : worker[f][v] \notin Holding
    BY HolderWorks DEF CanGoOn
  <2>4. worker[f][w] = "slot" /\ ~SlotFree
    BY <2>1, <2>2, <2>3 DEF TypeOK, WorkerStates, Waiting, Holding, CanGoOn, CanWork
  <2>5. slots = 0
    BY <2>1, <2>4 DEF SlotFree, BudgetExact, SlotsConserved, TypeOK
  <2>6. Holders # {}
    <3>1. Cardinality({}) = 0 BY FS_EmptySet
    <3> QED BY <2>5, <3>1, BudgetAssumption DEF BudgetExact, SlotsConserved
  <2>7. PICK g \in Files, v \in Workers : worker[g][v] \in Holding BY <2>6 DEF Holders
  <2>8. \E u \in Workers : worker[g][u] \in Holding /\ CanWork(g, u) BY <2>7, HolderWorks
  <2> QED BY <2>5, <2>8
<1> QED BY <1>1, <1>2, LockInUseKeeps, Invariance, BudgetKept, PTL DEF Spec

=============================================================================
