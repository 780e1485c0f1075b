---------------------------- MODULE UploadParts ----------------------------
(***************************************************************************)
(* upload_parts of src/src/asanypath/_transfer.py: the worker pool that    *)
(* reads a file in parts and uploads them concurrently, under the          *)
(* TransferBudget all transfers of an event loop share.                    *)
(*                                                                         *)
(* One upload per member of Files.  Its coroutine (job) enters the         *)
(* transfer scope, spawns workers, gathers them and, in its finally block, *)
(* cancels and joins what is left.  A worker reserves a slot of the budget,*)
(* takes the file's read lock, reads one part in an OS thread (_file_io),  *)
(* uploads it and starts over.                                             *)
(*                                                                         *)
(* Cancellation is asyncio's: a CancelledError is delivered at the await   *)
(* the task is suspended in.  All the children of one gather receive it in *)
(* the same turn of the event loop, before the gathering task runs again,  *)
(* so a delivery to all the workers of a file is one step.  An OS thread   *)
(* cannot be cancelled: it ends when its read ends, whoever still waits.   *)
(***************************************************************************)
EXTENDS Integers, FiniteSets

CONSTANTS Files,       \* the uploads that share one TransferBudget
          Floor,       \* TransferBudget.floor
          Ceiling,     \* TransferBudget.ceiling
          PerFileCap,  \* TransferBudget.per_file_cap
          MaxParts     \* bound: the parts of the largest file

\* TransferBudget.__init__ raises ValueError unless these hold.
ASSUME BudgetAssumption ==
    /\ Floor \in Nat /\ Ceiling \in Nat /\ PerFileCap \in Nat
    /\ 1 <= Floor /\ Floor <= Ceiling /\ 1 <= PerFileCap

ASSUME SizeAssumption == MaxParts \in Nat \ {0} /\ IsFiniteSet(Files)

VARIABLES declared,      \* ceil(size / part_size), size as the caller passed it
          parts,         \* the parts the file really has when it is read
          job,           \* where the upload_parts coroutine is
          interrupted,   \* its task has been cancelled at least once
          raised,        \* the exception it is going to raise, or "none"
          active_files,  \* TransferBudget.active_files
          slots,         \* value of the semaphore TransferBudget._slots
          worker,        \* where each worker task is
          read_lock,     \* the worker that holds the file's read lock, or 0
          reading,       \* workers whose OS thread is inside fileobj.read
          position,      \* parts already read from the file
          part_number,   \* the counter part numbers are taken from
          held,          \* part a worker uploads: its number and its content
          results        \* what was uploaded: pairs of number and content

source  == <<declared, parts>>
budget  == <<active_files, slots>>
pool    == <<worker, read_lock, reading, held>>
outputs == <<part_number, results>>
vars    == <<source, job, interrupted, raised, budget, pool, position, outputs>>

Workers == 1..PerFileCap
Parts   == 1..MaxParts
Nothing == [number |-> 0, content |-> 0]

Running  == {"scope", "gather", "settle"}
Returned == {"ok", "error", "cancelled"}

Waiting == {"slot", "lock"}                      \* at an await with no result yet
Holding == {"lock", "read", "join", "upload"}    \* inside "async with budget._slots"
Ended   == {"unused", "done", "failed", "stopped"}
WorkerStates == Waiting \cup Holding \cup Ended

\* min(per_file_cap, max(1, floor // active_files), max(1, ceil(size / part_size)))
WorkerCount(n, active) ==
    LET share == IF Floor \div active > 1 THEN Floor \div active ELSE 1
        most  == IF n > 1 THEN n ELSE 1
        least == IF share < most THEN share ELSE most
    IN  IF PerFileCap < least THEN PerFileCap ELSE least

\* fileobj.read returns nothing.
AtEofTooLate(f) == position[f] > parts[f]
AtEofTooEarly(f) == position[f] + 1 >= parts[f]
AtEof(f) == position[f] >= parts[f]

\* part_number += 1, under the read lock.
NextNumberByCompletion(f) == Cardinality(results[f]) + 1
NextNumber(f) == part_number[f] + 1

\* async with read_lock
LockIgnored(f) == TRUE
LockFree(f) == read_lock[f] = 0

LockKept(f) == read_lock
LockReleased(f) == [read_lock EXCEPT ![f] = 0]

SlotFree == slots > 0

\* The finally block of transfer_scope.
ScopeNotLeft == UNCHANGED active_files
LeaveScope == active_files' = active_files - 1

\* await asyncio.gather( *tasks, return_exceptions=True)
AllEnded(f) == \A w \in Workers : worker[f][w] \in Ended

-----------------------------------------------------------------------------
Init ==
    /\ declared \in [Files -> Parts]
    /\ parts \in [Files -> 0..MaxParts]
    /\ job = [f \in Files |-> "idle"]
    /\ interrupted = [f \in Files |-> FALSE]
    /\ raised = [f \in Files |-> "none"]
    /\ active_files = 0
    /\ slots = Ceiling
    /\ worker = [f \in Files |-> [w \in Workers |-> "unused"]]
    /\ read_lock = [f \in Files |-> 0]
    /\ reading = [f \in Files |-> {}]
    /\ position = [f \in Files |-> 0]
    /\ part_number = [f \in Files |-> 0]
    /\ held = [f \in Files |-> [w \in Workers |-> Nothing]]
    /\ results = [f \in Files |-> {}]

\* transfer_scope: register with the budget, then yield to the loop once.
EnterScope(f) ==
    /\ job[f] = "idle"
    /\ job' = [job EXCEPT ![f] = "scope"]
    /\ active_files' = active_files + 1
    /\ UNCHANGED <<source, interrupted, raised, slots, pool, position, outputs>>

\* Create the tasks of n workers and gather them.
Spawn(f, n) ==
    /\ job' = [job EXCEPT ![f] = "gather"]
    /\ worker' = [worker EXCEPT ![f] = [w \in Workers |->
                    IF w <= n THEN "slot" ELSE "unused"]]
    /\ UNCHANGED <<source, interrupted, raised, budget, read_lock, reading, held,
                   position, outputs>>

\* The number of workers is fixed once, by the uploads active at that moment;
\* it is one when the backend asks for parallel=False.
SpawnWorkers(f) ==
    /\ job[f] = "scope"
    /\ \E n \in {1, WorkerCount(declared[f], active_files)} : Spawn(f, n)

-----------------------------------------------------------------------------
\* async with budget._slots
AcquireSlot(f, w) ==
    /\ worker[f][w] = "slot"
    /\ SlotFree
    /\ slots' = slots - 1
    /\ worker' = [worker EXCEPT ![f][w] = "lock"]
    /\ UNCHANGED <<source, job, interrupted, raised, active_files, read_lock, reading,
                   held, position, outputs>>

\* async with read_lock, then _file_io starts the read in a thread.
StartRead(f, w) ==
    /\ worker[f][w] = "lock"
    /\ LockFree(f)
    /\ read_lock' = [read_lock EXCEPT ![f] = w]
    /\ reading' = [reading EXCEPT ![f] = @ \cup {w}]
    /\ worker' = [worker EXCEPT ![f][w] = "read"]
    /\ UNCHANGED <<source, job, interrupted, raised, budget, held, position, outputs>>

\* The thread's read returned a part: number it and leave the read lock.
ReadChunk(f, w) ==
    /\ worker[f][w] = "read"
    /\ w \in reading[f]
    /\ ~AtEof(f)
    /\ reading' = [reading EXCEPT ![f] = @ \ {w}]
    /\ position' = [position EXCEPT ![f] = @ + 1]
    /\ part_number' = [part_number EXCEPT ![f] = @ + 1]
    /\ held' = [held EXCEPT ![f][w] = [number  |-> NextNumber(f),
                                       content |-> position[f] + 1]]
    /\ read_lock' = LockReleased(f)
    /\ worker' = [worker EXCEPT ![f][w] = "upload"]
    /\ UNCHANGED <<source, job, interrupted, raised, budget, results>>

\* The read returned nothing (the worker returns) or raised (it fails).
ReadEnd(f, w) ==
    /\ worker[f][w] = "read"
    /\ w \in reading[f]
    /\ \/ /\ AtEof(f)
          /\ worker' = [worker EXCEPT ![f][w] = "done"]
       \/ worker' = [worker EXCEPT ![f][w] = "failed"]
    /\ reading' = [reading EXCEPT ![f] = @ \ {w}]
    /\ read_lock' = LockReleased(f)
    /\ slots' = slots + 1
    /\ UNCHANGED <<source, job, interrupted, raised, active_files, held, position, outputs>>

\* The thread a cancelled worker waits for in _file_io ends: the worker
\* re-raises its CancelledError, or the read's own error.
ReadJoined(f, w) ==
    /\ worker[f][w] = "join"
    /\ w \in reading[f]
    /\ reading' = [reading EXCEPT ![f] = @ \ {w}]
    /\ position' = [position EXCEPT ![f] = IF AtEof(f) THEN @ ELSE @ + 1]
    /\ read_lock' = LockReleased(f)
    /\ \E end \in {"stopped", "failed"} : worker' = [worker EXCEPT ![f][w] = end]
    /\ slots' = slots + 1
    /\ UNCHANGED <<source, job, interrupted, raised, active_files, held, outputs>>

\* A thread nobody waits for any more ends.
ReadAbandoned(f, w) ==
    /\ worker[f][w] = "stopped"
    /\ w \in reading[f]
    /\ reading' = [reading EXCEPT ![f] = @ \ {w}]
    /\ position' = [position EXCEPT ![f] = IF AtEof(f) THEN @ ELSE @ + 1]
    /\ UNCHANGED <<source, job, interrupted, raised, budget, worker, read_lock, held, outputs>>

\* upload() returned; the worker leaves its slot and loops.
UploadDone(f, w) ==
    /\ worker[f][w] = "upload"
    /\ results' = [results EXCEPT ![f] = @ \cup {held[f][w]}]
    /\ held' = [held EXCEPT ![f][w] = Nothing]
    /\ worker' = [worker EXCEPT ![f][w] = "slot"]
    /\ slots' = slots + 1
    /\ UNCHANGED <<source, job, interrupted, raised, active_files, read_lock, reading,
                   position, part_number>>

\* upload() raised.
UploadFail(f, w) ==
    /\ worker[f][w] = "upload"
    /\ held' = [held EXCEPT ![f][w] = Nothing]
    /\ worker' = [worker EXCEPT ![f][w] = "failed"]
    /\ slots' = slots + 1
    /\ UNCHANGED <<source, job, interrupted, raised, active_files, read_lock, reading,
                   position, outputs>>

-----------------------------------------------------------------------------
AfterCancelNoJoin(s) ==
    IF s \in Waiting \cup Holding THEN "stopped" ELSE s

\* Where a worker stands after task.cancel(): the first CancelledError makes
\* _file_io wait for its thread, a second one is raised by that wait itself
\* (the wait is not shielded).
AfterCancel(s) ==
    CASE s = "read" -> "join"
      [] s \in {"slot", "lock", "upload", "join"} -> "stopped"
      [] OTHER -> s

\* Cancel every task of f that is not done; what they held is released by
\* the "async with" blocks they leave.
CancelWorkers(f) ==
    LET after == [w \in Workers |-> AfterCancel(worker[f][w])]
        freed == {w \in Workers : worker[f][w] \in Holding /\ after[w] \notin Holding}
    IN  /\ worker' = [worker EXCEPT ![f] = after]
        /\ slots' = slots + Cardinality(freed)
        /\ read_lock' = [read_lock EXCEPT ![f] = IF @ \in freed THEN 0 ELSE @]
        /\ held' = [held EXCEPT ![f] = [w \in Workers |-> Nothing]]

\* gather has a first exception to raise, or everything ended.
GatherOver(f) ==
    \/ \E w \in Workers : worker[f][w] \in {"failed", "stopped"}
    \/ AllEnded(f)

\* Leaving the scope before any worker exists.
CancelInScope(f) ==
    /\ job[f] = "scope"
    /\ job' = [job EXCEPT ![f] = "cancelled"]
    /\ LeaveScope
    /\ UNCHANGED <<raised, slots, worker, read_lock, held>>

\* gather (the first, or the one in the finally block) passes the cancellation
\* on to its children.  The first gather then raises what its first child
\* raised; the second one a CancelledError.
CancelGathered(f) ==
    /\ job[f] \in {"gather", "settle"}
    /\ ~AllEnded(f)
    /\ CancelWorkers(f)
    /\ raised' = [raised EXCEPT ![f] = IF job[f] = "settle" THEN "cancelled" ELSE @]
    /\ UNCHANGED <<job, active_files>>

\* The gather is over but the coroutine has not been resumed: it is resumed
\* with a CancelledError and the children learn nothing.
CancelResuming(f) ==
    /\ \/ job[f] = "gather" /\ GatherOver(f)
       \/ job[f] = "settle" /\ AllEnded(f)
    /\ raised' = [raised EXCEPT ![f] = "cancelled"]
    /\ UNCHANGED <<job, budget, worker, read_lock, held>>

\* The task running upload_parts is cancelled while suspended.
Cancel(f) ==
    /\ CancelInScope(f) \/ CancelGathered(f) \/ CancelResuming(f)
    /\ interrupted' = [interrupted EXCEPT ![f] = TRUE]
    /\ UNCHANGED <<source, reading, position, outputs>>

\* The exceptions a finished gather may raise: its first child's.
FirstRaised(f) ==
    IF \A w \in Workers : worker[f][w] \in {"unused", "done"} THEN {"none"}
    ELSE {IF worker[f][w] = "failed" THEN "error" ELSE "cancelled" :
            w \in {v \in Workers : worker[f][v] \in {"failed", "stopped"}}}

\* gather is over: the finally block cancels every task that is not done and
\* waits for them.
Settle(f) ==
    /\ job[f] = "gather"
    /\ GatherOver(f)
    /\ job' = [job EXCEPT ![f] = "settle"]
    /\ \E exc \in FirstRaised(f) :
         raised' = [raised EXCEPT ![f] = IF @ = "none" THEN exc ELSE @]
    /\ CancelWorkers(f)
    /\ UNCHANGED <<source, interrupted, active_files, reading, position, outputs>>

\* Every task is done: leave the scope and return the results or raise.
Return(f) ==
    /\ job[f] = "settle"
    /\ AllEnded(f)
    /\ job' = [job EXCEPT ![f] = IF raised[f] = "none" THEN "ok" ELSE raised[f]]
    /\ LeaveScope
    /\ UNCHANGED <<source, interrupted, raised, slots, pool, position, outputs>>

-----------------------------------------------------------------------------
ThreadStep(f, w) == \/ ReadChunk(f, w) \/ ReadEnd(f, w)
                    \/ ReadJoined(f, w) \/ ReadAbandoned(f, w)

WorkerStep(f, w) == \/ AcquireSlot(f, w) \/ StartRead(f, w)
                    \/ UploadDone(f, w) \/ UploadFail(f, w)

JobStep(f) == SpawnWorkers(f) \/ Settle(f) \/ Return(f)

Next == \E f \in Files : \/ EnterScope(f)
                         \/ JobStep(f)
                         \/ Cancel(f)
                         \/ \E w \in Workers : WorkerStep(f, w) \/ ThreadStep(f, w)

\* All uploads returned and no thread is left: the process is idle.
Idle == /\ \A f \in Files : job[f] \in Returned /\ reading[f] = {}
        /\ UNCHANGED vars

Spec == Init /\ [][Next \/ Idle]_vars

\* The event loop runs every ready task, threads end, requests are answered
\* (or time out, which fails them); a worker and its thread never wait for one
\* another's turn.  Nothing is assumed of cancellations.
Fairness == \A f \in Files :
               /\ WF_vars(JobStep(f))
               /\ \A w \in Workers : WF_vars(WorkerStep(f, w) \/ ThreadStep(f, w))

FairSpec == Spec /\ Fairness

-----------------------------------------------------------------------------
\* Every variable has the type upload_parts gives it.
TypeOK ==
    /\ declared \in [Files -> Parts]
    /\ parts \in [Files -> 0..MaxParts]
    /\ job \in [Files -> Running \cup Returned \cup {"idle"}]
    /\ interrupted \in [Files -> BOOLEAN]
    /\ raised \in [Files -> {"none", "error", "cancelled"}]
    /\ active_files \in Int
    /\ slots \in Int
    /\ worker \in [Files -> [Workers -> WorkerStates]]
    /\ read_lock \in [Files -> Workers \cup {0}]
    /\ reading \in [Files -> SUBSET Workers]
    /\ position \in [Files -> 0..MaxParts]
    /\ part_number \in [Files -> 0..MaxParts]
    /\ held \in [Files -> [Workers -> [number : 0..MaxParts, content : 0..MaxParts]]]
    /\ results \in [Files -> SUBSET [number : Parts, content : Parts]]

Holders == {fw \in Files \X Workers : worker[fw[1]][fw[2]] \in Holding}

\* Every slot of the budget is free or held by exactly one worker, however
\* workers end (part uploaded, end of file, error, one or two cancellations):
\* no slot is lost, none is returned twice, and at most Ceiling parts are
\* buffered at any time.
SlotsConserved == slots >= 0 /\ slots + Cardinality(Holders) = Ceiling

\* active_files counts the uploads inside their scope, on every way out of it.
ActiveFilesExact == active_files = Cardinality({f \in Files : job[f] \in Running})

\* The accounting of the budget all transfers share, which nothing repairs: a
\* slot that is lost or a count that is off starves every later transfer.
BudgetExact == SlotsConserved /\ ActiveFilesExact

\* fileobj is never read by two threads at once, not even when a cancelled
\* worker has left its thread behind and with it the read lock.
OneReader == \A f \in Files : \A v, w \in reading[f] : v = w

\* A part carries the number of its place in the file, whatever the order
\* in which the workers read and the uploads end.
NumberedInSourceOrder ==
    \A f \in Files :
        /\ \A r \in results[f] : r.number = r.content
        /\ \A w \in Workers : worker[f][w] = "upload" => held[f][w].number = held[f][w].content

\* upload_parts returns normally only with every part of the file uploaded.
CompleteWhenOk ==
    \A f \in Files : job[f] = "ok" => {r.number : r \in results[f]} = 1..parts[f]

\* When upload_parts is over no worker is left running: nothing is uploaded
\* after it returned or raised.
SettledWhenReturned ==
    \A f \in Files : job[f] \in Returned => \A w \in Workers : worker[f][w] \in Ended

\* Unless it was cancelled, upload_parts is over only when no thread reads
\* the file any more; a failing worker makes the others wait for theirs.
JoinedUnlessCancelled ==
    \A f \in Files : job[f] \in Returned /\ ~interrupted[f] => reading[f] = {}

\* What the caller relies on when it closes its file or aborts its upload.
NothingLeftBehind == SettledWhenReturned /\ JoinedUnlessCancelled

\* An upload that entered its scope returns or raises: no wait for a slot, for
\* the read lock or for the other workers is endless.
EveryUploadReturns == \A f \in Files : job[f] = "scope" ~> job[f] \in Returned
=============================================================================
