----------------------------- MODULE SyncRunner -----------------------------
(***************************************************************************)
(* The synchronous facade of src/src/asanypath/sync.py: _SyncRunner runs   *)
(* the coroutines of every thread on an event loop in a daemon thread,     *)
(* both made by the first call; _SyncProxy turns each attribute of an      *)
(* asynchronous path into its blocking form and wraps the paths it         *)
(* returns.                                                                *)
(*                                                                         *)
(* get() is double-checked under a lock, _start() is not: each read and    *)
(* each assignment of self._loop and of self._thread is a step of its own, *)
(* and several threads may meet in it.  A progress callback runs on the    *)
(* loop's thread and may call the facade again.                            *)
(***************************************************************************)
EXTENDS Integers, FiniteSets

CONSTANTS SrThreads,  \* threads that use the facade
          SrItems     \* items an asynchronous iterator yields

\* The threads of a process are finitely many.
ASSUME SrAssumption == SrItems \in Nat /\ IsFiniteSet(SrThreads)

VARIABLES srMade,     \* runners made by get()
          srRunner,   \* _SyncRunner._instance is set
          srLock,     \* the threads that hold _SyncRunner._lock
          srLoops,    \* loops made so far; a loop is its number
          srLoop,     \* self._loop, 0 when None
          srRuns,     \* loops that some thread runs
          srThread,   \* self._thread: the loop it is to run, 0 when None
          srBegun,    \* ... and it has been started
          srPc,       \* where each thread is
          srKind,     \* what it called
          srAt,       \* the loop its coroutine was submitted to
          srLeft,     \* items its iterator has still to yield
          srGiven,    \* what the last call of each thread returned
          srBlocked   \* loops whose thread waits for itself

srVars == <<srMade, srRunner, srLock, srLoops, srLoop, srRuns, srThread, srBegun, srPc, srKind,
            srAt, srLeft, srGiven, srBlocked>>

\* What __getattr__ tells apart: values and methods that answer at once, and
\* what has to be awaited.
SrKinds == {"plain", "coroutine", "generator"}
SrBlocking == {"coroutine", "generator"}

\* What an attribute, a method or an item may be, and what _wrap makes of it:
\* asynchronous paths become proxies, other values and synchronous paths pass.
\* The items of walk() are triples with a path, which is not looked for.
SrResults == {"async path", "other", "walk triple"}
SrWrap(result) == IF result = "async path" THEN "other" ELSE result

\* if cls._instance is None, once more under the lock
SrSecondCheck == ~srRunner

SrInit ==
    /\ srMade = 0 /\ srRunner = FALSE /\ srLock = {} /\ srLoops = 0 /\ srLoop = 0 /\ srRuns = {}
    /\ srPc = [t \in SrThreads |-> "idle"] /\ srKind = [t \in SrThreads |-> "plain"]
    /\ srThread = 0 /\ srBegun = FALSE /\ srAt = [t \in SrThreads |-> 0]
    /\ srLeft = [t \in SrThreads |-> 0] /\ srGiven = [t \in SrThreads |-> "other"]
    /\ srBlocked = {}

\* proxy.name(...): values and plain methods answer at once, the others go to
\* the runner.
SrGetattr(t) ==
    /\ srPc[t] = "idle"
    /\ \E kind \in SrKinds, result \in SrResults \ {"walk triple"} :
         /\ srKind' = [srKind EXCEPT ![t] = kind]
         /\ srLeft' = [srLeft EXCEPT ![t] = IF kind = "generator" THEN SrItems ELSE 0]
         /\ srGiven' = [srGiven EXCEPT ![t] = IF kind \in SrBlocking THEN @ ELSE SrWrap(result)]
         /\ srPc' = [srPc EXCEPT ![t] = IF kind \notin SrBlocking THEN "done"
                                        ELSE IF srRunner THEN "start" ELSE "get"]
    /\ UNCHANGED <<srMade, srRunner, srLock, srLoops, srLoop, srRuns, srThread, srBegun, srAt, srBlocked>>

\* with cls._lock
SrAcquire(t) ==
    /\ srPc[t] = "get" /\ srLock = {}
    /\ srLock' = {t}
    /\ srPc' = [srPc EXCEPT ![t] = "locked"]
    /\ UNCHANGED <<srMade, srRunner, srLoops, srLoop, srRuns, srKind, srThread, srBegun, srAt, srLeft,
                   srGiven, srBlocked>>

SrMake(t) ==
    /\ srPc[t] = "locked"
    /\ srMade' = IF SrSecondCheck THEN srMade + 1 ELSE srMade
    /\ srRunner' = TRUE
    /\ srLock' = {}
    /\ srPc' = [srPc EXCEPT ![t] = "start"]
    /\ UNCHANGED <<srLoops, srLoop, srRuns, srKind, srThread, srBegun, srAt, srLeft, srGiven, srBlocked>>

\* _start: if self._loop is None (nobody ever closes a loop)
SrStart(t) ==
    /\ srPc[t] = "start"
    /\ srPc' = [srPc EXCEPT ![t] = IF srLoop = 0 THEN "new loop" ELSE "submit"]
    /\ UNCHANGED <<srMade, srRunner, srLock, srLoops, srLoop, srRuns, srKind, srThread, srBegun, srAt,
                   srLeft, srGiven, srBlocked>>

\* self._loop = asyncio.new_event_loop()
SrNewLoop(t) ==
    /\ srPc[t] = "new loop"
    /\ srLoops' = srLoops + 1 /\ srLoop' = srLoops'
    /\ srPc' = [srPc EXCEPT ![t] = "new thread"]
    /\ UNCHANGED <<srMade, srRunner, srLock, srRuns, srKind, srThread, srBegun, srAt, srLeft, srGiven,
                   srBlocked>>

\* self._thread = threading.Thread(target=self._loop.run_forever): the loop
\* that is there now.
SrNewThread(t) ==
    /\ srPc[t] = "new thread"
    /\ srThread' = srLoop /\ srBegun' = FALSE
    /\ srPc' = [srPc EXCEPT ![t] = "run thread"]
    /\ UNCHANGED <<srMade, srRunner, srLock, srLoops, srLoop, srRuns, srKind, srAt, srLeft,
                   srGiven, srBlocked>>

\* self._thread.start(), of the one that is there now: a second thread on one
\* loop ends at once.
SrNotStarted == srRuns
SrStarted == srRuns \cup {srThread}

\* One that another call has started cannot be started again: RuntimeError.
SrRunThread(t) ==
    /\ srPc[t] = "run thread"
    /\ srRuns' = IF srBegun THEN srRuns ELSE SrStarted
    /\ srBegun' = TRUE
    /\ srPc' = [srPc EXCEPT ![t] = IF srBegun THEN "done" ELSE "submit"]
    /\ UNCHANGED <<srMade, srRunner, srLock, srLoops, srLoop, srThread, srKind, srAt, srLeft,
                   srGiven, srBlocked>>

\* run_coroutine_threadsafe(coro, self._loop), then result()
SrSubmit(t) ==
    /\ srPc[t] = "submit"
    /\ srAt' = [srAt EXCEPT ![t] = srLoop]
    /\ srPc' = [srPc EXCEPT ![t] = "waiting"]
    /\ UNCHANGED <<srMade, srRunner, srLock, srLoops, srLoop, srRuns, srKind, srThread, srBegun, srLeft,
                   srGiven, srBlocked>>

\* The loop ran the coroutine: run() returns, iter() yields an item or ends.
SrAnswer(t) ==
    /\ srPc[t] = "waiting" /\ srAt[t] \in srRuns \ srBlocked
    /\ \/ /\ srKind[t] = "coroutine" \/ srLeft[t] > 0
          /\ \E result \in SrResults :
               /\ result = "walk triple" => srKind[t] = "generator"
               /\ srGiven' = [srGiven EXCEPT ![t] = SrWrap(result)]
       \/ srKind[t] = "generator" /\ srLeft[t] = 0 /\ UNCHANGED srGiven
    /\ srLeft' = [srLeft EXCEPT ![t] = IF @ > 0 THEN @ - 1 ELSE 0]
    /\ srPc' = [srPc EXCEPT ![t] = IF srKind[t] = "generator" /\ srLeft[t] > 0 THEN "submit" ELSE "done"]
    /\ UNCHANGED <<srMade, srRunner, srLock, srLoops, srLoop, srRuns, srKind, srThread, srBegun, srAt,
                   srBlocked>>

\* A callback of the coroutine calls the facade: the loop's own thread waits
\* for a result that only it could produce.
SrCallback(t) ==
    /\ srPc[t] = "waiting" /\ srAt[t] \in srRuns \ srBlocked /\ srAt[t] = srLoop
    /\ srBlocked' = srBlocked \cup {srAt[t]}
    /\ UNCHANGED <<srMade, srRunner, srLock, srLoops, srLoop, srRuns, srPc, srKind, srThread, srBegun,
                   srAt, srLeft, srGiven>>

\* Every call is over, or waits for a loop that will not run it.
SrDone == /\ \A t \in SrThreads : srPc[t] = "done" \/ (srPc[t] = "waiting" /\ srAt[t] \notin srRuns \ srBlocked)
          /\ UNCHANGED srVars

SrStep(t) == \/ SrGetattr(t) \/ SrAcquire(t) \/ SrMake(t) \/ SrStart(t) \/ SrNewLoop(t)
             \/ SrNewThread(t) \/ SrRunThread(t) \/ SrSubmit(t) \/ SrAnswer(t)

SrNext == (\E t \in SrThreads : SrStep(t) \/ SrCallback(t)) \/ SrDone

\* Threads are scheduled, and a loop that runs answers.
SrFairness == \A t \in SrThreads : WF_srVars(SrStep(t))

SrSpec == SrInit /\ [][SrNext]_srVars /\ SrFairness
-----------------------------------------------------------------------------
\* Every variable has its type.
SrTypeOK ==
    /\ srMade \in Nat /\ srRunner \in BOOLEAN /\ srLock \subseteq SrThreads
    /\ srLoops \in 0..Cardinality(SrThreads) /\ srLoop \in 0..srLoops
    /\ srRuns \subseteq 1..srLoops /\ srBlocked \subseteq srRuns
    /\ srKind \in [SrThreads -> SrKinds] /\ srGiven \in [SrThreads -> SrResults]
    /\ srAt \in [SrThreads -> 0..srLoops] /\ srThread \in 0..srLoops /\ srBegun \in BOOLEAN
    /\ srLeft \in [SrThreads -> 0..SrItems]

\* "Lazy singleton": whichever threads come first, one runner is made.
SrOneRunner == srMade <= 1

\* "Submit a coroutine and block until it completes": every call returns,
\* unless two threads made a loop at the same time or a callback on the loop
\* called the facade.
SrAllReturn == \A t \in SrThreads :
                 srPc[t] = "waiting" ~> srPc[t] = "done" \/ srLoops > 1 \/ srBlocked # {}

\* "Wrap path results so chaining stays sync": no call returns a path whose
\* methods have to be awaited; the triples of walk() apart.
SrStaysSync == \A t \in SrThreads : srGiven[t] # "async path"

\* The blocking facade: one runner, blocking results, and every call returns.
SrBlocksAndReturns == SrAllReturn /\ []SrOneRunner /\ []SrStaysSync
=============================================================================
