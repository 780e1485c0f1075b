---------------------------- MODULE MicroBatcher ----------------------------
(***************************************************************************)
(* MicroBatcher of src/src/asanypath/batcher.py and the batch functions of *)
(* the native backends (batch_collect!, batch_fire! of                     *)
(* rust/src/backend.rs) behind CloudPathMixin.read_bytes and unlink: calls *)
(* that arrive in one tick of the event loop and have the same key are     *)
(* sent as one batch; the batch runs every request, then answers all its   *)
(* callers with their own results, or all of them with the first error.    *)
(*                                                                         *)
(* A key is an operation here: calls with other keyword arguments          *)
(* (credentials) are other batches in the same way.                        *)
(***************************************************************************)
EXTENDS Integers, Sequences, FiniteSets

CONSTANTS MbCallers,  \* tasks, each of which makes one call
          MbItems,    \* object keys
          MbNone      \* no item, no outcome

\* The tasks of one event loop are finitely many.
ASSUME MbAssumption == IsFiniteSet(MbCallers) /\ MbNone \notin MbItems \cup {"ok", "missing", "denied"}

MbOps == {"get", "delete"}

VARIABLES mbCall,       \* per caller: operation, item and missing_ok of its call
          mbStatus,     \* per caller: "idle", "waiting" or how the call ended
          mbValue,      \* per caller: the item whose content it was given
          mbPending,    \* MicroBatcher._pending: the keys that are present
          mbQueue,      \* ... and the callers collected under each key
          mbScheduled,  \* flushes the event loop will still run, one key each
          mbBatches,    \* batches in flight: callers and the outcomes so far
          mbStore,      \* the objects that exist
          mbOutcome     \* history: the outcome of each caller's own request

mbVars == <<mbCall, mbStatus, mbValue, mbPending, mbQueue, mbScheduled, mbBatches, mbStore, mbOutcome>>

MbOutcomes == {"ok", "missing", "denied"}
MbOver == {"cancelled", "ok", "missing", "denied"}

MbNoCall == [op |-> "get", item |-> MbNone, missing_ok |-> FALSE]

\* loop.call_soon(self._flush, key, ...), unless the key is present already.
MbCallSoonForgotten(op) == mbScheduled
MbCallSoon(op) == IF op \in mbPending THEN mbScheduled ELSE mbScheduled \cup {op}

\* items.append(...) and futures.append(future)
MbEnqueued(op, c) == Append(mbQueue[op], c)

\* zip(futures, results): the result at a future's own position.
MbResultAmongWaiting(b, i) ==
    LET waiting == SelectSeq(b.callers, LAMBDA c : mbStatus[c] = "waiting")
        at == CHOOSE j \in DOMAIN waiting : waiting[j] = b.callers[i]
    IN  mbCall[b.callers[at]].item
MbResult(b, i) == mbCall[b.callers[i]].item

\* The first error, in the order of the items: "for r in results { r?; }".
MbFailures(b) == {i \in DOMAIN b.callers : b.outcomes[i] # "ok"}
MbFirstFailure(b) == b.outcomes[CHOOSE i \in MbFailures(b) : \A j \in MbFailures(b) : i <= j]

\* What unlink makes of a FileNotFoundError; any other error propagates.
MbCallEnd(c, error) ==
    IF error = "missing" /\ mbCall[c].op = "delete" /\ mbCall[c].missing_ok THEN "ok" ELSE error

-----------------------------------------------------------------------------
MbInit ==
    /\ mbCall = [c \in MbCallers |-> MbNoCall]
    /\ mbStatus = [c \in MbCallers |-> "idle"]
    /\ mbValue = [c \in MbCallers |-> MbNone]
    /\ mbPending = {} /\ mbQueue = [op \in MbOps |-> <<>>] /\ mbScheduled = {}
    /\ mbBatches = {}
    /\ mbStore \in SUBSET MbItems
    /\ mbOutcome = [c \in MbCallers |-> MbNone]

\* read_bytes or unlink is called: _submit enqueues the item.
MbSubmit(c) ==
    /\ mbStatus[c] = "idle"
    /\ \E op \in MbOps, item \in MbItems, missing_ok \in BOOLEAN :
         /\ op = "get" => ~missing_ok
         /\ mbCall' = [mbCall EXCEPT ![c] = [op |-> op, item |-> item, missing_ok |-> missing_ok]]
         /\ mbPending' = mbPending \cup {op}
         /\ mbQueue' = [mbQueue EXCEPT ![op] = MbEnqueued(op, c)]
         /\ mbScheduled' = MbCallSoon(op)
    /\ mbStatus' = [mbStatus EXCEPT ![c] = "waiting"]
    /\ UNCHANGED <<mbValue, mbBatches, mbStore, mbOutcome>>

\* The scheduled _flush runs: pop the key and start the batch.
MbFlush(op) ==
    /\ op \in mbScheduled
    /\ mbScheduled' = mbScheduled \ {op}
    /\ mbPending' = mbPending \ {op}
    /\ mbQueue' = [mbQueue EXCEPT ![op] = <<>>]
    /\ mbBatches' = IF mbQueue[op] = <<>> THEN mbBatches
                    ELSE mbBatches \cup {[callers  |-> mbQueue[op],
                                          outcomes |-> [i \in DOMAIN mbQueue[op] |-> MbNone]]}
    /\ UNCHANGED <<mbCall, mbStatus, mbValue, mbStore, mbOutcome>>

\* One request of a batch is answered by the server: done, 404, or refused.
MbRequest(b, i) ==
    LET c == b.callers[i]
        item == mbCall[c].item
    IN  /\ b.outcomes[i] = MbNone
        /\ \E o \in {IF item \in mbStore THEN "ok" ELSE "missing", "denied"} :
             /\ mbBatches' = (mbBatches \ {b}) \cup {[b EXCEPT !.outcomes[i] = o]}
             /\ mbOutcome' = [mbOutcome EXCEPT ![c] = o]
             /\ mbStore' = IF o = "ok" /\ mbCall[c].op = "delete" THEN mbStore \ {item} ELSE mbStore
        /\ UNCHANGED <<mbCall, mbStatus, mbValue, mbPending, mbQueue, mbScheduled>>

\* join_all is over and all went well: every future gets its own result.
MbAnswer(b) ==
    /\ \A i \in DOMAIN b.callers : b.outcomes[i] # MbNone
    /\ MbFailures(b) = {}
    /\ mbStatus' = [c \in MbCallers |->
                    IF mbStatus[c] = "waiting" /\ \E i \in DOMAIN b.callers : b.callers[i] = c
                    THEN "ok" ELSE mbStatus[c]]
    /\ mbValue' = [c \in MbCallers |->
                   IF \E i \in DOMAIN b.callers : b.callers[i] = c /\ mbStatus[c] = "waiting"
                   THEN LET i == CHOOSE j \in DOMAIN b.callers : b.callers[j] = c
                        IN  MbResult(b, i)
                   ELSE mbValue[c]]
    /\ mbBatches' = mbBatches \ {b}
    /\ UNCHANGED <<mbCall, mbPending, mbQueue, mbScheduled, mbStore, mbOutcome>>

\* join_all is over and some request failed: every future that is not done
\* gets the first error.
MbAnswerError(b) ==
    /\ \A i \in DOMAIN b.callers : b.outcomes[i] # MbNone
    /\ MbFailures(b) # {}
    /\ mbStatus' = [c \in MbCallers |->
                    IF mbStatus[c] = "waiting" /\ \E i \in DOMAIN b.callers : b.callers[i] = c
                    THEN MbCallEnd(c, MbFirstFailure(b)) ELSE mbStatus[c]]
    /\ mbBatches' = mbBatches \ {b}
    /\ UNCHANGED <<mbCall, mbValue, mbPending, mbQueue, mbScheduled, mbStore, mbOutcome>>

\* A caller is cancelled: its future is done, its request is not withdrawn.
MbCancelCaller(c) ==
    /\ mbStatus[c] = "waiting"
    /\ mbStatus' = [mbStatus EXCEPT ![c] = "cancelled"]
    /\ UNCHANGED <<mbCall, mbValue, mbPending, mbQueue, mbScheduled, mbBatches, mbStore, mbOutcome>>

\* What the event loop and the server do of themselves.
MbWork == \/ \E op \in MbOps : MbFlush(op)
          \/ \E b \in mbBatches : \/ MbAnswer(b) \/ MbAnswerError(b)
                                  \/ \E i \in DOMAIN b.callers : MbRequest(b, i)

\* The event loop has nothing left to do.
MbQuiet == /\ \A c \in MbCallers : mbStatus[c] # "idle"
           /\ mbBatches = {} /\ mbScheduled = {}
           /\ UNCHANGED mbVars

MbNext == MbWork \/ MbQuiet \/ \E c \in MbCallers : MbSubmit(c) \/ MbCancelCaller(c)

MbSpec == MbInit /\ [][MbNext]_mbVars

\* The event loop runs what it scheduled; the server answers every request.
MbFairSpec == MbSpec /\ WF_mbVars(MbWork)
-----------------------------------------------------------------------------
\* Every variable has its type.
MbTypeOK ==
    /\ mbCall \in [MbCallers -> [op : MbOps, item : MbItems \cup {MbNone}, missing_ok : BOOLEAN]]
    /\ mbStatus \in [MbCallers -> MbOver \cup {"idle", "waiting"}]
    /\ mbValue \in [MbCallers -> MbItems \cup {MbNone}]
    /\ mbPending \subseteq MbOps /\ mbScheduled \subseteq MbOps
    /\ mbQueue \in [MbOps -> Seq(MbCallers)]
    /\ \A b \in mbBatches : /\ b.callers \in Seq(MbCallers)
                            /\ Len(b.callers) \in 1..Cardinality(MbCallers)
                            /\ b.outcomes \in [DOMAIN b.callers -> MbOutcomes \cup {MbNone}]
    /\ mbStore \subseteq MbItems
    /\ mbOutcome \in [MbCallers -> MbOutcomes \cup {MbNone}]

\* "A key is present exactly while its flush is scheduled", and only then are
\* callers collected under it: no call is left behind in a list that nothing
\* will flush.
MbKeyPresentWhileScheduled ==
    /\ mbPending = mbScheduled
    /\ \A op \in MbOps : mbQueue[op] # <<>> <=> op \in mbPending

\* A caller is queued or in flight exactly once, and only a caller whose call
\* is over is in neither: no request is sent twice, none is forgotten.
MbWaitingIsInFlight ==
    \A c \in MbCallers :
        LET places == {at \in MbOps \X (1..Cardinality(MbCallers)) :
                         at[2] <= Len(mbQueue[at[1]]) /\ mbQueue[at[1]][at[2]] = c}
            flights == {b \in mbBatches : \E i \in DOMAIN b.callers : b.callers[i] = c}
        IN  /\ Cardinality(places) + Cardinality(flights) <= 1
            /\ mbStatus[c] = "waiting" => Cardinality(places) + Cardinality(flights) = 1

\* A caller that is given a result is given its own object's, however many
\* callers of its batch have been cancelled meanwhile, and its request was done.
MbOwnResult ==
    \A c \in MbCallers : mbValue[c] # MbNone => mbValue[c] = mbCall[c].item /\ mbOutcome[c] = "ok"

\* A call is asked for once, in the batch it joined, and gets its own answer.
MbAnswersMatch == MbKeyPresentWhileScheduled /\ MbWaitingIsInFlight /\ MbOwnResult

\* Every call is answered or cancelled.
MbEveryCallAnswered == \A c \in MbCallers : mbStatus[c] = "waiting" ~> mbStatus[c] \in MbOver
=============================================================================
