----------------------------- MODULE WorkerPool -----------------------------
(***************************************************************************)
(* _run_concurrent_stream of src/src/asanypath/cli.py: a producer reads a  *)
(* stream of work items into a bounded queue, workers run them, and the    *)
(* main task gathers the workers.  (Its queue.join() comes before the      *)
(* producer has run for the first time, finds nothing to wait for and      *)
(* returns at once.)                                                       *)
(*                                                                         *)
(* Ctrl-C cancels the main task, whose gather cancels the workers.  A      *)
(* worker that waits for an item, or for the size of its item's source,    *)
(* ends; one that runs an item records the cancellation as that item's     *)
(* failure and goes on.  Once the main task has raised, asyncio.run        *)
(* cancels every task that is left and waits for all of them.              *)
(***************************************************************************)
EXTENDS Integers, Sequences, FiniteSets

CONSTANTS Items,       \* the work items
          MaxWorkers,  \* bound: the largest --concurrency
          Stop,        \* the sentinel None
          Nothing      \* no item

ASSUME PoolAssumption == MaxWorkers \in Nat \ {0} /\ Stop \notin Items /\ Nothing \notin Items

VARIABLES concurrency,  \* worker_count
          main,         \* where _run_concurrent_stream is
          producer,     \* where _producer is
          hand,         \* the item it is putting
          owed,         \* the sentinels it still has to put
          fate,         \* how it will end: "done", "failed" or "cancelled"
          queue,        \* the queue, of twice as many items as workers
          worker,       \* where each worker is
          task,         \* the item it has taken
          succeeded,    \* the items that were run,
          failures,     \* and the ones that raised
          asked         \* Ctrl-C was pressed

feed == <<producer, hand, owed, fate>>
poolvars == <<concurrency, main, feed, queue, worker, task, succeeded, failures, asked>>

Workers == 1..concurrency
AllWorkers == 1..MaxWorkers
ProducerOver == {"done", "failed", "cancelled"}
WorkerOver == {"done", "dead"}

\* asyncio.Queue(maxsize=worker_count * 2)
QueueHasRoom == Len(queue) < 2 * concurrency

\* One sentinel for every worker.
OneSentinel == 1
Sentinels == concurrency

\* An idle pool with w workers.
PoolIdle(w) ==
    /\ concurrency = w
    /\ main = "idle"
    /\ producer = "idle" /\ hand = Nothing /\ owed = 0 /\ fate = "done"
    /\ queue = <<>>
    /\ worker = [v \in AllWorkers |-> "unused"]
    /\ task = [v \in AllWorkers |-> Nothing]
    /\ succeeded = {} /\ failures = {}
    /\ asked = FALSE

-----------------------------------------------------------------------------
\* Create the producer and the workers, and gather these.
Start ==
    /\ main' = "gather"
    /\ producer' = "enumerate" /\ hand' = Nothing /\ owed' = Sentinels /\ fate' = "done"
    /\ queue' = <<>>
    /\ worker' = [v \in AllWorkers |-> IF v <= concurrency THEN "get" ELSE "unused"]
    /\ task' = [v \in AllWorkers |-> Nothing]
    /\ succeeded' = {} /\ failures' = {}
    /\ UNCHANGED <<concurrency, asked>>

\* The stream yields an item,
Yield(i) ==
    /\ producer = "enumerate"
    /\ producer' = "put" /\ hand' = i
    /\ UNCHANGED <<concurrency, main, owed, fate, queue, worker, task, succeeded, failures, asked>>

\* or ends, or raises.
StreamOver(end) ==
    /\ producer = "enumerate"
    /\ producer' = "sentinels" /\ fate' = end
    /\ UNCHANGED <<concurrency, main, hand, owed, queue, worker, task, succeeded, failures, asked>>

\* await queue.put(item)
PutNoWait ==
    /\ producer = "put"
    /\ queue' = IF QueueHasRoom THEN Append(queue, hand) ELSE queue
    /\ producer' = "enumerate" /\ hand' = Nothing
    /\ UNCHANGED <<concurrency, main, owed, fate, worker, task, succeeded, failures, asked>>

Put ==
    /\ producer = "put" /\ QueueHasRoom
    /\ queue' = Append(queue, hand)
    /\ producer' = "enumerate" /\ hand' = Nothing
    /\ UNCHANGED <<concurrency, main, owed, fate, worker, task, succeeded, failures, asked>>

\* await queue.put(None), in the finally block.
PutSentinel ==
    /\ producer = "sentinels" /\ QueueHasRoom
    /\ queue' = Append(queue, Stop)
    /\ owed' = owed - 1
    /\ producer' = IF owed = 1 THEN fate ELSE producer
    /\ UNCHANGED <<concurrency, main, hand, fate, worker, task, succeeded, failures, asked>>

\* item = await queue.get()
Take(w) ==
    /\ worker[w] = "get" /\ queue # <<>>
    /\ queue' = Tail(queue)
    /\ worker' = [worker EXCEPT ![w] = IF Head(queue) = Stop THEN "done" ELSE "enter"]
    /\ task' = [task EXCEPT ![w] = IF Head(queue) = Stop THEN Nothing ELSE Head(queue)]
    /\ UNCHANGED <<concurrency, main, feed, succeeded, failures, asked>>

\* transfer_scope and _get_size are past; the item is run.
Begin(w) ==
    /\ worker[w] = "enter"
    /\ worker' = [worker EXCEPT ![w] = "work"]
    /\ UNCHANGED <<concurrency, main, feed, queue, task, succeeded, failures, asked>>

\* The item was run, or raised; the worker takes the next one.
WorkOver(w, ok) ==
    /\ worker[w] = "work"
    /\ worker' = [worker EXCEPT ![w] = "get"]
    /\ task' = [task EXCEPT ![w] = Nothing]
    /\ succeeded' = IF ok THEN succeeded \cup {task[w]} ELSE succeeded
    /\ failures' = IF ok THEN failures ELSE failures \cup {task[w]}
    /\ UNCHANGED <<concurrency, main, feed, queue, asked>>

\* The workers are gathered and the producer is over.
Finish ==
    /\ main = "gather"
    /\ \A w \in Workers : worker[w] = "done"
    /\ main' = CASE asked -> "interrupted"
                 [] ~asked /\ producer = "failed" -> "raised"
                 [] OTHER -> "returned"
    /\ UNCHANGED <<concurrency, feed, queue, worker, task, succeeded, failures, asked>>

-----------------------------------------------------------------------------
\* The items whose work is cancelled: "except BaseException" records them.
Aborted == {task[w] : w \in {v \in Workers : worker[v] = "work"}}

\* Every worker is cancelled.
CancelWorkers ==
    /\ worker' = [w \in AllWorkers |-> CASE worker[w] \in {"get", "enter"} -> "dead"
                                         [] worker[w] = "work" -> "get"
                                         [] OTHER -> worker[w]]
    /\ task' = [w \in AllWorkers |-> Nothing]
    /\ failures' = failures \cup Aborted
    /\ UNCHANGED <<concurrency, queue, succeeded>>

\* Ctrl-C: the main task is cancelled, and through its gather the workers.
Interrupt ==
    /\ main = "gather" /\ ~asked
    /\ asked' = TRUE
    /\ CancelWorkers
    /\ UNCHANGED <<main, feed>>

\* A dead worker ends the gather: the main task raises, and asyncio.run cancels
\* what is left.  The producer's finally block still puts the sentinels, unless
\* it was putting them already.
ShutDown ==
    /\ main = "gather" /\ \E w \in Workers : worker[w] = "dead"
    /\ main' = "shutdown"
    /\ CancelWorkers
    /\ hand' = Nothing
    /\ \/ producer \in {"enumerate", "put"} /\ producer' = "sentinels" /\ fate' = "cancelled"
       \/ producer = "sentinels" /\ producer' = "cancelled" /\ UNCHANGED fate
       \/ producer \in ProducerOver /\ UNCHANGED <<producer, fate>>
    /\ UNCHANGED <<owed, asked>>

\* asyncio.run has waited for every task.
ShutDownOver ==
    /\ main = "shutdown"
    /\ producer \in ProducerOver /\ \A w \in Workers : worker[w] \in WorkerOver
    /\ main' = "interrupted"
    /\ UNCHANGED <<concurrency, feed, queue, worker, task, succeeded, failures, asked>>

\* After Ctrl-C: nobody is left to take anything from the full queue the
\* producer waits for, or to put the sentinel a worker waits for.
Hung == /\ main = "shutdown"
        /\ \/ /\ producer = "sentinels" /\ ~QueueHasRoom
              /\ \A w \in Workers : worker[w] \in WorkerOver
           \/ /\ producer \in ProducerOver /\ queue = <<>>
              /\ \E w \in Workers : worker[w] = "get"
              /\ \A w \in Workers : worker[w] \in WorkerOver \cup {"get"}

=============================================================================
