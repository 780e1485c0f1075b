--------------------------- MODULE CommandProofs ---------------------------
(***************************************************************************)
(* Proofs about the command line, for any number of items, workers,        *)
(* versions and changes by others: sync and cp -r over the worker pool     *)
(* (SyncCommand).                                                          *)
(*                                                                         *)
(* The pool's own invariant is PoolInv; what a step of the pool does to    *)
(* the items it holds is all that the command's invariant needs of it.     *)
(***************************************************************************)
EXTENDS SyncCommand, FiniteSetTheorems, TLAPS
-----------------------------------------------------------------------------
(* The pool.                                                               *)

Places == {"unused", "get", "enter", "work", "done", "dead"}
Queue == Items \cup {Stop}

PoolTypes ==
    /\ concurrency \in 1..MaxWorkers /\ owed \in Nat /\ asked \in BOOLEAN
    /\ main \in {"idle", "gather", "returned", "raised", "shutdown", "interrupted"}
    /\ producer \in {"idle", "enumerate", "put", "sentinels"} \cup ProducerOver /\ fate \in ProducerOver
    /\ hand \in Items \cup {Nothing} /\ queue \in Seq(Queue)
    /\ worker \in [AllWorkers -> Places] /\ task \in [AllWorkers -> Items \cup {Nothing}]
    /\ succeeded \subseteq Items /\ failures \subseteq Items

\* Who has an item in hand, and how many sentinels are still to come.
PoolShape ==
    /\ hand \in Items => producer = "put"
    /\ producer = "put" => hand \in Items
    /\ \A w \in AllWorkers : task[w] \in Items => worker[w] \in {"enter", "work"}
    /\ \A w \in AllWorkers : worker[w] \in {"enter", "work"} => task[w] \in Items /\ w \in Workers
    /\ producer \in {"enumerate", "put"} => owed = concurrency
    /\ producer = "sentinels" => owed \in 1..concurrency
    /\ Len(queue) <= 2 * concurrency
    /\ asked => main \in {"gather", "shutdown", "interrupted"}
    /\ main \in {"shutdown", "interrupted"} => asked

\* The items the pool holds: in the producer's hand, in the queue, with a worker.
InQueue(x) == \E i \in 1..Len(queue) : queue[i] = x
WithWorker(x) == \E w \in AllWorkers : task[w] = x
Held == {x \in Items : x = hand \/ WithWorker(x) \/ InQueue(x)}

\* No item is in two places.
PoolApart ==
    /\ \A i, j \in 1..Len(queue) : queue[i] = queue[j] /\ queue[i] \in Items => i = j
    /\ \A v, w \in AllWorkers : task[v] = task[w] /\ task[v] \in Items => v = w
    /\ \A x \in Items : ~(x = hand /\ WithWorker(x)) /\ ~(x = hand /\ InQueue(x)) /\ ~(WithWorker(x) /\ InQueue(x))
    /\ succeeded \cap failures = {} /\ (succeeded \cup failures) \cap Held = {}

\* The sentinels in the queue: those that were put and that no worker has taken.
DoneWorkers == {w \in Workers : worker[w] = "done"}
InTransit == concurrency - owed - Cardinality(DoneWorkers)

\* While the workers are gathered the sentinels are the last of the queue, and one
\* is left for every worker that still runs, or died of Ctrl-C.
PoolFlow ==
    main \in {"gather", "returned", "raised"} =>
        /\ InTransit \in 0..Len(queue)
        /\ \A i \in 1..Len(queue) : queue[i] = Stop <=> i > Len(queue) - InTransit
        /\ owed < concurrency /\ queue # <<>> => InTransit >= 1
        /\ producer \in {"enumerate", "put", "sentinels", "done", "failed"} /\ fate \in {"done", "failed"}
        /\ producer \in ProducerOver => owed = 0 /\ producer = fate
        /\ ~asked => \A w \in AllWorkers : worker[w] # "dead"
        /\ main \in {"returned", "raised"} => \A w \in Workers : worker[w] = "done"
        /\ main = "returned" => producer # "failed"

PoolInv == PoolTypes /\ PoolShape /\ PoolApart /\ PoolFlow

\* What a sequence is after an item was appended.
LEMMA AppendedSeq ==
    ASSUME NEW S, NEW s \in Seq(S), NEW x \in S
    PROVE  /\ Append(s, x) \in Seq(S) /\ Len(Append(s, x)) = Len(s) + 1 /\ Append(s, x)[Len(s) + 1] = x
           /\ \A i \in 1..Len(s) : Append(s, x)[i] = s[i]
           /\ Append(s, x) # <<>>
OBVIOUS

\* What is left of a sequence behind its head.
LEMMA TailOfSeq ==
    ASSUME NEW S, NEW s \in Seq(S), s # <<>>
    PROVE  /\ Tail(s) \in Seq(S) /\ Len(s) \in Nat \ {0} /\ Len(Tail(s)) = Len(s) - 1
           /\ Head(s) = s[1] /\ Head(s) \in S /\ \A i \in 1..(Len(s) - 1) : Tail(s)[i] = s[i + 1]
OBVIOUS

\* How many workers are done.
LEMMA DoneCounted ==
    ASSUME PoolTypes
    PROVE  /\ IsFiniteSet(DoneWorkers) /\ Cardinality(DoneWorkers) \in 0..concurrency
           /\ (\A w \in Workers : worker[w] = "done") => Cardinality(DoneWorkers) = concurrency
<1>1. concurrency \in Nat /\ 1 \in Int BY PoolAssumption DEF PoolTypes
<1>2. IsFiniteSet(Workers) /\ Cardinality(Workers) = concurrency BY <1>1, FS_Interval DEF Workers
<1>3. IsFiniteSet(DoneWorkers) /\ Cardinality(DoneWorkers) <= concurrency
  BY <1>2, FS_Subset DEF DoneWorkers
<1>4. Cardinality(DoneWorkers) \in Nat BY <1>3, FS_CardinalityType
<1>5. (\A w \in Workers : worker[w] = "done") => DoneWorkers = Workers BY DEF DoneWorkers
<1> QED BY <1>1, <1>2, <1>3, <1>4, <1>5

\* The pool starts.
LEMMA StartKeeps ==
    ASSUME PoolInv, Start
    PROVE  PoolInv' /\ Held' = {} /\ succeeded' = {} /\ failures' = {}
<1>1. PoolTypes BY DEF PoolInv
<1>2. /\ main' = "gather" /\ producer' = "enumerate" /\ hand' = Nothing /\ owed' = concurrency /\ fate' = "done"
      /\ queue' = <<>> /\ worker' = [v \in AllWorkers |-> IF v <= concurrency THEN "get" ELSE "unused"]
      /\ task' = [v \in AllWorkers |-> Nothing] /\ succeeded' = {} /\ failures' = {}
      /\ concurrency' = concurrency /\ asked' = asked
  BY DEF Start, Sentinels
<1>3. <<>> \in Seq(Queue) /\ Len(<<>>) = 0 OBVIOUS
<1>4. concurrency \in 1..MaxWorkers /\ concurrency \in Nat BY <1>1, PoolAssumption DEF PoolTypes
<1>5. PoolTypes'
  <2>1. queue' \in Seq(Queue) BY <1>2, <1>3
  <2>2. worker' \in [AllWorkers -> Places] BY <1>2 DEF Places
  <2>3. task' \in [AllWorkers -> Items \cup {Nothing}] BY <1>2
  <2> QED BY <1>1, <1>2, <1>4, <2>1, <2>2, <2>3 DEF PoolTypes, ProducerOver
<1>6. Held' = {}
  <2>1. \A w \in AllWorkers : task'[w] = Nothing BY <1>2
  <2>2. Len(queue') = 0 BY <1>2, <1>3
  <2> QED BY <1>2, <2>1, <2>2, PoolAssumption DEF Held, WithWorker, InQueue
<1>7. PoolShape'
  <2>1. Len(queue') = 0 BY <1>2, <1>3
  <2>2. \A w \in AllWorkers : task'[w] = Nothing /\ worker'[w] \notin {"enter", "work"} BY <1>2
  <2> QED BY <1>2, <1>4, <2>1, <2>2, PoolAssumption DEF PoolShape
<1>8. PoolApart'
  <2>1. Len(queue') = 0 BY <1>2, <1>3
  <2>2. \A w \in AllWorkers : task'[w] = Nothing BY <1>2
  <2> QED BY <1>2, <1>6, <2>1, <2>2, PoolAssumption DEF PoolApart, WithWorker, InQueue
<1>9. PoolFlow'
  <2>1. DoneWorkers' = {}
    <3>1. \A v \in AllWorkers : worker'[v] # "done" BY <1>2
    <3>2. \A v \in 1..concurrency : v \in AllWorkers BY <1>4, PoolAssumption DEF AllWorkers
    <3> QED BY <1>2, <3>1, <3>2 DEF DoneWorkers, Workers
  <2>2. InTransit' = 0 BY <1>2, <1>4, <2>1, FS_EmptySet DEF InTransit
  <2>3. Len(queue') = 0 /\ queue' = <<>> BY <1>2, <1>3
  <2>4. \A v \in AllWorkers : worker'[v] # "dead" BY <1>2
  <2> QED BY <1>2, <2>2, <2>3, <2>4 DEF PoolFlow, ProducerOver
<1> QED BY <1>2, <1>5, <1>6, <1>7, <1>8, <1>9 DEF PoolInv

\* The stream yields an item the pool has not seen.
LEMMA YieldKeeps ==
    ASSUME PoolInv, NEW x \in Items, x \notin Held, x \notin succeeded \cup failures, Yield(x)
    PROVE  PoolInv' /\ Held' = Held \cup {x}
<1>1. PoolTypes /\ PoolShape /\ PoolApart /\ PoolFlow BY DEF PoolInv
<1>2. /\ producer = "enumerate" /\ producer' = "put" /\ hand' = x
      /\ UNCHANGED <<concurrency, main, owed, fate, queue, worker, task, succeeded, failures, asked>>
  BY DEF Yield
<1>3. hand \notin Items BY <1>1, <1>2 DEF PoolShape
<1>4. Held' = Held \cup {x} BY <1>2, <1>3 DEF Held, WithWorker, InQueue
<1>5. PoolTypes' BY <1>1, <1>2 DEF PoolTypes, ProducerOver
<1>6. PoolShape' BY <1>1, <1>2 DEF PoolShape, Workers
<1>7. PoolApart'
  <2>1. ~WithWorker(x) /\ ~InQueue(x) BY DEF Held
  <2>2. \A y \in Items : (WithWorker(y)' <=> WithWorker(y)) /\ (InQueue(y)' <=> InQueue(y))
    BY <1>2 DEF WithWorker, InQueue
  <2>3. \A y \in Items : ~(y = hand' /\ WithWorker(y)') /\ ~(y = hand' /\ InQueue(y)') /\ ~(WithWorker(y)' /\ InQueue(y)')
    BY <1>1, <1>2, <2>1, <2>2 DEF PoolApart
  <2>4. (succeeded' \cup failures') \cap Held' = {} /\ succeeded' \cap failures' = {}
    BY <1>1, <1>2, <1>4 DEF PoolApart
  <2> QED BY <1>1, <1>2, <2>3, <2>4 DEF PoolApart, WithWorker, InQueue
<1>8. PoolFlow' BY <1>1, <1>2 DEF PoolFlow, InTransit, DoneWorkers, Workers, ProducerOver
<1> QED BY <1>4, <1>5, <1>6, <1>7, <1>8 DEF PoolInv

\* The stream is over: only the place of the producer changes.
LEMMA StreamOverKeeps ==
    ASSUME PoolInv, NEW end \in {"done", "failed"}, StreamOver(end)
    PROVE  PoolInv' /\ Held' = Held
<1>1. PoolTypes /\ PoolShape /\ PoolApart /\ PoolFlow BY DEF PoolInv
<1>2. /\ producer = "enumerate" /\ producer' = "sentinels" /\ fate' = end
      /\ UNCHANGED <<concurrency, main, hand, owed, queue, worker, task, succeeded, failures, asked>>
  BY DEF StreamOver
<1>3. Held' = Held BY <1>2 DEF Held, WithWorker, InQueue
<1>4. PoolTypes' BY <1>1, <1>2 DEF PoolTypes, ProducerOver
<1>5. PoolShape'
  <2>1. concurrency \in Nat \ {0} BY <1>1, PoolAssumption DEF PoolTypes
  <2>2. owed' \in 1..concurrency BY <1>1, <1>2, <2>1 DEF PoolShape
  <2> QED BY <1>1, <1>2, <2>2 DEF PoolShape, Workers
<1>6. PoolApart' BY <1>1, <1>2, <1>3 DEF PoolApart, WithWorker, InQueue
<1>7. PoolFlow' BY <1>1, <1>2 DEF PoolFlow, InTransit, DoneWorkers, Workers, ProducerOver
<1> QED BY <1>3, <1>4, <1>5, <1>6, <1>7 DEF PoolInv

\* The workers are gathered and the producer is over: the pool returns, or raises.
LEMMA FinishKeeps == ASSUME PoolInv, Finish PROVE PoolInv' /\ Held' = Held
<1>1. PoolTypes /\ PoolShape /\ PoolApart /\ PoolFlow BY DEF PoolInv
<1>2. /\ main = "gather" /\ \A w \in Workers : worker[w] = "done"
      /\ main' = CASE asked -> "interrupted" [] ~asked /\ producer = "failed" -> "raised" [] OTHER -> "returned"
      /\ UNCHANGED <<concurrency, feed, queue, worker, task, succeeded, failures, asked>>
  BY DEF Finish
<1>3. /\ asked => main' = "interrupted"
      /\ ~asked => main' \in {"raised", "returned"} /\ (main' = "returned" => producer # "failed")
  BY <1>1, <1>2 DEF PoolTypes
<1>4. Held' = Held BY <1>2 DEF Held, WithWorker, InQueue, feed
<1>5. PoolTypes' BY <1>1, <1>2, <1>3 DEF PoolTypes, feed
<1>6. PoolShape' BY <1>1, <1>2, <1>3 DEF PoolShape, Workers, feed
<1>7. PoolApart' BY <1>1, <1>2, <1>4 DEF PoolApart, WithWorker, InQueue, feed
<1>8. PoolFlow' BY <1>1, <1>2, <1>3 DEF PoolFlow, InTransit, DoneWorkers, Workers, ProducerOver, feed
<1> QED BY <1>4, <1>5, <1>6, <1>7, <1>8 DEF PoolInv

\* After Ctrl-C every task of the pool has ended.
LEMMA ShutDownOverKeeps == ASSUME PoolInv, ShutDownOver PROVE PoolInv' /\ Held' = Held
<1>1. PoolTypes /\ PoolShape /\ PoolApart BY DEF PoolInv
<1>2. /\ main = "shutdown" /\ main' = "interrupted"
      /\ UNCHANGED <<concurrency, feed, queue, worker, task, succeeded, failures, asked>>
  BY DEF ShutDownOver
<1>4. Held' = Held BY <1>2 DEF Held, WithWorker, InQueue, feed
<1>5. PoolTypes' BY <1>1, <1>2 DEF PoolTypes, feed
<1>6. PoolShape' BY <1>1, <1>2 DEF PoolShape, Workers, feed
<1>7. PoolApart' BY <1>1, <1>2, <1>4 DEF PoolApart, WithWorker, InQueue, feed
<1>8. PoolFlow' BY <1>2 DEF PoolFlow
<1> QED BY <1>4, <1>5, <1>6, <1>7, <1>8 DEF PoolInv

\* A worker begins with the item it has.
LEMMA BeginKeeps == ASSUME PoolInv, NEW w \in Workers, Begin(w) PROVE PoolInv' /\ Held' = Held
<1>1. PoolTypes /\ PoolShape /\ PoolApart /\ PoolFlow BY DEF PoolInv
<1>2. /\ worker[w] = "enter" /\ worker' = [worker EXCEPT ![w] = "work"]
      /\ UNCHANGED <<concurrency, main, feed, queue, task, succeeded, failures, asked>>
  BY DEF Begin
<1>3. w \in AllWorkers BY <1>1, PoolAssumption DEF PoolTypes, Workers, AllWorkers
<1>4. Held' = Held BY <1>2 DEF Held, WithWorker, InQueue, feed
<1>5. PoolTypes' BY <1>1, <1>2 DEF PoolTypes, feed, Places
<1>6. \A v \in AllWorkers : worker'[v] = IF v = w THEN "work" ELSE worker[v] BY <1>1, <1>2 DEF PoolTypes
<1>7. PoolShape' BY <1>1, <1>2, <1>6 DEF PoolShape, Workers, feed
<1>8. PoolApart' BY <1>1, <1>2, <1>4 DEF PoolApart, WithWorker, InQueue, feed
<1>9. PoolFlow'
  <2>1. \A v \in Workers : v \in AllWorkers BY <1>1, PoolAssumption DEF PoolTypes, Workers, AllWorkers
  <2>2. DoneWorkers' = DoneWorkers BY <1>2, <1>6, <2>1 DEF DoneWorkers, Workers
  <2>3. InTransit' = InTransit BY <1>2, <2>2 DEF InTransit, feed
  <2> QED BY <1>1, <1>2, <1>6, <2>1, <2>3 DEF PoolFlow, Workers, feed
<1> QED BY <1>4, <1>5, <1>7, <1>8, <1>9 DEF PoolInv

\* The item in hand goes to the end of the queue, while no sentinel is there.
LEMMA PutKeeps == ASSUME PoolInv, Put PROVE PoolInv' /\ Held' = Held
<1> DEFINE n == Len(queue)
<1>1. PoolTypes /\ PoolShape /\ PoolApart /\ PoolFlow BY DEF PoolInv
<1>2. /\ producer = "put" /\ n < 2 * concurrency /\ queue' = Append(queue, hand)
      /\ producer' = "enumerate" /\ hand' = Nothing
      /\ UNCHANGED <<concurrency, main, owed, fate, worker, task, succeeded, failures, asked>>
  BY DEF Put, QueueHasRoom
<1>3. hand \in Items /\ hand \in Queue /\ queue \in Seq(Queue) BY <1>1, <1>2 DEF PoolShape, PoolTypes, Queue
<1>4. /\ queue' \in Seq(Queue) /\ Len(queue') = n + 1 /\ queue'[n + 1] = hand /\ n \in Nat
      /\ \A i \in 1..n : queue'[i] = queue[i]
  BY <1>2, <1>3, AppendedSeq
<1> HIDE DEF n
<1>5. \A i \in 1..Len(queue') : i \in 1..n \/ i = n + 1 BY <1>4
<1>6. n + 1 \in 1..Len(queue') /\ \A i \in 1..n : i \in 1..Len(queue') BY <1>4
<1>7. \A x \in Items : /\ InQueue(x)' <=> InQueue(x) \/ x = hand
                       /\ WithWorker(x)' <=> WithWorker(x)
  BY <1>2, <1>4, <1>5, <1>6 DEF InQueue, WithWorker, n
<1>8. hand' \notin Items BY <1>2, PoolAssumption
<1>9. Held' = Held BY <1>3, <1>7, <1>8 DEF Held
<1>10. PoolTypes' BY <1>1, <1>2, <1>4 DEF PoolTypes, ProducerOver
<1>11. PoolShape'
  <2>1. concurrency \in Nat BY <1>1, PoolAssumption DEF PoolTypes
  <2>2. Len(queue') <= 2 * concurrency BY <1>2, <1>4, <2>1
  <2> QED BY <1>1, <1>2, <1>8, <2>2 DEF PoolShape, Workers
<1>12. PoolApart'
  <2>1. \A i \in 1..n : queue[i] # hand BY <1>1, <1>3 DEF PoolApart, InQueue, n
  <2>2. \A i, j \in 1..Len(queue') : queue'[i] = queue'[j] /\ queue'[i] \in Items => i = j
    <3> SUFFICES ASSUME NEW i \in 1..Len(queue'), NEW j \in 1..Len(queue'), queue'[i] = queue'[j], queue'[i] \in Items
                 PROVE  i = j
      OBVIOUS
    <3>1. CASE i \in 1..n /\ j \in 1..n BY <1>1, <1>4, <3>1 DEF PoolApart, n
    <3>2. CASE i = n + 1 /\ j \in 1..n BY <1>4, <2>1, <3>2
    <3>3. CASE i \in 1..n /\ j = n + 1 BY <1>4, <2>1, <3>3
    <3> QED BY <1>5, <3>1, <3>2, <3>3
  <2>3. \A x \in Items : ~(x = hand' /\ WithWorker(x)') /\ ~(x = hand' /\ InQueue(x)') /\ ~(WithWorker(x)' /\ InQueue(x)')
    BY <1>1, <1>7, <1>8 DEF PoolApart
  <2>4. (succeeded' \cup failures') \cap Held' = {} /\ succeeded' \cap failures' = {} BY <1>1, <1>2, <1>9 DEF PoolApart
  <2>5. \A v, w \in AllWorkers : task'[v] = task'[w] /\ task'[v] \in Items => v = w BY <1>1, <1>2 DEF PoolApart
  <2> QED BY <2>2, <2>3, <2>4, <2>5 DEF PoolApart
<1>13. PoolFlow'
  <2> SUFFICES ASSUME main \in {"gather", "returned", "raised"} PROVE PoolFlow'
    BY <1>2 DEF PoolFlow
  <2>1. /\ InTransit \in 0..n /\ fate \in {"done", "failed"} /\ (~asked => \A w \in AllWorkers : worker[w] # "dead")
        /\ \A i \in 1..n : queue[i] = Stop <=> i > n - InTransit
        /\ main \in {"returned", "raised"} => \A w \in Workers : worker[w] = "done"
    BY <1>1 DEF PoolFlow, n
  <2>2. owed = concurrency BY <1>1, <1>2 DEF PoolShape
  <2>3. Cardinality(DoneWorkers) \in Nat /\ concurrency \in Nat /\ concurrency # 0
    BY <1>1, PoolAssumption, DoneCounted DEF PoolTypes
  <2>4. InTransit = 0 BY <2>1, <2>2, <2>3 DEF InTransit
  <2>5. InTransit' = InTransit BY <1>2 DEF InTransit, DoneWorkers, Workers
  <2>6. \A i \in 1..n : queue'[i] # Stop BY <1>4, <2>1, <2>4
  <2>7. queue'[n + 1] # Stop BY <1>3, <1>4, PoolAssumption
  <2>8. \A i \in 1..Len(queue') : queue'[i] = Stop <=> i > Len(queue') - InTransit'
    BY <1>4, <1>5, <2>4, <2>5, <2>6, <2>7
  <2>9. ~(owed' < concurrency') BY <1>2, <2>2, <2>3
  <2>10. \A w \in Workers' : main' \in {"returned", "raised"} => worker'[w] = "done" BY <1>2, <2>1 DEF Workers
  <2>11. InTransit' \in 0..Len(queue') BY <1>4, <2>4, <2>5
  <2>12. ~asked => \A w \in AllWorkers : worker'[w] # "dead" BY <1>2, <2>1
  <2> QED BY <1>2, <2>1, <2>8, <2>9, <2>10, <2>11, <2>12 DEF PoolFlow, ProducerOver
<1> QED BY <1>9, <1>10, <1>11, <1>12, <1>13 DEF PoolInv

\* A sentinel goes to the end of the queue.
LEMMA PutSentinelKeeps == ASSUME PoolInv, PutSentinel PROVE PoolInv' /\ Held' = Held
<1> DEFINE n == Len(queue)
<1>1. PoolTypes /\ PoolShape /\ PoolApart /\ PoolFlow BY DEF PoolInv
<1>2. /\ producer = "sentinels" /\ n < 2 * concurrency /\ queue' = Append(queue, Stop)
      /\ owed' = owed - 1 /\ producer' = IF owed = 1 THEN fate ELSE producer
      /\ UNCHANGED <<concurrency, main, hand, fate, worker, task, succeeded, failures, asked>>
  BY DEF PutSentinel, QueueHasRoom
<1>3. queue \in Seq(Queue) /\ Stop \in Queue BY <1>1 DEF PoolTypes, Queue
<1>4. /\ queue' \in Seq(Queue) /\ Len(queue') = n + 1 /\ queue'[n + 1] = Stop /\ n \in Nat
      /\ \A i \in 1..n : queue'[i] = queue[i]
  BY <1>2, <1>3, AppendedSeq
<1> HIDE DEF n
<1>5. \A i \in 1..Len(queue') : i \in 1..n \/ i = n + 1 BY <1>4
<1>6. n + 1 \in 1..Len(queue') /\ \A i \in 1..n : i \in 1..Len(queue') BY <1>4
<1>7. \A x \in Items : /\ InQueue(x)' <=> InQueue(x)
                       /\ WithWorker(x)' <=> WithWorker(x)
  BY <1>2, <1>4, <1>5, <1>6, PoolAssumption DEF InQueue, WithWorker, n
<1>8. hand' \notin Items BY <1>1, <1>2 DEF PoolShape
<1>9. Held' = Held BY <1>2, <1>7 DEF Held
<1>10. owed \in 1..concurrency /\ concurrency \in Nat /\ owed' \in Nat
  BY <1>1, <1>2, PoolAssumption DEF PoolShape, PoolTypes
<1>11. PoolTypes' BY <1>1, <1>2, <1>4, <1>10 DEF PoolTypes
<1>12. PoolShape'
  <2>1. Len(queue') <= 2 * concurrency BY <1>2, <1>4, <1>10
  <2>2. producer' = "sentinels" => owed' \in 1..concurrency BY <1>1, <1>2, <1>10 DEF PoolTypes, ProducerOver
  <2>3. producer' \in {"sentinels"} \cup ProducerOver BY <1>1, <1>2 DEF PoolTypes
  <2> QED BY <1>1, <1>2, <1>8, <2>1, <2>2, <2>3 DEF PoolShape, Workers, ProducerOver
<1>13. PoolApart'
  <2>1. \A i, j \in 1..Len(queue') : queue'[i] = queue'[j] /\ queue'[i] \in Items => i = j
    <3> SUFFICES ASSUME NEW i \in 1..Len(queue'), NEW j \in 1..Len(queue'), queue'[i] = queue'[j], queue'[i] \in Items
                 PROVE  i = j
      OBVIOUS
    <3>1. i # n + 1 /\ j # n + 1 BY <1>4, PoolAssumption
    <3> QED BY <1>1, <1>4, <1>5, <3>1 DEF PoolApart, n
  <2>2. \A x \in Items : ~(x = hand' /\ WithWorker(x)') /\ ~(x = hand' /\ InQueue(x)') /\ ~(WithWorker(x)' /\ InQueue(x)')
    BY <1>1, <1>7, <1>8 DEF PoolApart
  <2>3. (succeeded' \cup failures') \cap Held' = {} /\ succeeded' \cap failures' = {} BY <1>1, <1>2, <1>9 DEF PoolApart
  <2>4. \A v, w \in AllWorkers : task'[v] = task'[w] /\ task'[v] \in Items => v = w BY <1>1, <1>2 DEF PoolApart
  <2> QED BY <2>1, <2>2, <2>3, <2>4 DEF PoolApart
<1>14. PoolFlow'
  <2> SUFFICES ASSUME main \in {"gather", "returned", "raised"} PROVE PoolFlow'
    BY <1>2 DEF PoolFlow
  <2>1. /\ InTransit \in 0..n /\ fate \in {"done", "failed"} /\ (~asked => \A w \in AllWorkers : worker[w] # "dead")
        /\ \A i \in 1..n : queue[i] = Stop <=> i > n - InTransit
        /\ main \in {"returned", "raised"} => \A w \in Workers : worker[w] = "done"
    BY <1>1 DEF PoolFlow, n
  <2>2. Cardinality(DoneWorkers) \in Nat BY <1>1, DoneCounted
  <2>3. InTransit' = InTransit + 1 BY <1>2, <1>10, <2>2 DEF InTransit, DoneWorkers, Workers
  <2>4. InTransit' \in 0..Len(queue') /\ InTransit' >= 1 BY <1>4, <2>1, <2>3
  <2>5. \A i \in 1..Len(queue') : queue'[i] = Stop <=> i > Len(queue') - InTransit'
    <3>1. Len(queue') - InTransit' = n - InTransit BY <1>4, <2>1, <2>3
    <3>2. n + 1 > n - InTransit BY <1>4, <2>1
    <3> QED BY <1>4, <1>5, <2>1, <3>1, <3>2
  <2>6. producer' \in {"sentinels", "done", "failed"} BY <1>2, <2>1
  <2>7. producer' \in ProducerOver => owed' = 0 /\ producer' = fate' BY <1>2, <1>10, <2>1 DEF ProducerOver
  <2>8. main' = "gather"
    <3>1. ASSUME main \in {"returned", "raised"} PROVE FALSE
      <4>1. Cardinality(DoneWorkers) = concurrency BY <1>1, <2>1, <3>1, DoneCounted
      <4> QED BY <1>10, <2>1, <4>1 DEF InTransit
    <3> QED BY <1>2, <3>1
  <2>9. ~asked => \A w \in AllWorkers : worker'[w] # "dead" BY <1>2, <2>1
  <2> QED BY <1>2, <2>1, <2>4, <2>5, <2>6, <2>7, <2>8, <2>9 DEF PoolFlow
<1> QED BY <1>9, <1>11, <1>12, <1>13, <1>14 DEF PoolInv

\* A worker takes the head of the queue: an item, or its sentinel.
LEMMA TakeKeeps == ASSUME PoolInv, NEW w \in Workers, Take(w) PROVE PoolInv' /\ Held' = Held
<1> DEFINE n == Len(queue)
           head == Head(queue)
<1>1. PoolTypes /\ PoolShape /\ PoolApart /\ PoolFlow BY DEF PoolInv
<1>2. /\ worker[w] = "get" /\ queue # <<>> /\ queue' = Tail(queue)
      /\ worker' = [worker EXCEPT ![w] = IF head = Stop THEN "done" ELSE "enter"]
      /\ task' = [task EXCEPT ![w] = IF head = Stop THEN Nothing ELSE head]
      /\ UNCHANGED <<concurrency, main, producer, hand, owed, fate, succeeded, failures, asked>>
  BY DEF Take, feed
<1>3. queue \in Seq(Queue) BY <1>1 DEF PoolTypes
<1>4. /\ queue' \in Seq(Queue) /\ n \in Nat \ {0} /\ Len(queue') = n - 1 /\ head = queue[1] /\ head \in Queue
      /\ \A i \in 1..(n - 1) : queue'[i] = queue[i + 1]
  BY <1>2, <1>3, TailOfSeq
<1> HIDE DEF n, head
<1>5. w \in AllWorkers /\ concurrency \in Nat \ {0}
  BY <1>1, PoolAssumption DEF PoolTypes, Workers, AllWorkers
<1>6. head # Stop => head \in Items BY <1>4 DEF Queue
<1>7. task[w] \notin Items /\ Nothing \notin Items /\ Stop \notin Items BY <1>1, <1>2, <1>5, PoolAssumption DEF PoolShape
<1>8. /\ \A v \in AllWorkers : worker'[v] = IF v = w THEN (IF head = Stop THEN "done" ELSE "enter") ELSE worker[v]
      /\ \A v \in AllWorkers : task'[v] = IF v = w THEN (IF head = Stop THEN Nothing ELSE head) ELSE task[v]
  BY <1>1, <1>2 DEF PoolTypes
<1>9. \A x \in Items : InQueue(x) <=> InQueue(x)' \/ x = head
  <2> SUFFICES ASSUME NEW x \in Items PROVE InQueue(x) <=> InQueue(x)' \/ x = head
    OBVIOUS
  <2>1. ASSUME NEW i \in 1..n, queue[i] = x PROVE InQueue(x)' \/ x = head
    <3>1. CASE i = 1 BY <1>4, <2>1, <3>1
    <3>2. CASE i # 1
      <4>1. i - 1 \in 1..(n - 1) /\ (i - 1) + 1 = i BY <1>4, <3>2
      <4>2. queue'[i - 1] = x BY <1>4, <2>1, <4>1
      <4>3. i - 1 \in 1..Len(queue') BY <1>4, <4>1
      <4> QED BY <4>2, <4>3 DEF InQueue
    <3> QED BY <3>1, <3>2
  <2>2. ASSUME NEW i \in 1..(n - 1), queue'[i] = x PROVE InQueue(x)
    <3>1. i + 1 \in 1..n /\ queue[i + 1] = x BY <1>4, <2>2
    <3> QED BY <3>1 DEF InQueue, n
  <2>3. x = head => InQueue(x)
    <3>1. 1 \in 1..n BY <1>4
    <3> QED BY <1>4, <3>1 DEF InQueue, n
  <2> QED BY <1>4, <2>1, <2>2, <2>3 DEF InQueue, n
<1>10. \A x \in Items : WithWorker(x)' <=> WithWorker(x) \/ x = head
  BY <1>5, <1>6, <1>7, <1>8 DEF WithWorker
<1>11. Held' = Held BY <1>2, <1>9, <1>10 DEF Held
<1>12. \A x \in Items : x = head => ~InQueue(x)'
  <2> SUFFICES ASSUME head \in Items, NEW i \in 1..(n - 1), queue'[i] = head PROVE FALSE
    BY <1>4 DEF InQueue
  <2>1. i + 1 \in 1..n /\ 1 \in 1..n /\ queue[i + 1] = queue[1] BY <1>4
  <2>2. i + 1 = 1 BY <1>1, <1>4, <2>1 DEF PoolApart, n
  <2> QED BY <2>2
<1>13. PoolTypes'
  <2>1. worker' \in [AllWorkers -> Places] BY <1>1, <1>2 DEF PoolTypes, Places
  <2>2. task' \in [AllWorkers -> Items \cup {Nothing}] BY <1>1, <1>2, <1>6 DEF PoolTypes
  <2> QED BY <1>1, <1>2, <1>4, <2>1, <2>2 DEF PoolTypes
<1>14. PoolShape'
  <2>1. Len(queue') <= 2 * concurrency BY <1>1, <1>4, <1>5 DEF PoolShape, n
  <2>2. \A v \in AllWorkers : /\ task'[v] \in Items => worker'[v] \in {"enter", "work"}
                              /\ worker'[v] \in {"enter", "work"} => task'[v] \in Items /\ v \in Workers
    BY <1>1, <1>6, <1>7, <1>8 DEF PoolShape
  <2> QED BY <1>1, <1>2, <2>1, <2>2 DEF PoolShape, Workers
<1>15. PoolApart'
  <2>1. \A i, j \in 1..Len(queue') : queue'[i] = queue'[j] /\ queue'[i] \in Items => i = j
    <3> SUFFICES ASSUME NEW i \in 1..(n - 1), NEW j \in 1..(n - 1), queue'[i] = queue'[j], queue'[i] \in Items
                 PROVE  i = j
      BY <1>4
    <3>1. i + 1 \in 1..n /\ j + 1 \in 1..n /\ queue[i + 1] = queue[j + 1] /\ queue[i + 1] \in Items BY <1>4
    <3>2. i + 1 = j + 1 BY <1>1, <3>1 DEF PoolApart, n
    <3> QED BY <3>2
  <2>2. \A v, u \in AllWorkers : task'[v] = task'[u] /\ task'[v] \in Items => v = u
    <3>1. head \in Items => ~WithWorker(head) BY <1>1, <1>9 DEF PoolApart
    <3>2. \A v \in AllWorkers : v # w /\ head \in Items => task[v] # head BY <3>1 DEF WithWorker
    <3> QED BY <1>1, <1>6, <1>7, <1>8, <3>2 DEF PoolApart
  <2>3. ASSUME NEW x \in Items
        PROVE  ~(x = hand' /\ WithWorker(x)') /\ ~(x = hand' /\ InQueue(x)') /\ ~(WithWorker(x)' /\ InQueue(x)')
    <3>1. ~(x = hand /\ WithWorker(x)) /\ ~(x = hand /\ InQueue(x)) /\ ~(WithWorker(x) /\ InQueue(x))
      BY <1>1 DEF PoolApart
    <3> QED BY <1>2, <1>9, <1>10, <1>12, <3>1
  <2>4. (succeeded' \cup failures') \cap Held' = {} /\ succeeded' \cap failures' = {} BY <1>1, <1>2, <1>11 DEF PoolApart
  <2> QED BY <2>1, <2>2, <2>3, <2>4 DEF PoolApart
<1>16. PoolFlow'
  <2> SUFFICES ASSUME main \in {"gather", "returned", "raised"} PROVE PoolFlow'
    BY <1>2 DEF PoolFlow
  <2>1. /\ InTransit \in 0..n /\ fate \in {"done", "failed"} /\ (~asked => \A v \in AllWorkers : worker[v] # "dead")
        /\ \A i \in 1..n : queue[i] = Stop <=> i > n - InTransit
        /\ owed < concurrency /\ queue # <<>> => InTransit >= 1
        /\ main \in {"returned", "raised"} => \A v \in Workers : worker[v] = "done"
    BY <1>1 DEF PoolFlow, n
  <2>2. main = "gather" BY <1>2, <2>1
  <2>3. ~asked => \A v \in AllWorkers : worker'[v] # "dead" BY <1>8, <2>1
  <2>4. IsFiniteSet(DoneWorkers) /\ Cardinality(DoneWorkers) \in Nat /\ owed \in Nat
    BY <1>1, DoneCounted DEF PoolTypes
  <2>5. \A v \in Workers : v \in AllWorkers BY <1>1, PoolAssumption DEF PoolTypes, Workers, AllWorkers
  <2>6. CASE head = Stop
    <3>1. DoneWorkers' = DoneWorkers \cup {w} /\ w \notin DoneWorkers
      BY <1>2, <1>8, <2>5, <2>6 DEF DoneWorkers, Workers
    <3>2. Cardinality(DoneWorkers') = Cardinality(DoneWorkers) + 1 BY <2>4, <3>1, FS_AddElement
    <3>3. InTransit' = InTransit - 1 BY <1>2, <1>5, <2>4, <3>2 DEF InTransit
    <3>4. InTransit = n
      <4>1. 1 \in 1..n BY <1>4
      <4>2. 1 > n - InTransit BY <1>4, <2>1, <2>6, <4>1
      <4> QED BY <1>4, <2>1, <4>2
    <3>5. InTransit' = n - 1 BY <3>3, <3>4
    <3>6. \A i \in 1..(n - 1) : queue'[i] = Stop
      <4> SUFFICES ASSUME NEW i \in 1..(n - 1) PROVE queue[i + 1] = Stop
        BY <1>4
      <4>1. i + 1 \in 1..n /\ i + 1 > n - InTransit BY <1>4, <3>4
      <4> QED BY <2>1, <4>1
    <3>7. \A i \in 1..(n - 1) : i > (n - 1) - InTransit' BY <1>4, <3>5
    <3>8. owed' < concurrency' /\ queue' # <<>> => InTransit' >= 1
      <4>1. queue' # <<>> => Len(queue') # 0 BY <1>4
      <4> QED BY <1>4, <3>5, <4>1
    <3>9. InTransit' \in 0..Len(queue') BY <1>4, <3>5
    <3> QED BY <1>1, <1>2, <1>4, <2>2, <2>3, <3>6, <3>7, <3>8, <3>9 DEF PoolFlow
  <2>7. CASE head # Stop
    <3>1. DoneWorkers' = DoneWorkers BY <1>2, <1>8, <2>5, <2>7 DEF DoneWorkers, Workers
    <3>2. InTransit' = InTransit BY <1>2, <3>1 DEF InTransit
    <3>3. InTransit <= n - 1
      <4>1. 1 \in 1..n BY <1>4
      <4>2. ~(1 > n - InTransit) BY <1>4, <2>1, <2>7, <4>1
      <4> QED BY <1>4, <2>1, <4>2
    <3>4. ASSUME NEW i \in 1..(n - 1) PROVE queue'[i] = Stop <=> i > (n - 1) - InTransit
      <4>1. i + 1 \in 1..n /\ (i + 1 > n - InTransit <=> i > (n - 1) - InTransit) BY <1>4, <2>1
      <4> QED BY <1>4, <2>1, <4>1
    <3>5. InTransit' \in 0..Len(queue') BY <1>4, <2>1, <3>2, <3>3
    <3>6. owed' < concurrency' /\ queue' # <<>> => InTransit' >= 1 BY <1>2, <2>1, <3>2
    <3> QED BY <1>1, <1>2, <1>4, <2>2, <2>3, <3>2, <3>4, <3>5, <3>6 DEF PoolFlow
  <2> QED BY <2>6, <2>7
<1> QED BY <1>11, <1>13, <1>14, <1>15, <1>16 DEF PoolInv

\* A worker is over with its item.
LEMMA WorkOverKeeps ==
    ASSUME PoolInv, NEW w \in Workers, NEW ok \in BOOLEAN, WorkOver(w, ok)
    PROVE  /\ PoolInv' /\ task[w] \in Held /\ Held' = Held \ {task[w]}
           /\ succeeded' = (IF ok THEN succeeded \cup {task[w]} ELSE succeeded)
           /\ failures' = (IF ok THEN failures ELSE failures \cup {task[w]})
<1>1. PoolTypes /\ PoolShape /\ PoolApart /\ PoolFlow BY DEF PoolInv
<1>2. /\ worker[w] = "work" /\ worker' = [worker EXCEPT ![w] = "get"] /\ task' = [task EXCEPT ![w] = Nothing]
      /\ succeeded' = (IF ok THEN succeeded \cup {task[w]} ELSE succeeded)
      /\ failures' = (IF ok THEN failures ELSE failures \cup {task[w]})
      /\ UNCHANGED <<concurrency, main, producer, hand, owed, fate, queue, asked>>
  BY DEF WorkOver, feed
<1>3. w \in AllWorkers /\ task[w] \in Items /\ Nothing \notin Items
  BY <1>1, <1>2, PoolAssumption DEF PoolTypes, PoolShape, Workers, AllWorkers
<1>4. /\ \A v \in AllWorkers : worker'[v] = IF v = w THEN "get" ELSE worker[v]
      /\ \A v \in AllWorkers : task'[v] = IF v = w THEN Nothing ELSE task[v]
  BY <1>1, <1>2 DEF PoolTypes
<1>5. \A x \in Items : (InQueue(x)' <=> InQueue(x)) /\ (WithWorker(x)' <=> WithWorker(x) /\ x # task[w])
  <2>1. \A v \in AllWorkers : task[v] = task[w] => v = w BY <1>1, <1>3 DEF PoolApart
  <2> QED BY <1>2, <1>3, <1>4, <2>1 DEF InQueue, WithWorker
<1>6. WithWorker(task[w]) BY <1>3 DEF WithWorker
<1>7. task[w] # hand /\ ~InQueue(task[w]) BY <1>1, <1>3, <1>6 DEF PoolApart
<1>8. task[w] \in Held /\ Held' = Held \ {task[w]} BY <1>2, <1>3, <1>5, <1>6, <1>7 DEF Held
<1>9. PoolTypes'
  <2>1. worker' \in [AllWorkers -> Places] BY <1>1, <1>2 DEF PoolTypes, Places
  <2>2. task' \in [AllWorkers -> Items \cup {Nothing}] BY <1>1, <1>2 DEF PoolTypes
  <2>3. succeeded' \subseteq Items /\ failures' \subseteq Items BY <1>1, <1>2, <1>3 DEF PoolTypes
  <2> QED BY <1>1, <1>2, <2>1, <2>2, <2>3 DEF PoolTypes
<1>10. PoolShape'
  <2>1. \A v \in AllWorkers : /\ task'[v] \in Items => worker'[v] \in {"enter", "work"}
                              /\ worker'[v] \in {"enter", "work"} => task'[v] \in Items /\ v \in Workers
    BY <1>1, <1>3, <1>4 DEF PoolShape
  <2> QED BY <1>1, <1>2, <2>1 DEF PoolShape, Workers
<1>11. PoolApart'
  <2>1. \A i, j \in 1..Len(queue') : queue'[i] = queue'[j] /\ queue'[i] \in Items => i = j
    BY <1>1, <1>2 DEF PoolApart
  <2>2. \A v, u \in AllWorkers : task'[v] = task'[u] /\ task'[v] \in Items => v = u BY <1>1, <1>3, <1>4 DEF PoolApart
  <2>3. \A x \in Items : ~(x = hand' /\ WithWorker(x)') /\ ~(x = hand' /\ InQueue(x)') /\ ~(WithWorker(x)' /\ InQueue(x)')
    BY <1>1, <1>2, <1>5 DEF PoolApart
  <2>4. (succeeded' \cup failures') \cap Held' = {} /\ succeeded' \cap failures' = {}
    BY <1>1, <1>2, <1>8 DEF PoolApart
  <2> QED BY <2>1, <2>2, <2>3, <2>4 DEF PoolApart
<1>12. PoolFlow'
  <2>1. \A v \in Workers : v \in AllWorkers BY <1>1, PoolAssumption DEF PoolTypes, Workers, AllWorkers
  <2>2. DoneWorkers' = DoneWorkers BY <1>2, <1>4, <2>1 DEF DoneWorkers, Workers
  <2>3. InTransit' = InTransit BY <1>2, <2>2 DEF InTransit
  <2>4. main \notin {"returned", "raised"} BY <1>1, <1>2 DEF PoolFlow
  <2> QED BY <1>1, <1>2, <1>4, <2>3, <2>4 DEF PoolFlow
<1> QED BY <1>2, <1>8, <1>9, <1>10, <1>11, <1>12 DEF PoolInv

\* Ctrl-C and what follows: the items being run count as failures, those that
\* were only taken are dropped.
LEMMA CancelKeeps ==
    ASSUME PoolInv, CancelWorkers, asked', main = "gather", main' \in {"gather", "shutdown"},
           main' = "gather" => UNCHANGED <<producer, fate>>,
           hand' \in {hand, Nothing}, owed' = owed, hand' = Nothing \/ producer' = producer,
           producer' \in {"idle", "enumerate", "put", "sentinels"} \cup ProducerOver, fate' \in ProducerOver,
           producer' = producer \/ producer' \in ProducerOver \/ (producer \in {"enumerate", "put"} /\ producer' = "sentinels"),
           producer' = "put" => hand' = hand
    PROVE  PoolInv' /\ Held' \subseteq Held /\ failures' = failures \cup Aborted /\ succeeded' = succeeded
           /\ Aborted \subseteq Held
<1>1. PoolTypes /\ PoolShape /\ PoolApart /\ PoolFlow BY DEF PoolInv
<1>2. /\ worker' = [w \in AllWorkers |-> CASE worker[w] \in {"get", "enter"} -> "dead"
                                           [] worker[w] = "work" -> "get"
                                           [] OTHER -> worker[w]]
      /\ task' = [w \in AllWorkers |-> Nothing] /\ failures' = failures \cup Aborted
      /\ UNCHANGED <<concurrency, queue, succeeded>>
  BY DEF CancelWorkers
<1>3. \A x \in Items : (InQueue(x)' <=> InQueue(x)) /\ ~WithWorker(x)'
  BY <1>2, PoolAssumption DEF InQueue, WithWorker
<1>4. Aborted \subseteq {x \in Items : WithWorker(x)}
  <2> SUFFICES ASSUME NEW w \in Workers, worker[w] = "work" PROVE task[w] \in Items /\ WithWorker(task[w])
    BY DEF Aborted
  <2>1. w \in AllWorkers BY <1>1, PoolAssumption DEF PoolTypes, Workers, AllWorkers
  <2> QED BY <1>1, <2>1 DEF PoolShape, WithWorker
<1>5. Held' \subseteq Held /\ Aborted \subseteq Held BY <1>3, <1>4, PoolAssumption DEF Held
<1>6. Held' \cap Aborted = {} BY <1>1, <1>3, <1>4, PoolAssumption DEF Held, PoolApart
<1>7. PoolTypes'
  <2>1. \A w \in AllWorkers : worker[w] \in Places BY <1>1 DEF PoolTypes
  <2>2. worker' \in [AllWorkers -> Places] BY <1>2, <2>1 DEF Places
  <2>3. task' \in [AllWorkers -> Items \cup {Nothing}] BY <1>2
  <2>4. failures' \subseteq Items BY <1>1, <1>2, <1>4 DEF PoolTypes
  <2> QED BY <1>1, <1>2, <2>2, <2>3, <2>4 DEF PoolTypes
<1>8. PoolShape'
  <2>1. \A w \in AllWorkers : task'[w] \notin Items /\ worker'[w] \notin {"enter", "work"} BY <1>2, PoolAssumption
  <2>2. concurrency \in Nat \ {0} BY <1>1, PoolAssumption DEF PoolTypes
  <2>3. producer' = "sentinels" => owed' \in 1..concurrency BY <1>1, <2>2 DEF PoolShape, ProducerOver
  <2>4. producer' \in {"enumerate", "put"} => owed' = concurrency BY <1>1 DEF PoolShape, ProducerOver
  <2>5. (hand' \in Items => producer' = "put") /\ (producer' = "put" => hand' \in Items)
    BY <1>1, PoolAssumption DEF PoolShape, ProducerOver
  <2>6. Len(queue') <= 2 * concurrency BY <1>1, <1>2 DEF PoolShape
  <2> QED BY <1>2, <2>1, <2>3, <2>4, <2>5, <2>6 DEF PoolShape, Workers
<1>9. PoolApart'
  <2>1. \A i, j \in 1..Len(queue') : queue'[i] = queue'[j] /\ queue'[i] \in Items => i = j
    BY <1>1, <1>2 DEF PoolApart
  <2>2. \A w \in AllWorkers : task'[w] \notin Items BY <1>2, PoolAssumption
  <2>3. \A x \in Items : ~(x = hand' /\ WithWorker(x)') /\ ~(x = hand' /\ InQueue(x)') /\ ~(WithWorker(x)' /\ InQueue(x)')
    BY <1>1, <1>3, PoolAssumption DEF PoolApart
  <2>4. (succeeded' \cup failures') \cap Held' = {} BY <1>1, <1>2, <1>5, <1>6 DEF PoolApart
  <2>5. succeeded' \cap failures' = {} BY <1>1, <1>2, <1>5 DEF PoolApart
  <2> QED BY <2>1, <2>2, <2>3, <2>4, <2>5 DEF PoolApart
<1>10. PoolFlow'
  <2> SUFFICES ASSUME main' = "gather" PROVE PoolFlow'
    BY DEF PoolFlow
  <2>1. \A v \in Workers : v \in AllWorkers BY <1>1, PoolAssumption DEF PoolTypes, Workers, AllWorkers
  <2>2. \A v \in AllWorkers : worker'[v] = "done" <=> worker[v] = "done" BY <1>2
  <2>3. DoneWorkers' = DoneWorkers BY <1>2, <2>1, <2>2 DEF DoneWorkers, Workers
  <2>4. InTransit' = InTransit BY <1>2, <2>3 DEF InTransit
  <2> QED BY <1>1, <1>2, <2>4 DEF PoolFlow
<1> QED BY <1>2, <1>5, <1>7, <1>8, <1>9, <1>10 DEF PoolInv

\* Both are such cancellations.
LEMMA InterruptKeeps ==
    ASSUME PoolInv, Interrupt \/ ShutDown
    PROVE  PoolInv' /\ Held' \subseteq Held /\ failures' = failures \cup Aborted /\ succeeded' = succeeded
           /\ Aborted \subseteq Held /\ asked'
<1>1. PoolTypes /\ PoolShape /\ PoolFlow BY DEF PoolInv
<1>2. CASE Interrupt
  <2>1. /\ CancelWorkers /\ asked' /\ main = "gather" /\ main' = "gather" /\ hand' = hand /\ owed' = owed
        /\ producer' = producer /\ fate' = fate
    BY <1>2 DEF Interrupt, feed
  <2>2. producer' \in {"idle", "enumerate", "put", "sentinels"} \cup ProducerOver /\ fate' \in ProducerOver
    BY <1>1, <2>1 DEF PoolTypes
  <2> QED BY <2>1, <2>2, CancelKeeps
<1>3. CASE ShutDown
  <2>1. /\ CancelWorkers /\ main = "gather" /\ main' = "shutdown" /\ hand' = Nothing /\ owed' = owed /\ asked' = asked
        /\ \/ producer \in {"enumerate", "put"} /\ producer' = "sentinels" /\ fate' = "cancelled"
           \/ producer = "sentinels" /\ producer' = "cancelled" /\ fate' = fate
           \/ producer \in ProducerOver /\ producer' = producer /\ fate' = fate
        /\ \E w \in Workers : worker[w] = "dead"
    BY <1>3 DEF ShutDown
  <2>2. \A v \in Workers : v \in AllWorkers BY <1>1, PoolAssumption DEF PoolTypes, Workers, AllWorkers
  <2>3. asked BY <1>1, <2>1, <2>2 DEF PoolFlow, PoolTypes
  <2>4. /\ producer' \in {"sentinels"} \cup ProducerOver /\ fate' \in ProducerOver
        /\ producer' = producer \/ producer' \in ProducerOver
           \/ (producer \in {"enumerate", "put"} /\ producer' = "sentinels")
    BY <1>1, <2>1 DEF PoolTypes, ProducerOver
  <2> QED BY <2>1, <2>3, <2>4, CancelKeeps DEF ProducerOver
<1> QED BY <1>2, <1>3

\* A pool that returned without Ctrl-C holds nothing, and its stream had ended.
LEMMA ReturnedEmpty ==
    ASSUME PoolInv, main = "returned"
    PROVE  /\ ~asked /\ queue = <<>> /\ hand = Nothing /\ (\A w \in AllWorkers : task[w] = Nothing)
           /\ Held = {} /\ producer = "done" /\ fate = "done"
<1>1. PoolTypes /\ PoolShape /\ PoolFlow BY DEF PoolInv
<1>2. ~asked BY <1>1 DEF PoolShape
<1>3. /\ InTransit \in 0..Len(queue) /\ (owed < concurrency /\ queue # <<>> => InTransit >= 1)
      /\ producer \in {"enumerate", "put", "sentinels", "done", "failed"}
      /\ producer \in ProducerOver => producer = fate
      /\ (\A w \in Workers : worker[w] = "done") /\ producer # "failed"
  BY <1>1, <1>2 DEF PoolFlow
<1>4. Cardinality(DoneWorkers) = concurrency /\ concurrency \in Nat \ {0} /\ owed \in Nat /\ Len(queue) \in Nat
  BY <1>1, <1>3, DoneCounted, PoolAssumption DEF PoolTypes
<1>5. owed = 0 /\ InTransit = 0 BY <1>3, <1>4 DEF InTransit
<1>6. queue = <<>> BY <1>3, <1>4, <1>5
<1>7. producer = "done" /\ fate = "done" BY <1>1, <1>3, <1>4, <1>5 DEF PoolShape, ProducerOver
<1>8. hand = Nothing BY <1>1, <1>7 DEF PoolTypes, PoolShape
<1>9. \A w \in AllWorkers : task[w] = Nothing
  <2> SUFFICES ASSUME NEW w \in AllWorkers, task[w] \in Items PROVE FALSE
    BY <1>1 DEF PoolTypes
  <2> QED BY <1>1, <1>3 DEF PoolShape
<1>10. Held = {} BY <1>6, <1>8, <1>9, PoolAssumption DEF Held, WithWorker, InQueue
<1> QED BY <1>2, <1>6, <1>7, <1>8, <1>9, <1>10

-----------------------------------------------------------------------------
(* The commands.                                                           *)

CmdTypes ==
    /\ options \in Commands /\ phase \in {"start", "file", "scan", "compare", "copy", "delete", "exit"}
    /\ code \in Int /\ src \in [Items -> Nat] /\ dst \in [Items -> Int]
    /\ unseen \subseteq Items /\ src_files \subseteq Items /\ unchecked \subseteq Items
    /\ to_transfer \subseteq Items /\ to_delete \subseteq Items /\ steady \subseteq Items

\* The phases of each command, and what it starts with.
CmdPhases ==
    /\ phase = "start" => src_files = {} /\ (options.name # "sync_file" => unseen = Items)
    /\ phase \in {"scan", "compare", "delete"} => options.name = "sync"
    /\ phase = "file" => options.name = "sync_file"
    /\ phase = "copy" => options.name \in {"sync", "cp"}
    /\ options.name = "cp" => to_delete = {}
    /\ options.name = "sync_file" => \E f \in Items : unseen = {f} /\ unchecked \subseteq {f} /\ to_transfer \subseteq {f}

\* What is not there was absent at some time; what nobody changed never was.
CmdWorld ==
    /\ Items \ Has(src) \subseteq absent
    /\ \A f \in steady : src[f] # 0 => f \notin absent

\* What the pool's stream has still to yield, it has not seen.
Unyielded == IF phase = "delete" THEN to_delete ELSE IF options.name = "cp" THEN unseen ELSE to_transfer
CmdStream ==
    phase \in {"copy", "delete"} =>
        /\ Unyielded \cap (Held \cup succeeded \cup failures) = {}
        /\ ~asked /\ producer \in {"sentinels"} \cup ProducerOver /\ fate = "done" => Unyielded = {}
        /\ phase = "copy" /\ options.name = "cp" /\ ~asked => src_files = succeeded \cup failures \cup Held

\* What is to be deleted was absent, is excluded, or was hidden by a refused listing.
Spare == absent \cup options.exclude \cup refused
CmdDeletes ==
    /\ deleted \subseteq Spare
    /\ phase = "scan" => Items \ (unseen \cup src_files) \subseteq absent \cup refused
    /\ phase = "compare" => Items \ src_files \subseteq Spare
    /\ phase = "copy" => to_delete \subseteq Spare
    /\ phase = "delete" => to_delete \cup Held \subseteq Spare

\* Where a file that must be copied is until it has been.
Wanted(f) == f \in steady \ refused /\ src[f] # 0 /\ f \notin options.exclude
Waits(f) ==
    /\ phase \in {"start", "file"} => f \in unseen
    /\ phase = "scan" => f \in unseen \cup src_files
    /\ phase = "compare" => f \in unchecked \cup to_transfer \/ dst[f] >= src[f]
    /\ phase = "copy" /\ ~asked => f \in Unyielded \cup Held \cup failures \/ dst[f] >= src[f]
    /\ phase = "delete" => code = 2 \/ dst[f] >= src[f]
    /\ phase = "exit" /\ code = 0 => dst[f] >= src[f]
CmdCopies == ~options.size_only /\ ~options.dry_run => \A f \in Items : Wanted(f) => Waits(f)

CmdInv == CmdTypes /\ CmdPhases /\ CmdWorld /\ CmdStream /\ CmdDeletes /\ CmdCopies

\* Nothing of the pool changes.
LEMMA PoolSame == PoolInv /\ UNCHANGED poolvars => PoolInv' /\ Held' = Held
<1> SUFFICES ASSUME PoolInv, UNCHANGED poolvars PROVE PoolInv' /\ Held' = Held
  OBVIOUS
<1>1. UNCHANGED <<concurrency, main, producer, hand, owed, fate, queue, worker, task, succeeded, failures, asked>>
  BY DEF poolvars, feed
<1>2. Held' = Held BY <1>1 DEF Held, WithWorker, InQueue
<1>3. PoolTypes' /\ PoolShape' BY <1>1 DEF PoolInv, PoolTypes, PoolShape, Workers
<1>4. PoolApart' BY <1>1, <1>2 DEF PoolInv, PoolApart, WithWorker, InQueue
<1>5. PoolFlow' BY <1>1 DEF PoolInv, PoolFlow, InTransit, DoneWorkers, Workers
<1> QED BY <1>2, <1>3, <1>4, <1>5 DEF PoolInv

\* Somebody changes the source.
LEMMA ChangeKeeps == ASSUME PoolInv, CmdInv, NEW f \in Items, Change(f) PROVE PoolInv' /\ CmdInv'
<1>1. /\ phase # "exit" /\ UNCHANGED poolvars
      /\ absent' = absent \cup (Items \ Has(src')) /\ steady' = steady \ {f}
      /\ UNCHANGED <<options, phase, code, dst, unseen, src_files, unchecked, to_transfer, to_delete, refused,
                     deleted>>
      /\ \E v \in {0, src[f] + 1} : src' = [src EXCEPT ![f] = v]
  BY DEF Change, plan
<1>2. UNCHANGED <<producer, fate, asked, succeeded, failures>> BY <1>1 DEF poolvars, feed
<1>3. PoolInv' /\ Held' = Held BY <1>1, PoolSame
<1>4. CmdTypes /\ CmdPhases /\ CmdWorld /\ CmdStream /\ CmdDeletes /\ CmdCopies BY DEF CmdInv
<1>5. CmdTypes'
  <2>1. src[f] + 1 \in Nat BY <1>4 DEF CmdTypes
  <2>2. src' \in [Items -> Nat] BY <1>1, <1>4, <2>1 DEF CmdTypes
  <2> QED BY <1>1, <1>4, <2>2 DEF CmdTypes
<1>6. CmdPhases' BY <1>1, <1>4 DEF CmdPhases
<1>7. \A g \in Items : g # f => src'[g] = src[g] BY <1>1, <1>4 DEF CmdTypes
<1>8. CmdWorld'
  <2>1. Items \ Has(src') \subseteq absent' BY <1>1
  <2>2. ASSUME NEW g \in steady', src'[g] # 0 PROVE g \notin absent'
    <3>1. g \in Items /\ g # f /\ src'[g] = src[g] BY <1>1, <1>4, <1>7 DEF CmdTypes
    <3>2. g \notin absent BY <1>1, <1>4, <2>2, <3>1 DEF CmdWorld
    <3> QED BY <1>1, <2>2, <3>1, <3>2 DEF Has
  <2> QED BY <2>1, <2>2 DEF CmdWorld
<1>9. CmdStream' BY <1>1, <1>2, <1>3, <1>4 DEF CmdStream, Unyielded
<1>10. CmdDeletes' BY <1>1, <1>3, <1>4 DEF CmdDeletes, Spare
<1>11. CmdCopies'
  <2> SUFFICES ASSUME ~options.size_only, ~options.dry_run, NEW g \in Items, Wanted(g)' PROVE Waits(g)'
    BY <1>1 DEF CmdCopies
  <2>1. g # f /\ src'[g] = src[g] BY <1>1, <1>7 DEF Wanted
  <2>2. Wanted(g) BY <1>1, <2>1 DEF Wanted
  <2>3. Waits(g) BY <1>4, <2>2 DEF CmdCopies
  <2> QED BY <1>1, <1>2, <1>3, <2>1, <2>3 DEF Waits, Unyielded
<1> QED BY <1>3, <1>5, <1>6, <1>8, <1>9, <1>10, <1>11 DEF CmdInv

\* What the command line can say.
LEMMA OptionTypes ==
    ASSUME options \in Commands
    PROVE  /\ options.name \in {"sync", "sync_file", "cp"} /\ options.dry_run \in BOOLEAN
           /\ options.size_only \in BOOLEAN /\ options.delete_extra \in BOOLEAN /\ options.exclude \subseteq Items
<1>1. options \in [name : {"sync", "sync_file", "cp"}, delete_extra : BOOLEAN, dry_run : BOOLEAN,
                   size_only : BOOLEAN, exclude : SUBSET Items]
  BY CommandAssumption
<1> QED BY <1>1

\* A file that is not to be copied is at the destination in its version.
LEMMA SameUnlessNeeded ==
    ASSUME CmdTypes, NEW f \in Items, ~NeedsSync(f), ~options.size_only, src[f] # 0
    PROVE  dst[f] >= src[f]
<1>1. src[f] \in Nat /\ dst[f] \in Int BY DEF CmdTypes
<1>2. ~(src[f] > dst[f]) BY DEF NeedsSync
<1> QED BY <1>1, <1>2

\* The source is a file: it is there, or the command ends.
LEMMA BeginFileKeeps == ASSUME PoolInv, CmdInv, NEW f \in Items, BeginFile(f) PROVE PoolInv' /\ CmdInv'
<1>1. /\ phase = "start" /\ options.name = "sync_file" /\ f \in unseen
      /\ \/ src[f] = 0 /\ phase' = "exit" /\ code' = 1 /\ unchecked' = unchecked
         \/ src[f] # 0 /\ phase' = "file" /\ unchecked' = {f} /\ code' = code
      /\ UNCHANGED <<poolvars, options, dst, unseen, src_files, to_transfer, to_delete, src, changes, absent,
                     steady, refused, deleted>>
  BY DEF BeginFile, plan, world, Exit
<1>2. PoolInv' /\ Held' = Held /\ UNCHANGED <<main, producer, fate, asked, succeeded, failures>>
  BY <1>1, PoolSame DEF poolvars, feed
<1>3. CmdTypes /\ CmdPhases /\ CmdWorld /\ CmdStream /\ CmdDeletes /\ CmdCopies BY DEF CmdInv
<1>4. CmdTypes' BY <1>1, <1>2, <1>3 DEF CmdTypes
<1>5. CmdPhases' BY <1>1, <1>2, <1>3 DEF CmdPhases
<1>6. CmdWorld' BY <1>1, <1>2, <1>3 DEF CmdWorld
<1>7. CmdStream' BY <1>1, <1>2, <1>3 DEF CmdStream, Unyielded
<1>8. CmdDeletes' BY <1>1, <1>2, <1>3 DEF CmdDeletes, Spare
<1>9. CmdCopies'
  <2> SUFFICES ASSUME ~options.size_only, ~options.dry_run, NEW g \in Items, Wanted(g)' PROVE Waits(g)'
    BY <1>1 DEF CmdCopies
  <2>1. Wanted(g) /\ Waits(g) BY <1>1, <1>3 DEF CmdCopies, Wanted
  <2> QED BY <1>1, <1>2, <1>3, <2>1 DEF Waits, Unyielded, Wanted
<1> QED BY <1>2, <1>4, <1>5, <1>6, <1>7, <1>8, <1>9 DEF CmdInv

\* The file is compared: a copy of the same version ends the command.
LEMMA CompareFileKeeps == ASSUME PoolInv, CmdInv, NEW f \in Items, CompareFile(f) PROVE PoolInv' /\ CmdInv'
<1>1. /\ phase = "file" /\ f \in unchecked /\ unchecked' = {}
      /\ \/ NeedsSync(f) /\ ~options.dry_run /\ to_transfer' = {f} /\ phase' = phase /\ code' = code
         \/ (~NeedsSync(f) \/ options.dry_run) /\ phase' = "exit" /\ code' = 0 /\ to_transfer' = to_transfer
      /\ UNCHANGED <<poolvars, options, dst, unseen, src_files, to_delete, src, changes, absent, steady, refused, deleted>>
  BY DEF CompareFile, plan, world, Exit
<1>2. PoolInv' /\ Held' = Held /\ UNCHANGED <<main, producer, fate, asked, succeeded, failures>>
  BY <1>1, PoolSame DEF poolvars, feed
<1>3. CmdTypes /\ CmdPhases /\ CmdWorld /\ CmdStream /\ CmdDeletes /\ CmdCopies BY DEF CmdInv
<1>4. ~NeedsSync(f) /\ ~options.size_only /\ src[f] # 0 => dst[f] >= src[f] BY <1>3, SameUnlessNeeded
<1>5. unseen = {f}
  <2>1. options.name = "sync_file" BY <1>1, <1>3 DEF CmdPhases
  <2> QED BY <1>1, <1>3, <2>1 DEF CmdPhases
<1>6. CmdTypes' BY <1>1, <1>2, <1>3, <1>4, <1>5 DEF CmdTypes
<1>7. CmdPhases' BY <1>1, <1>2, <1>3, <1>4, <1>5 DEF CmdPhases
<1>8. CmdWorld' BY <1>1, <1>2, <1>3, <1>4, <1>5 DEF CmdWorld
<1>9. CmdStream' BY <1>1, <1>2, <1>3, <1>4, <1>5 DEF CmdStream, Unyielded
<1>10. CmdDeletes' BY <1>1, <1>2, <1>3, <1>4, <1>5 DEF CmdDeletes, Spare
<1>11. CmdCopies'
  <2> SUFFICES ASSUME ~options.size_only, ~options.dry_run, NEW g \in Items, Wanted(g)' PROVE Waits(g)'
    BY <1>1 DEF CmdCopies
  <2>1. Wanted(g) /\ Waits(g) BY <1>1, <1>3 DEF CmdCopies, Wanted
  <2> QED BY <1>1, <1>2, <1>3, <2>1, <1>4, <1>5 DEF Waits, Unyielded, Wanted
<1> QED BY <1>2, <1>6, <1>7, <1>8, <1>9, <1>10, <1>11 DEF CmdInv

\* The file is copied, or the copy fails.
LEMMA CopyFileKeeps == ASSUME PoolInv, CmdInv, NEW f \in Items, CopyFile(f) PROVE PoolInv' /\ CmdInv'
<1>1. /\ phase = "file" /\ f \in to_transfer /\ to_transfer' = {} /\ phase' = "exit"
      /\ \/ src[f] # 0 /\ dst' = [dst EXCEPT ![f] = src[f]] /\ code' = 0
         \/ (\E v \in {dst[f], Broken} : dst' = [dst EXCEPT ![f] = v]) /\ code' \in {1, 2}
      /\ UNCHANGED <<poolvars, options, unseen, src_files, unchecked, to_delete, src, changes, absent, steady, refused,
                     deleted>>
  BY DEF CopyFile, plan, world, Exit
<1>2. PoolInv' /\ Held' = Held /\ UNCHANGED <<main, producer, fate, asked, succeeded, failures>>
  BY <1>1, PoolSame DEF poolvars, feed
<1>3. CmdTypes /\ CmdPhases /\ CmdWorld /\ CmdStream /\ CmdDeletes /\ CmdCopies BY DEF CmdInv
<1>4. unseen = {f}
  <2>1. options.name = "sync_file" BY <1>1, <1>3 DEF CmdPhases
  <2> QED BY <1>1, <1>3, <2>1 DEF CmdPhases
<1>5. dst' \in [Items -> Int] /\ (code' = 0 => dst'[f] = src[f])
  <2>1. Broken \in Int /\ src[f] \in Int /\ dst[f] \in Int BY <1>3 DEF CmdTypes, Broken
  <2> QED BY <1>1, <1>3, <2>1 DEF CmdTypes
<1>6. CmdTypes' BY <1>1, <1>2, <1>3, <1>4, <1>5 DEF CmdTypes
<1>7. CmdPhases' BY <1>1, <1>2, <1>3, <1>4, <1>5 DEF CmdPhases
<1>8. CmdWorld' BY <1>1, <1>2, <1>3, <1>4, <1>5 DEF CmdWorld
<1>9. CmdStream' BY <1>1, <1>2, <1>3, <1>4, <1>5 DEF CmdStream, Unyielded
<1>10. CmdDeletes' BY <1>1, <1>2, <1>3, <1>4, <1>5 DEF CmdDeletes, Spare
<1>11. CmdCopies'
  <2> SUFFICES ASSUME ~options.size_only, ~options.dry_run, NEW g \in Items, Wanted(g)' PROVE Waits(g)'
    BY <1>1 DEF CmdCopies
  <2>1. Wanted(g) /\ Waits(g) BY <1>1, <1>3 DEF CmdCopies, Wanted
  <2> QED BY <1>1, <1>2, <1>3, <2>1, <1>4, <1>5 DEF Waits, Unyielded, Wanted
<1> QED BY <1>2, <1>6, <1>7, <1>8, <1>9, <1>10, <1>11 DEF CmdInv

\* The walk of the source comes to a file.
LEMMA ScanKeeps == ASSUME PoolInv, CmdInv, NEW f \in Items, Scan(f) PROVE PoolInv' /\ CmdInv'
<1>1. /\ phase = "scan" /\ f \in unseen /\ unseen' = unseen \ {f}
      /\ src_files' = (IF src[f] # 0 THEN src_files \cup {f} ELSE src_files)
      /\ UNCHANGED <<poolvars, options, phase, code, dst, unchecked, to_transfer, to_delete, src, changes, absent,
                     steady, refused, deleted>>
  BY DEF Scan, plan, world, Exit
<1>2. PoolInv' /\ Held' = Held /\ UNCHANGED <<main, producer, fate, asked, succeeded, failures>>
  BY <1>1, PoolSame DEF poolvars, feed
<1>3. CmdTypes /\ CmdPhases /\ CmdWorld /\ CmdStream /\ CmdDeletes /\ CmdCopies BY DEF CmdInv
<1>4. src[f] = 0 => f \in absent BY <1>3 DEF CmdWorld, Has
<1>5. options.name = "sync" BY <1>1, <1>3 DEF CmdPhases
<1>6. CmdTypes' BY <1>1, <1>2, <1>3, <1>4, <1>5 DEF CmdTypes
<1>7. CmdPhases' BY <1>1, <1>2, <1>3, <1>4, <1>5 DEF CmdPhases
<1>8. CmdWorld' BY <1>1, <1>2, <1>3, <1>4, <1>5 DEF CmdWorld
<1>9. CmdStream' BY <1>1, <1>2, <1>3, <1>4, <1>5 DEF CmdStream, Unyielded
<1>10. CmdDeletes' BY <1>1, <1>2, <1>3, <1>4, <1>5 DEF CmdDeletes, Spare
<1>11. CmdCopies'
  <2> SUFFICES ASSUME ~options.size_only, ~options.dry_run, NEW g \in Items, Wanted(g)' PROVE Waits(g)'
    BY <1>1 DEF CmdCopies
  <2>1. Wanted(g) /\ Waits(g) BY <1>1, <1>3 DEF CmdCopies, Wanted
  <2> QED BY <1>1, <1>2, <1>3, <2>1, <1>4, <1>5 DEF Waits, Unyielded, Wanted
<1> QED BY <1>2, <1>6, <1>7, <1>8, <1>9, <1>10, <1>11 DEF CmdInv

\* A listing is refused: what was below is accounted for.
LEMMA ListingRefusedKeeps == ASSUME PoolInv, CmdInv, ListingRefused PROVE PoolInv' /\ CmdInv'
<1>1. /\ phase = "scan" \/ (phase = "copy" /\ options.name = "cp" /\ producer = "enumerate")
      /\ unseen' \subseteq unseen /\ unseen \ unseen' \subseteq refused' \cup (Items \ Has(src)) \cup (unseen \ Items)
      /\ refused \subseteq refused'
      /\ UNCHANGED <<poolvars, options, phase, code, src, dst, changes, absent, steady, src_files, unchecked,
                     to_transfer, to_delete, deleted>>
  BY DEF ListingRefused
<1>2. PoolInv' /\ Held' = Held /\ UNCHANGED <<main, producer, fate, asked, succeeded, failures>>
  BY <1>1, PoolSame DEF poolvars, feed
<1>3. CmdTypes /\ CmdPhases /\ CmdWorld /\ CmdStream /\ CmdDeletes /\ CmdCopies BY DEF CmdInv
<1>4. unseen \ unseen' \subseteq refused' \cup absent
  <2>1. Items \ Has(src) \subseteq absent /\ unseen \subseteq Items BY <1>3 DEF CmdWorld, CmdTypes
  <2> QED BY <1>1, <2>1
<1>5. CmdTypes' BY <1>1, <1>3 DEF CmdTypes
<1>6. CmdPhases' BY <1>1, <1>3 DEF CmdPhases
<1>7. CmdWorld' BY <1>1, <1>3 DEF CmdWorld, Has
<1>8. CmdStream' BY <1>1, <1>2, <1>3 DEF CmdStream, Unyielded
<1>9. CmdDeletes' BY <1>1, <1>2, <1>3, <1>4 DEF CmdDeletes, Spare
<1>10. CmdCopies'
  <2> SUFFICES ASSUME ~options.size_only, ~options.dry_run, NEW g \in Items, Wanted(g)' PROVE Waits(g)'
    BY <1>1 DEF CmdCopies
  <2>1. Wanted(g) /\ Waits(g) BY <1>1, <1>3 DEF CmdCopies, Wanted
  <2>2. g \notin refused' /\ g \notin absent BY <1>1, <1>3, <2>1 DEF Wanted, CmdWorld
  <2>3. g \in unseen => g \in unseen' BY <1>4, <2>2
  <2> QED BY <1>1, <1>2, <2>1, <2>3 DEF Waits, Unyielded
<1> QED BY <1>2, <1>5, <1>6, <1>7, <1>8, <1>9, <1>10 DEF CmdInv

\* The exclude patterns are applied.
LEMMA ExcludeKeeps == ASSUME PoolInv, CmdInv, Exclude PROVE PoolInv' /\ CmdInv'
<1>1. /\ phase = "scan" /\ unseen = {} /\ phase' = "compare"
      /\ src_files' = src_files \ options.exclude /\ unchecked' = src_files'
      /\ UNCHANGED <<poolvars, options, code, dst, unseen, to_transfer, to_delete, src, changes, absent, steady, refused,
                     deleted>>
  BY DEF Exclude, plan, world, Exit
<1>2. PoolInv' /\ Held' = Held /\ UNCHANGED <<main, producer, fate, asked, succeeded, failures>>
  BY <1>1, PoolSame DEF poolvars, feed
<1>3. CmdTypes /\ CmdPhases /\ CmdWorld /\ CmdStream /\ CmdDeletes /\ CmdCopies BY DEF CmdInv
<1>4. options.name = "sync" BY <1>1, <1>3 DEF CmdPhases
<1>5. CmdTypes' BY <1>1, <1>2, <1>3, <1>4 DEF CmdTypes
<1>6. CmdPhases' BY <1>1, <1>2, <1>3, <1>4 DEF CmdPhases
<1>7. CmdWorld' BY <1>1, <1>2, <1>3, <1>4 DEF CmdWorld
<1>8. CmdStream' BY <1>1, <1>2, <1>3, <1>4 DEF CmdStream, Unyielded
<1>9. CmdDeletes' BY <1>1, <1>2, <1>3, <1>4 DEF CmdDeletes, Spare
<1>10. CmdCopies'
  <2> SUFFICES ASSUME ~options.size_only, ~options.dry_run, NEW g \in Items, Wanted(g)' PROVE Waits(g)'
    BY <1>1 DEF CmdCopies
  <2>1. Wanted(g) /\ Waits(g) BY <1>1, <1>3 DEF CmdCopies, Wanted
  <2> QED BY <1>1, <1>2, <1>3, <2>1, <1>4 DEF Waits, Unyielded, Wanted
<1> QED BY <1>2, <1>5, <1>6, <1>7, <1>8, <1>9, <1>10 DEF CmdInv

\* A file is compared.
LEMMA CompareKeeps == ASSUME PoolInv, CmdInv, NEW f \in Items, Compare(f) PROVE PoolInv' /\ CmdInv'
<1>1. /\ phase = "compare" /\ f \in unchecked /\ unchecked' = unchecked \ {f}
      /\ to_transfer' = (IF NeedsSync(f) THEN to_transfer \cup {f} ELSE to_transfer)
      /\ UNCHANGED <<poolvars, options, phase, code, dst, unseen, src_files, to_delete, src, changes, absent, steady, refused,
                     deleted>>
  BY DEF Compare, plan, world, Exit
<1>2. PoolInv' /\ Held' = Held /\ UNCHANGED <<main, producer, fate, asked, succeeded, failures>>
  BY <1>1, PoolSame DEF poolvars, feed
<1>3. CmdTypes /\ CmdPhases /\ CmdWorld /\ CmdStream /\ CmdDeletes /\ CmdCopies BY DEF CmdInv
<1>4. ~NeedsSync(f) /\ ~options.size_only /\ src[f] # 0 => dst[f] >= src[f] BY <1>3, SameUnlessNeeded
<1>5. options.name = "sync" BY <1>1, <1>3 DEF CmdPhases
<1>6. CmdTypes' BY <1>1, <1>2, <1>3, <1>4, <1>5 DEF CmdTypes
<1>7. CmdPhases' BY <1>1, <1>2, <1>3, <1>4, <1>5 DEF CmdPhases
<1>8. CmdWorld' BY <1>1, <1>2, <1>3, <1>4, <1>5 DEF CmdWorld
<1>9. CmdStream' BY <1>1, <1>2, <1>3, <1>4, <1>5 DEF CmdStream, Unyielded
<1>10. CmdDeletes' BY <1>1, <1>2, <1>3, <1>4, <1>5 DEF CmdDeletes, Spare
<1>11. CmdCopies'
  <2> SUFFICES ASSUME ~options.size_only, ~options.dry_run, NEW g \in Items, Wanted(g)' PROVE Waits(g)'
    BY <1>1 DEF CmdCopies
  <2>1. Wanted(g) /\ Waits(g) BY <1>1, <1>3 DEF CmdCopies, Wanted
  <2> QED BY <1>1, <1>2, <1>3, <2>1, <1>4, <1>5 DEF Waits, Unyielded, Wanted
<1> QED BY <1>2, <1>6, <1>7, <1>8, <1>9, <1>10, <1>11 DEF CmdInv

\* The scan or a comparison raises.
LEMMA ScanFailsKeeps == ASSUME PoolInv, CmdInv, ScanFails PROVE PoolInv' /\ CmdInv'
<1>1. /\ phase' = "exit" /\ code' \in {1, 2}
      /\ UNCHANGED <<poolvars, options, dst, unseen, src_files, unchecked, to_transfer, to_delete, src, changes,
                     absent, steady, refused, deleted>>
  BY DEF ScanFails, plan, world, Exit
<1>2. PoolInv' /\ Held' = Held /\ UNCHANGED <<main, producer, fate, asked, succeeded, failures>>
  BY <1>1, PoolSame DEF poolvars, feed
<1>3. CmdTypes /\ CmdPhases /\ CmdWorld /\ CmdStream /\ CmdDeletes /\ CmdCopies BY DEF CmdInv
<1>4. CmdTypes' BY <1>1, <1>2, <1>3 DEF CmdTypes
<1>5. CmdPhases' BY <1>1, <1>2, <1>3 DEF CmdPhases
<1>6. CmdWorld' BY <1>1, <1>2, <1>3 DEF CmdWorld
<1>7. CmdStream' BY <1>1, <1>2, <1>3 DEF CmdStream, Unyielded
<1>8. CmdDeletes' BY <1>1, <1>2, <1>3 DEF CmdDeletes, Spare
<1>9. CmdCopies'
  <2> SUFFICES ASSUME ~options.size_only, ~options.dry_run, NEW g \in Items, Wanted(g)' PROVE Waits(g)'
    BY <1>1 DEF CmdCopies
  <2>1. Wanted(g) /\ Waits(g) BY <1>1, <1>3 DEF CmdCopies, Wanted
  <2> QED BY <1>1, <1>2, <1>3, <2>1 DEF Waits, Unyielded, Wanted
<1> QED BY <1>2, <1>4, <1>5, <1>6, <1>7, <1>8, <1>9 DEF CmdInv

\* The command begins: sync scans, cp starts its pool.
LEMMA BegunKeeps == ASSUME PoolInv, CmdInv, Begun PROVE PoolInv' /\ CmdInv'
<1>1. /\ phase = "start" /\ options.name # "sync_file"
      /\ UNCHANGED <<options, dst, unseen, src_files, unchecked, to_transfer, to_delete, src, changes, absent,
                     steady, refused, deleted>>
  BY DEF Begun, plan, world
<1>2. CmdTypes /\ CmdPhases /\ CmdWorld /\ CmdStream /\ CmdDeletes /\ CmdCopies BY DEF CmdInv
<1>3. src_files = {} /\ unseen = Items BY <1>1, <1>2 DEF CmdPhases
<1>4. \/ phase' = "exit" /\ code' = 1 /\ UNCHANGED poolvars
      \/ options.name = "sync" /\ phase' = "scan" /\ code' = code /\ UNCHANGED poolvars
      \/ options.name = "cp" /\ phase' = "copy" /\ code' = code /\ Start
  BY DEF Begun, Exit
<1>5. /\ PoolInv'
      /\ phase' = "copy" => Held' = {} /\ succeeded' = {} /\ failures' = {} /\ producer' = "enumerate"
  <2>1. CASE phase' # "copy" /\ UNCHANGED poolvars BY <2>1, PoolSame
  <2>2. CASE Start BY <2>2, StartKeeps DEF Start
  <2> QED BY <1>4, <2>1, <2>2
<1>6. CmdTypes' BY <1>1, <1>2, <1>4 DEF CmdTypes
<1>7. CmdPhases' BY <1>1, <1>2, <1>3, <1>4 DEF CmdPhases
<1>8. CmdWorld' BY <1>1, <1>2 DEF CmdWorld, Has
<1>9. CmdStream' BY <1>1, <1>3, <1>4, <1>5 DEF CmdStream, Unyielded, ProducerOver
<1>10. CmdDeletes'
  <2>1. options.name = "cp" => to_delete = {} BY <1>2 DEF CmdPhases
  <2> QED BY <1>1, <1>2, <1>3, <1>4, <2>1 DEF CmdDeletes, Spare
<1>11. CmdCopies'
  <2> SUFFICES ASSUME ~options.size_only, ~options.dry_run, NEW g \in Items, Wanted(g)' PROVE Waits(g)'
    BY <1>1 DEF CmdCopies
  <2> QED BY <1>1, <1>3, <1>4 DEF Waits, Unyielded
<1> QED BY <1>5, <1>6, <1>7, <1>8, <1>9, <1>10, <1>11 DEF CmdInv

\* Nothing to do, or the copies start.
LEMMA DecideKeeps == ASSUME PoolInv, CmdInv, Decide PROVE PoolInv' /\ CmdInv'
<1>1. /\ phase = "compare" /\ unchecked = {}
      /\ to_delete' \subseteq Has(dst) \ src_files
      /\ UNCHANGED <<options, dst, unseen, src_files, unchecked, to_transfer, src, changes, absent, steady, refused, deleted>>
  BY DEF Decide, world, Extra
<1>2. CmdTypes /\ CmdPhases /\ CmdWorld /\ CmdStream /\ CmdDeletes /\ CmdCopies BY DEF CmdInv
<1>3. options.name = "sync" BY <1>1, <1>2 DEF CmdPhases
<1>4. \/ (options.dry_run \/ to_transfer = {}) /\ phase' = "exit" /\ code' = 0 /\ UNCHANGED poolvars
      \/ phase' = "copy" /\ code' = code /\ Start
  BY DEF Decide, Exit
<1>5. /\ PoolInv'
      /\ phase' = "copy" => Held' = {} /\ succeeded' = {} /\ failures' = {} /\ producer' = "enumerate"
  <2>1. CASE phase' = "exit" /\ UNCHANGED poolvars BY <2>1, PoolSame
  <2>2. CASE Start BY <2>2, StartKeeps DEF Start
  <2> QED BY <1>4, <2>1, <2>2
<1>6. to_delete' \subseteq Items \ src_files BY <1>1 DEF Has
<1>7. CmdTypes' BY <1>1, <1>2, <1>4, <1>6 DEF CmdTypes
<1>8. CmdPhases' BY <1>1, <1>2, <1>3, <1>4 DEF CmdPhases
<1>9. CmdWorld' BY <1>1, <1>2 DEF CmdWorld, Has
<1>10. CmdStream' BY <1>1, <1>3, <1>4, <1>5 DEF CmdStream, Unyielded, ProducerOver
<1>11. CmdDeletes' BY <1>1, <1>2, <1>4, <1>6 DEF CmdDeletes, Spare
<1>12. CmdCopies'
  <2> SUFFICES ASSUME ~options.size_only, ~options.dry_run, NEW g \in Items, Wanted(g)' PROVE Waits(g)'
    BY <1>1 DEF CmdCopies
  <2>1. g \in to_transfer \/ dst[g] >= src[g] BY <1>1, <1>2 DEF CmdCopies, Wanted, Waits
  <2> QED BY <1>1, <1>3, <1>4, <2>1 DEF Waits, Unyielded
<1> QED BY <1>5, <1>7, <1>8, <1>9, <1>10, <1>11, <1>12 DEF CmdInv

-----------------------------------------------------------------------------
(* The steps of the command while its pool runs.                           *)

\* The stream yields a file: it was still to be yielded, so the pool has not seen it.
LEMMA YieldFileKeeps == ASSUME PoolInv, CmdInv, NEW f \in Items, YieldFile(f) PROVE PoolInv' /\ CmdInv'
<1>1. /\ Yield(f) /\ phase \in {"copy", "delete"} /\ f \in Unyielded /\ Unyielded' = Unyielded \ {f}
      /\ to_delete' \subseteq to_delete /\ (phase = "copy" => to_delete' = to_delete)
      /\ (phase = "copy" /\ options.name = "cp" => src_files' = src_files \cup {f})
      /\ (phase = "delete" => f \in to_delete)
      /\ to_transfer' \subseteq to_transfer /\ unseen' \subseteq unseen /\ src_files' \subseteq src_files \cup {f}
      /\ UNCHANGED <<options, phase, code, dst, unchecked, src, changes, absent, steady, refused, deleted>>
  BY DEF YieldFile, world, Unyielded
<1>2. UNCHANGED <<main, asked, succeeded, failures, fate>> /\ producer' = "put" BY <1>1 DEF Yield
<1>3. CmdTypes /\ CmdPhases /\ CmdWorld /\ CmdStream /\ CmdDeletes /\ CmdCopies BY DEF CmdInv
<1>4. f \notin Held /\ f \notin succeeded \cup failures BY <1>1, <1>3 DEF CmdStream
<1>5. PoolInv' /\ Held' = Held \cup {f} BY <1>1, <1>4, YieldKeeps
<1>6. CmdTypes' BY <1>1, <1>3 DEF CmdTypes
<1>7. CmdPhases' BY <1>1, <1>3 DEF CmdPhases
<1>8. CmdWorld' BY <1>1, <1>3 DEF CmdWorld, Has
<1>9. CmdStream' BY <1>1, <1>2, <1>3, <1>4, <1>5 DEF CmdStream, ProducerOver
<1>10. CmdDeletes' BY <1>1, <1>3, <1>5 DEF CmdDeletes, Spare
<1>11. CmdCopies'
  <2> SUFFICES ASSUME ~options.size_only, ~options.dry_run, NEW g \in Items, Wanted(g)' PROVE Waits(g)'
    BY <1>1 DEF CmdCopies
  <2>1. Waits(g) BY <1>1, <1>3 DEF CmdCopies, Wanted
  <2> QED BY <1>1, <1>2, <1>5, <2>1 DEF Waits
<1> QED BY <1>5, <1>6, <1>7, <1>8, <1>9, <1>10, <1>11 DEF CmdInv

\* The walk of cp passes a place where there is no file: not one that must be copied.
LEMMA SkipKeeps == ASSUME PoolInv, CmdInv, NEW f \in Items, Skip(f) PROVE PoolInv' /\ CmdInv'
<1>1. /\ phase = "copy" /\ options.name = "cp" /\ src[f] = 0 /\ unseen' = unseen \ {f}
      /\ UNCHANGED <<poolvars, options, phase, code, dst, src_files, unchecked, to_transfer, to_delete, src, changes,
                     absent, steady, refused, deleted>>
  BY DEF Skip, world
<1>2. PoolInv' /\ Held' = Held /\ UNCHANGED <<main, producer, fate, asked, succeeded, failures>>
  BY <1>1, PoolSame DEF poolvars, feed
<1>3. CmdTypes /\ CmdPhases /\ CmdWorld /\ CmdStream /\ CmdDeletes /\ CmdCopies BY DEF CmdInv
<1>4. CmdTypes' BY <1>1, <1>3 DEF CmdTypes
<1>5. CmdPhases' BY <1>1, <1>3 DEF CmdPhases
<1>6. CmdWorld' BY <1>1, <1>3 DEF CmdWorld, Has
<1>7. CmdStream' BY <1>1, <1>2, <1>3 DEF CmdStream, Unyielded
<1>8. CmdDeletes' BY <1>1, <1>2, <1>3 DEF CmdDeletes, Spare
<1>9. CmdCopies'
  <2> SUFFICES ASSUME ~options.size_only, ~options.dry_run, NEW g \in Items, Wanted(g)' PROVE Waits(g)'
    BY <1>1 DEF CmdCopies
  <2>1. Waits(g) /\ g # f BY <1>1, <1>3 DEF CmdCopies, Wanted
  <2> QED BY <1>1, <1>2, <2>1 DEF Waits, Unyielded
<1> QED BY <1>2, <1>4, <1>5, <1>6, <1>7, <1>8, <1>9 DEF CmdInv

\* Only the pool changes, and it goes on holding what it held: the command's
\* invariant asks of such a step only that a stream is not over before its time.
LEMMA HeldSameKeeps ==
    ASSUME CmdInv, UNCHANGED cmdvars, Held' = Held, UNCHANGED <<succeeded, failures, asked>>,
           phase \in {"copy", "delete"} /\ ~asked /\ producer' \in {"sentinels"} \cup ProducerOver /\ fate' = "done"
               => Unyielded = {}
    PROVE  CmdInv'
<1>1. UNCHANGED <<options, phase, code, dst, unseen, src_files, unchecked, to_transfer, to_delete, src, changes,
                  absent, steady, refused, deleted>>
  BY DEF cmdvars, plan, world
<1>2. CmdTypes /\ CmdPhases /\ CmdWorld /\ CmdStream /\ CmdDeletes /\ CmdCopies BY DEF CmdInv
<1>3. Unyielded' = Unyielded BY <1>1 DEF Unyielded
<1>4. CmdTypes' BY <1>1, <1>2 DEF CmdTypes
<1>5. CmdPhases' BY <1>1, <1>2 DEF CmdPhases
<1>6. CmdWorld' BY <1>1, <1>2 DEF CmdWorld, Has
<1>7. CmdStream' BY <1>1, <1>2, <1>3 DEF CmdStream
<1>8. CmdDeletes' BY <1>1, <1>2 DEF CmdDeletes, Spare
<1>9. CmdCopies'
  <2> SUFFICES ASSUME ~options.size_only, ~options.dry_run, NEW g \in Items, Wanted(g)' PROVE Waits(g)'
    BY <1>1 DEF CmdCopies
  <2>1. Waits(g) BY <1>1, <1>2 DEF CmdCopies, Wanted
  <2> QED BY <1>1, <1>3, <2>1 DEF Waits
<1> QED BY <1>4, <1>5, <1>6, <1>7, <1>8, <1>9 DEF CmdInv

\* The stream ends when there is nothing left to yield, or cp's walk raises.
LEMMA StreamEndsKeeps == ASSUME PoolInv, CmdInv, StreamEnds PROVE PoolInv' /\ CmdInv'
<1>1. UNCHANGED cmdvars BY DEF StreamEnds
<1>2. CmdPhases /\ CmdTypes BY DEF CmdInv
<1>3. PICK end \in {"done", "failed"} : /\ StreamOver(end)
                                        /\ end = "done" /\ phase \in {"copy", "delete"} => Unyielded = {}
  <2>1. phase = "delete" => options.name = "sync" BY <1>2 DEF CmdPhases
  <2> QED BY <2>1 DEF StreamEnds, Unyielded
<1>4. PoolInv' /\ Held' = Held BY <1>3, StreamOverKeeps
<1>5. fate' = end /\ UNCHANGED <<succeeded, failures, asked>> BY <1>3 DEF StreamOver
<1> QED BY <1>1, <1>3, <1>4, <1>5, HeldSameKeeps

\* A step of the pool alone.
LEMMA PoolStepKeeps == ASSUME PoolInv, CmdInv, PoolStep PROVE PoolInv' /\ CmdInv'
<1>1. UNCHANGED cmdvars /\ CmdStream BY DEF PoolStep, CmdInv
<1>2. PoolInv' /\ Held' = Held
  <2>1. CASE Put BY <2>1, PutKeeps
  <2>2. CASE PutSentinel BY <2>2, PutSentinelKeeps
  <2>3. CASE Finish BY <2>3, FinishKeeps
  <2>4. ASSUME NEW w \in Workers, Take(w) PROVE PoolInv' /\ Held' = Held BY <2>4, TakeKeeps
  <2>5. ASSUME NEW w \in Workers, Begin(w) PROVE PoolInv' /\ Held' = Held BY <2>5, BeginKeeps
  <2> QED BY <2>1, <2>2, <2>3, <2>4, <2>5 DEF PoolStep
<1>3. /\ UNCHANGED <<succeeded, failures, asked, fate>>
      /\ producer' \in {"sentinels"} \cup ProducerOver => producer \in {"sentinels"} \cup ProducerOver
  BY DEF PoolStep, Put, PutSentinel, Finish, Take, Begin, feed, ProducerOver
<1>4. phase \in {"copy", "delete"} /\ ~asked /\ producer' \in {"sentinels"} \cup ProducerOver /\ fate' = "done"
          => Unyielded = {}
  BY <1>1, <1>3 DEF CmdStream
<1> QED BY <1>1, <1>2, <1>3, <1>4, HeldSameKeeps

\* After Ctrl-C every task has ended.
LEMMA TerminatedKeeps == ASSUME PoolInv, CmdInv, Terminated PROVE PoolInv' /\ CmdInv'
<1>1. UNCHANGED cmdvars /\ ShutDownOver /\ CmdStream BY DEF Terminated, CmdInv
<1>2. PoolInv' /\ Held' = Held BY <1>1, ShutDownOverKeeps
<1>3. UNCHANGED <<succeeded, failures, asked, fate, producer>> BY <1>1 DEF ShutDownOver, feed
<1>4. phase \in {"copy", "delete"} /\ ~asked /\ producer' \in {"sentinels"} \cup ProducerOver /\ fate' = "done"
          => Unyielded = {}
  BY <1>1, <1>3 DEF CmdStream
<1> QED BY <1>1, <1>2, <1>3, <1>4, HeldSameKeeps

\* A copy is over: its file is at the destination in the version of the source.
LEMMA CopyDoneKeeps == ASSUME PoolInv, CmdInv, NEW w \in Workers, CopyDone(w) PROVE PoolInv' /\ CmdInv'
<1> DEFINE f == task[w]
<1>1. /\ phase = "copy" /\ WorkOver(w, TRUE) /\ dst' = [dst EXCEPT ![f] = src[f]]
      /\ UNCHANGED <<options, phase, code, unseen, src_files, unchecked, to_transfer, to_delete, src, changes, absent,
                     steady, refused, deleted>>
  BY DEF CopyDone, plan, world
<1>2. /\ PoolInv' /\ f \in Held /\ Held' = Held \ {f} /\ succeeded' = succeeded \cup {f} /\ failures' = failures
  BY <1>1, WorkOverKeeps
<1>3. UNCHANGED <<producer, fate, asked>> BY <1>1 DEF WorkOver, feed
<1>4. CmdTypes /\ CmdPhases /\ CmdWorld /\ CmdStream /\ CmdDeletes /\ CmdCopies BY DEF CmdInv
<1>5. f \in Items BY <1>2 DEF Held
<1> HIDE DEF f
<1>6. CmdTypes'
  <2>1. src[f] \in Int BY <1>4, <1>5 DEF CmdTypes
  <2>2. dst' \in [Items -> Int] BY <1>1, <1>4, <2>1 DEF CmdTypes
  <2> QED BY <1>1, <1>4, <2>2 DEF CmdTypes
<1>7. CmdPhases' BY <1>1, <1>4 DEF CmdPhases
<1>8. CmdWorld' BY <1>1, <1>4 DEF CmdWorld, Has
<1>9. Unyielded' = Unyielded BY <1>1 DEF Unyielded
<1>10. CmdStream' BY <1>1, <1>2, <1>3, <1>4, <1>9 DEF CmdStream
<1>11. CmdDeletes' BY <1>1, <1>4 DEF CmdDeletes, Spare
<1>12. CmdCopies'
  <2> SUFFICES ASSUME ~options.size_only, ~options.dry_run, NEW g \in Items, Wanted(g)' PROVE Waits(g)'
    BY <1>1 DEF CmdCopies
  <2>1. Waits(g) BY <1>1, <1>4 DEF CmdCopies, Wanted
  <2>2. dst'[g] = IF g = f THEN src[g] ELSE dst[g] BY <1>1, <1>4 DEF CmdTypes
  <2>3. src[g] >= src[g] BY <1>4 DEF CmdTypes
  <2> QED BY <1>1, <1>2, <1>3, <1>9, <2>1, <2>2, <2>3 DEF Waits
<1> QED BY <1>2, <1>6, <1>7, <1>8, <1>10, <1>11, <1>12 DEF CmdInv

\* A deletion is over: its file was absent or excluded, so it was not to be copied.
LEMMA DeleteDoneKeeps == ASSUME PoolInv, CmdInv, NEW w \in Workers, DeleteDone(w) PROVE PoolInv' /\ CmdInv'
<1> DEFINE f == task[w]
<1>1. /\ phase = "delete" /\ WorkOver(w, TRUE) /\ dst' = [dst EXCEPT ![f] = 0] /\ deleted' = deleted \cup {f}
      /\ UNCHANGED <<options, phase, code, unseen, src_files, unchecked, to_transfer, to_delete, src, changes, absent,
                     steady, refused>>
  BY DEF DeleteDone, plan, world
<1>2. /\ PoolInv' /\ f \in Held /\ Held' = Held \ {f} /\ succeeded' = succeeded \cup {f} /\ failures' = failures
  BY <1>1, WorkOverKeeps
<1>3. UNCHANGED <<producer, fate, asked>> BY <1>1 DEF WorkOver, feed
<1>4. CmdTypes /\ CmdPhases /\ CmdWorld /\ CmdStream /\ CmdDeletes /\ CmdCopies BY DEF CmdInv
<1>5. f \in Items /\ f \in Spare BY <1>1, <1>2, <1>4 DEF Held, CmdDeletes
<1> HIDE DEF f
<1>6. CmdTypes'
  <2>1. dst \in [Items -> Int] BY <1>4 DEF CmdTypes
  <2>2. dst' = [dst EXCEPT ![f] = 0] /\ 0 \in Int BY <1>1
  <2>3. dst' \in [Items -> Int] BY <2>1, <2>2
  <2> QED BY <1>1, <1>4, <2>3 DEF CmdTypes
<1>7. CmdPhases' BY <1>1, <1>4 DEF CmdPhases
<1>8. CmdWorld' BY <1>1, <1>4 DEF CmdWorld, Has
<1>9. Unyielded' = Unyielded BY <1>1 DEF Unyielded
<1>10. CmdStream' BY <1>1, <1>2, <1>3, <1>4, <1>9 DEF CmdStream
<1>11. CmdDeletes' BY <1>1, <1>2, <1>4, <1>5 DEF CmdDeletes, Spare
<1>12. CmdCopies'
  <2> SUFFICES ASSUME ~options.size_only, ~options.dry_run, NEW g \in Items, Wanted(g)' PROVE Waits(g)'
    BY <1>1 DEF CmdCopies
  <2>1. Wanted(g) /\ Waits(g) BY <1>1, <1>4 DEF CmdCopies, Wanted
  <2>2. g \notin Spare BY <1>4, <2>1 DEF CmdWorld, Wanted, Spare
  <2>3. dst'[g] = dst[g] BY <1>1, <1>4, <1>5, <2>2 DEF CmdTypes
  <2> QED BY <1>1, <1>2, <1>3, <1>9, <2>1, <2>3 DEF Waits
<1> QED BY <1>2, <1>6, <1>7, <1>8, <1>10, <1>11, <1>12 DEF CmdInv

\* An item fails: a copy may leave a broken destination, which counts as a failure.
LEMMA WorkFailsKeeps == ASSUME PoolInv, CmdInv, NEW w \in Workers, WorkFails(w) PROVE PoolInv' /\ CmdInv'
<1> DEFINE f == task[w]
<1>1. /\ WorkOver(w, FALSE)
      /\ dst' = dst \/ (phase = "copy" /\ dst' = [dst EXCEPT ![f] = Broken])
      /\ UNCHANGED <<options, phase, code, unseen, src_files, unchecked, to_transfer, to_delete, src, changes, absent,
                     steady, refused, deleted>>
  BY DEF WorkFails, plan, world
<1>2. /\ PoolInv' /\ f \in Held /\ Held' = Held \ {f} /\ succeeded' = succeeded /\ failures' = failures \cup {f}
  BY <1>1, WorkOverKeeps
<1>3. UNCHANGED <<producer, fate, asked>> BY <1>1 DEF WorkOver, feed
<1>4. CmdTypes /\ CmdPhases /\ CmdWorld /\ CmdStream /\ CmdDeletes /\ CmdCopies BY DEF CmdInv
<1>5. f \in Items BY <1>2 DEF Held
<1> HIDE DEF f
<1>6. CmdTypes'
  <2>1. dst' \in [Items -> Int] BY <1>1, <1>4 DEF CmdTypes, Broken
  <2> QED BY <1>1, <1>4, <2>1 DEF CmdTypes
<1>7. CmdPhases' BY <1>1, <1>4 DEF CmdPhases
<1>8. CmdWorld' BY <1>1, <1>4 DEF CmdWorld, Has
<1>9. Unyielded' = Unyielded BY <1>1 DEF Unyielded
<1>10. CmdStream' BY <1>1, <1>2, <1>3, <1>4, <1>9 DEF CmdStream
<1>11. CmdDeletes' BY <1>1, <1>2, <1>4 DEF CmdDeletes, Spare
<1>12. CmdCopies'
  <2> SUFFICES ASSUME ~options.size_only, ~options.dry_run, NEW g \in Items, Wanted(g)' PROVE Waits(g)'
    BY <1>1 DEF CmdCopies
  <2>1. Waits(g) BY <1>1, <1>4 DEF CmdCopies, Wanted
  <2>2. dst'[g] = dst[g] \/ (phase = "copy" /\ g = f) BY <1>1, <1>4 DEF CmdTypes
  <2> QED BY <1>1, <1>2, <1>3, <1>9, <2>1, <2>2 DEF Waits
<1> QED BY <1>2, <1>6, <1>7, <1>8, <1>10, <1>11, <1>12 DEF CmdInv

\* Ctrl-C: copies that are cut short leave broken destinations.
LEMMA InterruptedKeeps == ASSUME PoolInv, CmdInv, Interrupted PROVE PoolInv' /\ CmdInv'
<1>1. /\ Interrupt \/ ShutDown
      /\ \E cut \in SUBSET Aborted :
           dst' = IF phase = "copy" THEN [f \in Items |-> IF f \in cut THEN Broken ELSE dst[f]] ELSE dst
      /\ UNCHANGED <<options, phase, code, unseen, src_files, unchecked, to_transfer, to_delete, src, changes, absent,
                     steady, refused, deleted>>
  BY DEF Interrupted, plan, world
<1>2. /\ PoolInv' /\ Held' \subseteq Held /\ Aborted \subseteq Held
      /\ failures' = failures \cup Aborted /\ succeeded' = succeeded /\ asked'
  BY <1>1, InterruptKeeps
<1>3. CmdTypes /\ CmdPhases /\ CmdWorld /\ CmdStream /\ CmdDeletes /\ CmdCopies BY DEF CmdInv
<1>4. dst' \in [Items -> Int] /\ (phase # "copy" => dst' = dst)
  BY <1>1, <1>3 DEF CmdTypes, Broken
<1>5. CmdTypes' BY <1>1, <1>3, <1>4 DEF CmdTypes
<1>6. CmdPhases' BY <1>1, <1>3 DEF CmdPhases
<1>7. CmdWorld' BY <1>1, <1>3 DEF CmdWorld, Has
<1>8. Unyielded' = Unyielded BY <1>1 DEF Unyielded
<1>9. CmdStream' BY <1>1, <1>2, <1>3, <1>8 DEF CmdStream
<1>10. CmdDeletes' BY <1>1, <1>2, <1>3 DEF CmdDeletes, Spare
<1>11. CmdCopies'
  <2> SUFFICES ASSUME ~options.size_only, ~options.dry_run, NEW g \in Items, Wanted(g)' PROVE Waits(g)'
    BY <1>1 DEF CmdCopies
  <2>1. Waits(g) BY <1>1, <1>3 DEF CmdCopies, Wanted
  <2> QED BY <1>1, <1>2, <1>4, <2>1 DEF Waits
<1> QED BY <1>2, <1>5, <1>6, <1>7, <1>9, <1>10, <1>11 DEF CmdInv

\* When the pool of the copies has returned, a file that had to be copied has
\* been, or is one of the failures: the stream is at its end and nothing is held.
LEMMA CopiesSettled ==
    ASSUME PoolInv, CmdInv, phase = "copy", main = "returned", ~options.size_only, ~options.dry_run,
           NEW f \in Items, Wanted(f)
    PROVE  f \in failures \/ dst[f] >= src[f]
<1>1. ~asked /\ Held = {} /\ producer = "done" /\ fate = "done" BY ReturnedEmpty
<1>2. Unyielded = {} BY <1>1 DEF CmdInv, CmdStream, ProducerOver
<1>3. Waits(f) BY DEF CmdInv, CmdCopies
<1> QED BY <1>1, <1>2, <1>3 DEF Waits

\* The copies are over.
LEMMA CopyPhaseOverKeeps == ASSUME PoolInv, CmdInv, CopyPhaseOver PROVE PoolInv' /\ CmdInv'
<1>1. /\ phase = "copy"
      /\ UNCHANGED <<options, dst, unseen, src_files, unchecked, to_transfer, to_delete, src, changes, absent,
                     steady, refused, deleted>>
  BY DEF CopyPhaseOver, plan, world
<1>2. \/ /\ main = "returned" /\ to_delete # {} /\ phase' = "delete" /\ Start
         /\ code' = IF failures # {} THEN 2 ELSE code
      \/ /\ main = "returned" /\ phase' = "exit" /\ code' = (IF failures # {} THEN 2 ELSE 0) /\ UNCHANGED poolvars
      \/ phase' = "exit" /\ code' \in {1, 2} /\ UNCHANGED poolvars
  BY DEF CopyPhaseOver, Exit, ExitCode
<1>3. CmdTypes /\ CmdPhases /\ CmdWorld /\ CmdStream /\ CmdDeletes /\ CmdCopies BY DEF CmdInv
<1>4. /\ PoolInv'
      /\ phase' = "delete" => Held' = {} /\ succeeded' = {} /\ failures' = {} /\ producer' = "enumerate"
  <2>1. CASE phase' = "exit" /\ UNCHANGED poolvars BY <2>1, PoolSame
  <2>2. CASE Start BY <2>2, StartKeeps DEF Start
  <2> QED BY <1>2, <2>1, <2>2
<1>5. CmdTypes' BY <1>1, <1>2, <1>3 DEF CmdTypes
<1>6. CmdPhases' BY <1>1, <1>2, <1>3 DEF CmdPhases
<1>7. CmdWorld' BY <1>1, <1>3 DEF CmdWorld, Has
<1>8. CmdStream' BY <1>1, <1>2, <1>4 DEF CmdStream, Unyielded, ProducerOver
<1>9. CmdDeletes' BY <1>1, <1>2, <1>3, <1>4 DEF CmdDeletes, Spare
<1>10. CmdCopies'
  <2> SUFFICES ASSUME ~options.size_only, ~options.dry_run, NEW g \in Items, Wanted(g)' PROVE Waits(g)'
    BY <1>1 DEF CmdCopies
  <2>1. main = "returned" => g \in failures \/ dst[g] >= src[g] BY <1>1, CopiesSettled DEF Wanted
  <2> QED BY <1>1, <1>2, <2>1 DEF Waits
<1> QED BY <1>4, <1>5, <1>6, <1>7, <1>8, <1>9, <1>10 DEF CmdInv

\* The deletions are over.
LEMMA DeletePhaseOverKeeps == ASSUME PoolInv, CmdInv, DeletePhaseOver PROVE PoolInv' /\ CmdInv'
<1>1. /\ phase = "delete" /\ phase' = "exit" /\ code' = (IF code = 2 \/ failures # {} THEN 2 ELSE 0)
      /\ UNCHANGED <<poolvars, options, dst, unseen, src_files, unchecked, to_transfer, to_delete, src, changes,
                     absent, steady, refused, deleted>>
  BY DEF DeletePhaseOver, Exit, ExitCode, plan, world
<1>2. PoolInv' BY <1>1, PoolSame
<1>3. CmdTypes /\ CmdPhases /\ CmdWorld /\ CmdStream /\ CmdDeletes /\ CmdCopies BY DEF CmdInv
<1>4. CmdTypes' BY <1>1, <1>3 DEF CmdTypes
<1>5. CmdPhases' BY <1>1, <1>3 DEF CmdPhases
<1>6. CmdWorld' BY <1>1, <1>3 DEF CmdWorld, Has
<1>7. CmdStream' BY <1>1 DEF CmdStream
<1>8. CmdDeletes' BY <1>1, <1>3 DEF CmdDeletes, Spare
<1>9. CmdCopies'
  <2> SUFFICES ASSUME ~options.size_only, ~options.dry_run, NEW g \in Items, Wanted(g)' PROVE Waits(g)'
    BY <1>1 DEF CmdCopies
  <2>1. Waits(g) BY <1>1, <1>3 DEF CmdCopies, Wanted
  <2> QED BY <1>1, <2>1 DEF Waits
<1> QED BY <1>2, <1>4, <1>5, <1>6, <1>7, <1>8, <1>9 DEF CmdInv

\* The command starts with an idle pool and nothing seen of the source.
LEMMA CmdInit == Init => PoolInv /\ CmdInv
<1> SUFFICES ASSUME Init PROVE PoolInv /\ CmdInv
  OBVIOUS
<1>1. PICK w \in AllWorkers : PoolIdle(w) BY DEF Init
<1>2. /\ concurrency = w /\ main = "idle" /\ producer = "idle" /\ hand = Nothing /\ owed = 0 /\ fate = "done"
      /\ queue = <<>> /\ worker = [v \in AllWorkers |-> "unused"] /\ task = [v \in AllWorkers |-> Nothing]
      /\ succeeded = {} /\ failures = {} /\ asked = FALSE
  BY <1>1 DEF PoolIdle
<1>3. queue \in Seq(Queue) /\ Len(queue) = 0 BY <1>2
<1>4. w \in Nat \ {0} BY PoolAssumption DEF AllWorkers
<1>5. PoolTypes
  <2>1. worker \in [AllWorkers -> Places] /\ task \in [AllWorkers -> Items \cup {Nothing}] BY <1>2 DEF Places
  <2> QED BY <1>2, <1>3, <2>1 DEF PoolTypes, ProducerOver, AllWorkers
<1>6. PoolShape BY <1>2, <1>3, <1>4, PoolAssumption DEF PoolShape
<1>7. PoolApart BY <1>2, <1>3, PoolAssumption DEF PoolApart, Held, WithWorker, InQueue
<1>8. PoolFlow BY <1>2 DEF PoolFlow
<1>9. /\ options \in Commands /\ phase = "start" /\ code = -1 /\ src \in [Items -> {0, 1}] /\ dst \in [Items -> {0, 1}]
      /\ IF options.name = "sync_file" THEN \E f \in Items : unseen = {f} ELSE unseen = Items
      /\ Has(src) \subseteq unseen /\ src_files = {} /\ unchecked = {} /\ to_transfer = {} /\ to_delete = {}
      /\ absent = Items \ Has(src) /\ steady = Items /\ refused = {} /\ deleted = {}
  BY DEF Init
<1>10. CmdTypes
  <2>1. src \in [Items -> Nat] /\ dst \in [Items -> Int] BY <1>9
  <2>2. unseen \subseteq Items BY <1>9
  <2> QED BY <1>9, <2>1, <2>2 DEF CmdTypes
<1>11. CmdPhases BY <1>9 DEF CmdPhases
<1>12. CmdWorld BY <1>9 DEF CmdWorld, Has
<1>13. CmdStream BY <1>9 DEF CmdStream
<1>14. CmdDeletes BY <1>9 DEF CmdDeletes
<1>15. CmdCopies BY <1>9 DEF CmdCopies, Wanted, Waits, Has
<1> QED BY <1>5, <1>6, <1>7, <1>8, <1>10, <1>11, <1>12, <1>13, <1>14, <1>15 DEF PoolInv, CmdInv

\* Every step of the command, of Ctrl-C and of the others keeps both.
LEMMA CmdStep == PoolInv /\ CmdInv /\ [Next \/ Ended]_vars => PoolInv' /\ CmdInv'
<1> SUFFICES ASSUME PoolInv, CmdInv, [Next \/ Ended]_vars PROVE PoolInv' /\ CmdInv'
  OBVIOUS
<1>1. CASE Begun BY <1>1, BegunKeeps
<1>2. CASE Exclude \/ ListingRefused BY <1>2, ExcludeKeeps, ListingRefusedKeeps
<1>3. CASE Decide BY <1>3, DecideKeeps
<1>4. CASE ScanFails BY <1>4, ScanFailsKeeps
<1>5. CASE StreamEnds BY <1>5, StreamEndsKeeps
<1>6. CASE PoolStep BY <1>6, PoolStepKeeps
<1>7. CASE CopyPhaseOver BY <1>7, CopyPhaseOverKeeps
<1>8. CASE DeletePhaseOver BY <1>8, DeletePhaseOverKeeps
<1>9. CASE Terminated BY <1>9, TerminatedKeeps
<1>10. CASE Interrupted BY <1>10, InterruptedKeeps
<1>11. ASSUME NEW f \in Items,
              BeginFile(f) \/ CompareFile(f) \/ CopyFile(f) \/ Scan(f) \/ Compare(f) \/ YieldFile(f) \/ Skip(f) \/ Change(f)
       PROVE  PoolInv' /\ CmdInv'
  BY <1>11, BeginFileKeeps, CompareFileKeeps, CopyFileKeeps, ScanKeeps, CompareKeeps, YieldFileKeeps, SkipKeeps,
     ChangeKeeps
<1>12. ASSUME NEW w \in Workers, CopyDone(w) \/ DeleteDone(w) \/ WorkFails(w) PROVE PoolInv' /\ CmdInv'
  BY <1>12, CopyDoneKeeps, DeleteDoneKeeps, WorkFailsKeeps
<1>13. CASE UNCHANGED vars
  <2>1. UNCHANGED poolvars /\ UNCHANGED cmdvars BY <1>13 DEF vars
  <2>2. PoolInv' /\ Held' = Held BY <2>1, PoolSame
  <2>3. UNCHANGED <<succeeded, failures, asked, producer, fate>> BY <2>1 DEF poolvars, feed
  <2> QED BY <2>1, <2>2, <2>3, HeldSameKeeps DEF CmdInv, CmdStream
<1> QED BY <1>1, <1>2, <1>3, <1>4, <1>5, <1>6, <1>7, <1>8, <1>9, <1>10, <1>11, <1>12, <1>13
        DEF Next, Command, Ended

\* Every behaviour keeps the invariants of the pool and of the command.
LEMMA CmdAlways == Spec => [](PoolInv /\ CmdInv)
<1> QED BY CmdInit, CmdStep, PTL DEF Spec
-----------------------------------------------------------------------------
\* Exit code 0 of a sync or a cp -r means that every file of the source that
\* nobody changed meanwhile, that is not excluded and that no refused listing hid,
\* is at the destination.
THEOREM ZeroMeansCopied == Spec => []ExitZeroMeansCopied
<1>1. CmdInv => ExitZeroMeansCopied
  <2> SUFFICES ASSUME CmdInv, code = 0, phase = "exit", ~options.size_only, ~options.dry_run,
                      NEW f \in steady \ refused, src[f] # 0, f \notin options.exclude
               PROVE  dst[f] >= src[f]
    BY DEF ExitZeroMeansCopied
  <2>1. f \in Items /\ Wanted(f) BY DEF CmdInv, CmdTypes, Wanted
  <2> QED BY <2>1 DEF CmdInv, CmdCopies, Waits
<1> QED BY <1>1, CmdAlways, PTL

\* --delete removes only files that were missing from the source at some time,
\* that are excluded, or that a refused listing of the source hid.
THEOREM OnlyAbsentDeleted == Spec => []DeletedWasAbsent
<1>1. CmdInv => DeletedWasAbsent BY DEF CmdInv, CmdDeletes, Spare, DeletedWasAbsent
<1> QED BY <1>1, CmdAlways, PTL

\* The pool runs no item twice and drops none on its way from the stream to a
\* worker, and its queue stays within its bound.
THEOREM RunOnce == Spec => []EveryItemRunOnce
<1>1. PoolInv /\ CmdInv => EveryItemRunOnce
  <2> SUFFICES ASSUME PoolInv, CmdInv PROVE EveryItemRunOnce
    OBVIOUS
  <2>1. PoolTypes /\ PoolShape /\ PoolApart BY DEF PoolInv
  <2>2. DOMAIN queue = 1..Len(queue) /\ Len(queue) \in Nat /\ \A i \in 1..Len(queue) : queue[i] \in Queue
    BY <2>1 DEF PoolTypes
  <2>3. Queued = {x \in Items : InQueue(x)} BY <2>2, PoolAssumption DEF Queued, InQueue, Queue
  <2>4. InFlight \subseteq {Nothing} \cup {x \in Items : x = hand \/ WithWorker(x)}
    BY <2>1 DEF InFlight, PoolTypes, WithWorker
  <2>5. InFlight \cap Queued = {} BY <2>1, <2>3, <2>4, PoolAssumption DEF PoolApart
  <2>6. (succeeded \cup failures) \cap (InFlight \cup Queued) = {}
    BY <2>1, <2>3, <2>4, PoolAssumption DEF PoolApart, PoolTypes, Held
  <2>7. Cardinality(Queued) = Cardinality({i \in DOMAIN queue : queue[i] # Stop})
    <3> DEFINE full == {i \in DOMAIN queue : queue[i] # Stop}
               at == [i \in full |-> queue[i]]
    <3>1. IsFiniteSet(1..Len(queue)) BY <2>2, FS_Interval
    <3>2. IsFiniteSet(full) BY <2>2, <3>1, FS_Subset
    <3>3. at \in [full -> Queued] /\ \A x \in Queued : \E i \in full : at[i] = x BY DEF Queued
    <3>4. \A i, j \in full : at[i] = at[j] => i = j
      <4> SUFFICES ASSUME NEW i \in full, NEW j \in full, at[i] = at[j] PROVE i = j
        OBVIOUS
      <4>1. i \in 1..Len(queue) /\ j \in 1..Len(queue) /\ queue[i] = queue[j] /\ queue[i] \in Items
        BY <2>2 DEF Queue
      <4> QED BY <2>1, <4>1 DEF PoolApart
    <3>5. at \in Bijection(full, Queued) BY <3>3, <3>4 DEF Bijection, Injection, Surjection, IsInjective
    <3> HIDE DEF full, at
    <3>6. ExistsBijection(full, Queued) BY <3>5 DEF ExistsBijection
    <3>7. Cardinality(Queued) = Cardinality(full) BY <3>2, <3>6, FS_Bijection
    <3> QED BY <3>7 DEF full
  <2>8. \A v, w \in Workers : task[v] # Nothing /\ task[v] = task[w] => v = w
    <3>1. \A v \in Workers : v \in AllWorkers BY <2>1, PoolAssumption DEF PoolTypes, Workers, AllWorkers
    <3> QED BY <2>1, <3>1 DEF PoolApart, PoolTypes
  <2>9. ASSUME main = "returned", ~asked
        PROVE  /\ queue = <<>> /\ hand = Nothing /\ \A w \in Workers : task[w] = Nothing
               /\ phase = "copy" /\ options.name = "cp" => succeeded \cup failures = src_files
    <3>1. queue = <<>> /\ hand = Nothing /\ (\A w \in AllWorkers : task[w] = Nothing) /\ Held = {}
      BY <2>9, ReturnedEmpty
    <3>2. \A v \in Workers : v \in AllWorkers BY <2>1, PoolAssumption DEF PoolTypes, Workers, AllWorkers
    <3> QED BY <2>9, <3>1, <3>2 DEF CmdInv, CmdStream
  <2>10. Len(queue) <= 2 * concurrency /\ succeeded \cap failures = {} BY <2>1 DEF PoolShape, PoolApart
  <2> QED BY <2>5, <2>6, <2>7, <2>8, <2>9, <2>10 DEF EveryItemRunOnce
<1> QED BY <1>1, CmdAlways, PTL

-----------------------------------------------------------------------------
(* The pool's tasks never wait for each other.                             *)

\* Somebody is not waiting: the stream is read; there is room for what the producer
\* puts; a worker is busy, or finds something in the queue; or the main task
\* finds its gather, or the shutdown, over.
PoolCanGoOn ==
    \/ producer = "enumerate" \/ (producer \in {"put", "sentinels"} /\ QueueHasRoom)
    \/ \E w \in Workers : worker[w] \in {"enter", "work"} \/ (worker[w] = "get" /\ queue # <<>>)
    \/ main = "gather" /\ ((\A w \in Workers : worker[w] = "done") \/ \E w \in Workers : worker[w] = "dead")
    \/ main = "shutdown" /\ producer \in ProducerOver /\ \A w \in Workers : worker[w] \in WorkerOver

\* While the pool runs somebody can go on, unless the shutdown hangs; and it
\* hangs only when Ctrl-C was pressed.
HangsOnlyInterrupted ==
    (main \in {"gather", "shutdown"} => PoolCanGoOn \/ Hung) /\ (Hung => asked)

\* Where the tasks of a pool that runs are not.
PoolRuns ==
    /\ main = "shutdown" => producer \in {"sentinels"} \cup ProducerOver
    /\ main \in {"gather", "shutdown"} => \A w \in Workers : worker[w] # "unused"

\* Ctrl-C moves no worker back to where it was not started.
LEMMA CancelRuns ==
    ASSUME PoolTypes, CancelWorkers, \A w \in Workers : worker[w] # "unused"
    PROVE  \A w \in Workers' : worker'[w] # "unused"
<1>1. \A w \in Workers : w \in AllWorkers BY PoolAssumption DEF PoolTypes, Workers, AllWorkers
<1>2. Workers' = Workers BY DEF CancelWorkers, Workers
<1>3. \A w \in AllWorkers : worker'[w] = CASE worker[w] \in {"get", "enter"} -> "dead"
                                            [] worker[w] = "work" -> "get"
                                            [] OTHER -> worker[w]
  BY DEF CancelWorkers
<1> QED BY <1>1, <1>2, <1>3

\* A step of the pool keeps PoolRuns, ...
LEMMA PoolRunsKept ==
    ASSUME PoolInv, PoolRuns,
           \/ Start \/ Put \/ PutSentinel \/ Finish \/ Interrupt \/ ShutDown \/ ShutDownOver
           \/ (\E f \in Items : Yield(f)) \/ (\E end \in {"done", "failed"} : StreamOver(end))
           \/ \E w \in Workers : Take(w) \/ Begin(w) \/ WorkOver(w, TRUE) \/ WorkOver(w, FALSE)
           \/ UNCHANGED poolvars
    PROVE  PoolRuns'
<1>1. PoolTypes /\ PoolShape /\ PoolFlow BY DEF PoolInv
<1>2. \A w \in Workers : w \in AllWorkers BY <1>1, PoolAssumption DEF PoolTypes, Workers, AllWorkers
<1>3. CASE Start
  <2>1. main' = "gather" /\ concurrency' = concurrency
        /\ worker' = [v \in AllWorkers |-> IF v <= concurrency THEN "get" ELSE "unused"]
    BY <1>3 DEF Start
  <2>2. \A w \in Workers : w <= concurrency BY <1>1 DEF Workers, PoolTypes, AllWorkers
  <2>3. Workers' = Workers BY <2>1 DEF Workers
  <2> QED BY <1>2, <2>1, <2>2, <2>3 DEF PoolRuns
<1>4. CASE Put \/ PutSentinel \/ (\E f \in Items : Yield(f)) \/ (\E end \in {"done", "failed"} : StreamOver(end))
  <2>1. UNCHANGED <<concurrency, main, worker>> /\ producer \in {"put", "enumerate", "sentinels"}
        /\ (producer = "sentinels" => producer' \in {fate, "sentinels"})
    BY <1>4 DEF Put, PutSentinel, Yield, StreamOver
  <2>2. fate \in ProducerOver BY <1>1 DEF PoolTypes
  <2>3. Workers' = Workers BY <2>1 DEF Workers
  <2> QED BY <2>1, <2>2, <2>3 DEF PoolRuns, ProducerOver
<1>5. CASE Finish \/ ShutDownOver
  <2>1. main' \in {"interrupted", "raised", "returned"} BY <1>5 DEF Finish, ShutDownOver
  <2> QED BY <2>1 DEF PoolRuns
<1>6. CASE Interrupt
  <2>1. CancelWorkers /\ main = "gather" /\ main' = main BY <1>6 DEF Interrupt
  <2>2. \A w \in Workers' : worker'[w] # "unused" BY <1>1, <2>1, CancelRuns DEF PoolRuns
  <2> QED BY <2>1, <2>2 DEF PoolRuns
<1>7. CASE ShutDown
  <2>1. CancelWorkers /\ main = "gather" /\ producer' \in {"sentinels", "cancelled"} \cup ProducerOver
    BY <1>7 DEF ShutDown
  <2>2. \A w \in Workers' : worker'[w] # "unused" BY <1>1, <2>1, CancelRuns DEF PoolRuns
  <2> QED BY <2>1, <2>2 DEF PoolRuns, ProducerOver
<1>8. ASSUME NEW w \in Workers, Take(w) \/ Begin(w) \/ WorkOver(w, TRUE) \/ WorkOver(w, FALSE)
      PROVE  PoolRuns'
  <2>1. /\ UNCHANGED <<concurrency, main, producer>>
        /\ \E place \in {"done", "enter", "work", "get"} : worker' = [worker EXCEPT ![w] = place]
    BY <1>8 DEF Take, Begin, WorkOver, feed
  <2>2. Workers' = Workers BY <2>1 DEF Workers
  <2>3. \A v \in Workers : worker[v] # "unused" => worker'[v] # "unused"
    BY <1>1, <1>2, <2>1 DEF PoolTypes
  <2> QED BY <2>1, <2>2, <2>3 DEF PoolRuns
<1>9. CASE UNCHANGED poolvars
  <2>1. UNCHANGED <<concurrency, main, producer, worker>> BY <1>9 DEF poolvars, feed
  <2> QED BY <2>1 DEF PoolRuns, Workers
<1> QED BY <1>3, <1>4, <1>5, <1>6, <1>7, <1>8, <1>9

\* ... and every step of the command is one, or leaves the pool alone.
LEMMA CommandRunsPool ==
    ASSUME [Next \/ Ended]_vars
    PROVE  \/ Start \/ Put \/ PutSentinel \/ Finish \/ Interrupt \/ ShutDown \/ ShutDownOver
           \/ (\E f \in Items : Yield(f)) \/ (\E end \in {"done", "failed"} : StreamOver(end))
           \/ (\E w \in Workers : Take(w) \/ Begin(w) \/ WorkOver(w, TRUE) \/ WorkOver(w, FALSE))
           \/ UNCHANGED poolvars
<1>1. CASE Begun BY <1>1 DEF Begun
<1>2. CASE Exclude \/ ListingRefused BY <1>2 DEF Exclude, ListingRefused
<1>3. CASE Decide BY <1>3 DEF Decide
<1>4. CASE ScanFails BY <1>4 DEF ScanFails
<1>5. CASE StreamEnds BY <1>5 DEF StreamEnds
<1>6. CASE PoolStep BY <1>6 DEF PoolStep
<1>7. CASE CopyPhaseOver BY <1>7 DEF CopyPhaseOver
<1>8. CASE DeletePhaseOver BY <1>8 DEF DeletePhaseOver
<1>9. CASE Terminated BY <1>9 DEF Terminated
<1>10. CASE Interrupted BY <1>10 DEF Interrupted
<1>11. ASSUME NEW f \in Items, BeginFile(f) \/ CompareFile(f) \/ CopyFile(f) \/ Scan(f) \/ Compare(f) \/ Skip(f) \/ Change(f)
       PROVE  UNCHANGED poolvars
  BY <1>11 DEF BeginFile, CompareFile, CopyFile, Scan, Compare, Skip, Change
<1>12. ASSUME NEW f \in Items, YieldFile(f) PROVE Yield(f) BY <1>12 DEF YieldFile
<1>13. ASSUME NEW w \in Workers, CopyDone(w) \/ DeleteDone(w) \/ WorkFails(w)
       PROVE  WorkOver(w, TRUE) \/ WorkOver(w, FALSE)
  BY <1>13 DEF CopyDone, DeleteDone, WorkFails
<1>14. CASE UNCHANGED vars BY <1>14 DEF vars
<1> QED BY <1>1, <1>2, <1>3, <1>4, <1>5, <1>6, <1>7, <1>8, <1>9, <1>10, <1>11, <1>12, <1>13, <1>14
        DEF Next, Command, Ended

\* While the workers are gathered, none of them dead, somebody can go on: a queue
\* that nobody takes from is empty when a worker waits for it, so the
\* producer has room, and when it is over every sentinel was taken.
LEMMA GatherGoesOn ==
    ASSUME PoolInv, PoolRuns, main = "gather"
    PROVE  PoolCanGoOn
<1> SUFFICES ASSUME producer # "enumerate", ~(producer \in {"put", "sentinels"} /\ QueueHasRoom),
                    \A w \in Workers : worker[w] \notin {"enter", "work", "dead"} /\ ~(worker[w] = "get" /\ queue # <<>>)
             PROVE  \A w \in Workers : worker[w] = "done"
  BY DEF PoolCanGoOn
<1>1. PoolTypes /\ PoolShape /\ PoolFlow BY DEF PoolInv
<1>2. \A w \in Workers : w \in AllWorkers BY <1>1, PoolAssumption DEF PoolTypes, Workers, AllWorkers
<1>3. \A w \in Workers : worker[w] \in {"get", "done"} BY <1>1, <1>2 DEF PoolTypes, PoolRuns, Places
<1>4. CASE queue # <<>> BY <1>3, <1>4
<1>5. CASE queue = <<>>
  <2>1. Len(queue) = 0 /\ concurrency \in Nat \ {0} BY <1>1, <1>5, PoolAssumption DEF PoolTypes
  <2>2. QueueHasRoom BY <2>1 DEF QueueHasRoom
  <2>3. owed = 0 /\ InTransit = 0 BY <1>1, <2>1, <2>2 DEF PoolFlow, ProducerOver
  <2>4. Cardinality(DoneWorkers) = concurrency
    <3>1. DoneWorkers \subseteq 1..concurrency BY DEF DoneWorkers, Workers
    <3>2. IsFiniteSet(1..concurrency) /\ Cardinality(1..concurrency) = concurrency BY <2>1, FS_Interval
    <3>3. Cardinality(DoneWorkers) \in Nat BY <3>1, <3>2, FS_Subset, FS_CardinalityType
    <3> QED BY ONLY <2>1, <2>3, <3>3 DEF InTransit
  <2>5. DoneWorkers \subseteq Workers /\ IsFiniteSet(Workers) /\ Cardinality(Workers) = concurrency
    BY <2>1, FS_Interval DEF DoneWorkers, Workers
  <2>6. DoneWorkers = Workers BY <2>4, <2>5, FS_Subset
  <2> QED BY <2>6 DEF DoneWorkers
<1> QED BY <1>4, <1>5

\* After Ctrl-C, the two ways in which nobody goes on are the two ways to hang.
LEMMA ShutdownGoesOn ==
    ASSUME PoolInv, PoolRuns, main = "shutdown"
    PROVE  PoolCanGoOn \/ Hung
<1> SUFFICES ASSUME ~PoolCanGoOn PROVE Hung
  OBVIOUS
<1>1. PoolTypes BY DEF PoolInv
<1>2. \A w \in Workers : w \in AllWorkers BY <1>1, PoolAssumption DEF PoolTypes, Workers, AllWorkers
<1>3. \A w \in Workers : worker[w] \in {"get"} \cup WorkerOver
  BY <1>1, <1>2 DEF PoolTypes, PoolRuns, Places, PoolCanGoOn, WorkerOver
<1>4. CASE queue # <<>>
  <2>1. \A w \in Workers : worker[w] \in WorkerOver BY <1>3, <1>4 DEF PoolCanGoOn
  <2>2. producer = "sentinels" /\ ~QueueHasRoom BY <2>1 DEF PoolCanGoOn, PoolRuns
  <2> QED BY <2>1, <2>2 DEF Hung
<1>5. CASE queue = <<>>
  <2>1. QueueHasRoom
    <3>1. Len(queue) = 0 /\ concurrency \in Nat \ {0} BY <1>1, <1>5, PoolAssumption DEF PoolTypes
    <3> QED BY <3>1 DEF QueueHasRoom
  <2>2. producer \in ProducerOver BY <2>1 DEF PoolCanGoOn, PoolRuns
  <2>3. \E w \in Workers : worker[w] = "get" BY <1>3, <2>2 DEF PoolCanGoOn
  <2> QED BY <1>3, <1>5, <2>2, <2>3 DEF Hung
<1> QED BY <1>4, <1>5

\* The tasks of _run_concurrent_stream never all wait: the producer for room, the
\* workers for an item, the main task for them; unless Ctrl-C was pressed.
THEOREM NoHangUnasked == Spec => []HangsOnlyInterrupted
<1>1. Init => PoolRuns
  <2> SUFFICES ASSUME Init PROVE main = "idle"
    BY DEF PoolRuns
  <2> QED BY DEF Init, PoolIdle
<1>2. PoolInv /\ PoolRuns /\ [Next \/ Ended]_vars => PoolRuns' BY CommandRunsPool, PoolRunsKept
<1>3. PoolInv /\ PoolRuns => HangsOnlyInterrupted
  BY GatherGoesOn, ShutdownGoesOn DEF HangsOnlyInterrupted, Hung, PoolInv, PoolShape
<1> QED BY <1>1, <1>2, <1>3, CmdAlways, PTL DEF Spec
=============================================================================
